SPECIFICATION Spec
CONSTANTS
    Null = Null
    Keys <- ServerKeys
    KeyId <- FrenchKeys
    Modifier <- FrenchModifier
    Modifiers <- ShiftCtrl
    Layout <- AmericanLayout
    m_modifierKeys <- AmericanModifiers
    Platform = "windows"
    RemapsHeld = FALSE
INVARIANTS NothingStuck ModifiersAgree TypedAsAsked
