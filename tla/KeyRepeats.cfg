SPECIFICATION Spec
CONSTANTS
    Null = Null
    Keys <- ServerKeys
    KeyId <- FrenchKeys
    Modifier <- FrenchModifier
    Modifiers <- ShiftCtrl
    Layout <- AmericanLayout
    m_modifierKeys <- AmericanModifiers
    Platform = "linux"
    RemapsHeld = FALSE
INVARIANT NothingStuck
