--------------------------- MODULE ClipboardChunks ---------------------------
(***************************************************************************)
(* How one clipboard transfer is cut into messages and put together again  *)
(* (StreamChunker, ClipboardChunkPacer and ClipboardChunk in               *)
(* src/src/lib/deskflow/).  A content is a number with a size in chunks; a *)
(* message carries one chunk of it.                                        *)
(***************************************************************************)
EXTENDS Naturals, Sequences, FiniteSetsExt

CONSTANT MaxChunksPerTurn         \* kMaxChunksPerTurn

ASSUME TurnAssumption == MaxChunksPerTurn \in Nat \ {0}

-----------------------------------------------------------------------------
(* Sending *)

NoSender == [active |-> FALSE, id |-> 0, content |-> 0, size |-> 0,
             offset |-> 0, chunksThisTurn |-> 0]

NewSender(id, content, size) ==
    [active |-> TRUE, id |-> id, content |-> content, size |-> size,
     offset |-> 0, chunksThisTurn |-> 0]

Start(id, content, size) ==
    [id |-> id, mark |-> "DataStart", content |-> content, part |-> size]
Data(id, content, part) ==
    [id |-> id, mark |-> "DataChunk", content |-> content, part |-> part]
End(id, content) ==
    [id |-> id, mark |-> "DataEnd", content |-> content, part |-> 0]

\* The number of chunks one call of sendNext writes: it goes on until the
\* payload is drained or shouldYield, which looks at a count that no turn resets.
TurnLength(s) ==
    Min({s.size - s.offset,
         IF s.chunksThisTurn < MaxChunksPerTurn
         THEN MaxChunksPerTurn - s.chunksThisTurn ELSE 1})

Drained(s) == s.offset + TurnLength(s) = s.size

\* The messages of a turn, and the sender after it.
TurnMessages(s) ==
    [i \in 1 .. TurnLength(s) |-> Data(s.id, s.content, s.offset + i)]
    \o IF Drained(s) THEN <<End(s.id, s.content)>> ELSE <<>>

\* Mutant: the end marker is written with the first turn's chunks.
TurnMessagesEndEarly(s) ==
    [i \in 1 .. TurnLength(s) |-> Data(s.id, s.content, s.offset + i)]
    \o <<End(s.id, s.content)>>

\* Mutant: the sender goes on when everything is sent.
AfterTurnNeverDone(s) ==
    [s EXCEPT !.offset = @ + TurnLength(s),
              !.chunksThisTurn = @ + TurnLength(s)]

AfterTurn(s) ==
    IF Drained(s) THEN NoSender
    ELSE [s EXCEPT !.offset = @ + TurnLength(s),
                   !.chunksThisTurn = @ + TurnLength(s)]

\* A transfer starts with the size message and its first turn.
StartMessages(id, content, size) ==
    <<Start(id, content, size)>> \o TurnMessages(NewSender(id, content, size))

-----------------------------------------------------------------------------
(* Receiving *)

NoTransfer == [expected |-> 0, received |-> 0, active |-> FALSE,
               discarding |-> FALSE, cache |-> <<>>]

Error == [result |-> "Error", next |-> NoTransfer]

\* Mutant: a start message does not empty the cache of an unfinished transfer.
AssembleStartKeepsCache(t, m, limit, skip) ==
    [result |-> "Started",
     next |-> [t EXCEPT !.expected = m.part, !.received = 0, !.active = TRUE,
                        !.discarding = m.part > limit]]

AssembleStart(t, m, limit, skip) ==
    IF m.part > limit /\ ~skip THEN Error
    ELSE [result |-> "Started",
          next |-> [NoTransfer EXCEPT !.expected = m.part, !.active = TRUE,
                                      !.discarding = m.part > limit]]

AssembleData(t, m) ==
    IF ~t.active \/ t.received + 1 > t.expected THEN Error
    ELSE [result |-> "InProgress",
          next |-> [t EXCEPT !.received = @ + 1,
                             !.cache = IF t.discarding THEN @
                                       ELSE Append(@, <<m.content, m.part>>)]]

AssembleEnd(t) ==
    IF ~t.active \/ t.received # t.expected THEN Error
    ELSE IF t.discarding THEN [result |-> "Skipped", next |-> NoTransfer]
    ELSE [result |-> "Finished", next |-> [t EXCEPT !.active = FALSE]]

\* ClipboardChunk::assemble: the verdict on message m, and the state after it.
Assemble(t, m, limit, skip) ==
    CASE m.mark = "DataStart" -> AssembleStart(t, m, limit, skip)
      [] m.mark = "DataChunk" -> AssembleData(t, m)
      [] m.mark = "DataEnd" -> AssembleEnd(t)

\* The cache holds the chunks of content c, all of them and in order.
Whole(cache, c, size) == cache = [i \in 1 .. size |-> <<c, i>>]
=============================================================================
