---------------------------- MODULE PacketInput ----------------------------
(***************************************************************************)
(* How received bytes become messages: the socket's thread fills a buffer  *)
(* (src/src/lib/net/TCPSocket.cpp), the filter cuts the bytes into packets *)
(* (src/src/lib/deskflow/PacketStreamFilter.cpp) and tells the reader when *)
(* the first one is whole, and the reader handles them in turns of bounded *)
(* length (src/src/lib/deskflow/TurnBudget.h, ServerProxy::handleData and  *)
(* ClientProxy1_0::handleData), the first one, the hello, by another       *)
(* handler (Client::handleHello).  A packet's contents are left out.       *)
(***************************************************************************)
EXTENDS Naturals, Sequences, FiniteSets

CONSTANTS
    Packets,          \* the lengths of the packets the peer has for us
    Header,           \* the length of the header that holds a packet's length
    MaxMessages,      \* messages in a turn, TurnBudget::kMaxMessages
    MaxBytes          \* bytes in a turn, TurnBudget::kMaxBytes

ASSUME PacketAssumption ==
    /\ Packets \in Seq(Nat \ {0}) /\ Header \in Nat \ {0}
    /\ MaxMessages \in Nat \ {0} /\ MaxBytes \in Nat \ {0}

VARIABLES
    toCome,           \* bytes the peer sends, and then the end
    m_inputBuffer,    \* bytes in the socket's buffer
    readable,         \* m_readable: the socket's thread has not seen the end
    m_buffer,         \* bytes in the filter's buffer
    m_size,           \* bytes of the current packet, 0 before its header
    m_inputShutdown,
    headers,          \* headers that have been read
    handled,          \* messages the readers have handled
    m_messages, m_bytes,  \* what the turn has used of its budget
    events,           \* the event queue
    pc,               \* what the main thread does
    wasReady,         \* while it reads more, whether a packet was whole before
    closed,           \* a handler has been told of the end
    total             \* the length of the stream

socket == <<toCome, m_inputBuffer, readable>>
filter == <<m_buffer, m_size, headers>>
budget == <<m_messages, m_bytes>>
inputVars == <<socket, filter, m_inputShutdown, handled, budget, events, pc, wasReady, closed, total>>

\* Where packet n ends in the stream.
EndOf[n \in 0 .. Len(Packets)] == IF n = 0 THEN 0 ELSE EndOf[n - 1] + Header + Packets[n]
Whole(n) == Cardinality({i \in DOMAIN Packets : EndOf[i] <= n})

\* Events of the socket, of the filter, and of the reader.
EventType == {"SocketReady", "SocketShutdown", "Ready", "Shutdown", "FormatError", "Continue"}

InputTypeOK ==
    /\ toCome \in Nat /\ m_inputBuffer \in Nat /\ m_buffer \in Nat /\ m_size \in Nat
    /\ headers \in 0 .. Len(Packets) /\ handled \in 0 .. Len(Packets)
    /\ readable \in BOOLEAN /\ m_inputShutdown \in BOOLEAN
    /\ m_messages \in 0 .. MaxMessages /\ m_bytes \in Nat
    /\ events \in Seq(EventType)
    /\ pc \in {"loop", "reading", "turn"}
    /\ wasReady \in BOOLEAN /\ closed \in BOOLEAN
    /\ total \in 0 .. EndOf[Len(Packets)]

\* The peer may break off anywhere.
InputInit ==
    /\ total \in 0 .. EndOf[Len(Packets)]
    /\ toCome = total /\ m_inputBuffer = 0 /\ readable = TRUE
    /\ m_buffer = 0 /\ m_size = 0 /\ headers = 0
    /\ m_inputShutdown = FALSE
    /\ handled = 0 /\ m_messages = 0 /\ m_bytes = 0
    /\ events = <<>> /\ pc = "loop" /\ wasReady = FALSE
    /\ closed = FALSE

IsReady == m_size # 0 /\ m_buffer >= m_size

\* Mutant: a header is read before the last byte of it has come.
HeaderTooEarly(bytes, size) ==
    IF size = 0 /\ bytes + 1 >= Header /\ headers < Len(Packets)
    THEN /\ m_buffer' = bytes - Header /\ m_size' = Packets[headers + 1]
         /\ headers' = headers + 1
    ELSE m_buffer' = bytes /\ m_size' = size /\ UNCHANGED headers

\* readPacketSize, with bytes in the buffer and size as m_size.
ReadPacketSize(bytes, size) ==
    IF size = 0 /\ bytes >= Header
    THEN /\ m_buffer' = bytes - Header /\ m_size' = Packets[headers + 1]
         /\ headers' = headers + 1
    ELSE m_buffer' = bytes /\ m_size' = size /\ UNCHANGED headers

-----------------------------------------------------------------------------
(* The socket's thread: TCPSocket::doRead *)

Receive ==
    /\ readable /\ ~closed
    /\ \E n \in 1 .. toCome :
           /\ toCome' = toCome - n
           /\ m_inputBuffer' = m_inputBuffer + n
    /\ events' = IF m_inputBuffer = 0 THEN Append(events, "SocketReady") ELSE events
    /\ UNCHANGED <<readable, filter, m_inputShutdown, handled, budget, pc, wasReady,
                   closed, total>>

ReceiveEnd ==
    /\ readable /\ ~closed /\ toCome = 0
    /\ readable' = FALSE
    /\ events' = Append(events, "SocketShutdown")
    /\ UNCHANGED <<toCome, m_inputBuffer, filter, m_inputShutdown, handled, budget, pc,
                   wasReady, closed, total>>

-----------------------------------------------------------------------------
(* The main thread: PacketStreamFilter::filterEvent *)

Dispatches(event) == pc = "loop" /\ ~closed /\ events # <<>> /\ Head(events) = event

\* readMore; the socket's thread may add more between two reads.
FilterInputReady ==
    /\ Dispatches("SocketReady")
    /\ events' = Tail(events)
    /\ pc' = "reading" /\ wasReady' = IsReady
    /\ UNCHANGED <<socket, filter, m_inputShutdown, handled, budget, closed, total>>

ReadMore ==
    /\ pc = "reading" /\ m_inputBuffer > 0
    /\ m_inputBuffer' = 0
    /\ ReadPacketSize(m_buffer + m_inputBuffer, m_size)
    /\ UNCHANGED <<toCome, readable, m_inputShutdown, handled, budget, events, pc,
                   wasReady, closed, total>>

\* The reader is told only if a packet has become whole.
ReadNoMore ==
    /\ pc = "reading" /\ m_inputBuffer = 0
    /\ pc' = IF wasReady # IsReady THEN "turn" ELSE "loop"
    /\ m_messages' = 0 /\ m_bytes' = 0
    /\ UNCHANGED <<socket, filter, m_inputShutdown, handled, events, wasReady, closed, total>>

\* Mutant: a whole packet in the buffer is not waited for.
ShutdownAtOnce ==
    /\ Dispatches("SocketShutdown")
    /\ m_inputShutdown' = TRUE /\ closed' = TRUE
    /\ m_size' = 0
    /\ events' = Tail(events)
    /\ UNCHANGED <<socket, m_buffer, headers, handled, budget, pc, wasReady, total>>

\* A whole packet is handled first; without one the reader is told, and a
\* part of a packet is an error besides.
FilterInputShutdown ==
    /\ Dispatches("SocketShutdown")
    /\ m_inputShutdown' = TRUE
    /\ IF IsReady THEN events' = Tail(events) /\ UNCHANGED <<closed, m_size>>
       ELSE /\ closed' = TRUE
            /\ m_size' = 0
            /\ events' = Tail(events) \o (IF m_size = 0 THEN <<>> ELSE <<"FormatError">>)
    /\ UNCHANGED <<socket, m_buffer, headers, handled, budget, pc, wasReady, total>>

-----------------------------------------------------------------------------
(* The main thread: the readers *)

\* An event for the reader: a turn begins, or the end.
BeginTurn ==
    /\ Dispatches("Ready") \/ Dispatches("Continue")
    /\ events' = Tail(events)
    /\ pc' = "turn" /\ m_messages' = 0 /\ m_bytes' = 0
    /\ UNCHANGED <<socket, filter, m_inputShutdown, handled, wasReady, closed, total>>

HandleShutdown ==
    /\ Dispatches("Shutdown")
    /\ events' = Tail(events)
    /\ closed' = TRUE
    /\ UNCHANGED <<socket, filter, m_inputShutdown, handled, budget, pc, wasReady, total>>

\* Mutant: the end that was put off is forgotten.
ReadForgetsShutdown ==
    /\ ReadPacketSize(m_buffer - m_size, 0)
    /\ UNCHANGED events

\* PacketStreamFilter::read, to the end of the packet; then the end that was
\* put off is signalled, if the next header is not there.
Read ==
    /\ ReadPacketSize(m_buffer - m_size, 0)
    /\ events' = IF m_inputShutdown /\ m_size' = 0 THEN Append(events, "Shutdown") ELSE events

\* handleHello: one message, which does not count; the rest is for the next
\* handler.
HandleHello ==
    /\ pc = "turn" /\ handled = 0 /\ IsReady
    /\ LET bytes == m_buffer - m_size
           next == bytes >= Header
       IN  /\ ReadPacketSize(bytes, 0)
           /\ events' = events
                  \o (IF m_inputShutdown /\ ~next THEN <<"Shutdown">> ELSE <<>>)
                  \o (IF next /\ m_buffer' >= m_size' THEN <<"Ready">> ELSE <<>>)
    /\ handled' = 1 /\ pc' = "loop"
    /\ UNCHANGED <<socket, m_inputShutdown, budget, wasReady, closed, total>>

\* TurnBudget::exhausted.
Exhausted == m_messages >= MaxMessages \/ m_bytes >= MaxBytes

\* handleData: a message; what is counted is the length of the next packet, if
\* that is whole.
HandleMessage ==
    /\ pc = "turn" /\ handled > 0 /\ IsReady /\ ~Exhausted
    /\ Read
    /\ handled' = handled + 1
    /\ m_messages' = m_messages + 1
    /\ m_bytes' = m_bytes + (IF m_size' # 0 /\ m_buffer' >= m_size' THEN m_size' ELSE 0)
    /\ UNCHANGED <<socket, m_inputShutdown, pc, wasReady, closed, total>>

\* Mutant: the filter is relied on for the rest.
EndTurnWithoutRest ==
    /\ pc = "turn" /\ (~IsReady \/ (handled > 0 /\ Exhausted))
    /\ pc' = "loop"
    /\ UNCHANGED <<socket, filter, m_inputShutdown, handled, budget, events, wasReady, closed,
                   total>>

\* The end of handleData: what is left is for a later turn.
EndTurn ==
    /\ pc = "turn" /\ (~IsReady \/ (handled > 0 /\ Exhausted))
    /\ pc' = "loop"
    /\ events' = IF Exhausted /\ IsReady THEN Append(events, "Continue") ELSE events
    /\ UNCHANGED <<socket, filter, m_inputShutdown, handled, budget, wasReady, closed, total>>

-----------------------------------------------------------------------------
(* The specification *)

SocketThread == Receive \/ ReceiveEnd

MainThread ==
    \/ FilterInputReady \/ ReadMore \/ ReadNoMore \/ FilterInputShutdown
    \/ BeginTurn \/ HandleShutdown \/ HandleHello \/ HandleMessage \/ EndTurn

InputNext == SocketThread \/ MainThread

\* Both threads run; nothing is known of the order.
InputSpec == InputInit /\ [][InputNext]_inputVars /\ WF_inputVars(SocketThread) /\ WF_inputVars(MainThread)

-----------------------------------------------------------------------------
(* Properties *)

\* The end comes last: whoever is told of it has handled every packet that
\* arrived whole (PacketStreamFilter::filterEvent, "we have a complete packet,
\* so we can process it before shutting down").
EndComesLast == closed => handled = Whole(total)

\* Every packet that arrives whole is handled, though the filter speaks up
\* only when it becomes ready and a turn may stop in the middle
\* (PacketStreamFilter::readMore, ServerProxy::handleData, Client::handleHello).
AllHandled == <>[](handled = Whole(total))

\* The reader learns of the end of a stream that does not end in the middle of
\* a packet (PacketStreamFilter::read).
BetweenPackets == \E n \in 0 .. Len(Packets) : total - EndOf[n] \in 0 .. Header - 1
EndSignalled == BetweenPackets => <>closed

\* The same of every stream, "we should signal an error and then shut down"
\* (PacketStreamFilter::filterEvent).
EndAlwaysSignalled == <>closed
=============================================================================
