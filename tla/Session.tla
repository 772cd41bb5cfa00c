------------------------------- MODULE Session -------------------------------
(***************************************************************************)
(* A client and a server over a network that may lose a connection without *)
(* a word: the composition of ClientSession and ServerSessions.            *)
(***************************************************************************)
EXTENDS ClientSession, ServerSessions

vars == <<clientVars, serverVars, network, clientEvents, serverEvents, troubles>>

TypeOK == ConnectionsTypeOK /\ ClientTypeOK /\ ServerTypeOK

Init == ConnectionsInit /\ ClientInit /\ ServerInit

\* No keep-alive will come: the server's proxy does not send them.
ServerSilent == m_stream \in cut \/ (AtRest(m_stream) /\ proxy[m_stream] # "live")

\* The network has lost the connection, or the client has closed it.
ClientSilent(k) == k \in cut \/ (AtRest(k) /\ m_stream # k)

\* A connection for a new socket of the client: as they do not differ before
\* they are used, any of those nobody has a part of any more.
Unused ==
    LET free == {k \in Conns \ (Held \cup {m_stream}) : AtRest(k)}
    IN  {k \in free : k = CHOOSE first \in free : TRUE}

ClientStep == ~fault /\ ClientHandlers(Unused) /\ UNCHANGED <<serverVars, serverEvents>>
ClientTimer == /\ ~fault /\ ClientTimers(Unused, ServerSilent)
               /\ UNCHANGED <<serverVars, serverEvents>>
ServerStep == /\ ~fault /\ ServerHandlers
              /\ UNCHANGED <<clientVars, clientEvents, troubles>>
ServerTimer(k) == /\ ~fault /\ ServerTimers(k, ClientSilent(k))
                  /\ UNCHANGED <<clientVars, clientEvents>>
Arrive(k) == /\ ~fault /\ (ArriveAtClient(k, m_stream = k) \/ ArriveAtServer(k))
             /\ UNCHANGED <<clientVars, serverVars>>

Sleep == ~fault /\ Suspend /\ UNCHANGED <<serverVars, serverEvents>>
Wake == ~fault /\ Resume /\ UNCHANGED <<serverVars, serverEvents>>
Reconfigure == ~fault /\ Reload /\ UNCHANGED <<clientVars, clientEvents>>
Lose(k) == ~fault /\ Cut(k) /\ UNCHANGED <<clientVars, serverVars>>

Next ==
    \/ ClientStep \/ ClientTimer \/ ServerStep
    \/ Sleep \/ Wake \/ Reconfigure
    \/ \E k \in Conns : ServerTimer(k) \/ Arrive(k) \/ Lose(k)

Spec == Init /\ [][Next]_vars

\* Both programs take their events, the network delivers, a timer that nobody
\* stops expires, a computer that sleeps wakes up, and the name comes back
\* into the configuration.
FairSpec ==
    /\ Spec
    /\ WF_vars(ClientStep) /\ SF_vars(ClientTimer) /\ WF_vars(ServerStep)
    /\ WF_vars(Wake) /\ SF_vars(~listed /\ Reconfigure)
    /\ \A k \in Conns : SF_vars(ServerTimer(k)) /\ WF_vars(Arrive(k))

Established == phase = "ready" /\ member = m_stream

\* The client and the server come to one session and keep it, whatever
\* half-open connection, pending timer or old client the last trouble has left
\* behind (ClientApp::scheduleClientRestart, Server::closeClient,
\* ClientProxy1_0::handleFlatline, ServerProxy::handleKeepAliveAlarm).
ComesTogether == <>[](fault \/ Established)
=============================================================================
