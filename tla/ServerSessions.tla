--------------------------- MODULE ServerSessions ---------------------------
(***************************************************************************)
(* The server's ends of the connections: sockets accepted by               *)
(* src/src/lib/server/ClientListener.cpp, the handshake by                 *)
(* src/src/lib/server/ClientProxyUnknown.cpp, the proxy of a client        *)
(* (src/src/lib/server/ClientProxy1_0.cpp), the queue of clients that wait *)
(* for the application, and the server's lists of clients, of which it has *)
(* at most one of a name.  Clients here are instances of one client, so    *)
(* they all have one name.                                                 *)
(***************************************************************************)
EXTENDS Connections

VARIABLES
    unknown,          \* connection -> state of its ClientProxyUnknown
    proxy,            \* connection -> state of its ClientProxy
    m_waitingClients,
    member,           \* the client in m_clients, None where there is none
    m_oldClients,     \* clients told to close, each with a five second timer
    listed,           \* the name is a screen of the configuration
    fault             \* a deleted object was used

\* No object; hello sent; hello back received, m_stream handed to m_proxy;
\* sendSuccess called; sendFailure called with the stream, or without it.
UnknownStates == {"none", "hello", "proxy", "success", "failed", "failedProxy"}

\* No object; QInfo sent; DInfo received, keep-alives go out; disconnect called.
ProxyStates == {"none", "handshake", "live", "closed"}

serverVars == <<unknown, proxy, m_waitingClients, member, m_oldClients, listed, fault>>

ServerTypeOK ==
    /\ unknown \in [Conns -> UnknownStates]
    /\ proxy \in [Conns -> ProxyStates]
    /\ m_waitingClients \in Seq(Conns)
    /\ member \in Conns \cup {None}
    /\ m_oldClients \subseteq Conns
    /\ listed \in BOOLEAN /\ fault \in BOOLEAN

ServerInit ==
    /\ unknown = [k \in Conns |-> "none"]
    /\ proxy = [k \in Conns |-> "none"]
    /\ m_waitingClients = <<>>
    /\ member = None
    /\ m_oldClients = {}
    /\ listed = TRUE
    /\ fault = FALSE

\* Connections the server has an object for.
Held == {k \in Conns : unknown[k] # "none" \/ proxy[k] # "none"}

lists == <<m_waitingClients, member, m_oldClients>>

-----------------------------------------------------------------------------
(* ClientListener and ClientProxyUnknown *)

\* handleClientConnecting: the socket, and the event that it is accepted.
HandleClientConnecting(k) ==
    /\ ServerDispatches(k, "Connecting")
    /\ ServerPosts(<<Event(k, "Accepted")>>)
    /\ UNCHANGED <<serverVars, network>>

\* handleClientAccepted: a ClientProxyUnknown, which says hello.
HandleClientAccepted(k) ==
    /\ ServerDispatches(k, "Accepted")
    /\ unknown' = [unknown EXCEPT ![k] = "hello"]
    /\ toClient' = Send(toClient, k, <<"Hello">>)
    /\ ServerPosts(<<>>)
    /\ UNCHANGED <<proxy, lists, listed, fault, toServer, cut>>

\* handleData: the proxy takes the stream and asks for the client's screen.
HandleHelloBack(k) ==
    /\ ServerDispatches(k, "HelloBack") /\ unknown[k] = "hello"
    /\ unknown' = [unknown EXCEPT ![k] = "proxy"]
    /\ proxy' = [proxy EXCEPT ![k] = "handshake"]
    /\ toClient' = Send(toClient, k, <<"QInfo">>)
    /\ ServerPosts(<<>>)
    /\ UNCHANGED <<lists, listed, fault, toServer, cut>>

\* sendFailure: the proxy, where there is one, is deleted.
SendFailure(k, rest) ==
    /\ proxy' = [proxy EXCEPT ![k] = "none"]
    /\ unknown' = [unknown EXCEPT ![k] = IF @ = "hello" THEN "failed" ELSE "failedProxy"]
    /\ serverEvents' = Append(rest, Event(k, "Failure"))
    /\ UNCHANGED <<lists, listed, fault, network>>

\* handleTimeout: thirty seconds without a complete handshake.
HandleUnknownTimeout(k, clientSilent) ==
    /\ serverEvents = <<>> /\ unknown[k] \in {"hello", "proxy"}
    /\ Expires(clientSilent)
    /\ SendFailure(k, <<>>)

\* handleDisconnect, before there is a proxy.
HandleUnknownDisconnect(k) ==
    /\ ServerDispatches(k, "End") /\ unknown[k] = "hello"
    /\ SendFailure(k, Tail(serverEvents))

\* sendSuccess, when the proxy has posted that it is ready.
HandleProxyReady(k) ==
    /\ ServerDispatches(k, "ProxyReady") /\ unknown[k] = "proxy"
    /\ unknown' = [unknown EXCEPT ![k] = "success"]
    /\ ServerPosts(<<Event(k, "Success")>>)
    /\ UNCHANGED <<proxy, lists, listed, fault, network>>

\* Mutant: a handshake that failed after its success is not told from one
\* that did not.
FailedWaits(k) ==
    /\ ServerDispatches(k, "Success") /\ unknown[k] # "none"
    /\ unknown' = [unknown EXCEPT ![k] = "none"]
    /\ m_waitingClients' = Append(m_waitingClients, k)
    /\ ServerPosts(<<Event(None, "ListenerAccepted")>>)
    /\ UNCHANGED <<proxy, member, m_oldClients, listed, fault, network>>

\* Mutant: the event is posted only for the first client of the queue.
FirstAnnounced(k) ==
    /\ ServerDispatches(k, "Success") /\ unknown[k] # "none"
    /\ unknown' = [unknown EXCEPT ![k] = "none"]
    /\ IF unknown[k] = "success"
       THEN /\ m_waitingClients' = Append(m_waitingClients, k)
            /\ ServerPosts(IF m_waitingClients = <<>>
                           THEN <<Event(None, "ListenerAccepted")>> ELSE <<>>)
       ELSE ServerPosts(<<>>) /\ UNCHANGED m_waitingClients
    /\ UNCHANGED <<proxy, member, m_oldClients, listed, fault, network>>

\* handleUnknownClient: the client waits for the application; one that failed
\* after all is thrown away.
HandleUnknownClient(k) ==
    /\ ServerDispatches(k, "Success") /\ unknown[k] # "none"
    /\ unknown' = [unknown EXCEPT ![k] = "none"]
    /\ IF unknown[k] = "success"
       THEN /\ m_waitingClients' = Append(m_waitingClients, k)
            /\ ServerPosts(<<Event(None, "ListenerAccepted")>>)
       ELSE ServerPosts(<<>>) /\ UNCHANGED m_waitingClients
    /\ UNCHANGED <<proxy, member, m_oldClients, listed, fault, network>>

\* The handler of ClientProxyUnknownFailure.  The socket is deleted, and with
\* it closed, only if the stream has not been handed to a proxy.
HandleUnknownFailure(k) ==
    /\ ServerDispatches(k, "Failure") /\ unknown[k] # "none"
    /\ unknown' = [unknown EXCEPT ![k] = "none"]
    /\ toClient' = IF unknown[k] = "failed" THEN Send(toClient, k, <<"End">>)
                   ELSE toClient
    /\ ServerPosts(<<>>)
    /\ UNCHANGED <<proxy, lists, listed, fault, toServer, cut>>

-----------------------------------------------------------------------------
(* ClientProxy *)

\* parseHandshakeMessage.
HandleInfo(k) ==
    /\ ServerDispatches(k, "DInfo") /\ proxy[k] = "handshake"
    /\ proxy' = [proxy EXCEPT ![k] = "live"]
    /\ toClient' = Send(toClient, k, <<"CInfoAck">>)
    /\ ServerPosts(<<Event(k, "ProxyReady")>>)
    /\ UNCHANGED <<unknown, lists, listed, fault, toServer, cut>>

\* disconnect: close the stream and say so.
Disconnect(k, rest) ==
    /\ proxy' = [proxy EXCEPT ![k] = "closed"]
    /\ toClient' = Send(toClient, k, <<"End">>)
    /\ serverEvents' = Append(rest, Event(k, "ProxyDisconnected"))
    /\ UNCHANGED <<unknown, lists, listed, fault, toServer, cut>>

\* handleDisconnect: the client has closed the connection.
HandleProxyDisconnect(k) ==
    /\ ServerDispatches(k, "End") /\ proxy[k] \in {"handshake", "live"}
    /\ Disconnect(k, Tail(serverEvents))

\* Mutant: the heartbeat's timer is removed, and nothing else.
FlatlineIgnored(k, clientSilent) == FALSE

\* handleFlatline: no message of the client has come in time.
HandleFlatline(k, clientSilent) ==
    /\ serverEvents = <<>> /\ proxy[k] = "live"
    /\ Expires(clientSilent)
    /\ Disconnect(k, <<>>)

\* ClientProxyDisconnected, taken by whoever has the client.  The listener
\* casts the client's stream to a socket, which it is not, and uses it after
\* the client has deleted it.
HandleProxyDisconnected(k) ==
    /\ ServerDispatches(k, "ProxyDisconnected") /\ proxy[k] # "none"
    /\ \/ /\ unknown[k] \in {"proxy", "success"}
          /\ SendFailure(k, Tail(serverEvents))
       \/ /\ k \in Range(m_waitingClients)
          /\ fault' = TRUE
          /\ ServerPosts(<<>>)
          /\ UNCHANGED <<unknown, proxy, lists, listed, network>>
       \/ /\ k = member \/ k \in m_oldClients
          /\ proxy' = [proxy EXCEPT ![k] = "none"]
          /\ member' = IF member = k THEN None ELSE member
          /\ m_oldClients' = m_oldClients \ {k}
          /\ ServerPosts(<<>>)
          /\ UNCHANGED <<unknown, m_waitingClients, listed, fault, network>>

-----------------------------------------------------------------------------
(* Server *)

Write(k, message) ==
    IF proxy[k] = "closed" THEN toClient ELSE Send(toClient, k, <<message>>)

\* ServerApp::handleClientConnected: getNextClient and Server::adoptClient.
HandleListenerAccepted ==
    /\ ServerDispatches(None, "ListenerAccepted")
    /\ IF m_waitingClients = <<>> THEN UNCHANGED <<lists, toClient>>
       ELSE LET k == Head(m_waitingClients)
            IN  /\ m_waitingClients' = Tail(m_waitingClients)
                /\ IF listed /\ member = None
                   THEN member' = k /\ UNCHANGED m_oldClients
                   ELSE m_oldClients' = m_oldClients \cup {k} /\ UNCHANGED member
                /\ toClient' = Write(k, IF ~listed THEN "EUnknown"
                                        ELSE IF member # None THEN "EBusy"
                                        ELSE "DSetOptions")
    /\ ServerPosts(<<>>)
    /\ UNCHANGED <<unknown, proxy, listed, fault, toServer, cut>>

\* closeClient of the member, if there is one.
CloseMember ==
    IF member = None THEN UNCHANGED <<member, m_oldClients, toClient>>
    ELSE /\ toClient' = Write(member, "CClose")
         /\ m_oldClients' = m_oldClients \cup {member}
         /\ member' = None

\* Server::setConfig: the name is taken out of the configuration, and later
\* put back.
Reload ==
    /\ serverEvents = <<>>
    /\ listed' = ~listed
    /\ IF listed THEN Trouble /\ CloseMember
                 ELSE UNCHANGED <<member, m_oldClients, toClient, troubles>>
    /\ UNCHANGED <<unknown, proxy, m_waitingClients, fault, toServer, cut, serverEvents>>

\* handleClientCloseTimeout deletes the client, whose socket stays open.
HandleCloseTimeout(k, clientSilent) ==
    /\ serverEvents = <<>> /\ k \in m_oldClients
    /\ Expires(clientSilent)
    /\ m_oldClients' = m_oldClients \ {k}
    /\ proxy' = [proxy EXCEPT ![k] = "none"]
    /\ UNCHANGED <<unknown, m_waitingClients, member, listed, fault, network, serverEvents>>

\* An event whose handler is gone.
ServerDiscards(k) ==
    /\ serverEvents # <<>> /\ Head(serverEvents).conn = k
    /\ LET type == Head(serverEvents).type
       IN  \/ type = "HelloBack" /\ unknown[k] # "hello"
           \/ type = "DInfo" /\ proxy[k] # "handshake"
           \/ type = "End" /\ unknown[k] # "hello" /\ proxy[k] \notin {"handshake", "live"}
           \/ type = "ProxyReady" /\ unknown[k] # "proxy"
           \/ type = "ProxyDisconnected" /\ proxy[k] = "none"
           \/ type \in {"Success", "Failure"} /\ unknown[k] = "none"
    /\ ServerPosts(<<>>)
    /\ UNCHANGED <<serverVars, network>>

\* A proxy that has died in the queue of waiting clients is taken out of it
\* safely: "pull out the socket before deleting the client so we know which
\* socket we no longer need" (ClientListener::handleClientDisconnected).
NoFault == ~fault

-----------------------------------------------------------------------------
(* The server as a whole *)

ServerTimers(k, clientSilent) ==
    \/ HandleUnknownTimeout(k, clientSilent)
    \/ HandleFlatline(k, clientSilent)
    \/ HandleCloseTimeout(k, clientSilent)

ServerHandlers ==
    \/ \E k \in Conns :
           \/ HandleClientConnecting(k) \/ HandleClientAccepted(k)
           \/ HandleHelloBack(k) \/ HandleUnknownDisconnect(k)
           \/ HandleProxyReady(k) \/ HandleUnknownClient(k)
           \/ HandleUnknownFailure(k) \/ HandleInfo(k)
           \/ HandleProxyDisconnect(k) \/ HandleProxyDisconnected(k)
           \/ ServerDiscards(k)
    \/ HandleListenerAccepted

\* A proxy is deleted by its one owner: the unknown client, the queue of
\* waiting clients, the list of clients or the list of old ones; whatever the
\* order of hello, information, failure, timeout and adoption, none is owned
\* twice, or not at all (ClientProxyUnknown::sendFailure, orphanClientProxy,
\* ClientListener::getNextClient, Server::closeClient).
OwnedOnce ==
    ~fault => \A k \in Conns :
        LET owners == {"unknown" : u \in {unknown[k]} \cap {"proxy", "success"}}
                      \cup {"member" : m \in {member} \cap {k}}
                      \cup {"old" : m \in m_oldClients \cap {k}}
            waits == {i \in DOMAIN m_waitingClients : m_waitingClients[i] = k}
        IN  Cardinality(owners) + Cardinality(waits) = IF proxy[k] = "none" THEN 0 ELSE 1

\* Every client in the queue has an event to come that takes it out
\* (ClientListener::handleUnknownClient, ServerApp::handleClientConnected).
WaitingFetched ==
    Len(m_waitingClients) <=
        Cardinality({i \in DOMAIN serverEvents : serverEvents[i].type = "ListenerAccepted"})
=============================================================================
