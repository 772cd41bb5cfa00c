------------------------- MODULE SocketMultiplexer -------------------------
(***************************************************************************)
(* The thread that serves the sockets, and the main thread that opens,     *)
(* writes and closes them (src/src/lib/net/SocketMultiplexer.cpp,          *)
(* TCPSocket.cpp and TCPListenSocket.cpp).  The service thread holds the   *)
(* list of jobs while it polls, for as long as nothing happens; whoever    *)
(* wants the list locks the lock of the list, so that the service thread   *)
(* cannot take the list again, and breaks it out of the poll.              *)
(***************************************************************************)
EXTENDS Naturals, Sequences, FiniteSetsExt, Queues

CONSTANTS
    Sockets,          \* data sockets
    Listener,         \* the listening socket
    None,             \* nullptr
    MaxData,          \* bound: bytes in an output buffer
    MaxArrivals,      \* bound: connections, data and ends from the network
    AcceptFails       \* accept may find that the connection is gone

Job == [reads : BOOLEAN, writes : BOOLEAN]
Threads == {"main", "service"}

ASSUME MultiplexerAssumption ==
    /\ IsFiniteSet(Sockets) /\ Listener \notin Sockets
    /\ None \notin Sockets \cup {Listener} \cup Job \cup Threads
    /\ MaxData \in Nat /\ MaxArrivals \in Nat /\ AcceptFails \in BOOLEAN

VARIABLES
    m_connected, m_readable, m_writable,  \* flags of a data socket
    m_outputBuffer,   \* bytes in the buffer of a data socket
    incoming,         \* what the network has for a socket
    arrivals,         \* how often something may still come
    m_jobListLockLocker, m_jobListLocker,  \* the owners of the two locks
    m_socketJobs,     \* the list of jobs, None where a job was removed
    m_jobsReady, m_update,
    unblocked,        \* a byte is in the pipe that ends the poll
    main, call,       \* the main thread: where it is, and the call it makes
    connecting,       \* an event ListenSocketConnecting is on the queue
    caller,           \* who makes it
    service,          \* the service thread: where it is
    pfds, i, cursor   \* what it polls, and how far it is with the jobs

flags == <<m_connected, m_readable, m_writable>>
sockets == <<flags, m_outputBuffer>>
world == <<incoming, arrivals>>
locks == <<m_jobListLockLocker, m_jobListLocker>>
list == <<m_socketJobs, m_jobsReady, m_update>>
mainVars == <<main, call, connecting, caller>>
serviceVars == <<service, pfds, i, cursor>>
vars == <<sockets, world, locks, list, unblocked, mainVars, serviceVars>>

Entry == [socket : Sockets \cup {Listener}, job : Job \cup {None}]
Live == {e \in Entry : e.job # None}
MainPlaces == {"idle", "makeJob", "lockLock", "unblock", "lockList", "edit", "close"}
ServicePlaces == {"wait", "lockLock", "lockList", "collect", "poll", "run", "clean"}

TypeOK ==
    /\ {m_connected, m_readable, m_writable} \subseteq [Sockets -> BOOLEAN]
    /\ m_outputBuffer \in [Sockets -> 0 .. MaxData]
    /\ incoming \in [Sockets \cup {Listener} -> {"nothing", "data", "end"}]
    /\ m_jobListLockLocker \in Threads \cup {None}
    /\ m_jobListLocker \in Threads \cup {None}
    /\ m_socketJobs \in Seq(Entry)
    /\ {m_jobsReady, m_update, unblocked, connecting} \subseteq BOOLEAN
    /\ caller \in {"listen", "accept", "write", "close"}
    /\ main \in MainPlaces /\ service \in ServicePlaces
    /\ call \in Entry
    /\ pfds \in Seq([socket : Sockets \cup {Listener}, job : Job, revents : Job])
    /\ i \in Nat /\ cursor \in Nat
    /\ arrivals \in 0 .. MaxArrivals

Listening == [reads |-> TRUE, writes |-> FALSE]
Nothing == [reads |-> FALSE, writes |-> FALSE]

\* ClientListener's constructor calls TCPListenSocket::bind.
Init ==
    /\ m_connected = [s \in Sockets |-> FALSE]
    /\ m_readable = [s \in Sockets |-> FALSE]
    /\ m_writable = [s \in Sockets |-> FALSE]
    /\ m_outputBuffer = [s \in Sockets |-> 0]
    /\ incoming = [s \in Sockets \cup {Listener} |-> "nothing"]
    /\ arrivals = MaxArrivals
    /\ m_jobListLockLocker = None /\ m_jobListLocker = None
    /\ m_socketJobs = <<>> /\ m_jobsReady = FALSE /\ m_update = FALSE
    /\ unblocked = FALSE
    /\ main = "lockLock" /\ call = [socket |-> Listener, job |-> Listening]
    /\ connecting = FALSE /\ caller = "listen"
    /\ service = "wait" /\ pfds = <<>> /\ i = 1 /\ cursor = 1

Entries(s) == {n \in DOMAIN m_socketJobs : m_socketJobs[n].socket = s}
HasJob(s) == \E n \in Entries(s) : m_socketJobs[n].job # None

\* TCPSocket::newJob, with the flag of reading and the bytes to write.
NewJob(s, readable, writable, bytes) ==
    IF readable \/ (writable /\ bytes > 0)
    THEN [reads |-> readable, writes |-> writable /\ bytes > 0] ELSE None

-----------------------------------------------------------------------------
(* The network; a connection is taken up only while a socket is free (bound) *)

Arrives(s, what) ==
    /\ arrivals > 0 /\ arrivals' = arrivals - 1
    /\ incoming[s] = "nothing"
    /\ IF s = Listener THEN ~connecting /\ caller # "accept" /\ \E d \in Sockets : ~m_connected[d]
                       ELSE m_connected[s] /\ m_readable[s]
    /\ incoming' = [incoming EXCEPT ![s] = what]
    /\ UNCHANGED <<sockets, locks, list, unblocked, mainVars, serviceVars>>

-----------------------------------------------------------------------------
(* The main thread *)

\* Mutant: the filling of the buffer does not ask for a job if there is one.
WriteTrustsJob(s) ==
    /\ main = "idle" /\ m_writable[s] /\ m_outputBuffer[s] < MaxData
    /\ m_outputBuffer' = [m_outputBuffer EXCEPT ![s] = @ + 1]
    /\ IF m_outputBuffer[s] = 0 /\ ~HasJob(s)
       THEN main' = "makeJob" /\ call' = [socket |-> s, job |-> None] /\ caller' = "write"
       ELSE UNCHANGED <<main, call, caller>>
    /\ UNCHANGED <<flags, world, locks, list, unblocked, connecting, serviceVars>>

\* TCPSocket::write, while it has the socket's mutex.
Write(s) ==
    /\ main = "idle" /\ m_writable[s] /\ m_outputBuffer[s] < MaxData
    /\ m_outputBuffer' = [m_outputBuffer EXCEPT ![s] = @ + 1]
    /\ IF m_outputBuffer[s] = 0
       THEN main' = "makeJob" /\ call' = [socket |-> s, job |-> None] /\ caller' = "write"
       ELSE UNCHANGED <<main, call, caller>>
    /\ UNCHANGED <<flags, world, locks, list, unblocked, connecting, serviceVars>>

\* newJob, called by write without the mutex; setJob.
MakeJob ==
    /\ main = "makeJob"
    /\ LET s == call.socket
       IN  call' = [call EXCEPT !.job =
                        NewJob(s, m_readable[s], m_writable[s], m_outputBuffer[s])]
    /\ main' = "lockLock"
    /\ UNCHANGED <<sockets, world, locks, list, unblocked, connecting, caller, serviceVars>>

\* Mutant: the listening socket gets no job with the connection.
AcceptForgetsJob(s) ==
    /\ main = "idle" /\ connecting /\ ~m_connected[s]
    /\ connecting' = FALSE /\ caller' = "write"
    /\ m_connected' = [m_connected EXCEPT ![s] = TRUE]
    /\ m_readable' = [m_readable EXCEPT ![s] = TRUE]
    /\ m_writable' = [m_writable EXCEPT ![s] = TRUE]
    /\ main' = "makeJob" /\ call' = [socket |-> s, job |-> None]
    /\ UNCHANGED <<m_outputBuffer, world, locks, list, unblocked, serviceVars>>

\* ListenSocketConnecting: TCPListenSocket::accept.  The constructor of the
\* new socket sets its job; then the listening socket gets one, in Edit.  A
\* connection that is gone by then throws before either.
Accept(s) ==
    /\ main = "idle" /\ connecting /\ ~m_connected[s]
    /\ connecting' = FALSE
    /\ \/ /\ m_connected' = [m_connected EXCEPT ![s] = TRUE]
          /\ m_readable' = [m_readable EXCEPT ![s] = TRUE]
          /\ m_writable' = [m_writable EXCEPT ![s] = TRUE]
          /\ caller' = "accept"
          /\ main' = "makeJob" /\ call' = [socket |-> s, job |-> None]
       \/ AcceptFails /\ UNCHANGED <<flags, caller, main, call>>
    /\ UNCHANGED <<m_outputBuffer, world, locks, list, unblocked, serviceVars>>

\* TCPSocket::close: removeSocket, and then the buffers and the flags.
Close(s) ==
    /\ main = "idle" /\ m_connected[s]
    /\ main' = "lockLock" /\ call' = [socket |-> s, job |-> None] /\ caller' = "close"
    /\ UNCHANGED <<sockets, world, locks, list, unblocked, connecting, serviceVars>>

OnDisconnected ==
    /\ main = "close" /\ main' = "idle"
    /\ LET s == call.socket
       IN  /\ m_connected' = [m_connected EXCEPT ![s] = FALSE]
           /\ m_readable' = [m_readable EXCEPT ![s] = FALSE]
           /\ m_writable' = [m_writable EXCEPT ![s] = FALSE]
           /\ m_outputBuffer' = [m_outputBuffer EXCEPT ![s] = 0]
           /\ incoming' = [incoming EXCEPT ![s] = "nothing"]
    /\ UNCHANGED <<arrivals, locks, list, unblocked, call, connecting, caller, serviceVars>>

-----------------------------------------------------------------------------
(* addSocket and removeSocket *)

LockJobListLock ==
    /\ main = "lockLock" /\ m_jobListLockLocker = None
    /\ m_jobListLockLocker' = "main" /\ main' = "unblock"
    /\ UNCHANGED <<sockets, world, m_jobListLocker, list, unblocked, call, connecting,
                   caller, serviceVars>>

\* Mutant: a poll is broken only if there is one.
UnblockPoller ==
    /\ main = "unblock" /\ main' = "lockList"
    /\ unblocked' = (unblocked \/ service = "poll")
    /\ UNCHANGED <<sockets, world, locks, list, call, connecting, caller, serviceVars>>

UnblockPollSocket ==
    /\ main = "unblock" /\ main' = "lockList"
    /\ unblocked' = TRUE
    /\ UNCHANGED <<sockets, world, locks, list, call, connecting, caller, serviceVars>>

LockJobList ==
    /\ main = "lockList" /\ m_jobListLocker = None
    /\ m_jobListLocker' = "main" /\ m_jobListLockLocker' = None
    /\ main' = "edit"
    /\ UNCHANGED <<sockets, world, list, unblocked, call, connecting, caller, serviceVars>>

Unlock == /\ m_jobListLocker' = None
          /\ m_jobsReady' = (m_socketJobs' # <<>>)

\* The entry of a socket is replaced, and never moved or taken out; a new
\* socket goes to the end.
Put(s, job) ==
    IF Entries(s) # {} THEN [m_socketJobs EXCEPT ![Min(Entries(s))].job = job]
    ELSE IF job # None THEN Append(m_socketJobs, [socket |-> s, job |-> job])
    ELSE m_socketJobs

\* Where the call was made: accept goes on to the job of the listening
\* socket, and close to the flags.
Return ==
    IF caller = "accept"
    THEN /\ main' = "lockLock" /\ call' = [socket |-> Listener, job |-> Listening]
         /\ caller' = "listen"
    ELSE /\ main' = IF caller = "close" THEN "close" ELSE "idle"
         /\ UNCHANGED <<call, caller>>

\* Mutant: a removal is not noted.
EditUnnoted ==
    /\ main = "edit"
    /\ m_socketJobs' = Put(call.socket, call.job)
    /\ m_update' = (m_update \/ call.job # None)
    /\ Unlock /\ Return
    /\ UNCHANGED <<sockets, world, m_jobListLockLocker, unblocked, connecting, serviceVars>>

Edit ==
    /\ main = "edit"
    /\ m_socketJobs' = Put(call.socket, call.job)
    /\ m_update' = (m_update \/ call.job # None \/ HasJob(call.socket))
    /\ Unlock /\ Return
    /\ UNCHANGED <<sockets, world, m_jobListLockLocker, unblocked, connecting, serviceVars>>

-----------------------------------------------------------------------------
(* The service thread *)

ServiceUnchanged == UNCHANGED <<sockets, world, unblocked, mainVars>>

AwaitJobs ==
    /\ service = "wait" /\ m_jobsReady
    /\ service' = "lockLock"
    /\ UNCHANGED <<locks, list, pfds, i, cursor>> /\ ServiceUnchanged

ServiceLocks ==
    /\ \/ /\ service = "lockLock" /\ m_jobListLockLocker = None
          /\ m_jobListLockLocker' = "service" /\ service' = "lockList"
          /\ UNCHANGED m_jobListLocker
       \/ /\ service = "lockList" /\ m_jobListLocker = None
          /\ m_jobListLocker' = "service" /\ m_jobListLockLocker' = None
          /\ service' = "collect"
    /\ UNCHANGED <<list, pfds, i, cursor>> /\ ServiceUnchanged

\* The poll entries, if something has changed; without any there is no poll.
Collect ==
    /\ service = "collect"
    /\ m_update' = FALSE
    /\ LET live == Kept(m_socketJobs, Live)
       IN  pfds' = IF ~m_update THEN pfds
                   ELSE [n \in DOMAIN live |-> [socket |-> live[n].socket, job |-> live[n].job,
                                                revents |-> Nothing]]
    /\ service' = IF pfds' = <<>> THEN "clean" ELSE "poll"
    /\ UNCHANGED <<locks, m_socketJobs, m_jobsReady, i, cursor>> /\ ServiceUnchanged

\* What the poll reports of an entry; a socket can always be written.
Ready(e) == [reads |-> e.job.reads /\ incoming[e.socket] # "nothing",
             writes |-> e.job.writes]

Poll ==
    /\ service = "poll"
    /\ pfds' = [n \in DOMAIN pfds |-> [pfds[n] EXCEPT !.revents = Ready(pfds[n])]]
    /\ LET some == \E n \in DOMAIN pfds : Ready(pfds[n]) # Nothing
       IN  /\ unblocked \/ some
           /\ service' = IF some THEN "run" ELSE "clean"
    /\ unblocked' = FALSE
    /\ i' = 1 /\ cursor' = 1
    /\ UNCHANGED <<sockets, world, locks, list, mainVars>>

\* serviceListening: no job until the connection is accepted.
ServiceListening(revents) ==
    /\ IF revents.reads
       THEN connecting' = TRUE /\ incoming' = [incoming EXCEPT ![Listener] = "nothing"]
       ELSE UNCHANGED <<connecting, incoming>>
    /\ m_socketJobs' = IF revents.reads THEN [m_socketJobs EXCEPT ![cursor' - 1].job = None]
                       ELSE m_socketJobs
    /\ UNCHANGED sockets

\* doWrite writes what there is room for, at most "most", doRead takes what
\* has come, or the end; then a job for what is left, if something changed.
Serve(s, revents, most) ==
    LET ended == revents.reads /\ m_readable[s] /\ incoming[s] = "end"
    IN  /\ \E sent \in IF revents.writes /\ most > 0 THEN 1 .. most ELSE {0} :
               /\ m_outputBuffer' = [m_outputBuffer EXCEPT ![s] = @ - sent]
               /\ m_readable' = [m_readable EXCEPT ![s] = @ /\ ~ended]
               /\ m_socketJobs' =
                      IF sent > 0 \/ ended
                      THEN [m_socketJobs EXCEPT ![cursor' - 1].job =
                                NewJob(s, m_readable'[s], m_writable[s], m_outputBuffer'[s])]
                      ELSE m_socketJobs
        /\ incoming' = [incoming EXCEPT ![s] = IF revents.reads /\ @ = "data" THEN "nothing"
                                               ELSE @]
        /\ UNCHANGED <<m_connected, m_writable, connecting>>

\* Mutant: a job to write takes a byte off although nothing is left.
ServiceUnderflows(s, revents) ==
    Serve(s, revents, IF m_outputBuffer[s] = 0 THEN 1 ELSE m_outputBuffer[s])

\* TCPSocket::serviceConnected.
ServiceConnected(s, revents) == Serve(s, revents, m_outputBuffer[s])

\* The jobs and the poll entries are walked side by side.
RunJob ==
    LET live == {n \in cursor .. Len(m_socketJobs) : m_socketJobs[n].job # None}
        s == m_socketJobs[Min(live)].socket
    IN  /\ service = "run" /\ live # {} /\ i <= Len(pfds)
        /\ cursor' = Min(live) + 1 /\ i' = i + 1
        /\ IF s = Listener THEN ServiceListening(pfds[i].revents)
                           ELSE ServiceConnected(s, pfds[i].revents)
        /\ m_update' = (m_update \/ m_socketJobs' # m_socketJobs)
        /\ UNCHANGED <<arrivals, locks, m_jobsReady, unblocked, main, call, caller, service,
                       pfds>>

\* Removed jobs are deleted; the list is unlocked.
Clean ==
    /\ \/ service = "clean"
       \/ service = "run" /\ (i > Len(pfds) \/ \A n \in cursor .. Len(m_socketJobs) :
                                                   m_socketJobs[n].job = None)
    /\ m_socketJobs' = Kept(m_socketJobs, Live)
    /\ m_update' = (m_update \/ m_socketJobs' # m_socketJobs)
    /\ Unlock
    /\ service' = "wait"
    /\ UNCHANGED <<m_jobListLockLocker, pfds, i, cursor>> /\ ServiceUnchanged

-----------------------------------------------------------------------------
(* The specification *)

Call == MakeJob \/ LockJobListLock \/ UnblockPollSocket \/ LockJobList \/ Edit \/ OnDisconnected

Requests == \E s \in Sockets : Write(s) \/ Close(s)

Network == \/ \E s \in Sockets, what \in {"data", "end"} : Arrives(s, what)
           \/ Arrives(Listener, "data")

Service == AwaitJobs \/ ServiceLocks \/ Collect \/ Poll \/ RunJob \/ Clean

Connections == \E s \in Sockets : Accept(s)

Next == Call \/ Connections \/ Requests \/ Network \/ Service

\* Both threads run, a lock that is free again and again is taken, and the
\* events of the queue are all handled.
Spec == Init /\ [][Next]_vars
        /\ SF_vars(Call) /\ SF_vars(Connections) /\ SF_vars(Service)

-----------------------------------------------------------------------------
(* Properties *)

\* While the jobs run, each one runs with what the poll has reported of its
\* own socket (SocketMultiplexer::serviceThread: "so the order of jobs in the
\* list continues to match the order of jobs in pfds").
JobsMatchPoll ==
    service = "run" =>
        LET left == Kept(SubSeq(m_socketJobs, cursor, Len(m_socketJobs)), Live)
        IN  /\ Len(left) = Len(pfds) + 1 - i
            /\ \A n \in DOMAIN left : left[n].socket = pfds[i + n - 1].socket

\* addSocket and removeSocket return: the main thread never waits for ever
\* for a service thread that polls (SocketMultiplexer::lockJobListLock,
\* unblockPollSocket).
CallsReturn == main # "idle" ~> main = "idle"

\* A buffer never keeps what it has for ever, whatever job the service thread had when the
\* buffer was filled (TCPSocket::write, doWrite and newJob).
WritesAreSent ==
    \A s \in Sockets, n \in 1 .. MaxData : m_outputBuffer[s] = n ~> m_outputBuffer[s] # n

\* The listening socket listens again after each connection
\* (TCPListenSocket::serviceListening: "stop polling on this socket until the
\* client accepts").
ListensAgain == ~HasJob(Listener) ~> HasJob(Listener)
=============================================================================
