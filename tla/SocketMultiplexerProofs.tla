---------------------- MODULE SocketMultiplexerProofs ----------------------
(***************************************************************************)
(* Proofs about the two threads that share the list of jobs: for every     *)
(* number of sockets and every bound, only the thread that has the list    *)
(* locked touches it, and each job runs with what was polled for its own   *)
(* socket.                                                                 *)
(***************************************************************************)
EXTENDS SocketMultiplexer, PacketInput, QueuesProofs

Polled == [socket : Sockets \cup {Listener}, job : Job, revents : Job]

-----------------------------------------------------------------------------
(* The inductive invariant *)

\* The lock of the list, and the list, have an owner exactly while a thread is
\* at a place between the calls that lock and unlock them.
Locked ==
  /\ m_jobListLockLocker = "main" <=> main \in {"unblock", "lockList"}
  /\ m_jobListLockLocker = "service" <=> service = "lockList"
  /\ m_jobListLocker = "main" <=> main = "edit"
  /\ m_jobListLocker = "service" <=> service \in {"collect", "poll", "run", "clean"}

\* newJob is asked of a data socket, never of the listening one.
Calling == main = "makeJob" => call.socket \in Sockets

SameSockets(a, b) ==
  /\ Len(a) = Len(b)
  /\ \A n \in 1 .. Len(a) : a[n].socket = b[n].socket

\* Unless the list was changed since, there is a poll entry for each job, in
\* the order of the jobs; and nothing has changed it when the poll begins.
Matched ==
  /\ ~m_update => SameSockets(Kept(m_socketJobs, Live), pfds)
  /\ service = "poll" => ~m_update

\* The cursor and the index of the poll entries stay within their lists.
Walk == service = "run" => cursor \in 1 .. Len(m_socketJobs) + 1 /\ i \in 1 .. Len(pfds) + 1

MxInv == TypeOK /\ Locked /\ Calling /\ Matched /\ Walk /\ JobsMatchPoll

-----------------------------------------------------------------------------
(* The list of jobs *)

\* Min of a set of natural numbers is in it, and below all of it.
LEMMA MinLeast ==
  ASSUME NEW T, T \subseteq Nat, T # {}
  PROVE  Min(T) \in T /\ \A n \in T : Min(T) <= n
<1>1. PICK x \in T : \A n \in T : x <= n
  BY Least
<1> QED BY <1>1 DEF Min

\* One job of the list is replaced.
Replaced(q, m, r) ==
  /\ r \in Seq(Entry) /\ Len(r) = Len(q)
  /\ \A n \in 1 .. Len(q) : n # m => r[n] = q[n]
  /\ r[m].socket = q[m].socket

LEMMA JobReplaced ==
  ASSUME NEW q \in Seq(Entry), NEW m \in 1 .. Len(q), NEW job \in Job \cup {None}
  PROVE  Replaced(q, m, [q EXCEPT ![m].job = job])
<1> DEFINE e == [q[m] EXCEPT !.job = job]
<1>1. q[m] \in Entry
  BY ElementOfSeq
<1>2. e \in Entry /\ e.socket = q[m].socket
  BY <1>1 DEF Entry
<1>3. [q EXCEPT ![m].job = job] = [q EXCEPT ![m] = e]
  OBVIOUS
<1> HIDE DEF e
<1>4. /\ [q EXCEPT ![m] = e] \in Seq(Entry) /\ Len([q EXCEPT ![m] = e]) = Len(q)
      /\ \A n \in 1 .. Len(q) : [q EXCEPT ![m] = e][n] = IF n = m THEN e ELSE q[n]
  BY <1>2, ExceptSeq
<1> QED BY <1>2, <1>3, <1>4 DEF Replaced

\* A list with the same entries from a place on.
LEMMA RestUnchanged ==
  ASSUME NEW q \in Seq(Entry), NEW m \in 1 .. Len(q), NEW r, Replaced(q, m, r)
  PROVE  SubSeq(r, m + 1, Len(r)) = SubSeq(q, m + 1, Len(q))
<1> DEFINE a == SubSeq(r, m + 1, Len(r))
           b == SubSeq(q, m + 1, Len(q))
<1>1. /\ Len(q) \in Nat /\ Len(r) = Len(q) /\ m \in Int /\ m >= 1 /\ m <= Len(q)
      /\ \A n \in 1 .. Len(q) : q[n] \in Entry /\ r[n] \in Entry
  BY LenProperties, ElementOfSeq DEF Replaced
<1>2. \A n \in m + 1 .. Len(q) : q[n] \in Entry /\ r[n] = q[n] /\ r[n] \in Entry
  BY <1>1 DEF Replaced
<1>3. /\ a \in Seq(Entry) /\ Len(a) = IF m + 1 <= Len(q) THEN Len(q) - (m + 1) + 1 ELSE 0
      /\ \A n \in 1 .. Len(q) - (m + 1) + 1 : a[n] = r[(m + 1) + n - 1]
  BY <1>1, <1>2, SubSeqProperties
<1>4. /\ b \in Seq(Entry) /\ Len(b) = IF m + 1 <= Len(q) THEN Len(q) - (m + 1) + 1 ELSE 0
      /\ \A n \in 1 .. Len(q) - (m + 1) + 1 : b[n] = q[(m + 1) + n - 1]
  BY <1>1, <1>2, SubSeqProperties
<1> HIDE DEF a, b
<1>5. ASSUME NEW n \in 1 .. Len(a) PROVE a[n] = b[n]
  <2>1. n \in 1 .. Len(q) - (m + 1) + 1 /\ (m + 1) + n - 1 \in m + 1 .. Len(q)
    BY <1>1, <1>3
  <2> QED BY <2>1, <1>2, <1>3, <1>4
<1>6. a = b
  BY <1>3, <1>4, <1>5, SeqEqual
<1> QED BY <1>6 DEF a, b

-----------------------------------------------------------------------------
(* Locks *)

USE DEF Threads

LEMMA LockedStep ==
  ASSUME MultiplexerAssumption, TypeOK, Locked, [Next]_vars
  PROVE  Locked'
<1> USE DEF Locked, TypeOK, MainPlaces, ServicePlaces
<1>1. None # "main" /\ None # "service"
  BY DEF MultiplexerAssumption
<1>2. CASE Call
  <2>1. CASE MakeJob
    BY <2>1 DEF MakeJob, locks, serviceVars
  <2>2. CASE LockJobListLock
    BY <2>2, <1>1 DEF LockJobListLock, serviceVars
  <2>3. CASE UnblockPollSocket
    BY <2>3 DEF UnblockPollSocket, locks, serviceVars
  <2>4. CASE LockJobList
    BY <2>4, <1>1 DEF LockJobList, serviceVars
  <2>5. CASE Edit
    BY <2>5, <1>1 DEF Edit, Unlock, Return, serviceVars
  <2>6. CASE OnDisconnected
    BY <2>6 DEF OnDisconnected, locks, serviceVars
  <2> QED BY <1>2, <2>1, <2>2, <2>3, <2>4, <2>5, <2>6 DEF Call
<1>3. CASE Connections
  <2> PICK s \in Sockets : Accept(s)
    BY <1>3 DEF Connections
  <2> QED BY DEF Accept, locks, serviceVars
<1>4. CASE Requests
  <2> PICK s \in Sockets : Write(s) \/ Close(s)
    BY <1>4 DEF Requests
  <2>1. CASE Write(s)
    BY <2>1 DEF Write, locks, serviceVars
  <2>2. CASE Close(s)
    BY <2>2 DEF Close, locks, serviceVars
  <2> QED BY <2>1, <2>2
<1>5. CASE Network
  <2> PICK s, what : Arrives(s, what)
    BY <1>5 DEF Network
  <2> QED BY DEF Arrives, locks, mainVars, serviceVars
<1>6. CASE Service
  <2>1. CASE AwaitJobs
    BY <2>1 DEF AwaitJobs, ServiceUnchanged, locks, mainVars
  <2>2. CASE ServiceLocks
    BY <2>2, <1>1 DEF ServiceLocks, ServiceUnchanged, mainVars
  <2>3. CASE Collect
    BY <2>3 DEF Collect, ServiceUnchanged, locks, mainVars
  <2>4. CASE Poll
    BY <2>4 DEF Poll, locks, mainVars
  <2>5. CASE RunJob
    BY <2>5 DEF RunJob, locks
  <2>6. CASE Clean
    BY <2>6, <1>1 DEF Clean, Unlock, ServiceUnchanged, mainVars
  <2> QED BY <1>6, <2>1, <2>2, <2>3, <2>4, <2>5, <2>6 DEF Service
<1>7. CASE UNCHANGED vars
  BY <1>7 DEF vars, locks, mainVars, serviceVars
<1> QED BY <1>2, <1>3, <1>4, <1>5, <1>6, <1>7 DEF Next

LEMMA CallingStep ==
  ASSUME TypeOK, Calling, [Next]_vars
  PROVE  Calling'
<1> USE DEF Calling
<1>1. CASE Call
  BY <1>1 DEF Call, MakeJob, LockJobListLock, UnblockPollSocket, LockJobList, Edit, Return,
              OnDisconnected
<1>2. CASE Connections
  <2> PICK s \in Sockets : Accept(s)
    BY <1>2 DEF Connections
  <2> QED BY DEF Accept
<1>3. CASE Requests
  <2> PICK s \in Sockets : Write(s) \/ Close(s)
    BY <1>3 DEF Requests
  <2> QED BY DEF Write, Close
<1>4. CASE Network
  <2> PICK s, what : Arrives(s, what)
    BY <1>4 DEF Network
  <2> QED BY DEF Arrives, mainVars
<1>5. CASE Service
  BY <1>5 DEF Service, AwaitJobs, ServiceLocks, Collect, Poll, RunJob, Clean,
              ServiceUnchanged, mainVars
<1>6. CASE UNCHANGED vars
  BY <1>6 DEF vars, mainVars
<1> QED BY <1>1, <1>2, <1>3, <1>4, <1>5, <1>6 DEF Next

-----------------------------------------------------------------------------
(* Types *)

\* TypeOK in three parts: the sockets, the threads, and the two lists.
SocketTypes ==
  /\ m_connected \in [Sockets -> BOOLEAN]
  /\ m_readable \in [Sockets -> BOOLEAN]
  /\ m_writable \in [Sockets -> BOOLEAN]
  /\ m_outputBuffer \in [Sockets -> 0 .. MaxData]
  /\ incoming \in [Sockets \cup {Listener} -> {"nothing", "data", "end"}]
  /\ arrivals \in 0 .. MaxArrivals

ThreadTypes ==
  /\ m_jobListLockLocker \in Threads \cup {None}
  /\ m_jobListLocker \in Threads \cup {None}
  /\ m_jobsReady \in BOOLEAN /\ m_update \in BOOLEAN
  /\ unblocked \in BOOLEAN /\ connecting \in BOOLEAN
  /\ caller \in {"listen", "accept", "write", "close"}
  /\ main \in MainPlaces /\ service \in ServicePlaces
  /\ call \in Entry
  /\ i \in Nat /\ cursor \in Nat

ListTypes == m_socketJobs \in Seq(Entry) /\ pfds \in Seq(Polled)

LEMMA TypeParts == TypeOK <=> SocketTypes /\ ThreadTypes /\ ListTypes
BY Zenon DEF TypeOK, SocketTypes, ThreadTypes, ListTypes, Polled

LEMMA NewJobType ==
  ASSUME NEW s, NEW readBytes \in BOOLEAN, NEW writable \in BOOLEAN, NEW bytes \in Nat
  PROVE  NewJob(s, readBytes, writable, bytes) \in Job \cup {None}
<1>1. (writable /\ bytes > 0) \in BOOLEAN
  OBVIOUS
<1> QED BY <1>1, Zenon DEF NewJob, Job

\* An entry of the list has a job that can be run, unless the job is None.
LEMMA LiveEntry ==
  ASSUME MultiplexerAssumption, NEW e \in Entry
  PROVE  /\ e \in Live <=> e.job # None
         /\ e \in Live => e.job \in Job
         /\ e.socket \in Sockets \cup {Listener}
BY DEF Live, Entry, MultiplexerAssumption

\* The job that runs next: the first one from the cursor on.
NextJob(m) ==
  /\ m \in cursor .. Len(m_socketJobs) /\ m_socketJobs[m] \in Live
  /\ \A n \in cursor .. m - 1 : m_socketJobs[n] \notin Live
  /\ cursor' = m + 1 /\ i' = i + 1 /\ i <= Len(pfds)

\* What RunJob does to the list of jobs: the new one of the socket at m.
Rerun(m) ==
  \/ m_socketJobs' = m_socketJobs
  \/ \E job \in Job \cup {None} : m_socketJobs' = [m_socketJobs EXCEPT ![m].job = job]

LEMMA ServeStep ==
  ASSUME MultiplexerAssumption, SocketTypes, NEW s \in Sockets, NEW revents, NEW m,
         cursor' - 1 = m, ServiceConnected(s, revents)
  PROVE  /\ m_connected' \in [Sockets -> BOOLEAN]
         /\ m_readable' \in [Sockets -> BOOLEAN]
         /\ m_writable' \in [Sockets -> BOOLEAN]
         /\ m_outputBuffer' \in [Sockets -> 0 .. MaxData]
         /\ incoming' \in [Sockets \cup {Listener} -> {"nothing", "data", "end"}]
         /\ connecting' = connecting
         /\ Rerun(m)
<1> DEFINE ended == revents.reads /\ m_readable[s] /\ incoming[s] = "end"
           most == m_outputBuffer[s]
           range == IF revents.writes /\ most > 0 THEN 1 .. most ELSE {0}
           taken == [incoming EXCEPT ![s] = IF revents.reads /\ @ = "data" THEN "nothing" ELSE @]
<1>1. most \in 0 .. MaxData /\ MaxData \in Nat
  BY DEF SocketTypes, MultiplexerAssumption
<1>2. PICK sent \in range :
          /\ m_outputBuffer' = [m_outputBuffer EXCEPT ![s] = @ - sent]
          /\ m_readable' = [m_readable EXCEPT ![s] = @ /\ ~ended]
          /\ m_socketJobs' =
                 IF sent > 0 \/ ended
                 THEN [m_socketJobs EXCEPT ![cursor' - 1].job =
                           NewJob(s, m_readable'[s], m_writable[s], m_outputBuffer'[s])]
                 ELSE m_socketJobs
  BY Zenon DEF ServiceConnected, Serve
<1>3. /\ incoming' = taken
      /\ m_connected' = m_connected /\ m_writable' = m_writable /\ connecting' = connecting
  BY Zenon DEF ServiceConnected, Serve
<1>4. sent \in Nat /\ most - sent \in 0 .. MaxData
  BY <1>1
<1> HIDE DEF ended, range
<1>5. m_outputBuffer' \in [Sockets -> 0 .. MaxData]
  BY <1>2, <1>4 DEF SocketTypes
<1>6. m_readable' \in [Sockets -> BOOLEAN]
  <2>1. (m_readable[s] /\ ~ended) \in BOOLEAN
    OBVIOUS
  <2> QED BY <1>2, <2>1, Zenon DEF SocketTypes
<1>7. taken \in [Sockets \cup {Listener} -> {"nothing", "data", "end"}]
  <2> DEFINE one == IF revents.reads /\ incoming[s] = "data" THEN "nothing" ELSE incoming[s]
  <2>1. one \in {"nothing", "data", "end"}
    BY DEF SocketTypes
  <2>2. taken = [incoming EXCEPT ![s] = one]
    BY Zenon
  <2> HIDE DEF one, taken
  <2> QED BY <2>1, <2>2 DEF SocketTypes
<1>8. Rerun(m)
  <2> DEFINE new == NewJob(s, m_readable'[s], m_writable[s], m_outputBuffer'[s])
  <2>1. m_readable'[s] \in BOOLEAN /\ m_writable[s] \in BOOLEAN /\ m_outputBuffer'[s] \in Nat
    BY <1>1, <1>5, <1>6 DEF SocketTypes
  <2>2. new \in Job \cup {None}
    BY <2>1, NewJobType
  <2> HIDE DEF new
  <2>3. CASE sent > 0 \/ ended
    <3>1. m_socketJobs' = [m_socketJobs EXCEPT ![m].job = new]
      BY <1>2, <2>3 DEF new
    <3> QED BY <2>2, <3>1, Zenon DEF Rerun
  <2>4. CASE ~ (sent > 0 \/ ended)
    BY <1>2, <2>4, Zenon DEF Rerun
  <2> QED BY <2>3, <2>4
<1> HIDE DEF taken
<1> QED BY <1>3, <1>5, <1>6, <1>7, <1>8 DEF SocketTypes

\* What a pass through the jobs does: the next job runs, on its own socket.
RunJobDoes(m) ==
  /\ NextJob(m) /\ Rerun(m)
  /\ SocketTypes' /\ connecting' \in BOOLEAN

LEMMA RunJobStep ==
  ASSUME MultiplexerAssumption, TypeOK, Walk, RunJob
  PROVE  \E m : RunJobDoes(m)
<1> DEFINE live == {n \in cursor .. Len(m_socketJobs) : m_socketJobs[n].job # None}
           m == Min(live)
           s == m_socketJobs[m].socket
<1>1. /\ service = "run" /\ live # {} /\ i <= Len(pfds)
      /\ cursor' = m + 1 /\ i' = i + 1
      /\ IF s = Listener THEN ServiceListening(pfds[i].revents)
                         ELSE ServiceConnected(s, pfds[i].revents)
      /\ arrivals' = arrivals
  BY DEF RunJob
<1>2. SocketTypes /\ ThreadTypes /\ ListTypes
  BY TypeParts
<1>3. cursor \in 1 .. Len(m_socketJobs) + 1 /\ i \in 1 .. Len(pfds) + 1
  BY <1>1 DEF Walk
<1>4. Len(m_socketJobs) \in Nat /\ \A n \in 1 .. Len(m_socketJobs) : m_socketJobs[n] \in Entry
  BY <1>2, LenProperties, ElementOfSeq DEF ListTypes
<1>5. live \subseteq Nat
  BY <1>3, <1>4
<1>6. m \in live /\ \A n \in live : m <= n
  BY <1>1, <1>5, MinLeast
<1>7. m \in cursor .. Len(m_socketJobs) /\ m_socketJobs[m].job # None
  BY <1>6
<1>8. ASSUME NEW n \in cursor .. m - 1 PROVE m_socketJobs[n] \notin Live
  <2> HIDE DEF m
  <2>1. n \in cursor .. Len(m_socketJobs) /\ n \in 1 .. Len(m_socketJobs) /\ ~ (m <= n)
    BY <1>3, <1>4, <1>7
  <2>2. n \notin live
    BY <1>6, <2>1
  <2>3. m_socketJobs[n].job = None
    BY <2>1, <2>2
  <2> QED BY <1>4, <2>1, <2>3, LiveEntry
<1> HIDE DEF m
<1>9. m \in 1 .. Len(m_socketJobs)
  BY <1>3, <1>4, <1>7
<1>10. m_socketJobs[m] \in Live /\ s \in Sockets \cup {Listener}
  BY <1>4, <1>7, <1>9, LiveEntry
<1>11. NextJob(m)
  BY <1>1, <1>7, <1>8, <1>10 DEF NextJob
<1>12. cursor' - 1 = m
  BY <1>1, <1>9, <1>4
<1> HIDE DEF live, s
<1>13. CASE s = Listener
  <2>1. ServiceListening(pfds[i].revents)
    BY <1>1, <1>13
  <2>2. Rerun(m)
    BY <2>1, <1>12 DEF ServiceListening, Rerun
  <2>3. SocketTypes'
    BY <2>1, <1>1, <1>2 DEF ServiceListening, SocketTypes, sockets, flags
  <2>4. connecting' \in BOOLEAN
    BY <2>1, <1>2 DEF ServiceListening, ThreadTypes
  <2>5. RunJobDoes(m)
    BY <1>11, <2>2, <2>3, <2>4 DEF RunJobDoes
  <2> QED BY <2>5
<1>14. CASE s # Listener
  <2>1. ServiceConnected(s, pfds[i].revents) /\ s \in Sockets
    BY <1>1, <1>10, <1>14
  <2>2. /\ m_connected' \in [Sockets -> BOOLEAN]
        /\ m_readable' \in [Sockets -> BOOLEAN]
        /\ m_writable' \in [Sockets -> BOOLEAN]
        /\ m_outputBuffer' \in [Sockets -> 0 .. MaxData]
        /\ incoming' \in [Sockets \cup {Listener} -> {"nothing", "data", "end"}]
        /\ connecting' = connecting
        /\ Rerun(m)
    BY <1>2, <1>12, <2>1, ServeStep
  <2>3. SocketTypes' /\ connecting' \in BOOLEAN
    BY <2>2, <1>1, <1>2 DEF SocketTypes, ThreadTypes
  <2>4. RunJobDoes(m)
    BY <1>11, <2>2, <2>3 DEF RunJobDoes
  <2> QED BY <2>4
<1> QED BY <1>13, <1>14

LEMMA SocketTypesStep ==
  ASSUME MultiplexerAssumption, TypeOK, Calling, Walk, [Next]_vars
  PROVE  SocketTypes'
<1>1. SocketTypes
  BY TypeParts
<1> USE DEF SocketTypes
<1>2. CASE Call
  <2>1. CASE OnDisconnected
    <3>1. 0 \in 0 .. MaxData
      BY DEF MultiplexerAssumption
    <3> QED BY <1>1, <2>1, <3>1 DEF OnDisconnected
  <2>2. CASE ~ OnDisconnected
    BY <1>1, <1>2, <2>2 DEF Call, MakeJob, LockJobListLock, UnblockPollSocket, LockJobList,
       Edit, sockets, flags, world
  <2> QED BY <2>1, <2>2
<1>3. CASE Connections
  <2> PICK s \in Sockets : Accept(s)
    BY <1>3 DEF Connections
  <2> QED BY <1>1 DEF Accept, flags, world
<1>4. CASE Requests
  <2> PICK s \in Sockets : Write(s) \/ Close(s)
    BY <1>4 DEF Requests
  <2>1. CASE Write(s)
    <3>1. m_outputBuffer[s] + 1 \in 0 .. MaxData
      BY <1>1, <2>1 DEF Write, MultiplexerAssumption
    <3> QED BY <1>1, <2>1, <3>1 DEF Write, flags, world
  <2>2. CASE Close(s)
    BY <1>1, <2>2 DEF Close, sockets, flags, world
  <2> QED BY <2>1, <2>2
<1>5. CASE Network
  <2> PICK s \in Sockets \cup {Listener}, what \in {"data", "end"} : Arrives(s, what)
    BY <1>5, Zenon DEF Network
  <2>1. arrivals' \in 0 .. MaxArrivals
    BY <1>1 DEF Arrives, MultiplexerAssumption
  <2> QED BY <1>1, <2>1 DEF Arrives, sockets, flags
<1>6. CASE Service
  <2>1. CASE RunJob
    BY <2>1, RunJobStep DEF RunJobDoes
  <2>2. CASE ~ RunJob
    BY <1>1, <1>6, <2>2 DEF Service, AwaitJobs, ServiceLocks, Collect, Poll, Clean,
       ServiceUnchanged, sockets, flags, world
  <2> QED BY <2>1, <2>2
<1>7. CASE UNCHANGED vars
  BY <1>1, <1>7 DEF vars, sockets, flags, world
<1> QED BY <1>2, <1>3, <1>4, <1>5, <1>6, <1>7 DEF Next

LEMMA ThreadTypesStep ==
  ASSUME MultiplexerAssumption, TypeOK, Calling, Walk, [Next]_vars
  PROVE  ThreadTypes'
<1>1. SocketTypes /\ ThreadTypes
  BY TypeParts
<1>2. \A s \in Sockets : [socket |-> s, job |-> None] \in Entry
  BY DEF Entry
<1>3. [socket |-> Listener, job |-> Listening] \in Entry
  BY DEF Entry, Job, Listening
<1> USE DEF ThreadTypes
<1>4. CASE Call
  <2>1. CASE MakeJob
    <3> DEFINE s == call.socket
               new == NewJob(s, m_readable[s], m_writable[s], m_outputBuffer[s])
    <3>1. s \in Sockets
      BY <2>1 DEF MakeJob, Calling
    <3>2. m_readable[s] \in BOOLEAN /\ m_writable[s] \in BOOLEAN /\ m_outputBuffer[s] \in Nat
      BY <1>1, <3>1 DEF SocketTypes
    <3> HIDE DEF s
    <3>3. new \in Job \cup {None}
      BY <3>2, NewJobType
    <3>4. call' = [call EXCEPT !.job = new]
      BY <2>1 DEF MakeJob, s
    <3> HIDE DEF new
    <3>5. call' \in Entry
      BY <1>1, <3>3, <3>4 DEF Entry
    <3> QED BY <1>1, <2>1, <3>5 DEF MakeJob, MainPlaces, locks, list, serviceVars
  <2>2. CASE LockJobListLock
    BY <1>1, <2>2 DEF LockJobListLock, MainPlaces, list, serviceVars
  <2>3. CASE UnblockPollSocket
    BY <1>1, <2>3 DEF UnblockPollSocket, MainPlaces, locks, list, serviceVars
  <2>4. CASE LockJobList
    BY <1>1, <2>4 DEF LockJobList, MainPlaces, list, serviceVars
  <2>5. CASE Edit
    <3>1. m_update' \in BOOLEAN /\ m_jobsReady' \in BOOLEAN
      BY <2>5, Zenon DEF Edit, Unlock
    <3>2. m_jobListLocker' = None /\ m_jobListLockLocker' = m_jobListLockLocker
      BY <2>5 DEF Edit, Unlock
    <3>3. /\ main' \in MainPlaces /\ call' \in Entry
          /\ caller' \in {"listen", "accept", "write", "close"}
      BY <1>1, <1>3, <2>5 DEF Edit, Return, MainPlaces
    <3> QED BY <1>1, <2>5, <3>1, <3>2, <3>3 DEF Edit, serviceVars
  <2>6. CASE OnDisconnected
    BY <1>1, <2>6 DEF OnDisconnected, MainPlaces, locks, list, serviceVars
  <2> QED BY <1>4, <2>1, <2>2, <2>3, <2>4, <2>5, <2>6 DEF Call
<1>5. CASE Connections
  <2> PICK s \in Sockets : Accept(s)
    BY <1>5 DEF Connections
  <2> QED BY <1>1, <1>2 DEF Accept, MainPlaces, locks, list, serviceVars
<1>6. CASE Requests
  <2> PICK s \in Sockets : Write(s) \/ Close(s)
    BY <1>6 DEF Requests
  <2>1. CASE Write(s)
    BY <1>1, <1>2, <2>1 DEF Write, MainPlaces, locks, list, serviceVars
  <2>2. CASE Close(s)
    BY <1>1, <1>2, <2>2 DEF Close, MainPlaces, locks, list, serviceVars
  <2> QED BY <2>1, <2>2
<1>7. CASE Network
  <2> PICK s, what : Arrives(s, what)
    BY <1>7 DEF Network
  <2> QED BY <1>1 DEF Arrives, locks, list, mainVars, serviceVars
<1>8. CASE Service
  <2>1. CASE AwaitJobs
    BY <1>1, <2>1 DEF AwaitJobs, ServiceUnchanged, ServicePlaces, locks, list, mainVars
  <2>2. CASE ServiceLocks
    BY <1>1, <2>2 DEF ServiceLocks, ServiceUnchanged, ServicePlaces, list, mainVars
  <2>3. CASE Collect
    BY <1>1, <2>3 DEF Collect, ServiceUnchanged, ServicePlaces, locks, mainVars
  <2>4. CASE Poll
    BY <1>1, <2>4 DEF Poll, ServicePlaces, locks, list, mainVars
  <2>5. CASE RunJob
    <3>1. PICK m : RunJobDoes(m)
      BY <2>5, RunJobStep
    <3>2. m_update' \in BOOLEAN
      BY <2>5, Zenon DEF RunJob
    <3>3. cursor \in Nat /\ Len(m_socketJobs) \in Nat
      BY <1>1, TypeParts, LenProperties DEF ListTypes
    <3>4. cursor' \in Nat /\ i' \in Nat
      BY <1>1, <3>1, <3>3 DEF RunJobDoes, NextJob
    <3>5. connecting' \in BOOLEAN
      BY <3>1 DEF RunJobDoes
    <3> QED BY <1>1, <2>5, <3>2, <3>4, <3>5 DEF RunJob, locks
  <2>6. CASE Clean
    <3>1. m_update' \in BOOLEAN /\ m_jobsReady' \in BOOLEAN
      BY <2>6, Zenon DEF Clean, Unlock
    <3> QED BY <1>1, <2>6, <3>1 DEF Clean, Unlock, ServiceUnchanged, ServicePlaces, mainVars
  <2> QED BY <1>8, <2>1, <2>2, <2>3, <2>4, <2>5, <2>6 DEF Service
<1>9. CASE UNCHANGED vars
  BY <1>1, <1>9 DEF vars, locks, list, mainVars, serviceVars
<1> QED BY <1>4, <1>5, <1>6, <1>7, <1>8, <1>9 DEF Next

\* What a call of addSocket or removeSocket does to the list: one entry more,
\* or another job in the first entry of the socket.
LEMMA PutStep ==
  ASSUME TypeOK, NEW s \in Sockets \cup {Listener}, NEW job \in Job \cup {None}
  PROVE  /\ Put(s, job) \in Seq(Entry)
         /\ job = None /\ ~HasJob(s) => Put(s, job) = m_socketJobs
<1>1. /\ m_socketJobs \in Seq(Entry) /\ Len(m_socketJobs) \in Nat
      /\ DOMAIN m_socketJobs = 1 .. Len(m_socketJobs)
  BY LenProperties DEF TypeOK
<1>2. CASE Entries(s) # {}
  <2> DEFINE m == Min(Entries(s))
  <2>1. Entries(s) \subseteq Nat
    BY <1>1 DEF Entries
  <2>2. m \in Entries(s)
    BY <1>2, <2>1, MinLeast
  <2> HIDE DEF m
  <2>3. m \in 1 .. Len(m_socketJobs)
    BY <1>1, <2>2 DEF Entries
  <2>4. Put(s, job) = [m_socketJobs EXCEPT ![m].job = job]
    BY <1>2 DEF Put, m
  <2>5. Replaced(m_socketJobs, m, [m_socketJobs EXCEPT ![m].job = job])
    BY <1>1, <2>3, JobReplaced
  <2>6. Put(s, job) \in Seq(Entry)
    BY <2>4, <2>5 DEF Replaced
  <2>7. ASSUME job = None, ~HasJob(s) PROVE Put(s, job) = m_socketJobs
    <3>1. m_socketJobs[m].job = job /\ m_socketJobs[m] \in Entry
      BY <1>1, <2>2, <2>3, <2>7, ElementOfSeq DEF HasJob
    <3>2. [m_socketJobs[m] EXCEPT !.job = job] = m_socketJobs[m]
      BY <3>1 DEF Entry
    <3>3. [m_socketJobs EXCEPT ![m].job = job]
              = [m_socketJobs EXCEPT ![m] = [m_socketJobs[m] EXCEPT !.job = job]]
      OBVIOUS
    <3>4. [m_socketJobs EXCEPT ![m] = m_socketJobs[m]] = m_socketJobs
      BY <1>1
    <3> QED BY <2>4, <3>2, <3>3, <3>4
  <2> QED BY <2>6, <2>7
<1>3. CASE Entries(s) = {}
  <2>1. [socket |-> s, job |-> job] \in Entry
    BY DEF Entry
  <2>2. Append(m_socketJobs, [socket |-> s, job |-> job]) \in Seq(Entry)
    BY <1>1, <2>1, AppendOne
  <2> QED BY <1>1, <1>3, <2>2 DEF Put
<1> QED BY <1>2, <1>3

-----------------------------------------------------------------------------
(* The jobs and the poll entries *)

LEMMA SameSocketsTwo ==
  ASSUME NEW a, NEW b, NEW c, SameSockets(a, b), SameSockets(b, c)
  PROVE  SameSockets(a, c)
BY DEF SameSockets

\* The poll entries that Collect makes of the jobs.
Entered(live) == [n \in DOMAIN live |-> [socket |-> live[n].socket, job |-> live[n].job,
                                         revents |-> Nothing]]

LEMMA EnteredOnce ==
  ASSUME MultiplexerAssumption, NEW live \in Seq(Entry \cap Live)
  PROVE  Entered(live) \in Seq(Polled) /\ SameSockets(live, Entered(live))
<1>1. Len(live) \in Nat /\ DOMAIN live = 1 .. Len(live)
  BY LenProperties
<1>2. ASSUME NEW n \in 1 .. Len(live)
      PROVE  [socket |-> live[n].socket, job |-> live[n].job, revents |-> Nothing] \in Polled
  <2>1. live[n] \in Entry /\ live[n] \in Live
    BY <1>2, ElementOfSeq
  <2>2. live[n].socket \in Sockets \cup {Listener} /\ live[n].job \in Job
    BY <2>1, LiveEntry
  <2> QED BY <2>2 DEF Polled, Nothing, Job
<1>3. Entered(live) = [n \in 1 .. Len(live) |-> [socket |-> live[n].socket,
                           job |-> live[n].job, revents |-> Nothing]]
  BY <1>1 DEF Entered
<1>4. Entered(live) \in Seq(Polled) /\ Len(Entered(live)) = Len(live)
  BY <1>1, <1>2, <1>3
<1>5. \A n \in 1 .. Len(live) : Entered(live)[n].socket = live[n].socket
  BY <1>3
<1> QED BY <1>4, <1>5 DEF SameSockets

\* What the poll reports is written into the same entries.
Reported == [n \in DOMAIN pfds |-> [pfds[n] EXCEPT !.revents = Ready(pfds[n])]]

LEMMA ReportedOnce ==
  ASSUME TypeOK
  PROVE  Reported \in Seq(Polled) /\ SameSockets(pfds, Reported)
<1>1. pfds \in Seq(Polled) /\ Len(pfds) \in Nat /\ DOMAIN pfds = 1 .. Len(pfds)
  BY LenProperties DEF TypeOK, Polled
<1>2. ASSUME NEW n \in 1 .. Len(pfds)
      PROVE  /\ [pfds[n] EXCEPT !.revents = Ready(pfds[n])] \in Polled
             /\ [pfds[n] EXCEPT !.revents = Ready(pfds[n])].socket = pfds[n].socket
  <2>1. pfds[n] \in Polled
    BY <1>1, <1>2, ElementOfSeq
  <2>2. pfds[n].job.writes \in BOOLEAN
    BY <2>1 DEF Polled, Job
  <2>3. Ready(pfds[n]) \in Job
    BY <2>2, Zenon DEF Ready, Job
  <2> HIDE DEF Ready
  <2> QED BY <2>1, <2>3 DEF Polled
<1>3. Reported = [n \in 1 .. Len(pfds) |-> [pfds[n] EXCEPT !.revents = Ready(pfds[n])]]
  BY <1>1 DEF Reported
<1>4. Reported \in Seq(Polled) /\ Len(Reported) = Len(pfds)
  BY <1>1, <1>2, <1>3
<1>5. \A n \in 1 .. Len(pfds) : Reported[n].socket = pfds[n].socket
  BY <1>2, <1>3
<1> QED BY <1>4, <1>5 DEF SameSockets

\* Who leaves both lists as they are, whatever else it does.
ListsKept == UNCHANGED <<m_socketJobs, pfds, m_update>>

\* The steps that touch the lists; all others leave them alone.
LEMMA WhoTouchesLists ==
  ASSUME [Next]_vars
  PROVE  \/ Edit \/ Collect \/ Poll \/ RunJob \/ Clean
         \/ ListsKept /\ UNCHANGED <<service, i, cursor>>
         \/ ListsKept /\ UNCHANGED <<i, cursor>> /\ service' \notin {"poll", "run"}
<1>1. CASE Call
  BY <1>1 DEF Call, MakeJob, LockJobListLock, UnblockPollSocket, LockJobList, OnDisconnected,
     ListsKept, list, serviceVars
<1>2. CASE Connections
  <2> PICK s \in Sockets : Accept(s)
    BY <1>2 DEF Connections
  <2> QED BY DEF Accept, ListsKept, list, serviceVars
<1>3. CASE Requests
  <2> PICK s \in Sockets : Write(s) \/ Close(s)
    BY <1>3 DEF Requests
  <2> QED BY DEF Write, Close, ListsKept, list, serviceVars
<1>4. CASE Network
  <2> PICK s, what : Arrives(s, what)
    BY <1>4 DEF Network
  <2> QED BY DEF Arrives, ListsKept, list, serviceVars
<1>5. CASE Service
  BY <1>5 DEF Service, AwaitJobs, ServiceLocks, ListsKept, list
<1>6. CASE UNCHANGED vars
  BY <1>6 DEF vars, ListsKept, list, serviceVars
<1> QED BY <1>1, <1>2, <1>3, <1>4, <1>5, <1>6 DEF Next

LEMMA EditStep ==
  ASSUME MultiplexerAssumption, TypeOK, Locked, Edit
  PROVE  /\ m_socketJobs' \in Seq(Entry) /\ pfds' = pfds
         /\ ~m_update' => ~m_update /\ m_socketJobs' = m_socketJobs
         /\ service' = service /\ service \notin {"poll", "run"}
<1>1. call.socket \in Sockets \cup {Listener} /\ call.job \in Job \cup {None}
  BY DEF TypeOK, Entry
<1>2. m_socketJobs' = Put(call.socket, call.job) /\ pfds' = pfds /\ service' = service
  BY DEF Edit, serviceVars
<1>3. m_update' = (m_update \/ call.job # None \/ HasJob(call.socket))
  BY DEF Edit
<1>4. "main" = m_jobListLocker
  BY DEF Edit, Locked
<1>5. service \notin {"poll", "run"}
  BY <1>4 DEF Locked
<1>6. ~m_update' => ~m_update /\ call.job = None /\ ~HasJob(call.socket)
  BY <1>3, Zenon
<1> QED BY <1>1, <1>2, <1>5, <1>6, PutStep

\* All that is said of the two lists.
Lists == ListTypes /\ Matched /\ Walk /\ JobsMatchPoll

LEMMA CollectStep ==
  ASSUME MultiplexerAssumption, TypeOK, Matched, Collect
  PROVE  Lists'
<1> DEFINE live == Kept(m_socketJobs, Live)
<1>1. m_socketJobs \in Seq(Entry) /\ pfds \in Seq(Polled)
  BY DEF TypeOK, Polled
<1>2. live \in Seq(Entry \cap Live)
  BY <1>1, KeptOnly
<1>3. /\ pfds' = IF ~m_update THEN pfds ELSE Entered(live)
      /\ m_socketJobs' = m_socketJobs /\ m_update' = FALSE /\ service' # "run"
  BY DEF Collect, Entered
<1> HIDE DEF live
<1>4. pfds' \in Seq(Polled) /\ SameSockets(live, pfds')
  <2>1. CASE m_update
    <3>1. pfds' = Entered(live)
      BY <1>3, <2>1
    <3> QED BY <1>2, <3>1, EnteredOnce
  <2>2. CASE ~m_update
    BY <1>1, <1>3, <2>2 DEF Matched, live
  <2> QED BY <2>1, <2>2
<1>5. ListTypes'
  BY <1>1, <1>3, <1>4 DEF ListTypes
<1>6. Kept(m_socketJobs', Live) = live
  BY <1>3 DEF live
<1>7. Matched'
  BY <1>3, <1>4, <1>6 DEF Matched
<1>8. Walk' /\ JobsMatchPoll'
  BY <1>3 DEF Walk, JobsMatchPoll
<1> QED BY <1>5, <1>7, <1>8 DEF Lists

LEMMA PollStep ==
  ASSUME MultiplexerAssumption, TypeOK, Matched, Poll
  PROVE  Lists'
<1>1. m_socketJobs \in Seq(Entry) /\ Len(m_socketJobs) \in Nat
  BY LenProperties DEF TypeOK
<1>2. /\ pfds' = Reported /\ m_socketJobs' = m_socketJobs /\ m_update' = m_update
      /\ i' = 1 /\ cursor' = 1 /\ service' # "poll"
  BY DEF Poll, Reported, list
<1>3. pfds' \in Seq(Polled) /\ SameSockets(pfds, pfds')
  BY <1>2, ReportedOnce
<1>4. SameSockets(Kept(m_socketJobs, Live), pfds) /\ ~m_update
  BY DEF Poll, Matched
<1>5. SameSockets(Kept(m_socketJobs, Live), pfds')
  BY <1>3, <1>4, SameSocketsTwo
<1>6. Kept(m_socketJobs', Live) = Kept(m_socketJobs, Live)
  BY <1>2
<1>7. ListTypes'
  BY <1>1, <1>2, <1>3 DEF ListTypes
<1>8. Matched'
  BY <1>2, <1>5, <1>6 DEF Matched
<1>9. Len(pfds') \in Nat
  BY <1>3, LenProperties
<1>10. Walk'
  BY <1>1, <1>2, <1>9 DEF Walk
<1>11. JobsMatchPoll'
  <2> DEFINE left == Kept(m_socketJobs, Live)
  <2>1. SubSeq(m_socketJobs', cursor', Len(m_socketJobs')) = m_socketJobs
    BY <1>1, <1>2, SubSeqFull
  <2>2. left \in Seq(Entry)
    BY <1>1, KeptType
  <2> HIDE DEF left
  <2>3. Len(left) \in Nat /\ DOMAIN left = 1 .. Len(left)
    BY <2>2, LenProperties
  <2>4. Len(left) = Len(pfds') /\ \A n \in 1 .. Len(left) : left[n].socket = pfds'[n].socket
    BY <1>5 DEF SameSockets, left
  <2>5. Len(left) = Len(pfds') + 1 - i'
    BY <1>2, <1>9, <2>3, <2>4
  <2>6. ASSUME NEW n \in DOMAIN left PROVE left[n].socket = pfds'[i' + n - 1].socket
    <3>1. n \in 1 .. Len(left) /\ i' + n - 1 = n
      BY <1>2, <2>3
    <3> QED BY <2>4, <3>1
  <2> QED BY <2>1, <2>5, <2>6 DEF JobsMatchPoll, left
<1> QED BY <1>7, <1>8, <1>10, <1>11 DEF Lists

LEMMA CleanStep ==
  ASSUME MultiplexerAssumption, TypeOK, Matched, Clean
  PROVE  Lists'
<1>1. m_socketJobs \in Seq(Entry) /\ pfds \in Seq(Polled)
  BY DEF TypeOK, Polled
<1>2. /\ m_socketJobs' = Kept(m_socketJobs, Live) /\ pfds' = pfds /\ service' = "wait"
      /\ m_update' = (m_update \/ m_socketJobs' # m_socketJobs)
  BY DEF Clean
<1>3. ListTypes'
  BY <1>1, <1>2, KeptType DEF ListTypes
<1>4. ~m_update' => ~m_update /\ m_socketJobs' = m_socketJobs
  BY <1>2, Zenon
<1>5. Matched'
  BY <1>2, <1>4 DEF Matched
<1>6. Walk' /\ JobsMatchPoll'
  BY <1>2 DEF Walk, JobsMatchPoll
<1> QED BY <1>3, <1>5, <1>6 DEF Lists

\* A list with one entry before it.
LEMMA OneMore ==
  ASSUME NEW S, NEW e \in S, NEW t \in Seq(S), NEW b, b = <<e>> \o t
  PROVE  /\ b \in Seq(S) /\ Len(b) = 1 + Len(t)
         /\ \A n \in 1 .. Len(t) : b[n + 1] = t[n]
<1>1. <<e>> \in Seq(S) /\ Len(<<e>>) = 1 /\ Len(t) \in Nat
  BY LenProperties
<1> DEFINE one == <<e>>
<1> HIDE DEF one
<1>2. one \in Seq(S) /\ Len(one) = 1
  BY <1>1 DEF one
<1>3. /\ one \o t \in Seq(S) /\ Len(one \o t) = Len(one) + Len(t)
      /\ \A n \in 1 .. Len(one) + Len(t) :
             (one \o t)[n] = IF n <= Len(one) THEN one[n] ELSE t[n - Len(one)]
  BY <1>2, ConcatProperties
<1>4. b = one \o t
  BY DEF one
<1> QED BY <1>1, <1>2, <1>3, <1>4

\* The jobs that are left lose the one that runs, and no other.
LEMMA RunStep ==
  ASSUME MultiplexerAssumption, TypeOK, Matched, Walk, JobsMatchPoll, RunJob
  PROVE  Lists'
<1>1. PICK m : RunJobDoes(m)
  BY RunJobStep
<1>2. /\ service = "run" /\ service' = "run" /\ pfds' = pfds
      /\ m_update' = (m_update \/ m_socketJobs' # m_socketJobs)
  BY DEF RunJob
<1>3. /\ m_socketJobs \in Seq(Entry) /\ pfds \in Seq(Polled)
      /\ Len(m_socketJobs) \in Nat /\ Len(pfds) \in Nat
  BY LenProperties DEF TypeOK, Polled
<1>4. cursor \in 1 .. Len(m_socketJobs) + 1 /\ i \in 1 .. Len(pfds) + 1
  BY <1>2 DEF Walk
<1>5. /\ m \in cursor .. Len(m_socketJobs) /\ m_socketJobs[m] \in Live
      /\ \A n \in cursor .. m - 1 : m_socketJobs[n] \notin Live
      /\ cursor' = m + 1 /\ i' = i + 1 /\ i <= Len(pfds)
  BY <1>1 DEF RunJobDoes, NextJob
<1>6. m \in 1 .. Len(m_socketJobs) /\ cursor \in 1 .. Len(m_socketJobs)
  BY <1>3, <1>4, <1>5
<1>7. Replaced(m_socketJobs, m, m_socketJobs')
  <2>1. CASE m_socketJobs' = m_socketJobs
    BY <1>3, <2>1 DEF Replaced
  <2>2. CASE m_socketJobs' # m_socketJobs
    <3>1. PICK job \in Job \cup {None} : m_socketJobs' = [m_socketJobs EXCEPT ![m].job = job]
      BY <1>1, <2>2 DEF RunJobDoes, Rerun
    <3> QED BY <1>3, <1>6, <3>1, JobReplaced
  <2> QED BY <2>1, <2>2
<1>8. m_socketJobs' \in Seq(Entry) /\ Len(m_socketJobs') = Len(m_socketJobs)
  BY <1>7 DEF Replaced
<1>9. ListTypes'
  BY <1>2, <1>3, <1>8 DEF ListTypes
<1>10. ~m_update' => ~m_update /\ m_socketJobs' = m_socketJobs
  BY <1>2, Zenon
<1>11. Matched'
  BY <1>2, <1>10 DEF Matched
<1>12. Walk'
  BY <1>2, <1>3, <1>4, <1>5, <1>6, <1>8 DEF Walk
<1> DEFINE before == Kept(SubSeq(m_socketJobs, cursor, Len(m_socketJobs)), Live)
           after == Kept(SubSeq(m_socketJobs, m + 1, Len(m_socketJobs)), Live)
<1>13. before = <<m_socketJobs[m]>> \o after
  BY <1>3, <1>5, <1>6, KeptFirst
<1>14. Kept(SubSeq(m_socketJobs', cursor', Len(m_socketJobs')), Live) = after
  <2>1. SubSeq(m_socketJobs', m + 1, Len(m_socketJobs'))
            = SubSeq(m_socketJobs, m + 1, Len(m_socketJobs))
    BY <1>3, <1>6, <1>7, RestUnchanged
  <2> QED BY <1>5, <2>1
<1>15. after \in Seq(Entry)
  <2>1. \A n \in m + 1 .. Len(m_socketJobs) : m_socketJobs[n] \in Entry
    BY <1>3, <1>6, ElementOfSeq
  <2>2. SubSeq(m_socketJobs, m + 1, Len(m_socketJobs)) \in Seq(Entry)
    BY <1>3, <1>6, <2>1, SubSeqProperties
  <2> QED BY <2>2, KeptType
<1>16. m_socketJobs[m] \in Entry
  BY <1>3, <1>6, ElementOfSeq
<1>17. /\ Len(before) = Len(pfds) + 1 - i
       /\ \A n \in DOMAIN before : before[n].socket = pfds[i + n - 1].socket
  BY <1>2 DEF JobsMatchPoll
<1> HIDE DEF before, after
<1>18. /\ before \in Seq(Entry) /\ Len(before) = 1 + Len(after)
       /\ \A n \in 1 .. Len(after) : before[n + 1] = after[n]
  BY <1>13, <1>15, <1>16, OneMore
<1>19. DOMAIN before = 1 .. 1 + Len(after) /\ DOMAIN after = 1 .. Len(after) /\ Len(after) \in Nat
  BY <1>15, <1>18, LenProperties
<1>20. Len(after) = Len(pfds') + 1 - i'
  <2>1. Len(pfds') = Len(pfds) /\ i \in Int
    BY <1>2, <1>4
  <2>2. 1 + Len(after) = Len(pfds) + 1 - i
    BY <1>17, <1>18, Zenon
  <2>3. Len(after) \in Nat /\ i' = i + 1 /\ Len(pfds) \in Nat
    BY <1>3, <1>5, <1>19
  <2> QED BY <2>1, <2>2, <2>3
<1>21. ASSUME NEW n \in DOMAIN after PROVE after[n].socket = pfds'[i' + n - 1].socket
  <2>1. n \in Nat /\ n \in 1 .. Len(after) /\ n + 1 \in 1 .. 1 + Len(after)
    BY <1>19, <1>21
  <2>2. before[n + 1] = after[n] /\ before[n + 1].socket = pfds[i + (n + 1) - 1].socket
    BY <1>17, <1>18, <1>19, <2>1
  <2>3. i + (n + 1) - 1 = i' + n - 1
    BY <1>4, <1>5, <2>1
  <2> QED BY <1>2, <2>2, <2>3
<1>22. JobsMatchPoll'
  BY <1>14, <1>20, <1>21 DEF JobsMatchPoll
<1> QED BY <1>9, <1>11, <1>12, <1>22 DEF Lists

LEMMA ListsStep ==
  ASSUME MultiplexerAssumption, MxInv, [Next]_vars
  PROVE  Lists'
<1>1. TypeOK /\ Locked /\ Matched /\ Walk /\ JobsMatchPoll /\ ListTypes
  BY TypeParts DEF MxInv
<1>2. CASE Edit
  <2>1. /\ m_socketJobs' \in Seq(Entry) /\ pfds' = pfds
        /\ ~m_update' => ~m_update /\ m_socketJobs' = m_socketJobs
        /\ service' = service /\ service \notin {"poll", "run"}
    BY <1>1, <1>2, EditStep
  <2> QED BY <1>1, <2>1 DEF Lists, ListTypes, Matched, Walk, JobsMatchPoll
<1>3. CASE Collect
  BY <1>1, <1>3, CollectStep
<1>4. CASE Poll
  BY <1>1, <1>4, PollStep
<1>5. CASE RunJob
  BY <1>1, <1>5, RunStep
<1>6. CASE Clean
  BY <1>1, <1>6, CleanStep
<1>7. CASE ListsKept /\ UNCHANGED <<service, i, cursor>>
  BY <1>1, <1>7 DEF ListsKept, Lists, ListTypes, Matched, Walk, JobsMatchPoll
<1>8. CASE ListsKept /\ UNCHANGED <<i, cursor>> /\ service' \notin {"poll", "run"}
  BY <1>1, <1>8 DEF ListsKept, Lists, ListTypes, Matched, Walk, JobsMatchPoll
<1> QED BY <1>2, <1>3, <1>4, <1>5, <1>6, <1>7, <1>8, WhoTouchesLists

-----------------------------------------------------------------------------
(* The theorems *)

LEMMA MxInit ==
  ASSUME MultiplexerAssumption, Init
  PROVE  MxInv
<1> USE DEF Init
<1>1. 0 \in 0 .. MaxData /\ MaxArrivals \in 0 .. MaxArrivals
  BY DEF MultiplexerAssumption
<1>2. SocketTypes
  BY <1>1 DEF SocketTypes
<1>3. call \in Entry
  BY DEF Entry, Job, Listening
<1>4. ThreadTypes
  BY <1>3 DEF ThreadTypes, MainPlaces, ServicePlaces
<1>5. ListTypes
  BY DEF ListTypes
<1>6. TypeOK
  BY <1>2, <1>4, <1>5, TypeParts
<1>7. None # "main" /\ None # "service"
  BY DEF MultiplexerAssumption
<1>8. Locked
  BY <1>7 DEF Locked
<1>9. Matched
  <2> DEFINE none == <<>>
  <2>1. none \in Seq(Entry) /\ Len(none) = 0
    OBVIOUS
  <2> HIDE DEF none
  <2>2. \A n \in 1 .. Len(none) : none[n] \notin Live
    BY <2>1
  <2>3. Kept(none, Live) = <<>>
    BY <2>1, <2>2, KeptNone
  <2>4. Kept(m_socketJobs, Live) = <<>>
    BY <2>3 DEF none
  <2>5. SameSockets(Kept(m_socketJobs, Live), pfds)
    BY <2>4 DEF SameSockets
  <2> QED BY <2>5 DEF Matched
<1>10. Calling /\ Walk /\ JobsMatchPoll
  BY DEF Calling, Walk, JobsMatchPoll
<1> QED BY <1>6, <1>8, <1>9, <1>10 DEF MxInv

LEMMA MxStep ==
  ASSUME MultiplexerAssumption, MxInv, [Next]_vars
  PROVE  MxInv'
<1>1. SocketTypes' /\ ThreadTypes'
  BY SocketTypesStep, ThreadTypesStep DEF MxInv
<1>2. Lists'
  BY ListsStep
<1>3. Locked' /\ Calling'
  BY LockedStep, CallingStep DEF MxInv
<1>4. TypeOK'
  BY <1>1, <1>2, TypeParts DEF Lists, TypeOK, SocketTypes, ThreadTypes, ListTypes, Polled
<1> QED BY <1>2, <1>3, <1>4 DEF MxInv, Lists

\* In every reachable state: the locks of SocketMultiplexer are held exactly
\* where the code is between locking and unlocking them, the poll entries fit
\* the jobs unless m_update says otherwise, and the walk through both is in
\* step (SocketMultiplexer::serviceThread, addSocket, removeSocket).
THEOREM MultiplexerInvariant == Spec => []MxInv
<1>1. Init => MxInv
  BY MultiplexerAssumption, MxInit
<1>2. MxInv /\ [Next]_vars => MxInv'
  BY MultiplexerAssumption, MxStep
<1> QED BY <1>1, <1>2, PTL DEF Spec

\* Every variable keeps its type; an output buffer is never emptied by more
\* than it has (TCPSocket::doWrite).
THEOREM MultiplexerTypes == Spec => []TypeOK
<1>1. MxInv => TypeOK
  BY DEF MxInv
<1> QED BY <1>1, MultiplexerInvariant, PTL

\* Each job that runs gets what the poll reported of its own socket, although
\* sockets are added and removed, and jobs replaced, all the time
\* (SocketMultiplexer::serviceThread).
THEOREM JobsMatchPollAlways == Spec => []JobsMatchPoll
<1>1. MxInv => JobsMatchPoll
  BY DEF MxInv
<1> QED BY <1>1, MultiplexerInvariant, PTL

\* While one thread works on the list of jobs the other does not: the main
\* thread edits it only while the service thread neither collects, polls, runs
\* nor cleans (SocketMultiplexer::lockJobList and unlockJobList).
OneEditor == ~ (main = "edit" /\ service \in {"collect", "poll", "run", "clean"})

THEOREM OneEditorAlways == Spec => []OneEditor
<1>1. MxInv => OneEditor
  BY DEF MxInv, Locked, OneEditor
<1> QED BY <1>1, MultiplexerInvariant, PTL
-----------------------------------------------------------------------------
(* Packets and turns                                                         *)

\* Where a packet ends: where the one before it ended, a header and its length.
EndsAfter(e) == /\ e \in [0 .. Len(Packets) -> Nat] /\ e[0] = 0
                /\ \A n \in 1 .. Len(Packets) : e[n] = e[n - 1] + Header + Packets[n]

LEMMA PacketEnds ==
  EndsAfter(EndOf)
<1> DEFINE N == Len(Packets)
           pass == [p \in (1 .. N) \X Nat |-> p[2] + Header + Packets[p[1]]]
           Body(e) == [n \in 0 .. N |-> IF n = 0 THEN 0 ELSE e[n - 1] + Header + Packets[n]]
<1>1. /\ N \in Nat /\ Header \in Nat \ {0}
      /\ \A n \in 1 .. N : Packets[n] \in Nat \ {0}
  BY LenProperties, ElementOfSeq, PacketAssumption
<1> HIDE DEF N
<1>2. pass \in [(1 .. N) \X Nat -> Nat]
  BY <1>1
<1>3. PICK f : IsLoop(f, Nat, 0, N, pass)
  BY <1>1, <1>2, LoopExists
<1>4. \A n \in 1 .. N : f[n] = f[n - 1] + Header + Packets[n]
  <2> SUFFICES ASSUME NEW n \in 1 .. N PROVE f[n] = f[n - 1] + Header + Packets[n]
    OBVIOUS
  <2>1. f[n] = pass[<<n, f[n - 1]>>] /\ f[n - 1] \in Nat
    <3> HIDE DEF pass
    <3> QED BY <1>1, <1>3 DEF IsLoop
  <2> QED BY <2>1
<1>5. f = Body(f)
  BY <1>1, <1>3, <1>4 DEF IsLoop
<1>6. EndOf = CHOOSE e : e = Body(e)
  BY DEF EndOf, N
<1>7. EndOf = Body(EndOf)
  BY <1>5, <1>6
<1> DEFINE e == EndOf
<1> HIDE DEF e
<1>8. e = Body(e)
  BY <1>7 DEF e
<1>9. e[0] = 0 /\ \A n \in 1 .. N : e[n] = e[n - 1] + Header + Packets[n]
  BY <1>1, <1>8
<1>10. \A n \in 1 .. N : e[n - 1] \in Nat => e[n] \in Nat
  BY <1>1, <1>9
<1>11. \A n \in 0 .. N : e[n] \in Nat
  <2>1. e[0] \in Nat
    BY <1>9
  <2> QED BY <1>1, <2>1, <1>10, LoopInvariant
<1>12. e \in [0 .. N -> Nat]
  BY <1>8, <1>11
<1> QED BY <1>9, <1>12 DEF e, N, EndsAfter

\* Later packets end later.
LEMMA PacketsInOrder ==
  ASSUME NEW m \in 0 .. Len(Packets), NEW n \in m .. Len(Packets)
  PROVE  /\ EndOf[m] \in Nat /\ EndOf[n] \in Nat
         /\ EndOf[m] <= EndOf[n]
         /\ m < n => EndOf[m] + Header + Packets[m + 1] <= EndOf[n]
<1> DEFINE N == Len(Packets)
           e == EndOf
           Up(p) == e[m] <= e[p] /\ (m < p => e[m] + Header + Packets[m + 1] <= e[p])
           T == {k \in Nat : m + k <= N => Up(m + k)}
<1>1. /\ N \in Nat /\ Header \in Nat
      /\ \A p \in 1 .. N : Packets[p] \in Nat
  BY LenProperties, ElementOfSeq, PacketAssumption
<1>2. /\ e \in [0 .. N -> Nat]
      /\ \A p \in 1 .. N : e[p] = e[p - 1] + Header + Packets[p]
  BY PacketEnds DEF EndsAfter
<1> HIDE DEF N, e
<1>m. m \in 0 .. N /\ n \in m .. N
  BY DEF N
<1>3. 0 \in T
  BY <1>1, <1>2, <1>m
<1>4. ASSUME NEW k \in Nat, k \in T PROVE k + 1 \in T
  <2> SUFFICES ASSUME m + (k + 1) <= N PROVE Up(m + (k + 1))
    OBVIOUS
  <2> DEFINE p == m + k
  <2>1. p \in 0 .. N /\ p + 1 \in 1 .. N /\ m <= p /\ m + (k + 1) = p + 1
    BY <1>1, <1>m
  <2>2. Up(p)
    BY <1>1, <1>4, <1>m
  <2> HIDE DEF p
  <2>3. e[p + 1] = e[p] + Header + Packets[p + 1] /\ e[p] \in Nat /\ e[m] \in Nat /\ Packets[p + 1] \in Nat
    BY <1>1, <1>2, <1>m, <2>1
  <2>4. e[m] <= e[p + 1]
    BY <1>1, <2>2, <2>3
  <2>5. m < p + 1 => e[m] + Header + Packets[m + 1] <= e[p + 1]
    <3>1. CASE m = p
      BY <1>1, <2>3, <3>1
    <3>2. CASE m < p
      <4> DEFINE s == e[m] + Header + Packets[m + 1]
      <4>1. s <= e[p]
        BY <2>2, <3>2
      <4>2. Packets[m + 1] \in Nat
        BY <1>1, <1>m, <2>1, <3>2
      <4>3. s \in Nat
        BY <1>1, <2>3, <4>2
      <4>4. e[p + 1] \in Nat /\ e[p] <= e[p + 1]
        BY <1>1, <2>3
      <4>5. s <= e[p + 1]
        <5> HIDE DEF s, Up
        <5> QED BY <2>3, <4>1, <4>3, <4>4
      <4> QED BY <4>5
    <3> QED BY <1>m, <2>1, <3>1, <3>2
  <2> QED BY <2>1, <2>4, <2>5
<1>5. Nat \subseteq T
  <2> HIDE DEF T
  <2> QED BY <1>3, <1>4, SetInduction
<1>6. n - m \in Nat /\ m + (n - m) = n /\ n <= N
  BY <1>1, <1>m
<1>7. Up(n)
  BY <1>5, <1>6
<1>8. e[m] \in Nat /\ e[n] \in Nat
  BY <1>1, <1>2, <1>m
<1> QED BY <1>7, <1>8 DEF e

\* The packets that a beginning of the stream holds whole.
LEMMA WholePackets ==
  ASSUME NEW n \in Nat, NEW k \in 0 .. Len(Packets), EndOf[k] <= n,
         k < Len(Packets) => n < EndOf[k] + Header + Packets[k + 1]
  PROVE  Whole(n) = k
<1>1. Len(Packets) \in Nat /\ DOMAIN Packets = 1 .. Len(Packets) /\ Header \in Nat
      /\ \A p \in 1 .. Len(Packets) : Packets[p] \in Nat
  BY LenProperties, ElementOfSeq, PacketAssumption
<1>2. {p \in DOMAIN Packets : EndOf[p] <= n} = 1 .. k
  <2>1. ASSUME NEW p \in 1 .. k PROVE p \in DOMAIN Packets /\ EndOf[p] <= n
    <3>1. p \in 0 .. Len(Packets) /\ k \in p .. Len(Packets)
      BY <1>1
    <3>2. EndOf[p] <= EndOf[k] /\ EndOf[p] \in Nat /\ EndOf[k] \in Nat
      BY <3>1, PacketsInOrder
    <3> QED BY <1>1, <3>1, <3>2
  <2>2. ASSUME NEW p \in DOMAIN Packets, EndOf[p] <= n, p \notin 1 .. k PROVE FALSE
    <3>1. k \in 0 .. Len(Packets) /\ p \in k .. Len(Packets) /\ k < p
      BY <1>1, <2>2
    <3>2. /\ EndOf[k] + Header + Packets[k + 1] <= EndOf[p]
          /\ EndOf[p] \in Nat /\ EndOf[k] \in Nat
      BY <3>1, PacketsInOrder
    <3>3. Packets[k + 1] \in Nat /\ k < Len(Packets)
      BY <1>1, <3>1
    <3> QED BY <1>1, <2>2, <3>2, <3>3
  <2> QED BY <2>1, <2>2
<1>3. Cardinality(1 .. k) = k
  BY FS_Interval, <1>1
<1>4. Whole(n) = Cardinality({p \in DOMAIN Packets : EndOf[p] <= n})
  BY DEF Whole, Cardinality, Cardinality
<1> QED BY <1>2, <1>3, <1>4

-----------------------------------------------------------------------------
(* The input of a socket: what holds of the buffers and of the events *)

\* Every byte is in a packet that was handled, in the current one, in a buffer
\* or still to come.
HeaderBytes == IF m_size = 0 THEN 0 ELSE Header
Accounted == total = EndOf[handled] + HeaderBytes + m_buffer + m_inputBuffer + toCome

\* The filter works on the packet after those that were handled, and has its
\* header as soon as it can.
CutUp == /\ headers = (IF m_size = 0 THEN handled ELSE handled + 1)
         /\ m_size # 0 => m_size = Packets[headers]
         /\ m_size = 0 => m_buffer < Header

\* The filter is told of what the socket has received.
Queued(event) == \E p \in DOMAIN events : events[p] = event
Noticed == m_inputBuffer > 0 => pc = "reading" \/ Queued("SocketReady")

\* The end of the input is reported after the last of it, and passed on after
\* the last whole packet.
EndIsLast == \A p, j \in DOMAIN events :
                 events[p] = "SocketShutdown" /\ events[j] = "SocketReady" => j < p
EndReported == ~readable /\ toCome = 0
Ends == /\ ~readable => toCome = 0
        /\ Queued("SocketShutdown") => EndReported
        /\ EndIsLast
        /\ m_inputShutdown =>
               EndReported /\ m_inputBuffer = 0 /\ pc # "reading" /\ ~Queued("SocketReady")
        /\ Queued("Shutdown") => m_inputShutdown /\ m_size = 0

Open == ~closed /\ Accounted /\ CutUp /\ Noticed /\ Ends
Closed == closed /\ pc = "loop" /\ handled = Whole(total)
InputInv == InputTypeOK /\ (Open \/ Closed)

LEMMA InputConstants ==
  /\ Len(Packets) \in Nat /\ DOMAIN Packets = 1 .. Len(Packets)
  /\ Header \in Nat \ {0} /\ MaxMessages \in Nat \ {0} /\ MaxBytes \in Nat \ {0}
  /\ \A p \in 1 .. Len(Packets) : Packets[p] \in Nat \ {0}
  /\ \A p \in 0 .. Len(Packets) : EndOf[p] \in Nat
  /\ EndOf[Len(Packets)] \in Nat
<1>1. Len(Packets) \in Nat /\ Len(Packets) \in 0 .. Len(Packets)
  BY LenProperties, PacketAssumption
<1> QED BY <1>1, LenProperties, ElementOfSeq, PacketEnds, PacketAssumption DEF EndsAfter

\* A header is read only when a packet is to come, and gives its length.
LEMMA HeaderRead ==
  ASSUME NEW h \in 0 .. Len(Packets), NEW bytes \in Nat, NEW rest \in Nat,
         total \in 0 .. EndOf[Len(Packets)], total = EndOf[h] + bytes + rest,
         headers = h, ReadPacketSize(bytes, 0)
  PROVE  /\ m_buffer' \in Nat /\ m_size' \in Nat /\ headers' \in 0 .. Len(Packets)
         /\ total = EndOf[h] + HeaderBytes' + m_buffer' + rest
         /\ headers' = (IF m_size' = 0 THEN h ELSE h + 1)
         /\ m_size' # 0 => m_size' = Packets[headers']
         /\ m_size' = 0 => m_buffer' < Header /\ m_buffer' = bytes
         /\ bytes >= Header <=> m_size' # 0
<1>c. /\ Len(Packets) \in Nat /\ Header \in Nat \ {0} /\ EndOf[h] \in Nat
      /\ \A p \in 1 .. Len(Packets) : Packets[p] \in Nat \ {0}
  BY InputConstants
<1>1. CASE bytes < Header
  BY <1>1, <1>c DEF ReadPacketSize, HeaderBytes
<1>2. CASE bytes >= Header
  <2>1. h < Len(Packets)
    <3>1. h # Len(Packets)
      BY <1>2, <1>c
    <3> QED BY <3>1, <1>c
  <2>2. /\ m_buffer' = bytes - Header /\ m_size' = Packets[h + 1] /\ headers' = h + 1
        /\ Packets[h + 1] \in Nat \ {0}
    BY <1>2, <2>1, <1>c DEF ReadPacketSize
  <2>3. h + 1 \in 0 .. Len(Packets)
    BY <2>1, <1>c
  <2> QED BY <1>2, <2>2, <2>3, <1>c DEF HeaderBytes
<1> QED BY <1>1, <1>2, <1>c

\* At the end of the stream without a whole packet in the buffer, every whole
\* packet was handled.
LEMMA NoneLeft ==
  ASSUME InputTypeOK, Open, EndReported, m_inputBuffer = 0, ~IsReady
  PROVE  handled = Whole(total)
<1>1. handled \in 0 .. Len(Packets) /\ total \in Nat /\ m_buffer \in Nat /\ m_size \in Nat
  BY InputConstants DEF InputTypeOK
<1>2. total = EndOf[handled] + HeaderBytes + m_buffer
  BY <1>1, InputConstants DEF Open, Accounted, EndReported, HeaderBytes
<1>3. EndOf[handled] <= total
  BY <1>1, <1>2, InputConstants DEF HeaderBytes
<1>4. ASSUME handled < Len(Packets)
      PROVE  total < EndOf[handled] + Header + Packets[handled + 1]
  <2>1. Packets[handled + 1] \in Nat
    BY <1>1, <1>4, InputConstants
  <2>2. CASE m_size = 0
    BY <1>1, <1>2, <2>1, <2>2, InputConstants DEF Open, CutUp, HeaderBytes
  <2>3. CASE m_size # 0
    <3>1. m_size = Packets[handled + 1] /\ m_buffer < m_size
      BY <1>1, <2>3 DEF Open, CutUp, IsReady
    <3> QED BY <1>1, <1>2, <2>1, <2>3, <3>1, InputConstants DEF HeaderBytes
  <2> QED BY <2>2, <2>3
<1> QED BY <1>1, <1>3, <1>4, WholePackets

-----------------------------------------------------------------------------
(* The steps of the two threads keep the invariant *)

LEMMA InitInputInv == InputInit => InputInv
<1> SUFFICES ASSUME InputInit PROVE InputInv
  OBVIOUS
<1>1. InputTypeOK
  <2>1. /\ Len(Packets) \in Nat /\ MaxMessages \in Nat /\ EndOf[Len(Packets)] \in Nat
    BY InputConstants
  <2>2. events \in Seq(EventType)
    BY DEF InputInit
  <2>3. /\ readable \in BOOLEAN /\ m_inputShutdown \in BOOLEAN
        /\ wasReady \in BOOLEAN /\ closed \in BOOLEAN
        /\ pc \in {"loop", "reading", "turn"}
    BY Zenon DEF InputInit
  <2>4. /\ total \in 0 .. EndOf[Len(Packets)] /\ toCome = total /\ m_inputBuffer = 0
        /\ m_buffer = 0 /\ m_size = 0 /\ headers = 0 /\ handled = 0 /\ m_messages = 0 /\ m_bytes = 0
    BY DEF InputInit
  <2>5. /\ toCome \in Nat /\ headers \in 0 .. Len(Packets) /\ handled \in 0 .. Len(Packets)
        /\ m_messages \in 0 .. MaxMessages
    BY <2>1, <2>4
  <2> QED BY <2>2, <2>3, <2>4, <2>5 DEF InputTypeOK
<1>2. EndOf[0] = 0
  BY PacketEnds DEF EndsAfter
<1>3. Open
  BY <1>2, InputConstants DEF InputInit, Open, Accounted, CutUp, Noticed, Ends, HeaderBytes, Queued,
     EndIsLast
<1> QED BY <1>1, <1>3 DEF InputInv

\* What an event more, or the first one less, does to the queue.
LEMMA QueuedMore ==
  ASSUME events \in Seq(EventType), NEW e \in EventType, events' = Append(events, e)
  PROVE  /\ events' \in Seq(EventType)
         /\ \A x : Queued(x)' <=> Queued(x) \/ x = e
         /\ EndIsLast /\ (e = "SocketReady" => ~Queued("SocketShutdown")) => EndIsLast'
<1>1. /\ events' \in Seq(EventType) /\ Len(events') = Len(events) + 1
      /\ events'[Len(events) + 1] = e /\ Len(events) + 1 \in DOMAIN events'
      /\ \A p \in DOMAIN events : p \in DOMAIN events' /\ events'[p] = events[p]
      /\ \A p \in DOMAIN events' : p = Len(events) + 1 \/ p \in DOMAIN events
  BY AppendOne
<1>2. \A p \in DOMAIN events : p < Len(events) + 1
  BY LenProperties
<1>3. \A x : Queued(x)' <=> Queued(x) \/ x = e
  BY <1>1 DEF Queued
<1>4. ASSUME EndIsLast, e = "SocketReady" => ~Queued("SocketShutdown"),
             NEW p \in DOMAIN events', NEW j \in DOMAIN events',
             events'[p] = "SocketShutdown", events'[j] = "SocketReady"
      PROVE  j < p
  BY <1>1, <1>2, <1>4 DEF EndIsLast, Queued
<1> QED BY <1>1, <1>3, <1>4 DEF EndIsLast

LEMMA QueuedLess ==
  ASSUME events \in Seq(EventType), events # <<>>, events' = Tail(events)
  PROVE  /\ events' \in Seq(EventType)
         /\ \A x : Queued(x)' => Queued(x)
         /\ \A x : Queued(x) => Queued(x)' \/ x = Head(events)
         /\ EndIsLast => EndIsLast'
         /\ EndIsLast /\ Head(events) = "SocketShutdown" => ~ Queued("SocketReady")
<1>1. /\ Head(events) = events[1] /\ 1 \in DOMAIN events /\ events' \in Seq(EventType)
      /\ \A p \in DOMAIN events' : p + 1 \in DOMAIN events /\ events'[p] = events[p + 1]
      /\ \A p \in DOMAIN events : p # 1 => p - 1 \in DOMAIN events' /\ events'[p - 1] = events[p]
  BY HeadTail
<1>2. /\ \A p \in DOMAIN events' : p \in Nat
      /\ \A p \in DOMAIN events : p \in Nat /\ p >= 1
  BY <1>1, LenProperties
<1>3. \A x : Queued(x)' => Queued(x)
  BY <1>1 DEF Queued
<1>4. \A x : Queued(x) => Queued(x)' \/ x = Head(events)
  BY <1>1 DEF Queued
<1>5. EndIsLast => EndIsLast'
  <2> SUFFICES ASSUME EndIsLast, NEW p \in DOMAIN events', NEW j \in DOMAIN events',
                      events'[p] = "SocketShutdown", events'[j] = "SocketReady"
               PROVE  j < p
    BY DEF EndIsLast
  <2>1. j + 1 < p + 1
    BY <1>1 DEF EndIsLast
  <2> QED BY <1>2, <2>1
<1>6. EndIsLast /\ Head(events) = "SocketShutdown" => ~ Queued("SocketReady")
  BY <1>1, <1>2 DEF EndIsLast, Queued
<1> QED BY <1>1, <1>3, <1>4, <1>5, <1>6

LEMMA OpenWhile ==
  ASSUME InputInv, ~closed \/ pc # "loop"
  PROVE  InputTypeOK /\ Open
  BY DEF InputInv, Closed

LEMMA ReceiveKeeps ==
  ASSUME InputInv, Receive
  PROVE  InputInv'
<1>1. InputTypeOK /\ Open
  BY OpenWhile DEF Receive
<1>2. PICK n \in 1 .. toCome : toCome' = toCome - n /\ m_inputBuffer' = m_inputBuffer + n
  BY DEF Receive
<1>3. /\ readable /\ ~closed
      /\ events' = IF m_inputBuffer = 0 THEN Append(events, "SocketReady") ELSE events
      /\ UNCHANGED <<readable, m_buffer, m_size, headers, m_inputShutdown, handled,
                     m_messages, m_bytes, pc, wasReady, closed, total>>
  BY DEF Receive, filter, budget
<1>4. /\ ~Queued("SocketShutdown") /\ ~m_inputShutdown /\ ~Queued("Shutdown") /\ EndIsLast
      /\ events \in Seq(EventType) /\ "SocketReady" \in EventType
  BY <1>1, <1>3 DEF Open, Ends, EndReported, InputTypeOK, EventType
<1>5. /\ events' \in Seq(EventType)
      /\ ~Queued("SocketShutdown")' /\ ~Queued("Shutdown")' /\ EndIsLast'
      /\ Queued("SocketReady")' \/ m_inputBuffer # 0
      /\ Queued("SocketReady") => Queued("SocketReady")'
  <2>1. CASE m_inputBuffer = 0
    <3>1. events' = Append(events, "SocketReady")
      BY <1>3, <2>1
    <3> QED BY <1>4, <3>1, QueuedMore
  <2>2. CASE m_inputBuffer # 0
    BY <1>3, <1>4, <2>2 DEF Queued, EndIsLast
  <2> QED BY <2>1, <2>2
<1>6. toCome \in Nat /\ m_inputBuffer \in Nat /\ toCome' \in Nat /\ m_inputBuffer' \in Nat
  BY <1>1, <1>2 DEF InputTypeOK
<1>7. InputTypeOK'
  BY <1>1, <1>3, <1>5, <1>6 DEF InputTypeOK
<1>8. Accounted'
  <2>1. handled \in 0 .. Len(Packets) /\ m_buffer \in Nat /\ HeaderBytes \in Nat
    BY <1>1, InputConstants DEF InputTypeOK, HeaderBytes
  <2>2. HeaderBytes' = HeaderBytes
    BY <1>3 DEF HeaderBytes
  <2> QED BY <1>1, <1>2, <1>3, <1>6, <2>1, <2>2, InputConstants DEF Open, Accounted
<1>9. Noticed'
  BY <1>1, <1>3, <1>5, <1>6 DEF Open, Noticed
<1>10. CutUp' /\ Ends' /\ ~closed'
  BY <1>1, <1>3, <1>4, <1>5 DEF Open, CutUp, Ends
<1> QED BY <1>7, <1>8, <1>9, <1>10 DEF InputInv, Open

LEMMA ReceiveEndKeeps ==
  ASSUME InputInv, ReceiveEnd
  PROVE  InputInv'
<1>1. InputTypeOK /\ Open
  BY OpenWhile DEF ReceiveEnd
<1>2. /\ readable /\ ~closed /\ toCome = 0 /\ ~readable'
      /\ readable' \in BOOLEAN
      /\ events' = Append(events, "SocketShutdown")
      /\ UNCHANGED <<toCome, m_inputBuffer, m_buffer, m_size, headers, m_inputShutdown, handled,
                     m_messages, m_bytes, pc, wasReady, closed, total>>
  BY Zenon DEF ReceiveEnd, filter, budget
<1>3. /\ ~m_inputShutdown /\ ~Queued("Shutdown") /\ EndIsLast
      /\ events \in Seq(EventType) /\ "SocketShutdown" \in EventType
  BY <1>1, <1>2 DEF Open, Ends, EndReported, InputTypeOK, EventType
<1>4. /\ events' \in Seq(EventType)
      /\ ~Queued("Shutdown")' /\ EndIsLast'
      /\ Queued("SocketReady") => Queued("SocketReady")'
  BY <1>2, <1>3, QueuedMore
<1>5. InputTypeOK'
  BY <1>1, <1>2, <1>4 DEF InputTypeOK
<1>6. Accounted' /\ CutUp' /\ Noticed' /\ ~closed'
  BY <1>1, <1>2, <1>4 DEF Open, Accounted, CutUp, Noticed, HeaderBytes
<1>7. Ends'
  BY <1>2, <1>3, <1>4 DEF Ends, EndReported
<1> QED BY <1>5, <1>6, <1>7 DEF InputInv, Open

\* The first event is taken.
LEMMA Dispatched ==
  ASSUME InputInv, NEW e, Dispatches(e), events' = Tail(events)
  PROVE  /\ InputTypeOK /\ Open /\ pc = "loop" /\ ~closed /\ Head(events) = e /\ Queued(e)
         /\ events' \in Seq(EventType) /\ EndIsLast'
         /\ \A x : Queued(x)' => Queued(x)
         /\ \A x : Queued(x) => Queued(x)' \/ x = e
         /\ e = "SocketShutdown" => ~Queued("SocketReady")
<1>1. pc = "loop" /\ ~closed /\ Head(events) = e /\ events # <<>>
  BY DEF Dispatches
<1>2. InputTypeOK /\ Open
  BY <1>1, OpenWhile
<1>3. events \in Seq(EventType) /\ EndIsLast
  BY <1>2 DEF InputTypeOK, Open, Ends
<1>4. Queued(e)
  BY <1>1, <1>3, HeadTail DEF Queued
<1> QED BY <1>1, <1>2, <1>3, <1>4, QueuedLess

LEMMA FilterInputReadyKeeps ==
  ASSUME InputInv, FilterInputReady
  PROVE  InputInv'
<1>1. /\ Dispatches("SocketReady") /\ events' = Tail(events) /\ pc' = "reading"
      /\ UNCHANGED <<toCome, m_inputBuffer, readable, m_buffer, m_size, headers,
                     m_inputShutdown, handled, m_messages, m_bytes, closed, total>>
  BY DEF FilterInputReady, socket, filter, budget
<1>2. /\ InputTypeOK /\ Open /\ ~closed /\ Queued("SocketReady")
      /\ events' \in Seq(EventType) /\ EndIsLast'
      /\ \A x : Queued(x)' => Queued(x)
  BY <1>1, Dispatched
<1>3. wasReady' \in BOOLEAN
  BY Zenon DEF FilterInputReady, IsReady
<1>4. InputTypeOK'
  BY <1>1, <1>2, <1>3 DEF InputTypeOK
<1>5. Accounted' /\ CutUp' /\ Noticed' /\ ~closed'
  BY <1>1, <1>2 DEF Open, Accounted, CutUp, Noticed, HeaderBytes
<1>6. ~m_inputShutdown
  BY <1>2 DEF Open, Ends
<1>7. Ends'
  BY <1>1, <1>2, <1>6 DEF Open, Ends, EndReported
<1> QED BY <1>4, <1>5, <1>7 DEF InputInv, Open

\* What the filter holds, as the header of the next packet is looked for.
LEMMA Remaining ==
  ASSUME InputTypeOK, Open
  PROVE  /\ handled \in 0 .. Len(Packets) /\ EndOf[handled] \in Nat
         /\ m_buffer \in Nat /\ m_size \in Nat /\ m_inputBuffer \in Nat /\ toCome \in Nat
         /\ total \in 0 .. EndOf[Len(Packets)]
         /\ total = EndOf[handled] + HeaderBytes + m_buffer + m_inputBuffer + toCome
         /\ HeaderBytes = (IF m_size = 0 THEN 0 ELSE Header) /\ Header \in Nat \ {0}
         /\ headers = (IF m_size = 0 THEN handled ELSE handled + 1)
         /\ m_size # 0 => m_size = Packets[headers]
         /\ m_size = 0 => m_buffer < Header
  BY InputConstants DEF InputTypeOK, Open, Accounted, CutUp, HeaderBytes

LEMMA ReadMoreKeeps ==
  ASSUME InputInv, ReadMore
  PROVE  InputInv'
<1>1. /\ pc = "reading" /\ m_inputBuffer > 0 /\ m_inputBuffer' = 0
      /\ ReadPacketSize(m_buffer + m_inputBuffer, m_size)
      /\ UNCHANGED <<toCome, readable, m_inputShutdown, handled, m_messages, m_bytes, events,
                     pc, wasReady, closed, total>>
  BY DEF ReadMore, budget
<1>2. InputTypeOK /\ Open /\ ~closed
  BY <1>1, OpenWhile DEF Open
<1> DEFINE bytes == m_buffer + m_inputBuffer
<1>3. bytes \in Nat
  BY <1>2, Remaining
<1>4. ~m_inputShutdown /\ ~Queued("Shutdown")
  BY <1>1, <1>2 DEF Open, Ends
<1>5. /\ m_buffer' \in Nat /\ m_size' \in Nat /\ headers' \in 0 .. Len(Packets)
      /\ total = EndOf[handled] + HeaderBytes' + m_buffer' + toCome
      /\ CutUp'
  <2>1. CASE m_size = 0
    <3>1. ReadPacketSize(bytes, 0) /\ headers = handled
      BY <1>1, <1>2, <2>1, Remaining
    <3>2. total = EndOf[handled] + bytes + toCome
      BY <1>2, <2>1, Remaining
    <3> HIDE DEF bytes
    <3> QED BY <1>1, <1>2, <1>3, <3>1, <3>2, HeaderRead, Remaining DEF CutUp
  <2>2. CASE m_size # 0
    <3>1. m_buffer' = bytes /\ m_size' = m_size /\ headers' = headers
      BY <1>1, <2>2 DEF ReadPacketSize
    <3>2. headers \in 0 .. Len(Packets)
      BY <1>2 DEF InputTypeOK
    <3> QED BY <1>1, <1>2, <1>3, <2>2, <3>1, <3>2, Remaining DEF CutUp, HeaderBytes
  <2> QED BY <2>1, <2>2
<1>6. InputTypeOK'
  BY <1>1, <1>2, <1>5 DEF InputTypeOK
<1>7. Accounted'
  <2>1. total = EndOf[handled] + HeaderBytes' + m_buffer' + 0 + toCome
    <3>1. HeaderBytes' \in Nat /\ EndOf[handled] \in Nat /\ toCome \in Nat
      BY <1>2, Remaining DEF HeaderBytes
    <3> QED BY <1>5, <3>1
  <2> QED BY <1>1, <2>1 DEF Accounted
<1>8. Noticed' /\ Ends' /\ ~closed'
  BY <1>1, <1>2, <1>4 DEF Open, Noticed, Ends, EndReported, Queued, EndIsLast
<1> QED BY <1>5, <1>6, <1>7, <1>8 DEF InputInv, Open

LEMMA ReadNoMoreKeeps ==
  ASSUME InputInv, ReadNoMore
  PROVE  InputInv'
<1>1. /\ pc = "reading" /\ m_inputBuffer = 0 /\ pc' \in {"turn", "loop"}
      /\ m_messages' = 0 /\ m_bytes' = 0
      /\ UNCHANGED <<toCome, m_inputBuffer, readable, m_buffer, m_size, headers,
                     m_inputShutdown, handled, events, wasReady, closed, total>>
  BY DEF ReadNoMore, socket, filter
<1>2. InputTypeOK /\ Open /\ ~closed
  BY <1>1, OpenWhile DEF Open
<1>3. InputTypeOK'
  <2>1. m_messages' \in 0 .. MaxMessages /\ m_bytes' \in Nat
    BY <1>1, InputConstants
  <2> QED BY <1>1, <1>2, <2>1 DEF InputTypeOK
<1>4. Open'
  BY <1>1, <1>2 DEF Open, Accounted, CutUp, Noticed, Ends, EndReported, Queued, EndIsLast, HeaderBytes
<1> QED BY <1>3, <1>4 DEF InputInv

LEMMA FilterInputShutdownKeeps ==
  ASSUME InputInv, FilterInputShutdown
  PROVE  InputInv'
<1>1. /\ Dispatches("SocketShutdown") /\ m_inputShutdown'
      /\ m_inputShutdown' \in BOOLEAN
      /\ IF IsReady THEN events' = Tail(events) /\ UNCHANGED <<closed, m_size>>
         ELSE /\ closed' = TRUE /\ m_size' = 0
              /\ events' = Tail(events) \o (IF m_size = 0 THEN <<>> ELSE <<"FormatError">>)
      /\ UNCHANGED <<toCome, m_inputBuffer, readable, m_buffer, headers, handled,
                     m_messages, m_bytes, pc, wasReady, total>>
  BY Zenon DEF FilterInputShutdown, socket, budget
<1>2. pc = "loop" /\ ~closed /\ events # <<>> /\ InputTypeOK /\ Open
  BY <1>1, OpenWhile DEF Dispatches
<1>3. EndReported /\ m_inputBuffer = 0 /\ ~Queued("SocketReady")
  <2>1. Queued("SocketShutdown") /\ ~Queued("SocketReady")
    <3>1. events \in Seq(EventType) /\ EndIsLast /\ Head(events) = "SocketShutdown"
      BY <1>1, <1>2 DEF Dispatches, InputTypeOK, Open, Ends
    <3> QED BY <1>2, <3>1, HeadTail DEF EndIsLast, Queued
  <2> QED BY <1>2, <2>1, Remaining DEF Open, Ends, Noticed
<1>4. CASE IsReady
  <2>1. events' = Tail(events) /\ UNCHANGED <<closed, m_size>>
    BY <1>1, <1>4
  <2>2. /\ events' \in Seq(EventType) /\ EndIsLast'
        /\ \A x : Queued(x)' => Queued(x)
    BY <1>1, <2>1, Dispatched
  <2>3. InputTypeOK'
    BY <1>1, <1>2, <2>1, <2>2 DEF InputTypeOK
  <2>4. Accounted' /\ CutUp' /\ Noticed' /\ ~closed'
    BY <1>1, <1>2, <1>3, <2>1, Remaining DEF Open, Accounted, CutUp, Noticed, HeaderBytes
  <2>5. Ends'
    BY <1>1, <1>2, <1>3, <2>1, <2>2 DEF Open, Ends, EndReported
  <2> QED BY <2>3, <2>4, <2>5 DEF InputInv, Open
<1>5. CASE ~IsReady
  <2>1. handled = Whole(total)
    BY <1>2, <1>3, <1>5, NoneLeft
  <2>2. events' \in Seq(EventType)
    <3>1. Tail(events) \in Seq(EventType) /\ "FormatError" \in EventType
      BY <1>2, HeadTail DEF InputTypeOK, EventType
    <3>2. (IF m_size = 0 THEN <<>> ELSE <<"FormatError">>) \in Seq(EventType)
      BY <3>1
    <3> QED BY <1>1, <1>5, <3>1, <3>2, ConcatProperties
  <2>3. InputTypeOK'
    <3>1. m_size' \in Nat /\ closed' \in BOOLEAN
      BY <1>1, <1>5
    <3> QED BY <1>1, <1>2, <2>2, <3>1 DEF InputTypeOK
  <2>4. Closed'
    <3>1. handled' = Whole(total)' /\ pc' = "loop" /\ closed'
      BY <1>1, <1>2, <1>5, <2>1
    <3> QED BY <3>1 DEF Closed
  <2> QED BY <2>3, <2>4 DEF InputInv
<1> QED BY <1>4, <1>5

LEMMA BeginTurnKeeps ==
  ASSUME InputInv, BeginTurn
  PROVE  InputInv'
<1>1. PICK e \in {"Ready", "Continue"} : Dispatches(e)
  BY DEF BeginTurn
<1>2. /\ events' = Tail(events) /\ pc' = "turn" /\ m_messages' = 0 /\ m_bytes' = 0
      /\ UNCHANGED <<toCome, m_inputBuffer, readable, m_buffer, m_size, headers,
                     m_inputShutdown, handled, wasReady, closed, total>>
  BY DEF BeginTurn, socket, filter
<1>3. /\ InputTypeOK /\ Open /\ pc = "loop" /\ ~closed
      /\ events' \in Seq(EventType) /\ EndIsLast'
      /\ \A x : Queued(x)' => Queued(x)
      /\ \A x : Queued(x) => Queued(x)' \/ x = e
  BY <1>1, <1>2, Dispatched
<1>4. Queued("SocketReady") => Queued("SocketReady")'
  BY <1>1, <1>3
<1>5. InputTypeOK'
  <2>1. m_messages' \in 0 .. MaxMessages /\ m_bytes' \in Nat
    BY <1>2, InputConstants
  <2> QED BY <1>2, <1>3, <2>1 DEF InputTypeOK
<1>6. Accounted' /\ CutUp' /\ Noticed' /\ ~closed'
  BY <1>2, <1>3, <1>4 DEF Open, Accounted, CutUp, Noticed, HeaderBytes
<1>7. Ends'
  BY <1>2, <1>3 DEF Open, Ends, EndReported
<1> QED BY <1>5, <1>6, <1>7 DEF InputInv, Open

LEMMA HandleShutdownKeeps ==
  ASSUME InputInv, HandleShutdown
  PROVE  InputInv'
<1>1. /\ Dispatches("Shutdown") /\ events' = Tail(events) /\ closed' = TRUE
      /\ UNCHANGED <<toCome, m_inputBuffer, readable, m_buffer, m_size, headers,
                     m_inputShutdown, handled, m_messages, m_bytes, pc, wasReady, total>>
  BY DEF HandleShutdown, socket, filter, budget
<1>2. /\ InputTypeOK /\ Open /\ pc = "loop" /\ ~closed /\ Queued("Shutdown")
      /\ events' \in Seq(EventType)
  BY <1>1, Dispatched
<1>3. EndReported /\ m_inputBuffer = 0 /\ m_size = 0
  BY <1>2 DEF Open, Ends
<1>4. handled = Whole(total)
  BY <1>2, <1>3, NoneLeft DEF IsReady
<1>5. InputTypeOK'
  <2>1. closed' \in BOOLEAN
    BY <1>1
  <2> QED BY <1>1, <1>2, <2>1 DEF InputTypeOK
<1>6. handled' = Whole(total)' /\ pc' = "loop" /\ closed'
  BY <1>1, <1>2, <1>4
<1> QED BY <1>5, <1>6 DEF InputInv, Closed

LEMMA EndTurnKeeps ==
  ASSUME InputInv, EndTurn
  PROVE  InputInv'
<1>1. /\ pc = "turn" /\ pc' = "loop"
      /\ events' = Append(events, "Continue") \/ events' = events
      /\ UNCHANGED <<toCome, m_inputBuffer, readable, m_buffer, m_size, headers,
                     m_inputShutdown, handled, m_messages, m_bytes, wasReady, closed, total>>
  BY DEF EndTurn, socket, filter, budget
<1>2. InputTypeOK /\ Open /\ ~closed
  BY <1>1, OpenWhile DEF Open
<1>3. /\ events \in Seq(EventType) /\ EndIsLast
      /\ "Continue" \in EventType
  BY <1>2 DEF InputTypeOK, Open, Ends, EventType
<1>4. /\ events' \in Seq(EventType) /\ EndIsLast'
      /\ \A x \in {"SocketReady", "SocketShutdown", "Shutdown"} : Queued(x)' <=> Queued(x)
  <2>1. CASE events' = Append(events, "Continue")
    BY <1>3, <2>1, QueuedMore
  <2>2. CASE events' = events
    BY <1>3, <2>2 DEF Queued, EndIsLast
  <2> QED BY <1>1, <2>1, <2>2
<1>5. InputTypeOK'
  BY <1>1, <1>2, <1>4 DEF InputTypeOK
<1>6. Accounted' /\ CutUp' /\ Noticed' /\ ~closed'
  BY <1>1, <1>2, <1>4 DEF Open, Accounted, CutUp, Noticed, HeaderBytes
<1>7. Ends'
  BY <1>1, <1>2, <1>4 DEF Open, Ends, EndReported
<1> QED BY <1>5, <1>6, <1>7 DEF InputInv, Open

\* A packet is read to its end, and the header of the next one.
LEMMA PacketRead ==
  ASSUME InputTypeOK, Open, IsReady,
         ReadPacketSize(m_buffer - m_size, 0)
  PROVE  /\ handled + 1 \in 0 .. Len(Packets) /\ m_buffer - m_size \in Nat
         /\ m_buffer' \in Nat /\ m_size' \in Nat /\ headers' \in 0 .. Len(Packets)
         /\ total = EndOf[handled + 1] + HeaderBytes' + m_buffer' + m_inputBuffer + toCome
         /\ headers' = (IF m_size' = 0 THEN handled + 1 ELSE handled + 2)
         /\ m_size' # 0 => m_size' = Packets[headers']
         /\ m_size' = 0 => m_buffer' < Header
         /\ m_buffer - m_size >= Header <=> m_size' # 0
<1> DEFINE bytes == m_buffer - m_size
           rest == m_inputBuffer + toCome
           h == handled + 1
<1>1. m_size # 0 /\ m_buffer >= m_size
  BY DEF IsReady
<1>2. headers = h /\ h \in 0 .. Len(Packets) /\ h \in 1 .. Len(Packets) /\ m_size = Packets[h]
  <2>1. headers = h /\ headers \in 0 .. Len(Packets) /\ m_size = Packets[headers]
    BY <1>1, Remaining DEF InputTypeOK
  <2> QED BY <2>1, Remaining
<1>3. bytes \in Nat /\ rest \in Nat
  BY <1>1, Remaining
<1>4. EndOf[h] = EndOf[h - 1] + Header + Packets[h] /\ h - 1 = handled
  <2>1. handled \in Nat /\ h - 1 = handled
    BY Remaining
  <2> HIDE DEF h
  <2> QED BY <1>2, <2>1, PacketEnds DEF EndsAfter
<1>5. total = EndOf[h] + bytes + rest
  <2>1. /\ total = EndOf[handled] + Header + m_buffer + m_inputBuffer + toCome
        /\ EndOf[handled] \in Nat /\ Header \in Nat /\ m_buffer \in Nat /\ m_size \in Nat
        /\ m_inputBuffer \in Nat /\ toCome \in Nat
    BY <1>1, Remaining
  <2>2. EndOf[h] = EndOf[handled] + Header + m_size
    BY <1>2, <1>4
  <2> HIDE DEF h
  <2> QED BY <2>1, <2>2
<1>6. ReadPacketSize(bytes, 0) /\ total \in 0 .. EndOf[Len(Packets)]
  BY Remaining
<1>7. m_inputBuffer \in Nat /\ toCome \in Nat /\ Header \in Nat /\ EndOf[h] \in Nat
  BY <1>2, Remaining, InputConstants
<1>n. handled \in Nat
  BY Remaining
<1> HIDE DEF h, bytes
<1>8. /\ m_buffer' \in Nat /\ m_size' \in Nat /\ headers' \in 0 .. Len(Packets)
      /\ total = EndOf[h] + HeaderBytes' + m_buffer' + rest
      /\ headers' = (IF m_size' = 0 THEN h ELSE h + 1)
      /\ m_size' # 0 => m_size' = Packets[headers']
      /\ m_size' = 0 => m_buffer' < Header
      /\ bytes >= Header <=> m_size' # 0
  <2> HIDE DEF rest
  <2> QED BY <1>2, <1>3, <1>5, <1>6, HeaderRead
<1>9. total = EndOf[h] + HeaderBytes' + m_buffer' + m_inputBuffer + toCome
  <2>1. HeaderBytes' \in Nat
    BY <1>7 DEF HeaderBytes
  <2> QED BY <1>7, <1>8, <2>1 DEF rest
<1>10. h + 1 = handled + 2
  BY <1>n DEF h
<1> QED BY <1>2, <1>3, <1>8, <1>9, <1>10 DEF h, bytes

\* What is left of the invariant after a packet was read, with one event more at most.
LEMMA ReadKeeps ==
  ASSUME InputInv, IsReady, pc = "turn",
         ReadPacketSize(m_buffer - m_size, 0), handled' = handled + 1, pc' \in {"turn", "loop"},
         m_messages' \in 0 .. MaxMessages, m_bytes' \in Nat,
         events' \in Seq(EventType), EndIsLast',
         \A x \in {"SocketReady", "SocketShutdown"} : Queued(x)' <=> Queued(x),
         Queued("Shutdown")' => Queued("Shutdown") \/ (m_inputShutdown /\ m_size' = 0),
         UNCHANGED <<toCome, m_inputBuffer, readable, m_inputShutdown, wasReady, closed, total>>
  PROVE  InputInv'
<1>1. InputTypeOK /\ Open /\ ~closed
  BY OpenWhile DEF Open
<1>2. ~Queued("Shutdown")
  BY <1>1 DEF Open, Ends, IsReady
<1>3. InputTypeOK'
  BY <1>1, PacketRead DEF InputTypeOK
<1>4. Accounted' /\ CutUp'
  <2>1. handled + 2 = (handled + 1) + 1
    BY <1>1, Remaining
  <2> QED BY <1>1, <2>1, PacketRead DEF Accounted, CutUp
<1>5. Noticed' /\ ~closed'
  BY <1>1 DEF Open, Noticed
<1>6. Ends'
  BY <1>1, <1>2 DEF Open, Ends, EndReported
<1> QED BY <1>3, <1>4, <1>5, <1>6 DEF InputInv, Open

LEMMA HandleMessageKeeps ==
  ASSUME InputInv, HandleMessage
  PROVE  InputInv'
<1>1. /\ pc = "turn" /\ IsReady /\ ~Exhausted /\ pc' = "turn"
      /\ ReadPacketSize(m_buffer - m_size, 0)
      /\ events' = IF m_inputShutdown /\ m_size' = 0 THEN Append(events, "Shutdown") ELSE events
      /\ handled' = handled + 1 /\ m_messages' = m_messages + 1
      /\ m_bytes' = m_bytes + (IF m_size' # 0 /\ m_buffer' >= m_size' THEN m_size' ELSE 0)
      /\ UNCHANGED <<toCome, m_inputBuffer, readable, m_inputShutdown, wasReady, closed, total>>
  BY DEF HandleMessage, Read, socket
<1>2. InputTypeOK /\ Open /\ EndIsLast
  BY <1>1, OpenWhile DEF Open, Ends
<1>3. m_messages' \in 0 .. MaxMessages /\ m_bytes' \in Nat
  <2>1. m_messages \in 0 .. MaxMessages /\ m_bytes \in Nat /\ m_size' \in Nat /\ m_messages < MaxMessages
    <3>1. m_messages \in 0 .. MaxMessages /\ m_bytes \in Nat /\ m_size' \in Nat
      BY <1>1, <1>2, PacketRead DEF InputTypeOK
    <3> QED BY <1>1, <3>1, InputConstants DEF Exhausted
  <2> DEFINE more == IF m_size' # 0 /\ m_buffer' >= m_size' THEN m_size' ELSE 0
  <2>2. MaxMessages \in Nat /\ more \in Nat /\ m_bytes' = m_bytes + more
    BY <1>1, <2>1, InputConstants
  <2> HIDE DEF more
  <2>3. m_messages + 1 \in 0 .. MaxMessages
    BY <2>1, <2>2
  <2>4. m_bytes' \in Nat
    BY <2>1, <2>2
  <2>5. m_messages' \in 0 .. MaxMessages
    BY <1>1, <2>3
  <2> QED BY <2>4, <2>5
<1>4. events \in Seq(EventType) /\ "Shutdown" \in EventType
  BY <1>2 DEF InputTypeOK, EventType
<1>5. /\ events' \in Seq(EventType) /\ EndIsLast'
      /\ \A x \in {"SocketReady", "SocketShutdown"} : Queued(x)' <=> Queued(x)
      /\ Queued("Shutdown")' => Queued("Shutdown") \/ (m_inputShutdown /\ m_size' = 0)
  <2>1. CASE m_inputShutdown /\ m_size' = 0
    <3>1. events' = Append(events, "Shutdown")
      BY <1>1, <2>1
    <3> QED BY <1>2, <1>4, <2>1, <3>1, QueuedMore
  <2>2. CASE ~(m_inputShutdown /\ m_size' = 0)
    <3>1. events' = events
      BY <1>1, <2>2
    <3> QED BY <1>2, <1>4, <3>1 DEF Queued, EndIsLast
  <2> QED BY <2>1, <2>2
<1> QED BY <1>1, <1>3, <1>5, ReadKeeps

LEMMA HandleHelloKeeps ==
  ASSUME InputInv, HandleHello
  PROVE  InputInv'
<1> DEFINE next == m_buffer - m_size >= Header
           first == IF m_inputShutdown /\ ~next THEN <<"Shutdown">> ELSE <<>>
           second == IF next /\ m_buffer' >= m_size' THEN <<"Ready">> ELSE <<>>
<1>1. /\ pc = "turn" /\ IsReady /\ pc' = "loop"
      /\ ReadPacketSize(m_buffer - m_size, 0)
      /\ events' = events \o first \o second
      /\ handled = 0 /\ handled' = 1
      /\ UNCHANGED <<toCome, m_inputBuffer, readable, m_inputShutdown, m_messages, m_bytes,
                     wasReady, closed, total>>
  BY DEF HandleHello, socket, budget
<1>2. InputTypeOK /\ Open /\ EndIsLast
  BY <1>1, OpenWhile DEF Open, Ends
<1>3. events \in Seq(EventType) /\ "Shutdown" \in EventType /\ "Ready" \in EventType
  BY <1>2 DEF InputTypeOK, EventType
<1>4. /\ events' = events \/ (events' = Append(events, "Shutdown") /\ m_inputShutdown /\ m_size' = 0)
                          \/ events' = Append(events, "Ready")
  <2>1. next <=> m_size' # 0
    BY <1>1, <1>2, PacketRead
  <2>2. /\ events \o <<"Shutdown">> = Append(events, "Shutdown")
        /\ events \o <<"Ready">> = Append(events, "Ready")
        /\ events \o <<>> = events
        /\ Append(events, "Shutdown") \o <<>> = Append(events, "Shutdown")
    BY <1>3, AppendOne
  <2>3. CASE next
    <3>1. first = <<>> /\ second \in {<<"Ready">>, <<>>}
      BY <2>3
    <3>2. events' = events \o second
      BY <1>1, <2>2, <3>1
    <3> QED BY <2>2, <3>1, <3>2
  <2>4. CASE ~next
    <3>1. second = <<>> /\ m_size' = 0
      BY <2>1, <2>4
    <3>2. CASE m_inputShutdown
      <4>1. first = <<"Shutdown">>
        BY <2>4, <3>2
      <4>2. events' = Append(events, "Shutdown")
        BY <1>1, <2>2, <3>1, <4>1
      <4> QED BY <3>1, <3>2, <4>2
    <3>3. CASE ~m_inputShutdown
      <4>1. first = <<>>
        BY <3>3
      <4> QED BY <1>1, <2>2, <3>1, <4>1
    <3> QED BY <3>2, <3>3
  <2> QED BY <2>3, <2>4
<1>5. /\ events' \in Seq(EventType) /\ EndIsLast'
      /\ \A x \in {"SocketReady", "SocketShutdown"} : Queued(x)' <=> Queued(x)
      /\ Queued("Shutdown")' => Queued("Shutdown") \/ (m_inputShutdown /\ m_size' = 0)
  <2>1. CASE events' = Append(events, "Shutdown") /\ m_inputShutdown /\ m_size' = 0
    BY <1>2, <1>3, <2>1, QueuedMore
  <2>2. CASE events' = Append(events, "Ready")
    BY <1>2, <1>3, <2>2, QueuedMore
  <2>3. CASE events' = events
    BY <1>2, <1>3, <2>3 DEF Queued, EndIsLast
  <2> QED BY <1>4, <2>1, <2>2, <2>3
<1>6. handled' = handled + 1 /\ m_messages' \in 0 .. MaxMessages /\ m_bytes' \in Nat /\ pc' \in {"turn", "loop"}
  BY <1>1, <1>2 DEF InputTypeOK
<1> HIDE DEF first, second, next
<1> QED BY <1>1, <1>5, <1>6, ReadKeeps

LEMMA NextInputInv ==
  ASSUME InputInv, [InputNext]_inputVars
  PROVE  InputInv'
<1>1. CASE UNCHANGED inputVars
  BY <1>1 DEF inputVars, socket, filter, budget, InputInv, InputTypeOK, Open,
     Closed, Accounted, CutUp, Noticed, Ends, EndReported, EndIsLast, Queued, HeaderBytes, Whole
<1>2. CASE InputNext
  BY <1>2, ReceiveKeeps, ReceiveEndKeeps, FilterInputReadyKeeps, ReadMoreKeeps, ReadNoMoreKeeps,
     FilterInputShutdownKeeps, BeginTurnKeeps, HandleShutdownKeeps, HandleHelloKeeps,
     HandleMessageKeeps, EndTurnKeeps
     DEF InputNext, SocketThread, MainThread
<1> QED BY <1>1, <1>2

\* Every variable of the input keeps its type, for any packets, lengths and budgets.
THEOREM InputTypes ==
  InputSpec => []InputTypeOK
<1>1. InputInit => InputInv
  BY InitInputInv
<1>2. InputInv /\ [InputNext]_inputVars => InputInv'
  BY NextInputInv
<1>3. InputInv => InputTypeOK
  BY DEF InputInv
<1> QED BY <1>1, <1>2, <1>3, PTL DEF InputSpec

\* Whoever is told of the end has handled every packet that arrived whole
\* (PacketStreamFilter::filterEvent).
THEOREM EndComesLastAlways ==
  InputSpec => []EndComesLast
<1>1. InputInit => InputInv
  BY InitInputInv
<1>2. InputInv /\ [InputNext]_inputVars => InputInv'
  BY NextInputInv
<1>3. InputInv => EndComesLast
  BY DEF InputInv, Open, Closed, EndComesLast
<1> QED BY <1>1, <1>2, <1>3, PTL DEF InputSpec
=============================================================================
