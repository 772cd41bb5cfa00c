---------------------------- MODULE CoreService -----------------------------
(***************************************************************************)
(* Start and stop as the user sees them: the user interface's CoreProcess  *)
(* in service mode (src/src/lib/gui/core/CoreProcess.cpp), the local       *)
(* connection to the daemon (gui/ipc/IpcClient.cpp and                     *)
(* deskflow/ipc/DaemonIpcServer.cpp) and the daemon with its watchdog.     *)
(* A request made without a connection waits as a slot of the connection's *)
(* connected signal; the daemon's answers are not looked at.               *)
(***************************************************************************)
EXTENDS Watchdog

CONSTANT MaxRequests  \* bound: what the user asks for

ASSUME ServiceAssumption == MaxRequests \in Nat

VARIABLES
    process,          \* CoreProcess::m_processState
    waiting,          \* single-shot slots of connected, in the order they were connected
    posted,           \* those whose call is queued: the signal has been emitted
    link,             \* IpcClient::m_state; broken: the daemon is gone, not noticed yet
    channel,          \* messages on their way to the daemon
    wanted,           \* the user's last request was to start
    hasty,            \* the user has asked again while a request waited for the daemon
    lost,             \* a message has not reached the daemon
    requests

gui == <<process, waiting, posted, wanted, hasty, requests>>
ipc == <<link, channel, lost>>
serviceVars == <<gui, ipc, watchdog, world>>

Slots == {"sendStart", "sendStop"}

ServiceTypeOK ==
    /\ WatchdogTypeOK
    /\ process \in {"Stopped", "Starting", "Started", "Stopping"}
    /\ waiting \in Seq(Slots) /\ posted \in Seq(Slots)
    /\ link \in {"unconnected", "connecting", "connected", "broken"}
    /\ channel \in Seq({"configFile", "start", "stop"})
    /\ wanted \in BOOLEAN /\ hasty \in BOOLEAN /\ lost \in BOOLEAN /\ requests \in 0 .. MaxRequests

IsConnected == link \in {"connected", "broken"}

\* sendMessage: without a connection the message is dropped with a warning.
Messages(slot) == IF slot = "sendStart" THEN <<"configFile", "start">> ELSE <<"stop">>
Send(slots) ==
    LET sent == IF Len(slots) = 1 THEN Messages(slots[1])
                ELSE Messages(slots[1]) \o Messages(slots[2])
    IN  IF link = "connected" THEN channel' = channel \o sent /\ UNCHANGED lost
        ELSE lost' = TRUE /\ UNCHANGED channel
StateAfter(slot) == IF slot = "sendStart" THEN "Started" ELSE "Stopped"

\* The slots are called at once, or wait for a connection that is now tried.
SendOrWait(slots, meanwhile) ==
    IF IsConnected
    THEN /\ Send(slots) /\ process' = StateAfter(slots[Len(slots)])
         /\ UNCHANGED <<waiting, posted, link>>
    ELSE /\ waiting' = waiting \o slots /\ process' = meanwhile
         /\ link' = "connecting"
         /\ UNCHANGED <<posted, channel, lost>>

----------------------------------------------------------------------------
\* The user's buttons.
Asks(want) ==
    /\ requests < MaxRequests /\ requests' = requests + 1
    /\ wanted' = want
    /\ hasty' = (hasty \/ waiting \o posted # <<>>)
    /\ UNCHANGED <<watchdog, world>>

Start ==
    /\ process \in {"Stopped", "Stopping"}
    /\ Asks(TRUE)
    /\ SendOrWait(<<"sendStart">>, "Starting")

\* While it is starting a stop only changes the state.
Stop ==
    /\ Asks(FALSE)
    /\ \/ /\ process = "Starting"
          /\ process' = "Stopped"
          /\ UNCHANGED <<waiting, posted, ipc>>
       \/ /\ process = "Started"
          /\ SendOrWait(<<"sendStop">>, "Stopping")

Restart ==
    /\ Asks(TRUE)
    /\ \/ process = "Starting" /\ SendOrWait(<<"sendStart">>, "Starting")
       \/ process = "Started" /\ SendOrWait(<<"sendStop", "sendStart">>, "Starting")

\* A queued call of a slot.
SlotIsCalled ==
    /\ posted # <<>>
    /\ posted' = Tail(posted)
    /\ process' = StateAfter(Head(posted))
    /\ IF IsConnected THEN Send(<<Head(posted)>>) ELSE lost' = TRUE /\ UNCHANGED channel
    /\ UNCHANGED <<waiting, wanted, hasty, requests, link, watchdog, world>>

----------------------------------------------------------------------------
\* The connection.
Connected ==
    /\ link = "connecting" /\ up
    /\ link' = "connected"
    /\ posted' = posted \o waiting /\ waiting' = <<>>
    /\ UNCHANGED <<process, wanted, hasty, requests, channel, lost, watchdog, world>>

\* Three attempts have failed; the user is told.
ConnectionFailed ==
    /\ link = "connecting" /\ ~up
    /\ link' = "unconnected"
    /\ UNCHANGED <<gui, channel, lost, watchdog, world>>

HandleDisconnected ==
    /\ link = "broken"
    /\ link' = "unconnected"
    /\ UNCHANGED <<gui, channel, lost, watchdog, world>>

\* The user retries from the dialog that says the daemon is offline.
RetryDaemon ==
    /\ link = "unconnected"
    /\ link' = "connecting"
    /\ UNCHANGED <<gui, channel, lost, watchdog, world>>

\* DaemonIpcServer::processCommand.
ProcessCommand ==
    /\ up /\ channel # <<>>
    /\ channel' = Tail(channel)
    /\ CASE Head(channel) = "configFile" -> SetConfigFile
         [] Head(channel) = "start" -> ApplyWatchdogCommand
         [] OTHER -> ClearWatchdogCommand
    /\ UNCHANGED <<gui, link, lost>>

\* What was on its way to a daemon that dies is lost.
DaemonGone ==
    /\ DaemonDies
    /\ link' = IF link = "connected" THEN "broken" ELSE link
    /\ channel' = <<>> /\ lost' = (lost \/ channel # <<>>)
    /\ UNCHANGED gui

----------------------------------------------------------------------------
ServiceInit ==
    /\ WatchdogInit
    /\ process = "Stopped" /\ waiting = <<>> /\ posted = <<>> /\ link = "unconnected"
    /\ channel = <<>> /\ wanted = FALSE /\ hasty = FALSE /\ lost = FALSE /\ requests = 0

Service == (MainLoop \/ CoreExits \/ SessionChanges \/ StopService \/ Boot) /\ UNCHANGED <<gui, ipc>>
ServiceNext ==
    \/ Start \/ Stop \/ Restart \/ SlotIsCalled
    \/ Connected \/ ConnectionFailed \/ HandleDisconnected \/ RetryDaemon
    \/ ProcessCommand \/ DaemonGone
    \/ Service

\* The event loops and the main thread keep running; the lock is not denied
\* for ever to a thread that waits for it.
ServiceFairSpec ==
    /\ ServiceInit /\ [][ServiceNext]_serviceVars
    /\ WF_serviceVars(MainLoop /\ UNCHANGED <<gui, ipc>>)
    /\ WF_serviceVars(SlotIsCalled) /\ WF_serviceVars(Connected) /\ SF_serviceVars(ProcessCommand)

----------------------------------------------------------------------------
\* No message was lost, and from some time on the daemon and the connection stay.
Reliable == []~lost /\ <>[](up /\ m_running /\ link = "connected")

\* The user lets the daemon be reached before asking for something else.
Patient == []~hasty

\* A core that the user has stopped ends and stays ended, although it was just
\* being started, was scheduled to be, or the session changed
\* (DaemonApp::clearWatchdogCommand, the watchdog's lock).
StopIsObeyed == Reliable /\ Patient /\ <>[]~wanted => <>[](cores = {})

\* A core that the user has started comes to run, and is started again after
\* every failure and after a restart of the daemon (CoreProcess::start,
\* DaemonApp::run, MSWindowsWatchdog::mainLoop).
StartIsObeyed == Reliable /\ Patient /\ <>[]wanted => <>[](cores # {})

\* The same of any user: CoreProcess::stop says that it cancels a core that is
\* starting.  It does not hold: the slot that starts it stays connected.
StopCancels == Reliable /\ <>[]~wanted => <>[](cores = {})
=============================================================================
