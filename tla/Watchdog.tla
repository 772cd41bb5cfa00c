------------------------------ MODULE Watchdog ------------------------------
(***************************************************************************)
(* The Windows service (src/src/apps/deskflow-daemon/DaemonApp.cpp) and    *)
(* its watchdog (src/src/lib/platform/MSWindowsWatchdog.cpp), which keeps  *)
(* one core process running while there is a command for it.  The main     *)
(* loop holds m_processStateMutex while it starts or stops a process; the  *)
(* requests of the user interface are carried out on another thread.       *)
(***************************************************************************)
EXTENDS Naturals, Sequences, FiniteSets

CONSTANTS
    Pids,             \* identifiers of core processes
    NoProcess,        \* no process
    MaxFailures,      \* bound: starts that fail
    MaxTroubles       \* bound: cores that exit, session changes and ends of the daemon

ASSUME WatchdogAssumption ==
    /\ IsFiniteSet(Pids) /\ Cardinality(Pids) > 1 /\ NoProcess \notin Pids
    /\ MaxFailures \in Nat /\ MaxTroubles \in Nat

VARIABLES
    configFile,       \* m_configFile and the copy of it in the settings: there is one
    up,               \* the daemon runs
    m_running,
    loop,             \* the main thread: start, sleep, starting (with the lock) or ended
    m_processState,
    m_command,        \* there is a command
    m_process,        \* the core process the watchdog has started
    m_startFailures,
    cores,            \* the core processes that run
    sessionChanged,   \* m_session.hasChanged()
    failures, troubles

watchdog == <<m_running, loop, m_processState, m_command, m_process, m_startFailures, sessionChanged>>
world == <<configFile, up, cores, failures, troubles>>

ProcessStates == {"Idle", "StartScheduled", "StartPending", "StopPending", "Running"}

WatchdogTypeOK ==
    /\ configFile \in BOOLEAN /\ up \in BOOLEAN /\ m_running \in BOOLEAN
    /\ loop \in {"start", "sleep", "starting", "ended"}
    /\ m_processState \in ProcessStates /\ m_command \in BOOLEAN
    /\ m_process \in Pids \cup {NoProcess} /\ cores \subseteq Pids
    /\ m_startFailures \in 0 .. 2 /\ sessionChanged \in BOOLEAN
    /\ failures \in 0 .. MaxFailures /\ troubles \in 0 .. MaxTroubles

----------------------------------------------------------------------------
\* The main loop.  One pass locks, looks at the state, unlocks and sleeps.

\* Mutant: what an earlier daemon has left running is not ended.
BeginBesideOthers ==
    /\ up /\ loop = "start"
    /\ loop' = "sleep"
    /\ UNCHANGED <<configFile, up, m_running, m_processState, m_command, m_process,
                   m_startFailures, cores, sessionChanged, failures, troubles>>

\* shutdownExistingProcesses ends every core process by its name.
BeginLoop ==
    /\ up /\ loop = "start"
    /\ cores' = {}
    /\ loop' = "sleep"
    /\ UNCHANGED <<configFile, up, m_running, m_processState, m_command, m_process,
                   m_startFailures, sessionChanged, failures, troubles>>

EndLoop ==
    /\ up /\ loop = "sleep" /\ ~m_running
    /\ cores' = {} /\ m_process' = NoProcess
    /\ loop' = "ended"
    /\ UNCHANGED <<configFile, up, m_running, m_processState, m_command,
                   m_startFailures, sessionChanged, failures, troubles>>

Pass == up /\ m_running /\ loop = "sleep"

\* Mutant: the second failure in a row gives up.
GivesUp ==
    /\ m_startFailures' = IF m_startFailures = 2 THEN 2 ELSE m_startFailures + 1
    /\ m_processState' = IF m_startFailures > 0 THEN "Idle" ELSE "StartPending"

\* handleStartError: at once after the first failure, later after the next.
HandleStartError ==
    /\ m_startFailures' = IF m_startFailures = 2 THEN 2 ELSE m_startFailures + 1
    /\ m_processState' = IF m_startFailures > 0 THEN "StartScheduled" ELSE "StartPending"

\* A process that was not created but has an exit code: startProcess returns.
TakenForStarted == m_startFailures' = 0 /\ m_processState' = "Running"

\* startProcess up to the creation of the process: the old one is shut down,
\* the active session is looked up, and the new one is created or not.  The
\* lock is kept while the loop waits a second for it to fail.
StartNow == \/ m_processState = "StartPending"
            \/ m_processState = "Running" /\ m_command /\ sessionChanged
StartProcess ==
    /\ Pass /\ StartNow
    /\ sessionChanged' = FALSE
    /\ \/ \E pid \in Pids \ cores :
             /\ cores' = (cores \ {m_process}) \cup {pid}
             /\ m_process' = pid /\ loop' = "starting" /\ m_processState' = "StartPending"
             /\ UNCHANGED <<m_startFailures, failures>>
       \/ /\ failures < MaxFailures
          /\ failures' = failures + 1
          /\ cores' = cores \ {m_process} /\ m_process' = NoProcess
          /\ HandleStartError \/ TakenForStarted
          /\ UNCHANGED loop
    /\ UNCHANGED <<configFile, up, m_running, m_command, troubles>>

\* A second later: the process still runs or has stopped immediately.
ProcessStarted ==
    /\ up /\ loop = "starting"
    /\ loop' = "sleep"
    /\ IF m_process \in cores
       THEN m_processState' = "Running" /\ m_startFailures' = 0 /\ UNCHANGED m_process
       ELSE m_process' = NoProcess /\ HandleStartError
    /\ UNCHANGED <<configFile, up, m_running, m_command, cores, sessionChanged, failures, troubles>>

\* m_nextStartTime is reached.
StartDue ==
    /\ Pass /\ m_processState = "StartScheduled"
    /\ m_processState' = "StartPending"
    /\ UNCHANGED <<world, m_running, loop, m_command, m_process, m_startFailures, sessionChanged>>

FindsNotRunning ==
    /\ Pass /\ m_processState = "Running" /\ ~StartNow /\ m_process \notin cores
    /\ m_processState' = "StartPending"
    /\ UNCHANGED <<world, m_running, loop, m_command, m_process, m_startFailures, sessionChanged>>

StopProcess ==
    /\ Pass /\ m_processState = "StopPending"
    /\ cores' = {} /\ m_process' = NoProcess
    /\ m_processState' = "Idle"
    /\ UNCHANGED <<configFile, up, m_running, loop, m_command, m_startFailures,
                   sessionChanged, failures, troubles>>

MainLoop == BeginLoop \/ EndLoop \/ StartProcess \/ ProcessStarted \/ StartDue
            \/ FindsNotRunning \/ StopProcess

----------------------------------------------------------------------------
\* Mutant: the lock is not taken.
SetProcessConfigUnlocked(command) ==
    /\ m_command' = command
    /\ m_processState' = IF command THEN "StartPending" ELSE "StopPending"
    /\ UNCHANGED <<m_running, loop, m_process, m_startFailures, sessionChanged>>

\* setProcessConfig, on the thread of the caller: it waits for the lock.
SetProcessConfig(command) ==
    /\ loop # "starting"
    /\ m_command' = command
    /\ m_processState' = IF command THEN "StartPending" ELSE "StopPending"
    /\ UNCHANGED <<m_running, loop, m_process, m_startFailures, sessionChanged>>

SetConfigFile == configFile' = TRUE /\ UNCHANGED <<watchdog, up, cores, failures, troubles>>

ApplyWatchdogCommand ==
    /\ IF configFile THEN SetProcessConfig(TRUE) ELSE UNCHANGED watchdog
    /\ UNCHANGED world

ClearWatchdogCommand ==
    /\ SetProcessConfig(FALSE)
    /\ configFile' = FALSE
    /\ UNCHANGED <<up, cores, failures, troubles>>

----------------------------------------------------------------------------
\* The world.  Each of these is bounded by MaxTroubles.
Trouble == troubles < MaxTroubles /\ troubles' = troubles + 1

CoreExits ==
    /\ Trouble
    /\ \E pid \in cores : cores' = cores \ {pid}
    /\ UNCHANGED <<watchdog, configFile, up, failures>>

SessionChanges ==
    /\ Trouble
    /\ sessionChanged' = TRUE
    /\ UNCHANGED <<configFile, up, cores, failures, m_running, loop, m_processState, m_command,
                   m_process, m_startFailures>>

\* The service is asked to stop: MSWindowsWatchdog::stop.
StopService ==
    /\ up /\ m_running /\ Trouble
    /\ m_running' = FALSE
    /\ UNCHANGED <<configFile, up, cores, failures, loop, m_processState, m_command, m_process,
                   m_startFailures, sessionChanged>>

\* The daemon is gone: stop has waited five seconds for the main thread,
\* whether it has ended or not, or the daemon was killed.  A core process it
\* has not shut down stays.
DaemonDies ==
    /\ up /\ (m_running => troubles < MaxTroubles)
    /\ troubles' = IF m_running THEN troubles + 1 ELSE troubles
    /\ up' = FALSE
    /\ UNCHANGED <<watchdog, configFile, cores, failures>>

\* DaemonApp::run with the configuration file of the last time.
Boot ==
    /\ ~up
    /\ up' = TRUE /\ m_running' = TRUE /\ loop' = "start"
    /\ m_command' = configFile
    /\ m_processState' = IF configFile THEN "StartPending" ELSE "Idle"
    /\ m_process' = NoProcess /\ m_startFailures' = 0
    /\ UNCHANGED <<configFile, cores, sessionChanged, failures, troubles>>

WatchdogInit ==
    /\ configFile = FALSE /\ up = FALSE /\ m_running = FALSE /\ loop = "ended"
    /\ m_processState = "Idle" /\ m_command = FALSE /\ m_process = NoProcess /\ m_startFailures = 0
    /\ cores = {} /\ sessionChanged = FALSE /\ failures = 0 /\ troubles = 0

\* Never do two core processes run: they would fight for the keyboard and the
\* port, whatever was left behind by a daemon that died, by a change of session
\* or by a start that failed (MSWindowsWatchdog::startProcess,
\* shutdownExistingProcesses).
OneCore == Cardinality(cores) <= 1
=============================================================================
