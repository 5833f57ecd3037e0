----------------------------- MODULE Monitoring -----------------------------
(*************************************************************************)
(* The monitoring process (src/src/monitoring.cpp): it polls for the     *)
(* overseer's death, answers clients of the statistics socket, and takes *)
(* everyone down when one of its own system calls fails.  It does not    *)
(* ask for a parent-death signal.                                        *)
(*************************************************************************)
EXTENDS SharedState

VARIABLES
    mpc,            \* where the monitoring process is
    mon_kill_todo   \* workers its KillProcessGroup has yet to signal

monitorVars == <<mpc, mon_kill_todo>>

MonitorTypeOK ==
    /\ mpc \in {"init", "loop", "select", "serve", "log", "dying"}
    /\ mon_kill_todo \in SUBSET Workers

MonitorInit ==
    /\ mpc = "init"
    /\ mon_kill_todo = {}

MonitorAt(pc) == Alive(Monitor) /\ mpc = pc

\* SubprocessInit with SUBP_NO_DEATHSIG, the handlers and UnblockSignals().
MonitorUnblocks ==
    /\ MonitorAt("init") /\ mpc' = "loop"
    /\ UNCHANGED <<hostVars, sharedVars, mon_kill_todo>>

\* Raise the flag, and log the reason if it was down.
MonitorGivesUp ==
    /\ SetShouldExitImmediately(Monitor)
    /\ mpc' = IF Monitor \in owing' THEN "log" ELSE "dying"
    /\ UNCHANGED <<worker_status, request_counter>>

\* RunnerDied(): getppid() is no longer the overseer.  Nobody is killed.
MonitorNoticesRunnerDied ==
    /\ MonitorAt("loop") /\ ~Alive(Overseer)
    /\ MonitorGivesUp
    /\ UNCHANGED <<hostVars, mon_kill_todo>>

MonitorSelects ==
    /\ MonitorAt("loop") /\ Alive(Overseer)
    /\ mpc' = "select"
    /\ UNCHANGED <<hostVars, sharedVars, mon_kill_todo>>

\* select() times out or is interrupted.
MonitorSelectReturns ==
    /\ MonitorAt("select") /\ mpc' = "loop"
    /\ UNCHANGED <<hostVars, sharedVars, mon_kill_todo>>

\* A client is there: the statuses are read and HandleClient is entered.
MonitorSeesClient ==
    /\ MonitorAt("select") /\ mpc' = "serve"
    /\ UNCHANGED <<hostVars, sharedVars, mon_kill_todo>>

\* HandleClient accepts, writes the statistics and closes, or finds no client.
MonitorHandlesClient ==
    /\ MonitorAt("serve") /\ mpc' = "loop"
    /\ UNCHANGED <<hostVars, sharedVars, mon_kill_todo>>

\* select(), accept() or sem_getvalue() throws.  The pid list is the copy made by
\* fork(): every worker, and no monitoring process.
MonitorThrows ==
    /\ MonitorAt("select") \/ MonitorAt("serve")
    /\ Fails
    /\ MonitorGivesUp
    /\ mon_kill_todo' = Workers
    /\ UNCHANGED <<pstate, pending, deathsig, sent>>

MonitorLogs ==
    /\ MonitorAt("log") /\ mpc' = "dying"
    /\ LogsReason(Monitor)
    /\ UNCHANGED <<hostVars, worker_status, request_counter, mon_kill_todo>>

MonitorKillsOne(w) ==
    /\ MonitorAt("dying") /\ w \in mon_kill_todo
    /\ pending' = Posted(w, "SIGQUIT")
    /\ mon_kill_todo' = mon_kill_todo \ {w}
    /\ UNCHANGED <<pstate, deathsig, sent, failures, sharedVars, mpc>>

\* _exit(1), after RunnerDied() or after KillProcessGroup.
MonitorExits ==
    /\ MonitorAt("dying") /\ mon_kill_todo = {}
    /\ ChildEnds(Monitor)
    /\ UNCHANGED <<deathsig, sent, failures, sharedVars, monitorVars>>

\* SIGTERM and SIGINT have their default action; monitoring_sigquit_handler calls _exit(2).
MonitorDiesOfSignal ==
    /\ Alive(Monitor) /\ mpc # "init"
    /\ pending[Monitor] # {}
    /\ ChildEnds(Monitor)
    /\ UNCHANGED <<deathsig, sent, failures, sharedVars, monitorVars>>

MonitorRuns ==
    \/ MonitorUnblocks \/ MonitorNoticesRunnerDied \/ MonitorSelects
    \/ MonitorSelectReturns \/ MonitorSeesClient \/ MonitorHandlesClient
    \/ MonitorLogs
    \/ \E w \in Workers : MonitorKillsOne(w)
    \/ MonitorExits

MonitorNext == MonitorRuns \/ MonitorDiesOfSignal \/ MonitorThrows
===========================================================================
