------------------------------ MODULE Overseer ------------------------------
(*************************************************************************)
(* The overseer (runner) process of src/src/bladepsgi.cpp: start-up, the *)
(* signal handler, the select() loop, waitpid and shutdown.              *)
(*                                                                       *)
(* All signals are blocked from the first line of Run() until            *)
(* UnblockSignals(); after that a handler may run between any two steps. *)
(* A handler returns before the main loop goes on, so it is one step;    *)
(* the SIGQUIT handler never returns, so it is a jump.                   *)
(*************************************************************************)
EXTENDS SharedState

CONSTANTS
    NoPid,         \* the value -1 of a pid variable
    PipeCapacity   \* bytes the self-pipe holds

ASSUME OverseerAssumption ==
    /\ NoPid \notin Procs
    /\ PipeCapacity \in Nat \ {0}

VARIABLES
    opc,                     \* where the overseer is
    worker_pids,             \* worker_pids_
    auxiliary_pids,          \* auxiliary_pids_
    monitoring_process_pid,  \* monitoring_process_pid_
    mainapp_shutdown,        \* _mainapp_shutdown
    fast_shutdown,           \* _mainapp_fast_shutdown
    smart_shutdown,          \* _mainapp_smart_shutdown
    force_fast_shutdown,     \* _mainapp_force_fast_shutdown
    signals_blocked,         \* TRUE until UnblockSignals()
    self_pipe,               \* bytes in _overseer_self_pipe
    kill_todo,               \* pids KillProcessGroup has yet to signal
    kill_sig,                \* the signal it sends
    kill_next,               \* what the overseer does after KillProcessGroup
    child                    \* the pid waitpid returned last

pidVars == <<worker_pids, auxiliary_pids, monitoring_process_pid>>
flagVars == <<mainapp_shutdown, fast_shutdown, smart_shutdown, force_fast_shutdown,
              signals_blocked>>
killVars == <<kill_todo, kill_sig, kill_next>>
overseerVars == <<opc, pidVars, flagVars, self_pipe, killVars, child>>

StartupPcs == {"load", "forkaux", "forkworkers", "forkmonitor", "install"}
LoopPcs == {"select", "drain", "flags", "wait", "reaped"}
AfterKill == {"clear_fast", "clear_smart", "panic_exit", "quit_exit"}
LogPcs == {"log", "log_unknown"}
FinalPcs == {"exit0", "exit1", "killed"}

OverseerTypeOK ==
    /\ opc \in StartupPcs \cup LoopPcs \cup LogPcs \cup {"kill"} \cup AfterKill \cup FinalPcs
    /\ worker_pids \in SUBSET Workers
    /\ auxiliary_pids \in SUBSET Auxiliaries
    /\ monitoring_process_pid \in {Monitor, NoPid}
    /\ mainapp_shutdown \in {0, 1}
    /\ fast_shutdown \in {0, 1}
    /\ smart_shutdown \in {0, 1}
    /\ force_fast_shutdown \in {0, 1}
    /\ signals_blocked \in BOOLEAN
    /\ self_pipe \in 0..PipeCapacity
    /\ kill_todo \in SUBSET Children
    /\ kill_sig \in {"SIGTERM", "SIGQUIT"}
    /\ kill_next \in AfterKill
    /\ child \in Children \cup {NoPid}

OverseerInit ==
    /\ opc = "load"
    /\ worker_pids = {} /\ auxiliary_pids = {} /\ monitoring_process_pid = NoPid
    /\ mainapp_shutdown = 0 /\ fast_shutdown = 0
    /\ smart_shutdown = 0 /\ force_fast_shutdown = 0
    /\ signals_blocked = TRUE
    /\ self_pipe = 0
    /\ kill_todo = {} /\ kill_sig = "SIGQUIT" /\ kill_next = "panic_exit"
    /\ child = NoPid

At(pc) == Alive(Overseer) /\ opc = pc
GoTo(pc) == opc' = pc

---------------------------------------------------------------------------
(* KillProcessGroup: the workers and the monitoring process, in any order. *)

\* Mutant: the test for -1 is missing.
KillTargetsUnguarded == worker_pids \cup {monitoring_process_pid}

KillTargets == worker_pids \cup (IF monitoring_process_pid # NoPid
                                 THEN {monitoring_process_pid} ELSE {})

\* Enter KillProcessGroup(sig); the overseer goes to next when it returns.
KillProcessGroup(sig, next) ==
    /\ GoTo("kill")
    /\ kill_todo' = KillTargets
    /\ kill_sig' = sig
    /\ kill_next' = next

KillOne(p) ==
    /\ At("kill") /\ p \in kill_todo
    /\ pending' = Posted(p, kill_sig)
    /\ kill_todo' = kill_todo \ {p}
    /\ UNCHANGED <<pstate, deathsig, sent, failures, sharedVars, opc, pidVars,
                   flagVars, self_pipe, kill_sig, kill_next, child>>

KillReturns ==
    /\ At("kill") /\ kill_todo = {}
    /\ GoTo(kill_next)
    /\ UNCHANGED <<hostVars, sharedVars, pidVars, flagVars, self_pipe, killVars, child>>

Exits(final) ==
    /\ OverseerEnds
    /\ GoTo(final)
    /\ UNCHANGED <<deathsig, sent, pidVars, flagVars, self_pipe, killVars, child>>

---------------------------------------------------------------------------
(* Start-up: Run() up to UnblockSignals(). *)

\* Raise the flag, and log the reason if it was down; then kill everyone and _exit(1).
Panic ==
    /\ SetShouldExitImmediately(Overseer)
    /\ IF Overseer \in owing'
       THEN GoTo("log") /\ UNCHANGED killVars
       ELSE KillProcessGroup("SIGQUIT", "panic_exit")

LogsAndKills ==
    /\ At("log")
    /\ LogsReason(Overseer)
    /\ KillProcessGroup("SIGQUIT", "panic_exit")
    /\ UNCHANGED <<hostVars, worker_status, request_counter, pidVars, flagVars, self_pipe,
                   child>>

\* The self-pipe or the shared memory cannot be set up: caught in main(), which has no
\* flag to raise yet, and logs the reason.
SetUpFailsEarly ==
    /\ At("load") /\ Fails
    /\ GoTo("log")
    /\ owing' = owing \cup {Overseer}
    /\ UNCHANGED <<pstate, pending, deathsig, sent, should_exit, loggers, worker_status,
                   request_counter, pidVars, flagVars, self_pipe, killVars, child>>

\* A socket cannot be set up: caught in main(), which has nobody to kill.
SetUpFails ==
    /\ At("load") /\ Fails
    /\ Panic
    /\ UNCHANGED <<pstate, pending, deathsig, sent, worker_status, request_counter,
                   pidVars, flagVars, self_pipe, child>>

\* The interpreter cannot be set up, or the loader dies: _exit(1), before anything is
\* forked, and the flag stays as it is.
LoadFails ==
    /\ At("load") /\ Fails
    /\ Exits("exit1")
    /\ UNCHANGED sharedVars

\* The loader returned the callback, and LockAllocations() was called.  Whatever
\* the loader's own code forked is a child of the overseer from now on.
LoadApplication ==
    /\ At("load") /\ GoTo("forkaux")
    /\ pstate' = Forked(Strays)
    /\ UNCHANGED <<pending, deathsig, sent, failures, sharedVars, pidVars, flagVars,
                   self_pipe, killVars, child>>

SpawnAuxiliaryProcess(a) ==
    /\ At("forkaux") /\ pstate[a] = "unborn"
    /\ pstate' = Forked({a})
    /\ auxiliary_pids' = auxiliary_pids \cup {a}
    /\ UNCHANGED <<pending, deathsig, sent, failures, sharedVars, opc, worker_pids,
                   monitoring_process_pid, flagVars, self_pipe, killVars, child>>

AuxiliariesSpawned ==
    /\ At("forkaux") /\ \A a \in Auxiliaries : pstate[a] # "unborn"
    /\ GoTo("forkworkers")
    /\ UNCHANGED <<hostVars, sharedVars, pidVars, flagVars, self_pipe, killVars, child>>

SpawnWorker(w) ==
    /\ At("forkworkers") /\ pstate[w] = "unborn"
    /\ pstate' = Forked({w})
    /\ worker_pids' = worker_pids \cup {w}
    /\ UNCHANGED <<pending, deathsig, sent, failures, sharedVars, opc, auxiliary_pids,
                   monitoring_process_pid, flagVars, self_pipe, killVars, child>>

\* Mutant: the loop that forks the workers stops one short.
WorkersSpawnedButOne ==
    /\ At("forkworkers") /\ Cardinality({w \in Workers : pstate[w] = "unborn"}) <= 1
    /\ GoTo("forkmonitor")
    /\ UNCHANGED <<hostVars, sharedVars, pidVars, flagVars, self_pipe, killVars, child>>

\* All workers are forked and the overseer's interpreter is destroyed.
WorkersSpawned ==
    /\ At("forkworkers") /\ \A w \in Workers : pstate[w] # "unborn"
    /\ GoTo("forkmonitor")
    /\ UNCHANGED <<hostVars, sharedVars, pidVars, flagVars, self_pipe, killVars, child>>

\* fork() fails while the interpreter is alive: the exception unwinds through
\* ~BPSGIPerlInterpreter, which calls _exit(1) because Destroy() was not called;
\* the handler in main() is never reached and nothing is killed.
ForkFailsWithInterpreter ==
    /\ \/ At("forkaux") /\ \E a \in Auxiliaries : pstate[a] = "unborn"
       \/ At("forkworkers") /\ \E w \in Workers : pstate[w] = "unborn"
    /\ Fails
    /\ Exits("exit1")
    /\ UNCHANGED sharedVars

SpawnMonitoringProcess ==
    /\ At("forkmonitor")
    /\ pstate' = Forked({Monitor})
    /\ monitoring_process_pid' = Monitor
    /\ GoTo("install")
    /\ UNCHANGED <<pending, deathsig, sent, failures, sharedVars, worker_pids,
                   auxiliary_pids, flagVars, self_pipe, killVars, child>>

\* fork() for the monitoring process, sigaction() or a system call of the main loop
\* fails: the handlers in main() catch the exception.
SystemCallFails ==
    /\ \E pc \in {"forkmonitor", "install", "select", "drain", "wait"} : At(pc)
    /\ Fails
    /\ Panic
    /\ UNCHANGED <<pstate, pending, deathsig, sent, worker_status, request_counter,
                   pidVars, flagVars, self_pipe, child>>

\* The four handlers are installed and UnblockSignals() is called.
InstallHandlers ==
    /\ At("install") /\ GoTo("select")
    /\ signals_blocked' = FALSE
    /\ UNCHANGED <<hostVars, sharedVars, pidVars, mainapp_shutdown, fast_shutdown,
                   smart_shutdown, force_fast_shutdown, self_pipe, killVars, child>>

---------------------------------------------------------------------------
(* HandleParentSignal *)

\* A handler for sig starts: signals are unblocked and sig is pending.
Handles(sig) ==
    /\ Alive(Overseer) /\ ~signals_blocked
    /\ sig \in pending[Overseer]
    /\ pending' = Delivered(Overseer, sig)

\* The end of the handler: write one byte (a full pipe is no error) and return.
\* A select() that was interrupted returns EINTR; one not yet entered is not.
WakeMainLoop ==
    /\ self_pipe' = IF self_pipe < PipeCapacity THEN self_pipe + 1 ELSE self_pipe
    /\ IF opc = "select" THEN opc' \in {"select", "flags"} ELSE UNCHANGED opc
    /\ UNCHANGED <<pstate, deathsig, sent, failures, sharedVars, pidVars, killVars, child>>

HandleSIGTERM ==
    /\ Handles("SIGTERM") /\ WakeMainLoop
    /\ smart_shutdown' = 1 /\ mainapp_shutdown' = 1
    /\ UNCHANGED <<fast_shutdown, force_fast_shutdown, signals_blocked>>

\* Mutant: the handler does not note that a shutdown is under way.
HandleSIGINTSilently ==
    /\ Handles("SIGINT") /\ WakeMainLoop
    /\ fast_shutdown' = 1
    /\ UNCHANGED <<mainapp_shutdown, smart_shutdown, force_fast_shutdown, signals_blocked>>

HandleSIGINT ==
    /\ Handles("SIGINT") /\ WakeMainLoop
    /\ fast_shutdown' = 1 /\ mainapp_shutdown' = 1
    /\ UNCHANGED <<smart_shutdown, force_fast_shutdown, signals_blocked>>

HandleSIGCHLD ==
    /\ Handles("SIGCHLD") /\ WakeMainLoop
    /\ UNCHANGED flagVars

\* Blocked while its own handler runs.
HandleSIGQUIT ==
    /\ "quit_exit" \notin {opc, kill_next}
    /\ Handles("SIGQUIT")
    /\ KillProcessGroup("SIGQUIT", "quit_exit")
    /\ UNCHANGED <<pstate, deathsig, sent, failures, sharedVars, pidVars, flagVars,
                   self_pipe, child>>

---------------------------------------------------------------------------
(* The main loop of Run() *)

SelectTimesOut ==
    /\ At("select") /\ GoTo("flags")
    /\ UNCHANGED <<hostVars, sharedVars, pidVars, flagVars, self_pipe, killVars, child>>

SelectReady ==
    /\ At("select") /\ self_pipe > 0
    /\ GoTo("drain")
    /\ UNCHANGED <<hostVars, sharedVars, pidVars, flagVars, self_pipe, killVars, child>>

\* Reads until EAGAIN.
DrainSelfPipe ==
    /\ At("drain") /\ GoTo("flags")
    /\ self_pipe' = 0
    /\ UNCHANGED <<hostVars, sharedVars, pidVars, flagVars, killVars, child>>

\* Mutant: a fast shutdown sends SIGTERM.
CheckFlagsGently ==
    /\ At("flags")
    /\ \/ /\ fast_shutdown = 1
          /\ KillProcessGroup("SIGTERM", "clear_fast")
       \/ /\ fast_shutdown = 0 /\ smart_shutdown = 1
          /\ KillProcessGroup(IF force_fast_shutdown = 1 THEN "SIGQUIT" ELSE "SIGTERM",
                              "clear_smart")
       \/ /\ fast_shutdown = 0 /\ smart_shutdown = 0
          /\ GoTo("wait")
          /\ UNCHANGED killVars
    /\ UNCHANGED <<hostVars, sharedVars, pidVars, flagVars, self_pipe, child>>

\* Mutant: a second smart shutdown is like the first.
CheckFlagsForgetfully ==
    /\ At("flags")
    /\ \/ /\ fast_shutdown = 1
          /\ KillProcessGroup("SIGQUIT", "clear_fast")
       \/ /\ fast_shutdown = 0 /\ smart_shutdown = 1
          /\ KillProcessGroup("SIGTERM", "clear_smart")
       \/ /\ fast_shutdown = 0 /\ smart_shutdown = 0
          /\ GoTo("wait")
          /\ UNCHANGED killVars
    /\ UNCHANGED <<hostVars, sharedVars, pidVars, flagVars, self_pipe, child>>

CheckFlags ==
    /\ At("flags")
    /\ \/ /\ fast_shutdown = 1
          /\ KillProcessGroup("SIGQUIT", "clear_fast")
       \/ /\ fast_shutdown = 0 /\ smart_shutdown = 1
          /\ KillProcessGroup(IF force_fast_shutdown = 1 THEN "SIGQUIT" ELSE "SIGTERM",
                              "clear_smart")
       \/ /\ fast_shutdown = 0 /\ smart_shutdown = 0
          /\ GoTo("wait")
          /\ UNCHANGED killVars
    /\ UNCHANGED <<hostVars, sharedVars, pidVars, flagVars, self_pipe, child>>

\* The flag is cleared only after KillProcessGroup has returned.
ClearFastShutdown ==
    /\ At("clear_fast") /\ GoTo("wait")
    /\ fast_shutdown' = 0
    /\ UNCHANGED <<hostVars, sharedVars, pidVars, mainapp_shutdown, smart_shutdown,
                   force_fast_shutdown, signals_blocked, self_pipe, killVars, child>>

ClearSmartShutdown ==
    /\ At("clear_smart") /\ GoTo("wait")
    /\ smart_shutdown' = 0
    /\ force_fast_shutdown' = 1
    /\ UNCHANGED <<hostVars, sharedVars, pidVars, mainapp_shutdown, fast_shutdown,
                   signals_blocked, self_pipe, killVars, child>>

\* waitpid(-1, WNOHANG) returns a child.
WaitReaps(p) ==
    /\ At("wait") /\ pstate[p] = "zombie"
    /\ pstate' = [pstate EXCEPT ![p] = "reaped"]
    /\ child' = p
    /\ GoTo("reaped")
    /\ UNCHANGED <<pending, deathsig, sent, failures, sharedVars, pidVars, flagVars,
                   self_pipe, killVars>>

\* Mutant: the pipe is drained just before select().
WaitFindsNoneAndDrains ==
    /\ At("wait")
    /\ \A p \in Children : pstate[p] # "zombie"
    /\ \E p \in Children : Alive(p)
    /\ GoTo("select")
    /\ self_pipe' = 0
    /\ UNCHANGED <<hostVars, sharedVars, pidVars, flagVars, killVars, child>>

\* waitpid returns 0: there are children, none of them dead.
WaitFindsNone ==
    /\ At("wait")
    /\ \A p \in Children : pstate[p] # "zombie"
    /\ \E p \in Children : Alive(p)
    /\ GoTo("select")
    /\ UNCHANGED <<hostVars, sharedVars, pidVars, flagVars, self_pipe, killVars, child>>

\* Mutant: no dead child is taken for no child.
WaitFindsNoZombies ==
    /\ At("wait")
    /\ \A p \in Children : pstate[p] # "zombie"
    /\ Exits("exit0")
    /\ UNCHANGED <<failures, sharedVars>>

\* waitpid fails with ECHILD: exit(0).
WaitFindsNoChildren ==
    /\ At("wait")
    /\ \A p \in Children : ~Unreaped(p)
    /\ Exits("exit0")
    /\ UNCHANGED <<failures, sharedVars>>

\* Mutant: a dead worker stays in worker_pids_.
ForgetChildButWorkers ==
    /\ GoTo("wait")
    /\ auxiliary_pids' = auxiliary_pids \ {child}
    /\ monitoring_process_pid' = IF child = monitoring_process_pid
                                 THEN NoPid ELSE monitoring_process_pid
    /\ UNCHANGED <<worker_pids, should_exit, owing, loggers, killVars>>

\* worker_pids_.erase, auxiliary_pids_.erase or monitoring_process_pid_ = -1.
ForgetChild ==
    /\ GoTo("wait")
    /\ worker_pids' = worker_pids \ {child}
    /\ auxiliary_pids' = auxiliary_pids \ {child}
    /\ monitoring_process_pid' = IF child = monitoring_process_pid
                                 THEN NoPid ELSE monitoring_process_pid
    /\ UNCHANGED <<should_exit, owing, loggers, killVars>>

\* Mutant: an unexpected death is passed over.
IgnoreUnexpectedDeath == ForgetChild

\* The dead child is still in its pid list.
HandleUnexpectedChildProcessDeath == Panic /\ UNCHANGED pidVars

\* A child in none of the lists: the reason is logged whatever the flag was, and
\* nobody is killed.
HandleUnknownChildDeath ==
    /\ GoTo("log_unknown")
    /\ should_exit' = 1
    /\ owing' = owing \cup {Overseer}
    /\ UNCHANGED <<loggers, pidVars, killVars>>

LogsUnknownChild ==
    /\ At("log_unknown") /\ GoTo("panic_exit")
    /\ LogsReason(Overseer)
    /\ UNCHANGED <<hostVars, worker_status, request_counter, pidVars, flagVars, self_pipe,
                   killVars, child>>

\* waitpid() returns to the program only after the handlers of the signals that were
\* pending by then have run.
SignalsDelivered == pending[Overseer] = {}

HandleChildProcessDeath ==
    /\ At("reaped") /\ SignalsDelivered
    /\ IF child \in worker_pids \cup auxiliary_pids \cup {monitoring_process_pid}
       THEN IF mainapp_shutdown = 0 THEN HandleUnexpectedChildProcessDeath ELSE ForgetChild
       ELSE HandleUnknownChildDeath
    /\ UNCHANGED <<hostVars, worker_status, request_counter, flagVars, self_pipe, child>>

\* _exit(1) in the panic paths and in the SIGQUIT handler.
ExitsAfterKill ==
    /\ opc \in {"panic_exit", "quit_exit"}
    /\ Exits("exit1")
    /\ UNCHANGED <<failures, sharedVars>>

\* The overseer itself dies (SIGKILL, a fault, _exit(3) in the handler).
OverseerCrashes ==
    /\ Fails
    /\ Exits("killed")
    /\ UNCHANGED sharedVars

---------------------------------------------------------------------------
OverseerStartup ==
    \/ LoadApplication
    \/ \E a \in Auxiliaries : SpawnAuxiliaryProcess(a)
    \/ AuxiliariesSpawned
    \/ \E w \in Workers : SpawnWorker(w)
    \/ WorkersSpawned
    \/ SpawnMonitoringProcess
    \/ InstallHandlers

OverseerHandlers == HandleSIGTERM \/ HandleSIGINT \/ HandleSIGCHLD \/ HandleSIGQUIT

OverseerMain ==
    \/ SelectTimesOut \/ SelectReady \/ DrainSelfPipe
    \/ CheckFlags \/ ClearFastShutdown \/ ClearSmartShutdown
    \/ \E p \in Children : WaitReaps(p)
    \/ WaitFindsNone \/ WaitFindsNoChildren
    \/ HandleChildProcessDeath \/ LogsAndKills \/ LogsUnknownChild
    \/ \E p \in Children : KillOne(p)
    \/ KillReturns
    \/ ExitsAfterKill

OverseerFailures ==
    \/ SetUpFailsEarly \/ SetUpFails \/ LoadFails \/ ForkFailsWithInterpreter
    \/ SystemCallFails \/ OverseerCrashes

OverseerNext == OverseerStartup \/ OverseerHandlers \/ OverseerMain \/ OverseerFailures
===========================================================================
