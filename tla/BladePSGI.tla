----------------------------- MODULE BladePSGI -----------------------------
(*************************************************************************)
(* The running system: the overseer, its workers, auxiliary processes    *)
(* and monitoring process, the shared memory they meet in, and an        *)
(* environment that sends signals, opens connections and makes things    *)
(* fail.  Processes interleave freely.                                   *)
(*************************************************************************)
EXTENDS Overseer, Worker, Auxiliary, Monitoring

vars == <<hostVars, sharedVars, overseerVars, workerVars, apc, monitorVars>>

Init ==
    /\ HostInit /\ SharedInit
    /\ OverseerInit /\ WorkerInit /\ AuxInit /\ MonitorInit

OverseerStep == OverseerNext /\ UNCHANGED <<workerVars, apc, monitorVars>>
WorkerStep(w) == WorkerNext(w) /\ UNCHANGED <<overseerVars, apc, monitorVars>>
AuxStep(a) == AuxNext(a) /\ UNCHANGED <<overseerVars, workerVars, monitorVars>>
MonitorStep == MonitorNext /\ UNCHANGED <<overseerVars, workerVars, apc>>

EnvironmentStep ==
    \/ /\ \/ \E s \in AdminSignals : AdminSends(s)
          \/ TerminalInterrupts
          \/ \E p \in Children : ChildCrashes(p)
       /\ UNCHANGED <<sharedVars, overseerVars, workerVars, apc, monitorVars>>
    \/ ClientConnects /\ UNCHANGED <<overseerVars, apc, monitorVars>>

Next ==
    \/ OverseerStep
    \/ \E w \in Workers : WorkerStep(w)
    \/ \E a \in Auxiliaries : AuxStep(a)
    \/ MonitorStep
    \/ EnvironmentStep

Spec == Init /\ [][Next]_vars

---------------------------------------------------------------------------
(* Fairness.  The kernel runs every process that can run and delivers every *)
(* pending signal that is not blocked.  Nothing is assumed of clients, of   *)
(* the administrator, of failures, or of how long the application takes to  *)
(* answer; its loader is assumed to return, or to die.                      *)

SystemFairness ==
    /\ WF_vars((OverseerStartup \/ OverseerMain) /\ UNCHANGED <<workerVars, apc, monitorVars>>)
    /\ WF_vars(HandleSIGTERM /\ UNCHANGED <<workerVars, apc, monitorVars>>)
    /\ WF_vars(HandleSIGINT /\ UNCHANGED <<workerVars, apc, monitorVars>>)
    /\ WF_vars(HandleSIGCHLD /\ UNCHANGED <<workerVars, apc, monitorVars>>)
    /\ WF_vars(HandleSIGQUIT /\ UNCHANGED <<workerVars, apc, monitorVars>>)
    /\ \A w \in Workers :
         /\ WF_vars(WorkerRuns(w) /\ UNCHANGED <<overseerVars, apc, monitorVars>>)
         /\ WF_vars(WorkerHandlesSIGTERM(w) /\ UNCHANGED <<overseerVars, apc, monitorVars>>)
         /\ WF_vars(WorkerHandlesSIGQUIT(w) /\ UNCHANGED <<overseerVars, apc, monitorVars>>)
    /\ \A a \in Auxiliaries :
         WF_vars(AuxRuns(a) /\ UNCHANGED <<overseerVars, workerVars, monitorVars>>)
    /\ WF_vars(MonitorRuns /\ UNCHANGED <<overseerVars, workerVars, apc>>)
    /\ WF_vars(MonitorDiesOfSignal /\ UNCHANGED <<overseerVars, workerVars, apc>>)

\* The application answers every request it is given.
AppFairness ==
    \A w \in Workers :
        WF_vars(AppFinishes(w) /\ UNCHANGED <<overseerVars, apc, monitorVars>>)

FairSpec == Spec /\ SystemFairness
FairAppSpec == FairSpec /\ AppFairness

---------------------------------------------------------------------------
(* Safety *)

\* Every variable has the type its declaration in the source gives it; a pid that
\* KillProcessGroup signals is a child's, never the -1 that kill() would take for
\* "every process".
TypeOK ==
    /\ HostTypeOK /\ SharedTypeOK
    /\ OverseerTypeOK /\ WorkerTypeOK /\ AuxTypeOK /\ MonitorTypeOK

\* exit(0) is reached (ECHILD in the main loop) only after a shutdown was asked
\* for, and no process that was ever started is left behind.
ExitZeroMeansAllStopped ==
    opc = "exit0" => /\ mainapp_shutdown = 1
                     /\ \A p \in Children : pstate[p] = "reaped"

\* A shutdown by SIGTERM or SIGINT never turns into a panic: the overseer ends
\* with _exit(1) only if something failed or it was sent SIGQUIT.  The children
\* that KillProcessGroup takes down are never mistaken for unexpected deaths.
CleanShutdownNeverPanics ==
    opc \in LogPcs \cup {"panic_exit", "quit_exit", "exit1"} => failures > 0 \/ sent["SIGQUIT"] > 0

\* "Finish the request you're currently doing and then quit": if all that happens
\* is a single SIGTERM, every worker that is gone left at the top of its loop, and
\* no request was cut off.
GracefulSmartShutdown ==
    failures = 0 /\ sent["SIGTERM"] <= 1 /\ sent["SIGINT"] = 0 /\ sent["SIGQUIT"] = 0
        => \A w \in Workers : Gone(w) => wpc[w] = "check"

\* While it shuts down, the overseer sends signals only to children it has not
\* reaped: their pids cannot belong to another process yet.
ShutdownSignalsOnlyUnreaped ==
    At("kill") /\ kill_next \in {"clear_fast", "clear_smart"}
        => \A p \in kill_todo : Unreaped(p)

\* Who was told to log the reason for everyone to exit.
Reasoners == owing \cup loggers

\* However many processes find out that everyone should exit, one of them is told to
\* log the reason: the flag is never up without somebody who has logged it or still has
\* to, and only the branch for an unknown child, which does not ask the flag, may log a
\* second one.  Between the exchange of the flag and the log line a signal may end the
\* process, and the reason is lost; the overseer ends without logging its own only if
\* it was killed or sent SIGQUIT, however many other signals arrive there.
SingleFatalReason ==
    /\ should_exit = 1 => Reasoners # {}
    /\ \/ \A p, q \in Reasoners : p = q
       \/ child \in Strays
    /\ Overseer \in owing /\ ~Alive(Overseer) => opc = "killed" \/ sent["SIGQUIT"] > 0

\* The self-pipe loses no wake-up: when the overseer is about to sleep in select(),
\* a fast shutdown that was asked for, or a dead child whose SIGCHLD was handled,
\* has left a byte in the pipe.  A smart shutdown has too, unless a SIGINT came with
\* it: the "else if" then leaves the request to the next time-out.
NoLostWakeup ==
    At("select") /\ self_pipe = 0
        => /\ fast_shutdown = 0
           /\ sent["SIGINT"] = 0 => smart_shutdown = 0
           /\ "SIGCHLD" \notin pending[Overseer] => \A p \in Children : pstate[p] # "zombie"

\* Every accepted connection is being served, was cut off by its worker's death, or
\* is in the request counter.  The counter does not say how many were served: it also
\* counts every Accept() that failed, by at most one for each worker whose accept()
\* SIGTERM interrupted and by one for each failure of another kind, and no more.
RequestsAccounted ==
    LET accepted == connections - backlog
        counted  == request_counter + Cardinality({w \in Workers : wpc[w] \in {"app", "count"}})
    IN  /\ accepted <= counted
        /\ counted <= accepted + accept_failures
                        + Cardinality({w \in Workers : worker_terminated[w] = 1})

---------------------------------------------------------------------------
(* Liveness *)

\* The overseer has been told to stop without waiting for requests: by SIGINT, or by a
\* SIGTERM that comes after the first one was acted upon.
StopsNow == fast_shutdown = 1 \/ (smart_shutdown = 1 /\ force_fast_shutdown = 1)

\* Then it ends, however long the application takes and whatever signals come on top
\* (when there are no processes that KillProcessGroup does not signal).
StopNowCompletes == StopsNow ~> ~Alive(Overseer)

\* Whatever ends the overseer ends every child that had asked for the death signal,
\* and the monitoring process.
OrphansDie ==
    ~Alive(Overseer) ~> \A p \in deathsig \cup {Monitor} : ~Alive(p)

\* The interrupt key stops everything, the auxiliary processes included, if they were
\* there to receive it: they die of their own SIGINT, the workers, which ignore theirs,
\* of the fast shutdown, and the overseer waits for nobody (unless something fails: what
\* then becomes of a child depends on how far it is, see OrphansDie).
InterruptStopsAll ==
    "SIGINT" \in pending[Overseer] /\ (\A a \in Auxiliaries : "SIGINT" \in pending[a])
        ~> (\A p \in Procs : ~Alive(p)) \/ failures > 0

---------------------------------------------------------------------------
(* What the program promises as a whole *)

Leaving == LogPcs \cup {"panic_exit", "quit_exit"}

Phase ==
    CASE opc = "exit0" -> "stopped"
      [] opc \in {"exit1", "killed"} -> "failed"
      [] opc \in Leaving \/ (opc = "kill" /\ kill_next \in Leaving) -> "failing"
      [] opc \in StartupPcs -> "starting"
      [] OTHER -> IF mainapp_shutdown = 1 THEN "stopping" ELSE "running"

Life == [p \in Children |-> CASE pstate[p] = "unborn" -> "unborn"
                               [] pstate[p] = "alive"  -> "up"
                               [] OTHER                -> "ended"]

Supervised == INSTANCE Supervision WITH
    phase <- Phase,
    life  <- Life,
    asked <- sent["SIGTERM"] > 0 \/ sent["SIGINT"] > 0,
    calm  <- failures = 0 /\ sent["SIGQUIT"] = 0

\* The processes together implement the abstract supervisor: every child is started
\* once and before the program runs, none ends without a shutdown or a failure, and
\* exit(0) follows a request and the end of all.
ImplementsSupervision == Supervised!Spec

\* They make the progress that it promises: start-up ends, a dead child does not go
\* unnoticed, a shutdown that has nobody left to wait for is over, and a panic ends.
SupervisionProgress == Supervised!Progress

---------------------------------------------------------------------------
(* What a comment or a document says and the code does not do *)

\* README.md:78: an auxiliary process "lives with the application backends": when the
\* last worker has been reaped, the auxiliary processes end too.
AuxiliariesLiveWithBackends ==
    (\A w \in Workers : pstate[w] = "reaped") ~> (\A a \in Auxiliaries : ~Alive(a))

\* worker.cpp:11: SIGTERM means "finish the request you're currently doing and then
\* quit": a worker that SIGTERM was delivered to quits.
SigtermEndsWorker ==
    \A w \in Workers : worker_terminated[w] = 1 ~> ~Alive(w)

\* bladepsgi.cpp:721: "two smart shutdowns means fast shutdown": also when the second
\* SIGTERM comes while KillProcessGroup acts on the first.
TwoSmartShutdownsAreFast ==
    At("kill") /\ kill_next = "clear_smart" /\ "SIGTERM" \in pending[Overseer]
        ~> ~Alive(Overseer)
===========================================================================
