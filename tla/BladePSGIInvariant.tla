------------------------ MODULE BladePSGIInvariant ------------------------
(*************************************************************************)
(* The inductive invariants behind BladePSGIProofs, SupervisionProofs.   *)
(*************************************************************************)
EXTENDS BladePSGI

Born(p) == pstate[p] # "unborn"

\* The overseer has started everything and is neither in a panic nor in its SIGQUIT
\* handler.
Serving ==
    \/ opc \in LoopPcs \cup {"install", "clear_fast", "clear_smart"}
    \/ opc = "kill" /\ kill_next \in {"clear_fast", "clear_smart"}

\* The overseer has not reached one of its ways out.
Normal == Alive(Overseer) /\ (opc \in StartupPcs \/ Serving)

\* A process that HandleChildProcessDeath has yet to look at.
JustReaped(p) == opc = "reaped" /\ child = p

\* Run() forks the loader's strays, the auxiliary processes, the workers and the
\* monitoring process, in this order, before it enters the main loop.
BirthsInOrder ==
    /\ opc \in {"forkaux", "forkworkers", "forkmonitor"} => \A p \in Strays : Born(p)
    /\ opc \in {"forkworkers", "forkmonitor"} => \A p \in Auxiliaries : Born(p)
    /\ opc = "forkmonitor" => \A p \in Workers : Born(p)
    /\ Serving => \A p \in Children : Born(p)

\* The pid lists hold exactly the children that exist.
PidsTracked ==
    Normal =>
        /\ \A w \in Workers : w \in worker_pids <=> Unreaped(w) \/ JustReaped(w)
        /\ \A a \in Auxiliaries : a \in auxiliary_pids <=> Unreaped(a) \/ JustReaped(a)
        /\ monitoring_process_pid = Monitor <=> Unreaped(Monitor) \/ JustReaped(Monitor)

\* While no shutdown was asked for, nobody is reaped and forgotten.
NobodyForgotten ==
    Normal /\ mainapp_shutdown = 0 =>
        \A p \in Children : pstate[p] = "reaped" => JustReaped(p)

\* Start-up runs with signals blocked, only a dead overseer is at the end of its program,
\* and waitpid() has returned what is about to be handled.
ControlConsistent ==
    /\ opc \in StartupPcs => signals_blocked
    /\ opc \in FinalPcs => ~Alive(Overseer)
    /\ opc = "reaped" /\ Alive(Overseer) => child \in Children /\ pstate[child] = "reaped"

LifeInv ==
    /\ BirthsInOrder /\ PidsTracked /\ NobodyForgotten /\ ControlConsistent
    /\ ExitZeroMeansAllStopped /\ ShutdownSignalsOnlyUnreaped

---------------------------------------------------------------------------
\* Nothing failed and nobody sent SIGQUIT.
Quiet == failures = 0 /\ sent["SIGQUIT"] = 0

\* Nobody has asked for a shutdown: in particular the interrupt key, which the children
\* may see before the overseer does, was not pressed.
Unasked == mainapp_shutdown = 0 /\ "SIGINT" \notin pending[Overseer]

\* Until somebody asks for a shutdown, a quiet system is as it was started: no child
\* has a reason to end.
UndisturbedBeforeShutdown ==
    Quiet /\ Unasked =>
        /\ \A p \in Children : pstate[p] \in {"unborn", "alive"} /\ pending[p] = {}
        /\ \A w \in Workers : worker_terminated[w] = 0
        /\ fast_shutdown = 0 /\ smart_shutdown = 0
        /\ opc \in StartupPcs \cup {"select", "drain", "flags", "wait"}

\* A quiet overseer never panics; its strays live on, and the flag stays down.
QuietOverseer ==
    Quiet =>
        /\ "SIGQUIT" \notin pending[Overseer]
        /\ \A p \in Strays : pstate[p] \in {"unborn", "alive"}
        /\ should_exit = 0
        /\ mpc \notin {"log", "dying"}
        /\ Alive(Overseer) \/ opc = "exit0"
        /\ opc \notin LogPcs \cup {"panic_exit", "quit_exit", "exit1", "killed"}
        /\ opc = "kill" => kill_next \in {"clear_fast", "clear_smart"}

QuietInv == UndisturbedBeforeShutdown /\ QuietOverseer

---------------------------------------------------------------------------
\* A reason without the flag is that of a start-up which fails before there is a segment,
\* and nobody else is there to raise it.
EarlyReason ==
    should_exit = 0 /\ Reasoners # {} => ~Normal /\ pstate[Monitor] = "unborn"

\* Before it has forked the monitoring process, nobody but the overseer raises the flag.
NoReasonYet == Normal /\ pstate[Monitor] = "unborn" => should_exit = 0

\* A second reason can only be the one for an unknown child, and the overseer that
\* logged it is on its way out: waitpid() will not be called again.
OneReasoner ==
    \/ \A p, q \in Reasoners : p = q
    \/ child \in Strays /\ ~Normal

\* Who is about to log a reason was told to.
OwedIsLogged ==
    /\ opc \in LogPcs => Overseer \in Reasoners
    /\ mpc = "log" => Monitor \in Reasoners

\* The overseer goes straight on to log what it owes, but for its SIGQUIT handler.
OverseerPays ==
    /\ Overseer \in owing => opc \in LogPcs \cup {"killed"} \/ sent["SIGQUIT"] > 0
    /\ opc \in LogPcs => Alive(Overseer)
    /\ "SIGQUIT" \in pending[Overseer] => sent["SIGQUIT"] > 0

ReasonInv ==
    /\ should_exit = 1 => Reasoners # {}
    /\ EarlyReason /\ NoReasonYet /\ OneReasoner /\ OwedIsLogged /\ OverseerPays

---------------------------------------------------------------------------
\* What the overseer knows of a shutdown, somebody has sent.
SentInv ==
    mainapp_shutdown = 1 \/ pending[Overseer] \cap {"SIGTERM", "SIGINT"} # {}
        => sent["SIGTERM"] > 0 \/ sent["SIGINT"] > 0

\* What is forked at one point of start-up was not there before, and no handler has run.
StartupInv ==
    opc \in StartupPcs =>
        /\ mainapp_shutdown = 0 /\ signals_blocked
        /\ opc # "install" => pstate[Monitor] = "unborn"
        /\ opc = "load" => \A p \in Strays : pstate[p] = "unborn"

RefinementInv == SentInv /\ StartupInv

---------------------------------------------------------------------------
(* Requests *)

Accepted == connections - backlog

\* Workers that hold a request which is not in the request counter yet.
InHand == {w \in Workers : wpc[w] \in {"app", "count"}}

\* Workers that will not accept again: SIGTERM found them outside the callback, or they
\* have come back from it.  One that SIGTERM finds on its way into accept() is not among
\* them: it may block, and a second SIGTERM may still interrupt it.
Spent == {w \in Workers : worker_terminated[w] = 1 /\ wpc[w] \notin {"calling", "accepting"}}

\* The counter and the requests in hand cover what was accepted, and exceed it by at
\* most one for each worker that will not accept again and one for each failed Accept().
RequestInv ==
    LET counted == request_counter + Cardinality(InHand)
    IN  Accepted <= counted /\ counted <= Accepted + accept_failures + Cardinality(Spent)

---------------------------------------------------------------------------
(* Wake-ups *)

\* The overseer is in KillProcessGroup on its way to next, or has arrived there.
Towards(next) == opc = next \/ (opc = "kill" /\ kill_next = next)

\* While all signals are blocked no handler has run, and a dead child's SIGCHLD waits.
NothingHandledYet ==
    opc \in StartupPcs =>
        /\ signals_blocked
        /\ fast_shutdown = 0 /\ smart_shutdown = 0
        /\ (\E p \in Children : pstate[p] = "zombie") => "SIGCHLD" \in pending[Overseer]

\* A fast shutdown is never the overseer's own idea.
FastWasSent ==
    (fast_shutdown = 1 \/ "SIGINT" \in pending[Overseer] \/ Towards("clear_fast"))
        => sent["SIGINT"] > 0

\* A request that came after the flags were looked at has left a byte in the pipe: for
\* the rest of the iteration, and while the other flag is being acted upon.
PipeTellsOfRequests ==
    self_pipe = 0 =>
        /\ opc \in {"wait", "reaped", "select"} =>
               fast_shutdown = 0 /\ (sent["SIGINT"] = 0 => smart_shutdown = 0)
        /\ Towards("clear_smart") => fast_shutdown = 0

\* A dead child at whom waitpid() has not looked is announced, by its signal or by a byte.
PipeTellsOfDeaths ==
    At("select") /\ self_pipe = 0 /\ "SIGCHLD" \notin pending[Overseer]
        => \A p \in Children : pstate[p] # "zombie"

WakeInv == NothingHandledYet /\ FastWasSent /\ PipeTellsOfRequests /\ PipeTellsOfDeaths

---------------------------------------------------------------------------
(* Graceful shutdown *)

\* All that happened is at most one SIGTERM.
Gentle == failures = 0 /\ sent["SIGTERM"] <= 1 /\ sent["SIGINT"] = 0 /\ sent["SIGQUIT"] = 0

\* Each SIGTERM is in one place: pending, noted in the flag, or acted upon already.  The
\* flag stays up while it is acted upon, so none is counted twice.
TermBudget ==
    /\ (IF "SIGTERM" \in pending[Overseer] THEN 1 ELSE 0)
          + smart_shutdown + force_fast_shutdown <= sent["SIGTERM"]
    /\ Towards("clear_smart") => smart_shutdown = 1

\* Nobody tells a worker to drop its request.
GracefulInv ==
    Gentle => /\ \A w \in Workers : "SIGQUIT" \notin pending[w] /\ (Gone(w) => wpc[w] = "check")
              /\ opc = "kill" => kill_sig = "SIGTERM"
===========================================================================
