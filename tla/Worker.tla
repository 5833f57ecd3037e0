------------------------------- MODULE Worker -------------------------------
(*************************************************************************)
(* The worker processes (src/src/worker.cpp) and the FastCGI accept loop *)
(* they run (src/src/perl/fastcgi_wrapper_loader.cpp).                   *)
(*                                                                       *)
(* A worker is forked with all signals blocked; SIGTERM only sets a flag *)
(* that the main loop reads, and interrupts a blocked accept().  SIGINT  *)
(* is ignored (SIG_IGN): pending or not, it has no effect on a worker.   *)
(* A dead worker keeps the program counter it died at.                   *)
(*************************************************************************)
EXTENDS SharedState

CONSTANTS
    MaxConnections,     \* bound on the FastCGI connections clients open
    MaxAcceptFailures   \* bound on the calls of Accept() that fail

VARIABLES
    wpc,                 \* worker -> where it is
    worker_terminated,   \* worker -> _worker_terminated
    connections,         \* FastCGI connections opened so far
    backlog,             \* those that no worker has accepted yet
    accept_failures      \* calls of Accept() that failed without a signal

workerVars == <<wpc, worker_terminated, connections, backlog, accept_failures>>

WorkerTypeOK ==
    /\ wpc \in [Workers -> {"init", "armed", "check", "calling", "accepting", "app", "count"}]
    /\ worker_terminated \in [Workers -> {0, 1}]
    /\ connections \in Nat
    /\ backlog \in 0..connections
    /\ accept_failures \in Nat

WorkerInit ==
    /\ wpc = [w \in Workers |-> "init"]
    /\ worker_terminated = [w \in Workers |-> 0]
    /\ connections = 0
    /\ backlog = 0
    /\ accept_failures = 0

WorkerAt(w, pc) == Alive(w) /\ wpc[w] = pc
WorkerGoesTo(w, pc) == wpc' = [wpc EXCEPT ![w] = pc]

\* A client connects to the FastCGI socket, open from before the first
\* fork until the last process is gone.
ClientConnects ==
    /\ connections < MaxConnections
    /\ \E p \in Procs : Alive(p)
    /\ connections' = connections + 1
    /\ backlog' = backlog + 1
    /\ UNCHANGED <<hostVars, sharedVars, wpc, worker_terminated, accept_failures>>

\* SubprocessInit: ask for SIGQUIT when the parent dies.
WorkerSubprocessInit(w) ==
    /\ WorkerAt(w, "init") /\ WorkerGoesTo(w, "armed")
    /\ SetDeathSignal(w)
    /\ UNCHANGED <<pstate, pending, sent, failures, sharedVars, worker_terminated,
                   connections, backlog, accept_failures>>

\* The handlers are installed and UnblockSignals() is called.
WorkerUnblocks(w) ==
    /\ WorkerAt(w, "armed") /\ WorkerGoesTo(w, "check")
    /\ UNCHANGED <<hostVars, sharedVars, worker_terminated, connections, backlog, accept_failures>>

\* The start of MainLoopIteration: leave, or become idle and call the callback.
WorkerLeaves(w) ==
    /\ WorkerAt(w, "check")
    /\ should_exit = 1 \/ worker_terminated[w] = 1
    /\ ChildEnds(w)
    /\ UNCHANGED <<deathsig, sent, failures, sharedVars, workerVars>>

WorkerCallsCallback(w) ==
    /\ WorkerAt(w, "check") /\ WorkerGoesTo(w, "calling")
    /\ should_exit = 0 /\ worker_terminated[w] = 0
    /\ SetWorkerStatus(w, "_")
    /\ UNCHANGED <<hostVars, should_exit, owing, loggers, request_counter, worker_terminated,
                   connections, backlog, accept_failures>>

\* $req->Accept() has to wait.
WorkerBlocksInAccept(w) ==
    /\ WorkerAt(w, "calling") /\ WorkerGoesTo(w, "accepting")
    /\ backlog = 0
    /\ UNCHANGED <<hostVars, sharedVars, worker_terminated, connections, backlog, accept_failures>>

WorkerAccepts(w) ==
    /\ WorkerAt(w, "calling") \/ WorkerAt(w, "accepting")
    /\ backlog > 0
    /\ backlog' = backlog - 1
    /\ WorkerGoesTo(w, "app")
    /\ UNCHANGED <<hostVars, sharedVars, worker_terminated, connections, accept_failures>>

\* Accept() fails for a reason that is no signal (the process has no file descriptor
\* left, say): the callback returns -1, and the iteration is counted as any other.
WorkerAcceptFails(w) ==
    /\ WorkerAt(w, "calling") \/ WorkerAt(w, "accepting")
    /\ accept_failures < MaxAcceptFailures
    /\ accept_failures' = accept_failures + 1
    /\ WorkerGoesTo(w, "count")
    /\ UNCHANGED <<hostVars, sharedVars, worker_terminated, connections, backlog>>

\* The application calls set_worker_status.
AppSetsStatus(w, status) ==
    /\ WorkerAt(w, "app")
    /\ SetWorkerStatus(w, status)
    /\ UNCHANGED <<hostVars, should_exit, owing, loggers, request_counter, workerVars>>

\* Mutant: the request is not counted.
AppFinishesUncounted(w) ==
    /\ WorkerAt(w, "app") /\ WorkerGoesTo(w, "check")
    /\ UNCHANGED <<hostVars, sharedVars, worker_terminated, connections, backlog, accept_failures>>

\* The application answers, and the callback returns.
AppFinishes(w) ==
    /\ WorkerAt(w, "app") /\ WorkerGoesTo(w, "count")
    /\ UNCHANGED <<hostVars, sharedVars, worker_terminated, connections, backlog, accept_failures>>

\* The end of MainLoopIteration.
WorkerCounts(w) ==
    /\ WorkerAt(w, "count") /\ WorkerGoesTo(w, "check")
    /\ IncreaseRequestCounter
    /\ UNCHANGED <<hostVars, should_exit, owing, loggers, worker_status, worker_terminated,
                   connections, backlog, accept_failures>>

\* Mutant: the SIGTERM handler quits at once.
WorkerDiesAtSIGTERM(w) ==
    /\ Alive(w) /\ wpc[w] \notin {"init", "armed"}
    /\ "SIGTERM" \in pending[w]
    /\ ChildEnds(w)
    /\ UNCHANGED <<deathsig, sent, failures, sharedVars, workerVars>>

\* worker_sigterm_handler.  A blocked Accept() fails (FAIL_ACCEPT_ON_INTR) and the
\* callback returns -1, which Call() does not look at.
WorkerHandlesSIGTERM(w) ==
    /\ Alive(w) /\ wpc[w] \notin {"init", "armed"}
    /\ "SIGTERM" \in pending[w]
    /\ pending' = Delivered(w, "SIGTERM")
    /\ worker_terminated' = [worker_terminated EXCEPT ![w] = 1]
    /\ wpc' = [wpc EXCEPT ![w] = IF @ = "accepting" THEN "count" ELSE @]
    /\ UNCHANGED <<pstate, deathsig, sent, failures, sharedVars, connections, backlog, accept_failures>>

\* Mutant: the SIGQUIT handler sets a flag for the main loop, as the SIGTERM one does.
WorkerFlagsSIGQUIT(w) ==
    /\ Alive(w) /\ wpc[w] \notin {"init", "armed"}
    /\ "SIGQUIT" \in pending[w]
    /\ pending' = Delivered(w, "SIGQUIT")
    /\ worker_terminated' = [worker_terminated EXCEPT ![w] = 1]
    /\ wpc' = [wpc EXCEPT ![w] = IF @ = "accepting" THEN "count" ELSE @]
    /\ UNCHANGED <<pstate, deathsig, sent, failures, sharedVars, connections, backlog, accept_failures>>

\* worker_sigquit_handler: _exit(2).
WorkerHandlesSIGQUIT(w) ==
    /\ Alive(w) /\ wpc[w] \notin {"init", "armed"}
    /\ "SIGQUIT" \in pending[w]
    /\ ChildEnds(w)
    /\ UNCHANGED <<deathsig, sent, failures, sharedVars, workerVars>>

\* The application dies with a Perl exception: logged, then _exit(1).
AppDies(w) ==
    /\ WorkerAt(w, "app")
    /\ ChildCrashes(w)
    /\ UNCHANGED <<sharedVars, workerVars>>

\* The steps a worker takes whatever its application does.
WorkerRuns(w) ==
    \/ WorkerSubprocessInit(w) \/ WorkerUnblocks(w)
    \/ WorkerLeaves(w) \/ WorkerCallsCallback(w)
    \/ WorkerBlocksInAccept(w) \/ WorkerAccepts(w)
    \/ WorkerCounts(w)

WorkerHandlers(w) == WorkerHandlesSIGTERM(w) \/ WorkerHandlesSIGQUIT(w)

WorkerNext(w) ==
    \/ WorkerRuns(w) \/ WorkerHandlers(w)
    \/ \E s \in AppStatuses : AppSetsStatus(w, s)
    \/ AppFinishes(w) \/ AppDies(w) \/ WorkerAcceptFails(w)
===========================================================================
