----------------------------- MODULE Statistics -----------------------------
(*************************************************************************)
(* What the statistics socket tells its clients: the loop of the         *)
(* monitoring process (src/src/monitoring.cpp) in the steps in which it  *)
(* reads the shared memory, next to workers that write it.  Monitoring   *)
(* has the same loop without the data, and with what follows its end.    *)
(*                                                                       *)
(* A status octet is represented by its place in the sequence of octets  *)
(* that its worker has set.  The semaphores and atomic integers of a     *)
(* reply are read where the request counter is, and are left out.        *)
(*************************************************************************)
EXTENDS Naturals, Sequences, FiniteSetsExt

CONSTANTS
    nworkers,
    Clients,        \* each connects to the statistics socket once
    Backlog,        \* of listen()
    MaxRequests,    \* bound on the requests of a worker
    MaxSets,        \* bound on the statuses that the application sets in a worker
    MaxInterrupts   \* bound on the calls that fail with EINTR or ECONNABORTED

Workers == 1..nworkers

ASSUME StatisticsAssumption ==
    /\ nworkers \in Nat \ {0} /\ Backlog \in Nat \ {0}
    /\ {MaxRequests, MaxSets, MaxInterrupts} \subseteq Nat

VARIABLES
    wpc,            \* worker -> "top" of MainLoopIteration or "request"
    done,           \* worker -> its calls of IncreaseRequestCounter
    status,         \* worker -> its octet: [set |-> which one, served |-> done at that time]
    counter,        \* the request counter
    queue,          \* connections that wait for accept()
    since,          \* client -> statuses and counter when it connected
    mpc,            \* where the monitoring process is
    i,              \* of GetAllWorkerStatuses
    data,           \* worker_status_data, kept from one client to the next
    reply,          \* client -> what it was sent
    runner,         \* the overseer lives
    interrupts

workerVars == <<wpc, done, status, counter>>
monitorVars == <<mpc, i, data, reply, interrupts>>
vars == <<workerVars, monitorVars, queue, since, runner>>

None == [statuses |-> <<>>, counter |-> 0]

Init ==
    /\ wpc = [w \in Workers |-> "top"]
    /\ done = [w \in Workers |-> 0]
    /\ status = [w \in Workers |-> [set |-> 0, served |-> 0]]
    /\ data = status
    /\ counter = 0
    /\ queue = <<>>
    /\ since = [c \in Clients |-> None] /\ reply = since
    /\ mpc = "loop" /\ i = 0
    /\ runner = TRUE
    /\ interrupts = 0

---------------------------------------------------------------------------
(* Workers *)

SetWorkerStatus(w) ==
    status' = [status EXCEPT ![w] = [set |-> @.set + 1, served |-> done[w]]]

\* SetWorkerStatus('_'); the callback is called.
WorkerBegins(w) ==
    /\ wpc[w] = "top" /\ done[w] < MaxRequests
    /\ wpc' = [wpc EXCEPT ![w] = "request"]
    /\ SetWorkerStatus(w)
    /\ UNCHANGED <<done, counter, monitorVars, queue, since, runner>>

\* set_worker_status
AppSetsStatus(w) ==
    /\ wpc[w] = "request" /\ status[w].set < MaxSets + done[w]
    /\ SetWorkerStatus(w)
    /\ UNCHANGED <<wpc, done, counter, monitorVars, queue, since, runner>>

\* Mutant: the status is reset before the request is counted.
WorkerCountsAfterStatus(w) ==
    /\ \/ /\ wpc[w] = "request" /\ wpc' = [wpc EXCEPT ![w] = "count"]
          /\ status' = [status EXCEPT ![w] = [set |-> @.set + 1, served |-> done[w] + 1]]
          /\ UNCHANGED <<done, counter>>
       \/ /\ wpc[w] = "count" /\ wpc' = [wpc EXCEPT ![w] = "top"]
          /\ done' = [done EXCEPT ![w] = @ + 1] /\ counter' = counter + 1
          /\ UNCHANGED status
    /\ UNCHANGED <<monitorVars, queue, since, runner>>

\* The callback returns; IncreaseRequestCounter().
WorkerCounts(w) ==
    /\ wpc[w] = "request" /\ wpc' = [wpc EXCEPT ![w] = "top"]
    /\ done' = [done EXCEPT ![w] = @ + 1] /\ counter' = counter + 1
    /\ UNCHANGED <<status, monitorVars, queue, since, runner>>

---------------------------------------------------------------------------
(* Clients and the overseer *)

Connects(c) ==
    /\ since[c] = None /\ Len(queue) < Backlog
    /\ queue' = Append(queue, c)
    /\ since' = [since EXCEPT ![c] = [statuses |-> status, counter |-> counter]]
    /\ UNCHANGED <<workerVars, monitorVars, runner>>

RunnerDies ==
    /\ runner /\ runner' = FALSE
    /\ UNCHANGED <<workerVars, monitorVars, queue, since>>

---------------------------------------------------------------------------
(* The monitoring process *)

MonitorMoves(from, to) == mpc = from /\ mpc' = to

Interrupted == interrupts < MaxInterrupts /\ interrupts' = interrupts + 1

NoticesRunnerDied ==
    /\ ~runner /\ MonitorMoves("loop", "gone")
    /\ UNCHANGED <<workerVars, i, data, reply, interrupts, queue, since, runner>>

Selects ==
    /\ runner /\ MonitorMoves("loop", "select")
    /\ UNCHANGED <<workerVars, i, data, reply, interrupts, queue, since, runner>>

\* select() returns 0.
SelectTimesOut ==
    /\ queue = <<>> /\ MonitorMoves("select", "loop")
    /\ UNCHANGED <<workerVars, i, data, reply, interrupts, queue, since, runner>>

SelectInterrupted ==
    /\ Interrupted /\ MonitorMoves("select", "loop")
    /\ UNCHANGED <<workerVars, i, data, reply, queue, since, runner>>

\* Mutant: the first argument of select() is listen_sockfd, which leaves it out.
SelectMissesSocket ==
    /\ MonitorMoves("select", "loop")
    /\ UNCHANGED <<workerVars, i, data, reply, interrupts, queue, since, runner>>

\* select() returns 1.
SelectReady ==
    /\ queue # <<>> /\ MonitorMoves("select", "statuses")
    /\ i' = 0
    /\ UNCHANGED <<workerVars, data, reply, interrupts, queue, since, runner>>

\* Mutant: i < nworkers - 1.
GetAllWorkerStatusesButOne ==
    /\ mpc = "statuses"
    /\ \/ /\ i < nworkers - 1 /\ i' = i + 1
          /\ data' = [data EXCEPT ![i + 1] = status[i + 1]]
          /\ UNCHANGED mpc
       \/ /\ i = nworkers - 1 /\ mpc' = "accept"
          /\ UNCHANGED <<i, data>>
    /\ UNCHANGED <<workerVars, reply, interrupts, queue, since, runner>>

\* One iteration of the loop over the workers, or its end.
GetAllWorkerStatuses ==
    /\ mpc = "statuses"
    /\ \/ /\ i < nworkers /\ i' = i + 1
          /\ data' = [data EXCEPT ![i + 1] = status[i + 1]]
          /\ UNCHANGED mpc
       \/ /\ i = nworkers /\ mpc' = "accept"
          /\ UNCHANGED <<i, data>>
    /\ UNCHANGED <<workerVars, reply, interrupts, queue, since, runner>>

\* accept() fails with EINTR or ECONNABORTED and HandleClient returns.
AcceptInterrupted ==
    /\ Interrupted /\ MonitorMoves("accept", "loop")
    /\ UNCHANGED <<workerVars, i, data, reply, queue, since, runner>>

\* accept(), which nobody else calls, takes the first connection; the counter is read and
\* the client is sent both.  Nothing is written between accept() and ReadRequestCounter()
\* that anyone could see, and a write that fails goes unnoticed.
HandleClient ==
    /\ queue # <<>> /\ MonitorMoves("accept", "loop")
    /\ reply' = [reply EXCEPT ![Head(queue)] = [statuses |-> data, counter |-> counter]]
    /\ queue' = Tail(queue)
    /\ UNCHANGED <<workerVars, i, data, interrupts, since, runner>>

\* SIGTERM or SIGQUIT from KillProcessGroup, in a shutdown that the overseer and the
\* workers may outlive, or SIGINT from the terminal: neither leaves the process alive.
DiesOfSignal ==
    /\ mpc # "gone" /\ mpc' = "gone"
    /\ UNCHANGED <<workerVars, i, data, reply, interrupts, queue, since, runner>>

\* select() or accept() fails for another reason, or sem_getvalue() after accept() does.
Throws ==
    /\ \/ MonitorMoves("select", "gone") /\ UNCHANGED queue
       \/ MonitorMoves("accept", "gone") /\ queue' \in {queue, Tail(queue)}
    /\ UNCHANGED <<workerVars, i, data, reply, interrupts, since, runner>>

---------------------------------------------------------------------------
MonitorRuns ==
    \/ NoticesRunnerDied \/ Selects \/ SelectTimesOut \/ SelectReady
    \/ GetAllWorkerStatuses \/ HandleClient

Next ==
    \/ \E w \in Workers : WorkerBegins(w) \/ AppSetsStatus(w) \/ WorkerCounts(w)
    \/ \E c \in Clients : Connects(c)
    \/ RunnerDies
    \/ MonitorRuns \/ SelectInterrupted \/ AcceptInterrupted
    \/ DiesOfSignal \/ Throws

\* The kernel runs the monitoring process; its calls are not interrupted for ever.
Spec == Init /\ [][Next]_vars /\ WF_vars(MonitorRuns)

Connected(c) == since[c] # None
Answered(c) == reply[c] # None

\* Although the statuses are read before accept() and into a buffer that earlier clients
\* used, a client is told nothing older than its connection: each status is one that the
\* worker had at that time or set later, and no request counted by then is missing.
ReplyIsFresh ==
    \A c \in Clients : Answered(c) =>
        /\ reply[c].counter >= since[c].counter
        /\ \A w \in Workers : reply[c].statuses[w].set >= since[c].statuses[w].set

\* The requests that are over by the statuses in a reply.
RequestsOver(r) == MapThenSumSet(LAMBDA w : r.statuses[w].served, Workers)

\* The parts of a reply are from different moments, and fit together all the same: every
\* request that is over by the statuses in it is in its counter.
ReplyIsConsistent ==
    \A c \in Clients : Answered(c) => reply[c].counter >= RequestsOver(reply[c])

\* Whoever connects gets an answer, unless the monitoring process ends before: with the
\* overseer, by the signal of a shutdown (which stops the statistics while workers may
\* still serve for a long time) or by an exception.
EveryClientAnswered == \A c \in Clients : Connected(c) ~> Answered(c) \/ mpc = "gone"
===========================================================================
