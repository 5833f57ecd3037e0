----------------------------- MODULE Semaphores -----------------------------
(*************************************************************************)
(* One shared semaphore in use by the workers: BPSGISemaphore of         *)
(* src/src/shmem.cpp as the XS methods acquire, tryacquire and release   *)
(* call it, next to what may happen to its users: SIGTERM in the middle  *)
(* of sem_wait(), a crash with the semaphore held, the overseer's        *)
(* reaction.  The overseer is reduced to what Supervision says of it.    *)
(*                                                                       *)
(* The semaphore guards something: a worker acquires it at most once     *)
(* and, as a signal to others, may also release it without that.         *)
(*************************************************************************)
EXTENDS Naturals, FiniteSets

CONSTANTS
    Procs,          \* the workers
    InitValue,      \* the value that new_semaphore was called with
    SEM_VALUE_MAX,
    MaxPosts,       \* bound on releases that no acquire precedes
    MaxCrashes      \* bound on crashes

ASSUME SemaphoreAssumption ==
    /\ IsFiniteSet(Procs)
    /\ SEM_VALUE_MAX \in Nat /\ InitValue \in 1..SEM_VALUE_MAX
    /\ MaxPosts \in Nat /\ MaxCrashes \in Nat

VARIABLES
    value,       \* of the sem_t
    spc,         \* worker -> "idle", "request", "wait" (in sem_wait), "again" or "dead"
    holding,     \* workers to whom acquire or tryacquire has returned
    terminated,  \* workers with _worker_terminated set
    phase,       \* of the overseer: "running", "stopping" or "failing"
    posts, crashes

vars == <<value, spc, holding, terminated, phase, posts, crashes>>

TypeOK ==
    /\ value \in 0..SEM_VALUE_MAX
    /\ spc \in [Procs -> {"idle", "request", "wait", "again", "dead"}]
    /\ holding \in SUBSET Procs
    /\ terminated \in SUBSET Procs
    /\ phase \in {"running", "stopping", "failing"}
    /\ posts \in Nat /\ crashes \in Nat

Init ==
    /\ value = InitValue
    /\ spc = [p \in Procs |-> "idle"]
    /\ holding = {} /\ terminated = {}
    /\ phase = "running"
    /\ posts = 0 /\ crashes = 0

Moves(p, from, to) == spc[p] = from /\ spc' = [spc EXCEPT ![p] = to]
Dies(p) == spc[p] # "dead" /\ spc' = [spc EXCEPT ![p] = "dead"]

\* The start of MainLoopIteration: quit, or call the callback.  "request" is the whole
\* call, the wait in accept() included.
Quits(p) ==
    /\ p \in terminated /\ Moves(p, "idle", "dead")
    /\ UNCHANGED <<value, holding, terminated, phase, posts, crashes>>

\* Mutant: the flag that SIGTERM sets is not looked at.
BeginRequestAnyway(p) ==
    /\ Moves(p, "idle", "request")
    /\ UNCHANGED <<value, holding, terminated, phase, posts, crashes>>

BeginRequest(p) ==
    /\ p \notin terminated /\ Moves(p, "idle", "request")
    /\ UNCHANGED <<value, holding, terminated, phase, posts, crashes>>

EndRequest(p) ==
    /\ p \notin holding /\ Moves(p, "request", "idle")
    /\ UNCHANGED <<value, holding, terminated, phase, posts, crashes>>

\* Acquire() enters sem_wait().
Acquire(p) ==
    /\ p \notin holding /\ Moves(p, "request", "wait")
    /\ UNCHANGED <<value, holding, terminated, phase, posts, crashes>>

\* sem_wait() returns 0.
SemWait(p) ==
    /\ value > 0 /\ value' = value - 1
    /\ Moves(p, "wait", "request")
    /\ holding' = holding \cup {p}
    /\ UNCHANGED <<terminated, phase, posts, crashes>>

\* worker_sigterm_handler; a sem_wait() under way fails with EINTR.
HandleSIGTERM(p) ==
    /\ phase = "stopping" /\ p \notin terminated /\ spc[p] # "dead"
    /\ terminated' = terminated \cup {p}
    /\ spc' = [spc EXCEPT ![p] = IF @ = "wait" THEN "again" ELSE @]
    /\ UNCHANGED <<value, holding, phase, posts, crashes>>

\* Mutant: EINTR is not told from success.
AcquireReturnsOnEINTR(p) ==
    /\ Moves(p, "again", "request")
    /\ holding' = holding \cup {p}
    /\ UNCHANGED <<value, terminated, phase, posts, crashes>>

\* errno == EINTR: goto again.
AcquireAgain(p) ==
    /\ Moves(p, "again", "wait")
    /\ UNCHANGED <<value, holding, terminated, phase, posts, crashes>>

\* Returns true; otherwise (EAGAIN) it returns false and nothing changes.
TryAcquire(p) ==
    /\ spc[p] = "request" /\ p \notin holding
    /\ value > 0 /\ value' = value - 1
    /\ holding' = holding \cup {p}
    /\ UNCHANGED <<spc, terminated, phase, posts, crashes>>

Release(p) ==
    /\ spc[p] = "request" /\ p \in holding
    /\ value < SEM_VALUE_MAX /\ value' = value + 1
    /\ holding' = holding \ {p}
    /\ UNCHANGED <<spc, terminated, phase, posts, crashes>>

\* release() by a worker that holds nothing.
Post(p) ==
    /\ spc[p] = "request" /\ p \notin holding
    /\ posts < MaxPosts /\ posts' = posts + 1
    /\ value < SEM_VALUE_MAX /\ value' = value + 1
    /\ UNCHANGED <<spc, holding, terminated, phase, crashes>>

\* sem_post() fails with EOVERFLOW and Release() throws a SyscallException.  The worker
\* catches none: it ends in the interpreter's destructor, which calls _exit(1), or in
\* std::terminate() where the unwinder finds no way through Perl's own C frames.
ReleaseThrows(p) ==
    /\ spc[p] = "request" /\ value = SEM_VALUE_MAX
    /\ Dies(p)
    /\ UNCHANGED <<value, holding, terminated, phase, posts, crashes>>

Crashes(p) ==
    /\ crashes < MaxCrashes /\ crashes' = crashes + 1
    /\ Dies(p)
    /\ UNCHANGED <<value, holding, terminated, phase, posts>>

---------------------------------------------------------------------------
(* The overseer *)

\* SIGTERM: every worker is sent SIGTERM.
SmartShutdown ==
    /\ phase = "running" /\ phase' = "stopping"
    /\ UNCHANGED <<value, spc, holding, terminated, posts, crashes>>

\* SIGINT, or a second SIGTERM: every worker is sent SIGQUIT.
FastShutdown ==
    /\ phase # "failing" /\ phase' = "failing"
    /\ UNCHANGED <<value, spc, holding, terminated, posts, crashes>>

\* Mutant: a dead worker is passed over.
PassesOverDeath ==
    /\ phase = "running" /\ \E p \in Procs : spc[p] = "dead"
    /\ UNCHANGED vars

\* A worker died outside a shutdown: KillProcessGroup(SIGQUIT).
UnexpectedDeath ==
    /\ phase = "running" /\ \E p \in Procs : spc[p] = "dead"
    /\ phase' = "failing"
    /\ UNCHANGED <<value, spc, holding, terminated, posts, crashes>>

\* SIGQUIT from the overseer, or at its end.
HandleSIGQUIT(p) ==
    /\ phase = "failing" /\ Dies(p)
    /\ UNCHANGED <<value, holding, terminated, phase, posts, crashes>>

---------------------------------------------------------------------------
WorkerRuns(p) == Quits(p) \/ SemWait(p) \/ AcquireAgain(p)

Next ==
    \/ \E p \in Procs : \/ WorkerRuns(p) \/ HandleSIGTERM(p) \/ HandleSIGQUIT(p)
                        \/ BeginRequest(p) \/ EndRequest(p) \/ Acquire(p) \/ TryAcquire(p)
                        \/ Release(p) \/ Post(p) \/ ReleaseThrows(p)
                        \/ Crashes(p)
    \/ SmartShutdown \/ FastShutdown \/ UnexpectedDeath

\* The kernel runs who can run, the overseer acts on a death, the application gives back
\* what it holds, and every call of the callback ends: requests are answered and, as far
\* as accept() waits, keep coming (SigtermEndsWorker in BladePSGI is about a worker whom
\* none comes to).  sem_wait() is not fair: a waiter may be overtaken as long as others come.
Spec ==
    /\ Init /\ [][Next]_vars
    /\ WF_vars(UnexpectedDeath)
    /\ \A p \in Procs : /\ WF_vars(WorkerRuns(p))
                        /\ WF_vars(HandleSIGTERM(p)) /\ WF_vars(HandleSIGQUIT(p))
                        /\ WF_vars(Release(p)) /\ SF_vars(EndRequest(p))

\* The semaphore loses and invents nothing, however often sem_wait() is interrupted:
\* what workers hold, the dead included, and the value add up to what was put in.
\* At most InitValue workers are inside if nobody releases what it does not hold.
PermitsConserved == value + Cardinality(holding) = InitValue + posts

\* Nobody waits for ever for a worker that died with the semaphore: outside a smart
\* shutdown the overseer takes the death for a reason to stop, and the waiter dies too.
NoWaitForTheDead ==
    \A p \in Procs :
        spc[p] = "wait" /\ (\E q \in holding : spc[q] = "dead")
            ~> spc[p] # "wait" \/ phase = "stopping"

\* In a smart shutdown Acquire() goes back to sem_wait() after SIGTERM, and its worker
\* quits all the same, unless some worker died holding the semaphore.
WaitersQuit ==
    phase = "stopping" ~> \/ \A p \in Procs : spc[p] = "dead"
                          \/ \E q \in holding : spc[q] = "dead"
===========================================================================
