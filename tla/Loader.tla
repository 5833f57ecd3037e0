------------------------------- MODULE Loader -------------------------------
(*************************************************************************)
(* SpawnWorkersAndAuxiliaryProcesses of src/src/bladepsgi.cpp: the       *)
(* application's loader runs in the overseer and takes shared memory and *)
(* requests auxiliary processes, in any order; then the allocator is     *)
(* locked, and every process is forked with a copy of the allocator and  *)
(* of the interpreter.                                                   *)
(*                                                                       *)
(* SharedMemory has the allocator of every process, PerlCallbacks the    *)
(* interpreter of one of them.                                           *)
(*************************************************************************)
EXTENDS SharedMemory, PerlCallbacks

vars == <<memoryVars, perlVars>>

Init == MemoryInit /\ PerlInit

\* The interpreter goes on by itself, up to the loader and in the children.
InterpreterRuns ==
    /\ \/ InterpreterInit \/ CallbackInit \/ CallWrapper
       \/ AuxCalls \/ WorkerCalls \/ CallReturns \/ CallDies
       \/ \E s \in Variables : \/ LeavesScope(s) \/ RequestAuxiliaryProcess(s)
                               \/ \E c \in Codes : Assigns(s, c)
    /\ UNCHANGED memoryVars

\* new_semaphore() and new_atomic_int64(): in the overseer only the loader calls them, in
\* its children the application does when it likes.
Allocates(p) ==
    /\ p = Runner => pc = "loader"
    /\ \/ \E n \in Names, v \in InitValues : NewSemaphore(p, n, v)
       \/ \E n \in Names : NewAtomicInt64(p, n)
    /\ UNCHANGED perlVars

\* CallAndReceiveCallback() returns, and LockAllocations() is next.
ReturnsAndLocks == LoaderReturns /\ LockAllocations

\* fork(): the behaviour goes on in the child that was forked, or in the overseer when it
\* has forked all of the workers and destroys its interpreter.
ForksAndFollows ==
    /\ Forks
    /\ \/ pc' = "aux" /\ \E p \in Others : Fork(p)
       \/ pc' = "worker" /\ \E p \in WorkerNos : Fork(p)
       \/ pc' = "overseer" /\ WorkerNos \subseteq forked /\ UNCHANGED memoryVars

\* fork() of a process that the behaviour does not follow.
ForksAnother(p) == Fork(p) /\ UNCHANGED perlVars

Next ==
    \/ InterpreterRuns \/ ReturnsAndLocks \/ ForksAndFollows
    \/ \E p \in Procs : Allocates(p)
    \/ \E p \in WorkerNos \cup Others : ForksAnother(p)

Spec == Init /\ [][Next]_vars
===========================================================================
