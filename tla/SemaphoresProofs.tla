-------------------------- MODULE SemaphoresProofs --------------------------
(*************************************************************************)
(* A semaphore of any value, among any number of workers, loses and      *)
(* invents nothing.                                                      *)
(*************************************************************************)
EXTENDS Semaphores, FiniteSetTheorems, TLAPS

Inv == TypeOK /\ PermitsConserved

\* What an acquisition and a release do to the number of holders.
LEMMA HoldersCount ==
    ASSUME TypeOK, NEW p \in Procs
    PROVE  /\ Cardinality(holding) \in Nat
           /\ p \notin holding => Cardinality(holding \cup {p}) = Cardinality(holding) + 1
           /\ p \in holding => Cardinality(holding \ {p}) = Cardinality(holding) - 1
  <1>1. IsFiniteSet(holding)
    BY SemaphoreAssumption, FS_Subset DEF TypeOK
  <1> QED
    BY <1>1, FS_CardinalityType, FS_AddElement, FS_RemoveElement

\* A worker in sem_wait() holds nothing yet.
WaitersEmptyHanded == \A p \in Procs : spc[p] \in {"idle", "wait", "again"} => p \notin holding

LEMMA InitInv == Init => Inv /\ WaitersEmptyHanded
  BY SemaphoreAssumption, FS_EmptySet DEF Init, Inv, TypeOK, PermitsConserved, WaitersEmptyHanded

\* Every step keeps the types, and a waiter empty-handed.
LEMMA StepType == TypeOK /\ WaitersEmptyHanded /\ [Next]_vars => TypeOK' /\ WaitersEmptyHanded'
  <1> SUFFICES ASSUME TypeOK, WaitersEmptyHanded, [Next]_vars PROVE TypeOK' /\ WaitersEmptyHanded'
    OBVIOUS
  <1> USE SemaphoreAssumption DEF TypeOK, WaitersEmptyHanded, Moves, Dies
  <1>1. ASSUME NEW p \in Procs, Quits(p) \/ BeginRequest(p) \/ EndRequest(p) \/ Acquire(p)
                                \/ AcquireAgain(p) \/ HandleSIGTERM(p)
        PROVE  TypeOK' /\ WaitersEmptyHanded'
    BY <1>1 DEF Quits, BeginRequest, EndRequest, Acquire, AcquireAgain, HandleSIGTERM
  <1>2. ASSUME NEW p \in Procs, SemWait(p) \/ TryAcquire(p) \/ Release(p) \/ Post(p)
        PROVE  TypeOK' /\ WaitersEmptyHanded'
    BY <1>2 DEF SemWait, TryAcquire, Release, Post
  <1>3. ASSUME NEW p \in Procs, ReleaseThrows(p) \/ Crashes(p) \/ HandleSIGQUIT(p)
        PROVE  TypeOK' /\ WaitersEmptyHanded'
    BY <1>3 DEF ReleaseThrows, Crashes, HandleSIGQUIT
  <1>4. CASE SmartShutdown \/ FastShutdown \/ UnexpectedDeath \/ UNCHANGED vars
    BY <1>4 DEF SmartShutdown, FastShutdown, UnexpectedDeath, vars
  <1> QED
    BY <1>1, <1>2, <1>3, <1>4 DEF Next, WorkerRuns

\* The value and the number of holders change together.
LEMMA StepConserves ==
    ASSUME Inv, WaitersEmptyHanded, [Next]_vars
    PROVE  PermitsConserved'
  <1> USE DEF Inv, PermitsConserved
  <1>0. value \in Nat /\ posts \in Nat /\ InitValue \in Nat
    BY SemaphoreAssumption DEF TypeOK
  <1>1. ASSUME NEW p \in Procs, SemWait(p) \/ TryAcquire(p) PROVE PermitsConserved'
    <2>1. p \notin holding /\ holding' = holding \cup {p} /\ value' = value - 1 /\ posts' = posts
      BY <1>1 DEF SemWait, TryAcquire, Moves, WaitersEmptyHanded
    <2> QED
      BY <1>0, <2>1, HoldersCount
  <1>2. ASSUME NEW p \in Procs, Release(p) PROVE PermitsConserved'
    <2>1. p \in holding /\ holding' = holding \ {p} /\ value' = value + 1 /\ posts' = posts
      BY <1>2 DEF Release
    <2> QED
      BY <1>0, <2>1, HoldersCount
  <1>3. ASSUME NEW p \in Procs, Post(p) PROVE PermitsConserved'
    <2>1. holding' = holding /\ value' = value + 1 /\ posts' = posts + 1
      BY <1>3 DEF Post
    <2>2. Cardinality(holding) \in Nat
      BY HoldersCount
    <2> QED
      BY <1>0, <2>1, <2>2
  <1>4. CASE UNCHANGED <<value, holding, posts>>
    BY <1>4
  <1> QED
    BY <1>1, <1>2, <1>3, <1>4
    DEF Next, WorkerRuns, Quits, BeginRequest, EndRequest, Acquire, AcquireAgain, HandleSIGTERM,
        ReleaseThrows, Crashes, HandleSIGQUIT, SmartShutdown, FastShutdown, UnexpectedDeath, vars

\* For any number of workers and any initial value, in every interleaving of calls,
\* signals and deaths: what is held and what is left add up to what was put in.
THEOREM Conservation == Spec => []PermitsConserved
  <1> DEFINE IInv == Inv /\ WaitersEmptyHanded
  <1>1. Init => IInv
    BY InitInv
  <1>2. IInv /\ [Next]_vars => IInv'
    BY StepType, StepConserves DEF Inv
  <1> QED
    BY <1>1, <1>2, PTL DEF Spec, Inv
===========================================================================
