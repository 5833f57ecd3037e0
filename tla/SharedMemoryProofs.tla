------------------------ MODULE SharedMemoryProofs ------------------------
(*************************************************************************)
(* The layout of the shared memory segment is sound for every segment    *)
(* size, every number of workers and every sequence of allocations.      *)
(*************************************************************************)
EXTENDS SharedMemory, FiniteSetTheorems, TLAPS

\* The objects of the runner lie one after the other between the fixed fields and the
\* offset, and below the status array.
RunnerLayout ==
    /\ next_user_available_offset[Runner] >= SHMEM_FIRST_USER_AVAILABLE_OFFSET
    /\ \A o \in objects[Runner] :
          /\ SHMEM_FIRST_USER_AVAILABLE_OFFSET <= o.off
          /\ o.off + o.size <= next_user_available_offset[Runner]
          /\ o.off + o.size <= StatusArrayOff
    /\ \A a, b \in objects[Runner] : a = b \/ Disjoint(a, b)

\* A process that was forked has a locked copy of the runner's locked allocator.
CopiesAgree ==
    /\ Runner \in forked
    /\ \A p \in forked \ {Runner} :
          /\ Runner \in locked /\ p \in locked
          /\ objects[p] = objects[Runner]
          /\ next_user_available_offset[p] = next_user_available_offset[Runner]

\* The inductive invariant: CopiesAgree reduces NoAliasing to the runner's own
\* objects, and RunnerLayout gives the next object a place above all of them.
IInv == TypeOK /\ RunnerLayout /\ CopiesAgree

\* SHMEMALIGN rounds up to a multiple of SHMEM_ALIGNOF.
LEMMA AlignLemma ==
    ASSUME NEW n \in Nat
    PROVE  /\ SHMEMALIGN(n) \in Nat
           /\ SHMEMALIGN(n) >= n
           /\ SHMEMALIGN(n) % SHMEM_ALIGNOF = 0
  BY DEF SHMEMALIGN, SHMEM_ALIGNOF

\* The first offset the loader gets is 16, above the flag and the request counter.
LEMMA FirstOffsetLemma == SHMEM_FIRST_USER_AVAILABLE_OFFSET = 16
  BY DEF SHMEM_FIRST_USER_AVAILABLE_OFFSET, SHMEMALIGN, SHMEM_ALIGNOF

\* The constructor leaves an empty, aligned allocator in the runner.
LEMMA InitLemma == MemoryInit => IInv
  <1> SUFFICES ASSUME MemoryInit PROVE IInv
    OBVIOUS
  <1>1. TypeOK
    BY FirstOffsetLemma DEF MemoryInit, TypeOK, Procs, Results, SHMEM_ALIGNOF
  <1>2. RunnerLayout
    BY FirstOffsetLemma DEF MemoryInit, RunnerLayout, Procs
  <1>3. CopiesAgree
    BY DEF MemoryInit, CopiesAgree
  <1> QED
    BY <1>1, <1>2, <1>3 DEF IInv

\* Moving the runner's offset and adding nothing keeps the invariant; only the
\* runner can do it, because every other process is locked.
LEMMA AllocateLemma ==
    ASSUME IInv, NEW p \in forked, NEW size \in Nat \ {0}, AllocateUserShmem(p, size)
    PROVE  /\ p = Runner
           /\ forked = {Runner}
           /\ next_user_available_offset' \in [Procs -> Nat]
           /\ \A q \in Procs : next_user_available_offset'[q] % SHMEM_ALIGNOF = 0
           /\ next_user_available_offset'[Runner]
                  >= next_user_available_offset[Runner] + size
  <1>1. p = Runner /\ forked = {Runner} /\ p \in Procs
    BY DEF IInv, CopiesAgree, AllocateUserShmem, Procs
  <1>2. next_user_available_offset[p] + size \in Nat
    BY <1>1 DEF IInv, TypeOK
  <1> DEFINE off == SHMEMALIGN(next_user_available_offset[p] + size)
  <1>3. /\ off \in Nat
        /\ off >= next_user_available_offset[p] + size
        /\ off % SHMEM_ALIGNOF = 0
    BY <1>2, AlignLemma
  <1>4. next_user_available_offset' = [next_user_available_offset EXCEPT ![p] = off]
    BY DEF AllocateUserShmem
  <1> HIDE DEF off
  <1> QED
    BY <1>1, <1>3, <1>4 DEF IInv, TypeOK

\* An object that is handed out lies above the runner's other objects and below the
\* status array.
LEMMA AppendLemma ==
    ASSUME IInv, NEW p \in forked, NEW size \in Nat \ {0}, NEW name \in Names,
           NEW kind \in UserKinds, Appends(p, kind, name, size)
    PROVE  IInv'
  <1> DEFINE o == Object(kind, name, next_user_available_offset[Runner], size)
  <1>1. AllocateUserShmem(p, size) /\ ~OutOfMemory(p)
    BY DEF Appends
  <1>2. /\ p = Runner
        /\ forked = {Runner}
        /\ next_user_available_offset' \in [Procs -> Nat]
        /\ \A q \in Procs : next_user_available_offset'[q] % SHMEM_ALIGNOF = 0
        /\ next_user_available_offset'[Runner]
               >= next_user_available_offset[Runner] + size
    BY <1>1, AllocateLemma
  <1>3. /\ Runner \in Procs
        /\ next_user_available_offset[Runner] \in Nat
        /\ StatusArrayOff \in Nat
    <2>1. Runner \in Procs
      BY DEF Procs
    <2>2. StatusArrayOff \in Nat
      BY SharedMemoryAssumption
    <2> QED
      BY <2>1, <2>2 DEF IInv, TypeOK
  <1>4. /\ o \in UserObjects
        /\ o.off = next_user_available_offset[Runner]
        /\ o.size = size
    BY <1>3 DEF UserObjects, Object
  <1>5. objects' = [objects EXCEPT ![Runner] = @ \cup {o}]
    BY <1>2 DEF Appends
  <1> HIDE DEF o
  <1>6. objects'[Runner] = objects[Runner] \cup {o} /\ objects' \in [Procs -> SUBSET UserObjects]
    BY <1>3, <1>4, <1>5 DEF IInv, TypeOK
  <1>7. next_user_available_offset'[Runner] < StatusArrayOff
    BY <1>1, <1>2, <1>3 DEF OutOfMemory
  <1>8. \A x \in objects[Runner] : x.off \in Nat /\ x.size \in Nat
    BY <1>3 DEF IInv, TypeOK, UserObjects
  <1>9. TypeOK'
    BY <1>2, <1>6 DEF IInv, TypeOK, Appends, Results
  <1>10. RunnerLayout'
    <2>1. next_user_available_offset'[Runner] >= SHMEM_FIRST_USER_AVAILABLE_OFFSET
      BY <1>2, <1>3, FirstOffsetLemma DEF IInv, RunnerLayout
    <2>2. ASSUME NEW x \in objects'[Runner]
          PROVE  /\ SHMEM_FIRST_USER_AVAILABLE_OFFSET <= x.off
                 /\ x.off + x.size <= next_user_available_offset'[Runner]
                 /\ x.off + x.size <= StatusArrayOff
      BY <1>2, <1>3, <1>4, <1>6, <1>7, <1>8, FirstOffsetLemma DEF IInv, RunnerLayout
    <2>3. ASSUME NEW a \in objects'[Runner], NEW b \in objects'[Runner]
          PROVE  a = b \/ Disjoint(a, b)
      BY <1>4, <1>6 DEF IInv, RunnerLayout, Disjoint
    <2> QED
      BY <2>1, <2>2, <2>3 DEF RunnerLayout, Disjoint
  <1>11. CopiesAgree'
    BY <1>2 DEF CopiesAgree, Appends
  <1> QED
    BY <1>9, <1>10, <1>11 DEF IInv

\* A call that takes memory and hands out nothing keeps the invariant.
LEMMA LossLemma ==
    ASSUME IInv, NEW p \in forked, NEW size \in Nat \ {0},
           RunsOut(p, size) \/ Leaks(p, size)
    PROVE  IInv'
  <1>1. /\ AllocateUserShmem(p, size)
        /\ UNCHANGED <<forked, locked, objects>>
        /\ leaks' \in Nat /\ result' \in Results
    BY DEF RunsOut, Leaks, IInv, TypeOK, Results
  <1>2. /\ p = Runner
        /\ forked = {Runner}
        /\ next_user_available_offset' \in [Procs -> Nat]
        /\ \A q \in Procs : next_user_available_offset'[q] % SHMEM_ALIGNOF = 0
        /\ next_user_available_offset'[Runner]
               >= next_user_available_offset[Runner] + size
    BY <1>1, AllocateLemma
  <1>3. Runner \in Procs /\ next_user_available_offset[Runner] \in Nat
    BY DEF IInv, TypeOK, Procs
  <1>4. \A x \in objects[Runner] : x.off \in Nat /\ x.size \in Nat
    BY <1>3 DEF IInv, TypeOK, UserObjects
  <1>5. TypeOK'
    BY <1>1, <1>2 DEF IInv, TypeOK
  <1>6. RunnerLayout'
    BY <1>1, <1>2, <1>3, <1>4, FirstOffsetLemma DEF IInv, RunnerLayout, Disjoint
  <1>7. CopiesAgree'
    BY <1>1, <1>2 DEF CopiesAgree
  <1> QED
    BY <1>5, <1>6, <1>7 DEF IInv

\* Refused calls change nothing but the result.
LEMMA RefusedLemma ==
    ASSUME IInv, NEW why \in Results, Refused(why)
    PROVE  IInv'
  BY DEF IInv, TypeOK, RunnerLayout, CopiesAgree, Refused, Disjoint

\* A step of the loader, of the runner or of the application keeps the invariant.
LEMMA StepLemma == IInv /\ [MemoryNext]_memoryVars => IInv'
  <1> SUFFICES ASSUME IInv, [MemoryNext]_memoryVars PROVE IInv'
    OBVIOUS
  <1>1. ASSUME NEW p \in Procs, NEW n \in Names, NEW v \in InitValues, NewSemaphore(p, n, v)
        PROVE  IInv'
    <2>1. p \in forked /\ SemSize \in Nat \ {0}
      BY <1>1, SharedMemoryAssumption DEF NewSemaphore, Calls
    <2>2. CASE \E why \in Results : Refused(why)
      BY <2>2, RefusedLemma
    <2>3. CASE RunsOut(p, SemSize) \/ Leaks(p, SemSize)
      BY <2>1, <2>3, LossLemma
    <2>4. CASE Appends(p, "semaphore", n, SemSize)
      BY <2>1, <2>4, AppendLemma DEF UserKinds
    <2> QED
      BY <1>1, <2>2, <2>3, <2>4 DEF NewSemaphore, Results
  <1>2. ASSUME NEW p \in Procs, NEW n \in Names, NewAtomicInt64(p, n)
        PROVE  IInv'
    <2>1. p \in forked /\ 8 \in Nat \ {0}
      BY <1>2 DEF NewAtomicInt64, Calls
    <2>2. CASE \E why \in Results : Refused(why)
      BY <2>2, RefusedLemma
    <2>3. CASE RunsOut(p, 8)
      BY <2>1, <2>3, LossLemma
    <2>4. CASE Appends(p, "atomic", n, 8)
      BY <2>1, <2>4, AppendLemma DEF UserKinds
    <2> QED
      BY <1>2, <2>2, <2>3, <2>4 DEF NewAtomicInt64, Results
  <1>3. CASE LockAllocations
    BY <1>3 DEF IInv, TypeOK, RunnerLayout, CopiesAgree, LockAllocations, Procs, Disjoint
  <1>4. ASSUME NEW p \in WorkerNos \cup Others, Fork(p)
        PROVE  IInv'
    <2>1. p \in Procs /\ Runner \in Procs /\ p # Runner
      BY SharedMemoryAssumption DEF Procs
    <2>2. TypeOK'
      BY <1>4, <2>1 DEF IInv, TypeOK, Fork
    <2>3. RunnerLayout'
      BY <1>4, <2>1 DEF IInv, TypeOK, RunnerLayout, Fork, Disjoint
    <2>4. CopiesAgree'
      BY <1>4, <2>1 DEF IInv, TypeOK, CopiesAgree, Fork
    <2> QED
      BY <2>2, <2>3, <2>4 DEF IInv
  <1>5. CASE UNCHANGED memoryVars
    BY <1>5 DEF IInv, TypeOK, RunnerLayout, CopiesAgree, memoryVars, Disjoint
  <1> QED
    BY <1>1, <1>2, <1>3, <1>4, <1>5 DEF MemoryNext

\* Every reachable state has the layout: the allocator of shmem.cpp keeps IInv.
THEOREM Invariance == MemorySpec => []IInv
  BY InitLemma, StepLemma, PTL DEF MemorySpec

\* The variables have their types, and AllocateUserShmem leaves every process's offset
\* aligned for the next object, whatever the size of a semaphore is.
THEOREM TypeCorrectness == MemorySpec => []TypeOK
<1>1. IInv => TypeOK
  BY DEF IInv
<1> QED
  BY Invariance, <1>1, PTL

\* The two kinds of fixed fields: below the user area, and in the status array.
Below(x) == (x.off = 0 /\ x.size = 1) \/ (x.off = 8 /\ x.size = 8)
AtStatus(r, x) == r \in WorkerNos /\ x.off = StatusArrayOff + r /\ x.size = 1

\* The fixed fields, one by one.
LEMMA FixedFieldsCases ==
    ASSUME NEW r, NEW x \in FixedFields(r)
    PROVE  \/ x = Object("field", "should_exit", 0, 1)
           \/ x = Object("field", "request_counter", 8, 8)
           \/ r \in WorkerNos /\ x = Object("status", r, StatusArrayOff + r, 1)
  BY DEF FixedFields

\* A fixed field is one of the two words at the start or the octet of a worker.
LEMMA FixedFieldsLemma ==
    ASSUME NEW r, NEW x \in FixedFields(r)
    PROVE  Below(x) \/ AtStatus(r, x)
  BY FixedFieldsCases DEF Object, Below, AtStatus

\* A fixed field is disjoint from whatever lies between 16 and the status array.
LEMMA UserAreaLemma ==
    ASSUME NEW r, NEW x, Below(x) \/ AtStatus(r, x),
           NEW y, y.off \in Nat, y.size \in Nat,
           16 <= y.off, y.off + y.size <= StatusArrayOff
    PROVE  Disjoint(x, y) /\ Disjoint(y, x)
  <1>1. CASE Below(x)
    BY <1>1 DEF Below, Disjoint
  <1>2. CASE AtStatus(r, x)
    <2>1. r \in Nat /\ StatusArrayOff \in Nat
      BY <1>2, SharedMemoryAssumption DEF AtStatus
    <2> QED
      BY <1>2, <2>1 DEF AtStatus, Disjoint
  <1> QED
    BY <1>1, <1>2

\* Two fixed fields are the same or disjoint.
LEMMA FixedFieldsDisjoint ==
    ASSUME NEW r, NEW x \in FixedFields(r), NEW t, NEW y \in FixedFields(t)
    PROVE  x = y \/ Disjoint(x, y)
  <1>1. StatusArrayOff \in Nat /\ StatusArrayOff >= 16 /\ WorkerNos \subseteq Nat
    BY SharedMemoryAssumption
  <1>2. CASE Below(x) /\ Below(y)
    <2>1. x.off # y.off => Disjoint(x, y)
      BY <1>2 DEF Below, Disjoint
    <2>2. x.off = y.off => x = y
      <3>1. ~AtStatus(r, x) /\ ~AtStatus(t, y)
        <4>1. x.off < 16 /\ y.off < 16
          BY <1>2 DEF Below
        <4>2. AtStatus(r, x) => r \in Nat
          BY <1>1 DEF AtStatus
        <4>3. AtStatus(t, y) => t \in Nat
          BY <1>1 DEF AtStatus
        <4>4. ASSUME AtStatus(r, x) PROVE FALSE
          BY <1>1, <4>1, <4>2, <4>4 DEF AtStatus
        <4>5. ASSUME AtStatus(t, y) PROVE FALSE
          BY <1>1, <4>1, <4>3, <4>5 DEF AtStatus
        <4> QED
          BY <4>4, <4>5
      <3>2. /\ x \in {Object("field", "should_exit", 0, 1), Object("field", "request_counter", 8, 8)}
            /\ y \in {Object("field", "should_exit", 0, 1), Object("field", "request_counter", 8, 8)}
        BY <3>1, FixedFieldsCases DEF AtStatus, Object
      <3> QED
        BY <3>2 DEF Object
    <2> QED
      BY <2>1, <2>2
  <1>3. CASE Below(x) /\ AtStatus(t, y)
    <2>1. t \in Nat
      BY <1>1, <1>3 DEF AtStatus
    <2> QED
      BY <1>1, <1>3, <2>1 DEF Below, AtStatus, Disjoint
  <1>4. CASE AtStatus(r, x) /\ Below(y)
    <2>1. r \in Nat
      BY <1>1, <1>4 DEF AtStatus
    <2> QED
      BY <1>1, <1>4, <2>1 DEF Below, AtStatus, Disjoint
  <1>5. CASE AtStatus(r, x) /\ AtStatus(t, y)
    <2>1. r \in Nat /\ t \in Nat
      BY <1>1, <1>5 DEF AtStatus
    <2>2. x.off # 0 /\ x.off # 8 /\ y.off # 0 /\ y.off # 8
      BY <1>1, <1>5, <2>1 DEF AtStatus
    <2>3. /\ x = Object("status", r, StatusArrayOff + r, 1)
          /\ y = Object("status", t, StatusArrayOff + t, 1)
      BY <2>2, FixedFieldsCases DEF Object
    <2>4. r = t => x = y
      BY <2>3
    <2>5. r # t => Disjoint(x, y)
      BY <1>1, <1>5, <2>1 DEF AtStatus, Disjoint
    <2> QED
      BY <2>4, <2>5
  <1> QED
    BY <1>2, <1>3, <1>4, <1>5, FixedFieldsLemma

\* Whatever the loader and the application allocate, in whatever process and order, no
\* two processes use the same bytes of the segment as two different things.
THEOREM NoAliasingTheorem == MemorySpec => []NoAliasing
  <1>1. IInv => NoAliasing
    <2> SUFFICES ASSUME IInv,
                        NEW p \in forked, NEW q \in forked,
                        NEW a \in Fields(p), NEW b \in Fields(q)
                 PROVE  a = b \/ Disjoint(a, b)
      BY DEF NoAliasing
    <2>1. objects[p] = objects[Runner] /\ objects[q] = objects[Runner]
      BY DEF IInv, CopiesAgree
    <2>2. WorkerNos \subseteq Nat /\ StatusArrayOff \in Nat /\ StatusArrayOff >= 16
      BY SharedMemoryAssumption
    <2>3. \A x \in objects[Runner] :
             /\ x.off \in Nat /\ x.size \in Nat
             /\ 16 <= x.off /\ x.off + x.size <= StatusArrayOff
      BY FirstOffsetLemma DEF IInv, RunnerLayout, TypeOK, UserObjects, Procs
    <2>5. CASE a \in objects[p] /\ b \in objects[q]
      BY <2>1, <2>5 DEF IInv, RunnerLayout
    <2>6. CASE a \in objects[p] /\ b \in FixedFields(q)
      <3>1. Below(b) \/ AtStatus(q, b)
        BY <2>6, FixedFieldsLemma
      <3>2. a.off \in Nat /\ a.size \in Nat /\ 16 <= a.off /\ a.off + a.size <= StatusArrayOff
        BY <2>1, <2>3, <2>6
      <3> QED
        BY <3>1, <3>2, UserAreaLemma
    <2>7. CASE a \in FixedFields(p) /\ b \in objects[q]
      <3>1. Below(a) \/ AtStatus(p, a)
        BY <2>7, FixedFieldsLemma
      <3>2. b.off \in Nat /\ b.size \in Nat /\ 16 <= b.off /\ b.off + b.size <= StatusArrayOff
        BY <2>1, <2>3, <2>7
      <3> QED
        BY <3>1, <3>2, UserAreaLemma
    <2>8. CASE a \in FixedFields(p) /\ b \in FixedFields(q)
      BY <2>8, FixedFieldsDisjoint
    <2> QED
      BY <2>5, <2>6, <2>7, <2>8 DEF Fields
  <1> QED
    BY <1>1, Invariance, PTL

\* Whatever the loader allocates before the lock and the application tries after it, an
\* object of any process lies above the flag and the request counter and below the worker
\* status array, for every size of a semaphore and every place of the array.
THEOREM ObjectsInTheirAreaTheorem == MemorySpec => []ObjectsInTheirArea
  <1>1. IInv => ObjectsInTheirArea
    BY DEF IInv, CopiesAgree, RunnerLayout, ObjectsInTheirArea
  <1> QED
    BY <1>1, Invariance, PTL

---------------------------------------------------------------------------
(* What the offset accounts for *)

\* Rounding up after an aligned offset adds the rounded size.
LEMMA AlignedSum ==
    ASSUME NEW off \in Nat, off % SHMEM_ALIGNOF = 0, NEW size \in Nat
    PROVE  SHMEMALIGN(off + size) = off + SHMEMALIGN(size)
  <1>1. (off + size) % SHMEM_ALIGNOF = size % SHMEM_ALIGNOF
    BY DEF SHMEM_ALIGNOF
  <1> QED
    BY <1>1 DEF SHMEMALIGN, SHMEM_ALIGNOF

LEMMA OneMore ==
    ASSUME NEW a \in Nat, NEW n \in Nat
    PROVE  a * n \in Nat /\ a * (n + 1) = a * n + a
  OBVIOUS

\* What NothingLostToRefusals says of the runner, with the finiteness that counting needs.
\* It speaks of the runner alone: the copies are covered by CopiesAgree.
Account ==
    next_user_available_offset[Runner] = SHMEM_FIRST_USER_AVAILABLE_OFFSET
        + SHMEMALIGN(SemSize) * (Cardinality(Of(Runner, "semaphore")) + leaks)
        + SHMEMALIGN(8) * Cardinality(Of(Runner, "atomic"))

AccountInv ==
    /\ IsFiniteSet(objects[Runner])
    /\ next_user_available_offset[Runner] < StatusArrayOff => Account

\* The counts are natural numbers.
LEMMA CountType ==
    ASSUME IsFiniteSet(objects[Runner]), NEW kind
    PROVE  Of(Runner, kind) \subseteq objects[Runner]
           /\ IsFiniteSet(Of(Runner, kind)) /\ Cardinality(Of(Runner, kind)) \in Nat
  <1>1. Of(Runner, kind) \subseteq objects[Runner]
    BY DEF Of
  <1> QED
    BY <1>1, FS_Subset, FS_CardinalityType

\* A call that takes memory finds the offset below the limit, if it is below it afterwards.
LEMMA TakesMemory ==
    ASSUME IInv, NEW p \in forked, NEW size \in Nat \ {0}, AllocateUserShmem(p, size),
           ~OutOfMemory(p)
    PROVE  /\ p = Runner
           /\ next_user_available_offset[Runner] \in Nat
           /\ next_user_available_offset[Runner] < StatusArrayOff
           /\ next_user_available_offset'[Runner]
                  = next_user_available_offset[Runner] + SHMEMALIGN(size)
  <1>1. /\ p = Runner /\ Runner \in Procs
        /\ next_user_available_offset' \in [Procs -> Nat]
        /\ next_user_available_offset'[Runner] >= next_user_available_offset[Runner] + size
    BY AllocateLemma DEF Procs
  <1>2. /\ next_user_available_offset[Runner] \in Nat
        /\ next_user_available_offset[Runner] % SHMEM_ALIGNOF = 0
        /\ next_user_available_offset \in [Procs -> Nat]
    BY <1>1 DEF IInv, TypeOK
  <1>3. next_user_available_offset'[Runner]
            = SHMEMALIGN(next_user_available_offset[Runner] + size)
    BY <1>1, <1>2 DEF AllocateUserShmem
  <1>4. next_user_available_offset'[Runner] < StatusArrayOff
    BY <1>1, SharedMemoryAssumption DEF OutOfMemory
  <1>5. next_user_available_offset'[Runner] \in Nat /\ StatusArrayOff \in Nat
    BY <1>1, SharedMemoryAssumption
  <1>6. next_user_available_offset[Runner] < StatusArrayOff
    BY <1>1, <1>2, <1>4, <1>5
  <1> QED
    BY <1>1, <1>2, <1>3, <1>6, AlignedSum

\* An object that is handed out is one more of its kind, and none of the other kind.
LEMMA AppendAccount ==
    ASSUME IInv, AccountInv, NEW p \in forked, NEW name \in Names, NEW kind \in UserKinds,
           NEW size \in Nat \ {0}, size = IF kind = "semaphore" THEN SemSize ELSE 8,
           Appends(p, kind, name, size)
    PROVE  AccountInv'
  <1> DEFINE o == Object(kind, name, next_user_available_offset[Runner], size)
             S == Of(Runner, "semaphore")
             A == Of(Runner, "atomic")
  <1>1. AllocateUserShmem(p, size) /\ ~OutOfMemory(p) /\ leaks' = leaks
    BY DEF Appends
  <1>2. /\ p = Runner
        /\ next_user_available_offset[Runner] \in Nat
        /\ next_user_available_offset[Runner] < StatusArrayOff
        /\ next_user_available_offset'[Runner]
               = next_user_available_offset[Runner] + SHMEMALIGN(size)
    BY <1>1, TakesMemory
  <1>3. objects'[Runner] = objects[Runner] \cup {o}
    <2>1. Runner \in DOMAIN objects
      BY DEF IInv, TypeOK, Procs
    <2> QED
      BY <1>2, <2>1 DEF Appends
  <1>4. o \notin objects[Runner]
    <2>1. o.off = next_user_available_offset[Runner]
      BY DEF Object
    <2>2. \A x \in objects[Runner] : x.off \in Nat /\ x.size \in Nat \ {0}
      BY DEF IInv, TypeOK, UserObjects, Procs
    <2> HIDE DEF o
    <2>3. \A x \in objects[Runner] : x.off + x.size <= next_user_available_offset[Runner]
      BY DEF IInv, RunnerLayout
    <2> QED
      BY <1>2, <2>1, <2>2, <2>3
  <1>5. o.kind = kind
    BY DEF Object
  <1>6. /\ IsFiniteSet(S) /\ Cardinality(S) \in Nat
        /\ IsFiniteSet(A) /\ Cardinality(A) \in Nat
        /\ S \subseteq objects[Runner] /\ A \subseteq objects[Runner]
    BY CountType DEF AccountInv
  <1>7. IsFiniteSet(objects'[Runner])
    BY <1>3, FS_AddElement DEF AccountInv
  <1>8. SHMEMALIGN(SemSize) \in Nat /\ SHMEMALIGN(8) \in Nat /\ leaks \in Nat
    <2>1. SemSize \in Nat
      BY SharedMemoryAssumption
    <2>2. leaks \in Nat
      BY DEF IInv, TypeOK
    <2> QED
      BY <2>1, <2>2, AlignLemma
  <1>9. Account
    BY <1>2 DEF AccountInv
  <1> HIDE DEF o
  <1>10. CASE kind = "semaphore"
    <2>1. S' = S \cup {o} /\ A' = A /\ o \notin S
      BY <1>3, <1>4, <1>5, <1>6, <1>10 DEF Of
    <2>2. Cardinality(S') = Cardinality(S) + 1 /\ Cardinality(A') = Cardinality(A)
      BY <1>6, <2>1, FS_AddElement
    <2> HIDE DEF S, A
    <2>3. Cardinality(S) + leaks \in Nat
      BY <1>6, <1>8
    <2>4. SHMEMALIGN(SemSize) * ((Cardinality(S) + leaks) + 1)
            = SHMEMALIGN(SemSize) * (Cardinality(S) + leaks) + SHMEMALIGN(SemSize)
          /\ SHMEMALIGN(SemSize) * (Cardinality(S) + leaks) \in Nat
      BY <1>8, <2>3, OneMore
    <2>5. (Cardinality(S) + leaks) + 1 = Cardinality(S') + leaks'
      BY <1>1, <1>6, <1>8, <2>2
    <2>6. SHMEMALIGN(8) * Cardinality(A) \in Nat
      BY <1>6, <1>8, OneMore
    <2>7. next_user_available_offset[Runner] = SHMEM_FIRST_USER_AVAILABLE_OFFSET
            + SHMEMALIGN(SemSize) * (Cardinality(S) + leaks) + SHMEMALIGN(8) * Cardinality(A)
      BY <1>9 DEF Account, S, A
    <2>8. next_user_available_offset'[Runner] = SHMEM_FIRST_USER_AVAILABLE_OFFSET
            + SHMEMALIGN(SemSize) * (Cardinality(S') + leaks') + SHMEMALIGN(8) * Cardinality(A')
      BY <1>2, <1>8, <1>10, <2>2, <2>4, <2>5, <2>6, <2>7, FirstOffsetLemma
    <2> QED
      BY <1>7, <2>8 DEF AccountInv, Account, S, A
  <1>11. CASE kind = "atomic"
    <2>1. A' = A \cup {o} /\ S' = S /\ o \notin A
      BY <1>3, <1>4, <1>5, <1>6, <1>11 DEF Of
    <2>2. Cardinality(A') = Cardinality(A) + 1 /\ Cardinality(S') = Cardinality(S)
      BY <1>6, <2>1, FS_AddElement
    <2> HIDE DEF S, A
    <2>3. Cardinality(S) + leaks \in Nat
      BY <1>6, <1>8
    <2>4. SHMEMALIGN(8) * (Cardinality(A) + 1) = SHMEMALIGN(8) * Cardinality(A) + SHMEMALIGN(8)
          /\ SHMEMALIGN(8) * Cardinality(A) \in Nat
      BY <1>6, <1>8, OneMore
    <2>5. SHMEMALIGN(SemSize) * (Cardinality(S) + leaks) \in Nat
      BY <1>8, <2>3, OneMore
    <2>6. next_user_available_offset[Runner] = SHMEM_FIRST_USER_AVAILABLE_OFFSET
            + SHMEMALIGN(SemSize) * (Cardinality(S) + leaks) + SHMEMALIGN(8) * Cardinality(A)
      BY <1>9 DEF Account, S, A
    <2>7. size = 8
      BY <1>11
    <2>8. next_user_available_offset'[Runner] = SHMEM_FIRST_USER_AVAILABLE_OFFSET
            + SHMEMALIGN(SemSize) * (Cardinality(S') + leaks') + SHMEMALIGN(8) * Cardinality(A')
      BY <1>1, <1>2, <1>8, <2>2, <2>4, <2>5, <2>6, <2>7, FirstOffsetLemma
    <2> QED
      BY <1>7, <2>8 DEF AccountInv, Account, S, A
  <1> QED
    BY <1>10, <1>11 DEF UserKinds

\* A semaphore that cannot be initialised is counted by leaks; only semaphores leak.
LEMMA LeakAccount ==
    ASSUME IInv, AccountInv, NEW p \in forked, Leaks(p, SemSize)
    PROVE  AccountInv'
  <1> DEFINE S == Of(Runner, "semaphore")
             A == Of(Runner, "atomic")
  <1>1. /\ AllocateUserShmem(p, SemSize) /\ ~OutOfMemory(p)
        /\ leaks' = leaks + 1 /\ objects' = objects /\ SemSize \in Nat \ {0}
    BY SharedMemoryAssumption DEF Leaks
  <1>2. /\ next_user_available_offset[Runner] < StatusArrayOff
        /\ next_user_available_offset'[Runner]
               = next_user_available_offset[Runner] + SHMEMALIGN(SemSize)
    BY <1>1, TakesMemory
  <1>3. Cardinality(S) \in Nat /\ Cardinality(A) \in Nat
    BY CountType DEF AccountInv
  <1>4. /\ SHMEMALIGN(SemSize) \in Nat /\ SHMEMALIGN(8) \in Nat /\ leaks \in Nat
    BY <1>1, AlignLemma DEF IInv, TypeOK
  <1>5. S' = S /\ A' = A /\ IsFiniteSet(objects'[Runner])
    BY <1>1 DEF Of, AccountInv
  <1>6. next_user_available_offset[Runner] = SHMEM_FIRST_USER_AVAILABLE_OFFSET
          + SHMEMALIGN(SemSize) * (Cardinality(S) + leaks) + SHMEMALIGN(8) * Cardinality(A)
    BY <1>2 DEF AccountInv, Account
  <1> HIDE DEF S, A
  <1>7. SHMEMALIGN(SemSize) * ((Cardinality(S) + leaks) + 1)
          = SHMEMALIGN(SemSize) * (Cardinality(S) + leaks) + SHMEMALIGN(SemSize)
        /\ SHMEMALIGN(SemSize) * (Cardinality(S) + leaks) \in Nat
        /\ SHMEMALIGN(8) * Cardinality(A) \in Nat
    <2>1. Cardinality(S) + leaks \in Nat
      BY <1>3, <1>4
    <2> QED
      BY <1>3, <1>4, <2>1, OneMore
  <1>8. (Cardinality(S) + leaks) + 1 = Cardinality(S') + leaks'
    BY <1>1, <1>3, <1>4, <1>5
  <1>9. next_user_available_offset'[Runner] = SHMEM_FIRST_USER_AVAILABLE_OFFSET
          + SHMEMALIGN(SemSize) * (Cardinality(S') + leaks') + SHMEMALIGN(8) * Cardinality(A')
    BY <1>2, <1>4, <1>5, <1>6, <1>7, <1>8, FirstOffsetLemma
  <1> QED
    BY <1>5, <1>9 DEF AccountInv, Account, S, A

\* A call that runs out of memory leaves the offset at or above the limit.
LEMMA RunsOutAccount ==
    ASSUME IInv, AccountInv, NEW p \in forked, NEW size \in Nat \ {0}, RunsOut(p, size)
    PROVE  AccountInv'
  <1>1. AllocateUserShmem(p, size) /\ OutOfMemory(p) /\ objects' = objects
    BY DEF RunsOut
  <1>2. p = Runner /\ next_user_available_offset' \in [Procs -> Nat]
    BY <1>1, AllocateLemma
  <1>3. ~(next_user_available_offset'[Runner] < StatusArrayOff)
    <2>1. Runner \in Procs
      BY DEF Procs
    <2>2. next_user_available_offset'[Runner] \in Nat
      BY <1>2, <2>1
    <2>3. StatusArrayOff \in Nat
      BY SharedMemoryAssumption
    <2> QED
      BY <1>1, <1>2, <2>2, <2>3 DEF OutOfMemory
  <1> QED
    BY <1>1, <1>3 DEF AccountInv

\* What the runner's account is about stays as it is.
LEMMA SameAccount ==
    ASSUME AccountInv, leaks' = leaks, objects'[Runner] = objects[Runner],
           next_user_available_offset'[Runner] = next_user_available_offset[Runner]
    PROVE  AccountInv'
  BY DEF AccountInv, Account, Of

LEMMA StepAccount == IInv /\ AccountInv /\ [MemoryNext]_memoryVars => AccountInv'
  <1> SUFFICES ASSUME IInv, AccountInv, [MemoryNext]_memoryVars PROVE AccountInv'
    OBVIOUS
  <1>1. ASSUME NEW p \in Procs, NEW n \in Names, NEW v \in InitValues, NewSemaphore(p, n, v)
        PROVE  AccountInv'
    <2>1. p \in forked /\ SemSize \in Nat \ {0}
      BY <1>1, SharedMemoryAssumption DEF NewSemaphore, Calls
    <2>2. CASE \E why \in Results : Refused(why)
      BY <2>2, SameAccount DEF Refused
    <2>3. CASE RunsOut(p, SemSize)
      BY <2>1, <2>3, RunsOutAccount
    <2>4. CASE Leaks(p, SemSize)
      BY <2>1, <2>4, LeakAccount
    <2>5. CASE Appends(p, "semaphore", n, SemSize)
      <3>1. "semaphore" \in UserKinds
        BY DEF UserKinds
      <3> QED
        BY <2>1, <2>5, <3>1, AppendAccount
    <2> QED
      BY <1>1, <2>2, <2>3, <2>4, <2>5 DEF NewSemaphore, Results
  <1>2. ASSUME NEW p \in Procs, NEW n \in Names, NewAtomicInt64(p, n)
        PROVE  AccountInv'
    <2>1. p \in forked /\ 8 \in Nat \ {0}
      BY <1>2 DEF NewAtomicInt64, Calls
    <2>2. CASE \E why \in Results : Refused(why)
      BY <2>2, SameAccount DEF Refused
    <2>3. CASE RunsOut(p, 8)
      BY <2>1, <2>3, RunsOutAccount
    <2>4. CASE Appends(p, "atomic", n, 8)
      <3>1. "atomic" \in UserKinds /\ "atomic" # "semaphore"
        BY DEF UserKinds
      <3> QED
        BY <2>1, <2>4, <3>1, AppendAccount
    <2> QED
      BY <1>2, <2>2, <2>3, <2>4 DEF NewAtomicInt64, Results
  <1>3. CASE LockAllocations
    BY <1>3, SameAccount DEF LockAllocations
  <1>4. ASSUME NEW p \in WorkerNos \cup Others, Fork(p)
        PROVE  AccountInv'
    <2>1. p # Runner
      BY SharedMemoryAssumption
    <2>2. objects'[Runner] = objects[Runner]
          /\ next_user_available_offset'[Runner] = next_user_available_offset[Runner]
      BY <1>4, <2>1 DEF Fork, IInv, TypeOK
    <2> QED
      BY <1>4, <2>2, SameAccount DEF Fork
  <1>5. CASE UNCHANGED memoryVars
    BY <1>5, SameAccount DEF memoryVars
  <1> QED
    BY <1>1, <1>2, <1>3, <1>4, <1>5 DEF MemoryNext

\* A call that NewSemaphore or NewAtomicInt64 refuses for its name, its value or the lock
\* takes no memory: until the segment is full, the offset of every process is what the
\* objects and the semaphores lost to sem_init() take, for every size of a semaphore and
\* every number of calls.
THEOREM NothingLost == MemorySpec => []NothingLostToRefusals
  <1>1. MemoryInit => AccountInv
    <2> SUFFICES ASSUME MemoryInit PROVE AccountInv
      OBVIOUS
    <2>1. objects[Runner] = {} /\ leaks = 0
          /\ next_user_available_offset[Runner] = SHMEM_FIRST_USER_AVAILABLE_OFFSET
      BY DEF MemoryInit, Procs
    <2>2. Of(Runner, "semaphore") = {} /\ Of(Runner, "atomic") = {}
      BY <2>1 DEF Of
    <2>3. IsFiniteSet({}) /\ Cardinality({}) = 0
      BY FS_EmptySet
    <2>4. SHMEMALIGN(SemSize) \in Nat /\ SHMEMALIGN(8) \in Nat
      BY AlignLemma, SharedMemoryAssumption
    <2> QED
      BY <2>1, <2>2, <2>3, <2>4, FirstOffsetLemma DEF AccountInv, Account
  <1>2. IInv /\ AccountInv => NothingLostToRefusals
    <2> SUFFICES ASSUME IInv, AccountInv, NEW p \in forked,
                        next_user_available_offset[p] < StatusArrayOff
                 PROVE  next_user_available_offset[p] = SHMEM_FIRST_USER_AVAILABLE_OFFSET
                          + SHMEMALIGN(SemSize) * (Cardinality(Of(p, "semaphore")) + leaks)
                          + SHMEMALIGN(8) * Cardinality(Of(p, "atomic"))
      BY DEF NothingLostToRefusals
    <2>1. objects[p] = objects[Runner]
          /\ next_user_available_offset[p] = next_user_available_offset[Runner]
      BY DEF IInv, CopiesAgree
    <2>2. Of(p, "semaphore") = Of(Runner, "semaphore") /\ Of(p, "atomic") = Of(Runner, "atomic")
      BY <2>1 DEF Of
    <2> QED
      BY <2>1, <2>2 DEF AccountInv, Account
  <1> QED
    BY Invariance, StepAccount, <1>1, <1>2, PTL DEF MemorySpec
===========================================================================
