---------------------------- MODULE SharedMemory ----------------------------
(*************************************************************************)
(* The layout of the shared memory segment (src/src/shmem.cpp): the      *)
(* fixed fields, the objects the loader allocates before the fork, and   *)
(* the worker status array.                                              *)
(*                                                                       *)
(* The segment is shared, the allocator is not: every process inherits   *)
(* its own copy of next_user_available_offset_, locked_, semaphores_ and *)
(* atomics_.  An allocation is one step; it happens in one process.      *)
(*************************************************************************)
EXTENDS Integers, FiniteSets

CONSTANTS
    ShmemSize,        \* shmem_size: the size of the segment in bytes
    StatusArrayOff,   \* SHMEM_WORKER_STATUS_ARRAY_OFF
    SemSize,          \* sizeof(sem_t)
    NWorkers,         \* NUM_WORKERS
    WorkerNos,        \* the workers that are looked at, by number
    Runner,           \* the overseer, in which the loader runs
    Others,           \* auxiliary processes and the monitoring process
    Names,            \* the names the loader and the application use
    InitValues,       \* the initial values they pass
    MaxOffset,        \* bound on the allocator's offset
    MaxLeaks          \* bound on failures of sem_init()

\* main() refuses a worker count outside 1..65536.
ASSUME SharedMemoryAssumption ==
    /\ StatusArrayOff \in Nat /\ StatusArrayOff >= 16
    /\ ShmemSize \in Nat /\ ShmemSize > StatusArrayOff
    /\ SemSize \in Nat \ {0}
    /\ NWorkers \in Nat \ {0} /\ NWorkers <= 65536
    /\ WorkerNos \subseteq 0..(NWorkers - 1)
    /\ Runner \notin WorkerNos \cup Others
    /\ WorkerNos \cap Others = {}
    /\ InitValues \subseteq Int
    /\ MaxOffset \in Nat /\ MaxLeaks \in Nat

SHMEM_ALIGNOF == 16

SHMEMALIGN(off) == IF off % SHMEM_ALIGNOF = 0 THEN off
                   ELSE off + (SHMEM_ALIGNOF - (off % SHMEM_ALIGNOF))

SHMEM_FIRST_USER_AVAILABLE_OFFSET == SHMEMALIGN(8 + 8)

\* The range NewSemaphore accepts.
SemaphoreValue(v) == 0 < v /\ v <= 2147483647

Procs == {Runner} \cup WorkerNos \cup Others

Object(kind, name, off, size) == [kind |-> kind, name |-> name, off |-> off, size |-> size]
UserKinds == {"semaphore", "atomic"}
UserObjects == [kind : UserKinds, name : Names, off : Nat, size : Nat \ {0}]

VARIABLES
    forked,                       \* the processes that exist
    next_user_available_offset,   \* process -> next_user_available_offset_
    locked,                       \* the processes whose locked_ is true
    objects,                      \* process -> what its semaphores_ and atomics_ point to
    leaks,                        \* semaphores that could not be initialised
    result                        \* how the last call ended

memoryVars == <<forked, next_user_available_offset, locked, objects, leaks, result>>

Results == {"ok", "exists", "range", "locked", "nomem", "sem_init"}

MemoryInit ==
    /\ forked = {Runner}
    /\ next_user_available_offset = [p \in Procs |-> SHMEM_FIRST_USER_AVAILABLE_OFFSET]
    /\ locked = {}
    /\ objects = [p \in Procs |-> {}]
    /\ leaks = 0
    /\ result = "ok"

Refused(why) ==
    /\ result' = why
    /\ UNCHANGED <<forked, next_user_available_offset, locked, objects, leaks>>

Named(p, kind, name) == \E o \in objects[p] : o.kind = kind /\ o.name = name

\* Mutant: the copies that were forked are not locked.
AllocateInRunnerOrCopy(p, size) ==
    next_user_available_offset' =
        [next_user_available_offset EXCEPT ![p] = SHMEMALIGN(@ + size)]

\* Mutant: the next offset is not rounded up.
AllocateUnaligned(p, size) ==
    /\ p \notin locked
    /\ next_user_available_offset' = [next_user_available_offset EXCEPT ![p] = @ + size]

\* The part of AllocateUserShmem that changes state; mem is the old offset.
AllocateUserShmem(p, size) ==
    /\ p \notin locked
    /\ next_user_available_offset' =
           [next_user_available_offset EXCEPT ![p] = SHMEMALIGN(@ + size)]

\* Mutant: the limit is not looked at.
NeverOutOfMemory(p) == FALSE

OutOfMemory(p) == next_user_available_offset'[p] >= StatusArrayOff

\* AllocateUserShmem succeeds, and the object is appended to the process's list.
Appends(p, kind, name, size) ==
    /\ AllocateUserShmem(p, size) /\ ~OutOfMemory(p)
    /\ objects' = [objects EXCEPT ![p] =
           @ \cup {Object(kind, name, next_user_available_offset[p], size)}]
    /\ result' = "ok"
    /\ UNCHANGED <<forked, locked, leaks>>

\* It fails: the offset has moved all the same, and never moves back.
RunsOut(p, size) ==
    /\ AllocateUserShmem(p, size) /\ OutOfMemory(p)
    /\ result' = "nomem"
    /\ UNCHANGED <<forked, locked, objects, leaks>>

\* sem_init() fails: the memory is lost.
Leaks(p, size) ==
    /\ leaks < MaxLeaks
    /\ AllocateUserShmem(p, size) /\ ~OutOfMemory(p)
    /\ leaks' = leaks + 1
    /\ result' = "sem_init"
    /\ UNCHANGED <<forked, locked, objects>>

\* Process p may call the allocator (the bound keeps the offset finite).
Calls(p) == p \in forked /\ next_user_available_offset[p] <= MaxOffset

\* Mutant: the memory is taken before the value is looked at.
NewSemaphoreValueLast(p, name, value) ==
    /\ Calls(p)
    /\ \/ Named(p, "semaphore", name) /\ Refused("exists")
       \/ /\ ~Named(p, "semaphore", name)
          /\ \/ p \in locked /\ Refused("locked")
             \/ /\ ~SemaphoreValue(value)
                /\ AllocateUserShmem(p, SemSize)
                /\ result' = "range"
                /\ UNCHANGED <<forked, locked, objects, leaks>>
             \/ /\ SemaphoreValue(value)
                /\ \/ RunsOut(p, SemSize)
                   \/ Leaks(p, SemSize)
                   \/ Appends(p, "semaphore", name, SemSize)

NewSemaphore(p, name, value) ==
    /\ Calls(p)
    /\ \/ Named(p, "semaphore", name) /\ Refused("exists")
       \/ /\ ~Named(p, "semaphore", name)
          /\ \/ ~SemaphoreValue(value) /\ Refused("range")
             \/ /\ SemaphoreValue(value)
                /\ \/ p \in locked /\ Refused("locked")
                   \/ RunsOut(p, SemSize)
                   \/ Leaks(p, SemSize)
                   \/ Appends(p, "semaphore", name, SemSize)

NewAtomicInt64(p, name) ==
    /\ Calls(p)
    /\ \/ Named(p, "atomic", name) /\ Refused("exists")
       \/ /\ ~Named(p, "atomic", name)
          /\ \/ p \in locked /\ Refused("locked")
             \/ RunsOut(p, 8)
             \/ Appends(p, "atomic", name, 8)

\* Called once, when the loader has returned and before the first fork.
LockAllocations ==
    /\ Runner \notin locked
    /\ locked' = locked \cup {Runner}
    /\ UNCHANGED <<forked, next_user_available_offset, objects, leaks, result>>

\* The runner forks p, which starts with a copy of the runner's allocator.
Fork(p) ==
    /\ Runner \in locked /\ p \notin forked
    /\ forked' = forked \cup {p}
    /\ next_user_available_offset' =
           [next_user_available_offset EXCEPT ![p] = next_user_available_offset[Runner]]
    /\ locked' = locked \cup {p}
    /\ objects' = [objects EXCEPT ![p] = objects[Runner]]
    /\ UNCHANGED <<leaks, result>>

MemoryNext ==
    \/ \E p \in Procs, n \in Names, v \in InitValues : NewSemaphore(p, n, v)
    \/ \E p \in Procs, n \in Names : NewAtomicInt64(p, n)
    \/ LockAllocations
    \/ \E p \in WorkerNos \cup Others : Fork(p)

MemorySpec == MemoryInit /\ [][MemoryNext]_memoryVars

---------------------------------------------------------------------------
\* The fields every process uses: the flag, the request counter and, for a worker,
\* the status octet at WorkerArraySegment() + workerno.
FixedFields(p) ==
    {Object("field", "should_exit", 0, 1), Object("field", "request_counter", 8, 8)}
    \cup (IF p \in WorkerNos THEN {Object("status", p, StatusArrayOff + p, 1)} ELSE {})

\* All that process p reads and writes in the segment.
Fields(p) == FixedFields(p) \cup objects[p]

Disjoint(a, b) == a.off + a.size <= b.off \/ b.off + b.size <= a.off

\* Every variable has its type; the offset is aligned as static_assert demands of the
\* first one.
TypeOK ==
    /\ forked \in SUBSET Procs
    /\ next_user_available_offset \in [Procs -> Nat]
    /\ \A p \in Procs : next_user_available_offset[p] % SHMEM_ALIGNOF = 0
    /\ locked \in SUBSET Procs
    /\ objects \in [Procs -> SUBSET UserObjects]
    /\ leaks \in Nat
    /\ result \in Results

\* No two processes ever use the same bytes as two different things: neither two
\* objects of the loader, nor an object and a fixed field, nor the same memory that
\* two processes allocated each for itself after the fork.
NoAliasing ==
    \A p, q \in forked : \A a \in Fields(p), b \in Fields(q) : a = b \/ Disjoint(a, b)

\* Every object that some process uses lies in the area between the fixed fields and the
\* worker status array: the limit is looked at after the offset was rounded up, so what
\* is handed out last still ends below the array.
ObjectsInTheirArea ==
    \A p \in forked : \A o \in objects[p] :
        /\ SHMEM_FIRST_USER_AVAILABLE_OFFSET <= o.off
        /\ o.off + o.size <= StatusArrayOff

\* "the number of workers must be between 1 and 65536": for each worker that main()
\* accepts, every byte that a process uses lies inside the segment.
InSegment ==
    \A p \in forked : \A a \in Fields(p) : a.off + a.size <= ShmemSize

Of(p, kind) == {o \in objects[p] : o.kind = kind}

\* A call that is refused for its name, its value or the lock takes no memory: until
\* the segment is full, the offset is what the objects and the lost semaphores take.
NothingLostToRefusals ==
    \A p \in forked :
        next_user_available_offset[p] < StatusArrayOff =>
            next_user_available_offset[p] = SHMEM_FIRST_USER_AVAILABLE_OFFSET
                + SHMEMALIGN(SemSize) * (Cardinality(Of(p, "semaphore")) + leaks)
                + SHMEMALIGN(8) * Cardinality(Of(p, "atomic"))
===========================================================================
