---------------------------- MODULE LoaderProofs ----------------------------
(*************************************************************************)
(* What BladePSGI calls exists, and it is called at the bottom of Perl's *)
(* scope stack, whatever the application does; and the loader keeps what *)
(* the allocator and the interpreter promise each by itself.             *)
(*************************************************************************)
EXTENDS Loader, SharedMemoryProofs

PerlTypeOK ==
    /\ pc \in {"init", "load", "loader", "fork", "aux", "worker", "overseer", "exited"}
    /\ content \in [Scalars -> Codes \cup {Free}]
    /\ perlrefs \in SUBSET Variables
    /\ refs \in [Scalars -> Nat]
    /\ requests \in Seq(Variables)
    /\ depth \in Int
    /\ called \in Scalars \cup {"none"}
    /\ child \in Nat

\* A scalar that somebody refers to has not been freed.
Kept == \A s \in Scalars : s \in perlrefs \/ refs[s] > 0 => content[s] # Free

\* BladePSGI has counted a reference to everything that it may still call.
Counts ==
    /\ pc # "overseer" => \A k \in DOMAIN requests : refs[requests[k]] > 0
    /\ pc \in {"fork", "aux", "worker"} => refs["received"] > 0
    /\ pc = "aux" => child \in DOMAIN requests

\* Callbacks run in the loader, in an auxiliary process and in a worker.
CallsInPlace ==
    /\ called # "none" => pc \in {"loader", "aux", "worker"}
    /\ pc = "loader" => called # "none"

PerlInv == PerlTypeOK /\ Kept /\ Counts /\ CallsInPlace /\ CalledIsAlive /\ ScopesBalanced

LEMMA ScalarNames ==
    /\ "wrapper" \in Scalars /\ "received" \in Scalars
    /\ "none" \notin Scalars /\ Free \notin Codes
    /\ Variables \subseteq Scalars
  BY PerlAssumption DEF Scalars, Free

LEMMA CountedType ==
    ASSUME PerlTypeOK, NEW s \in Scalars
    PROVE  /\ Counted(s) \in [Scalars -> Nat]
           /\ Counted(s)[s] > 0
           /\ \A t \in Scalars : Counted(s)[t] >= refs[t] /\ (t # s => Counted(s)[t] = refs[t])
  BY DEF Counted, PerlTypeOK

LEMMA CollectedType ==
    ASSUME PerlTypeOK, NEW P
    PROVE  /\ Collected(content, P, refs) \in [Scalars -> Codes \cup {Free}]
           /\ \A t \in Scalars : t \in P \/ refs[t] > 0 => Collected(content, P, refs)[t] = content[t]
  BY DEF Collected, PerlTypeOK

LEMMA RequestAppended ==
    ASSUME PerlTypeOK, NEW s \in Variables, requests' = Append(requests, s)
    PROVE  /\ requests' \in Seq(Variables)
           /\ DOMAIN requests \subseteq DOMAIN requests'
           /\ \A k \in DOMAIN requests' :
                 requests'[k] = s \/ (k \in DOMAIN requests /\ requests'[k] = requests[k])
  BY DEF PerlTypeOK

LEMMA PerlInitInv == PerlInit => PerlInv
  BY ScalarNames, PerlAssumption DEF PerlInit, PerlInv, PerlTypeOK, Kept, Counts, CallsInPlace, CalledIsAlive, ScopesBalanced

LEMMA PerlNextInv == PerlInv /\ [PerlNext]_perlVars => PerlInv'
<1> SUFFICES ASSUME PerlInv, [PerlNext]_perlVars PROVE PerlInv'
  OBVIOUS
<1>t. PerlTypeOK /\ Kept /\ Counts /\ CallsInPlace /\ CalledIsAlive /\ ScopesBalanced
  BY DEF PerlInv
<1>1. CASE InterpreterInit
  BY <1>1, <1>t DEF InterpreterInit, heap, Exits, PerlInv, PerlTypeOK, Kept, Counts, CallsInPlace,
     CalledIsAlive, ScopesBalanced
<1>2. CASE CallbackInit
  <2>1. CASE Exits /\ UNCHANGED <<content, refs>>
    BY <1>2, <2>1, <1>t DEF CallbackInit, Exits, PerlInv, PerlTypeOK, Kept, Counts, CallsInPlace,
       CalledIsAlive, ScopesBalanced
  <2>2. ASSUME NEW c \in Codes, content' = [content EXCEPT !["wrapper"] = c],
               refs' = Counted("wrapper"), UNCHANGED pc
        PROVE  PerlInv'
    <3>1. /\ refs' \in [Scalars -> Nat]
          /\ \A t \in Scalars : refs'[t] >= refs[t] /\ (t # "wrapper" => refs'[t] = refs[t])
      BY <2>2, <1>t, CountedType, ScalarNames
    <3>2. /\ content' \in [Scalars -> Codes \cup {Free}]
          /\ content'["wrapper"] = c /\ \A t \in Scalars : t # "wrapper" => content'[t] = content[t]
      BY <2>2, <1>t, ScalarNames DEF PerlTypeOK
    <3>3. UNCHANGED <<pc, perlrefs, requests, depth, called, ran, child>> /\ pc = "load"
      BY <1>2, <2>2 DEF CallbackInit
    <3>4. PerlTypeOK'
      BY <3>1, <3>2, <3>3, <1>t DEF PerlTypeOK
    <3>5. Kept'
      BY <3>1, <3>2, <3>3, <1>t, ScalarNames DEF Kept
    <3>6. Counts'
      <4>1. \A k \in DOMAIN requests : requests[k] \in Scalars
        BY <1>t, ScalarNames DEF PerlTypeOK
      <4> QED
        BY <3>1, <3>3, <4>1, <1>t DEF Counts, PerlTypeOK
    <3> QED
      BY <3>3, <3>4, <3>5, <3>6, <1>t DEF PerlInv, CallsInPlace, CalledIsAlive, ScopesBalanced
  <2> QED
    BY <1>2, <2>1, <2>2 DEF CallbackInit
<1>3. CASE CallWrapper
  BY <1>3, <1>t, ScalarNames DEF CallWrapper, Call, heap, PerlInv, PerlTypeOK, Kept, Counts, CallsInPlace,
     CalledIsAlive, ScopesBalanced
<1>4. CASE LoaderReturns
  <2> PICK c \in Codes : content' = [content EXCEPT !["received"] = c]
    BY <1>4 DEF LoaderReturns
  <2>1. /\ refs' \in [Scalars -> Nat] /\ refs'["received"] > 0
        /\ \A t \in Scalars : refs'[t] >= refs[t] /\ (t # "received" => refs'[t] = refs[t])
    BY <1>4, <1>t, CountedType, ScalarNames DEF LoaderReturns
  <2>2. /\ content' \in [Scalars -> Codes \cup {Free}]
        /\ content'["received"] = c /\ \A t \in Scalars : t # "received" => content'[t] = content[t]
    BY <1>t, ScalarNames DEF PerlTypeOK
  <2>3. /\ UNCHANGED <<perlrefs, requests, ran, child>>
        /\ pc = "loader" /\ pc' = "fork" /\ depth' = depth - 1 /\ called' = "none"
    BY <1>4 DEF LoaderReturns
  <2>4. PerlTypeOK'
    BY <2>1, <2>2, <2>3, <1>t DEF PerlTypeOK
  <2>5. Kept'
    BY <2>1, <2>2, <2>3, <1>t, ScalarNames DEF Kept
  <2>6. Counts'
    <3>1. \A k \in DOMAIN requests : requests[k] \in Scalars
      BY <1>t, ScalarNames DEF PerlTypeOK
    <3> QED
      BY <2>1, <2>3, <3>1, <1>t DEF Counts, PerlTypeOK
  <2> QED
    BY <2>3, <2>4, <2>5, <2>6, <1>t, ScalarNames DEF PerlInv, CallsInPlace, CalledIsAlive, ScopesBalanced, PerlTypeOK
<1>5. CASE Forks
  <2>1. CASE pc' = "aux" /\ child' \in DOMAIN requests /\ UNCHANGED heap
    BY <1>5, <2>1, <1>t DEF Forks, heap, PerlInv, PerlTypeOK, Kept, Counts, CallsInPlace, CalledIsAlive, ScopesBalanced
  <2>2. CASE pc' = "worker" /\ UNCHANGED <<child, heap>>
    BY <1>5, <2>2, <1>t DEF Forks, heap, PerlInv, PerlTypeOK, Kept, Counts, CallsInPlace, CalledIsAlive, ScopesBalanced
  <2>3. CASE pc' = "overseer" /\ UNCHANGED child
             /\ content' = [s \in Scalars |-> Free] /\ perlrefs' = {} /\ refs' = [s \in Scalars |-> 0]
    BY <1>5, <2>3, <1>t DEF Forks, PerlInv, PerlTypeOK, Kept, Counts, CallsInPlace, CalledIsAlive, ScopesBalanced
  <2> QED
    BY <1>5, <2>1, <2>2, <2>3 DEF Forks
<1>6. CASE AuxCalls
  <2>1. requests[child] \in Scalars /\ content[requests[child]] # Free
    BY <1>6, <1>t, ScalarNames DEF AuxCalls, Counts, Kept, PerlTypeOK
  <2> QED
    BY <1>6, <2>1, <1>t, ScalarNames DEF AuxCalls, Call, heap, PerlInv, PerlTypeOK, Kept, Counts, CallsInPlace,
       CalledIsAlive, ScopesBalanced
<1>7. CASE WorkerCalls
  BY <1>7, <1>t, ScalarNames DEF WorkerCalls, Call, heap, PerlInv, PerlTypeOK, Kept, Counts, CallsInPlace,
     CalledIsAlive, ScopesBalanced
<1>8. CASE CallReturns
  BY <1>8, <1>t DEF CallReturns, heap, PerlInv, PerlTypeOK, Kept, Counts, CallsInPlace, CalledIsAlive, ScopesBalanced
<1>9. CASE CallDies
  BY <1>9, <1>t DEF CallDies, Exits, heap, PerlInv, PerlTypeOK, Kept, Counts, CallsInPlace, CalledIsAlive, ScopesBalanced
<1>10. ASSUME NEW s \in Variables, LeavesScope(s) PROVE PerlInv'
  <2>1. UNCHANGED <<pc, refs, requests, depth, called, ran, child>> /\ perlrefs' = perlrefs \ {s}
    BY <1>10 DEF LeavesScope
  <2>2. content' = Collected(content, perlrefs', refs)
    BY <1>10 DEF LeavesScope
  <2>3. /\ content' \in [Scalars -> Codes \cup {Free}]
        /\ \A t \in Scalars : t \in perlrefs' \/ refs[t] > 0 => content'[t] = content[t]
    BY <2>2, <1>t, CollectedType
  <2>4. PerlTypeOK' /\ Kept'
    BY <2>1, <2>3, <1>t DEF PerlTypeOK, Kept
  <2> QED
    BY <2>1, <2>4, <1>t DEF PerlInv, Counts, CallsInPlace, CalledIsAlive, ScopesBalanced
<1>11. ASSUME NEW s \in Variables, RequestAuxiliaryProcess(s) PROVE PerlInv'
  <2>1. /\ UNCHANGED <<pc, content, perlrefs, depth, called, ran, child>>
        /\ s \in perlrefs /\ requests' = Append(requests, s) /\ refs' = Counted(s)
    BY <1>11 DEF RequestAuxiliaryProcess
  <2>2. /\ refs' \in [Scalars -> Nat] /\ refs'[s] > 0
        /\ \A t \in Scalars : refs'[t] >= refs[t] /\ (t # s => refs'[t] = refs[t])
    BY <2>1, <1>t, CountedType, ScalarNames
  <2>3. /\ requests' \in Seq(Variables) /\ DOMAIN requests \subseteq DOMAIN requests'
        /\ \A k \in DOMAIN requests' :
              requests'[k] = s \/ (k \in DOMAIN requests /\ requests'[k] = requests[k])
    BY <2>1, <1>t, RequestAppended
  <2>4. PerlTypeOK'
    BY <2>1, <2>2, <2>3, <1>t DEF PerlTypeOK
  <2>5. Kept'
    BY <2>1, <2>2, <1>t, ScalarNames DEF Kept
  <2>6. Counts'
    <3>1. \A k \in DOMAIN requests : requests[k] \in Scalars
      BY <1>t, ScalarNames DEF PerlTypeOK
    <3>2. refs \in [Scalars -> Nat] /\ "received" \in Scalars
      BY <1>t, ScalarNames DEF PerlTypeOK
    <3> QED
      BY <2>1, <2>2, <2>3, <3>1, <3>2, <1>t DEF Counts
  <2> QED
    BY <2>1, <2>4, <2>5, <2>6, <1>t DEF PerlInv, CallsInPlace, CalledIsAlive, ScopesBalanced
<1>12. ASSUME NEW s \in Variables, NEW c \in Codes, Assigns(s, c) PROVE PerlInv'
  <2>1. /\ UNCHANGED <<pc, refs, requests, depth, called, ran, child>>
        /\ content' = [content EXCEPT ![s] = c]
        /\ perlrefs' = perlrefs \cup {s}
    BY <1>12 DEF Assigns
  <2>2. content' \in [Scalars -> Codes \cup {Free}] /\ content'[s] = c
        /\ \A t \in Scalars : t # s => content'[t] = content[t]
    BY <2>1, <1>t, ScalarNames DEF PerlTypeOK
  <2>3. PerlTypeOK' /\ Kept'
    BY <2>1, <2>2, <1>t, ScalarNames DEF PerlTypeOK, Kept
  <2> QED
    BY <2>1, <2>3, <1>t DEF PerlInv, Counts, CallsInPlace, CalledIsAlive, ScopesBalanced
<1>13. CASE UNCHANGED perlVars
  BY <1>13, <1>t DEF perlVars, PerlInv, PerlTypeOK, Kept, Counts, CallsInPlace, CalledIsAlive, ScopesBalanced
<1> QED
  BY <1>1, <1>2, <1>3, <1>4, <1>5, <1>6, <1>7, <1>8, <1>9, <1>10, <1>11, <1>12, <1>13 DEF PerlNext

\* A callback that BladePSGI calls has not been freed, for any number of variables,
\* subroutines, requests and calls: what request_auxiliary_process and the wrapper loader
\* keep is counted before Perl lets go of it.
THEOREM Alive == PerlSpec => []CalledIsAlive
<1>1. PerlInv => CalledIsAlive
  BY DEF PerlInv
<1> QED
  BY PerlInitInv, PerlNextInv, <1>1, PTL DEF PerlSpec

\* No scope is left open when a callback is called: who leaves one open exits.
THEOREM Balanced == PerlSpec => []ScopesBalanced
<1>1. PerlInv => ScopesBalanced
  BY DEF PerlInv
<1> QED
  BY PerlInitInv, PerlNextInv, <1>1, PTL DEF PerlSpec

---------------------------------------------------------------------------
(* Both together *)

LEMMA MemoryStep == [Next]_vars => [MemoryNext]_memoryVars
<1> SUFFICES ASSUME [Next]_vars PROVE [MemoryNext]_memoryVars
  OBVIOUS
<1>1. CASE ReturnsAndLocks
  BY <1>1 DEF ReturnsAndLocks, MemoryNext
<1>2. CASE ForksAndFollows
  <2>1. (\E p \in WorkerNos \cup Others : Fork(p)) \/ UNCHANGED memoryVars
    BY <1>2 DEF ForksAndFollows
  <2> QED
    BY <2>1 DEF MemoryNext
<1>3. ASSUME NEW p \in Procs, Allocates(p) PROVE MemoryNext
  BY <1>3 DEF Allocates, MemoryNext
<1>4. ASSUME NEW p \in WorkerNos \cup Others, ForksAnother(p) PROVE MemoryNext
  BY <1>4 DEF ForksAnother, MemoryNext
<1>5. CASE InterpreterRuns \/ UNCHANGED vars
  <2>1. UNCHANGED memoryVars
    BY <1>5 DEF InterpreterRuns, vars
  <2> QED
    BY <2>1
<1> QED
  BY <1>1, <1>2, <1>3, <1>4, <1>5 DEF Next

LEMMA PerlStep == [Next]_vars => [PerlNext]_perlVars
<1> SUFFICES ASSUME [Next]_vars PROVE [PerlNext]_perlVars
  OBVIOUS
<1>1. CASE ReturnsAndLocks \/ ForksAndFollows
  BY <1>1 DEF ReturnsAndLocks, ForksAndFollows, PerlNext
<1>2. CASE InterpreterRuns
  BY <1>2 DEF InterpreterRuns, PerlNext
<1>3. CASE (\E p \in Procs : Allocates(p)) \/ (\E p \in WorkerNos \cup Others : ForksAnother(p))
  BY <1>3 DEF Allocates, ForksAnother
<1>4. CASE UNCHANGED vars
  <2>1. UNCHANGED perlVars
    BY <1>4 DEF vars
  <2> QED
    BY <2>1
<1> QED
  BY <1>1, <1>2, <1>3, <1>4 DEF Next

\* SpawnWorkersAndAuxiliaryProcesses() uses the allocator and the interpreter as each of
\* them is used in its own module: whatever was shown of one of them holds here.
THEOREM LoaderImplements == Spec => MemorySpec /\ PerlSpec
<1>1. Init => MemoryInit /\ PerlInit
  BY DEF Init
<1> QED
  BY <1>1, MemoryStep, PerlStep, PTL DEF Spec, MemorySpec, PerlSpec

\* For every segment, every number of workers and every order of the loader's calls and
\* of the forks: no two processes use the same bytes as two things, what the loader gets
\* lies in its area, a refused call costs nothing, and a callback that is called exists
\* and starts at the bottom of the scope stack.
THEOREM LoaderSafe ==
    Spec => [](NoAliasing /\ ObjectsInTheirArea /\ NothingLostToRefusals
                  /\ CalledIsAlive /\ ScopesBalanced)
  BY LoaderImplements, NoAliasingTheorem, ObjectsInTheirAreaTheorem, NothingLost,
     Alive, Balanced, PTL
===========================================================================
