---------------------------- MODULE PerlCallbacks ----------------------------
(*************************************************************************)
(* The Perl callbacks that BladePSGI keeps and calls: the glue of        *)
(* src/src/perl/bladepsgi_perl.c and src/src/perl_interpreter.cpp from   *)
(* the start of the interpreter to the calls in the children, with the   *)
(* scalars (SV) that hold the callbacks, their references and the        *)
(* scopes of Perl's stack.                                               *)
(*                                                                       *)
(* A behaviour follows one process: at fork() it goes on as the overseer *)
(* or as one of the children, all of which start from the same memory.   *)
(*************************************************************************)
EXTENDS Naturals, Sequences

CONSTANTS
    Variables,      \* scalars that the application's loader uses
    Codes,          \* subroutines
    MaxRequests,    \* bound on request_auxiliary_process
    MaxCalls        \* bound on the calls of the main callback in a worker

ASSUME PerlAssumption ==
    /\ MaxRequests \in Nat /\ MaxCalls \in Nat
    /\ {"wrapper", "received", "none"} \cap Variables = {}
    /\ "free" \notin Codes

\* The scalar that eval returned, and the one that the wrapper loader returned.
Scalars == Variables \cup {"wrapper", "received"}
Free == "free"

VARIABLES
    pc,         \* "init", "load", "loader", "fork", "aux", "worker", "overseer", "exited"
    content,    \* scalar -> the subroutine it refers to, or Free
    perlrefs,   \* scalars that Perl itself refers to
    refs,       \* scalar -> references counted by SvREFCNT_inc
    requests,   \* auxiliary_processes_: the scalar of each callback_
    depth,      \* scopes entered and not left
    called,     \* the scalar that is being called, or "none"
    ran,        \* the subroutine that runs or ran last
    child,      \* in an auxiliary process, its place in auxiliary_processes_
    calls

perlVars == <<pc, content, perlrefs, refs, requests, depth, called, ran, child, calls>>
heap == <<content, perlrefs, refs>>

PerlInit ==
    /\ pc = "init"
    /\ content = [s \in Scalars |-> Free]
    /\ perlrefs = {} /\ refs = [s \in Scalars |-> 0]
    /\ requests = <<>>
    /\ depth = 0 /\ called = "none" /\ ran = Free
    /\ child = 0 /\ calls = 0

Exits == pc' = "exited"

\* What is left of the scalars when Perl refers to P and the counts are R.
Collected(C, P, R) == [s \in Scalars |-> IF s \in P \/ R[s] > 0 THEN C[s] ELSE Free]

\* SvREFCNT_inc, as request_auxiliary_process does it to what it was given.
Counted(s) == [refs EXCEPT ![s] = @ + 1]

\* bladepsgi_perl_interpreter_init: any of its steps may fail.
InterpreterInit ==
    /\ pc = "init" /\ (pc' = "load" \/ Exits)
    /\ UNCHANGED <<heap, requests, depth, called, ran, child, calls>>

\* bladepsgi_perl_callback_init on the wrapper: its result is counted, or was undefined
\* and the overseer exits.  ENTER and LEAVE are inside.
CallbackInit ==
    /\ pc = "load" /\ content["wrapper"] = Free
    /\ \/ /\ \E c \in Codes : content' = [content EXCEPT !["wrapper"] = c]
          /\ refs' = Counted("wrapper")
          /\ UNCHANGED pc
       \/ Exits /\ UNCHANGED <<content, refs>>
    /\ UNCHANGED <<perlrefs, requests, depth, called, ran, child, calls>>

\* ENTER, SAVETMPS, perl_call_sv
Call(s) ==
    /\ called = "none" /\ called' = s
    /\ depth' = depth + 1
    /\ ran' = content[s]

CallWrapper ==
    /\ pc = "load" /\ content["wrapper"] # Free /\ pc' = "loader"
    /\ Call("wrapper")
    /\ UNCHANGED <<heap, requests, child, calls>>

---------------------------------------------------------------------------
(* What the application does while a callback runs *)

Assigns(s, c) ==
    /\ called # "none"
    /\ content' = [content EXCEPT ![s] = c]
    /\ \/ s \in perlrefs /\ UNCHANGED perlrefs
       \/ s \notin perlrefs /\ refs[s] = 0 /\ perlrefs' = perlrefs \cup {s}
    /\ UNCHANGED <<pc, refs, requests, depth, called, ran, child, calls>>

LeavesScope(s) ==
    /\ called # "none" /\ s \in perlrefs
    /\ perlrefs' = perlrefs \ {s}
    /\ content' = Collected(content, perlrefs', refs)
    /\ UNCHANGED <<pc, refs, requests, depth, called, ran, child, calls>>

\* Mutant: without SvREFCNT_inc(CBACK).
RequestWithoutCount(s) ==
    /\ called # "none" /\ s \in perlrefs /\ Len(requests) < MaxRequests
    /\ requests' = Append(requests, s)
    /\ UNCHANGED <<pc, heap, depth, called, ran, child, calls>>

\* request_auxiliary_process(name, s) keeps the caller's scalar, not a copy of it: a later
\* assignment changes what the auxiliary process calls.
RequestAuxiliaryProcess(s) ==
    /\ called # "none" /\ s \in perlrefs /\ Len(requests) < MaxRequests
    /\ requests' = Append(requests, s)
    /\ refs' = Counted(s)
    /\ UNCHANGED <<pc, content, perlrefs, depth, called, ran, child, calls>>

---------------------------------------------------------------------------
\* bladepsgi_perl_callback_call_and_receive_callback: the wrapper's result, always a
\* subroutine (fastcgi_wrapper_loader.cpp), is counted before FREETMPS frees it.
LoaderReturns ==
    /\ pc = "loader" /\ pc' = "fork"
    /\ \E c \in Codes : content' = [content EXCEPT !["received"] = c]
    /\ refs' = Counted("received")
    /\ depth' = depth - 1 /\ called' = "none"
    /\ UNCHANGED <<perlrefs, requests, ran, child, calls>>

\* SpawnAuxiliaryProcess, the workers' fork() and WorkerInitialize, or Destroy in the overseer.
Forks ==
    /\ pc = "fork"
    /\ \/ pc' = "aux" /\ child' \in DOMAIN requests /\ UNCHANGED heap
       \/ pc' = "worker" /\ UNCHANGED <<child, heap>>
       \/ /\ pc' = "overseer" /\ UNCHANGED child
          /\ content' = [s \in Scalars |-> Free]
          /\ perlrefs' = {} /\ refs' = [s \in Scalars |-> 0]
    /\ UNCHANGED <<requests, depth, called, ran, calls>>

\* BPSGIAuxiliaryProcess::Run
AuxCalls ==
    /\ pc = "aux" /\ Call(requests[child])
    /\ UNCHANGED <<pc, heap, requests, child, calls>>

\* BPSGIWorker::MainLoopIteration
WorkerCalls ==
    /\ pc = "worker" /\ calls < MaxCalls /\ calls' = calls + 1
    /\ Call("received")
    /\ UNCHANGED <<pc, heap, requests, child>>

\* A callback returns: FREETMPS, LEAVE.  An auxiliary process then aborts.
CallReturns ==
    /\ called # "none" /\ pc \in {"aux", "worker"}
    /\ depth' = depth - 1 /\ called' = "none"
    /\ pc' = IF pc = "aux" THEN "exited" ELSE pc
    /\ UNCHANGED <<heap, requests, ran, child, calls>>

\* Mutant: the loop of the worker survives an exception.
WorkerGoesOn ==
    /\ called # "none" /\ called' = "none"
    /\ pc' = IF pc = "worker" THEN pc ELSE "exited"
    /\ UNCHANGED <<heap, requests, depth, ran, child, calls>>

\* The callback dies: the call returns -1 from the middle of its scope, Call() and
\* CallAndReceiveCallback() throw, and whoever called them exits.
CallDies ==
    /\ called # "none" /\ called' = "none"
    /\ Exits
    /\ UNCHANGED <<heap, requests, depth, ran, child, calls>>

PerlNext ==
    \/ InterpreterInit \/ CallbackInit \/ CallWrapper \/ LoaderReturns \/ Forks
    \/ AuxCalls \/ WorkerCalls \/ CallReturns \/ CallDies
    \/ \E s \in Variables : \/ LeavesScope(s) \/ RequestAuxiliaryProcess(s)
                            \/ \E c \in Codes : Assigns(s, c)

PerlSpec == PerlInit /\ [][PerlNext]_perlVars

\* Whatever the application does with its variables between a request and the fork, the
\* scalar of a callback that BladePSGI calls exists: neither FREETMPS nor the end of the
\* variable's scope nor Destroy() has freed it.
CalledIsAlive == called # "none" => ran # Free

\* Every callback is called at the bottom of Perl's scope stack, although a call that
\* fails never leaves its scope: temporaries do not pile up over the requests of a worker.
ScopesBalanced == pc # "exited" => depth = (IF called = "none" THEN 0 ELSE 1)
===========================================================================
