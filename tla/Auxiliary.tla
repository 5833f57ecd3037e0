----------------------------- MODULE Auxiliary -----------------------------
(*************************************************************************)
(* The auxiliary processes (src/src/auxiliary.cpp).  One runs the        *)
(* loader's subroutine, which should never return, and dies at SIGQUIT.  *)
(* No code of the repository sends it SIGTERM or SIGINT; a terminal may. *)
(*************************************************************************)
EXTENDS SharedState

VARIABLES
    apc    \* auxiliary process -> where it is

AuxTypeOK == apc \in [Auxiliaries -> {"init", "armed", "run"}]

AuxInit == apc = [a \in Auxiliaries |-> "init"]

AuxSubprocessInit(a) ==
    /\ Alive(a) /\ apc[a] = "init"
    /\ apc' = [apc EXCEPT ![a] = "armed"]
    /\ SetDeathSignal(a)
    /\ UNCHANGED <<pstate, pending, sent, failures, sharedVars>>

AuxUnblocks(a) ==
    /\ Alive(a) /\ apc[a] = "armed"
    /\ apc' = [apc EXCEPT ![a] = "run"]
    /\ UNCHANGED <<hostVars, sharedVars>>

\* Mutant: SIGINT is ignored, as it is in a worker.
AuxIgnoresSIGINT(a) ==
    /\ Alive(a) /\ apc[a] = "run"
    /\ "SIGQUIT" \in pending[a]
    /\ ChildEnds(a)
    /\ UNCHANGED <<deathsig, sent, failures, sharedVars, apc>>

\* auxiliary_sigquit_handler calls _exit(2); SIGINT has its default action.
AuxDiesOfSignal(a) ==
    /\ Alive(a) /\ apc[a] = "run"
    /\ pending[a] # {}
    /\ ChildEnds(a)
    /\ UNCHANGED <<deathsig, sent, failures, sharedVars, apc>>

\* The subroutine returns (abort) or dies with a Perl exception (_exit(1)).
AuxCallbackEnds(a) ==
    /\ apc[a] = "run"
    /\ ChildCrashes(a)
    /\ UNCHANGED <<sharedVars, apc>>

AuxRuns(a) == AuxSubprocessInit(a) \/ AuxUnblocks(a) \/ AuxDiesOfSignal(a)

AuxNext(a) == AuxRuns(a) \/ AuxCallbackEnds(a)
===========================================================================
