---------------------------- MODULE Supervision ----------------------------
(*************************************************************************)
(* What the program promises whoever runs it, without pid lists, flags,  *)
(* pipes or signals: the children are all started before the program     *)
(* runs, each runs once and is not started again, none ends without a    *)
(* reason, and the program stops well only when it was asked to and      *)
(* nobody is left.  BladePSGI is shown to implement this.                *)
(*************************************************************************)
CONSTANTS
    Children   \* everything that is ever started

VARIABLES
    phase,   \* "starting", "running", "stopping", "failing", "stopped" or "failed"
    life,    \* child -> "unborn", "up" or "ended"
    asked,   \* somebody has asked for a shutdown
    calm     \* nothing has failed, and nobody has ordered an abort

vars == <<phase, life, asked, calm>>

Init ==
    /\ phase = "starting"
    /\ life = [p \in Children |-> "unborn"]
    /\ asked = FALSE
    /\ calm = TRUE

Launch(ps) ==
    /\ phase = "starting"
    /\ \A p \in ps : life[p] = "unborn"
    /\ life' = [p \in Children |-> IF p \in ps THEN "up" ELSE life[p]]
    /\ UNCHANGED <<phase, asked, calm>>

Ready ==
    /\ phase = "starting" /\ phase' = "running"
    /\ \A p \in Children : life[p] # "unborn"
    /\ UNCHANGED <<life, asked, calm>>

Ask ==
    /\ asked' = TRUE
    /\ UNCHANGED <<phase, life, calm>>

\* Something fails, or an abort is ordered; nobody has noticed yet.
Fail ==
    /\ calm' = FALSE
    /\ UNCHANGED <<phase, life, asked>>

Stop ==
    /\ phase = "running" /\ phase' = "stopping"
    /\ asked
    /\ UNCHANGED <<life, asked, calm>>

\* A child ends because of a shutdown or of a failure, its own perhaps.
End(p) ==
    /\ life[p] = "up"
    /\ life' = [life EXCEPT ![p] = "ended"]
    /\ calm' \in {calm, FALSE}
    /\ asked \/ ~calm'
    /\ UNCHANGED <<phase, asked>>

\* The program gives up, in good order or at once.
GiveUp ==
    /\ phase \in {"starting", "running", "stopping", "failing"}
    /\ phase' \in {"failing", "failed"}
    /\ calm' = FALSE
    /\ UNCHANGED <<life, asked>>

Finish ==
    /\ phase = "stopping" /\ phase' = "stopped"
    /\ \A p \in Children : life[p] = "ended"
    /\ UNCHANGED <<life, asked, calm>>

Next ==
    \/ \E ps \in SUBSET Children : Launch(ps)
    \/ \E p \in Children : End(p)
    \/ Ready \/ Ask \/ Fail \/ Stop \/ GiveUp \/ Finish

Spec == Init /\ [][Next]_vars

\* The states in which the program may stay: all is well, a shutdown waits for a child,
\* or it is over.
AtRest ==
    \/ phase = "running" /\ \A p \in Children : life[p] # "ended"
    \/ phase = "stopping" /\ \E p \in Children : life[p] # "ended"
    \/ phase \in {"stopped", "failed"}

\* It stays in no other.  No phase comes back and no child is started again, so start-up
\* ends, an ended child is noticed, a shutdown that has nobody left to wait for is over,
\* and who gives up ends.
Progress == []<>AtRest
===========================================================================
