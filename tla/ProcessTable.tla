--------------------------- MODULE ProcessTable ---------------------------
(*************************************************************************)
(* The part of the operating system that BladePSGI is built on: the      *)
(* process table, pending signals, the parent-death signal, and the      *)
(* outside world that sends signals and makes system calls fail.  This   *)
(* is not code of the repository; it is modelled from the way            *)
(* src/src/bladepsgi.cpp uses fork, kill, waitpid, prctl and _exit.      *)
(*                                                                       *)
(* A process stands for its own pid.  A pid is never given out twice.    *)
(*************************************************************************)
EXTENDS Naturals, FiniteSets

CONSTANTS
    Overseer,      \* the runner process, the parent of all the others
    Workers,       \* the worker processes (NUM_WORKERS of them)
    Auxiliaries,   \* the processes the loader asked for
    Monitor,       \* the monitoring process
    Strays,        \* processes the loader's own code forked and left running
    MaxFailures,   \* bound on crashes, failed system calls, Perl exceptions
    MaxSIGTERM, MaxSIGINT, MaxSIGQUIT,  \* bounds on the signals sent from outside
    Terminal       \* TRUE if the program runs in the foreground of a terminal

\* main() refuses a worker count below one (src/src/bladepsgi.cpp:862).
ASSUME ProcessesAssumption ==
    /\ Workers # {}
    /\ IsFiniteSet(Workers)
    /\ IsFiniteSet(Auxiliaries)
    /\ Workers \cap Auxiliaries = {}
    /\ Strays \cap (Workers \cup Auxiliaries) = {}
    /\ Monitor \notin Workers \cup Auxiliaries \cup Strays
    /\ Overseer \notin Workers \cup Auxiliaries \cup Strays \cup {Monitor}

Children == Workers \cup Auxiliaries \cup Strays \cup {Monitor}
Procs == Children \cup {Overseer}
AdminSignals == {"SIGTERM", "SIGINT", "SIGQUIT"}
Signals == AdminSignals \cup {"SIGCHLD"}

MaxSent == [s \in AdminSignals |-> CASE s = "SIGTERM" -> MaxSIGTERM
                                     [] s = "SIGINT"  -> MaxSIGINT
                                     [] OTHER         -> MaxSIGQUIT]

VARIABLES
    pstate,    \* process -> "unborn", "alive", "zombie" or "reaped"
    pending,   \* process -> signals posted to it and not yet delivered
    deathsig,  \* children that get SIGQUIT when the overseer ends
    sent,      \* how often each signal was sent to the overseer from outside
    failures   \* how many failures have happened so far

hostVars == <<pstate, pending, deathsig, sent, failures>>

HostTypeOK ==
    /\ pstate \in [Procs -> {"unborn", "alive", "zombie", "reaped"}]
    /\ pending \in [Procs -> SUBSET Signals]
    /\ deathsig \in SUBSET Children
    /\ sent \in [AdminSignals -> Nat]
    /\ failures \in Nat

HostInit ==
    /\ pstate = [p \in Procs |-> IF p = Overseer THEN "alive" ELSE "unborn"]
    /\ pending = [p \in Procs |-> {}]
    /\ deathsig = {}
    /\ sent = [s \in AdminSignals |-> 0]
    /\ failures = 0

Alive(p) == pstate[p] = "alive"
Gone(p) == pstate[p] \in {"zombie", "reaped"}
Unreaped(p) == pstate[p] \in {"alive", "zombie"}

\* The table after the processes in ps were forked; their pending sets are empty.
Forked(ps) == [p \in Procs |-> IF p \in ps THEN "alive" ELSE pstate[p]]

\* The pending sets after kill(p, sig): nothing happens to a process that is gone.
Posted(p, sig) == IF p \in Procs /\ Alive(p)
                  THEN [pending EXCEPT ![p] = @ \cup {sig}]
                  ELSE pending

Delivered(p, sig) == [pending EXCEPT ![p] = @ \ {sig}]

\* A child ends: a zombie and a SIGCHLD for a living parent; otherwise the
\* init process reaps it at once.
ChildEnds(p) ==
    /\ Alive(p)
    /\ pstate' = [pstate EXCEPT ![p] = IF Alive(Overseer) THEN "zombie" ELSE "reaped"]
    /\ pending' = [q \in Procs |->
                     IF q = p THEN {}
                     ELSE IF q = Overseer /\ Alive(q) THEN pending[q] \cup {"SIGCHLD"}
                     ELSE pending[q]]

\* prctl(PR_SET_PDEATHSIG, SIGQUIT): too late when the parent is dead already.
SetDeathSignal(p) == deathsig' = IF Alive(Overseer) THEN deathsig \cup {p} ELSE deathsig

\* The overseer ends: its zombies are reaped by init, and the kernel posts the
\* parent-death signal to the children that asked for it.
OverseerEnds ==
    /\ Alive(Overseer)
    /\ pstate' = [p \in Procs |-> IF p = Overseer \/ pstate[p] = "zombie"
                                  THEN "reaped" ELSE pstate[p]]
    /\ pending' = [p \in Procs |->
                     IF p = Overseer THEN {}
                     ELSE IF Alive(p) /\ p \in deathsig THEN pending[p] \cup {"SIGQUIT"}
                     ELSE pending[p]]

\* Something goes wrong in this step that the code cannot prevent.
Fails ==
    /\ failures < MaxFailures
    /\ failures' = failures + 1

\* The administrator sends a signal to the overseer.
AdminSends(sig) ==
    /\ Alive(Overseer)
    /\ sent[sig] < MaxSent[sig]
    /\ sent' = [sent EXCEPT ![sig] = @ + 1]
    /\ pending' = Posted(Overseer, sig)
    /\ UNCHANGED <<pstate, deathsig, failures>>

\* The interrupt key of the terminal: the kernel posts SIGINT to the whole process
\* group at once.  Nobody calls setpgid(), so every process is in it.
TerminalInterrupts ==
    /\ Terminal /\ Alive(Overseer)
    /\ sent["SIGINT"] < MaxSIGINT
    /\ sent' = [sent EXCEPT !["SIGINT"] = @ + 1]
    /\ pending' = [p \in Procs |-> IF Alive(p) THEN pending[p] \cup {"SIGINT"} ELSE pending[p]]
    /\ UNCHANGED <<pstate, deathsig, failures>>

\* A child crashes, is killed by someone else or, if it is a stray, ends.
ChildCrashes(p) ==
    /\ ChildEnds(p)
    /\ Fails
    /\ UNCHANGED <<deathsig, sent>>
===========================================================================
