------------------------- MODULE SupervisionProofs -------------------------
(*************************************************************************)
(* What the composed system promises, for every number of workers,       *)
(* auxiliary processes, signals, connections and failures: it implements *)
(* Supervision (the simulation proof), its requests are accounted for,   *)
(* no wake-up is lost, one SIGTERM cuts no request off, and one reason   *)
(* is logged for everyone's exit.                                        *)
(*************************************************************************)
EXTENDS BladePSGIProofs, FiniteSetTheorems

---------------------------------------------------------------------------
(* The simulation *)

\* Everybody but the overseer posts nothing to the overseer but SIGCHLD, at most one
\* child ends, and a failure is recorded.
SmallStep ==
    /\ \A s \in {"SIGTERM", "SIGINT"} : s \in pending'[Overseer] => s \in pending[Overseer]
    /\ pstate' = pstate \/ \E p \in Children : ChildEnds(p)
    /\ sent' = sent
    /\ failures' = failures \/ Fails

LEMMA ChildEndsSmall ==
    ASSUME TypeOK, NEW p \in Children, ChildEnds(p)
    PROVE  \A s \in {"SIGTERM", "SIGINT"} : s \in pending'[Overseer] => s \in pending[Overseer]
  BY ProcsLemma DEF TypeOK, HostTypeOK, ChildEnds

\* The steps of workers, auxiliary processes and the monitoring process are small.
LEMMA OthersSmall ==
    ASSUME TypeOK,
           \/ \E w \in Workers : WorkerStep(w)
           \/ \E a \in Auxiliaries : AuxStep(a)
           \/ MonitorStep
    PROVE  SmallStep
  <1> USE DEF hostVars
  <1>1. ASSUME NEW w \in Workers, WorkerStep(w) PROVE SmallStep
    <2>0. w \in Children /\ w \in Procs /\ w # Overseer
      BY ProcsLemma
    <2>1. /\ sent' = sent /\ (failures' = failures \/ Fails)
          /\ \/ ChildEnds(w) \/ UNCHANGED <<pstate, pending>>
             \/ UNCHANGED pstate /\ pending' = Delivered(w, "SIGTERM")
      BY <1>1, Zenon
      DEF WorkerStep, WorkerNext, WorkerRuns, WorkerHandlers, WorkerSubprocessInit,
          WorkerUnblocks, WorkerLeaves, WorkerCallsCallback, WorkerBlocksInAccept,
          WorkerAccepts, WorkerAcceptFails, WorkerCounts, WorkerHandlesSIGTERM, WorkerHandlesSIGQUIT,
          AppSetsStatus, AppFinishes, AppDies, ChildCrashes
    <2>2. pending' = Delivered(w, "SIGTERM") => pending'[Overseer] = pending[Overseer]
      BY <2>0, ProcsLemma DEF Delivered, TypeOK, HostTypeOK
    <2> QED
      BY <2>0, <2>1, <2>2, ChildEndsSmall DEF SmallStep
  <1>2. ASSUME NEW a \in Auxiliaries, AuxStep(a) PROVE SmallStep
    <2>1. /\ sent' = sent /\ (failures' = failures \/ Fails)
          /\ ChildEnds(a) \/ UNCHANGED <<pstate, pending>>
      BY <1>2
      DEF AuxStep, AuxNext, AuxRuns, AuxSubprocessInit, AuxUnblocks, AuxDiesOfSignal,
          AuxCallbackEnds, ChildCrashes
    <2> QED
      BY <2>1, ProcsLemma, ChildEndsSmall DEF SmallStep
  <1>3. CASE MonitorStep
    <2>1. /\ sent' = sent /\ (failures' = failures \/ Fails)
          /\ \/ ChildEnds(Monitor) \/ UNCHANGED <<pstate, pending>>
             \/ UNCHANGED pstate /\ \E w \in Workers : pending' = Posted(w, "SIGQUIT")
      BY <1>3
      DEF MonitorStep, MonitorNext, MonitorRuns, MonitorUnblocks, MonitorNoticesRunnerDied,
          MonitorSelects, MonitorSelectReturns, MonitorSeesClient, MonitorHandlesClient,
          MonitorThrows, MonitorGivesUp, MonitorLogs, MonitorKillsOne, MonitorExits, MonitorDiesOfSignal
    <2>2. \A w \in Workers : pending' = Posted(w, "SIGQUIT") => pending'[Overseer] = pending[Overseer]
      BY ProcsLemma DEF Posted, TypeOK, HostTypeOK
    <2> QED
      BY <2>1, <2>2, ProcsLemma, ChildEndsSmall DEF SmallStep
  <1> QED
    BY <1>1, <1>2, <1>3

\* The environment takes a small step or adds to what was sent.
LEMMA EnvironmentSmall ==
    ASSUME TypeOK, EnvironmentStep
    PROVE  \/ SmallStep
           \/ \E s \in AdminSignals : /\ sent' = [sent EXCEPT ![s] = @ + 1]
                                      /\ \A t \in Signals : t \in pending'[Overseer]
                                            => t \in pending[Overseer] \/ t = s
                                      /\ UNCHANGED <<pstate, failures>>
  <1>1. ASSUME NEW s \in AdminSignals, AdminSends(s)
        PROVE  /\ sent' = [sent EXCEPT ![s] = @ + 1] /\ UNCHANGED <<pstate, failures>>
               /\ \A t \in Signals : t \in pending'[Overseer] => t \in pending[Overseer] \/ t = s
    BY <1>1, ProcsLemma DEF AdminSends, Posted, TypeOK, HostTypeOK
  <1>2. CASE TerminalInterrupts
    BY <1>2, ProcsLemma DEF TerminalInterrupts, AdminSignals
  <1>3. ASSUME NEW p \in Children, ChildCrashes(p) PROVE SmallStep
    BY <1>3, ChildEndsSmall DEF ChildCrashes, SmallStep
  <1>4. CASE ClientConnects
    BY <1>4 DEF ClientConnects, hostVars, SmallStep
  <1> QED
    BY <1>1, <1>2, <1>3, <1>4 DEF EnvironmentStep

\* What a step of the overseer does to the state that the abstraction shows.
LEMMA OverseerSmall ==
    ASSUME TypeOK, OverseerStep
    PROVE  /\ sent' = sent
           /\ failures' = failures \/ Fails
           /\ \A s \in {"SIGTERM", "SIGINT", "SIGQUIT"} :
                 s \in pending'[Overseer] => s \in pending[Overseer]
           /\ mainapp_shutdown' # mainapp_shutdown
                => pending[Overseer] \cap {"SIGTERM", "SIGINT"} # {}
  <1> USE DEF hostVars, flagVars
  <1>1. CASE OverseerStartup
    BY <1>1 DEF OverseerStartup, LoadApplication, SpawnAuxiliaryProcess, AuxiliariesSpawned,
                SpawnWorker, WorkersSpawned, SpawnMonitoringProcess, InstallHandlers
  <1>2. CASE OverseerHandlers
    <2>1. /\ UNCHANGED <<sent, failures>>
          /\ \E sig \in Signals : sig \in pending[Overseer] /\ pending' = Delivered(Overseer, sig)
          /\ mainapp_shutdown' # mainapp_shutdown
                => pending[Overseer] \cap {"SIGTERM", "SIGINT"} # {}
      BY <1>2 DEF OverseerHandlers, HandleSIGTERM, HandleSIGINT, HandleSIGCHLD, HandleSIGQUIT,
                  WakeMainLoop, Handles, Signals, AdminSignals
    <2> QED
      BY <2>1, ProcsLemma DEF Delivered, TypeOK, HostTypeOK
  <1>3. CASE \E p \in Children : KillOne(p)
    BY <1>3, ProcsLemma DEF KillOne, Posted, TypeOK, HostTypeOK
  <1>4. CASE WaitFindsNoChildren \/ ExitsAfterKill
    BY <1>4, ProcsLemma DEF WaitFindsNoChildren, ExitsAfterKill, Exits, OverseerEnds
  <1>5. CASE \/ SelectTimesOut \/ SelectReady \/ DrainSelfPipe \/ CheckFlags
             \/ ClearFastShutdown \/ ClearSmartShutdown \/ WaitFindsNone
             \/ HandleChildProcessDeath \/ LogsAndKills \/ LogsUnknownChild \/ KillReturns
             \/ \E p \in Children : WaitReaps(p)
    BY <1>5 DEF SelectTimesOut, SelectReady, DrainSelfPipe, CheckFlags, ClearFastShutdown,
                ClearSmartShutdown, WaitFindsNone, HandleChildProcessDeath, LogsAndKills,
                LogsUnknownChild, KillReturns, WaitReaps
  <1>6. CASE LoadFails \/ ForkFailsWithInterpreter \/ OverseerCrashes
    BY <1>6, ProcsLemma
    DEF LoadFails, ForkFailsWithInterpreter, OverseerCrashes, Exits, OverseerEnds
  <1>7. CASE SetUpFailsEarly \/ SetUpFails \/ SystemCallFails
    BY <1>7 DEF SetUpFailsEarly, SetUpFails, SystemCallFails
  <1> QED
    BY <1>1, <1>2, <1>3, <1>4, <1>5, <1>6, <1>7
    DEF OverseerStep, OverseerNext, OverseerMain, OverseerFailures

\* Where start-up may be, and what it has forked, after a step of the overseer.
LEMMA OverseerStartupInv ==
    ASSUME TypeOK, StartupInv, OverseerStep
    PROVE  StartupInv'
  <1> USE DEF hostVars, flagVars, killVars, At, GoTo, StartupPcs
  <1> SUFFICES ASSUME opc' \in StartupPcs PROVE StartupInv'
    BY DEF StartupInv
  <1>1. opc \in StartupPcs
    BY DEF OverseerStep, OverseerNext, OverseerStartup, LoadApplication, SpawnAuxiliaryProcess,
           AuxiliariesSpawned, SpawnWorker, WorkersSpawned, SpawnMonitoringProcess,
           InstallHandlers, OverseerHandlers, HandleSIGTERM, HandleSIGINT, HandleSIGCHLD,
           HandleSIGQUIT, WakeMainLoop, KillProcessGroup, OverseerMain, SelectTimesOut,
           SelectReady, DrainSelfPipe, CheckFlags, ClearFastShutdown, ClearSmartShutdown,
           WaitReaps, WaitFindsNone, WaitFindsNoChildren, HandleChildProcessDeath, ForgetChild,
           HandleUnexpectedChildProcessDeath, HandleUnknownChildDeath, Panic, LogsAndKills,
           LogsUnknownChild, KillOne, KillReturns, ExitsAfterKill, Exits, OverseerFailures,
           SetUpFailsEarly, SetUpFails, LoadFails, ForkFailsWithInterpreter, SystemCallFails,
           OverseerCrashes, TypeOK, OverseerTypeOK, AfterKill
  <1>2. ~OverseerHandlers
    BY <1>1 DEF OverseerHandlers, HandleSIGTERM, HandleSIGINT, HandleSIGCHLD, HandleSIGQUIT,
                Handles, StartupInv
  <1>3. ~OverseerFailures
    BY PanicType
    DEF OverseerFailures, SetUpFailsEarly, SetUpFails, LoadFails, ForkFailsWithInterpreter,
        SystemCallFails, OverseerCrashes, Exits
  <1>4. ~OverseerMain
    BY <1>1 DEF OverseerMain, SelectTimesOut, SelectReady, DrainSelfPipe, CheckFlags,
                ClearFastShutdown, ClearSmartShutdown, WaitReaps, WaitFindsNone,
                WaitFindsNoChildren, HandleChildProcessDeath, LogsAndKills, LogsUnknownChild, KillOne, KillReturns,
                ExitsAfterKill
  <1>5. OverseerStartup
    BY <1>2, <1>3, <1>4 DEF OverseerStep, OverseerNext
  <1>6. mainapp_shutdown' = 0 /\ signals_blocked'
    BY <1>1, <1>5
    DEF OverseerStartup, LoadApplication, SpawnAuxiliaryProcess, AuxiliariesSpawned,
        SpawnWorker, WorkersSpawned, SpawnMonitoringProcess, InstallHandlers, StartupInv
  <1>7. opc' # "load"
    BY <1>5, <1>1
    DEF OverseerStartup, LoadApplication, SpawnAuxiliaryProcess, AuxiliariesSpawned,
        SpawnWorker, WorkersSpawned, SpawnMonitoringProcess, InstallHandlers
  <1>8. opc' # "install" => pstate'[Monitor] = "unborn"
    <2> SUFFICES ASSUME opc' # "install" PROVE pstate'[Monitor] = "unborn"
      OBVIOUS
    <2>1. pstate[Monitor] = "unborn"
      BY <1>1, <1>5
      DEF OverseerStartup, LoadApplication, SpawnAuxiliaryProcess, AuxiliariesSpawned,
          SpawnWorker, WorkersSpawned, SpawnMonitoringProcess, InstallHandlers, StartupInv
    <2>2. pstate' = pstate \/ \E ps \in SUBSET (Children \ {Monitor}) : pstate' = Forked(ps)
      BY <1>5, ProcsLemma, ProcessesAssumption
      DEF OverseerStartup, LoadApplication, SpawnAuxiliaryProcess, AuxiliariesSpawned,
          SpawnWorker, WorkersSpawned, SpawnMonitoringProcess, InstallHandlers
    <2> QED
      BY <2>1, <2>2, ProcsLemma DEF Forked
  <1> QED
    BY <1>6, <1>7, <1>8 DEF StartupInv

LEMMA StepRefinement == TypeOK /\ RefinementInv /\ [Next]_vars => RefinementInv'
  <1> SUFFICES ASSUME TypeOK, RefinementInv, [Next]_vars PROVE RefinementInv'
    OBVIOUS
  <1> DEFINE Others == \/ \E w \in Workers : WorkerStep(w)
                       \/ \E a \in Auxiliaries : AuxStep(a)
                       \/ MonitorStep \/ EnvironmentStep
  <1>1. SentInv'
    <2>1. CASE OverseerStep
      BY <2>1, OverseerSmall DEF RefinementInv, SentInv
    <2>2. CASE Others /\ SmallStep
      BY <2>2, OthersFrame DEF SmallStep, overseerVars, flagVars, RefinementInv, SentInv
    <2>3. CASE EnvironmentStep /\ ~SmallStep
      <3>1. UNCHANGED mainapp_shutdown
        BY <2>3, OthersFrame DEF overseerVars, flagVars
      <3>2. PICK s \in AdminSignals :
                 /\ sent' = [sent EXCEPT ![s] = @ + 1]
                 /\ \A t \in Signals : t \in pending'[Overseer] => t \in pending[Overseer] \/ t = s
        BY <2>3, EnvironmentSmall
      <3>3. sent["SIGTERM"] \in Nat /\ sent["SIGINT"] \in Nat
        BY DEF TypeOK, HostTypeOK, AdminSignals
      <3>4. \A t \in {"SIGTERM", "SIGINT"} :
               /\ sent[t] > 0 => sent'[t] > 0
               /\ t = s => sent'[t] > 0
        BY <3>2, <3>3 DEF TypeOK, HostTypeOK, AdminSignals
      <3> QED
        BY <3>1, <3>2, <3>4 DEF RefinementInv, SentInv, Signals, AdminSignals
    <2>4. CASE UNCHANGED vars
      BY <2>4 DEF vars, hostVars, overseerVars, flagVars, RefinementInv, SentInv
    <2> QED
      BY <2>1, <2>2, <2>3, <2>4, OthersSmall DEF Next
  <1>2. StartupInv'
    <2>1. CASE OverseerStep
      BY <2>1, OverseerStartupInv DEF RefinementInv
    <2>2. CASE Others
      <3>1. UNCHANGED <<opc, mainapp_shutdown, signals_blocked>>
        BY <2>2, OthersFrame DEF overseerVars, flagVars
      <3>2. \A p \in Procs : pstate[p] = "unborn" => pstate'[p] = "unborn"
        BY <2>2, OthersFrame DEF ChildrenMayEnd
      <3> QED
        BY <3>1, <3>2, ProcsLemma DEF RefinementInv, StartupInv
    <2>3. CASE UNCHANGED vars
      BY <2>3 DEF vars, hostVars, overseerVars, flagVars, RefinementInv, StartupInv
    <2> QED
      BY <2>1, <2>2, <2>3 DEF Next
  <1> QED
    BY <1>1, <1>2 DEF RefinementInv

LEMMA InitRefinement == Init => RefinementInv
  BY ProcsLemma DEF Init, HostInit, OverseerInit, RefinementInv, SentInv, StartupInv

\* RefinementInv is an invariant, on top of TypeOK.
THEOREM RefinementInvariance == Spec => []RefinementInv
  BY InitRefinement, StepRefinement, TypeCorrectness, PTL DEF Spec

---------------------------------------------------------------------------
(* The simulation *)

\* Whoever gives up has a reason.
LEMMA GiveUpStep ==
    ASSUME TypeOK, TypeOK', QuietInv', sent' = sent, Life' = Life,
           Phase \in {"starting", "running", "stopping", "failing"},
           Phase' \in {"failing", "failed"}
    PROVE  Supervised!GiveUp
  <1>1. ~Quiet'
    BY DEF QuietInv, QuietOverseer, Phase, Leaving, LogPcs
  <1> QED
    BY <1>1 DEF Supervised!GiveUp, Quiet

\* So has a child that ends.
LEMMA EndStep ==
    ASSUME TypeOK, TypeOK', QuietInv', RefinementInv', NEW p \in Children, ChildEnds(p),
           sent' = sent, failures' = failures \/ Fails, Phase' = Phase
    PROVE  Supervised!End(p)
  <1>1. pstate[p] = "alive" /\ pstate'[p] \in {"zombie", "reaped"} /\ p \in Procs
    BY ProcsLemma DEF ChildEnds, Alive, TypeOK, HostTypeOK
  <1>2. Life' = [Life EXCEPT ![p] = "ended"]
    <2>1. \A q \in Children : q # p => pstate'[q] = pstate[q]
      BY ProcsLemma DEF ChildEnds, TypeOK, HostTypeOK
    <2> QED
      BY <1>1, <2>1 DEF Life
  <1>3. ~Quiet' \/ ~Unasked'
    BY <1>1 DEF QuietInv, UndisturbedBeforeShutdown
  <1>4. ~Quiet' \/ sent["SIGTERM"] > 0 \/ sent["SIGINT"] > 0
    BY <1>3 DEF RefinementInv, SentInv, Unasked, TypeOK, OverseerTypeOK
  <1>5. Quiet' => Quiet
    BY DEF Quiet, Fails, TypeOK, HostTypeOK
  <1>6. Quiet' \in {Quiet, FALSE}
    BY <1>5 DEF Quiet
  <1>7. Life[p] = "up"
    BY <1>1 DEF Life
  <1> QED
    BY <1>2, <1>4, <1>6, <1>7 DEF Supervised!End, Quiet

\* The other processes and the environment end children, fail, or ask.
LEMMA OthersSimulate ==
    ASSUME TypeOK, TypeOK', QuietInv', RefinementInv',
           \/ \E w \in Workers : WorkerStep(w)
           \/ \E a \in Auxiliaries : AuxStep(a)
           \/ MonitorStep
           \/ EnvironmentStep
    PROVE  [Supervised!Next]_(Supervised!vars)
  <1>0. Phase' = Phase
    BY OthersFrame DEF Phase, overseerVars, flagVars, killVars
  <1>1. CASE SmallStep
    <2>1. ASSUME NEW p \in Children, ChildEnds(p) PROVE Supervised!End(p)
      BY <1>0, <1>1, <2>1, EndStep DEF SmallStep
    <2>2. CASE pstate' = pstate /\ failures' = failures
      <3>1. Life' = Life
        BY <2>2 DEF Life
      <3> QED
        BY <1>0, <1>1, <2>2, <3>1 DEF Supervised!vars, SmallStep
    <2>3. CASE pstate' = pstate /\ Fails
      <3>1. Life' = Life
        BY <2>3 DEF Life
      <3>2. (failures = 0 /\ sent["SIGQUIT"] = 0)' = FALSE
        BY <2>3 DEF Fails, TypeOK, HostTypeOK
      <3>3. Supervised!Fail
        BY <1>0, <1>1, <3>1, <3>2 DEF Supervised!Fail, SmallStep
      <3> QED
        BY <3>3 DEF Supervised!Next
    <2> QED
      BY <1>1, <2>1, <2>2, <2>3 DEF SmallStep, Supervised!Next
  <1>2. CASE EnvironmentStep /\ ~SmallStep
    <2>1. PICK s \in AdminSignals : /\ sent' = [sent EXCEPT ![s] = @ + 1]
                                    /\ UNCHANGED <<pstate, failures>>
      BY <1>2, EnvironmentSmall
    <2>2. Life' = Life
      BY <2>1 DEF Life
    <2>3. \A t \in AdminSignals : sent[t] \in Nat /\ sent'[t] = IF t = s THEN sent[t] + 1 ELSE sent[t]
      BY <2>1 DEF TypeOK, HostTypeOK
    <2>4. CASE s = "SIGQUIT"
      <3>1. sent'["SIGQUIT"] > 0 /\ sent'["SIGTERM"] = sent["SIGTERM"] /\ sent'["SIGINT"] = sent["SIGINT"]
        BY <2>3, <2>4 DEF AdminSignals
      <3>2. Supervised!Fail
        BY <1>0, <2>2, <3>1 DEF Supervised!Fail
      <3> QED
        BY <3>2 DEF Supervised!Next
    <2>5. CASE s # "SIGQUIT"
      <3>1. /\ sent'["SIGQUIT"] = sent["SIGQUIT"]
            /\ sent'["SIGTERM"] > 0 \/ sent'["SIGINT"] > 0
        BY <2>3, <2>5 DEF AdminSignals
      <3>2. (sent["SIGTERM"] > 0 \/ sent["SIGINT"] > 0)' = TRUE
        BY <3>1
      <3>3. Supervised!Ask
        BY <1>0, <2>1, <2>2, <3>1, <3>2 DEF Supervised!Ask
      <3> QED
        BY <3>3 DEF Supervised!Next
    <2> QED
      BY <2>4, <2>5
  <1> QED
    BY <1>1, <1>2, OthersSmall

\* Start-up launches children and ends when all are there.
LEMMA StartupSimulates ==
    ASSUME TypeOK, LifeInv, RefinementInv, OverseerStartup, OverseerStep
    PROVE  [Supervised!Next]_(Supervised!vars)
  <1> USE DEF hostVars, killVars, flagVars, pidVars
  <1>0. UNCHANGED <<sent, failures, mainapp_shutdown>>
    BY DEF OverseerStartup, LoadApplication, SpawnAuxiliaryProcess, AuxiliariesSpawned,
           SpawnWorker, WorkersSpawned, SpawnMonitoringProcess, InstallHandlers
  <1>1. opc \in StartupPcs /\ mainapp_shutdown = 0
    BY DEF OverseerStartup, LoadApplication, SpawnAuxiliaryProcess, AuxiliariesSpawned,
           SpawnWorker, WorkersSpawned, SpawnMonitoringProcess, InstallHandlers, At, StartupPcs,
           RefinementInv, StartupInv
  <1>2. Phase = "starting"
    BY <1>1 DEF Phase, StartupPcs, Leaving, LogPcs
  <1>3. CASE InstallHandlers
    <2>1. opc = "install" /\ opc' = "select" /\ pstate' = pstate
      BY <1>3 DEF InstallHandlers, At, GoTo
    <2>2. Phase' = "running" /\ Life' = Life
      BY <1>0, <1>1, <2>1 DEF Phase, StartupPcs, Leaving, LogPcs, Life
    <2>3. \A p \in Children : Life[p] # "unborn"
      BY <2>1 DEF LifeInv, BirthsInOrder, Serving, Born, Life
    <2>4. Supervised!Ready
      BY <1>0, <1>2, <2>2, <2>3 DEF Supervised!Ready
    <2> QED
      BY <2>4 DEF Supervised!Next
  <1>4. CASE ~InstallHandlers
    <2>1. opc' \in StartupPcs
      BY <1>1, <1>4 DEF OverseerStartup, LoadApplication, SpawnAuxiliaryProcess,
             AuxiliariesSpawned, SpawnWorker, WorkersSpawned, SpawnMonitoringProcess, GoTo,
             StartupPcs
    <2>2. Phase' = "starting"
      BY <2>1 DEF Phase, StartupPcs, Leaving, LogPcs
    <2>3. \E ps \in SUBSET Children : /\ pstate' = Forked(ps)
                                      /\ \A p \in ps : pstate[p] = "unborn"
      <3>1. CASE LoadApplication
        BY <3>1, ProcsLemma DEF LoadApplication, At, RefinementInv, StartupInv, StartupPcs
      <3>2. CASE SpawnMonitoringProcess
        BY <3>2, ProcsLemma DEF SpawnMonitoringProcess, At, RefinementInv, StartupInv, StartupPcs
      <3>3. CASE (\E a \in Auxiliaries : SpawnAuxiliaryProcess(a)) \/ \E w \in Workers : SpawnWorker(w)
        <4>1. PICK q \in Children : pstate' = Forked({q}) /\ pstate[q] = "unborn"
          BY <3>3, ProcsLemma, Zenon DEF SpawnAuxiliaryProcess, SpawnWorker
        <4>2. {q} \in SUBSET Children /\ \A p \in {q} : pstate[p] = "unborn"
          BY <4>1
        <4> QED
          BY <4>1, <4>2, Zenon
      <3>4. CASE AuxiliariesSpawned \/ WorkersSpawned
        <4>1. pstate' = Forked({})
          BY <3>4 DEF AuxiliariesSpawned, WorkersSpawned, Forked, TypeOK, HostTypeOK
        <4> QED
          BY <4>1
      <3> QED
        BY <1>4, <3>1, <3>2, <3>3, <3>4 DEF OverseerStartup
    <2>4. PICK ps \in SUBSET Children : /\ pstate' = Forked(ps)
                                        /\ \A p \in ps : pstate[p] = "unborn"
      BY <2>3
    <2>5. \A p \in ps : Life[p] = "unborn"
      BY <2>4 DEF Life
    <2>6. Life' = [p \in Children |-> IF p \in ps THEN "up" ELSE Life[p]]
      BY <2>4, ProcsLemma DEF Life, Forked
    <2>7. Supervised!Launch(ps)
      BY <1>0, <1>2, <2>2, <2>5, <2>6 DEF Supervised!Launch
    <2> QED
      BY <2>7 DEF Supervised!Next
  <1> QED
    BY <1>3, <1>4

\* A living overseer has a phase that it can leave.
LEMMA LivingPhase ==
    ASSUME LifeInv, Alive(Overseer)
    PROVE  Phase \in {"starting", "running", "stopping", "failing"}
  BY DEF LifeInv, ControlConsistent, Phase, FinalPcs

\* The end of the overseer ends nobody else in the same step.
LEMMA OverseerEndsLife ==
    ASSUME TypeOK, OverseerEnds
    PROVE  Life' = Life
  BY ProcsLemma DEF OverseerEnds, Life, TypeOK, HostTypeOK

\* A handler that returns notes a shutdown that was asked for, or nothing.
LEMMA HandlersSimulate ==
    ASSUME TypeOK, TypeOK', LifeInv, QuietInv', RefinementInv, OverseerStep, OverseerHandlers
    PROVE  [Supervised!Next]_(Supervised!vars)
  <1> USE DEF hostVars, flagVars, killVars
  <1>0. Alive(Overseer) /\ ~signals_blocked /\ UNCHANGED <<pstate, sent, failures>>
    BY DEF OverseerHandlers, HandleSIGTERM, HandleSIGINT, HandleSIGCHLD, HandleSIGQUIT, Handles,
           WakeMainLoop
  <1>1. Life' = Life
    BY <1>0 DEF Life
  <1>2. CASE HandleSIGQUIT
    <2>1. Phase' = "failing"
      BY <1>2 DEF HandleSIGQUIT, KillProcessGroup, GoTo, Phase, Leaving, LogPcs, StartupPcs
    <2> QED
      BY <1>0, <1>1, <2>1, LivingPhase, GiveUpStep DEF Supervised!Next
  <1>3. CASE ~HandleSIGQUIT
    <2>1. /\ kill_next' = kill_next
          /\ opc' = opc \/ (opc = "select" /\ opc' = "flags")
      BY <1>3 DEF OverseerHandlers, HandleSIGTERM, HandleSIGINT, HandleSIGCHLD, WakeMainLoop
    <2>2. opc \notin StartupPcs \cup FinalPcs
      BY <1>0 DEF LifeInv, ControlConsistent
    <2>3. CASE mainapp_shutdown' = mainapp_shutdown
      <3>1. Phase' = Phase
        BY <2>1, <2>2, <2>3 DEF Phase, StartupPcs, FinalPcs, Leaving, LogPcs
      <3> QED
        BY <1>0, <1>1, <3>1 DEF Supervised!vars
    <2>4. CASE mainapp_shutdown' # mainapp_shutdown
      <3>1. mainapp_shutdown = 0 /\ mainapp_shutdown' = 1
        BY <1>3, <2>4 DEF OverseerHandlers, HandleSIGTERM, HandleSIGINT, HandleSIGCHLD, TypeOK,
                          OverseerTypeOK
      <3>2. sent["SIGTERM"] > 0 \/ sent["SIGINT"] > 0
        BY <2>4, OverseerSmall DEF RefinementInv, SentInv
      <3>3. Phase' = Phase \/ (Phase = "running" /\ Phase' = "stopping")
        BY <2>1, <2>2, <3>1 DEF Phase, StartupPcs, FinalPcs, Leaving, LogPcs
      <3>4. Phase' = Phase => UNCHANGED Supervised!vars
        BY <1>0, <1>1 DEF Supervised!vars
      <3>5. Phase = "running" /\ Phase' = "stopping" => Supervised!Stop
        BY <1>0, <1>1, <3>2 DEF Supervised!Stop
      <3> QED
        BY <3>3, <3>4, <3>5 DEF Supervised!Next
    <2> QED
      BY <2>3, <2>4
  <1> QED
    BY <1>2, <1>3

\* The main loop goes on, gives up or finishes.
LEMMA MainSimulates ==
    ASSUME TypeOK, TypeOK', LifeInv, LifeInv', QuietInv', OverseerStep, OverseerMain
    PROVE  [Supervised!Next]_(Supervised!vars)
  <1> USE DEF hostVars, flagVars, killVars
  <1>0. Alive(Overseer) /\ UNCHANGED <<sent, failures, mainapp_shutdown>>
    BY DEF OverseerMain, SelectTimesOut, SelectReady, DrainSelfPipe, CheckFlags,
           ClearFastShutdown, ClearSmartShutdown, WaitReaps, WaitFindsNone,
           WaitFindsNoChildren, HandleChildProcessDeath, LogsAndKills, LogsUnknownChild, KillOne, KillReturns, ExitsAfterKill,
           Exits, OverseerEnds, At
  <1>1. CASE \/ SelectTimesOut \/ SelectReady \/ DrainSelfPipe \/ CheckFlags
             \/ ClearFastShutdown \/ ClearSmartShutdown \/ WaitFindsNone \/ KillReturns
             \/ \E p \in Children : KillOne(p)
    <2>1. pstate' = pstate
      BY <1>1 DEF SelectTimesOut, SelectReady, DrainSelfPipe, CheckFlags, ClearFastShutdown,
                  ClearSmartShutdown, WaitFindsNone, KillReturns, KillOne
    <2>2. Phase' = Phase
      BY <1>0, <1>1
      DEF SelectTimesOut, SelectReady, DrainSelfPipe, CheckFlags, ClearFastShutdown,
          ClearSmartShutdown, WaitFindsNone, KillReturns, KillOne, KillProcessGroup, At, GoTo,
          Phase, StartupPcs, Leaving, LogPcs, TypeOK, OverseerTypeOK, AfterKill
    <2>3. Life' = Life
      BY <2>1 DEF Life
    <2> QED
      BY <1>0, <2>2, <2>3 DEF Supervised!vars
  <1>2. ASSUME NEW p \in Children, WaitReaps(p) PROVE [Supervised!Next]_(Supervised!vars)
    <2>1. Phase' = Phase
      BY <1>0, <1>2 DEF WaitReaps, At, GoTo, Phase, StartupPcs, Leaving, LogPcs
    <2>2. Life' = Life
      BY <1>2, ProcsLemma DEF WaitReaps, Life, TypeOK, HostTypeOK
    <2> QED
      BY <1>0, <2>1, <2>2 DEF Supervised!vars
  <1>3. CASE HandleChildProcessDeath
    <2>1. opc = "reaped" /\ pstate' = pstate
      BY <1>3 DEF HandleChildProcessDeath, At
    <2>2. Life' = Life
      BY <2>1 DEF Life
    <2>3. Phase' = Phase \/ Phase' = "failing"
      BY <1>0, <1>3, <2>1, PanicType
      DEF HandleChildProcessDeath, HandleUnexpectedChildProcessDeath, HandleUnknownChildDeath,
          ForgetChild, GoTo, Phase, StartupPcs, Leaving, LogPcs
    <2>4. Phase' = Phase => UNCHANGED Supervised!vars
      BY <1>0, <2>2 DEF Supervised!vars
    <2> QED
      BY <1>0, <2>2, <2>3, <2>4, LivingPhase, GiveUpStep DEF Supervised!Next
  <1>4. CASE WaitFindsNoChildren
    <2>1. opc = "wait" /\ opc' = "exit0" /\ Life' = Life
      BY <1>4, OverseerEndsLife DEF WaitFindsNoChildren, Exits, At, GoTo
    <2>2. mainapp_shutdown = 1
      BY <1>0, <2>1 DEF LifeInv, ExitZeroMeansAllStopped
    <2>3. Phase = "stopping" /\ Phase' = "stopped"
      BY <2>1, <2>2 DEF Phase, StartupPcs, Leaving, LogPcs
    <2>4. \A p \in Children : pstate[p] \notin {"unborn", "alive"}
      BY <1>4, <2>1
      DEF WaitFindsNoChildren, Unreaped, LifeInv, BirthsInOrder, Serving, LoopPcs, Born
    <2>5. \A p \in Children : Life[p] = "ended"
      BY <2>4 DEF Life
    <2>6. Supervised!Finish
      BY <1>0, <2>1, <2>3, <2>5 DEF Supervised!Finish
    <2> QED
      BY <2>6 DEF Supervised!Next
  <1>5. CASE ExitsAfterKill
    <2>1. opc' = "exit1" /\ Life' = Life
      BY <1>5, OverseerEndsLife DEF ExitsAfterKill, Exits, GoTo
    <2>2. Phase' = "failed"
      BY <2>1 DEF Phase, Leaving, LogPcs, StartupPcs
    <2> QED
      BY <1>0, <2>1, <2>2, LivingPhase, GiveUpStep DEF Supervised!Next
  <1>6. CASE LogsAndKills \/ LogsUnknownChild
    <2>1. Phase = "failing" /\ Phase' = "failing"
      BY <1>6 DEF LogsAndKills, LogsUnknownChild, KillProcessGroup, At, GoTo, Phase,
                  StartupPcs, Leaving, LogPcs
    <2>2. Life' = Life
      BY <1>6 DEF LogsAndKills, LogsUnknownChild, Life
    <2> QED
      BY <1>0, <2>1, <2>2 DEF Supervised!vars
  <1> QED
    BY <1>1, <1>2, <1>3, <1>4, <1>5, <1>6 DEF OverseerMain

\* The ways in which the overseer itself fails.
LEMMA FailuresSimulate ==
    ASSUME TypeOK, TypeOK', LifeInv, QuietInv', OverseerFailures
    PROVE  [Supervised!Next]_(Supervised!vars)
  <1>1. CASE SetUpFailsEarly \/ SetUpFails \/ SystemCallFails
    <2>1. Alive(Overseer) /\ UNCHANGED <<pstate, sent>>
      BY <1>1 DEF SetUpFailsEarly, SetUpFails, SystemCallFails, At
    <2>2. Phase' = "failing"
      BY <1>1, PanicType DEF SetUpFailsEarly, SetUpFails, SystemCallFails, GoTo, Phase,
                             Leaving, LogPcs, StartupPcs
    <2>3. Life' = Life
      BY <2>1 DEF Life
    <2> QED
      BY <2>1, <2>2, <2>3, LivingPhase, GiveUpStep DEF Supervised!Next
  <1>2. CASE LoadFails \/ ForkFailsWithInterpreter \/ OverseerCrashes
    <2>1. OverseerEnds /\ sent' = sent /\ opc' \in {"exit1", "killed"}
      BY <1>2 DEF LoadFails, ForkFailsWithInterpreter, OverseerCrashes, Exits, GoTo
    <2>2. Phase' = "failed" /\ Alive(Overseer)
      BY <2>1 DEF Phase, Leaving, LogPcs, StartupPcs, OverseerEnds
    <2> QED
      BY <2>1, <2>2, LivingPhase, OverseerEndsLife, GiveUpStep DEF Supervised!Next
  <1> QED
    BY <1>1, <1>2 DEF OverseerFailures

LEMMA InitSimulates == Init => Supervised!Init
  <1> SUFFICES ASSUME Init PROVE Supervised!Init
    OBVIOUS
  <1>1. Phase = "starting"
    BY DEF Init, OverseerInit, Phase, StartupPcs, Leaving, LogPcs
  <1>2. Life = [p \in Children |-> "unborn"]
    BY ProcsLemma DEF Init, HostInit, Life
  <1>3. /\ (sent["SIGTERM"] > 0 \/ sent["SIGINT"] > 0) = FALSE
        /\ (failures = 0 /\ sent["SIGQUIT"] = 0) = TRUE
    BY DEF Init, HostInit, AdminSignals
  <1> QED
    BY <1>1, <1>2, <1>3 DEF Supervised!Init

LEMMA StepSimulates ==
    ASSUME TypeOK, TypeOK', LifeInv, LifeInv', QuietInv', RefinementInv, RefinementInv',
           [Next]_vars
    PROVE  [Supervised!Next]_(Supervised!vars)
  <1>1. CASE OverseerStep
    BY <1>1, StartupSimulates, HandlersSimulate, MainSimulates, FailuresSimulate
    DEF OverseerStep, OverseerNext
  <1>2. CASE UNCHANGED vars
    BY <1>2 DEF vars, hostVars, overseerVars, flagVars, killVars, Supervised!vars, Phase, Life
  <1> QED
    BY <1>1, <1>2, OthersSimulate DEF Next

\* The composed processes implement the abstract supervisor, whatever the number of
\* processes and whatever fails: every child is started once and before the program
\* runs, none ends without a shutdown or a failure, exit(0) follows a request and the
\* end of all.
THEOREM Implementation == Spec => ImplementsSupervision
  <1>1. Init => Supervised!Init
    BY InitSimulates
  <1>2. /\ TypeOK /\ TypeOK' /\ LifeInv /\ LifeInv' /\ QuietInv'
        /\ RefinementInv /\ RefinementInv' /\ [Next]_vars
        => [Supervised!Next]_(Supervised!vars)
    BY StepSimulates
  <1> QED
    BY <1>1, <1>2, TypeCorrectness, LifeInvariance, QuietInvariance, RefinementInvariance, PTL
    DEF Spec, ImplementsSupervision, Supervised!Spec

---------------------------------------------------------------------------
(* Requests *)

\* Sets of workers are finite and have a number of elements.
LEMMA WorkerSets ==
    ASSUME NEW S \in SUBSET Workers
    PROVE  IsFiniteSet(S) /\ Cardinality(S) \in Nat
  <1>1. IsFiniteSet(S)
    BY ProcessesAssumption, FS_Subset
  <1> QED
    BY <1>1, FS_CardinalityType

\* A set that gains one worker, loses one or stays as it is.
LEMMA CountWith ==
    ASSUME NEW S \in SUBSET Workers, NEW w \in Workers
    PROVE  /\ w \notin S => Cardinality(S \cup {w}) = Cardinality(S) + 1
           /\ w \in S => Cardinality(S \ {w}) = Cardinality(S) - 1
           /\ Cardinality(S) \in Nat
  BY WorkerSets, FS_AddElement, FS_RemoveElement

\* The invariant read as arithmetic: what a step adds to the count of requests is what it
\* adds to those accepted, or up to one more for a failed Accept() or a spent worker.
LEMMA RequestArithmetic ==
    ASSUME TypeOK, RequestInv, request_counter' \in Nat, accept_failures' \in Nat,
           Accepted' \in Int,
           Cardinality(InHand)' \in Nat, Cardinality(Spent)' \in Nat,
           LET more == request_counter' + Cardinality(InHand)'
                           - (request_counter + Cardinality(InHand))
               late == Accepted' - Accepted
           IN  /\ late <= more
               /\ more <= late + (accept_failures' - accept_failures)
                             + (Cardinality(Spent)' - Cardinality(Spent))
    PROVE  RequestInv'
  <1>1. /\ Accepted \in Int /\ request_counter \in Nat /\ accept_failures \in Nat
        /\ Cardinality(InHand) \in Nat /\ Cardinality(Spent) \in Nat
    <2>1. InHand \in SUBSET Workers /\ Spent \in SUBSET Workers
      BY DEF InHand, Spent
    <2>2. Accepted \in Int /\ accept_failures \in Nat
      BY DEF TypeOK, WorkerTypeOK, Accepted
    <2> QED
      BY <2>1, <2>2, WorkerSets DEF TypeOK, SharedTypeOK
  <1> QED
    BY <1>1 DEF RequestInv

\* No other process counts requests.
LEMMA OthersCountNothing ==
    ASSUME \/ OverseerStep
           \/ \E a \in Auxiliaries : AuxStep(a)
           \/ MonitorStep
           \/ EnvironmentStep /\ ~ClientConnects
           \/ UNCHANGED vars
    PROVE  UNCHANGED <<workerVars, request_counter>>
  <1> USE DEF hostVars, sharedVars, workerVars
  <1>1. CASE OverseerStep
    <2>1. OverseerNext => UNCHANGED request_counter
      BY DEF OverseerNext, OverseerStartup, OverseerHandlers, OverseerMain, OverseerFailures,
             LoadApplication, SpawnAuxiliaryProcess, AuxiliariesSpawned, SpawnWorker,
             WorkersSpawned, SpawnMonitoringProcess, InstallHandlers, HandleSIGTERM,
             HandleSIGINT, HandleSIGCHLD, HandleSIGQUIT, WakeMainLoop, SelectTimesOut,
             SelectReady, DrainSelfPipe, CheckFlags, ClearFastShutdown, ClearSmartShutdown,
             WaitReaps, WaitFindsNone, WaitFindsNoChildren, HandleChildProcessDeath, LogsAndKills, LogsUnknownChild, KillOne,
             KillReturns, ExitsAfterKill, SetUpFailsEarly, SetUpFails, LoadFails, ForkFailsWithInterpreter,
             SystemCallFails, OverseerCrashes
    <2> QED
      BY <1>1, <2>1 DEF OverseerStep
  <1>2. ASSUME NEW a \in Auxiliaries, AuxStep(a)
        PROVE  UNCHANGED <<workerVars, request_counter>>
    BY <1>2 DEF AuxStep, AuxNext, AuxRuns, AuxSubprocessInit, AuxUnblocks, AuxDiesOfSignal,
                AuxCallbackEnds
  <1>3. CASE MonitorStep
    BY <1>3 DEF MonitorStep, MonitorNext, MonitorRuns, MonitorUnblocks,
                MonitorNoticesRunnerDied, MonitorSelects, MonitorSelectReturns,
                MonitorSeesClient, MonitorHandlesClient, MonitorThrows, MonitorGivesUp,
                MonitorLogs, MonitorKillsOne, MonitorExits, MonitorDiesOfSignal
  <1>4. CASE EnvironmentStep /\ ~ClientConnects
    BY <1>4 DEF EnvironmentStep
  <1>5. CASE UNCHANGED vars
    BY <1>5 DEF vars
  <1> QED
    BY <1>1, <1>2, <1>3, <1>4, <1>5

\* A worker takes a request in hand when it accepts it, and puts it away when it counts it.
\* SIGTERM makes the one whose accept() it interrupts count a request that never was: that
\* worker is spent from then on, and was not before.
LEMMA WorkerRequests ==
    ASSUME TypeOK, TypeOK', RequestInv, NEW w \in Workers, WorkerStep(w)
    PROVE  RequestInv'
  <1> USE DEF hostVars, sharedVars, workerVars, WorkerAt, WorkerGoesTo
  <1>0. /\ InHand \in SUBSET Workers /\ Spent \in SUBSET Workers
        /\ InHand' \in SUBSET Workers /\ Spent' \in SUBSET Workers
    BY DEF InHand, Spent
  <1>1. /\ Cardinality(InHand) \in Nat /\ Cardinality(Spent) \in Nat
        /\ Cardinality(InHand)' \in Nat /\ Cardinality(Spent)' \in Nat
        /\ request_counter \in Nat /\ request_counter' \in Nat
        /\ accept_failures \in Nat /\ accept_failures' \in Nat
        /\ Accepted \in Int /\ Accepted' \in Int
        /\ connections \in Int /\ backlog \in Int
    <2>1. /\ request_counter \in Nat /\ request_counter' \in Nat
          /\ accept_failures \in Nat /\ accept_failures' \in Nat
          /\ connections \in Int /\ backlog \in Int
          /\ connections' \in Int /\ backlog' \in Int
      BY DEF TypeOK, SharedTypeOK, WorkerTypeOK
    <2> QED
      BY <1>0, <2>1, WorkerSets DEF Accepted
  <1>2. wpc \in [Workers -> {"init", "armed", "check", "calling", "accepting", "app", "count"}]
        /\ worker_terminated \in [Workers -> {0, 1}]
    BY DEF TypeOK, WorkerTypeOK
  <1>3. CASE /\ UNCHANGED <<request_counter, connections, backlog, accept_failures>>
             /\ InHand' = InHand /\ Spent' = Spent
    BY <1>1, <1>3, RequestArithmetic DEF Accepted
  <1>4. CASE \/ WorkerSubprocessInit(w) \/ WorkerUnblocks(w)
             \/ WorkerCallsCallback(w) \/ WorkerBlocksInAccept(w) \/ AppFinishes(w)
    <2>1. /\ UNCHANGED <<request_counter, connections, backlog, accept_failures,
                          worker_terminated>>
          /\ \E pc : /\ wpc' = [wpc EXCEPT ![w] = pc]
                     /\ pc \in {"app", "count"} <=> wpc[w] \in {"app", "count"}
                     /\ \/ worker_terminated[w] = 0
                        \/ pc \in {"calling", "accepting"} <=> wpc[w] \in {"calling", "accepting"}
      BY <1>4 DEF WorkerSubprocessInit, WorkerUnblocks, WorkerCallsCallback,
                  WorkerBlocksInAccept, AppFinishes
    <2>2. InHand' = InHand /\ Spent' = Spent
      BY <1>2, <2>1 DEF InHand, Spent
    <2> QED
      BY <1>3, <2>1, <2>2
  <1>5. CASE \/ WorkerLeaves(w) \/ WorkerHandlesSIGQUIT(w) \/ AppDies(w)
             \/ \E s \in AppStatuses : AppSetsStatus(w, s)
    <2>1. UNCHANGED <<request_counter, workerVars>>
      BY <1>5 DEF WorkerLeaves, WorkerHandlesSIGQUIT, AppDies, AppSetsStatus
    <2>2. InHand' = InHand /\ Spent' = Spent
      BY <2>1 DEF InHand, Spent
    <2> QED
      BY <1>3, <2>1, <2>2
  <1>6. CASE WorkerAccepts(w)
    <2>1. /\ wpc[w] \in {"calling", "accepting"} /\ wpc' = [wpc EXCEPT ![w] = "app"]
          /\ backlog' = backlog - 1
          /\ UNCHANGED <<request_counter, connections, accept_failures, worker_terminated>>
      BY <1>6 DEF WorkerAccepts
    <2>2. w \notin InHand /\ InHand' = InHand \cup {w}
      BY <1>2, <2>1 DEF InHand
    <2>3. w \notin Spent /\ Spent' = (IF worker_terminated[w] = 1 THEN Spent \cup {w} ELSE Spent)
      BY <1>2, <2>1 DEF Spent
    <2>4. /\ Cardinality(InHand)' = Cardinality(InHand) + 1
          /\ Cardinality(Spent) <= Cardinality(Spent)'
      BY <1>0, <1>1, <2>2, <2>3, CountWith
    <2>5. Accepted' = Accepted + 1
      BY <1>1, <2>1 DEF Accepted
    <2> QED
      BY <1>1, <2>1, <2>4, <2>5, RequestArithmetic
  <1>7. CASE WorkerCounts(w)
    <2>1. /\ wpc[w] = "count" /\ wpc' = [wpc EXCEPT ![w] = "check"]
          /\ request_counter' = request_counter + 1
          /\ UNCHANGED <<connections, backlog, accept_failures, worker_terminated>>
      BY <1>7 DEF WorkerCounts, IncreaseRequestCounter
    <2>2. w \in InHand /\ InHand' = InHand \ {w} /\ Spent' = Spent
      BY <1>2, <2>1 DEF InHand, Spent
    <2>3. Cardinality(InHand)' = Cardinality(InHand) - 1
      BY <1>0, <2>2, CountWith
    <2> QED
      BY <1>1, <2>1, <2>2, <2>3, RequestArithmetic DEF Accepted
  <1>8. CASE WorkerHandlesSIGTERM(w)
    <2>1. /\ wpc' = [wpc EXCEPT ![w] = IF @ = "accepting" THEN "count" ELSE @]
          /\ worker_terminated' = [worker_terminated EXCEPT ![w] = 1]
          /\ UNCHANGED <<request_counter, connections, backlog, accept_failures>>
      BY <1>8 DEF WorkerHandlesSIGTERM
    <2>2. Accepted' = Accepted
      BY <2>1 DEF Accepted
    <2>3. CASE wpc[w] = "accepting"
      <3>1. w \notin InHand /\ InHand' = InHand \cup {w}
        BY <1>2, <2>1, <2>3 DEF InHand
      <3>2. w \notin Spent /\ Spent' = Spent \cup {w}
        BY <1>2, <2>1, <2>3 DEF Spent
      <3>3. /\ Cardinality(InHand)' = Cardinality(InHand) + 1
            /\ Cardinality(Spent)' = Cardinality(Spent) + 1
        BY <1>0, <3>1, <3>2, CountWith
      <3> QED
        BY <1>1, <2>1, <2>2, <3>3, RequestArithmetic
    <2>4. CASE wpc[w] # "accepting"
      <3>1. InHand' = InHand
        BY <1>2, <2>1, <2>4 DEF InHand
      <3>2. Spent' = (IF wpc[w] = "calling" THEN Spent ELSE Spent \cup {w})
        BY <1>2, <2>1, <2>4 DEF Spent
      <3>3. Cardinality(Spent) <= Cardinality(Spent)'
        <4>1. CASE wpc[w] = "calling" \/ w \in Spent
          <5>1. Spent' = Spent
            BY <3>2, <4>1
          <5> QED
            BY <1>1, <5>1
        <4>2. CASE wpc[w] # "calling" /\ w \notin Spent
          BY <1>0, <1>1, <3>2, <4>2, CountWith
        <4> QED
          BY <4>1, <4>2
      <3> QED
        BY <1>1, <2>1, <2>2, <3>1, <3>3, RequestArithmetic
    <2> QED
      BY <2>3, <2>4
  <1>9. CASE WorkerAcceptFails(w)
    <2>1. /\ wpc[w] \in {"calling", "accepting"} /\ wpc' = [wpc EXCEPT ![w] = "count"]
          /\ accept_failures' = accept_failures + 1
          /\ UNCHANGED <<request_counter, connections, backlog, worker_terminated>>
      BY <1>9 DEF WorkerAcceptFails
    <2>2. w \notin InHand /\ InHand' = InHand \cup {w}
      BY <1>2, <2>1 DEF InHand
    <2>3. w \notin Spent /\ Spent' = (IF worker_terminated[w] = 1 THEN Spent \cup {w} ELSE Spent)
      BY <1>2, <2>1 DEF Spent
    <2>4. /\ Cardinality(InHand)' = Cardinality(InHand) + 1
          /\ Cardinality(Spent) <= Cardinality(Spent)'
      BY <1>0, <1>1, <2>2, <2>3, CountWith
    <2>5. Accepted' = Accepted
      BY <2>1 DEF Accepted
    <2> QED
      BY <1>1, <2>1, <2>4, <2>5, RequestArithmetic
  <1> QED
    BY <1>4, <1>5, <1>6, <1>7, <1>8, <1>9 DEF WorkerStep, WorkerNext, WorkerRuns, WorkerHandlers

\* Every step keeps the account.
LEMMA StepRequests == TypeOK /\ TypeOK' /\ RequestInv /\ [Next]_vars => RequestInv'
  <1> SUFFICES ASSUME TypeOK, TypeOK', RequestInv, [Next]_vars PROVE RequestInv'
    OBVIOUS
  <1>1. ASSUME NEW w \in Workers, WorkerStep(w) PROVE RequestInv'
    BY <1>1, WorkerRequests
  <1>2. CASE UNCHANGED <<workerVars, request_counter>>
    BY <1>2 DEF workerVars, RequestInv, Accepted, InHand, Spent
  <1>3. CASE ClientConnects
    <2>1. /\ connections' = connections + 1 /\ backlog' = backlog + 1
          /\ UNCHANGED <<wpc, worker_terminated, accept_failures, request_counter>>
      BY <1>3 DEF ClientConnects, sharedVars
    <2>2. connections \in Int /\ backlog \in Int
      BY DEF TypeOK, WorkerTypeOK
    <2>3. Accepted' = Accepted
      BY <2>1, <2>2 DEF Accepted
    <2> QED
      BY <2>1, <2>3 DEF RequestInv, InHand, Spent
  <1> QED
    BY <1>1, <1>2, <1>3, OthersCountNothing DEF Next

\* At first nothing was accepted and nothing was counted.
LEMMA InitRequests == Init => RequestInv
  <1> SUFFICES ASSUME Init PROVE RequestInv
    OBVIOUS
  <1>1. /\ InHand = {} /\ Spent = {} /\ Accepted = 0
        /\ request_counter = 0 /\ accept_failures = 0
    BY DEF Init, WorkerInit, SharedInit, InHand, Spent, Accepted
  <1> QED
    BY <1>1, FS_EmptySet DEF RequestInv

\* No request that was accepted is missing from the account, however the workers, their
\* signals and their deaths interleave; and the counter runs ahead of the requests by at
\* most one for each Accept() that failed and one for each worker that SIGTERM was
\* delivered to (MainLoopIteration counts every callback that returned).
THEOREM RequestAccount == Spec => []RequestsAccounted
  <1>1. TypeOK /\ RequestInv => RequestsAccounted
    <2> SUFFICES ASSUME TypeOK, RequestInv PROVE RequestsAccounted
      OBVIOUS
    <2> DEFINE Told == {w \in Workers : worker_terminated[w] = 1}
    <2>1. InHand \in SUBSET Workers /\ Spent \in SUBSET Told /\ Told \in SUBSET Workers
      BY DEF InHand, Spent
    <2>2. /\ Cardinality(InHand) \in Nat /\ Cardinality(Spent) \in Nat
          /\ Cardinality(Told) \in Nat /\ Cardinality(Spent) <= Cardinality(Told)
      BY <2>1, WorkerSets, FS_Subset
    <2>3. Accepted \in Int /\ request_counter \in Nat /\ accept_failures \in Nat
      BY DEF TypeOK, WorkerTypeOK, SharedTypeOK, Accepted
    <2>4. request_counter + Cardinality(InHand)
              <= Accepted + accept_failures + Cardinality(Told)
      BY <2>2, <2>3 DEF RequestInv
    <2> QED
      BY <2>4 DEF RequestInv, RequestsAccounted, InHand, Accepted
  <1> QED
    BY <1>1, TypeCorrectness, InitRequests, StepRequests, PTL DEF Spec

---------------------------------------------------------------------------
(* Wake-ups *)

\* What the other processes and the environment do to the overseer's signals: they take
\* none away, a signal of the administrator's is counted, and a death is announced.
OthersOnlySignal ==
    /\ pending[Overseer] \subseteq pending'[Overseer]
    /\ \A s \in AdminSignals :
           /\ sent[s] <= sent'[s]
           /\ s \in pending'[Overseer] /\ s \notin pending[Overseer] => sent[s] < sent'[s]
    /\ \A p \in Children :
           pstate'[p] = "zombie" /\ pstate[p] # "zombie" => "SIGCHLD" \in pending'[Overseer]

\* A step that leaves all of it alone is such a step.
LEMMA SilentSignals ==
    ASSUME TypeOK, UNCHANGED <<pstate, sent>>, pending'[Overseer] = pending[Overseer]
    PROVE  OthersOnlySignal
  <1>1. \A s \in AdminSignals : sent[s] <= sent'[s]
    BY DEF TypeOK, HostTypeOK
  <1> QED
    BY <1>1 DEF OthersOnlySignal

\* So is the end of a child.
LEMMA ChildEndsSignals ==
    ASSUME TypeOK, NEW p \in Children, ChildEnds(p), UNCHANGED sent
    PROVE  OthersOnlySignal
  <1>1. \A s \in AdminSignals : sent[s] <= sent'[s] /\ s # "SIGCHLD"
    BY DEF TypeOK, HostTypeOK, AdminSignals
  <1>2. /\ pending'[Overseer] = IF Alive(Overseer) THEN pending[Overseer] \cup {"SIGCHLD"}
                                ELSE pending[Overseer]
        /\ \A q \in Children : pstate'[q] # pstate[q] =>
               pstate'[q] = IF Alive(Overseer) THEN "zombie" ELSE "reaped"
    BY ProcsLemma DEF ChildEnds, TypeOK, HostTypeOK
  <1> QED
    BY <1>1, <1>2 DEF OthersOnlySignal

\* And every step of the others.
LEMMA OthersSignals ==
    ASSUME TypeOK,
           \/ \E w \in Workers : WorkerStep(w)
           \/ \E a \in Auxiliaries : AuxStep(a)
           \/ MonitorStep
           \/ EnvironmentStep
    PROVE  OthersOnlySignal
  <1> USE DEF hostVars
  <1>1. ASSUME NEW w \in Workers, WorkerStep(w) PROVE OthersOnlySignal
    <2>1. CASE ChildEnds(w) /\ UNCHANGED sent
      BY <2>1, ProcsLemma, ChildEndsSignals
    <2>2. CASE WorkerHandlesSIGTERM(w)
      <3>1. pending'[Overseer] = pending[Overseer]
        BY <2>2, ProcsLemma DEF WorkerHandlesSIGTERM, Delivered, TypeOK, HostTypeOK
      <3> QED
        BY <2>2, <3>1, SilentSignals DEF WorkerHandlesSIGTERM
    <2>3. CASE UNCHANGED <<pstate, pending, sent>>
      BY <2>3, SilentSignals
    <2> QED
      BY <1>1, <2>1, <2>2, <2>3
      DEF WorkerStep, WorkerNext, WorkerRuns, WorkerHandlers, WorkerSubprocessInit,
          WorkerUnblocks, WorkerLeaves, WorkerCallsCallback, WorkerBlocksInAccept,
          WorkerAccepts, WorkerAcceptFails, WorkerCounts, WorkerHandlesSIGQUIT, AppSetsStatus, AppFinishes,
          AppDies, ChildCrashes
  <1>2. ASSUME NEW a \in Auxiliaries, AuxStep(a) PROVE OthersOnlySignal
    <2>1. CASE ChildEnds(a) /\ UNCHANGED sent
      BY <2>1, ProcsLemma, ChildEndsSignals
    <2>2. CASE UNCHANGED <<pstate, pending, sent>>
      BY <2>2, SilentSignals
    <2> QED
      BY <1>2, <2>1, <2>2
      DEF AuxStep, AuxNext, AuxRuns, AuxSubprocessInit, AuxUnblocks, AuxDiesOfSignal,
          AuxCallbackEnds, ChildCrashes
  <1>3. CASE MonitorStep
    <2>1. CASE ChildEnds(Monitor) /\ UNCHANGED sent
      BY <2>1, ProcsLemma, ChildEndsSignals
    <2>2. ASSUME NEW w \in Workers, MonitorKillsOne(w) PROVE OthersOnlySignal
      <3>1. pending'[Overseer] = pending[Overseer]
        BY <2>2, ProcsLemma DEF MonitorKillsOne, Posted, TypeOK, HostTypeOK
      <3> QED
        BY <2>2, <3>1, SilentSignals DEF MonitorKillsOne
    <2>3. CASE UNCHANGED <<pstate, pending, sent>>
      BY <2>3, SilentSignals
    <2> QED
      BY <1>3, <2>1, <2>2, <2>3
      DEF MonitorStep, MonitorNext, MonitorRuns, MonitorUnblocks, MonitorNoticesRunnerDied,
          MonitorSelects, MonitorSelectReturns, MonitorSeesClient, MonitorHandlesClient,
          MonitorThrows, MonitorGivesUp, MonitorLogs, MonitorExits, MonitorDiesOfSignal
  <1>4. CASE EnvironmentStep
    <2>1. ASSUME NEW s \in AdminSignals, AdminSends(s) PROVE OthersOnlySignal
      <3>1. /\ pstate' = pstate /\ sent' = [sent EXCEPT ![s] = @ + 1]
            /\ pending' = [pending EXCEPT ![Overseer] = @ \cup {s}]
        BY <2>1, ProcsLemma DEF AdminSends, Posted
      <3>2. /\ pending'[Overseer] = pending[Overseer] \cup {s}
            /\ \A t \in AdminSignals : sent'[t] = IF t = s THEN sent[t] + 1 ELSE sent[t]
            /\ \A t \in AdminSignals : sent[t] \in Nat
        BY <3>1, ProcsLemma DEF TypeOK, HostTypeOK
      <3> QED
        BY <3>1, <3>2 DEF OthersOnlySignal
    <2>2. CASE TerminalInterrupts
      <3>1. /\ pstate' = pstate /\ sent' = [sent EXCEPT !["SIGINT"] = @ + 1]
            /\ pending'[Overseer] = pending[Overseer] \cup {"SIGINT"}
        BY <2>2, ProcsLemma DEF TerminalInterrupts
      <3>2. /\ \A t \in AdminSignals : sent'[t] = IF t = "SIGINT" THEN sent[t] + 1 ELSE sent[t]
            /\ \A t \in AdminSignals : sent[t] \in Nat
        BY <3>1 DEF TypeOK, HostTypeOK
      <3> QED
        BY <3>1, <3>2 DEF OthersOnlySignal
    <2>3. ASSUME NEW p \in Children, ChildCrashes(p) PROVE OthersOnlySignal
      BY <2>3, ChildEndsSignals DEF ChildCrashes
    <2>4. CASE ClientConnects
      BY <2>4, SilentSignals DEF ClientConnects
    <2> QED
      BY <1>4, <2>1, <2>2, <2>3, <2>4 DEF EnvironmentStep
  <1> QED
    BY <1>1, <1>2, <1>3, <1>4

\* Such a step loses no wake-up.
LEMMA OthersWake ==
    ASSUME TypeOK, TypeOK', WakeInv, UNCHANGED overseerVars, ChildrenMayEnd, OthersOnlySignal
    PROVE  WakeInv'
  <1> USE DEF overseerVars, pidVars, flagVars, killVars
  <1>1. /\ "SIGINT" \in AdminSignals
        /\ sent["SIGINT"] \in Nat /\ sent'["SIGINT"] \in Nat
        /\ sent["SIGINT"] <= sent'["SIGINT"]
        /\ "SIGINT" \in pending'[Overseer] => \/ "SIGINT" \in pending[Overseer]
                                              \/ sent["SIGINT"] < sent'["SIGINT"]
    BY DEF TypeOK, HostTypeOK, OthersOnlySignal, AdminSignals
  <1>2. /\ Towards("clear_fast")' <=> Towards("clear_fast")
        /\ Towards("clear_smart")' <=> Towards("clear_smart")
    BY DEF Towards
  <1>3. FastWasSent'
    BY <1>1, <1>2 DEF WakeInv, FastWasSent
  <1>4. NothingHandledYet'
    BY DEF WakeInv, NothingHandledYet, OthersOnlySignal
  <1>5. PipeTellsOfRequests'
    <2>1. sent'["SIGINT"] = 0 => sent["SIGINT"] = 0
      BY <1>1
    <2> QED
      BY <1>2, <2>1 DEF WakeInv, PipeTellsOfRequests
  <1>6. PipeTellsOfDeaths'
    <2>1. Alive(Overseer)' <=> Alive(Overseer)
      BY ProcsLemma DEF ChildrenMayEnd, Alive
    <2> QED
      BY <2>1 DEF WakeInv, PipeTellsOfDeaths, OthersOnlySignal, At
  <1> QED
    BY <1>3, <1>4, <1>5, <1>6 DEF WakeInv

\* An overseer that is on its way out, or gone, does not sleep in select() again.
LEMMA OutWake ==
    ASSUME WakeInv, UNCHANGED <<sent, fast_shutdown>>,
           "SIGINT" \in pending'[Overseer] => "SIGINT" \in pending[Overseer],
           \/ opc' \in LogPcs \cup {"panic_exit", "quit_exit"} \cup FinalPcs
           \/ opc' = "kill" /\ kill_next' \in {"panic_exit", "quit_exit"}
    PROVE  WakeInv'
  <1>1. ~Towards("clear_fast")' /\ ~Towards("clear_smart")'
    BY DEF Towards, FinalPcs, LogPcs
  <1>2. opc' \notin StartupPcs \cup {"wait", "reaped", "select"}
    BY DEF FinalPcs, StartupPcs, LogPcs
  <1> QED
    BY <1>1, <1>2 DEF WakeInv, FastWasSent, NothingHandledYet, PipeTellsOfRequests,
                      PipeTellsOfDeaths, At

\* An overseer that has left the select() behind it has yet to look at the flags.
LEMMA AwakeWake ==
    ASSUME WakeInv, opc' \in {"drain", "flags"}, UNCHANGED <<sent, fast_shutdown>>,
           "SIGINT" \in pending'[Overseer] => "SIGINT" \in pending[Overseer]
    PROVE  WakeInv'
  <1>1. ~Towards("clear_fast")' /\ ~Towards("clear_smart")'
    BY DEF Towards
  <1>2. opc' \notin StartupPcs \cup {"wait", "reaped", "select"}
    BY DEF StartupPcs
  <1> QED
    BY <1>1, <1>2 DEF WakeInv, FastWasSent, NothingHandledYet, PipeTellsOfRequests,
                      PipeTellsOfDeaths, At

\* While the signals are blocked, nothing is taken from what is pending.
LEMMA StartupWake ==
    ASSUME TypeOK, WakeInv, OverseerStartup
    PROVE  WakeInv'
  <1> USE DEF hostVars, flagVars, killVars
  <1>0. At(opc) /\ opc \in StartupPcs
    BY DEF OverseerStartup, LoadApplication, SpawnAuxiliaryProcess, AuxiliariesSpawned,
           SpawnWorker, WorkersSpawned, SpawnMonitoringProcess, InstallHandlers, At, StartupPcs
  <1>1. UNCHANGED <<pending, sent, fast_shutdown, smart_shutdown, self_pipe>>
    BY DEF OverseerStartup, LoadApplication, SpawnAuxiliaryProcess, AuxiliariesSpawned,
           SpawnWorker, WorkersSpawned, SpawnMonitoringProcess, InstallHandlers
  <1>2. opc' \in StartupPcs \cup {"select"}
    BY <1>0 DEF OverseerStartup, LoadApplication, SpawnAuxiliaryProcess, AuxiliariesSpawned,
           SpawnWorker, WorkersSpawned, SpawnMonitoringProcess, InstallHandlers, GoTo, StartupPcs
  <1>3. pstate' = pstate \/ \E ps \in SUBSET Children : pstate' = Forked(ps)
    BY ProcsLemma
    DEF OverseerStartup, LoadApplication, SpawnAuxiliaryProcess, AuxiliariesSpawned,
        SpawnWorker, WorkersSpawned, SpawnMonitoringProcess, InstallHandlers
  <1>4. \A p \in Children : pstate'[p] = "zombie" => pstate[p] = "zombie"
    BY <1>3, ProcsLemma DEF Forked
  <1>5. ~Towards("clear_fast")' /\ ~Towards("clear_smart")'
    BY <1>2 DEF Towards, StartupPcs
  <1>6. FastWasSent'
    BY <1>1, <1>5 DEF WakeInv, FastWasSent
  <1>7. NothingHandledYet'
    <2>1. opc' \in StartupPcs => signals_blocked' = signals_blocked
      BY <1>0 DEF OverseerStartup, LoadApplication, SpawnAuxiliaryProcess, AuxiliariesSpawned,
             SpawnWorker, WorkersSpawned, SpawnMonitoringProcess, InstallHandlers, GoTo, StartupPcs
    <2> QED
      BY <1>0, <1>1, <1>4, <2>1 DEF WakeInv, NothingHandledYet
  <1>8. PipeTellsOfRequests' /\ PipeTellsOfDeaths'
    BY <1>0, <1>1, <1>4, <1>5
    DEF WakeInv, NothingHandledYet, PipeTellsOfRequests, PipeTellsOfDeaths
  <1> QED
    BY <1>6, <1>7, <1>8 DEF WakeInv

\* A handler that returns has written its byte.
LEMMA HandlersWake ==
    ASSUME TypeOK, WakeInv, OverseerHandlers
    PROVE  WakeInv'
  <1> USE DEF flagVars, killVars, pidVars
  <1>1. CASE HandleSIGQUIT
    <2>1. pending' = Delivered(Overseer, "SIGQUIT")
      BY <1>1 DEF HandleSIGQUIT, Handles
    <2>2. "SIGINT" \in pending'[Overseer] => "SIGINT" \in pending[Overseer]
      BY <2>1, ProcsLemma DEF Delivered, TypeOK, HostTypeOK
    <2> QED
      BY <1>1, <2>2, OutWake DEF HandleSIGQUIT, KillProcessGroup, GoTo
  <1>2. CASE HandleSIGTERM \/ HandleSIGINT \/ HandleSIGCHLD
    <2>1. /\ UNCHANGED <<sent, kill_next>> /\ self_pipe' > 0
          /\ opc' = opc \/ opc' = "flags"
      BY <1>2, OverseerAssumption
      DEF HandleSIGTERM, HandleSIGINT, HandleSIGCHLD, WakeMainLoop, TypeOK, OverseerTypeOK
    <2>2. opc \notin StartupPcs
      BY <1>2 DEF HandleSIGTERM, HandleSIGINT, HandleSIGCHLD, Handles, WakeInv,
                  NothingHandledYet
    <2>3. /\ "SIGINT" \in pending'[Overseer] => "SIGINT" \in pending[Overseer]
          /\ fast_shutdown' = 1 => fast_shutdown = 1 \/ "SIGINT" \in pending[Overseer]
      BY <1>2, ProcsLemma
      DEF HandleSIGTERM, HandleSIGINT, HandleSIGCHLD, Handles, Delivered, TypeOK, HostTypeOK
    <2>4. self_pipe' # 0 /\ opc' \notin StartupPcs
      BY <2>1, <2>2 DEF StartupPcs
    <2>5. FastWasSent'
      BY <2>1, <2>3 DEF WakeInv, FastWasSent, Towards
    <2> QED
      BY <2>4, <2>5 DEF WakeInv, NothingHandledYet, PipeTellsOfRequests, PipeTellsOfDeaths
  <1> QED
    BY <1>1, <1>2 DEF OverseerHandlers

\* The main loop, from select() to waitpid(): what it turns to next, and on what grounds.
LEMMA LoopWake ==
    ASSUME TypeOK, WakeInv,
           \/ SelectTimesOut \/ SelectReady \/ DrainSelfPipe
           \/ CheckFlags \/ ClearFastShutdown \/ ClearSmartShutdown
           \/ WaitFindsNone \/ KillReturns
           \/ \E p \in Children : WaitReaps(p) \/ KillOne(p)
    PROVE  WakeInv'
  <1> USE DEF hostVars, flagVars, killVars, pidVars, At, GoTo
  <1>1. CASE SelectTimesOut \/ SelectReady \/ DrainSelfPipe
    BY <1>1, AwakeWake DEF SelectTimesOut, SelectReady, DrainSelfPipe
  <1>2. CASE CheckFlags
    <2>1. UNCHANGED <<pending, sent, flagVars, self_pipe>>
      BY <1>2 DEF CheckFlags
    <2>2. \/ fast_shutdown = 1 /\ opc' = "kill" /\ kill_next' = "clear_fast"
          \/ fast_shutdown = 0 /\ opc' = "kill" /\ kill_next' = "clear_smart"
          \/ fast_shutdown = 0 /\ smart_shutdown = 0 /\ opc' = "wait"
      BY <1>2 DEF CheckFlags, KillProcessGroup
    <2>3. FastWasSent'
      BY <2>1, <2>2 DEF WakeInv, FastWasSent, Towards
    <2> QED
      BY <2>1, <2>2, <2>3 DEF WakeInv, NothingHandledYet, PipeTellsOfRequests,
                              PipeTellsOfDeaths, Towards, StartupPcs
  <1>3. CASE ClearFastShutdown
    <2>1. /\ opc = "clear_fast" /\ opc' = "wait" /\ fast_shutdown' = 0
          /\ UNCHANGED <<pending, sent>>
      BY <1>3 DEF ClearFastShutdown
    <2>2. sent["SIGINT"] > 0 /\ sent'["SIGINT"] # 0
      BY <2>1 DEF WakeInv, FastWasSent, Towards
    <2> QED
      BY <2>1, <2>2 DEF WakeInv, FastWasSent, NothingHandledYet, PipeTellsOfRequests,
                        PipeTellsOfDeaths, Towards, StartupPcs
  <1>4. CASE ClearSmartShutdown
    BY <1>4 DEF ClearSmartShutdown, WakeInv, FastWasSent, NothingHandledYet,
                PipeTellsOfRequests, PipeTellsOfDeaths, Towards, StartupPcs
  <1>5. CASE WaitFindsNone
    BY <1>5 DEF WaitFindsNone, WakeInv, FastWasSent, NothingHandledYet,
                PipeTellsOfRequests, PipeTellsOfDeaths, Towards, StartupPcs
  <1>6. CASE KillReturns
    <2>1. opc = "kill" /\ opc' = kill_next /\ UNCHANGED <<pending, sent, flagVars, self_pipe, kill_next>>
      BY <1>6 DEF KillReturns
    <2>2. opc' \in {"clear_fast", "clear_smart", "panic_exit", "quit_exit"}
      BY <2>1 DEF TypeOK, OverseerTypeOK, AfterKill
    <2> QED
      BY <2>1, <2>2 DEF WakeInv, FastWasSent, NothingHandledYet,
                PipeTellsOfRequests, PipeTellsOfDeaths, Towards, StartupPcs
  <1>7. ASSUME NEW p \in Children, WaitReaps(p) PROVE WakeInv'
    BY <1>7 DEF WaitReaps, WakeInv, FastWasSent, NothingHandledYet,
                PipeTellsOfRequests, PipeTellsOfDeaths, Towards, StartupPcs
  <1>8. ASSUME NEW p \in Children, KillOne(p) PROVE WakeInv'
    <2>1. opc = "kill" /\ UNCHANGED <<opc, kill_next, sent, flagVars, self_pipe>>
      BY <1>8 DEF KillOne
    <2>2. pending'[Overseer] = pending[Overseer]
      BY <1>8, ProcsLemma DEF KillOne, Posted, TypeOK, HostTypeOK
    <2> QED
      BY <2>1, <2>2 DEF WakeInv, FastWasSent, NothingHandledYet,
                PipeTellsOfRequests, PipeTellsOfDeaths, Towards, StartupPcs
  <1> QED
    BY <1>1, <1>2, <1>3, <1>4, <1>5, <1>6, <1>7, <1>8

\* A dead child is forgotten, and waitpid() asked again; or the overseer is on its way out.
LEMMA DeathWake ==
    ASSUME TypeOK, WakeInv, HandleChildProcessDeath
    PROVE  WakeInv'
  <1> USE DEF hostVars, flagVars, killVars, At, GoTo
  <1>1. opc = "reaped" /\ UNCHANGED <<pending, sent, flagVars, self_pipe>>
    BY DEF HandleChildProcessDeath
  <1>2. CASE ForgetChild
    BY <1>1, <1>2 DEF ForgetChild, WakeInv, FastWasSent, NothingHandledYet,
                      PipeTellsOfRequests, PipeTellsOfDeaths, Towards, StartupPcs
  <1>3. CASE HandleUnexpectedChildProcessDeath \/ HandleUnknownChildDeath
    BY <1>1, <1>3, PanicType, OutWake
    DEF HandleUnexpectedChildProcessDeath, HandleUnknownChildDeath, LogPcs
  <1> QED
    BY <1>2, <1>3 DEF HandleChildProcessDeath

\* The ends of the overseer, and the failures that lead to them.
LEMMA EndWake ==
    ASSUME TypeOK, WakeInv,
           \/ WaitFindsNoChildren \/ LogsAndKills \/ LogsUnknownChild
           \/ ExitsAfterKill \/ OverseerFailures
    PROVE  WakeInv'
  <1> USE DEF hostVars, flagVars, killVars, GoTo
  <1>1. CASE SetUpFailsEarly \/ SetUpFails \/ SystemCallFails
    BY <1>1, PanicType, OutWake DEF SetUpFailsEarly, SetUpFails, SystemCallFails, LogPcs
  <1>3. CASE LogsAndKills \/ LogsUnknownChild
    BY <1>3, OutWake DEF LogsAndKills, LogsUnknownChild, KillProcessGroup
  <1>2. ASSUME NEW final \in FinalPcs, Exits(final) PROVE WakeInv'
    <2>1. pending'[Overseer] = {}
      BY <1>2, ProcsLemma DEF Exits, OverseerEnds
    <2> QED
      BY <1>2, <2>1, OutWake DEF Exits
  <1> QED
    BY <1>1, <1>2, <1>3 DEF WaitFindsNoChildren, ExitsAfterKill, OverseerFailures, LoadFails,
                            ForkFailsWithInterpreter, OverseerCrashes, FinalPcs

\* No step loses a wake-up.
LEMMA StepWake == TypeOK /\ TypeOK' /\ WakeInv /\ [Next]_vars => WakeInv'
  <1> SUFFICES ASSUME TypeOK, TypeOK', WakeInv, [Next]_vars PROVE WakeInv'
    OBVIOUS
  <1>1. CASE OverseerStep
    BY <1>1, StartupWake, HandlersWake, LoopWake, DeathWake, EndWake
    DEF OverseerStep, OverseerNext, OverseerMain
  <1>2. CASE \/ \E w \in Workers : WorkerStep(w)
             \/ \E a \in Auxiliaries : AuxStep(a)
             \/ MonitorStep
             \/ EnvironmentStep
    BY <1>2, OthersFrame, OthersSignals, OthersWake
  <1>3. CASE UNCHANGED vars
    BY <1>3 DEF vars, hostVars, overseerVars, flagVars, killVars, WakeInv, FastWasSent,
                NothingHandledYet, PipeTellsOfRequests, PipeTellsOfDeaths, Towards, At, Alive
  <1> QED
    BY <1>1, <1>2, <1>3 DEF Next

\* At first nobody has sent anything, and there is nobody to die.
LEMMA InitWake == Init => WakeInv
  BY ProcsLemma DEF Init, HostInit, OverseerInit, WakeInv, FastWasSent, NothingHandledYet,
     PipeTellsOfRequests, PipeTellsOfDeaths, Towards, At, StartupPcs

\* Whatever a handler interrupts, and whichever step comes after it, an overseer that is
\* about to sleep in select() with an empty pipe has no fast shutdown to act upon, no dead
\* child whose signal was handled, and a smart shutdown only if a SIGINT was sent too.
THEOREM WakeUps == Spec => []NoLostWakeup
  <1>1. WakeInv => NoLostWakeup
    BY DEF WakeInv, PipeTellsOfRequests, PipeTellsOfDeaths, NoLostWakeup, At
  <1> QED
    BY <1>1, TypeCorrectness, InitWake, StepWake, PTL DEF Spec

---------------------------------------------------------------------------
(* Graceful shutdown *)

\* The overseer sends nothing to itself.
LEMMA OverseerSendsNothing ==
    ASSUME OverseerNext
    PROVE  UNCHANGED sent
  <1> USE DEF hostVars
  <1>1. OverseerStartup \/ OverseerHandlers => UNCHANGED sent
    BY DEF OverseerStartup, LoadApplication, SpawnAuxiliaryProcess, AuxiliariesSpawned,
           SpawnWorker, WorkersSpawned, SpawnMonitoringProcess, InstallHandlers,
           OverseerHandlers, HandleSIGTERM, HandleSIGINT, HandleSIGCHLD, HandleSIGQUIT,
           WakeMainLoop
  <1>2. OverseerMain => UNCHANGED sent
    BY DEF OverseerMain, SelectTimesOut, SelectReady, DrainSelfPipe, CheckFlags,
           ClearFastShutdown, ClearSmartShutdown, WaitReaps, WaitFindsNone,
           WaitFindsNoChildren, HandleChildProcessDeath, LogsAndKills, LogsUnknownChild, KillOne, KillReturns,
           ExitsAfterKill, Exits
  <1>3. OverseerFailures => UNCHANGED sent
    BY DEF OverseerFailures, SetUpFailsEarly, SetUpFails, LoadFails, ForkFailsWithInterpreter,
           SystemCallFails, OverseerCrashes, Exits
  <1> QED
    BY <1>1, <1>2, <1>3 DEF OverseerNext

\* A gentle history was always gentle.
LEMMA GentleMonotone ==
    ASSUME TypeOK, TypeOK', [Next]_vars, Gentle'
    PROVE  Gentle /\ Quiet /\ Quiet'
  <1>1. Quiet /\ Quiet'
    BY QuietMonotone DEF Gentle, Quiet
  <1>2. \A s \in AdminSignals : sent[s] \in Nat /\ sent'[s] \in Nat
    BY DEF TypeOK, HostTypeOK
  <1>3. \A s \in AdminSignals : sent[s] <= sent'[s]
    <2>1. CASE OverseerStep \/ UNCHANGED vars
      BY <1>2, <2>1, OverseerSendsNothing DEF OverseerStep, vars, hostVars
    <2>2. CASE ~OverseerStep /\ Next
      BY <2>2, OthersSignals DEF Next, OthersOnlySignal
    <2> QED
      BY <2>1, <2>2
  <1>4. sent["SIGTERM"] <= 1 /\ sent["SIGINT"] = 0
    BY <1>2, <1>3 DEF Gentle, AdminSignals
  <1> QED
    BY <1>1, <1>4 DEF Gentle, Quiet

\* The budget is kept by a step that notes no SIGTERM anew: one that came in was counted,
\* and the overseer acts on the flag only while it is up.
LEMMA BudgetKept ==
    ASSUME TypeOK, TypeOK', TermBudget, UNCHANGED <<smart_shutdown, force_fast_shutdown>>,
           sent["SIGTERM"] <= sent'["SIGTERM"],
           \/ "SIGTERM" \in pending'[Overseer] => "SIGTERM" \in pending[Overseer]
           \/ sent["SIGTERM"] < sent'["SIGTERM"],
           Towards("clear_smart")' => Towards("clear_smart") \/ smart_shutdown = 1
    PROVE  TermBudget'
  <1>1. /\ sent["SIGTERM"] \in Nat /\ sent'["SIGTERM"] \in Nat
        /\ smart_shutdown \in {0, 1} /\ force_fast_shutdown \in {0, 1}
    BY DEF TypeOK, HostTypeOK, OverseerTypeOK, AdminSignals
  <1> QED
    BY <1>1 DEF TermBudget

\* The handler moves a SIGTERM from the pending set to the flag, the main loop from the
\* flag to force_fast_shutdown; nothing else touches them.
LEMMA OverseerBudget ==
    ASSUME TypeOK, TypeOK', TermBudget, OverseerNext
    PROVE  TermBudget'
  <1> USE DEF hostVars, flagVars, killVars, pidVars, At, GoTo
  <1>0. /\ UNCHANGED sent /\ sent["SIGTERM"] \in Nat
        /\ smart_shutdown \in {0, 1} /\ force_fast_shutdown \in {0, 1}
    BY OverseerSendsNothing DEF TypeOK, HostTypeOK, OverseerTypeOK, AdminSignals
  <1>1. CASE HandleSIGTERM
    <2>1. /\ "SIGTERM" \in pending[Overseer] /\ "SIGTERM" \notin pending'[Overseer]
          /\ smart_shutdown' = 1 /\ UNCHANGED force_fast_shutdown
      BY <1>1, ProcsLemma DEF HandleSIGTERM, Handles, Delivered, TypeOK, HostTypeOK
    <2> QED
      BY <1>0, <2>1 DEF TermBudget
  <1>2. CASE ClearSmartShutdown
    <2>1. /\ opc = "clear_smart" /\ opc' = "wait" /\ UNCHANGED pending
          /\ smart_shutdown' = 0 /\ force_fast_shutdown' = 1
      BY <1>2 DEF ClearSmartShutdown
    <2>2. smart_shutdown = 1
      BY <2>1 DEF TermBudget, Towards
    <2> QED
      BY <1>0, <2>1, <2>2 DEF TermBudget, Towards
  <1>3. CASE HandleSIGINT \/ HandleSIGCHLD \/ HandleSIGQUIT
    <2>1. "SIGTERM" \in pending'[Overseer] => "SIGTERM" \in pending[Overseer]
      BY <1>3, ProcsLemma
      DEF HandleSIGINT, HandleSIGCHLD, HandleSIGQUIT, Handles, Delivered, TypeOK, HostTypeOK
    <2>2. /\ UNCHANGED <<smart_shutdown, force_fast_shutdown>>
          /\ Towards("clear_smart")' => Towards("clear_smart")
      BY <1>3 DEF HandleSIGINT, HandleSIGCHLD, HandleSIGQUIT, WakeMainLoop, KillProcessGroup,
                  Towards
    <2> QED
      BY <1>0, <2>1, <2>2, BudgetKept
  <1>4. CASE OverseerStartup
    <2>1. /\ UNCHANGED <<pending, smart_shutdown, force_fast_shutdown>>
          /\ opc' \in StartupPcs \cup {"select"}
      BY <1>4 DEF OverseerStartup, LoadApplication, SpawnAuxiliaryProcess, AuxiliariesSpawned,
             SpawnWorker, WorkersSpawned, SpawnMonitoringProcess, InstallHandlers, StartupPcs
    <2>2. ~Towards("clear_smart")'
      BY <2>1 DEF Towards, StartupPcs
    <2> QED
      BY <1>0, <2>1, <2>2, BudgetKept
  <1>5. CASE \/ SelectTimesOut \/ SelectReady \/ DrainSelfPipe \/ CheckFlags
             \/ ClearFastShutdown \/ WaitFindsNone \/ KillReturns
             \/ \E p \in Children : WaitReaps(p)
             \/ HandleChildProcessDeath \/ LogsAndKills \/ LogsUnknownChild
             \/ SetUpFailsEarly \/ SetUpFails \/ SystemCallFails
    <2>1. UNCHANGED <<pending, smart_shutdown, force_fast_shutdown>>
      BY <1>5 DEF SelectTimesOut, SelectReady, DrainSelfPipe, CheckFlags, ClearFastShutdown,
                  WaitFindsNone, KillReturns, WaitReaps, HandleChildProcessDeath, LogsAndKills,
                  LogsUnknownChild, SetUpFailsEarly, SetUpFails, SystemCallFails
    <2>2. Towards("clear_smart")' => Towards("clear_smart") \/ smart_shutdown = 1
      BY <1>5, PanicType
      DEF SelectTimesOut, SelectReady, DrainSelfPipe, CheckFlags, ClearFastShutdown,
          WaitFindsNone, KillReturns, WaitReaps, HandleChildProcessDeath, LogsAndKills,
          LogsUnknownChild, SetUpFailsEarly, SetUpFails, SystemCallFails, KillProcessGroup,
          HandleUnexpectedChildProcessDeath, HandleUnknownChildDeath, ForgetChild, Towards
    <2> QED
      BY <1>0, <2>1, <2>2, BudgetKept
  <1>6. ASSUME NEW p \in Children, KillOne(p) PROVE TermBudget'
    <2>1. pending'[Overseer] = pending[Overseer]
      BY <1>6, ProcsLemma DEF KillOne, Posted, TypeOK, HostTypeOK
    <2> QED
      BY <1>0, <1>6, <2>1, BudgetKept DEF KillOne, Towards
  <1>7. ASSUME NEW final \in FinalPcs, Exits(final) PROVE TermBudget'
    <2>1. pending'[Overseer] = {}
      BY <1>7, ProcsLemma DEF Exits, OverseerEnds
    <2> QED
      BY <1>0, <1>7, <2>1, BudgetKept DEF Exits, Towards, FinalPcs
  <1> QED
    BY <1>1, <1>2, <1>3, <1>4, <1>5, <1>6, <1>7
    DEF OverseerNext, OverseerHandlers, OverseerMain, OverseerFailures, WaitFindsNoChildren,
        ExitsAfterKill, LoadFails, ForkFailsWithInterpreter, OverseerCrashes, FinalPcs

\* Every step keeps the budget.
LEMMA StepBudget == TypeOK /\ TypeOK' /\ TermBudget /\ [Next]_vars => TermBudget'
  <1> SUFFICES ASSUME TypeOK, TypeOK', TermBudget, [Next]_vars PROVE TermBudget'
    OBVIOUS
  <1>1. CASE OverseerStep
    BY <1>1, OverseerBudget DEF OverseerStep
  <1>2. CASE \/ \E w \in Workers : WorkerStep(w)
             \/ \E a \in Auxiliaries : AuxStep(a)
             \/ MonitorStep
             \/ EnvironmentStep
    <2>1. UNCHANGED overseerVars /\ OthersOnlySignal
      BY <1>2, OthersFrame, OthersSignals
    <2> QED
      BY <2>1, BudgetKept
      DEF OthersOnlySignal, AdminSignals, overseerVars, flagVars, killVars, Towards
  <1>3. CASE UNCHANGED vars
    BY <1>3 DEF vars, hostVars, overseerVars, flagVars, killVars, TermBudget, Towards
  <1> QED
    BY <1>1, <1>2, <1>3 DEF Next

\* A step keeps GracefulInv if it sends no worker SIGQUIT, if a worker that ends in it is at
\* the top of its loop, and if KillProcessGroup is entered with SIGTERM.
LEMMA GracefulKept ==
    ASSUME GracefulInv, Gentle,
           \A w \in Workers :
               /\ "SIGQUIT" \in pending'[w] => "SIGQUIT" \in pending[w]
               /\ Gone(w)' => (Gone(w) /\ wpc'[w] = wpc[w]) \/ wpc'[w] = "check",
           opc' = "kill" => (opc = "kill" /\ kill_sig' = kill_sig) \/ kill_sig' = "SIGTERM"
    PROVE  GracefulInv'
  BY DEF GracefulInv

\* The end of a child is no other worker's.
LEMMA ChildEndsWorkers ==
    ASSUME TypeOK, NEW p \in Children, ChildEnds(p)
    PROVE  \A w \in Workers \ {p} : pending'[w] = pending[w] /\ pstate'[w] = pstate[w]
  BY ProcsLemma DEF ChildEnds, TypeOK, HostTypeOK

\* A worker that nobody sent SIGQUIT leaves at the top of its loop.
LEMMA WorkerGraceful ==
    ASSUME TypeOK, GracefulInv, Gentle, Gentle', NEW w \in Workers, WorkerStep(w)
    PROVE  GracefulInv'
  <1> USE DEF hostVars, sharedVars, workerVars, WorkerAt, WorkerGoesTo
  <1>0. /\ w \in Children /\ w \in Procs /\ Workers \subseteq Procs
        /\ UNCHANGED <<opc, kill_sig>>
        /\ "SIGQUIT" \notin pending[w]
        /\ wpc \in [Workers -> {"init", "armed", "check", "calling", "accepting", "app", "count"}]
        /\ pending \in [Procs -> SUBSET Signals]
    BY ProcsLemma DEF WorkerStep, overseerVars, killVars, GracefulInv, TypeOK, HostTypeOK,
                      WorkerTypeOK
  <1>1. CASE WorkerLeaves(w)
    <2>1. ChildEnds(w) /\ wpc' = wpc /\ wpc[w] = "check"
      BY <1>1 DEF WorkerLeaves
    <2>2. pending'[w] = {}
      BY <1>0, <2>1 DEF ChildEnds
    <2>3. \A v \in Workers :
              /\ "SIGQUIT" \in pending'[v] => "SIGQUIT" \in pending[v]
              /\ Gone(v)' => (Gone(v) /\ wpc'[v] = wpc[v]) \/ wpc'[v] = "check"
      BY <1>0, <2>1, <2>2, ChildEndsWorkers DEF Gone
    <2> QED
      BY <1>0, <2>3, GracefulKept
  <1>2. CASE WorkerHandlesSIGQUIT(w) \/ AppDies(w)
    BY <1>0, <1>2 DEF WorkerHandlesSIGQUIT, AppDies, ChildCrashes, Fails, Gentle
  <1>3. CASE \/ WorkerSubprocessInit(w) \/ WorkerUnblocks(w) \/ WorkerCallsCallback(w)
             \/ WorkerBlocksInAccept(w) \/ WorkerAccepts(w) \/ WorkerAcceptFails(w)
             \/ WorkerCounts(w) \/ WorkerHandlesSIGTERM(w) \/ AppFinishes(w)
             \/ \E s \in AppStatuses : AppSetsStatus(w, s)
    <2>1. pstate' = pstate /\ pstate[w] = "alive"
      BY <1>3 DEF WorkerSubprocessInit, WorkerUnblocks, WorkerCallsCallback,
                  WorkerBlocksInAccept, WorkerAccepts, WorkerAcceptFails, WorkerCounts, WorkerHandlesSIGTERM,
                  AppFinishes, AppSetsStatus, Alive
    <2>2. \A v \in Workers \ {w} : wpc'[v] = wpc[v]
      BY <1>0, <1>3 DEF WorkerSubprocessInit, WorkerUnblocks, WorkerCallsCallback,
                  WorkerBlocksInAccept, WorkerAccepts, WorkerAcceptFails, WorkerCounts, WorkerHandlesSIGTERM,
                  AppFinishes, AppSetsStatus
    <2>3. pending' = pending \/ pending' = Delivered(w, "SIGTERM")
      BY <1>3 DEF WorkerSubprocessInit, WorkerUnblocks, WorkerCallsCallback,
                  WorkerBlocksInAccept, WorkerAccepts, WorkerAcceptFails, WorkerCounts, WorkerHandlesSIGTERM,
                  AppFinishes, AppSetsStatus
    <2>4. \A v \in Workers :
              /\ "SIGQUIT" \in pending'[v] => "SIGQUIT" \in pending[v]
              /\ Gone(v)' => (Gone(v) /\ wpc'[v] = wpc[v]) \/ wpc'[v] = "check"
      BY <1>0, <2>1, <2>2, <2>3 DEF Delivered, Gone
    <2> QED
      BY <1>0, <2>4, GracefulKept
  <1> QED
    BY <1>1, <1>2, <1>3 DEF WorkerStep, WorkerNext, WorkerRuns, WorkerHandlers

\* The auxiliary processes, the monitoring process and the environment end no worker and
\* send none SIGQUIT unless something fails.
LEMMA OthersGraceful ==
    ASSUME TypeOK, QuietInv, GracefulInv, Gentle, Gentle',
           \/ \E a \in Auxiliaries : AuxStep(a)
           \/ MonitorStep
           \/ EnvironmentStep
    PROVE  GracefulInv'
  <1> USE DEF hostVars, workerVars, overseerVars, killVars
  <1>0. /\ Workers \subseteq Procs /\ Workers \subseteq Children
        /\ \A a \in Auxiliaries : a \in Children /\ a \notin Workers
        /\ Monitor \in Children /\ Monitor \notin Workers
        /\ Overseer \notin Workers
        /\ Quiet /\ pending \in [Procs -> SUBSET Signals]
    BY ProcsLemma, ProcessesAssumption DEF Gentle, Quiet, TypeOK, HostTypeOK
  <1>1. UNCHANGED <<wpc, opc, kill_sig>>
    BY DEF AuxStep, MonitorStep, EnvironmentStep, ClientConnects
  <1>2. CASE \E p \in Children \ Workers : ChildEnds(p)
    <2>1. \A w \in Workers : pending'[w] = pending[w] /\ pstate'[w] = pstate[w]
      BY <1>2, ChildEndsWorkers
    <2> QED
      BY <1>1, <2>1, GracefulKept DEF Gone
  <1>3. CASE UNCHANGED pstate /\ \A w \in Workers : pending'[w] \subseteq pending[w] \cup {"SIGINT"}
    BY <1>1, <1>3, GracefulKept DEF Gone
  <1>4. ASSUME NEW a \in Auxiliaries, AuxStep(a) PROVE GracefulInv'
    <2>1. ChildEnds(a) \/ UNCHANGED <<pstate, pending>>
      BY <1>4 DEF AuxStep, AuxNext, AuxRuns, AuxSubprocessInit, AuxUnblocks, AuxDiesOfSignal,
                  AuxCallbackEnds, ChildCrashes
    <2> QED
      BY <1>0, <1>2, <1>3, <2>1
  <1>5. CASE MonitorStep
    <2>1. mpc # "dying"
      BY <1>0 DEF QuietInv, QuietOverseer
    <2>2. ChildEnds(Monitor) \/ UNCHANGED <<pstate, pending>>
      BY <1>5, <2>1
      DEF MonitorStep, MonitorNext, MonitorRuns, MonitorUnblocks, MonitorNoticesRunnerDied,
          MonitorSelects, MonitorSelectReturns, MonitorSeesClient, MonitorHandlesClient,
          MonitorThrows, MonitorGivesUp, MonitorLogs, MonitorKillsOne, MonitorExits, MonitorDiesOfSignal, MonitorAt
    <2> QED
      BY <1>0, <1>2, <1>3, <2>2
  <1>6. CASE EnvironmentStep
    <2>1. ASSUME NEW s \in AdminSignals, AdminSends(s) PROVE GracefulInv'
      BY <1>0, <1>3, <2>1 DEF AdminSends, Posted
    <2>2. CASE TerminalInterrupts
      BY <1>0, <1>3, <2>2 DEF TerminalInterrupts
    <2>3. ASSUME NEW p \in Children, ChildCrashes(p) PROVE GracefulInv'
      BY <2>3 DEF ChildCrashes, Fails, Gentle
    <2>4. CASE ClientConnects
      BY <1>3, <2>4 DEF ClientConnects
    <2> QED
      BY <1>6, <2>1, <2>2, <2>3, <2>4 DEF EnvironmentStep
  <1> QED
    BY <1>4, <1>5, <1>6

\* The overseer sends SIGTERM and nothing else: neither flag can stand for a fast shutdown,
\* and it does not end before its children have.
LEMMA OverseerGraceful ==
    ASSUME TypeOK, QuietInv, QuietInv', WakeInv, TermBudget, GracefulInv, Gentle, Gentle',
           OverseerStep
    PROVE  GracefulInv'
  <1> USE DEF hostVars, flagVars, killVars, workerVars, At, GoTo
  <1>0. /\ Workers \subseteq Procs /\ Workers \subseteq Children /\ Overseer \in Procs
        /\ Overseer \notin Workers /\ Overseer \notin Children /\ Children \subseteq Procs
        /\ pending \in [Procs -> SUBSET Signals]
        /\ pstate \in [Procs -> {"unborn", "alive", "zombie", "reaped"}]
        /\ UNCHANGED wpc
    BY ProcsLemma DEF TypeOK, HostTypeOK, OverseerStep
  <1>1. Quiet /\ Quiet'
    BY DEF Gentle, Quiet
  <1>2. CASE OverseerStartup
    <2>1. UNCHANGED pending
      BY <1>2 DEF OverseerStartup, LoadApplication, SpawnAuxiliaryProcess, AuxiliariesSpawned,
                  SpawnWorker, WorkersSpawned, SpawnMonitoringProcess, InstallHandlers
    <2>2. opc' # "kill"
      BY <1>2 DEF OverseerStartup, LoadApplication, SpawnAuxiliaryProcess, AuxiliariesSpawned,
                  SpawnWorker, WorkersSpawned, SpawnMonitoringProcess, InstallHandlers
    <2>3. pstate' = pstate \/ \E ps \in SUBSET Children : pstate' = Forked(ps)
      BY <1>2, ProcsLemma
      DEF OverseerStartup, LoadApplication, SpawnAuxiliaryProcess, AuxiliariesSpawned,
          SpawnWorker, WorkersSpawned, SpawnMonitoringProcess, InstallHandlers
    <2>4. \A w \in Workers : Gone(w)' => Gone(w)
      BY <1>0, <2>3 DEF Forked, Gone
    <2> QED
      BY <1>0, <2>1, <2>2, <2>4, GracefulKept
  <1>3. CASE OverseerHandlers
    <2>1. ~HandleSIGQUIT
      BY <1>1 DEF HandleSIGQUIT, Handles, QuietInv, QuietOverseer
    <2>2. /\ UNCHANGED <<pstate, kill_sig>>
          /\ opc' = "kill" => opc = "kill"
          /\ \A w \in Workers : pending'[w] = pending[w]
      BY <1>0, <1>3, <2>1
      DEF OverseerHandlers, HandleSIGTERM, HandleSIGINT, HandleSIGCHLD, WakeMainLoop, Handles,
          Delivered
    <2> QED
      BY <1>0, <2>2, GracefulKept DEF Gone
  <1>4. CASE CheckFlags
    <2>1. fast_shutdown # 1
      BY DEF WakeInv, FastWasSent, Gentle
    <2>2. smart_shutdown = 1 => force_fast_shutdown # 1
      BY DEF TermBudget, Gentle, TypeOK, HostTypeOK, AdminSignals
    <2>3. UNCHANGED <<pstate, pending>> /\ (opc' = "kill" => kill_sig' = "SIGTERM")
      BY <1>4, <2>1, <2>2 DEF CheckFlags, KillProcessGroup
    <2> QED
      BY <1>0, <2>3, GracefulKept DEF Gone
  <1>5. CASE \/ SelectTimesOut \/ SelectReady \/ DrainSelfPipe \/ ClearFastShutdown
             \/ ClearSmartShutdown \/ WaitFindsNone \/ KillReturns
    <2>1. UNCHANGED <<pstate, pending>>
      BY <1>5 DEF SelectTimesOut, SelectReady, DrainSelfPipe, ClearFastShutdown,
                  ClearSmartShutdown, WaitFindsNone, KillReturns
    <2>2. opc' # "kill"
      BY <1>5 DEF SelectTimesOut, SelectReady, DrainSelfPipe, ClearFastShutdown,
                  ClearSmartShutdown, WaitFindsNone, KillReturns, TypeOK, OverseerTypeOK,
                  AfterKill
    <2> QED
      BY <1>0, <2>1, <2>2, GracefulKept DEF Gone
  <1>6. ASSUME NEW p \in Children, WaitReaps(p) PROVE GracefulInv'
    <2>1. /\ UNCHANGED pending /\ opc' # "kill"
          /\ \A w \in Workers : Gone(w)' => Gone(w)
      BY <1>0, <1>6 DEF WaitReaps, Gone
    <2> QED
      BY <1>0, <2>1, GracefulKept
  <1>7. ASSUME NEW p \in Children, KillOne(p) PROVE GracefulInv'
    <2>1. opc = "kill" /\ UNCHANGED <<opc, kill_sig, pstate>> /\ pending' = Posted(p, kill_sig)
      BY <1>7 DEF KillOne
    <2>2. kill_sig = "SIGTERM"
      BY <2>1 DEF GracefulInv
    <2>3. \A w \in Workers : "SIGQUIT" \in pending'[w] => "SIGQUIT" \in pending[w]
      BY <1>0, <2>1, <2>2 DEF Posted
    <2> QED
      BY <1>0, <2>1, <2>3, GracefulKept DEF Gone
  <1>8. CASE HandleChildProcessDeath
    <2>1. UNCHANGED <<pstate, pending>>
      BY <1>8 DEF HandleChildProcessDeath
    <2>2. opc' # "kill"
      BY <1>1, <1>8, PanicType
      DEF HandleChildProcessDeath, HandleUnexpectedChildProcessDeath, ForgetChild,
          HandleUnknownChildDeath, QuietInv, QuietOverseer
    <2> QED
      BY <1>0, <2>1, <2>2, GracefulKept DEF Gone
  <1>9. CASE WaitFindsNoChildren
    <2>1. /\ \A p \in Children : pstate[p] \notin {"alive", "zombie"}
          /\ OverseerEnds /\ opc' = "exit0"
      BY <1>9 DEF WaitFindsNoChildren, Exits, Unreaped
    <2>2. \A w \in Workers : pending'[w] = pending[w] /\ pstate'[w] = pstate[w]
      BY <1>0, <2>1 DEF OverseerEnds, Alive
    <2> QED
      BY <1>0, <2>1, <2>2, GracefulKept DEF Gone
  <1>10. CASE LogsAndKills \/ LogsUnknownChild \/ ExitsAfterKill \/ OverseerFailures
    BY <1>1, <1>10 DEF LogsAndKills, LogsUnknownChild, LogPcs, ExitsAfterKill, Exits, QuietInv,
                 QuietOverseer, OverseerFailures, SetUpFailsEarly, SetUpFails, LoadFails, ForkFailsWithInterpreter, SystemCallFails,
                 OverseerCrashes, Fails, Gentle
  <1> QED
    BY <1>2, <1>3, <1>4, <1>5, <1>6, <1>7, <1>8, <1>9, <1>10
    DEF OverseerStep, OverseerNext, OverseerMain

\* Every step keeps GracefulInv.
LEMMA StepGraceful ==
    TypeOK /\ TypeOK' /\ QuietInv /\ QuietInv' /\ WakeInv /\ TermBudget /\ GracefulInv
      /\ [Next]_vars => GracefulInv'
  <1> SUFFICES ASSUME TypeOK, TypeOK', QuietInv, QuietInv', WakeInv, TermBudget, GracefulInv,
                      [Next]_vars
               PROVE  GracefulInv'
    OBVIOUS
  <1>1. CASE ~Gentle'
    BY <1>1 DEF GracefulInv
  <1>2. CASE Gentle'
    <2>1. Gentle
      BY <1>2, GentleMonotone
    <2>2. CASE Next
      BY <1>2, <2>1, <2>2, OverseerGraceful, WorkerGraceful, OthersGraceful DEF Next
    <2>3. CASE UNCHANGED vars
      BY <2>1, <2>3, GracefulKept
      DEF vars, hostVars, overseerVars, killVars, workerVars, Gone
    <2> QED
      BY <2>2, <2>3
  <1> QED
    BY <1>1, <1>2

\* At first nobody was sent anything and nobody is gone.
LEMMA InitGraceful == Init => TermBudget /\ GracefulInv
  BY ProcsLemma DEF Init, HostInit, OverseerInit, TermBudget, GracefulInv, Towards, Gone,
                    AdminSignals

\* "Finish the request you're currently doing and then quit": after a single SIGTERM, and
\* if nothing fails, no worker ends but at the top of its loop, however many there are and
\* however the SIGTERM, the requests and the deaths of the others interleave.
THEOREM GracefulShutdown == Spec => []GracefulSmartShutdown
  <1>1. GracefulInv => GracefulSmartShutdown
    BY DEF GracefulInv, GracefulSmartShutdown, Gentle
  <1>2. Spec => []WakeInv
    BY TypeCorrectness, InitWake, StepWake, PTL DEF Spec
  <1>3. Spec => []TermBudget
    BY TypeCorrectness, InitGraceful, StepBudget, PTL DEF Spec
  <1> QED
    BY <1>1, <1>2, <1>3, TypeCorrectness, QuietInvariance, InitGraceful, StepGraceful, PTL
    DEF Spec

---------------------------------------------------------------------------
(* One reason in the log *)

\* p raises the flag, and has to log the reason if nobody was told to before.
Told(p) == should_exit' = 1 /\ Reasoners' = IF Reasoners = {} THEN {p} ELSE Reasoners

\* That is what the exchange does, as long as the flag is down exactly if nobody was told.
LEMMA ExchangeTells ==
    ASSUME TypeOK, ReasonInv, NEW p \in Procs, SetShouldExitImmediately(p),
           should_exit = 0 => Reasoners = {}
    PROVE  Told(p)
  <1>1. CASE should_exit = 0
    BY <1>1 DEF SetShouldExitImmediately, Told, Reasoners
  <1>2. CASE should_exit = 1
    BY <1>2 DEF SetShouldExitImmediately, Told, Reasoners, ReasonInv
  <1> QED
    BY <1>1, <1>2 DEF TypeOK, SharedTypeOK

\* Who logs what it was told to log tells nobody else.
LEMMA LoggingTellsNobody ==
    ASSUME NEW p \in Reasoners, LogsReason(p)
    PROVE  UNCHANGED should_exit /\ Reasoners' = Reasoners
  BY DEF LogsReason, Reasoners

\* Of the other processes only a living monitoring process raises the flag, and only one
\* that was told to logs.
LEMMA OthersReason ==
    ASSUME TypeOK, ReasonInv,
           \/ \E w \in Workers : WorkerStep(w)
           \/ \E a \in Auxiliaries : AuxStep(a)
           \/ MonitorStep
           \/ EnvironmentStep
    PROVE  /\ \/ UNCHANGED should_exit /\ Reasoners' = Reasoners
              \/ Told(Monitor) /\ Alive(Monitor)
           /\ Overseer \in owing' <=> Overseer \in owing
           /\ mpc' = "log" => Monitor \in Reasoners'
  <1> USE DEF sharedVars
  <1> DEFINE Unmoved == UNCHANGED <<should_exit, owing, loggers, mpc>>
  <1>0. Monitor \in Procs /\ Monitor # Overseer
    BY ProcsLemma
  <1>1. CASE Unmoved
    BY <1>1 DEF ReasonInv, OwedIsLogged, Reasoners
  <1>2. \A w \in Workers : WorkerStep(w) => Unmoved
    BY Zenon
    DEF WorkerStep, WorkerNext, WorkerRuns, WorkerHandlers, WorkerSubprocessInit,
        WorkerUnblocks, WorkerLeaves, WorkerCallsCallback, WorkerBlocksInAccept,
        WorkerAccepts, WorkerAcceptFails, WorkerCounts, AppSetsStatus, AppFinishes, AppDies,
        WorkerHandlesSIGTERM, WorkerHandlesSIGQUIT, monitorVars
  <1>3. \A a \in Auxiliaries : AuxStep(a) => Unmoved
    BY DEF AuxStep, AuxNext, AuxRuns, AuxSubprocessInit, AuxUnblocks, AuxDiesOfSignal,
           AuxCallbackEnds, monitorVars
  <1>4. EnvironmentStep => Unmoved
    BY DEF EnvironmentStep, ClientConnects, monitorVars
  <1>5. CASE MonitorNoticesRunnerDied \/ MonitorThrows
    <2>1. /\ Alive(Monitor) /\ SetShouldExitImmediately(Monitor)
          /\ mpc' = IF Monitor \in owing' THEN "log" ELSE "dying"
      BY <1>5 DEF MonitorNoticesRunnerDied, MonitorThrows, MonitorGivesUp, MonitorAt
    <2>2. Told(Monitor)
      BY <1>0, <2>1, ExchangeTells DEF ReasonInv, EarlyReason, Alive
    <2>3. Overseer \in owing' <=> Overseer \in owing
      BY <1>0, <2>1 DEF SetShouldExitImmediately
    <2> QED
      BY <2>1, <2>2, <2>3 DEF Reasoners
  <1>6. CASE MonitorLogs
    <2>1. MonitorAt("log") /\ mpc' = "dying" /\ LogsReason(Monitor)
      BY <1>6 DEF MonitorLogs
    <2>2. Monitor \in Reasoners
      BY <2>1 DEF MonitorAt, ReasonInv, OwedIsLogged
    <2>3. Overseer \in owing' <=> Overseer \in owing
      BY <1>0, <2>1 DEF LogsReason
    <2> QED
      BY <2>1, <2>2, <2>3, LoggingTellsNobody
  <1>7. ASSUME MonitorStep, ~MonitorNoticesRunnerDied, ~MonitorThrows, ~MonitorLogs
        PROVE  /\ UNCHANGED <<should_exit, owing, loggers>>
               /\ mpc' = "log" => mpc = "log"
    BY <1>7
    DEF MonitorStep, MonitorNext, MonitorRuns, MonitorUnblocks, MonitorSelects,
        MonitorSelectReturns, MonitorSeesClient, MonitorHandlesClient, MonitorKillsOne,
        MonitorExits, MonitorDiesOfSignal, monitorVars
  <1>8. CASE MonitorStep /\ ~MonitorNoticesRunnerDied /\ ~MonitorThrows /\ ~MonitorLogs
    BY <1>7, <1>8 DEF ReasonInv, OwedIsLogged, Reasoners
  <1> QED
    BY <1>1, <1>2, <1>3, <1>4, <1>5, <1>6, <1>8

\* An overseer that has left its normal course does not come back to it, calls waitpid()
\* no more and forks nobody.
LEMMA NoWayBack ==
    ASSUME TypeOK, OverseerStep, ~Normal
    PROVE  ~Normal' /\ child' = child /\ (pstate[Monitor] = "unborn" => pstate'[Monitor] = "unborn")
  <1> USE DEF hostVars, sharedVars, killVars, At, Normal, Serving, LoopPcs, StartupPcs
  <1>1. CASE OverseerStartup
    BY <1>1 DEF OverseerStartup, LoadApplication, SpawnAuxiliaryProcess, AuxiliariesSpawned,
           SpawnWorker, WorkersSpawned, SpawnMonitoringProcess, InstallHandlers
  <1>2. CASE HandleSIGTERM \/ HandleSIGINT \/ HandleSIGCHLD
    <2>1. WakeMainLoop /\ Alive(Overseer)
      BY <1>2 DEF HandleSIGTERM, HandleSIGINT, HandleSIGCHLD, Handles
    <2>2. UNCHANGED <<opc, kill_next, child, pstate>>
      BY <2>1 DEF WakeMainLoop
    <2> QED
      BY <2>1, <2>2
  <1>3. CASE HandleSIGQUIT
    BY <1>3 DEF HandleSIGQUIT, KillProcessGroup, GoTo
  <1>4. CASE \/ SelectTimesOut \/ SelectReady \/ DrainSelfPipe \/ CheckFlags
             \/ ClearFastShutdown \/ ClearSmartShutdown \/ WaitFindsNone
             \/ WaitFindsNoChildren \/ HandleChildProcessDeath
             \/ SetUpFailsEarly \/ SetUpFails \/ SystemCallFails
             \/ \E p \in Children : WaitReaps(p)
    BY <1>4 DEF SelectTimesOut, SelectReady, DrainSelfPipe, CheckFlags, ClearFastShutdown,
                ClearSmartShutdown, WaitFindsNone, WaitFindsNoChildren,
                HandleChildProcessDeath, WaitReaps, SetUpFailsEarly, SetUpFails,
                SystemCallFails
  <1>5. CASE KillReturns \/ \E p \in Children : KillOne(p)
    <2>1. /\ At("kill") /\ kill_next \in {"panic_exit", "quit_exit"}
          /\ opc' \in {opc, kill_next}
          /\ UNCHANGED <<kill_next, child, pstate>>
      BY <1>5 DEF KillReturns, KillOne, GoTo, TypeOK, OverseerTypeOK, AfterKill
    <2> QED
      BY <2>1
  <1>6. CASE ExitsAfterKill \/ LoadFails \/ ForkFailsWithInterpreter \/ OverseerCrashes
    <2>1. OverseerEnds /\ child' = child
      BY <1>6 DEF ExitsAfterKill, LoadFails, ForkFailsWithInterpreter, OverseerCrashes, Exits
    <2>2. ~Alive(Overseer)' /\ (pstate[Monitor] = "unborn" => pstate'[Monitor] = "unborn")
      BY <2>1, ProcsLemma DEF OverseerEnds, Alive, TypeOK, HostTypeOK
    <2> QED
      BY <2>1, <2>2
  <1>7. CASE LogsAndKills \/ LogsUnknownChild
    BY <1>7 DEF LogsAndKills, LogsUnknownChild, KillProcessGroup, GoTo
  <1> QED
    BY <1>1, <1>2, <1>3, <1>4, <1>5, <1>6, <1>7
    DEF OverseerStep, OverseerNext, OverseerHandlers, OverseerMain, OverseerFailures

\* A panic takes the overseer off its normal course, and it logs if it was told to.
LEMMA PanicReason ==
    ASSUME TypeOK, ReasonInv, Normal, Panic
    PROVE  /\ Told(Overseer) /\ ~Normal'
           /\ Overseer \in owing' => opc' = "log"
           /\ opc' \in LogPcs => Overseer \in owing'
  <1>1. should_exit = 0 => Reasoners = {}
    BY DEF ReasonInv, EarlyReason
  <1>2. Told(Overseer)
    BY <1>1, ProcsLemma, ExchangeTells DEF Panic
  <1>3. ~Normal'
    BY PanicType DEF Normal, Serving, LoopPcs, StartupPcs
  <1> QED
    BY <1>2, <1>3 DEF Panic, GoTo, KillProcessGroup, LogPcs

\* How the overseer comes to have a reason to log: it raises the flag, it finds an unknown
\* child, which is a stray, or it fails before there is a flag.
LEMMA OverseerReason ==
    ASSUME TypeOK, LifeInv, StartupInv, ReasonInv, OverseerStep
    PROVE  /\ \/ UNCHANGED should_exit /\ Reasoners' = Reasoners
              \/ Told(Overseer) /\ ~Normal'
              \/ /\ should_exit' = 1 /\ Reasoners' = Reasoners \cup {Overseer}
                 /\ child' \in Strays /\ ~Normal'
              \/ /\ Reasoners = {} /\ Reasoners' = {Overseer} /\ UNCHANGED should_exit
                 /\ pstate'[Monitor] = "unborn" /\ ~Normal'
           /\ opc' \in LogPcs => Overseer \in Reasoners'
           /\ Overseer \in owing' =>
                  opc' \in LogPcs \cup {"killed"} \/ sent'["SIGQUIT"] > 0
  <1> USE DEF sharedVars, hostVars
  <1>0. sent' = sent
    BY OverseerSendsNothing DEF OverseerStep
  <1> DEFINE Goal == /\ \/ UNCHANGED should_exit /\ Reasoners' = Reasoners
                        \/ Told(Overseer) /\ ~Normal'
                        \/ /\ should_exit' = 1 /\ Reasoners' = Reasoners \cup {Overseer}
                           /\ child' \in Strays /\ ~Normal'
                        \/ /\ Reasoners = {} /\ Reasoners' = {Overseer} /\ UNCHANGED should_exit
                           /\ pstate'[Monitor] = "unborn" /\ ~Normal'
                     /\ opc' \in LogPcs => Overseer \in Reasoners'
                     /\ Overseer \in owing' =>
                            opc' \in LogPcs \cup {"killed"} \/ sent'["SIGQUIT"] > 0
  <1>1. CASE /\ UNCHANGED <<should_exit, owing, loggers>>
             /\ opc' \in LogPcs => opc \in LogPcs
             /\ opc \in LogPcs => opc' \in LogPcs \cup {"killed"} \/ sent["SIGQUIT"] > 0
             /\ opc # "killed"
    BY <1>0, <1>1 DEF ReasonInv, OwedIsLogged, OverseerPays, Reasoners
  <1>2. ASSUME Panic, Normal PROVE Goal
    BY <1>2, PanicReason DEF Told, Reasoners, LogPcs
  <1>3. CASE SetUpFails \/ SystemCallFails
    <2>1. Normal
      BY <1>3 DEF SetUpFails, SystemCallFails, At, Normal, Serving, LoopPcs, StartupPcs
    <2> QED
      BY <1>2, <1>3, <2>1 DEF SetUpFails, SystemCallFails
  <1>4. CASE HandleChildProcessDeath
    <2>1. At("reaped") /\ Normal /\ JustReaped(child) /\ child' = child
      BY <1>4 DEF HandleChildProcessDeath, At, Normal, Serving, LoopPcs, JustReaped
    <2>2. CASE HandleUnexpectedChildProcessDeath
      BY <1>2, <2>1, <2>2 DEF HandleUnexpectedChildProcessDeath
    <2>3. CASE ForgetChild
      BY <1>1, <2>1, <2>3 DEF ForgetChild, GoTo, At, LogPcs
    <2>4. CASE HandleUnknownChildDeath /\ child \notin worker_pids \cup auxiliary_pids \cup {monitoring_process_pid}
      <3>1. child \in Children /\ pstate[child] = "reaped"
        BY <2>1 DEF At, LifeInv, ControlConsistent
      <3>2. child \in Strays
        BY <2>1, <2>4, <3>1 DEF LifeInv, PidsTracked, Children
      <3>3. /\ should_exit' = 1 /\ owing' = owing \cup {Overseer} /\ loggers' = loggers
            /\ opc' = "log_unknown"
        BY <2>4 DEF HandleUnknownChildDeath, GoTo
      <3>4. ~Normal'
        BY <3>3 DEF Normal, Serving, LoopPcs, StartupPcs
      <3> QED
        BY <2>1, <3>2, <3>3, <3>4 DEF Reasoners, LogPcs
    <2> QED
      BY <1>4, <2>2, <2>3, <2>4 DEF HandleChildProcessDeath
  <1>5. CASE SetUpFailsEarly
    <2>1. /\ At("load") /\ opc' = "log" /\ owing' = owing \cup {Overseer}
          /\ UNCHANGED <<should_exit, loggers, pstate>>
      BY <1>5 DEF SetUpFailsEarly, GoTo
    <2>2. Normal /\ pstate[Monitor] = "unborn"
      BY <2>1 DEF At, Normal, StartupPcs, StartupInv
    <2>3. Reasoners = {}
      BY <2>2 DEF ReasonInv, NoReasonYet, EarlyReason
    <2>4. ~Normal'
      BY <2>1 DEF Normal, Serving, LoopPcs, StartupPcs
    <2> QED
      BY <2>1, <2>2, <2>3, <2>4 DEF Reasoners, LogPcs
  <1>6. CASE LogsAndKills \/ LogsUnknownChild
    <2>1. /\ opc \in LogPcs /\ LogsReason(Overseer)
          /\ opc' \in {"kill", "panic_exit"}
      BY <1>6 DEF LogsAndKills, LogsUnknownChild, KillProcessGroup, At, GoTo, LogPcs
    <2>2. Overseer \in Reasoners
      BY <2>1 DEF ReasonInv, OwedIsLogged
    <2>3. Overseer \notin owing' /\ opc' \notin LogPcs
      BY <2>1 DEF LogsReason, LogPcs
    <2> QED
      BY <2>2, <2>3, <2>1, LoggingTellsNobody
  <1>7. CASE OverseerStartup
    <2>1. /\ UNCHANGED <<should_exit, owing, loggers>>
          /\ opc \in StartupPcs /\ opc' \in StartupPcs \cup {"select"}
      BY <1>7 DEF OverseerStartup, LoadApplication, SpawnAuxiliaryProcess, AuxiliariesSpawned,
             SpawnWorker, WorkersSpawned, SpawnMonitoringProcess, InstallHandlers, At, GoTo,
             StartupPcs
    <2> QED
      BY <1>1, <2>1 DEF StartupPcs, LogPcs
  <1>8. CASE HandleSIGTERM \/ HandleSIGINT \/ HandleSIGCHLD
    <2>1. WakeMainLoop /\ Alive(Overseer)
      BY <1>8 DEF HandleSIGTERM, HandleSIGINT, HandleSIGCHLD, Handles
    <2>2. /\ UNCHANGED <<should_exit, owing, loggers>>
          /\ opc' = opc \/ (opc = "select" /\ opc' = "flags")
      BY <2>1 DEF WakeMainLoop
    <2>3. opc # "killed"
      BY <2>1 DEF LifeInv, ControlConsistent, FinalPcs
    <2> QED
      BY <1>1, <2>2, <2>3 DEF LogPcs
  <1>9. CASE HandleSIGQUIT
    <2>1. /\ "SIGQUIT" \in pending[Overseer] /\ Alive(Overseer) /\ opc' = "kill"
          /\ UNCHANGED <<should_exit, owing, loggers>>
      BY <1>9 DEF HandleSIGQUIT, Handles, KillProcessGroup, GoTo
    <2>2. sent["SIGQUIT"] > 0
      BY <2>1 DEF ReasonInv, OverseerPays
    <2>3. opc # "killed"
      BY <2>1 DEF LifeInv, ControlConsistent, FinalPcs
    <2> QED
      BY <1>1, <2>1, <2>2, <2>3 DEF LogPcs
  <1>10. CASE \/ SelectTimesOut \/ SelectReady \/ DrainSelfPipe \/ CheckFlags
              \/ ClearFastShutdown \/ ClearSmartShutdown \/ WaitFindsNone
              \/ WaitFindsNoChildren \/ KillReturns
              \/ \E p \in Children : WaitReaps(p) \/ KillOne(p)
    <2>1. /\ UNCHANGED <<should_exit, owing, loggers>>
          /\ opc \in {"select", "drain", "flags", "clear_fast", "clear_smart", "wait", "kill"}
          /\ opc' \notin LogPcs
      BY <1>10
      DEF SelectTimesOut, SelectReady, DrainSelfPipe, CheckFlags, ClearFastShutdown,
          ClearSmartShutdown, WaitFindsNone, WaitFindsNoChildren, Exits, KillReturns, WaitReaps,
          KillOne, KillProcessGroup, At, GoTo, LogPcs, TypeOK, OverseerTypeOK, AfterKill
    <2> QED
      BY <1>1, <2>1 DEF LogPcs
  <1>11. CASE \/ ExitsAfterKill \/ LoadFails \/ ForkFailsWithInterpreter \/ OverseerCrashes
    <2>1. /\ UNCHANGED <<should_exit, owing, loggers>> /\ Alive(Overseer)
          /\ opc' \in {"exit1", "killed"} /\ (opc \in LogPcs => opc' = "killed")
      BY <1>11
      DEF ExitsAfterKill, LoadFails, ForkFailsWithInterpreter, OverseerCrashes, Exits,
          OverseerEnds, At, GoTo, LogPcs
    <2>2. opc # "killed"
      BY <2>1 DEF LifeInv, ControlConsistent, FinalPcs
    <2> QED
      BY <1>1, <2>1, <2>2 DEF LogPcs
  <1> QED
    BY <1>3, <1>4, <1>5, <1>6, <1>7, <1>8, <1>9, <1>10, <1>11
    DEF OverseerStep, OverseerNext, OverseerHandlers, OverseerMain, OverseerFailures

\* SIGQUIT does not come to the overseer unsent, and no SIGQUIT is unsent again.
LEMMA QuitWasSent ==
    ASSUME TypeOK, TypeOK', [Next]_vars,
           "SIGQUIT" \in pending[Overseer] => sent["SIGQUIT"] > 0
    PROVE  /\ "SIGQUIT" \in pending'[Overseer] => sent'["SIGQUIT"] > 0
           /\ sent["SIGQUIT"] > 0 => sent'["SIGQUIT"] > 0
  <1>0. sent["SIGQUIT"] \in Nat /\ sent'["SIGQUIT"] \in Nat
    BY DEF TypeOK, HostTypeOK, AdminSignals
  <1>1. CASE OverseerStep
    BY <1>1, OverseerSmall
  <1>2. CASE \/ \E w \in Workers : WorkerStep(w)
             \/ \E a \in Auxiliaries : AuxStep(a)
             \/ MonitorStep
             \/ EnvironmentStep
    <2>1. /\ sent["SIGQUIT"] <= sent'["SIGQUIT"]
          /\ "SIGQUIT" \in pending'[Overseer] /\ "SIGQUIT" \notin pending[Overseer]
                => sent["SIGQUIT"] < sent'["SIGQUIT"]
      BY <1>2, OthersSignals DEF OthersOnlySignal, AdminSignals
    <2> QED
      BY <1>0, <2>1
  <1>3. CASE UNCHANGED vars
    BY <1>3 DEF vars, hostVars
  <1> QED
    BY <1>1, <1>2, <1>3 DEF Next

\* A step of the overseer forks, reaps or ends somebody: nobody is unborn again, and an
\* overseer that ends is at the end of its program.
LEMMA OverseerLife ==
    ASSUME TypeOK, OverseerStep
    PROVE  /\ pstate'[Monitor] = "unborn" => pstate[Monitor] = "unborn"
           /\ Alive(Overseer)' \/ opc' \in FinalPcs
  <1> USE DEF hostVars, Alive
  <1>0. Monitor \in Procs /\ Monitor # Overseer
    BY ProcsLemma
  <1>1. CASE OverseerStartup
    <2>1. Alive(Overseer)
      BY <1>1
      DEF OverseerStartup, LoadApplication, SpawnAuxiliaryProcess, AuxiliariesSpawned,
          SpawnWorker, WorkersSpawned, SpawnMonitoringProcess, InstallHandlers, At
    <2>2. pstate' = pstate \/ \E ps \in SUBSET Children : pstate' = Forked(ps)
      BY <1>1, ProcsLemma
      DEF OverseerStartup, LoadApplication, SpawnAuxiliaryProcess, AuxiliariesSpawned,
          SpawnWorker, WorkersSpawned, SpawnMonitoringProcess, InstallHandlers
    <2> QED
      BY <1>0, <2>1, <2>2, ProcsLemma DEF Forked
  <1>2. CASE OverseerHandlers
    BY <1>2 DEF OverseerHandlers, HandleSIGTERM, HandleSIGINT, HandleSIGCHLD, HandleSIGQUIT,
                WakeMainLoop, Handles, GoTo
  <1>3. CASE \E p \in Children : WaitReaps(p)
    BY <1>0, <1>3, ProcsLemma DEF WaitReaps, At, TypeOK, HostTypeOK
  <1>4. CASE \/ WaitFindsNoChildren \/ ExitsAfterKill \/ LoadFails
             \/ ForkFailsWithInterpreter \/ OverseerCrashes
    <2>1. OverseerEnds /\ opc' \in {"exit0", "exit1", "killed"}
      BY <1>4 DEF WaitFindsNoChildren, ExitsAfterKill, LoadFails, ForkFailsWithInterpreter,
                  OverseerCrashes, Exits, GoTo
    <2> QED
      BY <1>0, <2>1 DEF OverseerEnds, FinalPcs
  <1>5. CASE \/ SelectTimesOut \/ SelectReady \/ DrainSelfPipe \/ CheckFlags
             \/ ClearFastShutdown \/ ClearSmartShutdown \/ WaitFindsNone
             \/ HandleChildProcessDeath \/ LogsAndKills \/ LogsUnknownChild
             \/ KillReturns \/ SetUpFailsEarly \/ SetUpFails \/ SystemCallFails
             \/ \E p \in Children : KillOne(p)
    <2>1. Alive(Overseer) /\ UNCHANGED pstate
      BY <1>5
      DEF SelectTimesOut, SelectReady, DrainSelfPipe, CheckFlags, ClearFastShutdown,
          ClearSmartShutdown, WaitFindsNone, HandleChildProcessDeath, LogsAndKills,
          LogsUnknownChild, KillReturns, SetUpFailsEarly, SetUpFails, SystemCallFails, KillOne,
          At
    <2> QED
      BY <2>1
  <1> QED
    BY <1>1, <1>2, <1>3, <1>4, <1>5
    DEF OverseerStep, OverseerNext, OverseerMain, OverseerFailures

LEMMA StepReason ==
    TypeOK /\ TypeOK' /\ LifeInv /\ RefinementInv /\ ReasonInv /\ [Next]_vars => ReasonInv'
  <1> SUFFICES ASSUME TypeOK, TypeOK', LifeInv, RefinementInv, ReasonInv, [Next]_vars
               PROVE  ReasonInv'
    OBVIOUS
  <1>0. /\ "SIGQUIT" \in pending'[Overseer] => sent'["SIGQUIT"] > 0
        /\ sent["SIGQUIT"] > 0 => sent'["SIGQUIT"] > 0
    BY QuitWasSent DEF ReasonInv, OverseerPays
  <1>1. CASE OverseerStep
    <2>1. UNCHANGED mpc
      BY <1>1 DEF OverseerStep, monitorVars
    <2>2. ~Normal => /\ ~Normal' /\ child' = child
                     /\ pstate[Monitor] = "unborn" => pstate'[Monitor] = "unborn"
      BY <1>1, NoWayBack
    <2>3. pstate'[Monitor] = "unborn" => pstate[Monitor] = "unborn"
      BY <1>1, OverseerLife
    <2>4. should_exit' = 1 => Reasoners' # {}
      BY <1>1, OverseerReason DEF Told, ReasonInv, RefinementInv
    <2>5. EarlyReason'
      BY <1>1, <2>2, OverseerReason DEF Told, ReasonInv, EarlyReason, RefinementInv
    <2>6. NoReasonYet'
      BY <1>1, <2>2, <2>3, OverseerReason DEF ReasonInv, NoReasonYet, RefinementInv
    <2>7. OneReasoner'
      BY <1>1, <2>2, OverseerReason DEF Told, ReasonInv, OneReasoner, RefinementInv
    <2>8. OwedIsLogged'
      BY <1>1, <2>1, OverseerReason DEF Told, ReasonInv, OwedIsLogged, RefinementInv
    <2>9. OverseerPays'
      BY <1>0, <1>1, OverseerReason, OverseerLife DEF OverseerPays, RefinementInv, FinalPcs, LogPcs
    <2> QED
      BY <2>4, <2>5, <2>6, <2>7, <2>8, <2>9 DEF ReasonInv
  <1>2. CASE \/ \E w \in Workers : WorkerStep(w)
             \/ \E a \in Auxiliaries : AuxStep(a)
             \/ MonitorStep
             \/ EnvironmentStep
    <2>1. UNCHANGED overseerVars /\ ChildrenMayEnd
      BY <1>2, OthersFrame
    <2>2. /\ Alive(Overseer)' <=> Alive(Overseer)
          /\ pstate'[Monitor] = "unborn" <=> pstate[Monitor] = "unborn"
      BY <2>1, ProcsLemma DEF ChildrenMayEnd, Alive
    <2>3. (Normal' <=> Normal) /\ UNCHANGED <<opc, child>>
      BY <2>1, <2>2 DEF overseerVars, killVars, Normal, Serving
    <2>4. should_exit' = 1 => Reasoners' # {}
      BY <1>2, OthersReason DEF Told, ReasonInv
    <2>5. EarlyReason' /\ NoReasonYet'
      BY <1>2, <2>2, <2>3, OthersReason DEF Told, ReasonInv, EarlyReason, NoReasonYet, Alive
    <2>6. OneReasoner'
      BY <1>2, <2>3, OthersReason DEF Told, ReasonInv, OneReasoner
    <2>7. OwedIsLogged'
      BY <1>2, <2>3, OthersReason DEF Told, ReasonInv, OwedIsLogged
    <2>8. OverseerPays'
      BY <1>0, <1>2, <2>2, <2>3, OthersReason DEF ReasonInv, OverseerPays
    <2> QED
      BY <2>4, <2>5, <2>6, <2>7, <2>8 DEF ReasonInv
  <1>3. CASE UNCHANGED vars
    BY <1>3 DEF vars, hostVars, sharedVars, overseerVars, killVars, monitorVars, ReasonInv,
                EarlyReason, NoReasonYet, OneReasoner, OwedIsLogged, OverseerPays, Reasoners,
                Normal, Serving, Alive
  <1> QED
    BY <1>1, <1>2, <1>3 DEF Next

LEMMA InitReason == Init => ReasonInv
  BY ProcsLemma DEF Init, HostInit, SharedInit, OverseerInit, MonitorInit, ReasonInv,
     EarlyReason, NoReasonYet, OneReasoner, OwedIsLogged, OverseerPays, Reasoners, LogPcs

\* However many processes find a reason for everyone to exit, the flag is never up without
\* one that has logged it or still has to, and a second one is about a stray child; the
\* overseer ends without logging its own only if it was killed or sent SIGQUIT.
THEOREM OneReason == Spec => []SingleFatalReason
  <1>1. ReasonInv => SingleFatalReason
    BY DEF ReasonInv, OneReasoner, OverseerPays, SingleFatalReason
  <1> QED
    BY <1>1, InitReason, StepReason, TypeCorrectness, LifeInvariance, RefinementInvariance, PTL
    DEF Spec
===========================================================================
