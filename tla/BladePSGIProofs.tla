-------------------------- MODULE BladePSGIProofs --------------------------
(*************************************************************************)
(* What holds of the running system for every number of workers,         *)
(* auxiliary processes, signals, connections and failures.               *)
(*************************************************************************)
EXTENDS BladePSGIInvariant, TLAPS

\* The processes are distinct, and -1 is none of them.
LEMMA ProcsLemma ==
    /\ Workers \subseteq Children /\ Auxiliaries \subseteq Children
    /\ Strays \subseteq Children /\ Monitor \in Children
    /\ Children \subseteq Procs /\ Overseer \in Procs
    /\ Overseer \notin Children
    /\ NoPid \notin Children
  BY ProcessesAssumption, OverseerAssumption DEF Children, Procs

---------------------------------------------------------------------------
(* Type correctness *)

\* A child that ends leaves a well-typed process table.
LEMMA ChildEndsType ==
    ASSUME HostTypeOK, NEW p \in Procs, ChildEnds(p)
    PROVE  /\ pstate' \in [Procs -> {"unborn", "alive", "zombie", "reaped"}]
           /\ pending' \in [Procs -> SUBSET Signals]
  BY DEF HostTypeOK, ChildEnds, Signals

\* So does the end of the overseer.
LEMMA OverseerEndsType ==
    ASSUME HostTypeOK, OverseerEnds
    PROVE  /\ pstate' \in [Procs -> {"unborn", "alive", "zombie", "reaped"}]
           /\ pending' \in [Procs -> SUBSET Signals]
  BY DEF HostTypeOK, OverseerEnds, Signals, AdminSignals

\* And kill().
LEMMA PostedType ==
    ASSUME HostTypeOK, NEW p, NEW sig \in Signals
    PROVE  Posted(p, sig) \in [Procs -> SUBSET Signals]
  BY DEF HostTypeOK, Posted

\* And fork().
LEMMA ForkedType ==
    ASSUME HostTypeOK, NEW ps
    PROVE  Forked(ps) \in [Procs -> {"unborn", "alive", "zombie", "reaped"}]
  BY DEF HostTypeOK, Forked

\* And the delivery of a signal.
LEMMA DeliveredType ==
    ASSUME HostTypeOK, NEW p \in Procs, NEW sig
    PROVE  Delivered(p, sig) \in [Procs -> SUBSET Signals]
  BY DEF HostTypeOK, Delivered

\* The initial state is well typed.
LEMMA InitType == Init => TypeOK
  <1> SUFFICES ASSUME Init PROVE TypeOK
    OBVIOUS
  <1>1. HostTypeOK
    BY DEF Init, HostInit, HostTypeOK
  <1>2. SharedTypeOK
    BY DEF Init, SharedInit, SharedTypeOK, Statuses
  <1>3. OverseerTypeOK
    BY OverseerAssumption DEF Init, OverseerInit, OverseerTypeOK, StartupPcs, AfterKill
  <1>4. WorkerTypeOK /\ AuxTypeOK /\ MonitorTypeOK
    BY DEF Init, WorkerInit, WorkerTypeOK, AuxInit, AuxTypeOK, MonitorInit, MonitorTypeOK
  <1> QED
    BY <1>1, <1>2, <1>3, <1>4 DEF TypeOK

\* A step of a worker keeps the types of what it changes.
LEMMA WorkerType ==
    ASSUME TypeOK, NEW w \in Workers, WorkerNext(w)
    PROVE  HostTypeOK' /\ SharedTypeOK' /\ WorkerTypeOK'
  <1> USE DEF TypeOK, HostTypeOK, SharedTypeOK, WorkerTypeOK,
              hostVars, sharedVars, workerVars, WorkerAt, WorkerGoesTo
  <1>0. w \in Procs /\ w \in Children
    BY ProcsLemma
  <1>1. CASE WorkerSubprocessInit(w)
    BY <1>0, <1>1 DEF WorkerSubprocessInit, SetDeathSignal
  <1>2. CASE WorkerUnblocks(w)
    BY <1>2 DEF WorkerUnblocks
  <1>3. CASE WorkerLeaves(w) \/ WorkerHandlesSIGQUIT(w)
    BY <1>0, <1>3, ChildEndsType DEF WorkerLeaves, WorkerHandlesSIGQUIT
  <1>4. CASE WorkerCallsCallback(w)
    BY <1>4 DEF WorkerCallsCallback, SetWorkerStatus, Statuses
  <1>5. CASE WorkerBlocksInAccept(w) \/ AppFinishes(w)
    BY <1>5 DEF WorkerBlocksInAccept, AppFinishes
  <1>6. CASE WorkerAccepts(w) \/ WorkerAcceptFails(w)
    BY <1>6 DEF WorkerAccepts, WorkerAcceptFails
  <1>7. CASE WorkerCounts(w)
    BY <1>7 DEF WorkerCounts, IncreaseRequestCounter
  <1>8. CASE WorkerHandlesSIGTERM(w)
    <2>1. pending' \in [Procs -> SUBSET Signals]
      BY <1>0, <1>8, DeliveredType DEF WorkerHandlesSIGTERM
    <2> QED
      BY <1>8, <2>1 DEF WorkerHandlesSIGTERM
  <1>9. ASSUME NEW s \in AppStatuses, AppSetsStatus(w, s)
        PROVE  HostTypeOK' /\ SharedTypeOK' /\ WorkerTypeOK'
    BY <1>9 DEF AppSetsStatus, SetWorkerStatus, Statuses
  <1>10. CASE AppDies(w)
    BY <1>0, <1>10, ChildEndsType DEF AppDies, ChildCrashes, Fails
  <1> QED
    BY <1>1, <1>2, <1>3, <1>4, <1>5, <1>6, <1>7, <1>8, <1>9, <1>10
    DEF WorkerNext, WorkerRuns, WorkerHandlers

\* A step of an auxiliary process keeps the types of what it changes.
LEMMA AuxType ==
    ASSUME TypeOK, NEW a \in Auxiliaries, AuxNext(a)
    PROVE  HostTypeOK' /\ SharedTypeOK' /\ AuxTypeOK'
  <1> USE DEF TypeOK, HostTypeOK, SharedTypeOK, AuxTypeOK, hostVars, sharedVars
  <1>0. a \in Procs /\ a \in Children
    BY ProcsLemma
  <1>1. CASE AuxSubprocessInit(a)
    BY <1>0, <1>1 DEF AuxSubprocessInit, SetDeathSignal
  <1>2. CASE AuxUnblocks(a)
    BY <1>2 DEF AuxUnblocks
  <1>3. CASE AuxDiesOfSignal(a)
    BY <1>0, <1>3, ChildEndsType DEF AuxDiesOfSignal
  <1>4. CASE AuxCallbackEnds(a)
    BY <1>0, <1>4, ChildEndsType DEF AuxCallbackEnds, ChildCrashes, Fails
  <1> QED
    BY <1>1, <1>2, <1>3, <1>4 DEF AuxNext, AuxRuns

\* A step of the monitoring process keeps the types of what it changes.
LEMMA MonitorType ==
    ASSUME TypeOK, MonitorNext
    PROVE  HostTypeOK' /\ SharedTypeOK' /\ MonitorTypeOK'
  <1> USE DEF TypeOK, HostTypeOK, SharedTypeOK, MonitorTypeOK,
              hostVars, sharedVars, monitorVars, MonitorAt
  <1>0. Monitor \in Procs
    BY ProcsLemma
  <1>1. CASE \/ MonitorUnblocks \/ MonitorSelects \/ MonitorSelectReturns
             \/ MonitorSeesClient \/ MonitorHandlesClient
    BY <1>1 DEF MonitorUnblocks, MonitorSelects, MonitorSelectReturns, MonitorSeesClient,
                MonitorHandlesClient
  <1>2. CASE MonitorNoticesRunnerDied \/ MonitorLogs
    BY <1>0, <1>2 DEF MonitorNoticesRunnerDied, MonitorGivesUp, MonitorLogs, LogsReason,
                      SetShouldExitImmediately
  <1>3. CASE MonitorThrows
    BY <1>0, <1>3 DEF MonitorThrows, MonitorGivesUp, SetShouldExitImmediately, Fails
  <1>4. ASSUME NEW w \in Workers, MonitorKillsOne(w)
        PROVE  HostTypeOK' /\ SharedTypeOK' /\ MonitorTypeOK'
    <2>1. pending' \in [Procs -> SUBSET Signals]
      BY <1>4, PostedType DEF MonitorKillsOne, Signals, AdminSignals
    <2> QED
      BY <1>4, <2>1 DEF MonitorKillsOne
  <1>5. CASE MonitorExits \/ MonitorDiesOfSignal
    BY <1>0, <1>5, ChildEndsType DEF MonitorExits, MonitorDiesOfSignal
  <1> QED
    BY <1>1, <1>2, <1>3, <1>4, <1>5 DEF MonitorNext, MonitorRuns

\* KillProcessGroup has only children to signal: the test for -1 is what makes it so.
LEMMA KillType ==
    ASSUME OverseerTypeOK, NEW sig \in {"SIGTERM", "SIGQUIT"}, NEW next \in AfterKill,
           KillProcessGroup(sig, next)
    PROVE  /\ opc' = "kill" /\ kill_todo' \in SUBSET Children
           /\ kill_sig' \in {"SIGTERM", "SIGQUIT"} /\ kill_next' \in AfterKill
  <1>1. KillTargets \in SUBSET Children
    BY ProcsLemma DEF OverseerTypeOK, KillTargets
  <1> QED
    BY <1>1 DEF KillProcessGroup, GoTo

\* A panic raises the flag and leads to KillProcessGroup, by way of the log or not.
LEMMA PanicType ==
    ASSUME TypeOK, Panic
    PROVE  /\ should_exit' = 1 /\ owing' \in SUBSET Procs /\ loggers' = loggers
           /\ opc' \in {"log", "kill"} /\ kill_todo' \in SUBSET Children
           /\ kill_sig' \in {"SIGTERM", "SIGQUIT"} /\ kill_next' \in AfterKill
           /\ opc' = "kill" => kill_next' = "panic_exit" /\ kill_sig' = "SIGQUIT"
           /\ opc' = "log" => UNCHANGED killVars
  <1>1. should_exit' = 1 /\ owing' \in SUBSET Procs /\ loggers' = loggers
    BY ProcsLemma DEF Panic, SetShouldExitImmediately, TypeOK, SharedTypeOK
  <1>2. CASE GoTo("log") /\ UNCHANGED killVars
    BY <1>1, <1>2 DEF GoTo, killVars, TypeOK, OverseerTypeOK
  <1>3. CASE KillProcessGroup("SIGQUIT", "panic_exit")
    BY <1>1, <1>3, KillType DEF KillProcessGroup, AfterKill, TypeOK
  <1> QED
    BY <1>2, <1>3 DEF Panic

\* A step of the overseer keeps the types of what it changes.
LEMMA OverseerType ==
    ASSUME TypeOK, OverseerNext
    PROVE  HostTypeOK' /\ SharedTypeOK' /\ OverseerTypeOK'
  <1> USE DEF TypeOK, HostTypeOK, SharedTypeOK, OverseerTypeOK, hostVars, sharedVars,
              pidVars, flagVars, killVars, At, GoTo
  <1> USE DEF StartupPcs, LoopPcs, AfterKill, LogPcs, FinalPcs
  <1>0. Overseer \in Procs /\ Overseer \notin Children /\ Children \subseteq Procs
    BY ProcsLemma
  <1>1. CASE LoadApplication
    BY <1>1, ForkedType DEF LoadApplication
  <1>2. ASSUME NEW a \in Auxiliaries, SpawnAuxiliaryProcess(a)
        PROVE  HostTypeOK' /\ SharedTypeOK' /\ OverseerTypeOK'
    BY <1>2, ForkedType DEF SpawnAuxiliaryProcess
  <1>3. ASSUME NEW w \in Workers, SpawnWorker(w)
        PROVE  HostTypeOK' /\ SharedTypeOK' /\ OverseerTypeOK'
    BY <1>3, ForkedType DEF SpawnWorker
  <1>4. CASE SpawnMonitoringProcess
    BY <1>4, ForkedType DEF SpawnMonitoringProcess
  <1>5. CASE \/ AuxiliariesSpawned \/ WorkersSpawned
             \/ SelectTimesOut \/ SelectReady \/ DrainSelfPipe \/ WaitFindsNone
             \/ ClearFastShutdown \/ ClearSmartShutdown \/ KillReturns
    BY <1>5, OverseerAssumption
    DEF AuxiliariesSpawned, WorkersSpawned, SelectTimesOut, SelectReady,
        DrainSelfPipe, WaitFindsNone, ClearFastShutdown, ClearSmartShutdown, KillReturns
  <1>6. CASE HandleSIGTERM \/ HandleSIGINT \/ HandleSIGCHLD
    <2>1. pending' \in [Procs -> SUBSET Signals]
      BY <1>0, <1>6, DeliveredType DEF HandleSIGTERM, HandleSIGINT, HandleSIGCHLD, Handles
    <2>2. self_pipe' \in 0..PipeCapacity /\ opc' \in {opc, "flags"}
      BY <1>6, OverseerAssumption
      DEF HandleSIGTERM, HandleSIGINT, HandleSIGCHLD, WakeMainLoop
    <2> QED
      BY <1>6, <2>1, <2>2 DEF HandleSIGTERM, HandleSIGINT, HandleSIGCHLD, WakeMainLoop
  <1>7. CASE HandleSIGQUIT
    <2>1. pending' \in [Procs -> SUBSET Signals]
      BY <1>0, <1>7, DeliveredType DEF HandleSIGQUIT, Handles
    <2> QED
      BY <1>7, <2>1, KillType DEF HandleSIGQUIT
  <1>8. CASE CheckFlags
    <2>1. CASE \E sig \in {"SIGTERM", "SIGQUIT"}, next \in AfterKill : KillProcessGroup(sig, next)
      BY <1>8, <2>1, KillType DEF CheckFlags
    <2>2. CASE GoTo("wait") /\ UNCHANGED killVars
      BY <1>8, <2>2 DEF CheckFlags
    <2> QED
      BY <1>8, <2>1, <2>2 DEF CheckFlags
  <1>9. ASSUME NEW p \in Children, WaitReaps(p)
        PROVE  HostTypeOK' /\ SharedTypeOK' /\ OverseerTypeOK'
    BY <1>0, <1>9 DEF WaitReaps
  <1>10. CASE WaitFindsNoChildren \/ ExitsAfterKill
    BY <1>10, OverseerEndsType DEF WaitFindsNoChildren, ExitsAfterKill, Exits
  <1>11. CASE HandleChildProcessDeath
    <2>1. CASE HandleUnexpectedChildProcessDeath
      BY <1>11, <2>1, PanicType
      DEF HandleChildProcessDeath, HandleUnexpectedChildProcessDeath
    <2>2. CASE ForgetChild
      BY <1>11, <2>2 DEF HandleChildProcessDeath, ForgetChild
    <2>3. CASE HandleUnknownChildDeath
      BY <1>0, <1>11, <2>3 DEF HandleChildProcessDeath, HandleUnknownChildDeath
    <2> QED
      BY <1>11, <2>1, <2>2, <2>3 DEF HandleChildProcessDeath
  <1>12. ASSUME NEW p \in Children, KillOne(p)
         PROVE  HostTypeOK' /\ SharedTypeOK' /\ OverseerTypeOK'
    <2>1. pending' \in [Procs -> SUBSET Signals]
      BY <1>12, PostedType DEF KillOne, Signals, AdminSignals
    <2> QED
      BY <1>12, <2>1 DEF KillOne
  <1>13. CASE LoadFails \/ ForkFailsWithInterpreter \/ OverseerCrashes
    BY <1>13, OverseerEndsType
    DEF LoadFails, ForkFailsWithInterpreter, OverseerCrashes, Exits, Fails
  <1>14. CASE SetUpFails \/ SystemCallFails
    BY <1>14, PanicType DEF SetUpFails, SystemCallFails, Fails
  <1>15. CASE SetUpFailsEarly \/ LogsUnknownChild
    BY <1>0, <1>15 DEF SetUpFailsEarly, LogsUnknownChild, LogsReason, Fails
  <1>16. CASE LogsAndKills
    BY <1>0, <1>16, KillType DEF LogsAndKills, LogsReason
  <1>17. CASE InstallHandlers
    BY <1>17 DEF InstallHandlers
  <1> QED
    BY <1>1, <1>2, <1>3, <1>4, <1>5, <1>6, <1>7, <1>8, <1>9, <1>10, <1>11, <1>12,
       <1>13, <1>14, <1>15, <1>16, <1>17
    DEF OverseerNext, OverseerStartup, OverseerHandlers, OverseerMain, OverseerFailures

\* The environment keeps the types of what it changes.
LEMMA EnvironmentType ==
    ASSUME TypeOK, EnvironmentStep
    PROVE  TypeOK'
  <1> USE DEF TypeOK, HostTypeOK, SharedTypeOK, OverseerTypeOK, WorkerTypeOK, AuxTypeOK,
              MonitorTypeOK, hostVars, sharedVars, overseerVars, pidVars, flagVars, killVars,
              workerVars, monitorVars
  <1>1. ASSUME NEW s \in AdminSignals, AdminSends(s),
               UNCHANGED <<sharedVars, overseerVars, workerVars, apc, monitorVars>>
        PROVE  TypeOK'
    <2>1. pending' \in [Procs -> SUBSET Signals]
      BY <1>1, PostedType DEF AdminSends, Signals
    <2> QED
      BY <1>1, <2>1 DEF AdminSends
  <1>2. ASSUME NEW p \in Children, ChildCrashes(p),
               UNCHANGED <<sharedVars, overseerVars, workerVars, apc, monitorVars>>
        PROVE  TypeOK'
    BY <1>2, ProcsLemma, ChildEndsType DEF ChildCrashes, Fails
  <1>3. CASE ClientConnects /\ UNCHANGED <<overseerVars, apc, monitorVars>>
    BY <1>3 DEF ClientConnects
  <1>4. CASE TerminalInterrupts /\ UNCHANGED <<sharedVars, overseerVars, workerVars, apc, monitorVars>>
    <2>1. pending' \in [Procs -> SUBSET Signals]
      BY <1>4 DEF TerminalInterrupts, Signals, AdminSignals
    <2>2. sent' \in [AdminSignals -> Nat]
      BY <1>4 DEF TerminalInterrupts, AdminSignals
    <2> QED
      BY <1>4, <2>1, <2>2 DEF TerminalInterrupts
  <1> QED
    BY <1>1, <1>2, <1>3, <1>4 DEF EnvironmentStep

\* Every step keeps the types.
LEMMA StepType == TypeOK /\ [Next]_vars => TypeOK'
  <1> SUFFICES ASSUME TypeOK, [Next]_vars PROVE TypeOK'
    OBVIOUS
  <1> USE DEF hostVars, sharedVars, overseerVars, pidVars, flagVars, killVars,
              workerVars, monitorVars
  <1>1. CASE OverseerStep
    BY <1>1, OverseerType DEF OverseerStep, TypeOK, WorkerTypeOK, AuxTypeOK, MonitorTypeOK
  <1>2. ASSUME NEW w \in Workers, WorkerStep(w) PROVE TypeOK'
    BY <1>2, WorkerType DEF WorkerStep, TypeOK, OverseerTypeOK, AuxTypeOK, MonitorTypeOK
  <1>3. ASSUME NEW a \in Auxiliaries, AuxStep(a) PROVE TypeOK'
    BY <1>3, AuxType DEF AuxStep, TypeOK, OverseerTypeOK, WorkerTypeOK, MonitorTypeOK
  <1>4. CASE MonitorStep
    BY <1>4, MonitorType DEF MonitorStep, TypeOK, OverseerTypeOK, WorkerTypeOK, AuxTypeOK
  <1>5. CASE EnvironmentStep
    BY <1>5, EnvironmentType
  <1>6. CASE UNCHANGED vars
    BY <1>6 DEF vars, TypeOK, HostTypeOK, SharedTypeOK, OverseerTypeOK, WorkerTypeOK,
                AuxTypeOK, MonitorTypeOK
  <1> QED
    BY <1>1, <1>2, <1>3, <1>4, <1>5, <1>6 DEF Next

\* Every variable always has its type; in particular KillProcessGroup never calls
\* kill(-1, sig), which would signal every process of the user.
THEOREM TypeCorrectness == Spec => []TypeOK
  BY InitType, StepType, PTL DEF Spec

---------------------------------------------------------------------------
(* The life of the children *)

\* What the other processes and the environment may do to the process table: a living
\* child may end.
ChildrenMayEnd ==
    \A p \in Procs :
        \/ pstate'[p] = pstate[p]
        \/ /\ p \in Children /\ pstate[p] = "alive"
           /\ pstate'[p] = IF Alive(Overseer) THEN "zombie" ELSE "reaped"

\* The end of a child is such a step.
LEMMA ChildEndsFrame ==
    ASSUME TypeOK, NEW p \in Children, ChildEnds(p)
    PROVE  ChildrenMayEnd
  BY ProcsLemma DEF TypeOK, HostTypeOK, ChildEnds, ChildrenMayEnd, Alive

\* Nobody but the overseer changes the overseer's variables, forks or reaps.
LEMMA OthersFrame ==
    ASSUME TypeOK,
           \/ \E w \in Workers : WorkerStep(w)
           \/ \E a \in Auxiliaries : AuxStep(a)
           \/ MonitorStep
           \/ EnvironmentStep
    PROVE  UNCHANGED overseerVars /\ ChildrenMayEnd
  <1> USE DEF hostVars, ChildrenMayEnd
  <1>1. ASSUME NEW w \in Workers, WorkerStep(w)
        PROVE  UNCHANGED overseerVars /\ ChildrenMayEnd
    <2>1. CASE ChildEnds(w)
      BY <1>1, <2>1, ProcsLemma, ChildEndsFrame DEF WorkerStep
    <2>2. CASE UNCHANGED pstate
      BY <1>1, <2>2 DEF WorkerStep
    <2> QED
      BY <1>1, <2>1, <2>2
      DEF WorkerStep, WorkerNext, WorkerRuns, WorkerHandlers, WorkerSubprocessInit,
          WorkerUnblocks, WorkerLeaves, WorkerCallsCallback, WorkerBlocksInAccept,
          WorkerAccepts, WorkerAcceptFails, WorkerCounts, WorkerHandlesSIGTERM, WorkerHandlesSIGQUIT,
          AppSetsStatus, AppFinishes, AppDies, ChildCrashes
  <1>2. ASSUME NEW a \in Auxiliaries, AuxStep(a)
        PROVE  UNCHANGED overseerVars /\ ChildrenMayEnd
    <2>1. CASE ChildEnds(a)
      BY <1>2, <2>1, ProcsLemma, ChildEndsFrame DEF AuxStep
    <2>2. CASE UNCHANGED pstate
      BY <1>2, <2>2 DEF AuxStep
    <2> QED
      BY <1>2, <2>1, <2>2
      DEF AuxStep, AuxNext, AuxRuns, AuxSubprocessInit, AuxUnblocks, AuxDiesOfSignal,
          AuxCallbackEnds, ChildCrashes
  <1>3. CASE MonitorStep
    <2>1. CASE ChildEnds(Monitor)
      BY <1>3, <2>1, ProcsLemma, ChildEndsFrame DEF MonitorStep
    <2>2. CASE UNCHANGED pstate
      BY <1>3, <2>2 DEF MonitorStep
    <2> QED
      BY <1>3, <2>1, <2>2
      DEF MonitorStep, MonitorNext, MonitorRuns, MonitorUnblocks, MonitorNoticesRunnerDied,
          MonitorSelects, MonitorSelectReturns, MonitorSeesClient, MonitorHandlesClient,
          MonitorThrows, MonitorGivesUp, MonitorLogs, MonitorKillsOne, MonitorExits, MonitorDiesOfSignal
  <1>4. CASE EnvironmentStep
    <2>1. CASE \E p \in Children : ChildEnds(p)
      BY <1>4, <2>1, ChildEndsFrame DEF EnvironmentStep
    <2>2. CASE UNCHANGED pstate
      BY <1>4, <2>2 DEF EnvironmentStep
    <2> QED
      BY <1>4, <2>1, <2>2 DEF EnvironmentStep, AdminSends, TerminalInterrupts, ChildCrashes,
                              ClientConnects
  <1> QED
    BY <1>1, <1>2, <1>3, <1>4

\* Such a step keeps the invariant: a child that ends is still to be reaped.
LEMMA FrameLife ==
    ASSUME TypeOK, LifeInv, UNCHANGED overseerVars, ChildrenMayEnd
    PROVE  LifeInv'
  <1> USE DEF overseerVars, pidVars, flagVars, killVars, ChildrenMayEnd
  <1>0. /\ Overseer \in Procs /\ Children \subseteq Procs /\ Overseer \notin Children
        /\ Workers \subseteq Children /\ Auxiliaries \subseteq Children
        /\ Strays \subseteq Children /\ Monitor \in Children
    BY ProcsLemma
  <1>1. Alive(Overseer)' <=> Alive(Overseer)
    BY <1>0 DEF Alive
  <1>2. \A p \in Children : (Born(p)' <=> Born(p))
    BY <1>0 DEF Born
  <1>3. Alive(Overseer) => \A p \in Children : /\ Unreaped(p)' <=> Unreaped(p)
                                             /\ pstate'[p] = "reaped" <=> pstate[p] = "reaped"
    BY <1>0 DEF Unreaped
  <1>4. \A p \in Children : pstate[p] = "reaped" => pstate'[p] = "reaped"
    BY <1>0
  <1>5. (Serving' <=> Serving) /\ (Normal' <=> Normal) /\ (\A p : JustReaped(p)' <=> JustReaped(p))
    BY <1>1 DEF Serving, Normal, JustReaped
  <1>6. BirthsInOrder'
    BY <1>0, <1>2, <1>5 DEF LifeInv, BirthsInOrder
  <1>7. PidsTracked'
    <2> SUFFICES ASSUME Normal PROVE PidsTracked'
      BY <1>5 DEF PidsTracked
    <2>1. Alive(Overseer)
      BY DEF Normal
    <2>2. \A p \in Children : pstate'[p] \in {"alive", "zombie"} <=> pstate[p] \in {"alive", "zombie"}
      BY <1>0, <2>1
    <2> QED
      BY <1>0, <2>2 DEF LifeInv, PidsTracked, Unreaped, JustReaped
  <1>8. NobodyForgotten'
    BY <1>0, <1>3, <1>5 DEF LifeInv, NobodyForgotten, Normal
  <1>9. ControlConsistent'
    BY <1>1, <1>3 DEF LifeInv, ControlConsistent
  <1>10. ExitZeroMeansAllStopped'
    BY <1>4 DEF LifeInv, ExitZeroMeansAllStopped
  <1>11. ShutdownSignalsOnlyUnreaped'
    <2> SUFFICES ASSUME Alive(Overseer), opc = "kill",
                        kill_next \in {"clear_fast", "clear_smart"}, NEW p \in kill_todo
                 PROVE  Unreaped(p)'
      BY <1>1 DEF ShutdownSignalsOnlyUnreaped, At
    <2>1. p \in Procs /\ Unreaped(p)
      BY <1>0 DEF LifeInv, TypeOK, OverseerTypeOK, ShutdownSignalsOnlyUnreaped, At
    <2> QED
      BY <2>1 DEF Unreaped
  <1> QED
    BY <1>6, <1>7, <1>8, <1>9, <1>10, <1>11 DEF LifeInv

\* On its way out through KillProcessGroup(SIGQUIT) and _exit(1) the overseer owes
\* nothing any more.
LEMMA PanicLife ==
    ASSUME \/ opc' \in LogPcs \cup {"panic_exit", "quit_exit"}
           \/ opc' = "kill" /\ kill_next' \in {"panic_exit", "quit_exit"}
    PROVE  LifeInv'
  <1> USE DEF LogPcs
  <1>1. ~Serving' /\ ~Normal' /\ opc' \notin StartupPcs
    BY DEF Serving, Normal, LoopPcs, StartupPcs
  <1>2. BirthsInOrder' /\ PidsTracked' /\ NobodyForgotten' /\ ControlConsistent'
    BY <1>1 DEF BirthsInOrder, PidsTracked, NobodyForgotten, ControlConsistent, FinalPcs
  <1>3. ExitZeroMeansAllStopped' /\ ShutdownSignalsOnlyUnreaped'
    BY DEF ExitZeroMeansAllStopped, ShutdownSignalsOnlyUnreaped, At
  <1> QED
    BY <1>2, <1>3 DEF LifeInv

\* Nor does it once it is dead, unless it ended with exit(0).
LEMMA DeadLife ==
    ASSUME TypeOK, OverseerEnds, opc' \in {"exit1", "killed"}
    PROVE  LifeInv'
  <1>1. ~Alive(Overseer)'
    BY ProcsLemma DEF TypeOK, HostTypeOK, OverseerEnds, Alive
  <1>2. ~Serving' /\ ~Normal'
    BY <1>1 DEF Serving, Normal, LoopPcs
  <1>3. BirthsInOrder' /\ PidsTracked' /\ NobodyForgotten' /\ ControlConsistent'
    BY <1>1, <1>2 DEF BirthsInOrder, PidsTracked, NobodyForgotten, ControlConsistent, StartupPcs
  <1>4. ExitZeroMeansAllStopped' /\ ShutdownSignalsOnlyUnreaped'
    BY DEF ExitZeroMeansAllStopped, ShutdownSignalsOnlyUnreaped, At
  <1> QED
    BY <1>3, <1>4 DEF LifeInv

\* A step of the overseer that neither forks nor reaps and changes no pid list keeps
\* the invariant as long as it stays in the main loop.
LEMMA LoopLife ==
    ASSUME TypeOK, LifeInv, Serving, Serving', opc' # "install", Alive(Overseer),
           "reaped" \in {opc, opc'} => opc' = opc /\ child' = child,
           UNCHANGED <<pstate, pidVars>>,
           mainapp_shutdown' \in {mainapp_shutdown, 1},
           opc' = "kill" => \A p \in kill_todo' : p \in kill_todo \/ Unreaped(p),
           opc' = "kill" => opc = "kill" \/ \A p \in kill_todo' : Unreaped(p)
    PROVE  LifeInv'
  <1>0. /\ Normal
        /\ opc' \notin {"exit0", "exit1", "killed", "load", "forkaux", "forkworkers", "forkmonitor"}
    BY DEF Normal, Serving, LoopPcs
  <1> USE DEF pidVars
  <1>1. BirthsInOrder'
    BY <1>0 DEF LifeInv, BirthsInOrder, Born
  <1>2. PidsTracked'
    BY <1>0 DEF LifeInv, PidsTracked, Unreaped, JustReaped
  <1>3. NobodyForgotten'
    BY <1>0 DEF LifeInv, NobodyForgotten, JustReaped, TypeOK, OverseerTypeOK
  <1>4. ControlConsistent'
    BY <1>0 DEF LifeInv, ControlConsistent, FinalPcs, StartupPcs
  <1>5. ExitZeroMeansAllStopped'
    BY <1>0 DEF ExitZeroMeansAllStopped
  <1>6. ShutdownSignalsOnlyUnreaped'
    <2>1. Alive(Overseer)' /\ (\A p : Unreaped(p)' <=> Unreaped(p))
      BY DEF Alive, Unreaped
    <2>2. CASE opc' = "kill" /\ opc = "kill"
      <3>1. kill_next \in {"clear_fast", "clear_smart"}
        BY <2>2 DEF Serving, LoopPcs
      <3>2. \A p \in kill_todo : Unreaped(p)
        BY <2>2, <3>1 DEF LifeInv, ShutdownSignalsOnlyUnreaped, At
      <3> QED
        BY <2>1, <2>2, <3>2 DEF ShutdownSignalsOnlyUnreaped
    <2>3. CASE opc' = "kill" /\ opc # "kill"
      BY <2>1, <2>3 DEF ShutdownSignalsOnlyUnreaped
    <2>4. CASE opc' # "kill"
      BY <2>4 DEF ShutdownSignalsOnlyUnreaped, At
    <2> QED
      BY <2>2, <2>3, <2>4
  <1> QED
    BY <1>1, <1>2, <1>3, <1>4, <1>5, <1>6 DEF LifeInv

\* Start-up: children are born in order, and each is in its list.
LEMMA StartupLife ==
    ASSUME TypeOK, LifeInv, OverseerStartup
    PROVE  LifeInv'
  <1> USE DEF hostVars, pidVars, flagVars, killVars, At, GoTo, Serving, Normal, LoopPcs,
              StartupPcs
  <1>0. /\ Overseer \in Procs /\ Children \subseteq Procs /\ Overseer \notin Children
        /\ Workers \subseteq Children /\ Auxiliaries \subseteq Children
        /\ Strays \subseteq Children /\ Monitor \in Children
        /\ Children = Workers \cup Auxiliaries \cup Strays \cup {Monitor}
    BY ProcsLemma DEF Children
  <1>1. Alive(Overseer) /\ opc \in StartupPcs
    BY DEF OverseerStartup, LoadApplication, SpawnAuxiliaryProcess, AuxiliariesSpawned,
           SpawnWorker, WorkersSpawned, SpawnMonitoringProcess, InstallHandlers
  <1>2. opc' \in {"forkaux", "forkworkers", "forkmonitor", "install", "select"}
    BY DEF OverseerStartup, LoadApplication, SpawnAuxiliaryProcess, AuxiliariesSpawned,
           SpawnWorker, WorkersSpawned, SpawnMonitoringProcess, InstallHandlers
  <1>3. ControlConsistent'
    BY <1>2 DEF LifeInv, ControlConsistent, FinalPcs, OverseerStartup, LoadApplication,
           SpawnAuxiliaryProcess, AuxiliariesSpawned, SpawnWorker, WorkersSpawned,
           SpawnMonitoringProcess, InstallHandlers
  <1>6. ExitZeroMeansAllStopped' /\ ShutdownSignalsOnlyUnreaped'
    BY <1>2 DEF ExitZeroMeansAllStopped, ShutdownSignalsOnlyUnreaped
  <1>4. BirthsInOrder'
    BY <1>0, <1>1 DEF LifeInv, BirthsInOrder, Born, TypeOK, HostTypeOK, Forked,
           OverseerStartup, LoadApplication, SpawnAuxiliaryProcess, AuxiliariesSpawned,
           SpawnWorker, WorkersSpawned, SpawnMonitoringProcess, InstallHandlers
  <1>5. PidsTracked' /\ NobodyForgotten'
    <2> USE DEF LifeInv, PidsTracked, NobodyForgotten, JustReaped, Unreaped, TypeOK,
                HostTypeOK, Forked
    <2>0. /\ Workers \cap Auxiliaries = {} /\ Strays \cap (Workers \cup Auxiliaries) = {}
          /\ Monitor \notin Workers \cup Auxiliaries \cup Strays
      BY ProcessesAssumption
    <2>1. CASE LoadApplication
      BY <1>0, <1>1, <2>0, <2>1 DEF LoadApplication
    <2>2. ASSUME NEW a \in Auxiliaries, SpawnAuxiliaryProcess(a)
          PROVE  PidsTracked' /\ NobodyForgotten'
      BY <1>0, <1>1, <2>0, <2>2 DEF SpawnAuxiliaryProcess
    <2>3. ASSUME NEW w \in Workers, SpawnWorker(w)
          PROVE  PidsTracked' /\ NobodyForgotten'
      BY <1>0, <1>1, <2>0, <2>3 DEF SpawnWorker
    <2>4. CASE SpawnMonitoringProcess
      BY <1>0, <1>1, <2>0, <2>4 DEF SpawnMonitoringProcess
    <2>5. CASE AuxiliariesSpawned \/ WorkersSpawned \/ InstallHandlers
      BY <1>0, <1>1, <2>5 DEF AuxiliariesSpawned, WorkersSpawned, InstallHandlers
    <2> QED
      BY <2>1, <2>2, <2>3, <2>4, <2>5 DEF OverseerStartup
  <1> QED
    BY <1>3, <1>4, <1>5, <1>6 DEF LifeInv

\* The signal handlers: they interrupt the overseer wherever it is.
LEMMA HandlersLife ==
    ASSUME TypeOK, LifeInv, OverseerHandlers
    PROVE  LifeInv'
  <1>1. CASE HandleSIGTERM \/ HandleSIGINT \/ HandleSIGCHLD
    <2>1. /\ Alive(Overseer) /\ opc \notin StartupPcs
          /\ WakeMainLoop /\ mainapp_shutdown' \in {mainapp_shutdown, 1}
      BY <1>1 DEF HandleSIGTERM, HandleSIGINT, HandleSIGCHLD, Handles, flagVars, LifeInv,
                  ControlConsistent
    <2>2. UNCHANGED <<pstate, pidVars, kill_todo, kill_next, child>>
      BY <2>1 DEF WakeMainLoop, killVars
    <2>3. opc' = opc \/ (opc = "select" /\ opc' = "flags")
      BY <2>1 DEF WakeMainLoop
    <2>4. opc \notin FinalPcs
      BY <2>1 DEF LifeInv, ControlConsistent
    <2>5. CASE Serving
      <3>1. Serving' /\ opc' # "install"
        BY <2>1, <2>2, <2>5, <2>3 DEF Serving, LoopPcs, StartupPcs
      <3> QED
        BY <2>1, <2>2, <2>5, <2>3, <3>1, LoopLife
    <2>6. CASE ~Serving
      <3>1. \/ opc \in LogPcs \cup {"panic_exit", "quit_exit"}
            \/ opc = "kill" /\ kill_next \in {"panic_exit", "quit_exit"}
        BY <2>1, <2>4, <2>6 DEF Serving, TypeOK, OverseerTypeOK, AfterKill
      <3> QED
        BY <2>2, <2>3, <3>1, PanicLife DEF LogPcs
    <2> QED
      BY <2>5, <2>6
  <1>2. CASE HandleSIGQUIT
    BY <1>2, PanicLife DEF HandleSIGQUIT, KillProcessGroup, GoTo
  <1> QED
    BY <1>1, <1>2 DEF OverseerHandlers

\* The main loop up to waitpid(), and KillProcessGroup.
LEMMA LoopStepsLife ==
    ASSUME TypeOK, LifeInv,
           \/ SelectTimesOut \/ SelectReady \/ DrainSelfPipe \/ CheckFlags
           \/ ClearFastShutdown \/ ClearSmartShutdown \/ WaitFindsNone
           \/ \E p \in Children : KillOne(p)
           \/ KillReturns
    PROVE  LifeInv'
  <1> USE DEF hostVars, pidVars, flagVars, killVars, At, GoTo
  <1>1. CASE \/ SelectTimesOut \/ SelectReady \/ DrainSelfPipe \/ WaitFindsNone
             \/ ClearFastShutdown \/ ClearSmartShutdown
    <2>1. /\ Serving /\ Serving' /\ Alive(Overseer)
          /\ opc # "reaped" /\ opc' \notin {"install", "reaped", "kill"}
          /\ UNCHANGED <<pstate, pidVars, mainapp_shutdown>>
      BY <1>1 DEF Serving, LoopPcs, SelectTimesOut, SelectReady, DrainSelfPipe,
                  WaitFindsNone, ClearFastShutdown, ClearSmartShutdown
    <2> QED
      BY <2>1, LoopLife
  <1>2. CASE CheckFlags
    <2>1. /\ Serving /\ Serving' /\ Alive(Overseer)
          /\ opc = "flags" /\ opc' \notin {"install", "reaped"}
          /\ UNCHANGED <<pstate, pidVars, mainapp_shutdown>>
          /\ opc' = "kill" => kill_todo' = KillTargets
      BY <1>2 DEF Serving, LoopPcs, CheckFlags, KillProcessGroup
    <2>2. \A p \in KillTargets : Unreaped(p)
      <3>1. Normal /\ ~JustReaped(Monitor) /\ \A w \in Workers : ~JustReaped(w)
        BY <2>1 DEF Normal, JustReaped
      <3> QED
        BY <3>1 DEF LifeInv, PidsTracked, KillTargets, TypeOK, OverseerTypeOK
    <2> QED
      BY <2>1, <2>2, LoopLife
  <1>3. CASE \E p \in Children : KillOne(p)
    <2>1. /\ Alive(Overseer) /\ opc = "kill" /\ opc' = "kill"
          /\ UNCHANGED <<pstate, pidVars, mainapp_shutdown, kill_next>>
          /\ kill_todo' \subseteq kill_todo
      BY <1>3 DEF KillOne
    <2>2. CASE kill_next \in {"clear_fast", "clear_smart"}
      <3>1. Serving /\ Serving'
        BY <2>1, <2>2 DEF Serving
      <3> QED
        BY <2>1, <3>1, LoopLife
    <2>3. CASE kill_next \in {"panic_exit", "quit_exit"}
      BY <2>1, <2>3, PanicLife
    <2> QED
      BY <2>2, <2>3 DEF TypeOK, OverseerTypeOK, AfterKill
  <1>4. CASE KillReturns
    <2>1. /\ Alive(Overseer) /\ opc = "kill" /\ opc' = kill_next
          /\ UNCHANGED <<pstate, pidVars, mainapp_shutdown, kill_next>>
      BY <1>4 DEF KillReturns
    <2>2. CASE kill_next \in {"clear_fast", "clear_smart"}
      <3>1. Serving /\ Serving' /\ opc' \notin {"install", "kill", "reaped"}
        BY <2>1, <2>2 DEF Serving
      <3> QED
        BY <2>1, <3>1, LoopLife
    <2>3. CASE kill_next \in {"panic_exit", "quit_exit"}
      BY <2>1, <2>3, PanicLife
    <2> QED
      BY <2>2, <2>3 DEF TypeOK, OverseerTypeOK, AfterKill
  <1> QED
    BY <1>1, <1>2, <1>3, <1>4

\* waitpid() returns a child, or finds that there is none left.
LEMMA WaitLife ==
    ASSUME TypeOK, LifeInv, WaitFindsNoChildren \/ \E p \in Children : WaitReaps(p)
    PROVE  LifeInv'
  <1> USE DEF hostVars, pidVars, flagVars, killVars, At, GoTo
  <1>0. /\ Overseer \in Procs /\ Children \subseteq Procs /\ Overseer \notin Children
        /\ Workers \subseteq Children /\ Auxiliaries \subseteq Children
        /\ Strays \subseteq Children /\ Monitor \in Children
    BY ProcsLemma
  <1>1. ASSUME NEW p \in Children, WaitReaps(p) PROVE LifeInv'
    <2>0. /\ opc = "wait" /\ opc' = "reaped" /\ Alive(Overseer) /\ Alive(Overseer)'
          /\ pstate[p] = "zombie" /\ child' = p
          /\ pstate' = [pstate EXCEPT ![p] = "reaped"]
          /\ UNCHANGED <<pidVars, mainapp_shutdown>>
      BY <1>0, <1>1 DEF WaitReaps, Alive, TypeOK, HostTypeOK
    <2>1. Serving /\ Normal
      BY <2>0 DEF Serving, Normal, LoopPcs
    <2>2. BirthsInOrder'
      BY <1>0, <2>0, <2>1 DEF LifeInv, BirthsInOrder, Born, TypeOK, HostTypeOK
    <2>3. PidsTracked'
      BY <1>0, <2>0, <2>1
      DEF LifeInv, PidsTracked, Unreaped, JustReaped, TypeOK, HostTypeOK
    <2>4. NobodyForgotten'
      BY <1>0, <2>0, <2>1 DEF LifeInv, NobodyForgotten, JustReaped, TypeOK, HostTypeOK
    <2>5. ControlConsistent'
      BY <1>0, <2>0 DEF ControlConsistent, FinalPcs, StartupPcs, TypeOK, HostTypeOK
    <2>6. ExitZeroMeansAllStopped' /\ ShutdownSignalsOnlyUnreaped'
      BY <2>0 DEF ExitZeroMeansAllStopped, ShutdownSignalsOnlyUnreaped
    <2> QED
      BY <2>2, <2>3, <2>4, <2>5, <2>6 DEF LifeInv
  <1>2. CASE WaitFindsNoChildren
    <2>1. /\ opc = "wait" /\ opc' = "exit0" /\ Alive(Overseer) /\ OverseerEnds
          /\ UNCHANGED mainapp_shutdown
          /\ \A p \in Children : ~Unreaped(p)
      BY <1>2 DEF WaitFindsNoChildren, Exits
    <2>2. Serving /\ Normal
      BY <2>1 DEF Serving, Normal, LoopPcs
    <2>3. \A p \in Children : pstate[p] = "reaped"
      BY <1>0, <2>1, <2>2 DEF LifeInv, BirthsInOrder, Born, Unreaped, TypeOK, HostTypeOK
    <2>4. mainapp_shutdown = 1
      <3>1. PICK w \in Workers : TRUE
        BY ProcessesAssumption
      <3> QED
        BY <1>0, <2>1, <2>2, <2>3, <3>1
        DEF LifeInv, NobodyForgotten, JustReaped, TypeOK, OverseerTypeOK
    <2>5. ~Alive(Overseer)' /\ \A p \in Children : pstate'[p] = "reaped"
      BY <1>0, <2>1, <2>3 DEF OverseerEnds, Alive, TypeOK, HostTypeOK
    <2>6. ~Serving' /\ ~Normal'
      BY <2>1, <2>5 DEF Serving, Normal, LoopPcs
    <2>7. BirthsInOrder' /\ PidsTracked' /\ NobodyForgotten' /\ ControlConsistent'
      BY <2>1, <2>5, <2>6
      DEF BirthsInOrder, PidsTracked, NobodyForgotten, ControlConsistent, StartupPcs
    <2>8. ExitZeroMeansAllStopped' /\ ShutdownSignalsOnlyUnreaped'
      BY <2>1, <2>4, <2>5 DEF ExitZeroMeansAllStopped, ShutdownSignalsOnlyUnreaped
    <2> QED
      BY <2>7, <2>8 DEF LifeInv
  <1> QED
    BY <1>1, <1>2

\* HandleChildProcessDeath: a child that died unexpectedly ends everything; one that
\* died during the shutdown is taken out of its list.
LEMMA HandleDeathLife ==
    ASSUME TypeOK, LifeInv, HandleChildProcessDeath
    PROVE  LifeInv'
  <1> USE DEF hostVars, pidVars, flagVars, killVars, At, GoTo
  <1>0. /\ Overseer \in Procs /\ Children \subseteq Procs /\ Overseer \notin Children
        /\ Workers \subseteq Children /\ Auxiliaries \subseteq Children
        /\ Monitor \in Children /\ NoPid \notin Children
    BY ProcsLemma
  <1>1. CASE HandleUnexpectedChildProcessDeath \/ HandleUnknownChildDeath
    BY <1>1, PanicType, PanicLife
    DEF HandleUnexpectedChildProcessDeath, HandleUnknownChildDeath, LogPcs
  <1>2. CASE ForgetChild /\ mainapp_shutdown = 1
    <2>1. /\ opc = "reaped" /\ opc' = "wait" /\ Alive(Overseer) /\ Alive(Overseer)'
          /\ UNCHANGED <<pstate, mainapp_shutdown>>
          /\ child \in Children /\ pstate[child] = "reaped"
      BY <1>2 DEF HandleChildProcessDeath, ForgetChild, Alive, LifeInv, ControlConsistent
    <2>2. Serving /\ Normal /\ opc' \notin StartupPcs \cup FinalPcs
      BY <2>1 DEF Serving, Normal, LoopPcs, StartupPcs, FinalPcs
    <2>3. BirthsInOrder'
      BY <2>1, <2>2 DEF LifeInv, BirthsInOrder, Born, StartupPcs
    <2>4. PidsTracked'
      <3>1. ~Unreaped(child)
        BY <2>1 DEF Unreaped
      <3> QED
        BY <1>0, <1>2, <2>1, <2>2, <3>1
        DEF LifeInv, PidsTracked, ForgetChild, JustReaped, Unreaped, TypeOK, OverseerTypeOK
    <2>5. NobodyForgotten' /\ ControlConsistent'
      BY <1>2, <2>1, <2>2 DEF NobodyForgotten, ControlConsistent
    <2>6. ExitZeroMeansAllStopped' /\ ShutdownSignalsOnlyUnreaped'
      BY <2>1 DEF ExitZeroMeansAllStopped, ShutdownSignalsOnlyUnreaped
    <2> QED
      BY <2>3, <2>4, <2>5, <2>6 DEF LifeInv
  <1> QED
    BY <1>1, <1>2 DEF HandleChildProcessDeath, TypeOK, OverseerTypeOK

\* Every step keeps the invariant.
LEMMA StepLife == TypeOK /\ LifeInv /\ [Next]_vars => LifeInv'
  <1> SUFFICES ASSUME TypeOK, LifeInv, [Next]_vars PROVE LifeInv'
    OBVIOUS
  <1>1. CASE OverseerStep
    <2>1. CASE OverseerStartup
      BY <2>1, StartupLife
    <2>2. CASE OverseerHandlers
      BY <2>2, HandlersLife
    <2>3. CASE OverseerMain
      <3>1. CASE ExitsAfterKill
        BY <3>1, DeadLife DEF ExitsAfterKill, Exits, GoTo
      <3>2. CASE LogsAndKills \/ LogsUnknownChild
        BY <3>2, PanicLife DEF LogsAndKills, LogsUnknownChild, KillProcessGroup, GoTo
      <3> QED
        BY <2>3, <3>1, <3>2, LoopStepsLife, WaitLife, HandleDeathLife DEF OverseerMain
    <2>4. CASE LoadFails \/ ForkFailsWithInterpreter \/ OverseerCrashes
      BY <2>4, DeadLife DEF LoadFails, ForkFailsWithInterpreter, OverseerCrashes, Exits, GoTo
    <2>5. CASE SetUpFailsEarly \/ SetUpFails \/ SystemCallFails
      BY <2>5, PanicType, PanicLife
      DEF SetUpFailsEarly, SetUpFails, SystemCallFails, GoTo, LogPcs
    <2> QED
      BY <1>1, <2>1, <2>2, <2>3, <2>4, <2>5
      DEF OverseerStep, OverseerNext, OverseerFailures
  <1>2. CASE \/ \E w \in Workers : WorkerStep(w)
             \/ \E a \in Auxiliaries : AuxStep(a)
             \/ MonitorStep
             \/ EnvironmentStep
    BY <1>2, OthersFrame, FrameLife
  <1>3. CASE UNCHANGED vars
    <2>1. UNCHANGED overseerVars /\ ChildrenMayEnd
      BY <1>3 DEF vars, overseerVars, hostVars, ChildrenMayEnd
    <2> QED
      BY <2>1, FrameLife
  <1> QED
    BY <1>1, <1>2, <1>3 DEF Next

\* Nothing is born yet when the overseer starts.
LEMMA InitLife == Init => LifeInv
  <1> SUFFICES ASSUME Init PROVE LifeInv
    OBVIOUS
  <1> USE DEF Init, HostInit, OverseerInit
  <1>0. \A p \in Children : p \in Procs /\ pstate[p] = "unborn"
    BY ProcsLemma
  <1>1. ~Serving
    BY DEF Serving, LoopPcs
  <1>2. BirthsInOrder /\ NobodyForgotten /\ ControlConsistent
    BY <1>0, <1>1 DEF BirthsInOrder, NobodyForgotten, ControlConsistent, FinalPcs
  <1>3. PidsTracked
    BY <1>0, ProcsLemma DEF PidsTracked, Unreaped, JustReaped
  <1>4. ExitZeroMeansAllStopped /\ ShutdownSignalsOnlyUnreaped
    BY DEF ExitZeroMeansAllStopped, ShutdownSignalsOnlyUnreaped, At
  <1> QED
    BY <1>2, <1>3, <1>4 DEF LifeInv

\* The invariant about the children's lives holds always.
THEOREM LifeInvariance == Spec => []LifeInv
  BY InitLife, StepLife, TypeCorrectness, PTL DEF Spec

\* The overseer calls exit(0) only after a shutdown was asked for and every process it
\* ever started was reaped, whatever crashed, failed or was signalled before.
THEOREM ExitZero == Spec => []ExitZeroMeansAllStopped
  <1>1. LifeInv => ExitZeroMeansAllStopped
    BY DEF LifeInv
  <1> QED
    BY <1>1, LifeInvariance, PTL

\* A shutdown sends no signal to a pid that was already reaped.
THEOREM ShutdownSignals == Spec => []ShutdownSignalsOnlyUnreaped
  <1>1. LifeInv => ShutdownSignalsOnlyUnreaped
    BY DEF LifeInv
  <1> QED
    BY <1>1, LifeInvariance, PTL

---------------------------------------------------------------------------
(* A quiet shutdown *)

\* A step of another process keeps QuietInv if it leaves the flag, the overseer and the
\* strays alone and, before a shutdown, disturbs no child.
LEMMA FrameQuiet ==
    ASSUME TypeOK, QuietInv, Quiet, UNCHANGED <<overseerVars, should_exit>>,
           mpc' \notin {"log", "dying"},
           Alive(Overseer)' <=> Alive(Overseer),
           "SIGQUIT" \notin pending'[Overseer],
           \A p \in Strays : pstate'[p] = pstate[p],
           Unasked' =>
               /\ Unasked
               /\ \A p \in Children : pstate'[p] = pstate[p] /\ pending'[p] = pending[p]
               /\ \A w \in Workers : worker_terminated'[w] = worker_terminated[w]
    PROVE  QuietInv'
  <1> USE DEF overseerVars, flagVars, killVars
  <1>1. UndisturbedBeforeShutdown'
    BY DEF QuietInv, UndisturbedBeforeShutdown, Quiet
  <1>2. QuietOverseer'
    BY DEF QuietInv, QuietOverseer, Quiet
  <1> QED
    BY <1>1, <1>2 DEF QuietInv

\* What the end of a child that is no stray leaves alone.
LEMMA ChildEndsQuiet ==
    ASSUME TypeOK, QuietInv, Quiet, NEW p \in Children \ Strays, ChildEnds(p)
    PROVE  /\ Alive(Overseer)' <=> Alive(Overseer)
           /\ "SIGQUIT" \notin pending'[Overseer]
           /\ "SIGINT" \in pending[Overseer] => "SIGINT" \in pending'[Overseer]
           /\ \A q \in Strays : pstate'[q] = pstate[q]
  BY ProcsLemma DEF TypeOK, HostTypeOK, ChildEnds, Alive, QuietInv, QuietOverseer

\* A worker of a quiet system ends only in a shutdown.
LEMMA WorkerQuiet ==
    ASSUME TypeOK, QuietInv, Quiet, Quiet', NEW w \in Workers, WorkerStep(w)
    PROVE  QuietInv'
  <1> USE DEF hostVars, sharedVars, workerVars
  <1>0. /\ w \in Children \ Strays
        /\ UNCHANGED overseerVars /\ mpc' \notin {"log", "dying"}
    BY ProcsLemma, ProcessesAssumption
    DEF WorkerStep, monitorVars, QuietInv, QuietOverseer
  <1>1. CASE UNCHANGED <<pstate, pending, should_exit, worker_terminated>>
    <2>1. /\ Alive(Overseer)' <=> Alive(Overseer)
          /\ "SIGQUIT" \notin pending'[Overseer]
          /\ Unasked' <=> Unasked
      BY <1>0, <1>1 DEF Alive, QuietInv, QuietOverseer, Unasked, overseerVars, flagVars
    <2> QED
      BY <1>0, <1>1, <2>1, FrameQuiet
  <1>2. CASE WorkerLeaves(w) \/ WorkerHandlesSIGQUIT(w)
    <2>1. ~Unasked
      BY <1>0, <1>2 DEF WorkerLeaves, WorkerHandlesSIGQUIT, QuietInv, QuietOverseer,
                        UndisturbedBeforeShutdown
    <2>2. ChildEnds(w) /\ UNCHANGED should_exit
      BY <1>2 DEF WorkerLeaves, WorkerHandlesSIGQUIT
    <2>3. ~Unasked'
      BY <1>0, <2>1, <2>2, ChildEndsQuiet DEF Unasked, overseerVars, flagVars
    <2> QED
      BY <1>0, <2>2, <2>3, ChildEndsQuiet, FrameQuiet
  <1>3. CASE WorkerHandlesSIGTERM(w)
    <2>1. ~Unasked
      BY <1>0, <1>3 DEF WorkerHandlesSIGTERM, QuietInv, UndisturbedBeforeShutdown
    <2>2. /\ UNCHANGED <<should_exit, pstate>>
          /\ pending' = Delivered(w, "SIGTERM")
      BY <1>3 DEF WorkerHandlesSIGTERM
    <2>3. /\ Alive(Overseer)' <=> Alive(Overseer)
          /\ "SIGQUIT" \notin pending'[Overseer]
          /\ pending'[Overseer] = pending[Overseer]
      BY <2>2, ProcsLemma
      DEF Alive, Delivered, QuietInv, QuietOverseer, TypeOK, HostTypeOK
    <2>4. ~Unasked'
      BY <1>0, <2>1, <2>3 DEF Unasked, overseerVars, flagVars
    <2> QED
      BY <1>0, <2>2, <2>3, <2>4, FrameQuiet
  <1>4. CASE AppDies(w)
    BY <1>4 DEF AppDies, ChildCrashes, Fails, Quiet
  <1> QED
    BY <1>1, <1>2, <1>3, <1>4
    DEF WorkerStep, WorkerNext, WorkerRuns, WorkerHandlers, WorkerSubprocessInit,
        WorkerUnblocks, WorkerCallsCallback, WorkerBlocksInAccept, WorkerAccepts, WorkerAcceptFails,
        WorkerCounts, AppSetsStatus, AppFinishes

\* So does an auxiliary process.
LEMMA AuxQuiet ==
    ASSUME TypeOK, QuietInv, Quiet, Quiet', NEW a \in Auxiliaries, AuxStep(a)
    PROVE  QuietInv'
  <1> USE DEF hostVars, sharedVars, workerVars
  <1>0. /\ a \in Children \ Strays
        /\ UNCHANGED <<overseerVars, should_exit, worker_terminated>> /\ mpc' \notin {"log", "dying"}
    BY ProcsLemma, ProcessesAssumption
    DEF AuxStep, monitorVars, QuietInv, QuietOverseer, AuxNext, AuxRuns, AuxSubprocessInit,
        AuxUnblocks, AuxDiesOfSignal, AuxCallbackEnds
  <1>1. CASE UNCHANGED <<pstate, pending>>
    <2>1. /\ Alive(Overseer)' <=> Alive(Overseer)
          /\ "SIGQUIT" \notin pending'[Overseer]
          /\ Unasked' <=> Unasked
      BY <1>0, <1>1 DEF Alive, QuietInv, QuietOverseer, Unasked, overseerVars, flagVars
    <2> QED
      BY <1>0, <1>1, <2>1, FrameQuiet
  <1>2. CASE AuxDiesOfSignal(a)
    <2>1. ~Unasked /\ ChildEnds(a)
      BY <1>0, <1>2 DEF AuxDiesOfSignal, QuietInv, UndisturbedBeforeShutdown
    <2>2. ~Unasked'
      BY <1>0, <2>1, ChildEndsQuiet DEF Unasked, overseerVars, flagVars
    <2> QED
      BY <1>0, <2>1, <2>2, ChildEndsQuiet, FrameQuiet
  <1>3. CASE AuxCallbackEnds(a)
    BY <1>3 DEF AuxCallbackEnds, ChildCrashes, Fails, Quiet
  <1> QED
    BY <1>1, <1>2, <1>3 DEF AuxStep, AuxNext, AuxRuns, AuxSubprocessInit, AuxUnblocks

\* The monitoring process of a quiet system never finds the overseer gone: exit(0) comes
\* after everyone was reaped.
LEMMA MonitorQuiet ==
    ASSUME TypeOK, LifeInv, QuietInv, Quiet, Quiet', MonitorStep
    PROVE  QuietInv'
  <1> USE DEF hostVars, sharedVars, workerVars, monitorVars
  <1>0. /\ Monitor \in Children \ Strays
        /\ UNCHANGED <<overseerVars, worker_terminated>> /\ mpc \notin {"log", "dying"}
    BY ProcsLemma, ProcessesAssumption DEF MonitorStep, QuietInv, QuietOverseer
  <1>1. CASE \/ MonitorUnblocks \/ MonitorSelects \/ MonitorSelectReturns
             \/ MonitorSeesClient \/ MonitorHandlesClient
    <2>1. UNCHANGED <<pstate, pending, should_exit>> /\ mpc' \notin {"log", "dying"}
      BY <1>1 DEF MonitorUnblocks, MonitorSelects, MonitorSelectReturns, MonitorSeesClient,
                  MonitorHandlesClient
    <2>2. /\ Alive(Overseer)' <=> Alive(Overseer)
          /\ "SIGQUIT" \notin pending'[Overseer]
          /\ Unasked' <=> Unasked
      BY <1>0, <2>1 DEF Alive, QuietInv, QuietOverseer, Unasked, overseerVars, flagVars
    <2> QED
      BY <1>0, <2>1, <2>2, FrameQuiet
  <1>2. CASE MonitorNoticesRunnerDied
    <2>1. ~Alive(Overseer) /\ pstate[Monitor] = "alive"
      BY <1>2 DEF MonitorNoticesRunnerDied, MonitorAt, Alive
    <2>2. opc = "exit0"
      BY <2>1 DEF QuietInv, QuietOverseer
    <2>3. pstate[Monitor] = "reaped"
      BY <1>0, <2>2 DEF LifeInv, ExitZeroMeansAllStopped
    <2> QED
      BY <2>1, <2>3
  <1>3. CASE MonitorThrows
    BY <1>3 DEF MonitorThrows, Fails, Quiet
  <1>4. CASE MonitorLogs \/ MonitorExits \/ \E w \in Workers : MonitorKillsOne(w)
    BY <1>0, <1>4 DEF MonitorLogs, MonitorExits, MonitorKillsOne, MonitorAt
  <1>5. CASE MonitorDiesOfSignal
    <2>1. ~Unasked /\ ChildEnds(Monitor) /\ UNCHANGED should_exit /\ mpc' \notin {"log", "dying"}
      BY <1>0, <1>5 DEF MonitorDiesOfSignal, QuietInv, UndisturbedBeforeShutdown
    <2>2. ~Unasked'
      BY <1>0, <2>1, ChildEndsQuiet DEF Unasked, overseerVars, flagVars
    <2> QED
      BY <1>0, <2>1, <2>2, ChildEndsQuiet, FrameQuiet
  <1> QED
    BY <1>1, <1>2, <1>3, <1>4, <1>5 DEF MonitorStep, MonitorNext, MonitorRuns

\* The environment of a quiet system sends SIGTERM and SIGINT and opens connections.
LEMMA EnvironmentQuiet ==
    ASSUME TypeOK, QuietInv, Quiet, Quiet', EnvironmentStep
    PROVE  QuietInv'
  <1> USE DEF hostVars, sharedVars, workerVars, monitorVars
  <1>0. UNCHANGED <<overseerVars, should_exit, worker_terminated, mpc>> /\ mpc \notin {"log", "dying"}
    BY DEF EnvironmentStep, ClientConnects, QuietInv, QuietOverseer
  <1>1. ASSUME NEW s \in AdminSignals, AdminSends(s) PROVE QuietInv'
    <2>1. s # "SIGQUIT"
      BY <1>1 DEF AdminSends, Quiet, TypeOK, HostTypeOK
    <2>2. pstate' = pstate /\ pending' = [pending EXCEPT ![Overseer] = @ \cup {s}]
      BY <1>1, ProcsLemma DEF AdminSends, Posted
    <2>3. /\ Alive(Overseer)' <=> Alive(Overseer)
          /\ "SIGQUIT" \notin pending'[Overseer]
          /\ \A p \in Children : pending'[p] = pending[p]
          /\ Unasked' => Unasked
      BY <1>0, <2>1, <2>2, ProcsLemma
      DEF Alive, QuietInv, QuietOverseer, TypeOK, HostTypeOK, Unasked, overseerVars, flagVars
    <2> QED
      BY <1>0, <2>2, <2>3, FrameQuiet
  <1>2. ASSUME NEW p \in Children, ChildCrashes(p) PROVE QuietInv'
    BY <1>2 DEF ChildCrashes, Fails, Quiet
  <1>3. CASE ClientConnects
    <2>1. UNCHANGED <<pstate, pending>>
      BY <1>3 DEF ClientConnects
    <2>2. /\ Alive(Overseer)' <=> Alive(Overseer)
          /\ "SIGQUIT" \notin pending'[Overseer]
          /\ Unasked' <=> Unasked
      BY <1>0, <2>1 DEF Alive, QuietInv, QuietOverseer, Unasked, overseerVars, flagVars
    <2> QED
      BY <1>0, <2>1, <2>2, FrameQuiet
  <1>4. CASE TerminalInterrupts
    <2>1. /\ pstate' = pstate
          /\ pending'[Overseer] = pending[Overseer] \cup {"SIGINT"}
      BY <1>4, ProcsLemma DEF TerminalInterrupts
    <2>2. /\ Alive(Overseer)' <=> Alive(Overseer)
          /\ "SIGQUIT" \notin pending'[Overseer]
          /\ ~Unasked'
      BY <2>1 DEF Alive, QuietInv, QuietOverseer, Unasked
    <2> QED
      BY <1>0, <2>1, <2>2, FrameQuiet
  <1> QED
    BY <1>1, <1>2, <1>3, <1>4 DEF EnvironmentStep

\* A step of a living overseer keeps QuietInv if it stays out of the panic paths, leaves
\* the strays alone and, before a shutdown, disturbs no child and no flag.
LEMMA LivingQuiet ==
    ASSUME TypeOK, QuietInv, Quiet,
           UNCHANGED <<should_exit, mpc, worker_terminated>>,
           Alive(Overseer)',
           "SIGQUIT" \notin pending'[Overseer],
           \A p \in Strays : pstate'[p] \in {"unborn", "alive"},
           opc' \notin LogPcs \cup {"panic_exit", "quit_exit", "exit1", "killed"},
           opc' = "kill" => kill_next' \in {"clear_fast", "clear_smart"},
           Unasked' =>
               /\ Unasked
               /\ UNCHANGED <<fast_shutdown, smart_shutdown>>
               /\ \A p \in Children : /\ pstate'[p] \in {"unborn", "alive"}
                                      /\ pending'[p] = pending[p]
               /\ opc' \in StartupPcs \cup {"select", "drain", "flags", "wait"}
    PROVE  QuietInv'
  <1>1. UndisturbedBeforeShutdown'
    BY DEF QuietInv, UndisturbedBeforeShutdown
  <1>2. QuietOverseer'
    BY DEF QuietInv, QuietOverseer
  <1> QED
    BY <1>1, <1>2 DEF QuietInv

\* Start-up only brings children to life.
LEMMA StartupQuiet ==
    ASSUME TypeOK, QuietInv, Quiet, OverseerStartup,
           UNCHANGED <<workerVars, apc, monitorVars>>
    PROVE  QuietInv'
  <1> USE DEF hostVars, sharedVars, workerVars, monitorVars, flagVars, killVars
  <1>0. At(opc) /\ opc \in StartupPcs
    BY DEF OverseerStartup, LoadApplication, SpawnAuxiliaryProcess, AuxiliariesSpawned,
           SpawnWorker, WorkersSpawned, SpawnMonitoringProcess, InstallHandlers, At, StartupPcs
  <1>1. UNCHANGED <<should_exit, mpc, worker_terminated, pending, mainapp_shutdown,
                    fast_shutdown, smart_shutdown>>
    BY DEF OverseerStartup, LoadApplication, SpawnAuxiliaryProcess, AuxiliariesSpawned,
           SpawnWorker, WorkersSpawned, SpawnMonitoringProcess, InstallHandlers
  <1>2. opc' \in StartupPcs \cup {"select"}
    BY <1>0 DEF OverseerStartup, LoadApplication, SpawnAuxiliaryProcess, AuxiliariesSpawned,
           SpawnWorker, WorkersSpawned, SpawnMonitoringProcess, InstallHandlers, GoTo, StartupPcs
  <1>3. pstate' = pstate \/ \E ps \in SUBSET Children : pstate' = Forked(ps)
    BY ProcsLemma
    DEF OverseerStartup, LoadApplication, SpawnAuxiliaryProcess, AuxiliariesSpawned,
        SpawnWorker, WorkersSpawned, SpawnMonitoringProcess, InstallHandlers
  <1>4. \A p \in Procs : pstate'[p] = pstate[p] \/ pstate'[p] = "alive"
    BY <1>3 DEF Forked
  <1>5. Alive(Overseer)'
    BY <1>0, <1>4, ProcsLemma DEF At, Alive
  <1>6. "SIGQUIT" \notin pending'[Overseer]
    BY <1>1 DEF QuietInv, QuietOverseer
  <1>7. \A p \in Strays : pstate'[p] \in {"unborn", "alive"}
    BY <1>4, ProcsLemma DEF QuietInv, QuietOverseer
  <1>8. /\ Unasked' <=> Unasked
        /\ Unasked => \A p \in Children : pstate'[p] \in {"unborn", "alive"}
    BY <1>1, <1>4, ProcsLemma DEF QuietInv, UndisturbedBeforeShutdown, Unasked
  <1>9. opc' \notin LogPcs \cup {"panic_exit", "quit_exit", "exit1", "killed", "kill"}
    BY <1>2 DEF StartupPcs, LogPcs
  <1> QED
    BY <1>1, <1>2, <1>5, <1>6, <1>7, <1>8, <1>9, LivingQuiet

\* The handlers of SIGTERM and SIGINT note a shutdown; the one of SIGCHLD wakes the main
\* loop and does nothing else; SIGQUIT never comes.
LEMMA HandlersQuiet ==
    ASSUME TypeOK, QuietInv, Quiet, OverseerHandlers,
           UNCHANGED <<workerVars, apc, monitorVars>>
    PROVE  QuietInv'
  <1> USE DEF hostVars, sharedVars, workerVars, monitorVars, flagVars, killVars
  <1>1. ~HandleSIGQUIT
    BY DEF HandleSIGQUIT, Handles, QuietInv, QuietOverseer
  <1>2. WakeMainLoop
    BY <1>1 DEF OverseerHandlers, HandleSIGTERM, HandleSIGINT, HandleSIGCHLD
  <1>3. PICK sig \in Signals : Handles(sig)
    BY <1>1 DEF OverseerHandlers, HandleSIGTERM, HandleSIGINT, HandleSIGCHLD, Signals,
                AdminSignals
  <1>4. UNCHANGED <<should_exit, mpc, worker_terminated, pstate, kill_next>>
    BY <1>2 DEF WakeMainLoop
  <1>5. Alive(Overseer)'
    BY <1>3, <1>4 DEF Handles, Alive
  <1>6. /\ "SIGQUIT" \notin pending'[Overseer]
        /\ \A p \in Children : pending'[p] = pending[p]
    BY <1>3, ProcsLemma DEF Handles, Delivered, QuietInv, QuietOverseer, TypeOK, HostTypeOK
  <1>7. opc' = opc \/ opc' \in {"select", "flags"}
    BY <1>2 DEF WakeMainLoop
  <1>8. /\ opc' \notin LogPcs \cup {"panic_exit", "quit_exit", "exit1", "killed"}
        /\ opc' = "kill" => kill_next' \in {"clear_fast", "clear_smart"}
    BY <1>4, <1>7 DEF QuietInv, QuietOverseer, LogPcs
  <1>9. Unasked' => Unasked /\ UNCHANGED <<fast_shutdown, smart_shutdown>>
    <2> SUFFICES ASSUME Unasked' PROVE Unasked /\ UNCHANGED <<fast_shutdown, smart_shutdown>>
      OBVIOUS
    <2>1. HandleSIGCHLD
      BY <1>1 DEF OverseerHandlers, HandleSIGTERM, HandleSIGINT, Unasked
    <2>2. "SIGINT" \in pending[Overseer] => "SIGINT" \in pending'[Overseer]
      BY <2>1, ProcsLemma DEF HandleSIGCHLD, Handles, Delivered, TypeOK, HostTypeOK
    <2> QED
      BY <2>1, <2>2 DEF HandleSIGCHLD, Unasked
  <1>10. Unasked =>
           /\ \A p \in Children : pstate'[p] \in {"unborn", "alive"}
           /\ opc' \in StartupPcs \cup {"select", "drain", "flags", "wait"}
    BY <1>4, <1>7 DEF QuietInv, UndisturbedBeforeShutdown
  <1>11. \A p \in Strays : pstate'[p] \in {"unborn", "alive"}
    BY <1>4 DEF QuietInv, QuietOverseer
  <1> QED
    BY <1>4, <1>5, <1>6, <1>8, <1>9, <1>10, <1>11, LivingQuiet

\* The steps of the main loop that leave the process table alone.
LEMMA LoopStepsQuiet ==
    ASSUME TypeOK, QuietInv, Quiet, UNCHANGED <<workerVars, apc, monitorVars>>,
           \/ SelectTimesOut \/ SelectReady \/ DrainSelfPipe
           \/ CheckFlags \/ ClearFastShutdown \/ ClearSmartShutdown
           \/ WaitFindsNone \/ KillReturns
    PROVE  QuietInv'
  <1> USE DEF hostVars, sharedVars, workerVars, monitorVars, flagVars, killVars
  <1>1. /\ Alive(Overseer)
        /\ UNCHANGED <<should_exit, mpc, worker_terminated, pstate, pending, mainapp_shutdown>>
    BY DEF SelectTimesOut, SelectReady, DrainSelfPipe, CheckFlags, ClearFastShutdown,
           ClearSmartShutdown, WaitFindsNone, KillReturns, At
  <1>2. /\ Alive(Overseer)'
        /\ "SIGQUIT" \notin pending'[Overseer]
        /\ \A p \in Strays : pstate'[p] \in {"unborn", "alive"}
        /\ Unasked' <=> Unasked
        /\ Unasked =>
             \A p \in Children : pstate'[p] \in {"unborn", "alive"} /\ pending'[p] = pending[p]
    BY <1>1 DEF Alive, QuietInv, QuietOverseer, UndisturbedBeforeShutdown, Unasked
  <1>3. CASE \/ SelectTimesOut \/ SelectReady \/ DrainSelfPipe \/ WaitFindsNone
    <2>1. /\ opc' \in {"select", "drain", "flags"}
          /\ UNCHANGED <<fast_shutdown, smart_shutdown>>
      BY <1>3 DEF SelectTimesOut, SelectReady, DrainSelfPipe, WaitFindsNone, GoTo
    <2> QED
      BY <1>1, <1>2, <2>1, LivingQuiet DEF LogPcs
  <1>4. CASE CheckFlags
    <2>1. UNCHANGED <<fast_shutdown, smart_shutdown>>
      BY <1>4 DEF CheckFlags
    <2>2. \/ opc' = "wait"
          \/ /\ opc' = "kill" /\ kill_next' \in {"clear_fast", "clear_smart"}
             /\ fast_shutdown = 1 \/ smart_shutdown = 1
      BY <1>4 DEF CheckFlags, KillProcessGroup, GoTo
    <2>3. fast_shutdown = 1 \/ smart_shutdown = 1 => ~Unasked
      BY DEF QuietInv, UndisturbedBeforeShutdown
    <2> QED
      BY <1>1, <1>2, <2>1, <2>2, <2>3, LivingQuiet DEF LogPcs
  <1>5. CASE ClearFastShutdown \/ ClearSmartShutdown \/ KillReturns
    <2>1. /\ opc' \in {"wait", "clear_fast", "clear_smart"}
          /\ opc \in {"clear_fast", "clear_smart", "kill"}
      BY <1>5 DEF ClearFastShutdown, ClearSmartShutdown, KillReturns, At, GoTo, QuietInv,
                  QuietOverseer
    <2>2. ~Unasked
      BY <2>1 DEF QuietInv, UndisturbedBeforeShutdown, StartupPcs
    <2> QED
      BY <1>1, <1>2, <2>1, <2>2, LivingQuiet DEF LogPcs
  <1> QED
    BY <1>3, <1>4, <1>5

\* In a shutdown KillProcessGroup signals children, and the children that waitpid()
\* returns are known and are forgotten.
LEMMA ShutdownStepsQuiet ==
    ASSUME TypeOK, LifeInv, QuietInv, Quiet, UNCHANGED <<workerVars, apc, monitorVars>>,
           \/ \E p \in Children : WaitReaps(p) \/ KillOne(p)
           \/ HandleChildProcessDeath
    PROVE  QuietInv'
  <1> USE DEF hostVars, sharedVars, workerVars, monitorVars, flagVars, killVars
  <1>1. ASSUME NEW p \in Children, WaitReaps(p) PROVE QuietInv'
    <2>1. /\ At("wait") /\ pstate[p] = "zombie" /\ opc' = "reaped"
          /\ pstate' = [pstate EXCEPT ![p] = "reaped"]
          /\ UNCHANGED <<should_exit, mpc, worker_terminated, pending, mainapp_shutdown>>
      BY <1>1 DEF WaitReaps, GoTo
    <2>2. ~Unasked /\ ~Unasked' /\ p \notin Strays
      BY <2>1 DEF QuietInv, UndisturbedBeforeShutdown, QuietOverseer, Unasked
    <2>3. Alive(Overseer)'
      BY <2>1, ProcsLemma DEF At, Alive, TypeOK, HostTypeOK
    <2>4. \A q \in Strays : pstate'[q] \in {"unborn", "alive"}
      BY <2>1, <2>2, ProcsLemma DEF QuietInv, QuietOverseer, TypeOK, HostTypeOK
    <2>5. "SIGQUIT" \notin pending'[Overseer]
      BY <2>1 DEF QuietInv, QuietOverseer
    <2> QED
      BY <2>1, <2>2, <2>3, <2>4, <2>5, LivingQuiet DEF LogPcs
  <1>2. ASSUME NEW p \in Children, KillOne(p) PROVE QuietInv'
    <2>1. /\ At("kill") /\ pending' = Posted(p, kill_sig)
          /\ UNCHANGED <<opc, kill_next, pstate, should_exit, mpc, worker_terminated,
                         mainapp_shutdown>>
      BY <1>2 DEF KillOne
    <2>2. ~Unasked /\ kill_next' \in {"clear_fast", "clear_smart"}
      BY <2>1 DEF At, QuietInv, UndisturbedBeforeShutdown, QuietOverseer, StartupPcs
    <2>3. pending'[Overseer] = pending[Overseer]
      BY <2>1, ProcsLemma DEF Posted, TypeOK, HostTypeOK
    <2>4. /\ Alive(Overseer)' /\ opc' = "kill"
          /\ "SIGQUIT" \notin pending'[Overseer]
          /\ \A q \in Strays : pstate'[q] \in {"unborn", "alive"}
      BY <2>1, <2>3 DEF At, Alive, QuietInv, QuietOverseer
    <2>5. ~Unasked'
      BY <2>1, <2>2, <2>3 DEF Unasked
    <2> QED
      BY <2>1, <2>2, <2>4, <2>5, LivingQuiet DEF LogPcs
  <1>3. CASE HandleChildProcessDeath
    <2>1. /\ At("reaped")
          /\ UNCHANGED <<pstate, pending, mpc, worker_terminated, mainapp_shutdown>>
      BY <1>3 DEF HandleChildProcessDeath
    <2>2. mainapp_shutdown # 0 /\ ~Unasked'
      BY <1>3, <2>1 DEF HandleChildProcessDeath, SignalsDelivered, At, QuietInv,
                        UndisturbedBeforeShutdown, StartupPcs, Unasked
    <2>3. child \in Children /\ pstate[child] = "reaped"
      BY <2>1 DEF At, LifeInv, ControlConsistent
    <2>4. child \in Workers \cup Auxiliaries \cup {Monitor}
      BY <2>3 DEF QuietInv, QuietOverseer, Children
    <2>5. Normal /\ JustReaped(child)
      BY <2>1 DEF At, Normal, Serving, LoopPcs, JustReaped
    <2>6. child \in worker_pids \cup auxiliary_pids \cup {monitoring_process_pid}
      BY <2>4, <2>5 DEF LifeInv, PidsTracked
    <2>7. ForgetChild
      BY <1>3, <2>2, <2>6 DEF HandleChildProcessDeath
    <2>8. UNCHANGED should_exit /\ opc' = "wait"
      BY <2>7 DEF ForgetChild, GoTo
    <2>9. /\ Alive(Overseer)'
          /\ "SIGQUIT" \notin pending'[Overseer]
          /\ \A q \in Strays : pstate'[q] \in {"unborn", "alive"}
      BY <2>1 DEF At, Alive, QuietInv, QuietOverseer
    <2> QED
      BY <2>1, <2>2, <2>8, <2>9, LivingQuiet DEF LogPcs
  <1> QED
    BY <1>1, <1>2, <1>3

\* The overseer of a quiet system stays out of its panic paths; exit(0) is its only end.
LEMMA OverseerQuiet ==
    ASSUME TypeOK, LifeInv, LifeInv', QuietInv, Quiet, Quiet', OverseerStep
    PROVE  QuietInv'
  <1> USE DEF hostVars, sharedVars, workerVars, monitorVars, flagVars, killVars
  <1>0. UNCHANGED <<workerVars, apc, monitorVars>>
    BY DEF OverseerStep
  <1>1. CASE WaitFindsNoChildren
    <2>1. /\ opc' = "exit0" /\ OverseerEnds
          /\ UNCHANGED <<should_exit, mpc, mainapp_shutdown>>
      BY <1>0, <1>1 DEF WaitFindsNoChildren, Exits, GoTo
    <2>2. mainapp_shutdown' # 0
      BY <2>1 DEF LifeInv, ExitZeroMeansAllStopped
    <2>3. UndisturbedBeforeShutdown'
      BY <2>2 DEF UndisturbedBeforeShutdown, Unasked
    <2>4. /\ "SIGQUIT" \notin pending'[Overseer]
          /\ \A p \in Strays : pstate'[p] \in {"unborn", "alive"}
      BY <2>1, ProcsLemma DEF OverseerEnds, QuietInv, QuietOverseer
    <2>5. QuietOverseer'
      BY <2>1, <2>4 DEF QuietInv, QuietOverseer, LogPcs
    <2> QED
      BY <2>3, <2>5 DEF QuietInv
  <1>2. ~ExitsAfterKill /\ ~LogsAndKills /\ ~LogsUnknownChild
    BY DEF ExitsAfterKill, LogsAndKills, LogsUnknownChild, At, LogPcs, QuietInv, QuietOverseer
  <1>3. ~OverseerFailures
    BY DEF OverseerFailures, SetUpFailsEarly, SetUpFails, LoadFails, ForkFailsWithInterpreter, SystemCallFails,
           OverseerCrashes, Fails, Quiet
  <1> QED
    BY <1>0, <1>1, <1>2, <1>3, StartupQuiet, HandlersQuiet, LoopStepsQuiet, ShutdownStepsQuiet
    DEF OverseerStep, OverseerNext, OverseerMain

\* What has failed or was sent stays in the record: a quiet system was always quiet.
LEMMA QuietMonotone ==
    ASSUME TypeOK, [Next]_vars, Quiet'
    PROVE  Quiet
  <1> USE DEF hostVars
  <1> DEFINE Recorded == /\ failures' = failures \/ Fails
                         /\ \/ sent' = sent \/ \E s \in AdminSignals : AdminSends(s)
                            \/ TerminalInterrupts
  <1>1. OverseerStep => Recorded
    <2>1. OverseerStartup => Recorded
      BY DEF OverseerStartup, LoadApplication, SpawnAuxiliaryProcess, AuxiliariesSpawned,
             SpawnWorker, WorkersSpawned, SpawnMonitoringProcess, InstallHandlers
    <2>2. OverseerHandlers => Recorded
      BY DEF OverseerHandlers, HandleSIGTERM, HandleSIGINT, HandleSIGCHLD, HandleSIGQUIT,
             WakeMainLoop
    <2>3. OverseerMain => Recorded
      BY DEF OverseerMain, SelectTimesOut, SelectReady, DrainSelfPipe, CheckFlags,
             ClearFastShutdown, ClearSmartShutdown, WaitReaps, WaitFindsNone,
             WaitFindsNoChildren, HandleChildProcessDeath, LogsAndKills, LogsUnknownChild, KillOne, KillReturns,
             ExitsAfterKill, Exits
    <2>4. OverseerFailures => Recorded
      BY DEF OverseerFailures, SetUpFailsEarly, SetUpFails, LoadFails, ForkFailsWithInterpreter,
             SystemCallFails, OverseerCrashes, Exits
    <2> QED
      BY <2>1, <2>2, <2>3, <2>4 DEF OverseerStep, OverseerNext
  <1>2. \A w \in Workers : WorkerStep(w) => Recorded
    BY Zenon
    DEF WorkerStep, WorkerNext, WorkerRuns, WorkerHandlers, WorkerSubprocessInit,
        WorkerUnblocks, WorkerLeaves, WorkerCallsCallback, WorkerBlocksInAccept,
        WorkerAccepts, WorkerAcceptFails, WorkerCounts, AppSetsStatus, AppFinishes, AppDies,
        WorkerHandlesSIGTERM, WorkerHandlesSIGQUIT, ChildCrashes
  <1>3. \A a \in Auxiliaries : AuxStep(a) => Recorded
    BY DEF AuxStep, AuxNext, AuxRuns, AuxSubprocessInit, AuxUnblocks, AuxDiesOfSignal,
           AuxCallbackEnds, ChildCrashes
  <1>4. MonitorStep => Recorded
    BY DEF MonitorStep, MonitorNext, MonitorRuns, MonitorUnblocks, MonitorSelects,
           MonitorSelectReturns, MonitorSeesClient, MonitorHandlesClient,
           MonitorNoticesRunnerDied, MonitorThrows, MonitorGivesUp, MonitorLogs, MonitorKillsOne, MonitorExits,
           MonitorDiesOfSignal
  <1>5. EnvironmentStep => Recorded
    <2>1. /\ \A s \in AdminSignals : AdminSends(s) => failures' = failures
          /\ TerminalInterrupts => failures' = failures
      BY DEF AdminSends, TerminalInterrupts
    <2> QED
      BY <2>1 DEF EnvironmentStep, ChildCrashes, ClientConnects
  <1>6. Recorded
    BY <1>1, <1>2, <1>3, <1>4, <1>5 DEF Next, vars
  <1>7. failures = 0
    BY <1>6 DEF Fails, Quiet, TypeOK, HostTypeOK
  <1>8. sent["SIGQUIT"] = 0
    BY <1>6 DEF AdminSends, TerminalInterrupts, AdminSignals, Quiet, TypeOK, HostTypeOK
  <1> QED
    BY <1>7, <1>8 DEF Quiet

LEMMA StepQuiet == TypeOK /\ LifeInv /\ LifeInv' /\ QuietInv /\ [Next]_vars => QuietInv'
  <1> SUFFICES ASSUME TypeOK, LifeInv, LifeInv', QuietInv, [Next]_vars PROVE QuietInv'
    OBVIOUS
  <1>1. CASE ~Quiet'
    BY <1>1 DEF QuietInv, UndisturbedBeforeShutdown, QuietOverseer
  <1>2. CASE Quiet'
    <2>1. Quiet
      BY <1>2, QuietMonotone
    <2>2. CASE Next
      BY <1>2, <2>1, <2>2, OverseerQuiet, WorkerQuiet, AuxQuiet, MonitorQuiet,
         EnvironmentQuiet DEF Next
    <2>3. CASE UNCHANGED vars
      BY <2>3 DEF vars, hostVars, sharedVars, overseerVars, flagVars, killVars, workerVars,
                  monitorVars, Quiet, Unasked, QuietInv, UndisturbedBeforeShutdown,
                  QuietOverseer, Alive
    <2> QED
      BY <2>2, <2>3
  <1> QED
    BY <1>1, <1>2

LEMMA InitQuiet == Init => QuietInv
  <1> SUFFICES ASSUME Init PROVE QuietInv
    OBVIOUS
  <1>1. UndisturbedBeforeShutdown
    BY ProcsLemma DEF Init, HostInit, OverseerInit, WorkerInit, UndisturbedBeforeShutdown,
                      StartupPcs
  <1>2. QuietOverseer
    BY ProcsLemma DEF Init, HostInit, SharedInit, OverseerInit, MonitorInit, QuietOverseer,
                      LogPcs, Alive
  <1> QED
    BY <1>1, <1>2 DEF QuietInv

\* QuietInv is an invariant, on top of TypeOK and LifeInv.
THEOREM QuietInvariance == Spec => []QuietInv
  BY InitQuiet, StepQuiet, TypeCorrectness, LifeInvariance, PTL DEF Spec

\* A shutdown by SIGTERM or SIGINT never ends in a panic: the overseer is on its way to
\* _exit(1) only if something failed or SIGQUIT was sent.
THEOREM CleanShutdown == Spec => []CleanShutdownNeverPanics
  <1>1. TypeOK /\ QuietInv => CleanShutdownNeverPanics
    BY DEF QuietInv, QuietOverseer, Quiet, CleanShutdownNeverPanics, TypeOK, HostTypeOK,
           AdminSignals
  <1> QED
    BY <1>1, TypeCorrectness, QuietInvariance, PTL
===========================================================================
