-------------------------- MODULE StatisticsProofs --------------------------
(*************************************************************************)
(* Proof that the replies of the monitoring process are fresh and fit    *)
(* together, for any number of workers and clients.                      *)
(*************************************************************************)
EXTENDS Statistics, FiniteSetTheorems, TLAPS

Octets == [Workers -> [set : Nat, served : Nat]]
Snapshots == [statuses : Octets, counter : Nat]

TypeOK ==
    /\ wpc \in [Workers -> {"top", "request"}]
    /\ done \in [Workers -> Nat]
    /\ status \in Octets /\ data \in Octets
    /\ counter \in Nat
    /\ queue \in Seq(Clients)
    /\ since \in [Clients -> Snapshots \cup {None}]
    /\ reply \in [Clients -> Snapshots \cup {None}]
    /\ mpc \in {"loop", "select", "statuses", "accept", "gone"}
    /\ i \in 0..nworkers
    /\ runner \in BOOLEAN
    /\ interrupts \in Nat

\* What is shared only grows: what it was when a client connected is behind it.
GrowthInv ==
    \A c \in Clients : Connected(c) =>
        /\ counter >= since[c].counter
        /\ \A w \in Workers : status[w].set >= since[c].statuses[w].set

\* Who waits has connected.
QueueInv == \A k \in 1..Len(queue) : Connected(queue[k])

\* From select() to accept() the client at the head stays there, and what has been read
\* by then was read for it.
ReadInv ==
    mpc \in {"statuses", "accept"} =>
        /\ queue # <<>>
        /\ \A w \in 1..i : data[w].set >= since[Head(queue)].statuses[w].set
        /\ mpc = "accept" => i = nworkers

ReplyInv == ReplyIsFresh /\ \A c \in Clients : Answered(c) => Connected(c)

IInv == TypeOK /\ GrowthInv /\ QueueInv /\ ReadInv /\ ReplyInv

LEMMA NoneIsNone == None \notin Snapshots
<1>1. DOMAIN <<>> = {}
  OBVIOUS
<1>2. \A f \in Octets : DOMAIN f = 1..nworkers
  BY DEF Octets, Workers
<1>3. 1 \in 1..nworkers
  BY StatisticsAssumption
<1> QED
  BY <1>1, <1>2, <1>3 DEF None, Snapshots

LEMMA OctetType == ASSUME NEW f \in Octets, NEW w \in Workers PROVE f[w].set \in Nat
  BY DEF Octets

\* A status that is set is a new one.
LEMMA StatusSet ==
    ASSUME TypeOK, NEW w \in Workers, SetWorkerStatus(w)
    PROVE  status' \in Octets /\ \A v \in Workers : status'[v].set >= status[v].set
<1> DEFINE r == [set |-> status[w].set + 1, served |-> done[w]]
<1>1. status \in Octets /\ done[w] \in Nat
  BY DEF TypeOK
<1>2. status[w].set \in Nat
  BY <1>1, OctetType
<1>3. r \in [set : Nat, served : Nat] /\ r.set = status[w].set + 1
  BY <1>1, <1>2
<1>4. status' = [status EXCEPT ![w] = r]
  BY DEF SetWorkerStatus
<1> HIDE DEF r
<1>5. status' \in Octets /\ status'[w] = r /\ \A v \in Workers : v # w => status'[v] = status[v]
  BY <1>1, <1>3, <1>4 DEF Octets
<1>6. ASSUME NEW v \in Workers PROVE status'[v].set >= status[v].set
  <2>1. status[v].set \in Nat
    BY <1>1, OctetType
  <2>2. CASE v = w
    <3>1. status'[v].set = status[w].set + 1
      BY <1>3, <1>5, <2>2
    <3> QED
      BY <1>2, <2>2, <3>1
  <2>3. CASE v # w
    <3>1. status'[v] = status[v]
      BY <1>5, <2>3
    <3> QED
      BY <2>1, <3>1
  <2> QED
    BY <2>2, <2>3
<1> QED
  BY <1>5, <1>6

\* The steps that touch neither what is shared nor what a client sees.
MonitorIdles ==
    /\ UNCHANGED <<workerVars, data, reply, queue, since>>
    /\ \/ i' = i /\ mpc' \in {mpc, "loop", "select", "gone"}
       \/ i' = 0 /\ mpc' = "statuses" /\ queue # <<>>
    /\ interrupts' \in Nat /\ runner' \in BOOLEAN

LEMMA Idle ==
    ASSUME TypeOK,
           \/ RunnerDies \/ NoticesRunnerDied \/ Selects \/ SelectTimesOut \/ SelectReady
           \/ SelectInterrupted \/ AcceptInterrupted \/ DiesOfSignal \/ UNCHANGED vars
    PROVE  MonitorIdles
<1> USE DEF TypeOK, MonitorIdles, workerVars, monitorVars, MonitorMoves, Interrupted
<1>1. CASE RunnerDies
  BY <1>1 DEF RunnerDies
<1>2. CASE NoticesRunnerDied
  BY <1>2 DEF NoticesRunnerDied
<1>3. CASE Selects
  BY <1>3 DEF Selects
<1>4. CASE SelectTimesOut
  BY <1>4 DEF SelectTimesOut
<1>5. CASE SelectReady
  BY <1>5 DEF SelectReady
<1>6. CASE SelectInterrupted
  BY <1>6 DEF SelectInterrupted
<1>7. CASE AcceptInterrupted
  BY <1>7 DEF AcceptInterrupted
<1>8. CASE DiesOfSignal
  BY <1>8 DEF DiesOfSignal
<1>9. CASE UNCHANGED vars
  BY <1>9 DEF vars
<1> QED
  BY <1>1, <1>2, <1>3, <1>4, <1>5, <1>6, <1>7, <1>8, <1>9

LEMMA IInit == Init => IInv
<1> SUFFICES ASSUME Init PROVE IInv
  OBVIOUS
<1>1. status \in Octets
  BY DEF Init, Octets
<1>2. TypeOK
  BY <1>1, StatisticsAssumption DEF Init, TypeOK
<1> QED
  BY <1>2 DEF Init, IInv, GrowthInv, QueueInv, ReadInv, ReplyInv, ReplyIsFresh, Connected, Answered

\* A worker's step.
WorkerSteps(w) == WorkerBegins(w) \/ AppSetsStatus(w) \/ WorkerCounts(w)

LEMMA WorkerStep ==
    ASSUME TypeOK, NEW w \in Workers, WorkerSteps(w)
    PROVE  /\ TypeOK'
           /\ counter' >= counter /\ \A v \in Workers : status'[v].set >= status[v].set
           /\ UNCHANGED <<monitorVars, queue, since>>
<1>1. ASSUME WorkerBegins(w) \/ AppSetsStatus(w)
      PROVE /\ status' \in Octets /\ \A v \in Workers : status'[v].set >= status[v].set
            /\ counter' = counter /\ done' = done /\ wpc' \in [Workers -> {"top", "request"}]
            /\ UNCHANGED <<monitorVars, queue, since, runner>>
  <2>1. SetWorkerStatus(w)
    BY <1>1 DEF WorkerBegins, AppSetsStatus
  <2> QED
    BY <1>1, <2>1, StatusSet DEF WorkerBegins, AppSetsStatus, TypeOK
<1>2. ASSUME WorkerCounts(w)
      PROVE /\ status' = status /\ counter' = counter + 1
            /\ done' \in [Workers -> Nat] /\ wpc' \in [Workers -> {"top", "request"}]
            /\ UNCHANGED <<monitorVars, queue, since, runner>>
  BY <1>2 DEF WorkerCounts, TypeOK
<1>3. \A v \in Workers : status[v].set \in Nat
  BY OctetType DEF TypeOK
<1>4. counter \in Nat
  BY DEF TypeOK
<1>5. CASE WorkerBegins(w) \/ AppSetsStatus(w)
  BY <1>1, <1>4, <1>5 DEF TypeOK, monitorVars
<1>6. CASE WorkerCounts(w)
  BY <1>2, <1>3, <1>4, <1>6 DEF TypeOK, monitorVars
<1> QED
  BY <1>5, <1>6 DEF WorkerSteps

LEMMA SnapshotType ==
    ASSUME TypeOK, NEW c \in Clients, Connected(c)
    PROVE  since[c].counter \in Nat /\ \A w \in Workers : since[c].statuses[w].set \in Nat
<1>1. since[c] \in Snapshots
  BY DEF TypeOK, Connected
<1>2. since[c].statuses \in Octets /\ since[c].counter \in Nat
  BY <1>1 DEF Snapshots
<1> QED
  BY <1>2, OctetType

\* The invariant is kept by a worker: the shared values grow and nothing else changes.
LEMMA WorkerInv == ASSUME IInv, NEW w \in Workers, WorkerSteps(w) PROVE IInv'
<1>1. TypeOK' /\ counter' >= counter /\ (\A v \in Workers : status'[v].set >= status[v].set)
      /\ UNCHANGED <<mpc, i, data, reply, queue, since>>
  BY WorkerStep DEF IInv, monitorVars
<1>2. GrowthInv'
  <2> SUFFICES ASSUME NEW c \in Clients, Connected(c)'
               PROVE  /\ counter' >= since[c].counter
                      /\ \A v \in Workers : status'[v].set >= since[c].statuses[v].set
    BY <1>1 DEF GrowthInv, Connected
  <2>1. Connected(c)
    BY <1>1 DEF Connected
  <2>2. /\ since[c].counter \in Nat /\ counter \in Nat /\ counter' \in Nat
        /\ counter >= since[c].counter
    BY <1>1, <2>1, SnapshotType DEF IInv, TypeOK, GrowthInv
  <2>3. ASSUME NEW v \in Workers PROVE status'[v].set >= since[c].statuses[v].set
    <3>1. /\ since[c].statuses[v].set \in Nat /\ status[v].set \in Nat /\ status'[v].set \in Nat
          /\ status[v].set >= since[c].statuses[v].set /\ status'[v].set >= status[v].set
      BY <1>1, <2>1, SnapshotType, OctetType DEF IInv, TypeOK, GrowthInv
    <3> QED
      BY <3>1
  <2> QED
    BY <1>1, <2>2, <2>3
<1>3. QueueInv' /\ ReadInv' /\ ReplyInv'
  BY <1>1 DEF IInv, QueueInv, ReadInv, ReplyInv, ReplyIsFresh, Connected, Answered
<1> QED
  BY <1>1, <1>2, <1>3 DEF IInv

LEMMA ConnectsInv == ASSUME IInv, NEW c \in Clients, Connects(c) PROVE IInv'
<1>1. /\ UNCHANGED <<workerVars, mpc, i, data, reply, interrupts, runner>>
      /\ since[c] = None /\ queue' = Append(queue, c)
      /\ since' = [since EXCEPT ![c] = [statuses |-> status, counter |-> counter]]
  BY DEF Connects, monitorVars
<1>2. [statuses |-> status, counter |-> counter] \in Snapshots
  BY DEF IInv, TypeOK, Snapshots
<1>3. /\ since' \in [Clients -> Snapshots \cup {None}]
      /\ since'[c] = [statuses |-> status, counter |-> counter] /\ since'[c] # None
      /\ \A d \in Clients : d # c => since'[d] = since[d]
  BY <1>1, <1>2, NoneIsNone DEF IInv, TypeOK
<1>4. /\ queue' \in Seq(Clients) /\ Len(queue') = Len(queue) + 1 /\ queue'[Len(queue) + 1] = c
      /\ \A k \in 1..Len(queue) : queue'[k] = queue[k]
      /\ Len(queue) \in Nat /\ \A k \in 1..Len(queue) : queue[k] \in Clients
  BY <1>1 DEF IInv, TypeOK
<1>5. TypeOK'
  BY <1>1, <1>3, <1>4 DEF IInv, TypeOK, workerVars
<1>6. \A d \in Clients : Connected(d) => d # c /\ since'[d] = since[d]
  BY <1>1, <1>3 DEF Connected
<1>7. GrowthInv'
  <2> SUFFICES ASSUME NEW d \in Clients, Connected(d)'
               PROVE  /\ counter >= since'[d].counter
                      /\ \A v \in Workers : status[v].set >= since'[d].statuses[v].set
    BY <1>1 DEF GrowthInv, workerVars
  <2>1. CASE d = c
    <3>1. since'[d].counter = counter /\ since'[d].statuses = status /\ counter \in Nat
      BY <2>1, <1>3 DEF IInv, TypeOK
    <3>2. \A v \in Workers : status[v].set \in Nat
      BY OctetType DEF IInv, TypeOK
    <3> QED
      BY <3>1, <3>2
  <2>2. CASE d # c
    BY <2>2, <1>3 DEF IInv, GrowthInv, Connected
  <2> QED
    BY <2>1, <2>2
<1>8. QueueInv'
  <2> SUFFICES ASSUME NEW k \in 1..Len(queue') PROVE since'[queue'[k]] # None
    BY DEF QueueInv, Connected
  <2>1. CASE k = Len(queue) + 1
    BY <2>1, <1>3, <1>4
  <2>2. CASE k \in 1..Len(queue)
    BY <2>2, <1>4, <1>6 DEF IInv, QueueInv, Connected
  <2> QED
    BY <2>1, <2>2, <1>4
<1>9. ReadInv'
  <2> SUFFICES ASSUME mpc \in {"statuses", "accept"}
               PROVE  /\ queue' # <<>>
                      /\ \A w \in 1..i : data[w].set >= since'[Head(queue')].statuses[w].set
                      /\ mpc = "accept" => i = nworkers
    BY <1>1 DEF ReadInv
  <2>1. queue # <<>> /\ Head(queue) \in Clients /\ Head(queue) = queue[1] /\ 1 \in 1..Len(queue)
    BY DEF IInv, ReadInv, TypeOK
  <2>2. queue' # <<>> /\ Head(queue') = Head(queue)
    BY <2>1, <1>4
  <2>3. Connected(Head(queue))
    BY <2>1 DEF IInv, QueueInv
  <2>4. since'[Head(queue)] = since[Head(queue)]
    BY <2>1, <2>3, <1>6
  <2> QED
    BY <2>2, <2>4 DEF IInv, ReadInv
<1>10. ReplyInv'
  <2> SUFFICES ASSUME NEW d \in Clients, reply[d] # None
               PROVE  /\ reply[d].counter >= since'[d].counter
                      /\ \A w \in Workers : reply[d].statuses[w].set >= since'[d].statuses[w].set
                      /\ since'[d] # None
    BY <1>1 DEF ReplyInv, ReplyIsFresh, Answered, Connected
  <2>1. Connected(d)
    BY DEF IInv, ReplyInv, Answered
  <2>2. since'[d] = since[d]
    BY <2>1, <1>6
  <2> QED
    BY <2>1, <2>2 DEF IInv, ReplyInv, ReplyIsFresh, Answered, Connected
<1> QED
  BY <1>5, <1>7, <1>8, <1>9, <1>10 DEF IInv

LEMMA IdleInv == ASSUME IInv, MonitorIdles PROVE IInv'
<1>1. UNCHANGED <<wpc, done, status, counter, data, reply, queue, since>>
  BY DEF MonitorIdles, workerVars
<1>2. TypeOK'
  BY <1>1, StatisticsAssumption DEF MonitorIdles, IInv, TypeOK
<1>3. GrowthInv' /\ QueueInv' /\ ReplyInv'
  BY <1>1 DEF IInv, GrowthInv, QueueInv, ReplyInv, ReplyIsFresh, Connected, Answered
<1>4. ReadInv'
  BY <1>1, StatisticsAssumption DEF MonitorIdles, IInv, TypeOK, ReadInv
<1> QED
  BY <1>2, <1>3, <1>4 DEF IInv

LEMMA StatusesInv == ASSUME IInv, GetAllWorkerStatuses PROVE IInv'
<1>1. /\ UNCHANGED <<wpc, done, status, counter, reply, queue, since, interrupts, runner>>
      /\ mpc = "statuses"
  BY DEF GetAllWorkerStatuses, workerVars
<1>2. GrowthInv' /\ QueueInv' /\ ReplyInv'
  BY <1>1 DEF IInv, GrowthInv, QueueInv, ReplyInv, ReplyIsFresh, Connected, Answered
<1>3. i \in 0..nworkers /\ nworkers \in Nat /\ data \in Octets /\ status \in Octets
  BY StatisticsAssumption DEF IInv, TypeOK
<1>4. /\ queue # <<>> /\ Head(queue) \in Clients /\ Connected(Head(queue))
      /\ \A w \in 1..i : data[w].set >= since[Head(queue)].statuses[w].set
  <2>1. queue # <<>> /\ Head(queue) = queue[1] /\ Head(queue) \in Clients /\ 1 \in 1..Len(queue)
    BY <1>1 DEF IInv, ReadInv, TypeOK
  <2> QED
    BY <1>1, <2>1 DEF IInv, ReadInv, QueueInv
<1>5. CASE i < nworkers
  <2>1. /\ i' = i + 1 /\ mpc' = mpc /\ i + 1 \in Workers
        /\ data' = [data EXCEPT ![i + 1] = status[i + 1]]
    BY <1>3, <1>5 DEF GetAllWorkerStatuses, Workers
  <2>2. /\ data' \in Octets /\ data'[i + 1] = status[i + 1]
        /\ \A v \in Workers : v # i + 1 => data'[v] = data[v]
    BY <1>3, <2>1 DEF Octets
  <2>3. TypeOK'
    BY <1>1, <1>3, <1>5, <2>1, <2>2 DEF IInv, TypeOK
  <2>4. ASSUME NEW w \in 1..(i + 1) PROVE data'[w].set >= since[Head(queue)].statuses[w].set
    <3>1. CASE w = i + 1
      BY <3>1, <1>4, <2>1, <2>2 DEF IInv, GrowthInv
    <3>2. CASE w # i + 1
      <4>1. w \in 1..i /\ w \in Workers
        BY <1>3, <3>2 DEF Workers
      <4>2. data'[w] = data[w]
        BY <2>2, <3>2, <4>1
      <4> QED
        BY <1>4, <4>1, <4>2
    <3> QED
      BY <3>1, <3>2
  <2>5. ReadInv'
    BY <1>1, <1>4, <2>1, <2>4 DEF ReadInv
  <2> QED
    BY <1>2, <2>3, <2>5 DEF IInv
<1>6. CASE ~(i < nworkers)
  <2>1. i = nworkers /\ mpc' = "accept" /\ UNCHANGED <<i, data>>
    BY <1>3, <1>6 DEF GetAllWorkerStatuses
  <2>2. TypeOK'
    BY <1>1, <2>1 DEF IInv, TypeOK
  <2>3. ReadInv'
    BY <1>1, <1>4, <2>1 DEF ReadInv
  <2> QED
    BY <1>2, <2>2, <2>3 DEF IInv
<1> QED
  BY <1>5, <1>6

LEMMA HandleClientInv == ASSUME IInv, HandleClient PROVE IInv'
<1> DEFINE c == Head(queue)
           r == [statuses |-> data, counter |-> counter]
<1>1. /\ UNCHANGED <<wpc, done, status, counter, i, data, interrupts, since, runner>>
      /\ mpc = "accept" /\ mpc' = "loop" /\ queue' = Tail(queue) /\ queue # <<>>
      /\ reply' = [reply EXCEPT ![c] = r]
  BY DEF HandleClient, MonitorMoves, workerVars
<1>2. /\ c \in Clients /\ c = queue[1] /\ 1 \in 1..Len(queue)
      /\ queue' \in Seq(Clients)
      /\ \A k \in 1..Len(queue') : k + 1 \in 1..Len(queue) /\ queue'[k] = queue[k + 1]
  BY <1>1 DEF IInv, TypeOK
<1>3. Connected(c)
  BY <1>2 DEF IInv, QueueInv
<1>4. r \in Snapshots /\ r.counter = counter /\ r.statuses = data
  BY DEF IInv, TypeOK, Snapshots
<1> HIDE DEF c, r
<1>5. /\ reply' \in [Clients -> Snapshots \cup {None}]
      /\ reply'[c] = r /\ \A d \in Clients : d # c => reply'[d] = reply[d]
  BY <1>1, <1>2, <1>4 DEF IInv, TypeOK
<1>6. TypeOK'
  BY <1>1, <1>2, <1>5 DEF IInv, TypeOK
<1>7. GrowthInv' /\ ReadInv'
  BY <1>1 DEF IInv, GrowthInv, ReadInv, Connected
<1>8. QueueInv'
  BY <1>1, <1>2 DEF IInv, QueueInv, Connected
<1>9. ReplyInv'
  <2> SUFFICES ASSUME NEW d \in Clients, reply'[d] # None
               PROVE  /\ reply'[d].counter >= since[d].counter
                      /\ \A w \in Workers : reply'[d].statuses[w].set >= since[d].statuses[w].set
                      /\ since[d] # None
    BY <1>1 DEF ReplyInv, ReplyIsFresh, Answered, Connected
  <2>1. CASE d = c
    <3>1. counter >= since[c].counter /\ since[c] # None
      BY <1>2, <1>3 DEF IInv, GrowthInv, Connected
    <3>2. \A w \in Workers : data[w].set >= since[c].statuses[w].set
      BY <1>1 DEF IInv, ReadInv, Workers, c
    <3> QED
      BY <2>1, <1>4, <1>5, <3>1, <3>2
  <2>2. CASE d # c
    BY <2>2, <1>5 DEF IInv, ReplyInv, ReplyIsFresh, Answered, Connected
  <2> QED
    BY <2>1, <2>2
<1> QED
  BY <1>6, <1>7, <1>8, <1>9 DEF IInv

\* A process that throws may take a client with it, without a reply.
LEMMA ThrowsInv == ASSUME IInv, Throws PROVE IInv'
<1>1. /\ UNCHANGED <<wpc, done, status, counter, i, data, reply, interrupts, since, runner>>
      /\ mpc' = "gone"
      /\ queue' = queue \/ (mpc = "accept" /\ queue' = Tail(queue))
  BY DEF Throws, MonitorMoves, workerVars
<1>2. /\ queue' \in Seq(Clients)
      /\ \A k \in 1..Len(queue') : \E m \in 1..Len(queue) : queue'[k] = queue[m]
  <2>1. CASE queue' = queue
    BY <2>1 DEF IInv, TypeOK
  <2>2. CASE mpc = "accept" /\ queue' = Tail(queue)
    <3>1. queue # <<>>
      BY <2>2 DEF IInv, ReadInv
    <3>2. /\ queue' \in Seq(Clients)
          /\ \A k \in 1..Len(queue') : k + 1 \in 1..Len(queue) /\ queue'[k] = queue[k + 1]
      BY <2>2, <3>1 DEF IInv, TypeOK
    <3> QED
      BY <3>2
  <2> QED
    BY <1>1, <2>1, <2>2
<1>3. TypeOK'
  BY <1>1, <1>2 DEF IInv, TypeOK
<1>4. GrowthInv' /\ ReadInv' /\ ReplyInv'
  BY <1>1 DEF IInv, GrowthInv, ReadInv, ReplyInv, ReplyIsFresh, Connected, Answered
<1>5. QueueInv'
  BY <1>1, <1>2 DEF IInv, QueueInv, Connected
<1> QED
  BY <1>3, <1>4, <1>5 DEF IInv

LEMMA INext == IInv /\ [Next]_vars => IInv'
<1> SUFFICES ASSUME IInv, [Next]_vars PROVE IInv'
  OBVIOUS
<1>1. ASSUME NEW w \in Workers, WorkerSteps(w) PROVE IInv'
  BY <1>1, WorkerInv
<1>2. ASSUME NEW c \in Clients, Connects(c) PROVE IInv'
  BY <1>2, ConnectsInv
<1>3. CASE GetAllWorkerStatuses
  BY <1>3, StatusesInv
<1>4. CASE HandleClient
  BY <1>4, HandleClientInv
<1>5. CASE \/ RunnerDies \/ NoticesRunnerDied \/ Selects \/ SelectTimesOut \/ SelectReady
           \/ SelectInterrupted \/ AcceptInterrupted \/ DiesOfSignal \/ UNCHANGED vars
  <2>1. TypeOK
    BY DEF IInv
  <2>2. MonitorIdles
    BY <1>5, <2>1, Idle
  <2> QED
    BY <2>2, IdleInv
<1>6. CASE Throws
  BY <1>6, ThrowsInv
<1> QED
  BY <1>1, <1>2, <1>3, <1>4, <1>5, <1>6 DEF Next, MonitorRuns, WorkerSteps

\* The replies of the monitoring process are no older than the connections they answer, for
\* any number of workers and clients: the loop that reads the statuses runs after select()
\* has seen the connection that accept() will return.
THEOREM Freshness == Spec => []ReplyIsFresh
<1>1. IInv => ReplyIsFresh
  BY DEF IInv, ReplyInv
<1> QED
  BY IInit, INext, <1>1, PTL DEF Spec
---------------------------------------------------------------------------
(* Sums over the workers *)

\* Induction over the natural numbers, for a set: its complement would have a least member,
\* and finite sets are well-founded under inclusion.
LEMMA NatSetInduction ==
    ASSUME NEW K, 0 \in K, \A n \in Nat : n \in K => n + 1 \in K
    PROVE  Nat \subseteq K
<1> DEFINE T == {0..n : n \in Nat \ K}
<1> SUFFICES ASSUME Nat \ K # {} PROVE FALSE
  OBVIOUS
<1>1. IsWellFoundedOn(StrictSubsetOrdering(Nat), FiniteSubsetsOf(Nat))
  BY FS_StrictSubsetOrderingWellFounded
<1>2. T \subseteq FiniteSubsetsOf(Nat)
  <2>1. ASSUME NEW n \in Nat PROVE IsFiniteSet(0..n) /\ 0..n \subseteq Nat
    BY FS_Interval
  <2> QED
    BY <2>1 DEF FiniteSubsetsOf
<1>3. T # {}
  OBVIOUS
<1> HIDE DEF T
<1>4. PICK x \in T : \A y \in T : ~(<<y, x>> \in StrictSubsetOrdering(Nat))
  BY <1>1, <1>2, <1>3, WFMin
<1>5. PICK n \in Nat \ K : x = 0..n
  BY <1>4 DEF T
<1>6. n # 0 /\ n - 1 \in Nat /\ n = (n - 1) + 1
  BY <1>5
<1>7. n - 1 \notin K
  BY <1>5, <1>6
<1>8. 0..(n - 1) \in T
  BY <1>6, <1>7 DEF T
<1>9. <<0..(n - 1), 0..n>> \in StrictSubsetOrdering(Nat)
  <2>1. n \in 0..n /\ n \notin 0..(n - 1) /\ 0..(n - 1) \subseteq 0..n
        /\ 0..n \subseteq Nat /\ 0..(n - 1) \subseteq Nat
    BY <1>6
  <2>2. 0..(n - 1) # 0..n
    BY <2>1, Zenon
  <2> QED
    BY <2>1, <2>2 DEF StrictSubsetOrdering
<1> QED
  BY <1>4, <1>5, <1>8, <1>9

\* The order in which MapThenSumSet takes the elements, and the partial sums of f.
Pick(s) == CHOOSE x \in s : TRUE
Sums(f) ==
    {it \in [SUBSET Workers -> Nat] :
        \A s \in SUBSET Workers :
            it[s] = IF s = {} THEN 0 ELSE f[Pick(s)] + it[s \ {Pick(s)}]}

LEMMA PickLemma ==
    ASSUME NEW s \in SUBSET Workers, s # {}
    PROVE  /\ Pick(s) \in s /\ Pick(s) \in Workers /\ s \ {Pick(s)} \in SUBSET Workers
           /\ IsFiniteSet(s) /\ Cardinality(s) \in Nat
           /\ Cardinality(s \ {Pick(s)}) = Cardinality(s) - 1
<1>1. Pick(s) \in s
  BY DEF Pick
<1>2. IsFiniteSet(Workers)
  BY StatisticsAssumption, FS_Interval DEF Workers
<1>3. IsFiniteSet(s)
  BY <1>2, FS_Subset
<1> QED
  BY <1>1, <1>3, FS_RemoveElement, FS_CardinalityType

\* Every subset of the workers is finite.
LEMMA SubsetCount ==
    ASSUME NEW s \in SUBSET Workers
    PROVE  IsFiniteSet(s) /\ Cardinality(s) \in Nat
<1>1. IsFiniteSet(Workers)
  BY StatisticsAssumption, FS_Interval DEF Workers
<1> QED
  BY <1>1, FS_Subset, FS_CardinalityType

\* Induction over the subsets of the workers, in the order of Pick.
LEMMA SubsetInduction ==
    ASSUME NEW K, {} \in K,
           \A s \in SUBSET Workers : s # {} /\ s \ {Pick(s)} \in K => s \in K
    PROVE  SUBSET Workers \subseteq K
<1> DEFINE N == {n \in Nat : \A s \in SUBSET Workers : Cardinality(s) <= n => s \in K}
<1>1. 0 \in N
  <2> SUFFICES ASSUME NEW s \in SUBSET Workers, Cardinality(s) <= 0 PROVE s \in K
    OBVIOUS
  <2>1. Cardinality(s) = 0 /\ IsFiniteSet(s)
    BY SubsetCount
  <2>2. s = {}
    BY <2>1, FS_EmptySet
  <2> QED
    BY <2>2
<1>2. ASSUME NEW n \in Nat, n \in N PROVE n + 1 \in N
  <2> SUFFICES ASSUME NEW s \in SUBSET Workers, Cardinality(s) <= n + 1 PROVE s \in K
    OBVIOUS
  <2>1. CASE s = {}
    BY <2>1
  <2>2. CASE s # {}
    <3>1. s \ {Pick(s)} \in SUBSET Workers /\ Cardinality(s \ {Pick(s)}) <= n
      BY <2>2, PickLemma
    <3>2. s \ {Pick(s)} \in K
      BY <1>2, <3>1
    <3> QED
      BY <2>2, <3>2
  <2> QED
    BY <2>1, <2>2
<1> HIDE DEF N
<1>3. Nat \subseteq N
  BY <1>1, <1>2, NatSetInduction
<1> SUFFICES ASSUME NEW s \in SUBSET Workers PROVE s \in K
  OBVIOUS
<1>4. Cardinality(s) \in N /\ Cardinality(s) <= Cardinality(s)
  BY <1>3, SubsetCount
<1> QED
  BY <1>4 DEF N

\* The recursion has a solution, found for the subsets of at most n elements first.
LEMMA SumsExist == ASSUME NEW f \in [Workers -> Nat] PROVE Sums(f) # {}
<1> DEFINE Next1(it, s) == IF s = {} THEN 0 ELSE f[Pick(s)] + it[s \ {Pick(s)}]
           Good(it, n) == \A s \in SUBSET Workers : Cardinality(s) <= n => it[s] = Next1(it, s)
           N == {n \in Nat : \E it \in [SUBSET Workers -> Nat] : Good(it, n)}
<1>0. ASSUME NEW it \in [SUBSET Workers -> Nat], NEW s \in SUBSET Workers
      PROVE  Next1(it, s) \in Nat
  <2>1. CASE s = {}
    BY <2>1
  <2>2. CASE s # {}
    <3>1. f[Pick(s)] \in Nat /\ it[s \ {Pick(s)}] \in Nat
      BY <2>2, PickLemma
    <3> QED
      BY <2>2, <3>1
  <2> QED
    BY <2>1, <2>2
<1>1. 0 \in N
  <2> DEFINE it == [s \in SUBSET Workers |-> 0]
  <2>1. ASSUME NEW s \in SUBSET Workers, Cardinality(s) <= 0 PROVE it[s] = Next1(it, s)
    <3>1. Cardinality(s) = 0 /\ IsFiniteSet(s)
      BY <2>1, SubsetCount
    <3>2. s = {}
      BY <3>1, FS_EmptySet
    <3> QED
      BY <3>2
  <2>2. it \in [SUBSET Workers -> Nat]
    OBVIOUS
  <2> QED
    BY <2>1, <2>2
<1>2. ASSUME NEW n \in Nat, n \in N PROVE n + 1 \in N
  <2>1. PICK it \in [SUBSET Workers -> Nat] : Good(it, n)
    BY <1>2
  <2> DEFINE jt == [s \in SUBSET Workers |-> IF Cardinality(s) <= n THEN it[s] ELSE Next1(it, s)]
  <2>2. jt \in [SUBSET Workers -> Nat]
    <3> HIDE DEF Next1
    <3> QED
      BY <1>0
  <2>3. ASSUME NEW s \in SUBSET Workers, Cardinality(s) <= n + 1 PROVE jt[s] = Next1(jt, s)
    <3>1. CASE s = {}
      <4>1. Cardinality(s) <= n
        BY <3>1, FS_EmptySet
      <4> QED
        BY <2>1, <3>1, <4>1
    <3>2. CASE s # {}
      <4>1. s \ {Pick(s)} \in SUBSET Workers /\ Cardinality(s \ {Pick(s)}) <= n
        BY <2>3, <3>2, PickLemma
      <4>2. jt[s \ {Pick(s)}] = it[s \ {Pick(s)}]
        BY <4>1
      <4>3. Next1(jt, s) = Next1(it, s)
        BY <3>2, <4>2
      <4>4. jt[s] = Next1(it, s)
        <5> HIDE DEF Next1
        <5> QED
          BY <2>1
      <4> QED
        BY <4>3, <4>4
    <3> QED
      BY <3>1, <3>2
  <2> HIDE DEF jt
  <2>4. Good(jt, n + 1)
    BY <2>3
  <2> QED
    BY <2>2, <2>4
<1>3. Nat \subseteq N
  <2> HIDE DEF N
  <2> QED
    BY <1>1, <1>2, NatSetInduction
<1>4. nworkers \in N
  BY <1>3, StatisticsAssumption
<1>5. PICK it \in [SUBSET Workers -> Nat] : Good(it, nworkers)
  BY <1>4
<1>6. ASSUME NEW s \in SUBSET Workers PROVE it[s] = Next1(it, s)
  <2>1. IsFiniteSet(Workers) /\ Cardinality(Workers) = nworkers
    BY StatisticsAssumption, FS_Interval DEF Workers
  <2>2. Cardinality(s) <= nworkers
    BY <2>1, FS_Subset
  <2> QED
    BY <1>5, <2>2
<1> QED
  BY <1>6 DEF Sums

LEMMA SumOfNone == ASSUME NEW f, NEW it \in Sums(f) PROVE it[{}] = 0
<1>1. {} \in SUBSET Workers
  OBVIOUS
<1> QED
  BY <1>1 DEF Sums

\* What is nowhere larger has no larger sum.
LEMMA SumsMonotone ==
    ASSUME NEW f \in [Workers -> Nat], NEW g \in [Workers -> Nat],
           \A w \in Workers : f[w] <= g[w],
           NEW it \in Sums(f), NEW jt \in Sums(g)
    PROVE  it[Workers] <= jt[Workers]
<1> DEFINE K == {s \in SUBSET Workers : it[s] <= jt[s]}
<1>1. {} \in K
  BY SumOfNone
<1>2. ASSUME NEW s \in SUBSET Workers, s # {} /\ s \ {Pick(s)} \in K PROVE s \in K
  <2> DEFINE p == Pick(s)
             t == s \ {Pick(s)}
  <2>1. p \in Workers /\ t \in SUBSET Workers
    BY <1>2, PickLemma
  <2>2. it[s] = f[p] + it[t] /\ jt[s] = g[p] + jt[t]
    BY <1>2 DEF Sums
  <2>3. it[t] \in Nat /\ jt[t] \in Nat /\ it[t] <= jt[t]
    BY <1>2, <2>1 DEF Sums
  <2>4. f[p] \in Nat /\ g[p] \in Nat /\ f[p] <= g[p]
    BY <2>1
  <2> HIDE DEF p, t
  <2>5. it[s] <= jt[s]
    BY <2>2, <2>3, <2>4
  <2> QED
    BY <2>5
<1>3. SUBSET Workers \subseteq K
  <2> HIDE DEF K
  <2> QED
    BY <1>1, <1>2, SubsetInduction
<1> QED
  BY <1>3

\* One more at one place is one more in the sum.
LEMMA SumsOneMore ==
    ASSUME NEW f \in [Workers -> Nat], NEW g \in [Workers -> Nat], NEW w \in Workers,
           \A v \in Workers : g[v] = IF v = w THEN f[v] + 1 ELSE f[v],
           NEW it \in Sums(f)
    PROVE  \E jt \in Sums(g) : jt[Workers] = it[Workers] + 1
<1>0. PICK jt \in Sums(g) : TRUE
  BY SumsExist
<1> DEFINE More(s) == IF w \in s THEN 1 ELSE 0
           K == {s \in SUBSET Workers : jt[s] = it[s] + More(s)}
<1>1. {} \in K
  BY SumOfNone
<1>2. ASSUME NEW s \in SUBSET Workers, s # {} /\ s \ {Pick(s)} \in K PROVE s \in K
  <2> DEFINE p == Pick(s)
             t == s \ {Pick(s)}
  <2>1. p \in Workers /\ p \in s /\ t \in SUBSET Workers
    BY <1>2, PickLemma
  <2>2. it[s] = f[p] + it[t] /\ jt[s] = g[p] + jt[t]
    BY <1>2 DEF Sums
  <2>3. it[t] \in Nat /\ jt[t] = it[t] + More(t)
    BY <1>2, <2>1 DEF Sums
  <2>4. f[p] \in Nat /\ g[p] = IF p = w THEN f[p] + 1 ELSE f[p]
    BY <2>1
  <2>5. t = s \ {p}
    OBVIOUS
  <2> HIDE DEF p, t
  <2>6. CASE p = w
    <3>1. w \in s /\ w \notin t
      BY <2>1, <2>5, <2>6
    <3>2. jt[s] = it[s] + 1
      BY <2>2, <2>3, <2>4, <2>6, <3>1
    <3> QED
      BY <3>1, <3>2
  <2>7. CASE p # w
    <3>1. w \in s <=> w \in t
      BY <2>5, <2>7
    <3>2. More(s) = More(t) /\ More(t) \in Nat
      BY <3>1
    <3> HIDE DEF More
    <3>3. jt[s] = it[s] + More(s)
      BY <2>2, <2>3, <2>4, <2>7, <3>2
    <3> QED
      BY <3>3
  <2> QED
    BY <2>6, <2>7
<1>3. SUBSET Workers \subseteq K
  <2> HIDE DEF K
  <2> QED
    BY <1>1, <1>2, SubsetInduction
<1> QED
  BY <1>3

\* MapThenSumSet computes such a sum.
LEMMA SumOfServed ==
    ASSUME NEW r, NEW f \in [Workers -> Nat], \A w \in Workers : r.statuses[w].served = f[w]
    PROVE  \E it \in Sums(f) : RequestsOver(r) = it[Workers]
<1> DEFINE R(g) == g = [s \in SUBSET Workers |->
                           IF s = {} THEN 0
                           ELSE r.statuses[CHOOSE x \in s : TRUE].served + g[s \ {CHOOSE x \in s : TRUE}]]
           P(g) == \A s \in SUBSET Workers :
                       g[s] = IF s = {} THEN 0 ELSE f[Pick(s)] + g[s \ {Pick(s)}]
<1>1. \E g : R(g)
  <2>1. PICK it \in Sums(f) : TRUE
    BY SumsExist
  <2>2. ASSUME NEW s \in SUBSET Workers
        PROVE  it[s] = IF s = {} THEN 0 ELSE r.statuses[Pick(s)].served + it[s \ {Pick(s)}]
    BY <2>1, PickLemma DEF Sums
  <2>3. it = [s \in SUBSET Workers |->
                  IF s = {} THEN 0 ELSE r.statuses[Pick(s)].served + it[s \ {Pick(s)}]]
    BY <2>1, <2>2 DEF Sums
  <2>4. R(it)
    BY <2>3 DEF Pick
  <2> QED
    BY <2>4
<1> DEFINE h == CHOOSE g : R(g)
<1>2. R(h)
  BY <1>1, Zenon
<1>3. RequestsOver(r) = h[Workers]
  BY DEF RequestsOver, MapThenSumSet, MapThenFoldSet
<1> HIDE DEF h
<1>4. \A s \in SUBSET Workers :
          h[s] = IF s = {} THEN 0 ELSE f[Pick(s)] + h[s \ {Pick(s)}]
  <2> SUFFICES ASSUME NEW s \in SUBSET Workers
               PROVE  h[s] = IF s = {} THEN 0 ELSE f[Pick(s)] + h[s \ {Pick(s)}]
    OBVIOUS
  <2>1. h[s] = IF s = {} THEN 0 ELSE r.statuses[Pick(s)].served + h[s \ {Pick(s)}]
    BY <1>2 DEF Pick
  <2> QED
    BY <2>1, PickLemma
<1>5. h \in [SUBSET Workers -> Nat]
  <2> DEFINE K == {s \in SUBSET Workers : h[s] \in Nat}
  <2>1. {} \in K
    <3>1. {} \in SUBSET Workers
      OBVIOUS
    <3>2. h[{}] = 0
      BY <1>4, <3>1
    <3> QED
      BY <3>1, <3>2
  <2>2. ASSUME NEW s \in SUBSET Workers, s # {} /\ s \ {Pick(s)} \in K PROVE s \in K
    <3>1. f[Pick(s)] \in Nat /\ h[s \ {Pick(s)}] \in Nat
      BY <2>2, PickLemma
    <3>2. h[s] = f[Pick(s)] + h[s \ {Pick(s)}]
      BY <1>4, <2>2
    <3> QED
      BY <3>1, <3>2
  <2>3. SUBSET Workers \subseteq K
    <3> HIDE DEF K
    <3> QED
      BY <2>1, <2>2, SubsetInduction
  <2>4. h = [s \in SUBSET Workers |-> h[s]]
    BY <1>2
  <2> QED
    BY <2>3, <2>4
<1>6. h \in Sums(f)
  BY <1>4, <1>5 DEF Sums
<1> QED
  BY <1>3, <1>6

---------------------------------------------------------------------------
(* The parts of a reply fit together *)

\* The counter is the sum of what the workers have counted; the octets, and what has been
\* read of them, are behind it.
CountInv ==
    /\ \E it \in Sums(done) : counter = it[Workers]
    /\ \A w \in Workers : status[w].served <= done[w] /\ data[w].served <= done[w]
    /\ ReplyIsConsistent

LEMMA ServedType == ASSUME NEW f \in Octets, NEW w \in Workers PROVE f[w].served \in Nat
  BY DEF Octets

\* Steps that leave done, the counter and the replies alone.
LEMMA SameCount ==
    ASSUME CountInv, UNCHANGED <<done, counter, reply>>,
           \A w \in Workers : status'[w].served <= done[w] /\ data'[w].served <= done[w]
    PROVE  CountInv'
  BY DEF CountInv, ReplyIsConsistent, Answered

LEMMA SetsCount ==
    ASSUME IInv, CountInv, NEW w \in Workers, WorkerBegins(w) \/ AppSetsStatus(w)
    PROVE  CountInv'
<1>1. SetWorkerStatus(w) /\ UNCHANGED <<done, counter, reply, data>>
  BY DEF WorkerBegins, AppSetsStatus, monitorVars
<1>2. ASSUME NEW v \in Workers PROVE status'[v].served <= done[v]
  <2>1. done[v] \in Nat /\ status \in [Workers -> [set : Nat, served : Nat]]
    BY DEF IInv, TypeOK, Octets
  <2>2. CASE v = w
    <3>1. status'[v].served = done[v]
      BY <1>1, <2>1, <2>2 DEF SetWorkerStatus
    <3> QED
      BY <2>1, <3>1
  <2>3. CASE v # w
    <3>1. status'[v] = status[v]
      BY <1>1, <2>1, <2>3 DEF SetWorkerStatus
    <3> QED
      BY <3>1 DEF CountInv
  <2> QED
    BY <2>2, <2>3
<1>3. \A v \in Workers : data'[v].served <= done[v]
  BY <1>1 DEF CountInv
<1> QED
  BY <1>1, <1>2, <1>3, SameCount

LEMMA CountsCount ==
    ASSUME IInv, CountInv, NEW w \in Workers, WorkerCounts(w)
    PROVE  CountInv'
<1>1. /\ done' = [done EXCEPT ![w] = @ + 1] /\ counter' = counter + 1
      /\ UNCHANGED <<status, data, reply>> /\ done \in [Workers -> Nat]
  BY DEF WorkerCounts, monitorVars, IInv, TypeOK
<1>2. done' \in [Workers -> Nat] /\ \A v \in Workers : done[v] <= done'[v]
  BY <1>1
<1>3. \E jt \in Sums(done') : counter' = jt[Workers]
  <2>1. \A v \in Workers : done'[v] = IF v = w THEN done[v] + 1 ELSE done[v]
    BY <1>1
  <2>2. PICK it \in Sums(done) : counter = it[Workers]
    BY DEF CountInv
  <2>3. \E jt \in Sums(done') : jt[Workers] = it[Workers] + 1
    <3>1. done \in [Workers -> Nat] /\ done' \in [Workers -> Nat]
      BY <1>1, <1>2
    <3> QED
      BY <2>1, <3>1, SumsOneMore, Zenon
  <2> QED
    BY <1>1, <2>2, <2>3
<1>4. ASSUME NEW v \in Workers PROVE status[v].served <= done'[v] /\ data[v].served <= done'[v]
  <2>1. status[v].served \in Nat /\ data[v].served \in Nat
    BY ServedType DEF IInv, TypeOK
  <2>2. done[v] \in Nat /\ done'[v] \in Nat /\ done[v] <= done'[v]
    BY <1>1, <1>2
  <2>3. status[v].served <= done[v] /\ data[v].served <= done[v]
    BY DEF CountInv
  <2> QED
    BY <2>1, <2>2, <2>3
<1>5. ReplyIsConsistent'
  BY <1>1 DEF CountInv, ReplyIsConsistent, Answered
<1> QED
  BY <1>1, <1>3, <1>4, <1>5 DEF CountInv, Sums

LEMMA ReadsCount ==
    ASSUME IInv, CountInv, GetAllWorkerStatuses
    PROVE  CountInv'
<1>1. UNCHANGED <<done, status, counter, reply>>
  BY DEF GetAllWorkerStatuses, workerVars
<1>2. ASSUME NEW v \in Workers PROVE data'[v].served <= done[v]
  <2>1. data' = [data EXCEPT ![i + 1] = status[i + 1]] \/ data' = data
    BY DEF GetAllWorkerStatuses
  <2>2. data'[v] \in {status[v], data[v]}
    BY <2>1 DEF IInv, TypeOK, Octets
  <2> QED
    BY <2>2 DEF CountInv
<1>3. \A v \in Workers : status'[v].served <= done[v]
  BY <1>1 DEF CountInv
<1> QED
  BY <1>1, <1>2, <1>3, SameCount

LEMMA RepliesCount ==
    ASSUME IInv, CountInv, HandleClient
    PROVE  CountInv'
<1> DEFINE r == [statuses |-> data, counter |-> counter]
<1>1. UNCHANGED <<done, status, counter, data>> /\ reply' = [reply EXCEPT ![Head(queue)] = r]
  BY DEF HandleClient, workerVars
<1>2. \A d \in Clients : reply'[d] = r \/ reply'[d] = reply[d]
  BY <1>1 DEF IInv, TypeOK
<1> HIDE DEF r
<1>3. r.counter >= RequestsOver(r)
  <2> DEFINE f == [w \in Workers |-> data[w].served]
  <2>1. f \in [Workers -> Nat] /\ \A w \in Workers : r.statuses[w].served = f[w]
    BY ServedType DEF IInv, TypeOK, r
  <2>2. done \in [Workers -> Nat] /\ \A w \in Workers : f[w] <= done[w]
    BY DEF CountInv, IInv, TypeOK
  <2> HIDE DEF f
  <2>3. PICK it \in Sums(f) : RequestsOver(r) = it[Workers]
    BY <2>1, SumOfServed
  <2>4. PICK jt \in Sums(done) : counter = jt[Workers]
    BY DEF CountInv
  <2>5. it[Workers] <= jt[Workers] /\ it[Workers] \in Nat /\ jt[Workers] \in Nat
    <3>1. it[Workers] <= jt[Workers]
      BY <2>1, <2>2, SumsMonotone
    <3> QED
      BY <3>1 DEF Sums
  <2>6. r.counter = jt[Workers]
    BY <2>4 DEF r
  <2> QED
    BY <2>3, <2>5, <2>6
<1>4. ReplyIsConsistent'
  <2> SUFFICES ASSUME NEW d \in Clients, reply'[d] # None
               PROVE  reply'[d].counter >= RequestsOver(reply'[d])
    BY DEF ReplyIsConsistent, Answered
  <2>1. CASE reply'[d] = r
    BY <1>3, <2>1
  <2>2. CASE reply'[d] = reply[d]
    BY <2>2 DEF CountInv, ReplyIsConsistent, Answered
  <2> QED
    BY <1>2, <2>1, <2>2
<1>5. (\E it \in Sums(done) : counter = it[Workers])'
  BY <1>1 DEF CountInv, Sums
<1> QED
  BY <1>1, <1>4, <1>5 DEF CountInv

LEMMA CountStep == IInv /\ CountInv /\ [Next]_vars => CountInv'
<1> SUFFICES ASSUME IInv, CountInv, [Next]_vars PROVE CountInv'
  OBVIOUS
<1>1. ASSUME NEW w \in Workers, WorkerSteps(w) PROVE CountInv'
  BY <1>1, SetsCount, CountsCount DEF WorkerSteps
<1>2. CASE GetAllWorkerStatuses
  BY <1>2, ReadsCount
<1>3. CASE HandleClient
  BY <1>3, RepliesCount
<1>4. ASSUME UNCHANGED <<workerVars, data, reply>> PROVE CountInv'
  BY <1>4, SameCount DEF workerVars, CountInv
<1>5. ASSUME NEW c \in Clients, Connects(c) PROVE CountInv'
  BY <1>4, <1>5 DEF Connects, monitorVars
<1>6. CASE \/ RunnerDies \/ NoticesRunnerDied \/ Selects \/ SelectTimesOut \/ SelectReady
           \/ SelectInterrupted \/ AcceptInterrupted \/ DiesOfSignal \/ UNCHANGED vars
  <2>1. TypeOK
    BY DEF IInv
  <2>2. MonitorIdles
    BY <1>6, <2>1, Idle
  <2> QED
    BY <1>4, <2>2 DEF MonitorIdles
<1>7. CASE Throws
  BY <1>4, <1>7 DEF Throws
<1> QED
  BY <1>1, <1>2, <1>3, <1>5, <1>6, <1>7 DEF Next, MonitorRuns, WorkerSteps

LEMMA CountInit == Init => CountInv
<1> SUFFICES ASSUME Init PROVE CountInv
  OBVIOUS
<1>1. done = [w \in Workers |-> 0] /\ done \in [Workers -> Nat] /\ counter = 0
  BY DEF Init
<1>2. counter = [s \in SUBSET Workers |-> 0][Workers]
  BY <1>1
<1>3. [s \in SUBSET Workers |-> 0] \in Sums(done)
  <2> DEFINE it == [s \in SUBSET Workers |-> 0]
  <2>1. ASSUME NEW s \in SUBSET Workers
        PROVE  it[s] = IF s = {} THEN 0 ELSE done[Pick(s)] + it[s \ {Pick(s)}]
    <3>1. CASE s = {}
      BY <3>1
    <3>2. CASE s # {}
      <4>1. done[Pick(s)] = 0 /\ s \ {Pick(s)} \in SUBSET Workers
        BY <1>1, <3>2, PickLemma
      <4> QED
        BY <3>2, <4>1
    <3> QED
      BY <3>1, <3>2
  <2>2. it \in [SUBSET Workers -> Nat]
    OBVIOUS
  <2> QED
    BY <2>1, <2>2 DEF Sums
<1>4. \A w \in Workers : status[w].served <= done[w] /\ data[w].served <= done[w]
  BY DEF Init
<1>5. ReplyIsConsistent
  BY DEF Init, ReplyIsConsistent, Answered
<1> QED
  BY <1>2, <1>3, <1>4, <1>5 DEF CountInv

\* A reply's counter covers every request that is over by the statuses in the same reply,
\* for any number of workers and clients: WorkerCounts counts a request before the status
\* that follows it can be set, and HandleClient reads the counter last.
THEOREM Consistency == Spec => []ReplyIsConsistent
<1>1. Spec => []IInv
  BY IInit, INext, PTL DEF Spec
<1>2. CountInv => ReplyIsConsistent
  BY DEF CountInv
<1> QED
  BY <1>1, <1>2, CountInit, CountStep, PTL DEF Spec
===========================================================================
