---------------------- MODULE CallbackDeliveryProofs ------------------------
(***************************************************************************)
(* The order that the gate of the delivery service keeps for blocks that   *)
(* are reported once, and why its wait groups do not panic, with any       *)
(* number of partitions, workers, messages, retries, faults and crashes:   *)
(* an inductive invariant, IInv, and its consequences.                     *)
(***************************************************************************)
EXTENDS CallbackDeliveryInvariants

(* The first attempt of STUMP id is with the handler, in the channel, or with a
   worker. *)
AtSend(id) ==
    /\ handler[id[1]] = "send" /\ topic[id[1]].next = id[2]
    /\ Cb(id).type = "STUMP" /\ Cb(id).retry = 0

FirstQueued(id) == \E n \in 1..Len(workCh) : workCh[n].id = id /\ FirstStump(workCh[n])

FirstHeld(id) == \E w \in Worker : Busy(w) /\ worker[w].first /\ worker[w].item.id = id

Open(id) == AtSend(id) \/ FirstQueued(id) \/ FirstHeld(id)

(* The first attempts that have registered at gate k and not yet signed off. *)
Pending(k) == {id \in Id : gateKey(id) = k /\ Open(id)}

(* The wait group of a key counts what is pending at it. *)
Counted ==
    ~panicked => \A k \in GateKey :
        /\ IsFiniteSet(Pending(k))
        /\ HasGroup(gate, k) => gate.count[gate.at[k]] = Cardinality(Pending(k))
        /\ ~HasGroup(gate, k) => Pending(k) = {}

(* BLOCK_PROCESSED sleeps on the wait group of its key while something is pending;
   the wait group it was woken from is at zero and no longer another key's. *)
Sleeps(w) ==
    /\ gate.at[KeyOf(w)] = worker[w].group /\ worker[w].group # NoGroup
    /\ panicked \/ Pending(KeyOf(w)) # {}

Wakes(w) ==
    /\ worker[w].group \in 1..Len(gate.count) /\ gate.count[worker[w].group] = 0
    /\ \A k \in GateKey : gate.at[k] = worker[w].group => k = KeyOf(w)

GatedAt(w) ==
    /\ worker[w].pc = "waiting" => Sleeps(w)
    /\ worker[w].pc = "woken" => Wakes(w)
    /\ worker[w].pc \notin {"gate", "waiting"} => Pending(KeyOf(w)) = {}

(* BLOCK_PROCESSED passes when nothing is pending, and nothing is from then on. *)
Gated ==
    \A w \in Worker : Busy(w) /\ Cb(worker[w].item.id).type = "BLOCK_PROCESSED" => GatedAt(w)

(* No handler is at work once Stop has stopped the consumer. *)
StoppedIdle == stopping = "stopped" => \A p \in Partition : handler[p] = "idle"

(* The inductive invariant, for blocks that are reported once. *)
IInv == Base /\ Counted /\ Gated /\ StoppedIdle /\ PanicsOnlyInStop

(* A worker keeps its item until it returns. *)
LEMMA Stays ==
    ASSUME TypeOK, [Next]_vars, ~Crash, NEW v \in Worker, Busy(v), ~Return(v)
    PROVE  Busy(v)' /\ worker'[v].item.id = worker[v].item.id /\ worker'[v].first = worker[v].first
<1> DEFINE Goal == Busy(v)' /\ worker'[v].item.id = worker[v].item.id /\ worker'[v].first = worker[v].first
<1>1. ASSUME worker'[v] = worker[v] PROVE Goal
  BY <1>1, Zenon DEF Busy
<1>2. ASSUME NEW w \in Worker, Take(w) PROVE Goal
  <2>1. v # w
    BY <1>2, Zenon DEF Take, At, Busy
  <2> QED BY <1>1, <1>2, <2>1, Takes, ZenonT(40)
<1>3. ASSUME NEW w \in Worker, GateWait(w) \/ GateWoken(w) \/ GateOpened(w) PROVE Goal
  <2>1. worker'[w].pc # "idle" /\ worker'[w].item.id = worker[w].item.id /\ worker'[w].first = worker[w].first
    BY <1>3, GateMoves
  <2>2. \A u \in Worker : u # w => worker'[u] = worker[u]
    BY <1>3, GateMoves, Zenon
  <2> QED BY <1>1, <2>1, <2>2, ZenonT(30) DEF Busy
<1>4. ASSUME NEW w \in Worker, WorkStep(w) PROVE Goal
  <2>0. "idle" \notin Past
    BY DEF Past
  <2>1. worker'[w].pc # "idle" /\ worker'[w].item.id = worker[w].item.id /\ worker'[w].first = worker[w].first
    BY <1>4, <2>0, WorkMoves, Zenon
  <2>2. \A u \in Worker : u # w => worker'[u] = worker[u]
    BY <1>4, WorkMoves, Zenon
  <2> QED BY <1>1, <2>1, <2>2, Zenon DEF Busy
<1>5. ASSUME NEW w \in Worker, Return(w) PROVE Goal
  <2>1. v # w
    BY <1>5
  <2>2. CASE worker'[v] = worker[v]
    BY <1>1, <2>2
  <2>3. CASE /\ worker'[v].pc = "woken" /\ worker'[v].item = worker[v].item
             /\ worker'[v].first = worker[v].first
    BY <2>3 DEF Busy
  <2> QED BY <1>5, <2>1, <2>2, <2>3, Returns, ZenonT(40)
<1>6. ASSUME NEW p \in Partition, Publish(p) \/ Commit(p) \/ HandlerStep(p) PROVE worker' = worker
  BY <1>6, Zenon DEF Publish, Commit, HandlerStep, ParkMessage, ArmParked, handleMessage, Dispatch, service
<1>7. ASSUME TimerStep \/ StopFlag \/ StopWait \/ StopClose \/ StopConsumer \/ UNCHANGED vars
      PROVE  worker' = worker
  BY <1>7, Zenon DEF TimerStep, TimerFires, TimerSends, StopFlag, StopWait, StopClose, StopConsumer, vars,
                     service
<1>8. worker' = worker => Goal
  BY <1>1, Zenon
<1> HIDE DEF Goal
<1>9. Goal
  BY <1>2, <1>3, <1>4, <1>5, <1>6, <1>7, <1>8, ZenonT(40) DEF Next, WorkerStep, WorkStep, Quiescent
<1> QED BY <1>9 DEF Goal

(* The steps that leave the first attempts where they are, or move one of them
   from the handler to the channel or from there to a worker. *)
LEMMA OpenSame ==
    ASSUME TypeOK, Prefix, Retried, [Next]_vars, ~Crash,
           \A p \in Partition : ~(handleMessage(p) /\ FirstStump(Fetched(p))),
           \A p \in Partition : ~(Dispatch(p) /\ Closed),
           \A w \in Worker : ~(Return(w) /\ worker[w].first),
           NEW id \in Id
    PROVE  Open(id)' <=> Open(id)
<1> DEFINE Goal == Open(id)' <=> Open(id)
<1>0. id[1] \in Partition /\ id = <<id[1], id[2]>>
  BY IdFields, Zenon
<1>a. ASSUME handler'[id[1]] = handler[id[1]], topic'[id[1]].next = topic[id[1]].next
      PROVE  AtSend(id)' <=> AtSend(id)
  BY <1>a, Zenon DEF AtSend
<1>b. ASSUME ~ \E w \in Worker : Take(w)
      PROVE  FirstHeld(id)' <=> FirstHeld(id)
  <2>1. ASSUME NEW v \in Worker, Busy(v)', worker'[v].first, worker'[v].item.id = id
        PROVE  FirstHeld(id)
    <3>1. Busy(v) /\ worker'[v].item.id = worker[v].item.id /\ worker'[v].first = worker[v].first
      BY <1>b, <2>1, Continues, Zenon
    <3>2. worker[v].first /\ worker[v].item.id = id
      BY <2>1, <3>1, Zenon
    <3> QED BY <3>1, <3>2, Zenon DEF FirstHeld
  <2>2. ASSUME NEW v \in Worker, Busy(v), worker[v].first, worker[v].item.id = id
        PROVE  FirstHeld(id)'
    <3>1. Busy(v)' /\ worker'[v].item.id = worker[v].item.id /\ worker'[v].first = worker[v].first
      BY <2>2, Stays, Zenon
    <3>2. worker'[v].first /\ worker'[v].item.id = id
      BY <2>2, <3>1, Zenon
    <3> QED BY <3>1, <3>2, Zenon DEF FirstHeld
  <2> QED BY <2>1, <2>2, Zenon DEF FirstHeld
<1>c. ASSUME workCh' = workCh PROVE FirstQueued(id)' <=> FirstQueued(id)
  BY <1>c, Zenon DEF FirstQueued
<1>1. ASSUME NEW p \in Partition, Publish(p) \/ Commit(p) PROVE Goal
  <2>1. topic \in [Partition -> PartitionOfType(Callback)]
    BY Zenon DEF TypeOK
  <2>2. /\ \A m : Published(topic[p], m).next = topic[p].next
        /\ Committed(topic[p]).next = topic[p].next
    BY <2>1, PartitionOffsets, Zenon
  <2>3. topic'[id[1]].next = topic[id[1]].next /\ UNCHANGED <<handler, workCh, worker>>
    BY <1>0, <1>1, <2>1, <2>2, ZenonT(40) DEF Publish, Commit, service
  <2>4. FirstHeld(id)' <=> FirstHeld(id)
    BY <2>3, Zenon DEF FirstHeld, Busy
  <2> QED BY <1>a, <1>c, <2>3, <2>4, Zenon DEF Open
<1>2. ASSUME NEW p \in Partition, ParkMessage(p) \/ ArmParked(p) \/ handleMessage(p) PROVE Goal
  <2>1. UNCHANGED <<workCh, worker>>
    BY <1>2, Zenon DEF ParkMessage, ArmParked, handleMessage
  <2>2. FirstHeld(id)' <=> FirstHeld(id)
    BY <2>1, Zenon DEF FirstHeld, Busy
  <2>3. AtSend(id)' <=> AtSend(id)
    <3>1. CASE id[1] # p
      BY <1>0, <1>2, <1>a, <3>1, HandlerMoves, ZenonT(40) DEF HandlerStep
    <3>2. CASE id[1] = p
      <4>1. ~AtSend(id)
        BY <1>2, <3>2 DEF ParkMessage, ArmParked, handleMessage, CanHandle, AtSend
      <4>2. ASSUME AtSend(id)' PROVE FALSE
        <5>1. handler'[p] = "send" /\ topic'[p].next = id[2] /\ Cb(id).type = "STUMP" /\ Cb(id).retry = 0
          BY <3>2, <4>2, ZenonT(30) DEF AtSend
        <5>2. handler'[p] # "idle" /\ handler'[p] # "park"
          BY <5>1
        <5>3. handleMessage(p) /\ topic'[p] = topic[p]
          BY <1>2, <5>2, HandlerMoves, Zenon DEF HandlerStep
        <5>4. HasMessage(topic[p]) /\ id = <<p, topic[p].next>>
          BY <1>0, <3>2, <5>1, <5>3, Zenon DEF handleMessage, CanHandle
        <5>5. Fetched(p).id = id /\ Fetched(p).retry = Cb(id).retry
          BY <5>4, FetchedFields, Zenon
        <5>6. FirstStump(Fetched(p))
          BY <5>1, <5>5, Zenon DEF FirstStump
        <5> QED BY <5>3, <5>6, Zenon
      <4> QED BY <4>1, <4>2, ZenonT(30)
    <3> QED BY <3>1, <3>2
  <2> QED BY <1>c, <2>1, <2>2, <2>3, Zenon DEF Open
<1>3. ASSUME NEW p \in Partition, Dispatch(p) PROVE Goal
  <2>1. /\ ~Closed /\ UNCHANGED worker /\ workCh' = Append(workCh, Fetched(p))
        /\ handler[p] = "send" /\ handler' = [handler EXCEPT ![p] = "idle"]
    BY <1>3, ZenonT(30) DEF Dispatch
  <2>2. HasMessage(topic[p])
    BY <1>3, ZenonT(40) DEF Dispatch, Prefix, Follows
  <2>3. Fetched(p) \in Item /\ Fetched(p).id = <<p, topic[p].next>> /\ Fetched(p).retry = Cb(Fetched(p).id).retry
    BY <2>2, FetchedFields, Zenon
  <2>4. /\ Len(workCh') = Len(workCh) + 1 /\ workCh'[Len(workCh) + 1] = Fetched(p) /\ Len(workCh) \in Nat
        /\ \A n \in 1..Len(workCh) : workCh'[n] = workCh[n]
    BY <2>1, <2>3, QueueFields, ZenonT(30)
  <2>5. /\ \A n \in 1..Len(workCh') : n = Len(workCh) + 1 \/ n \in 1..Len(workCh)
        /\ \A n \in 1..Len(workCh) : n \in 1..Len(workCh')
        /\ Len(workCh) + 1 \in 1..Len(workCh')
    BY <2>4
  <2>6. FirstQueued(id)' <=> FirstQueued(id) \/ (id = Fetched(p).id /\ FirstStump(Fetched(p)))
    <3>1. FirstQueued(id)' => FirstQueued(id) \/ (id = Fetched(p).id /\ FirstStump(Fetched(p)))
      BY <2>4, <2>5, Zenon DEF FirstQueued
    <3>2. FirstQueued(id) => FirstQueued(id)'
      BY <2>4, <2>5, Zenon DEF FirstQueued
    <3>3. id = Fetched(p).id /\ FirstStump(Fetched(p)) => FirstQueued(id)'
      BY <2>4, <2>5, Zenon DEF FirstQueued
    <3> QED BY <3>1, <3>2, <3>3, Zenon
  <2>7. FirstHeld(id)' <=> FirstHeld(id)
    BY <2>1, Zenon DEF FirstHeld, Busy
  <2>8. CASE id[1] # p
    <3>1. AtSend(id)' <=> AtSend(id)
      BY <1>0, <1>3, <1>a, <2>8, HandlerMoves, ZenonT(40) DEF HandlerStep
    <3>2. id # Fetched(p).id
      BY <2>3, <2>8
    <3> QED BY <2>6, <2>7, <3>1, <3>2, ZenonT(40) DEF Open
  <2>9. CASE id[1] = p
    <3>1. ~AtSend(id)'
      BY <1>0, <2>1, <2>9 DEF AtSend, TypeOK
    <3>2. id = Fetched(p).id <=> id[2] = topic[p].next
      BY <1>0, <2>3, <2>9
    <3>3. AtSend(id) <=> id = Fetched(p).id /\ FirstStump(Fetched(p))
      BY <2>1, <2>3, <2>9, <3>2, ZenonT(40) DEF AtSend, FirstStump
    <3> QED BY <2>6, <2>7, <3>1, <3>3, ZenonT(30) DEF Open
  <2> QED BY <2>8, <2>9
<1>4. ASSUME NEW w \in Worker, Take(w) PROVE Goal
  <2>1. /\ \A v \in Worker : v # w => worker'[v] = worker[v]
        /\ worker'[w].item = workCh[1] /\ worker'[w].first = FirstStump(workCh[1])
        /\ worker'[w].pc \in {"gate", "exists"} /\ 1 \in 1..Len(workCh)
    BY <1>4, Takes, Zenon
  <2>2. workCh' = Tail(workCh) /\ workCh # <<>> /\ ~Busy(w) /\ UNCHANGED <<topic, handler>>
    BY <1>4, ZenonT(30) DEF Take, Busy, At
  <2>22. /\ Len(workCh) \in Nat /\ Len(Tail(workCh)) = Len(workCh) - 1
         /\ \A n \in 1..(Len(workCh) - 1) : Tail(workCh)[n] = workCh[n + 1]
    BY <2>2, QueueFields, Zenon
  <2>3. \A n \in 1..Len(workCh') : n + 1 \in 1..Len(workCh) /\ workCh'[n] = workCh[n + 1]
    BY <2>2, <2>22
  <2>4. \A n \in 1..Len(workCh) : n = 1 \/ (n - 1 \in 1..Len(workCh') /\ workCh'[n - 1] = workCh[n])
    BY <2>2, <2>22
  <2>5. Busy(w)'
    BY <2>1 DEF Busy
  <2>6. \A v \in Worker : v # w => (Busy(v)' <=> Busy(v))
    BY <2>1, Zenon DEF Busy
  <2>7. FirstQueued(id)' => FirstQueued(id)
    BY <2>3, Zenon DEF FirstQueued
  <2>8. FirstQueued(id) => FirstQueued(id)' \/ (workCh[1].id = id /\ FirstStump(workCh[1]))
    BY <2>4, Zenon DEF FirstQueued
  <2>9. workCh[1].id = id /\ FirstStump(workCh[1]) => FirstHeld(id)' /\ FirstQueued(id)
    BY <2>1, <2>5, Zenon DEF FirstHeld, FirstQueued
  <2>10. FirstHeld(id) => FirstHeld(id)'
    <3> SUFFICES ASSUME NEW v \in Worker, Busy(v), worker[v].first, worker[v].item.id = id
                 PROVE  FirstHeld(id)'
      BY Zenon DEF FirstHeld
    <3>1. v # w /\ worker'[v] = worker[v] /\ Busy(v)'
      BY <2>1, <2>2, <2>6, ZenonT(40)
    <3>2. worker'[v].first
      BY <3>1
    <3> QED BY <3>1, <3>2, Zenon DEF FirstHeld
  <2>11. FirstHeld(id)' => FirstHeld(id) \/ (workCh[1].id = id /\ FirstStump(workCh[1]))
    <3> SUFFICES ASSUME NEW v \in Worker, Busy(v)', worker'[v].first, worker'[v].item.id = id
                 PROVE  FirstHeld(id) \/ (workCh[1].id = id /\ FirstStump(workCh[1]))
      BY Zenon DEF FirstHeld
    <3>1. CASE v = w
      BY <2>1, <3>1, Zenon
    <3>2. CASE v # w
      <4>1. worker'[v] = worker[v] /\ Busy(v)
        BY <2>1, <2>6, <3>2, Zenon
      <4>2. worker[v].first
        BY <4>1
      <4> QED BY <4>1, <4>2, Zenon DEF FirstHeld
    <3> QED BY <3>1, <3>2
  <2>12. AtSend(id)' <=> AtSend(id)
    BY <1>a, <2>2, Zenon
  <2> QED BY <2>7, <2>8, <2>9, <2>10, <2>11, <2>12, ZenonT(40) DEF Open
<1>5. ASSUME UNCHANGED <<topic, handler, workCh>>, ~ \E w \in Worker : Take(w) PROVE Goal
  BY <1>5, <1>a, <1>b, <1>c, Zenon DEF Open
<1>6. ASSUME NEW w \in Worker, GateWait(w) \/ GateWoken(w) \/ GateOpened(w) \/ WorkStep(w) \/ Return(w)
      PROVE  UNCHANGED <<topic, handler, workCh>>
  BY <1>6, Zenon DEF GateWait, GateWoken, GateOpened, Return, WorkStep, Exists, ExistsFails, PostSucceeds,
                     PostFails, StumpMissing, Record, publishToDLQWithRetry, ArmTimer
<1>7. ASSUME NEW x \in Timers, TimerFires(x) PROVE UNCHANGED <<topic, handler, workCh>>
  BY <1>7, Zenon DEF TimerFires
<1>8. ASSUME StopFlag \/ StopWait \/ StopClose \/ StopConsumer \/ UNCHANGED vars
      PROVE  UNCHANGED <<topic, handler, workCh>>
  BY <1>8, Zenon DEF StopFlag, StopWait, StopClose, StopConsumer, vars, service
<1>9. ASSUME NEW x \in Timers, TimerSends(x) PROVE Goal
  <2>1. x \in Item /\ workCh' = Append(workCh, x) /\ UNCHANGED <<topic, handler, worker>>
    BY <1>9, Zenon DEF TimerSends, TypeOK
  <2>2. x.retry > 0
    BY <1>9, Zenon DEF Retried
  <2>3. ~FirstStump(x)
    BY <2>2 DEF FirstStump
  <2>4. /\ Len(workCh') = Len(workCh) + 1 /\ workCh'[Len(workCh) + 1] = x /\ Len(workCh) \in Nat
        /\ \A n \in 1..Len(workCh) : workCh'[n] = workCh[n]
    BY <2>1, QueueFields, Zenon
  <2>5. /\ \A n \in 1..Len(workCh') : n = Len(workCh) + 1 \/ n \in 1..Len(workCh)
        /\ \A n \in 1..Len(workCh) : n \in 1..Len(workCh')
    BY <2>4
  <2>6. FirstQueued(id)' => FirstQueued(id)
    BY <2>3, <2>4, <2>5, Zenon DEF FirstQueued
  <2>7. FirstQueued(id) => FirstQueued(id)'
    BY <2>4, <2>5, Zenon DEF FirstQueued
  <2>8. FirstHeld(id)' <=> FirstHeld(id)
    BY <2>1, Zenon DEF FirstHeld, Busy
  <2>9. AtSend(id)' <=> AtSend(id)
    BY <1>a, <2>1, Zenon
  <2> QED BY <2>6, <2>7, <2>8, <2>9, Zenon DEF Open
<1> HIDE DEF Goal
<1>10. Goal
  BY <1>1, <1>2, <1>3, <1>4, <1>5, <1>6, <1>7, <1>8, <1>9, ZenonT(40)
     DEF Next, HandlerStep, WorkerStep, WorkStep, TimerStep, Quiescent
<1> QED BY <1>10, ZenonT(40) DEF Goal

(* A first-attempt STUMP registers at the gate, once. *)
LEMMA OpenRegisters ==
    ASSUME TypeOK, Prefix, Passed, NEW p \in Partition, handleMessage(p), FirstStump(Fetched(p))
    PROVE  /\ Fetched(p).id \in Id /\ ~Open(Fetched(p).id)
           /\ \A id \in Id : Open(id)' <=> Open(id) \/ id = Fetched(p).id
<1>1. HasMessage(topic[p]) /\ handler[p] = "idle" /\ UNCHANGED <<topic, workCh, worker>>
  BY Zenon DEF handleMessage, CanHandle
<1>2. /\ Fetched(p).id = <<p, topic[p].next>> /\ Fetched(p).id \in Id
      /\ Fetched(p).retry = Cb(Fetched(p).id).retry
  BY <1>1, FetchedFields, Zenon
<1>3. \A id \in Id : id[1] \in Partition /\ id = <<id[1], id[2]>>
  BY IdFields, Zenon
<1>4. handler'[p] = "send" /\ \A q \in Partition : q # p => handler'[q] = handler[q]
  BY Zenon DEF handleMessage, TypeOK
<1>5. ~Open(Fetched(p).id)
  <2>1. ~AtSend(Fetched(p).id)
    BY <1>1, <1>2 DEF AtSend
  <2>2. ~Held(Fetched(p).id)
    BY <1>1, FetchedFresh, Zenon
  <2> QED BY <2>1, <2>2, Zenon DEF Open, FirstQueued, FirstHeld, Held
<1>6. ASSUME NEW id \in Id PROVE Open(id)' <=> Open(id) \/ id = Fetched(p).id
  <2>1. (FirstQueued(id)' <=> FirstQueued(id)) /\ (FirstHeld(id)' <=> FirstHeld(id))
    BY <1>1, Zenon DEF FirstQueued, FirstHeld, Busy
  <2>2. AtSend(id)' <=> AtSend(id) \/ id = Fetched(p).id
    <3>1. CASE id[1] # p
      <4>1. id # Fetched(p).id
        BY <1>2, <3>1
      <4> QED BY <1>1, <1>3, <1>4, <3>1, <4>1, ZenonT(40) DEF AtSend
    <3>2. CASE id[1] = p
      <4>1. ~AtSend(id)
        BY <1>1, <3>2 DEF AtSend
      <4>2. id = Fetched(p).id <=> id[2] = topic[p].next
        BY <1>2, <1>3, <3>2
      <4> QED BY <1>1, <1>2, <1>4, <3>2, <4>1, <4>2, ZenonT(40) DEF AtSend, FirstStump
    <3> QED BY <3>1, <3>2
  <2> QED BY <2>1, <2>2, Zenon DEF Open
<1> QED BY <1>2, <1>5, <1>6, Zenon

(* A first attempt that returns is over. *)
LEMMA OpenReturns ==
    ASSUME TypeOK, Prefix, Passed, FirstOnce, [Next]_vars, NEW w \in Worker, Return(w), worker[w].first
    PROVE  /\ worker[w].item.id \in Id /\ Open(worker[w].item.id)
           /\ \A id \in Id : Open(id)' <=> Open(id) /\ id # worker[w].item.id
<1> DEFINE s == worker[w].item.id
<1>1. Busy(w) /\ ~panicked /\ UNCHANGED <<topic, handler, workCh>>
  BY DEF Return, At, Busy
<1>2. s \in Id
  BY <1>1, BusyFields, Zenon
<1>3. FirstHeld(s) /\ Held(s)
  BY <1>1, Zenon DEF FirstHeld, Held
<1>4. ~AtSend(s) /\ ~FirstQueued(s)
  <2>1. Behind(s) /\ s[1] \in Partition /\ s[2] \in Nat /\ topic[s[1]].next \in Nat
    <3>1. Behind(s) /\ s[1] \in Partition /\ s[2] \in 1..Len(Input[s[1]])
      BY <1>2, <1>3, IdFields, ZenonT(40) DEF Passed
    <3>2. topic[s[1]].next \in Nat
      BY <3>1, Zenon DEF TypeOK, PartitionOfType
    <3> HIDE DEF s
    <3> QED BY <3>1, <3>2
  <2>2. ~AtSend(s)
    <3> HIDE DEF s
    <3> QED BY <2>1 DEF AtSend, Behind
  <2>3. ~FirstQueued(s)
    BY <1>1, Zenon DEF FirstQueued, FirstOnce
  <2> QED BY <2>2, <2>3
<1>5. Crash => FALSE
  <2>1. ASSUME Crash PROVE FALSE
    <3>1. crashes' = crashes /\ crashes' = crashes - 1 /\ crashes \in Nat
      BY <2>1, ZenonT(40) DEF Crash, Return, TypeOK
    <3> QED BY <3>1
  <2> QED BY <2>1
<1>6. \A v \in Worker : v # w => ~Return(v)
  <2> SUFFICES ASSUME NEW v \in Worker, v # w, Return(v) PROVE FALSE
    OBVIOUS
  <2>1. worker[v].pc = "done" /\ worker'[v].pc = "idle"
    BY Returns, Zenon DEF Return, At
  <2>2. CASE worker'[v] = worker[v]
    BY <2>1, <2>2
  <2>3. CASE worker'[v].pc = "woken"
    BY <2>1, <2>3
  <2> QED BY <2>2, <2>3, Returns, ZenonT(40)
<1>7. ~ \E v \in Worker : Take(v)
  <2> SUFFICES ASSUME NEW v \in Worker, Take(v) PROVE FALSE
    OBVIOUS
  <2>1. worker[v].pc = "idle" /\ worker'[v].pc \in {"gate", "exists"}
    BY Takes, Zenon DEF Take, At
  <2>2. CASE v = w
    BY <1>1, <2>1, <2>2, Zenon DEF Busy
  <2>3. CASE v # w /\ worker'[v] = worker[v]
    BY <2>1, <2>3
  <2>4. CASE v # w /\ worker[v].pc = "waiting"
    BY <2>1, <2>4
  <2> QED BY <2>2, <2>3, <2>4, Returns, ZenonT(40)
<1>8. ~Busy(w)'
  BY Returns, Zenon DEF Busy
<1>9. ASSUME NEW id \in Id PROVE Open(id)' <=> Open(id) /\ id # s
  <2>1. (AtSend(id)' <=> AtSend(id)) /\ (FirstQueued(id)' <=> FirstQueued(id))
    BY <1>1, Zenon DEF AtSend, FirstQueued
  <2>2. ASSUME NEW v \in Worker, Busy(v)', worker'[v].first, worker'[v].item.id = id
        PROVE  FirstHeld(id) /\ id # s
    <3>1. /\ Busy(v) /\ worker'[v].item.id = worker[v].item.id /\ worker'[v].first = worker[v].first
          /\ v # w
      BY <1>7, <1>8, <2>2, Continues, Zenon
    <3>2. worker[v].first /\ worker[v].item.id = id
      BY <2>2, <3>1, Zenon
    <3>3. id # s
      BY <1>1, <3>1, <3>2, Zenon DEF FirstOnce
    <3> QED BY <3>1, <3>2, <3>3, Zenon DEF FirstHeld
  <2>3. ASSUME NEW v \in Worker, Busy(v), worker[v].first, worker[v].item.id = id, id # s
        PROVE  FirstHeld(id)'
    <3>0. v # w
      BY <2>3, Zenon
    <3>1. Busy(v)' /\ worker'[v].item.id = worker[v].item.id /\ worker'[v].first = worker[v].first
      BY <1>5, <1>6, <2>3, <3>0, Stays, Zenon
    <3>2. worker'[v].first /\ worker'[v].item.id = id
      BY <2>3, <3>1, Zenon
    <3> QED BY <3>1, <3>2, Zenon DEF FirstHeld
  <2>4. FirstHeld(id)' <=> FirstHeld(id) /\ id # s
    BY <2>2, <2>3, Zenon DEF FirstHeld
  <2> QED BY <1>4, <2>1, <2>4, Zenon DEF Open
<1> QED BY <1>2, <1>3, <1>9, ZenonT(40) DEF Open

(* Gate h is gate g after an Add, or a Done, at key k. *)
AddedTo(g, h, k) ==
    /\ HasGroup(h, k)
    /\ h.count[h.at[k]] = IF HasGroup(g, k) THEN g.count[g.at[k]] + 1 ELSE 1
    /\ \A j \in GateKey : j # k => h.at[j] = g.at[j]
    /\ \A i \in 1..Len(g.count) : i \in 1..Len(h.count) /\ (i # g.at[k] => h.count[i] = g.count[i])
    /\ \A i \in 1..Len(g.count) : h.at[k] = i => g.at[k] = i

DoneIn(g, h, k) ==
    /\ h.at = g.at /\ g.at[k] \in 1..Len(g.count)
    /\ h.count[g.at[k]] = g.count[g.at[k]] - 1
    /\ \A i \in 1..Len(g.count) : i \in 1..Len(h.count) /\ (i # g.at[k] => h.count[i] = g.count[i])

(* The facts about the size of finite sets that the counters rest on; they are
   proved at the end, from the library's theorems. *)
SetCounts ==
    /\ IsFiniteSet({}) /\ Cardinality({}) = 0
    /\ \A S : IsFiniteSet(S) => Cardinality(S) \in Nat /\ (Cardinality(S) = 0 <=> S = {})
    /\ \A S, x : IsFiniteSet(S) /\ x \notin S =>
           IsFiniteSet(S \cup {x}) /\ Cardinality(S \cup {x}) = Cardinality(S) + 1
    /\ \A S, x : IsFiniteSet(S) /\ x \in S =>
           IsFiniteSet(S \ {x}) /\ Cardinality(S \ {x}) = Cardinality(S) - 1

(* The empty set is finite. *)
LEMMA EmptyFinite == ASSUME SetCounts PROVE IsFiniteSet({}) /\ Cardinality({}) = 0
BY Zenon DEF SetCounts

(* A finite set has a number of elements, which is zero for the empty one. *)
LEMMA CountType ==
    ASSUME SetCounts, NEW S, IsFiniteSet(S)
    PROVE  Cardinality(S) \in Nat /\ (Cardinality(S) = 0 <=> S = {})
BY Zenon DEF SetCounts

(* One element more. *)
LEMMA OneMore ==
    ASSUME SetCounts, NEW S, NEW x, IsFiniteSet(S), x \notin S, NEW T, T = S \cup {x}
    PROVE  IsFiniteSet(T) /\ Cardinality(T) = Cardinality(S) + 1
BY Zenon DEF SetCounts

(* One element less. *)
LEMMA OneLess ==
    ASSUME SetCounts, NEW S, NEW x, IsFiniteSet(S), x \in S, NEW T, T = S \ {x}
    PROVE  IsFiniteSet(T) /\ Cardinality(T) = Cardinality(S) - 1
BY Zenon DEF SetCounts

(* What stumpGate.Add does to the counters. *)
LEMMA AddCounts ==
    ASSUME NEW g \in GateOfType(GateKey), GroupsOf(g), NEW k \in GateKey
    PROVE  AddedTo(g, GateAdd(g, k), k)
<1> DEFINE h == GateAdd(g, k)
<1>1. g.at[k] \in 0..Len(g.count) /\ Len(g.count) \in Nat /\ NoGroup = 0
  BY DEF GroupsOf, GateOfType, NoGroup
<1>2. CASE HasGroup(g, k)
  <2>1. h.at = g.at
    BY <1>1, <1>2, AddToGroup, Zenon
  <2>2. Len(h.count) = Len(g.count)
    BY <1>1, <1>2, AddToGroup, Zenon
  <2>3. \A i \in 1..Len(g.count) : h.count[i] = IF i = g.at[k] THEN g.count[i] + 1 ELSE g.count[i]
    BY <1>1, <1>2, AddToGroup, Zenon
  <2>4. g.at[k] \in 1..Len(g.count)
    BY <1>1, <1>2 DEF HasGroup
  <2> HIDE DEF h
  <2>5. AddedTo(g, h, k)
    BY <1>2, <2>1, <2>2, <2>3, <2>4, ZenonT(40) DEF HasGroup, AddedTo
  <2> QED BY <2>5 DEF h
<1>3. CASE ~HasGroup(g, k)
  <2>1. \A j \in GateKey : h.at[j] = IF j = k THEN Len(g.count) + 1 ELSE g.at[j]
    BY <1>3, AddsGroup, Zenon
  <2>2. Len(h.count) = Len(g.count) + 1
    BY <1>3, AddsGroup, Zenon
  <2>3. \A i \in 1..Len(g.count) : h.count[i] = g.count[i]
    BY <1>3, AddsGroup, Zenon
  <2>4. h.count[Len(g.count) + 1] = 1
    BY <1>3, AddsGroup, ZenonT(40)
  <2>5. h.at[k] = Len(g.count) + 1 /\ \A j \in GateKey : j # k => h.at[j] = g.at[j]
    BY <2>1, Zenon
  <2>6. HasGroup(h, k) /\ \A i \in 1..Len(g.count) : i \in 1..Len(h.count) /\ h.at[k] # i
    BY <1>1, <2>2, <2>5 DEF HasGroup
  <2> HIDE DEF h
  <2>7. AddedTo(g, h, k)
    BY <1>3, <2>3, <2>4, <2>5, <2>6, ZenonT(40) DEF AddedTo
  <2> QED BY <2>7 DEF h
<1> QED BY <1>2, <1>3

(* What stumpGate.Done does to them. *)
LEMMA DoneCounts ==
    ASSUME NEW g \in GateOfType(GateKey), GroupsOf(g), NEW k \in GateKey, HasGroup(g, k)
    PROVE  DoneIn(g, GateDone(g, k), k)
<1> DEFINE h == GateDone(g, k)
<1>1. g.at[k] \in 0..Len(g.count) /\ Len(g.count) \in Nat /\ NoGroup = 0
  BY DEF GroupsOf, GateOfType, NoGroup
<1>2. g.at[k] \in 1..Len(g.count)
  BY <1>1 DEF HasGroup
<1>3. h.at = g.at
  BY <1>1, DoneInGroup, Zenon
<1>4. Len(h.count) = Len(g.count)
  BY <1>1, DoneInGroup, Zenon
<1>5. \A i \in 1..Len(g.count) : h.count[i] = IF i = g.at[k] THEN g.count[i] - 1 ELSE g.count[i]
  BY <1>1, DoneInGroup, Zenon
<1> HIDE DEF h
<1>6. DoneIn(g, h, k)
  BY <1>2, <1>3, <1>4, <1>5, Zenon DEF DoneIn
<1> QED BY <1>6 DEF h

(* What is not affected stays pending. *)
LEMMA PendingSame ==
    ASSUME NEW k, \A id \in Id : gateKey(id) = k => (Open(id)' <=> Open(id))
    PROVE  Pending(k)' = Pending(k)
BY Zenon DEF Pending

(* What is counted at zero is empty. *)
LEMMA NonePending ==
    ASSUME SetCounts, NEW k, IsFiniteSet(Pending(k)), Cardinality(Pending(k)) = 0 PROVE Pending(k) = {}
BY CountType, Zenon

(* A first-attempt STUMP registers at the gate of its key. *)
LEMMA Registers ==
    ASSUME TypeOK, Prefix, Passed, NEW p \in Partition, handleMessage(p), FirstStump(Fetched(p))
    PROVE  \E s \in Id, k \in GateKey :
               /\ s = Fetched(p).id /\ k = gateKey(s) /\ gate' = GateAdd(gate, k)
               /\ s \notin Pending(k) /\ Pending(k)' = Pending(k) \cup {s}
               /\ \A j \in GateKey : j # k => Pending(j)' = Pending(j)
<1>1. PICK s \in Id : s = Fetched(p).id
  BY OpenRegisters, Zenon
<1>2. ~Open(s) /\ \A id \in Id : Open(id)' <=> Open(id) \/ id = s
  BY <1>1, OpenRegisters, Zenon
<1>3. PICK k \in GateKey : k = gateKey(s)
  BY IdFields, Zenon
<1>4. s \notin Pending(k)
  BY <1>2, Zenon DEF Pending
<1>5. Pending(k)' = Pending(k) \cup {s}
  BY <1>2, <1>3, Zenon DEF Pending
<1>6. ASSUME NEW j \in GateKey, j # k PROVE Pending(j)' = Pending(j)
  BY <1>2, <1>3, <1>6, PendingSame, ZenonT(40)
<1>7. gate' = GateAdd(gate, k)
  BY <1>1, <1>3, Zenon DEF handleMessage
<1>8. /\ s = Fetched(p).id /\ k = gateKey(s) /\ gate' = GateAdd(gate, k)
      /\ s \notin Pending(k) /\ Pending(k)' = Pending(k) \cup {s}
      /\ \A j \in GateKey : j # k => Pending(j)' = Pending(j)
  BY <1>1, <1>3, <1>4, <1>5, <1>6, <1>7, ZenonT(40)
<1> QED BY <1>8, Zenon

(* A first-attempt STUMP that returns signs off there. *)
LEMMA Leaves ==
    ASSUME TypeOK, Prefix, Passed, FirstOnce, [Next]_vars, NEW w \in Worker, Return(w), worker[w].first
    PROVE  \E s \in Id, k \in GateKey :
               /\ s = worker[w].item.id /\ k = KeyOf(w) /\ k = gateKey(s)
               /\ s \in Pending(k) /\ Pending(k)' = Pending(k) \ {s}
               /\ \A j \in GateKey : j # k => Pending(j)' = Pending(j)
<1>1. PICK s \in Id : s = worker[w].item.id
  BY OpenReturns, Zenon
<1>2. Open(s) /\ \A id \in Id : Open(id)' <=> Open(id) /\ id # s
  BY <1>1, OpenReturns, Zenon
<1>3. PICK k \in GateKey : k = gateKey(s)
  BY IdFields, Zenon
<1>4. s \in Pending(k)
  BY <1>2, <1>3, Zenon DEF Pending
<1>5. Pending(k)' = Pending(k) \ {s}
  BY <1>2, <1>3, Zenon DEF Pending
<1>6. ASSUME NEW j \in GateKey, j # k PROVE Pending(j)' = Pending(j)
  BY <1>2, <1>3, <1>6, PendingSame, ZenonT(40)
<1>7. /\ s = worker[w].item.id /\ k = KeyOf(w) /\ k = gateKey(s)
      /\ s \in Pending(k) /\ Pending(k)' = Pending(k) \ {s}
      /\ \A j \in GateKey : j # k => Pending(j)' = Pending(j)
  BY <1>1, <1>3, <1>4, <1>5, <1>6, ZenonT(40) DEF KeyOf
<1> QED BY <1>7, Zenon

(* Nothing is pending after a restart. *)
LEMMA NoneOpen == ASSUME Crash, NEW k PROVE Pending(k)' = {}
<1>1. /\ workCh' = <<>> /\ \A w \in Worker : worker'[w] = IdleWorker
      /\ \A p \in Partition : handler'[p] = "idle"
  BY Zenon DEF Crash
<1>2. Len(workCh') = 0
  BY <1>1
<1>3. \A w \in Worker : ~Busy(w)'
  BY <1>1 DEF Busy, IdleWorker
<1>4. ASSUME NEW id \in Id PROVE ~Open(id)'
  <2>1. id[1] \in Partition
    BY IdFields, Zenon
  <2>2. ~AtSend(id)'
    BY <1>1, <2>1 DEF AtSend
  <2>3. ~FirstQueued(id)'
    BY <1>2 DEF FirstQueued
  <2> QED BY <1>3, <2>2, <2>3, ZenonT(40) DEF Open, FirstHeld
<1> QED BY <1>4, Zenon DEF Pending

(* A process that has died of a panic stays dead until it is restarted. *)
LEMMA StaysDead == ASSUME [Next]_vars, ~Crash, panicked PROVE panicked'
BY ZenonT(40) DEF Next, Publish, Commit, HandlerStep, ParkMessage, ArmParked, handleMessage, Dispatch,
   CanHandle, WorkerStep, Take, GateWait, GateWoken, GateOpened, Exists, ExistsFails, PostSucceeds,
   PostFails, StumpMissing, Record, publishToDLQWithRetry, ArmTimer, Return, At, TimerStep, TimerFires,
   TimerSends, StopFlag, StopWait, StopClose, StopConsumer, Quiescent, vars

(* The wait group of a key counts its first attempts. *)
CountedAt(k) ==
    /\ IsFiniteSet(Pending(k))
    /\ HasGroup(gate, k) => gate.count[gate.at[k]] = Cardinality(Pending(k))
    /\ ~HasGroup(gate, k) => Pending(k) = {}

(* Every wait group keeps counting what is pending at its key. *)
LEMMA CountedStep ==
    ASSUME SetCounts, Base, Counted, Gated, [Next]_vars PROVE Counted'
<1> USE DEF Base
<1> SUFFICES ASSUME ~panicked' PROVE \A j \in GateKey : CountedAt(j)'
  BY ZenonT(40) DEF Counted, CountedAt
<1>0. gate \in GateOfType(GateKey)
  BY Zenon DEF TypeOK
<1>1. ASSUME NEW j \in GateKey, CountedAt(j), Pending(j)' = Pending(j),
             gate'.at[j] = gate.at[j], HasGroup(gate, j) => gate'.count[gate.at[j]] = gate.count[gate.at[j]]
      PROVE  CountedAt(j)'
  BY <1>1, Zenon DEF CountedAt, HasGroup
<1>2. CASE Crash
  <2> SUFFICES ASSUME NEW j \in GateKey PROVE CountedAt(j)'
    OBVIOUS
  <2>1. Pending(j)' = {} /\ gate' = newStumpGate(GateKey)
    BY <1>2, NoneOpen, Zenon DEF Crash
  <2>2. ~HasGroup(gate', j)
    BY <2>1, NewGate, Zenon
  <2>3. IsFiniteSet({})
    BY EmptyFinite, Zenon
  <2> QED BY <2>1, <2>2, <2>3, Zenon DEF CountedAt
<1>3. ASSUME ~Crash PROVE ~panicked
  BY <1>3, StaysDead, Zenon
<1>4. ASSUME ~Crash PROVE \A j \in GateKey : CountedAt(j)
  BY <1>3, <1>4, ZenonT(40) DEF Counted, CountedAt
<1>5. ASSUME NEW p \in Partition, handleMessage(p), FirstStump(Fetched(p)), ~Crash
      PROVE  \A j \in GateKey : CountedAt(j)'
  <2>1. PICK s \in Id, k \in GateKey :
               /\ s = Fetched(p).id /\ k = gateKey(s) /\ gate' = GateAdd(gate, k)
               /\ s \notin Pending(k) /\ Pending(k)' = Pending(k) \cup {s}
               /\ \A j \in GateKey : j # k => Pending(j)' = Pending(j)
    BY <1>5, Registers, Zenon
  <2>2. /\ HasGroup(gate', k)
        /\ gate'.count[gate'.at[k]] = IF HasGroup(gate, k) THEN gate.count[gate.at[k]] + 1 ELSE 1
        /\ \A j \in GateKey : j # k => gate'.at[j] = gate.at[j]
        /\ \A i \in 1..Len(gate.count) : i # gate.at[k] => gate'.count[i] = gate.count[i]
    <3>1. AddedTo(gate, gate', k)
      BY <1>0, <2>1, AddCounts, ZenonT(40)
    <3> QED BY <3>1, Zenon DEF AddedTo
  <2>3. IsFiniteSet(Pending(k)') /\ Cardinality(Pending(k)') = Cardinality(Pending(k)) + 1
    <3>1. IsFiniteSet(Pending(k))
      BY <1>4, <1>5, Zenon DEF CountedAt
    <3> QED BY <2>1, <3>1, OneMore, ZenonT(40)
  <2>4. CountedAt(k)'
    <3>1. CASE HasGroup(gate, k)
      BY <1>4, <1>5, <2>2, <2>3, <3>1, ZenonT(40) DEF CountedAt
    <3>2. CASE ~HasGroup(gate, k)
      <4>1. Cardinality(Pending(k)) = 0
        BY <1>4, <1>5, <3>2, EmptyFinite, ZenonT(40) DEF CountedAt
      <4>2. Cardinality(Pending(k)') = 1
        BY <2>3, <4>1
      <4> QED BY <2>2, <2>3, <3>2, <4>2, ZenonT(40) DEF CountedAt
    <3> QED BY <3>1, <3>2
  <2>5. ASSUME NEW j \in GateKey, j # k PROVE CountedAt(j)'
    <3>1. HasGroup(gate, j) => gate.at[j] \in 1..Len(gate.count) /\ gate.at[j] # gate.at[k]
      BY <1>0, <2>5 DEF GroupsOf, HasGroup, NoGroup, GateOfType
    <3> QED BY <1>1, <1>4, <1>5, <2>1, <2>2, <2>5, <3>1, ZenonT(40)
  <2> QED BY <2>4, <2>5, Zenon
<1>6. ASSUME NEW w \in Worker, Return(w), worker[w].first, ~Crash
      PROVE  \A j \in GateKey : CountedAt(j)'
  <2>1. PICK s \in Id, k \in GateKey :
               /\ s = worker[w].item.id /\ k = KeyOf(w) /\ k = gateKey(s)
               /\ s \in Pending(k) /\ Pending(k)' = Pending(k) \ {s}
               /\ \A j \in GateKey : j # k => Pending(j)' = Pending(j)
    BY <1>6, Leaves, Zenon
  <2>2. HasGroup(gate, k) /\ IsFiniteSet(Pending(k)) /\ gate.count[gate.at[k]] = Cardinality(Pending(k))
    BY <1>4, <1>6, <2>1, Zenon DEF CountedAt
  <2>3. gate' = GateDone(gate, k)
    BY <1>6, <2>1, ZenonT(40) DEF Return, SignsOff, KeyOf
  <2>4. /\ gate'.at = gate.at
        /\ gate'.count[gate.at[k]] = gate.count[gate.at[k]] - 1
        /\ \A i \in 1..Len(gate.count) : i # gate.at[k] => gate'.count[i] = gate.count[i]
    <3>1. DoneIn(gate, gate', k)
      BY <1>0, <2>2, <2>3, DoneCounts, ZenonT(40)
    <3> QED BY <3>1, Zenon DEF DoneIn
  <2>5. IsFiniteSet(Pending(k)') /\ Cardinality(Pending(k)') = Cardinality(Pending(k)) - 1
    BY <2>1, <2>2, OneLess, Zenon
  <2>6. CountedAt(k)'
    BY <2>2, <2>4, <2>5, Zenon DEF CountedAt, HasGroup
  <2>7. ASSUME NEW j \in GateKey, j # k PROVE CountedAt(j)'
    <3>1. HasGroup(gate, j) => gate.at[j] \in 1..Len(gate.count) /\ gate.at[j] # gate.at[k]
      BY <1>0, <2>7 DEF GroupsOf, HasGroup, NoGroup, GateOfType
    <3> QED BY <1>1, <1>4, <1>6, <2>1, <2>4, <2>7, <3>1, ZenonT(40)
  <2> QED BY <2>6, <2>7, Zenon
<1>7. ASSUME \A p \in Partition : ~(handleMessage(p) /\ FirstStump(Fetched(p))),
             \A w \in Worker : ~(Return(w) /\ worker[w].first), ~Crash
      PROVE  \A j \in GateKey : CountedAt(j)'
  <2>1. \A p \in Partition : ~(Dispatch(p) /\ Closed)
    BY Zenon DEF Dispatch
  <2>2. \A id \in Id : Open(id)' <=> Open(id)
    BY <1>7, <2>1, OpenSame, ZenonT(40)
  <2>3. \A j \in GateKey : Pending(j)' = Pending(j)
    BY <2>2, PendingSame, Zenon
  <2>4. CASE gate' = gate
    BY <1>1, <1>4, <1>7, <2>3, <2>4, ZenonT(40)
  <2>5. ASSUME NEW w \in Worker, GateOpened(w), gate' = GateDelete(gate, KeyOf(w))
        PROVE  \A j \in GateKey : CountedAt(j)'
    <3>1. Busy(w) /\ worker[w].pc = "ungate" /\ "ungate" \notin {"gate", "waiting"} /\ "ungate" \notin Past
      BY <2>5 DEF GateOpened, At, Busy, Past
    <3>2. KeyOf(w) \in GateKey
      BY <3>1, BusyFields, Zenon
    <3>3. Pending(KeyOf(w)) = {}
      BY <3>1, Zenon DEF Gated, GatedAt, Sorted
    <3>4. PICK k \in GateKey : k = KeyOf(w)
      BY <3>2
    <3>5. \A j \in GateKey : gate'.at[j] = IF j = k THEN NoGroup ELSE gate.at[j]
      BY <1>0, <2>5, <3>4, DeletesGroup, ZenonT(30)
    <3>6. gate'.count = gate.count
      BY <1>0, <2>5, <3>4, DeletesGroup, Zenon
    <3>7. CountedAt(k)'
      <4>1. Pending(k)' = {} /\ ~HasGroup(gate', k)
        BY <2>3, <3>3, <3>4, <3>5, Zenon DEF HasGroup
      <4>2. IsFiniteSet({})
        BY EmptyFinite, Zenon
      <4> QED BY <4>1, <4>2, Zenon DEF CountedAt
    <3>8. ASSUME NEW j \in GateKey, j # k PROVE CountedAt(j)'
      BY <1>1, <1>4, <1>7, <2>3, <3>5, <3>6, <3>8, ZenonT(40)
    <3> QED BY <3>7, <3>8, ZenonT(40)
  <2> QED BY <1>7, <2>4, <2>5, GateChanges, ZenonT(40)
<1> QED BY <1>2, <1>5, <1>6, <1>7, ZenonT(40)

(* Once a worker has BLOCK_PROCESSED, no STUMP of its block and URL can register
   any more. *)
LEMMA NoneRegisters ==
    ASSUME StumpsFirst, Base, NEW v \in Worker, Busy(v), Cb(worker[v].item.id).type = "BLOCK_PROCESSED",
           NEW p \in Partition, handleMessage(p), FirstStump(Fetched(p))
    PROVE  gateKey(Fetched(p).id) # KeyOf(v)
<1> USE DEF Base
<1>1. HasMessage(topic[p])
  BY Zenon DEF handleMessage, CanHandle
<1> DEFINE n == topic[p].next
<1>2. Fetched(p).id = <<p, n>> /\ Fetched(p).id \in Id /\ n \in Nat \ {0}
  BY <1>1, FetchedFields, Zenon
<1>3. PICK b \in Id : b = worker[v].item.id
  BY BusyFields, Zenon
<1>4. b[1] \in Partition /\ b[2] \in DOMAIN Input[b[1]] /\ b[2] \in 1..Len(Input[b[1]])
  BY IdFields, Zenon
<1>5. b[2] < topic[b[1]].next
  BY <1>3, Zenon DEF Passed, Held, Behind
<1>6. n \in DOMAIN Input[p] /\ Cb(<<p, n>>).type = "STUMP"
  <2>1. <<p, n>> \in Id /\ Cb(<<p, n>>).type = "STUMP"
    BY <1>2, Zenon DEF FirstStump
  <2>2. <<p, n>>[1] = p /\ <<p, n>>[2] = n
    OBVIOUS
  <2>3. <<p, n>>[2] \in DOMAIN Input[<<p, n>>[1]]
    BY <2>1, IdFields, Zenon
  <2> HIDE DEF n
  <2> QED BY <2>1, <2>2, <2>3, Zenon
<1> SUFFICES ASSUME gateKey(<<p, n>>) = gateKey(b) PROVE FALSE
  BY <1>2, <1>3, ZenonT(30) DEF KeyOf
<1>7. /\ Input[p][n].url = Input[b[1]][b[2]].url /\ Input[p][n].block = Input[b[1]][b[2]].block
      /\ Input[p][n].type = "STUMP" /\ Input[b[1]][b[2]].type = "BLOCK_PROCESSED"
  <2> HIDE DEF n
  <2> QED BY <1>3, <1>6, Zenon DEF gateKey, Cb
<1>8. b[1] = p
  <2> HIDE DEF n
  <2> QED BY <1>4, <1>6, <1>7, HashPartitioned, ZenonT(40)
<1>9. b[2] \in 1..(n - 1)
  <2>1. b[2] \in Nat \ {0} /\ b[2] < n
    <3>1. b[2] < n
      BY <1>5, <1>8, ZenonT(30)
    <3> HIDE DEF n
    <3> QED BY <1>2, <1>4, <3>1
  <2> HIDE DEF n
  <2> QED BY <1>2, <2>1
<1> HIDE DEF n
<1> QED BY <1>6, <1>7, <1>8, <1>9, Zenon DEF StumpsFirst

(* Where stumpGate.Wait goes, when the wait group counts what is pending. *)
LEMMA WaitsRight ==
    ASSUME SetCounts, TypeOK, GroupsOf(gate), NEW k \in GateKey, CountedAt(k)
    PROVE  /\ WaitsAt(k) = "waiting" => gate.at[k] # NoGroup /\ Pending(k) # {}
           /\ WaitsAt(k) # "waiting" => Pending(k) = {}
<1>1. CASE ~HasGroup(gate, k)
  <2>1. WaitsAt(k) = "exists" /\ Pending(k) = {}
    BY <1>1, Zenon DEF WaitsAt, CountedAt
  <2> QED BY <2>1
<1>2. CASE HasGroup(gate, k) /\ gate.count[gate.at[k]] = 0
  <2>1. WaitsAt(k) = "ungate"
    BY <1>2, Zenon DEF WaitsAt
  <2>2. Pending(k) = {}
    BY <1>2, NonePending, Zenon DEF CountedAt
  <2> QED BY <2>1, <2>2
<1>3. CASE HasGroup(gate, k) /\ gate.count[gate.at[k]] # 0
  <2>1. WaitsAt(k) = "waiting" /\ gate.at[k] # NoGroup
    BY <1>3, Zenon DEF WaitsAt, HasGroup
  <2>2. Pending(k) # {}
    BY <1>3, EmptyFinite, CountType, Zenon DEF CountedAt
  <2> QED BY <2>1, <2>2
<1> QED BY <1>1, <1>2, <1>3

(* A BLOCK_PROCESSED that a worker keeps while a STUMP registers for another key. *)
LEMMA GatedRegisters ==
    ASSUME StumpsFirst, Base, NEW v \in Worker, Busy(v), Cb(worker[v].item.id).type = "BLOCK_PROCESSED",
           GatedAt(v), NEW p \in Partition, handleMessage(p), FirstStump(Fetched(p))
    PROVE  GatedAt(v)'
<1> USE DEF Base
<1>1. PICK k \in GateKey : k = KeyOf(v)
  BY BusyFields, Zenon
<1>2. worker' = worker /\ panicked' = panicked
  BY Zenon DEF handleMessage
<1>3. PICK s \in Id, k0 \in GateKey :
          /\ s = Fetched(p).id /\ k0 = gateKey(s) /\ gate' = GateAdd(gate, k0)
          /\ s \notin Pending(k0) /\ Pending(k0)' = Pending(k0) \cup {s}
          /\ \A j \in GateKey : j # k0 => Pending(j)' = Pending(j)
  BY Registers, Zenon
<1>4. k # k0
  BY <1>1, <1>3, NoneRegisters, Zenon
<1>5. Pending(k)' = Pending(k)
  BY <1>3, <1>4, Zenon
<1>6. AddedTo(gate, gate', k0)
  <2>1. gate \in GateOfType(GateKey)
    BY Zenon DEF TypeOK
  <2> QED BY <1>3, <2>1, AddCounts, ZenonT(40)
<1>7. KeyOf(v)' = k
  BY <1>1, <1>2, Zenon DEF KeyOf
<1>8. Sleeps(v) => Sleeps(v)'
  BY <1>1, <1>2, <1>4, <1>5, <1>6, <1>7, ZenonT(40) DEF Sleeps, AddedTo, Pending
<1>9. ASSUME Wakes(v) PROVE Wakes(v)'
  <2> DEFINE g == worker[v].group
  <2>1. g \in 1..Len(gate.count) /\ gate.count[g] = 0 /\ \A j \in GateKey : gate.at[j] = g => j = k
    BY <1>1, <1>9, Zenon DEF Wakes
  <2>2. g # gate.at[k0]
    BY <1>4, <2>1, Zenon
  <2>3. g \in 1..Len(gate'.count) /\ gate'.count[g] = 0
    BY <1>6, <2>1, <2>2, ZenonT(40) DEF AddedTo
  <2>4. ASSUME NEW j \in GateKey, gate'.at[j] = g PROVE j = k
    BY <1>6, <2>1, <2>2, <2>4, ZenonT(40) DEF AddedTo
  <2>5. worker'[v].group = g
    BY <1>2, Zenon
  <2> HIDE DEF g
  <2> QED BY <1>7, <2>3, <2>4, <2>5, ZenonT(40) DEF Wakes
<1>10. Pending(KeyOf(v)) = {} => Pending(KeyOf(v))' = {}
  BY <1>1, <1>5, <1>7, Zenon DEF Pending
<1> QED BY <1>2, <1>8, <1>9, <1>10, ZenonT(40) DEF GatedAt

(* A first attempt of a STUMP returns: the sleepers of the wait group that is now at
   zero wake up, and only they. *)
LEMMA GatedLeaves ==
    ASSUME SetCounts, Base, Counted, [Next]_vars, NEW v \in Worker, Busy(v),
           Cb(worker[v].item.id).type = "BLOCK_PROCESSED",
           GatedAt(v), NEW w \in Worker, Return(w), worker[w].first, v # w
    PROVE  GatedAt(v)'
<1> USE DEF Base
<1>1. PICK k \in GateKey : k = KeyOf(v)
  BY BusyFields, Zenon
<1>2. PICK s \in Id, k0 \in GateKey :
          /\ s = worker[w].item.id /\ k0 = KeyOf(w) /\ k0 = gateKey(s)
          /\ s \in Pending(k0) /\ Pending(k0)' = Pending(k0) \ {s}
          /\ \A j \in GateKey : j # k0 => Pending(j)' = Pending(j)
  BY Leaves, Zenon
<1>3. ~panicked /\ gate' = GateDone(gate, k0)
  BY <1>2, Zenon DEF Return, At, SignsOff, KeyOf
<1>4. CountedAt(k0) /\ gate \in GateOfType(GateKey)
  BY <1>3, Zenon DEF Counted, CountedAt, TypeOK
<1>5. HasGroup(gate, k0) /\ IsFiniteSet(Pending(k0)) /\ gate.count[gate.at[k0]] = Cardinality(Pending(k0))
  BY <1>2, <1>4, Zenon DEF CountedAt
<1>6. DoneIn(gate, gate', k0)
  BY <1>3, <1>4, <1>5, DoneCounts, Zenon
<1>7. IsFiniteSet(Pending(k0)') /\ Cardinality(Pending(k0)') = Cardinality(Pending(k0)) - 1
  BY <1>2, <1>5, OneLess, Zenon
<1>8. Cardinality(Pending(k0)) \in Nat
  BY <1>5, CountType, Zenon
<1>9. Pending(k0)' = {} <=> gate.count[gate.at[k0]] = 1
  <2>1. Pending(k0)' = {} <=> Cardinality(Pending(k0)') = 0
    BY <1>7, CountType, ZenonT(40)
  <2>2. Cardinality(Pending(k0)') = 0 <=> Cardinality(Pending(k0)) = 1
    BY <1>7, <1>8
  <2> QED BY <1>5, <2>1, <2>2, Zenon
<1>10. worker'[v].item.id = worker[v].item.id /\ KeyOf(v)' = k
  <2>1. ~Crash /\ ~Return(v)
    <3>1. Busy(v)'
      <4>1. CASE worker'[v] = worker[v]
        BY <4>1, Zenon DEF Busy
      <4>2. CASE worker'[v].pc = "woken"
        BY <4>2 DEF Busy
      <4> QED BY <4>1, <4>2, Returns, ZenonT(40)
    <3>2. ~Return(v)
      BY <3>1, Returns, ZenonT(30) DEF Busy
    <3>3. Crash => ~Busy(v)'
      BY DEF Crash, Busy, IdleWorker
    <3> QED BY <3>1, <3>2, <3>3, ZenonT(40)
  <2>2. worker'[v].item.id = worker[v].item.id
    BY <2>1, Stays, Zenon
  <2> QED BY <1>1, <2>2, Zenon DEF KeyOf
<1>11. Pending(KeyOf(v))' = Pending(k)'
  BY <1>10, Zenon DEF Pending
<1>12. k # k0 => Pending(k)' = Pending(k)
  BY <1>2, Zenon
<1>13. gate'.at = gate.at /\ gate'.at[k] = gate.at[k]
  BY <1>6, Zenon DEF DoneIn
<1>14. CASE /\ Released(gate, k0) # NoGroup
            /\ worker[v].pc = "waiting" /\ worker[v].group = Released(gate, k0)
            /\ worker'[v].pc = "woken" /\ worker'[v].group = worker[v].group
  <2>1. worker[v].group = gate.at[k0] /\ gate.count[gate.at[k0]] = 1
    BY <1>14, Zenon DEF Released
  <2>2. gate.at[k] = gate.at[k0]
    BY <1>1, <1>14, <2>1, ZenonT(40) DEF GatedAt, Sleeps
  <2>3. \A j \in GateKey : gate.at[j] = gate.at[k0] => j = k0
    BY <1>5, Zenon DEF GroupsOf
  <2>4. k = k0 /\ Pending(k)' = {}
    BY <1>9, <2>1, <2>2, <2>3, ZenonT(40)
  <2>5. gate.at[k0] \in 1..Len(gate.count) /\ gate'.count[gate.at[k0]] = gate.count[gate.at[k0]] - 1
        /\ gate.at[k0] \in 1..Len(gate'.count)
    BY <1>6, ZenonT(30) DEF DoneIn
  <2>6. gate'.count[gate.at[k0]] = 0
    BY <2>1, <2>5
  <2>7. Wakes(v)'
    BY <1>10, <1>13, <1>14, <2>1, <2>3, <2>4, <2>5, <2>6, ZenonT(40) DEF Wakes
  <2>8. worker'[v].pc # "waiting"
    BY <1>14, ZenonT(40)
  <2> QED BY <1>11, <2>4, <2>7, <2>8, ZenonT(40) DEF GatedAt
<1>15. CASE /\ worker'[v] = worker[v]
            /\ ~ /\ Released(gate, k0) # NoGroup
                 /\ worker[v].pc = "waiting" /\ worker[v].group = Released(gate, k0)
  <2>1. ASSUME worker[v].pc = "waiting" PROVE Sleeps(v)'
    <3>1. gate.at[k] = worker[v].group /\ worker[v].group # NoGroup /\ Pending(k) # {}
      BY <1>1, <1>3, <2>1, ZenonT(40) DEF GatedAt, Sleeps
    <3>2. Pending(k)' # {}
      <4>1. CASE k = k0
        <5>1. gate.count[gate.at[k0]] # 1
          BY <1>5, <1>15, <2>1, <3>1, <4>1, ZenonT(40) DEF Released
        <5> QED BY <1>9, <4>1, <5>1, Zenon
      <4>2. CASE k # k0
        BY <1>12, <3>1, <4>2, Zenon
      <4> QED BY <4>1, <4>2, ZenonT(40)
    <3> QED BY <1>10, <1>11, <1>13, <1>15, <3>1, <3>2, ZenonT(40) DEF Sleeps
  <2>2. ASSUME Pending(KeyOf(v)) = {} PROVE k # k0 /\ Pending(KeyOf(v))' = {}
    <3>1. Pending(k) = {}
      BY <1>1, <2>2, Zenon
    <3>2. k # k0
      BY <1>2, <3>1, Zenon
    <3> QED BY <1>11, <1>12, <3>1, <3>2, ZenonT(40)
  <2>3. ASSUME worker[v].pc = "woken" PROVE Wakes(v)'
    <3> DEFINE g == worker[v].group
    <3>1. g \in 1..Len(gate.count) /\ gate.count[g] = 0 /\ \A j \in GateKey : gate.at[j] = g => j = k
      BY <1>1, <2>3, Zenon DEF GatedAt, Wakes
    <3>2. Pending(KeyOf(v)) = {}
      <4>1. worker[v].pc \notin {"gate", "waiting"}
        BY <2>3
      <4> QED BY <4>1, ZenonT(40) DEF GatedAt
    <3>3. g # gate.at[k0]
      BY <2>2, <3>1, <3>2, ZenonT(40)
    <3>4. g \in 1..Len(gate'.count) /\ gate'.count[g] = 0
      BY <1>6, <3>1, <3>3, ZenonT(40) DEF DoneIn
    <3>5. worker'[v].group = g
      BY <1>15, Zenon
    <3> HIDE DEF g
    <3> QED BY <1>10, <1>13, <3>1, <3>4, <3>5, ZenonT(40) DEF Wakes
  <2> QED BY <1>15, <2>1, <2>2, <2>3, ZenonT(40) DEF GatedAt
<1>16. SignsOff(w)
  BY Zenon DEF SignsOff
<1> QED BY <1>2, <1>14, <1>15, <1>16, Returns, ZenonT(30)

(* The end of stumpGate.Wait takes the wait group away from no sleeper. *)
LEMMA GatedOpens ==
    ASSUME Base, Gated, ~panicked, NEW v \in Worker, Busy(v), Cb(worker[v].item.id).type = "BLOCK_PROCESSED",
           GatedAt(v), NEW w \in Worker, GateOpened(w), \A j \in GateKey : Pending(j)' = Pending(j)
    PROVE  GatedAt(v)'
<1> USE DEF Base
<1>1. PICK k \in GateKey : k = KeyOf(v)
  BY BusyFields, ZenonT(40)
<1>2. /\ Busy(w) /\ worker[w].pc = "ungate" /\ worker[w].pc \notin {"gate", "waiting"}
      /\ worker[w].pc \notin Past
  BY DEF GateOpened, At, Busy, Past
<1>3. PICK k0 \in GateKey : k0 = KeyOf(w)
  BY <1>2, BusyFields, Zenon
<1>4. Pending(k0) = {}
  BY <1>2, <1>3, Zenon DEF Gated, GatedAt, Sorted
<1>5. /\ worker'[w].pc = "exists" /\ worker'[w].item.id = worker[w].item.id
      /\ \A u \in Worker : u # w => worker'[u] = worker[u]
      /\ gate' = GateDelete(gate, k0) /\ panicked' = panicked
  BY <1>3, GateMoves, Zenon
<1>6. KeyOf(v)' = k
  BY <1>1, <1>5, Zenon DEF KeyOf
<1>7. Pending(KeyOf(v))' = Pending(k)
  BY <1>6, Zenon DEF Pending
<1>8. gate \in GateOfType(GateKey)
  BY Zenon DEF TypeOK
<1>9. \A j \in GateKey : gate'.at[j] = IF j = k0 THEN NoGroup ELSE gate.at[j]
  BY <1>5, <1>8, DeletesGroup, ZenonT(40)
<1>10. gate'.count = gate.count
  BY <1>5, <1>8, DeletesGroup, Zenon
<1>11. CASE v = w
  <2>1. worker'[v].pc # "waiting" /\ worker'[v].pc # "woken"
    BY <1>5, <1>11, ZenonT(40)
  <2>2. Pending(KeyOf(v))' = {}
    BY <1>1, <1>3, <1>4, <1>7, <1>11, ZenonT(40)
  <2> QED BY <2>1, <2>2, ZenonT(30) DEF GatedAt
<1>12. CASE v # w
  <2>0. worker'[v] = worker[v]
    BY <1>5, <1>12, Zenon
  <2>1. ASSUME worker[v].pc = "waiting" PROVE Sleeps(v)'
    <3>1. gate.at[k] = worker[v].group /\ worker[v].group # NoGroup /\ Pending(k) # {}
      BY <1>1, <2>1, Zenon DEF GatedAt, Sleeps
    <3>2. gate'.at[k] = gate.at[k]
      BY <1>4, <1>9, <3>1, Zenon
    <3> QED BY <1>6, <1>7, <2>0, <3>1, <3>2, ZenonT(40) DEF Sleeps
  <2>2. ASSUME worker[v].pc = "woken" PROVE Wakes(v)'
    <3> DEFINE g == worker[v].group
    <3>1. g \in 1..Len(gate.count) /\ gate.count[g] = 0 /\ \A j \in GateKey : gate.at[j] = g => j = k
      BY <1>1, <2>2, Zenon DEF GatedAt, Wakes
    <3>2. worker'[v].group = g
      BY <2>0, ZenonT(40)
    <3> HIDE DEF g
    <3>3. g # NoGroup
      BY <3>1 DEF NoGroup
    <3>4. \A j \in GateKey : gate'.at[j] = g => j = k
      BY <1>9, <3>1, <3>3, Zenon
    <3> QED BY <1>6, <1>10, <3>1, <3>2, <3>4, ZenonT(40) DEF Wakes
  <2>3. Pending(KeyOf(v)) = {} => Pending(KeyOf(v))' = {}
    BY <1>1, <1>7, Zenon
  <2> QED BY <2>0, <2>1, <2>2, <2>3, ZenonT(40) DEF GatedAt
<1> QED BY <1>11, <1>12

(* A worker at the gate stays ordered in every step. *)
LEMMA GatedStep ==
    ASSUME SetCounts, StumpsFirst, Base, Counted, Gated, [Next]_vars PROVE Gated'
<1> USE DEF Base
<1> SUFFICES ASSUME NEW v \in Worker, Busy(v)', Cb(worker'[v].item.id).type = "BLOCK_PROCESSED"
             PROVE  GatedAt(v)'
  BY Zenon DEF Gated
<1>1. CASE Take(v)
  <2>1. worker'[v].pc = "gate"
    BY <1>1, Takes, Zenon DEF GateEntry
  <2> QED BY <2>1 DEF GatedAt
<1>2. CASE ~Take(v)
  <2>1. Busy(v) /\ worker'[v].item.id = worker[v].item.id
    BY <1>2, Continues, Zenon
  <2>2. Cb(worker[v].item.id).type = "BLOCK_PROCESSED"
    BY <2>1, Zenon
  <2>3. GatedAt(v)
    BY <2>1, <2>2, Zenon DEF Gated
  <2>4. PICK k \in GateKey : k = KeyOf(v)
    BY <2>1, BusyFields, Zenon
  <2>5. KeyOf(v)' = k
    BY <2>1, <2>4, ZenonT(40) DEF KeyOf
  <2>6. ~Crash
    BY DEF Crash, Busy, IdleWorker
  <2>7. ASSUME NEW p \in Partition, handleMessage(p), FirstStump(Fetched(p)) PROVE GatedAt(v)'
    BY <2>1, <2>2, <2>3, <2>7, GatedRegisters, ZenonT(40)
  <2>8. ASSUME NEW w \in Worker, Return(w), worker[w].first PROVE GatedAt(v)'
    <3>1. v # w
      BY <2>8, Returns, Zenon DEF Busy
    <3> QED BY <2>1, <2>2, <2>3, <2>8, <3>1, GatedLeaves, ZenonT(40)
  <2>9. ASSUME worker'[v] = worker[v], gate' = gate, Pending(k)' \subseteq Pending(k),
               panicked' \/ (~panicked /\ Pending(k)' = Pending(k))
        PROVE  GatedAt(v)'
    <3>1. Pending(KeyOf(v))' = Pending(k)'
      BY <2>5, Zenon DEF Pending
    <3>2. Sleeps(v) => Sleeps(v)'
      BY <2>4, <2>5, <2>9, <3>1, ZenonT(40) DEF Sleeps
    <3>3. Wakes(v) => Wakes(v)'
      BY <2>4, <2>5, <2>9, Zenon DEF Wakes
    <3>4. Pending(KeyOf(v)) = {} => Pending(KeyOf(v))' = {}
      BY <2>4, <2>9, <3>1, Zenon
    <3> QED BY <2>3, <2>9, <3>2, <3>3, <3>4, ZenonT(40) DEF GatedAt
  <2>10. ASSUME NEW p \in Partition, Dispatch(p), Closed PROVE GatedAt(v)'
    <3>1. UNCHANGED <<worker, workCh, gate, topic>> /\ panicked'
      BY <2>10, Zenon DEF Dispatch
    <3>2. ASSUME NEW id \in Id, Open(id)' PROVE Open(id)
      <4>1. (FirstQueued(id)' <=> FirstQueued(id)) /\ (FirstHeld(id)' <=> FirstHeld(id))
        BY <3>1, Zenon DEF FirstQueued, FirstHeld, Busy
      <4>2. id[1] \in Partition
        BY IdFields, ZenonT(40)
      <4>3. handler'[id[1]] = "send" => handler[id[1]] = "send"
        BY <2>10, <4>2, ZenonT(40) DEF Dispatch, TypeOK
      <4>4. AtSend(id)' => AtSend(id)
        BY <3>1, <4>3, Zenon DEF AtSend
      <4> QED BY <3>2, <4>1, <4>4, ZenonT(40) DEF Open
    <3>3. Pending(k)' \subseteq Pending(k)
      BY <3>2, Zenon DEF Pending
    <3> QED BY <2>9, <3>1, <3>3, ZenonT(40)
  <2>11. ASSUME \A p \in Partition : ~(handleMessage(p) /\ FirstStump(Fetched(p))),
                \A p \in Partition : ~(Dispatch(p) /\ Closed),
                \A w \in Worker : ~(Return(w) /\ worker[w].first)
         PROVE  GatedAt(v)'
    <3>1. \A id \in Id : Open(id)' <=> Open(id)
      BY <2>6, <2>11, OpenSame, ZenonT(40)
    <3>2. \A j \in GateKey : Pending(j)' = Pending(j)
      BY <3>1, PendingSame, Zenon
    <3>3. panicked => panicked'
      BY <2>6, StaysDead, Zenon
    <3>4. ASSUME NEW w \in Worker, GateOpened(w) PROVE GatedAt(v)'
      <4>1. ~panicked
        BY <3>4, Zenon DEF GateOpened, At
      <4> QED BY <2>1, <2>2, <2>3, <3>2, <3>4, <4>1, GatedOpens, ZenonT(40)
    <3>5. CASE gate' = gate /\ worker'[v] = worker[v]
      <4>1. Pending(k)' = Pending(k)
        BY <3>2, Zenon
      <4> QED BY <2>9, <3>3, <3>5, <4>1, ZenonT(40)
    <3>6. Pending(KeyOf(v))' = Pending(k)
      <4>1. Pending(KeyOf(v))' = Pending(k)'
        BY <2>5, Zenon DEF Pending
      <4> QED BY <3>2, <4>1, ZenonT(40)
    <3>7. CASE WorkStep(v)
      <4>1. worker'[v].pc \in Past /\ worker[v].pc \in Past
        BY <3>7, WorkMoves, ZenonT(40)
      <4>2. /\ worker'[v].pc # "waiting" /\ worker'[v].pc # "woken"
            /\ worker[v].pc \notin {"gate", "waiting"}
        BY <4>1, ZenonT(40) DEF Past
      <4> QED BY <2>3, <2>4, <3>6, <4>2, ZenonT(40) DEF GatedAt
    <3>8. CASE GateWoken(v)
      <4>1. worker[v].pc \notin {"gate", "waiting"}
        BY <3>8, ZenonT(40) DEF GateWoken, At
      <4>2. worker'[v].pc = "ungate"
        BY <3>8, GateMoves, ZenonT(40)
      <4>3. worker'[v].pc # "waiting" /\ worker'[v].pc # "woken"
        BY <4>2
      <4> QED BY <2>3, <2>4, <3>6, <4>1, <4>3, ZenonT(30) DEF GatedAt
    <3>9. CASE GateWait(v)
      <4>1. /\ worker'[v].pc = WaitsAt(k) /\ worker'[v].group = gate.at[k] /\ gate' = gate
            /\ ~panicked
        BY <2>4, <3>9, GateMoves, ZenonT(40)
      <4>2. CountedAt(k)
        BY <4>1, Zenon DEF Counted, CountedAt
      <4>3. /\ WaitsAt(k) = "waiting" => gate.at[k] # NoGroup /\ Pending(k) # {}
            /\ WaitsAt(k) # "waiting" => Pending(k) = {}
        BY <4>2, WaitsRight, ZenonT(40)
      <4>4. worker'[v].pc # "woken"
        BY <4>1, WaitsAtPlace
      <4>5. worker'[v].pc = "waiting" => Sleeps(v)'
        BY <2>5, <3>6, <4>1, <4>3, ZenonT(40) DEF Sleeps
      <4>6. worker'[v].pc # "waiting" => Pending(KeyOf(v))' = {}
        BY <3>6, <4>1, <4>3, Zenon
      <4> QED BY <4>4, <4>5, <4>6 DEF GatedAt
    <3>10. ASSUME worker'[v] = worker[v] PROVE GatedAt(v)'
      BY <2>6, <2>11, <3>4, <3>5, <3>10, GateChanges, ZenonT(40)
    <3> QED BY <1>2, <2>11, <3>4, <3>7, <3>8, <3>9, <3>10, Continues, ZenonT(40)
  <2> QED BY <2>7, <2>8, <2>10, <2>11, ZenonT(40)
<1> QED BY <1>1, <1>2

(* The consumer is stopped last: no handler is at work afterwards. *)
LEMMA StoppedStep == ASSUME TypeOK, StoppedIdle, [Next]_vars PROVE StoppedIdle'
<1> SUFFICES ASSUME stopping' = "stopped", NEW q \in Partition PROVE handler'[q] = "idle"
  BY Zenon DEF StoppedIdle
<1>1. CASE StopConsumer
  BY <1>1, Zenon DEF StopConsumer, service
<1>2. CASE StopFlag \/ StopWait \/ StopClose \/ Crash
  <2>1. \A t \in {"flagged", "waiting", "closed", "released", "no"} : t # "stopped"
    OBVIOUS
  <2>2. StopClose => stopping' \in {"closed", "released", "flagged"}
    BY Zenon DEF StopClose
  <2> QED BY <1>2, <2>1, <2>2, ZenonT(40) DEF StopFlag, StopWait, Crash
<1>3. CASE stopping' \in {stopping, "released"} /\ ~Crash /\ ~StopConsumer
  <2>1. stopping = "stopped"
    BY <1>3
  <2>2. \A p \in Partition : handler[p] = "idle"
    BY <2>1, Zenon DEF StoppedIdle
  <2>3. ASSUME NEW p \in Partition PROVE ~HandlerStep(p)
    <3>1. handler[p] # "park" /\ handler[p] # "send" /\ ~CanHandle(p)
      BY <2>1, <2>2 DEF CanHandle
    <3> QED BY <3>1, Zenon DEF HandlerStep, ParkMessage, ArmParked, handleMessage, Dispatch
  <2>4. ASSUME NEW p \in Partition, Publish(p) \/ Commit(p) PROVE handler' = handler
    BY <2>4, Zenon DEF Publish, Commit, service
  <2>5. handler' = handler
    BY <1>3, <2>3, <2>4, StillTopic, ZenonT(40) DEF Next, Quiescent
  <2> QED BY <2>2, <2>5, Zenon
<1>4. TimerStep => stopping' \in {stopping, "released"}
  BY ZenonT(40) DEF TimerStep, TimerFires, TimerSends, TimerDone
<1>5. ASSUME ~TimerStep, ~StopFlag, ~StopWait, ~StopClose, ~StopConsumer, ~Crash PROVE stopping' = stopping
  BY <1>5, ZenonT(40) DEF Next, Publish, Commit, HandlerStep, ParkMessage, ArmParked, handleMessage,
     Dispatch, WorkerStep, Take, GateWait, GateWoken, GateOpened, Exists, ExistsFails, PostSucceeds,
     PostFails, StumpMissing, Record, publishToDLQWithRetry, ArmTimer, Return, Quiescent, vars
<1> QED BY <1>1, <1>2, <1>3, <1>4, <1>5, ZenonT(40)

(* The gate does not panic, and Stop only where it says. *)
LEMMA PanicStep == ASSUME SetCounts, IInv, [Next]_vars PROVE PanicsOnlyInStop'
<1> USE DEF IInv, Base
<1> SUFFICES ASSUME panicked' PROVE stopping' \in {"released", "closed"}
  BY Zenon DEF PanicsOnlyInStop
<1>0. ~Crash
  BY Zenon DEF Crash
<1>1. CASE panicked
  <2>1. stopping' = stopping
    BY <1>0, <1>1, ZenonT(40) DEF Next, Publish, Commit, HandlerStep, ParkMessage, ArmParked, handleMessage, Dispatch,
       CanHandle, WorkerStep, Take, GateWait, GateWoken, GateOpened, Exists, ExistsFails, PostSucceeds,
       PostFails, StumpMissing, Record, publishToDLQWithRetry, ArmTimer, Return, At, TimerStep, TimerFires,
       TimerSends, StopFlag, StopWait, StopClose, StopConsumer, Quiescent, vars
  <2> QED BY <1>1, <2>1, ZenonT(30) DEF PanicsOnlyInStop
<1>2. ASSUME ~panicked, NEW p \in Partition, Dispatch(p) PROVE stopping' \in {"released", "closed"}
  <2>1. Closed /\ stopping' = stopping /\ handler[p] = "send"
    BY <1>2, Zenon DEF Dispatch
  <2>2. stopping # "stopped"
    BY <2>1 DEF StoppedIdle
  <2> QED BY <2>1, <2>2, Zenon DEF Closed
<1>3. ASSUME ~panicked, NEW w \in Worker, GateWoken(w) PROVE FALSE
  <2>1. Busy(w) /\ worker[w].pc = "woken" /\ worker[w].pc \notin Past
    BY <1>3 DEF GateWoken, At, Busy, Past
  <2>2. gate.count[worker[w].group] = 0
    BY <2>1, Zenon DEF Gated, GatedAt, Wakes, Sorted
  <2> QED BY <1>3, <2>2, ZenonT(40) DEF GateWoken
<1>4. ASSUME ~panicked, NEW w \in Worker, Return(w) PROVE FALSE
  <2>1. worker[w].first /\ DonePanics(gate, KeyOf(w))
    BY <1>4, Zenon DEF Return, SignsOff, KeyOf
  <2>2. PICK s \in Id, k \in GateKey : k = KeyOf(w) /\ s \in Pending(k)
    BY <1>4, <2>1, Leaves, Zenon
  <2>3. IsFiniteSet(Pending(k)) /\ (HasGroup(gate, k) => gate.count[gate.at[k]] = Cardinality(Pending(k)))
    BY <1>4, Zenon DEF Counted
  <2>4. Cardinality(Pending(k)) \in Nat /\ Cardinality(Pending(k)) # 0
    BY <2>2, <2>3, CountType, Zenon
  <2>5. gate.count[gate.at[k]] = Cardinality(Pending(k)) /\ gate.count[gate.at[k]] <= 0
    BY <2>1, <2>2, <2>3, Zenon DEF DonePanics
  <2> QED BY <2>4, <2>5
<1>5. ASSUME StopClose PROVE stopping' \in {"released", "closed"}
  BY <1>5, ZenonT(30) DEF StopClose
<1>6. ASSUME ~panicked, ~ \E p \in Partition : Dispatch(p), ~ \E w \in Worker : GateWoken(w) \/ Return(w), ~StopClose
      PROVE  FALSE
  BY <1>0, <1>6, ZenonT(40) DEF Next, Publish, Commit, HandlerStep, ParkMessage, ArmParked, handleMessage,
       WorkerStep, Take, GateWait, GateOpened, Exists, ExistsFails, PostSucceeds,
       PostFails, StumpMissing, Record, publishToDLQWithRetry, ArmTimer, TimerStep, TimerFires,
       TimerSends, StopFlag, StopWait, StopConsumer, Quiescent, vars
<1> QED BY <1>1, <1>2, <1>3, <1>4, <1>5, <1>6, ZenonT(40)

(* Nothing is pending then. *)
LEMMA InitIInv == ASSUME SetCounts, Init PROVE IInv
<1>1. Base
  BY InitBase, Zenon
<1>2. ~panicked /\ \A p \in Partition : handler[p] = "idle"
  BY Zenon DEF Init
<1>3. workCh = <<>> /\ \A w \in Worker : ~Busy(w)
  BY DEF Init, IdleWorker, Busy
<1>4. ASSUME NEW k \in GateKey PROVE Pending(k) = {} /\ ~HasGroup(gate, k)
  <2>1. ASSUME NEW id \in Id PROVE ~Open(id)
    <3>1. id[1] \in Partition /\ Len(workCh) = 0 /\ 1..0 = {}
      BY <1>3, IdFields
    <3>2. ~AtSend(id)
      BY <1>2, <3>1 DEF AtSend
    <3> QED BY <1>3, <3>1, <3>2, ZenonT(40) DEF Open, FirstQueued, FirstHeld
  <2>2. ~HasGroup(gate, k)
    BY NewGate, Zenon DEF Init
  <2> QED BY <2>1, <2>2, Zenon DEF Pending
<1>5. IsFiniteSet({})
  BY EmptyFinite, Zenon
<1>6. Counted
  BY <1>4, <1>5, Zenon DEF Counted
<1>7. Gated /\ StoppedIdle /\ PanicsOnlyInStop
  BY <1>2, <1>3, Zenon DEF Gated, StoppedIdle, PanicsOnlyInStop
<1> QED BY <1>1, <1>6, <1>7, Zenon DEF IInv

(* With blocks that are reported once, the gate's part too. *)
LEMMA IInvStep == ASSUME SetCounts, StumpsFirst, IInv, [Next]_vars PROVE IInv'
<1>1. Base /\ Counted /\ Gated /\ StoppedIdle /\ TypeOK
  BY Zenon DEF IInv, Base
<1>2. Base'
  BY <1>1, BaseStep, Zenon
<1>3. Counted'
  BY <1>1, CountedStep, Zenon
<1>4. Gated'
  BY <1>1, GatedStep, Zenon
<1>5. StoppedIdle'
  BY <1>1, StoppedStep, Zenon
<1>6. PanicsOnlyInStop'
  BY PanicStep, Zenon
<1> QED BY <1>2, <1>3, <1>4, <1>5, <1>6, ZenonT(40) DEF IInv

(* The theorems about finite sets, which are needed here only. *)
FST == INSTANCE FiniteSetTheorems

(* The counts are those of the theorems. *)
LEMMA Counts == SetCounts
<1>1. /\ \A S : Cardinality(S) = FST!Cardinality(S)
      /\ \A S : IsFiniteSet(S) <=> FST!IsFiniteSet(S)
  BY Zenon DEF Cardinality, FST!Cardinality, IsFiniteSet, FST!IsFiniteSet
<1>2. IsFiniteSet({}) /\ Cardinality({}) = 0
  BY <1>1, FST!FS_EmptySet, ZenonT(40)
<1>3. ASSUME NEW S, IsFiniteSet(S)
      PROVE  Cardinality(S) \in Nat /\ (Cardinality(S) = 0 <=> S = {})
  BY <1>1, <1>3, FST!FS_CardinalityType, FST!FS_EmptySet, ZenonT(40)
<1>4. ASSUME NEW S, NEW x, IsFiniteSet(S), x \notin S
      PROVE  IsFiniteSet(S \cup {x}) /\ Cardinality(S \cup {x}) = Cardinality(S) + 1
  BY <1>1, <1>4, FST!FS_AddElement, ZenonT(40)
<1>5. ASSUME NEW S, NEW x, IsFiniteSet(S), x \in S
      PROVE  IsFiniteSet(S \ {x}) /\ Cardinality(S \ {x}) = Cardinality(S) - 1
  BY <1>1, <1>5, FST!FS_RemoveElement, ZenonT(40)
<1> QED BY <1>2, <1>3, <1>4, <1>5, ZenonT(40) DEF SetCounts

(* The invariant for blocks that are reported once. *)
LEMMA IInvAlways == ASSUME StumpsFirst PROVE Spec => []IInv
<1>1. Init => IInv
  BY Counts, InitIInv, ZenonT(40)
<1>2. IInv /\ [Next]_vars => IInv'
  BY Counts, IInvStep, ZenonT(40)
<1> QED BY <1>1, <1>2, PTL DEF Spec

(* The order of the gate follows from the invariant. *)
LEMMA GateOrderHolds == ASSUME IInv PROVE GateOrder
<1> USE DEF IInv, Base
<1> SUFFICES ASSUME NEW w \in Worker, worker[w].pc \in {"exists", "post", "record", "dlq"},
                    Cb(worker[w].item.id).type = "BLOCK_PROCESSED",
                    NEW id \in EarlierStumps(worker[w].item.id)
             PROVE  FirstAttemptOver(id)
  BY Zenon DEF GateOrder
<1>1. Busy(w) /\ worker[w].pc \notin {"gate", "waiting"}
  BY DEF Busy
<1>2. PICK b \in Id : b = worker[w].item.id
  BY <1>1, BusyFields, ZenonT(40)
<1>3. PICK m \in 1..(b[2] - 1) : id = <<b[1], m>> /\ Cb(id).type = "STUMP" /\ gateKey(id) = gateKey(b)
  BY <1>2, ZenonT(40) DEF EarlierStumps
<1>4. b[1] \in Partition /\ b[2] \in 1..Len(Input[b[1]]) /\ Len(Input[b[1]]) \in Nat
  <2>1. b[1] \in Partition /\ b[2] \in 1..Len(Input[b[1]])
    BY IdFields, ZenonT(40)
  <2>2. Input[b[1]] \in Seq(Callback)
    BY <2>1, DeliveryAssumption, ZenonT(40)
  <2> QED BY <2>1, <2>2
<1>5. m \in 1..Len(Input[b[1]]) /\ m < b[2] /\ m \in Nat
  BY <1>3, <1>4
<1>6. id \in Id
  BY <1>3, <1>4, <1>5, IdOf, ZenonT(40)
<1>7. Pending(gateKey(b)) = {}
  BY <1>1, <1>2, ZenonT(40) DEF Gated, GatedAt, KeyOf
<1>8. ~Open(id)
  BY <1>3, <1>6, <1>7, ZenonT(40) DEF Pending
<1>9. ~ \E v \in Worker : worker[v].pc # "idle" /\ worker[v].item.id = id /\ worker[v].first
  BY <1>8, ZenonT(40) DEF Open, FirstHeld, Busy
<1>10. ~ \E n \in Queued(id) : workCh[n].retry = 0
  <2>1. ASSUME NEW n \in Queued(id), workCh[n].retry = 0 PROVE FirstQueued(id)
    <3>1. n \in 1..Len(workCh) /\ workCh[n].id = id
      BY ZenonT(40) DEF Queued
    <3>2. FirstStump(workCh[n])
      BY <1>3, <2>1, <3>1, ZenonT(40) DEF FirstStump
    <3> QED BY <3>1, <3>2, ZenonT(40) DEF FirstQueued
  <2> QED BY <1>8, <2>1, ZenonT(40) DEF Open
<1>11. ~Handling(id[1], id[2])
  <2>1. b[2] < topic[b[1]].next /\ topic[b[1]].next \in Nat
    <3>1. b[2] < topic[b[1]].next
      BY <1>1, <1>2, ZenonT(40) DEF Passed, Held, Behind
    <3>2. topic[b[1]].next \in Nat
      BY <1>4, ZenonT(40) DEF TypeOK, PartitionOfType
    <3> QED BY <3>1, <3>2, ZenonT(40)
  <2>2. id[1] = b[1] /\ id[2] = m
    BY <1>3, ZenonT(40)
  <2>3. topic[b[1]].next # m
    BY <1>4, <1>5, <2>1
  <2> QED BY <2>2, <2>3, ZenonT(40) DEF Handling
<1> QED BY <1>9, <1>10, <1>11, ZenonT(40) DEF FirstAttemptOver

(***************************************************************************)
(* stumpGate keeps its promise for every block that is reported once: no   *)
(* worker checks, posts or dead-letters BLOCK_PROCESSED before the first   *)
(* attempt of every earlier STUMP of its block and URL has returned, with  *)
(* any number of workers, whatever fails and wherever the process crashes. *)
(***************************************************************************)
THEOREM GateKeepsOrder == ASSUME StumpsFirst PROVE Spec => []GateOrder
<1>1. IInv => GateOrder
  BY GateOrderHolds, ZenonT(40)
<1> QED BY <1>1, IInvAlways, PTL

(***************************************************************************)
(* The wait groups of stumpGate are never driven below zero nor used again *)
(* under a Wait that is about to return: with blocks that are reported     *)
(* once, the process panics in Stop and at a send on the closed channel    *)
(* only.                                                                   *)
(***************************************************************************)
THEOREM GateNeverPanics == ASSUME StumpsFirst PROVE Spec => []PanicsOnlyInStop
<1>1. IInv => PanicsOnlyInStop
  BY ZenonT(40) DEF IInv
<1> QED BY <1>1, IInvAlways, PTL

(* Nobody calls Stop. *)
Unstopped == stopping = "no"

(* A service that is not stopped does not panic. *)
THEOREM NoPanicUnlessStopped == ASSUME StumpsFirst, ~Stoppable PROVE Spec => []NoPanic
<1>1. Init => Unstopped
  BY ZenonT(40) DEF Init, Unstopped
<1>2. ASSUME Unstopped, [Next]_vars PROVE Unstopped'
  <2>1. stopping # "flagged" /\ stopping # "released" /\ stopping # "closed" /\ stopping # "waiting"
    BY <1>2, ZenonT(40) DEF Unstopped
  <2>2. ~StopFlag /\ ~StopWait /\ ~StopClose /\ ~StopConsumer
    BY <2>1, ZenonT(40) DEF StopFlag, StopWait, StopClose, StopConsumer
  <2>3. TimerStep => stopping' = stopping
    BY <2>1, ZenonT(40) DEF TimerStep, TimerFires, TimerSends, TimerDone
  <2>4. Crash => stopping' = "no"
    BY ZenonT(30) DEF Crash
  <2>5. ASSUME ~TimerStep, ~Crash PROVE stopping' = stopping
    BY <1>2, <2>2, <2>5, ZenonT(40) DEF Next, Publish, Commit, HandlerStep, ParkMessage, ArmParked, handleMessage,
       Dispatch, WorkerStep, Take, GateWait, GateWoken, GateOpened, Exists, ExistsFails, PostSucceeds,
       PostFails, StumpMissing, Record, publishToDLQWithRetry, ArmTimer, Return, Quiescent, vars
  <2> QED BY <1>2, <2>3, <2>4, <2>5, ZenonT(40) DEF Unstopped
<1>3. IInv /\ Unstopped => NoPanic
  <2>1. Unstopped => stopping \notin {"released", "closed"}
    BY ZenonT(40) DEF Unstopped
  <2> QED BY <2>1, ZenonT(40) DEF IInv, PanicsOnlyInStop, NoPanic
<1> QED BY <1>1, <1>2, <1>3, IInvAlways, PTL DEF Spec
=============================================================================
