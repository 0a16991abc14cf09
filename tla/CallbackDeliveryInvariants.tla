-------------------- MODULE CallbackDeliveryInvariants ----------------------
(***************************************************************************)
(* What the delivery service keeps for every input, and with any number of *)
(* partitions, workers, messages, retries, faults and crashes: where its   *)
(* messages are, and what Stop and the dedup store cannot upset.  The      *)
(* invariant is Base, and on top of it Places until the first crash; the   *)
(* order of the gate is in CallbackDeliveryProofs.                         *)
(***************************************************************************)
EXTENDS CallbackDelivery, TLAPS

(* The partition operators keep the type, and a fetched message has it. *)
LEMMA PartitionTypes ==
    ASSUME NEW M, NEW part \in PartitionOfType(M)
    PROVE  /\ \A m \in M : Published(part, m) \in PartitionOfType(M)
           /\ Marked(part) \in PartitionOfType(M)
           /\ Skipped(part) \in PartitionOfType(M)
           /\ Committed(part) \in PartitionOfType(M)
           /\ Rejoined(part) \in PartitionOfType(M)
           /\ HasMessage(part) => Message(part) \in M
<1> USE DEF PartitionOfType
<1>1. \A m \in M : Published(part, m) \in PartitionOfType(M)
  BY SMTT(30) DEF Published
<1>2. Marked(part) \in PartitionOfType(M)
  <2>1. part.next + 1 \in Nat \ {0}
    OBVIOUS
  <2> QED BY <2>1, Zenon DEF Marked
<1>3. Skipped(part) \in PartitionOfType(M)
  BY DEF Skipped
<1>4. Committed(part) \in PartitionOfType(M)
  BY DEF Committed
<1>5. Rejoined(part) \in PartitionOfType(M)
  <2>1. Len(part.log) + 1 \in Nat \ {0}
    OBVIOUS
  <2>2. part.committed # 0 => part.committed \in Nat \ {0}
    OBVIOUS
  <2> QED BY <2>1, <2>2, Zenon DEF Rejoined, NoOffset
<1>6. HasMessage(part) => Message(part) \in M
  BY DEF HasMessage, Message
<1> QED BY <1>1, <1>2, <1>3, <1>4, <1>5, <1>6

(* Only a publish changes the log of a partition. *)
LEMMA PartitionLogs ==
    ASSUME NEW M, NEW part \in PartitionOfType(M)
    PROVE  /\ part.log \in Seq(M)
           /\ \A m : Published(part, m).log = Append(part.log, m)
           /\ Marked(part).log = part.log
           /\ Skipped(part).log = part.log
           /\ Committed(part).log = part.log
           /\ Rejoined(part).log = part.log
BY DEF PartitionOfType, Published, Marked, Skipped, Committed, Rejoined

(* A session moves forward by one message. *)
LEMMA PartitionOffsets ==
    ASSUME NEW M, NEW part \in PartitionOfType(M)
    PROVE  /\ part.next \in Nat \ {0}
           /\ \A m : Published(part, m).next = part.next
           /\ Marked(part).next = part.next + 1
           /\ Skipped(part).next = part.next + 1
           /\ Committed(part).next = part.next
BY DEF PartitionOfType, Published, Marked, Skipped, Committed

(* The places of a worker that has an item. *)
BusyPc == {"gate", "waiting", "woken", "ungate", "exists", "post", "record", "dlq", "park",
           "done"}

(* The places of processDelivery behind the gate. *)
Past == {"exists", "post", "record", "dlq", "park", "done"}

Busy(w) == worker[w].pc # "idle"

(* A partition holds what upstream has published so far, and a handler that is
   at work has a message. *)
Follows(part, input, at) ==
    /\ Len(part.log) <= Len(input)
    /\ \A n \in 1..Len(part.log) : part.log[n] = input[n]
    /\ at # "idle" => HasMessage(part)

Prefix == \A p \in Partition : Follows(topic[p], Input[p], handler[p])

(* A message that the service has taken over from the handler. *)
Held(id) ==
    \/ \E n \in 1..Len(workCh) : workCh[n].id = id
    \/ \E w \in Worker : Busy(w) /\ worker[w].item.id = id
    \/ \E x \in Timers : x.id = id

Behind(id) == id[2] < topic[id[1]].next

(* What the service holds stands before the message the handler is at. *)
Passed == \A id \in Id : Held(id) => Behind(id)

(* Retries are no first attempts. *)
Retried ==
    /\ \A x \in Timers : x.retry > 0
    /\ \A w \in Worker : worker[w].pc = "park" => worker[w].item.retry > 0
    /\ \A p \in Partition : handler[p] = "park" => Cb(<<p, topic[p].next>>).retry > 0

(* A worker has decided by the type of its item whether to sign off and whether
   to wait. *)
Sorted ==
    \A w \in Worker : Busy(w) =>
        /\ worker[w].first => Cb(worker[w].item.id).type = "STUMP"
        /\ worker[w].pc \notin Past => Cb(worker[w].item.id).type = "BLOCK_PROCESSED"

(* A first attempt is in one place. *)
FirstOnce ==
    /\ \A m, n \in 1..Len(workCh) :
           FirstStump(workCh[m]) /\ workCh[m].id = workCh[n].id /\ FirstStump(workCh[n]) => m = n
    /\ \A v, w \in Worker :
           /\ Busy(v) /\ Busy(w) /\ worker[v].first /\ worker[w].first
           /\ worker[v].item.id = worker[w].item.id
           => v = w
    /\ \A n \in 1..Len(workCh), w \in Worker :
           FirstStump(workCh[n]) /\ Busy(w) /\ worker[w].first
           => workCh[n].id # worker[w].item.id

(* Every key has a wait group of its own, one that was made. *)
GroupsOf(g) ==
    /\ \A k \in GateKey : g.at[k] \in 0..Len(g.count)
    /\ \A j, k \in GateKey : HasGroup(g, k) /\ g.at[j] = g.at[k] => j = k

(* The key a worker waits at. *)
KeyOf(w) == gateKey(worker[w].item.id)

(* What the dedup store holds was received, and so was what a worker records. *)
Recorders ==
    /\ \A k \in dedup : \E j \in received : dedupKeyForMessage(j) = k
    /\ \A w \in Worker : worker[w].pc = "record" => worker[w].item.id \in received

(* The invariant for every input: where messages are and what is recorded. *)
Base ==
    /\ TypeOK /\ Prefix /\ Passed /\ Retried /\ Sorted /\ FirstOnce /\ GroupsOf(gate)
    /\ NoTimerSendsOnClosed /\ Recorders /\ SkippedIsDelivered

(* stumpGate.Add to a wait group that exists. *)
LEMMA AddToGroup ==
    ASSUME NEW g \in GateOfType(GateKey), NEW k \in GateKey, HasGroup(g, k), g.at[k] \in 0..Len(g.count)
    PROVE  /\ GateAdd(g, k) \in GateOfType(GateKey)
           /\ GateAdd(g, k).at = g.at
           /\ Len(GateAdd(g, k).count) = Len(g.count)
           /\ \A i \in 1..Len(g.count) :
                  GateAdd(g, k).count[i] = IF i = g.at[k] THEN g.count[i] + 1 ELSE g.count[i]
<1> DEFINE i == g.at[k]
<1>1. i \in 1..Len(g.count) /\ g.count \in Seq(Int)
  BY DEF GateOfType, HasGroup, NoGroup
<1>2. GateAdd(g, k) = [at |-> g.at, count |-> [g.count EXCEPT ![i] = @ + 1]]
  BY <1>1, Zenon DEF GateAdd, GateOfType
<1>3. [g.count EXCEPT ![i] = @ + 1] \in Seq(Int) /\ Len([g.count EXCEPT ![i] = @ + 1]) = Len(g.count)
  BY <1>1
<1> QED BY <1>1, <1>2, <1>3 DEF GateOfType

(* stumpGate.Add that makes a wait group. *)
LEMMA AddsGroup ==
    ASSUME NEW g \in GateOfType(GateKey), NEW k \in GateKey, ~HasGroup(g, k)
    PROVE  /\ GateAdd(g, k) \in GateOfType(GateKey)
           /\ \A j \in GateKey : GateAdd(g, k).at[j] = IF j = k THEN Len(g.count) + 1 ELSE g.at[j]
           /\ Len(GateAdd(g, k).count) = Len(g.count) + 1
           /\ \A i \in 1..Len(g.count) : GateAdd(g, k).count[i] = g.count[i]
           /\ GateAdd(g, k).count[Len(g.count) + 1] = 1
<1>1. GateAdd(g, k) = [at |-> [g.at EXCEPT ![k] = Len(g.count) + 1], count |-> Append(g.count, 1)]
  BY Zenon DEF GateAdd, GateOfType
<1>2. g.count \in Seq(Int) /\ g.at \in [GateKey -> Nat]
  BY DEF GateOfType
<1>3. Append(g.count, 1) \in Seq(Int) /\ Len(g.count) + 1 \in Nat
  BY <1>2
<1> QED BY <1>1, <1>2, <1>3 DEF GateOfType

(* stumpGate.Done on a wait group that exists. *)
LEMMA DoneInGroup ==
    ASSUME NEW g \in GateOfType(GateKey), NEW k \in GateKey, HasGroup(g, k), g.at[k] \in 0..Len(g.count)
    PROVE  /\ GateDone(g, k) \in GateOfType(GateKey)
           /\ GateDone(g, k).at = g.at
           /\ Len(GateDone(g, k).count) = Len(g.count)
           /\ \A i \in 1..Len(g.count) :
                  GateDone(g, k).count[i] = IF i = g.at[k] THEN g.count[i] - 1 ELSE g.count[i]
<1> DEFINE i == g.at[k]
<1>1. i \in 1..Len(g.count) /\ g.count \in Seq(Int)
  BY DEF GateOfType, HasGroup, NoGroup
<1>2. GateDone(g, k) = [at |-> g.at, count |-> [g.count EXCEPT ![i] = @ - 1]]
  BY <1>1, Zenon DEF GateDone, GateOfType
<1>3. [g.count EXCEPT ![i] = @ - 1] \in Seq(Int) /\ Len([g.count EXCEPT ![i] = @ - 1]) = Len(g.count)
  BY <1>1, SMTT(30)
<1> QED BY <1>1, <1>2, <1>3 DEF GateOfType

(* The end of stumpGate.Wait. *)
LEMMA DeletesGroup ==
    ASSUME NEW g \in GateOfType(GateKey), NEW k \in GateKey
    PROVE  /\ GateDelete(g, k) \in GateOfType(GateKey)
           /\ \A j \in GateKey : GateDelete(g, k).at[j] = IF j = k THEN NoGroup ELSE g.at[j]
           /\ GateDelete(g, k).count = g.count
<1>1. GateDelete(g, k) = [at |-> [g.at EXCEPT ![k] = NoGroup], count |-> g.count]
  BY Zenon DEF GateDelete
<1>2. g.count \in Seq(Int) /\ g.at \in [GateKey -> Nat] /\ NoGroup \in Nat
  BY DEF GateOfType, NoGroup
<1> QED BY <1>1, <1>2 DEF GateOfType

(* A message of the topic has a partition, an offset and what upstream sent. *)
LEMMA IdFields ==
    ASSUME NEW id \in Id
    PROVE  /\ id[1] \in Partition /\ id[2] \in DOMAIN Input[id[1]] /\ id = <<id[1], id[2]>>
           /\ id[2] \in 1..Len(Input[id[1]])
           /\ Cb(id) \in Callback
           /\ gateKey(id) \in GateKey
           /\ dedupKeyForMessage(id) \in DedupKey
<1>1. PICK p \in Partition : id \in {p} \X DOMAIN Input[p]
  BY DEF Id
<1>2. id[1] = p /\ id[2] \in DOMAIN Input[p] /\ id = <<id[1], id[2]>>
  BY <1>1
<1>3. Input[p] \in Seq(Callback)
  BY DeliveryAssumption, Zenon
<1>4. Cb(id) \in Callback /\ id[2] \in 1..Len(Input[p])
  BY <1>2, <1>3 DEF Cb
<1>5. gateKey(id) \in GateKey /\ dedupKeyForMessage(id) \in DedupKey
  BY <1>4 DEF Callback, gateKey, GateKey, dedupKeyForMessage, DedupKey
<1> QED BY <1>2, <1>4, <1>5, Zenon

(* An offset that upstream has used is a message. *)
LEMMA IdOf == ASSUME NEW p \in Partition, NEW n \in 1..Len(Input[p]) PROVE <<p, n>> \in Id
<1>1. Input[p] \in Seq(Callback)
  BY DeliveryAssumption, Zenon
<1>2. n \in DOMAIN Input[p]
  BY <1>1
<1> QED BY <1>2 DEF Id

(* A worker that is not idle has an item. *)
LEMMA BusyFields ==
    ASSUME TypeOK, NEW w \in Worker, Busy(w)
    PROVE  /\ worker[w] \in BusyWorker
           /\ worker[w].pc \in BusyPc
           /\ worker[w].item \in Item /\ worker[w].item.id \in Id /\ worker[w].item.retry \in Nat
           /\ worker[w].item = [id |-> worker[w].item.id, retry |-> worker[w].item.retry]
           /\ worker[w].first \in BOOLEAN
           /\ worker[w].group \in Nat
           /\ KeyOf(w) \in GateKey
<1>1. worker[w] \in {IdleWorker} \cup BusyWorker
  BY Zenon DEF TypeOK
<1>2. IdleWorker.pc = "idle"
  BY DEF IdleWorker
<1>3. worker[w] \in BusyWorker
  BY <1>1, <1>2, Zenon DEF Busy
<1>4. /\ worker[w].pc \in BusyPc /\ worker[w].item \in Item
      /\ worker[w].first \in BOOLEAN /\ worker[w].group \in Nat
  BY <1>3, Zenon DEF BusyWorker, BusyPc
<1>5. /\ worker[w].item.id \in Id /\ worker[w].item.retry \in Nat
      /\ worker[w].item = [id |-> worker[w].item.id, retry |-> worker[w].item.retry]
  BY <1>4 DEF Item
<1> QED BY <1>3, <1>4, <1>5, IdFields, Zenon DEF KeyOf

(* The message a handler is at. *)
LEMMA FetchedFields ==
    ASSUME TypeOK, Prefix, NEW p \in Partition, HasMessage(topic[p])
    PROVE  /\ Fetched(p) \in Item
           /\ Fetched(p).id = <<p, topic[p].next>> /\ Fetched(p).id \in Id
           /\ Fetched(p).retry = Cb(Fetched(p).id).retry /\ Fetched(p).retry \in Nat
           /\ topic[p].next \in Nat \ {0}
<1>1. topic[p] \in PartitionOfType(Callback)
  BY Zenon DEF TypeOK
<1>2. topic[p].log \in Seq(Callback) /\ topic[p].next \in Nat \ {0}
  BY <1>1, Zenon DEF PartitionOfType
<1>3. Input[p] \in Seq(Callback)
  BY DeliveryAssumption, Zenon
<1> DEFINE n == topic[p].next
<1>4. n \in 1..Len(topic[p].log) /\ n \in 1..Len(Input[p])
  BY <1>2, <1>3 DEF Prefix, Follows, HasMessage
<1>5. Message(topic[p]) = Input[p][n]
  BY <1>4, Zenon DEF Prefix, Follows, Message
<1>6. <<p, n>> \in Id
  BY <1>4, IdOf, Zenon
<1>7. Cb(<<p, n>>) = Input[p][n]
  BY DEF Cb
<1>8. Cb(<<p, n>>) \in Callback
  BY <1>6, IdFields, Zenon
<1>9. Cb(<<p, n>>).retry \in Nat
  BY <1>8, Zenon DEF Callback
<1>10. Fetched(p) = [id |-> <<p, n>>, retry |-> Cb(<<p, n>>).retry]
  BY <1>5, <1>7, Zenon DEF Fetched
<1> HIDE DEF n
<1>11. [id |-> <<p, n>>, retry |-> Cb(<<p, n>>).retry] \in Item
  BY <1>6, <1>9, Zenon DEF Item
<1> QED BY <1>2, <1>6, <1>9, <1>10, <1>11 DEF n

(* Worker w has gone on, and no other worker. *)
Gone(w, l, r, g) ==
    /\ \A v \in Worker : v # w => worker'[v] = worker[v]
    /\ worker'[w].pc = l /\ worker'[w].group = g
    /\ worker'[w].item.id = worker[w].item.id /\ worker'[w].item.retry = r
    /\ worker'[w].first = worker[w].first

(* Only worker w changes when w goes on. *)
LEMMA GoesOn ==
    ASSUME TypeOK, NEW w \in Worker, Busy(w), NEW l \in BusyPc, NEW r \in Nat, NEW g \in Nat,
           Goes(w, l, r, g)
    PROVE  worker' \in [Worker -> {IdleWorker} \cup BusyWorker] /\ Gone(w, l, r, g)
<1> DEFINE h == [pc |-> l, item |-> [id |-> worker[w].item.id, retry |-> r],
                 first |-> worker[w].first, group |-> g]
<1>1. worker' = [worker EXCEPT ![w] = h] /\ worker \in [Worker -> {IdleWorker} \cup BusyWorker]
  BY Zenon DEF Goes, TypeOK
<1>2. [id |-> worker[w].item.id, retry |-> r] \in Item
  BY BusyFields, Zenon DEF Item
<1>3. h \in BusyWorker
  BY <1>2, BusyFields, Zenon DEF BusyWorker, BusyPc
<1>4. /\ h.pc = l /\ h.group = g /\ h.item.id = worker[w].item.id /\ h.item.retry = r
      /\ h.first = worker[w].first
  OBVIOUS
<1> HIDE DEF h
<1> QED BY <1>1, <1>3, <1>4, Zenon DEF Gone

(* The head of the work channel, and what it leaves behind. *)
LEMMA QueueFields ==
    ASSUME TypeOK
    PROVE  /\ \A n \in 1..Len(workCh) : workCh[n] \in Item /\ workCh[n].id \in Id /\ workCh[n].retry \in Nat
           /\ Len(workCh) \in Nat
           /\ workCh # <<>> =>
                  /\ Head(workCh) \in Item /\ Tail(workCh) \in Seq(Item)
                  /\ Head(workCh) = workCh[1] /\ 1 \in 1..Len(workCh)
                  /\ Len(Tail(workCh)) = Len(workCh) - 1
                  /\ \A n \in 1..(Len(workCh) - 1) : Tail(workCh)[n] = workCh[n + 1]
           /\ \A x \in Item :
                  /\ Append(workCh, x) \in Seq(Item)
                  /\ Len(Append(workCh, x)) = Len(workCh) + 1
                  /\ Append(workCh, x)[Len(workCh) + 1] = x
                  /\ \A n \in 1..Len(workCh) : Append(workCh, x)[n] = workCh[n]
<1>1. workCh \in Seq(Item)
  BY Zenon DEF TypeOK
<1>2. \A x \in Item : x.id \in Id /\ x.retry \in Nat
  BY DEF Item
<1>3. \A n \in 1..Len(workCh) : workCh[n] \in Item
  BY <1>1
<1> HIDE DEF Item
<1>4. workCh # <<>> =>
          /\ Head(workCh) \in Item /\ Tail(workCh) \in Seq(Item)
          /\ Head(workCh) = workCh[1] /\ 1 \in 1..Len(workCh)
          /\ Len(Tail(workCh)) = Len(workCh) - 1
          /\ \A n \in 1..(Len(workCh) - 1) : Tail(workCh)[n] = workCh[n + 1]
  BY <1>1
<1>5. \A x \in Item :
          /\ Append(workCh, x) \in Seq(Item)
          /\ Len(Append(workCh, x)) = Len(workCh) + 1
          /\ Append(workCh, x)[Len(workCh) + 1] = x
          /\ \A n \in 1..Len(workCh) : Append(workCh, x)[n] = workCh[n]
  BY <1>1
<1>6. Len(workCh) \in Nat
  BY <1>1
<1> QED BY <1>2, <1>3, <1>4, <1>5, <1>6, Zenon

(* A worker takes the head of the channel. *)
LEMMA Takes ==
    ASSUME TypeOK, NEW w \in Worker, Take(w)
    PROVE  /\ worker' \in [Worker -> {IdleWorker} \cup BusyWorker]
           /\ \A v \in Worker : v # w => worker'[v] = worker[v]
           /\ worker'[w].pc = GateEntry(workCh[1]) /\ worker'[w].pc \in {"gate", "exists"}
           /\ worker'[w].item = workCh[1] /\ worker'[w].group = NoGroup
           /\ worker'[w].first = FirstStump(workCh[1])
           /\ 1 \in 1..Len(workCh)
<1> DEFINE x == workCh[1]
           h == [pc |-> GateEntry(x), item |-> x, first |-> FirstStump(x), group |-> NoGroup]
<1>1. workCh # <<>> /\ Head(workCh) = x /\ x \in Item /\ 1 \in 1..Len(workCh)
  BY QueueFields, Zenon DEF Take
<1>2. worker' = [worker EXCEPT ![w] = h] /\ worker \in [Worker -> {IdleWorker} \cup BusyWorker]
  BY <1>1, Zenon DEF Take, TypeOK
<1>3. GateEntry(x) \in {"gate", "exists"} /\ FirstStump(x) \in BOOLEAN /\ NoGroup \in Nat
  BY DEF GateEntry, FirstStump, NoGroup
<1> HIDE DEF x
<1>4. h \in BusyWorker
  BY <1>1, <1>3, Zenon DEF BusyWorker
<1>5. h.pc = GateEntry(x) /\ h.item = x /\ h.group = NoGroup /\ h.first = FirstStump(x)
  BY Zenon
<1> HIDE DEF h
<1> QED BY <1>1, <1>2, <1>3, <1>4, <1>5, Zenon DEF x

(* Where stumpGate.Wait goes is a place of a worker. *)
LEMMA WaitsAtPlace == \A k : WaitsAt(k) \in {"exists", "ungate", "waiting"}
BY DEF WaitsAt

(* The worker that returns is idle; sleepers of the wait group it empties wake up. *)
LEMMA Returns ==
    ASSUME TypeOK, NEW w \in Worker, Return(w)
    PROVE  /\ worker' \in [Worker -> {IdleWorker} \cup BusyWorker]
           /\ worker'[w].pc = "idle"
           /\ \A v \in Worker : v # w =>
                  IF /\ SignsOff(w) /\ Released(gate, KeyOf(w)) # NoGroup
                     /\ worker[v].pc = "waiting" /\ worker[v].group = Released(gate, KeyOf(w))
                  THEN /\ worker'[v].pc = "woken" /\ worker'[v].item = worker[v].item
                       /\ worker'[v].first = worker[v].first /\ worker'[v].group = worker[v].group
                  ELSE worker'[v] = worker[v]
<1> DEFINE wakes(v) == /\ SignsOff(w) /\ Released(gate, KeyOf(w)) # NoGroup
                       /\ worker[v].pc = "waiting" /\ worker[v].group = Released(gate, KeyOf(w))
<1>1. worker' = [v \in Worker |-> IF v = w THEN IdleWorker
                                  ELSE IF wakes(v) THEN Woken(worker[v]) ELSE worker[v]]
  BY Zenon DEF Return, KeyOf
<1>2. ASSUME NEW v \in Worker, wakes(v)
      PROVE  /\ Woken(worker[v]) \in BusyWorker
             /\ Woken(worker[v]).pc = "woken" /\ Woken(worker[v]).item = worker[v].item
             /\ Woken(worker[v]).first = worker[v].first /\ Woken(worker[v]).group = worker[v].group
  <2>1. Busy(v)
    BY <1>2 DEF Busy
  <2>2. worker[v].item \in Item /\ worker[v].first \in BOOLEAN /\ worker[v].group \in Nat
    BY <2>1, BusyFields, Zenon
  <2>3. "woken" \in BusyPc
    BY DEF BusyPc
  <2> QED BY <2>2, <2>3, Zenon DEF Woken, BusyWorker, BusyPc
<1>3. \A v \in Worker : worker[v] \in {IdleWorker} \cup BusyWorker
  BY Zenon DEF TypeOK
<1>4. IdleWorker.pc = "idle"
  BY DEF IdleWorker
<1> HIDE DEF wakes
<1>5. \A v \in Worker : worker'[v] = IF v = w THEN IdleWorker
                                     ELSE IF wakes(v) THEN Woken(worker[v]) ELSE worker[v]
  BY <1>1, Zenon
<1>6. worker' \in [Worker -> {IdleWorker} \cup BusyWorker]
  BY <1>1, <1>2, <1>3, Zenon
<1>7. worker'[w].pc = "idle"
  BY <1>4, <1>5, Zenon
<1>8. ASSUME NEW v \in Worker, v # w
      PROVE  IF wakes(v)
             THEN /\ worker'[v].pc = "woken" /\ worker'[v].item = worker[v].item
                  /\ worker'[v].first = worker[v].first /\ worker'[v].group = worker[v].group
             ELSE worker'[v] = worker[v]
  BY <1>2, <1>5, <1>8, Zenon
<1> QED BY <1>6, <1>7, <1>8, Zenon DEF wakes

(* The steps of processDelivery behind the gate. *)
WorkStep(w) ==
    \/ Exists(w) \/ ExistsFails(w) \/ PostSucceeds(w) \/ PostFails(w) \/ StumpMissing(w)
    \/ Record(w) \/ publishToDLQWithRetry(w) \/ ArmTimer(w)

(* They change the place of their worker and its retry count. *)
LEMMA Moves ==
    ASSUME TypeOK, NEW w \in Worker, WorkStep(w)
    PROVE  /\ Busy(w) /\ worker[w].pc \in Past
           /\ \E l \in Past : \E r \in Nat :
                  /\ Goes(w, l, r, worker[w].group)
                  /\ l = "park" => r > 0
                  /\ l = "record" => received' = received \cup {worker[w].item.id}
           /\ received \subseteq received'
           /\ \/ parked' = parked
              \/ worker[w].pc = "park" /\ parked' = parked \cup {worker[w].item}
           /\ UNCHANGED <<topic, handler, gate, workCh, firing, stopping, panicked, crashes>>
<1>1. Busy(w) /\ worker[w].pc \in Past
  BY ZenonT(40) DEF WorkStep, Exists, ExistsFails, PostSucceeds, PostFails, StumpMissing, Record,
             publishToDLQWithRetry, ArmTimer, At, Busy, Past
<1>0. worker[w].item.retry \in Nat
  BY <1>1, BusyFields, Zenon
<1>2. worker[w].item.retry \in Nat /\ worker[w].item.retry + 1 \in Nat /\ worker[w].item.retry + 1 > 0
  BY <1>0
<1> DEFINE goes == \E m \in Past : \E r \in Nat :
                       /\ Goes(w, m, r, worker[w].group)
                       /\ m = "park" => r > 0
                       /\ m = "record" => received' = received \cup {worker[w].item.id}
<1>3. \A l \in {"post", "dlq", "done"} : Goto(w, l) => goes
  BY <1>2 DEF Goto, Past
<1>4. scheduleRetryAfterFailure(w) => goes
  BY <1>2, <1>3 DEF scheduleRetryAfterFailure, Settled, Past
<1>5. PostSucceeds(w) => goes
  BY <1>2 DEF PostSucceeds, Goto, Past
<1>6. /\ received \subseteq received'
      /\ \/ parked' = parked
         \/ worker[w].pc = "park" /\ parked' = parked \cup {worker[w].item}
      /\ UNCHANGED <<topic, handler, gate, workCh, firing, stopping, panicked, crashes>>
  BY Zenon DEF WorkStep, Exists, ExistsFails, PostSucceeds, PostFails, StumpMissing, Record,
               publishToDLQWithRetry, ArmTimer, At, history
<1>7. \/ scheduleRetryAfterFailure(w) \/ PostSucceeds(w)
      \/ Goto(w, "post") \/ Goto(w, "dlq") \/ Goto(w, "done")
  BY Zenon DEF WorkStep, Exists, ExistsFails, PostFails, StumpMissing, Record,
               publishToDLQWithRetry, ArmTimer, Settled
<1>8. goes
  <2> HIDE DEF goes
  <2> QED BY <1>3, <1>4, <1>5, <1>7, ZenonT(40)
<1> QED BY <1>1, <1>6, <1>8, ZenonT(40)

(* The steps of stumpGate.Wait. *)
LEMMA GateMoves ==
    ASSUME TypeOK, NEW w \in Worker, GateWait(w) \/ GateWoken(w) \/ GateOpened(w)
    PROVE  /\ Busy(w) /\ worker[w].pc \in {"gate", "woken", "ungate"} /\ ~panicked
           /\ worker'[w].pc \in {"exists", "ungate", "waiting"}
           /\ worker'[w].item.id = worker[w].item.id /\ worker'[w].first = worker[w].first
           /\ worker'[w].item.retry = worker[w].item.retry
           /\ \A v \in Worker : v # w => worker'[v] = worker[v]
           /\ GateWait(w) => /\ worker'[w].pc = WaitsAt(KeyOf(w)) /\ worker'[w].group = gate.at[KeyOf(w)]
                             /\ gate' = gate /\ panicked' = panicked
           /\ GateWoken(w) => /\ worker'[w].pc = "ungate" /\ gate' = gate
                              /\ panicked' = (gate.count[worker[w].group] # 0)
           /\ GateOpened(w) => /\ worker'[w].pc = "exists" /\ gate' = GateDelete(gate, KeyOf(w))
                               /\ panicked' = panicked
           /\ UNCHANGED <<topic, handler, workCh, parked, firing, dedup, fate, received, stopping>>
<1>1. Busy(w) /\ worker[w].pc \in {"gate", "woken", "ungate"} /\ ~panicked
  BY DEF GateWait, GateWoken, GateOpened, At, Busy
<1>2. KeyOf(w) \in GateKey /\ worker[w].item.retry \in Nat /\ worker[w].group \in Nat
  BY <1>1, BusyFields, Zenon
<1>3. gate.at[KeyOf(w)] \in Nat
  BY <1>2, Zenon DEF TypeOK, GateOfType
<1>4. WaitsAt(KeyOf(w)) \in {"exists", "ungate", "waiting"} /\ {"exists", "ungate", "waiting"} \subseteq BusyPc
  BY WaitsAtPlace, Zenon DEF BusyPc
<1>5. UNCHANGED <<topic, handler, workCh, parked, firing, dedup, fate, received, stopping>>
  BY Zenon DEF GateWait, GateWoken, GateOpened, history
<1>6. CASE GateWait(w)
  <2>1. ~GateWoken(w) /\ ~GateOpened(w)
    BY <1>6 DEF GateWait, GateWoken, GateOpened, At
  <2>2. gate' = gate /\ panicked' = panicked
    BY <1>6, Zenon DEF GateWait
  <2>3. Gone(w, WaitsAt(KeyOf(w)), worker[w].item.retry, gate.at[KeyOf(w)])
    BY <1>1, <1>2, <1>3, <1>4, <1>6, GoesOn, Zenon DEF GateWait, KeyOf
  <2> QED BY <1>1, <1>4, <1>5, <1>6, <2>1, <2>2, <2>3, Zenon DEF Gone
<1>7. CASE GateWoken(w)
  <2>1. ~GateWait(w) /\ ~GateOpened(w)
    BY <1>7 DEF GateWait, GateWoken, GateOpened, At
  <2>2. gate' = gate /\ panicked' = (gate.count[worker[w].group] # 0)
    BY <1>7, Zenon DEF GateWoken
  <2>3. Gone(w, "ungate", worker[w].item.retry, worker[w].group)
    BY <1>1, <1>2, <1>4, <1>7, GoesOn, Zenon DEF GateWoken, Goto
  <2> QED BY <1>1, <1>5, <1>7, <2>1, <2>2, <2>3, Zenon DEF Gone
<1>8. CASE GateOpened(w)
  <2>1. ~GateWait(w) /\ ~GateWoken(w)
    BY <1>8 DEF GateWait, GateWoken, GateOpened, At
  <2>2. gate' = GateDelete(gate, KeyOf(w)) /\ panicked' = panicked
    BY <1>8, Zenon DEF GateOpened, KeyOf
  <2>3. Gone(w, "exists", worker[w].item.retry, worker[w].group)
    BY <1>1, <1>2, <1>4, <1>8, GoesOn, Zenon DEF GateOpened, Goto
  <2> QED BY <1>1, <1>5, <1>8, <2>1, <2>2, <2>3, Zenon DEF Gone
<1> QED BY <1>6, <1>7, <1>8, ZenonT(40)

(* The worker of a step behind the gate. *)
LEMMA WorkMoves ==
    ASSUME TypeOK, NEW w \in Worker, WorkStep(w)
    PROVE  /\ Busy(w) /\ worker[w].pc \in Past
           /\ worker'[w].pc \in Past
           /\ worker'[w].item.id = worker[w].item.id /\ worker'[w].first = worker[w].first
           /\ worker'[w].pc = "park" => worker'[w].item.retry > 0
           /\ worker'[w].pc = "record" => worker[w].item.id \in received'
           /\ \A v \in Worker : v # w => worker'[v] = worker[v]
           /\ UNCHANGED <<topic, handler, gate, workCh, firing, stopping, panicked>>
<1>1. Busy(w) /\ worker[w].pc \in Past /\ Past \subseteq BusyPc
  BY Moves, Zenon DEF Past, BusyPc
<1>2. PICK l \in Past, r \in Nat :
          /\ Goes(w, l, r, worker[w].group)
          /\ l = "park" => r > 0
          /\ l = "record" => received' = received \cup {worker[w].item.id}
  BY Moves, Zenon
<1>3. worker[w].group \in Nat /\ l \in BusyPc
  BY <1>1, BusyFields, Zenon
<1>4. Gone(w, l, r, worker[w].group)
  BY <1>1, <1>2, <1>3, GoesOn, Zenon
<1>5. UNCHANGED <<topic, handler, gate, workCh, firing, stopping, panicked>>
  BY Moves, Zenon
<1>6. received \subseteq received' /\ (l = "record" => worker[w].item.id \in received')
  BY <1>2, Moves, Zenon
<1> QED BY <1>1, <1>2, <1>4, <1>5, <1>6, Zenon DEF Gone

(* The topic keeps its type when one partition moves on. *)
LEMMA TopicStep ==
    ASSUME TypeOK, NEW p \in Partition, NEW part \in PartitionOfType(Callback),
           topic' = [topic EXCEPT ![p] = part]
    PROVE  topic' \in [Partition -> PartitionOfType(Callback)]
BY Zenon DEF TypeOK

(* So does the gate. *)
LEMMA GateStep ==
    ASSUME TypeOK, GroupsOf(gate), NEW k \in GateKey
    PROVE  /\ GateAdd(gate, k) \in GateOfType(GateKey)
           /\ GateDone(gate, k) \in GateOfType(GateKey)
           /\ GateDelete(gate, k) \in GateOfType(GateKey)
<1>1. gate \in GateOfType(GateKey) /\ gate.at[k] \in 0..Len(gate.count)
  BY Zenon DEF TypeOK, GroupsOf
<1>2. CASE HasGroup(gate, k)
  BY <1>1, <1>2, AddToGroup, DoneInGroup, DeletesGroup, Zenon
<1>3. CASE ~HasGroup(gate, k)
  BY <1>1, <1>3, AddsGroup, DeletesGroup, Zenon DEF GateDone
<1> QED BY <1>2, <1>3

(* The handler of a partition keeps the types. *)
LEMMA HandlerTypes ==
    ASSUME TypeOK, Prefix, GroupsOf(gate), NEW p \in Partition,
           Publish(p) \/ Commit(p) \/ HandlerStep(p)
    PROVE  TypeOK'
<1>0. topic[p] \in PartitionOfType(Callback) /\ topic[p].log \in Seq(Callback)
  BY Zenon DEF TypeOK, PartitionOfType
<1>1. ASSUME Publish(p) PROVE TypeOK'
  <2>1. Input[p] \in Seq(Callback)
    BY DeliveryAssumption, Zenon
  <2>2. Input[p][Len(topic[p].log) + 1] \in Callback
    BY <1>0, <1>1, <2>1 DEF Publish
  <2>3. Published(topic[p], Input[p][Len(topic[p].log) + 1]) \in PartitionOfType(Callback)
    BY <1>0, <2>2, PartitionTypes, Zenon
  <2>4. topic' \in [Partition -> PartitionOfType(Callback)]
    BY <1>1, <2>3, TopicStep, Zenon DEF Publish
  <2> QED BY <1>1, <2>4, Zenon DEF TypeOK, Publish, service, history
<1>2. ASSUME Commit(p) PROVE TypeOK'
  <2>1. topic' \in [Partition -> PartitionOfType(Callback)]
    BY <1>0, <1>2, PartitionTypes, TopicStep, Zenon DEF Commit
  <2> QED BY <1>2, <2>1, Zenon DEF TypeOK, Commit, service, history
<1>3. topic' = [topic EXCEPT ![p] = Marked(@)] => topic' \in [Partition -> PartitionOfType(Callback)]
  BY <1>0, PartitionTypes, TopicStep, Zenon
<1>4. ASSUME HandlerStep(p)
      PROVE  HasMessage(topic[p]) /\ Fetched(p) \in Item /\ Fetched(p).id \in Id
  <2>1. HasMessage(topic[p])
    BY <1>4, ZenonT(40) DEF HandlerStep, ParkMessage, ArmParked, handleMessage, Dispatch, CanHandle, Prefix, Follows
  <2> QED BY <2>1, FetchedFields, ZenonT(30)
<1>5. ASSUME ParkMessage(p) PROVE TypeOK'
  <2>1. topic' \in [Partition -> PartitionOfType(Callback)]
    BY <1>3, <1>5, Zenon DEF ParkMessage, TypeOK
  <2>2. fate' \in [Id -> Fate] /\ handler' \in [Partition -> {"idle", "send", "park"}]
    BY <1>4, <1>5, Zenon DEF ParkMessage, TypeOK, HandlerStep, Fate
  <2> QED BY <1>5, <2>1, <2>2, Zenon DEF TypeOK, ParkMessage
<1>6. ASSUME ArmParked(p) PROVE TypeOK'
  <2>1. topic' \in [Partition -> PartitionOfType(Callback)]
    BY <1>3, <1>6, Zenon DEF ArmParked, TypeOK
  <2>2. parked' \subseteq Item /\ handler' \in [Partition -> {"idle", "send", "park"}]
    BY <1>4, <1>6, Zenon DEF ArmParked, TypeOK, HandlerStep
  <2> QED BY <1>6, <2>1, <2>2, Zenon DEF TypeOK, ArmParked, history
<1>7. ASSUME handleMessage(p) PROVE TypeOK'
  <2>1. gateKey(Fetched(p).id) \in GateKey
    BY <1>4, <1>7, IdFields, Zenon DEF HandlerStep
  <2>2. gate' \in GateOfType(GateKey)
    BY <1>7, <2>1, GateStep, Zenon DEF handleMessage, TypeOK
  <2>3. handler' \in [Partition -> {"idle", "send", "park"}]
    BY <1>7, Zenon DEF handleMessage, TypeOK
  <2> QED BY <1>7, <2>2, <2>3, Zenon DEF TypeOK, handleMessage, history
<1>8. ASSUME Dispatch(p) PROVE TypeOK'
  <2>1. topic' \in [Partition -> PartitionOfType(Callback)]
    BY <1>3, <1>8, Zenon DEF Dispatch, TypeOK
  <2>2. Append(workCh, Fetched(p)) \in Seq(Item) /\ workCh \in Seq(Item)
    BY <1>4, <1>8, QueueFields, Zenon DEF HandlerStep, TypeOK
  <2>3. workCh' \in Seq(Item) /\ handler' \in [Partition -> {"idle", "send", "park"}]
    BY <1>8, <2>2, Zenon DEF Dispatch, TypeOK
  <2>4. panicked' \in BOOLEAN
    BY <1>8 DEF Dispatch, Closed
  <2> QED BY <1>8, <2>1, <2>3, <2>4, Zenon DEF TypeOK, Dispatch, history
<1> QED BY <1>1, <1>2, <1>5, <1>6, <1>7, <1>8, Zenon DEF HandlerStep

(* A worker keeps the types. *)
LEMMA WorkerTypes ==
    ASSUME TypeOK, GroupsOf(gate), NEW w \in Worker, WorkerStep(w)
    PROVE  TypeOK'
<1>1. ASSUME Take(w) PROVE TypeOK'
  <2>1. worker' \in [Worker -> {IdleWorker} \cup BusyWorker] /\ workCh' \in Seq(Item)
    BY <1>1, Takes, QueueFields, Zenon DEF Take
  <2> QED BY <1>1, <2>1, Zenon DEF TypeOK, Take, history
<1>2. ASSUME GateWait(w) PROVE TypeOK'
  <2>1. Busy(w)
    BY <1>2 DEF GateWait, At, Busy
  <2>2. KeyOf(w) \in GateKey /\ worker[w].item.retry \in Nat
    BY <2>1, BusyFields, Zenon
  <2>3. gate.at[KeyOf(w)] \in Nat
    BY <2>2, Zenon DEF TypeOK, GateOfType
  <2>4. WaitsAt(KeyOf(w)) \in BusyPc
    BY WaitsAtPlace, Zenon DEF BusyPc
  <2>5. worker' \in [Worker -> {IdleWorker} \cup BusyWorker]
    BY <1>2, <2>1, <2>2, <2>3, <2>4, GoesOn, Zenon DEF GateWait, KeyOf
  <2> QED BY <1>2, <2>5, Zenon DEF TypeOK, GateWait, history
<1>3. ASSUME GateWoken(w) \/ GateOpened(w) PROVE TypeOK'
  <2>1. Busy(w)
    BY <1>3 DEF GateWoken, GateOpened, At, Busy
  <2>2. KeyOf(w) \in GateKey /\ worker[w].item.retry \in Nat /\ worker[w].group \in Nat
    BY <2>1, BusyFields, Zenon
  <2>3. {"ungate", "exists"} \subseteq BusyPc
    BY DEF BusyPc
  <2>4. worker' \in [Worker -> {IdleWorker} \cup BusyWorker]
    BY <1>3, <2>1, <2>2, <2>3, GoesOn, Zenon DEF GateWoken, GateOpened, Goto
  <2>5. gate' \in GateOfType(GateKey)
    BY <1>3, <2>2, GateStep, Zenon DEF GateWoken, GateOpened, TypeOK, KeyOf
  <2>6. panicked' \in BOOLEAN
    BY <1>3, Zenon DEF GateWoken, GateOpened, TypeOK
  <2> QED BY <1>3, <2>4, <2>5, <2>6, ZenonT(40) DEF TypeOK, GateWoken, GateOpened, history
<1>4. ASSUME WorkStep(w) PROVE TypeOK'
  <2>1. Busy(w) /\ Past \subseteq BusyPc
    BY <1>4, Moves DEF Past, BusyPc
  <2>2. PICK l \in Past, r \in Nat : Goes(w, l, r, worker[w].group)
    BY <1>4, Moves, Zenon
  <2>3. worker[w].item.id \in Id /\ worker[w].item \in Item /\ worker[w].group \in Nat
    BY <2>1, BusyFields, Zenon
  <2>4. worker' \in [Worker -> {IdleWorker} \cup BusyWorker]
    BY <2>1, <2>2, <2>3, GoesOn, Zenon
  <2>5. dedupKeyForMessage(worker[w].item.id) \in DedupKey
    BY <2>3, IdFields, Zenon
  <2>6. parked' \subseteq Item /\ received' \subseteq Id /\ dedup' \subseteq DedupKey
    BY <1>4, <2>3, <2>5, Zenon DEF WorkStep, Exists, ExistsFails, PostSucceeds, PostFails, StumpMissing,
             Record, publishToDLQWithRetry, ArmTimer, TypeOK, WithRecord, history
  <2>7. acks[worker[w].item.id] + 1 \in Nat
    BY <2>3 DEF TypeOK
  <2>8. acks' \in [Id -> Nat]
    BY <1>4, <2>3, <2>7, Zenon DEF WorkStep, Exists, ExistsFails, PostSucceeds, PostFails, StumpMissing,
             Record, publishToDLQWithRetry, ArmTimer, TypeOK, history
  <2>9. \A f \in Fate : Settled(w, f) => fate' \in [Id -> Fate]
    BY <2>3, Zenon DEF Settled, TypeOK
  <2>10. {"dropped", "skipped", "delivered", "dlq", "lost"} \subseteq Fate
    BY DEF Fate
  <2>11. fate' \in [Id -> Fate]
    BY <1>4, <2>9, <2>10, ZenonT(30) DEF WorkStep, Exists, ExistsFails, PostSucceeds, PostFails, StumpMissing,
             Record, publishToDLQWithRetry, ArmTimer, TypeOK, scheduleRetryAfterFailure, history
  <2>12. faults' \in Nat
    BY <1>4 DEF WorkStep, Exists, ExistsFails, PostSucceeds, PostFails, StumpMissing,
             Record, publishToDLQWithRetry, ArmTimer, TypeOK
  <2>13. UNCHANGED <<topic, handler, gate, workCh, firing, stopping, panicked, crashes>>
    BY <1>4, Moves, Zenon
  <2> QED BY <2>4, <2>6, <2>8, <2>11, <2>12, <2>13, ZenonT(40) DEF TypeOK
<1>5. ASSUME Return(w) PROVE TypeOK'
  <2>1. worker' \in [Worker -> {IdleWorker} \cup BusyWorker]
    BY <1>5, Returns, Zenon
  <2>2. Busy(w)
    BY <1>5 DEF Return, At, Busy
  <2>3. KeyOf(w) \in GateKey
    BY <2>2, BusyFields, Zenon
  <2>4. gate' \in GateOfType(GateKey)
    BY <1>5, <2>3, GateStep, Zenon DEF Return, KeyOf, TypeOK
  <2>5. panicked' \in BOOLEAN
    BY <1>5, Zenon DEF Return
  <2> QED BY <1>5, <2>1, <2>4, <2>5, Zenon DEF TypeOK, Return, history
<1> QED BY <1>1, <1>2, <1>3, <1>4, <1>5, Zenon DEF WorkerStep, WorkStep

(* Every step keeps the types. *)
LEMMA TypeStep == ASSUME TypeOK, Prefix, GroupsOf(gate), [Next]_vars PROVE TypeOK'
<1>1. ASSUME NEW x \in Timers, TimerFires(x) PROVE TypeOK'
  <2>1. x \in Item /\ x.id \in Id
    BY <1>1 DEF TypeOK, Timers, Item
  <2>2. /\ parked' \subseteq Item /\ firing' \subseteq Item
        /\ fate' \in [Id -> Fate]
    BY <1>1, <2>1, Zenon DEF TimerFires, TypeOK, Fate
  <2>3. stopping' \in {"no", "flagged", "waiting", "released", "closed", "stopped"}
    BY <1>1, Zenon DEF TimerFires, TimerDone, TypeOK
  <2> QED BY <1>1, <2>2, <2>3, Zenon DEF TimerFires, TypeOK
<1>2. ASSUME NEW x \in Timers, TimerSends(x) PROVE TypeOK'
  <2>1. x \in Item
    BY <1>2, Zenon DEF TypeOK, Timers
  <2>2. parked' \subseteq Item /\ firing' \subseteq Item /\ workCh' \in Seq(Item)
    BY <1>2, <2>1, QueueFields, Zenon DEF TimerSends, TypeOK
  <2>3. stopping' \in {"no", "flagged", "waiting", "released", "closed", "stopped"}
    BY <1>2, Zenon DEF TimerSends, TimerDone, TypeOK
  <2> QED BY <1>2, <2>2, <2>3, Zenon DEF TimerSends, TypeOK, history
<1>3. ASSUME StopFlag \/ StopWait \/ StopConsumer \/ StopClose PROVE TypeOK'
  <2>1. stopping' \in {"no", "flagged", "waiting", "released", "closed", "stopped"}
    BY <1>3, Zenon DEF StopFlag, StopWait, StopConsumer, StopClose, TypeOK
  <2>2. panicked' \in BOOLEAN
    BY <1>3, Zenon DEF StopFlag, StopWait, StopConsumer, StopClose, TypeOK
  <2> QED BY <1>3, <2>1, <2>2, Zenon
          DEF StopFlag, StopWait, StopConsumer, StopClose, TypeOK, service, history
<1>4. ASSUME Crash PROVE TypeOK'
  <2>1. topic' \in [Partition -> PartitionOfType(Callback)]
    BY <1>4, PartitionTypes, Zenon DEF Crash, TypeOK
  <2>2. newStumpGate(GateKey) \in GateOfType(GateKey)
    BY DEF newStumpGate, GateOfType, NoGroup
  <2>3. <<>> \in Seq(Item)
    OBVIOUS
  <2>4. crashes' \in Nat
    BY <1>4 DEF Crash, TypeOK
  <2> QED BY <1>4, <2>1, <2>2, <2>3, <2>4, Zenon DEF Crash, TypeOK, history
<1>5. ASSUME UNCHANGED vars PROVE TypeOK'
  BY <1>5, Zenon DEF vars, service, history, TypeOK
<1> QED BY <1>1, <1>2, <1>3, <1>4, <1>5, HandlerTypes, WorkerTypes, Zenon DEF Next, TimerStep, Quiescent

(* Only the handlers, upstream and a crash move the topic. *)
LEMMA StillTopic ==
    ASSUME \/ \E w \in Worker : WorkerStep(w)
           \/ TimerStep \/ StopFlag \/ StopWait \/ StopClose \/ StopConsumer \/ UNCHANGED vars
    PROVE  UNCHANGED <<topic, handler>>
<1>1. ASSUME NEW w \in Worker, WorkerStep(w) PROVE UNCHANGED <<topic, handler>>
  BY <1>1, Zenon DEF WorkerStep, Take, GateWait, GateWoken, GateOpened, Exists, ExistsFails, PostSucceeds,
       PostFails, StumpMissing, Record, publishToDLQWithRetry, ArmTimer, Return
<1> QED BY <1>1, Zenon DEF TimerStep, TimerFires, TimerSends, StopFlag, StopWait, StopClose, StopConsumer,
       vars, service

(* What becomes of the log, the offset and the handler of each partition. *)
LEMMA HandlerMoves ==
    ASSUME TypeOK, NEW p \in Partition, HandlerStep(p)
    PROVE  /\ \A q \in Partition : q # p => topic'[q] = topic[q] /\ handler'[q] = handler[q]
           /\ topic'[p].log = topic[p].log
           /\ \/ topic'[p].next = topic[p].next + 1 /\ handler'[p] = "idle"
              \/ topic'[p] = topic[p] /\ handler'[p] = "park" /\ ParkMessage(p)
              \/ topic'[p] = topic[p] /\ handler'[p] = "send" /\ handleMessage(p)
              \/ topic'[p] = topic[p] /\ handler'[p] = "idle" /\ Dispatch(p) /\ Closed
<1>1. topic[p] \in PartitionOfType(Callback) /\ topic \in [Partition -> PartitionOfType(Callback)]
      /\ handler \in [Partition -> {"idle", "send", "park"}]
  BY Zenon DEF TypeOK
<1>2. Marked(topic[p]).log = topic[p].log /\ Marked(topic[p]).next = topic[p].next + 1
  BY <1>1, PartitionLogs, PartitionOffsets, Zenon
<1>3. ASSUME topic' = [topic EXCEPT ![p] = Marked(@)]
      PROVE  /\ \A q \in Partition : q # p => topic'[q] = topic[q]
             /\ topic'[p].log = topic[p].log /\ topic'[p].next = topic[p].next + 1
  BY <1>1, <1>2, <1>3, Zenon
<1>4. ASSUME NEW l, handler' = [handler EXCEPT ![p] = l]
      PROVE  handler'[p] = l /\ \A q \in Partition : q # p => handler'[q] = handler[q]
  BY <1>1, <1>4, Zenon
<1>5. CASE ParkMessage(p)
  <2>1. handler[p] = "idle"
    BY <1>5 DEF ParkMessage, CanHandle
  <2> QED BY <1>3, <1>4, <1>5, <2>1, Zenon DEF ParkMessage
<1>6. CASE ArmParked(p)
  BY <1>3, <1>4, <1>6, Zenon DEF ArmParked
<1>7. CASE handleMessage(p)
  BY <1>4, <1>7, Zenon DEF handleMessage
<1>8. CASE Dispatch(p)
  BY <1>3, <1>4, <1>8, Zenon DEF Dispatch
<1> QED BY <1>5, <1>6, <1>7, <1>8, Zenon DEF HandlerStep

(* The offsets only move forward, until a crash. *)
LEMMA Forward ==
    ASSUME TypeOK, [Next]_vars, ~Crash
    PROVE  \A q \in Partition : topic[q].next \in Nat /\ topic'[q].next \in Nat /\ topic[q].next <= topic'[q].next
<1>1. \A q \in Partition : topic[q].next \in Nat /\ topic[q] \in PartitionOfType(Callback)
  BY Zenon DEF TypeOK, PartitionOfType
<1>2. ASSUME NEW p \in Partition, Publish(p) \/ Commit(p)
      PROVE  \A q \in Partition : topic'[q].next = topic[q].next
  <2>1. topic \in [Partition -> PartitionOfType(Callback)]
    BY Zenon DEF TypeOK
  <2>2. /\ \A m : Published(topic[p], m).next = topic[p].next
        /\ Committed(topic[p]).next = topic[p].next
    BY <1>1, PartitionOffsets, Zenon
  <2> QED BY <1>2, <2>1, <2>2, Zenon DEF Publish, Commit
<1>3. ASSUME NEW p \in Partition, HandlerStep(p)
      PROVE  \A q \in Partition : topic'[q].next \in {topic[q].next, topic[q].next + 1}
  BY <1>3, HandlerMoves, Zenon
<1>4. ASSUME \/ \E w \in Worker : WorkerStep(w)
             \/ TimerStep \/ StopFlag \/ StopWait \/ StopClose \/ StopConsumer \/ UNCHANGED vars
      PROVE  \A q \in Partition : topic'[q].next = topic[q].next
  BY <1>4, StillTopic, Zenon
<1>5. \A q \in Partition : topic'[q].next \in {topic[q].next, topic[q].next + 1}
  BY <1>2, <1>3, <1>4, Zenon DEF Next, Quiescent
<1> QED BY <1>1, <1>5

(* The topic follows the input. *)
LEMMA PrefixStep == ASSUME TypeOK, Prefix, [Next]_vars PROVE Prefix'
<1>0. \A q \in Partition :
          /\ topic[q] \in PartitionOfType(Callback)
          /\ topic[q].log \in Seq(Callback) /\ Len(topic[q].log) \in Nat /\ topic[q].next \in Nat
          /\ Len(Input[q]) \in Nat
  <2> SUFFICES ASSUME NEW q \in Partition
               PROVE  /\ topic[q] \in PartitionOfType(Callback)
                      /\ topic[q].log \in Seq(Callback) /\ Len(topic[q].log) \in Nat /\ topic[q].next \in Nat
                      /\ Len(Input[q]) \in Nat
    OBVIOUS
  <2>1. topic[q] \in PartitionOfType(Callback)
    BY Zenon DEF TypeOK
  <2>2. topic[q].log \in Seq(Callback) /\ topic[q].next \in Nat
    BY <2>1, Zenon DEF PartitionOfType
  <2>3. Input[q] \in Seq(Callback)
    BY DeliveryAssumption, Zenon
  <2> QED BY <2>1, <2>2, <2>3
<1>1. ASSUME NEW p \in Partition, Publish(p) PROVE Prefix'
  <2> DEFINE m == Input[p][Len(topic[p].log) + 1]
  <2>1. /\ topic'[p].log = Append(topic[p].log, m) /\ topic'[p].next = topic[p].next
        /\ \A q \in Partition : q # p => topic'[q] = topic[q]
        /\ handler' = handler
    <3>1. topic' = [topic EXCEPT ![p] = Published(topic[p], m)] /\ handler' = handler
      BY <1>1, Zenon DEF Publish, service
    <3>2. Published(topic[p], m).log = Append(topic[p].log, m) /\ Published(topic[p], m).next = topic[p].next
      BY <1>0, PartitionLogs, PartitionOffsets, ZenonT(40)
    <3>3. topic \in [Partition -> PartitionOfType(Callback)]
      BY Zenon DEF TypeOK
    <3> QED BY <3>1, <3>2, <3>3, Zenon
  <2>2. /\ Len(topic'[p].log) = Len(topic[p].log) + 1 /\ Len(topic'[p].log) <= Len(Input[p])
        /\ \A n \in 1..Len(topic'[p].log) : topic'[p].log[n] = Input[p][n]
    <3>1. \A n \in 1..Len(topic[p].log) : topic[p].log[n] = Input[p][n]
      BY Zenon DEF Prefix, Follows
    <3>2. Len(topic[p].log) < Len(Input[p])
      BY <1>1, Zenon DEF Publish
    <3> QED BY <1>0, <2>1, <3>1, <3>2, SMTT(30)
  <2>3. HasMessage(topic[p]) => HasMessage(topic'[p])
    BY <1>0, <2>1, <2>2 DEF HasMessage
  <2>4. Follows(topic'[p], Input[p], handler'[p])
    BY <2>1, <2>2, <2>3, Zenon DEF Prefix, Follows
  <2> QED BY <2>1, <2>4, Zenon DEF Prefix
<1>2. ASSUME NEW p \in Partition, Commit(p) PROVE Prefix'
  <2>1. /\ topic'[p].log = topic[p].log /\ topic'[p].next = topic[p].next
        /\ \A q \in Partition : q # p => topic'[q] = topic[q]
        /\ handler' = handler
    <3>1. topic' = [topic EXCEPT ![p] = Committed(topic[p])] /\ handler' = handler
      BY <1>2, Zenon DEF Commit, service
    <3>2. Committed(topic[p]).log = topic[p].log /\ Committed(topic[p]).next = topic[p].next
      BY <1>0, PartitionLogs, PartitionOffsets, Zenon
    <3>3. topic \in [Partition -> PartitionOfType(Callback)]
      BY Zenon DEF TypeOK
    <3> QED BY <3>1, <3>2, <3>3, Zenon
  <2>2. Follows(topic'[p], Input[p], handler'[p])
    BY <2>1, Zenon DEF Prefix, Follows, HasMessage
  <2> QED BY <2>1, <2>2, Zenon DEF Prefix
<1>3. ASSUME NEW p \in Partition, HandlerStep(p) PROVE Prefix'
  <2>1. ParkMessage(p) \/ handleMessage(p) => HasMessage(topic[p])
    BY Zenon DEF ParkMessage, handleMessage, CanHandle
  <2>2. /\ topic'[p].log = topic[p].log
        /\ \A q \in Partition : q # p => topic'[q] = topic[q] /\ handler'[q] = handler[q]
        /\ \/ handler'[p] = "idle"
           \/ topic'[p] = topic[p] /\ HasMessage(topic[p])
    BY <1>3, <2>1, HandlerMoves, Zenon
  <2>3. Follows(topic'[p], Input[p], handler'[p])
    BY <2>2, ZenonT(40) DEF Prefix, Follows
  <2> QED BY <2>2, <2>3, Zenon DEF Prefix
<1>4. ASSUME Crash PROVE Prefix'
  <2>1. \A q \in Partition : topic'[q].log = topic[q].log /\ handler'[q] = "idle"
    BY <1>0, <1>4, PartitionLogs, Zenon DEF Crash
  <2>2. ASSUME NEW q \in Partition PROVE Follows(topic'[q], Input[q], handler'[q])
    BY <2>1, ZenonT(40) DEF Prefix, Follows
  <2> QED BY <2>2, Zenon DEF Prefix
<1>5. ASSUME \/ \E w \in Worker : WorkerStep(w)
             \/ TimerStep \/ StopFlag \/ StopWait \/ StopClose \/ StopConsumer \/ UNCHANGED vars
      PROVE  Prefix'
  BY <1>5, StillTopic, Zenon DEF Prefix
<1> QED BY <1>1, <1>2, <1>3, <1>4, <1>5, Zenon DEF Next, Quiescent

(* What the service holds after a step it held before, or the handler has just
   handed it over. *)
LEMMA HeldStep ==
    ASSUME TypeOK, Prefix, [Next]_vars, ~Crash, NEW id \in Id, Held(id)'
    PROVE  \/ Held(id)
           \/ \E p \in Partition : id = <<p, topic[p].next>> /\ topic'[p].next = topic[p].next + 1
<1> DEFINE Goal == \/ Held(id)
                   \/ \E p \in Partition : id = <<p, topic[p].next>> /\ topic'[p].next = topic[p].next + 1
<1>1. ASSUME UNCHANGED <<workCh, worker>>, Timers' \subseteq Timers PROVE Goal
  BY <1>1, Zenon DEF Held, Busy
<1>2. ASSUME NEW p \in Partition, Publish(p) \/ Commit(p) \/ ParkMessage(p) \/ handleMessage(p) PROVE Goal
  BY <1>1, <1>2, Zenon DEF Publish, Commit, ParkMessage, handleMessage, service, Timers
<1>3. ASSUME NEW p \in Partition, ArmParked(p) PROVE Goal
  <2>1. HasMessage(topic[p])
    BY <1>3 DEF ArmParked, Prefix, Follows
  <2>2. Fetched(p).id = <<p, topic[p].next>>
    BY <2>1, FetchedFields, Zenon
  <2>3. topic'[p].next = topic[p].next + 1
    <3>1. handler'[p] # "park" /\ handler'[p] # "send"
      BY <1>3 DEF ArmParked, TypeOK
    <3>2. ~(Dispatch(p) /\ Closed)
      BY <1>3 DEF ArmParked, Dispatch
    <3> QED BY <1>3, <3>1, <3>2, HandlerMoves, Zenon DEF HandlerStep
  <2>4. UNCHANGED <<workCh, worker>> /\ Timers' = Timers \cup {Fetched(p)}
    BY <1>3, Zenon DEF ArmParked, Timers
  <2>5. Held(id) \/ id = Fetched(p).id
    BY <2>4, Zenon DEF Held, Busy
  <2> QED BY <2>2, <2>3, <2>5, Zenon
<1>4. ASSUME NEW p \in Partition, Dispatch(p) PROVE Goal
  <2>1. HasMessage(topic[p])
    BY <1>4 DEF Dispatch, Prefix, Follows
  <2>2. Fetched(p).id = <<p, topic[p].next>> /\ Fetched(p) \in Item
    BY <2>1, FetchedFields, Zenon
  <2>3. CASE Closed
    BY <1>1, <1>4, <2>3, Zenon DEF Dispatch, Timers
  <2>4. CASE ~Closed
    <3>1. topic'[p].next = topic[p].next + 1
      <4>1. handler'[p] # "park" /\ handler'[p] # "send"
        BY <1>4 DEF Dispatch, TypeOK
      <4> QED BY <1>4, <2>4, <4>1, HandlerMoves, Zenon DEF HandlerStep
    <3>2. UNCHANGED worker /\ Timers' = Timers /\ workCh' = Append(workCh, Fetched(p))
      BY <1>4, <2>4, Zenon DEF Dispatch, Timers
    <3>3. \A n \in 1..Len(workCh') : workCh'[n].id = Fetched(p).id \/ \E m \in 1..Len(workCh) : workCh'[n] = workCh[m]
      BY <2>2, <3>2, QueueFields
    <3>4. Held(id) \/ id = Fetched(p).id
      BY <3>2, <3>3, Zenon DEF Held, Busy
    <3> QED BY <2>2, <3>1, <3>4, Zenon
  <2> QED BY <2>3, <2>4
<1>5. ASSUME NEW w \in Worker, Take(w) PROVE Goal
  <2>1. /\ \A v \in Worker : v # w => worker'[v] = worker[v]
        /\ worker'[w].item = workCh[1] /\ 1 \in 1..Len(workCh)
    BY <1>5, Takes, Zenon
  <2>2. Timers' = Timers /\ workCh' = Tail(workCh) /\ workCh # <<>>
    BY <1>5, Zenon DEF Take, Timers
  <2>3. \A n \in 1..Len(workCh') : \E m \in 1..Len(workCh) : workCh'[n] = workCh[m]
    BY <2>2, QueueFields
  <2> QED BY <2>1, <2>2, <2>3, ZenonT(30) DEF Held, Busy
<1>6. ASSUME NEW w \in Worker, Busy(w), worker'[w].item.id = worker[w].item.id,
             \A v \in Worker : v # w => worker'[v] = worker[v],
             UNCHANGED workCh,
             Timers' \subseteq Timers \cup {worker[w].item}
      PROVE  Goal
  <2>1. \A v \in Worker : Busy(v)' /\ worker'[v].item.id = id => Held(id)
    BY <1>6, Zenon DEF Held, Busy
  <2>2. \A x \in Timers' : x.id = id => Held(id)
    BY <1>6, Zenon DEF Held
  <2> QED BY <1>6, <2>1, <2>2, Zenon DEF Held
<1>7. ASSUME NEW w \in Worker, GateWait(w) \/ GateWoken(w) \/ GateOpened(w) PROVE Goal
  <2>1. Busy(w) /\ worker'[w].item.id = worker[w].item.id /\ \A v \in Worker : v # w => worker'[v] = worker[v]
    BY <1>7, GateMoves, Zenon
  <2>2. UNCHANGED workCh /\ Timers' = Timers
    BY <1>7, GateMoves, Zenon DEF Timers
  <2> QED BY <1>6, <2>1, <2>2, Zenon
<1>8. ASSUME NEW w \in Worker, WorkStep(w) PROVE Goal
  <2>1. /\ Busy(w) /\ worker'[w].item.id = worker[w].item.id
        /\ \A v \in Worker : v # w => worker'[v] = worker[v]
        /\ UNCHANGED <<workCh, firing>>
    BY <1>8, WorkMoves, Zenon
  <2>2. Timers' \subseteq Timers \cup {worker[w].item}
    BY <1>8, <2>1, Moves, Zenon DEF Timers
  <2> QED BY <1>6, <2>1, <2>2, Zenon
<1>9. ASSUME NEW w \in Worker, Return(w) PROVE Goal
  <2>1. \A v \in Worker : Busy(v)' => Busy(v) /\ worker'[v].item = worker[v].item
    <3> SUFFICES ASSUME NEW v \in Worker, worker'[v].pc # "idle"
                 PROVE  worker[v].pc # "idle" /\ worker'[v].item = worker[v].item
      BY Zenon DEF Busy
    <3>1. v # w
      BY <1>9, Returns, Zenon
    <3>2. CASE worker'[v] = worker[v]
      BY <3>2, Zenon
    <3>3. CASE worker[v].pc = "waiting" /\ worker'[v].item = worker[v].item
      BY <3>3
    <3> QED BY <1>9, <3>1, <3>2, <3>3, Returns, Zenon
  <2>2. UNCHANGED workCh /\ Timers' = Timers
    BY <1>9, Zenon DEF Return, Timers
  <2> QED BY <2>1, <2>2, Zenon DEF Held
<1>10. ASSUME NEW x \in Timers, TimerFires(x) PROVE Goal
  <2>1. UNCHANGED <<workCh, worker>> /\ Timers' \subseteq Timers
    BY <1>10, Zenon DEF TimerFires, Timers
  <2> QED BY <1>1, <2>1, Zenon
<1>11. ASSUME NEW x \in Timers, TimerSends(x) PROVE Goal
  <2>1. UNCHANGED worker /\ Timers' \subseteq Timers /\ workCh' = Append(workCh, x) /\ x \in Item
    BY <1>11, Zenon DEF TimerSends, Timers, TypeOK
  <2>2. \A n \in 1..Len(workCh') : workCh'[n] = x \/ \E m \in 1..Len(workCh) : workCh'[n] = workCh[m]
    BY <2>1, QueueFields
  <2> QED BY <2>1, <2>2, ZenonT(40) DEF Held, Busy
<1>12. ASSUME StopFlag \/ StopWait \/ StopClose \/ StopConsumer \/ UNCHANGED vars PROVE Goal
  BY <1>1, <1>12, Zenon DEF StopFlag, StopWait, StopClose, StopConsumer, vars, service, Timers
<1> HIDE DEF Goal
<1>13. Goal
  BY <1>2, <1>3, <1>4, <1>5, <1>7, <1>8, <1>9, <1>10, <1>11, <1>12, ZenonT(40)
     DEF Next, HandlerStep, WorkerStep, WorkStep, TimerStep, Quiescent
<1> QED BY <1>13 DEF Goal

(* A session never hands out an offset again. *)
LEMMA PassedStep == ASSUME TypeOK, Prefix, Passed, [Next]_vars PROVE Passed'
<1> SUFFICES ASSUME NEW id \in Id, Held(id)' PROVE Behind(id)'
  BY Zenon DEF Passed
<1>1. CASE Crash
  <2>1. workCh' = <<>> /\ Timers' = {} /\ \A w \in Worker : worker'[w] = IdleWorker
    BY <1>1, Zenon DEF Crash, Timers
  <2>2. \A w \in Worker : ~Busy(w)'
    BY <2>1 DEF Busy, IdleWorker
  <2>3. Len(workCh') = 0
    BY <2>1
  <2>4. ~Held(id)'
    BY <2>1, <2>2, <2>3 DEF Held
  <2> QED BY <2>4
<1>2. CASE ~Crash
  <2>1. /\ id[1] \in Partition /\ id[2] \in Nat
        /\ topic[id[1]].next \in Nat /\ topic'[id[1]].next \in Nat /\ topic[id[1]].next <= topic'[id[1]].next
    BY <1>2, Forward, IdFields
  <2>2. CASE Held(id)
    <3>1. id[2] < topic[id[1]].next
      BY <2>2, Zenon DEF Passed, Behind
    <3> QED BY <2>1, <3>1 DEF Behind
  <2>3. CASE \E p \in Partition : id = <<p, topic[p].next>> /\ topic'[p].next = topic[p].next + 1
    <3>1. id[2] = topic[id[1]].next /\ topic'[id[1]].next = topic[id[1]].next + 1
      BY <2>3
    <3> QED BY <2>1, <3>1 DEF Behind
  <2> QED BY <1>2, <2>2, <2>3, HeldStep, Zenon
<1> QED BY <1>1, <1>2

(* A worker that has an item after a step had it before, or has just taken it. *)
LEMMA Continues ==
    ASSUME TypeOK, [Next]_vars, NEW v \in Worker, Busy(v)'
    PROVE  \/ Take(v)
           \/ /\ Busy(v)
              /\ worker'[v].item.id = worker[v].item.id /\ worker'[v].first = worker[v].first
              /\ \/ worker'[v] = worker[v]
                 \/ worker'[v].pc \in Past /\ worker[v].pc \in Past /\ WorkStep(v)
                 \/ /\ worker'[v].pc \in {"exists", "ungate", "waiting"} /\ worker[v].pc \notin Past
                    /\ GateWait(v) \/ GateWoken(v) \/ GateOpened(v)
                 \/ /\ worker'[v].pc = "woken" /\ worker[v].pc = "waiting"
                    /\ \E w \in Worker : Return(w) /\ worker[w].first
<1> DEFINE Goal == \/ Take(v)
                   \/ /\ Busy(v)
                      /\ worker'[v].item.id = worker[v].item.id /\ worker'[v].first = worker[v].first
                      /\ \/ worker'[v] = worker[v]
                         \/ worker'[v].pc \in Past /\ worker[v].pc \in Past /\ WorkStep(v)
                         \/ /\ worker'[v].pc \in {"exists", "ungate", "waiting"} /\ worker[v].pc \notin Past
                            /\ GateWait(v) \/ GateWoken(v) \/ GateOpened(v)
                         \/ /\ worker'[v].pc = "woken" /\ worker[v].pc = "waiting"
                            /\ \E w \in Worker : Return(w) /\ worker[w].first
<1>1. ASSUME worker'[v] = worker[v] PROVE Goal
  BY <1>1, Zenon DEF Busy
<1>2. ASSUME NEW w \in Worker, Take(w) PROVE Goal
  BY <1>1, <1>2, Takes, ZenonT(40)
<1>3. ASSUME NEW w \in Worker, GateWait(w) \/ GateWoken(w) \/ GateOpened(w) PROVE Goal
  <2>1. CASE v = w
    <3>1. worker[v].pc \notin Past
      BY <1>3, <2>1, GateMoves, ZenonT(40) DEF Past
    <3> QED BY <1>3, <2>1, <3>1, GateMoves, ZenonT(30)
  <2>2. CASE v # w
    BY <1>1, <1>3, <2>2, GateMoves, ZenonT(40)
  <2> QED BY <2>1, <2>2, ZenonT(40)
<1>4. ASSUME NEW w \in Worker, WorkStep(w) PROVE Goal
  <2>1. CASE v = w
    BY <1>4, <2>1, WorkMoves, Zenon
  <2>2. CASE v # w
    BY <1>1, <1>4, <2>2, WorkMoves, Zenon
  <2> QED BY <2>1, <2>2, ZenonT(40)
<1>5. ASSUME NEW w \in Worker, Return(w) PROVE Goal
  <2>1. v # w
    BY <1>5, Returns, ZenonT(30) DEF Busy
  <2>2. CASE worker'[v] = worker[v]
    BY <1>1, <2>2
  <2>3. CASE /\ worker[v].pc = "waiting" /\ worker'[v].pc = "woken"
             /\ worker'[v].item = worker[v].item /\ worker'[v].first = worker[v].first
             /\ SignsOff(w)
    <3>1. Busy(v)
      BY <2>3 DEF Busy
    <3> QED BY <1>5, <2>3, <3>1, Zenon DEF SignsOff
  <2> QED BY <1>5, <2>1, <2>2, <2>3, Returns, Zenon
<1>6. ASSUME Crash PROVE Goal
  BY <1>6 DEF Crash, Busy, IdleWorker
<1>7. ASSUME worker' = worker PROVE Goal
  BY <1>1, <1>7, Zenon
<1>8. ASSUME NEW p \in Partition, Publish(p) \/ Commit(p) \/ HandlerStep(p) PROVE worker' = worker
  BY <1>8, Zenon DEF Publish, Commit, HandlerStep, ParkMessage, ArmParked, handleMessage, Dispatch, service
<1>9. ASSUME TimerStep \/ StopFlag \/ StopWait \/ StopClose \/ StopConsumer \/ UNCHANGED vars
      PROVE  worker' = worker
  BY <1>9, Zenon DEF TimerStep, TimerFires, TimerSends, StopFlag, StopWait, StopClose, StopConsumer, vars,
                    service
<1> HIDE DEF Goal
<1>10. Goal
  BY <1>2, <1>3, <1>4, <1>5, <1>6, <1>7, <1>8, <1>9, ZenonT(40) DEF Next, WorkerStep, WorkStep, Quiescent
<1> QED BY <1>10 DEF Goal

(* A worker has sorted its item when it took it. *)
LEMMA SortedStep == ASSUME TypeOK, Sorted, [Next]_vars PROVE Sorted'
<1> SUFFICES ASSUME NEW w \in Worker, Busy(w)'
             PROVE  /\ worker'[w].first => Cb(worker'[w].item.id).type = "STUMP"
                    /\ worker'[w].pc \notin Past => Cb(worker'[w].item.id).type = "BLOCK_PROCESSED"
  BY Zenon DEF Sorted
<1>1. CASE Take(w)
  <2>1. FirstStump(workCh[1]) => Cb(workCh[1].id).type = "STUMP"
    BY Zenon DEF FirstStump
  <2>2. GateEntry(workCh[1]) \notin Past => Cb(workCh[1].id).type = "BLOCK_PROCESSED"
    BY DEF GateEntry, Past
  <2> QED BY <1>1, <2>1, <2>2, Takes, Zenon
<1>2. CASE /\ Busy(w)
           /\ worker'[w].item.id = worker[w].item.id /\ worker'[w].first = worker[w].first
           /\ worker'[w].pc \notin Past => worker[w].pc \notin Past
  <2>1. /\ worker[w].first => Cb(worker[w].item.id).type = "STUMP"
        /\ worker[w].pc \notin Past => Cb(worker[w].item.id).type = "BLOCK_PROCESSED"
    BY <1>2, Zenon DEF Sorted
  <2>2. Cb(worker'[w].item.id) = Cb(worker[w].item.id)
    BY <1>2, Zenon
  <2> QED BY <1>2, <2>1, <2>2, Zenon
<1>3. "waiting" \notin Past
  BY DEF Past
<1> QED BY <1>1, <1>2, <1>3, Continues, Zenon

(* Retries are counted. *)
LEMMA RetriedStep == ASSUME TypeOK, Prefix, Retried, [Next]_vars PROVE Retried'
<1>1. ASSUME NEW w \in Worker, worker'[w].pc = "park" PROVE worker'[w].item.retry > 0
  <2>1. Busy(w)'
    BY <1>1 DEF Busy
  <2>2. CASE Take(w)
    BY <1>1, <2>2, Takes
  <2>3. CASE worker'[w] = worker[w]
    BY <1>1, <2>3, Zenon DEF Retried
  <2>4. CASE WorkStep(w)
    BY <1>1, <2>4, WorkMoves, Zenon
  <2>5. CASE worker'[w].pc \in {"exists", "ungate", "waiting"} \/ worker'[w].pc = "woken"
    BY <1>1, <2>5
  <2> QED BY <2>1, <2>2, <2>3, <2>4, <2>5, Continues, Zenon
<1>2. ASSUME NEW x \in Timers' PROVE x.retry > 0
  <2>1. ASSUME Timers' \subseteq Timers PROVE x.retry > 0
    BY <2>1, Zenon DEF Retried
  <2>2. ASSUME NEW p \in Partition, Publish(p) \/ Commit(p) \/ ParkMessage(p) \/ handleMessage(p) \/ Dispatch(p)
        PROVE  x.retry > 0
    BY <2>1, <2>2, Zenon DEF Publish, Commit, ParkMessage, handleMessage, Dispatch, service, Timers
  <2>3. ASSUME NEW p \in Partition, ArmParked(p) PROVE x.retry > 0
    <3>1. handler[p] = "park" /\ HasMessage(topic[p])
      BY <2>3 DEF ArmParked, Prefix, Follows
    <3>2. Fetched(p).retry > 0
      <4>1. Fetched(p).retry = Cb(<<p, topic[p].next>>).retry
        BY <3>1, FetchedFields, Zenon
      <4>2. Cb(<<p, topic[p].next>>).retry > 0
        BY <3>1, Zenon DEF Retried
      <4> QED BY <4>1, <4>2, Zenon
    <3>3. Timers' = Timers \cup {Fetched(p)}
      BY <2>3, Zenon DEF ArmParked, Timers
    <3> QED BY <3>2, <3>3, ZenonT(30) DEF Retried
  <2>4. ASSUME NEW w \in Worker, Take(w) \/ GateWait(w) \/ GateWoken(w) \/ GateOpened(w) \/ Return(w)
        PROVE  x.retry > 0
    BY <2>1, <2>4, Zenon DEF Take, GateWait, GateWoken, GateOpened, Return, Timers
  <2>5. ASSUME NEW w \in Worker, WorkStep(w) PROVE x.retry > 0
    <3>1. \/ Timers' = Timers
          \/ worker[w].pc = "park" /\ Timers' = Timers \cup {worker[w].item}
      BY <2>5, Moves, Zenon DEF Timers
    <3> QED BY <3>1, Zenon DEF Retried
  <2>6. ASSUME NEW y \in Timers, TimerFires(y) \/ TimerSends(y) PROVE x.retry > 0
    BY <2>1, <2>6, Zenon DEF TimerFires, TimerSends, Timers
  <2>7. ASSUME StopFlag \/ StopWait \/ StopClose \/ StopConsumer \/ Crash \/ UNCHANGED vars
        PROVE  x.retry > 0
    BY <2>1, <2>7, Zenon DEF StopFlag, StopWait, StopClose, StopConsumer, Crash, vars, service, Timers
  <2> QED BY <2>2, <2>3, <2>4, <2>5, <2>6, <2>7, ZenonT(40)
      DEF Next, HandlerStep, WorkerStep, WorkStep, TimerStep, Quiescent
<1>3. ASSUME NEW q \in Partition, handler'[q] = "park" PROVE Cb(<<q, topic'[q].next>>).retry > 0
  <2>1. ASSUME handler'[q] = handler[q], topic'[q].next = topic[q].next
        PROVE  Cb(<<q, topic'[q].next>>).retry > 0
    BY <1>3, <2>1, Zenon DEF Retried
  <2>2. ASSUME NEW p \in Partition, Publish(p) \/ Commit(p) PROVE Cb(<<q, topic'[q].next>>).retry > 0
    <3>1. topic \in [Partition -> PartitionOfType(Callback)]
      BY Zenon DEF TypeOK
    <3>2. /\ \A m : Published(topic[p], m).next = topic[p].next
          /\ Committed(topic[p]).next = topic[p].next
      BY <3>1, PartitionOffsets, Zenon
    <3>3. topic'[q].next = topic[q].next /\ handler' = handler
      BY <2>2, <3>1, <3>2, Zenon DEF Publish, Commit, service
    <3> QED BY <2>1, <3>3, Zenon
  <2>3. ASSUME NEW p \in Partition, HandlerStep(p) PROVE Cb(<<q, topic'[q].next>>).retry > 0
    <3>1. CASE q # p
      BY <2>1, <2>3, <3>1, HandlerMoves, Zenon
    <3>2. CASE q = p
      <4>1. topic'[p] = topic[p] /\ ParkMessage(p)
        <5>1. handler'[p] # "idle" /\ handler'[p] # "send"
          BY <1>3, <3>2
        <5> QED BY <2>3, <5>1, HandlerMoves, Zenon
      <4>2. HasMessage(topic[p]) /\ Fetched(p).retry > 0
        BY <4>1, Zenon DEF ParkMessage, CanHandle
      <4>3. Fetched(p).retry = Cb(<<p, topic[p].next>>).retry
        BY <4>2, FetchedFields, Zenon
      <4> QED BY <3>2, <4>1, <4>2, <4>3, Zenon
    <3> QED BY <3>1, <3>2
  <2>4. ASSUME Crash PROVE Cb(<<q, topic'[q].next>>).retry > 0
    BY <1>3, <2>4 DEF Crash
  <2>5. ASSUME \/ \E w \in Worker : WorkerStep(w)
               \/ TimerStep \/ StopFlag \/ StopWait \/ StopClose \/ StopConsumer \/ UNCHANGED vars
        PROVE  Cb(<<q, topic'[q].next>>).retry > 0
    BY <2>1, <2>5, StillTopic, Zenon
  <2> QED BY <2>2, <2>3, <2>4, <2>5, Zenon DEF Next, Quiescent
<1> QED BY <1>1, <1>2, <1>3, Zenon DEF Retried

(* The operations of the gate keep one wait group per key. *)
LEMMA GroupsKept ==
    ASSUME NEW g \in GateOfType(GateKey), GroupsOf(g), NEW k \in GateKey
    PROVE  GroupsOf(GateAdd(g, k)) /\ GroupsOf(GateDone(g, k)) /\ GroupsOf(GateDelete(g, k))
<1>1. /\ \A j \in GateKey : g.at[j] \in 0..Len(g.count)
      /\ \A i, j \in GateKey : HasGroup(g, j) /\ g.at[i] = g.at[j] => i = j
  BY Zenon DEF GroupsOf
<1>2. Len(g.count) \in Nat /\ NoGroup = 0
  BY DEF GateOfType, NoGroup
<1>3. GroupsOf(GateAdd(g, k))
  <2>1. CASE HasGroup(g, k)
    <3>1. g.at[k] \in 0..Len(g.count)
      BY <1>1, Zenon
    <3>2. GateAdd(g, k).at = g.at
      BY <2>1, <3>1, AddToGroup, Zenon
    <3>3. Len(GateAdd(g, k).count) = Len(g.count)
      BY <2>1, <3>1, AddToGroup, ZenonT(40)
    <3> QED BY <1>1, <3>2, <3>3, Zenon DEF GroupsOf, HasGroup
  <2>2. CASE ~HasGroup(g, k)
    <3> DEFINE h == GateAdd(g, k)
    <3>1. \A j \in GateKey : h.at[j] = IF j = k THEN Len(g.count) + 1 ELSE g.at[j]
      BY <2>2, AddsGroup, Zenon
    <3>2. Len(h.count) = Len(g.count) + 1
      BY <2>2, AddsGroup, ZenonT(40)
    <3> HIDE DEF h
    <3> QED BY <1>1, <1>2, <3>1, <3>2 DEF GroupsOf, HasGroup, h
  <2> QED BY <2>1, <2>2
<1>4. GroupsOf(GateDone(g, k))
  <2>1. CASE HasGroup(g, k)
    <3>1. g.at[k] \in 0..Len(g.count)
      BY <1>1, Zenon
    <3>2. GateDone(g, k).at = g.at
      BY <2>1, <3>1, DoneInGroup, Zenon
    <3>3. Len(GateDone(g, k).count) = Len(g.count)
      BY <2>1, <3>1, DoneInGroup, Zenon
    <3> QED BY <1>1, <3>2, <3>3, Zenon DEF GroupsOf, HasGroup
  <2>2. CASE ~HasGroup(g, k)
    BY <2>2, ZenonT(40) DEF GateDone
  <2> QED BY <2>1, <2>2
<1>5. GroupsOf(GateDelete(g, k))
  <2> DEFINE h == GateDelete(g, k)
  <2>1. \A j \in GateKey : h.at[j] = IF j = k THEN NoGroup ELSE g.at[j]
    BY DeletesGroup, Zenon
  <2>2. h.count = g.count
    BY DeletesGroup, Zenon
  <2> HIDE DEF h
  <2> QED BY <1>1, <1>2, <2>1, <2>2 DEF GroupsOf, HasGroup, h
<1> QED BY <1>3, <1>4, <1>5

(* A gate without wait groups. *)
LEMMA NewGate ==
    /\ GroupsOf(newStumpGate(GateKey))
    /\ \A k \in GateKey : ~HasGroup(newStumpGate(GateKey), k)
BY DEF GroupsOf, newStumpGate, HasGroup, NoGroup

(* Who changes the gate. *)
LEMMA GateChanges ==
    ASSUME [Next]_vars
    PROVE  \/ gate' = gate
           \/ \E p \in Partition : /\ handleMessage(p) /\ FirstStump(Fetched(p))
                                   /\ gate' = GateAdd(gate, gateKey(Fetched(p).id))
           \/ \E w \in Worker : GateOpened(w) /\ gate' = GateDelete(gate, KeyOf(w))
           \/ \E w \in Worker : Return(w) /\ worker[w].first /\ gate' = GateDone(gate, KeyOf(w))
           \/ Crash
<1>1. ASSUME NEW p \in Partition, Publish(p) \/ Commit(p) \/ ParkMessage(p) \/ ArmParked(p) \/ Dispatch(p)
      PROVE  gate' = gate
  BY <1>1, Zenon DEF Publish, Commit, ParkMessage, ArmParked, Dispatch, service
<1>2. ASSUME NEW p \in Partition, handleMessage(p)
      PROVE  gate' = IF FirstStump(Fetched(p)) THEN GateAdd(gate, gateKey(Fetched(p).id)) ELSE gate
  BY <1>2, Zenon DEF handleMessage
<1>3. ASSUME NEW w \in Worker, Take(w) \/ GateWait(w) \/ GateWoken(w) \/ WorkStep(w) PROVE gate' = gate
  BY <1>3, Zenon DEF Take, GateWait, GateWoken, WorkStep, Exists, ExistsFails, PostSucceeds,
                     PostFails, StumpMissing, Record, publishToDLQWithRetry, ArmTimer
<1>4. ASSUME NEW w \in Worker, GateOpened(w) PROVE gate' = GateDelete(gate, KeyOf(w))
  BY <1>4, Zenon DEF GateOpened, KeyOf
<1>5. ASSUME NEW w \in Worker, Return(w)
      PROVE  gate' = IF worker[w].first THEN GateDone(gate, KeyOf(w)) ELSE gate
  BY <1>5, Zenon DEF Return, KeyOf, SignsOff
<1>6. ASSUME TimerStep \/ StopFlag \/ StopWait \/ StopClose \/ StopConsumer \/ UNCHANGED vars PROVE gate' = gate
  BY <1>6, Zenon DEF TimerStep, TimerFires, TimerSends, StopFlag, StopWait, StopClose, StopConsumer, vars,
                     service
<1> QED BY <1>1, <1>2, <1>3, <1>4, <1>5, <1>6, Zenon
    DEF Next, HandlerStep, WorkerStep, WorkStep, Quiescent

(* Every key keeps a wait group of its own. *)
LEMMA GroupsStep == ASSUME TypeOK, Prefix, GroupsOf(gate), [Next]_vars PROVE GroupsOf(gate')
<1>1. gate \in GateOfType(GateKey)
  BY Zenon DEF TypeOK
<1>2. ASSUME NEW p \in Partition, handleMessage(p) PROVE gateKey(Fetched(p).id) \in GateKey
  <2>1. HasMessage(topic[p])
    BY <1>2, Zenon DEF handleMessage, CanHandle
  <2> QED BY <2>1, FetchedFields, IdFields, Zenon
<1>3. ASSUME NEW w \in Worker, GateOpened(w) \/ Return(w) PROVE KeyOf(w) \in GateKey
  <2>1. Busy(w)
    BY <1>3, ZenonT(40) DEF GateOpened, Return, At, Busy
  <2> QED BY <2>1, BusyFields, ZenonT(40)
<1>4. Crash => GroupsOf(gate')
  BY NewGate, Zenon DEF Crash
<1> QED BY <1>1, <1>2, <1>3, <1>4, GateChanges, GroupsKept, Zenon

(* Who changes the work channel. *)
LEMMA QueueChanges ==
    ASSUME [Next]_vars
    PROVE  \/ workCh' = workCh
           \/ \E p \in Partition : Dispatch(p) /\ ~Closed
           \/ \E x \in Timers : TimerSends(x)
           \/ \E w \in Worker : Take(w)
           \/ Crash
<1>1. ASSUME NEW p \in Partition, Publish(p) \/ Commit(p) \/ ParkMessage(p) \/ ArmParked(p) \/ handleMessage(p)
      PROVE  workCh' = workCh
  BY <1>1, Zenon DEF Publish, Commit, ParkMessage, ArmParked, handleMessage, service
<1>2. ASSUME NEW p \in Partition, Dispatch(p), Closed PROVE workCh' = workCh
  BY <1>2, Zenon DEF Dispatch
<1>3. ASSUME NEW w \in Worker, GateWait(w) \/ GateWoken(w) \/ GateOpened(w) \/ WorkStep(w) \/ Return(w)
      PROVE  workCh' = workCh
  BY <1>3, Zenon DEF GateWait, GateWoken, GateOpened, Return, WorkStep, Exists, ExistsFails, PostSucceeds,
                     PostFails, StumpMissing, Record, publishToDLQWithRetry, ArmTimer
<1>4. ASSUME NEW x \in Timers, TimerFires(x) PROVE workCh' = workCh
  BY <1>4, Zenon DEF TimerFires
<1>5. ASSUME StopFlag \/ StopWait \/ StopClose \/ StopConsumer \/ UNCHANGED vars PROVE workCh' = workCh
  BY <1>5, Zenon DEF StopFlag, StopWait, StopClose, StopConsumer, vars, service
<1> QED BY <1>1, <1>2, <1>3, <1>4, <1>5, ZenonT(40)
    DEF Next, HandlerStep, WorkerStep, WorkStep, TimerStep, Quiescent

(* The message a handler is at has not been handed over. *)
LEMMA FetchedFresh ==
    ASSUME TypeOK, Prefix, Passed, NEW p \in Partition, HasMessage(topic[p])
    PROVE  ~Held(Fetched(p).id)
<1>1. Fetched(p).id = <<p, topic[p].next>> /\ Fetched(p).id \in Id /\ topic[p].next \in Nat \ {0}
  BY FetchedFields, Zenon
<1>2. ~Behind(Fetched(p).id)
  <2>1. Fetched(p).id[1] = p /\ Fetched(p).id[2] = topic[p].next
    BY <1>1
  <2>2. ~(topic[p].next < topic[p].next)
    BY <1>1
  <2> QED BY <2>1, <2>2, Zenon DEF Behind
<1> QED BY <1>1, <1>2, Zenon DEF Passed

(* What a send adds to the channel is a retry, or was with the handler until now. *)
LEMMA Sends ==
    ASSUME TypeOK, Prefix, Passed, Retried,
           \/ \E p \in Partition : Dispatch(p) /\ ~Closed
           \/ \E x \in Timers : TimerSends(x)
    PROVE  \E y \in Item : /\ workCh' = Append(workCh, y) /\ worker' = worker
                           /\ ~FirstStump(y) \/ ~Held(y.id)
<1>1. ASSUME NEW p \in Partition, Dispatch(p), ~Closed
      PROVE  /\ Fetched(p) \in Item /\ workCh' = Append(workCh, Fetched(p)) /\ worker' = worker
             /\ ~Held(Fetched(p).id)
  <2>1. HasMessage(topic[p])
    BY <1>1, ZenonT(40) DEF Dispatch, Prefix, Follows
  <2>2. workCh' = Append(workCh, Fetched(p)) /\ worker' = worker
    BY <1>1, Zenon DEF Dispatch
  <2> QED BY <2>1, <2>2, FetchedFields, FetchedFresh, ZenonT(40)
<1>2. ASSUME NEW x \in Timers, TimerSends(x)
      PROVE  x \in Item /\ workCh' = Append(workCh, x) /\ worker' = worker /\ ~FirstStump(x)
  <2>1. x \in Item /\ workCh' = Append(workCh, x) /\ worker' = worker
    BY <1>2, Zenon DEF TimerSends, TypeOK
  <2>2. x.retry > 0
    BY <1>2, Zenon DEF Retried
  <2>3. ~FirstStump(x)
    BY <2>2 DEF FirstStump
  <2> QED BY <2>1, <2>3
<1> QED BY <1>1, <1>2, Zenon

(* A first attempt moves on from one place to the next. *)
LEMMA FirstOnceStep == ASSUME TypeOK, Prefix, Passed, Retried, FirstOnce, [Next]_vars PROVE FirstOnce'
<1>0. /\ \A m, n \in 1..Len(workCh) :
             FirstStump(workCh[m]) /\ workCh[m].id = workCh[n].id /\ FirstStump(workCh[n]) => m = n
      /\ \A v, w \in Worker :
             /\ Busy(v) /\ Busy(w) /\ worker[v].first /\ worker[w].first
             /\ worker[v].item.id = worker[w].item.id
             => v = w
      /\ \A n \in 1..Len(workCh), w \in Worker :
             FirstStump(workCh[n]) /\ Busy(w) /\ worker[w].first
             => workCh[n].id # worker[w].item.id
  BY Zenon DEF FirstOnce
<1>1. CASE workCh' = workCh /\ ~ \E w \in Worker : Take(w)
  <2>1. \A v \in Worker : Busy(v)' => /\ Busy(v) /\ worker'[v].item.id = worker[v].item.id
                                      /\ worker'[v].first = worker[v].first
    BY <1>1, Continues, Zenon
  <2>2. \A v, w \in Worker :
             /\ Busy(v)' /\ Busy(w)' /\ worker'[v].first /\ worker'[w].first
             /\ worker'[v].item.id = worker'[w].item.id
             => v = w
    BY <1>0, <2>1, Zenon
  <2>3. \A n \in 1..Len(workCh), w \in Worker :
             FirstStump(workCh[n]) /\ Busy(w)' /\ worker'[w].first
             => workCh[n].id # worker'[w].item.id
    BY <1>0, <2>1, Zenon
  <2> QED BY <1>0, <1>1, <2>2, <2>3, Zenon DEF FirstOnce
<1>2. CASE \/ \E p \in Partition : Dispatch(p) /\ ~Closed
           \/ \E x \in Timers : TimerSends(x)
  <2>1. PICK y \in Item : /\ workCh' = Append(workCh, y) /\ worker' = worker
                          /\ ~FirstStump(y) \/ ~Held(y.id)
    BY <1>2, Sends, Zenon
  <2>2. /\ Len(workCh') = Len(workCh) + 1 /\ workCh'[Len(workCh) + 1] = y /\ Len(workCh) \in Nat
        /\ \A n \in 1..Len(workCh) : workCh'[n] = workCh[n]
    BY <2>1, QueueFields, Zenon
  <2>3. FirstStump(y) => /\ \A n \in 1..Len(workCh) : workCh[n].id # y.id
                         /\ \A w \in Worker : Busy(w) => worker[w].item.id # y.id
    BY <2>1, Zenon DEF Held
  <2>4. \A n \in 1..Len(workCh') : n = Len(workCh) + 1 \/ n \in 1..Len(workCh)
    BY <2>2
  <2>5. ASSUME NEW m \in 1..Len(workCh'), NEW n \in 1..Len(workCh'),
               FirstStump(workCh'[m]), FirstStump(workCh'[n]), workCh'[m].id = workCh'[n].id
        PROVE  m = n
    BY <1>0, <2>2, <2>3, <2>4, <2>5, Zenon
  <2>6. ASSUME NEW n \in 1..Len(workCh'), NEW w \in Worker,
               FirstStump(workCh'[n]), Busy(w), worker[w].first
        PROVE  workCh'[n].id # worker[w].item.id
    BY <1>0, <2>2, <2>3, <2>4, <2>6, ZenonT(40)
  <2> QED BY <1>0, <2>1, <2>5, <2>6, ZenonT(40) DEF FirstOnce, Busy
<1>3. ASSUME NEW w \in Worker, Take(w) PROVE FirstOnce'
  <2>1. /\ \A v \in Worker : v # w => worker'[v] = worker[v]
        /\ worker'[w].item = workCh[1] /\ worker'[w].first = FirstStump(workCh[1]) /\ 1 \in 1..Len(workCh)
    BY <1>3, Takes, Zenon
  <2>2. workCh' = Tail(workCh) /\ workCh # <<>>
    BY <1>3, ZenonT(40) DEF Take
  <2>3. \A n \in 1..Len(workCh') : n + 1 \in 1..Len(workCh) /\ workCh'[n] = workCh[n + 1] /\ n + 1 # 1
    BY <2>2, QueueFields
  <2>4. ASSUME NEW m \in 1..Len(workCh'), NEW n \in 1..Len(workCh'),
               FirstStump(workCh'[m]), FirstStump(workCh'[n]), workCh'[m].id = workCh'[n].id
        PROVE  m = n
    <3>1. m + 1 = n + 1
      BY <1>0, <2>3, <2>4, ZenonT(40)
    <3> QED BY <3>1
  <2>5. ASSUME NEW n \in 1..Len(workCh'), NEW v \in Worker,
               FirstStump(workCh'[n]), Busy(v)', worker'[v].first
        PROVE  workCh'[n].id # worker'[v].item.id
    <3>0. n + 1 \in 1..Len(workCh) /\ workCh'[n] = workCh[n + 1] /\ n + 1 # 1 /\ FirstStump(workCh[n + 1])
      BY <2>3, <2>5, Zenon
    <3>1. CASE v = w
      <4>1. FirstStump(workCh[1]) /\ worker'[v].item.id = workCh[1].id
        BY <2>1, <2>5, <3>1, Zenon
      <4>2. workCh[n + 1].id = workCh[1].id => n + 1 = 1
        BY <1>0, <2>1, <3>0, <4>1, Zenon
      <4> QED BY <3>0, <4>1, <4>2, Zenon
    <3>2. CASE v # w
      <4>1. worker'[v] = worker[v]
        BY <2>1, <3>2, Zenon
      <4>2. Busy(v)
        BY <2>5, <4>1 DEF Busy
      <4>3. worker[v].first
        BY <2>5, <4>1
      <4>4. workCh[n + 1].id # worker[v].item.id
        BY <1>0, <3>0, <4>2, <4>3, Zenon
      <4> QED BY <3>0, <4>1, <4>4, Zenon
    <3> QED BY <3>1, <3>2
  <2>6. ASSUME NEW u \in Worker, NEW v \in Worker, Busy(u)', Busy(v)', worker'[u].first, worker'[v].first,
               worker'[u].item.id = worker'[v].item.id
        PROVE  u = v
    <3>1. \A t \in Worker : t # w => (Busy(t)' <=> Busy(t)) /\ worker'[t] = worker[t]
      BY <2>1, Zenon DEF Busy
    <3>2. CASE u # w /\ v # w
      BY <1>0, <2>6, <3>1, <3>2, ZenonT(40)
    <3>3. ASSUME NEW t \in Worker, t # w, Busy(t)', worker'[t].first, FirstStump(workCh[1])
          PROVE  worker'[t].item.id # workCh[1].id
      <4>1. Busy(t) /\ worker[t].first /\ worker'[t] = worker[t]
        BY <3>1, <3>3, Zenon
      <4>2. workCh[1].id # worker[t].item.id
        BY <1>0, <2>1, <3>3, <4>1, Zenon
      <4> QED BY <4>1, <4>2, Zenon
    <3> QED BY <2>1, <2>6, <3>2, <3>3, Zenon
  <2> QED BY <2>4, <2>5, <2>6, Zenon DEF FirstOnce
<1>4. CASE Crash
  <2>1. workCh' = <<>> /\ \A w \in Worker : worker'[w] = IdleWorker
    BY <1>4, Zenon DEF Crash
  <2>2. Len(workCh') = 0 /\ 1..0 = {}
    BY <2>1
  <2>3. \A w \in Worker : ~Busy(w)'
    BY <2>1 DEF Busy, IdleWorker
  <2> QED BY <2>2, <2>3, Zenon DEF FirstOnce
<1> QED BY <1>1, <1>2, <1>3, <1>4, QueueChanges, Zenon

(* No timer callback reaches its send once the channel is closed. *)
LEMMA TimersStep == ASSUME TypeOK, NoTimerSendsOnClosed, [Next]_vars PROVE NoTimerSendsOnClosed'
<1> SUFFICES ASSUME Closed' PROVE firing' = {}
  BY Zenon DEF NoTimerSendsOnClosed
<1>1. CASE Closed
  <2>1. firing = {} /\ ShuttingDown
    BY <1>1 DEF NoTimerSendsOnClosed, Closed, ShuttingDown
  <2>2. ASSUME NEW x \in Timers, TimerFires(x) \/ TimerSends(x) PROVE firing' = {}
    BY <2>1, <2>2, ZenonT(30) DEF TimerFires, TimerSends
  <2>3. ASSUME ~TimerStep PROVE firing' = {}
    BY <2>1, <2>3, ZenonT(40) DEF Next, Publish, Commit, HandlerStep, ParkMessage, ArmParked, handleMessage,
       Dispatch, WorkerStep, Take, GateWait, GateWoken, GateOpened, Exists, ExistsFails, PostSucceeds,
       PostFails, StumpMissing, Record, publishToDLQWithRetry, ArmTimer, Return, StopFlag, StopWait,
       StopClose, StopConsumer, Crash, Quiescent, vars, service
  <2> QED BY <2>2, <2>3, Zenon DEF TimerStep
<1>2. CASE ~Closed
  <2>1. ASSUME StopClose PROVE firing' = {}
    <3>1. firing' = firing
      BY <2>1, Zenon DEF StopClose, service
    <3>2. Timers = {}
      BY <1>2, <2>1, Zenon DEF StopClose, Closed
    <3> QED BY <3>1, <3>2, Zenon DEF Timers
  <2>2. ASSUME TimerStep PROVE FALSE
    <3>1. stopping' \in {stopping, "released"}
      BY <2>2, Zenon DEF TimerStep, TimerFires, TimerSends, TimerDone
    <3> QED BY <1>2, <3>1 DEF Closed
  <2>3. ASSUME StopFlag \/ StopWait \/ StopConsumer \/ Crash PROVE FALSE
    BY <1>2, <2>3 DEF StopFlag, StopWait, StopConsumer, Crash, Closed
  <2>4. ASSUME stopping' = stopping PROVE FALSE
    BY <1>2, <2>4, ZenonT(30) DEF Closed
  <2>5. ASSUME ~TimerStep, ~StopFlag, ~StopWait, ~StopClose, ~StopConsumer, ~Crash PROVE stopping' = stopping
    BY <2>5, ZenonT(40) DEF Next, Publish, Commit, HandlerStep, ParkMessage, ArmParked, handleMessage,
       Dispatch, WorkerStep, Take, GateWait, GateWoken, GateOpened, Exists, ExistsFails, PostSucceeds,
       PostFails, StumpMissing, Record, publishToDLQWithRetry, ArmTimer, Return, Quiescent, vars
  <2> QED BY <2>1, <2>2, <2>3, <2>4, <2>5, Zenon
<1> QED BY <1>1, <1>2

(* What the receiver has got, it has. *)
LEMMA ReceivedGrows == ASSUME TypeOK, [Next]_vars PROVE received \subseteq received'
<1>1. ASSUME NEW w \in Worker, WorkStep(w) PROVE received \subseteq received'
  BY <1>1, Moves, Zenon
<1>2. ASSUME NEW w \in Worker, Take(w) \/ GateWait(w) \/ GateWoken(w) \/ GateOpened(w) \/ Return(w)
      PROVE  received' = received
  BY <1>2, ZenonT(40) DEF Take, GateWait, GateWoken, GateOpened, Return, history
<1>3. ASSUME ~ \E w \in Worker : WorkerStep(w) PROVE received' = received
  BY <1>3, ZenonT(40) DEF Next, Publish, Commit, HandlerStep, ParkMessage, ArmParked, handleMessage, Dispatch,
     TimerStep, TimerFires, TimerSends, StopFlag, StopWait, StopClose, StopConsumer, Crash, Quiescent, vars,
     history
<1> QED BY <1>1, <1>2, <1>3, Zenon DEF WorkerStep, WorkStep

(* Only what was received is recorded. *)
LEMMA RecordersStep == ASSUME TypeOK, Recorders, [Next]_vars PROVE Recorders'
<1>1. received \subseteq received'
  BY ReceivedGrows, Zenon
<1>2. ASSUME NEW w \in Worker, worker'[w].pc = "record" PROVE worker'[w].item.id \in received'
  <2>1. Busy(w)'
    BY <1>2 DEF Busy
  <2>2. CASE Take(w)
    BY <1>2, <2>2, Takes
  <2>3. CASE worker'[w] = worker[w]
    BY <1>1, <1>2, <2>3, Zenon DEF Recorders
  <2>4. CASE WorkStep(w)
    BY <1>2, <2>4, WorkMoves, Zenon
  <2>5. CASE worker'[w].pc \in {"exists", "ungate", "waiting"} \/ worker'[w].pc = "woken"
    BY <1>2, <2>5
  <2> QED BY <2>1, <2>2, <2>3, <2>4, <2>5, Continues, ZenonT(40)
<1>3. \/ dedup' \subseteq dedup
      \/ \E w \in Worker : worker[w].pc = "record" /\ dedup' \subseteq WithRecord(worker[w].item.id)
  <2>1. ASSUME NEW w \in Worker, Record(w)
        PROVE  worker[w].pc = "record" /\ dedup' \subseteq WithRecord(worker[w].item.id)
    BY <2>1, Zenon DEF Record, At, WithRecord
  <2>2. ASSUME NEW w \in Worker, WorkerStep(w), ~Record(w) PROVE dedup' = dedup
    BY <2>2, ZenonT(40) DEF WorkerStep, Take, GateWait, GateWoken, GateOpened, Exists, ExistsFails, PostSucceeds,
       PostFails, StumpMissing, publishToDLQWithRetry, ArmTimer, Return
  <2>3. ASSUME ~ \E w \in Worker : WorkerStep(w) PROVE dedup' = dedup
    BY <2>3, ZenonT(40) DEF Next, Publish, Commit, HandlerStep, ParkMessage, ArmParked, handleMessage, Dispatch,
       TimerStep, TimerFires, TimerSends, StopFlag, StopWait, StopClose, StopConsumer, Crash, Quiescent, vars
  <2> QED BY <2>1, <2>2, <2>3, Zenon
<1>4. ASSUME NEW d \in dedup' PROVE \E j \in received' : dedupKeyForMessage(j) = d
  <2>1. CASE d \in dedup
    BY <1>1, <2>1, Zenon DEF Recorders
  <2>2. ASSUME NEW w \in Worker, worker[w].pc = "record", d = dedupKeyForMessage(worker[w].item.id)
        PROVE  \E j \in received' : dedupKeyForMessage(j) = d
    <3>1. worker[w].item.id \in received'
      BY <1>1, <2>2, Zenon DEF Recorders
    <3> QED BY <2>2, <3>1, Zenon
  <2> QED BY <1>3, <2>1, <2>2, Zenon DEF WithRecord
<1> QED BY <1>2, <1>4, Zenon DEF Recorders

(* Messages with one dedup key are the same callback. *)
LEMMA SameCallback ==
    ASSUME NEW i \in Id, NEW j \in Id, dedupKeyForMessage(i) = dedupKeyForMessage(j)
    PROVE  [Cb(j) EXCEPT !.retry = 0] = [Cb(i) EXCEPT !.retry = 0]
<1>1. ASSUME NEW id \in Id PROVE Cb(id) \in Callback /\ (Cb(id).type # "STUMP" => Cb(id).index = 0)
  BY IdFields, IndexAssumption, Zenon DEF Cb
<1> DEFINE a == Cb(i)
           b == Cb(j)
<1>2. /\ a \in Callback /\ b \in Callback
      /\ a.type # "STUMP" => a.index = 0
      /\ b.type # "STUMP" => b.index = 0
  BY <1>1, Zenon
<1>3. /\ a.url = b.url /\ a.type = b.type /\ a.block = b.block
      /\ (IF a.type = "STUMP" THEN a.index ELSE 0) = (IF b.type = "STUMP" THEN b.index ELSE 0)
  BY DEF dedupKeyForMessage
<1> HIDE DEF a, b
<1>4. a.index = b.index
  BY <1>2, <1>3
<1>5. [a EXCEPT !.retry = 0] = [b EXCEPT !.retry = 0]
  BY <1>2, <1>3, <1>4 DEF Callback
<1> QED BY <1>5 DEF a, b

(* A message gets the fate "skipped" only from the dedup store. *)
LEMMA Skips ==
    ASSUME TypeOK, [Next]_vars, NEW i \in Id, fate'[i] = "skipped"
    PROVE  fate[i] = "skipped" \/ Recorded(i)
<1> DEFINE Goal == fate[i] = "skipped" \/ Recorded(i)
<1>0. fate \in [Id -> Fate]
  BY Zenon DEF TypeOK
<1>1. ASSUME NEW x, NEW f, f # "skipped", fate' = [fate EXCEPT ![x] = f] PROVE Goal
  BY <1>0, <1>1, Zenon
<1>2. ASSUME fate' = fate PROVE Goal
  BY <1>2, Zenon
<1>3. "dropped" # "skipped" /\ "delivered" # "skipped" /\ "dlq" # "skipped" /\ "lost" # "skipped"
  OBVIOUS
<1>4. ASSUME NEW p \in Partition, ParkMessage(p) PROVE Goal
  BY <1>1, <1>2, <1>3, <1>4, Zenon DEF ParkMessage
<1>5. ASSUME NEW w \in Worker, scheduleRetryAfterFailure(w) PROVE Goal
  BY <1>1, <1>2, <1>3, <1>5, Zenon DEF scheduleRetryAfterFailure, Settled
<1>6. ASSUME NEW w \in Worker, ExistsFails(w) \/ PostFails(w) \/ Record(w) \/ publishToDLQWithRetry(w) PROVE Goal
  BY <1>1, <1>2, <1>3, <1>5, <1>6, ZenonT(40) DEF ExistsFails, PostFails, Record, publishToDLQWithRetry, Settled
<1>7. ASSUME NEW w \in Worker, Exists(w) PROVE Goal
  BY <1>0, <1>2, <1>7, Zenon DEF Exists, Settled
<1>8. ASSUME NEW w \in Worker, \/ Take(w) \/ GateWait(w) \/ GateWoken(w) \/ GateOpened(w) \/ Return(w)
                               \/ PostSucceeds(w) \/ StumpMissing(w) \/ ArmTimer(w)
      PROVE  Goal
  BY <1>2, <1>8, Zenon DEF Take, GateWait, GateWoken, GateOpened, Return, PostSucceeds, StumpMissing,
     ArmTimer, history
<1>9. ASSUME NEW x \in Timers, TimerFires(x) \/ TimerSends(x) PROVE Goal
  BY <1>1, <1>2, <1>3, <1>9, Zenon DEF TimerFires, TimerSends, history
<1>10. ASSUME NEW p \in Partition, Publish(p) \/ Commit(p) \/ ArmParked(p) \/ handleMessage(p) \/ Dispatch(p)
       PROVE  Goal
  BY <1>2, <1>10, Zenon DEF Publish, Commit, ArmParked, handleMessage, Dispatch, history
<1>11. ASSUME StopFlag \/ StopWait \/ StopClose \/ StopConsumer \/ Crash \/ UNCHANGED vars PROVE Goal
  BY <1>2, <1>11, Zenon DEF StopFlag, StopWait, StopClose, StopConsumer, Crash, vars, history
<1> HIDE DEF Goal
<1>12. Goal
  BY <1>4, <1>6, <1>7, <1>8, <1>9, <1>10, <1>11, ZenonT(40)
     DEF Next, HandlerStep, WorkerStep, TimerStep, Quiescent
<1> QED BY <1>12 DEF Goal

(* What is skipped was delivered. *)
LEMMA SkippedStep ==
    ASSUME TypeOK, Recorders, SkippedIsDelivered, [Next]_vars PROVE SkippedIsDelivered'
<1> SUFFICES ASSUME NEW i \in Id, fate'[i] = "skipped"
             PROVE  \E j \in received' : [Cb(j) EXCEPT !.retry = 0] = [Cb(i) EXCEPT !.retry = 0]
  BY Zenon DEF SkippedIsDelivered
<1>1. received \subseteq received' /\ received \subseteq Id
  BY ReceivedGrows, Zenon DEF TypeOK
<1>2. CASE fate[i] = "skipped"
  <2>1. \E j \in received : [Cb(j) EXCEPT !.retry = 0] = [Cb(i) EXCEPT !.retry = 0]
    BY <1>2, Zenon DEF SkippedIsDelivered
  <2> QED BY <1>1, <2>1, Zenon
<1>3. CASE Recorded(i)
  <2>1. PICK j \in received : dedupKeyForMessage(j) = dedupKeyForMessage(i)
    BY <1>3, Zenon DEF Recorded, Recorders
  <2>2. [Cb(j) EXCEPT !.retry = 0] = [Cb(i) EXCEPT !.retry = 0]
    BY <1>1, <2>1, SameCallback, Zenon
  <2> QED BY <1>1, <2>2, Zenon
<1> QED BY <1>2, <1>3, Skips, Zenon

(* The service starts empty. *)
LEMMA InitBase == ASSUME Init PROVE Base
<1>1. \A p \in Partition : Input[p] \in Seq(Callback)
  BY DeliveryAssumption, Zenon
<1>2. EmptyPartition \in PartitionOfType(Callback) /\ EmptyPartition.log = <<>>
  BY DEF EmptyPartition, PartitionOfType, NoOffset
<1>3. newStumpGate(GateKey) \in GateOfType(GateKey)
  BY DEF newStumpGate, GateOfType, NoGroup
<1>4. <<>> \in Seq(Item) /\ Len(<<>>) = 0 /\ 1..0 = {}
  OBVIOUS
<1>5. TypeOK
  <2>1. /\ topic \in [Partition -> PartitionOfType(Callback)]
        /\ handler \in [Partition -> {"idle", "send", "park"}]
        /\ gate \in GateOfType(GateKey) /\ workCh \in Seq(Item)
        /\ worker \in [Worker -> {IdleWorker} \cup BusyWorker]
    BY <1>2, <1>3, <1>4, Zenon DEF Init
  <2>2. /\ parked \subseteq Item /\ firing \subseteq Item /\ dedup \subseteq DedupKey /\ received \subseteq Id
    BY Zenon DEF Init
  <2>3. fate \in [Id -> Fate] /\ acks \in [Id -> Nat]
    BY DEF Init, Fate
  <2>4. /\ stopping \in {"no", "flagged", "waiting", "released", "closed", "stopped"} /\ panicked \in BOOLEAN
        /\ faults \in Nat /\ crashes \in Nat
    <3>1. MaxFault \in Nat /\ MaxCrash \in Nat
      BY DeliveryAssumption, Zenon
    <3> QED BY <3>1, Zenon DEF Init
  <2> QED BY <2>1, <2>2, <2>3, <2>4, ZenonT(40) DEF TypeOK
<1>6. \A p \in Partition : topic[p] = EmptyPartition /\ handler[p] = "idle"
  BY Zenon DEF Init
<1>7. \A w \in Worker : worker[w].pc = "idle" /\ ~Busy(w)
  BY DEF Init, IdleWorker, Busy
<1>8. Len(workCh) = 0 /\ Timers = {}
  BY <1>4, Zenon DEF Init, Timers
<1>9. Prefix
  <2> SUFFICES ASSUME NEW p \in Partition PROVE Follows(topic[p], Input[p], handler[p])
    BY Zenon DEF Prefix
  <2>1. topic[p].log = <<>> /\ handler[p] = "idle" /\ Len(Input[p]) \in Nat
    <3>1. Len(Input[p]) \in Nat
      BY <1>1
    <3> QED BY <1>2, <1>6, <3>1, Zenon
  <2>2. Len(topic[p].log) = 0
    BY <2>1
  <2> QED BY <2>1, <2>2 DEF Follows
<1>10. Passed
  <2>1. ASSUME NEW id \in Id PROVE ~Held(id)
    BY <1>4, <1>7, <1>8, ZenonT(40) DEF Held
  <2> QED BY <2>1, Zenon DEF Passed
<1>11. Retried /\ Sorted
  BY <1>6, <1>7, <1>8 DEF Retried, Sorted
<1>12. FirstOnce
  BY <1>4, <1>7, <1>8, Zenon DEF FirstOnce
<1>13. GroupsOf(gate)
  BY NewGate, Zenon DEF Init
<1>14. NoTimerSendsOnClosed
  BY Zenon DEF Init, NoTimerSendsOnClosed
<1>15. Recorders /\ SkippedIsDelivered
  <2>1. Recorders
    BY <1>7 DEF Init, Recorders
  <2>2. SkippedIsDelivered
    BY DEF Init, SkippedIsDelivered
  <2> QED BY <2>1, <2>2
<1> QED BY <1>5, <1>9, <1>10, <1>11, <1>12, <1>13, <1>14, <1>15, ZenonT(40) DEF Base

(* Every step keeps the invariants. *)
LEMMA BaseStep == ASSUME Base, [Next]_vars PROVE Base'
<1> USE DEF Base
<1>1. TypeOK'
  BY TypeStep, Zenon
<1>2. Prefix' /\ Passed'
  BY PrefixStep, PassedStep, Zenon
<1>3. Retried' /\ Sorted' /\ FirstOnce'
  BY RetriedStep, SortedStep, FirstOnceStep, Zenon
<1>4. GroupsOf(gate')
  BY GroupsStep, Zenon
<1>5. NoTimerSendsOnClosed' /\ Recorders' /\ SkippedIsDelivered'
  BY TimersStep, RecordersStep, SkippedStep, Zenon
<1>6. GroupsOf(gate)'
  BY <1>4, Zenon DEF GroupsOf
<1> QED BY <1>1, <1>2, <1>3, <1>5, <1>6, Zenon

(* The invariant for every input. *)
LEMMA BaseAlways == Spec => []Base
<1>1. Init => Base
  BY InitBase
<1>2. Base /\ [Next]_vars => Base'
  BY BaseStep
<1> QED BY <1>1, <1>2, PTL DEF Spec

(***************************************************************************)
(* Every variable of the delivery service keeps its type, for every input, *)
(* number of workers and retries, with faults, crashes and Stop.           *)
(***************************************************************************)
THEOREM DeliveryTypes == Spec => []TypeOK
<1>1. Base => TypeOK
  BY DEF Base
<1> QED BY <1>1, BaseAlways, PTL

(***************************************************************************)
(* processDelivery skips a message as a duplicate only if the receiver has *)
(* got the same callback: whatever fails, is retried, redelivered after a  *)
(* crash or has the key of dedupKeyForMessage in common.                   *)
(***************************************************************************)
THEOREM SkipsOnlyDelivered == Spec => []SkippedIsDelivered
<1>1. Base => SkippedIsDelivered
  BY DEF Base
<1> QED BY <1>1, BaseAlways, PTL

(***************************************************************************)
(* Stop never closes workCh under a timer callback that is at its send,    *)
(* although scheduleRetry may arm a timer after retryTimerWg.Wait.         *)
(***************************************************************************)
THEOREM NoTimerAtClosedChannel == Spec => []NoTimerSendsOnClosed
<1>1. Base => NoTimerSendsOnClosed
  BY DEF Base
<1> QED BY <1>1, BaseAlways, PTL

(***************************************************************************)
(* Where a message of the delivery service is until the first crash, with  *)
(* any number of partitions, workers, messages, retries and faults: in one *)
(* place until it is settled.  The invariant, on top of Base, is Places.   *)
(***************************************************************************)

Worked(w) == worker[w].pc \notin {"idle", "done"}

OneOf(S) == \E x \in S : S = {x}

(* Message id is nowhere in the service; it is in one place. *)
InNone(id) == Queued(id) = {} /\ Holding(id) = {} /\ Timed(id) = {}

InOne(id) ==
    \/ OneOf(Queued(id)) /\ Holding(id) = {} /\ Timed(id) = {}
    \/ Queued(id) = {} /\ OneOf(Holding(id)) /\ Timed(id) = {}
    \/ Queued(id) = {} /\ Holding(id) = {} /\ OneOf(Timed(id))

Placed(id) ==
    /\ fate[id] # "none" => Behind(id)
    /\ Behind(id) /\ fate[id] = "none" => InOne(id)
    /\ ~(Behind(id) /\ fate[id] = "none") => InNone(id)

Acked(id) ==
    \/ acks[id] = 0
    \/ /\ acks[id] = 1
       /\ \/ fate[id] = "delivered"
          \/ \E w \in Worker : worker[w].pc = "record" /\ worker[w].item.id = id

(* Until the first crash every message that the handlers are done with is in one
   place until it has its fate, and was acknowledged once at most. *)
Places ==
    /\ crashes <= MaxCrash
    /\ crashes = MaxCrash =>
           /\ parked \cap firing = {}
           /\ \A id \in Id : Placed(id) /\ Acked(id)

(* Nothing of message id has moved. *)
Unmoved(id) ==
    /\ Queued(id)' = Queued(id) /\ Holding(id)' = Holding(id) /\ Timed(id)' = Timed(id)
    /\ fate'[id] = fate[id]
    /\ Behind(id)' <=> Behind(id)

(* Worker w goes on with its message; it ends with a fate for it. *)
Advances(w) == fate' = fate /\ parked' = parked /\ worker'[w].pc \in Past \ {"done"}

Ends(w) ==
    /\ \E f \in Fate \ {"none"} : fate' = [fate EXCEPT ![worker[w].item.id] = f]
    /\ parked' = parked /\ worker'[w].pc = "done"

(* Until a crash no step loses or doubles a message. *)
LEMMA PlacesStep == Base /\ Places /\ [Next]_vars => Places'

(* A message that has not moved keeps its place. *)
<1>StillPlaced.
    ASSUME NEW id, Placed(id), Unmoved(id)
    PROVE  Placed(id)'
  BY <1>StillPlaced, Zenon DEF Placed, Unmoved, InNone, InOne, OneOf

(* The places of a message follow from the variables that hold them. *)
<1>SamePlaces.
    ASSUME NEW id
    PROVE  /\ workCh' = workCh => Queued(id)' = Queued(id)
           /\ worker' = worker => Holding(id)' = Holding(id)
           /\ Timers' = Timers => Timed(id)' = Timed(id)
           /\ topic' = topic => (Behind(id)' <=> Behind(id))
  BY Zenon DEF Queued, Holding, Timed, Behind

(* Where a message is. *)
<1>Membership.
    ASSUME NEW id
    PROVE  /\ \A n : n \in Queued(id) <=> n \in 1..Len(workCh) /\ workCh[n].id = id
           /\ \A w : w \in Holding(id) <=> w \in Worker /\ Worked(w) /\ worker[w].item.id = id
           /\ \A x : x \in Timed(id) <=> x \in Timers /\ x.id = id
  BY Zenon DEF Queued, Holding, Timed, Worked

(* Where it is after a step. *)
<1>MembershipAfter.
    ASSUME NEW id
    PROVE  /\ \A n : n \in Queued(id)' <=> n \in 1..Len(workCh') /\ workCh'[n].id = id
           /\ \A w : w \in Holding(id)' <=> w \in Worker /\ Worked(w)' /\ worker'[w].item.id = id
           /\ \A x : x \in Timed(id)' <=> x \in Timers' /\ x.id = id
  BY Zenon DEF Queued, Holding, Timed, Worked

(* What is somewhere has no fate and is nowhere else. *)
<1>SomewhereOnce.
    ASSUME NEW id, Placed(id)
    PROVE  /\ \A n \in Queued(id) : fate[id] = "none" /\ Behind(id) /\ Queued(id) = {n} /\ Holding(id) = {} /\ Timed(id) = {}
           /\ \A w \in Holding(id) : fate[id] = "none" /\ Behind(id) /\ Queued(id) = {} /\ Holding(id) = {w} /\ Timed(id) = {}
           /\ \A x \in Timed(id) : fate[id] = "none" /\ Behind(id) /\ Queued(id) = {} /\ Holding(id) = {} /\ Timed(id) = {x}
  BY <1>SomewhereOnce, Zenon DEF Placed, InNone, InOne, OneOf

(* A send puts its item at the end of the channel. *)
<1>QueueAppends.
    ASSUME TypeOK, NEW y \in Item, workCh' = Append(workCh, y), NEW id \in Id
    PROVE  /\ id # y.id => Queued(id)' = Queued(id)
           /\ id = y.id => Queued(id)' = Queued(id) \cup {Len(workCh) + 1}
  <2> USE <1>QueueAppends
  <2>0. /\ \A n : n \in Queued(id) <=> n \in 1..Len(workCh) /\ workCh[n].id = id
        /\ \A n : n \in Queued(id)' <=> n \in 1..Len(workCh') /\ workCh'[n].id = id
    BY <1>Membership, <1>MembershipAfter, Zenon
  <2>1. /\ Len(workCh) \in Nat /\ Len(workCh') = Len(workCh) + 1 /\ workCh'[Len(workCh) + 1] = y
        /\ \A n \in 1..Len(workCh) : workCh'[n] = workCh[n]
    BY QueueFields, Zenon
  <2>2. \A n : n \in 1..Len(workCh') <=> n \in 1..Len(workCh) \/ n = Len(workCh) + 1
    BY <2>1
  <2>3. \A n : n \in Queued(id)' <=> n \in Queued(id) \/ (n = Len(workCh) + 1 /\ y.id = id)
    BY <2>0, <2>1, <2>2, ZenonT(40)
  <2> QED BY <2>3, Zenon

(* A receive takes the head off the channel. *)
<1>QueueTakes.
    ASSUME TypeOK, workCh # <<>>, workCh' = Tail(workCh), NEW id \in Id
    PROVE  /\ 1 \in Queued(workCh[1].id)
           /\ Queued(id) = {} => Queued(id)' = {}
           /\ id # workCh[1].id /\ OneOf(Queued(id)) => OneOf(Queued(id)')
           /\ id = workCh[1].id /\ OneOf(Queued(id)) => Queued(id)' = {}
  <2> USE <1>QueueTakes
  <2>0. /\ \A n : n \in Queued(id) <=> n \in 1..Len(workCh) /\ workCh[n].id = id
        /\ \A n : n \in Queued(id)' <=> n \in 1..Len(workCh') /\ workCh'[n].id = id
    BY <1>Membership, <1>MembershipAfter, Zenon
  <2>1. /\ 1 \in 1..Len(workCh) /\ Len(workCh) \in Nat /\ Len(workCh') = Len(workCh) - 1
        /\ \A n \in 1..(Len(workCh) - 1) : workCh'[n] = workCh[n + 1]
    BY QueueFields, Zenon
  <2>2. \A n : n \in 1..Len(workCh') => n + 1 \in 1..Len(workCh) /\ workCh'[n] = workCh[n + 1] /\ n + 1 # 1 /\ n = (n + 1) - 1
    BY <2>1
  <2>3. \A n : n \in 1..Len(workCh) /\ n # 1 => n - 1 \in 1..Len(workCh') /\ workCh'[n - 1] = workCh[n]
    BY <2>1
  <2>4. \A n : n \in Queued(id)' => n + 1 \in Queued(id) /\ n + 1 # 1 /\ n = (n + 1) - 1
    BY <2>0, <2>2
  <2>5. \A n : n \in Queued(id) /\ n # 1 => n - 1 \in Queued(id)'
    BY <2>0, <2>3
  <2>6. 1 \in Queued(workCh[1].id)
    BY <2>1, <1>Membership, Zenon
  <2>7. id # workCh[1].id => 1 \notin Queued(id)
    BY <1>Membership, Zenon
  <2>8. Queued(id) = {} => Queued(id)' = {}
    BY <2>4, Zenon
  <2>9. ASSUME id # workCh[1].id, OneOf(Queued(id)) PROVE OneOf(Queued(id)')
    <3>1. PICK m \in Queued(id) : Queued(id) = {m}
      BY <2>9, Zenon DEF OneOf
    <3>2. m # 1
      BY <2>7, <2>9, <3>1, Zenon
    <3>3. m - 1 \in Queued(id)'
      BY <2>5, <3>1, <3>2, Zenon
    <3>4. \A n \in Queued(id)' : n = m - 1
      BY <2>4, <3>1, Zenon
    <3> QED BY <3>3, <3>4, Zenon DEF OneOf
  <2>10. ASSUME id = workCh[1].id, OneOf(Queued(id)) PROVE Queued(id)' = {}
    BY <2>4, <2>6, <2>10, Zenon DEF OneOf
  <2> QED BY <2>6, <2>8, <2>9, <2>10, Zenon

(* Where a message is when other workers have moved. *)
<1>SameHolders.
    ASSUME NEW id,
           \A v \in Worker : (Worked(v)' /\ worker'[v].item.id = id) <=> (Worked(v) /\ worker[v].item.id = id)
    PROVE  Holding(id)' = Holding(id)
  BY <1>SameHolders, Zenon DEF Holding, Worked

(* A handler that is done with its message moves on to the next. *)
<1>MovesOn.
    ASSUME TypeOK, Prefix, NEW p \in Partition, HasMessage(topic[p]),
           topic' = [topic EXCEPT ![p] = Marked(@)], NEW id \in Id
    PROVE  /\ id # Fetched(p).id => (Behind(id)' <=> Behind(id))
           /\ id = Fetched(p).id => ~Behind(id) /\ Behind(id)'
  <2> USE <1>MovesOn
  <2>1. topic \in [Partition -> PartitionOfType(Callback)]
    BY Zenon DEF TypeOK
  <2>2. topic[p] \in PartitionOfType(Callback)
    BY <2>1, Zenon
  <2>3. Marked(topic[p]).next = topic[p].next + 1
    BY <2>2, PartitionOffsets, Zenon
  <2>4. /\ topic'[p].next = topic[p].next + 1
        /\ \A q \in Partition : q # p => topic'[q] = topic[q]
    BY <2>1, <2>3, Zenon
  <2>5. Fetched(p).id = <<p, topic[p].next>> /\ topic[p].next \in Nat \ {0}
    BY FetchedFields, Zenon
  <2>6. id[1] \in Partition /\ id = <<id[1], id[2]>> /\ id[2] \in 1..Len(Input[id[1]]) /\ Len(Input[id[1]]) \in Nat
    <3>1. id[1] \in Partition /\ id = <<id[1], id[2]>> /\ id[2] \in 1..Len(Input[id[1]])
      BY IdFields, Zenon
    <3>2. Input[id[1]] \in Seq(Callback)
      BY <3>1, DeliveryAssumption, Zenon
    <3>3. Len(Input[id[1]]) \in Nat
      BY <3>2
    <3> QED BY <3>1, <3>3, Zenon
  <2>7. CASE id[1] # p
    <3>1. id # Fetched(p).id
      BY <2>5, <2>7
    <3> QED BY <2>4, <2>6, <2>7, <3>1, Zenon DEF Behind
  <2>8. CASE id[1] = p
    <3>1. id[2] \in Nat
      BY <2>6
    <3>2. id = Fetched(p).id <=> id[2] = topic[p].next
      BY <2>5, <2>6, <2>8
    <3>3. (id[2] < topic[p].next + 1) <=> (id[2] < topic[p].next \/ id[2] = topic[p].next)
      BY <2>5, <3>1
    <3>4. ~(topic[p].next < topic[p].next)
      BY <2>5
    <3> QED BY <2>4, <2>8, <3>2, <3>3, <3>4, ZenonT(40) DEF Behind
  <2> QED BY <2>7, <2>8

(* What the handlers do with a message: nothing yet, or they hand it over. *)
<1>HandlerPlaces.
    ASSUME TypeOK, Prefix, NEW p \in Partition, HandlerStep(p), NEW id \in Id, Placed(id)
    PROVE  Placed(id)'
  <2> USE <1>HandlerPlaces
  <2>1. HasMessage(topic[p])
    BY ZenonT(40) DEF HandlerStep, ParkMessage, handleMessage, CanHandle, ArmParked, Dispatch, Prefix, Follows
  <2>2. Fetched(p) \in Item /\ Fetched(p).id \in Id
    BY <2>1, FetchedFields, Zenon
  <2>3. ASSUME UNCHANGED <<topic, workCh, worker, parked, firing, fate>> PROVE Placed(id)'
    <3>1. Timers' = Timers
      BY <2>3, Zenon DEF Timers
    <3>2. Unmoved(id)
      BY <2>3, <3>1, <1>SamePlaces, Zenon DEF Unmoved
    <3> QED BY <3>2, <1>StillPlaced, Zenon
  <2>4. ASSUME topic' = [topic EXCEPT ![p] = Marked(@)]
        PROVE  /\ id # Fetched(p).id => (Behind(id)' <=> Behind(id))
               /\ id = Fetched(p).id => ~Behind(id) /\ Behind(id)'
    BY <2>1, <2>4, <1>MovesOn, Zenon
  <2>5. id = Fetched(p).id => (~Behind(id) => InNone(id) /\ fate[id] = "none")
    BY Zenon DEF Placed
  <2>6. CASE ParkMessage(p) /\ ShuttingDown
    <3>1. /\ fate' = [fate EXCEPT ![Fetched(p).id] = "dropped"]
          /\ topic' = [topic EXCEPT ![p] = Marked(@)]
          /\ workCh' = workCh /\ worker' = worker /\ Timers' = Timers
      BY <2>6, Zenon DEF ParkMessage, Timers
    <3>2. fate \in [Id -> Fate]
      BY Zenon DEF TypeOK
    <3>3. Queued(id)' = Queued(id) /\ Holding(id)' = Holding(id) /\ Timed(id)' = Timed(id)
      BY <3>1, <1>SamePlaces, Zenon
    <3>4. CASE id = Fetched(p).id
      <4>1. InNone(id)'
        BY <2>4, <2>5, <3>1, <3>3, <3>4, Zenon DEF InNone
      <4>2. fate'[id] = "dropped" /\ Behind(id)'
        BY <2>2, <2>4, <3>1, <3>2, <3>4, ZenonT(40)
      <4>3. fate'[id] # "none"
        BY <4>2
      <4> QED BY <4>1, <4>2, <4>3, Zenon DEF Placed
    <3>5. CASE id # Fetched(p).id
      <4>1. fate'[id] = fate[id]
        BY <2>2, <3>1, <3>2, <3>5, Zenon
      <4>2. Unmoved(id)
        BY <2>4, <3>1, <3>3, <3>5, <4>1, ZenonT(40) DEF Unmoved
      <4> QED BY <4>2, <1>StillPlaced, Zenon
    <3> QED BY <3>4, <3>5
  <2>7. CASE ParkMessage(p) /\ ~ShuttingDown
    BY <2>3, <2>7, Zenon DEF ParkMessage
  <2>8. CASE ArmParked(p)
    <3>1. /\ topic' = [topic EXCEPT ![p] = Marked(@)]
          /\ workCh' = workCh /\ worker' = worker /\ Timers' = Timers \cup {Fetched(p)} /\ fate' = fate
      BY <2>8, Zenon DEF ArmParked, Timers, history
    <3>2. Queued(id)' = Queued(id) /\ Holding(id)' = Holding(id)
      BY <3>1, <1>SamePlaces, Zenon
    <3>3. CASE id = Fetched(p).id
      <4>1. InNone(id) /\ fate'[id] = "none" /\ Behind(id)'
        BY <2>4, <2>5, <3>1, <3>3, Zenon
      <4>2. Timed(id)' = {Fetched(p)}
        BY <3>1, <3>3, <4>1, Zenon DEF Timed, InNone
      <4>3. InOne(id)'
        BY <3>2, <4>1, <4>2, ZenonT(40) DEF InOne, InNone, OneOf
      <4> QED BY <4>1, <4>3, Zenon DEF Placed
    <3>4. CASE id # Fetched(p).id
      <4>1. Timed(id)' = Timed(id)
        BY <3>1, <3>4, Zenon DEF Timed
      <4>2. Unmoved(id)
        BY <2>4, <3>1, <3>2, <3>4, <4>1, Zenon DEF Unmoved
      <4> QED BY <4>2, <1>StillPlaced, Zenon
    <3> QED BY <3>3, <3>4
  <2>9. CASE handleMessage(p)
    BY <2>3, <2>9, Zenon DEF handleMessage, history
  <2>10. CASE Dispatch(p) /\ Closed
    BY <2>3, <2>10, Zenon DEF Dispatch, history
  <2>11. CASE Dispatch(p) /\ ~Closed
    <3>1. /\ topic' = [topic EXCEPT ![p] = Marked(@)]
          /\ workCh' = Append(workCh, Fetched(p)) /\ worker' = worker /\ Timers' = Timers /\ fate' = fate
      BY <2>11, Zenon DEF Dispatch, Timers, history
    <3>2. Timed(id)' = Timed(id) /\ Holding(id)' = Holding(id)
      BY <3>1, <1>SamePlaces, ZenonT(40)
    <3>3. CASE id = Fetched(p).id
      <4>1. InNone(id) /\ fate'[id] = "none" /\ Behind(id)'
        BY <2>4, <2>5, <3>1, <3>3, Zenon
      <4>2. Queued(id)' = Queued(id) \cup {Len(workCh) + 1}
        BY <2>2, <3>1, <3>3, <1>QueueAppends, Zenon
      <4>3. InOne(id)'
        BY <3>2, <4>1, <4>2, ZenonT(40) DEF InOne, InNone, OneOf
      <4> QED BY <4>1, <4>3, Zenon DEF Placed
    <3>4. CASE id # Fetched(p).id
      <4>1. Queued(id)' = Queued(id)
        BY <2>2, <3>1, <3>4, <1>QueueAppends, Zenon
      <4>2. Unmoved(id)
        BY <2>4, <3>1, <3>2, <3>4, <4>1, ZenonT(40) DEF Unmoved
      <4> QED BY <4>2, <1>StillPlaced, Zenon
    <3> QED BY <3>3, <3>4
  <2> QED BY <2>6, <2>7, <2>8, <2>9, <2>10, <2>11, ZenonT(40) DEF HandlerStep

(* A worker that takes the head of the channel has the message from then on. *)
<1>TakePlaces.
    ASSUME TypeOK, NEW w \in Worker, Take(w), NEW id \in Id, Placed(id)
    PROVE  Placed(id)'
  <2> USE <1>TakePlaces
  <2>1. /\ \A v \in Worker : v # w => worker'[v] = worker[v]
        /\ worker'[w].pc \in {"gate", "exists"} /\ worker'[w].item = workCh[1]
    BY Takes, Zenon
  <2>2. /\ workCh # <<>> /\ workCh' = Tail(workCh) /\ topic' = topic /\ fate' = fate /\ Timers' = Timers
        /\ worker[w].pc = "idle"
    BY Zenon DEF Take, Timers, history, At
  <2>3. Worked(w)' /\ ~Worked(w)
    BY <2>1, <2>2 DEF Worked
  <2>4. Timed(id)' = Timed(id) /\ (Behind(id)' <=> Behind(id))
    BY <2>2, <1>SamePlaces, Zenon
  <2>5. CASE id = workCh[1].id
    <3>1. 1 \in Queued(id)
      BY <2>2, <2>5, <1>QueueTakes, Zenon
    <3>2. fate[id] = "none" /\ Behind(id) /\ Queued(id) = {1} /\ Holding(id) = {} /\ Timed(id) = {}
      BY <3>1, <1>SomewhereOnce, Zenon
    <3>3. Queued(id)' = {}
      BY <2>2, <2>5, <3>2, <1>QueueTakes, Zenon DEF OneOf
    <3>4. \A v : v \in Holding(id)' <=> v = w
      <4>1. \A v : v \in Holding(id)' <=> v \in Worker /\ Worked(v)' /\ worker'[v].item.id = id
        BY <1>MembershipAfter, Zenon
      <4>2. \A v \in Worker : ~(Worked(v) /\ worker[v].item.id = id)
        BY <3>2, <1>Membership, Zenon
      <4>3. \A v \in Worker : v # w => ~(Worked(v)' /\ worker'[v].item.id = id)
        BY <2>1, <4>2, Zenon DEF Worked
      <4> QED BY <2>1, <2>3, <2>5, <4>1, <4>3, ZenonT(40)
    <3>5. Holding(id)' = {w}
      BY <3>4, Zenon
    <3>6. InOne(id)'
      BY <2>4, <3>2, <3>3, <3>5, Zenon DEF InOne, OneOf
    <3> QED BY <2>2, <2>4, <3>2, <3>6, Zenon DEF Placed
  <2>6. CASE id # workCh[1].id
    <3>1. Holding(id)' = Holding(id)
      <4>1. \A v \in Worker : (Worked(v)' /\ worker'[v].item.id = id) <=> (Worked(v) /\ worker[v].item.id = id)
        BY <2>1, <2>3, <2>6, Zenon DEF Worked
      <4> QED BY <4>1, <1>SameHolders, Zenon
    <3>2. /\ Queued(id) = {} => Queued(id)' = {}
          /\ OneOf(Queued(id)) => OneOf(Queued(id)')
      BY <2>2, <2>6, <1>QueueTakes, Zenon
    <3>3. InNone(id) => InNone(id)'
      BY <2>4, <3>1, <3>2, Zenon DEF InNone
    <3>4. InOne(id) => InOne(id)'
      BY <2>4, <3>1, <3>2, Zenon DEF InOne, OneOf
    <3> QED BY <2>2, <2>4, <3>3, <3>4, Zenon DEF Placed
  <2> QED BY <2>5, <2>6

(* A step behind the gate goes on, ends the delivery or arms a timer. *)
<1>WorkKinds.
    ASSUME TypeOK, NEW w \in Worker, WorkStep(w)
    PROVE  /\ worker[w].pc \in Past \ {"done"}
           /\ Advances(w) \/ Ends(w) \/ ArmTimer(w)
  <2> USE <1>WorkKinds
  <2>1. worker[w].pc \in Past \ {"done"}
    BY ZenonT(40) DEF WorkStep, Exists, ExistsFails, PostSucceeds, PostFails, StumpMissing, Record,
               publishToDLQWithRetry, ArmTimer, At, Past
  <2>2. Busy(w)
    BY <2>1 DEF Busy, Past
  <2>3. worker[w].item.retry \in Nat /\ worker[w].group \in Nat
    BY <2>2, BusyFields, Zenon
  <2>4. worker[w].item.retry + 1 \in Nat
    BY <2>3
  <2>5. \A l \in BusyPc, r \in Nat : Goes(w, l, r, worker[w].group) => worker'[w].pc = l
    BY <2>2, <2>3, GoesOn, Zenon DEF Gone
  <2>6. {"post", "record", "dlq", "park"} \subseteq Past \ {"done"} /\ {"post", "record", "dlq", "park", "done"} \subseteq BusyPc
    BY DEF Past, BusyPc
  <2>7. \A l \in {"post", "record", "dlq", "done"} : Goto(w, l) => worker'[w].pc = l
    BY <2>3, <2>5, <2>6, Zenon DEF Goto
  <2>8. \A l \in {"post", "record", "dlq"} : Goto(w, l) /\ fate' = fate /\ parked' = parked => Advances(w)
    BY <2>6, <2>7, Zenon DEF Advances
  <2>9. {"skipped", "dropped", "delivered", "dlq", "lost"} \subseteq Fate \ {"none"}
    BY DEF Fate
  <2>10. \A f \in {"skipped", "dropped", "delivered", "dlq", "lost"} : Settled(w, f) /\ parked' = parked => Ends(w)
    BY <2>7, <2>9, Zenon DEF Settled, Ends
  <2>11. scheduleRetryAfterFailure(w) /\ parked' = parked => Advances(w) \/ Ends(w)
    BY <2>4, <2>5, <2>6, <2>10, Zenon DEF scheduleRetryAfterFailure, Advances
  <2>12. Exists(w) => Advances(w) \/ Ends(w)
    BY <2>8, <2>10, Zenon DEF Exists
  <2>13. ExistsFails(w) => Advances(w) \/ Ends(w)
    BY <2>11, Zenon DEF ExistsFails
  <2>14. PostSucceeds(w) => Advances(w)
    BY <2>8, Zenon DEF PostSucceeds
  <2>15. PostFails(w) => Advances(w) \/ Ends(w)
    BY <2>8, <2>11, Zenon DEF PostFails
  <2>16. StumpMissing(w) => Advances(w)
    BY <2>8, Zenon DEF StumpMissing, history
  <2>17. Record(w) => Ends(w)
    BY <2>10, Zenon DEF Record
  <2>18. publishToDLQWithRetry(w) => Ends(w)
    BY <2>10, Zenon DEF publishToDLQWithRetry
  <2> QED BY <2>1, <2>12, <2>13, <2>14, <2>15, <2>16, <2>17, <2>18, ZenonT(40) DEF WorkStep

(* The message of a worker leaves it with its fate or for a timer. *)
<1>WorkPlaces.
    ASSUME TypeOK, NEW w \in Worker, WorkStep(w), NEW id \in Id, Placed(id)
    PROVE  Placed(id)'
  <2> USE <1>WorkPlaces
  <2>1. /\ worker'[w].item.id = worker[w].item.id /\ Busy(w)
        /\ \A v \in Worker : v # w => worker'[v] = worker[v]
        /\ workCh' = workCh /\ topic' = topic /\ firing' = firing
    BY WorkMoves, Zenon
  <2>2. worker[w].item \in Item /\ worker[w].item.id \in Id
    BY <2>1, BusyFields, Zenon
  <2>3. Worked(w)
    BY <1>WorkKinds DEF Worked, Past
  <2>4. Queued(id)' = Queued(id) /\ (Behind(id)' <=> Behind(id))
    BY <2>1, <1>SamePlaces, Zenon
  <2>5. id # worker[w].item.id => Holding(id)' = Holding(id)
    <3>1. id # worker[w].item.id =>
              \A v \in Worker : (Worked(v)' /\ worker'[v].item.id = id) <=> (Worked(v) /\ worker[v].item.id = id)
      BY <2>1, Zenon DEF Worked
    <3> QED BY <3>1, <1>SameHolders, Zenon
  <2>6. id = worker[w].item.id =>
            /\ fate[id] = "none" /\ Behind(id) /\ Queued(id) = {} /\ Holding(id) = {w} /\ Timed(id) = {}
    <3>1. id = worker[w].item.id => w \in Holding(id)
      BY <2>3, <1>Membership, Zenon
    <3> QED BY <3>1, <1>SomewhereOnce, Zenon
  <2>7. worker'[w].pc = "done" /\ id = worker[w].item.id => Holding(id)' = {}
    <3> SUFFICES ASSUME worker'[w].pc = "done", id = worker[w].item.id PROVE Holding(id)' = {}
      OBVIOUS
    <3>1. ~Worked(w)'
      BY DEF Worked
    <3>2. \A v \in Worker : Worked(v) /\ worker[v].item.id = id => v = w
      BY <2>6, <1>Membership, Zenon
    <3>3. \A v \in Worker : ~(Worked(v)' /\ worker'[v].item.id = id)
      BY <2>1, <3>1, <3>2, Zenon DEF Worked
    <3> QED BY <3>3, Zenon DEF Holding, Worked
  <2>8. CASE Advances(w)
    <3>1. fate' = fate /\ Timers' = Timers
      BY <2>1, <2>8, Zenon DEF Advances, Timers
    <3>2. Worked(w)'
      BY <2>8 DEF Advances, Worked, Past
    <3>3. \A v \in Worker : (Worked(v)' /\ worker'[v].item.id = id) <=> (Worked(v) /\ worker[v].item.id = id)
      BY <2>1, <2>3, <3>2, Zenon DEF Worked
    <3>4. Holding(id)' = Holding(id) /\ Timed(id)' = Timed(id)
      BY <3>1, <3>3, <1>SameHolders, <1>SamePlaces, Zenon
    <3> QED BY <2>4, <3>1, <3>4, <1>StillPlaced, Zenon DEF Unmoved
  <2>9. CASE Ends(w)
    <3>1. PICK f \in Fate \ {"none"} : fate' = [fate EXCEPT ![worker[w].item.id] = f]
      BY <2>9, Zenon DEF Ends
    <3>2. fate \in [Id -> Fate] /\ Timers' = Timers
      BY <2>1, <2>9, Zenon DEF TypeOK, Ends, Timers
    <3>3. Timed(id)' = Timed(id)
      BY <3>2, <1>SamePlaces, Zenon
    <3>4. CASE id = worker[w].item.id
      <4>1. fate'[id] # "none"
        BY <3>1, <3>2, <3>4, Zenon
      <4>2. InNone(id)'
        BY <2>4, <2>6, <2>7, <2>9, <3>3, <3>4, ZenonT(40) DEF InNone, Ends
      <4> QED BY <2>4, <2>6, <3>4, <4>1, <4>2, ZenonT(40) DEF Placed
    <3>5. CASE id # worker[w].item.id
      <4>1. fate'[id] = fate[id]
        BY <2>2, <3>1, <3>2, <3>5, ZenonT(40)
      <4> QED BY <2>4, <2>5, <3>3, <3>5, <4>1, <1>StillPlaced, ZenonT(40) DEF Unmoved
    <3> QED BY <3>4, <3>5
  <2>10. CASE ArmTimer(w)
    <3>1. /\ fate' = fate /\ Timers' = Timers \cup {worker[w].item}
      BY <2>1, <2>10, Zenon DEF ArmTimer, history, Timers
    <3>2. worker'[w].pc = "done"
      <4>1. "done" \in BusyPc /\ worker[w].item.retry \in Nat /\ worker[w].group \in Nat
        BY <2>1, BusyFields, Zenon DEF BusyPc
      <4> QED BY <2>1, <2>10, <4>1, GoesOn, ZenonT(40) DEF ArmTimer, Goto, Gone
    <3>3. CASE id = worker[w].item.id
      <4>1. Timed(id)' = {worker[w].item}
        BY <2>6, <3>1, <3>3, Zenon DEF Timed
      <4>2. InOne(id)'
        BY <2>4, <2>6, <2>7, <3>2, <3>3, <4>1, Zenon DEF InOne, OneOf
      <4> QED BY <2>4, <2>6, <3>1, <3>3, <4>2, Zenon DEF Placed
    <3>4. CASE id # worker[w].item.id
      <4>1. Timed(id)' = Timed(id)
        BY <3>1, <3>4, Zenon DEF Timed
      <4> QED BY <2>4, <2>5, <3>1, <3>4, <4>1, <1>StillPlaced, ZenonT(40) DEF Unmoved
    <3> QED BY <3>3, <3>4
  <2> QED BY <2>8, <2>9, <2>10, <1>WorkKinds, Zenon

(* At the gate, and when a worker is done, messages stay where they are. *)
<1>GatePlaces.
    ASSUME TypeOK, NEW w \in Worker, GateWait(w) \/ GateWoken(w) \/ GateOpened(w) \/ Return(w),
           NEW id \in Id, Placed(id)
    PROVE  Placed(id)'
  <2> USE <1>GatePlaces
  <2>1. workCh' = workCh /\ topic' = topic /\ Timers' = Timers /\ fate' = fate
    BY Zenon DEF GateWait, GateWoken, GateOpened, Return, Timers, history
  <2>2. \A v \in Worker : (Worked(v)' /\ worker'[v].item.id = id) <=> (Worked(v) /\ worker[v].item.id = id)
    <3>1. CASE GateWait(w) \/ GateWoken(w) \/ GateOpened(w)
      <4>1. /\ worker[w].pc \in {"gate", "woken", "ungate"} /\ worker'[w].pc \in {"exists", "ungate", "waiting"}
            /\ worker'[w].item.id = worker[w].item.id /\ \A v \in Worker : v # w => worker'[v] = worker[v]
        BY <3>1, GateMoves, Zenon
      <4>2. Worked(w) /\ Worked(w)'
        BY <4>1 DEF Worked
      <4> QED BY <4>1, <4>2, Zenon DEF Worked
    <3>2. CASE Return(w)
      <4> SUFFICES ASSUME NEW v \in Worker
                   PROVE  (Worked(v)' /\ worker'[v].item.id = id) <=> (Worked(v) /\ worker[v].item.id = id)
        BY ZenonT(40)
      <4>1. CASE v = w
        <5>1. worker'[w].pc = "idle" /\ worker[w].pc = "done"
          BY <3>2, Returns, Zenon DEF Return, At
        <5>2. ~Worked(w) /\ ~Worked(w)'
          BY <5>1 DEF Worked
        <5> QED BY <4>1, <5>2, Zenon
      <4>2. CASE worker'[v] = worker[v]
        BY <4>2, Zenon DEF Worked
      <4>3. CASE worker[v].pc = "waiting" /\ worker'[v].pc = "woken" /\ worker'[v].item = worker[v].item
        <5>1. Worked(v) /\ Worked(v)'
          BY <4>3 DEF Worked
        <5> QED BY <4>3, <5>1, Zenon
      <4> QED BY <3>2, <4>1, <4>2, <4>3, Returns, ZenonT(40)
    <3> QED BY <3>1, <3>2
  <2>3. Unmoved(id)
    BY <2>1, <2>2, <1>SamePlaces, <1>SameHolders, Zenon DEF Unmoved
  <2> QED BY <2>3, <1>StillPlaced, Zenon

(* A timer keeps its message, drops it at shutdown or sends it to the channel. *)
<1>TimerPlaces.
    ASSUME TypeOK, parked \cap firing = {}, NEW x \in Timers, TimerFires(x) \/ TimerSends(x),
           NEW id \in Id, Placed(id)
    PROVE  Placed(id)'
  <2> USE <1>TimerPlaces
  <2>1. x \in Item /\ x.id \in Id
    <3>1. x \in Item
      BY Zenon DEF TypeOK, Timers
    <3> QED BY <3>1, Zenon DEF Item
  <2>2. worker' = worker /\ topic' = topic
    BY Zenon DEF TimerFires, TimerSends
  <2>3. Holding(id)' = Holding(id) /\ (Behind(id)' <=> Behind(id))
    BY <2>2, <1>SamePlaces, Zenon
  <2>4. id = x.id => /\ fate[id] = "none" /\ Behind(id) /\ Queued(id) = {} /\ Holding(id) = {} /\ Timed(id) = {x}
    <3>1. id = x.id => x \in Timed(id)
      BY <1>Membership, Zenon
    <3> QED BY <3>1, <1>SomewhereOnce, Zenon
  <2>5. ASSUME Timers' = Timers \ {x}
        PROVE  (id = x.id => Timed(id)' = {}) /\ (id # x.id => Timed(id)' = Timed(id))
    <3>1. id # x.id => Timed(id)' = Timed(id)
      BY <2>5, Zenon DEF Timed
    <3>2. ASSUME id = x.id PROVE Timed(id)' = {}
      <4>1. \A y \in Timers : y.id = id => y = x
        BY <2>4, <3>2, <1>Membership, Zenon
      <4> QED BY <2>5, <4>1, Zenon DEF Timed
    <3> QED BY <3>1, <3>2
  <2>6. CASE TimerFires(x) /\ ~ShuttingDown
    <3>1. fate' = fate /\ workCh' = workCh /\ Timers' = Timers
      BY <2>6, Zenon DEF TimerFires, Timers
    <3> QED BY <2>3, <3>1, <1>SamePlaces, <1>StillPlaced, Zenon DEF Unmoved
  <2>7. CASE TimerFires(x) /\ ShuttingDown
    <3>1. fate' = [fate EXCEPT ![x.id] = "dropped"] /\ workCh' = workCh /\ Timers' = Timers \ {x}
      BY <2>7, Zenon DEF TimerFires, Timers
    <3>2. fate \in [Id -> Fate] /\ Queued(id)' = Queued(id)
      BY <3>1, <1>SamePlaces, Zenon DEF TypeOK
    <3>3. CASE id = x.id
      <4>1. fate'[id] = "dropped" /\ "dropped" # "none"
        BY <2>1, <3>1, <3>2, <3>3
      <4>2. InNone(id)'
        BY <2>3, <2>4, <2>5, <3>1, <3>2, <3>3, ZenonT(40) DEF InNone
      <4> QED BY <2>3, <2>4, <3>3, <4>1, <4>2, ZenonT(40) DEF Placed
    <3>4. CASE id # x.id
      <4>1. fate'[id] = fate[id]
        BY <2>1, <3>1, <3>2, <3>4, ZenonT(40)
      <4> QED BY <2>3, <2>5, <3>1, <3>2, <3>4, <4>1, <1>StillPlaced, ZenonT(40) DEF Unmoved
    <3> QED BY <3>3, <3>4
  <2>8. CASE TimerSends(x)
    <3>1. fate' = fate /\ workCh' = Append(workCh, x) /\ Timers' = Timers \ {x}
      BY <2>8, Zenon DEF TimerSends, Timers, history
    <3>2. CASE id = x.id
      <4>1. Queued(id)' = {Len(workCh) + 1} /\ Timed(id)' = {}
        BY <2>1, <2>4, <2>5, <3>1, <3>2, <1>QueueAppends, ZenonT(40)
      <4>2. InOne(id)'
        BY <2>3, <2>4, <3>2, <4>1, Zenon DEF InOne, OneOf
      <4> QED BY <2>3, <2>4, <3>1, <3>2, <4>2, ZenonT(40) DEF Placed
    <3>3. CASE id # x.id
      <4>1. Queued(id)' = Queued(id) /\ Timed(id)' = Timed(id)
        BY <2>1, <2>5, <3>1, <3>3, <1>QueueAppends, ZenonT(40)
      <4> QED BY <2>3, <3>1, <4>1, <1>StillPlaced, Zenon DEF Unmoved
    <3> QED BY <3>2, <3>3
  <2> QED BY <2>6, <2>7, <2>8, Zenon

(* Upstream, the commits and Stop move no message. *)
<1>OtherPlaces.
    ASSUME TypeOK, NEW id \in Id, Placed(id),
           \/ \E p \in Partition : Publish(p) \/ Commit(p)
           \/ StopFlag \/ StopWait \/ StopClose \/ StopConsumer \/ UNCHANGED vars
    PROVE  Placed(id)'
  <2> USE <1>OtherPlaces
  <2>1. workCh' = workCh /\ worker' = worker /\ Timers' = Timers /\ fate' = fate
    BY Zenon DEF Publish, Commit, StopFlag, StopWait, StopClose, StopConsumer, vars, service, history, Timers
  <2>2. topic'[id[1]].next = topic[id[1]].next
    <3>1. id[1] \in Partition
      BY IdFields, Zenon
    <3>2. CASE topic' = topic
      BY <3>2, Zenon
    <3>3. ASSUME NEW p \in Partition, Publish(p) \/ Commit(p) PROVE topic'[id[1]].next = topic[id[1]].next
      <4>1. topic \in [Partition -> PartitionOfType(Callback)]
        BY Zenon DEF TypeOK
      <4>2. topic[p] \in PartitionOfType(Callback)
        BY <4>1, Zenon
      <4>3. /\ \A m : Published(topic[p], m).next = topic[p].next
            /\ Committed(topic[p]).next = topic[p].next
        BY <4>2, PartitionOffsets, Zenon
      <4> QED BY <3>1, <3>3, <4>1, <4>3, ZenonT(40) DEF Publish, Commit
    <3> QED BY <3>2, <3>3, Zenon DEF StopFlag, StopWait, StopClose, StopConsumer, vars
  <2>3. Behind(id)' <=> Behind(id)
    BY <2>2, Zenon DEF Behind
  <2> QED BY <2>1, <2>3, <1>SamePlaces, <1>StillPlaced, Zenon DEF Unmoved

(* Every step but a crash leaves every message in its place, or moves it. *)
<1>PlacedStep.
    ASSUME TypeOK, Prefix, parked \cap firing = {}, [Next]_vars, ~Crash, NEW id \in Id, Placed(id)
    PROVE  Placed(id)'
  BY <1>PlacedStep, <1>HandlerPlaces, <1>TakePlaces, <1>GatePlaces, <1>WorkPlaces, <1>TimerPlaces, <1>OtherPlaces, ZenonT(40)
     DEF Next, WorkerStep, WorkStep, TimerStep, Quiescent

(* A timer is armed or at its send, not both. *)
<1>TimersApart.
    ASSUME TypeOK, Prefix, Passed, parked \cap firing = {}, \A id \in Id : Placed(id), [Next]_vars, ~Crash
    PROVE  (parked \cap firing = {})'
  <2> USE <1>TimersApart
  <2>1. CASE parked' \subseteq parked /\ firing' \subseteq firing
    BY <2>1, Zenon
  <2>2. ASSUME NEW p \in Partition, ArmParked(p) PROVE (parked \cap firing = {})'
    <3>1. HasMessage(topic[p])
      BY <2>2 DEF ArmParked, Prefix, Follows
    <3>2. ~Held(Fetched(p).id)
      BY <3>1, FetchedFresh, Zenon
    <3>3. Fetched(p) \notin firing
      BY <3>2, Zenon DEF Held, Timers
    <3> QED BY <2>2, <3>3, Zenon DEF ArmParked
  <2>3. ASSUME NEW w \in Worker, ArmTimer(w) PROVE (parked \cap firing = {})'
    <3>1. WorkStep(w)
      BY <2>3, Zenon DEF WorkStep
    <3>2. Busy(w) /\ Worked(w)
      BY <3>1, <1>WorkKinds DEF Worked, Past, Busy
    <3>3. worker[w].item.id \in Id
      BY <3>2, BusyFields, Zenon
    <3>4. w \in Holding(worker[w].item.id)
      BY <3>2, <1>Membership, Zenon
    <3>5. Timed(worker[w].item.id) = {}
      BY <3>3, <3>4, <1>SomewhereOnce, Zenon
    <3>6. worker[w].item \notin firing
      BY <3>5, Zenon DEF Timed, Timers
    <3> QED BY <2>3, <3>6, Zenon DEF ArmTimer
  <2>4. ASSUME NEW x \in Timers, TimerFires(x) PROVE (parked \cap firing = {})'
    BY <2>4, Zenon DEF TimerFires
  <2>5. ASSUME NEW p \in Partition, Publish(p) \/ Commit(p) \/ ParkMessage(p) \/ handleMessage(p) \/ Dispatch(p)
        PROVE  (parked \cap firing = {})'
    BY <2>1, <2>5, Zenon DEF Publish, Commit, ParkMessage, handleMessage, Dispatch, service
  <2>6. ASSUME NEW w \in Worker, WorkerStep(w), ~ArmTimer(w) PROVE (parked \cap firing = {})'
    BY <2>1, <2>6, ZenonT(40) DEF WorkerStep, Take, GateWait, GateWoken, GateOpened, Exists, ExistsFails,
         PostSucceeds, PostFails, StumpMissing, Record, publishToDLQWithRetry, Return
  <2>7. ASSUME NEW x \in Timers, TimerSends(x) PROVE (parked \cap firing = {})'
    BY <2>1, <2>7, Zenon DEF TimerSends
  <2>8. ASSUME StopFlag \/ StopWait \/ StopClose \/ StopConsumer \/ UNCHANGED vars PROVE (parked \cap firing = {})'
    BY <2>1, <2>8, ZenonT(40) DEF StopFlag, StopWait, StopClose, StopConsumer, vars, service
  <2> QED BY <2>2, <2>3, <2>4, <2>5, <2>6, <2>7, <2>8, ZenonT(40) DEF Next, HandlerStep, TimerStep, Quiescent

(* A fate is final. *)
<1>FateStays.
    ASSUME TypeOK, Prefix, [Next]_vars, ~Crash, NEW id \in Id, Placed(id), fate[id] # "none"
    PROVE  fate'[id] = fate[id]
  <2> USE <1>FateStays
  <2>1. fate \in [Id -> Fate]
    BY Zenon DEF TypeOK
  <2>2. Behind(id) /\ InNone(id)
    BY Zenon DEF Placed
  <2>3. ASSUME NEW p \in Partition, ParkMessage(p) PROVE fate'[id] = fate[id]
    <3>1. HasMessage(topic[p])
      BY <2>3, Zenon DEF ParkMessage, CanHandle
    <3>2. Fetched(p).id = <<p, topic[p].next>> /\ Fetched(p).id \in Id /\ topic[p].next \in Nat
      BY <3>1, FetchedFields, Zenon
    <3>3. ~Behind(Fetched(p).id)
      BY <3>2 DEF Behind
    <3>4. id # Fetched(p).id
      BY <2>2, <3>3, Zenon
    <3>5. fate' = fate \/ fate' = [fate EXCEPT ![Fetched(p).id] = "dropped"]
      BY <2>3, Zenon DEF ParkMessage
    <3> QED BY <2>1, <3>2, <3>4, <3>5, Zenon
  <2>4. ASSUME NEW w \in Worker, WorkStep(w) PROVE fate'[id] = fate[id]
    <3>1. Worked(w) /\ Busy(w)
      BY <2>4, <1>WorkKinds DEF Worked, Past, Busy
    <3>2. worker[w].item.id \in Id
      BY <3>1, BusyFields, Zenon
    <3>3. id # worker[w].item.id
      BY <2>2, <3>1, Zenon DEF InNone, Holding, Worked
    <3>4. fate' = fate \/ \E f \in Fate : fate' = [fate EXCEPT ![worker[w].item.id] = f]
      BY <2>4, <1>WorkKinds, Zenon DEF Advances, Ends, ArmTimer, history
    <3> QED BY <2>1, <3>2, <3>3, <3>4, ZenonT(40)
  <2>5. ASSUME NEW x \in Timers, TimerFires(x) PROVE fate'[id] = fate[id]
    <3>1. x.id \in Id /\ id # x.id
      <4>1. x \in Item
        BY Zenon DEF TypeOK, Timers
      <4>2. id # x.id
        BY <2>2, Zenon DEF InNone, Timed
      <4> QED BY <4>1, <4>2, Zenon DEF Item
    <3>2. fate' = fate \/ fate' = [fate EXCEPT ![x.id] = "dropped"]
      BY <2>5, Zenon DEF TimerFires
    <3> QED BY <2>1, <3>1, <3>2, Zenon
  <2>6. ASSUME NEW p \in Partition, Publish(p) \/ Commit(p) \/ ArmParked(p) \/ handleMessage(p) \/ Dispatch(p)
        PROVE  fate' = fate
    BY <2>6, Zenon DEF Publish, Commit, ArmParked, handleMessage, Dispatch, history
  <2>7. ASSUME NEW w \in Worker, Take(w) \/ GateWait(w) \/ GateWoken(w) \/ GateOpened(w) \/ Return(w)
        PROVE  fate' = fate
    BY <2>7, Zenon DEF Take, GateWait, GateWoken, GateOpened, Return, history
  <2>8. ASSUME NEW x \in Timers, TimerSends(x) PROVE fate' = fate
    BY <2>8, Zenon DEF TimerSends, history
  <2>9. ASSUME StopFlag \/ StopWait \/ StopClose \/ StopConsumer \/ UNCHANGED vars PROVE fate' = fate
    BY <2>9, Zenon DEF StopFlag, StopWait, StopClose, StopConsumer, vars, history
  <2> QED BY <2>3, <2>4, <2>5, <2>6, <2>7, <2>8, <2>9, ZenonT(40)
      DEF Next, HandlerStep, WorkerStep, WorkStep, TimerStep, Quiescent

(* A worker that is to record a delivery does that next. *)
<1>RecorderStays.
    ASSUME TypeOK, [Next]_vars, ~Crash, NEW w \in Worker, worker[w].pc = "record"
    PROVE  Record(w) \/ worker'[w] = worker[w]
  <2> USE <1>RecorderStays
  <2>0. \A l \in {"idle", "waiting", "gate", "woken", "ungate", "exists", "post", "dlq", "park", "done"} : l # "record"
    BY ZenonT(40)
  <2>1. ASSUME NEW v \in Worker, WorkerStep(v), v # w PROVE worker'[w] = worker[w]
    <3>1. CASE Take(v)
      BY <2>1, <3>1, Takes, Zenon
    <3>2. CASE GateWait(v) \/ GateWoken(v) \/ GateOpened(v)
      BY <2>1, <3>2, GateMoves, Zenon
    <3>3. CASE WorkStep(v)
      BY <2>1, <3>3, WorkMoves, Zenon
    <3>4. CASE Return(v)
      <4>1. worker[w].pc # "waiting"
        BY <2>0, Zenon
      <4> QED BY <2>1, <3>4, <4>1, Returns, Zenon
    <3> QED BY <2>1, <3>1, <3>2, <3>3, <3>4, ZenonT(40) DEF WorkerStep, WorkStep
  <2>2. WorkerStep(w) => Record(w)
    BY <2>0, Zenon DEF WorkerStep, Take, GateWait, GateWoken, GateOpened, Exists, ExistsFails, PostSucceeds,
               PostFails, StumpMissing, Record, publishToDLQWithRetry, ArmTimer, Return, At
  <2>3. ASSUME NEW p \in Partition, Publish(p) \/ Commit(p) \/ HandlerStep(p) PROVE worker' = worker
    BY <2>3, Zenon DEF Publish, Commit, HandlerStep, ParkMessage, ArmParked, handleMessage, Dispatch, service
  <2>4. ASSUME TimerStep \/ StopFlag \/ StopWait \/ StopClose \/ StopConsumer \/ UNCHANGED vars
        PROVE  worker' = worker
    BY <2>4, Zenon DEF TimerStep, TimerFires, TimerSends, StopFlag, StopWait, StopClose, StopConsumer, vars,
                       service
  <2> QED BY <2>1, <2>2, <2>3, <2>4, ZenonT(40) DEF Next, Quiescent

(* Only a 2xx answer counts as an acknowledgement. *)
<1>AcksStep.
    ASSUME [Next]_vars
    PROVE  acks' = acks \/ \E w \in Worker : PostSucceeds(w)
  <2> USE <1>AcksStep
  <2>1. ASSUME NEW p \in Partition, Publish(p) \/ Commit(p) \/ HandlerStep(p) PROVE acks' = acks
    BY <2>1, Zenon DEF Publish, Commit, HandlerStep, ParkMessage, ArmParked, handleMessage, Dispatch, history
  <2>2. ASSUME NEW w \in Worker, WorkerStep(w), ~PostSucceeds(w) PROVE acks' = acks
    BY <2>2, Zenon DEF WorkerStep, Take, GateWait, GateWoken, GateOpened, Exists, ExistsFails,
               PostFails, StumpMissing, Record, publishToDLQWithRetry, ArmTimer, Return, history
  <2>3. ASSUME TimerStep \/ StopFlag \/ StopWait \/ StopClose \/ StopConsumer \/ Crash \/ UNCHANGED vars
        PROVE  acks' = acks
    BY <2>3, Zenon DEF TimerStep, TimerFires, TimerSends, StopFlag, StopWait, StopClose, StopConsumer, Crash,
                       vars, history
  <2> QED BY <2>1, <2>2, <2>3, ZenonT(40) DEF Next, Quiescent

(* The receiver acknowledges a message once: the worker that got the answer has
   the only copy, and is about to settle it. *)
<1>AckedStep.
    ASSUME TypeOK, Prefix, [Next]_vars, ~Crash, NEW id \in Id, Placed(id), Acked(id)
    PROVE  Acked(id)'
  <2> USE <1>AckedStep
  <2>1. acks \in [Id -> Nat] /\ fate \in [Id -> Fate]
    BY Zenon DEF TypeOK
  <2>2. CASE acks'[id] = acks[id]
    <3>1. CASE acks[id] = 0
      BY <2>2, <3>1, Zenon DEF Acked
    <3>2. CASE acks[id] = 1 /\ fate[id] = "delivered"
      <4>1. fate[id] # "none"
        BY <3>2
      <4>2. fate'[id] = "delivered"
        BY <3>2, <4>1, <1>FateStays, Zenon
      <4> QED BY <2>2, <3>2, <4>2, Zenon DEF Acked
    <3>3. ASSUME acks[id] = 1, NEW w \in Worker, worker[w].pc = "record", worker[w].item.id = id
          PROVE  Acked(id)'
      <4>1. CASE worker'[w] = worker[w]
        BY <2>2, <3>3, <4>1, Zenon DEF Acked
      <4>2. CASE Record(w)
        <5>1. fate'[id] = "delivered"
          BY <2>1, <3>3, <4>2, ZenonT(40) DEF Record, Settled
        <5> QED BY <2>2, <3>3, <5>1, ZenonT(40) DEF Acked
      <4> QED BY <3>3, <4>1, <4>2, <1>RecorderStays, ZenonT(40)
    <3> QED BY <3>1, <3>2, <3>3, Zenon DEF Acked
  <2>3. ASSUME NEW w \in Worker, PostSucceeds(w) PROVE Acked(id)'
    <3>1. worker[w].pc = "post" /\ acks' = [acks EXCEPT ![worker[w].item.id] = @ + 1] /\ Goto(w, "record")
      BY <2>3, Zenon DEF PostSucceeds, At
    <3>2. Busy(w) /\ Worked(w)
      BY <3>1 DEF Busy, Worked
    <3>3. worker[w].item.id \in Id /\ worker[w].item.retry \in Nat /\ worker[w].group \in Nat
      BY <3>2, BusyFields, Zenon
    <3>4. CASE id = worker[w].item.id
      <4>1. w \in Holding(id)
        BY <3>2, <3>4, Zenon DEF Holding, Worked
      <4>2. fate[id] = "none" /\ Holding(id) = {w}
        BY <4>1, <1>SomewhereOnce, ZenonT(40)
      <4>3. ASSUME NEW v \in Worker, worker[v].pc = "record", worker[v].item.id = id PROVE FALSE
        <5>1. Worked(v)
          BY <4>3 DEF Worked
        <5>2. v \in Holding(id)
          BY <4>3, <5>1, Zenon DEF Holding, Worked
        <5>3. v = w
          BY <4>2, <5>2, Zenon
        <5> QED BY <3>1, <4>3, <5>3, ZenonT(40)
      <4>4. fate[id] # "delivered"
        BY <4>2
      <4>5. acks[id] = 0
        BY <4>3, <4>4, Zenon DEF Acked
      <4>6. acks'[id] = acks[id] + 1
        BY <2>1, <3>1, <3>4, ZenonT(40)
      <4>7. acks'[id] = 1
        BY <4>5, <4>6
      <4>8. "record" \in BusyPc
        BY DEF BusyPc
      <4>9. worker'[w].pc = "record" /\ worker'[w].item.id = id
        BY <3>1, <3>2, <3>3, <3>4, <4>8, GoesOn, ZenonT(40) DEF Goto, Gone
      <4> QED BY <4>7, <4>9, Zenon DEF Acked
    <3>5. CASE id # worker[w].item.id
      <4>1. acks'[id] = acks[id]
        BY <2>1, <3>1, <3>3, <3>5, ZenonT(40)
      <4> QED BY <2>2, <4>1, ZenonT(40)
    <3> QED BY <3>4, <3>5
  <2> QED BY <2>2, <2>3, <1>AcksStep, ZenonT(40)

<1> SUFFICES ASSUME Base, Places, [Next]_vars PROVE Places'
  OBVIOUS
<1>1. TypeOK /\ Prefix /\ Passed /\ MaxCrash \in Nat /\ crashes \in Nat /\ crashes <= MaxCrash
  BY DeliveryAssumption, Zenon DEF Base, Places, TypeOK
<1>2. CASE Crash
  <2>1. crashes' = crashes - 1 /\ crashes > 0
    BY <1>2, Zenon DEF Crash
  <2>2. crashes' <= MaxCrash /\ crashes' # MaxCrash
    BY <1>1, <2>1
  <2> QED BY <2>2, Zenon DEF Places
<1>3. CASE ~Crash
  <2>1. crashes' = crashes
    <3>1. ASSUME NEW p \in Partition, Publish(p) \/ Commit(p) \/ HandlerStep(p) PROVE crashes' = crashes
      BY <3>1, ZenonT(40) DEF Publish, Commit, HandlerStep, ParkMessage, ArmParked, handleMessage, Dispatch
    <3>2. ASSUME NEW w \in Worker, WorkerStep(w) PROVE crashes' = crashes
      BY <3>2, ZenonT(40) DEF WorkerStep, Take, GateWait, GateWoken, GateOpened, Exists, ExistsFails,
           PostSucceeds, PostFails, StumpMissing, Record, publishToDLQWithRetry, ArmTimer, Return
    <3>3. ASSUME TimerStep \/ StopFlag \/ StopWait \/ StopClose \/ StopConsumer \/ UNCHANGED vars
          PROVE  crashes' = crashes
      BY <3>3, Zenon DEF TimerStep, TimerFires, TimerSends, StopFlag, StopWait, StopClose, StopConsumer,
                         vars
    <3> QED BY <1>3, <3>1, <3>2, <3>3, ZenonT(40) DEF Next, Quiescent
  <2>2. ASSUME crashes = MaxCrash
        PROVE  (parked \cap firing = {})' /\ \A id \in Id : Placed(id)' /\ Acked(id)'
    <3>1. parked \cap firing = {} /\ \A id \in Id : Placed(id) /\ Acked(id)
      BY <2>2, Zenon DEF Places
    <3> QED BY <1>1, <1>3, <3>1, <1>TimersApart, <1>PlacedStep, <1>AckedStep, ZenonT(40)
  <2> QED BY <1>1, <2>1, <2>2, Zenon DEF Places
<1> QED BY <1>2, <1>3

(* Nothing has been received and nobody holds anything at first. *)
LEMMA InitPlaces == ASSUME Init PROVE Places
<1>1. crashes <= MaxCrash
  <2>1. MaxCrash \in Nat
    BY DeliveryAssumption, Zenon
  <2>2. crashes = MaxCrash
    BY Zenon DEF Init
  <2> QED BY <2>1, <2>2
<1>2. parked \cap firing = {} /\ Timers = {}
  BY Zenon DEF Init, Timers
<1>3. ASSUME NEW id \in Id PROVE Placed(id) /\ Acked(id)
  <2>1. fate[id] = "none" /\ acks[id] = 0
    BY Zenon DEF Init
  <2>2. ~Behind(id)
    <3>1. id[1] \in Partition /\ id[2] \in 1..Len(Input[id[1]])
      BY IdFields, Zenon
    <3>2. topic[id[1]] = EmptyPartition
      BY <3>1, Zenon DEF Init
    <3>3. topic[id[1]].next = 1
      BY <3>2 DEF EmptyPartition
    <3>4. Input[id[1]] \in Seq(Callback)
      BY <3>1, DeliveryAssumption, Zenon
    <3>5. ~(id[2] < 1)
      BY <3>1, <3>4
    <3> QED BY <3>3, <3>5, Zenon DEF Behind
  <2>3. InNone(id)
    <3>1. workCh = <<>> /\ Len(<<>>) = 0 /\ 1..0 = {}
      BY DEF Init
    <3>2. \A w \in Worker : worker[w].pc = "idle"
      BY DEF Init, IdleWorker
    <3>3. \A w \in Worker : ~Worked(w)
      BY <3>2 DEF Worked
    <3>4. Queued(id) = {}
      BY <3>1, Zenon DEF Queued
    <3> QED BY <1>2, <3>3, <3>4, ZenonT(40) DEF InNone, Holding, Timed, Worked
  <2> QED BY <2>1, <2>2, <2>3, ZenonT(40) DEF Placed, Acked
<1> QED BY <1>1, <1>2, <1>3, Zenon DEF Places

(* Until the first crash every message has its place. *)
LEMMA PlacesAlways == Spec => [](Base /\ Places)
<1>1. Init => Base /\ Places
  BY InitBase, InitPlaces
<1>2. Base /\ Places /\ [Next]_vars => Base' /\ Places'
  BY BaseStep, PlacesStep
<1> QED BY <1>1, <1>2, PTL DEF Spec

(* The empty set and the singletons. *)
LEMMA SmallSets == Cardinality({}) = 0 /\ \A x : Cardinality({x}) = 1
<1>1. Cardinality({}) = 0
  <2> DEFINE Eq(S, CS) == CS = [T \in SUBSET S |-> IF T = {} THEN 0
                                    ELSE 1 + CS[T \ {CHOOSE x : x \in T}]]
             f == [T \in SUBSET {} |-> 0]
  <2>1. Eq({}, f)
    BY Zenon
  <2>2. Eq({}, CHOOSE CS : Eq({}, CS))
    BY <2>1, Zenon
  <2>3. Cardinality({}) = (CHOOSE CS : Eq({}, CS))[{}]
    BY Zenon DEF Cardinality
  <2>4. \A CS : Eq({}, CS) => CS[{}] = 0
    BY Zenon
  <2> QED BY <2>2, <2>3, <2>4, ZenonT(40)
<1>2. ASSUME NEW x PROVE Cardinality({x}) = 1
  <2> DEFINE Eq(S, CS) == CS = [T \in SUBSET S |-> IF T = {} THEN 0
                                    ELSE 1 + CS[T \ {CHOOSE y : y \in T}]]
             f == [T \in SUBSET {x} |-> IF T = {} THEN 0 ELSE 1]
  <2>0. (CHOOSE y : y \in {x}) = x
    BY Zenon
  <2>1. Eq({x}, f)
    <3>1. ASSUME NEW T \in SUBSET {x}
          PROVE  f[T] = IF T = {} THEN 0 ELSE 1 + f[T \ {CHOOSE y : y \in T}]
      <4>1. CASE T = {}
        BY <4>1, Zenon
      <4>2. CASE T = {x}
        <5>1. T \ {CHOOSE y : y \in T} = {}
          BY <2>0, <4>2, Zenon
        <5>2. f[{}] = 0 /\ f[{x}] = 1 /\ T # {}
          BY <4>2, Zenon
        <5>3. 1 + 0 = 1
          OBVIOUS
        <5> QED BY <4>2, <5>1, <5>2, <5>3, ZenonT(40)
      <4> QED BY <4>1, <4>2, Zenon
    <3> QED BY <3>1, Zenon
  <2>2. Eq({x}, CHOOSE CS : Eq({x}, CS))
    BY <2>1, Zenon
  <2>3. Cardinality({x}) = (CHOOSE CS : Eq({x}, CS))[{x}]
    BY Zenon DEF Cardinality
  <2>4. ASSUME NEW CS, Eq({x}, CS) PROVE CS[{x}] = 1
    <3>1. {x} \ {CHOOSE y : y \in {x}} = {}
      BY <2>0, Zenon
    <3>2. CS[{}] = 0
      BY <2>4, Zenon
    <3>3. {x} # {}
      BY Zenon
    <3>4. CS[{x}] = 1 + CS[{}]
      BY <2>4, <3>1, <3>3, ZenonT(40)
    <3> QED BY <3>2, <3>4
  <2> QED BY <2>2, <2>3, <2>4, Zenon
<1> QED BY <1>1, <1>2, Zenon

(* The copies of a message, counted. *)
LEMMA PlacesCounted ==
    ASSUME NEW id, Placed(id)
    PROVE  /\ Cardinality(Queued(id)) \in Nat /\ Cardinality(Holding(id)) \in Nat
           /\ Cardinality(Timed(id)) \in Nat
           /\ Cardinality(Queued(id)) + Cardinality(Holding(id)) + Cardinality(Timed(id))
                = IF Behind(id) /\ fate[id] = "none" THEN 1 ELSE 0
<1>0. Cardinality({}) = 0 /\ \A x : Cardinality({x}) = 1
  BY SmallSets, Zenon
<1>1. InNone(id) => Cardinality(Queued(id)) = 0 /\ Cardinality(Holding(id)) = 0 /\ Cardinality(Timed(id)) = 0
  BY <1>0, Zenon DEF InNone
<1>2. \A S : OneOf(S) => Cardinality(S) = 1
  BY <1>0, Zenon DEF OneOf
<1>3. InOne(id) =>
          \/ Cardinality(Queued(id)) = 1 /\ Cardinality(Holding(id)) = 0 /\ Cardinality(Timed(id)) = 0
          \/ Cardinality(Queued(id)) = 0 /\ Cardinality(Holding(id)) = 1 /\ Cardinality(Timed(id)) = 0
          \/ Cardinality(Queued(id)) = 0 /\ Cardinality(Holding(id)) = 0 /\ Cardinality(Timed(id)) = 1
  BY <1>0, <1>2, Zenon DEF InOne
<1>4. CASE Behind(id) /\ fate[id] = "none"
  <2>1. InOne(id)
    BY <1>4, Zenon DEF Placed
  <2> QED BY <1>3, <1>4, <2>1
<1>5. CASE ~(Behind(id) /\ fate[id] = "none")
  <2>1. InNone(id)
    BY <1>5, Zenon DEF Placed
  <2> QED BY <1>1, <1>5, <2>1
<1> QED BY <1>4, <1>5

(***************************************************************************)
(* Until the process crashes, no message that handleMessage accepted is    *)
(* lost or doubled on its way between the work channel, the workers and    *)
(* the retry timers: it is in exactly one place until processDelivery, a   *)
(* timer or the shutdown has settled it, and in none from then on, with    *)
(* any number of partitions, workers and retries, and whatever fails.      *)
(***************************************************************************)
THEOREM NothingLostOrDoubled == Spec => []OnePlace
<1>1. ASSUME Base, Places PROVE OnePlace
  <2> USE DEF OnePlace
  <2> HAVE crashes = MaxCrash
  <2> TAKE p \in Partition
  <2> TAKE n \in Accepted(p)
  <2> DEFINE id == <<p, n>>
             q == Cardinality(Queued(id))
             h == Cardinality(Holding(id))
             t == Cardinality(Timed(id))
  <2>1. n \in DOMAIN Input[p] /\ (n < topic[p].next \/ Handling(p, n))
    BY Zenon DEF Accepted
  <2>2. Input[p] \in Seq(Callback)
    BY DeliveryAssumption, Zenon
  <2>3. n \in 1..Len(Input[p]) /\ n \in Nat
    BY <2>1, <2>2
  <2>4. id \in Id
    BY <2>3, IdOf, Zenon
  <2>5. Placed(id)
    BY <1>1, <2>4, Zenon DEF Places
  <2>6. Behind(id) <=> n < topic[p].next
    BY DEF Behind
  <2>7. topic[p].next \in Nat
    BY <1>1, ZenonT(40) DEF Base, TypeOK, PartitionOfType
  <2>8. Handling(p, n) <=> ~Behind(id)
    <3>1. Handling(p, n) => n = topic[p].next
      BY Zenon DEF Handling
    <3>2. n = topic[p].next => ~(n < topic[p].next)
      BY <2>3
    <3> QED BY <2>1, <2>6, <3>1, <3>2, ZenonT(40)
  <2>9. q + h + t = IF Behind(id) /\ fate[id] = "none" THEN 1 ELSE 0
    BY <2>5, PlacesCounted, Zenon
  <2>10. ~Behind(id) => fate[id] = "none"
    BY <2>5, ZenonT(40) DEF Placed
  <2>11. CASE Behind(id)
    <3>1. q + h + t = IF fate[id] = "none" THEN 1 ELSE 0
      BY <2>9, <2>11, Zenon
    <3>2. q \in Nat /\ h \in Nat /\ t \in Nat
      BY <2>5, PlacesCounted, ZenonT(40)
    <3> HIDE DEF id, q, h, t
    <3>3. 0 + q + h + t = IF fate[id] = "none" THEN 1 ELSE 0
      BY <3>1, <3>2
    <3>4. (IF Handling(p, n) THEN 1 ELSE 0) = 0
      BY <2>8, <2>11, ZenonT(40)
    <3> QED BY <3>3, <3>4 DEF id, q, h, t
  <2>12. CASE ~Behind(id)
    <3>1. q + h + t = 0 /\ fate[id] = "none"
      BY <2>9, <2>10, <2>12, ZenonT(40)
    <3>2. q \in Nat /\ h \in Nat /\ t \in Nat
      BY <2>5, PlacesCounted, Zenon
    <3> HIDE DEF id, q, h, t
    <3>3. 1 + q + h + t = 1
      BY <3>1, <3>2
    <3>4. (IF Handling(p, n) THEN 1 ELSE 0) = 1
      BY <2>8, <2>12, Zenon
    <3> QED BY <3>1, <3>3, <3>4, ZenonT(40) DEF id, q, h, t
  <2> QED BY <2>11, <2>12, ZenonT(40)
<1> QED BY <1>1, PlacesAlways, PTL

(***************************************************************************)
(* In a process that does not crash, the receiver answers 2xx to a message *)
(* once at most, although attempts before it may have failed on either     *)
(* side of the request, the dedup record may be lost, and timers bring     *)
(* messages back.  The messages have different dedup keys: two messages of *)
(* one key may pass the check of processDelivery together.                 *)
(***************************************************************************)
THEOREM NoSecondAcknowledgement ==
    ASSUME MaxCrash = 0,
           \A i, j \in Id : dedupKeyForMessage(i) = dedupKeyForMessage(j) => i = j
    PROVE  Spec => []DeliveredOnce
<1>1. ASSUME Base, Places PROVE DeliveredOnce
  <2>1. crashes \in Nat /\ crashes <= 0
    BY <1>1, Zenon DEF Base, TypeOK, Places
  <2>2. crashes = MaxCrash
    BY <2>1
  <2>3. ASSUME NEW i \in Id, acks[i] > 0 PROVE acks[i] = 1
    <3>1. Acked(i)
      BY <1>1, <2>2, Zenon DEF Places
    <3>2. acks[i] # 0
      BY <2>3
    <3> QED BY <3>1, <3>2, Zenon DEF Acked
  <2> QED BY <2>3, Zenon DEF DeliveredOnce
<1> QED BY <1>1, PlacesAlways, PTL
=============================================================================
