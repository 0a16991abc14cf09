-------------------------- MODULE CallbackDelivery --------------------------
(***************************************************************************)
(* The callback delivery service (internal/callback/delivery.go): one      *)
(* handler per claimed partition of the callback topic, a bounded work     *)
(* channel, a pool of delivery workers, retry timers, the STUMP gate, the  *)
(* dedup store and the dead-letter queue.                                  *)
(*                                                                         *)
(* A callback message is abstracted to its type, callback URL, block (for  *)
(* the SEEN types: the batch of txids) and subtree index, and to the retry *)
(* count it was published with.  The service's own copy of a message is    *)
(* an item: where it came from and its current RetryCount.                 *)
(***************************************************************************)
EXTENDS StumpGate, KafkaPartition, FiniteSets

CONSTANTS
    Partition,      \* partitions of the callback topic
    Url,            \* callback URLs
    Block,          \* block hashes
    Input,          \* [Partition -> Seq(Callback)]: what upstream publishes
    Worker,         \* the delivery workers
    MaxRetries,     \* cfg.Callback.MaxRetries
    MaxFault,       \* bound: failing store and DLQ calls
    MaxCrash,       \* bound: crashes of the process
    Stoppable       \* BOOLEAN: whether Stop is called

Callback == [type : {"STUMP", "BLOCK_PROCESSED", "SEEN"}, url : Url,
             block : Block, index : Nat, retry : Nat]

ASSUME DeliveryAssumption ==
    /\ Input \in [Partition -> Seq(Callback)]
    /\ IsFiniteSet(Worker)
    /\ {MaxRetries, MaxFault, MaxCrash} \subseteq Nat
    /\ Stoppable \in BOOLEAN

(* Only a STUMP has a subtree index. *)
ASSUME IndexAssumption ==
    \A p \in Partition : \A n \in DOMAIN Input[p] :
        Input[p][n].type # "STUMP" => Input[p][n].index = 0

(* Producers hash the callback URL: one URL, one partition. *)
ASSUME HashPartitioned ==
    \A p, q \in Partition : \A m \in DOMAIN Input[p], n \in DOMAIN Input[q] :
        Input[p][m].url = Input[q][n].url => p = q

(* Every block is reported to a URL once: no STUMP stands behind the
   BLOCK_PROCESSED of its block and URL. *)
StumpsFirst ==
    \A p \in Partition : \A n \in DOMAIN Input[p] : \A m \in 1..(n - 1) :
        /\ Input[p][m].type = "BLOCK_PROCESSED" /\ Input[p][n].type = "STUMP"
        => <<Input[p][m].block, Input[p][m].url>> # <<Input[p][n].block, Input[p][n].url>>

VARIABLES
    topic,          \* the partitions of the callback topic
    handler,        \* where handleMessage of each partition is
    gate,           \* d.stumpGate
    workCh,         \* d.workCh
    worker,         \* the goroutines of deliveryWorker
    parked,         \* items whose retry timer is running
    firing,         \* items whose timer callback is at its send
    dedup,          \* keys recorded in the dedup store
    fate,           \* history: what became of each message
    received,       \* history: messages the receiver got at least once
    acks,           \* history: 2xx answers per message
    stopping,       \* how far Stop has come
    panicked,       \* the process died of a panic
    faults, crashes \* what is left of the fault budgets

service == <<handler, gate, workCh, worker, parked, firing>>
history == <<fate, received, acks>>
vars == <<topic, service, dedup, history, stopping, panicked, faults, crashes>>

Id == UNION {{p} \X (DOMAIN Input[p]) : p \in Partition}

Cb(id) == Input[id[1]][id[2]]

Item == [id : Id, retry : Nat]

GateKey == Block \X Url

gateKey(id) == <<Cb(id).block, Cb(id).url>>

DedupKey == Url \X {"STUMP", "BLOCK_PROCESSED", "SEEN"} \X Block \X Nat

(* Mutant of dedupKeyForMessage: the subtree index is left out. *)
dedupKeyOfBlock(id) == <<Cb(id).url, Cb(id).type, Cb(id).block, 0>>

(* dedupKeyForMessage with the URL and type the store adds to it. *)
dedupKeyForMessage(id) ==
    <<Cb(id).url, Cb(id).type, Cb(id).block,
      IF Cb(id).type = "STUMP" THEN Cb(id).index ELSE 0>>

(* The condition under which handleMessage calls gate.Add and processDelivery
   defers gate.Done. *)
FirstStump(item) == Cb(item.id).type = "STUMP" /\ item.retry = 0

WorkChSize == 2 * Cardinality(Worker)

Closed == stopping \in {"closed", "stopped"}

ShuttingDown == stopping # "no"

(* Retry timers that retryTimerWg counts: armed, or in their callback. *)
Timers == parked \cup firing

IdleWorker == [pc |-> "idle"]

BusyWorker ==
    [pc : {"gate", "waiting", "woken", "ungate", "exists", "post", "record", "dlq",
           "park", "done"},
     item : Item, first : BOOLEAN, group : Nat]

Fate == {"none", "delivered", "skipped", "dlq", "lost", "dropped"}

Init ==
    /\ topic = [p \in Partition |-> EmptyPartition]
    /\ handler = [p \in Partition |-> "idle"]
    /\ gate = newStumpGate(GateKey)
    /\ workCh = <<>>
    /\ worker = [w \in Worker |-> IdleWorker]
    /\ parked = {}
    /\ firing = {}
    /\ dedup = {}
    /\ fate = [id \in Id |-> "none"]
    /\ received = {}
    /\ acks = [id \in Id |-> 0]
    /\ stopping = "no"
    /\ panicked = FALSE
    /\ faults = MaxFault
    /\ crashes = MaxCrash

(***************************************************************************)
(* The callback topic and its consumer.                                    *)
(***************************************************************************)
Publish(p) ==
    /\ Len(topic[p].log) < Len(Input[p])
    /\ topic' = [topic EXCEPT ![p] = Published(@, Input[p][Len(@.log) + 1])]
    /\ UNCHANGED <<service, dedup, history, stopping, panicked, faults, crashes>>

(* The consumer's auto-commit of what the handlers have marked.  Only a crash
   makes it visible, so no commit is taken after the last one. *)
Commit(p) ==
    /\ crashes > 0 /\ topic[p].committed # topic[p].marked
    /\ topic' = [topic EXCEPT ![p] = Committed(@)]
    /\ UNCHANGED <<service, dedup, history, stopping, panicked, faults, crashes>>

Fetched(p) == [id |-> <<p, topic[p].next>>, retry |-> Message(topic[p]).retry]

CanHandle(p) ==
    /\ handler[p] = "idle" /\ HasMessage(topic[p])
    /\ stopping # "stopped" /\ ~panicked

(***************************************************************************)
(* handleMessage, a message whose NextRetryAt is still ahead (only         *)
(* messages that were published as retries carry one): scheduleRetry reads *)
(* the shutdown flag, then it arms the timer.                              *)
(***************************************************************************)
ParkMessage(p) ==
    /\ CanHandle(p) /\ Fetched(p).retry > 0
    /\ IF ShuttingDown
       THEN /\ fate' = [fate EXCEPT ![Fetched(p).id] = "dropped"]
            /\ topic' = [topic EXCEPT ![p] = Marked(@)]
            /\ UNCHANGED handler
       ELSE /\ handler' = [handler EXCEPT ![p] = "park"]
            /\ UNCHANGED <<topic, fate>>
    /\ UNCHANGED <<gate, workCh, worker, parked, firing, dedup, received, acks,
                   stopping, panicked, faults, crashes>>

ArmParked(p) ==
    /\ handler[p] = "park" /\ ~panicked
    /\ parked' = parked \cup {Fetched(p)}
    /\ topic' = [topic EXCEPT ![p] = Marked(@)]
    /\ handler' = [handler EXCEPT ![p] = "idle"]
    /\ UNCHANGED <<gate, workCh, worker, firing, dedup, history, stopping, panicked,
                   faults, crashes>>

(* handleMessage up to the blocking send: first-attempt STUMPs register. *)
handleMessage(p) ==
    /\ CanHandle(p)
    /\ handler' = [handler EXCEPT ![p] = "send"]
    /\ gate' = IF FirstStump(Fetched(p)) THEN GateAdd(gate, gateKey(Fetched(p).id)) ELSE gate
    /\ UNCHANGED <<topic, workCh, worker, parked, firing, dedup, history,
                   stopping, panicked, faults, crashes>>

(* The send of handleMessage, and the MarkMessage that follows its return;
   a send on the closed channel panics. *)
Dispatch(p) ==
    /\ handler[p] = "send" /\ ~panicked
    /\ Closed \/ Len(workCh) < WorkChSize
    /\ panicked' = Closed
    /\ workCh' = IF Closed THEN workCh ELSE Append(workCh, Fetched(p))
    /\ topic' = IF Closed THEN topic ELSE [topic EXCEPT ![p] = Marked(@)]
    /\ handler' = [handler EXCEPT ![p] = "idle"]
    /\ UNCHANGED <<gate, worker, parked, firing, dedup, history, stopping, faults, crashes>>

(***************************************************************************)
(* deliveryWorker and processDelivery.                                     *)
(***************************************************************************)
At(w, pc) == worker[w].pc = pc /\ ~panicked

(* Worker w goes on at pc, with its item (of the given retry count) and the
   wait group it waits for. *)
Goes(w, pc, retry, group) ==
    worker' = [worker EXCEPT ![w] =
                   [pc |-> pc, item |-> [id |-> worker[w].item.id, retry |-> retry],
                    first |-> worker[w].first, group |-> group]]

Goto(w, pc) == Goes(w, pc, worker[w].item.retry, worker[w].group)

(* Mutant of GateEntry: BLOCK_PROCESSED does not wait at the gate. *)
GateEntryOpen(item) == "exists"

GateEntry(item) == IF Cb(item.id).type = "BLOCK_PROCESSED" THEN "gate" ELSE "exists"

Take(w) ==
    /\ At(w, "idle") /\ workCh # <<>>
    /\ worker' = [worker EXCEPT ![w] =
                      [pc |-> GateEntry(Head(workCh)), item |-> Head(workCh),
                       first |-> FirstStump(Head(workCh)), group |-> NoGroup]]
    /\ workCh' = Tail(workCh)
    /\ UNCHANGED <<topic, handler, gate, parked, firing, dedup, history,
                   stopping, panicked, faults, crashes>>

(* Where stumpGate.Wait goes: past the gate, straight through a wait group
   that is at zero, or to sleep on it. *)
WaitsAt(k) ==
    IF ~HasGroup(gate, k) THEN "exists"
    ELSE IF gate.count[gate.at[k]] = 0 THEN "ungate" ELSE "waiting"

GateWait(w) ==
    /\ At(w, "gate")
    /\ LET k == gateKey(worker[w].item.id) IN
       Goes(w, WaitsAt(k), worker[w].item.retry, gate.at[k])
    /\ UNCHANGED <<topic, handler, gate, workCh, parked, firing, dedup, history,
                   stopping, panicked, faults, crashes>>

(* A released WaitGroup.Wait panics if the wait group is in use again. *)
GateWoken(w) ==
    /\ At(w, "woken")
    /\ panicked' = (gate.count[worker[w].group] # 0)
    /\ Goto(w, "ungate")
    /\ UNCHANGED <<topic, handler, gate, workCh, parked, firing, dedup, history,
                   stopping, faults, crashes>>

GateOpened(w) ==
    /\ At(w, "ungate")
    /\ gate' = GateDelete(gate, gateKey(worker[w].item.id))
    /\ Goto(w, "exists")
    /\ UNCHANGED <<topic, handler, workCh, parked, firing, dedup, history,
                   stopping, panicked, faults, crashes>>

Settled(w, f) == fate' = [fate EXCEPT ![worker[w].item.id] = f] /\ Goto(w, "done")

(* Mutant of scheduleRetryAfterFailure: the message is forgotten. *)
RetryForgotten(w) == UNCHANGED fate /\ Goto(w, "done")

(* scheduleRetryAfterFailure and scheduleRetry up to the shutdown flag: the
   item is to be parked, or is dropped when the service is shutting down. *)
scheduleRetryAfterFailure(w) ==
    IF ShuttingDown
    THEN Settled(w, "dropped")
    ELSE Goes(w, "park", worker[w].item.retry + 1, worker[w].group) /\ UNCHANGED fate

(* The rest of scheduleRetry: retryTimerWg.Add and time.AfterFunc. *)
ArmTimer(w) ==
    /\ At(w, "park")
    /\ parked' = parked \cup {worker[w].item}
    /\ Goto(w, "done")
    /\ UNCHANGED <<topic, handler, gate, workCh, firing, dedup, history, stopping,
                   panicked, faults, crashes>>

(* Exists and Record of the dedup store. *)
Recorded(id) == dedupKeyForMessage(id) \in dedup
WithRecord(id) == dedup \cup {dedupKeyForMessage(id)}

Exists(w) ==
    /\ At(w, "exists")
    /\ IF Recorded(worker[w].item.id)
       THEN Settled(w, "skipped")
       ELSE UNCHANGED fate /\ Goto(w, "post")
    /\ UNCHANGED <<topic, handler, gate, workCh, parked, firing, dedup, received,
                   acks, stopping, panicked, faults, crashes>>

(* The dedup store fails: the item is retried, whatever its retry count. *)
ExistsFails(w) ==
    /\ At(w, "exists") /\ faults > 0
    /\ scheduleRetryAfterFailure(w)
    /\ faults' = faults - 1
    /\ UNCHANGED <<topic, handler, gate, workCh, parked, firing, dedup, received,
                   acks, stopping, panicked, crashes>>

(* deliverCallback: the receiver answers 2xx. *)
PostSucceeds(w) ==
    /\ At(w, "post")
    /\ received' = received \cup {worker[w].item.id}
    /\ acks' = [acks EXCEPT ![worker[w].item.id] = @ + 1]
    /\ Goto(w, "record")
    /\ UNCHANGED <<topic, handler, gate, workCh, parked, firing, dedup, fate,
                   stopping, panicked, faults, crashes>>

(* deliverCallback fails, before or after the request reached the receiver:
   retry, or the dead-letter queue once the retries are used up. *)
Exhausted(item) == item.retry >= MaxRetries

PostFails(w) ==
    /\ At(w, "post")
    /\ received' \in {received, received \cup {worker[w].item.id}}
    /\ IF Exhausted(worker[w].item)
       THEN UNCHANGED fate /\ Goto(w, "dlq")
       ELSE scheduleRetryAfterFailure(w)
    /\ UNCHANGED <<topic, handler, gate, workCh, parked, firing, dedup, acks,
                   stopping, panicked, faults, crashes>>

(* deliverCallback finds no blob for a STUMP: a permanent failure. *)
StumpMissing(w) ==
    /\ At(w, "post") /\ Cb(worker[w].item.id).type = "STUMP" /\ faults > 0
    /\ Goto(w, "dlq")
    /\ faults' = faults - 1
    /\ UNCHANGED <<topic, handler, gate, workCh, parked, firing, dedup, history,
                   stopping, panicked, crashes>>

(* Mutant of Record: a failing record is retried like a failing delivery. *)
RecordRetried(w) ==
    /\ At(w, "record")
    /\ \/ /\ dedup' = WithRecord(worker[w].item.id)
          /\ Settled(w, "delivered") /\ faults' = faults
       \/ /\ faults > 0 /\ faults' = faults - 1
          /\ scheduleRetryAfterFailure(w) /\ dedup' = dedup
    /\ UNCHANGED <<topic, handler, gate, workCh, parked, firing, received, acks,
                   stopping, panicked, crashes>>

(* The dedup record of a delivered callback; an error, which may hide a write
   that was applied, is only logged. *)
Record(w) ==
    /\ At(w, "record")
    /\ \/ /\ dedup' = WithRecord(worker[w].item.id)
          /\ faults' = faults
       \/ /\ faults > 0 /\ faults' = faults - 1
          /\ dedup' \in {dedup, WithRecord(worker[w].item.id)}
    /\ Settled(w, "delivered")
    /\ UNCHANGED <<topic, handler, gate, workCh, parked, firing, received, acks,
                   stopping, panicked, crashes>>

(* publishToDLQWithRetry: published, or lost when every attempt failed. *)
publishToDLQWithRetry(w) ==
    /\ At(w, "dlq")
    /\ \/ Settled(w, "dlq") /\ faults' = faults
       \/ Settled(w, "lost") /\ faults > 0 /\ faults' = faults - 1
    /\ UNCHANGED <<topic, handler, gate, workCh, parked, firing, dedup, received,
                   acks, stopping, panicked, crashes>>

(* Mutant of SignsOff: every attempt of a STUMP signs off, retries too. *)
SignsOffAlways(w) == Cb(worker[w].item.id).type = "STUMP"

(* Mutant of SignsOff: only a delivered STUMP signs off. *)
SignsOffDelivered(w) == worker[w].first /\ fate[worker[w].item.id] = "delivered"

(* processDelivery returns; a first-attempt STUMP signs off at the gate and
   releases the waiters of a wait group that reached zero. *)
SignsOff(w) == worker[w].first

Woken(h) == [pc |-> "woken", item |-> h.item, first |-> h.first, group |-> h.group]

Return(w) ==
    LET k == gateKey(worker[w].item.id)
        g == Released(gate, k) IN
    /\ At(w, "done")
    /\ gate' = IF SignsOff(w) THEN GateDone(gate, k) ELSE gate
    /\ panicked' = (SignsOff(w) /\ DonePanics(gate, k))
    /\ worker' = [v \in Worker |->
                    IF v = w THEN IdleWorker
                    ELSE IF /\ SignsOff(w) /\ g # NoGroup
                            /\ worker[v].pc = "waiting" /\ worker[v].group = g
                         THEN Woken(worker[v])
                         ELSE worker[v]]
    /\ UNCHANGED <<topic, handler, workCh, parked, firing, dedup, history,
                   stopping, faults, crashes>>

(***************************************************************************)
(* The retry timers of scheduleRetry.  A Stop that waits for retryTimerWg  *)
(* is released when the last of them is done.                              *)
(***************************************************************************)
TimerDone == stopping' = IF stopping = "waiting" /\ parked' \cup firing' = {}
                         THEN "released" ELSE stopping

(* Mutant of TimerFires: the callback does not look at the shutdown flag. *)
TimerFiresAnyway(x) ==
    /\ x \in parked /\ ~panicked
    /\ parked' = parked \ {x}
    /\ firing' = firing \cup {x}
    /\ UNCHANGED <<topic, handler, gate, workCh, worker, dedup, history,
                   stopping, panicked, faults, crashes>>

TimerFires(x) ==
    /\ x \in parked /\ ~panicked
    /\ parked' = parked \ {x}
    /\ IF ShuttingDown
       THEN fate' = [fate EXCEPT ![x.id] = "dropped"] /\ UNCHANGED firing /\ TimerDone
       ELSE firing' = firing \cup {x} /\ UNCHANGED <<fate, stopping>>
    /\ UNCHANGED <<topic, handler, gate, workCh, worker, dedup, received, acks,
                   panicked, faults, crashes>>

(* The blocking send of the timer callback. *)
TimerSends(x) ==
    /\ x \in firing /\ ~panicked
    /\ Len(workCh) < WorkChSize
    /\ firing' = firing \ {x} /\ UNCHANGED parked
    /\ workCh' = Append(workCh, x)
    /\ TimerDone
    /\ UNCHANGED <<topic, handler, gate, worker, dedup, history, panicked, faults,
                   crashes>>

(***************************************************************************)
(* Stop, and crashes.                                                      *)
(***************************************************************************)
StopFlag ==
    /\ Stoppable /\ stopping = "no" /\ ~panicked
    /\ stopping' = "flagged"
    /\ UNCHANGED <<topic, service, dedup, history, panicked, faults, crashes>>

(* retryTimerWg.Wait goes to sleep while a timer is counted. *)
StopWait ==
    /\ stopping = "flagged" /\ Timers # {} /\ ~panicked
    /\ stopping' = "waiting"
    /\ UNCHANGED <<topic, service, dedup, history, panicked, faults, crashes>>

(* retryTimerWg.Wait returns, and panics if a timer was armed after its
   release; then close(workCh). *)
StopClose ==
    /\ ~panicked
    /\ \/ stopping = "flagged" /\ Timers = {} /\ UNCHANGED panicked
       \/ stopping = "released" /\ panicked' = (Timers # {})
    /\ stopping' = IF panicked' THEN stopping ELSE "closed"
    /\ UNCHANGED <<topic, service, dedup, history, faults, crashes>>

(* workerWg.Wait returned: consumer.Stop and dlqProducer.Close. *)
StopConsumer ==
    /\ stopping = "closed" /\ ~panicked
    /\ workCh = <<>> /\ \A w \in Worker : worker[w] = IdleWorker
    /\ \A p \in Partition : handler[p] = "idle"
    /\ stopping' = "stopped"
    /\ UNCHANGED <<topic, service, dedup, history, panicked, faults, crashes>>

(* The process dies and restarts; only the stores and the topic survive. *)
Crash ==
    /\ crashes > 0
    /\ crashes' = crashes - 1
    /\ topic' = [p \in Partition |-> Rejoined(topic[p])]
    /\ handler' = [p \in Partition |-> "idle"]
    /\ gate' = newStumpGate(GateKey)
    /\ workCh' = <<>>
    /\ worker' = [w \in Worker |-> IdleWorker]
    /\ parked' = {} /\ firing' = {}
    /\ stopping' = "no" /\ panicked' = FALSE
    /\ UNCHANGED <<dedup, history, faults>>

(* Nothing left to do: every message is read and every item settled. *)
Quiescent ==
    /\ \/ panicked
       \/ stopping = "stopped"
       \/ /\ \A p \in Partition : Len(topic[p].log) = Len(Input[p])
          /\ \A p \in Partition : ~HasMessage(topic[p])
          /\ workCh = <<>> /\ parked = {} /\ firing = {}
          /\ \A w \in Worker : worker[w] = IdleWorker
    /\ UNCHANGED vars

HandlerStep(p) == ParkMessage(p) \/ ArmParked(p) \/ handleMessage(p) \/ Dispatch(p)

WorkerStep(w) ==
    \/ Take(w) \/ GateWait(w) \/ GateWoken(w) \/ GateOpened(w)
    \/ Exists(w) \/ ExistsFails(w)
    \/ PostSucceeds(w) \/ PostFails(w) \/ StumpMissing(w)
    \/ Record(w) \/ publishToDLQWithRetry(w) \/ ArmTimer(w) \/ Return(w)

TimerStep == \E x \in Timers : TimerFires(x) \/ TimerSends(x)

Next ==
    \/ \E p \in Partition : Publish(p) \/ Commit(p) \/ HandlerStep(p)
    \/ \E w \in Worker : WorkerStep(w)
    \/ TimerStep
    \/ StopFlag \/ StopWait \/ StopClose \/ StopConsumer
    \/ Crash
    \/ Quiescent

Spec == Init /\ [][Next]_vars

(***************************************************************************)
(* Producers publish what they have, the goroutines of handlers and        *)
(* workers are scheduled, and timers fire; nothing obliges the receiver to *)
(* answer well, the stores to work or anyone to stop the service.          *)
(***************************************************************************)
FairSpec ==
    /\ Spec
    /\ \A p \in Partition : WF_vars(Publish(p)) /\ WF_vars(HandlerStep(p))
    /\ \A w \in Worker : WF_vars(WorkerStep(w))
    /\ WF_vars(TimerStep)

(***************************************************************************)
(* Properties.                                                             *)
(***************************************************************************)

(* Every variable has its type. *)
TypeOK ==
    /\ topic \in [Partition -> PartitionOfType(Callback)]
    /\ handler \in [Partition -> {"idle", "send", "park"}]
    /\ gate \in GateOfType(GateKey)
    /\ workCh \in Seq(Item)
    /\ worker \in [Worker -> {IdleWorker} \cup BusyWorker]
    /\ parked \subseteq Item
    /\ firing \subseteq Item
    /\ dedup \subseteq DedupKey
    /\ fate \in [Id -> Fate]
    /\ received \subseteq Id
    /\ acks \in [Id -> Nat]
    /\ stopping \in {"no", "flagged", "waiting", "released", "closed", "stopped"}
    /\ panicked \in BOOLEAN
    /\ faults \in Nat
    /\ crashes \in Nat

Holding(id) == {w \in Worker : worker[w].pc \notin {"idle", "done"} /\ worker[w].item.id = id}

Queued(id) == {n \in 1..Len(workCh) : workCh[n].id = id}

Timed(id) == {x \in Timers : x.id = id}

(* handleMessage is working on the message at offset n of partition p. *)
Handling(p, n) == handler[p] # "idle" /\ topic[p].next = n

(* What handleMessage has accepted of partition p: the offsets it has marked
   or is working on. *)
Accepted(p) ==
    {n \in DOMAIN Input[p] : n < topic[p].next \/ Handling(p, n)}

(***************************************************************************)
(* A message that handleMessage accepted is at the handler's send, in the  *)
(* work channel, with a worker or with a timer, in exactly one of these    *)
(* places, until it has its final fate; then it is in none (until the      *)
(* first crash).                                                           *)
(***************************************************************************)
OnePlace ==
    crashes = MaxCrash => \A p \in Partition : \A n \in Accepted(p) :
        LET id == <<p, n>> IN
        (IF Handling(p, n) THEN 1 ELSE 0) + Cardinality(Queued(id))
            + Cardinality(Holding(id)) + Cardinality(Timed(id))
          = IF fate[id] = "none" THEN 1 ELSE 0

(* The STUMPs that precede message id on its partition and share its gate. *)
EarlierStumps(id) ==
    {<<id[1], n>> : n \in {m \in 1..(id[2] - 1) :
        /\ Cb(<<id[1], m>>).type = "STUMP"
        /\ gateKey(<<id[1], m>>) = gateKey(id)}}

(* The first attempt of STUMP id is over: it was retried or has a fate, and
   its worker is past the deferred gate.Done. *)
FirstAttemptOver(id) ==
    /\ ~ \E w \in Worker : worker[w].pc # "idle" /\ worker[w].item.id = id /\ worker[w].first
    /\ ~ \E n \in Queued(id) : workCh[n].retry = 0
    /\ ~Handling(id[1], id[2])

(***************************************************************************)
(* No worker checks, posts or dead-letters a BLOCK_PROCESSED before the    *)
(* first delivery attempt of every STUMP of its block and URL that stands  *)
(* before it on the partition has returned from processDelivery.           *)
(***************************************************************************)
GateOrder ==
    \A w \in Worker :
        /\ worker[w].pc \in {"exists", "post", "record", "dlq"}
        /\ Cb(worker[w].item.id).type = "BLOCK_PROCESSED"
        => \A id \in EarlierStumps(worker[w].item.id) : FirstAttemptOver(id)

(* Neither the gate's wait groups nor a send on workCh makes the process
   panic. *)
NoPanic == ~panicked

(***************************************************************************)
(* With Stop, the process panics at two places only: in Stop itself, when  *)
(* a timer was armed after the last one had released retryTimerWg.Wait,    *)
(* and at a handler's send on the channel that Stop has closed before it   *)
(* stops the consumer.  The gate never panics, whatever Stop interrupts.   *)
(***************************************************************************)
PanicsOnlyInStop == panicked => stopping \in {"released", "closed"}

(***************************************************************************)
(* Messages with one dedup key are acknowledged by the receiver once at    *)
(* most: the dedup check and record around deliverCallback.                *)
(***************************************************************************)
DeliveredOnce ==
    \A i, j \in Id :
        dedupKeyForMessage(i) = dedupKeyForMessage(j) /\ acks[i] > 0 /\ acks[j] > 0
            => i = j /\ acks[i] = 1

(* A message is skipped as a duplicate only if the receiver has the same
   callback: same type, URL, block and subtree. *)
SkippedIsDelivered ==
    \A i \in Id : fate[i] = "skipped" =>
        \E j \in received : [Cb(j) EXCEPT !.retry = 0] = [Cb(i) EXCEPT !.retry = 0]

(***************************************************************************)
(* No timer callback is at its send once Stop has closed workCh, although  *)
(* scheduleRetry may arm a timer after retryTimerWg.Wait has returned: the *)
(* recover around the send is never needed.                                *)
(***************************************************************************)
NoTimerSendsOnClosed == Closed => firing = {}

(* Eventually every published callback has been delivered, recognised as a
   duplicate, dead-lettered, or lost to a failing dead-letter queue. *)
AllSettled == <>(\A id \in Id : fate[id] # "none")

(***************************************************************************)
(* What the comment of stumpGate says.                                     *)
(***************************************************************************)

(* stumpGate: all STUMP deliveries of a block and URL complete before
   BLOCK_PROCESSED is delivered to that URL. *)
StumpsBeforeBlockProcessed ==
    \A id \in received : Cb(id).type = "BLOCK_PROCESSED" =>
        \A s \in EarlierStumps(id) : fate[s] # "none"
=============================================================================
