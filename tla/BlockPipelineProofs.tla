------------------------ MODULE BlockPipelineProofs -------------------------
(***************************************************************************)
(* Type correctness of BlockPipeline, what each of its steps does to the   *)
(* state that the invariants are about, and the invariants, for every      *)
(* value of the constants: first those that need no counting, then what    *)
(* the subtree counter means, and that BLOCK_PROCESSED is complete and     *)
(* last.                                                                   *)
(***************************************************************************)
EXTENDS BlockPipeline, TLAPS

(* The partition operators keep the type, and a fetched message has it. *)
LEMMA PartitionTypes ==
    ASSUME NEW M, NEW part \in PartitionOfType(M)
    PROVE  /\ \A m \in M : Published(part, m) \in PartitionOfType(M)
           /\ Marked(part) \in PartitionOfType(M)
           /\ Skipped(part) \in PartitionOfType(M)
           /\ Committed(part) \in PartitionOfType(M)
           /\ Rejoined(part) \in PartitionOfType(M)
           /\ HasMessage(part) => Message(part) \in M
<1> USE DEF PartitionOfType
<1>1. \A m \in M : Published(part, m) \in PartitionOfType(M)
  BY SMTT(30) DEF Published
<1>2. Marked(part) \in PartitionOfType(M)
  <2>1. part.next + 1 \in Nat \ {0}
    OBVIOUS
  <2> QED BY <2>1, Zenon DEF Marked
<1>3. Skipped(part) \in PartitionOfType(M)
  BY DEF Skipped
<1>4. Committed(part) \in PartitionOfType(M)
  BY DEF Committed
<1>5. Rejoined(part) \in PartitionOfType(M)
  <2>1. Len(part.log) + 1 \in Nat \ {0}
    OBVIOUS
  <2>2. part.committed # 0 => part.committed \in Nat \ {0}
    OBVIOUS
  <2> QED BY <2>1, <2>2, Zenon DEF Rejoined, NoOffset
<1>6. HasMessage(part) => Message(part) \in M
  BY DEF HasMessage, Message
<1> QED BY <1>1, <1>2, <1>3, <1>4, <1>5, <1>6

(* Only a publish changes the log of a partition. *)
LEMMA PartitionLogs ==
    ASSUME NEW M, NEW part \in PartitionOfType(M)
    PROVE  /\ part.log \in Seq(M)
           /\ \A m : Published(part, m).log = Append(part.log, m)
           /\ Marked(part).log = part.log
           /\ Skipped(part).log = part.log
           /\ Committed(part).log = part.log
           /\ Rejoined(part).log = part.log
BY DEF PartitionOfType, Published, Marked, Skipped, Committed, Rejoined

(* The dedup cache holds only keys that were added. *)
LEMMA AddType ==
    ASSUME NEW K, NEW cache \in Seq(K), NEW key \in K, NEW size \in Int
    PROVE  Add(cache, size, key) \in Seq(K)
<1>1. CASE Contains(cache, key)
  <2> DEFINE n == PositionOf(cache, key)
  <2>1. n \in 1..Len(cache)
    BY <1>1 DEF Contains, PositionOf
  <2>2. /\ SubSeq(cache, 1, n - 1) \in Seq(K)
        /\ SubSeq(cache, n + 1, Len(cache)) \in Seq(K)
    BY <2>1
  <2> QED BY <1>1, <2>2 DEF Add
<1>2. CASE ~Contains(cache, key)
  <2>1. Capacity(size) \in Int /\ Capacity(size) >= 1
    BY DEF Capacity
  <2>2. Len(cache) >= Capacity(size) => SubSeq(cache, 1, Capacity(size) - 1) \in Seq(K)
    BY <2>1
  <2> QED BY <1>2, <2>1, <2>2 DEF Add
<1> QED BY <1>1, <1>2


-----------------------------------------------------------------------------
(* Lemmas about the operators of the model.                                *)

(* A work item is a pair of a block and an index below its subtree count. *)
LEMMA WorkItemPairs ==
    /\ \A w \in WorkItem : /\ w = <<w[1], w[2]>>
                           /\ w[1] \in Block
                           /\ w[2] \in 0..(SubtreeCount[w[1]] - 1)
    /\ \A b \in Block, i \in Nat : i < SubtreeCount[b] => <<b, i>> \in WorkItem
BY PipelineAssumption DEF WorkItem

(* The callbacks of the model are in Callback. *)
LEMMA CallbackTypes ==
    /\ \A w \in WorkItem : Stump(w) \in Callback
    /\ \A b \in Block : BlockProcessed(b) \in Callback
BY DEF Callback

(* A DAH map stays one when a blob is written or blobs are pruned. *)
LEMMA DAHTypes ==
    ASSUME NEW m \in [BlobKey -> Nat], NEW k \in BlobKey, NEW h \in Nat
    PROVE  /\ SetDAH(m, k, h) \in [BlobKey -> Nat]
           /\ PrunedDAH(m, h) \in [BlobKey -> Nat]
           /\ EmptyDAH(BlobKey) \in [BlobKey -> Nat]
BY DEF SetDAH, PrunedDAH, EmptyDAH, NoDAH

(* A busy handler keeps its message when only its pc and its rest change. *)
LEMMA BusyWorkerUpdates ==
    ASSUME NEW s \in {IdleWorker} \cup BusyWorker, s.pc # "idle"
    PROVE  /\ s.item \in WorkItem /\ s.todo \in SUBSET Url
           /\ \A c \in {"put", "stump", "decrement", "urls", "emit", "return"},
                 t \in SUBSET Url :
                /\ [s EXCEPT !.pc = c] \in BusyWorker
                /\ [s EXCEPT !.pc = c, !.todo = t] \in BusyWorker
                /\ [s EXCEPT !.todo = t, !.pc = c] \in BusyWorker
<1>1. s \in BusyWorker
  BY DEF IdleWorker
<1> QED BY <1>1, Zenon DEF BusyWorker

(* Writing a blob keeps the types of the blob store. *)
LEMMA StoredType ==
    ASSUME NEW p \in WorkPartition, NEW k \in BlobKey, NEW h \in Nat,
           files \subseteq BlobKey, dah \in [Process -> [BlobKey -> Nat]],
           Stored(p, k, h)
    PROVE  files' \subseteq BlobKey /\ dah' \in [Process -> [BlobKey -> Nat]]
BY PipelineAssumption, DAHTypes, Zenon DEF Stored

-----------------------------------------------------------------------------
(* Type correctness.                                                       *)

(* The type invariant holds initially and every step of the pipeline keeps it. *)
THEOREM TypeCorrect == Spec => []TypeOK
<1>1. Init => TypeOK
  <2> SUFFICES ASSUME Init PROVE TypeOK
    OBVIOUS
  <2>1. EmptyPartition \in PartitionOfType(Block) /\ EmptyPartition \in PartitionOfType(WorkItem)
    BY DEF EmptyPartition, PartitionOfType, NoOffset
  <2>2. {"subtree"} \X Realtime \subseteq BlobKey
    BY PipelineAssumption DEF BlobKey
  <2>3. EmptyDAH(BlobKey) \in [BlobKey -> Nat]
    BY DEF EmptyDAH, NoDAH
  <2> QED
    BY <2>1, <2>2, <2>3 DEF Init, TypeOK, NoCounter, Counter, Budget
<1>2. TypeOK /\ [Next]_vars => TypeOK'
  <2> SUFFICES ASSUME TypeOK, [Next]_vars PROVE TypeOK'
    OBVIOUS
  <2>a. /\ blockTopic \in PartitionOfType(Block)
        /\ workTopic \in [WorkPartition -> PartitionOfType(WorkItem)]
    BY DEF TypeOK
  <2>b. callbackTopic \in [Url -> Seq(Callback)]
    BY DEF TypeOK
  <2>c. proc \in {IdleProc} \cup BusyProc
    BY DEF TypeOK
  <2>d. worker \in [WorkPartition -> {IdleWorker} \cup BusyWorker]
    BY DEF TypeOK
  <2>e. dedupCache \in Seq(Block)
    BY DEF TypeOK
  <2>f. files \subseteq BlobKey /\ dah \in [Process -> [BlobKey -> Nat]]
    BY DEF TypeOK
  <2>g. budget \in Budget
    BY DEF TypeOK
  <2>h. counter \in [Block -> Counter] /\ inits \in [Block -> Nat]
    BY DEF TypeOK
  <2>i. /\ starts \in [WorkItem -> Nat]
        /\ decremented \subseteq WorkItem
        /\ failed \subseteq WorkItem \X Url
    BY DEF TypeOK
  <2>j. tip \in Nat
    BY DEF TypeOK
  <2>k. /\ Works \/ Fails => budget' \in Budget
        /\ [budget EXCEPT !.announce = @ + 1] \in Budget
        /\ [budget EXCEPT !.crash = @ + 1] \in Budget
    BY <2>g DEF Works, Fails, Budget
  <2>1. ASSUME NEW b \in Block, Announce(b) PROVE TypeOK'
    <3>1. blockTopic' \in PartitionOfType(Block)
      BY <2>1, <2>a, PartitionTypes, Zenon DEF Announce
    <3> QED BY <2>1, <2>k, <3>1 DEF Announce, TypeOK, history
  <2>2. CASE ReceiveBlock
    <3>1. blockTopic' \in PartitionOfType(Block)
      BY <2>2, <2>a, PartitionTypes DEF ReceiveBlock
    <3>2. proc' \in {IdleProc} \cup BusyProc
      BY <2>2, <2>a, <2>c, PartitionTypes DEF ReceiveBlock, BusyProc
    <3>3. budget' \in Budget
      BY <2>2, <2>k DEF ReceiveBlock
    <3> QED BY <2>2, <3>1, <3>2, <3>3 DEF ReceiveBlock, TypeOK, history
  <2>3. CASE InitCounter
    <3>1. proc.block \in Block /\ [proc EXCEPT !.pc = "publish"] \in BusyProc
      BY <2>3, <2>c DEF InitCounter, BusyProc, IdleProc
    <3>2. CounterWritten(proc.block) => /\ counter' \in [Block -> Counter]
                                        /\ inits' \in [Block -> Nat]
      BY <3>1, <2>h, PipelineAssumption DEF CounterWritten, CounterSetTo, Counter
    <3>3. counter' \in [Block -> Counter] /\ inits' \in [Block -> Nat]
      BY <2>3, <2>h, <3>2 DEF InitCounter
    <3>4. blockTopic' \in PartitionOfType(Block) /\ budget' \in Budget
      BY <2>3, <2>a, <2>k, PartitionTypes DEF InitCounter
    <3>5. proc' \in {IdleProc} \cup BusyProc
      BY <2>3, <3>1 DEF InitCounter
    <3> QED BY <2>3, <3>3, <3>4, <3>5 DEF InitCounter, TypeOK
  <2>4. CASE PublishWork
    <3>1. /\ <<proc.block, proc.i>> \in WorkItem
          /\ [proc EXCEPT !.i = @ + 1] \in BusyProc
      BY <2>4, <2>c, WorkItemPairs DEF PublishWork, BusyProc, IdleProc
    <3>2. workTopic' \in [WorkPartition -> PartitionOfType(WorkItem)]
      <4> DEFINE w == <<proc.block, proc.i>>
      <4>1. /\ PartitionOf[w] \in WorkPartition
            /\ Published(workTopic[PartitionOf[w]], w) \in PartitionOfType(WorkItem)
        BY <2>a, <3>1, PartitionTypes, PipelineAssumption, ZenonT(30)
      <4> QED BY <2>4, <2>a, <4>1 DEF PublishWork
    <3>3. budget' \in Budget
      BY <2>4, <2>k DEF PublishWork
    <3>4. proc' \in {IdleProc} \cup BusyProc
      BY <2>4, <3>1 DEF PublishWork
    <3> QED BY <2>4, <3>2, <3>3, <3>4 DEF PublishWork, TypeOK, history
  <2>5. CASE FinishBlock
    <3>1. proc.block \in Block
      BY <2>5, <2>c DEF FinishBlock, BusyProc, IdleProc
    <3>2. dah' \in [Process -> [BlobKey -> Nat]]
      BY <2>5, <2>f, <3>1, Zenon DEF FinishBlock, PrunedDAH, NoDAH
    <3>3. dedupCache' \in Seq(Block)
      BY <2>5, <2>e, <3>1, AddType, PipelineAssumption DEF FinishBlock
    <3>4. blockTopic' \in PartitionOfType(Block)
      BY <2>5, <2>a, PartitionTypes DEF FinishBlock
    <3>5. tip' \in Nat /\ files' \subseteq BlobKey
      BY <2>5, <2>f, <2>j, <3>1, PipelineAssumption DEF FinishBlock
    <3> QED BY <2>5, <3>2, <3>3, <3>4, <3>5, ZenonT(40) DEF FinishBlock, TypeOK
  <2>6. ASSUME NEW p \in WorkPartition, ProcessBlockSubtree(p) PROVE TypeOK'
    <3> DEFINE w == Message(workTopic[p])
    <3>1. w \in WorkItem
      BY <2>6, <2>a, PartitionTypes DEF ProcessBlockSubtree
    <3>2. /\ SubtreeDAH(w) \in Nat
          /\ <<"subtree", w>> \in BlobKey
      BY <3>1, WorkItemPairs, PipelineAssumption DEF SubtreeDAH, BlobKey
    <3> HIDE DEF w
    <3>3. Stored(p, <<"subtree", w>>, SubtreeDAH(w)) => /\ files' \subseteq BlobKey
                                                        /\ dah' \in [Process -> [BlobKey -> Nat]]
      BY <2>f, <3>2, StoredType
    <3>4. /\ files' \subseteq BlobKey
          /\ dah' \in [Process -> [BlobKey -> Nat]]
          /\ budget' \in Budget
      BY <2>6, <2>k, <2>f, <3>3
      DEF ProcessBlockSubtree, SubtreeFound, SubtreeFetched, SubtreeFailed, w
    <3>5. /\ [pc |-> IF Registered[w] = {} THEN "decrement" ELSE "put",
              item |-> w, todo |-> Registered[w]] \in BusyWorker
          /\ [pc |-> "decrement", item |-> w, todo |-> {}] \in BusyWorker
      BY <3>1, PipelineAssumption DEF BusyWorker
    <3>6. worker' \in [WorkPartition -> {IdleWorker} \cup BusyWorker]
      BY <2>6, <2>d, <3>5, ZenonT(40) DEF ProcessBlockSubtree, w
    <3>7. /\ starts' \in [WorkItem -> Nat]
          /\ failed' \subseteq WorkItem \X Url
      BY <2>6, <2>i, <3>1, PipelineAssumption DEF ProcessBlockSubtree, w
    <3> QED BY <2>6, <3>4, <3>6, <3>7, ZenonT(40) DEF ProcessBlockSubtree, TypeOK
  <2>7. ASSUME NEW p \in WorkPartition, PutStump(p) PROVE TypeOK'
    <3> DEFINE w == worker[p].item
    <3>1. w \in WorkItem /\ worker[p].todo \in SUBSET Url
      BY <2>7, <2>d, BusyWorkerUpdates, Zenon DEF PutStump
    <3>2. /\ StumpDAH(w) \in Nat
          /\ <<"stump", w>> \in BlobKey
      BY <3>1, WorkItemPairs, PipelineAssumption DEF StumpDAH, BlobKey, NoDAH
    <3> HIDE DEF w
    <3>3. Stored(p, <<"stump", w>>, StumpDAH(w)) => /\ files' \subseteq BlobKey
                                                    /\ dah' \in [Process -> [BlobKey -> Nat]]
      BY <2>f, <3>2, StoredType
    <3>4. worker' \in [WorkPartition -> {IdleWorker} \cup BusyWorker]
      <4>1. /\ [worker[p] EXCEPT !.pc = "stump"] \in BusyWorker
            /\ [worker[p] EXCEPT !.pc = "decrement", !.todo = {}] \in BusyWorker
        BY <2>7, <2>d, BusyWorkerUpdates, Zenon DEF PutStump
      <4> QED BY <2>7, <2>d, <4>1, Zenon DEF PutStump
    <3>5. /\ files' \subseteq BlobKey
          /\ dah' \in [Process -> [BlobKey -> Nat]]
          /\ budget' \in Budget
          /\ failed' \subseteq WorkItem \X Url
      BY <2>7, <2>f, <2>i, <2>k, <3>1, <3>3 DEF PutStump, w
    <3> QED BY <2>7, <3>4, <3>5 DEF PutStump, TypeOK
  <2>8. ASSUME NEW p \in WorkPartition, NEW u \in Url, PublishStump(p, u) PROVE TypeOK'
    <3>1. worker[p].item \in WorkItem
      BY <2>8, <2>d, BusyWorkerUpdates, Zenon DEF PublishStump
    <3>2. worker' \in [WorkPartition -> {IdleWorker} \cup BusyWorker]
      BY <2>8, <2>d, BusyWorkerUpdates, ZenonT(40) DEF PublishStump
    <3>3. callbackTopic' \in [Url -> Seq(Callback)]
      <4>1. Append(callbackTopic[u], Stump(worker[p].item)) \in Seq(Callback)
        BY <2>b, <3>1, CallbackTypes
      <4> QED BY <2>8, <2>b, <4>1, Zenon DEF PublishStump
    <3>4. budget' \in Budget /\ failed' \subseteq WorkItem \X Url
      BY <2>8, <2>i, <2>k, <3>1 DEF PublishStump
    <3> QED BY <2>8, <3>2, <3>3, <3>4, ZenonT(30) DEF PublishStump, TypeOK
  <2>9. ASSUME NEW p \in WorkPartition, Decrement(p) PROVE TypeOK'
    <3> DEFINE w == worker[p].item
    <3>1. w \in WorkItem /\ w[1] \in Block
      BY <2>9, <2>d, BusyWorkerUpdates, WorkItemPairs, Zenon DEF Decrement
    <3>2. worker' \in [WorkPartition -> {IdleWorker} \cup BusyWorker]
      <4>1. /\ [worker[p] EXCEPT !.pc = "urls"] \in BusyWorker
            /\ [worker[p] EXCEPT !.pc = "return"] \in BusyWorker
        BY <2>9, <2>d, BusyWorkerUpdates, ZenonT(40) DEF Decrement
      <4> QED BY <2>9, <2>d, <4>1 DEF Decrement
    <3>3. Decremented(w) => counter' \in [Block -> Counter] /\ decremented' \subseteq WorkItem
      BY <3>1, <2>h, <2>i DEF Decremented, Counter
    <3>4. /\ counter' \in [Block -> Counter]
          /\ decremented' \subseteq WorkItem
          /\ budget' \in Budget
      BY <2>9, <2>h, <2>i, <2>k, <3>3 DEF Decrement
    <3> QED BY <2>9, <3>2, <3>4 DEF Decrement, TypeOK
  <2>10. ASSUME NEW p \in WorkPartition, GetUrls(p) PROVE TypeOK'
    <3>1. worker' \in [WorkPartition -> {IdleWorker} \cup BusyWorker]
      <4>1. \A c \in {"emit", "return"} :
                /\ [worker[p] EXCEPT !.pc = c] \in BusyWorker
                /\ [worker[p] EXCEPT !.pc = c, !.todo = Registry] \in BusyWorker
        BY <2>10, <2>d, BusyWorkerUpdates, PipelineAssumption, Zenon DEF GetUrls
      <4> QED BY <2>10, <2>d, <4>1 DEF GetUrls
    <3>2. budget' \in Budget
      BY <2>10, <2>k DEF GetUrls
    <3> QED BY <2>10, <3>1, <3>2 DEF GetUrls, TypeOK, history
  <2>11. ASSUME NEW p \in WorkPartition, NEW u \in Url, PublishBlockProcessed(p, u)
         PROVE  TypeOK'
    <3>1. worker[p].item[1] \in Block
      BY <2>11, <2>d, BusyWorkerUpdates, WorkItemPairs, Zenon DEF PublishBlockProcessed
    <3>2. worker' \in [WorkPartition -> {IdleWorker} \cup BusyWorker]
      BY <2>11, <2>d, BusyWorkerUpdates, ZenonT(40) DEF PublishBlockProcessed
    <3>3. callbackTopic' \in [Url -> Seq(Callback)]
      <4>1. Append(callbackTopic[u], BlockProcessed(worker[p].item[1])) \in Seq(Callback)
        BY <2>b, <3>1, CallbackTypes
      <4> QED BY <2>11, <2>b, <4>1, Zenon DEF PublishBlockProcessed
    <3>4. budget' \in Budget
      BY <2>11, <2>k DEF PublishBlockProcessed
    <3> QED BY <2>11, <3>2, <3>3, <3>4, ZenonT(30) DEF PublishBlockProcessed, TypeOK, history
  <2>12. ASSUME NEW p \in WorkPartition, ReturnWork(p) PROVE TypeOK'
    <3>1. /\ workTopic' \in [WorkPartition -> PartitionOfType(WorkItem)]
          /\ worker' \in [WorkPartition -> {IdleWorker} \cup BusyWorker]
      BY <2>12, <2>a, <2>d, PartitionTypes DEF ReturnWork
    <3> QED BY <2>12, <3>1 DEF ReturnWork, TypeOK, history
  <2>13. CASE CommitBlock
    <3>1. blockTopic' \in PartitionOfType(Block)
      BY <2>13, <2>a, PartitionTypes DEF CommitBlock
    <3> QED BY <2>13, <3>1 DEF CommitBlock, TypeOK, history
  <2>14. ASSUME NEW p \in WorkPartition, CommitWork(p) PROVE TypeOK'
    <3>1. workTopic' \in [WorkPartition -> PartitionOfType(WorkItem)]
      BY <2>14, <2>a, PartitionTypes DEF CommitWork
    <3> QED BY <2>14, <3>1 DEF CommitWork, TypeOK, history
  <2>15. ASSUME NEW q \in Process, Crash(q) PROVE TypeOK'
    <3>1. dah' \in [Process -> [BlobKey -> Nat]]
      BY <2>15, <2>f DEF Crash, EmptyDAH, NoDAH
    <3>2. dedupCache' \in Seq(Block)
      <4>1. <<>> \in Seq(Block)
        OBVIOUS
      <4> QED BY <2>15, <2>e, <4>1, Zenon DEF Crash
    <3>3. /\ workTopic' \in [WorkPartition -> PartitionOfType(WorkItem)]
          /\ worker' \in [WorkPartition -> {IdleWorker} \cup BusyWorker]
      BY <2>15, <2>a, <2>d, PartitionTypes DEF Crash
    <3>4. /\ blockTopic' \in PartitionOfType(Block)
          /\ proc' \in {IdleProc} \cup BusyProc
          /\ budget' \in Budget
      BY <2>15, <2>a, <2>c, <2>k, PartitionTypes DEF Crash
    <3> QED BY <2>15, <3>1, <3>2, <3>3, <3>4, ZenonT(40) DEF Crash, TypeOK, history
  <2>16. ASSUME NEW b \in Block, ExpireCounter(b) PROVE TypeOK'
    <3>1. counter' \in [Block -> Counter]
      BY <2>16, <2>h DEF ExpireCounter, NoCounter, Counter
    <3>2. budget' \in Budget
      BY <2>16, <2>k DEF ExpireCounter
    <3> QED BY <2>16, <3>1, <3>2 DEF ExpireCounter, TypeOK, history
  <2>17. CASE UNCHANGED vars
    BY <2>17 DEF vars, history, TypeOK
  <2> QED
    BY <2>1, <2>2, <2>3, <2>4, <2>5, <2>6, <2>7, <2>8, <2>9, <2>10, <2>11,
       <2>12, <2>13, <2>14, <2>15, <2>16, <2>17
    DEF Next, ProcessorStep, WorkerStep, Quiescent
<1> QED BY <1>1, <1>2, PTL DEF Spec

-----------------------------------------------------------------------------
(* What the steps do to the state the invariant is about.                  *)

(* The handler of p goes on with its item: new pc c, URLs left t. *)
Moved(p, c, t) ==
    /\ worker[p].pc # "idle"
    /\ worker'[p].item = worker[p].item
    /\ worker'[p].pc = c
    /\ worker'[p].todo = t
    /\ \A q \in WorkPartition : q # p => worker'[q] = worker[q]

(* A message m is appended to the log of u. *)
Sent(u, m) ==
    callbackTopic' = [callbackTopic EXCEPT ![u] = Append(@, m)]

(* What a message on the topic is after a publish. *)
LEMMA SentOnTopic ==
    ASSUME TypeOK, NEW u \in Url, NEW m, Sent(u, m)
    PROVE  \A v \in Url : \A k : OnTopic(v, k)' <=> OnTopic(v, k) \/ (v = u /\ k = m)
<1>1. callbackTopic \in [Url -> Seq(Callback)]
  BY DEF TypeOK
<1> QED BY <1>1 DEF Sent, OnTopic

(* The moves of the five steps that keep the item of the handler. *)
LEMMA PutStumpMoves ==
    ASSUME TypeOK, NEW p \in WorkPartition, PutStump(p)
    PROVE  /\ worker[p].pc = "put"
           /\ \/ Moved(p, "stump", worker[p].todo) /\ failed' = failed
              \/ /\ Moved(p, "decrement", {})
                 /\ failed' = failed \cup ({worker[p].item} \X worker[p].todo)
           /\ UNCHANGED <<workTopic, callbackTopic, counter, inits, starts, decremented>>
<1>1. worker \in [WorkPartition -> {IdleWorker} \cup BusyWorker]
  BY DEF TypeOK
<1>2. worker[p] \in BusyWorker
  BY <1>1 DEF PutStump, IdleWorker
<1> QED BY <1>1, <1>2 DEF PutStump, Moved, BusyWorker

(* A turn of publishSubtreeCallbacks' loop sends one STUMP or logs its loss. *)
LEMMA PublishStumpMoves ==
    ASSUME TypeOK, NEW p \in WorkPartition, NEW u \in Url, PublishStump(p, u)
    PROVE  /\ worker[p].pc = "stump" /\ u \in worker[p].todo
           /\ \/ Sent(u, Stump(worker[p].item)) /\ failed' = failed
              \/ /\ callbackTopic' = callbackTopic
                 /\ failed' = failed \cup {<<worker[p].item, u>>}
           /\ \/ Moved(p, "stump", worker[p].todo \ {u})
              \/ Moved(p, "decrement", worker[p].todo \ {u}) /\ worker[p].todo \ {u} = {}
           /\ UNCHANGED <<workTopic, counter, inits, starts, decremented>>
<1>1. worker \in [WorkPartition -> {IdleWorker} \cup BusyWorker]
  BY DEF TypeOK
<1>2. worker[p] \in BusyWorker
  BY <1>1 DEF PublishStump, IdleWorker
<1>3. \/ Moved(p, "stump", worker[p].todo \ {u})
      \/ Moved(p, "decrement", worker[p].todo \ {u}) /\ worker[p].todo \ {u} = {}
  BY <1>1, <1>2 DEF PublishStump, Moved, BusyWorker
<1> QED BY <1>3 DEF PublishStump, Sent

(* A worker emits only after a decrement that took effect and returned 0. *)
LEMMA DecrementMoves ==
    ASSUME TypeOK, NEW p \in WorkPartition, Decrement(p)
    PROVE  /\ worker[p].pc = "decrement"
           /\ \/ Decremented(worker[p].item)
              \/ UNCHANGED <<counter, decremented>>
           /\ \/ Moved(p, "return", worker[p].todo)
              \/ /\ Moved(p, "urls", worker[p].todo)
                 /\ Decremented(worker[p].item)
                 /\ counter[worker[p].item[1]].remaining - 1 = 0
           /\ UNCHANGED <<workTopic, callbackTopic, failed, inits, starts>>
<1>1. worker \in [WorkPartition -> {IdleWorker} \cup BusyWorker]
  BY DEF TypeOK
<1>2. worker[p] \in BusyWorker
  BY <1>1 DEF Decrement, IdleWorker
<1>3. \/ worker' = [worker EXCEPT ![p].pc = "return"]
      \/ /\ worker' = [worker EXCEPT ![p].pc = "urls"]
         /\ Decremented(worker[p].item)
         /\ counter[worker[p].item[1]].remaining - 1 = 0
  BY DEF Decrement, LastSubtree
<1>4. \A c : worker' = [worker EXCEPT ![p].pc = c] /\ worker[p].pc = "decrement"
                => Moved(p, c, worker[p].todo)
  BY <1>1, <1>2 DEF Moved, BusyWorker
<1> QED BY <1>3, <1>4 DEF Decrement

(* urlRegistry.GetAll sends nothing and touches no counter. *)
LEMMA GetUrlsMoves ==
    ASSUME TypeOK, NEW p \in WorkPartition, GetUrls(p)
    PROVE  /\ worker[p].pc = "urls"
           /\ \E c \in {"return", "emit"} : \E t : Moved(p, c, t)
           /\ UNCHANGED <<workTopic, callbackTopic, counter, history>>
<1>1. worker \in [WorkPartition -> {IdleWorker} \cup BusyWorker]
  BY DEF TypeOK
<1>2. worker[p] \in BusyWorker
  BY <1>1 DEF GetUrls, IdleWorker
<1>3. \/ Moved(p, "return", worker[p].todo)
      \/ Moved(p, "return", Registry)
      \/ Moved(p, "emit", Registry)
  BY <1>1, <1>2 DEF GetUrls, Moved, BusyWorker
<1> QED BY <1>3 DEF GetUrls

(* A turn of emitBlockProcessed's loop sends at most the worker's own block. *)
LEMMA PublishBlockProcessedMoves ==
    ASSUME TypeOK, NEW p \in WorkPartition, NEW u \in Url, PublishBlockProcessed(p, u)
    PROVE  /\ worker[p].pc = "emit" /\ u \in worker[p].todo
           /\ \/ Sent(u, BlockProcessed(worker[p].item[1]))
              \/ callbackTopic' = callbackTopic
           /\ \E c \in {"return", "emit"} : Moved(p, c, worker[p].todo \ {u})
           /\ UNCHANGED <<workTopic, counter, history>>
<1>1. worker \in [WorkPartition -> {IdleWorker} \cup BusyWorker]
  BY DEF TypeOK
<1>2. worker[p] \in BusyWorker
  BY <1>1 DEF PublishBlockProcessed, IdleWorker
<1>3. \E c \in {"return", "emit"} : Moved(p, c, worker[p].todo \ {u})
  BY <1>1, <1>2 DEF PublishBlockProcessed, Moved, BusyWorker
<1> QED BY <1>3 DEF PublishBlockProcessed, Sent

(* A worker takes its next message. *)
Taken(p, w) ==
    /\ \E n \in 1..Len(workTopic[p].log) : workTopic[p].log[n] = w
    /\ worker[p].pc = "idle"
    /\ worker'[p].item = w
    /\ worker'[p].pc \in {"put", "decrement"}
    /\ \A q \in WorkPartition : q # p => worker'[q] = worker[q]
    /\ starts' = [starts EXCEPT ![w] = @ + 1]
    /\ \/ /\ worker'[p].todo = Registered[w]
          /\ worker'[p].pc = "decrement" => Registered[w] = {}
          /\ failed' = failed
       \/ /\ worker'[p].todo = {}
          /\ failed' = failed \cup ({w} \X Registered[w])
    /\ UNCHANGED <<callbackTopic, counter, inits, decremented>>

(* A worker takes the message at its partition's next offset. *)
LEMMA ProcessBlockSubtreeTakes ==
    ASSUME TypeOK, NEW p \in WorkPartition, ProcessBlockSubtree(p)
    PROVE  \E w \in WorkItem : Taken(p, w)
<1> DEFINE w == Message(workTopic[p])
<1>1. /\ worker \in [WorkPartition -> {IdleWorker} \cup BusyWorker]
      /\ workTopic \in [WorkPartition -> PartitionOfType(WorkItem)]
  BY DEF TypeOK
<1>2. w \in WorkItem
  BY <1>1, PartitionTypes, ZenonT(40) DEF ProcessBlockSubtree
<1>3. \E n \in 1..Len(workTopic[p].log) : workTopic[p].log[n] = w
  <2>1. PICK t : t = workTopic[p]
    OBVIOUS
  <2>2. t \in PartitionOfType(WorkItem) /\ HasMessage(t)
    BY <1>1, <2>1, ZenonT(40) DEF ProcessBlockSubtree
  <2>3. t.next \in Nat \ {0} /\ t.next <= Len(t.log) /\ Len(t.log) \in Nat
    BY <2>2 DEF HasMessage, PartitionOfType
  <2>4. t.next \in 1..Len(t.log)
    BY <2>3
  <2> QED BY <2>1, <2>4, Zenon DEF Message
<1> HIDE DEF w
<1>4. \/ /\ worker' = [worker EXCEPT ![p] =
                [pc |-> IF Registered[w] = {} THEN "decrement" ELSE "put",
                 item |-> w, todo |-> Registered[w]]]
         /\ failed' = failed
      \/ /\ worker' = [worker EXCEPT ![p] =
                [pc |-> "decrement", item |-> w, todo |-> {}]]
         /\ failed' = failed \cup ({w} \X Registered[w])
  BY DEF ProcessBlockSubtree, w
<1>5. /\ worker[p].pc = "idle"
      /\ starts' = [starts EXCEPT ![w] = @ + 1]
      /\ UNCHANGED <<callbackTopic, counter, inits, decremented>>
  BY ZenonT(40) DEF ProcessBlockSubtree, w
<1>6. Taken(p, w)
  BY <1>1, <1>3, <1>4, <1>5 DEF Taken
<1> QED BY <1>2, <1>6

(* The steps that publish, count and take nothing: a handler may become idle
   and a counter may vanish. *)
Quiet ==
    /\ \A p \in WorkPartition : worker'[p] = worker[p] \/ worker'[p].pc = "idle"
    /\ \A b \in Block : counter'[b] = counter[b] \/ ~counter'[b].exists
    /\ UNCHANGED <<callbackTopic, inits, starts, decremented, failed>>

Initialised(b) ==
    /\ CounterWritten(b)
    /\ UNCHANGED <<worker, callbackTopic, starts, decremented, failed>>

(* Every step is one of these, as far as the invariant is concerned. *)
LEMMA StepKinds ==
    ASSUME TypeOK, [Next]_vars
    PROVE  \/ Quiet
           \/ \E b \in Block : Initialised(b)
           \/ \E p \in WorkPartition :
                 \/ \E w \in WorkItem : Taken(p, w)
                 \/ PutStump(p) \/ Decrement(p) \/ GetUrls(p)
                 \/ \E u \in Url : PublishStump(p, u) \/ PublishBlockProcessed(p, u)
<1> DEFINE Kind == \/ Quiet
                   \/ \E b \in Block : Initialised(b)
                   \/ \E p \in WorkPartition :
                         \/ \E w \in WorkItem : Taken(p, w)
                         \/ PutStump(p) \/ Decrement(p) \/ GetUrls(p)
                         \/ \E u \in Url : PublishStump(p, u) \/ PublishBlockProcessed(p, u)
<1>1. ASSUME UNCHANGED <<worker, counter, callbackTopic, history>> PROVE Quiet
  BY <1>1 DEF Quiet, history
<1>2. ASSUME NEW b \in Block, Announce(b) PROVE Quiet
  BY <1>1, <1>2 DEF Announce
<1>3. ASSUME ReceiveBlock \/ PublishWork \/ CommitBlock PROVE Quiet
  BY <1>1, <1>3 DEF ReceiveBlock, PublishWork, CommitBlock
<1>4. ASSUME FinishBlock PROVE Quiet
  BY <1>4 DEF FinishBlock, Quiet
<1>5. ASSUME InitCounter PROVE Quiet \/ \E b \in Block : Initialised(b)
  <2>1. proc.block \in Block
    BY <1>5 DEF TypeOK, InitCounter, BusyProc, IdleProc
  <2>2. CounterWritten(proc.block) => Initialised(proc.block)
    BY <1>5 DEF InitCounter, Initialised
  <2>3. UNCHANGED <<counter, inits>> => Quiet
    BY <1>5 DEF InitCounter, Quiet
  <2>4. CounterWritten(proc.block) \/ UNCHANGED <<counter, inits>>
    BY <1>5 DEF InitCounter
  <2> QED BY <2>1, <2>2, <2>3, <2>4
<1>6. worker \in [WorkPartition -> {IdleWorker} \cup BusyWorker]
  BY DEF TypeOK
<1>7. ASSUME NEW p \in WorkPartition, ReturnWork(p) PROVE Quiet
  BY <1>6, <1>7 DEF ReturnWork, Quiet, IdleWorker, history
<1>8. ASSUME NEW p \in WorkPartition, CommitWork(p) PROVE Quiet
  BY <1>1, <1>8 DEF CommitWork
<1>9. ASSUME NEW q \in Process, Crash(q) PROVE Quiet
  BY <1>6, <1>9 DEF Crash, Quiet, IdleWorker, history
<1>10. ASSUME NEW b \in Block, ExpireCounter(b) PROVE Quiet
  <2>1. counter \in [Block -> Counter]
    BY DEF TypeOK
  <2> QED BY <1>10, <2>1 DEF ExpireCounter, Quiet, NoCounter, history
<1>11. ASSUME UNCHANGED vars PROVE Quiet
  BY <1>1, <1>11 DEF vars, history
<1>12. ASSUME NEW p \in WorkPartition, WorkerStep(p) PROVE Kind
  BY <1>7, <1>12, ProcessBlockSubtreeTakes DEF WorkerStep
<1> QED
  BY <1>2, <1>3, <1>4, <1>5, <1>8, <1>9, <1>10, <1>11, <1>12
  DEF Next, ProcessorStep, Quiescent

(* A block that went through once so far did so before the step. *)
LEMMA CleanBackwards ==
    ASSUME TypeOK, [Next]_vars, NEW b \in Block, Clean(b)'
    PROVE  Clean(b)
<1>1. /\ inits \in [Block -> Nat]
      /\ starts \in [WorkItem -> Nat]
  BY DEF TypeOK
<1>2. /\ inits' = inits \/ \E c \in Block : inits' = [inits EXCEPT ![c] = @ + 1]
      /\ starts' = starts \/ \E w \in WorkItem : starts' = [starts EXCEPT ![w] = @ + 1]
  BY StepKinds, PutStumpMoves, PublishStumpMoves, DecrementMoves, GetUrlsMoves,
     PublishBlockProcessedMoves, ZenonT(40)
  DEF Quiet, Initialised, CounterWritten, CounterSetTo, Taken, history
<1>3. inits[b] <= inits'[b] /\ \A w \in WorkItem : starts[w] <= starts'[w]
  BY <1>1, <1>2
<1>4. inits'[b] \in Nat /\ \A w \in WorkItem : starts'[w] \in Nat
  BY <1>1, <1>2
<1> QED BY <1>1, <1>3, <1>4 DEF Clean, ItemsOf

(* A fact of arithmetic, stated apart from the actions. *)
LEMMA AtLeastTrans ==
    ASSUME NEW i \in Nat, NEW j \in Nat, NEW k \in Nat, i >= j, j >= k
    PROVE  i >= k
OBVIOUS

-----------------------------------------------------------------------------
(* The invariants.                                                         *)


Accounted(w, u) == OnTopic(u, Stump(w)) \/ <<w, u>> \in failed

(* A work item is in the log of its partition only. *)
LogsPlaced ==
    \A p \in WorkPartition :
        \A n \in 1..Len(workTopic[p].log) : PartitionOf[workTopic[p].log[n]] = p

(* Two workers never hold the same item, and an item that is held was taken. *)
WorkPlaced ==
    \A p \in WorkPartition :
        worker[p].pc # "idle" => /\ PartitionOf[worker[p].item] = p
                                 /\ starts[worker[p].item] >= 1

BeforeDecrement == {"put", "stump", "decrement"}

(* While a block goes through once, its counter is the number of its subtrees
   that have not been decremented. *)
CounterExact ==
    /\ \A w \in decremented : starts[w] >= 1 /\ inits[w[1]] >= 1
    /\ \A b \in Block : inits[b] = 0 => ~counter[b].exists
    /\ \A b \in Block :
          Clean(b) /\ counter[b].exists =>
              counter[b].remaining =
                  SubtreeCount[b] - Cardinality(decremented \cap ItemsOf(b))
    /\ \A p \in WorkPartition :
          worker[p].pc \in BeforeDecrement /\ starts[worker[p].item] <= 1 =>
              worker[p].item \notin decremented

(* The STUMPs of a decremented subtree were published or logged as failed. *)
StumpsAccounted ==
    /\ \A w \in decremented : \A u \in Registered[w] : Accounted(w, u)
    /\ \A p \in WorkPartition :
          /\ worker[p].pc \in BeforeDecrement =>
                \A u \in Registered[worker[p].item] :
                    u \in worker[p].todo \/ Accounted(worker[p].item, u)
          /\ worker[p].pc = "decrement" => worker[p].todo = {}

Emitting(p, b) == worker[p].pc \in {"urls", "emit"} /\ worker[p].item[1] = b

(* BLOCK_PROCESSED is emitted by one worker, after the last decrement, and
   once per URL. *)
EmittedOnce ==
    \A b \in Block : Clean(b) =>
        /\ \A p \in WorkPartition : Emitting(p, b) => ItemsOf(b) \subseteq decremented
        /\ \A u \in Url : OnTopic(u, BlockProcessed(b)) => ItemsOf(b) \subseteq decremented
        /\ \A p, q \in WorkPartition : Emitting(p, b) /\ Emitting(q, b) => p = q
        /\ \A p \in WorkPartition, u \in Url :
              Emitting(p, b) /\ (worker[p].pc = "emit" => u \in worker[p].todo) =>
                  ~OnTopic(u, BlockProcessed(b))

IInv == /\ LogsPlaced
        /\ WorkPlaced
        /\ CounterExact
        /\ StumpsAccounted
        /\ EmittedOnce
        /\ BlockProcessedLast

-----------------------------------------------------------------------------

(* What the proofs use of the numbers of elements.  It is shown last, because the
   library's theorems about finite sets slow down the proofs they are in
   scope of. *)
ItemCounts ==
    /\ Cardinality({}) = 0
    /\ \A b \in Block : \A D \in SUBSET ItemsOf(b) :
           /\ Cardinality(D) \in Nat
           /\ \A w \in ItemsOf(b) \ D : Cardinality(D \cup {w}) = Cardinality(D) + 1
           /\ Cardinality(D) = SubtreeCount[b] => D = ItemsOf(b)

(* The type of a count, stated apart from the actions. *)
LEMMA SubtreeCountType ==
    ASSUME NEW b \in Block
    PROVE  SubtreeCount[b] \in Nat
BY PipelineAssumption

(* No step of a clean block breaks the count of undecremented items. *)
LEMMA CounterExactStep ==
    ASSUME ItemCounts, TypeOK, TypeOK', [Next]_vars, WorkPlaced, CounterExact
    PROVE  CounterExact'
<1>a. /\ starts \in [WorkItem -> Nat]
      /\ inits \in [Block -> Nat]
      /\ decremented \subseteq WorkItem
  BY DEF TypeOK
<1>b. counter \in [Block -> Counter]
  BY DEF TypeOK
<1>c. worker \in [WorkPartition -> {IdleWorker} \cup BusyWorker]
  BY DEF TypeOK
<1>d. \A b \in Block : Clean(b)' => Clean(b)
  BY CleanBackwards
<1>e. ASSUME NEW p \in WorkPartition, worker[p].pc # "idle"
      PROVE  worker[p].item \in WorkItem /\ worker[p].item[1] \in Block
  BY <1>c, <1>e, BusyWorkerUpdates, WorkItemPairs, ZenonT(30)
<1>1. ASSUME Quiet PROVE CounterExact'
  BY <1>1, <1>d, ZenonT(40) DEF Quiet, CounterExact, BeforeDecrement
<1>2. ASSUME NEW b \in Block, Initialised(b) PROVE CounterExact'
  <2>1. /\ counter' = [counter EXCEPT ![b] = [exists |-> TRUE, remaining |-> SubtreeCount[b]]]
        /\ inits' = [inits EXCEPT ![b] = @ + 1]
        /\ UNCHANGED <<worker, starts, decremented>>
    BY <1>2 DEF Initialised, CounterWritten, CounterSetTo
  <2>2. \A w \in decremented' : starts'[w] >= 1 /\ inits'[w[1]] >= 1
    BY <2>1, <1>a, WorkItemPairs DEF CounterExact
  <2>3. \A c \in Block : inits'[c] = 0 => ~counter'[c].exists
    BY <2>1, <1>a, <1>b DEF CounterExact
  <2>4. ASSUME NEW c \in Block, Clean(c)', counter'[c].exists
        PROVE  counter'[c].remaining =
                   SubtreeCount[c] - Cardinality(decremented' \cap ItemsOf(c))
    <3>1. CASE c # b
      BY <2>1, <2>4, <3>1, <1>b, <1>d, ZenonT(40) DEF CounterExact
    <3>2. CASE c = b
      <4>1. inits[b] = 0
        BY <2>1, <2>4, <3>2, <1>a DEF Clean
      <4>2. decremented \cap ItemsOf(b) = {}
        BY <4>1 DEF CounterExact, ItemsOf
      <4>3. counter'[b].remaining = SubtreeCount[b] /\ SubtreeCount[b] \in Nat
        BY <2>1, <1>b, PipelineAssumption
      <4>4. Cardinality(decremented' \cap ItemsOf(b)) = 0
        BY <2>1, <4>2, ZenonT(40) DEF ItemCounts
      <4> QED BY <3>2, <4>3, <4>4
    <3> QED BY <3>1, <3>2
  <2>5. \A p \in WorkPartition :
            worker'[p].pc \in BeforeDecrement /\ starts'[worker'[p].item] <= 1 =>
                worker'[p].item \notin decremented'
    BY <2>1, ZenonT(40) DEF CounterExact
  <2> QED BY <2>2, <2>3, <2>4, <2>5, ZenonT(40) DEF CounterExact
<1>3. ASSUME NEW p \in WorkPartition, NEW w \in WorkItem, Taken(p, w) PROVE CounterExact'
  <2>1. /\ starts' = [starts EXCEPT ![w] = @ + 1]
        /\ worker'[p].item = w
        /\ \A q \in WorkPartition : q # p => worker'[q] = worker[q]
        /\ UNCHANGED <<counter, inits, decremented>>
    BY <1>3, ZenonT(40) DEF Taken
  <2>2. \A v \in WorkItem : starts[v] \in Nat /\ starts'[v] \in Nat /\ starts'[v] >= starts[v]
    BY <2>1, <1>a
  <2>3. \A v \in decremented' : starts'[v] >= 1 /\ inits'[v[1]] >= 1
    BY <2>1, <2>2, <1>a DEF CounterExact
  <2>4. \A c \in Block :
            /\ inits'[c] = 0 => ~counter'[c].exists
            /\ Clean(c)' /\ counter'[c].exists =>
                   counter'[c].remaining =
                       SubtreeCount[c] - Cardinality(decremented' \cap ItemsOf(c))
    BY <2>1, <1>d, ZenonT(40) DEF CounterExact
  <2>5. ASSUME NEW q \in WorkPartition, worker'[q].pc \in BeforeDecrement,
               starts'[worker'[q].item] <= 1
        PROVE  worker'[q].item \notin decremented'
    <3>1. CASE q = p
      BY <2>1, <2>5, <3>1, <1>a DEF CounterExact
    <3>2. CASE q # p
      <4>1. worker[q].item \in WorkItem
        BY <2>1, <2>5, <3>2, <1>e DEF BeforeDecrement
      <4> QED BY <2>1, <2>2, <2>5, <3>2, <4>1 DEF CounterExact
    <3> QED BY <3>1, <3>2
  <2> QED BY <2>3, <2>4, <2>5, Zenon DEF CounterExact
<1>4. ASSUME NEW p \in WorkPartition, NEW c, NEW t, Moved(p, c, t),
             worker[p].pc \in BeforeDecrement \/ c \notin BeforeDecrement,
             UNCHANGED <<counter, inits, starts, decremented>>
      PROVE  CounterExact'
  BY <1>4, <1>d, ZenonT(30) DEF Moved, CounterExact
<1>5. ASSUME NEW p \in WorkPartition, Decrement(p) PROVE CounterExact'
  <2> DEFINE w == worker[p].item
  <2>1. w \in WorkItem /\ w[1] \in Block
    BY <1>5, <1>e, DecrementMoves, ZenonT(40)
  <2>2. PICK c : Moved(p, c, worker[p].todo) /\ c \notin BeforeDecrement
    <3>1. "return" \notin BeforeDecrement /\ "urls" \notin BeforeDecrement
      BY DEF BeforeDecrement
    <3> QED BY <1>5, <3>1, DecrementMoves, Zenon
  <2>3. CASE UNCHANGED <<counter, decremented>>
    BY <1>4, <1>5, <2>2, <2>3, DecrementMoves, ZenonT(40)
  <2>4. CASE Decremented(w)
    <3> HIDE DEF w
    <3>1. /\ counter[w[1]].exists
          /\ counter' = [counter EXCEPT ![w[1]].remaining = @ - 1]
          /\ decremented' = decremented \cup {w}
          /\ UNCHANGED <<inits, starts>>
      BY <1>5, <2>4, DecrementMoves, ZenonT(40) DEF Decremented
    <3>2. starts[w] >= 1
      BY <1>5, DecrementMoves, ZenonT(40) DEF WorkPlaced, w
    <3>3. inits[w[1]] >= 1
      BY <3>1, <2>1, <1>a DEF CounterExact
    <3>4. \A v \in decremented' : starts'[v] >= 1 /\ inits'[v[1]] >= 1
      BY <3>1, <3>2, <3>3 DEF CounterExact
    <3>5. \A b \in Block : counter'[b].exists = counter[b].exists
      BY <3>1, <2>1, <1>b DEF Counter
    <3>6. \A b \in Block : inits'[b] = 0 => ~counter'[b].exists
      BY <3>1, <3>5 DEF CounterExact
    <3>7. ASSUME NEW b \in Block, Clean(b)', counter'[b].exists
          PROVE  counter'[b].remaining =
                     SubtreeCount[b] - Cardinality(decremented' \cap ItemsOf(b))
      <4>1. counter[b].remaining =
                SubtreeCount[b] - Cardinality(decremented \cap ItemsOf(b))
        BY <3>5, <3>7, <1>d DEF CounterExact
      <4>2. CASE b # w[1]
        <5>1. decremented' \cap ItemsOf(b) = decremented \cap ItemsOf(b)
          BY <3>1, <4>2 DEF ItemsOf
        <5>2. counter'[b] = counter[b]
          BY <3>1, <4>2, <1>b
        <5> QED BY <4>1, <5>1, <5>2, ZenonT(40)
      <4>3. CASE b = w[1]
        <5>1. starts[w] <= 1
          BY <3>7, <4>3, <2>1, <1>d DEF Clean, ItemsOf
        <5>2. w \notin decremented
          BY <5>1, <1>5, DecrementMoves, ZenonT(40) DEF CounterExact, BeforeDecrement, w
        <5> DEFINE D == decremented \cap ItemsOf(b)
        <5>3. decremented' \cap ItemsOf(b) = D \cup {w}
          BY <3>1, <4>3, <2>1 DEF ItemsOf
        <5>4. D \in SUBSET ItemsOf(b) /\ w \in ItemsOf(b) \ D
          BY <4>3, <2>1, <5>2 DEF ItemsOf
        <5>5. Cardinality(D) \in Nat /\ Cardinality(D \cup {w}) = Cardinality(D) + 1
          <6> HIDE DEF D, w
          <6> QED BY <5>4, Zenon DEF ItemCounts
        <5>6. counter'[b].remaining = counter[b].remaining - 1
          BY <3>1, <4>3, <2>1, <1>b DEF Counter
        <5>7. SubtreeCount[b] \in Nat
          BY SubtreeCountType, Zenon
        <5> HIDE DEF D
        <5>8. counter[b].remaining = SubtreeCount[b] - Cardinality(D)
          BY <4>1, Zenon DEF D
        <5>9. \A n, k \in Nat : (n - k) - 1 = n - (k + 1)
          OBVIOUS
        <5> QED BY <5>3, <5>5, <5>6, <5>7, <5>8, <5>9, ZenonT(40)
      <4> QED BY <4>2, <4>3
    <3>8. ASSUME NEW q \in WorkPartition, worker'[q].pc \in BeforeDecrement,
                 starts'[worker'[q].item] <= 1
          PROVE  worker'[q].item \notin decremented'
      <4>1. q # p /\ worker'[q] = worker[q]
        BY <2>2, <3>8 DEF Moved
      <4>2. PartitionOf[worker[q].item] = q /\ PartitionOf[w] = p
        BY <4>1, <3>8, <1>5, DecrementMoves DEF WorkPlaced, BeforeDecrement, w
      <4> QED BY <3>1, <3>8, <4>1, <4>2 DEF CounterExact
    <3> QED BY <3>4, <3>6, <3>7, <3>8 DEF CounterExact, ItemsOf
  <2> QED BY <1>5, <2>3, <2>4, DecrementMoves, ZenonT(40)
<1>6. ASSUME NEW p \in WorkPartition, PutStump(p) PROVE CounterExact'
  BY <1>4, <1>6, PutStumpMoves DEF BeforeDecrement
<1>7. ASSUME NEW p \in WorkPartition, NEW u \in Url, PublishStump(p, u) PROVE CounterExact'
  <2>1. PICK c \in BeforeDecrement : Moved(p, c, worker[p].todo \ {u})
    BY <1>7, PublishStumpMoves DEF BeforeDecrement
  <2>2. worker[p].pc \in BeforeDecrement
    BY <1>7, PublishStumpMoves, Zenon DEF BeforeDecrement
  <2>3. UNCHANGED <<counter, inits, starts, decremented>>
    BY <1>7, PublishStumpMoves, ZenonT(30)
  <2> QED BY <1>4, <2>1, <2>2, <2>3
<1>8. ASSUME NEW p \in WorkPartition, GetUrls(p) PROVE CounterExact'
  BY <1>4, <1>8, GetUrlsMoves DEF BeforeDecrement, history
<1>9. ASSUME NEW p \in WorkPartition, NEW u \in Url, PublishBlockProcessed(p, u)
      PROVE  CounterExact'
  BY <1>4, <1>9, PublishBlockProcessedMoves, ZenonT(40) DEF BeforeDecrement, history
<1> QED
  BY <1>1, <1>2, <1>3, <1>5, <1>6, <1>7, <1>8, <1>9, StepKinds

(* The worker whose decrement returns 0 for a block that went through once is
   the one that completes the set of its decremented items. *)
LEMMA LastDecrement ==
    ASSUME ItemCounts, TypeOK, CounterExact, NEW p \in WorkPartition, Decrement(p),
           NEW w \in WorkItem, w = worker[p].item, Clean(w[1]),
           Decremented(w), counter[w[1]].remaining - 1 = 0
    PROVE  w \notin decremented /\ ItemsOf(w[1]) \subseteq decremented'
<1> DEFINE b == w[1]
           D == decremented \cap ItemsOf(b)
<1>1. b \in Block /\ w \in ItemsOf(b)
  BY WorkItemPairs DEF ItemsOf
<1>2. w \notin decremented
  BY <1>1, DecrementMoves, ZenonT(40) DEF CounterExact, BeforeDecrement, Clean
<1>3. /\ counter[b].remaining = SubtreeCount[b] - Cardinality(D)
      /\ counter[b].exists
  BY <1>1, ZenonT(40) DEF CounterExact, Decremented
<1>4. D \in SUBSET ItemsOf(b) /\ D \cup {w} \in SUBSET ItemsOf(b) /\ w \in ItemsOf(b) \ D
  BY <1>1, <1>2, Zenon
<1>5. Cardinality(D) \in Nat /\ Cardinality(D \cup {w}) = Cardinality(D) + 1
  <2> HIDE DEF D, b
  <2> QED BY <1>1, <1>4, Zenon DEF ItemCounts
<1>6. SubtreeCount[b] \in Nat
  BY <1>1, SubtreeCountType, ZenonT(40)
<1>7. Cardinality(D \cup {w}) = SubtreeCount[b]
  <2> HIDE DEF D, b
  <2>1. (SubtreeCount[b] - Cardinality(D)) - 1 = 0
    BY <1>3 DEF b
  <2> QED BY <1>5, <1>6, <2>1
<1>9. D \cup {w} = ItemsOf(b)
  <2> HIDE DEF D, b
  <2> QED BY <1>1, <1>4, <1>7, ZenonT(40) DEF ItemCounts
<1>10. decremented' = decremented \cup {w}
  BY DEF Decremented
<1> QED BY <1>2, <1>9, <1>10

(* PublishWork keys a work item to its partition; nothing else adds one. *)
LEMMA LogsPlacedStep ==
    ASSUME TypeOK, [Next]_vars, LogsPlaced
    PROVE  LogsPlaced'
<1>1. workTopic \in [WorkPartition -> PartitionOfType(WorkItem)]
  BY DEF TypeOK
<1>2. ASSUME PublishWork PROVE LogsPlaced'
  <2> DEFINE w == <<proc.block, proc.i>>
  <2>1. w \in WorkItem /\ PartitionOf[w] \in WorkPartition
    BY <1>2, WorkItemPairs, PipelineAssumption, SMTT(30) DEF TypeOK, PublishWork, BusyProc, IdleProc
  <2> HIDE DEF w
  <2>2. ASSUME NEW p \in WorkPartition
        PROVE  \/ workTopic'[p].log = workTopic[p].log
               \/ workTopic'[p].log = Append(workTopic[p].log, w) /\ p = PartitionOf[w]
    BY <1>1, <1>2, <2>1, <2>2, PartitionLogs, SMTT(30) DEF PublishWork, w
  <2>3. \A p \in WorkPartition : workTopic[p].log \in Seq(WorkItem)
    BY <1>1, PartitionLogs
  <2>4. ASSUME NEW p \in WorkPartition, NEW n \in 1..Len(workTopic'[p].log)
        PROVE  PartitionOf[workTopic'[p].log[n]] = p
    <3>1. CASE workTopic'[p].log = workTopic[p].log
      BY <3>1, <2>4 DEF LogsPlaced
    <3>2. CASE workTopic'[p].log = Append(workTopic[p].log, w) /\ p = PartitionOf[w]
      <4>1. \/ n \in 1..Len(workTopic[p].log) /\ workTopic'[p].log[n] = workTopic[p].log[n]
            \/ workTopic'[p].log[n] = w
        BY <3>2, <2>1, <2>3, <2>4, SMTT(30)
      <4> QED BY <3>2, <4>1, ZenonT(40) DEF LogsPlaced
    <3> QED BY <3>1, <3>2, <2>2
  <2> QED BY <2>4 DEF LogsPlaced
<1>3. ASSUME \A p \in WorkPartition : workTopic'[p].log = workTopic[p].log
      PROVE  LogsPlaced'
  BY <1>3 DEF LogsPlaced
<1>4. ASSUME NEW p \in WorkPartition, ReturnWork(p) \/ CommitWork(p)
      PROVE  \A q \in WorkPartition : workTopic'[q].log = workTopic[q].log
  <2>1. CASE ReturnWork(p)
    BY <1>1, <2>1, PartitionLogs, ZenonT(30) DEF ReturnWork
  <2>2. CASE CommitWork(p)
    BY <1>1, <2>2, PartitionLogs, ZenonT(30) DEF CommitWork
  <2> QED BY <1>4, <2>1, <2>2
<1>5. ASSUME NEW q \in Process, Crash(q)
      PROVE  \A p \in WorkPartition : workTopic'[p].log = workTopic[p].log
  BY <1>1, <1>5, PartitionLogs DEF Crash
<1>6. ASSUME workTopic' = workTopic PROVE LogsPlaced'
  BY <1>6 DEF LogsPlaced
<1>7. \/ workTopic' = workTopic \/ PublishWork
      \/ \E p \in WorkPartition : ReturnWork(p) \/ CommitWork(p)
      \/ \E q \in Process : Crash(q)
  <2>1. ProcessorStep => workTopic' = workTopic \/ PublishWork
    BY DEF ProcessorStep, ReceiveBlock, InitCounter, FinishBlock
  <2>2. ASSUME NEW p \in WorkPartition, WorkerStep(p)
        PROVE  workTopic' = workTopic \/ ReturnWork(p)
    BY <2>2, Zenon DEF WorkerStep, ProcessBlockSubtree, PutStump, PublishStump, Decrement,
                GetUrls, PublishBlockProcessed
  <2>3. ASSUME NEW b \in Block, Announce(b) \/ ExpireCounter(b)
        PROVE  workTopic' = workTopic
    BY <2>3 DEF Announce, ExpireCounter
  <2>4. CommitBlock \/ Quiescent \/ UNCHANGED vars => workTopic' = workTopic
    BY DEF CommitBlock, Quiescent, vars
  <2> QED BY <2>1, <2>2, <2>3, <2>4 DEF Next
<1> QED BY <1>2, <1>3, <1>4, <1>5, <1>6, <1>7

(* A worker holds only items of its own partition, and has counted them. *)
LEMMA WorkPlacedStep ==
    ASSUME TypeOK, TypeOK', [Next]_vars, LogsPlaced, WorkPlaced
    PROVE  WorkPlaced'
<1>1. starts \in [WorkItem -> Nat] /\ worker \in [WorkPartition -> {IdleWorker} \cup BusyWorker]
  BY ZenonT(40) DEF TypeOK
<1>2. ASSUME NEW p \in WorkPartition, worker[p].pc # "idle"
      PROVE  worker[p].item \in WorkItem
  BY <1>1, <1>2, BusyWorkerUpdates, Zenon
<1>3. ASSUME starts' = starts, NEW p \in WorkPartition,
             \E c, t : Moved(p, c, t)
      PROVE  WorkPlaced'
  BY <1>3, ZenonT(40) DEF WorkPlaced, Moved
<1>4. ASSUME NEW p \in WorkPartition, NEW w \in WorkItem, Taken(p, w)
      PROVE  WorkPlaced'
  <2>1. PartitionOf[w] = p
    BY <1>4, ZenonT(40) DEF Taken, LogsPlaced
  <2>2. starts'[w] >= 1 /\ \A v \in WorkItem : starts'[v] >= starts[v]
    BY <1>1, <1>4 DEF Taken
  <2>3. \A v \in WorkItem : starts'[v] \in Nat /\ starts[v] \in Nat
    BY <1>1, <1>4 DEF Taken
  <2> QED BY <1>2, <1>4, <2>1, <2>2, <2>3 DEF Taken, WorkPlaced
<1>5. ASSUME Quiet \/ \E b \in Block : Initialised(b) PROVE WorkPlaced'
  BY <1>5 DEF Quiet, Initialised, WorkPlaced
<1> QED
  BY <1>3, <1>4, <1>5, StepKinds, PutStumpMoves, PublishStumpMoves, DecrementMoves,
     GetUrlsMoves, PublishBlockProcessedMoves, ZenonT(30)
  DEF history

(* A worker decrements only after each STUMP of its item is sent or lost. *)
LEMMA StumpsAccountedStep ==
    ASSUME TypeOK, TypeOK', [Next]_vars, StumpsAccounted
    PROVE  StumpsAccounted'
<1>a. /\ decremented \subseteq WorkItem
      /\ callbackTopic \in [Url -> Seq(Callback)]
  BY DEF TypeOK
<1>b. worker \in [WorkPartition -> {IdleWorker} \cup BusyWorker]
  BY DEF TypeOK
<1>c. \A w \in WorkItem : Registered[w] \subseteq Url
  BY PipelineAssumption
<1>d. ASSUME NEW p \in WorkPartition, worker[p].pc # "idle"
      PROVE  worker[p].item \in WorkItem
  BY <1>b, <1>d, BusyWorkerUpdates, Zenon
<1>1. ASSUME callbackTopic' = callbackTopic, failed \subseteq failed', NEW w, NEW u,
             Accounted(w, u)
      PROVE  Accounted(w, u)'
  BY <1>1 DEF Accounted, OnTopic
<1>2. ASSUME Quiet \/ \E b \in Block : Initialised(b) PROVE StumpsAccounted'
  <2>1. /\ \A p \in WorkPartition : worker'[p] = worker[p] \/ worker'[p].pc = "idle"
        /\ UNCHANGED <<callbackTopic, failed, decremented>>
    BY <1>2 DEF Quiet, Initialised
  <2>2. \A w, u : Accounted(w, u)' <=> Accounted(w, u)
    BY <2>1 DEF Accounted, OnTopic
  <2> QED BY <2>1, <2>2, ZenonT(40) DEF StumpsAccounted, BeforeDecrement
<1>3. ASSUME NEW p \in WorkPartition, NEW w \in WorkItem, Taken(p, w) PROVE StumpsAccounted'
  <2>1. \A v, u : Accounted(v, u) => Accounted(v, u)'
    BY <1>1, <1>3, ZenonT(40) DEF Taken
  <2>2. \A u \in Registered[w] : u \in worker'[p].todo \/ Accounted(w, u)'
    BY <1>3, ZenonT(40) DEF Taken, Accounted
  <2>3. worker'[p].pc = "decrement" => worker'[p].todo = {}
    BY <1>3 DEF Taken
  <2> QED BY <1>3, <2>1, <2>2, <2>3, ZenonT(40) DEF Taken, StumpsAccounted
<1>4. ASSUME NEW p \in WorkPartition, NEW c, NEW t, Moved(p, c, t),
             \A v, u : Accounted(v, u) => Accounted(v, u)',
             c \in BeforeDecrement =>
                 /\ worker[p].pc \in BeforeDecrement
                 /\ \A u \in worker[p].todo : u \in t \/ Accounted(worker[p].item, u)',
             c = "decrement" => t = {},
             decremented' = decremented
      PROVE  StumpsAccounted'
  BY <1>4, ZenonT(40) DEF StumpsAccounted, Moved
<1>5. ASSUME NEW p \in WorkPartition, PutStump(p) PROVE StumpsAccounted'
  <2>1. \A v, u : Accounted(v, u) => Accounted(v, u)'
    BY <1>1, <1>5, PutStumpMoves, ZenonT(40)
  <2>2. CASE Moved(p, "stump", worker[p].todo) /\ failed' = failed
    BY <1>4, <1>5, <2>1, <2>2, PutStumpMoves, ZenonT(40) DEF BeforeDecrement
  <2>3. CASE /\ Moved(p, "decrement", {})
             /\ failed' = failed \cup ({worker[p].item} \X worker[p].todo)
    <3>1. \A u \in worker[p].todo : Accounted(worker[p].item, u)'
      BY <2>3, ZenonT(40) DEF Accounted, Moved
    <3> QED BY <1>4, <1>5, <2>1, <2>3, <3>1, PutStumpMoves, ZenonT(40) DEF BeforeDecrement
  <2> QED BY <1>5, <2>2, <2>3, PutStumpMoves
<1>6. ASSUME NEW p \in WorkPartition, NEW u \in Url, PublishStump(p, u)
      PROVE  StumpsAccounted'
  <2>1. CASE Sent(u, Stump(worker[p].item)) /\ failed' = failed
    <3>0. PICK w \in WorkItem : w = worker[p].item
      BY <1>6, <1>d, PublishStumpMoves, ZenonT(30)
    <3>1. /\ \A v \in Url : \A k : OnTopic(v, k) => OnTopic(v, k)'
          /\ OnTopic(u, Stump(w))'
      <4>1. Sent(u, Stump(w))
        BY <2>1, <3>0
      <4> QED BY <4>1, SentOnTopic
    <3>2. \A x \in WorkItem, v \in Url : Accounted(x, v) => Accounted(x, v)'
      BY <2>1, <3>1 DEF Accounted
    <3>3. Accounted(w, u)'
      BY <3>1 DEF Accounted
    <3>4. PICK c \in BeforeDecrement : /\ Moved(p, c, worker[p].todo \ {u})
                                       /\ c = "decrement" => worker[p].todo \ {u} = {}
      BY <1>6, PublishStumpMoves, ZenonT(40) DEF BeforeDecrement
    <3>5. decremented' = decremented /\ worker[p].pc \in BeforeDecrement
      BY <1>6, PublishStumpMoves, ZenonT(30) DEF BeforeDecrement
    <3>6. \A x \in decremented' : \A v \in Registered[x] : Accounted(x, v)'
      BY <1>a, <1>c, <3>2, <3>5, ZenonT(40) DEF StumpsAccounted
    <3>7. ASSUME NEW q \in WorkPartition
          PROVE  /\ worker'[q].pc \in BeforeDecrement =>
                       \A v \in Registered[worker'[q].item] :
                           v \in worker'[q].todo \/ Accounted(worker[q].item, v)'
                 /\ worker'[q].pc = "decrement" => worker'[q].todo = {}
      <4>1. CASE q # p
        <5>1. worker'[q] = worker[q]
          BY <3>4, <4>1, ZenonT(40) DEF Moved
        <5>2. worker[q].pc \in BeforeDecrement => worker[q].item \in WorkItem
          BY <1>d DEF BeforeDecrement
        <5>3. ASSUME worker[q].pc \in BeforeDecrement,
                     NEW v \in Registered[worker[q].item], v \notin worker[q].todo
              PROVE  Accounted(worker[q].item, v)'
          <6>1. PICK x \in WorkItem : x = worker[q].item
            BY <5>2, <5>3, ZenonT(40)
          <6>2. Accounted(x, v)
            BY <5>3, <6>1, ZenonT(40) DEF StumpsAccounted
          <6>3. Accounted(x, v)'
            BY <1>c, <3>2, <5>3, <6>1, <6>2, ZenonT(40)
          <6> QED BY <5>1, <6>1, <6>3, ZenonT(40) DEF Accounted
        <5> QED BY <5>1, <5>3, ZenonT(40) DEF StumpsAccounted
      <4>2. CASE q = p
        <5>1. ASSUME NEW v \in Registered[w], v \notin worker[p].todo \ {u}
              PROVE  Accounted(w, v)'
          <6>1. v = u \/ Accounted(w, v)
            BY <3>0, <3>5, <5>1, ZenonT(40) DEF StumpsAccounted
          <6> QED BY <1>c, <3>2, <3>3, <5>1, <6>1, ZenonT(40)
        <5>2. worker'[p].item = w
          BY <3>0, <3>4, ZenonT(40) DEF Moved
        <5> QED BY <3>4, <4>2, <5>1, <5>2, ZenonT(40) DEF Moved, Accounted
      <4> QED BY <4>1, <4>2, ZenonT(40)
    <3> QED BY <3>6, <3>7, ZenonT(40) DEF StumpsAccounted
  <2>2. CASE /\ callbackTopic' = callbackTopic
             /\ failed' = failed \cup {<<worker[p].item, u>>}
    <3>1. \A v, x : Accounted(v, x) => Accounted(v, x)'
      BY <1>1, <2>2
    <3>2. Accounted(worker[p].item, u)'
      BY <1>6, <2>2, PublishStumpMoves, ZenonT(40) DEF Accounted, Moved
    <3>3. PICK c \in BeforeDecrement : /\ Moved(p, c, worker[p].todo \ {u})
                                       /\ c = "decrement" => worker[p].todo \ {u} = {}
      BY <1>6, PublishStumpMoves, ZenonT(40) DEF BeforeDecrement
    <3>4. decremented' = decremented /\ worker[p].pc \in BeforeDecrement
      BY <1>6, PublishStumpMoves, ZenonT(40) DEF BeforeDecrement
    <3>5. \A v \in worker[p].todo : v \in worker[p].todo \ {u} \/ Accounted(worker[p].item, v)'
      BY <3>2
    <3> QED BY <1>4, <3>1, <3>3, <3>4, <3>5, ZenonT(40)
  <2> QED BY <1>6, <2>1, <2>2, PublishStumpMoves, ZenonT(40)
<1>7. ASSUME NEW p \in WorkPartition, Decrement(p) PROVE StumpsAccounted'
  <2>1. \A v, u : Accounted(v, u) => Accounted(v, u)'
    BY <1>1, <1>7, DecrementMoves, Zenon
  <2>2. decremented' \subseteq decremented \cup {worker[p].item}
    BY <1>7, DecrementMoves, Zenon DEF Decremented
  <2>3. \A u \in Registered[worker[p].item] : Accounted(worker[p].item, u)
    BY <1>7, DecrementMoves, ZenonT(30) DEF StumpsAccounted, BeforeDecrement
  <2>4. PICK c : Moved(p, c, worker[p].todo) /\ c \notin BeforeDecrement
    <3>1. "return" \notin BeforeDecrement /\ "urls" \notin BeforeDecrement
      BY DEF BeforeDecrement
    <3>2. Moved(p, "return", worker[p].todo) \/ Moved(p, "urls", worker[p].todo)
      BY <1>7, DecrementMoves, ZenonT(40)
    <3> QED BY <3>1, <3>2, Zenon
  <2> QED BY <2>1, <2>2, <2>3, <2>4, ZenonT(30) DEF StumpsAccounted, Moved, BeforeDecrement
<1>8. ASSUME NEW p \in WorkPartition, GetUrls(p) PROVE StumpsAccounted'
  <2>1. \A v, u : Accounted(v, u) => Accounted(v, u)'
    BY <1>1, <1>8, GetUrlsMoves, ZenonT(40) DEF history
  <2>2. PICK c, t : Moved(p, c, t) /\ c \notin BeforeDecrement
    BY <1>8, GetUrlsMoves DEF BeforeDecrement
  <2>3. decremented' = decremented
    BY <1>8, GetUrlsMoves DEF history
  <2>4. c # "decrement"
    BY <2>2 DEF BeforeDecrement
  <2> QED BY <1>4, <2>1, <2>2, <2>3, <2>4, Zenon
<1>9. ASSUME NEW p \in WorkPartition, NEW u \in Url, PublishBlockProcessed(p, u)
      PROVE  StumpsAccounted'
  <2>1. \A w \in WorkItem, v \in Url : Accounted(w, v) => Accounted(w, v)'
    <3>1. \A v \in Url : \A k : OnTopic(v, k) => OnTopic(v, k)'
      <4>1. PICK b : b = worker[p].item[1]
        OBVIOUS
      <4>2. Sent(u, BlockProcessed(b)) \/ callbackTopic' = callbackTopic
        BY <1>9, <4>1, PublishBlockProcessedMoves, Zenon
      <4>3. CASE Sent(u, BlockProcessed(b))
        BY <4>3, SentOnTopic
      <4> QED BY <4>2, <4>3, Zenon DEF OnTopic
    <3> QED BY <1>9, <3>1, PublishBlockProcessedMoves, ZenonT(30) DEF Accounted, history
  <2>2. PICK c : Moved(p, c, worker[p].todo \ {u}) /\ c \notin BeforeDecrement
    BY <1>9, PublishBlockProcessedMoves, ZenonT(40) DEF BeforeDecrement
  <2>3. decremented' = decremented
    BY <1>9, PublishBlockProcessedMoves, ZenonT(30) DEF history
  <2> QED BY <1>a, <1>c, <1>d, <2>1, <2>2, <2>3, ZenonT(30) DEF StumpsAccounted, Moved, BeforeDecrement
<1> QED
  BY <1>2, <1>3, <1>5, <1>6, <1>7, <1>8, <1>9, StepKinds

(* The handlers that emit after the step emitted before it, to no more URLs. *)
NoNewEmitter ==
    \A q \in WorkPartition :
        worker'[q].pc \in {"urls", "emit"} =>
            /\ worker'[q].item = worker[q].item
            /\ \/ worker[q].pc = "urls"
               \/ /\ worker[q].pc = "emit" /\ worker'[q].pc = "emit"
                  /\ worker'[q].todo \subseteq worker[q].todo

(* A step after which nobody starts to emit keeps the emitter unique. *)
LEMMA NoNewEmission ==
    ASSUME TypeOK, [Next]_vars, EmittedOnce, NoNewEmitter,
           decremented \subseteq decremented',
           \A u \in Url, b \in Block :
               OnTopic(u, BlockProcessed(b))' <=> OnTopic(u, BlockProcessed(b))
    PROVE  EmittedOnce'
<1> SUFFICES ASSUME NEW b \in Block, Clean(b)'
             PROVE  /\ \A p \in WorkPartition : Emitting(p, b)' => ItemsOf(b) \subseteq decremented'
                    /\ \A u \in Url : OnTopic(u, BlockProcessed(b))' => ItemsOf(b) \subseteq decremented'
                    /\ \A p, q \in WorkPartition : Emitting(p, b)' /\ Emitting(q, b)' => p = q
                    /\ \A p \in WorkPartition, u \in Url :
                          Emitting(p, b)' /\ (worker'[p].pc = "emit" => u \in worker'[p].todo) =>
                              ~OnTopic(u, BlockProcessed(b))'
  BY Zenon DEF EmittedOnce
<1>1. Clean(b)
  BY CleanBackwards
<1>2. \A p \in WorkPartition : Emitting(p, b)' => Emitting(p, b)
  BY ZenonT(30) DEF NoNewEmitter, Emitting
<1>3. \A p \in WorkPartition, u \in Url :
          Emitting(p, b)' /\ (worker'[p].pc = "emit" => u \in worker'[p].todo) =>
              (worker[p].pc = "emit" => u \in worker[p].todo)
  BY ZenonT(40) DEF NoNewEmitter, Emitting
<1> QED BY <1>1, <1>2, <1>3, Zenon DEF EmittedOnce

(* What the exact counter gives: the decrement that returns 0 for a block that
   went through once completes the set of its decremented items. *)
LastCompletes ==
    \A p \in WorkPartition, w \in WorkItem :
        /\ Decrement(p) /\ w = worker[p].item /\ Clean(w[1])
        /\ Decremented(w) /\ counter[w[1]].remaining - 1 = 0
        => w \notin decremented /\ ItemsOf(w[1]) \subseteq decremented'

(* Only one decrement of a clean block returns 0, so only one worker emits. *)
LEMMA EmittedOnceStep ==
    ASSUME TypeOK, TypeOK', [Next]_vars, LastCompletes, EmittedOnce
    PROVE  EmittedOnce'
<1>a. worker \in [WorkPartition -> {IdleWorker} \cup BusyWorker]
  BY ZenonT(40) DEF TypeOK
<1>b. ASSUME NEW p \in WorkPartition, worker[p].pc # "idle"
      PROVE  worker[p].item \in WorkItem /\ worker[p].item[1] \in Block
  BY <1>a, <1>b, BusyWorkerUpdates, WorkItemPairs, Zenon
<1>c. callbackTopic' = callbackTopic =>
          \A u \in Url, b \in Block :
              OnTopic(u, BlockProcessed(b))' <=> OnTopic(u, BlockProcessed(b))
  BY DEF OnTopic
<1>1. ASSUME Quiet \/ \E b \in Block : Initialised(b) PROVE EmittedOnce'
  <2>1. NoNewEmitter
    BY <1>1, ZenonT(40) DEF Quiet, Initialised, NoNewEmitter
  <2>2. UNCHANGED <<callbackTopic, decremented>>
    BY <1>1 DEF Quiet, Initialised
  <2> QED BY <1>c, <2>1, <2>2, NoNewEmission
<1>2. ASSUME NEW p \in WorkPartition, NEW w \in WorkItem, Taken(p, w) PROVE EmittedOnce'
  <2>1. NoNewEmitter
    BY <1>2, ZenonT(40) DEF Taken, NoNewEmitter
  <2>2. UNCHANGED <<callbackTopic, decremented>>
    BY <1>2, ZenonT(40) DEF Taken
  <2> QED BY <1>c, <2>1, <2>2, NoNewEmission
<1>3. ASSUME NEW p \in WorkPartition, PutStump(p) PROVE EmittedOnce'
  <2>1. NoNewEmitter
    BY <1>3, PutStumpMoves, ZenonT(40) DEF Moved, NoNewEmitter
  <2>2. UNCHANGED <<callbackTopic, decremented>>
    BY <1>3, PutStumpMoves, Zenon
  <2> QED BY <1>c, <2>1, <2>2, NoNewEmission
<1>4. ASSUME NEW p \in WorkPartition, NEW u \in Url, PublishStump(p, u) PROVE EmittedOnce'
  <2>1. NoNewEmitter
    BY <1>4, PublishStumpMoves, Zenon DEF Moved, NoNewEmitter
  <2>2. PICK w : w = worker[p].item
    OBVIOUS
  <2>3. Sent(u, Stump(w)) \/ callbackTopic' = callbackTopic
    BY <1>4, <2>2, PublishStumpMoves, ZenonT(30)
  <2>4. \A b : Stump(w) # BlockProcessed(b)
    BY Zenon DEF Stump, BlockProcessed
  <2>5. CASE Sent(u, Stump(w))
    <3>1. \A v \in Url : \A k : OnTopic(v, k)' <=> OnTopic(v, k) \/ (v = u /\ k = Stump(w))
      BY <2>5, SentOnTopic
    <3>2. \A v \in Url, b \in Block :
              OnTopic(v, BlockProcessed(b))' <=> OnTopic(v, BlockProcessed(b))
      BY <2>4, <3>1
    <3>3. decremented' = decremented
      BY <1>4, PublishStumpMoves, Zenon
    <3> QED BY <2>1, <3>2, <3>3, NoNewEmission
  <2>6. CASE callbackTopic' = callbackTopic
    <3>1. decremented' = decremented
      BY <1>4, PublishStumpMoves, Zenon
    <3> QED BY <1>c, <2>1, <2>6, <3>1, NoNewEmission
  <2> QED BY <2>3, <2>5, <2>6
<1>5. ASSUME NEW p \in WorkPartition, Decrement(p) PROVE EmittedOnce'
  <2>1. PICK w \in WorkItem : w = worker[p].item
    BY <1>5, <1>b, DecrementMoves, ZenonT(40)
  <2>2. callbackTopic' = callbackTopic /\ decremented \subseteq decremented'
    BY <1>5, DecrementMoves, ZenonT(30) DEF Decremented
  <2>3. CASE Moved(p, "return", worker[p].todo)
    <3>1. NoNewEmitter
      BY <2>3, ZenonT(40) DEF Moved, NoNewEmitter
    <3> QED BY <1>c, <2>2, <3>1, NoNewEmission
  <2>4. CASE /\ Moved(p, "urls", worker[p].todo)
             /\ Decremented(w)
             /\ counter[w[1]].remaining - 1 = 0
    <3> SUFFICES ASSUME NEW b \in Block, Clean(b)'
                 PROVE  /\ \A q \in WorkPartition : Emitting(q, b)' => ItemsOf(b) \subseteq decremented'
                        /\ \A u \in Url : OnTopic(u, BlockProcessed(b))' => ItemsOf(b) \subseteq decremented'
                        /\ \A q, r \in WorkPartition : Emitting(q, b)' /\ Emitting(r, b)' => q = r
                        /\ \A q \in WorkPartition, u \in Url :
                              Emitting(q, b)' /\ (worker'[q].pc = "emit" => u \in worker'[q].todo) =>
                                  ~OnTopic(u, BlockProcessed(b))'
      BY Zenon DEF EmittedOnce
    <3>1. Clean(b)
      BY CleanBackwards
    <3>2. \A u \in Url : OnTopic(u, BlockProcessed(b))' <=> OnTopic(u, BlockProcessed(b))
      BY <1>c, <2>2
    <3>3. \A q \in WorkPartition : q # p =>
              /\ worker'[q] = worker[q]
              /\ Emitting(q, b)' <=> Emitting(q, b)
      BY <2>4, ZenonT(40) DEF Moved, Emitting
    <3>4. CASE b # w[1]
      <4>1. ~Emitting(p, b)'
        BY <2>1, <2>4, <3>4, ZenonT(30) DEF Moved, Emitting
      <4> QED BY <2>2, <3>1, <3>2, <3>3, <4>1, ZenonT(30) DEF EmittedOnce
    <3>5. CASE b = w[1]
      <4>1. w \notin decremented /\ ItemsOf(b) \subseteq decremented'
        BY <1>5, <2>1, <2>4, <3>1, <3>5, Zenon DEF LastCompletes
      <4>2. w \in ItemsOf(b)
        BY <3>5 DEF ItemsOf
      <4>3. /\ \A q \in WorkPartition : ~Emitting(q, b)
            /\ \A u \in Url : ~OnTopic(u, BlockProcessed(b))
        BY <3>1, <4>1, <4>2, ZenonT(30) DEF EmittedOnce
      <4> QED BY <3>2, <3>3, <4>1, <4>3, ZenonT(30)
    <3> QED BY <3>4, <3>5, ZenonT(30)
  <2> QED BY <1>5, <2>1, <2>3, <2>4, DecrementMoves, ZenonT(30)
<1>6. ASSUME NEW p \in WorkPartition, GetUrls(p) PROVE EmittedOnce'
  <2>1. NoNewEmitter
    BY <1>6, GetUrlsMoves, ZenonT(40) DEF Moved, NoNewEmitter
  <2>2. UNCHANGED <<callbackTopic, decremented>>
    BY <1>6, GetUrlsMoves, ZenonT(40) DEF history
  <2> QED BY <1>c, <2>1, <2>2, NoNewEmission
<1>7. ASSUME NEW p \in WorkPartition, NEW u \in Url, PublishBlockProcessed(p, u)
      PROVE  EmittedOnce'
  <2>1. PICK e \in Block : e = worker[p].item[1]
    BY <1>7, <1>b, PublishBlockProcessedMoves, Zenon
  <2>2. Emitting(p, e) /\ worker[p].pc = "emit" /\ u \in worker[p].todo
    BY <1>7, <2>1, PublishBlockProcessedMoves, ZenonT(30) DEF Emitting
  <2>3. PICK c \in {"return", "emit"} : Moved(p, c, worker[p].todo \ {u})
    BY <1>7, PublishBlockProcessedMoves, ZenonT(40)
  <2>4. decremented' = decremented
    BY <1>7, PublishBlockProcessedMoves, ZenonT(30) DEF history
  <2>5. NoNewEmitter
    BY <2>2, <2>3, ZenonT(40) DEF Moved, NoNewEmitter
  <2>6. CASE callbackTopic' = callbackTopic
    BY <1>c, <2>4, <2>5, <2>6, NoNewEmission
  <2>7. CASE Sent(u, BlockProcessed(e))
    <3> SUFFICES ASSUME NEW b \in Block, Clean(b)'
                 PROVE  /\ \A q \in WorkPartition : Emitting(q, b)' => ItemsOf(b) \subseteq decremented'
                        /\ \A v \in Url : OnTopic(v, BlockProcessed(b))' => ItemsOf(b) \subseteq decremented'
                        /\ \A q, r \in WorkPartition : Emitting(q, b)' /\ Emitting(r, b)' => q = r
                        /\ \A q \in WorkPartition, v \in Url :
                              Emitting(q, b)' /\ (worker'[q].pc = "emit" => v \in worker'[q].todo) =>
                                  ~OnTopic(v, BlockProcessed(b))'
      BY Zenon DEF EmittedOnce
    <3>1. Clean(b)
      BY CleanBackwards
    <3>2. \A v \in Url : OnTopic(v, BlockProcessed(b))' =>
                             OnTopic(v, BlockProcessed(b)) \/ (v = u /\ b = e)
      <4>1. \A v \in Url : \A k : OnTopic(v, k)' <=>
                                       OnTopic(v, k) \/ (v = u /\ k = BlockProcessed(e))
        BY <2>7, SentOnTopic
      <4>2. BlockProcessed(b) = BlockProcessed(e) => b = e
        BY DEF BlockProcessed
      <4> QED BY <4>1, <4>2
    <3>3. \A q \in WorkPartition : Emitting(q, b)' => Emitting(q, b)
      BY <2>5 DEF NoNewEmitter, Emitting
    <3>4. ASSUME NEW q \in WorkPartition, NEW v \in Url, Emitting(q, b)',
                 worker'[q].pc = "emit" => v \in worker'[q].todo
          PROVE  ~OnTopic(v, BlockProcessed(b))'
      <4>1. worker[q].pc = "emit" => v \in worker[q].todo
        BY <2>5, <3>4, ZenonT(40) DEF NoNewEmitter, Emitting
      <4>2. ~OnTopic(v, BlockProcessed(b))
        BY <3>1, <3>3, <3>4, <4>1, ZenonT(30) DEF EmittedOnce
      <4>3. ~(v = u /\ b = e)
        <5> SUFFICES ASSUME v = u, b = e PROVE FALSE
          OBVIOUS
        <5>1. q = p
          BY <2>2, <3>1, <3>3, <3>4, ZenonT(30) DEF EmittedOnce
        <5>2. worker'[p].pc = "emit" /\ worker'[p].todo = worker[p].todo \ {u}
          BY <2>3, <3>4, <5>1, ZenonT(40) DEF Moved, Emitting
        <5> QED BY <3>4, <5>1, <5>2, Zenon
      <4> QED BY <3>2, <4>2, <4>3
    <3>5. \A q \in WorkPartition : Emitting(q, b)' => ItemsOf(b) \subseteq decremented'
      BY <2>4, <3>1, <3>3, ZenonT(30) DEF EmittedOnce
    <3>6. \A v \in Url : OnTopic(v, BlockProcessed(b))' => ItemsOf(b) \subseteq decremented'
      BY <2>2, <2>4, <3>1, <3>2, ZenonT(30) DEF EmittedOnce
    <3>7. \A q, r \in WorkPartition : Emitting(q, b)' /\ Emitting(r, b)' => q = r
      BY <3>1, <3>3, ZenonT(30) DEF EmittedOnce
    <3> QED BY <3>4, <3>5, <3>6, <3>7, ZenonT(30)
  <2> QED BY <1>7, <2>1, <2>6, <2>7, PublishBlockProcessedMoves, Zenon
<1> QED
  BY <1>1, <1>2, <1>3, <1>4, <1>5, <1>6, <1>7, StepKinds

(* A publish keeps the order when it follows no BLOCK_PROCESSED of its block. *)
LEMMA SentInOrder ==
    ASSUME TypeOK, [Next]_vars, BlockProcessedLast, NEW u \in Url, NEW m, Sent(u, m),
           \A b \in Block : Clean(b) /\ m.blockHash = b => ~OnTopic(u, BlockProcessed(b))
    PROVE  BlockProcessedLast'
<1> SUFFICES ASSUME NEW v \in Url, NEW b \in Block, Clean(b)',
                    NEW i \in 1..Len(callbackTopic'[v]), NEW j \in 1..Len(callbackTopic'[v]),
                    i < j, callbackTopic'[v][i] = BlockProcessed(b)
             PROVE  callbackTopic'[v][j].blockHash # b
  BY ZenonT(30) DEF BlockProcessedLast, BlockProcessed
<1>1. Clean(b)
  BY CleanBackwards, ZenonT(40)
<1>2. callbackTopic \in [Url -> Seq(Callback)]
  BY ZenonT(30) DEF TypeOK
<1>3. CASE v # u
  <2>1. callbackTopic'[v] = callbackTopic[v]
    BY <1>2, <1>3 DEF Sent
  <2> QED BY <1>1, <2>1, ZenonT(40) DEF BlockProcessedLast
<1>4. CASE v = u
  <2>1. callbackTopic'[u] = Append(callbackTopic[u], m) /\ callbackTopic[u] \in Seq(Callback)
    BY <1>2 DEF Sent
  <2>2. i \in 1..Len(callbackTopic[u]) /\ callbackTopic[u][i] = BlockProcessed(b)
    BY <1>4, <2>1
  <2>3. CASE j = Len(callbackTopic[u]) + 1
    <3>1. callbackTopic'[u][j] = m
      BY <2>1, <2>3
    <3> QED BY <1>1, <1>4, <2>2, <3>1, ZenonT(40) DEF OnTopic
  <2>4. CASE j \in 1..Len(callbackTopic[u])
    <3>1. callbackTopic'[u][j] = callbackTopic[u][j]
      BY <2>1, <2>4
    <3> QED BY <1>1, <1>4, <2>2, <2>4, <3>1, ZenonT(30) DEF BlockProcessedLast
  <2> QED BY <1>4, <2>1, <2>3, <2>4
<1> QED BY <1>3, <1>4, ZenonT(30)

(* The emission of a clean block comes after all its other messages. *)
LEMMA BlockProcessedLastStep ==
    ASSUME TypeOK, TypeOK', [Next]_vars, CounterExact, EmittedOnce, BlockProcessedLast
    PROVE  BlockProcessedLast'
<1>a. worker \in [WorkPartition -> {IdleWorker} \cup BusyWorker]
  BY ZenonT(40) DEF TypeOK
<1>b. ASSUME NEW p \in WorkPartition, worker[p].pc # "idle"
      PROVE  worker[p].item \in WorkItem /\ worker[p].item[1] \in Block
  BY <1>a, <1>b, BusyWorkerUpdates, WorkItemPairs, ZenonT(30)
<1>1. ASSUME callbackTopic' = callbackTopic PROVE BlockProcessedLast'
  <2>1. \A b \in Block : Clean(b)' => Clean(b)
    BY CleanBackwards
  <2> QED BY <1>1, <2>1, ZenonT(30) DEF BlockProcessedLast, BlockProcessed
<1>2. ASSUME NEW p \in WorkPartition, NEW u \in Url, PublishStump(p, u)
      PROVE  BlockProcessedLast'
  <2>1. PICK w \in WorkItem : w = worker[p].item
    BY <1>2, <1>b, PublishStumpMoves, ZenonT(30)
  <2>2. Sent(u, Stump(w)) \/ callbackTopic' = callbackTopic
    BY <1>2, <2>1, PublishStumpMoves, ZenonT(30)
  <2>3. ASSUME NEW b \in Block, Clean(b), Stump(w).blockHash = b
        PROVE  ~OnTopic(u, BlockProcessed(b))
    <3>1. w \in ItemsOf(b)
      BY <2>3 DEF Stump, ItemsOf
    <3>2. w \notin decremented
      BY <1>2, <2>1, <2>3, <3>1, PublishStumpMoves, Zenon DEF CounterExact, BeforeDecrement, Clean
    <3> QED BY <2>3, <3>1, <3>2, ZenonT(40) DEF EmittedOnce
  <2> QED BY <1>1, <2>2, <2>3, SentInOrder
<1>3. ASSUME NEW p \in WorkPartition, NEW u \in Url, PublishBlockProcessed(p, u)
      PROVE  BlockProcessedLast'
  <2>1. PICK e \in Block : e = worker[p].item[1]
    BY <1>3, <1>b, PublishBlockProcessedMoves, Zenon
  <2>2. Sent(u, BlockProcessed(e)) \/ callbackTopic' = callbackTopic
    BY <1>3, <2>1, PublishBlockProcessedMoves, Zenon
  <2>3. Clean(e) => ~OnTopic(u, BlockProcessed(e))
    BY <1>3, <2>1, PublishBlockProcessedMoves, Zenon DEF EmittedOnce, Emitting
  <2>4. BlockProcessed(e).blockHash = e
    BY DEF BlockProcessed
  <2> QED BY <1>1, <2>2, <2>3, <2>4, SentInOrder
<1>4. Quiet \/ (\E b \in Block : Initialised(b))
          \/ (\E p \in WorkPartition : \E w \in WorkItem : Taken(p, w))
        => callbackTopic' = callbackTopic
  BY ZenonT(40) DEF Quiet, Initialised, Taken
<1>5. ASSUME NEW p \in WorkPartition, PutStump(p) \/ Decrement(p) \/ GetUrls(p)
      PROVE  callbackTopic' = callbackTopic
  BY <1>5 DEF PutStump, Decrement, GetUrls
<1> QED BY <1>1, <1>2, <1>3, <1>4, <1>5, StepKinds
-----------------------------------------------------------------------------
(* STUMP references.                                                       *)

Resolvable(w) ==
    \/ <<"stump", w>> \in files
    \/ StumpDAHOffset > 0 /\ tip >= Height[w[1]] + StumpDAHOffset

(* A worker that publishes a STUMP has stored it, and no process holds another
   delete-at-height for it than the one of its block. *)
StumpsStored ==
    /\ \A p \in WorkPartition : worker[p].pc = "stump" => Resolvable(worker[p].item)
    /\ \A q \in Process, w \in WorkItem : dah[q][<<"stump", w>>] \in {NoDAH, StumpDAH(w)}

(* Only SetCurrentBlockHeight removes a blob, and it raises the tip. *)
LEMMA ResolvableKept ==
    ASSUME TypeOK, [Next]_vars, StumpsStored, NEW w \in WorkItem, Resolvable(w)
    PROVE  Resolvable(w)'
<1>1. CASE FinishBlock
  <2>1. PICK h \in Nat : h = Height[proc.block]
    <3>1. proc \in {IdleProc} \cup BusyProc
      BY DEF TypeOK
    <3>2. proc \in BusyProc
      <4>1. proc.pc = "publish"
        BY <1>1, Zenon DEF FinishBlock
      <4>2. IdleProc.pc # "publish"
        BY DEF IdleProc
      <4> QED BY <3>1, <4>1, <4>2, Zenon
    <3>3. proc.block \in Block
      BY <3>2 DEF BusyProc
    <3> QED BY <3>3, PipelineAssumption, ZenonT(40)
  <2>2. /\ files' = files \ Expired(dah[Processor], h)
        /\ tip' = IF h > tip THEN h ELSE tip
    BY <1>1, <2>1, ZenonT(40) DEF FinishBlock
  <2>3. tip \in Nat /\ tip' \in Nat /\ tip' >= tip /\ tip' >= h
    <3>1. tip \in Nat
      BY DEF TypeOK
    <3> QED BY <2>1, <2>2, <3>1
  <2>4. Height[w[1]] \in Nat /\ StumpDAHOffset \in Nat
    BY WorkItemPairs, PipelineAssumption
  <2>5. CASE <<"stump", w>> \in Expired(dah[Processor], h)
    <3>1. dah[Processor][<<"stump", w>>] # NoDAH /\ h >= dah[Processor][<<"stump", w>>]
      BY <2>5, ZenonT(40) DEF Expired
    <3>2. dah[Processor][<<"stump", w>>] = StumpDAH(w) /\ StumpDAH(w) # NoDAH
      BY <3>1, PipelineAssumption, ZenonT(40) DEF StumpsStored
    <3>3. StumpDAHOffset > 0 /\ h >= Height[w[1]] + StumpDAHOffset
      BY <3>1, <3>2, Zenon DEF StumpDAH
    <3> QED BY <2>3, <2>4, <3>3 DEF Resolvable
  <2>6. CASE <<"stump", w>> \notin Expired(dah[Processor], h)
    <3>1. <<"stump", w>> \in files => <<"stump", w>> \in files'
      BY <2>2, <2>6, ZenonT(40)
    <3>2. PICK d \in Nat : d = Height[w[1]] + StumpDAHOffset
      BY <2>4
    <3>3. tip >= d => tip' >= d
      BY <2>3, <3>2, AtLeastTrans, Zenon
    <3> QED BY <3>1, <3>2, <3>3, Zenon DEF Resolvable
  <2> QED BY <2>5, <2>6, ZenonT(40)
<1>2. CASE ~FinishBlock
  <2>1. files \subseteq files' /\ tip' = tip
    <3>1. ProcessorStep => files \subseteq files' /\ tip' = tip
      BY <1>2 DEF ProcessorStep, ReceiveBlock, InitCounter, PublishWork, history
    <3>2. ASSUME NEW p \in WorkPartition, WorkerStep(p)
          PROVE  files \subseteq files' /\ tip' = tip
      BY <3>2, Zenon DEF WorkerStep, ProcessBlockSubtree, PutStump, PublishStump, Decrement,
                  GetUrls, PublishBlockProcessed, ReturnWork, SubtreeFound,
                  SubtreeFetched, SubtreeFailed, Stored, history
    <3>3. ASSUME NEW b \in Block, Announce(b) \/ ExpireCounter(b)
          PROVE  files \subseteq files' /\ tip' = tip
      BY <3>3 DEF Announce, ExpireCounter, history
    <3>4. ASSUME NEW p \in WorkPartition, CommitWork(p)
          PROVE  files \subseteq files' /\ tip' = tip
      BY <3>4 DEF CommitWork, history
    <3>5. ASSUME NEW q \in Process, Crash(q)
          PROVE  files \subseteq files' /\ tip' = tip
      BY <3>5 DEF Crash, history
    <3>6. CommitBlock \/ Quiescent \/ UNCHANGED vars => files \subseteq files' /\ tip' = tip
      BY ZenonT(40) DEF CommitBlock, Quiescent, vars, history
    <3> QED BY <3>1, <3>2, <3>3, <3>4, <3>5, <3>6 DEF Next
  <2> QED BY <2>1 DEF Resolvable
<1> QED BY <1>1, <1>2

(* stumpStore.Put precedes the STUMP messages and fixes their height. *)
LEMMA StumpsStoredStep ==
    ASSUME TypeOK, [Next]_vars, StumpsStored
    PROVE  StumpsStored'
<1>a. worker \in [WorkPartition -> {IdleWorker} \cup BusyWorker]
  BY DEF TypeOK
<1>b. dah \in [Process -> [BlobKey -> Nat]]
  BY DEF TypeOK
<1>c. \A w \in WorkItem : <<"stump", w>> \in BlobKey /\ <<"subtree", w>> \in BlobKey
  BY DEF BlobKey
<1>1. \A q \in Process, w \in WorkItem : dah'[q][<<"stump", w>>] \in {NoDAH, StumpDAH(w)}
  <2>1. ASSUME dah' = dah
        PROVE  \A q \in Process, w \in WorkItem : dah'[q][<<"stump", w>>] \in {NoDAH, StumpDAH(w)}
    BY <2>1, ZenonT(30) DEF StumpsStored
  <2>2. ASSUME FinishBlock
        PROVE  \A q \in Process, w \in WorkItem : dah'[q][<<"stump", w>>] \in {NoDAH, StumpDAH(w)}
    BY <2>2, <1>b, <1>c, PipelineAssumption, Zenon DEF FinishBlock, PrunedDAH, StumpsStored
  <2>3. ASSUME NEW x \in Process, Crash(x)
        PROVE  \A q \in Process, w \in WorkItem : dah'[q][<<"stump", w>>] \in {NoDAH, StumpDAH(w)}
    BY <2>3, <1>b, <1>c, ZenonT(30) DEF Crash, EmptyDAH, StumpsStored
  <2>4. ASSUME NEW p \in WorkPartition, ProcessBlockSubtree(p)
        PROVE  \A q \in Process, w \in WorkItem : dah'[q][<<"stump", w>>] \in {NoDAH, StumpDAH(w)}
    <3>1. PICK v \in WorkItem : v = Message(workTopic[p])
      BY <2>4, PartitionTypes, ZenonT(30) DEF TypeOK, ProcessBlockSubtree
    <3>2. dah' = dah \/ Stored(p, <<"subtree", v>>, SubtreeDAH(v))
      BY <2>4, <3>1, Zenon DEF ProcessBlockSubtree, SubtreeFound, SubtreeFetched, SubtreeFailed
    <3>3. CASE Stored(p, <<"subtree", v>>, SubtreeDAH(v))
      <4>1. PICK k \in BlobKey : k = <<"subtree", v>>
        BY <1>c, ZenonT(30)
      <4>2. PICK h : h = SubtreeDAH(v)
        OBVIOUS
      <4>3. \A q \in Process, l \in BlobKey : dah'[q][l] = dah[q][l] \/ l = k
        <5>1. Stored(p, k, h)
          BY <3>3, <4>1, <4>2
        <5> QED BY <1>b, <5>1, PipelineAssumption, ZenonT(30) DEF Stored, SetDAH
      <4>4. \A w \in WorkItem : <<"stump", w>> # k
        BY <4>1
      <4>5. \A q \in Process, w \in WorkItem : dah[q][<<"stump", w>>] \in {NoDAH, StumpDAH(w)}
        BY Zenon DEF StumpsStored
      <4> QED BY <1>c, <4>3, <4>4, <4>5, Zenon
    <3> QED BY <2>1, <3>2, <3>3, ZenonT(30)
  <2>5. ASSUME NEW p \in WorkPartition, PutStump(p)
        PROVE  \A q \in Process, w \in WorkItem : dah'[q][<<"stump", w>>] \in {NoDAH, StumpDAH(w)}
    <3>1. PICK v \in WorkItem : v = worker[p].item
      BY <2>5, <1>a, BusyWorkerUpdates, Zenon DEF PutStump
    <3>2. dah' = dah \/ Stored(p, <<"stump", v>>, StumpDAH(v))
      BY <2>5, <3>1 DEF PutStump
    <3>3. CASE Stored(p, <<"stump", v>>, StumpDAH(v))
      <4>1. PICK k \in BlobKey : k = <<"stump", v>>
        BY <1>c, Zenon
      <4>2. PICK h : h = StumpDAH(v)
        OBVIOUS
      <4>3. \A q \in Process, l \in BlobKey :
                dah'[q][l] = dah[q][l] \/ (l = k /\ dah'[q][l] = h)
        <5>1. Stored(p, k, h)
          BY <3>3, <4>1, <4>2
        <5> QED BY <1>b, <5>1, PipelineAssumption, ZenonT(30) DEF Stored, SetDAH
      <4>4. \A q \in Process, w \in WorkItem : <<"stump", w>> = k => h = StumpDAH(w)
        BY <4>1, <4>2
      <4>5. \A q \in Process, w \in WorkItem : dah[q][<<"stump", w>>] \in {NoDAH, StumpDAH(w)}
        BY Zenon DEF StumpsStored
      <4> QED BY <1>c, <4>3, <4>4, <4>5, Zenon
    <3> QED BY <2>1, <3>2, <3>3, ZenonT(30)
  <2>6. ASSUME NEW p \in WorkPartition, WorkerStep(p), dah' # dah
        PROVE  ProcessBlockSubtree(p) \/ PutStump(p)
    BY <2>6, ZenonT(30) DEF WorkerStep, PublishStump, Decrement, GetUrls, PublishBlockProcessed, ReturnWork
  <2>7. ProcessorStep => FinishBlock \/ dah' = dah
    BY DEF ProcessorStep, ReceiveBlock, InitCounter, PublishWork
  <2>8. ASSUME NEW b \in Block, Announce(b) \/ ExpireCounter(b) PROVE dah' = dah
    BY <2>8 DEF Announce, ExpireCounter
  <2>9. ASSUME NEW p \in WorkPartition, CommitWork(p) PROVE dah' = dah
    BY <2>9 DEF CommitWork
  <2>10. CommitBlock \/ Quiescent \/ UNCHANGED vars => dah' = dah
    BY ZenonT(40) DEF CommitBlock, Quiescent, vars
  <2> QED BY <2>1, <2>2, <2>3, <2>4, <2>5, <2>6, <2>7, <2>8, <2>9, <2>10, ZenonT(30) DEF Next
<1>2. ASSUME NEW p \in WorkPartition, worker'[p].pc = "stump"
      PROVE  Resolvable(worker[p].item)' /\ worker'[p].item = worker[p].item
  <2>1. CASE worker[p].pc = "stump" /\ worker'[p].item = worker[p].item
    <3>1. PICK w \in WorkItem : w = worker[p].item
      BY <2>1, <1>a, BusyWorkerUpdates, ZenonT(30)
    <3>2. Resolvable(w)'
      BY <2>1, <3>1, ResolvableKept, ZenonT(30) DEF StumpsStored
    <3> QED BY <2>1, <3>1, <3>2, ZenonT(40) DEF Resolvable
  <2>2. CASE PutStump(p)
    <3>1. worker'[p].item = worker[p].item
      BY <2>2, PutStumpMoves, Zenon DEF Moved
    <3>2. Stored(p, <<"stump", worker[p].item>>, StumpDAH(worker[p].item))
      <4>1. worker[p] \in BusyWorker
        BY <2>2, <1>a DEF PutStump, IdleWorker
      <4>2. worker' # [worker EXCEPT ![p].pc = "decrement", ![p].todo = {}]
        BY <1>2, <1>a, <4>1 DEF BusyWorker
      <4> QED BY <2>2, <4>2 DEF PutStump
    <3>3. PICK w : w = worker[p].item
      OBVIOUS
    <3>4. <<"stump", w>> \in files'
      BY <3>2, <3>3, Zenon DEF Stored
    <3>5. Resolvable(w)'
      BY <3>4, Zenon DEF Resolvable
    <3> QED BY <3>1, <3>3, <3>5, Zenon DEF Resolvable
  <2>3. (worker[p].pc = "stump" /\ worker'[p].item = worker[p].item) \/ PutStump(p)
    <3>1. Quiet \/ (\E b \in Block : Initialised(b)) =>
              worker[p].pc = "stump" /\ worker'[p].item = worker[p].item
      BY <1>2, ZenonT(30) DEF Quiet, Initialised
    <3>2. ASSUME NEW q \in WorkPartition, NEW w \in WorkItem, Taken(q, w)
          PROVE  worker[p].pc = "stump" /\ worker'[p].item = worker[p].item
      BY <1>2, <3>2, ZenonT(40) DEF Taken
    <3>3. ASSUME NEW q \in WorkPartition, NEW u \in Url, PublishStump(q, u)
          PROVE  worker[p].pc = "stump" /\ worker'[p].item = worker[p].item
      BY <1>2, <3>3, PublishStumpMoves, ZenonT(30) DEF Moved
    <3>4. ASSUME NEW q \in WorkPartition, NEW u \in Url,
                 Decrement(q) \/ GetUrls(q) \/ PublishBlockProcessed(q, u)
          PROVE  worker[p].pc = "stump" /\ worker'[p].item = worker[p].item
      BY <1>2, <3>4, DecrementMoves, GetUrlsMoves, PublishBlockProcessedMoves, ZenonT(30) DEF Moved
    <3>5. ASSUME NEW q \in WorkPartition, PutStump(q), q # p
          PROVE  worker[p].pc = "stump" /\ worker'[p].item = worker[p].item
      BY <1>2, <3>5, PutStumpMoves, ZenonT(40) DEF Moved
    <3>6. ASSUME NEW q \in WorkPartition, Decrement(q) \/ GetUrls(q)
          PROVE  worker[p].pc = "stump" /\ worker'[p].item = worker[p].item
      BY <1>2, <3>6, DecrementMoves, GetUrlsMoves, Zenon DEF Moved
    <3> QED BY <3>1, <3>2, <3>3, <3>4, <3>5, <3>6, StepKinds, ZenonT(30)
  <2> QED BY <2>1, <2>2, <2>3, ZenonT(40)
<1> QED BY <1>1, <1>2, Zenon DEF StumpsStored, Resolvable, StumpDAH

(* A STUMP message resolves until a block StumpDAHOffset above its own has been
   processed: publishSubtreeCallbacks stores the blob before it publishes, and
   SetCurrentBlockHeight removes no blob before its delete-at-height. *)
THEOREM References == Spec => []StumpRefResolves
<1>1. Init => StumpsStored /\ StumpRefResolves
  <2> SUFFICES ASSUME Init PROVE StumpsStored /\ StumpRefResolves
    OBVIOUS
  <2>1. \A u \in Url : Len(callbackTopic[u]) = 0
    BY DEF Init
  <2>2. StumpsStored
    BY ZenonT(40) DEF Init, StumpsStored, IdleWorker, EmptyDAH, BlobKey
  <2> QED BY <2>1, <2>2 DEF StumpRefResolves, OnTopic
<1>2. TypeOK /\ StumpsStored /\ StumpRefResolves /\ [Next]_vars
        => StumpsStored' /\ StumpRefResolves'
  <2> SUFFICES ASSUME TypeOK, StumpsStored, StumpRefResolves, [Next]_vars
               PROVE  StumpRefResolves'
    BY StumpsStoredStep
  <2> SUFFICES ASSUME NEW u \in Url, NEW w \in WorkItem, OnTopic(u, Stump(w))'
               PROVE  Resolvable(w)'
    BY ZenonT(30) DEF StumpRefResolves, Resolvable, Stump
  <2>1. OnTopic(u, Stump(w)) => Resolvable(w)'
    BY ResolvableKept, ZenonT(40) DEF StumpRefResolves, Resolvable
  <2>2. CASE callbackTopic' = callbackTopic
    BY <2>1, <2>2 DEF OnTopic
  <2>3. ASSUME NEW p \in WorkPartition, NEW v \in Url, PublishStump(p, v)
        PROVE  Resolvable(w)'
    <3>1. PICK x \in WorkItem : x = worker[p].item
      BY <2>3, BusyWorkerUpdates, ZenonT(40) DEF TypeOK, PublishStump
    <3>2. CASE Sent(v, Stump(x))
      <4>1. OnTopic(u, Stump(w)) \/ Stump(w) = Stump(x)
        BY <3>2, SentOnTopic
      <4>2. Stump(w) = Stump(x) => w = x
        BY WorkItemPairs DEF Stump
      <4>3. Resolvable(x)
        BY <2>3, <3>1 DEF StumpsStored, PublishStump
      <4>4. Resolvable(x)'
        BY <4>3, ResolvableKept
      <4> QED BY <2>1, <4>1, <4>2, <4>4
    <3> QED BY <2>2, <2>3, <3>1, <3>2, PublishStumpMoves, ZenonT(30)
  <2>4. ASSUME NEW p \in WorkPartition, NEW v \in Url, PublishBlockProcessed(p, v)
        PROVE  Resolvable(w)'
    <3>1. PICK e : e = worker[p].item[1]
      BY ZenonT(40)
    <3>2. CASE Sent(v, BlockProcessed(e))
      <4>1. OnTopic(u, Stump(w)) \/ Stump(w) = BlockProcessed(e)
        BY <3>2, SentOnTopic
      <4>2. Stump(w) # BlockProcessed(e)
        BY ZenonT(40) DEF Stump, BlockProcessed
      <4> QED BY <2>1, <4>1, <4>2
    <3> QED BY <2>2, <2>4, <3>1, <3>2, PublishBlockProcessedMoves, ZenonT(30)
  <2>5. Quiet \/ (\E b \in Block : Initialised(b))
            \/ (\E p \in WorkPartition : \E x \in WorkItem : Taken(p, x))
          => callbackTopic' = callbackTopic
    BY ZenonT(40) DEF Quiet, Initialised, Taken
  <2>6. ASSUME NEW p \in WorkPartition, PutStump(p) \/ Decrement(p) \/ GetUrls(p)
        PROVE  callbackTopic' = callbackTopic
    BY <2>6 DEF PutStump, Decrement, GetUrls
  <2> QED BY <2>2, <2>3, <2>4, <2>5, <2>6, StepKinds
<1> QED BY <1>1, <1>2, TypeCorrect, PTL DEF Spec

-----------------------------------------------------------------------------

(* The inductive invariant holds initially. *)
LEMMA InitOrder == Init => IInv
<1> SUFFICES ASSUME Init PROVE IInv
  OBVIOUS
<1>1. \A u \in Url : Len(callbackTopic[u]) = 0
  BY DEF Init
<1>2. \A u \in Url : \A k : ~OnTopic(u, k)
  BY <1>1 DEF OnTopic
<1>3. LogsPlaced
  BY DEF Init, LogsPlaced, EmptyPartition
<1>4. \A p \in WorkPartition : worker[p].pc = "idle"
  BY ZenonT(40) DEF Init, IdleWorker
<1>5. WorkPlaced /\ StumpsAccounted
  BY <1>4, ZenonT(30) DEF Init, WorkPlaced, StumpsAccounted, BeforeDecrement
<1>6. CounterExact
  BY <1>4, ZenonT(30) DEF Init, CounterExact, BeforeDecrement, NoCounter
<1>7. EmittedOnce
  BY <1>2, <1>4, ZenonT(30) DEF EmittedOnce, Emitting
<1>8. BlockProcessedLast
  <2>1. \A u \in Url : 1..Len(callbackTopic[u]) = {}
    BY <1>1
  <2> QED BY <2>1, Zenon DEF BlockProcessedLast
<1> QED BY <1>3, <1>5, <1>6, <1>7, <1>8 DEF IInv

(* Every step keeps it. *)
LEMMA OrderStep ==
    ASSUME ItemCounts, TypeOK, TypeOK', IInv, [Next]_vars
    PROVE  IInv'
<1>1. LastCompletes
  BY LastDecrement, Zenon DEF LastCompletes, IInv
<1> QED BY <1>1, LogsPlacedStep, WorkPlacedStep, CounterExactStep, StumpsAccountedStep,
           EmittedOnceStep, BlockProcessedLastStep
        DEF IInv

-----------------------------------------------------------------------------
(* Counting.  The library's theorems are needed from here on only.         *)

(* The theorems about finite sets, under a name. *)
FST == INSTANCE FiniteSetTheorems

(* They are about the same sets. *)
LEMMA SameSets ==
    /\ \A S : Cardinality(S) = FST!Cardinality(S)
    /\ \A S : IsFiniteSet(S) <=> FST!IsFiniteSet(S)
BY Zenon DEF Cardinality, FST!Cardinality, IsFiniteSet, FST!IsFiniteSet

(* The empty set has none. *)
LEMMA EmptyCount == Cardinality({}) = 0
BY SameSets, FST!FS_EmptySet, ZenonT(40)

(* A finite set has a number of elements. *)
LEMMA CountType == ASSUME NEW S, IsFiniteSet(S) PROVE Cardinality(S) \in Nat
BY SameSets, FST!FS_CardinalityType, ZenonT(40)

(* One element more. *)
LEMMA OneIn ==
    ASSUME NEW S, NEW x, IsFiniteSet(S)
    PROVE  /\ IsFiniteSet(S \cup {x})
           /\ Cardinality(S \cup {x}) = IF x \in S THEN Cardinality(S) ELSE Cardinality(S) + 1
BY SameSets, FST!FS_AddElement, ZenonT(40)

(* A part has no more elements than the whole, and as many if it is the whole. *)
LEMMA PartCount ==
    ASSUME NEW S, IsFiniteSet(S), NEW T \in SUBSET S
    PROVE  /\ IsFiniteSet(T) /\ Cardinality(T) <= Cardinality(S)
           /\ Cardinality(S) = Cardinality(T) => S = T
BY SameSets, FST!FS_Subset, ZenonT(40)

(* The numbers below n. *)
LEMMA BelowCount ==
    ASSUME NEW n \in Nat
    PROVE  IsFiniteSet(0..(n - 1)) /\ Cardinality(0..(n - 1)) = n
<1>1. 0 \in Int /\ n - 1 \in Int
  OBVIOUS
<1>2. /\ IsFiniteSet(0..(n - 1))
      /\ Cardinality(0..(n - 1)) = IF 0 > n - 1 THEN 0 ELSE (n - 1) - 0 + 1
  BY <1>1, SameSets, FST!FS_Interval, ZenonT(40)
<1> QED BY <1>2

(* Sets that are in a one-to-one correspondence have as many elements. *)
LEMMA OneToOne ==
    ASSUME NEW S, IsFiniteSet(S), NEW T, NEW f \in [S -> T],
           \A x, y \in S : f[x] = f[y] => x = y,
           \A y \in T : \E x \in S : f[x] = y
    PROVE  IsFiniteSet(T) /\ Cardinality(T) = Cardinality(S)
<1>1. f \in FST!Bijection(S, T)
  BY ZenonT(40) DEF FST!Bijection, FST!Injection, FST!IsInjective, FST!Surjection
<1>2. FST!ExistsBijection(S, T)
  BY <1>1 DEF FST!ExistsBijection
<1> QED BY <1>2, SameSets, FST!FS_Bijection, ZenonT(40)

(* A block has as many work items as subtrees. *)
LEMMA ItemsOfBlock ==
    ASSUME NEW b \in Block
    PROVE  /\ IsFiniteSet(ItemsOf(b))
           /\ Cardinality(ItemsOf(b)) = SubtreeCount[b]
<1> DEFINE S == 0..(SubtreeCount[b] - 1)
           f == [i \in S |-> <<b, i>>]
<1>1. SubtreeCount[b] \in Nat
  BY PipelineAssumption
<1>2. IsFiniteSet(S) /\ Cardinality(S) = SubtreeCount[b]
  BY <1>1, BelowCount, ZenonT(40)
<1>3. ItemsOf(b) = {<<b, i>> : i \in S}
  BY <1>1, WorkItemPairs DEF ItemsOf
<1> HIDE DEF S
<1>4. f \in [S -> ItemsOf(b)] /\ \A i \in S : f[i] = <<b, i>>
  BY <1>3, ZenonT(40)
<1> HIDE DEF f
<1>5. \A i, j \in S : f[i] = f[j] => i = j
  BY <1>4
<1>6. \A w \in ItemsOf(b) : \E i \in S : f[i] = w
  BY <1>3, <1>4, ZenonT(40)
<1> QED BY <1>2, <1>4, <1>5, <1>6, OneToOne, ZenonT(40)

(* The counts of the work items of a block are what the proofs use. *)
LEMMA Counts == ItemCounts
<1>1. ASSUME NEW b \in Block, NEW D \in SUBSET ItemsOf(b)
      PROVE  IsFiniteSet(D) /\ Cardinality(D) \in Nat
  BY <1>1, ItemsOfBlock, PartCount, CountType, ZenonT(40)
<1>2. ASSUME NEW b \in Block, NEW D \in SUBSET ItemsOf(b), NEW w \in ItemsOf(b) \ D
      PROVE  Cardinality(D \cup {w}) = Cardinality(D) + 1
  BY <1>1, OneIn, ZenonT(40)
<1>3. ASSUME NEW b \in Block, NEW D \in SUBSET ItemsOf(b), Cardinality(D) = SubtreeCount[b]
      PROVE  D = ItemsOf(b)
  BY <1>3, ItemsOfBlock, PartCount, ZenonT(40)
<1> QED BY <1>1, <1>2, <1>3, EmptyCount, ZenonT(40) DEF ItemCounts

(* The inductive invariant holds throughout. *)
THEOREM OrderInvariant == Spec => []IInv
<1>1. TypeOK /\ TypeOK' /\ IInv /\ [Next]_vars => IInv'
  BY Counts, OrderStep, Zenon
<1> QED BY <1>1, InitOrder, TypeCorrect, PTL DEF Spec

(* BLOCK_PROCESSED is published only after every STUMP of the block that the
   URL is owed was published or logged as failed (emitBlockProcessed runs when
   the counter reaches 0), for a block that goes through the pipeline once. *)
THEOREM Completeness == Spec => []BlockProcessedComplete
<1>1. IInv => BlockProcessedComplete
  BY ZenonT(40) DEF IInv, EmittedOnce, StumpsAccounted, Accounted, BlockProcessedComplete
<1> QED BY <1>1, OrderInvariant, PTL

(* Nothing of a block that goes through the pipeline once follows its
   BLOCK_PROCESSED in the log of a URL. *)
THEOREM Order == Spec => []BlockProcessedLast
<1>1. IInv => BlockProcessedLast
  BY DEF IInv
<1> QED BY <1>1, OrderInvariant, PTL
=============================================================================
