--------------------------- MODULE BlockPipeline ----------------------------
(***************************************************************************)
(* From a block announcement to the callback topic: the block processor    *)
(* (internal/block/processor.go), the subtree workers                      *)
(* (internal/block/subtree_worker.go, subtree_processor.go), the subtree   *)
(* counter they share (internal/store/subtree_counter.go and its SQL twin) *)
(* and the blob store.  One consumer goroutine serves each partition, so   *)
(* the handler of a partition is sequential; handlers of different         *)
(* partitions interleave at every store, broker and DataHub call.          *)
(*                                                                         *)
(* A call that can fail does so at most MaxFault times in a behaviour, a   *)
(* process crashes at most MaxCrash times, and blocks are announced at     *)
(* most MaxAnnounce times, repeated announcements of one block included.   *)
(***************************************************************************)
EXTENDS Integers, Sequences, FiniteSets, KafkaPartition, BlobStore, DedupCache

CONSTANTS
    Block,          \* block hashes
    Url,            \* callback URLs
    WorkPartition,  \* partitions of the subtree-work topic
    Process,        \* operating-system processes
    SubtreeCount,   \* block -> number of its subtrees
    Height,         \* block -> its height
    PartitionOf,    \* work item -> partition its subtree hash is keyed to
    Registered,     \* work item -> URLs with a registered txid in the subtree
    Registry,       \* the URLs in the callback URL registry
    Realtime,       \* work items whose subtree the fetcher stored beforehand
    Processor,      \* the process that runs the block processor
    WorkerOf,       \* partition -> the process that runs its worker
    DedupSize, DAHOffset, StumpDAHOffset,
    MaxAnnounce, MaxFault, MaxCrash

(* A SubtreeWorkMessage: the block and the index of one of its subtrees. *)
WorkItem == UNION {{b} \X (0..(SubtreeCount[b] - 1)) : b \in Block}

BlobKey == {"subtree", "stump"} \X WorkItem

ASSUME PipelineAssumption ==
    /\ SubtreeCount \in [Block -> Nat]
    /\ Height \in [Block -> Nat \ {0}]
    /\ PartitionOf \in [WorkItem -> WorkPartition]
    /\ Registered \in [WorkItem -> SUBSET Url]
    /\ Registry \subseteq Url
    /\ Realtime \subseteq WorkItem
    /\ Processor \in Process
    /\ WorkerOf \in [WorkPartition -> Process]
    /\ DedupSize \in Int
    /\ {DAHOffset, StumpDAHOffset, MaxAnnounce, MaxFault, MaxCrash} \subseteq Nat

(* Messages of the callback topic. *)
Stump(w) == [type |-> "STUMP", blockHash |-> w[1], subtreeIndex |-> w[2]]
BlockProcessed(b) ==
    [type |-> "BLOCK_PROCESSED", blockHash |-> b, subtreeIndex |-> 0]
Callback == {Stump(w) : w \in WorkItem} \cup {BlockProcessed(b) : b \in Block}

NoBlock == <<>>
NoItem == <<>>
NoCounter == [exists |-> FALSE, remaining |-> 0]

VARIABLES
    blockTopic,     \* the partition of the block topic
    workTopic,      \* the partitions of the subtree-work topic
    callbackTopic,  \* the callback topic: one log per callback URL (the key)
    proc,           \* the block processor's handler: pc, block and loop index
    worker,         \* the workers' handlers: pc, work item and URLs left
    dedupCache,     \* the block processor's cache of processed hashes
    counter,        \* the subtree counter records
    files,          \* blobs on disk
    dah,            \* each process's delete-at-height map
    budget          \* announcements, faults and crashes so far

(* History, read by the properties only. *)
VARIABLES
    inits,          \* how often the counter of a block was initialised
    starts,         \* how often a worker took a work item
    decremented,    \* work items whose decrement reached the counter
    failed,         \* (work item, URL) pairs lost to a logged error
    tip             \* the greatest height given to SetCurrentBlockHeight

history == <<inits, starts, decremented, failed, tip>>
vars == <<blockTopic, workTopic, callbackTopic, proc, worker, dedupCache,
          counter, files, dah, budget, history>>

IdleProc == [pc |-> "idle", block |-> NoBlock, i |-> 0]
IdleWorker == [pc |-> "idle", item |-> NoItem, todo |-> {}]

Init ==
    /\ blockTopic = EmptyPartition
    /\ workTopic = [p \in WorkPartition |-> EmptyPartition]
    /\ callbackTopic = [u \in Url |-> <<>>]
    /\ proc = IdleProc
    /\ worker = [p \in WorkPartition |-> IdleWorker]
    /\ dedupCache = <<>>
    /\ counter = [b \in Block |-> NoCounter]
    /\ files = {"subtree"} \X Realtime
    /\ dah = [q \in Process |-> EmptyDAH(BlobKey)]
    /\ budget = [announce |-> 0, fault |-> 0, crash |-> 0]
    /\ inits = [b \in Block |-> 0]
    /\ starts = [w \in WorkItem |-> 0]
    /\ decremented = {}
    /\ failed = {}
    /\ tip = 0

-----------------------------------------------------------------------------
(* The outcome of a call: it works, or it returns an error. *)
Works == UNCHANGED budget
Fails == budget.fault < MaxFault /\ budget' = [budget EXCEPT !.fault = @ + 1]

(* The P2P client publishes a block announcement.  One that it drops when its
   retries are used up is not announced; one that it publishes again after a
   lost answer is announced twice. *)
Announce(b) ==
    /\ budget.announce < MaxAnnounce
    /\ budget' = [budget EXCEPT !.announce = @ + 1]
    /\ blockTopic' = Published(blockTopic, b)
    /\ UNCHANGED <<workTopic, callbackTopic, proc, worker, dedupCache, counter,
                   files, dah, history>>

-----------------------------------------------------------------------------
(* The block processor's handleMessage.                                    *)

(* Dedup check and FetchBlockMetadata; a block without subtrees is done. *)
ReceiveBlock ==
    /\ proc.pc = "idle" /\ HasMessage(blockTopic)
    /\ LET b == Message(blockTopic) IN
       \/ /\ Contains(dedupCache, b) /\ Works
          /\ blockTopic' = Marked(blockTopic)
          /\ UNCHANGED proc
       \/ /\ ~Contains(dedupCache, b) /\ Fails
          /\ blockTopic' = Skipped(blockTopic)
          /\ UNCHANGED proc
       \/ /\ ~Contains(dedupCache, b) /\ Works
          /\ SubtreeCount[b] = 0
          /\ blockTopic' = Marked(blockTopic)
          /\ UNCHANGED proc
       \/ /\ ~Contains(dedupCache, b) /\ Works
          /\ SubtreeCount[b] > 0
          /\ proc' = [pc |-> "init", block |-> b, i |-> 0]
          /\ UNCHANGED blockTopic
    /\ UNCHANGED <<workTopic, callbackTopic, worker, dedupCache, counter,
                   files, dah, history>>

CounterSetTo(b, n) ==
    /\ counter' = [counter EXCEPT ![b] = [exists |-> TRUE, remaining |-> n]]
    /\ inits' = [inits EXCEPT ![b] = @ + 1]

(* Mutants of CounterWritten: a count that is one short or one too many. *)
CounterShort(b) == CounterSetTo(b, SubtreeCount[b] - 1)
CounterLong(b) == CounterSetTo(b, SubtreeCount[b] + 1)

(* The write of the counter record: Init overwrites what is there. *)
CounterWritten(b) == CounterSetTo(b, SubtreeCount[b])

(* subtreeCounter.Init; an error may hide a write that was applied. *)
InitCounter ==
    /\ proc.pc = "init"
    /\ \/ /\ Works /\ CounterWritten(proc.block)
          /\ proc' = [proc EXCEPT !.pc = "publish"]
          /\ UNCHANGED blockTopic
       \/ /\ Fails
          /\ CounterWritten(proc.block) \/ UNCHANGED <<counter, inits>>
          /\ proc' = IdleProc
          /\ blockTopic' = Skipped(blockTopic)
    /\ UNCHANGED <<workTopic, callbackTopic, worker, dedupCache, files, dah,
                   starts, decremented, failed, tip>>

(* One turn of the loop: publish one work message, an error is only logged. *)
PublishWork ==
    /\ proc.pc = "publish" /\ proc.i < SubtreeCount[proc.block]
    /\ LET w == <<proc.block, proc.i>> IN
       \/ /\ Works
          /\ workTopic' = [workTopic EXCEPT ![PartitionOf[w]] = Published(@, w)]
       \/ /\ Fails
          /\ UNCHANGED workTopic
    /\ proc' = [proc EXCEPT !.i = @ + 1]
    /\ UNCHANGED <<blockTopic, callbackTopic, worker, dedupCache, counter,
                   files, dah, history>>

(* After the loop: SetCurrentBlockHeight prunes, the hash is remembered. *)
FinishBlock ==
    /\ proc.pc = "publish" /\ proc.i = SubtreeCount[proc.block]
    /\ LET h == Height[proc.block] IN
       /\ files' = files \ Expired(dah[Processor], h)
       /\ dah' = [dah EXCEPT ![Processor] = PrunedDAH(@, h)]
       /\ tip' = IF h > tip THEN h ELSE tip
    /\ dedupCache' = Add(dedupCache, DedupSize, proc.block)
    /\ proc' = IdleProc
    /\ blockTopic' = Marked(blockTopic)
    /\ UNCHANGED <<workTopic, callbackTopic, worker, counter, budget, inits,
                   starts, decremented, failed>>

-----------------------------------------------------------------------------
(* The subtree worker's handleMessage, for the worker of partition p.      *)

(* Mutant of SubtreeDAH: the blob is stored without a height. *)
SubtreeDAHMissing(w) == NoDAH

(* The delete-at-height of a subtree stored during block processing. *)
SubtreeDAH(w) == Height[w[1]] + DAHOffset

(* Mutant of StumpDAH: the offset is left out. *)
StumpDAHNoOffset(w) == Height[w[1]]

(* The delete-at-height of a STUMP blob; an offset of 0 means none. *)
StumpDAH(w) == IF StumpDAHOffset > 0 THEN Height[w[1]] + StumpDAHOffset ELSE NoDAH

(* A blob written by the process of partition p: the file, then its DAH. *)
Stored(p, key, height) ==
    /\ files' = files \cup {key}
    /\ dah' = [dah EXCEPT ![WorkerOf[p]] = SetDAH(@, key, height)]

(* GetSubtree misses and the subtree comes from the DataHub: StoreSubtree is
   tried, and its error only logged. *)
SubtreeFetched(p, w) ==
    /\ <<"subtree", w>> \notin files
    /\ \/ Works /\ Stored(p, <<"subtree", w>>, SubtreeDAH(w))
       \/ Fails /\ UNCHANGED <<files, dah>>

SubtreeFound(w) == <<"subtree", w>> \in files /\ Works /\ UNCHANGED <<files, dah>>

(* FetchSubtreeRaw fails, or parsing or BatchGet fails after the subtree was
   found or stored: no callbacks, but the handler goes on. *)
SubtreeFailed(p, w) ==
    /\ Fails
    /\ \/ UNCHANGED <<files, dah>>
       \/ /\ <<"subtree", w>> \notin files
          /\ Stored(p, <<"subtree", w>>, SubtreeDAH(w))

ProcessBlockSubtree(p) ==
    /\ worker[p].pc = "idle" /\ HasMessage(workTopic[p])
    /\ LET w == Message(workTopic[p]) IN
       /\ starts' = [starts EXCEPT ![w] = @ + 1]
       /\ \/ /\ SubtreeFound(w) \/ SubtreeFetched(p, w)
             /\ worker' = [worker EXCEPT ![p] =
                    [pc |-> IF Registered[w] = {} THEN "decrement" ELSE "put",
                     item |-> w, todo |-> Registered[w]]]
             /\ UNCHANGED failed
          \/ /\ SubtreeFailed(p, w)
             /\ worker' = [worker EXCEPT ![p] =
                    [pc |-> "decrement", item |-> w, todo |-> {}]]
             /\ failed' = failed \cup ({w} \X Registered[w])
    /\ UNCHANGED <<blockTopic, workTopic, callbackTopic, proc, dedupCache,
                   counter, inits, decremented, tip>>

(* stumpStore.Put; without a reference no callback is published. *)
PutStump(p) ==
    /\ worker[p].pc = "put"
    /\ LET w == worker[p].item IN
       \/ /\ Works
          /\ Stored(p, <<"stump", w>>, StumpDAH(w))
          /\ worker' = [worker EXCEPT ![p].pc = "stump"]
          /\ UNCHANGED failed
       \/ /\ Fails
          /\ worker' = [worker EXCEPT ![p].pc = "decrement", ![p].todo = {}]
          /\ failed' = failed \cup ({w} \X worker[p].todo)
          /\ UNCHANGED <<files, dah>>
    /\ UNCHANGED <<blockTopic, workTopic, callbackTopic, proc, dedupCache,
                   counter, inits, starts, decremented, tip>>

(* One turn of the loop over the callback groups. *)
PublishStump(p, u) ==
    /\ worker[p].pc = "stump" /\ u \in worker[p].todo
    /\ LET w == worker[p].item
           rest == worker[p].todo \ {u} IN
       /\ \/ /\ Works
             /\ callbackTopic' = [callbackTopic EXCEPT ![u] = Append(@, Stump(w))]
             /\ UNCHANGED failed
          \/ /\ Fails
             /\ failed' = failed \cup {<<w, u>>}
             /\ UNCHANGED callbackTopic
       /\ worker' = [worker EXCEPT
              ![p].todo = rest,
              ![p].pc = IF rest = {} THEN "decrement" ELSE "stump"]
    /\ UNCHANGED <<blockTopic, workTopic, proc, dedupCache, counter, files,
                   dah, inits, starts, decremented, tip>>

(* The decrement applied to an existing record. *)
Decremented(w) ==
    /\ counter[w[1]].exists
    /\ counter' = [counter EXCEPT ![w[1]].remaining = @ - 1]
    /\ decremented' = decremented \cup {w}

(* Mutant of LastSubtree: the last but one subtree emits too. *)
NearlyLastSubtree(remaining) == remaining <= 1

(* The worker whose decrement returns 0 emits BLOCK_PROCESSED. *)
LastSubtree(remaining) == remaining = 0

(* subtreeCounter.Decrement; a missing record is an error, and an error may
   hide a decrement that was applied. *)
Decrement(p) ==
    /\ worker[p].pc = "decrement"
    /\ LET w == worker[p].item IN
       \/ /\ Works /\ Decremented(w)
          /\ worker' = [worker EXCEPT ![p].pc =
                IF LastSubtree(counter[w[1]].remaining - 1) THEN "urls" ELSE "return"]
       \/ /\ Fails /\ Decremented(w)
          /\ worker' = [worker EXCEPT ![p].pc = "return"]
       \/ /\ Fails \/ (Works /\ ~counter[w[1]].exists)
          /\ worker' = [worker EXCEPT ![p].pc = "return"]
          /\ UNCHANGED <<counter, decremented>>
    /\ UNCHANGED <<blockTopic, workTopic, callbackTopic, proc, dedupCache,
                   files, dah, inits, starts, failed, tip>>

(* emitBlockProcessed: urlRegistry.GetAll. *)
GetUrls(p) ==
    /\ worker[p].pc = "urls"
    /\ \/ /\ Works
          /\ worker' = [worker EXCEPT
                ![p].pc = IF Registry = {} THEN "return" ELSE "emit",
                ![p].todo = Registry]
       \/ /\ Fails
          /\ worker' = [worker EXCEPT ![p].pc = "return"]
    /\ UNCHANGED <<blockTopic, workTopic, callbackTopic, proc, dedupCache,
                   counter, files, dah, history>>

(* One turn of the loop over the registered URLs. *)
PublishBlockProcessed(p, u) ==
    /\ worker[p].pc = "emit" /\ u \in worker[p].todo
    /\ LET rest == worker[p].todo \ {u} IN
       /\ \/ /\ Works
             /\ callbackTopic' = [callbackTopic EXCEPT ![u] =
                    Append(@, BlockProcessed(worker[p].item[1]))]
          \/ /\ Fails
             /\ UNCHANGED callbackTopic
       /\ worker' = [worker EXCEPT
              ![p].todo = rest,
              ![p].pc = IF rest = {} THEN "return" ELSE "emit"]
    /\ UNCHANGED <<blockTopic, workTopic, proc, dedupCache, counter, files,
                   dah, history>>

(* handleMessage returns nil and the offset is marked. *)
ReturnWork(p) ==
    /\ worker[p].pc = "return"
    /\ worker' = [worker EXCEPT ![p] = IdleWorker]
    /\ workTopic' = [workTopic EXCEPT ![p] = Marked(@)]
    /\ UNCHANGED <<blockTopic, callbackTopic, proc, dedupCache, counter, files,
                   dah, budget, history>>

-----------------------------------------------------------------------------
(* The environment.                                                        *)

CommitBlock ==
    /\ blockTopic.marked # blockTopic.committed
    /\ blockTopic' = Committed(blockTopic)
    /\ UNCHANGED <<workTopic, callbackTopic, proc, worker, dedupCache, counter,
                   files, dah, budget, history>>

CommitWork(p) ==
    /\ workTopic[p].marked # workTopic[p].committed
    /\ workTopic' = [workTopic EXCEPT ![p] = Committed(@)]
    /\ UNCHANGED <<blockTopic, callbackTopic, proc, worker, dedupCache, counter,
                   files, dah, budget, history>>

(* Process q dies and restarts: its handlers, cache and DAH map are gone and
   its consumers resume from the committed offsets. *)
Crash(q) ==
    /\ budget.crash < MaxCrash
    /\ budget' = [budget EXCEPT !.crash = @ + 1]
    /\ IF q = Processor
       THEN /\ proc' = IdleProc
            /\ dedupCache' = <<>>
            /\ blockTopic' = Rejoined(blockTopic)
       ELSE UNCHANGED <<proc, dedupCache, blockTopic>>
    /\ worker' = [p \in WorkPartition |->
            IF WorkerOf[p] = q THEN IdleWorker ELSE worker[p]]
    /\ workTopic' = [p \in WorkPartition |->
            IF WorkerOf[p] = q THEN Rejoined(workTopic[p]) ELSE workTopic[p]]
    /\ dah' = [dah EXCEPT ![q] = EmptyDAH(BlobKey)]
    /\ UNCHANGED <<callbackTopic, counter, files, history>>

(* The counter record outlives its TTL and is evicted. *)
ExpireCounter(b) ==
    /\ counter[b].exists /\ Fails
    /\ counter' = [counter EXCEPT ![b] = NoCounter]
    /\ UNCHANGED <<blockTopic, workTopic, callbackTopic, proc, worker,
                   dedupCache, files, dah, history>>

ProcessorStep == ReceiveBlock \/ InitCounter \/ PublishWork \/ FinishBlock

WorkerStep(p) ==
    \/ ProcessBlockSubtree(p)
    \/ PutStump(p)
    \/ \E u \in Url : PublishStump(p, u)
    \/ Decrement(p)
    \/ GetUrls(p)
    \/ \E u \in Url : PublishBlockProcessed(p, u)
    \/ ReturnWork(p)

(* Every announcement is spent and every handler waits for a message. *)
Quiescent ==
    /\ budget.announce = MaxAnnounce
    /\ proc.pc = "idle" /\ ~HasMessage(blockTopic)
    /\ \A p \in WorkPartition : worker[p].pc = "idle" /\ ~HasMessage(workTopic[p])
    /\ UNCHANGED vars

Next ==
    \/ \E b \in Block : Announce(b)
    \/ ProcessorStep
    \/ \E p \in WorkPartition : WorkerStep(p)
    \/ CommitBlock
    \/ \E p \in WorkPartition : CommitWork(p)
    \/ \E q \in Process : Crash(q)
    \/ \E b \in Block : ExpireCounter(b)
    \/ Quiescent

Spec == Init /\ [][Next]_vars

(* The consumer goroutines are always scheduled again; nothing is assumed of
   announcements, commits, crashes and evictions. *)
Fairness ==
    /\ WF_vars(ProcessorStep)
    /\ \A p \in WorkPartition : WF_vars(WorkerStep(p))

FairSpec == Spec /\ Fairness

-----------------------------------------------------------------------------
(* Properties.                                                             *)

BusyProc == [pc : {"init", "publish"}, block : Block, i : Nat]
BusyWorker == [pc : {"put", "stump", "decrement", "urls", "emit", "return"},
               item : WorkItem, todo : SUBSET Url]

Counter == [exists : BOOLEAN, remaining : Int]
Budget == [announce : Nat, fault : Nat, crash : Nat]

(* The type of every variable; a handler is idle or holds a message. *)
TypeOK ==
    /\ blockTopic \in PartitionOfType(Block)
    /\ workTopic \in [WorkPartition -> PartitionOfType(WorkItem)]
    /\ callbackTopic \in [Url -> Seq(Callback)]
    /\ proc \in {IdleProc} \cup BusyProc
    /\ worker \in [WorkPartition -> {IdleWorker} \cup BusyWorker]
    /\ dedupCache \in Seq(Block)
    /\ counter \in [Block -> Counter]
    /\ files \subseteq BlobKey
    /\ dah \in [Process -> [BlobKey -> Nat]]
    /\ budget \in Budget
    /\ inits \in [Block -> Nat]
    /\ starts \in [WorkItem -> Nat]
    /\ decremented \subseteq WorkItem
    /\ failed \subseteq WorkItem \X Url
    /\ tip \in Nat

ItemsOf(b) == {w \in WorkItem : w[1] = b}

OnTopic(u, m) == \E n \in 1..Len(callbackTopic[u]) : callbackTopic[u][n] = m

(* Block b went through the pipeline once: its counter was initialised once
   and no worker took one of its work items twice. *)
Clean(b) == inits[b] <= 1 /\ \A w \in ItemsOf(b) : starts[w] <= 1

(***************************************************************************)
(* BLOCK_PROCESSED is published to a URL (emitBlockProcessed) only when    *)
(* the STUMP of every subtree with a txid registered for that URL has been *)
(* published to it, or an error of that subtree was logged: whatever the   *)
(* interleaving of the workers, errors, and crashes that redeliver no work *)
(* item of the block.                                                      *)
(***************************************************************************)
BlockProcessedComplete ==
    \A u \in Url, b \in Block :
        Clean(b) /\ OnTopic(u, BlockProcessed(b)) =>
            \A w \in ItemsOf(b) : u \in Registered[w] =>
                OnTopic(u, Stump(w)) \/ <<w, u>> \in failed

(***************************************************************************)
(* In the log of a URL nothing of a block follows its BLOCK_PROCESSED: no  *)
(* STUMP and no second BLOCK_PROCESSED.  The stump gate of the callback    *)
(* delivery relies on this order of the partition.                         *)
(***************************************************************************)
BlockProcessedLast ==
    \A u \in Url, b \in Block :
        Clean(b) =>
            \A m, n \in 1..Len(callbackTopic[u]) :
                m < n /\ callbackTopic[u][m] = BlockProcessed(b) =>
                    callbackTopic[u][n].blockHash # b

(***************************************************************************)
(* A STUMP message that is on the callback topic can be resolved: its blob *)
(* is on disk until a block StumpDAHOffset above its own is processed      *)
(* (publishSubtreeCallbacks stores before it publishes, and FinishBlock    *)
(* prunes no earlier).                                                     *)
(***************************************************************************)
StumpRefResolves ==
    \A u \in Url, w \in WorkItem :
        OnTopic(u, Stump(w)) =>
            \/ <<"stump", w>> \in files
            \/ StumpDAHOffset > 0 /\ tip >= Height[w[1]] + StumpDAHOffset

(***************************************************************************)
(* Every announced block with subtrees is eventually reported to every     *)
(* registered URL when no call fails and no process crashes.               *)
(***************************************************************************)
AnnouncedIsReported ==
    \A b \in Block, u \in Registry :
        SubtreeCount[b] > 0 /\ (\E n \in 1..Len(blockTopic.log) : blockTopic.log[n] = b)
            ~> OnTopic(u, BlockProcessed(b))

(***************************************************************************)
(* The unconditional reading of BLOCK_PROCESSED, "All STUMPs for a block   *)
(* have been delivered" (docs/design.md): the decrement is not idempotent, *)
(* so a redelivered work item makes the counter reach 0 early.             *)
(***************************************************************************)
BlockProcessedMeansAll ==
    \A u \in Url, b \in Block :
        OnTopic(u, BlockProcessed(b)) =>
            \A w \in ItemsOf(b) : u \in Registered[w] =>
                OnTopic(u, Stump(w)) \/ <<w, u>> \in failed

(***************************************************************************)
(* FinishBlock at a height that reaches the delete-at-height of a          *)
(* processed subtree removes its blob ("A value of 1 means subtrees are    *)
(* pruned after the next block", config.yaml).                             *)
(***************************************************************************)
SubtreesPruned ==
    [][tip' > tip => \A w \in decremented :
            tip' >= Height[w[1]] + DAHOffset => <<"subtree", w>> \notin files']_vars
=============================================================================
