--------------------------- MODULE SubtreeFetcher ---------------------------
(***************************************************************************)
(* From a registration and a subtree announcement to the SEEN callbacks:   *)
(* the watch endpoint (internal/api/handlers.go), the subtree processor    *)
(* (internal/subtree/processor.go) and its caches                          *)
(* (internal/cache/registration_cache.go, dedup_cache.go).  One consumer   *)
(* goroutine serves each partition; the goroutines share both caches and   *)
(* interleave with each other and with the API at every store, cache and   *)
(* broker call.                                                            *)
(*                                                                         *)
(* The seen counter is its abstract specification, SeenCounter: an         *)
(* Increment is one step.  The cache of registrations may forget an entry  *)
(* at any time (its ring overwrites the oldest).                           *)
(***************************************************************************)
EXTENDS Integers, Sequences, FiniteSets, KafkaPartition, DedupCache

CONSTANTS
    Subtree,        \* subtree hashes
    Txid,           \* transaction ids
    Url,            \* callback URLs
    Partition,      \* partitions of the subtree topic
    Txids,          \* subtree -> its transactions
    PartitionOf,    \* subtree -> the partition its hash is keyed to
    Watched,        \* registrations that clients ask for
    RealtimeMode,   \* BOOLEAN: cfg.Subtree.StorageMode = "realtime"
    MaxAttempts,    \* cfg.Subtree.MaxAttempts
    SeenThreshold,  \* cfg.Callback.SeenThreshold
    DedupSize,      \* cfg.Subtree.DedupCacheSize
    MaxAnnounce, MaxFault, MaxCrash, MaxEvict

Registration == Txid \X Url

ASSUME FetcherAssumption ==
    /\ Txids \in [Subtree -> SUBSET Txid]
    /\ IsFiniteSet(Subtree) /\ IsFiniteSet(Txid) /\ IsFiniteSet(Url)
    /\ PartitionOf \in [Subtree -> Partition]
    /\ Watched \subseteq Registration
    /\ RealtimeMode \in BOOLEAN
    /\ {MaxAttempts, DedupSize} \subseteq Int
    /\ {SeenThreshold, MaxAnnounce, MaxFault, MaxCrash, MaxEvict} \subseteq Nat

VARIABLES
    topic,          \* the partitions of the subtree topic
    handler,        \* the goroutines in handleMessage
    dedupCache,     \* p.dedupCache
    regCache,       \* p.regCache: txid -> "registered", "notRegistered" or none
    registrations,  \* the registration store
    urlRegistry,    \* the callback URL registry
    watching,       \* watch requests between the two stores
    stored,         \* subtrees in the blob store
    dlq,            \* messages on subtree-dlq
    seen,           \* the seen counters: txid -> subtrees
    fired,          \* txids whose threshold has been reported
    budget          \* announcements, faults, crashes and evictions so far

(* History, read by the properties only. *)
VARIABLES
    accepted,       \* registrations that were answered with 200
    notFound,       \* txids a lookup of this process did not find registered
    processed,      \* completions of a subtree in this process
    onNetwork,      \* <<subtree, txid, url>> published as SEEN_ON_NETWORK
    multiple,       \* registration -> SEEN_MULTIPLE_NODES published for it
    lost,           \* <<subtree, txid, url>> lost to an error that is logged
    unhandled       \* <<partition, offset>> whose handler returned an error

stores == <<registrations, urlRegistry, watching, stored, dlq, seen, fired>>
history == <<accepted, notFound, processed, onNetwork, multiple, lost, unhandled>>
vars == <<topic, handler, dedupCache, regCache, stores, budget, history>>

Announcement == [hash : Subtree, attemptCount : Nat]

Idle == [pc |-> "idle"]

(* What handleMessage holds; `before` is history: the registrations that were
   accepted when the handler looked into the caches. *)
Handling(pc, m) ==
    [pc |-> pc, msg |-> m, before |-> accepted, uncached |-> {}, cached |-> {},
     found |-> {}, todo |-> {}, reached |-> {}]

Init ==
    /\ topic = [p \in Partition |-> EmptyPartition]
    /\ handler = [p \in Partition |-> Idle]
    /\ dedupCache = <<>>
    /\ regCache = [t \in Txid |-> "none"]
    /\ registrations = {} /\ urlRegistry = {} /\ watching = {}
    /\ stored = {} /\ dlq = {}
    /\ seen = [t \in Txid |-> {}] /\ fired = {}
    /\ budget = [announce |-> 0, fault |-> 0, crash |-> 0, evict |-> 0]
    /\ accepted = {} /\ notFound = {} /\ processed = [s \in Subtree |-> 0]
    /\ onNetwork = {} /\ multiple = [r \in Registration |-> 0]
    /\ lost = {} /\ unhandled = {}

(* The outcome of a call: it works, or it returns an error. *)
Works == UNCHANGED budget
Fails == budget.fault < MaxFault /\ budget' = [budget EXCEPT !.fault = @ + 1]

At(p, pc) == handler[p].pc = pc
Holds(p, h) == handler' = [handler EXCEPT ![p] = h]
Goto(p, pc) == Holds(p, [handler[p] EXCEPT !.pc = pc])

-----------------------------------------------------------------------------
(* handleWatch: the registration store, then the URL registry.             *)

(* Add of the two stores: sets, whatever is added twice. *)
WithRegistration(r) == registrations \cup {r}
WithUrl(u) == urlRegistry \cup {u}

(* An error of the first Add answers 500, with or without its effect. *)
AddRegistration(r) ==
    /\ r \in Watched \ (accepted \cup watching)
    /\ \/ /\ Works
          /\ registrations' = WithRegistration(r)
          /\ watching' = watching \cup {r}
       \/ /\ Fails
          /\ registrations' \in {registrations, WithRegistration(r)}
          /\ UNCHANGED watching
    /\ UNCHANGED <<topic, handler, dedupCache, regCache, urlRegistry, stored,
                   dlq, seen, fired, history>>

(* An error of the second Add, which may hide its effect, is only logged: the
   answer is 200 all the same. *)
AddUrl(r) ==
    /\ r \in watching
    /\ \/ Works /\ urlRegistry' = WithUrl(r[2])
       \/ Fails /\ urlRegistry' \in {urlRegistry, WithUrl(r[2])}
    /\ watching' = watching \ {r}
    /\ accepted' = accepted \cup {r}
    /\ UNCHANGED <<topic, handler, dedupCache, regCache, registrations, stored, dlq,
                   seen, fired, notFound, processed, onNetwork, multiple, lost,
                   unhandled>>

-----------------------------------------------------------------------------
(* handleMessage.                                                          *)

(* The P2P client publishes an announcement.  One that it drops when its retries
   are used up is not announced; one that it publishes again after a lost answer
   is announced twice. *)
Announce(s) ==
    /\ budget.announce < MaxAnnounce
    /\ budget' = [budget EXCEPT !.announce = @ + 1]
    /\ topic' = [topic EXCEPT ![PartitionOf[s]] =
                     Published(@, [hash |-> s, attemptCount |-> 0])]
    /\ UNCHANGED <<handler, dedupCache, regCache, stores, history>>

(* Mutant of Completed: the hash is not remembered. *)
CompletedForgotten(p, s) ==
    /\ UNCHANGED dedupCache
    /\ processed' = [processed EXCEPT ![s] = @ + 1]
    /\ topic' = [topic EXCEPT ![p] = Marked(@)]
    /\ Holds(p, Idle)

(* The successful end: the hash is remembered and the offset marked. *)
Completed(p, s) ==
    /\ dedupCache' = Add(dedupCache, DedupSize, s)
    /\ processed' = [processed EXCEPT ![s] = @ + 1]
    /\ topic' = [topic EXCEPT ![p] = Marked(@)]
    /\ Holds(p, Idle)

(* StoreSubtree of realtime mode. *)
Kept(s) == IF RealtimeMode THEN stored \cup {s} ELSE stored

(* Dedup check, FetchSubtreeRaw, StoreSubtree and ParseRawTxids. *)
ReadSubtree(p) ==
    /\ At(p, "idle") /\ HasMessage(topic[p])
    /\ LET m == Message(topic[p]) IN
       \/ /\ Contains(dedupCache, m.hash) /\ Works
          /\ topic' = [topic EXCEPT ![p] = Marked(@)]
          /\ UNCHANGED <<handler, stored, dedupCache, processed>>
       \/ /\ ~Contains(dedupCache, m.hash) /\ Fails
          /\ stored' \in {stored, Kept(m.hash)}
          /\ Holds(p, Handling("failed", m))
          /\ UNCHANGED <<topic, dedupCache, processed>>
       \/ /\ ~Contains(dedupCache, m.hash) /\ Works
          /\ Txids[m.hash] = {}
          /\ stored' = Kept(m.hash)
          /\ Completed(p, m.hash)
       \/ /\ ~Contains(dedupCache, m.hash) /\ Works
          /\ Txids[m.hash] # {}
          /\ stored' = Kept(m.hash)
          /\ Holds(p, Handling("filter", m))
          /\ UNCHANGED <<topic, dedupCache, processed>>
    /\ UNCHANGED <<regCache, registrations, urlRegistry, watching, dlq, seen, fired,
                   accepted, notFound, onNetwork, multiple, lost, unhandled>>

(* findRegisteredTxids: regCache.FilterUncached. *)
FilterUncached(p) ==
    /\ At(p, "filter")
    /\ LET txids == Txids[handler[p].msg.hash] IN
       Holds(p, [handler[p] EXCEPT
           !.pc = "lookup",
           !.uncached = {t \in txids : regCache[t] = "none"},
           !.cached = {t \in txids : regCache[t] = "registered"}])
    /\ UNCHANGED <<topic, dedupCache, regCache, stores, budget, history>>

TxidsOf(found) == {r[1] : r \in found}
RegistrationsOf(txids) == {r \in registrations : r[1] \in txids}

(* BatchGet of the uncached txids; its error is a transient failure. *)
LookupUncached(p) ==
    /\ At(p, "lookup")
    /\ \/ /\ Works
          /\ Holds(p, [handler[p] EXCEPT !.pc = "update",
                                         !.found = RegistrationsOf(handler[p].uncached)])
       \/ /\ Fails /\ handler[p].uncached # {}
          /\ Goto(p, "failed")
    /\ UNCHANGED <<topic, dedupCache, regCache, stores, history>>

(* The batch updates of the registration cache. *)
SetMultiRegistered(cache, txids) ==
    [t \in Txid |-> IF t \in txids THEN "registered" ELSE cache[t]]
SetMultiNotRegistered(cache, txids) ==
    [t \in Txid |-> IF t \in txids THEN "notRegistered" ELSE cache[t]]

(* The cache learns what the lookup returned. *)
UpdateCache(p) ==
    /\ At(p, "update")
    /\ LET yes == TxidsOf(handler[p].found)
           no == handler[p].uncached \ yes IN
       /\ regCache' = SetMultiNotRegistered(SetMultiRegistered(regCache, yes), no)
       /\ notFound' = notFound \cup no
    /\ Goto(p, "cached")
    /\ UNCHANGED <<topic, dedupCache, stores, budget, accepted, processed, onNetwork,
                   multiple, lost, unhandled>>

UrlsOf(found) == {r[2] : r \in found}

(* Mutant of CallbackURLs: the txids the cache knows are not looked up. *)
CallbackURLsUncached(p) == handler[p].found

(* The callback URLs of all registered txids: those of the cached ones are
   read from the store again. *)
CallbackURLs(p) == handler[p].found \cup RegistrationsOf(handler[p].cached)

(* BatchGet of the cached txids; its error is only logged and they are left out. *)
LookupCached(p) ==
    /\ At(p, "cached")
    /\ LET s == handler[p].msg.hash IN
       \/ /\ Works
          /\ Holds(p, [handler[p] EXCEPT !.pc = "seen", !.found = CallbackURLs(p),
                                         !.todo = UrlsOf(CallbackURLs(p))])
          /\ UNCHANGED lost
       \/ /\ Fails /\ handler[p].cached # {}
          /\ Holds(p, [handler[p] EXCEPT !.pc = "seen", !.todo = UrlsOf(handler[p].found)])
          /\ lost' = lost \cup ({s} \X handler[p].cached \X Url)
    /\ UNCHANGED <<topic, dedupCache, regCache, stores, accepted, notFound, processed,
                   onNetwork, multiple, unhandled>>

(* The <<subtree, txid, url>> of the batch handler p publishes to url u. *)
Batch(p, u) ==
    {<<handler[p].msg.hash, r[1], u>> : r \in {x \in handler[p].found : x[2] = u}}

(* emitBatchedSeenCallbacks: one SEEN_ON_NETWORK per URL, errors are logged. *)
PublishSeen(p, u) ==
    /\ At(p, "seen") /\ u \in handler[p].todo
    /\ \/ Works /\ onNetwork' = onNetwork \cup Batch(p, u) /\ UNCHANGED lost
       \/ Fails /\ lost' = lost \cup Batch(p, u) /\ UNCHANGED onNetwork
    /\ Holds(p, [handler[p] EXCEPT !.todo = @ \ {u}])
    /\ UNCHANGED <<topic, dedupCache, regCache, stores, accepted, notFound, processed,
                   multiple, unhandled>>

(* All SEEN_ON_NETWORK are out: the loop over the registered txids begins. *)
CountTxids(p) ==
    /\ At(p, "seen") /\ handler[p].todo = {}
    /\ Holds(p, [handler[p] EXCEPT !.pc = "count", !.todo = TxidsOf(handler[p].found)])
    /\ UNCHANGED <<topic, dedupCache, regCache, stores, budget, history>>

(* Mutant of Reaches: the threshold fires on every later subtree too. *)
ReachesAgain(t, subtrees) == Cardinality(subtrees) >= SeenThreshold

Reaches(t, subtrees) == t \notin fired /\ Cardinality(subtrees) >= SeenThreshold

(* seenCounterStore.Increment(t, subtree); an error skips the txid, and may hide
   an increment that was applied. *)
Increment(p, t) ==
    /\ At(p, "count") /\ t \in handler[p].todo
    /\ LET counted == seen[t] \cup {handler[p].msg.hash}
           fires == Reaches(t, counted) IN
       \/ /\ Works
          /\ seen' = [seen EXCEPT ![t] = counted]
          /\ fired' = IF fires THEN fired \cup {t} ELSE fired
          /\ Holds(p, [handler[p] EXCEPT
                 !.todo = @ \ {t},
                 !.reached = IF fires THEN @ \cup {t} ELSE @])
       \/ /\ Fails
          /\ \/ UNCHANGED <<seen, fired>>
             \/ /\ seen' = [seen EXCEPT ![t] = counted]
                /\ fired' = IF fires THEN fired \cup {t} ELSE fired
          /\ Holds(p, [handler[p] EXCEPT !.todo = @ \ {t}])
    /\ UNCHANGED <<topic, dedupCache, regCache, registrations, urlRegistry, watching,
                   stored, dlq, history>>

(* All txids are counted: the groups of the txids that reached the threshold. *)
GroupReached(p) ==
    /\ At(p, "count") /\ handler[p].todo = {}
    /\ LET reached == {r \in handler[p].found : r[1] \in handler[p].reached} IN
       Holds(p, [handler[p] EXCEPT !.pc = "multiple", !.todo = UrlsOf(reached)])
    /\ UNCHANGED <<topic, dedupCache, regCache, stores, budget, history>>

(* One SEEN_MULTIPLE_NODES per URL, errors are logged. *)
PublishMultiple(p, u) ==
    /\ At(p, "multiple") /\ u \in handler[p].todo
    /\ \/ /\ Works
          /\ multiple' = [r \in Registration |->
                 IF r \in handler[p].found /\ r[2] = u /\ r[1] \in handler[p].reached
                 THEN multiple[r] + 1 ELSE multiple[r]]
       \/ /\ Fails
          /\ UNCHANGED multiple
    /\ Holds(p, [handler[p] EXCEPT !.todo = @ \ {u}])
    /\ UNCHANGED <<topic, dedupCache, regCache, stores, accepted, notFound, processed,
                   onNetwork, lost, unhandled>>

(* The callbacks are out: handleMessage returns nil. *)
FinishSubtree(p) ==
    /\ At(p, "multiple") /\ handler[p].todo = {}
    /\ Completed(p, handler[p].msg.hash)
    /\ UNCHANGED <<regCache, stores, budget, accepted, notFound, onNetwork, multiple,
                   lost, unhandled>>

AttemptLimit == IF MaxAttempts <= 0 THEN 10 ELSE MaxAttempts

(* Mutant of LastAttempt: one attempt too many. *)
LastAttemptLate(nextAttempt) == nextAttempt > AttemptLimit

LastAttempt(nextAttempt) == nextAttempt >= AttemptLimit

(* Mutant of HandedOff: the message is acknowledged without a copy. *)
HandedOffNowhere(p, m) == topic' = [topic EXCEPT ![p] = Marked(@)] /\ UNCHANGED dlq

(* The message goes to subtree-dlq or, with its count, back to its partition;
   then the original offset is marked. *)
HandedOff(p, m) ==
    IF LastAttempt(m.attemptCount)
    THEN dlq' = dlq \cup {m} /\ topic' = [topic EXCEPT ![p] = Marked(@)]
    ELSE topic' = [topic EXCEPT ![p] = Marked(Published(@, m))] /\ UNCHANGED dlq

(* handleTransientFailure; only a failing producer makes it return an error. *)
handleTransientFailure(p) ==
    /\ At(p, "failed")
    /\ \/ /\ Works
          /\ HandedOff(p, [handler[p].msg EXCEPT !.attemptCount = @ + 1])
          /\ UNCHANGED unhandled
       \/ /\ Fails
          /\ topic' = [topic EXCEPT ![p] = Skipped(@)]
          /\ unhandled' = unhandled \cup {<<p, topic[p].next>>}
          /\ UNCHANGED dlq
    /\ Holds(p, Idle)
    /\ UNCHANGED <<dedupCache, regCache, registrations, urlRegistry, watching, stored,
                   seen, fired, accepted, notFound, processed, onNetwork, multiple, lost>>

-----------------------------------------------------------------------------
(* The environment.                                                        *)

(* The session's commit; only a crash makes it visible. *)
Commit(p) ==
    /\ budget.crash < MaxCrash /\ topic[p].marked # topic[p].committed
    /\ topic' = [topic EXCEPT ![p] = Committed(@)]
    /\ UNCHANGED <<handler, dedupCache, regCache, stores, budget, history>>

(* The ring of the registration cache overwrites an entry. *)
Evict(t) ==
    /\ budget.evict < MaxEvict /\ regCache[t] # "none"
    /\ budget' = [budget EXCEPT !.evict = @ + 1]
    /\ regCache' = [regCache EXCEPT ![t] = "none"]
    /\ UNCHANGED <<topic, handler, dedupCache, stores, history>>

(* The process dies and restarts with empty caches at the committed offsets. *)
Crash ==
    /\ budget.crash < MaxCrash
    /\ budget' = [budget EXCEPT !.crash = @ + 1]
    /\ topic' = [p \in Partition |-> Rejoined(topic[p])]
    /\ handler' = [p \in Partition |-> Idle]
    /\ dedupCache' = <<>>
    /\ regCache' = [t \in Txid |-> "none"]
    /\ notFound' = {} /\ processed' = [s \in Subtree |-> 0]
    /\ UNCHANGED <<stores, accepted, onNetwork, multiple, lost, unhandled>>

FetcherStep(p) ==
    \/ ReadSubtree(p) \/ FilterUncached(p) \/ LookupUncached(p) \/ UpdateCache(p)
    \/ LookupCached(p)
    \/ \E u \in Url : PublishSeen(p, u) \/ PublishMultiple(p, u)
    \/ CountTxids(p) \/ GroupReached(p)
    \/ \E t \in Txid : Increment(p, t)
    \/ FinishSubtree(p) \/ handleTransientFailure(p)

(* Every announcement is spent and every handler waits for a message. *)
Quiescent ==
    /\ budget.announce = MaxAnnounce
    /\ \A p \in Partition : At(p, "idle") /\ ~HasMessage(topic[p])
    /\ UNCHANGED vars

Next ==
    \/ \E r \in Watched : AddRegistration(r) \/ AddUrl(r)
    \/ \E s \in Subtree : Announce(s)
    \/ \E p \in Partition : FetcherStep(p) \/ Commit(p)
    \/ \E t \in Txid : Evict(t)
    \/ Crash
    \/ Quiescent

Spec == Init /\ [][Next]_vars

-----------------------------------------------------------------------------
(* Properties.                                                             *)

Busy ==
    [pc : {"failed", "filter", "lookup", "update", "cached", "seen", "count", "multiple"},
     msg : Announcement, before : SUBSET Registration, uncached : SUBSET Txid,
     cached : SUBSET Txid, found : SUBSET Registration, todo : SUBSET (Url \cup Txid),
     reached : SUBSET Txid]

(* Every variable has its type; a handler is idle or holds an announcement. *)
TypeOK ==
    /\ topic \in [Partition -> PartitionOfType(Announcement)]
    /\ handler \in [Partition -> {Idle} \cup Busy]
    /\ dedupCache \in Seq(Subtree)
    /\ regCache \in [Txid -> {"none", "registered", "notRegistered"}]
    /\ registrations \subseteq Registration
    /\ urlRegistry \subseteq Url
    /\ watching \subseteq Registration
    /\ stored \subseteq Subtree
    /\ dlq \subseteq Announcement
    /\ seen \in [Txid -> SUBSET Subtree]
    /\ fired \subseteq Txid
    /\ budget \in [announce : Nat, fault : Nat, crash : Nat, evict : Nat]
    /\ accepted \subseteq Registration
    /\ notFound \subseteq Txid
    /\ processed \in [Subtree -> Nat]
    /\ onNetwork \subseteq Subtree \X Txid \X Url
    /\ multiple \in [Registration -> Nat]
    /\ lost \subseteq Subtree \X Txid \X Url
    /\ unhandled \subseteq Partition \X (Nat \ {0})

(***************************************************************************)
(* A handler that is past the SEEN_ON_NETWORK loop has published every     *)
(* registration of its subtree that was accepted before it read the        *)
(* announcement, unless an error was logged for it or an earlier lookup of *)
(* this process had not found the txid: the cached answers, the second     *)
(* BatchGet and the concurrent updates of the cache lose no other one.     *)
(***************************************************************************)
SeenComplete ==
    \A p \in Partition : At(p, "count") \/ At(p, "multiple") =>
        LET s == handler[p].msg.hash IN
        \A r \in handler[p].before :
            r[1] \in Txids[s] => \/ <<s, r[1], r[2]>> \in onNetwork \cup lost
                                 \/ r[1] \in notFound

(***************************************************************************)
(* SEEN_MULTIPLE_NODES is published at most once for a registration, and   *)
(* only after its txid was announced in SeenThreshold different subtrees,  *)
(* whatever is redelivered, retried or lost.                               *)
(***************************************************************************)
MultipleOnce ==
    \A r \in Registration :
        /\ multiple[r] <= 1
        /\ multiple[r] = 1 =>
               Cardinality({s \in Subtree : r[1] \in Txids[s] /\
                   \E n \in 1..Len(topic[PartitionOf[s]].log) :
                       topic[PartitionOf[s]].log[n].hash = s}) >= SeenThreshold

(***************************************************************************)
(* A subtree is processed to its end once at most in the life of the       *)
(* process, however often it is announced or retried, as long as the cache *)
(* of processed hashes holds all subtrees.                                 *)
(***************************************************************************)
ProcessedOnce ==
    DedupSize >= Cardinality(Subtree) => \A s \in Subtree : processed[s] <= 1

(* What became of the message at offset n of partition p. *)
Resolved(p, n) ==
    LET m == topic[p].log[n] IN
    \/ processed[m.hash] > 0
    \/ \E k \in (n + 1)..Len(topic[p].log) :
           topic[p].log[k] = [m EXCEPT !.attemptCount = @ + 1]
    \/ [m EXCEPT !.attemptCount = @ + 1] \in dlq
    \/ <<p, n>> \in unhandled

(***************************************************************************)
(* An announcement that the consumer has passed was processed, was put     *)
(* back with one more attempt, is on the dead-letter queue, or is one      *)
(* whose hand-off failed (behaviours without a crash).                     *)
(***************************************************************************)
NothingForgotten ==
    budget.crash = 0 =>
        \A p \in Partition : \A n \in 1..(topic[p].next - 1) : Resolved(p, n)

(* A message on subtree-dlq has used up its attempts, one on the topic has not:
   the bound of handleTransientFailure on the retries of a poison message. *)
AttemptsBounded ==
    /\ \A m \in dlq : m.attemptCount = AttemptLimit
    /\ \A p \in Partition : \A n \in 1..Len(topic[p].log) :
           topic[p].log[n].attemptCount < AttemptLimit
=============================================================================
