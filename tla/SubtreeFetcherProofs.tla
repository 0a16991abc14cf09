------------------------ MODULE SubtreeFetcherProofs ------------------------
(***************************************************************************)
(* The invariants of SubtreeFetcher hold for every set of subtrees,        *)
(* transactions, URLs and registrations, every number of partitions,       *)
(* faults, crashes and evictions: an inductive invariant, IInv, and its    *)
(* consequences.                                                           *)
(***************************************************************************)
EXTENDS SubtreeFetcher, TLAPS

(* The partition operators keep the type, and a fetched message has it. *)
LEMMA PartitionTypes ==
    ASSUME NEW M, NEW part \in PartitionOfType(M)
    PROVE  /\ \A m \in M : Published(part, m) \in PartitionOfType(M)
           /\ Marked(part) \in PartitionOfType(M)
           /\ Skipped(part) \in PartitionOfType(M)
           /\ Committed(part) \in PartitionOfType(M)
           /\ Rejoined(part) \in PartitionOfType(M)
           /\ HasMessage(part) => Message(part) \in M
<1> USE DEF PartitionOfType
<1>1. \A m \in M : Published(part, m) \in PartitionOfType(M)
  BY SMTT(30) DEF Published
<1>2. Marked(part) \in PartitionOfType(M)
  <2>1. part.next + 1 \in Nat \ {0}
    OBVIOUS
  <2> QED BY <2>1, Zenon DEF Marked
<1>3. Skipped(part) \in PartitionOfType(M)
  BY DEF Skipped
<1>4. Committed(part) \in PartitionOfType(M)
  BY DEF Committed
<1>5. Rejoined(part) \in PartitionOfType(M)
  <2>1. Len(part.log) + 1 \in Nat \ {0}
    OBVIOUS
  <2>2. part.committed # 0 => part.committed \in Nat \ {0}
    OBVIOUS
  <2> QED BY <2>1, <2>2, Zenon DEF Rejoined, NoOffset
<1>6. HasMessage(part) => Message(part) \in M
  BY DEF HasMessage, Message
<1> QED BY <1>1, <1>2, <1>3, <1>4, <1>5, <1>6

(* Only a publish changes the log of a partition. *)
LEMMA PartitionLogs ==
    ASSUME NEW M, NEW part \in PartitionOfType(M)
    PROVE  /\ part.log \in Seq(M)
           /\ \A m : Published(part, m).log = Append(part.log, m)
           /\ Marked(part).log = part.log
           /\ Skipped(part).log = part.log
           /\ Committed(part).log = part.log
           /\ Rejoined(part).log = part.log
BY DEF PartitionOfType, Published, Marked, Skipped, Committed, Rejoined

(* The dedup cache holds only keys that were added. *)
LEMMA AddType ==
    ASSUME NEW K, NEW cache \in Seq(K), NEW key \in K, NEW size \in Int
    PROVE  Add(cache, size, key) \in Seq(K)
<1>1. CASE Contains(cache, key)
  <2> DEFINE n == PositionOf(cache, key)
  <2>1. n \in 1..Len(cache)
    BY <1>1 DEF Contains, PositionOf
  <2>2. /\ SubSeq(cache, 1, n - 1) \in Seq(K)
        /\ SubSeq(cache, n + 1, Len(cache)) \in Seq(K)
    BY <2>1
  <2> QED BY <1>1, <2>2 DEF Add
<1>2. CASE ~Contains(cache, key)
  <2>1. Capacity(size) \in Int /\ Capacity(size) >= 1
    BY DEF Capacity
  <2>2. Len(cache) >= Capacity(size) => SubSeq(cache, 1, Capacity(size) - 1) \in Seq(K)
    BY <2>1
  <2> QED BY <1>2, <2>1, <2>2 DEF Add
<1> QED BY <1>1, <1>2

(* A session moves forward by one message. *)
LEMMA PartitionOffsets ==
    ASSUME NEW M, NEW part \in PartitionOfType(M)
    PROVE  /\ part.next \in Nat \ {0}
           /\ \A m : Published(part, m).next = part.next
           /\ Marked(part).next = part.next + 1
           /\ Skipped(part).next = part.next + 1
           /\ Committed(part).next = part.next
BY DEF PartitionOfType, Published, Marked, Skipped, Committed

(* A key of a concatenation is a key of one of its parts. *)
LEMMA ContainsConcat ==
    ASSUME NEW K, NEW c \in Seq(K), NEW d \in Seq(K), NEW k, Contains(c \o d, k)
    PROVE  Contains(c, k) \/ Contains(d, k)
<1>1. PICK n \in 1..(Len(c) + Len(d)) : (c \o d)[n] = k
  BY DEF Contains
<1>2. CASE n <= Len(c)
  BY <1>1, <1>2 DEF Contains
<1>3. CASE n > Len(c)
  <2>1. n - Len(c) \in 1..Len(d) /\ d[n - Len(c)] = k
    BY <1>1, <1>3
  <2> QED BY <2>1 DEF Contains
<1> QED BY <1>2, <1>3

(* A key of a part of the cache is a key of the cache. *)
LEMMA ContainsSubSeq ==
    ASSUME NEW K, NEW c \in Seq(K), NEW m \in Nat \ {0}, NEW n \in Int, n <= Len(c), NEW k,
           Contains(SubSeq(c, m, n), k)
    PROVE  Contains(c, k)
<1>1. CASE m <= n
  <2>0. Len(SubSeq(c, m, n)) = n - m + 1
    BY <1>1
  <2>1. PICK i \in 1..(n - m + 1) : SubSeq(c, m, n)[i] = k
    BY <2>0, Zenon DEF Contains
  <2>2. m + i - 1 \in 1..Len(c) /\ c[m + i - 1] = k
    BY <1>1, <2>1
  <2> QED BY <2>2 DEF Contains
<1>2. CASE m > n
  BY <1>2 DEF Contains
<1> QED BY <1>1, <1>2

(* The key of a cache with one element. *)
LEMMA ContainsSingle == ASSUME NEW key, NEW k, Contains(<<key>>, k) PROVE k = key
BY DEF Contains

(* What Add leaves in the cache was there before, or is the new key. *)
LEMMA AddContains ==
    ASSUME NEW K, NEW cache \in Seq(K), NEW key \in K, NEW size \in Int, NEW k,
           Contains(Add(cache, size, key), k)
    PROVE  k = key \/ Contains(cache, k)
<1> DEFINE one == <<key>>
<1>0. one \in Seq(K) /\ (Contains(one, k) => k = key)
  BY ContainsSingle
<1> HIDE DEF one
<1>1. CASE Contains(cache, key)
  <2> DEFINE n == PositionOf(cache, key)
             front == SubSeq(cache, 1, n - 1)
             back == SubSeq(cache, n + 1, Len(cache))
  <2>1. n \in 1..Len(cache)
    BY <1>1, Zenon DEF Contains, PositionOf
  <2>2. Add(cache, size, key) = one \o (front \o back)
    BY <1>1, Zenon DEF Add, one
  <2>3. front \in Seq(K) /\ back \in Seq(K) /\ front \o back \in Seq(K)
    BY <2>1
  <2>4. Contains(front, k) \/ Contains(back, k) => Contains(cache, k)
    BY <2>1, ContainsSubSeq
  <2> HIDE DEF front, back
  <2>5. Contains(one, k) \/ Contains(front \o back, k)
    BY <1>0, <2>2, <2>3, ContainsConcat, ZenonT(40)
  <2>6. Contains(front \o back, k) => Contains(front, k) \/ Contains(back, k)
    BY <2>3, ContainsConcat
  <2> QED BY <1>0, <2>4, <2>5, <2>6, Zenon
<1>2. CASE ~Contains(cache, key)
  <2>1. Capacity(size) \in Int /\ Capacity(size) >= 1
    BY DEF Capacity
  <2>2. CASE Len(cache) < Capacity(size)
    <3>1. Add(cache, size, key) = one \o cache
      BY <1>2, <2>2, Zenon DEF Add, one
    <3> QED BY <1>0, <3>1, ContainsConcat
  <2>3. CASE ~(Len(cache) < Capacity(size))
    <3> DEFINE front == SubSeq(cache, 1, Capacity(size) - 1)
    <3>1. Add(cache, size, key) = one \o front
      BY <1>2, <2>3, Zenon DEF Add, one
    <3>2. front \in Seq(K) /\ (Contains(front, k) => Contains(cache, k))
      BY <2>1, <2>3, ContainsSubSeq
    <3> HIDE DEF front
    <3> QED BY <1>0, <3>1, <3>2, ContainsConcat
  <2> QED BY <2>2, <2>3
<1> QED BY <1>1, <1>2

(* The places of a handler that has a message. *)
Working == {"failed", "filter", "lookup", "update", "cached", "seen", "count", "multiple"}

(* A handler that is not idle holds a message. *)
LEMMA BusyHandler ==
    ASSUME TypeOK, NEW p \in Partition, handler[p].pc # "idle"
    PROVE  handler[p] \in Busy
<1>1. handler[p] \in {Idle} \cup Busy
  BY Zenon DEF TypeOK
<1>2. Idle.pc = "idle"
  BY DEF Idle
<1> QED BY <1>1, <1>2, Zenon

(* The types of what it holds. *)
LEMMA BusyFields ==
    ASSUME NEW h \in Busy
    PROVE  /\ h.pc \in Working
           /\ h.msg \in Announcement
           /\ h.before \subseteq Registration
           /\ h.uncached \subseteq Txid /\ h.cached \subseteq Txid
           /\ h.found \subseteq Registration
           /\ h.todo \subseteq Url \cup Txid
           /\ h.reached \subseteq Txid
BY DEF Busy, Working

(* A registration is a txid and a URL. *)
LEMMA PairFields == \A r \in Registration : r[1] \in Txid /\ r[2] \in Url /\ r = <<r[1], r[2]>>
BY DEF Registration

(* The txids and the URLs of a set of registrations. *)
LEMMA DerivedSets ==
    ASSUME NEW found \in SUBSET Registration
    PROVE  TxidsOf(found) \subseteq Txid /\ UrlsOf(found) \subseteq Url
BY PairFields DEF TxidsOf, UrlsOf

(* A BatchGet returns registrations. *)
LEMMA StoreReads ==
    ASSUME TypeOK, NEW txids PROVE RegistrationsOf(txids) \in SUBSET Registration
BY Zenon DEF TypeOK, RegistrationsOf

(* Only the handler of p changes when p takes a step. *)
LEMMA Taken ==
    ASSUME TypeOK, NEW p \in Partition, NEW h \in {Idle} \cup Busy, Holds(p, h)
    PROVE  /\ handler' \in [Partition -> {Idle} \cup Busy]
           /\ handler'[p] = h
           /\ \A q \in Partition : q # p => handler'[q] = handler[q]
BY Zenon DEF TypeOK, Holds

(* A handler that has just read its message is well typed. *)
LEMMA NewHandling ==
    ASSUME TypeOK, NEW l \in Working, NEW m \in Announcement
    PROVE  Handling(l, m) \in Busy
BY Zenon DEF Handling, Busy, Working, TypeOK

(* The updates a handler makes keep its type. *)
LEMMA BusyUpdates ==
    ASSUME NEW h \in Busy
    PROVE  /\ \A l \in Working : [h EXCEPT !.pc = l] \in Busy
           /\ \A l \in Working : \A f \in SUBSET Registration :
                  [h EXCEPT !.pc = l, !.found = f] \in Busy
           /\ \A l \in Working : \A d \in SUBSET (Url \cup Txid) :
                  [h EXCEPT !.pc = l, !.todo = d] \in Busy
           /\ \A l \in Working : \A f \in SUBSET Registration : \A d \in SUBSET (Url \cup Txid) :
                  [h EXCEPT !.pc = l, !.found = f, !.todo = d] \in Busy
           /\ \A d \in SUBSET (Url \cup Txid) : [h EXCEPT !.todo = d] \in Busy
           /\ \A d \in SUBSET (Url \cup Txid) : \A f \in SUBSET Txid :
                  [h EXCEPT !.todo = d, !.reached = f] \in Busy
<1> USE DEF Busy, Working
<1>1. \A l \in Working : [h EXCEPT !.pc = l] \in Busy
  BY Zenon
<1>2. \A l \in Working : \A f \in SUBSET Registration : [h EXCEPT !.pc = l, !.found = f] \in Busy
  BY Zenon
<1>3. \A l \in Working : \A d \in SUBSET (Url \cup Txid) : [h EXCEPT !.pc = l, !.todo = d] \in Busy
  BY Zenon
<1>4. \A l \in Working : \A f \in SUBSET Registration : \A d \in SUBSET (Url \cup Txid) :
          [h EXCEPT !.pc = l, !.found = f, !.todo = d] \in Busy
  BY ZenonT(40)
<1>5. \A d \in SUBSET (Url \cup Txid) : [h EXCEPT !.todo = d] \in Busy
  BY Zenon
<1>6. \A d \in SUBSET (Url \cup Txid) : \A f \in SUBSET Txid : [h EXCEPT !.todo = d, !.reached = f] \in Busy
  BY Zenon
<1> HIDE DEF Busy, Working
<1> QED BY <1>1, <1>2, <1>3, <1>4, <1>5, <1>6, Zenon

(* An update of one partition keeps the type of the topic. *)
LEMMA TopicStep ==
    ASSUME TypeOK, NEW p \in Partition, NEW part \in PartitionOfType(Announcement),
           topic' = [topic EXCEPT ![p] = part]
    PROVE  topic' \in [Partition -> PartitionOfType(Announcement)]
BY Zenon DEF TypeOK

(* The type of the budget. *)
Counters == [announce : Nat, fault : Nat, crash : Nat, evict : Nat]

(* Spending the budget keeps its type. *)
LEMMA Spent ==
    ASSUME TypeOK
    PROVE  /\ Works \/ Fails => budget' \in Counters
           /\ [budget EXCEPT !.announce = @ + 1] \in Counters
           /\ [budget EXCEPT !.crash = @ + 1] \in Counters
           /\ [budget EXCEPT !.evict = @ + 1] \in Counters
<1>1. budget \in Counters
  BY Zenon DEF TypeOK, Counters
<1> QED BY <1>1 DEF Works, Fails, Counters

(* Every step keeps the types. *)
LEMMA TypeStep == ASSUME TypeOK, [Next]_vars PROVE TypeOK'
<1> USE FetcherAssumption
<1>1. ASSUME NEW r \in Watched, AddRegistration(r) PROVE TypeOK'
  <2>1. r \in Registration
    BY Zenon
  <2>2. registrations' \subseteq Registration /\ watching' \subseteq Registration
    BY <1>1, <2>1, Zenon DEF AddRegistration, WithRegistration, TypeOK
  <2>3. budget' \in Counters
    BY <1>1, Spent, Zenon DEF AddRegistration
  <2> QED BY <1>1, <2>2, <2>3, Zenon DEF TypeOK, Counters, AddRegistration, history
<1>2. ASSUME NEW r \in Watched, AddUrl(r) PROVE TypeOK'
  <2>1. r \in Registration /\ r[2] \in Url
    BY PairFields, Zenon
  <2>2. /\ urlRegistry' \subseteq Url /\ watching' \subseteq Registration
        /\ accepted' \subseteq Registration
    BY <1>2, <2>1, Zenon DEF AddUrl, WithUrl, TypeOK
  <2>3. budget' \in Counters
    BY <1>2, Spent, Zenon DEF AddUrl
  <2> QED BY <1>2, <2>2, <2>3, Zenon DEF TypeOK, Counters, AddUrl
<1>3. ASSUME NEW s \in Subtree, Announce(s) PROVE TypeOK'
  <2>1. [hash |-> s, attemptCount |-> 0] \in Announcement
    BY DEF Announcement
  <2>2. topic' \in [Partition -> PartitionOfType(Announcement)]
    BY <1>3, <2>1, PartitionTypes, Zenon DEF TypeOK, Announce
  <2>3. budget' \in Counters
    BY <1>3, Spent, Zenon DEF Announce
  <2> QED BY <1>3, <2>2, <2>3, Zenon DEF TypeOK, Counters, Announce, stores, history
<1>4. ASSUME NEW p \in Partition, ReadSubtree(p) PROVE TypeOK'
  <2> DEFINE m == Message(topic[p])
  <2>1. m \in Announcement /\ m.hash \in Subtree
    <3>1. m \in Announcement
      BY <1>4, PartitionTypes, Zenon DEF TypeOK, ReadSubtree
    <3> QED BY <3>1 DEF Announcement
  <2>2. Kept(m.hash) \subseteq Subtree
    BY <2>1, SMTT(30) DEF Kept, TypeOK
  <2>3. Marked(topic[p]) \in PartitionOfType(Announcement)
    BY PartitionTypes, Zenon DEF TypeOK
  <2>4. Add(dedupCache, DedupSize, m.hash) \in Seq(Subtree)
    BY <2>1, AddType, ZenonT(40) DEF TypeOK
  <2>5. Handling("failed", m) \in Busy /\ Handling("filter", m) \in Busy
    BY <2>1, NewHandling DEF Working
  <2> HIDE DEF m
  <2>6. handler' \in [Partition -> {Idle} \cup Busy]
    BY <1>4, <2>5, Zenon DEF TypeOK, ReadSubtree, Completed, Holds, m
  <2>7. topic' \in [Partition -> PartitionOfType(Announcement)]
    BY <1>4, <2>3, Zenon DEF TypeOK, ReadSubtree, Completed, m
  <2>8. dedupCache' \in Seq(Subtree) /\ stored' \subseteq Subtree
    BY <1>4, <2>2, <2>4, Zenon DEF TypeOK, ReadSubtree, Completed, m
  <2>9. processed' \in [Subtree -> Nat] /\ budget' \in Counters
    <3>1. processed \in [Subtree -> Nat] /\ [processed EXCEPT ![m.hash] = @ + 1] \in [Subtree -> Nat]
      <4>1. processed \in [Subtree -> Nat]
        BY Zenon DEF TypeOK
      <4> QED BY <2>1, <4>1
    <3> QED BY <1>4, <3>1, Spent, Zenon DEF ReadSubtree, Completed, m
  <2> QED BY <1>4, <2>6, <2>7, <2>8, <2>9, Zenon DEF TypeOK, Counters, ReadSubtree
<1>5. ASSUME NEW p \in Partition, FilterUncached(p) PROVE TypeOK'
  <2>1. handler[p] \in Busy
    BY <1>5, BusyHandler DEF FilterUncached, At
  <2>2. Txids[handler[p].msg.hash] \subseteq Txid
    BY <2>1 DEF Busy, Announcement
  <2>3. handler' \in [Partition -> {Idle} \cup Busy]
    BY <1>5, <2>1, <2>2, ZenonT(40) DEF FilterUncached, Holds, TypeOK, Busy
  <2> QED BY <1>5, <2>3, Zenon DEF TypeOK, Counters, FilterUncached, stores, history
<1>6. ASSUME NEW p \in Partition, LookupUncached(p) PROVE TypeOK'
  <2>1. handler[p] \in Busy
    BY <1>6, BusyHandler DEF LookupUncached, At
  <2>2. handler' \in [Partition -> {Idle} \cup Busy]
    <3>1. Goto(p, "failed") => handler' \in [Partition -> {Idle} \cup Busy]
      BY <2>1, BusyUpdates, Taken, Zenon DEF Goto, Working
    <3>2. [handler[p] EXCEPT !.pc = "update", !.found = RegistrationsOf(handler[p].uncached)]
              \in Busy
      BY <2>1, BusyUpdates, StoreReads, Zenon DEF Working
    <3> QED BY <1>6, <3>1, <3>2, Taken, Zenon DEF LookupUncached
  <2>3. budget' \in Counters
    BY <1>6, Spent, Zenon DEF LookupUncached
  <2> QED BY <1>6, <2>2, <2>3, Zenon DEF TypeOK, Counters, LookupUncached, stores, history
<1>7. ASSUME NEW p \in Partition, UpdateCache(p) PROVE TypeOK'
  <2>1. handler[p] \in Busy
    BY <1>7, BusyHandler DEF UpdateCache, At
  <2>2. handler' \in [Partition -> {Idle} \cup Busy]
    BY <1>7, <2>1, Zenon DEF UpdateCache, Holds, Goto, TypeOK, Busy
  <2>3. notFound' \subseteq Txid
    BY <1>7, <2>1, BusyFields DEF UpdateCache, TypeOK
  <2>4. regCache' \in [Txid -> {"none", "registered", "notRegistered"}]
    BY <1>7, Zenon DEF UpdateCache, TypeOK, SetMultiRegistered, SetMultiNotRegistered
  <2> QED BY <1>7, <2>2, <2>3, <2>4, Zenon DEF TypeOK, Counters, UpdateCache, stores
<1>8. ASSUME NEW p \in Partition, LookupCached(p) PROVE TypeOK'
  <2>1. handler[p] \in Busy
    BY <1>8, BusyHandler DEF LookupCached, At
  <2>2. /\ CallbackURLs(p) \subseteq Registration
        /\ UrlsOf(CallbackURLs(p)) \subseteq Url \cup Txid
        /\ UrlsOf(handler[p].found) \subseteq Url \cup Txid
    BY <2>1, BusyFields, StoreReads, DerivedSets DEF CallbackURLs
  <2>3. handler' \in [Partition -> {Idle} \cup Busy]
    <3>1. /\ [handler[p] EXCEPT !.pc = "seen", !.found = CallbackURLs(p),
                                !.todo = UrlsOf(CallbackURLs(p))] \in Busy
          /\ [handler[p] EXCEPT !.pc = "seen", !.todo = UrlsOf(handler[p].found)] \in Busy
      BY <2>1, <2>2, BusyUpdates, Zenon DEF Working
    <3> QED BY <1>8, <3>1, Taken, Zenon DEF LookupCached
  <2>4. lost' \subseteq Subtree \X Txid \X Url
    BY <1>8, <2>1, BusyFields, SMTT(30) DEF LookupCached, TypeOK, Announcement
  <2>5. budget' \in Counters
    BY <1>8, Spent, Zenon DEF LookupCached
  <2> QED BY <1>8, <2>3, <2>4, <2>5, Zenon DEF TypeOK, Counters, LookupCached, stores
<1>9. ASSUME NEW p \in Partition, NEW u \in Url, PublishSeen(p, u) PROVE TypeOK'
  <2>1. handler[p] \in Busy
    BY <1>9, BusyHandler DEF PublishSeen, At
  <2>2. handler' \in [Partition -> {Idle} \cup Busy]
    BY <1>9, <2>1, Zenon DEF PublishSeen, Holds, TypeOK, Busy
  <2>3. Batch(p, u) \subseteq Subtree \X Txid \X Url
    BY <2>1, BusyFields, PairFields DEF Batch, Announcement
  <2>4. onNetwork' \subseteq Subtree \X Txid \X Url /\ lost' \subseteq Subtree \X Txid \X Url
    BY <1>9, <2>3, Zenon DEF PublishSeen, TypeOK
  <2>5. budget' \in Counters
    BY <1>9, Spent, Zenon DEF PublishSeen
  <2> QED BY <1>9, <2>2, <2>4, <2>5, Zenon DEF TypeOK, Counters, PublishSeen, stores
<1>10. ASSUME NEW p \in Partition, CountTxids(p) PROVE TypeOK'
  <2>1. handler[p] \in Busy
    BY <1>10, BusyHandler DEF CountTxids, At
  <2>2. TxidsOf(handler[p].found) \subseteq Url \cup Txid
    BY <2>1, BusyFields, DerivedSets
  <2>3. handler' \in [Partition -> {Idle} \cup Busy]
    BY <1>10, <2>1, <2>2, Zenon DEF CountTxids, Holds, TypeOK, Busy
  <2> QED BY <1>10, <2>3, Zenon DEF TypeOK, Counters, CountTxids, stores, history
<1>11. ASSUME NEW p \in Partition, NEW t \in Txid, Increment(p, t) PROVE TypeOK'
  <2>1. handler[p] \in Busy
    BY <1>11, BusyHandler DEF Increment, At
  <2>2. handler' \in [Partition -> {Idle} \cup Busy]
    <3>1. /\ handler[p].todo \ {t} \in SUBSET (Url \cup Txid)
          /\ handler[p].reached \in SUBSET Txid /\ handler[p].reached \cup {t} \in SUBSET Txid
      BY <2>1, BusyFields, Zenon
    <3>2. /\ [handler[p] EXCEPT !.todo = @ \ {t}] \in Busy
          /\ [handler[p] EXCEPT !.todo = @ \ {t}, !.reached = @ \cup {t}] \in Busy
          /\ [handler[p] EXCEPT !.todo = @ \ {t}, !.reached = @] \in Busy
      BY <2>1, <3>1, BusyUpdates, Zenon
    <3> QED BY <1>11, <3>2, Taken, Zenon DEF Increment
  <2>3. handler[p].msg.hash \in Subtree
    BY <2>1, BusyFields DEF Announcement
  <2>4. seen' \in [Txid -> SUBSET Subtree] /\ fired' \subseteq Txid
    <3>1. seen[t] \cup {handler[p].msg.hash} \in SUBSET Subtree
      BY <2>3, Zenon DEF TypeOK
    <3>2. [seen EXCEPT ![t] = seen[t] \cup {handler[p].msg.hash}] \in [Txid -> SUBSET Subtree]
      BY <3>1, Zenon DEF TypeOK
    <3>3. fired \cup {t} \subseteq Txid /\ fired \subseteq Txid /\ seen \in [Txid -> SUBSET Subtree]
      BY Zenon DEF TypeOK
    <3> QED BY <1>11, <3>2, <3>3, Zenon DEF Increment
  <2>5. budget' \in Counters
    BY <1>11, Spent, Zenon DEF Increment
  <2> QED BY <1>11, <2>2, <2>4, <2>5, Zenon DEF TypeOK, Counters, Increment, history
<1>12. ASSUME NEW p \in Partition, GroupReached(p) PROVE TypeOK'
  <2>1. handler[p] \in Busy
    BY <1>12, BusyHandler DEF GroupReached, At
  <2>2. UrlsOf({r \in handler[p].found : r[1] \in handler[p].reached}) \subseteq Url \cup Txid
    BY <2>1, BusyFields, DerivedSets
  <2>3. handler' \in [Partition -> {Idle} \cup Busy]
    BY <1>12, <2>1, <2>2, Zenon DEF GroupReached, Holds, TypeOK, Busy
  <2> QED BY <1>12, <2>3, Zenon DEF TypeOK, Counters, GroupReached, stores, history
<1>13. ASSUME NEW p \in Partition, NEW u \in Url, PublishMultiple(p, u) PROVE TypeOK'
  <2>1. handler[p] \in Busy
    BY <1>13, BusyHandler DEF PublishMultiple, At
  <2>2. handler' \in [Partition -> {Idle} \cup Busy]
    BY <1>13, <2>1, Zenon DEF PublishMultiple, Holds, TypeOK, Busy
  <2>3. multiple' \in [Registration -> Nat]
    <3>1. \A r \in Registration : multiple[r] \in Nat /\ multiple[r] + 1 \in Nat
      BY SMTT(30) DEF TypeOK
    <3>2. multiple \in [Registration -> Nat]
      BY Zenon DEF TypeOK
    <3> QED BY <1>13, <3>1, <3>2, Zenon DEF PublishMultiple
  <2>4. budget' \in Counters
    BY <1>13, Spent, Zenon DEF PublishMultiple
  <2> QED BY <1>13, <2>2, <2>3, <2>4, Zenon DEF TypeOK, Counters, PublishMultiple, stores
<1>14. ASSUME NEW p \in Partition, FinishSubtree(p) PROVE TypeOK'
  <2> DEFINE s == handler[p].msg.hash
  <2>1. s \in Subtree
    BY <1>14, BusyHandler, BusyFields DEF FinishSubtree, At, Announcement
  <2>2. Marked(topic[p]) \in PartitionOfType(Announcement)
    BY PartitionTypes, Zenon DEF TypeOK
  <2>3. Add(dedupCache, DedupSize, s) \in Seq(Subtree)
    BY Zenon, <2>1, AddType DEF TypeOK
  <2> HIDE DEF s
  <2>4. /\ handler' \in [Partition -> {Idle} \cup Busy]
        /\ topic' \in [Partition -> PartitionOfType(Announcement)]
        /\ dedupCache' \in Seq(Subtree)
    BY <1>14, <2>2, <2>3, Zenon DEF TypeOK, FinishSubtree, Completed, Holds, s
  <2>5. processed' \in [Subtree -> Nat]
    <3>1. [processed EXCEPT ![s] = @ + 1] \in [Subtree -> Nat]
      BY <2>1, SMTT(30) DEF TypeOK
    <3> QED BY <1>14, <3>1, Zenon DEF FinishSubtree, Completed, s
  <2> QED BY <1>14, <2>4, <2>5, Zenon DEF TypeOK, Counters, FinishSubtree, stores
<1>15. ASSUME NEW p \in Partition, handleTransientFailure(p) PROVE TypeOK'
  <2> DEFINE m == [handler[p].msg EXCEPT !.attemptCount = @ + 1]
  <2>1. handler[p].msg \in Announcement
    BY <1>15, BusyHandler, BusyFields DEF handleTransientFailure, At
  <2>2. m \in Announcement
    BY <2>1 DEF Announcement
  <2> HIDE DEF m
  <2>3. /\ Marked(topic[p]) \in PartitionOfType(Announcement)
        /\ Skipped(topic[p]) \in PartitionOfType(Announcement)
        /\ Marked(Published(topic[p], m)) \in PartitionOfType(Announcement)
    BY <2>2, PartitionTypes, Zenon DEF TypeOK
  <2>4. /\ handler' \in [Partition -> {Idle} \cup Busy]
        /\ topic' \in [Partition -> PartitionOfType(Announcement)]
        /\ dlq' \subseteq Announcement
    <3>1. dlq \subseteq Announcement /\ dlq \cup {m} \subseteq Announcement
      BY <2>2, Zenon DEF TypeOK
    <3>2. handler' \in [Partition -> {Idle} \cup Busy]
      BY <1>15, Taken, Zenon DEF handleTransientFailure
    <3>3. \/ topic' = [topic EXCEPT ![p] = Marked(topic[p])]
          \/ topic' = [topic EXCEPT ![p] = Skipped(topic[p])]
          \/ topic' = [topic EXCEPT ![p] = Marked(Published(topic[p], m))]
      BY <1>15, Zenon DEF handleTransientFailure, HandedOff, m
    <3>4. topic' \in [Partition -> PartitionOfType(Announcement)]
      BY <2>3, <3>3, TopicStep, Zenon
    <3>5. dlq' = dlq \/ dlq' = dlq \cup {m}
      BY <1>15, ZenonT(40) DEF handleTransientFailure, HandedOff, m
    <3> QED BY <3>1, <3>2, <3>4, <3>5, Zenon
  <2>5. topic[p].next \in Nat \ {0}
    BY PartitionOffsets DEF TypeOK
  <2>6. unhandled' \subseteq Partition \X (Nat \ {0})
    <3>1. unhandled \subseteq Partition \X (Nat \ {0})
      BY Zenon DEF TypeOK
    <3>2. <<p, topic[p].next>> \in Partition \X (Nat \ {0})
      BY <2>5
    <3>3. unhandled' = unhandled \/ unhandled' = unhandled \cup {<<p, topic[p].next>>}
      BY <1>15, Zenon DEF handleTransientFailure
    <3> QED BY <3>1, <3>2, <3>3, Zenon
  <2>7. budget' \in Counters
    BY <1>15, Spent, Zenon DEF handleTransientFailure
  <2> QED BY <1>15, <2>4, <2>6, <2>7, Zenon DEF TypeOK, Counters, handleTransientFailure
<1>16. ASSUME NEW p \in Partition, Commit(p) PROVE TypeOK'
  <2>1. Committed(topic[p]) \in PartitionOfType(Announcement)
    BY PartitionTypes, Zenon DEF TypeOK
  <2> QED BY <1>16, <2>1, Zenon DEF TypeOK, Counters, Commit, stores, history
<1>17. ASSUME NEW t \in Txid, Evict(t) PROVE TypeOK'
  <2>1. regCache' \in [Txid -> {"none", "registered", "notRegistered"}]
    BY <1>17, Zenon DEF Evict, TypeOK
  <2>2. budget' \in Counters
    BY <1>17, Spent, Zenon DEF Evict
  <2> QED BY <1>17, <2>1, <2>2, Zenon DEF TypeOK, Counters, Evict, stores, history
<1>18. CASE Crash
  <2>1. \A p \in Partition : Rejoined(topic[p]) \in PartitionOfType(Announcement)
    BY PartitionTypes, Zenon DEF TypeOK
  <2>2. budget' \in Counters
    BY <1>18, Spent, Zenon DEF Crash
  <2>3. dedupCache' \in Seq(Subtree) /\ processed' \in [Subtree -> Nat]
    BY <1>18 DEF Crash
  <2> QED BY <1>18, <2>1, <2>2, <2>3, Zenon DEF TypeOK, Counters, Crash, stores
<1>19. CASE UNCHANGED vars
  BY <1>19, Zenon DEF TypeOK, vars, stores, history
<1> QED BY <1>1, <1>2, <1>3, <1>4, <1>5, <1>6, <1>7, <1>8, <1>9, <1>10, <1>11, <1>12,
           <1>13, <1>14, <1>15, <1>16, <1>17, <1>18, <1>19, Zenon
        DEF Next, FetcherStep, Quiescent

-----------------------------------------------------------------------------
(* What a step does to its handler.                                        *)

(* Record g is handler h with these values. *)
Updated(g, h, pc, uncached, cached, found, todo, reached) ==
    /\ g.pc = pc /\ g.msg = h.msg /\ g.before = h.before
    /\ g.uncached = uncached /\ g.cached = cached
    /\ g.found = found /\ g.todo = todo /\ g.reached = reached

(* The updates of the model, field by field. *)
LEMMA Updates ==
    ASSUME NEW h \in Busy
    PROVE  /\ \A l : Updated([h EXCEPT !.pc = l], h, l,
                             h.uncached, h.cached, h.found, h.todo, h.reached)
           /\ \A l, f : Updated([h EXCEPT !.pc = l, !.found = f], h, l,
                                h.uncached, h.cached, f, h.todo, h.reached)
           /\ \A l, d : Updated([h EXCEPT !.pc = l, !.todo = d], h, l,
                                h.uncached, h.cached, h.found, d, h.reached)
           /\ \A l, f, d : Updated([h EXCEPT !.pc = l, !.found = f, !.todo = d], h, l,
                                   h.uncached, h.cached, f, d, h.reached)
           /\ \A l, u, c : Updated([h EXCEPT !.pc = l, !.uncached = u, !.cached = c], h, l,
                                   u, c, h.found, h.todo, h.reached)
           /\ \A d : Updated([h EXCEPT !.todo = d], h, h.pc,
                             h.uncached, h.cached, h.found, d, h.reached)
           /\ \A d, f : Updated([h EXCEPT !.todo = d, !.reached = f], h, h.pc,
                                h.uncached, h.cached, h.found, d, f)
<1> USE DEF Busy, Updated
<1>1. \A l : Updated([h EXCEPT !.pc = l], h, l,
                     h.uncached, h.cached, h.found, h.todo, h.reached)
  OBVIOUS
<1>2. \A l, f : Updated([h EXCEPT !.pc = l, !.found = f], h, l,
                        h.uncached, h.cached, f, h.todo, h.reached)
  OBVIOUS
<1>3. \A l, d : Updated([h EXCEPT !.pc = l, !.todo = d], h, l,
                        h.uncached, h.cached, h.found, d, h.reached)
  OBVIOUS
<1>4. \A l, f, d : Updated([h EXCEPT !.pc = l, !.found = f, !.todo = d], h, l,
                           h.uncached, h.cached, f, d, h.reached)
  OBVIOUS
<1>5. \A l, u, c : Updated([h EXCEPT !.pc = l, !.uncached = u, !.cached = c], h, l,
                           u, c, h.found, h.todo, h.reached)
  OBVIOUS
<1>6. \A d : Updated([h EXCEPT !.todo = d], h, h.pc,
                     h.uncached, h.cached, h.found, d, h.reached)
  OBVIOUS
<1>7. \A d, f : Updated([h EXCEPT !.todo = d, !.reached = f], h, h.pc,
                        h.uncached, h.cached, h.found, d, f)
  OBVIOUS
<1> HIDE DEF Busy, Updated
<1> QED BY <1>1, <1>2, <1>3, <1>4, <1>5, <1>6, <1>7, Zenon

(* The handler of p has been at pc and becomes what is said; the others stay. *)
Becomes(p, pc, uncached, cached, found, todo, reached) ==
    /\ handler[p] \in Busy /\ handler'[p] \in Busy
    /\ Updated(handler'[p], handler[p], pc, uncached, cached, found, todo, reached)
    /\ \A q \in Partition : q # p => handler'[q] = handler[q]

(* What the handler of p becomes by each form of update. *)
LEMMA Steps ==
    ASSUME TypeOK, TypeOK', NEW p \in Partition, handler[p].pc # "idle"
    PROVE  LET h == handler[p] IN
           /\ \A l \in Working : Goto(p, l) =>
                  Becomes(p, l, h.uncached, h.cached, h.found, h.todo, h.reached)
           /\ \A l \in Working : \A f :
                  Holds(p, [handler[p] EXCEPT !.pc = l, !.found = f]) =>
                  Becomes(p, l, h.uncached, h.cached, f, h.todo, h.reached)
           /\ \A l \in Working : \A d :
                  Holds(p, [handler[p] EXCEPT !.pc = l, !.todo = d]) =>
                  Becomes(p, l, h.uncached, h.cached, h.found, d, h.reached)
           /\ \A l \in Working : \A f, d :
                  Holds(p, [handler[p] EXCEPT !.pc = l, !.found = f, !.todo = d]) =>
                  Becomes(p, l, h.uncached, h.cached, f, d, h.reached)
           /\ \A l \in Working : \A u, c :
                  Holds(p, [handler[p] EXCEPT !.pc = l, !.uncached = u, !.cached = c]) =>
                  Becomes(p, l, u, c, h.found, h.todo, h.reached)
           /\ \A d : Holds(p, [handler[p] EXCEPT !.todo = d]) =>
                  Becomes(p, h.pc, h.uncached, h.cached, h.found, d, h.reached)
           /\ \A d, f : Holds(p, [handler[p] EXCEPT !.todo = d, !.reached = f]) =>
                  Becomes(p, h.pc, h.uncached, h.cached, h.found, d, f)
<1>1. handler[p] \in Busy
  BY BusyHandler
<1>2. ASSUME NEW g, Holds(p, g), g.pc # "idle"
      PROVE  handler'[p] = g /\ g \in Busy /\ \A q \in Partition : q # p => handler'[q] = handler[q]
  <2>1. handler'[p] = g /\ \A q \in Partition : q # p => handler'[q] = handler[q]
    BY <1>2, Zenon DEF Holds, TypeOK
  <2>2. handler'[p] \in {Idle} \cup Busy
    BY Zenon DEF TypeOK
  <2>3. Idle.pc = "idle"
    BY DEF Idle
  <2> QED BY <1>2, <2>1, <2>2, <2>3, Zenon
<1>3. "idle" \notin Working
  BY DEF Working
<1>4. ASSUME NEW g, Holds(p, g), NEW l, l # "idle", NEW u, NEW c, NEW f, NEW d, NEW e,
             Updated(g, handler[p], l, u, c, f, d, e)
      PROVE  Becomes(p, l, u, c, f, d, e)
  BY <1>1, <1>2, <1>4, Zenon DEF Becomes, Updated
<1> QED BY <1>1, <1>3, <1>4, Updates, Zenon DEF Goto

(* What the actions of a busy handler make of it. *)
LEMMA Effects ==
    ASSUME TypeOK, TypeOK', NEW p \in Partition
    PROVE  LET h == handler[p]
               s == handler[p].msg.hash IN
           /\ FilterUncached(p) =>
                  Becomes(p, "lookup", {t \in Txids[s] : regCache[t] = "none"},
                          {t \in Txids[s] : regCache[t] = "registered"},
                          h.found, h.todo, h.reached)
           /\ LookupUncached(p) =>
                  \/ Becomes(p, "update", h.uncached, h.cached, RegistrationsOf(h.uncached),
                             h.todo, h.reached)
                  \/ Becomes(p, "failed", h.uncached, h.cached, h.found, h.todo, h.reached)
           /\ UpdateCache(p) =>
                  Becomes(p, "cached", h.uncached, h.cached, h.found, h.todo, h.reached)
           /\ LookupCached(p) =>
                  \/ /\ Becomes(p, "seen", h.uncached, h.cached, CallbackURLs(p),
                                UrlsOf(CallbackURLs(p)), h.reached)
                     /\ UNCHANGED lost
                  \/ /\ Becomes(p, "seen", h.uncached, h.cached, h.found, UrlsOf(h.found),
                                h.reached)
                     /\ lost' = lost \cup ({s} \X h.cached \X Url)
           /\ \A u \in Url : PublishSeen(p, u) =>
                  Becomes(p, "seen", h.uncached, h.cached, h.found, h.todo \ {u}, h.reached)
           /\ CountTxids(p) =>
                  Becomes(p, "count", h.uncached, h.cached, h.found, TxidsOf(h.found), h.reached)
           /\ \A t \in Txid : Increment(p, t) =>
                  \E e : /\ Becomes(p, "count", h.uncached, h.cached, h.found, h.todo \ {t}, e)
                         /\ \/ e = h.reached
                            \/ e = h.reached \cup {t} /\ t \notin fired /\ t \in fired'
           /\ GroupReached(p) =>
                  Becomes(p, "multiple", h.uncached, h.cached, h.found,
                          UrlsOf({r \in h.found : r[1] \in h.reached}), h.reached)
           /\ \A u \in Url : PublishMultiple(p, u) =>
                  Becomes(p, "multiple", h.uncached, h.cached, h.found, h.todo \ {u}, h.reached)
<1> USE Steps DEF At, Working
<1> DEFINE h == handler[p]
<1>1. FilterUncached(p) =>
          Becomes(p, "lookup", {t \in Txids[h.msg.hash] : regCache[t] = "none"},
                  {t \in Txids[h.msg.hash] : regCache[t] = "registered"}, h.found, h.todo, h.reached)
  BY Zenon DEF FilterUncached
<1>2. LookupUncached(p) =>
          \/ Becomes(p, "update", h.uncached, h.cached, RegistrationsOf(h.uncached), h.todo, h.reached)
          \/ Becomes(p, "failed", h.uncached, h.cached, h.found, h.todo, h.reached)
  BY Zenon DEF LookupUncached
<1>3. UpdateCache(p) => Becomes(p, "cached", h.uncached, h.cached, h.found, h.todo, h.reached)
  BY Zenon DEF UpdateCache
<1>4. LookupCached(p) =>
          \/ /\ Becomes(p, "seen", h.uncached, h.cached, CallbackURLs(p), UrlsOf(CallbackURLs(p)),
                        h.reached)
             /\ UNCHANGED lost
          \/ /\ Becomes(p, "seen", h.uncached, h.cached, h.found, UrlsOf(h.found), h.reached)
             /\ lost' = lost \cup ({h.msg.hash} \X h.cached \X Url)
  BY Zenon DEF LookupCached
<1>5. \A u \in Url : PublishSeen(p, u) =>
          Becomes(p, "seen", h.uncached, h.cached, h.found, h.todo \ {u}, h.reached)
  BY Zenon DEF PublishSeen
<1>6. CountTxids(p) =>
          Becomes(p, "count", h.uncached, h.cached, h.found, TxidsOf(h.found), h.reached)
  BY Zenon DEF CountTxids
<1>7. ASSUME NEW t \in Txid, Increment(p, t)
      PROVE  \E e : /\ Becomes(p, "count", h.uncached, h.cached, h.found, h.todo \ {t}, e)
                    /\ \/ e = h.reached
                       \/ e = h.reached \cup {t} /\ t \notin fired /\ t \in fired'
  <2> DEFINE fires == Reaches(t, seen[t] \cup {h.msg.hash})
             e == IF fires THEN h.reached \cup {t} ELSE h.reached
  <2>1. h.pc = "count" /\ h.pc # "idle"
    BY <1>7, Zenon DEF Increment
  <2>2. CASE Holds(p, [handler[p] EXCEPT !.todo = h.todo \ {t}])
    BY <2>1, <2>2, Zenon
  <2>3. CASE /\ Holds(p, [handler[p] EXCEPT !.todo = h.todo \ {t}, !.reached = e])
             /\ fired' = IF fires THEN fired \cup {t} ELSE fired
    <3>1. Becomes(p, "count", h.uncached, h.cached, h.found, h.todo \ {t}, e)
      BY <2>1, <2>3, Zenon
    <3>2. \/ e = h.reached
          \/ e = h.reached \cup {t} /\ t \notin fired /\ t \in fired'
      BY <2>3, Zenon DEF Reaches
    <3> QED BY <3>1, <3>2, Zenon
  <2> QED BY <1>7, <2>2, <2>3, Zenon DEF Increment
<1>8. GroupReached(p) =>
          Becomes(p, "multiple", h.uncached, h.cached, h.found,
                  UrlsOf({r \in h.found : r[1] \in h.reached}), h.reached)
  BY Zenon DEF GroupReached
<1>9. \A u \in Url : PublishMultiple(p, u) =>
          Becomes(p, "multiple", h.uncached, h.cached, h.found, h.todo \ {u}, h.reached)
  BY Zenon DEF PublishMultiple
<1> QED BY <1>1, <1>2, <1>3, <1>4, <1>5, <1>6, <1>7, <1>8, <1>9, Zenon

(* The handler of p goes on with its message. *)
Continues(p) ==
    /\ \E l, u, c, f, d, e : Becomes(p, l, u, c, f, d, e)
    /\ UNCHANGED <<topic, dlq, processed, dedupCache, unhandled>>

(* The steps as the messages see them. *)
LEMMA Kinds ==
    ASSUME TypeOK, TypeOK', [Next]_vars
    PROVE  \/ UNCHANGED <<topic, handler, dlq, processed, dedupCache, unhandled>>
           \/ \E s \in Subtree : Announce(s)
           \/ \E p \in Partition :
                  Commit(p) \/ Continues(p) \/ ReadSubtree(p) \/ FinishSubtree(p)
                  \/ handleTransientFailure(p)
           \/ Crash
<1>1. ASSUME NEW p \in Partition,
             \/ FilterUncached(p) \/ LookupUncached(p) \/ UpdateCache(p) \/ LookupCached(p)
             \/ \E u \in Url : PublishSeen(p, u) \/ PublishMultiple(p, u)
             \/ CountTxids(p) \/ GroupReached(p) \/ \E t \in Txid : Increment(p, t)
      PROVE  Continues(p)
  <2>1. UNCHANGED <<topic, dlq, processed, dedupCache, unhandled>>
    BY <1>1, Zenon DEF FilterUncached, LookupUncached, UpdateCache, LookupCached,
       PublishSeen, PublishMultiple, CountTxids, GroupReached, Increment, stores, history
  <2> QED BY <1>1, <2>1, Effects, Zenon DEF Continues
<1>2. ASSUME NEW r \in Watched, AddRegistration(r) \/ AddUrl(r)
      PROVE  UNCHANGED <<topic, handler, dlq, processed, dedupCache, unhandled>>
  BY <1>2, Zenon DEF AddRegistration, AddUrl, history
<1>3. ASSUME NEW t \in Txid, Evict(t)
      PROVE  UNCHANGED <<topic, handler, dlq, processed, dedupCache, unhandled>>
  BY <1>3, Zenon DEF Evict, stores, history
<1>4. CASE UNCHANGED vars
  BY <1>4, Zenon DEF vars, stores, history
<1> QED BY <1>1, <1>2, <1>3, <1>4, Zenon DEF Next, FetcherStep, Quiescent

-----------------------------------------------------------------------------
(* The messages.                                                           *)

(* A handler works on the message its session is at. *)
AtMessage ==
    \A p \in Partition : handler[p].pc # "idle" =>
        HasMessage(topic[p]) /\ handler[p].msg = Message(topic[p])

(* A message is on the partition of its hash. *)
Keyed ==
    \A p \in Partition : \A n \in 1..Len(topic[p].log) : PartitionOf[topic[p].log[n].hash] = p

(* The log of partition p. *)
Log(p) == topic[p].log

(* The session of p is at a message of its log, or at its end. *)
LEMMA Topics ==
    ASSUME TypeOK, NEW p \in Partition
    PROVE  /\ topic[p] \in PartitionOfType(Announcement)
           /\ Log(p) \in Seq(Announcement)
           /\ topic[p].next \in Nat \ {0}
           /\ HasMessage(topic[p]) => /\ topic[p].next \in 1..Len(Log(p))
                                      /\ Message(topic[p]) = Log(p)[topic[p].next]
                                      /\ Message(topic[p]) \in Announcement
<1>1. topic[p] \in PartitionOfType(Announcement)
  BY Zenon DEF TypeOK
<1> QED BY <1>1 DEF PartitionOfType, HasMessage, Message, Log

(* What a step does to the log of a partition. *)
Extended(p, m) == Log(p)' = Append(Log(p), m)

(* A log is extended by an announcement, or by the retry of the message its handler
   failed on. *)
LEMMA LogStep ==
    ASSUME TypeOK, TypeOK', AtMessage, [Next]_vars, NEW p \in Partition
    PROVE  \/ Log(p)' = Log(p)
           \/ \E s \in Subtree : /\ p = PartitionOf[s]
                                 /\ Extended(p, [hash |-> s, attemptCount |-> 0])
           \/ /\ handleTransientFailure(p) /\ HasMessage(topic[p])
              /\ LET m == Message(topic[p])
                     n == [m EXCEPT !.attemptCount = @ + 1] IN
                 ~LastAttempt(n.attemptCount) /\ Extended(p, n)
<1> USE PartitionLogs, PartitionTypes, Topics
<1>1. CASE UNCHANGED topic
  BY <1>1, ZenonT(40) DEF Log
<1>2. ASSUME NEW s \in Subtree, Announce(s)
      PROVE  \/ Log(p)' = Log(p)
             \/ p = PartitionOf[s] /\ Extended(p, [hash |-> s, attemptCount |-> 0])
  <2> DEFINE m == [hash |-> s, attemptCount |-> 0]
  <2>1. topic' = [topic EXCEPT ![PartitionOf[s]] = Published(topic[PartitionOf[s]], m)]
    BY <1>2, Zenon DEF Announce
  <2> HIDE DEF m
  <2>2. CASE p # PartitionOf[s]
    BY <2>1, <2>2, Zenon DEF Log, TypeOK
  <2>3. CASE p = PartitionOf[s]
    BY <2>1, <2>3, ZenonT(40) DEF Log, Extended, TypeOK, m
  <2> QED BY <2>2, <2>3
<1>3. ASSUME NEW q \in Partition, Commit(q) PROVE Log(p)' = Log(p)
  BY <1>3, ZenonT(40) DEF Commit, Log, TypeOK
<1>4. ASSUME NEW q \in Partition, ReadSubtree(q) \/ FinishSubtree(q) PROVE Log(p)' = Log(p)
  <2>1. topic' = topic \/ topic' = [topic EXCEPT ![q] = Marked(topic[q])]
    BY <1>4, Zenon DEF ReadSubtree, FinishSubtree, Completed
  <2>2. topic[q] \in PartitionOfType(Announcement) /\ topic[p] \in PartitionOfType(Announcement)
    BY Zenon
  <2>3. Marked(topic[q]).log = topic[q].log
    BY <2>2, Zenon
  <2>4. CASE topic' = [topic EXCEPT ![q] = Marked(topic[q])]
    <3>1. topic'[p] = topic[p] \/ (p = q /\ topic'[p] = Marked(topic[q]))
      BY <2>4, Zenon DEF TypeOK
    <3> QED BY <2>3, <3>1, Zenon DEF Log
  <2> QED BY <2>1, <2>4, Zenon DEF Log
<1>5. CASE Crash
  BY <1>5, Zenon DEF Crash, Log, TypeOK
<1>6. ASSUME NEW q \in Partition, handleTransientFailure(q), q # p PROVE Log(p)' = Log(p)
  BY <1>6, ZenonT(40) DEF handleTransientFailure, HandedOff, Log, TypeOK
<1>7. ASSUME handleTransientFailure(p)
      PROVE  \/ Log(p)' = Log(p)
             \/ /\ HasMessage(topic[p])
                /\ LET m == Message(topic[p])
                       n == [m EXCEPT !.attemptCount = @ + 1] IN
                   ~LastAttempt(n.attemptCount) /\ Extended(p, n)
  <2> DEFINE m == Message(topic[p])
             n == [m EXCEPT !.attemptCount = @ + 1]
  <2>1. HasMessage(topic[p]) /\ handler[p].msg = m
    BY <1>7, Zenon DEF AtMessage, handleTransientFailure, At
  <2>2. n \in Announcement
    BY <2>1 DEF Announcement
  <2> HIDE DEF n
  <2>3. \/ topic' = [topic EXCEPT ![p] = Marked(topic[p])]
        \/ topic' = [topic EXCEPT ![p] = Skipped(topic[p])]
        \/ ~LastAttempt(n.attemptCount) /\ topic' = [topic EXCEPT ![p] = Marked(Published(topic[p], n))]
    BY <1>7, <2>1, Zenon DEF handleTransientFailure, HandedOff, n
  <2>4. Marked(Published(topic[p], n)).log = Append(Log(p), n)
    <3>1. Published(topic[p], n) \in PartitionOfType(Announcement)
      BY <2>2, Zenon
    <3> QED BY <3>1, ZenonT(30) DEF Log
  <2> QED BY <2>1, <2>3, <2>4, ZenonT(40) DEF Log, Extended, TypeOK, n
<1> QED BY <1>1, <1>2, <1>3, <1>4, <1>5, <1>6, <1>7, Kinds, ZenonT(40) DEF Continues

(* The elements of a log with one more message. *)
LEMMA AppendFacts ==
    ASSUME NEW M, NEW log \in Seq(M), NEW m
    PROVE  /\ Len(Append(log, m)) = Len(log) + 1
           /\ \A n \in 1..(Len(log) + 1) :
                  Append(log, m)[n] = IF n = Len(log) + 1 THEN m ELSE log[n]
OBVIOUS

(* Announcements and retries go to the partition of the hash. *)
LEMMA KeyedStep ==
    ASSUME TypeOK, TypeOK', AtMessage, Keyed, [Next]_vars PROVE Keyed'
<1> SUFFICES ASSUME NEW p \in Partition, NEW n \in 1..Len(Log(p)')
             PROVE  PartitionOf[Log(p)'[n].hash] = p
  BY DEF Keyed, Log
<1>1. Log(p) \in Seq(Announcement) /\ \A k \in 1..Len(Log(p)) : PartitionOf[Log(p)[k].hash] = p
  BY Topics, Zenon DEF Keyed, Log
<1>2. CASE Log(p)' = Log(p)
  BY <1>1, <1>2, Zenon
<1>3. ASSUME NEW m, Extended(p, m), PartitionOf[m.hash] = p
      PROVE  PartitionOf[Log(p)'[n].hash] = p
  BY <1>1, <1>3, AppendFacts DEF Extended
<1>4. ASSUME NEW s \in Subtree PROVE [hash |-> s, attemptCount |-> 0].hash = s
  OBVIOUS
<1>5. ASSUME HasMessage(topic[p])
      PROVE  PartitionOf[[Message(topic[p]) EXCEPT !.attemptCount = @ + 1].hash] = p
  BY <1>1, <1>5, Topics DEF Announcement
<1> QED BY <1>2, <1>3, <1>4, <1>5, LogStep, Zenon

(* A retry adds one to a count below the limit; the last goes to the DLQ. *)
LEMMA AttemptsStep ==
    ASSUME TypeOK, TypeOK', AtMessage, AttemptsBounded, [Next]_vars PROVE AttemptsBounded'
<1>0. AttemptLimit \in Nat \ {0}
  BY FetcherAssumption DEF AttemptLimit
<1>1. ASSUME NEW p \in Partition, NEW n \in 1..Len(Log(p)')
      PROVE  Log(p)'[n].attemptCount < AttemptLimit
  <2>1. Log(p) \in Seq(Announcement) /\ \A k \in 1..Len(Log(p)) : Log(p)[k].attemptCount < AttemptLimit
    BY Topics, Zenon DEF AttemptsBounded, Log
  <2>2. CASE Log(p)' = Log(p)
    BY <1>1, <2>1, <2>2, Zenon
  <2>3. ASSUME NEW m, Extended(p, m), m.attemptCount < AttemptLimit
        PROVE  Log(p)'[n].attemptCount < AttemptLimit
    BY <1>1, <2>1, <2>3, AppendFacts DEF Extended
  <2>4. ASSUME NEW s \in Subtree PROVE [hash |-> s, attemptCount |-> 0].attemptCount < AttemptLimit
    BY <1>0
  <2>5. ASSUME HasMessage(topic[p]),
               ~LastAttempt([Message(topic[p]) EXCEPT !.attemptCount = @ + 1].attemptCount)
        PROVE  [Message(topic[p]) EXCEPT !.attemptCount = @ + 1].attemptCount < AttemptLimit
    BY <1>0, <2>5, Topics DEF Announcement, LastAttempt
  <2> QED BY <2>2, <2>3, <2>4, <2>5, LogStep, Zenon
<1>2. ASSUME NEW m \in dlq' PROVE m.attemptCount = AttemptLimit
  <2>1. CASE m \in dlq
    BY <2>1, Zenon DEF AttemptsBounded
  <2>2. ASSUME NEW p \in Partition, handleTransientFailure(p), m \notin dlq
        PROVE  m.attemptCount = AttemptLimit
    <3> DEFINE k == handler[p].msg
    <3>1. k \in Announcement /\ k.attemptCount < AttemptLimit
      BY <2>2, Topics DEF AtMessage, handleTransientFailure, At, AttemptsBounded, Log
    <3>2. m = [k EXCEPT !.attemptCount = @ + 1] /\ LastAttempt(m.attemptCount)
      BY <1>2, <2>2, Zenon DEF handleTransientFailure, HandedOff
    <3> HIDE DEF k
    <3> QED BY <1>0, <3>1, <3>2 DEF Announcement, LastAttempt
  <2>3. CASE dlq' = dlq
    BY <1>2, <2>1, <2>3
  <2>4. ASSUME NEW p \in Partition, ReadSubtree(p) \/ FinishSubtree(p) \/ Commit(p) PROVE dlq' = dlq
    BY <2>4, Zenon DEF ReadSubtree, FinishSubtree, Commit, stores
  <2>5. ASSUME NEW s \in Subtree, Announce(s) PROVE dlq' = dlq
    BY <2>5, Zenon DEF Announce, stores
  <2>6. Crash => dlq' = dlq
    BY Zenon DEF Crash, stores
  <2> QED BY <2>1, <2>2, <2>3, <2>4, <2>5, <2>6, Kinds, Zenon DEF Continues
<1> QED BY <1>1, <1>2, Zenon DEF AttemptsBounded, Log

(* A publish behind it and a commit leave the message a session is at. *)
LEMMA SameMessage ==
    ASSUME NEW M, NEW part \in PartitionOfType(M), HasMessage(part)
    PROVE  /\ \A m \in M : /\ HasMessage(Published(part, m))
                           /\ Message(Published(part, m)) = Message(part)
           /\ HasMessage(Committed(part)) /\ Message(Committed(part)) = Message(part)
<1>1. part.next \in 1..Len(part.log) /\ part.log \in Seq(M)
  BY DEF PartitionOfType, HasMessage
<1>2. ASSUME NEW m \in M
      PROVE  /\ HasMessage(Published(part, m))
             /\ Message(Published(part, m)) = Message(part)
  <2>1. Published(part, m).log = Append(part.log, m) /\ Published(part, m).next = part.next
    BY PartitionLogs, PartitionOffsets
  <2> QED BY <1>1, <2>1 DEF HasMessage, Message
<1>3. HasMessage(Committed(part)) /\ Message(Committed(part)) = Message(part)
  BY PartitionLogs, PartitionOffsets DEF HasMessage, Message
<1> QED BY <1>2, <1>3

(* What a handler has just read. *)
LEMMA NewFields ==
    ASSUME NEW l, NEW m PROVE Handling(l, m).pc = l /\ Handling(l, m).msg = m
BY DEF Handling

(* A session does not move while its handler is at work. *)
LEMMA AtMessageStep ==
    ASSUME TypeOK, TypeOK', AtMessage, [Next]_vars PROVE AtMessage'
<1> SUFFICES ASSUME NEW p \in Partition, handler'[p].pc # "idle"
             PROVE  HasMessage(topic'[p]) /\ handler'[p].msg = Message(topic'[p])
  BY Zenon DEF AtMessage, HasMessage, Message
<1>0. Idle.pc = "idle"
  BY DEF Idle
<1>1. CASE handler'[p] = handler[p] /\ topic'[p] = topic[p]
  BY <1>1, Zenon DEF AtMessage
<1>2. ASSUME NEW s \in Subtree, Announce(s)
      PROVE  HasMessage(topic'[p]) /\ handler'[p].msg = Message(topic'[p])
  <2> DEFINE m == [hash |-> s, attemptCount |-> 0]
  <2>1. m \in Announcement
    BY DEF Announcement
  <2>2. handler' = handler /\ topic' = [topic EXCEPT ![PartitionOf[s]] = Published(topic[PartitionOf[s]], m)]
    BY <1>2, Zenon DEF Announce
  <2> HIDE DEF m
  <2>3. topic'[p] = topic[p] \/ topic'[p] = Published(topic[p], m)
    BY <2>2, Zenon DEF TypeOK
  <2>4. topic[p] \in PartitionOfType(Announcement) /\ HasMessage(topic[p])
        /\ handler[p].msg = Message(topic[p])
    BY <2>2, Topics, Zenon DEF AtMessage
  <2>5. HasMessage(Published(topic[p], m)) /\ Message(Published(topic[p], m)) = Message(topic[p])
    BY <2>1, <2>4, SameMessage, Zenon
  <2> QED BY <2>2, <2>3, <2>4, <2>5, Zenon
<1>3. ASSUME NEW q \in Partition, Commit(q)
      PROVE  HasMessage(topic'[p]) /\ handler'[p].msg = Message(topic'[p])
  <2>1. handler' = handler /\ topic' = [topic EXCEPT ![q] = Committed(topic[q])]
    BY <1>3, Zenon DEF Commit
  <2>2. topic'[p] = topic[p] \/ topic'[p] = Committed(topic[p])
    BY <2>1, Zenon DEF TypeOK
  <2>3. topic[p] \in PartitionOfType(Announcement) /\ HasMessage(topic[p])
        /\ handler[p].msg = Message(topic[p])
    BY <2>1, Topics, Zenon DEF AtMessage
  <2> QED BY <2>1, <2>2, <2>3, SameMessage, Zenon
<1>4. ASSUME NEW q \in Partition, Continues(q)
      PROVE  HasMessage(topic'[p]) /\ handler'[p].msg = Message(topic'[p])
  <2>1. topic' = topic /\ (p # q => handler'[p] = handler[p])
    BY <1>4, Zenon DEF Continues, Becomes
  <2>2. p = q => handler[p].pc \in Working /\ handler'[p].msg = handler[p].msg
    BY <1>4, BusyFields, Zenon DEF Continues, Becomes, Updated
  <2>3. "idle" \notin Working
    BY DEF Working
  <2> QED BY <1>1, <2>1, <2>2, <2>3, Zenon DEF AtMessage
<1>5. ASSUME NEW q \in Partition, ReadSubtree(q)
      PROVE  HasMessage(topic'[p]) /\ handler'[p].msg = Message(topic'[p])
  <2>1. p # q => handler'[p] = handler[p] /\ topic'[p] = topic[p]
    BY <1>5, ZenonT(40) DEF ReadSubtree, Holds, Completed, TypeOK
  <2>2. ASSUME p = q
        PROVE  \/ handler'[p] = handler[p] /\ handler[p].pc = "idle"
               \/ handler'[p] = Idle
               \/ /\ HasMessage(topic[p]) /\ topic' = topic
                  /\ \E l : handler'[p] = Handling(l, Message(topic[p]))
    BY <1>5, <2>2, ZenonT(40) DEF ReadSubtree, Holds, Completed, TypeOK, At
  <2>3. ASSUME NEW l, topic' = topic, handler'[p] = Handling(l, Message(topic[p]))
        PROVE  topic'[p] = topic[p] /\ handler'[p].msg = Message(topic[p])
    <3>1. Handling(l, Message(topic[p])).msg = Message(topic[p])
      BY NewFields
    <3> QED BY <2>3, <3>1, Zenon
  <2> QED BY <1>0, <1>1, <2>1, <2>2, <2>3, Zenon
<1>6. ASSUME NEW q \in Partition, FinishSubtree(q) \/ handleTransientFailure(q)
      PROVE  HasMessage(topic'[p]) /\ handler'[p].msg = Message(topic'[p])
  <2>1. p # q => handler'[p] = handler[p] /\ topic'[p] = topic[p]
    BY <1>6, Zenon DEF FinishSubtree, handleTransientFailure, HandedOff, Holds, Completed, TypeOK
  <2>2. p = q => handler'[p] = Idle
    BY <1>6, Zenon DEF FinishSubtree, handleTransientFailure, Holds, Completed, TypeOK
  <2> QED BY <1>0, <1>1, <2>1, <2>2, Zenon
<1>7. Crash => handler'[p] = Idle
  BY ZenonT(40) DEF Crash
<1> QED BY <1>0, <1>1, <1>2, <1>3, <1>4, <1>5, <1>6, <1>7, Kinds, ZenonT(40)

-----------------------------------------------------------------------------
(* What becomes of the messages.                                           *)

(* Only completed hashes are remembered. *)
Remembered == \A s \in Subtree : Contains(dedupCache, s) => processed[s] > 0

(* How a step without a crash may leave a message behind. *)
Settled(p, m) ==
    LET n == [m EXCEPT !.attemptCount = @ + 1] IN
    \/ processed'[m.hash] > 0
    \/ Extended(p, n)
    \/ n \in dlq'
    \/ <<p, topic[p].next>> \in unhandled'

(* The end of a subtree counts it and remembers it. *)
LEMMA CompletedFacts ==
    ASSUME TypeOK, Remembered, NEW p \in Partition, NEW s \in Subtree, Completed(p, s)
    PROVE  /\ processed'[s] > 0
           /\ \A k \in Subtree : processed'[k] >= processed[k]
           /\ \A k \in Subtree : Contains(dedupCache', k) => processed'[k] > 0
<1>1. processed' = [processed EXCEPT ![s] = processed[s] + 1] /\ processed \in [Subtree -> Nat]
  BY Zenon DEF Completed, TypeOK
<1>2. processed'[s] > 0 /\ \A k \in Subtree : processed'[k] >= processed[k]
  BY <1>1
<1>3. ASSUME NEW k \in Subtree, Contains(dedupCache', k) PROVE processed'[k] > 0
  <2>1. k = s \/ Contains(dedupCache, k)
    <3>1. dedupCache \in Seq(Subtree) /\ DedupSize \in Int
      BY FetcherAssumption, Zenon DEF TypeOK
    <3>2. dedupCache' = Add(dedupCache, DedupSize, s)
      BY Zenon DEF Completed
    <3> QED BY <1>3, <3>1, <3>2, AddContains, Zenon
  <2>2. Contains(dedupCache, k) => processed[k] > 0
    BY Zenon DEF Remembered
  <2> QED BY <1>1, <1>2, <2>1, <2>2
<1> QED BY <1>2, <1>3

(* The cache learns a hash only at the end of its subtree. *)
LEMMA RememberedStep ==
    ASSUME TypeOK, TypeOK', AtMessage, Remembered, [Next]_vars PROVE Remembered'
<1>1. CASE UNCHANGED <<processed, dedupCache>>
  BY <1>1, Zenon DEF Remembered
<1>2. ASSUME NEW p \in Partition, ReadSubtree(p) PROVE Remembered'
  <2>1. HasMessage(topic[p]) /\ Message(topic[p]).hash \in Subtree
    BY <1>2, Topics DEF ReadSubtree, Announcement
  <2>2. UNCHANGED <<processed, dedupCache>> \/ Completed(p, Message(topic[p]).hash)
    BY <1>2, Zenon DEF ReadSubtree
  <2> QED BY <1>1, <2>1, <2>2, CompletedFacts, ZenonT(40) DEF Remembered
<1>3. ASSUME NEW p \in Partition, FinishSubtree(p) PROVE Remembered'
  <2>1. handler[p].pc # "idle"
    BY <1>3 DEF FinishSubtree, At
  <2>2. handler[p].msg.hash \in Subtree
    BY <2>1, BusyHandler, BusyFields DEF Announcement
  <2> QED BY <1>3, <2>2, CompletedFacts, ZenonT(40) DEF Remembered, FinishSubtree
<1>4. CASE Crash
  <2>1. dedupCache' = <<>>
    BY <1>4, Zenon DEF Crash
  <2>2. \A s : ~Contains(<<>>, s)
    BY DEF Contains
  <2> QED BY <2>1, <2>2, Zenon DEF Remembered
<1>5. ASSUME NEW p \in Partition, handleTransientFailure(p) \/ Commit(p)
      PROVE  UNCHANGED <<processed, dedupCache>>
  BY <1>5, Zenon DEF handleTransientFailure, Commit, history
<1>6. ASSUME NEW s \in Subtree, Announce(s) PROVE UNCHANGED <<processed, dedupCache>>
  BY <1>6, Zenon DEF Announce, history
<1> QED BY <1>1, <1>2, <1>3, <1>4, <1>5, <1>6, Kinds, Zenon DEF Continues

(* Nothing that was said of a message is taken back. *)
LEMMA Lasting ==
    ASSUME TypeOK, TypeOK', AtMessage, Remembered, [Next]_vars, ~Crash
    PROVE  /\ \A s \in Subtree : processed'[s] >= processed[s]
           /\ dlq \subseteq dlq' /\ unhandled \subseteq unhandled'
<1>0. \A s \in Subtree : processed[s] \in Nat
  BY DEF TypeOK
<1>1. CASE UNCHANGED <<processed, dlq, unhandled>>
  BY <1>0, <1>1
<1>2. ASSUME NEW p \in Partition, ReadSubtree(p) \/ FinishSubtree(p)
      PROVE  \A s \in Subtree : processed'[s] >= processed[s]
  <2>1. FinishSubtree(p) => handler[p].msg.hash \in Subtree
    BY BusyHandler, BusyFields, ZenonT(40) DEF Announcement, FinishSubtree, At
  <2>2. ReadSubtree(p) => Message(topic[p]).hash \in Subtree
    BY Topics, ZenonT(40) DEF Announcement, ReadSubtree
  <2>3. processed' = processed \/ \E s \in Subtree : Completed(p, s)
    BY <1>2, <2>1, <2>2, Zenon DEF ReadSubtree, FinishSubtree
  <2>4. CASE processed' = processed
    BY <1>0, <2>4
  <2> QED BY <2>3, <2>4, CompletedFacts, ZenonT(40)
<1>3. ASSUME NEW p \in Partition, ReadSubtree(p) \/ FinishSubtree(p)
      PROVE  UNCHANGED <<dlq, unhandled>>
  BY <1>3, Zenon DEF ReadSubtree, FinishSubtree, stores
<1>4. ASSUME NEW p \in Partition, handleTransientFailure(p)
      PROVE  UNCHANGED processed /\ dlq \subseteq dlq' /\ unhandled \subseteq unhandled'
  BY <1>4, Zenon DEF handleTransientFailure, HandedOff
<1>5. ASSUME NEW p \in Partition, Commit(p) PROVE UNCHANGED <<processed, dlq, unhandled>>
  BY <1>5, Zenon DEF Commit, history, stores
<1>6. ASSUME NEW s \in Subtree, Announce(s) PROVE UNCHANGED <<processed, dlq, unhandled>>
  BY <1>6, Zenon DEF Announce, history, stores
<1>7. processed' = processed => \A s \in Subtree : processed'[s] >= processed[s]
  BY <1>0
<1> QED BY <1>1, <1>2, <1>3, <1>4, <1>5, <1>6, <1>7, Kinds, ZenonT(30) DEF Continues

(* The session passes a message only when it is settled. *)
LEMMA Passing ==
    ASSUME TypeOK, TypeOK', AtMessage, Remembered, [Next]_vars, ~Crash, NEW p \in Partition
    PROVE  \/ topic'[p].next = topic[p].next
           \/ /\ HasMessage(topic[p]) /\ topic'[p].next = topic[p].next + 1
              /\ Settled(p, Message(topic[p]))
<1> DEFINE part == topic[p]
           m == Message(part)
<1>0. part \in PartitionOfType(Announcement) /\ (HasMessage(part) => m \in Announcement /\ m.hash \in Subtree)
  <2>1. part \in PartitionOfType(Announcement) /\ (HasMessage(part) => m \in Announcement)
    BY Topics, Zenon
  <2>2. \A k \in Announcement : k.hash \in Subtree
    BY DEF Announcement
  <2> QED BY <2>1, <2>2, Zenon
<1>1. /\ Marked(part).next = part.next + 1 /\ Skipped(part).next = part.next + 1
      /\ Committed(part).next = part.next /\ \A k : Published(part, k).next = part.next
  BY <1>0, PartitionOffsets, Zenon
<1>2. CASE topic' = topic
  BY <1>2, Zenon
<1>3. ASSUME NEW s \in Subtree, Announce(s) PROVE topic'[p].next = topic[p].next
  <2>1. \E k : topic'[p] = topic[p] \/ topic'[p] = Published(topic[p], k)
    BY <1>3, Zenon DEF Announce, TypeOK
  <2> QED BY <1>1, <2>1, Zenon
<1>4. ASSUME NEW q \in Partition, Commit(q) PROVE topic'[p].next = topic[p].next
  <2>1. topic'[p] = topic[p] \/ topic'[p] = Committed(topic[p])
    BY <1>4, Zenon DEF Commit, TypeOK
  <2> QED BY <1>1, <2>1, Zenon
<1>5. ASSUME NEW q \in Partition, q # p,
             ReadSubtree(q) \/ FinishSubtree(q) \/ handleTransientFailure(q)
      PROVE  topic'[p] = topic[p]
  BY <1>5, Zenon DEF ReadSubtree, FinishSubtree, handleTransientFailure, HandedOff, Completed, TypeOK
<1>6. ASSUME ReadSubtree(p), topic' # topic
      PROVE  HasMessage(part) /\ topic'[p].next = part.next + 1 /\ Settled(p, m)
  <2>1. HasMessage(part) /\ topic' = [topic EXCEPT ![p] = Marked(part)]
    BY <1>6, Zenon DEF ReadSubtree, Completed
  <2>2. topic'[p].next = part.next + 1
    BY <1>1, <2>1, Zenon DEF TypeOK
  <2>3. CASE Completed(p, m.hash)
    BY <1>0, <2>1, <2>2, <2>3, CompletedFacts, Zenon DEF Settled
  <2>4. CASE Contains(dedupCache, m.hash) /\ processed' = processed
    BY <1>0, <2>1, <2>2, <2>4, Zenon DEF Settled, Remembered
  <2> QED BY <1>6, <2>3, <2>4, Zenon DEF ReadSubtree
<1>7. ASSUME FinishSubtree(p)
      PROVE  HasMessage(part) /\ topic'[p].next = part.next + 1 /\ Settled(p, m)
  <2>1. HasMessage(part) /\ handler[p].msg = m
    <3>1. handler[p].pc # "idle"
      BY <1>7 DEF FinishSubtree, At
    <3> QED BY <3>1, Zenon DEF AtMessage
  <2>2. Completed(p, m.hash) /\ topic' = [topic EXCEPT ![p] = Marked(part)]
    BY <1>7, <2>1, Zenon DEF FinishSubtree, Completed
  <2>3. topic'[p].next = part.next + 1
    BY <1>1, <2>2, ZenonT(40) DEF TypeOK
  <2> QED BY <1>0, <2>1, <2>2, <2>3, CompletedFacts, Zenon DEF Settled
<1>8. ASSUME handleTransientFailure(p)
      PROVE  HasMessage(part) /\ topic'[p].next = part.next + 1 /\ Settled(p, m)
  <2> DEFINE n == [m EXCEPT !.attemptCount = @ + 1]
  <2>1. HasMessage(part) /\ handler[p].msg = m
    <3>1. handler[p].pc # "idle"
      BY <1>8 DEF handleTransientFailure, At
    <3> QED BY <3>1, Zenon DEF AtMessage
  <2>2. n \in Announcement
    BY <1>0, <2>1 DEF Announcement
  <2> HIDE DEF n
  <2>3. \/ /\ topic' = [topic EXCEPT ![p] = Marked(part)] /\ n \in dlq'
        \/ /\ topic' = [topic EXCEPT ![p] = Skipped(part)]
           /\ <<p, topic[p].next>> \in unhandled'
        \/ topic' = [topic EXCEPT ![p] = Marked(Published(part, n))]
    BY <1>8, <2>1, Zenon DEF handleTransientFailure, HandedOff, n
  <2>4. Published(part, n) \in PartitionOfType(Announcement)
    BY <1>0, <2>2, PartitionTypes, Zenon
  <2>5. Marked(Published(part, n)).log = Append(Log(p), n)
    BY <1>0, <2>4, PartitionLogs, Zenon DEF Log
  <2>6. Marked(Published(part, n)).next = part.next + 1
    <3>1. Marked(Published(part, n)).next = Published(part, n).next + 1
      BY <2>4, PartitionOffsets, Zenon
    <3> QED BY <1>1, <3>1, Zenon
  <2>7. CASE topic' = [topic EXCEPT ![p] = Marked(Published(part, n))]
    BY <2>1, <2>5, <2>6, <2>7, ZenonT(40) DEF Settled, Extended, Log, TypeOK, n
  <2>8. CASE topic' = [topic EXCEPT ![p] = Marked(part)] /\ n \in dlq'
    BY <1>1, <2>1, <2>8, ZenonT(40) DEF Settled, TypeOK, n
  <2>9. CASE topic' = [topic EXCEPT ![p] = Skipped(part)] /\ <<p, topic[p].next>> \in unhandled'
    BY <1>1, <2>1, <2>9, Zenon DEF Settled, TypeOK, n
  <2> QED BY <2>3, <2>7, <2>8, <2>9
<1> QED BY <1>2, <1>3, <1>4, <1>5, <1>6, <1>7, <1>8, Kinds, Zenon DEF Continues

(* Only a crash counts as one. *)
LEMMA Crashes ==
    ASSUME TypeOK, [Next]_vars, ~Crash PROVE budget'.crash = budget.crash
<1>1. budget \in Counters
  BY Zenon DEF TypeOK, Counters
<1>2. ASSUME budget' \in {budget, [budget EXCEPT !.announce = @ + 1], [budget EXCEPT !.fault = @ + 1],
                          [budget EXCEPT !.evict = @ + 1]}
      PROVE  budget'.crash = budget.crash
  BY <1>1, <1>2 DEF Counters
<1>3. CASE Works \/ Fails
  BY <1>2, <1>3, Zenon DEF Works, Fails
<1>4. CASE budget' = budget
  BY <1>4, Zenon
<1>5. ASSUME NEW r \in Watched, AddRegistration(r) \/ AddUrl(r) PROVE Works \/ Fails
  BY <1>5, Zenon DEF AddRegistration, AddUrl
<1>6. ASSUME NEW s \in Subtree, Announce(s) PROVE budget'.crash = budget.crash
  BY <1>2, <1>6, Zenon DEF Announce
<1>7. ASSUME NEW p \in Partition, FetcherStep(p) PROVE (Works \/ Fails) \/ budget' = budget
  BY <1>7, Zenon DEF FetcherStep, ReadSubtree, FilterUncached, LookupUncached, UpdateCache,
     LookupCached, PublishSeen, PublishMultiple, CountTxids, GroupReached, Increment,
     FinishSubtree, handleTransientFailure
<1>8. ASSUME NEW p \in Partition, Commit(p) PROVE budget' = budget
  BY <1>8, Zenon DEF Commit
<1>9. ASSUME NEW t \in Txid, Evict(t) PROVE budget'.crash = budget.crash
  BY <1>2, <1>9, Zenon DEF Evict
<1>10. UNCHANGED vars => budget' = budget
  BY Zenon DEF vars
<1> QED BY <1>3, <1>4, <1>5, <1>6, <1>7, <1>8, <1>9, <1>10, Zenon DEF Next, Quiescent

(* Without a crash the session is inside its log or at its end. *)
InLog == budget.crash = 0 => \A p \in Partition : topic[p].next <= Len(Log(p)) + 1

(* Without a crash before it, a step is not the first crash. *)
LEMMA NoCrash ==
    ASSUME TypeOK, [Next]_vars, budget'.crash = 0 PROVE ~Crash /\ budget.crash = 0
<1>1. budget \in Counters
  BY Zenon DEF TypeOK, Counters
<1>2. Crash => budget'.crash = budget.crash + 1
  BY <1>1 DEF Crash, Counters
<1>3. budget.crash \in Nat
  BY <1>1 DEF Counters
<1>4. ~Crash
  BY <1>2, <1>3
<1> QED BY <1>4, Crashes

(* A log only grows. *)
LEMMA LogGrows ==
    ASSUME TypeOK, TypeOK', AtMessage, [Next]_vars, NEW p \in Partition
    PROVE  /\ Log(p) \in Seq(Announcement) /\ Len(Log(p)) <= Len(Log(p)') /\ Len(Log(p)') \in Nat
           /\ \A k \in 1..Len(Log(p)) : Log(p)'[k] = Log(p)[k]
<1>1. Log(p)' = Log(p) \/ \E m : Extended(p, m)
  BY LogStep, Zenon
<1> QED BY <1>1, Topics, AppendFacts DEF Extended

(* A session passes only messages that are there. *)
LEMMA InLogStep ==
    ASSUME TypeOK, TypeOK', AtMessage, Remembered, InLog, [Next]_vars PROVE InLog'
<1> SUFFICES ASSUME budget'.crash = 0, NEW p \in Partition
             PROVE  topic'[p].next <= Len(Log(p)') + 1
  BY Zenon DEF InLog, Log
<1>1. ~Crash /\ topic[p].next <= Len(Log(p)) + 1
  BY NoCrash, Zenon DEF InLog
<1>2. topic'[p].next = topic[p].next \/ (HasMessage(topic[p]) /\ topic'[p].next = topic[p].next + 1)
  BY <1>1, Passing, Zenon
<1>3. topic[p].next \in Nat /\ (HasMessage(topic[p]) => topic[p].next <= Len(Log(p)))
  BY Topics
<1>4. Len(Log(p)) <= Len(Log(p)') /\ Len(Log(p)') \in Nat /\ Len(Log(p)) \in Nat
  BY LogGrows
<1> QED BY <1>1, <1>2, <1>3, <1>4

(* A message that is passed is settled, and stays settled. *)
LEMMA ForgottenStep ==
    ASSUME TypeOK, TypeOK', AtMessage, Remembered, InLog, NothingForgotten, [Next]_vars
    PROVE  NothingForgotten'
<1> SUFFICES ASSUME budget'.crash = 0, NEW p \in Partition, NEW n \in 1..(topic'[p].next - 1)
             PROVE  Resolved(p, n)'
  BY Zenon DEF NothingForgotten
<1>1. ~Crash /\ budget.crash = 0
  BY NoCrash
<1>3. /\ Log(p) \in Seq(Announcement) /\ Len(Log(p)) <= Len(Log(p)') /\ Len(Log(p)') \in Nat
      /\ \A k \in 1..Len(Log(p)) : Log(p)'[k] = Log(p)[k]
  BY LogGrows
<1>4. topic[p].next \in Nat \ {0}
  BY Topics
<1>5. CASE n \in 1..(topic[p].next - 1) /\ n \in 1..Len(Log(p))
  <2> DEFINE m == Log(p)[n]
             a == [m EXCEPT !.attemptCount = @ + 1]
  <2>0. m \in Announcement /\ m.hash \in Subtree
    <3>1. m \in Announcement
      BY <1>3, <1>5
    <3> HIDE DEF m
    <3> QED BY <3>1 DEF Announcement
  <2>1. Log(p)'[n] = m
    BY <1>3, <1>5, Zenon
  <2>2. \/ processed[m.hash] > 0
        \/ \E k \in (n + 1)..Len(Log(p)) : Log(p)[k] = a
        \/ a \in dlq
        \/ <<p, n>> \in unhandled
    BY <1>1, <1>5, ZenonT(40) DEF NothingForgotten, Resolved, Log
  <2> HIDE DEF m, a
  <2>3. processed[m.hash] > 0 => processed'[m.hash] > 0
    <3>1. processed'[m.hash] >= processed[m.hash]
      BY <1>1, <2>0, Lasting, Zenon
    <3>2. processed[m.hash] \in Nat /\ processed'[m.hash] \in Nat
      BY <2>0, Zenon DEF TypeOK
    <3> QED BY <3>1, <3>2
  <2>4. (\E k \in (n + 1)..Len(Log(p)) : Log(p)[k] = a)
            => \E k \in (n + 1)..Len(Log(p)') : Log(p)'[k] = a
    BY <1>3, <1>5
  <2>5. \/ processed'[m.hash] > 0
        \/ \E k \in (n + 1)..Len(Log(p)') : Log(p)'[k] = a
        \/ a \in dlq'
        \/ <<p, n>> \in unhandled'
    BY <1>1, <2>2, <2>3, <2>4, Lasting, Zenon
  <2> QED BY <2>1, <2>5, Zenon DEF Resolved, Log, m, a
<1>6. ASSUME HasMessage(topic[p]), n = topic[p].next, Settled(p, Message(topic[p]))
      PROVE  Resolved(p, n)'
  <2> DEFINE m == Log(p)[n]
             a == [m EXCEPT !.attemptCount = @ + 1]
  <2>1. n \in 1..Len(Log(p)) /\ Message(topic[p]) = m /\ Log(p)'[n] = m
    BY <1>3, <1>6, Topics, ZenonT(40)
  <2>2. \/ processed'[m.hash] > 0 \/ Extended(p, a) \/ a \in dlq' \/ <<p, n>> \in unhandled'
    BY <1>6, <2>1, ZenonT(40) DEF Settled
  <2> HIDE DEF m, a
  <2>3. Extended(p, a) => \E k \in (n + 1)..Len(Log(p)') : Log(p)'[k] = a
    BY <1>3, <2>1, AppendFacts DEF Extended
  <2> QED BY <2>1, <2>2, <2>3, ZenonT(30) DEF Resolved, Log, m, a
<1>7. \/ topic'[p].next = topic[p].next
      \/ /\ HasMessage(topic[p]) /\ topic'[p].next = topic[p].next + 1
         /\ Settled(p, Message(topic[p]))
  BY <1>1, Passing, Zenon
<1>8. topic[p].next <= Len(Log(p)) + 1 /\ Len(Log(p)) \in Nat
  BY <1>1, <1>3 DEF InLog
<1>9. CASE n \in 1..(topic[p].next - 1)
  BY <1>4, <1>5, <1>8, <1>9
<1>10. CASE n \notin 1..(topic[p].next - 1)
  <2>1. topic'[p].next # topic[p].next
    BY <1>10
  <2>2. n = topic[p].next
    BY <1>4, <1>7, <1>10, <2>1
  <2> QED BY <1>6, <1>7, <2>1, <2>2
<1> QED BY <1>9, <1>10

-----------------------------------------------------------------------------
(* The SEEN callbacks.                                                     *)

(* The steps of a handler between its message's arrival and its end. *)
Handles(p) ==
    \/ FilterUncached(p) \/ LookupUncached(p) \/ UpdateCache(p) \/ LookupCached(p)
    \/ \E u \in Url : PublishSeen(p, u) \/ PublishMultiple(p, u)
    \/ CountTxids(p) \/ GroupReached(p) \/ \E t \in Txid : Increment(p, t)

(* What a step is to the handler of p. *)
LEMMA Turns ==
    ASSUME TypeOK, TypeOK', [Next]_vars, NEW p \in Partition
    PROVE  \/ Handles(p)
           \/ handler'[p] = handler[p]
           \/ handler'[p] = Idle
           \/ \E m \in Announcement :
                  handler'[p] = Handling("failed", m) \/ handler'[p] = Handling("filter", m)
<1>1. CASE handler' = handler
  BY <1>1, Zenon
<1>2. CASE ReadSubtree(p)
  <2>1. Message(topic[p]) \in Announcement
    BY <1>2, Topics, Zenon DEF ReadSubtree
  <2> QED BY <1>2, <2>1, ZenonT(40) DEF ReadSubtree, Completed, Holds, TypeOK
<1>3. CASE FinishSubtree(p) \/ handleTransientFailure(p)
  BY <1>3, Zenon DEF FinishSubtree, handleTransientFailure, Completed, Holds, TypeOK
<1>4. ASSUME NEW q \in Partition, q # p, ReadSubtree(q) \/ FinishSubtree(q) \/ handleTransientFailure(q)
      PROVE  handler'[p] = handler[p]
  BY <1>4, Zenon DEF ReadSubtree, FinishSubtree, handleTransientFailure, Completed, Holds, TypeOK
<1>5. ASSUME NEW q \in Partition, q # p, Handles(q) PROVE handler'[p] = handler[p]
  BY <1>5, Effects, Zenon DEF Handles, Becomes
<1>6. Crash => handler'[p] = Idle
  BY Zenon DEF Crash
<1>7. ASSUME NEW r \in Watched, AddRegistration(r) \/ AddUrl(r) PROVE handler' = handler
  BY <1>7, Zenon DEF AddRegistration, AddUrl
<1>8. ASSUME NEW s \in Subtree, Announce(s) PROVE handler' = handler
  BY <1>8, Zenon DEF Announce
<1>9. ASSUME NEW q \in Partition, Commit(q) PROVE handler' = handler
  BY <1>9, Zenon DEF Commit
<1>10. ASSUME NEW t \in Txid, Evict(t) PROVE handler' = handler
  BY <1>10, Zenon DEF Evict
<1>11. UNCHANGED vars => handler' = handler
  BY Zenon DEF vars
<1>12. \A q \in Partition : FetcherStep(q) =>
           Handles(q) \/ ReadSubtree(q) \/ FinishSubtree(q) \/ handleTransientFailure(q)
  BY Zenon DEF FetcherStep, Handles
<1>13. CASE \E q \in Partition : FetcherStep(q)
  BY <1>2, <1>3, <1>4, <1>5, <1>12, <1>13, Zenon
<1> QED BY <1>1, <1>6, <1>7, <1>8, <1>9, <1>10, <1>11, <1>13, Zenon DEF Next, Quiescent

(* Handler p deals with transactions of its subtree only. *)
Within ==
    \A p \in Partition : handler[p].pc # "idle" =>
        LET h == handler[p] IN
        /\ h.uncached \cup h.cached \cup TxidsOf(h.found) \subseteq Txids[h.msg.hash]
        /\ h.pc = "count" => h.todo \subseteq Txids[h.msg.hash]

(* What Within says of handler h. *)
Inside(h) ==
    /\ h.uncached \cup h.cached \cup TxidsOf(h.found) \subseteq Txids[h.msg.hash]
    /\ h.pc = "count" => h.todo \subseteq Txids[h.msg.hash]

(* No step brings a foreign transaction into a handler. *)
LEMMA WithinStep ==
    ASSUME TypeOK, TypeOK', Within, [Next]_vars PROVE Within'
<1> SUFFICES ASSUME NEW p \in Partition, handler'[p].pc # "idle" PROVE Inside(handler'[p])
  BY Zenon DEF Within, Inside
<1> DEFINE h == handler[p]
           T == Txids[h.msg.hash]
<1>0. Idle.pc = "idle"
  BY DEF Idle
<1>1. CASE handler'[p] = handler[p]
  BY <1>1, ZenonT(40) DEF Within, Inside
<1>2. ASSUME NEW m, handler'[p] = Handling("failed", m) \/ handler'[p] = Handling("filter", m)
      PROVE  Inside(handler'[p])
  BY <1>2 DEF Handling, TxidsOf, Inside
<1>4. \A x : TxidsOf(RegistrationsOf(x)) \subseteq x
  BY DEF TxidsOf, RegistrationsOf
<1>5. \A x, y : TxidsOf(x \cup y) = TxidsOf(x) \cup TxidsOf(y)
  BY DEF TxidsOf
<1>6. h.pc # "idle" => /\ h.uncached \cup h.cached \cup TxidsOf(h.found) \subseteq T
                       /\ h.pc = "count" => h.todo \subseteq T
  BY Zenon DEF Within
<1> HIDE DEF T
<1> DEFINE Shape(l, u, c, f, d) == u \cup c \cup TxidsOf(f) \subseteq T /\ (l = "count" => d \subseteq T)
<1>s. \A u, c, f, d : u \cup c \cup TxidsOf(f) \subseteq T =>
          /\ Shape("lookup", u, c, f, d) /\ Shape("update", u, c, f, d)
          /\ Shape("failed", u, c, f, d) /\ Shape("cached", u, c, f, d)
          /\ Shape("seen", u, c, f, d) /\ Shape("multiple", u, c, f, d)
  OBVIOUS
<1>3. ASSUME NEW l, NEW u, NEW c, NEW f, NEW d, NEW e, Becomes(p, l, u, c, f, d, e),
             Shape(l, u, c, f, d)
      PROVE  Inside(handler'[p])
  BY <1>3, Zenon DEF Becomes, Updated, Inside, T
<1> HIDE DEF Shape
<1>7. CASE FilterUncached(p)
  <2> DEFINE u == {t \in T : regCache[t] = "none"}
             c == {t \in T : regCache[t] = "registered"}
  <2>1. u \cup c \cup TxidsOf(h.found) \subseteq T
    BY <1>6, <1>7 DEF FilterUncached, At
  <2>2. Becomes(p, "lookup", u, c, h.found, h.todo, h.reached)
    BY <1>7, Effects, Zenon DEF T
  <2> HIDE DEF u, c
  <2>3. Shape("lookup", u, c, h.found, h.todo)
    BY <1>s, <2>1, Zenon
  <2> QED BY <1>3, <2>2, <2>3, Zenon
<1>8. CASE LookupUncached(p)
  <2>1. h.uncached \cup h.cached \cup TxidsOf(h.found) \subseteq T
    BY <1>6, <1>8 DEF LookupUncached, At
  <2>2. h.uncached \cup h.cached \cup TxidsOf(RegistrationsOf(h.uncached)) \subseteq T
    BY <1>4, <2>1
  <2>3. \/ Becomes(p, "update", h.uncached, h.cached, RegistrationsOf(h.uncached), h.todo, h.reached)
        \/ Becomes(p, "failed", h.uncached, h.cached, h.found, h.todo, h.reached)
    BY <1>8, Effects, Zenon
  <2>4. /\ Shape("update", h.uncached, h.cached, RegistrationsOf(h.uncached), h.todo)
        /\ Shape("failed", h.uncached, h.cached, h.found, h.todo)
    BY <1>s, <2>1, <2>2, Zenon
  <2> QED BY <1>3, <2>3, <2>4, Zenon
<1>9. CASE UpdateCache(p) \/ GroupReached(p)
  <2>1. h.uncached \cup h.cached \cup TxidsOf(h.found) \subseteq T
    BY <1>6, <1>9 DEF UpdateCache, GroupReached, At
  <2>2. \/ Becomes(p, "cached", h.uncached, h.cached, h.found, h.todo, h.reached)
        \/ \E d : Becomes(p, "multiple", h.uncached, h.cached, h.found, d, h.reached)
    BY <1>9, Effects, Zenon
  <2>3. \A d : /\ Shape("cached", h.uncached, h.cached, h.found, d)
              /\ Shape("multiple", h.uncached, h.cached, h.found, d)
    BY <1>s, <2>1, Zenon
  <2> QED BY <1>3, <2>2, <2>3, Zenon
<1>10. ASSUME NEW v \in Url, PublishSeen(p, v) \/ PublishMultiple(p, v) PROVE Inside(handler'[p])
  <2>1. h.uncached \cup h.cached \cup TxidsOf(h.found) \subseteq T
    BY <1>6, <1>10, Zenon DEF PublishSeen, PublishMultiple, At
  <2>2. \/ Becomes(p, "seen", h.uncached, h.cached, h.found, h.todo \ {v}, h.reached)
        \/ Becomes(p, "multiple", h.uncached, h.cached, h.found, h.todo \ {v}, h.reached)
    BY <1>10, Effects, Zenon
  <2>3. /\ Shape("seen", h.uncached, h.cached, h.found, h.todo \ {v})
        /\ Shape("multiple", h.uncached, h.cached, h.found, h.todo \ {v})
    BY <1>s, <2>1, Zenon
  <2> QED BY <1>3, <2>2, <2>3, Zenon
<1>11. CASE LookupCached(p)
  <2>1. h.uncached \cup h.cached \cup TxidsOf(h.found) \subseteq T
    BY <1>6, <1>11, Zenon DEF LookupCached, At
  <2>2. h.uncached \cup h.cached \cup TxidsOf(CallbackURLs(p)) \subseteq T
    <3>1. TxidsOf(CallbackURLs(p)) = TxidsOf(h.found) \cup TxidsOf(RegistrationsOf(h.cached))
      BY <1>5, Zenon DEF CallbackURLs
    <3>2. TxidsOf(RegistrationsOf(h.cached)) \subseteq h.cached
      BY <1>4
    <3> QED BY <2>1, <3>1, <3>2, Zenon
  <2>3. \/ \E d : Becomes(p, "seen", h.uncached, h.cached, CallbackURLs(p), d, h.reached)
        \/ \E d : Becomes(p, "seen", h.uncached, h.cached, h.found, d, h.reached)
    BY <1>11, Effects, Zenon
  <2>4. \A d : /\ Shape("seen", h.uncached, h.cached, CallbackURLs(p), d)
              /\ Shape("seen", h.uncached, h.cached, h.found, d)
    BY <1>s, <2>1, <2>2, Zenon
  <2> QED BY <1>3, <2>3, <2>4, Zenon
<1>12. CASE CountTxids(p)
  <2>1. h.uncached \cup h.cached \cup TxidsOf(h.found) \subseteq T /\ TxidsOf(h.found) \subseteq T
    BY <1>6, <1>12 DEF CountTxids, At
  <2>2. Becomes(p, "count", h.uncached, h.cached, h.found, TxidsOf(h.found), h.reached)
    BY <1>12, Effects, Zenon
  <2> QED BY <1>3, <2>1, <2>2, ZenonT(40) DEF Shape
<1>13. ASSUME NEW t \in Txid, Increment(p, t) PROVE Inside(handler'[p])
  <2>1. h.uncached \cup h.cached \cup TxidsOf(h.found) \subseteq T /\ h.todo \ {t} \subseteq T
    BY <1>6, <1>13 DEF Increment, At
  <2>2. \E e : Becomes(p, "count", h.uncached, h.cached, h.found, h.todo \ {t}, e)
    BY <1>13, Effects, Zenon
  <2> QED BY <1>3, <2>1, <2>2, ZenonT(30) DEF Shape
<1>14. Handles(p) => Inside(handler'[p])
  BY <1>7, <1>8, <1>9, <1>10, <1>11, <1>12, <1>13, Zenon DEF Handles
<1> QED BY <1>0, <1>1, <1>2, <1>14, Turns, Zenon

(* A subtree that was announced. *)
OnLog(s) == \E n \in 1..Len(Log(PartitionOf[s])) : Log(PartitionOf[s])[n].hash = s

(* The counters count announced subtrees that contain the transaction. *)
Counted ==
    \A t \in Txid :
        /\ t \in fired => Cardinality(seen[t]) >= SeenThreshold
        /\ \A s \in seen[t] : t \in Txids[s] /\ OnLog(s)

(* A log forgets no announcement. *)
LEMMA AnnouncedStays ==
    ASSUME TypeOK, TypeOK', AtMessage, [Next]_vars, NEW s \in Subtree, OnLog(s) PROVE OnLog(s)'
<1>1. PartitionOf[s] \in Partition
  BY FetcherAssumption
<1>2. PICK n \in 1..Len(Log(PartitionOf[s])) : Log(PartitionOf[s])[n].hash = s
  BY Zenon DEF OnLog
<1>3. /\ Len(Log(PartitionOf[s])) \in Nat /\ Len(Log(PartitionOf[s]))' \in Nat
      /\ Len(Log(PartitionOf[s])) <= Len(Log(PartitionOf[s]))'
      /\ Log(PartitionOf[s])'[n] = Log(PartitionOf[s])[n]
  BY <1>1, <1>2, LogGrows
<1>4. n \in 1..Len(Log(PartitionOf[s])')
  BY <1>2, <1>3
<1> QED BY <1>2, <1>3, <1>4, Zenon DEF OnLog

(* A handler's subtree was announced. *)
LEMMA AtAnnounced ==
    ASSUME TypeOK, AtMessage, Keyed, NEW p \in Partition, handler[p].pc # "idle"
    PROVE  handler[p].msg.hash \in Subtree /\ OnLog(handler[p].msg.hash)
<1>1. /\ topic[p].next \in 1..Len(Log(p)) /\ handler[p].msg = Log(p)[topic[p].next]
      /\ handler[p].msg \in Announcement
  BY Topics, Zenon DEF AtMessage
<1>2. PartitionOf[handler[p].msg.hash] = p
  BY <1>1, Zenon DEF Keyed, Log
<1>3. handler[p].msg.hash \in Subtree
  BY <1>1 DEF Announcement
<1> QED BY <1>1, <1>2, <1>3, Zenon DEF OnLog

(* Only an Increment changes the counters. *)
LEMMA CounterSteps ==
    ASSUME [Next]_vars
    PROVE  UNCHANGED <<seen, fired>> \/ \E p \in Partition, t \in Txid : Increment(p, t)
<1>1. ASSUME NEW r \in Watched, AddRegistration(r) \/ AddUrl(r) PROVE UNCHANGED <<seen, fired>>
  BY <1>1, Zenon DEF AddRegistration, AddUrl
<1>2. ASSUME NEW s \in Subtree, Announce(s) PROVE UNCHANGED <<seen, fired>>
  BY <1>2, Zenon DEF Announce, stores
<1>3. ASSUME NEW p \in Partition, FetcherStep(p), ~\E t \in Txid : Increment(p, t)
      PROVE  UNCHANGED <<seen, fired>>
  BY <1>3, Zenon DEF FetcherStep, ReadSubtree, FilterUncached, LookupUncached, UpdateCache,
     LookupCached, PublishSeen, PublishMultiple, CountTxids, GroupReached,
     FinishSubtree, handleTransientFailure, stores
<1>4. ASSUME NEW p \in Partition, Commit(p) PROVE UNCHANGED <<seen, fired>>
  BY <1>4, Zenon DEF Commit, stores
<1>5. ASSUME NEW t \in Txid, Evict(t) PROVE UNCHANGED <<seen, fired>>
  BY <1>5, Zenon DEF Evict, stores
<1>6. Crash => UNCHANGED <<seen, fired>>
  BY Zenon DEF Crash, stores
<1>7. UNCHANGED vars => UNCHANGED <<seen, fired>>
  BY Zenon DEF vars, stores
<1> QED BY <1>1, <1>2, <1>3, <1>4, <1>5, <1>6, <1>7, Zenon DEF Next, Quiescent

(* What an Increment does to the counters. *)
LEMMA IncrementEffect ==
    ASSUME NEW p \in Partition, NEW t \in Txid, Increment(p, t)
    PROVE  LET counted == seen[t] \cup {handler[p].msg.hash} IN
           /\ seen' = seen \/ seen' = [seen EXCEPT ![t] = counted]
           /\ fired' = fired \/ /\ fired' = fired \cup {t} /\ Cardinality(counted) >= SeenThreshold
                                /\ seen' = [seen EXCEPT ![t] = counted]
BY Zenon DEF Increment, Reaches

(* The transactions whose threshold handler p was told of. *)
Told(p) == IF handler[p].pc = "idle" THEN {} ELSE handler[p].reached

(* Handler p may still publish SEEN_MULTIPLE_NODES for registration r. *)
Pending(p, r) ==
    r[1] \in Told(p) /\ (handler[p].pc = "multiple" => r[2] \in handler[p].todo)

(* A threshold is told to one handler, which publishes each registration once. *)
Once ==
    /\ \A p \in Partition : Told(p) \subseteq fired
    /\ \A p, q \in Partition : p # q => Told(p) \cap Told(q) = {}
    /\ \A r \in Registration : multiple[r] <= 1 /\ (multiple[r] # 0 => r[1] \in fired)
    /\ \A p \in Partition, r \in Registration : Pending(p, r) => multiple[r] = 0

(* A handler is told a threshold by its own Increment only, and publishes nothing
   that it was not about to. *)
LEMMA ToldStep ==
    ASSUME TypeOK, TypeOK', [Next]_vars, NEW p \in Partition
    PROVE  \/ /\ Told(p)' \subseteq Told(p)
              /\ \A r : Pending(p, r)' => Pending(p, r)
           \/ \E t \in Txid :
                  /\ Increment(p, t) /\ t \notin fired /\ t \in fired'
                  /\ Told(p)' \subseteq Told(p) \cup {t}
                  /\ \A r : Pending(p, r)' => Pending(p, r) \/ r[1] = t
                  /\ \A q \in Partition : q # p => Told(q)' = Told(q)
<1> DEFINE h == handler[p]
           Less == Told(p)' \subseteq Told(p) /\ \A r : Pending(p, r)' => Pending(p, r)
<1>0. Idle.pc = "idle" /\ "idle" \notin Working
  BY DEF Idle, Working
<1>1. ASSUME handler'[p] = handler[p] PROVE Less
  BY <1>1, Zenon DEF Told, Pending
<1>2. ASSUME handler'[p] = Idle PROVE Less
  BY <1>0, <1>2, Zenon DEF Told, Pending
<1>3. ASSUME NEW m, handler'[p] = Handling("failed", m) \/ handler'[p] = Handling("filter", m)
      PROVE  Less
  <2>1. handler'[p].reached = {}
    BY <1>3 DEF Handling
  <2> QED BY <2>1, ZenonT(40) DEF Told, Pending
<1>4. ASSUME NEW l, NEW u, NEW c, NEW f, NEW d, NEW e, Becomes(p, l, u, c, f, d, e)
      PROVE  /\ Told(p) = h.reached /\ Told(p)' = e
             /\ handler'[p].pc = l /\ handler'[p].todo = d
  <2>1. h.pc # "idle" /\ handler'[p].pc # "idle"
    BY <1>0, <1>4, BusyFields, Zenon DEF Becomes
  <2> QED BY <1>4, <2>1, Zenon DEF Becomes, Updated, Told
<1>5. ASSUME NEW l, NEW u, NEW c, NEW f, NEW d, Becomes(p, l, u, c, f, d, h.reached),
             h.pc = "multiple" => d \subseteq h.todo /\ l = "multiple"
      PROVE  Less
  BY <1>4, <1>5, ZenonT(40) DEF Pending
<1>6. CASE FilterUncached(p) \/ LookupUncached(p) \/ UpdateCache(p) \/ LookupCached(p)
           \/ CountTxids(p) \/ GroupReached(p)
  <2>1. h.pc # "multiple"
    BY <1>6 DEF FilterUncached, LookupUncached, UpdateCache, LookupCached, CountTxids,
       GroupReached, At
  <2>2. \E l, u, c, f, d : Becomes(p, l, u, c, f, d, h.reached)
    BY <1>6, Effects, Zenon
  <2> QED BY <1>5, <2>1, <2>2, Zenon
<1>7. ASSUME NEW v \in Url, PublishSeen(p, v) PROVE Less
  <2>1. h.pc # "multiple"
    BY <1>7 DEF PublishSeen, At
  <2>2. Becomes(p, "seen", h.uncached, h.cached, h.found, h.todo \ {v}, h.reached)
    BY <1>7, Effects, Zenon
  <2> QED BY <1>5, <2>1, <2>2, Zenon
<1>8. ASSUME NEW v \in Url, PublishMultiple(p, v) PROVE Less
  <2>1. Becomes(p, "multiple", h.uncached, h.cached, h.found, h.todo \ {v}, h.reached)
    BY <1>8, Effects, Zenon
  <2>2. h.todo \ {v} \subseteq h.todo
    OBVIOUS
  <2> QED BY <1>5, <2>1, <2>2, Zenon
<1>9. ASSUME NEW t \in Txid, Increment(p, t)
      PROVE  \/ Less
             \/ /\ t \notin fired /\ t \in fired'
                /\ Told(p)' \subseteq Told(p) \cup {t}
                /\ \A r : Pending(p, r)' => Pending(p, r) \/ r[1] = t
                /\ \A q \in Partition : q # p => Told(q)' = Told(q)
  <2>1. h.pc # "multiple"
    BY <1>9 DEF Increment, At
  <2>2. PICK e : /\ Becomes(p, "count", h.uncached, h.cached, h.found, h.todo \ {t}, e)
                 /\ \/ e = h.reached
                    \/ e = h.reached \cup {t} /\ t \notin fired /\ t \in fired'
    BY <1>9, Effects, Zenon
  <2>3. CASE e = h.reached
    BY <1>5, <2>1, <2>2, <2>3, Zenon
  <2>4. CASE e = h.reached \cup {t} /\ t \notin fired /\ t \in fired'
    <3>1. Told(p) = h.reached /\ Told(p)' = h.reached \cup {t}
      BY <1>4, <2>2, <2>4, Zenon
    <3>2. \A q \in Partition : q # p => Told(q)' = Told(q)
      BY <2>2, Zenon DEF Becomes, Told
    <3>3. \A r : Pending(p, r)' => Pending(p, r) \/ r[1] = t
      BY <2>1, <3>1, Zenon DEF Pending
    <3> QED BY <2>4, <3>1, <3>2, <3>3, Zenon
  <2> QED BY <2>2, <2>3, <2>4, Zenon
<1>10. ASSUME Handles(p), ~\E t \in Txid : Increment(p, t) PROVE Less
  BY <1>6, <1>7, <1>8, <1>10, Zenon DEF Handles
<1>11. CASE \E t \in Txid : Increment(p, t)
  BY <1>9, <1>11, Zenon
<1>12. CASE Less
  BY <1>12, Zenon
<1> HIDE DEF Less
<1> QED BY <1>1, <1>2, <1>3, <1>10, <1>11, <1>12, Turns, ZenonT(40)

(* Only PublishMultiple publishes SEEN_MULTIPLE_NODES. *)
LEMMA MultipleSteps ==
    ASSUME [Next]_vars
    PROVE  UNCHANGED multiple \/ \E p \in Partition, u \in Url : PublishMultiple(p, u)
<1>1. ASSUME NEW r \in Watched, AddRegistration(r) \/ AddUrl(r) PROVE UNCHANGED multiple
  BY <1>1, Zenon DEF AddRegistration, AddUrl, history
<1>2. ASSUME NEW s \in Subtree, Announce(s) PROVE UNCHANGED multiple
  BY <1>2, Zenon DEF Announce, history
<1>3. ASSUME NEW p \in Partition, FetcherStep(p), ~\E u \in Url : PublishMultiple(p, u)
      PROVE  UNCHANGED multiple
  BY <1>3, Zenon DEF FetcherStep, ReadSubtree, FilterUncached, LookupUncached, UpdateCache,
     LookupCached, PublishSeen, CountTxids, Increment, GroupReached,
     FinishSubtree, handleTransientFailure, history
<1>4. ASSUME NEW p \in Partition, Commit(p) PROVE UNCHANGED multiple
  BY <1>4, Zenon DEF Commit, history
<1>5. ASSUME NEW t \in Txid, Evict(t) PROVE UNCHANGED multiple
  BY <1>5, Zenon DEF Evict, history
<1>6. Crash => UNCHANGED multiple
  BY Zenon DEF Crash
<1>7. UNCHANGED vars => UNCHANGED multiple
  BY Zenon DEF vars, history
<1> QED BY <1>1, <1>2, <1>3, <1>4, <1>5, <1>6, <1>7, ZenonT(40) DEF Next, Quiescent

(* A threshold that was reported stays reported. *)
LEMMA FiredGrows == ASSUME [Next]_vars PROVE fired \subseteq fired'
BY CounterSteps, IncrementEffect, Zenon

(* A registration is published again only by a handler that still had to. *)
LEMMA PublishedOnce ==
    ASSUME TypeOK, TypeOK', Once, [Next]_vars, NEW r \in Registration
    PROVE  \/ multiple'[r] = multiple[r]
           \/ /\ multiple'[r] = 1
              /\ \E p \in Partition : /\ r[1] \in Told(p) /\ ~Pending(p, r)'
                                      /\ multiple' # multiple
<1>1. CASE UNCHANGED multiple
  BY <1>1, ZenonT(40)
<1>2. ASSUME NEW p \in Partition, NEW u \in Url, PublishMultiple(p, u), multiple'[r] # multiple[r]
      PROVE  multiple'[r] = 1 /\ r[1] \in Told(p) /\ ~Pending(p, r)'
  <2> DEFINE h == handler[p]
  <2>1. h.pc = "multiple" /\ u \in h.todo
    BY <1>2, Zenon DEF PublishMultiple, At
  <2>2. multiple'[r] = multiple[r] + 1 /\ r[2] = u /\ r[1] \in h.reached
    BY <1>2, ZenonT(40) DEF PublishMultiple
  <2>3. h.pc # "idle"
    BY <2>1
  <2>4. Pending(p, r)
    BY <2>1, <2>2, <2>3, Zenon DEF Pending, Told
  <2>5. multiple[r] = 0
    BY <2>4, Zenon DEF Once
  <2>6. Becomes(p, "multiple", h.uncached, h.cached, h.found, h.todo \ {u}, h.reached)
    BY <1>2, Effects, Zenon
  <2>7. handler'[p].pc = "multiple" /\ handler'[p].todo = h.todo \ {u}
    BY <2>6, Zenon DEF Becomes, Updated
  <2>8. ~Pending(p, r)'
    BY <2>2, <2>7, Zenon DEF Pending
  <2> QED BY <2>2, <2>4, <2>5, <2>8 DEF Pending
<1> QED BY <1>1, <1>2, MultipleSteps, Zenon

(* A new threshold is told to one handler, which had not published it. *)
LEMMA OnceStep ==
    ASSUME TypeOK, TypeOK', Once, [Next]_vars PROVE Once'
<1>1. ASSUME NEW p \in Partition PROVE Told(p)' \subseteq fired'
  <2>1. Told(p) \subseteq fired /\ fired \subseteq fired'
    BY FiredGrows, Zenon DEF Once
  <2> QED BY <2>1, ToldStep, Zenon
<1>2. ASSUME NEW p \in Partition, NEW q \in Partition, p # q PROVE Told(p)' \cap Told(q)' = {}
  <2>1. Told(p) \cap Told(q) = {} /\ Told(p) \subseteq fired /\ Told(q) \subseteq fired
    BY <1>2, Zenon DEF Once
  <2>2. CASE Told(p)' \subseteq Told(p) /\ Told(q)' \subseteq Told(q)
    BY <2>1, <2>2, Zenon
  <2>3. ASSUME NEW t \in Txid, t \notin fired, Told(p)' \subseteq Told(p) \cup {t}, Told(q)' = Told(q)
        PROVE  Told(p)' \cap Told(q)' = {}
    BY <2>1, <2>3, Zenon
  <2>4. ASSUME NEW t \in Txid, t \notin fired, Told(q)' \subseteq Told(q) \cup {t}, Told(p)' = Told(p)
        PROVE  Told(p)' \cap Told(q)' = {}
    BY <2>1, <2>4, Zenon
  <2> QED BY <1>2, <2>2, <2>3, <2>4, ToldStep, Zenon
<1>3. ASSUME NEW r \in Registration
      PROVE  multiple'[r] <= 1 /\ (multiple'[r] # 0 => r[1] \in fired')
  <2>1. multiple[r] <= 1 /\ (multiple[r] # 0 => r[1] \in fired)
    BY Zenon DEF Once
  <2>2. \/ multiple'[r] = multiple[r]
        \/ multiple'[r] = 1 /\ r[1] \in fired
    BY PublishedOnce, Zenon DEF Once
  <2>3. CASE multiple'[r] = multiple[r]
    BY <2>1, <2>3, FiredGrows, Zenon
  <2>4. CASE multiple'[r] = 1 /\ r[1] \in fired
    BY <2>4, FiredGrows
  <2> QED BY <2>2, <2>3, <2>4
<1>4. ASSUME NEW p \in Partition, NEW r \in Registration, Pending(p, r)' PROVE multiple'[r] = 0
  <2>1. CASE multiple'[r] = multiple[r]
    <3>1. Pending(p, r) \/ r[1] \notin fired
      BY <1>4, ToldStep, Zenon
    <3> QED BY <2>1, <3>1, Zenon DEF Once
  <2>2. ASSUME NEW q \in Partition, r[1] \in Told(q), ~Pending(q, r)', multiple' # multiple
        PROVE  FALSE
    <3>1. p # q /\ r[1] \in Told(p)'
      BY <1>4, <2>2, Zenon DEF Pending
    <3>2. r[1] \notin Told(p) /\ r[1] \in fired
      BY <2>2, <3>1, Zenon DEF Once
    <3> QED BY <3>1, <3>2, ToldStep, Zenon
  <2> QED BY <2>1, <2>2, PublishedOnce, Zenon
<1> QED BY <1>1, <1>2, <1>3, <1>4, Zenon DEF Once

-----------------------------------------------------------------------------
(* Completeness of the SEEN_ON_NETWORK callbacks.                          *)

(* What was accepted is stored, and the cache denies only what a lookup missed. *)
Stored ==
    /\ accepted \cup watching \subseteq registrations
    /\ \A p \in Partition : handler[p].pc # "idle" => handler[p].before \subseteq accepted
    /\ \A t \in Txid : regCache[t] = "notRegistered" => t \in notFound

(* Where registration r is on its way through handler h. *)
Served(h, r) ==
    \/ h.pc \in {"filter", "failed"}
    \/ r[1] \in notFound
    \/ h.pc = "lookup" /\ r[1] \in h.uncached \cup h.cached
    \/ h.pc \in {"update", "cached"} /\ (r \in h.found \/ r[1] \in h.cached)
    \/ h.pc = "seen" /\ r \in h.found /\ r[2] \in h.todo
    \/ h.pc \in {"seen", "count", "multiple"} /\ <<h.msg.hash, r[1], r[2]>> \in onNetwork \cup lost

(* Every registration accepted before the handler began is on its way. *)
Serving ==
    \A p \in Partition : handler[p].pc # "idle" =>
        \A r \in handler[p].before : r[1] \in Txids[handler[p].msg.hash] => Served(handler[p], r)

(* What was accepted, published, logged or not found stays so. *)
LEMMA HistoryGrows ==
    ASSUME [Next]_vars, ~Crash
    PROVE  /\ onNetwork \subseteq onNetwork' /\ lost \subseteq lost'
           /\ notFound \subseteq notFound' /\ accepted \subseteq accepted'
           /\ registrations \subseteq registrations'
<1> DEFINE Grows == /\ onNetwork \subseteq onNetwork' /\ lost \subseteq lost'
                    /\ notFound \subseteq notFound' /\ accepted \subseteq accepted'
                    /\ registrations \subseteq registrations'
<1>1. ASSUME NEW r \in Watched, AddRegistration(r) \/ AddUrl(r) PROVE Grows
  BY <1>1, Zenon DEF AddRegistration, AddUrl, WithRegistration, history
<1>2. ASSUME NEW s \in Subtree, Announce(s) PROVE Grows
  BY <1>2, Zenon DEF Announce, history, stores
<1>3. ASSUME NEW p \in Partition, FetcherStep(p) PROVE Grows
  <2>1. CASE ReadSubtree(p) \/ FilterUncached(p) \/ LookupUncached(p) \/ UpdateCache(p)
             \/ LookupCached(p)
    BY <2>1, Zenon DEF ReadSubtree, FilterUncached, LookupUncached, UpdateCache, LookupCached,
       history, stores
  <2>2. CASE \/ \E u \in Url : PublishSeen(p, u) \/ PublishMultiple(p, u)
             \/ CountTxids(p) \/ GroupReached(p) \/ \E t \in Txid : Increment(p, t)
    BY <2>2, Zenon DEF PublishSeen, PublishMultiple, CountTxids, GroupReached, Increment,
       history, stores
  <2>3. CASE FinishSubtree(p) \/ handleTransientFailure(p)
    BY <2>3, Zenon DEF FinishSubtree, handleTransientFailure, stores
  <2> QED BY <1>3, <2>1, <2>2, <2>3, Zenon DEF FetcherStep
<1>4. ASSUME NEW p \in Partition, Commit(p) PROVE Grows
  BY <1>4, Zenon DEF Commit, history, stores
<1>5. ASSUME NEW t \in Txid, Evict(t) PROVE Grows
  BY <1>5, Zenon DEF Evict, history, stores
<1>7. UNCHANGED vars => Grows
  BY Zenon DEF vars, history, stores
<1> HIDE DEF Grows
<1>8. Grows
  BY <1>1, <1>2, <1>3, <1>4, <1>5, <1>7, ZenonT(40) DEF Next, Quiescent
<1> QED BY <1>8, Zenon DEF Grows

(* The cache is changed by UpdateCache and by what empties it. *)
LEMMA CacheSteps ==
    ASSUME TypeOK, [Next]_vars, ~Crash, NEW t \in Txid, regCache'[t] = "notRegistered"
    PROVE  regCache[t] = "notRegistered" \/ t \in notFound'
<1>1. CASE regCache' = regCache
  BY <1>1, Zenon
<1>2. ASSUME NEW p \in Partition, UpdateCache(p)
      PROVE  regCache[t] = "notRegistered" \/ t \in notFound'
  <2> DEFINE yes == TxidsOf(handler[p].found)
             no == handler[p].uncached \ yes
  <2>1. /\ regCache' = SetMultiNotRegistered(SetMultiRegistered(regCache, yes), no)
        /\ no \subseteq notFound'
    BY <1>2, Zenon DEF UpdateCache
  <2> HIDE DEF no, yes
  <2>2. regCache'[t] = IF t \in no THEN "notRegistered"
                       ELSE IF t \in yes THEN "registered" ELSE regCache[t]
    BY <2>1, Zenon DEF SetMultiNotRegistered, SetMultiRegistered
  <2>3. "registered" # "notRegistered"
    OBVIOUS
  <2> QED BY <2>1, <2>2, <2>3, Zenon
<1>3. ASSUME NEW k \in Txid, Evict(k) PROVE regCache[t] = "notRegistered"
  <2>1. regCache' = [regCache EXCEPT ![k] = "none"]
    BY <1>3, Zenon DEF Evict
  <2>2. "none" # "notRegistered"
    OBVIOUS
  <2> QED BY <2>1, <2>2, Zenon DEF TypeOK
<1>4. ASSUME NEW r \in Watched, AddRegistration(r) \/ AddUrl(r) PROVE regCache' = regCache
  BY <1>4, Zenon DEF AddRegistration, AddUrl
<1>5. ASSUME NEW s \in Subtree, Announce(s) PROVE regCache' = regCache
  BY <1>5, Zenon DEF Announce
<1>6. ASSUME NEW p \in Partition, FetcherStep(p), ~UpdateCache(p) PROVE regCache' = regCache
  BY <1>6, Zenon DEF FetcherStep, ReadSubtree, FilterUncached, LookupUncached,
     LookupCached, PublishSeen, PublishMultiple, CountTxids, Increment, GroupReached,
     FinishSubtree, handleTransientFailure
<1>7. ASSUME NEW p \in Partition, Commit(p) PROVE regCache' = regCache
  BY <1>7, Zenon DEF Commit
<1>8. UNCHANGED vars => regCache' = regCache
  BY Zenon DEF vars
<1> QED BY <1>1, <1>2, <1>3, <1>4, <1>5, <1>6, <1>7, <1>8, ZenonT(40) DEF Next, Quiescent

(* The watch endpoint stores before it answers; UpdateCache denies what it missed. *)
LEMMA StoredStep ==
    ASSUME TypeOK, TypeOK', Stored, [Next]_vars PROVE Stored'
<1>0. Idle.pc = "idle" /\ "idle" \notin Working
  BY DEF Idle, Working
<1>1. accepted' \cup watching' \subseteq registrations'
  <2>1. ASSUME NEW r \in Watched, AddRegistration(r)
        PROVE  accepted' \cup watching' \subseteq registrations'
    BY <2>1, Zenon DEF AddRegistration, WithRegistration, Stored, history
  <2>2. ASSUME NEW r \in Watched, AddUrl(r)
        PROVE  accepted' \cup watching' \subseteq registrations'
    BY <2>2, Zenon DEF AddUrl, Stored
  <2>3. CASE UNCHANGED <<accepted, watching, registrations>>
    BY <2>3, Zenon DEF Stored
  <2>4. ASSUME NEW s \in Subtree, Announce(s) PROVE UNCHANGED <<accepted, watching, registrations>>
    BY <2>4, Zenon DEF Announce, history, stores
  <2>5. ASSUME NEW p \in Partition, FetcherStep(p)
        PROVE  UNCHANGED <<accepted, watching, registrations>>
    BY <2>5, Zenon DEF FetcherStep, ReadSubtree, FilterUncached, LookupUncached, UpdateCache,
       LookupCached, PublishSeen, PublishMultiple, CountTxids, Increment, GroupReached,
       FinishSubtree, handleTransientFailure, history, stores
  <2>6. ASSUME NEW p \in Partition, Commit(p) PROVE UNCHANGED <<accepted, watching, registrations>>
    BY <2>6, Zenon DEF Commit, history, stores
  <2>7. ASSUME NEW t \in Txid, Evict(t) PROVE UNCHANGED <<accepted, watching, registrations>>
    BY <2>7, Zenon DEF Evict, history, stores
  <2>8. Crash \/ UNCHANGED vars => UNCHANGED <<accepted, watching, registrations>>
    BY Zenon DEF Crash, vars, history, stores
  <2> QED BY <2>1, <2>2, <2>3, <2>4, <2>5, <2>6, <2>7, <2>8, ZenonT(40) DEF Next, Quiescent
<1>2. ASSUME NEW p \in Partition, handler'[p].pc # "idle" PROVE handler'[p].before \subseteq accepted'
  <2>1. ~Crash
    BY <1>0, <1>2, Zenon DEF Crash
  <2>2. accepted \subseteq accepted'
    BY <2>1, HistoryGrows, Zenon
  <2>3. CASE handler'[p] = handler[p]
    BY <1>2, <2>2, <2>3, ZenonT(40) DEF Stored
  <2>4. ASSUME NEW m, handler'[p] = Handling("failed", m) \/ handler'[p] = Handling("filter", m)
        PROVE  handler'[p].before = accepted
    BY <2>4 DEF Handling
  <2>5. Handles(p) => handler[p].pc # "idle" /\ handler'[p].before = handler[p].before
    <3>1. Handles(p) => \E l, u, c, f, d, e : Becomes(p, l, u, c, f, d, e)
      BY Effects, ZenonT(40) DEF Handles
    <3>2. ASSUME NEW l, NEW u, NEW c, NEW f, NEW d, NEW e, Becomes(p, l, u, c, f, d, e)
          PROVE  handler[p].pc # "idle" /\ handler'[p].before = handler[p].before
      BY <1>0, <3>2, BusyFields, Zenon DEF Becomes, Updated
    <3> QED BY <3>1, <3>2, Zenon
  <2> QED BY <1>0, <1>2, <2>2, <2>3, <2>4, <2>5, Turns, Zenon DEF Stored
<1>3. ASSUME NEW t \in Txid, regCache'[t] = "notRegistered" PROVE t \in notFound'
  <2>1. CASE Crash
    <3>1. regCache'[t] = "none"
      BY <2>1, Zenon DEF Crash
    <3> QED BY <1>3, <3>1
  <2>2. CASE ~Crash
    BY <1>3, <2>2, CacheSteps, HistoryGrows, Zenon DEF Stored
  <2> QED BY <2>1, <2>2
<1> QED BY <1>1, <1>2, <1>3, Zenon DEF Stored

(* No step of a handler, and none of the others, loses a registration. *)
LEMMA ServingStep ==
    ASSUME TypeOK, TypeOK', Stored, Within, Serving, [Next]_vars PROVE Serving'
<1> SUFFICES ASSUME NEW p \in Partition, handler'[p].pc # "idle",
                    NEW r \in handler'[p].before, r[1] \in Txids[handler'[p].msg.hash]
             PROVE  Served(handler[p], r)'
  BY Zenon DEF Serving
<1> DEFINE h == handler[p]
           g == handler'[p]
           s == handler[p].msg.hash
           rec == <<s, r[1], r[2]>>
<1>0. Idle.pc = "idle" /\ "idle" \notin Working
  BY DEF Idle, Working
<1>1. ~Crash
  BY <1>0, Zenon DEF Crash
<1>2. onNetwork \subseteq onNetwork' /\ lost \subseteq lost' /\ notFound \subseteq notFound'
  BY <1>1, HistoryGrows, Zenon
<1>3. CASE handler'[p] = handler[p]
  <2>1. Served(h, r)
    BY <1>3, Zenon DEF Serving
  <2> QED BY <1>2, <1>3, <2>1, Zenon DEF Served
<1>4. ASSUME NEW m, handler'[p] = Handling("failed", m) \/ handler'[p] = Handling("filter", m)
      PROVE  Served(handler[p], r)'
  <2>1. handler'[p].pc \in {"filter", "failed"}
    BY <1>4 DEF Handling
  <2> QED BY <2>1, ZenonT(40) DEF Served
<1>5. ASSUME Handles(p)
      PROVE  /\ r \in Registration /\ r \in registrations /\ r[1] \in Txids[s] /\ Served(h, r)
             /\ g.msg.hash = s
  <2>1. PICK l, u, c, f, d, e : Becomes(p, l, u, c, f, d, e)
    BY <1>5, Effects, ZenonT(40) DEF Handles
  <2>2. h.pc # "idle" /\ h.before \subseteq Registration
    BY <1>0, <2>1, BusyFields, Zenon DEF Becomes
  <2>3. r \in h.before /\ g.msg = h.msg
    BY <2>1, Zenon DEF Becomes, Updated
  <2> QED BY <2>2, <2>3, Zenon DEF Serving, Stored
<1>f. /\ FilterUncached(p) \/ LookupUncached(p) \/ UpdateCache(p) \/ LookupCached(p) => Handles(p)
      /\ CountTxids(p) \/ GroupReached(p) => Handles(p)
      /\ \A u \in Url : PublishSeen(p, u) \/ PublishMultiple(p, u) => Handles(p)
      /\ \A t \in Txid : Increment(p, t) => Handles(p)
  BY Zenon DEF Handles
<1>6. CASE FilterUncached(p)
  <2> DEFINE u == {t \in Txids[s] : regCache[t] = "none"}
             c == {t \in Txids[s] : regCache[t] = "registered"}
  <2>1. Becomes(p, "lookup", u, c, h.found, h.todo, h.reached)
    BY <1>6, Effects, Zenon
  <2>2. g.pc = "lookup" /\ g.uncached = u /\ g.cached = c
    BY <2>1, Zenon DEF Becomes, Updated
  <2>6. r[1] \in Txids[s] /\ r \in Registration
    BY <1>5, <1>6, <1>f, Zenon
  <2>3. r[1] \in Txid
    BY <2>6, PairFields, Zenon
  <2>4. regCache[r[1]] \in {"none", "registered", "notRegistered"}
    BY <2>3, Zenon DEF TypeOK
  <2>5. r[1] \in u \cup c \/ r[1] \in notFound
    BY <2>3, <2>4, <2>6, Zenon DEF Stored
  <2> HIDE DEF u, c
  <2> QED BY <1>2, <2>2, <2>5, Zenon DEF Served
<1>7. CASE LookupUncached(p)
  <2>1. h.pc = "lookup"
    BY <1>7, Zenon DEF LookupUncached, At
  <2>2. CASE Becomes(p, "failed", h.uncached, h.cached, h.found, h.todo, h.reached)
    <3>1. g.pc = "failed"
      BY <2>2, Zenon DEF Becomes, Updated
    <3> QED BY <3>1, Zenon DEF Served
  <2>3. CASE Becomes(p, "update", h.uncached, h.cached, RegistrationsOf(h.uncached), h.todo, h.reached)
    <3>1. g.pc = "update" /\ g.cached = h.cached /\ g.found = RegistrationsOf(h.uncached)
      BY <2>3, ZenonT(30) DEF Becomes, Updated
    <3>2. r[1] \in notFound \/ r[1] \in h.uncached \/ r[1] \in h.cached
      BY <1>5, <1>7, <1>f, <2>1, ZenonT(40) DEF Served
    <3>3. r[1] \in h.uncached => r \in RegistrationsOf(h.uncached)
      BY <1>5, <1>7, <1>f, Zenon DEF RegistrationsOf
    <3> QED BY <1>2, <3>1, <3>2, <3>3, Zenon DEF Served
  <2> QED BY <1>7, <2>2, <2>3, Effects, Zenon
<1>8. CASE UpdateCache(p)
  <2>1. h.pc = "update"
    BY <1>8, Zenon DEF UpdateCache, At
  <2>2. Becomes(p, "cached", h.uncached, h.cached, h.found, h.todo, h.reached)
    BY <1>8, Effects, Zenon
  <2>3. g.pc = "cached" /\ g.cached = h.cached /\ g.found = h.found
    BY <2>2, ZenonT(30) DEF Becomes, Updated
  <2>4. r[1] \in notFound \/ r \in h.found \/ r[1] \in h.cached
    BY <1>5, <1>8, <1>f, <2>1, ZenonT(40) DEF Served
  <2> QED BY <1>2, <2>3, <2>4, Zenon DEF Served
<1>9. CASE LookupCached(p)
  <2>1. h.pc = "cached"
    BY <1>9, Zenon DEF LookupCached, At
  <2>2. CASE Becomes(p, "seen", h.uncached, h.cached, CallbackURLs(p), UrlsOf(CallbackURLs(p)), h.reached)
    <3>1. g.pc = "seen" /\ g.found = CallbackURLs(p) /\ g.todo = UrlsOf(CallbackURLs(p))
      BY <2>2, ZenonT(40) DEF Becomes, Updated
    <3>2. r[1] \in notFound \/ r \in h.found \/ r[1] \in h.cached
      BY <1>5, <1>9, <1>f, <2>1, ZenonT(40) DEF Served
    <3>3. r[1] \in notFound \/ r \in CallbackURLs(p)
      BY <1>5, <1>9, <1>f, <3>2, Zenon DEF CallbackURLs, RegistrationsOf
    <3>4. r \in CallbackURLs(p) => r[2] \in UrlsOf(CallbackURLs(p))
      BY Zenon DEF UrlsOf
    <3> QED BY <1>2, <3>1, <3>3, <3>4, Zenon DEF Served
  <2>3. CASE /\ Becomes(p, "seen", h.uncached, h.cached, h.found, UrlsOf(h.found), h.reached)
             /\ lost' = lost \cup ({s} \X h.cached \X Url)
    <3>1. g.pc = "seen" /\ g.found = h.found /\ g.todo = UrlsOf(h.found)
      BY <2>3, Zenon DEF Becomes, Updated
    <3>5. g.msg.hash = s /\ r \in Registration
      BY <1>5, <1>9, <1>f, ZenonT(40)
    <3>2. r[1] \in notFound \/ r \in h.found \/ r[1] \in h.cached
      BY <1>5, <1>9, <1>f, <2>1, ZenonT(40) DEF Served
    <3>3. r[1] \in h.cached => rec \in lost'
      <4>1. r[2] \in Url
        BY <3>5, PairFields, Zenon
      <4> QED BY <2>3, <4>1, ZenonT(40)
    <3>4. r \in h.found => r[2] \in UrlsOf(h.found)
      BY Zenon DEF UrlsOf
    <3> QED BY <1>2, <3>1, <3>2, <3>3, <3>4, <3>5, ZenonT(40) DEF Served
  <2> QED BY <1>9, <2>2, <2>3, Effects, Zenon
<1>10. ASSUME NEW v \in Url, PublishSeen(p, v) PROVE Served(handler[p], r)'
  <2>1. h.pc = "seen"
    BY <1>10, Zenon DEF PublishSeen, At
  <2>2. Becomes(p, "seen", h.uncached, h.cached, h.found, h.todo \ {v}, h.reached)
    BY <1>10, Effects, Zenon
  <2>3. g.pc = "seen" /\ g.found = h.found /\ g.todo = h.todo \ {v}
    BY <2>2, Zenon DEF Becomes, Updated
  <2>7. g.msg.hash = s /\ Served(h, r)
    BY <1>5, <1>10, <1>f, ZenonT(40)
  <2>4. \/ r[1] \in notFound
        \/ r \in h.found /\ r[2] \in h.todo
        \/ rec \in onNetwork \cup lost
    BY <2>1, <2>7, ZenonT(40) DEF Served
  <2>5. r \in h.found /\ r[2] = v => rec \in onNetwork' \cup lost'
    <3>1. r \in h.found /\ r[2] = v => rec \in Batch(p, v)
      BY Zenon DEF Batch
    <3> QED BY <1>10, <3>1, Zenon DEF PublishSeen
  <2>6. rec \in onNetwork \cup lost => rec \in onNetwork' \cup lost'
    BY <1>2, Zenon
  <2> QED BY <1>2, <2>3, <2>4, <2>5, <2>6, <2>7, Zenon DEF Served
<1>11. CASE CountTxids(p)
  <2>1. h.pc = "seen" /\ h.todo = {}
    BY <1>11, Zenon DEF CountTxids, At
  <2>2. Becomes(p, "count", h.uncached, h.cached, h.found, TxidsOf(h.found), h.reached)
    BY <1>11, Effects, Zenon
  <2>3. g.pc = "count"
    BY <2>2, Zenon DEF Becomes, Updated
  <2>5. g.msg.hash = s /\ Served(h, r)
    BY <1>5, <1>11, <1>f, ZenonT(40)
  <2>4. r[1] \in notFound \/ rec \in onNetwork \cup lost
    BY <2>1, <2>5, ZenonT(40) DEF Served
  <2> QED BY <1>2, <2>3, <2>4, <2>5, Zenon DEF Served
<1>12. ASSUME \/ GroupReached(p) \/ \E t \in Txid : Increment(p, t)
              \/ \E u \in Url : PublishMultiple(p, u)
       PROVE  Served(handler[p], r)'
  <2>1. h.pc \in {"count", "multiple"}
    BY <1>12, Zenon DEF GroupReached, Increment, PublishMultiple, At
  <2>2. \E u, c, f, d, e : Becomes(p, "count", u, c, f, d, e) \/ Becomes(p, "multiple", u, c, f, d, e)
    BY <1>12, Effects, Zenon
  <2>3. g.pc \in {"count", "multiple"}
    BY <2>2, Zenon DEF Becomes, Updated
  <2>5. g.msg.hash = s /\ Served(h, r)
    BY <1>5, <1>12, <1>f, ZenonT(40)
  <2>4. r[1] \in notFound \/ rec \in onNetwork \cup lost
    BY <2>1, <2>5, ZenonT(40) DEF Served
  <2> QED BY <1>2, <2>3, <2>4, <2>5, Zenon DEF Served
<1>13. Handles(p) => Served(handler[p], r)'
  BY <1>6, <1>7, <1>8, <1>9, <1>10, <1>11, <1>12, ZenonT(40) DEF Handles
<1> QED BY <1>0, <1>3, <1>4, <1>13, Turns, Zenon

-----------------------------------------------------------------------------
(* The cache of processed hashes.                                          *)

(* The keys of a cache. *)
KeysOf(K, cache) == {k \in K : Contains(cache, k)}

(* The elements of a sequence behind a new first one. *)
LEMMA PrependFacts ==
    ASSUME NEW M, NEW seq \in Seq(M), NEW x \in M
    PROVE  /\ Len(<<x>> \o seq) = Len(seq) + 1
           /\ (<<x>> \o seq)[1] = x
           /\ \A n \in 1..Len(seq) : (<<x>> \o seq)[n + 1] = seq[n]
OBVIOUS

(* The facts about the size of finite sets that the proofs rest on; they are
   proved at the end, from the library's theorems. *)
SetCounts ==
    /\ Cardinality({}) = 0
    /\ \A S : \A T \in SUBSET S : IsFiniteSet(S) =>
           /\ IsFiniteSet(T) /\ Cardinality(T) \in Nat /\ Cardinality(S) \in Nat
           /\ Cardinality(T) <= Cardinality(S)
           /\ Cardinality(S) = Cardinality(T) => S = T
    /\ \A S, x : IsFiniteSet(S) /\ x \notin S => Cardinality(S \cup {x}) = Cardinality(S) + 1

(* The count of a finite set and of a part of it. *)
LEMMA PartCount ==
    ASSUME SetCounts, NEW S, IsFiniteSet(S), NEW T \in SUBSET S
    PROVE  /\ IsFiniteSet(T) /\ Cardinality(T) \in Nat /\ Cardinality(S) \in Nat
           /\ Cardinality(T) <= Cardinality(S)
           /\ Cardinality(S) = Cardinality(T) => S = T
BY Zenon DEF SetCounts

(* One more element counts one more. *)
LEMMA OneMore ==
    ASSUME SetCounts, NEW S, IsFiniteSet(S), NEW x, x \notin S
    PROVE  Cardinality(S \cup {x}) = Cardinality(S) + 1
BY Zenon DEF SetCounts

(* An Increment counts the subtree its handler was given. *)
LEMMA CountedStep ==
    ASSUME SetCounts, TypeOK, TypeOK', AtMessage, Keyed, Within, Counted, [Next]_vars PROVE Counted'
<1> SUFFICES ASSUME NEW t \in Txid
             PROVE  /\ t \in fired' => Cardinality(seen'[t]) >= SeenThreshold
                    /\ \A s \in seen'[t] : t \in Txids[s] /\ OnLog(s)'
  BY ZenonT(40) DEF Counted, OnLog, Log
<1>0. seen[t] \subseteq Subtree /\ seen'[t] \subseteq Subtree
  BY ZenonT(40) DEF TypeOK
<1>1. /\ t \in fired => Cardinality(seen[t]) >= SeenThreshold
      /\ \A s \in seen[t] : t \in Txids[s] /\ OnLog(s)'
  BY <1>0, AnnouncedStays, Zenon DEF Counted
<1>2. CASE UNCHANGED <<seen, fired>>
  BY <1>1, <1>2, ZenonT(40)
<1>3. ASSUME NEW p \in Partition, NEW k \in Txid, Increment(p, k)
      PROVE  /\ t \in fired' => Cardinality(seen'[t]) >= SeenThreshold
             /\ \A s \in seen'[t] : t \in Txids[s] /\ OnLog(s)'
  <2>1. handler[p].pc # "idle" /\ k \in Txids[handler[p].msg.hash]
    <3>1. handler[p].pc = "count" /\ k \in handler[p].todo
      BY <1>3, Zenon DEF Increment, At
    <3>2. "count" # "idle"
      OBVIOUS
    <3> QED BY <3>1, <3>2, Zenon DEF Within
  <2>0. PICK h \in Subtree : h = handler[p].msg.hash /\ OnLog(h)
    BY <2>1, AtAnnounced, Zenon
  <2>2. OnLog(h)' /\ k \in Txids[h]
    BY <2>0, <2>1, AnnouncedStays, Zenon
  <2> DEFINE counted == seen[k] \cup {h}
  <2>3. /\ seen' = seen \/ seen' = [seen EXCEPT ![k] = counted]
        /\ fired' = fired \/ /\ fired' = fired \cup {k} /\ Cardinality(counted) >= SeenThreshold
                             /\ seen' = [seen EXCEPT ![k] = counted]
    BY <1>3, <2>0, IncrementEffect, Zenon
  <2>4. seen'[t] = seen[t] \/ (t = k /\ seen'[t] = counted)
    BY <2>3, Zenon DEF TypeOK
  <2>5. \A s \in seen'[t] : t \in Txids[s] /\ OnLog(s)'
    <3>1. CASE t = k /\ seen'[t] = counted
      <4> SUFFICES ASSUME NEW s \in seen'[t] PROVE t \in Txids[s] /\ OnLog(s)'
        OBVIOUS
      <4>1. s \in seen[t] \/ s = h
        BY <3>1, Zenon
      <4> QED BY <1>1, <2>2, <3>1, <4>1, Zenon
    <3> QED BY <1>1, <2>4, <3>1, Zenon
  <2>6. Cardinality(seen[t]) <= Cardinality(seen'[t])
           /\ Cardinality(seen[t]) \in Nat /\ Cardinality(seen'[t]) \in Nat
    <3>1. IsFiniteSet(Subtree)
      BY FetcherAssumption, ZenonT(40)
    <3>2. IsFiniteSet(seen[t]) /\ IsFiniteSet(seen'[t])
      BY <1>0, <3>1, PartCount, Zenon
    <3>3. seen[t] \subseteq seen'[t]
      BY <2>4, Zenon
    <3> QED BY <3>2, <3>3, PartCount, ZenonT(40)
  <2>7. ASSUME t \in fired' PROVE Cardinality(seen'[t]) >= SeenThreshold
    <3>1. t \in fired \/ (t = k /\ seen'[t] = counted /\ Cardinality(counted) >= SeenThreshold)
      <4>1. seen' = [seen EXCEPT ![k] = counted] => seen'[k] = counted
        BY Zenon DEF TypeOK
      <4> QED BY <2>3, <2>7, <4>1, ZenonT(40)
    <3>2. CASE t \in fired
      <4>1. Cardinality(seen[t]) >= SeenThreshold /\ SeenThreshold \in Nat
        BY <1>1, <3>2, FetcherAssumption
      <4> QED BY <2>6, <4>1
    <3> QED BY <3>1, <3>2, Zenon
  <2> QED BY <2>5, <2>7, ZenonT(40)
<1> QED BY <1>2, <1>3, CounterSteps, Zenon

(* A cache with room for all keys evicts none. *)
LEMMA AddNew ==
    ASSUME SetCounts, NEW K, IsFiniteSet(K), NEW cache \in Seq(K), NEW key \in K, ~Contains(cache, key),
           Len(cache) = Cardinality(KeysOf(K, cache)), NEW size \in Int, size >= Cardinality(K)
    PROVE  /\ \A k \in K : Contains(Add(cache, size, key), k) <=> k = key \/ Contains(cache, k)
           /\ Len(Add(cache, size, key)) = Cardinality(KeysOf(K, Add(cache, size, key)))
<1> DEFINE new == Add(cache, size, key)
           old == KeysOf(K, cache)
<1>1. old \in SUBSET K /\ old # K /\ key \notin old
  BY Zenon DEF KeysOf
<1> HIDE DEF old
<1>2. /\ IsFiniteSet(old) /\ Cardinality(old) \in Nat
      /\ Cardinality(old) <= Cardinality(K) /\ Cardinality(K) \in Nat
      /\ Cardinality(old) # Cardinality(K)
  BY <1>1, PartCount, Zenon
<1>3. Len(cache) = Cardinality(old)
  BY Zenon DEF old
<1>4. Len(cache) < Capacity(size)
  BY <1>2, <1>3 DEF Capacity
<1>5. new = <<key>> \o cache
  BY <1>4, Zenon DEF Add
<1>6. Len(new) = Len(cache) + 1 /\ new[1] = key /\ \A n \in 1..Len(cache) : new[n + 1] = cache[n]
  <2> DEFINE pre == <<key>> \o cache
  <2>1. Len(pre) = Len(cache) + 1 /\ pre[1] = key /\ \A n \in 1..Len(cache) : pre[n + 1] = cache[n]
    BY PrependFacts
  <2>2. new = pre
    BY <1>5
  <2> HIDE DEF pre, new
  <2> QED BY <2>1, <2>2, Zenon
<1> HIDE DEF new
<1>7. ASSUME NEW k \in K PROVE Contains(new, k) <=> k = key \/ Contains(cache, k)
  <2>1. Contains(new, k) => k = key \/ Contains(cache, k)
    BY AddContains, Zenon DEF new
  <2>2. 1 \in 1..Len(new) /\ \A n \in 1..Len(cache) : n + 1 \in 1..Len(new)
    <3>1. Len(cache) \in Nat
      OBVIOUS
    <3> QED BY <1>6, <3>1
  <2> QED BY <1>6, <2>1, <2>2, Zenon DEF Contains
<1>8. KeysOf(K, new) = old \cup {key}
  BY <1>7, Zenon DEF KeysOf, old
<1>9. Cardinality(KeysOf(K, new)) = Cardinality(old) + 1
  BY <1>1, <1>2, <1>8, OneMore, ZenonT(40)
<1> QED BY <1>3, <1>6, <1>7, <1>9, Zenon DEF new

(* With room for all subtrees the cache holds exactly the completed ones, each once,
   and a handler works on one that is not in it. *)
Exact ==
    DedupSize >= Cardinality(Subtree) =>
        /\ Len(dedupCache) = Cardinality(KeysOf(Subtree, dedupCache))
        /\ \A s \in Subtree : processed[s] <= 1 /\ (processed[s] # 0 => Contains(dedupCache, s))
        /\ \A p \in Partition :
               handler[p].pc # "idle" => ~Contains(dedupCache, handler[p].msg.hash)

(* The end of a subtree that the cache does not hold. *)
LEMMA ExactCompleted ==
    ASSUME SetCounts, TypeOK, TypeOK', AtMessage, Keyed, Exact, NEW q \in Partition, NEW s \in Subtree,
           PartitionOf[s] = q, ~Contains(dedupCache, s), Completed(q, s)
    PROVE  Exact'
<1> SUFFICES ASSUME DedupSize >= Cardinality(Subtree)
             PROVE  /\ Len(dedupCache') = Cardinality(KeysOf(Subtree, dedupCache'))
                    /\ \A k \in Subtree : processed'[k] <= 1 /\ (processed'[k] # 0 => Contains(dedupCache', k))
                    /\ \A p \in Partition :
                           handler'[p].pc # "idle" => ~Contains(dedupCache', handler'[p].msg.hash)
  BY Zenon DEF Exact
<1>1. /\ Len(dedupCache) = Cardinality(KeysOf(Subtree, dedupCache))
      /\ \A k \in Subtree : processed[k] <= 1 /\ (processed[k] # 0 => Contains(dedupCache, k))
      /\ \A p \in Partition : handler[p].pc # "idle" => ~Contains(dedupCache, handler[p].msg.hash)
  BY Zenon DEF Exact
<1>2. dedupCache' = Add(dedupCache, DedupSize, s) /\ dedupCache \in Seq(Subtree)
      /\ IsFiniteSet(Subtree) /\ DedupSize \in Int
  BY FetcherAssumption, Zenon DEF Completed, TypeOK
<1>3. /\ \A k \in Subtree : Contains(dedupCache', k) <=> k = s \/ Contains(dedupCache, k)
      /\ Len(dedupCache') = Cardinality(KeysOf(Subtree, dedupCache'))
  BY <1>1, <1>2, AddNew, ZenonT(40)
<1>4. ASSUME NEW k \in Subtree
      PROVE  processed'[k] <= 1 /\ (processed'[k] # 0 => Contains(dedupCache', k))
  <2>1. processed' = [processed EXCEPT ![s] = processed[s] + 1] /\ processed \in [Subtree -> Nat]
    BY ZenonT(40) DEF Completed, TypeOK
  <2>2. CASE k = s
    <3>1. processed[s] = 0 /\ processed'[s] = 1 /\ Contains(dedupCache', s)
      BY <1>1, <1>3, <2>1
    <3> QED BY <2>2, <3>1
  <2>3. CASE k # s
    BY <1>1, <1>3, <2>1, <2>3, Zenon
  <2> QED BY <2>2, <2>3, ZenonT(40)
<1>5. ASSUME NEW p \in Partition, handler'[p].pc # "idle"
      PROVE  ~Contains(dedupCache', handler'[p].msg.hash)
  <2>1. p # q /\ handler'[p] = handler[p]
    <3>1. Idle.pc = "idle"
      BY ZenonT(40) DEF Idle
    <3>2. handler' = [handler EXCEPT ![q] = Idle]
      BY Zenon DEF Completed, Holds
    <3> QED BY <1>5, <3>1, <3>2, ZenonT(40) DEF TypeOK
  <2>2. HasMessage(topic[p]) /\ handler[p].msg = Message(topic[p])
    BY <1>5, <2>1, Zenon DEF AtMessage
  <2>3. /\ topic[p].next \in 1..Len(Log(p)) /\ handler[p].msg = Log(p)[topic[p].next]
        /\ handler[p].msg \in Announcement
    BY <2>2, Topics, Zenon
  <2>4. PartitionOf[handler[p].msg.hash] = p
    BY <2>3, ZenonT(40) DEF Keyed, Log
  <2>5. handler[p].msg.hash \in Subtree /\ handler[p].msg.hash # s
    BY <2>1, <2>3, <2>4, ZenonT(40) DEF Announcement
  <2> QED BY <1>1, <1>3, <1>5, <2>1, <2>5, ZenonT(40)
<1> QED BY <1>3, <1>4, <1>5, ZenonT(40)

(* The message of partition p is keyed to p. *)
LEMMA MessageKeyed ==
    ASSUME TypeOK, Keyed, NEW p \in Partition, HasMessage(topic[p])
    PROVE  Message(topic[p]).hash \in Subtree /\ PartitionOf[Message(topic[p]).hash] = p
<1>1. /\ topic[p].next \in 1..Len(Log(p)) /\ Message(topic[p]) = Log(p)[topic[p].next]
      /\ Message(topic[p]) \in Announcement
  BY Topics, Zenon
<1>2. PartitionOf[Message(topic[p]).hash] = p
  BY <1>1, Zenon DEF Keyed, Log
<1> QED BY <1>1, <1>2, ZenonT(40) DEF Announcement

(* Only the end of a subtree changes the cache, and one handler works on it. *)
LEMMA ExactStep ==
    ASSUME SetCounts, TypeOK, TypeOK', AtMessage, Keyed, Remembered, Exact, [Next]_vars PROVE Exact'
<1>0. Idle.pc = "idle" /\ "idle" \notin Working
  BY ZenonT(40) DEF Idle, Working
<1>1. ASSUME UNCHANGED <<dedupCache, processed>>,
             \A p \in Partition : handler'[p].pc # "idle" =>
                 \/ handler[p].pc # "idle" /\ handler'[p].msg = handler[p].msg
                 \/ ~Contains(dedupCache, handler'[p].msg.hash)
      PROVE  Exact'
  BY <1>1, Zenon DEF Exact
<1>2. CASE UNCHANGED <<dedupCache, processed, handler>>
  BY <1>1, <1>2, Zenon
<1>3. ASSUME NEW q \in Partition, Continues(q) PROVE Exact'
  <2>1. UNCHANGED <<dedupCache, processed>>
    BY <1>3, Zenon DEF Continues
  <2>2. /\ handler[q].pc # "idle" /\ handler'[q].msg = handler[q].msg
        /\ \A p \in Partition : p # q => handler'[p] = handler[p]
    BY <1>0, <1>3, BusyFields, Zenon DEF Continues, Becomes, Updated
  <2> QED BY <1>1, <2>1, <2>2, Zenon
<1>4. ASSUME NEW q \in Partition, ReadSubtree(q) PROVE Exact'
  <2> DEFINE m == Message(topic[q])
  <2>1. HasMessage(topic[q]) /\ m.hash \in Subtree /\ PartitionOf[m.hash] = q
    BY <1>4, MessageKeyed, Zenon DEF ReadSubtree
  <2> HIDE DEF m
  <2>2. \/ UNCHANGED <<dedupCache, processed, handler>>
        \/ ~Contains(dedupCache, m.hash) /\ Completed(q, m.hash)
        \/ /\ ~Contains(dedupCache, m.hash) /\ UNCHANGED <<dedupCache, processed>>
           /\ Holds(q, Handling("failed", m)) \/ Holds(q, Handling("filter", m))
    BY <1>4, Zenon DEF ReadSubtree, m
  <2>3. ASSUME ~Contains(dedupCache, m.hash), UNCHANGED <<dedupCache, processed>>,
               NEW l, Holds(q, Handling(l, m))
        PROVE  Exact'
    <3>1. handler'[q].msg = m
      <4>1. Handling(l, m).msg = m
        BY NewFields, ZenonT(40)
      <4> QED BY <2>3, <4>1, ZenonT(40) DEF Holds, TypeOK
    <3>2. \A p \in Partition : p # q => handler'[p] = handler[p]
      BY <2>3, ZenonT(40) DEF Holds, TypeOK
    <3> QED BY <1>1, <2>3, <3>1, <3>2, ZenonT(40)
  <2> QED BY <1>2, <2>1, <2>2, <2>3, ExactCompleted, Zenon
<1>5. ASSUME NEW q \in Partition, FinishSubtree(q) PROVE Exact'
  <2> DEFINE m == handler[q].msg
  <2>1. handler[q].pc # "idle" /\ Completed(q, m.hash)
    BY <1>5 DEF FinishSubtree, At
  <2>2. m.hash \in Subtree /\ PartitionOf[m.hash] = q
    BY <2>1, MessageKeyed, Zenon DEF AtMessage
  <2>3. CASE ~Contains(dedupCache, m.hash)
    BY <2>1, <2>2, <2>3, ExactCompleted, Zenon
  <2>4. CASE Contains(dedupCache, m.hash)
    BY <2>1, <2>4, Zenon DEF Exact
  <2> QED BY <2>3, <2>4
<1>6. ASSUME NEW q \in Partition, handleTransientFailure(q) PROVE Exact'
  <2>1. UNCHANGED <<dedupCache, processed>> /\ handler' = [handler EXCEPT ![q] = Idle]
    BY <1>6, Zenon DEF handleTransientFailure, Holds
  <2>2. \A p \in Partition : handler'[p] = Idle \/ handler'[p] = handler[p]
    BY <2>1, Zenon DEF TypeOK
  <2> QED BY <1>0, <1>1, <2>1, <2>2, Zenon
<1>7. ASSUME Crash PROVE Exact'
  <2>1. dedupCache' = <<>> /\ processed' = [s \in Subtree |-> 0]
        /\ \A p \in Partition : handler'[p] = Idle
    BY <1>7, Zenon DEF Crash
  <2>2. \A s : ~Contains(<<>>, s)
    BY DEF Contains
  <2>3. KeysOf(Subtree, <<>>) = {} /\ Len(<<>>) = 0 /\ Cardinality({}) = 0
    BY <2>2 DEF KeysOf, SetCounts
  <2>4. \A s \in Subtree : processed'[s] = 0 /\ processed'[s] <= 1
    BY <2>1
  <2> QED BY <1>0, <2>1, <2>3, <2>4, Zenon DEF Exact
<1>8. ASSUME NEW p \in Partition, Commit(p) PROVE UNCHANGED <<dedupCache, processed, handler>>
  BY <1>8, Zenon DEF Commit, history
<1>9. ASSUME NEW s \in Subtree, Announce(s) PROVE UNCHANGED <<dedupCache, processed, handler>>
  BY <1>9, Zenon DEF Announce, history
<1> QED BY <1>2, <1>3, <1>4, <1>5, <1>6, <1>7, <1>8, <1>9, Kinds, ZenonT(40)

-----------------------------------------------------------------------------
(* The theorems.                                                           *)

(***************************************************************************)
(* The inductive invariant: the logs and where the handlers are in them,   *)
(* what a hash in the cache stands for, whom a threshold was told to, and  *)
(* where each registration is on its way.                                  *)
(***************************************************************************)
IInv ==
    /\ TypeOK
    /\ AtMessage /\ Keyed /\ AttemptsBounded
    /\ Remembered /\ InLog /\ NothingForgotten /\ Exact
    /\ Within /\ Counted /\ Once
    /\ Stored /\ Serving

(* The invariant holds at the start. *)
LEMMA Initially == ASSUME SetCounts, Init PROVE IInv
<1>1. TypeOK
  <2>1. EmptyPartition \in PartitionOfType(Announcement)
    BY DEF EmptyPartition, PartitionOfType, NoOffset
  <2>2. budget \in [announce : Nat, fault : Nat, crash : Nat, evict : Nat]
    BY DEF Init
  <2>3. dedupCache \in Seq(Subtree) /\ processed \in [Subtree -> Nat] /\ multiple \in [Registration -> Nat]
    BY DEF Init
  <2> QED BY <2>1, <2>2, <2>3, ZenonT(40) DEF Init, TypeOK
<1>2. \A p \in Partition : /\ handler[p].pc = "idle" /\ Log(p) = <<>> /\ topic[p].next = 1
                           /\ Len(Log(p)) = 0
  BY DEF Init, Idle, EmptyPartition, Log
<1>3. dedupCache = <<>> /\ \A s : ~Contains(dedupCache, s)
  BY DEF Init, Contains
<1>4. AtMessage /\ Within /\ Serving
  BY <1>2, Zenon DEF AtMessage, Within, Serving
<1>5. Keyed /\ AttemptsBounded
  <2>1. dlq = {} /\ \A p \in Partition : 1..Len(Log(p)) = {}
    BY <1>2 DEF Init
  <2> QED BY <2>1, ZenonT(40) DEF Keyed, AttemptsBounded, Log
<1>6. Remembered
  BY <1>3, Zenon DEF Remembered
<1>7. InLog /\ NothingForgotten
  <2>1. ASSUME NEW p \in Partition PROVE topic[p].next <= Len(Log(p)) + 1 /\ 1..(topic[p].next - 1) = {}
    BY <1>2
  <2> QED BY <2>1, Zenon DEF InLog, NothingForgotten
<1>8. Exact
  <2>1. KeysOf(Subtree, dedupCache) = {} /\ Len(dedupCache) = 0 /\ Cardinality({}) = 0
    BY <1>3 DEF KeysOf, SetCounts
  <2>2. \A s \in Subtree : processed[s] = 0 /\ processed[s] <= 1
    BY DEF Init
  <2> QED BY <1>2, <2>1, <2>2, Zenon DEF Exact
<1>9. Counted
  BY Zenon DEF Init, Counted
<1>10. Once
  <2>1. \A r \in Registration : multiple[r] = 0 /\ multiple[r] <= 1
    BY DEF Init
  <2> QED BY <1>2, <2>1, ZenonT(40) DEF Once, Told, Pending
<1>11. Stored
  <2>1. \A t \in Txid : regCache[t] # "notRegistered"
    BY DEF Init
  <2>2. accepted = {} /\ watching = {}
    BY Zenon DEF Init
  <2> QED BY <1>2, <2>1, <2>2, ZenonT(40) DEF Stored
<1> QED BY <1>1, <1>4, <1>5, <1>6, <1>7, <1>8, <1>9, <1>10, <1>11, ZenonT(40) DEF IInv

(* Every step preserves the invariant. *)
LEMMA Inductive == ASSUME SetCounts, IInv, [Next]_vars PROVE IInv'
<1>1. TypeOK /\ TypeOK'
  BY TypeStep, Zenon DEF IInv
<1>2. AtMessage' /\ Keyed' /\ AttemptsBounded'
  BY <1>1, AtMessageStep, KeyedStep, AttemptsStep, Zenon DEF IInv
<1>3. Remembered' /\ InLog' /\ NothingForgotten' /\ Exact'
  BY <1>1, RememberedStep, InLogStep, ForgottenStep, ExactStep, Zenon DEF IInv
<1>4. Within' /\ Counted' /\ Once'
  BY <1>1, WithinStep, CountedStep, OnceStep, Zenon DEF IInv
<1>5. Stored' /\ Serving'
  BY <1>1, StoredStep, ServingStep, Zenon DEF IInv
<1> QED BY <1>1, <1>2, <1>3, <1>4, <1>5, Zenon DEF IInv

-----------------------------------------------------------------------------
(* The theorems about finite sets, which are needed here only. *)
FST == INSTANCE FiniteSetTheorems

(* The counts are those of the theorems. *)
LEMMA Counts == SetCounts
<1>1. /\ \A S : Cardinality(S) = FST!Cardinality(S)
      /\ \A S : IsFiniteSet(S) <=> FST!IsFiniteSet(S)
  BY Zenon DEF Cardinality, FST!Cardinality, IsFiniteSet, FST!IsFiniteSet
<1>2. Cardinality({}) = 0
  BY <1>1, FST!FS_EmptySet, ZenonT(40)
<1>3. ASSUME NEW S, IsFiniteSet(S), NEW T \in SUBSET S
      PROVE  /\ IsFiniteSet(T) /\ Cardinality(T) \in Nat /\ Cardinality(S) \in Nat
             /\ Cardinality(T) <= Cardinality(S)
             /\ Cardinality(S) = Cardinality(T) => S = T
  BY <1>1, <1>3, FST!FS_Subset, FST!FS_CardinalityType, ZenonT(40)
<1>4. ASSUME NEW S, NEW x, IsFiniteSet(S), x \notin S
      PROVE  Cardinality(S \cup {x}) = Cardinality(S) + 1
  BY <1>1, <1>4, FST!FS_AddElement, ZenonT(40)
<1> QED BY <1>2, <1>3, <1>4, ZenonT(40) DEF SetCounts

(* The invariant holds in every reachable state, for every value of the constants. *)
THEOREM Invariance == Spec => []IInv
<1>1. Init => IInv
  BY Counts, Initially
<1>2. IInv /\ [Next]_vars => IInv'
  BY Counts, Inductive
<1> QED BY <1>1, <1>2, PTL DEF Spec

(* Every variable has its type, for every set of subtrees, transactions and URLs. *)
THEOREM FetcherTypes == Spec => []TypeOK
<1>1. IInv => TypeOK
  BY ZenonT(40) DEF IInv
<1> QED BY <1>1, Invariance, PTL

(* A handler that is past the SEEN_ON_NETWORK loop has published every registration
   accepted before it read the announcement, but for logged errors and earlier
   lookups that did not find the txid. *)
THEOREM NoSeenLost == Spec => []SeenComplete
<1>1. IInv => SeenComplete
  <2> SUFFICES ASSUME IInv, NEW p \in Partition, At(p, "count") \/ At(p, "multiple"),
                      NEW r \in handler[p].before, r[1] \in Txids[handler[p].msg.hash]
               PROVE  \/ <<handler[p].msg.hash, r[1], r[2]>> \in onNetwork \cup lost
                      \/ r[1] \in notFound
    BY ZenonT(40) DEF SeenComplete
  <2>1. handler[p].pc \in {"count", "multiple"} /\ handler[p].pc # "idle"
    BY ZenonT(40) DEF At
  <2>2. Served(handler[p], r)
    BY <2>1, ZenonT(40) DEF IInv, Serving
  <2> QED BY <2>1, <2>2, ZenonT(40) DEF Served
<1> QED BY <1>1, Invariance, PTL

(* SEEN_MULTIPLE_NODES goes out at most once for a registration, and only when its
   txid was announced in SeenThreshold subtrees. *)
THEOREM NoMultipleTwice == Spec => []MultipleOnce
<1>1. IInv => MultipleOnce
  <2> SUFFICES ASSUME IInv, NEW r \in Registration
               PROVE  /\ multiple[r] <= 1
                      /\ multiple[r] = 1 =>
                             Cardinality({s \in Subtree : r[1] \in Txids[s] /\
                                 \E n \in 1..Len(topic[PartitionOf[s]].log) :
                                     topic[PartitionOf[s]].log[n].hash = s}) >= SeenThreshold
    BY Zenon DEF MultipleOnce
  <2> DEFINE all == {s \in Subtree : r[1] \in Txids[s] /\
                         \E n \in 1..Len(topic[PartitionOf[s]].log) :
                             topic[PartitionOf[s]].log[n].hash = s}
  <2>1. multiple[r] <= 1
    BY ZenonT(40) DEF IInv, Once
  <2>2. ASSUME multiple[r] = 1 PROVE Cardinality(all) >= SeenThreshold
    <3>1. r[1] \in Txid /\ r[1] \in fired
      <4>1. multiple[r] # 0
        BY <2>2
      <4> QED BY <4>1, PairFields, ZenonT(40) DEF IInv, Once
    <3>2. seen[r[1]] \subseteq all
      <4>1. seen[r[1]] \subseteq Subtree
        BY <3>1, ZenonT(40) DEF IInv, TypeOK
      <4> QED BY <3>1, <4>1, ZenonT(40) DEF IInv, Counted, OnLog, Log
    <3>3. Cardinality(seen[r[1]]) >= SeenThreshold
      BY <3>1, Zenon DEF IInv, Counted
    <3>4. all \subseteq Subtree
      BY Zenon
    <3> HIDE DEF all
    <3>5. IsFiniteSet(all)
      BY <3>4, FetcherAssumption, Counts, PartCount, ZenonT(40)
    <3>6. /\ Cardinality(seen[r[1]]) <= Cardinality(all)
          /\ Cardinality(seen[r[1]]) \in Nat /\ Cardinality(all) \in Nat
      BY <3>2, <3>5, Counts, PartCount, ZenonT(40)
    <3> QED BY <3>3, <3>6, FetcherAssumption
  <2> QED BY <2>1, <2>2, ZenonT(40)
<1> QED BY <1>1, Invariance, PTL

(* A subtree is processed to its end once at most in the life of the process, when the
   cache of processed hashes has room for all subtrees. *)
THEOREM NoSubtreeTwice == Spec => []ProcessedOnce
<1>1. IInv => ProcessedOnce
  BY ZenonT(40) DEF IInv, Exact, ProcessedOnce
<1> QED BY <1>1, Invariance, PTL

(* Without a crash, an announcement the consumer has passed was processed, put back,
   dead-lettered, or is one whose hand-off failed. *)
THEOREM NoAnnouncementForgotten == Spec => []NothingForgotten
<1>1. IInv => NothingForgotten
  BY ZenonT(40) DEF IInv
<1> QED BY <1>1, Invariance, PTL

(* The retries of a poison message are bounded by AttemptLimit. *)
THEOREM RetriesBounded == Spec => []AttemptsBounded
<1>1. IInv => AttemptsBounded
  BY Zenon DEF IInv
<1> QED BY <1>1, Invariance, PTL
=============================================================================
