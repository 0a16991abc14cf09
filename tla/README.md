# A TLA+ model of merkle-service

merkle-service watches the announcements of a Bitcoin (Teranode) network and
tells subscribers, by HTTP callbacks, when their transactions are seen and when
they are mined, with a partial Merkle proof (a STUMP) per subtree. This
directory holds a TLA+ model of its services, of the stores they share and of the
two algorithms they rest on, the TLC configurations that check it, and TLAPS
proofs about its three services, the SQL backend and the life cycle of the process.

## The system

```
 clients --POST /watch--> [API] ------> registration store, URL registry
                                             |                |
 network -> [P2P client] -subtree topic-> [subtree fetcher]   |
                |                  |  SEEN_*                  |
                |                  v                          |
                |            callback topic --> [callback delivery] --> HTTP
                |                  ^   ^ STUMP, BLOCK_PROCESSED
                +-block topic-> [block processor] -work topic-> [subtree workers]
                                     |                              |
                                     +--- subtree counter, blobs ---+
```

| Part | Source (under `src/internal`) | Module | State |
|---|---|---|---|
| Block processor | `block/processor.go` | `BlockPipeline` | modelled but for Health; Start and Stop as any consumer's |
| Subtree worker | `block/subtree_worker.go`, `block/subtree_processor.go` | `BlockPipeline` | modelled but for Health; Start and Stop as any consumer's |
| Subtree counter | `store/subtree_counter.go`, `store/sql/subtree_counter.go` | `BlockPipeline`, `SQLTables` | modelled |
| Subtree and STUMP blobs | `store/file_blob.go`, `subtree_store.go`, `stump_store.go` | `BlobStore`, `BlockPipeline` | writes and pruning by height |
| Subtree fetcher | `subtree/processor.go` | `SubtreeFetcher` | modelled; a batch is not split into chunks of 5000 txids |
| Watch API | `api/handlers.go`, `api/server.go` | `SubtreeFetcher`, `ProcessLifecycle` | `handleWatch`; Start, requests under way, Stop |
| Registration store, URL registry | `store/registration.go`, `store/callback_url_registry.go`, `store/sql/registration.go` | `SubtreeFetcher`, `SQLTables` | `Add`, `BatchGet`, `GetAll`; on SQL also `UpdateTTL` and expiry |
| Callback delivery | `callback/delivery.go` | `CallbackDelivery`, `StumpGate` | handler, workers, gate, dedup, timers, DLQ, Stop |
| Callback dedup store | `store/callback_dedup.go`, `store/sql/callback_dedup.go` | `CallbackDelivery`, `SQLTables` | `Exists`, `Record`; on SQL also expiry |
| Seen counter | `store/seen_counter.go`, `store/sql/seen_counter.go` | `SeenCounter`, `SQLSeenCounter`, `AerospikeSeenCounter` | modelled, statement by statement |
| Callback accumulator | `store/sql/callback_accumulator.go` | `SQLTables` | the SQL one; no service uses it any more |
| SQL backend: migrations, sweeper, dialect | `store/sql/` | `SQLStartup`, `SQLTables` | modelled |
| Kafka wrapper | `kafka/consumer.go`, `kafka/producer.go` | `KafkaPartition`, `ProcessLifecycle` | log, marked and committed offsets, redelivery; Start, sessions, Stop |
| P2P client | `p2p/client.go` | `ProcessLifecycle`, `Announce` of two modules | message loops, `publishWithRetry`, Start, Stop |
| Service life cycle, main | `service/base.go`, `cmd/merkle-service/main.go` | `ProcessLifecycle` | from the first Start to the deferred closes |
| Dedup cache | `cache/dedup_cache.go` | `DedupCache` | modelled |
| Registration cache | `cache/registration_cache.go`, `cache/improved_cache.go` | `CacheBucket`, `SubtreeFetcher` | one bucket of each type |
| STUMP builder | `stump/builder.go` | `StumpBuilder`, `StumpCodec` | `Build`; `Encode`, `MergeSTUMPs` |
| DataHub client | `datahub/client.go` | – | one call that works or fails |
| Configuration, other commands, dashboard, load tests | `config/`, `cmd/`, `tools/`, `test/` | – | no protocol of their own |

## How the modules are built

Each service is a module whose variables are the service's memory, the stores it
shares and the Kafka partitions it reads and writes. A handler is a program
counter and the locals that live across a call; an action is the code between
two calls that another goroutine or process can observe (a store, a broker, a
cache, a channel, a timer). Work inside one call is one step.

*Data.* Hashes, URLs, blobs and transactions are model values. A callback
message is its type, URL, block and subtree index. Bytes appear in two modules
only, because their properties are about bytes: `CacheBucket` keeps the pair and
the offset of each byte in a chunk, `StumpCodec` the CompactSize digits.

*Failures.* A call that can fail does so while a fault budget lasts
(`MaxFault`); where an error can hide an applied write, both outcomes are
modelled. A crash (`MaxCrash`) forgets the memory of a process and resumes its
partitions at the committed offset, which may be any offset marked so far.

*History variables* (`inits`, `starts`, `failed`, `received`, `accepted`,
`last`, ...) are read by properties and never by a guard. The bounds
`MaxAnnounce`, `MaxFault`, `MaxCrash` and `MaxEvict` limit what the environment
does, never how often a handler runs.

### BlockPipeline

`ReceiveBlock`, `InitCounter`, `PublishWork` and `FinishBlock` are
`Processor.handleMessage`: look into the dedup cache, fetch the block, set the
counter, publish one work item per subtree, prune, remember the block.
`ProcessBlockSubtree`, `PutStump`, `PublishStump`, `Decrement`, `GetUrls`,
`PublishBlockProcessed` and `ReturnWork` are the worker's `handleMessage`: read
or fetch the subtree, store the STUMP, publish a reference per URL, decrement
and, if the result is 0, publish BLOCK_PROCESSED to every registered URL.
Errors of single work items are logged and passed over, as in the code; the
history variable `failed` records them. `PutStump` takes a STUMP to be identified
by its subtree; the code identifies it by its content, which maps equal STUMPs
to one blob.

### CallbackDelivery and StumpGate

`handleMessage` registers a STUMP at the gate and `Dispatch` sends the message
into the bounded channel, which marks its offset. A worker takes it (`Take`),
waits at the gate when it is a BLOCK_PROCESSED (`GateWait`, `GateOpened`,
`GateWoken`), asks the dedup store (`Exists`), posts (`PostSucceeds`,
`PostFails`, `StumpMissing`), records (`Record`), schedules a retry (`ArmTimer`)
or gives up (`publishToDLQWithRetry`); `Return` signs off a STUMP's first attempt. Timers
fire and send on their own goroutines. `StopFlag` ... `StopConsumer` follow
`Stop` statement by statement. `StumpGate` has the gate's map of wait groups with the
panic of a negative counter.

### SubtreeFetcher

One handler per partition: `ReadSubtree`, `FilterUncached`, `LookupUncached`,
`UpdateCache`, `LookupCached`, then SEEN_ON_NETWORK per URL, an `Increment` per
transaction, SEEN_MULTIPLE_NODES per URL; `handleTransientFailure` publishes the
message again or moves it to the dead-letter topic. `AddRegistration` and
`AddUrl` are `handleWatch`. The seen counter is the abstract one, and the cache
may forget any entry; what the real ones do is the subject of the next two.

### SeenCounter and its implementations

`SeenCounter` is the promise of the interface: one atomic `Increment`, and the
threshold is reported to one call. `SQLSeenCounter` has the statements of the
transaction, under SQLite's single connection or under PostgreSQL's READ
COMMITTED with a row lock; `ImplementsPromise` is `SeenCounter`'s specification
under the refinement mapping (what is committed is what is counted).
`AerospikeSeenCounter` has the two calls of that back end.

### SQLStartup

`sql.New` in several processes on one database, whose binaries may embed
different numbers of migrations: the migration lock, `schema_migrations`, the loop
of `runMigrations` with the statements and the row of each migration in one
transaction, a crash, a failing call or a lost answer to a COMMIT anywhere. After it the
sweeper's loop over the tables (`Tick`, `IssueDelete`, `EndDelete`) and `Close`, which
cancels the sweeper and waits for it. The lock occupies a connection of the
pool while the statements take others (`HasConn`).

### SQLTables

The calls on the tables that have an `expires_at`, with the sweeper's DELETEs between
them. A call of one statement is a step; `Decrement` on SQLite and `ReadAndDelete`
read and then write in one transaction, under SQLite's snapshots (the write fails
if another connection has committed since the read) or PostgreSQL's READ
COMMITTED.

### ProcessLifecycle

`main` starts its services in order, waits for a signal, stops them in the reverse
order and closes the producers and the store registry. `StartConsumer`, `ReadReady`,
`Ready`, `Setup`, `Handle`, `ConsumeReturns` are `kafka.Consumer` with its channel
`ready`, which is made anew for every session; `Receive`, `Publish`, `Wake` the
P2P client's loops; `BeginRequest`, `EndRequest` the API server's requests. Stop
of the API server and of the P2P client has a time limit (`timedOut`), that of a
consumer has none.

`MCProcess` extends these three and `SQLSeenCounter` and puts them side by side: they
share neither a table nor a goroutine, so a behaviour exercises one of them.

### CacheBucket

A bucket of the registration cache with chunk allocation, the ring and its
generations. The three types differ in what happens when the bucket is full:
`bucketUnallocated` starts over and removes the overwritten entries from its map,
`bucketTrimmed` does so only when it counts too few valid ones, and
`bucketPreallocated` drops its first chunks and moves the others down.

### StumpBuilder and StumpCodec

`Build` as a state machine: Go's map order is any order, so each needed index is
a step (`AddIndex`), and so is each turn of the loops that compute the size
(`nextPowerOfTwo`), the height (`CountHeight`) and a level (`FinishLevel`). The
internal nodes come from go-subtree (`MakeStore`, `StoreNode`, external), one after the other.
`getNode` sums up the sizes of the levels below at every call; the model keeps that sum in
`off` and `sz` from one level to the next. Two history variables go along: `row`, this row of
the Merkle tree of Bitcoin, and `proof`, what the holder of each registered leaf has computed from
the levels of the STUMP so far. A `leaves[idx]` outside the subtree is not modelled:
the caller takes its indices from the subtree.

`StumpCodec` adds `Encode` and `MergeSTUMPs` as operators on the paths that Build
returns. The references they are checked against are written independently and
recursively: the rows of the Merkle tree, the root a holder of a leaf computes,
a BRC-0074 reader, and the STUMP of a set of leaves.

## Runs

| Run | Instance | Checks |
|---|---|---|
| `block_faults` | a block of 2 subtrees announced twice, 2 URLs, 2 processes, 1 fault, 1 crash | `TypeOK`, `BlockProcessedComplete`, `BlockProcessedLast`, `StumpRefResolves` |
| `block_live` | 2 blocks at successive heights, one of them announced again, no faults, fair | `AnnouncedIsReported`, `SubtreesPruned` |
| `delivery_faults` | 2 STUMPs and their BLOCK_PROCESSED, 2 workers, 1 retry, 1 fault, fair | `OnePlace`, `GateOrder`, `NoPanic`, `DeliveredOnce`, `AllSettled` |
| `delivery_restart` | a STUMP, a retry from an earlier release and a copy; 2 workers, 1 crash, Stop | `NoTimerSendsOnClosed`, `PanicsOnlyInStop`, `SkippedIsDelivered` |
| `fetcher` | 3 subtrees on 2 partitions (one empty), 1 transaction in two, 2 announcements, 2 faults, 1 crash, 1 eviction | `SeenComplete`, `MultipleOnce`, `ProcessedOnce`, `NothingForgotten`, `AttemptsBounded` |
| `process`: start | an old binary (1 migration) and a new one (2), both databases, pool of 2, 2 tables of 2 batches, 2 faults | `AppliedOnceInOrder`, `StartedIsMigrated`, `NeverRefused`, `DeletesWhileOpen`, `StartsEventually` |
| `process`: calls | both databases, 2 callers, 3 calls, 2 ticks of the clock, 1 fault | `RegisteredIsFound`, `FoundUntilExpiry`, `DecrementsCounted`, `EntriesAccounted` |
| `process`: life | an API server, a P2P client with 2 loops, a consumer; 2 ready channels, 2 announcements, 2 faults | `NoUseAfterClose`, `StartReturns`, `ShutdownReturns` |
| `process`: seen | SQLite, 2 callers, 3 subtrees, threshold 2, 2 faults | `ImplementsPromise` |
| `cache_bucket` | all three bucket types, 2 chunks, 3 generations, colliding keys, pairs of 2 lengths and one that does not fit | `GetIsLastSet`, `ReadsWholePair`, `FoundUntilOverwritten`, `NeverExhausted` |
| `stump_builder` | every subtree of 1 to 7 leaves with every set of registered leaves | `StumpProves`, `EncodeIsReadable`, `MergeIsBuild` |
| `block_redelivery` | 3 subtrees, 1 crash | violates `BlockProcessedMeansAll` |
| `delivery_order` | 1 STUMP and its BLOCK_PROCESSED, 1 retry | violates `StumpsBeforeBlockProcessed` |
| `seen_postgres_missed` | PostgreSQL, 2 callers, threshold 3 | violates `ReportedWhenReached` |
| `seen_aerospike_twice` | Aerospike, 2 callers, threshold 2 | violates `ReportedOnce` |

The four parts of `process` are initial states of one run, which also checks the types
of all of them (`ProcessTypeOK`).

What the passing runs show:

* However the workers interleave, whatever fails, and if a process crashes
  without redelivering one of the block's items, BLOCK_PROCESSED is the last
  message of a block for each URL and nothing is missing before it except what
  was logged as failed. STUMP references resolve until their height is reached.
* Without faults every announced block is reported, and subtrees are pruned at the
  configured height.
* In the delivery service each message is in exactly one place or settled, the
  gate releases a BLOCK_PROCESSED only after first attempts, no wait group
  panics, nothing waits for ever, no timer sends on the closed channel, and only
  Stop can make the process panic.
* The fetcher loses no announcement and no registration but those an error was
  logged for or an older negative lookup hides, and reports SEEN_MULTIPLE_NODES once.
* A migration is committed once and in order whatever starts, fails or crashes at
  the same time; a process that is up has its schema; on PostgreSQL no start is
  refused because of another; every process is up again in the end, also one
  whose Close waits for its sweeper, which ends before the database.
* A registration that was accepted is found whatever the sweeper deletes; a
  recorded callback is found exactly until it expires; no decrement is lost; an
  accumulated entry is not lost unless a `ReadAndDelete` was open while it was
  appended, and on SQLite it is returned once.
* No service uses a closed producer or registry unless its Stop ran into its time
  limit; Start returns but for the lost ready channel described below; a
  shutdown ends.
* A cache lookup never returns a stale or foreign value, for any bucket type.
* A STUMP proves its leaves for every shape of subtree up to seven leaves.

### Bounds

Two processes, partitions or workers are the smallest numbers with an
interleaving, and the handlers share nothing that needs a third. One fault and
one crash put every error path and every crash point against every interleaving;
the fetcher has two faults because a retry must be able to fail again. A second
announcement of a block is what makes the dedup cache and the counter's
reinitialisation matter. The two binaries differ in their
migrations because one then finds the other's half done. Two tables and two batches
are the fewest with a next table and a next batch, two ready channels the
fewest with a stale one. Two chunks and three generations let the ring start
over more often than generations last. Up to seven leaves, a tree
of height three has every pattern of padded levels: 5 pads the first two, 6 the
second, 7 the first. A byte
has 6 values in `StumpCodec`, so that offsets and level sizes reach the
boundary of the one-digit CompactSize (3) and block heights those of two and four
digits.

Deadlock is checked in every run: `Quiescent`, `Returned` and their like are
enabled only when the system has really come to rest.

### Fairness

`FairSpec` of `BlockPipeline` asks weak fairness of the consumer goroutines'
steps: Go schedules every runnable goroutine, and a handler is never disabled
by another one. Nothing is asked of announcements, commits or crashes. `FairSpec`
of `CallbackDelivery` asks the same of the handler, each worker and the timers; a
timer fires because its delay passes. The receiver may refuse for ever, so
`AllSettled` counts the dead-letter queue.

`StartFairness` of `SQLStartup` is weak for the statements of a process and for restarts by
the supervisor, and strong for two steps that another actor disables again and
again: the database grants a lock in the order of its queue (`AcquireLock`), and
Go's `select` takes each ready case in the end (`StopSweeper` against the ticker).
Faults are bounded, so a start fails finitely often. `LifeFairness` of
`ProcessLifecycle` is weak for main, the loops and the requests; it is strong for the
return of `Consume` once its context is cancelled, which sarama guarantees after
the handlers have returned. Signals, rebalances and announcements are never owed.

## Proofs

Every theorem holds for every value of the constants that meets the assumptions of
its module: any number of blocks, subtrees, URLs, partitions, processes,
messages, faults and crashes. Each safety property is proved from an inductive
invariant, one lemma per conjunct and in it one step per action.
What the lemmas about counting need to know about the cardinality of finite sets is
a hypothesis of theirs (`ItemCounts`, `SetCounts`, `CountsSubtrees`, `SetFacts`); it is proved from
the library's theorems at the end of the module, so no listed theorem rests on it.

**Block pipeline** (`BlockPipelineProofs`: types, what each step does, the
invariants, the counter and the order of the callbacks), under
`PipelineAssumption`.

* `TypeCorrect`: `Spec => []TypeOK`.
* `OrderInvariant`: `Spec => []IInv`. Neither `BlockProcessedComplete` nor
  `BlockProcessedLast` is inductive, because both depend on what the counter
  means. `IInv` says it: work items are in the partition of their subtree, and
  an item a worker holds is the one at its partition's position; for a block
  that went through once, the counter is the number of subtrees less the items whose
  decrement was applied (`CounterExact`); every item that is past its STUMP loop
  has each of its STUMPs on the topic or in `failed` (`StumpsAccounted`); and at
  most one worker is emitting, with all items decremented (`EmittedOnce`). The
  invariant of emission rests on the counter through one fact, `LastCompletes`: the
  decrement that returns 0 completes the set of decremented items.
* `Completeness`, `Order`: `BlockProcessedComplete` and `BlockProcessedLast`
  from `IInv`.
* `References`: `StumpRefResolves`, from the invariant `StumpsStored`: a STUMP
  that is published or about to be is on disk or its height is reached, and
  every delete-at-height of a STUMP in memory is the height of its block plus the
  offset.

**Subtree fetcher** (`SubtreeFetcherProofs`), under `FetcherAssumption`. `IInv`
says four things. Where the handlers are: each works on the message its session is at
(`AtMessage`), which is on the partition of its hash (`Keyed`), so that one handler
works on a subtree. What the dedup cache means: a hash in it was processed
(`Remembered`), and while it has room for all subtrees it holds exactly those, each
once (`Exact`). Whom a threshold was told to: a handler knows of thresholds that
fired, no two of the same one, and has not yet published what it is about to
(`Once`); a counter has counted announced subtrees that contain its txid (`Counted`,
`Within`). Where a registration is: accepted registrations are stored, the cache
denies only what a lookup missed (`Stored`), and each registration accepted before
the handler began is at the place its program counter says (`Serving`). From it:

* `FetcherTypes`: `TypeOK`; `RetriesBounded`: `AttemptsBounded`;
  `NoAnnouncementForgotten`: `NothingForgotten`;
* `NoSubtreeTwice`: `ProcessedOnce`, from `Exact`;
* `NoMultipleTwice`: `MultipleOnce`, from `Once` and `Counted`;
* `NoSeenLost`: `SeenComplete`, from `Serving`.

**Callback delivery** (`CallbackDeliveryInvariants`: what holds for every input, and where
a message is; `CallbackDeliveryProofs`: the gate), under `DeliveryAssumption`,
`IndexAssumption` (only a STUMP has a subtree index) and `HashPartitioned` (the
messages of a URL are on one partition). For every input `Base` is invariant: the
topic is a prefix of what is published (`Prefix`); what the channel, a worker or
a timer holds stands before the handler's position (`Passed`), which is why no
first attempt is ever registered twice; a retry is not a first attempt
(`Retried`); a first attempt is in one place (`FirstOnce`); keys have wait groups of
their own (`GroupsOf`); what the dedup store holds was received (`Recorders`). From it:

* `DeliveryTypes`: `TypeOK`;
* `SkipsOnlyDelivered`: `SkippedIsDelivered`;
* `NoTimerAtClosedChannel`: `NoTimerSendsOnClosed`.

On top of `Base`, `Places` says where a message is until the first crash, again for
every input. `OnePlace` alone is not inductive: it does not say that a message
the handler has not reached is nowhere, that a timer is not parked and firing
at once, or that only the worker at its dedup record holds an acknowledged message
without a fate. `Places` does, with "one place" as one singleton among three
sets, so that no step has to count; the sum of `OnePlace` is taken at the end. TLC
checked it on the input of `delivery_restart` with a fault, a crash and Stop.

* `NothingLostOrDoubled`: `OnePlace`;
* `NoSecondAcknowledgement`: `DeliveredOnce`, if the process does not crash and no two
  messages have the same dedup key. Both hypotheses are needed: a crash before the
  dedup record is written leads to a second delivery, and two messages of one key
  can both pass `Exists` before either is recorded.

What the gate promises needs that a block is reported once (`StumpsFirst`: no
STUMP stands behind the BLOCK_PROCESSED of its block and URL, the order that
theorem `Order` proves of the pipeline that publishes them). Then `IInv` is
invariant: `Base`; each wait group counts the first attempts of its key that have
registered and not signed off (`Counted`, by the cardinality of that set); a
BLOCK_PROCESSED sleeps on the group of its key while this set is not empty, and
once it has passed the set is and stays empty (`Gated`). The last part is where
`StumpsFirst` is needed: a STUMP behind it would register again. From it:

* `GateKeepsOrder`: `GateOrder`, with any number of workers, faults, crashes and
  with Stop;
* `GateNeverPanics`: `PanicsOnlyInStop`; no wait group goes below zero or is reused
  under its waiter;
* `NoPanicUnlessStopped`: `NoPanic` when Stop is not called.

**Start of the SQL backend** (`ProcessProofs`), under `StartupAssumption`
(a binary embeds some number of migrations, `ttlTables` is not empty). `StartInv`: the
statements of a version are committed with its row (`Counted`); a transaction past its
INSERT is the only one with its version (`Exclusive`, by the primary key); versions
below the loop's position are committed (`Ordered`, `Migrated`); on PostgreSQL what the
process read stays true ahead of the loop, because it holds the lock (`Locked`);
the sweeper lives while the backend does (`Sweeping`).

* `StartTypeCorrect`: `StartTypeOK`; `MigrationsOnce`: `AppliedOnceInOrder`; `SchemaComplete`: `StartedIsMigrated`;
  `LockSuffices`: `NeverRefused`; `SweeperEndsFirst`: `DeletesWhileOpen`.

**Life cycle of a process** (`ProcessProofs`), under `LifeAssumption`: main makes
each service once, and one API server and one P2P client at most. `LifeInv`: the services
behind main's position have ended or timed out and those ahead of it run
(`InOrder`); loops belong to a P2P client and sleep only before their last attempt
(`Loops`); producers are closed by the deferred calls only (`Producers`). The argument
is that Stop of a service returns in a state in which nothing of it is in use,
and that nothing of it begins again once its context is cancelled.

* `LifeTypeCorrect`: `LifeTypeOK`; `StoppedIsIdle`: `NoUseAfterClose`.

**SQL seen counter** (`SQLStoreProofs`).

* `TypeCorrect`: `TypeOK`.
* `AtMostOneReport`: `ReportedOnce` on SQLite and on PostgreSQL, because the flag
  is read under the row lock that the writer holds until it commits (`FlagInv`).
* `SQLiteImplementsPromise`: `~Postgres /\ Spec => ImplementsPromise`, the step
  simulation, from the fact that at most one transaction is open (`Serial`).

**SQL tables** (`SQLStoreProofs`), under `TablesAssumption`, for both dialects and any
number of sessions, URLs and entries. `TablesInv`: the dedup row is the one recorded
last and is deleted only when it has expired (`Recorded`); on SQLite whoever holds the write
lock has a current snapshot (`Locking`), and what a transaction with a current snapshot has
read is what the table holds (`Snapshots`), which is why a read followed by a
write loses nothing; on PostgreSQL, where a DELETE sees more than the SELECT before it,
what was not read was appended while the transaction was open (`Overlaps`); an
answered entry is in the table or was returned (`Kept`).

* `TablesTypeCorrect`: `TablesTypeOK`; `AcceptedIsReturned`: `RegisteredIsFound`;
  `RecordedUntilExpiry`: `FoundUntilExpiry`; `NoDecrementLost`: `DecrementsCounted`,
  from `Locking` and `Snapshots`; `NoEntryLost`: `EntriesAccounted`, from `Kept`.

**Cache bucket** (`CacheBucketProofs`), under `BucketAssumption`, for the three types of
bucket, any hash function, any sizes of cache, chunk, key and value, and any batches. The
assumption asks for a header of one byte or more (the code's has four) and for three generations or
more (the code has 2^24 - 1): an entry is told from one of the last lap and from one
that is two laps old by its generation alone. That `2^GenSizeBits` is a number is assumed as well,
because the provers do not know exponentiation. The invariant relates a
bucket to the history of what was stored last for each hash. `Position`: the write position is in
a chunk, the chunks up to it are there, and a ring appends to its chunk exactly at it.
`Recorded`: a map entry has the index of the pair stored last for its hash and the
generation of this lap or the last one; that pair is in its chunk byte for byte, and in the map,
until the write position of the next lap reaches it. `Slabs`: every chunk
that was allocated is in its place or free. `Set` has one lemma for each way it can go: the
pair is appended, opens the next chunk, starts the ring over with the map cleaned in either
form, makes a preallocated bucket drop and move its chunks, or is refused. In the last
case nothing changes: the code advances the generation before it asks for a chunk, but
when the ring starts over its first chunk is always there. TLC checked the invariant on
the instance of `cache_bucket`.

* `BucketSound`: the invariant. `ReadsLatest`: `GetIsLastSet`; `ReadsWhole`:
  `ReadsWholePair`; `LostOnlyWhenOverwritten`: `FoundUntilOverwritten`. An entry passes the
  test of Get if, and only if, the pair stored last for its hash is not yet overwritten.
* `GetChunkHasRoom`: `NeverExhausted`. A place without a chunk means that fewer chunks than
  `maxChunks` are in their places, so with an empty free list fewer are allocated.

**STUMP builder** (`StumpBuilderProofs`), for any number of leaves, any non-empty set of
registered ones and any order of the map iterations. The provers know nothing of exponents, so
the invariant `Inv(f)` speaks of the sequence `f` of the powers of two up to `nextPoT`, to
which each turn of `nextPowerOfTwo` appends one: level `l` is as wide as the `l`-th power from
the end. `Stored`: each internal node is the parent of its two children, of which the
zero hash is none. `Located`: `off` and `sz` are where the level starts and how
wide it is. `Rowed`: the first `realCount` nodes of the level are the row of the Merkle
tree, and all nodes behind them are padding; this is what makes `siblingIdx >= realCount`
the right test for a duplicate. `Held`: the holder of a leaf has the node above it, and
`needed` has exactly the indices of these nodes. `Looped`: the inner loop has added, for each
index it has met, the leaf that belongs at the sibling's offset (`Expected`), whoever's sibling or own
leaf it was first. That the sorted level has all of these leaves (`SortsAll`) is a counting argument:
the number of leaves with a smaller offset numbers them from 0 on.

* `BuildProves`: `StumpProves`.

Only model-checked: the liveness properties (`AnnouncedIsReported`, `SubtreesPruned`,
`AllSettled`, `StartsEventually`, `StartReturns`, `ShutdownReturns`; fairness is out of the
prover's reach); `EncodeIsReadable` and `MergeIsBuild`, which compare folds over sequences
with recursive references, so that they would need induction over data; and `ProcessTypeOK`, which puts
the four type invariants of the `process` run together: each of its parts is a theorem.

## Where the code and its documentation differ

Four runs end in a violation; `PROJECT.json` quotes the line each contradicts.

* A work item that is redelivered after its decrement is counted twice, and
  BLOCK_PROCESSED is published before the block's last STUMP.
* The gate opens after the first *attempt* of each STUMP, so a retried STUMP can
  arrive after BLOCK_PROCESSED.
* On PostgreSQL the count is taken before the lock: two concurrent increments can
  each miss the other, and the threshold is never reported.
* On Aerospike the fired flag is read and written in separate calls: two
  concurrent increments can both report.

Differences that the models have and that a property names as its exception:

* SQLite takes no migration lock, although `migrate.go:56-57` and `120-121`,
  `openspec/specs/sql-store/spec.md:39` and `docs/sql-backend.md:40-42` speak of BEGIN
  IMMEDIATE: the later of two concurrent starts is refused by the primary key of
  `schema_migrations` and has to be started again. `NeverRefused` is therefore about
  PostgreSQL;
* `Decrement` on SQLite opens a deferred transaction (`subtree_counter.go:36-38`
  says BEGIN IMMEDIATE): a concurrent decrement is not lost, it fails with
  SQLITE_BUSY, which no `busy_timeout` softens;
* registrations on SQL do not expire for readers: the sweeper deletes the parent
  row and `BatchGet` reads the child rows (`RegisteredIsFound`); `sql-store/spec.md:59-62`,
  `store-backend/spec.md:51` and `requirements.md:62` let them expire;
* on PostgreSQL an accumulator entry that is appended while a `ReadAndDelete` is
  open can be deleted unread, and two `ReadAndDelete` can return the same entry
  (`EntriesAccounted`); no service uses the accumulator;
* on PostgreSQL the migration lock occupies a connection, and with
  `maxopenconns` 1 (the default is 25, `config.go:163`) the start waits for ever for a second;
* when the first `Consume` fails before `Setup`, its goroutine replaces the channel
  `ready`, and `Consumer.Start` may wait for ever on the old one (`consumer.go:65-69`;
  `StaleReady` in `StartReturns`);
* `Stop` of the P2P client waits ten seconds while a publish with its retries may take
  longer; main then closes the producer under it (`client.go:150-154`; the
  exception `timedOut` of `NoUseAfterClose`);
* a block that is reported twice puts STUMPs behind a BLOCK_PROCESSED of the same key:
  `Wait` deletes the wait group the new STUMPs use, or is leaving it
  (`delivery.go:110-121`), so the second BLOCK_PROCESSED may not wait, or the
  wait group panics. `GateOrder` and `NoPanic` are about blocks reported once.

Behaviour that the models have and no property forbids, because the code makes
no promise about it:

* a crash between the decrement to 0 and the emission, or an expired counter,
  means no BLOCK_PROCESSED (`subtree_worker.go:175-183`);
* the delivery service marks an offset when the message enters its channel, so a crash
  loses what the channel and the timers hold (`delivery.go:371`); `OnePlace` says so by its
  condition on crashes;
* `Stop` closes the work channel before it stops the consumer, and a handler
  that is sending panics (`delivery.go:283-292`); `PanicsOnlyInStop` says that this
  and the reuse of `retryTimerWg` are the only panics;
* a failing dedup check is retried without counting against `MaxRetries`
  (`delivery.go:408-420`), and a message is attempted `MaxRetries + 1` times;
* subtrees stored in realtime mode have no delete-at-height, delete-at-heights do
  not survive a restart, and a block processor in a process of its own prunes
  nothing that the workers stored (`file_blob.go:37`, `processor.go:208`);
* a negative answer in the registration cache hides a later registration until
  it is overwritten (`subtree/processor.go:406`); `SeenComplete` says so;
* an error of a Kafka handler does not hold up its partition
  (`kafka/consumer.go:106-113`): the next success commits past it;
* the watch endpoint answers 200 when the URL registry could not be written
  (`api/handlers.go:80-88`);
* a preallocated bucket can only be created when its size is a multiple of the
  chunk size (`improved_cache.go:1080-1084`); the model is instantiated that way.

## Not modelled

* *The DataHub client and HTTP*: a fetch is one call that works or fails. Its
  retries and time limits end in one of the two, and no state outlives the call.
* *The Aerospike back ends* but for the seen counter: each call the services
  make on them is one atomic operation of the server, which is how the models of
  the services use it. The accumulator, which is not, is used by no service.
* *TTLs of Aerospike records* and of the counter's row in the pipeline beyond its
  disappearance: an expired counter is an absent one.
* *Kafka rebalancing between members*: a partition stays with its process, and a
  crash stands for the loss of a partition.
* *One specification of the pipeline and the delivery service*: they meet at the
  callback topic, which the delivery model takes as a constant input of any content;
  what it assumes of that input (`HashPartitioned`, `StumpsFirst`) is what the
  pipeline's partitioning and theorem `Order` provide.
* *The rest of `improved_cache.go`*: the cache around the buckets hashes a key to
  one of them and has no state of its own; no service calls the statistics or the
  writes of several keys with one value.
* *Configuration, JSON encoding, logging, metrics, health pages, the
  debugging dashboard, the load-test tools and the smaller commands*, which have
  no state that a property of the services depends on.
