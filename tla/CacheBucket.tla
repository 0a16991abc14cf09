---------------------------- MODULE CacheBucket ----------------------------
(***************************************************************************)
(* One bucket of internal/cache/improved_cache.go: chunks that hold        *)
(* encoded (key, value) pairs, and a map from the hash of a key to the     *)
(* index and generation of its pair.  Every operation runs under the       *)
(* bucket's lock, so an operation is one step.  bucketUnallocated (the     *)
(* registration cache's type) and bucketTrimmed are rings whose chunks are *)
(* allocated on demand; bucketPreallocated drops its first chunks and      *)
(* moves the others down when it is full.  Counters that only feed the     *)
(* statistics are left out.                                                *)
(*                                                                         *)
(* A byte of a chunk is abstracted to the pair it belongs to and its       *)
(* offset in the encoding of the pair.  A generation is kept modulo        *)
(* 2^genSizeBits, the part of b.gen that the code compares.                *)
(***************************************************************************)
EXTENDS FiniteSetsExt

CONSTANTS
    Key, Value,
    Input,          \* the (key, value) pairs that callers store alone
    Batch,          \* the batches of two pairs that callers store at once
    Hash,           \* key -> xxhash.Sum64(key)
    KeyLen,         \* key -> its length
    ValueLen,       \* the length of a value
    HeaderLen,      \* len(kvLenBuf)
    ChunkSize,
    CacheBytes,     \* the size of the cache
    BucketsCount,
    BucketType,     \* the types of bucket that are checked
    TrimRatio,      \* defaultTrimRatio: the per cent of chunks that are dropped
    GenSizeBits,
    MinSlabChunks, ChunksPerAlloc, SmallBucketChunks, SlabTarget

ASSUME BucketAssumption ==
    /\ Input \subseteq Key \X Value
    /\ Batch \subseteq (Key \X Value) \X (Key \X Value)
    /\ KeyLen \in [Key -> Nat]
    /\ ValueLen \in Nat
    /\ BucketType \subseteq {"unallocated", "trimmed", "preallocated"}
    /\ TrimRatio \in 1..100
    /\ {HeaderLen, ChunkSize, CacheBytes, BucketsCount, GenSizeBits, MinSlabChunks,
        ChunksPerAlloc, SmallBucketChunks, SlabTarget} \subseteq Nat \ {0}
    /\ 2^GenSizeBits \in Nat /\ 2^GenSizeBits > 3     \* three generations or more

VARIABLES
    b,              \* the bucket
    last,           \* history: hash -> its last stored key and value, and how
                    \* many times the ring has started over since (at most 2)
    exhausted       \* history: getChunk found the bucket at maxChunks

vars == <<b, last, exhausted>>

Hashes == {Hash[k] : k \in Key}

none == [key |-> "none"]

(* The bucket's share of the cache. *)
maxBytes ==
    LET share == CacheBytes \div BucketsCount
    IN IF share < ChunkSize THEN 8 * ChunkSize ELSE share

maxChunks == Max({1, maxBytes \div ChunkSize})

calcMaxSlabChunks ==
    LET targetBytes == Min({Max({maxBytes \div 16, MinSlabChunks * ChunkSize}), SlabTarget})
    IN Min({Max({targetBytes \div ChunkSize, MinSlabChunks}), ChunksPerAlloc, maxChunks})

calcInitialAllocChunks ==
    IF maxChunks <= SmallBucketChunks THEN maxChunks
    ELSE IF calcMaxSlabChunks <= SmallBucketChunks THEN calcMaxSlabChunks
    ELSE Max({calcMaxSlabChunks \div 4, MinSlabChunks})

maxGen == 2^GenSizeBits - 1

kvLen(k) == HeaderLen + KeyLen[k] + ValueLen

(* A chunk slot: nil, or its length and the bytes behind it up to ChunkSize. *)
Junk == [key |-> "none"]
NilChunk == [len |-> -1]
FreshChunk == [len |-> 0, bytes |-> [i \in 0..(ChunkSize - 1) |-> Junk]]

ZeroChunk == [FreshChunk EXCEPT !.len = ChunkSize]

EmptyBucket(type) ==
    [type |-> type, m |-> [h \in Hashes |-> none],
     chunks |-> [c \in 0..(maxChunks - 1) |->
                     IF type = "preallocated" THEN ZeroChunk ELSE NilChunk],
     idx |-> 0, gen |-> 1, freeChunks |-> 0, allocatedChunks |-> 0,
     nextAllocChunks |-> calcInitialAllocChunks]

Init ==
    /\ b \in {EmptyBucket(type) : type \in BucketType}
    /\ last = [h \in Hashes |-> none]
    /\ exhausted = FALSE

-----------------------------------------------------------------------------
(* The test of Get and cleanLockedMap on a map entry: written in this      *)
(* generation, or in the one before and not yet overwritten.               *)

(* Mutant of InRing: pairs of the last lap stay readable when overwritten. *)
InRingAlways(bu, v) ==
    /\ v # none
    /\ v.gen = bu.gen \/ v.gen + 1 = bu.gen \/ (v.gen = maxGen /\ bu.gen = 1)

(* Mutant of InRing: the generation after maxGen is forgotten. *)
InRingNoWrap(bu, v) ==
    /\ v # none
    /\ \/ v.gen = bu.gen /\ v.idx < bu.idx
       \/ v.gen + 1 = bu.gen /\ v.idx >= bu.idx

InRing(bu, v) ==
    /\ v # none
    /\ \/ v.gen = bu.gen /\ v.idx < bu.idx
       \/ v.gen + 1 = bu.gen /\ v.idx >= bu.idx
       \/ v.gen = maxGen /\ bu.gen = 1 /\ v.idx >= bu.idx

cleanLockedMap(bu) ==
    [bu EXCEPT !.m = [h \in Hashes |-> IF InRing(bu, bu.m[h]) THEN bu.m[h] ELSE none]]

(* The count of bucketTrimmed takes every entry of the last generation for a
   valid one, and the map is only rebuilt when the count is short. *)
Counted(bu, v) == v.gen + 1 = bu.gen \/ InRing(bu, v)

cleanLockedMapTrimmed(bu) ==
    IF \A h \in Hashes : bu.m[h] # none => Counted(bu, bu.m[h])
    THEN bu ELSE cleanLockedMap(bu)

NextGen(gen) == IF (gen + 1) % 2^GenSizeBits = 0 THEN 1 ELSE gen + 1

-----------------------------------------------------------------------------
(* getChunk: from the free list, which a new slab fills when it is empty.  *)

CanGrow(bu) == bu.allocatedChunks < maxChunks

WithSlab(bu) ==
    LET slabChunks == Min({bu.nextAllocChunks, calcMaxSlabChunks,
                           maxChunks - bu.allocatedChunks})
    IN [bu EXCEPT !.allocatedChunks = @ + slabChunks,
                  !.freeChunks = @ + slabChunks,
                  !.nextAllocChunks = Min({2 * @, calcMaxSlabChunks})]

getChunk(bu, c) ==
    LET bg == IF bu.freeChunks = 0 THEN WithSlab(bu) ELSE bu
    IN [bg EXCEPT !.freeChunks = @ - 1, !.chunks[c] = FreshChunk]

-----------------------------------------------------------------------------
(* Set.                                                                    *)

(* The room for a pair of n bytes: where it starts and in which chunk, and
   whether the ring starts over or the pair opens the next chunk. *)
Place(bu, n) ==
    LET next == (bu.idx + n) \div ChunkSize IN
    IF next = bu.idx \div ChunkSize
    THEN [idx |-> bu.idx, chunk |-> next, wraps |-> FALSE, opens |-> FALSE]
    ELSE IF next >= maxChunks
         THEN [idx |-> 0, chunk |-> 0, wraps |-> TRUE, opens |-> TRUE]
         ELSE [idx |-> next * ChunkSize, chunk |-> next, wraps |-> FALSE, opens |-> TRUE]

Wrapped(bu) == [bu EXCEPT !.gen = NextGen(@)]

Opened(bu, c) == [bu EXCEPT !.chunks[c].len = IF @ = -1 THEN -1 ELSE 0]

(* append of the header, key and value to a chunk. *)
Appended(chunk, k, v) ==
    [len |-> chunk.len + kvLen(k),
     bytes |-> [i \in 0..(ChunkSize - 1) |->
                   IF i \in chunk.len..(chunk.len + kvLen(k) - 1)
                   THEN [key |-> k, val |-> v, off |-> i - chunk.len]
                   ELSE chunk.bytes[i]]]

Fits(k) == kvLen(k) < ChunkSize

(* The bucket when Set has chosen the place, and when it has a chunk there. *)
Prepared(bu, p) ==
    LET bw == IF p.wraps THEN Wrapped(bu) ELSE bu
    IN IF p.opens THEN Opened(bw, p.chunk) ELSE bw

(* Set needs a chunk, and the free list is empty. *)
NeedsSlab(bu, k) ==
    Fits(k) /\ bu.chunks[Place(bu, kvLen(k)).chunk] = NilChunk /\ bu.freeChunks = 0

Stored(bu, k, mmapWorks) == Fits(k) /\ (NeedsSlab(bu, k) => CanGrow(bu) /\ mmapWorks)

(* Set of the rings: nothing is stored when the pair is too big or no chunk can
   be had; the generation may have advanced by then. *)
SetRing(bu, k, v, mmapWorks) ==
    LET p == Place(bu, kvLen(k))
        bp == Prepared(bu, p)
        bc == IF bp.chunks[p.chunk] = NilChunk THEN getChunk(bp, p.chunk) ELSE bp
        bs == [bc EXCEPT !.chunks[p.chunk] = Appended(@, k, v),
                         !.m[Hash[k]] = [idx |-> p.idx, gen |-> bc.gen],
                         !.idx = p.idx + kvLen(k)]
    IN IF ~Fits(k) THEN bu
       ELSE IF ~Stored(bu, k, mmapWorks) THEN bp
       ELSE bs

(* A pair that makes the ring start over is stored, and the map is cleaned. *)
Cleans(bu, k, mmapWorks) == Stored(bu, k, mmapWorks) /\ Place(bu, kvLen(k)).wraps

SetUnallocated(bu, k, v, mmapWorks) ==
    LET bs == SetRing(bu, k, v, mmapWorks)
    IN IF Cleans(bu, k, mmapWorks) THEN cleanLockedMap(bs) ELSE bs

SetTrimmed(bu, k, v, mmapWorks) ==
    LET bs == SetRing(bu, k, v, mmapWorks)
    IN IF Cleans(bu, k, mmapWorks) THEN cleanLockedMapTrimmed(bs) ELSE bs

numOfChunksToRemove == (maxChunks * TrimRatio + 99) \div 100

(* A full preallocated bucket drops its first chunks and moves the others, and
   the entries of their pairs, to the start. *)
Moved(entry) ==
    IF entry = none \/ entry.idx < numOfChunksToRemove * ChunkSize THEN none
    ELSE [entry EXCEPT !.idx = @ - numOfChunksToRemove * ChunkSize]

Trimmed(bu) ==
    LET keep == maxChunks - numOfChunksToRemove
    IN [bu EXCEPT !.chunks = [c \in DOMAIN @ |->
                                 IF c < keep THEN @[c + numOfChunksToRemove] ELSE ZeroChunk],
                  !.m = [h \in Hashes |-> Moved(@[h])],
                  !.idx = keep * ChunkSize]

SetPreallocated(bu, k, v) ==
    LET p == Place(bu, kvLen(k))
        bt == IF p.wraps THEN Trimmed(bu) ELSE [bu EXCEPT !.idx = p.idx]
        c == bt.idx \div ChunkSize
        at == [bt.chunks[c] EXCEPT !.len = bt.idx % ChunkSize]
    IN IF ~Fits(k) THEN bu
       ELSE [bt EXCEPT !.chunks[c].bytes = Appended(at, k, v).bytes,
                       !.m[Hash[k]] = [idx |-> bt.idx, gen |-> bt.gen],
                       !.idx = @ + kvLen(k)]

Set(bu, k, v, mmapWorks) ==
    CASE bu.type = "unallocated" -> SetUnallocated(bu, k, v, mmapWorks)
      [] bu.type = "trimmed" -> SetTrimmed(bu, k, v, mmapWorks)
      [] bu.type = "preallocated" -> SetPreallocated(bu, k, v)

(* History: the pair that is stored and, for all others, a lap of the ring or
   the move of the chunks. *)
Noted(la, bu, k, v) ==
    LET p == Place(bu, kvLen(k))
        moves == p.wraps /\ bu.type = "preallocated"
        idx == IF moves THEN Trimmed(bu).idx ELSE p.idx
    IN [h \in Hashes |->
           IF h = Hash[k] THEN [key |-> k, val |-> v, idx |-> idx, laps |-> 0]
           ELSE IF la[h] = none THEN none
           ELSE IF moves THEN Moved(la[h])
           ELSE IF p.wraps THEN [la[h] EXCEPT !.laps = Min({@ + 1, 2})]
           ELSE la[h]]

-----------------------------------------------------------------------------
(* Get.                                                                    *)

(* The bytes from index idx on are the whole encoding of one pair. *)
WholePair(bu, idx) ==
    LET c == bu.chunks[idx \div ChunkSize]
        o == idx % ChunkSize
    IN /\ c # NilChunk /\ c.bytes[o] # Junk
       /\ \A i \in 0..(kvLen(c.bytes[o].key) - 1) :
              o + i < ChunkSize /\ c.bytes[o + i] = [c.bytes[o] EXCEPT !.off = i]

PairAt(bu, idx) == bu.chunks[idx \div ChunkSize].bytes[idx % ChunkSize]

(* Mutant of KeyMatches: the hash is taken for the key. *)
KeyMatches0(pair, k) == TRUE

KeyMatches(pair, k) == pair.key = k

(* The length checks of Get, which take the pair for corrupted data. *)
Corrupted(idx, pair) ==
    \/ (idx % ChunkSize) + HeaderLen >= ChunkSize
    \/ (idx % ChunkSize) + kvLen(pair.key) >= ChunkSize

Get(bu, k) ==
    LET v == bu.m[Hash[k]] IN
    IF /\ InRing(bu, v)
       /\ ~Corrupted(v.idx, PairAt(bu, v.idx))
       /\ KeyMatches(PairAt(bu, v.idx), k)
    THEN {PairAt(bu, v.idx).val}
    ELSE {}

-----------------------------------------------------------------------------
(* Mutant of putChunk: the chunks are not returned to the free list. *)
putChunks0(bu) == 0

putChunks(bu) ==
    Quantify(DOMAIN bu.chunks, LAMBDA c : bu.chunks[c] # NilChunk)

(* mmap is only called for a new slab. *)
SetOne(k, v, mmapWorks) ==
    /\ mmapWorks \/ NeedsSlab(b, k)
    /\ b' = Set(b, k, v, mmapWorks)
    /\ last' = IF Stored(b, k, mmapWorks) THEN Noted(last, b, k, v) ELSE last
    /\ exhausted' = (exhausted \/ (NeedsSlab(b, k) /\ ~CanGrow(b)))

(* SetMulti: the pairs of one batch under one lock, errors ignored. *)
SetMulti(x, y) ==
    LET bx == Set(b, x[1], x[2], TRUE)
        lx == IF Stored(b, x[1], TRUE) THEN Noted(last, b, x[1], x[2]) ELSE last IN
    /\ b' = Set(bx, y[1], y[2], TRUE)
    /\ last' = IF Stored(bx, y[1], TRUE) THEN Noted(lx, bx, y[1], y[2]) ELSE lx
    /\ exhausted' = (exhausted \/ (NeedsSlab(b, x[1]) /\ ~CanGrow(b))
                               \/ (NeedsSlab(bx, y[1]) /\ ~CanGrow(bx)))

Del(h) ==
    /\ b' = [b EXCEPT !.m[h] = none]
    /\ last' = [last EXCEPT ![h] = none]
    /\ UNCHANGED exhausted

Reset ==
    /\ b' = IF b.type = "preallocated"
            THEN [EmptyBucket(b.type) EXCEPT !.chunks = b.chunks]
            ELSE [EmptyBucket(b.type) EXCEPT !.freeChunks = b.freeChunks + putChunks(b),
                                             !.allocatedChunks = b.allocatedChunks]
    /\ last' = [h \in Hashes |-> none]
    /\ UNCHANGED exhausted

Next ==
    \/ \E x \in Input, mmapWorks \in BOOLEAN : SetOne(x[1], x[2], mmapWorks)
    \/ \E xy \in Batch : SetMulti(xy[1], xy[2])
    \/ \E h \in Hashes : Del(h)
    \/ Reset

Spec == Init /\ [][Next]_vars

-----------------------------------------------------------------------------
(* Properties.                                                             *)

(***************************************************************************)
(* Get returns the value that was stored last for its key, or misses:      *)
(* never the value of another key with the same hash and never an older    *)
(* one, however often the ring has started over.                           *)
(***************************************************************************)
GetIsLastSet ==
    \A k \in Key : \A v \in Get(b, k) :
        LET l == last[Hash[k]] IN l # none /\ l.key = k /\ l.val = v

(***************************************************************************)
(* What passes the generation test of Get is a whole pair: neither the     *)
(* write position nor a chunk that was opened again has touched its bytes. *)
(***************************************************************************)
ReadsWholePair ==
    \A h \in Hashes : InRing(b, b.m[h]) => WholePair(b, b.m[h].idx)

(***************************************************************************)
(* The pair stored last for a hash is found until the write position       *)
(* passes its index on the next lap, or its chunk is dropped: the          *)
(* generations, which start over at 1 after maxGen, and cleanLockedMap     *)
(* lose no pair early.                                                     *)
(***************************************************************************)
FoundUntilOverwritten ==
    \A k \in Key :
        LET l == last[Hash[k]] IN
        /\ l # none /\ l.key = k
        /\ l.laps = 0 \/ (l.laps = 1 /\ l.idx >= b.idx)
        => Get(b, k) = {l.val}

(* The comment of getChunk, "This should be unreachable": Set never asks for a
   chunk when all of them are allocated and none is free. *)
NeverExhausted == ~exhausted
=============================================================================
