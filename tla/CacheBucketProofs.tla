------------------------- MODULE CacheBucketProofs --------------------------
(***************************************************************************)
(* The properties of CacheBucket hold for every size of cache, chunk and   *)
(* pair, every hash function and every kind of bucket: an inductive        *)
(* invariant, Kept, of a bucket and its history, and its consequences.     *)
(***************************************************************************)
EXTENDS CacheBucket, TLAPS

-----------------------------------------------------------------------------
(* The invariant.                                                          *)

Entry == [idx : Nat, gen : 1..maxGen]
Note == [key : Key, val : Value, idx : Nat, laps : 0..2]
Byte == [key : Key, val : Value, off : Nat]
Chunk == [len : Nat, bytes : [0..(ChunkSize - 1) -> {Junk} \cup Byte]]

Bucket ==
    [type : {"unallocated", "trimmed", "preallocated"},
     m : [Hashes -> {none} \cup Entry],
     chunks : [0..(maxChunks - 1) -> {NilChunk} \cup Chunk],
     idx : Nat, gen : 1..maxGen,
     freeChunks : Int, allocatedChunks : Int, nextAllocChunks : Int]

Notes == [Hashes -> {none} \cup Note]

(* The pair of a note is not yet overwritten. *)
Live(bu, l) == l.laps = 0 \/ (l.laps = 1 /\ l.idx >= bu.idx)

(* Chunk c holds the pair of note l from offset o on. *)
WrittenAt(bu, l, c, o) ==
    /\ c < maxChunks /\ bu.chunks[c] # NilChunk
    /\ o + kvLen(l.key) < ChunkSize
    /\ \A i \in 0..(kvLen(l.key) - 1) :
           bu.chunks[c].bytes[o + i] = [key |-> l.key, val |-> l.val, off |-> i]

Written(bu, l) == WrittenAt(bu, l, l.idx \div ChunkSize, l.idx % ChunkSize)

(* The map entry of a hash is the one of the pair stored last, with the generation
   of its lap, and is there as long as the pair is. *)
Recorded(bu, la, h) ==
    /\ bu.m[h] # none =>
           /\ la[h] # none /\ la[h].idx = bu.m[h].idx
           /\ \/ la[h].laps = 0 /\ bu.m[h].gen = bu.gen
              \/ la[h].laps = 1 /\ NextGen(bu.m[h].gen) = bu.gen
    /\ la[h] # none =>
           /\ la[h].laps = 0 => la[h].idx + kvLen(la[h].key) <= bu.idx
           /\ Live(bu, la[h]) => bu.m[h] # none /\ Written(bu, la[h])
           /\ bu.type = "preallocated" => la[h].laps = 0

(* The write position is inside a chunk, those before it are there, and a ring
   appends to its chunk at the position. *)
Position(bu) ==
    /\ bu.idx < maxChunks * ChunkSize
    /\ bu.type = "preallocated" => \A c \in 0..(maxChunks - 1) : bu.chunks[c] # NilChunk
    /\ bu.type # "preallocated" =>
           /\ bu.idx # 0 => \A c \in 0..(bu.idx \div ChunkSize) : bu.chunks[c] # NilChunk
           /\ LET c == bu.chunks[bu.idx \div ChunkSize]
              IN c # NilChunk => c.len = bu.idx % ChunkSize

Kept(bu, la) ==
    /\ bu \in Bucket /\ la \in Notes
    /\ Position(bu)
    /\ \A h \in Hashes : Recorded(bu, la, h)

(* Every chunk that was allocated is in its place or free. *)
Slabs(bu) ==
    bu.type # "preallocated" =>
        /\ bu.freeChunks >= 0 /\ bu.allocatedChunks <= maxChunks /\ bu.nextAllocChunks >= 1
        /\ bu.allocatedChunks = bu.freeChunks + putChunks(bu)
-----------------------------------------------------------------------------
(* Arithmetic, and the values that stand for nothing.                      *)

(* An index is a chunk and an offset in it, in one way. *)
LEMMA DivMod ==
    ASSUME NEW d \in Nat \ {0}, NEW c \in Nat, NEW o \in 0..(d - 1)
    PROVE  (c * d + o) \div d = c /\ (c * d + o) % d = o
OBVIOUS

(* Every index is one. *)
LEMMA Split ==
    ASSUME NEW d \in Nat \ {0}, NEW x \in Nat
    PROVE  /\ x \div d \in Nat /\ x % d \in 0..(d - 1)
           /\ x = (x \div d) * d + (x % d)
OBVIOUS

(* Whole chunks. *)
LEMMA ChunkOrder ==
    ASSUME NEW d \in Nat \ {0}, NEW c \in Nat, NEW e \in Nat
    PROVE  c < e => c * d + d <= e * d
OBVIOUS

(* The larger of two, and the smaller of two or three. *)
LEMMA MaxOfTwo ==
    ASSUME NEW x \in Int, NEW y \in Int
    PROVE  Max({x, y}) \in {x, y} /\ Max({x, y}) >= x /\ Max({x, y}) >= y
<1>1. \E z \in {x, y} : \A w \in {x, y} : z >= w
  <2>1. x >= y \/ y >= x
    OBVIOUS
  <2> QED BY <2>1
<1> QED BY <1>1 DEF Max

(* The same for Min. *)
LEMMA MinOf ==
    ASSUME NEW x \in Int, NEW y \in Int, NEW z \in Int
    PROVE  /\ Min({x, y}) \in {x, y} /\ Min({x, y, z}) \in {x, y, z}
           /\ Min({x, y, z}) <= z
<1>1. \E u \in {x, y} : \A w \in {x, y} : u =< w
  <2>1. x >= y \/ y >= x
    OBVIOUS
  <2> QED BY <2>1
<1>2. \E u \in {x, y, z} : \A w \in {x, y, z} : u =< w
  <2>1. (x <= y /\ x <= z) \/ (y <= x /\ y <= z) \/ (z <= x /\ z <= y)
    OBVIOUS
  <2> QED BY <2>1
<1> QED BY <1>1, <1>2 DEF Min

(* The sizes of a bucket. *)
LEMMA Sizes ==
    /\ ChunkSize \in Nat \ {0} /\ maxChunks \in Nat \ {0}
    /\ maxGen \in Nat /\ maxGen >= 3 /\ HeaderLen \in Nat
    /\ \A k \in Key : kvLen(k) \in Nat \ {0} /\ kvLen(k) >= HeaderLen
<1>1. ChunkSize \in Nat \ {0} /\ CacheBytes \in Nat /\ BucketsCount \in Nat \ {0}
  BY BucketAssumption
<1>2. maxBytes \in Nat
  <2>1. CacheBytes \div BucketsCount \in Nat
    BY <1>1, Split, Zenon
  <2> QED BY <1>1, <2>1 DEF maxBytes
<1>3. maxBytes \div ChunkSize \in Nat
  BY <1>1, <1>2, Split, Zenon
<1>4. maxChunks \in Nat \ {0}
  <2>1. Max({1, maxBytes \div ChunkSize}) \in {1, maxBytes \div ChunkSize}
        /\ Max({1, maxBytes \div ChunkSize}) >= 1
    BY <1>3, MaxOfTwo, SMTT(30)
  <2> QED BY <1>3, <2>1 DEF maxChunks
<1>5. maxGen \in Nat /\ maxGen >= 3
  BY BucketAssumption DEF maxGen
<1>6. HeaderLen \in Nat \ {0} /\ ValueLen \in Nat /\ KeyLen \in [Key -> Nat]
  BY BucketAssumption
<1>7. ASSUME NEW k \in Key PROVE kvLen(k) \in Nat \ {0} /\ kvLen(k) >= HeaderLen
  BY <1>6 DEF kvLen
<1> QED BY <1>1, <1>4, <1>5, <1>6, <1>7

(* The next generation. *)
LEMMA Generations ==
    ASSUME NEW g \in 1..maxGen
    PROVE  /\ NextGen(g) = IF g = maxGen THEN 1 ELSE g + 1
           /\ NextGen(g) \in 1..maxGen
<1> DEFINE K == 2^GenSizeBits
<1>1. K \in Nat \ {0} /\ K > 3 /\ maxGen = K - 1
  BY BucketAssumption DEF maxGen
<1> HIDE DEF K
<1>2. CASE g = maxGen
  <2>1. g + 1 = 1 * K + 0 /\ 0 \in 0..(K - 1)
    BY <1>1, <1>2
  <2>2. (g + 1) % K = 0
    BY <1>1, <2>1, DivMod
  <2> QED BY <1>1, <1>2, <2>2 DEF NextGen, K
<1>3. CASE g # maxGen
  <2>1. g + 1 = 0 * K + (g + 1) /\ g + 1 \in 0..(K - 1)
    BY <1>1, <1>3
  <2>2. (g + 1) % K # 0
    BY <1>1, <2>1, DivMod
  <2>3. NextGen(g) = g + 1
    BY <2>2, Zenon DEF NextGen, K
  <2> QED BY <1>1, <1>3, <2>3
<1> QED BY <1>2, <1>3

(* What is nothing is not something. *)
LEMMA Nothing ==
    none \notin Entry /\ none \notin Note /\ NilChunk \notin Chunk /\ Junk \notin Byte
<1>1. DOMAIN none = {"key"} /\ DOMAIN Junk = {"key"} /\ NilChunk.len = -1
  BY DEF none, Junk, NilChunk
<1>2. none \notin Entry
  <2>1. ASSUME NEW e \in Entry PROVE "idx" \in DOMAIN e
    BY <2>1 DEF Entry
  <2> QED BY <1>1, <2>1
<1>3. none \notin Note
  <2>1. ASSUME NEW e \in Note PROVE "idx" \in DOMAIN e
    BY <2>1 DEF Note
  <2> QED BY <1>1, <2>1
<1>4. Junk \notin Byte
  <2>1. ASSUME NEW e \in Byte PROVE "off" \in DOMAIN e
    BY <2>1 DEF Byte
  <2> QED BY <1>1, <2>1
<1>5. NilChunk \notin Chunk
  <2>1. ASSUME NEW e \in Chunk PROVE e.len # -1
    BY <2>1 DEF Chunk
  <2> QED BY <1>1, <2>1
<1> QED BY <1>2, <1>3, <1>4, <1>5
-----------------------------------------------------------------------------
(* What Set does to the fields of a bucket.                                *)

Chunks == [0..(maxChunks - 1) -> {NilChunk} \cup Chunk]

(* Pair (k, v) is stored at index i, which is offset o of chunk c, in generation g. *)
Puts(bu, bn, k, v, c, o, i, g) ==
    /\ bn \in Bucket
    /\ bn.type = bu.type /\ bn.gen = g /\ bn.idx = i + kvLen(k)
    /\ bn.m = [bu.m EXCEPT ![Hash[k]] = [idx |-> i, gen |-> g]]
    /\ bn.chunks[c] # NilChunk
    /\ \A d \in 0..(maxChunks - 1) : d # c => bn.chunks[d] = bu.chunks[d]
    /\ \A j \in 0..(ChunkSize - 1) :
           /\ j \in o..(o + kvLen(k) - 1) =>
                  bn.chunks[c].bytes[j] = [key |-> k, val |-> v, off |-> j - o]
           /\ j \notin o..(o + kvLen(k) - 1) /\ bu.chunks[c] # NilChunk =>
                  bn.chunks[c].bytes[j] = bu.chunks[c].bytes[j]

(* The types of the fields. *)
LEMMA Fields ==
    ASSUME NEW r \in Bucket
    PROVE  /\ r.type \in {"unallocated", "trimmed", "preallocated"}
           /\ r.m \in [Hashes -> {none} \cup Entry] /\ r.chunks \in Chunks
           /\ r.idx \in Nat /\ r.gen \in 1..maxGen
           /\ r.freeChunks \in Int /\ r.allocatedChunks \in Int /\ r.nextAllocChunks \in Int
BY DEF Bucket, Chunks

(* The last assignment of Set. *)
Assign(r, c, x, h, e, i) == [r EXCEPT !.chunks[c] = x, !.m[h] = e, !.idx = i]

(* Its fields. *)
LEMMA Assigned ==
    ASSUME NEW r \in Bucket, NEW c \in 0..(maxChunks - 1), NEW x \in Chunk, NEW h \in Hashes,
           NEW e \in Entry, NEW i \in Nat
    PROVE  LET s == Assign(r, c, x, h, e, i) IN
           /\ s \in Bucket /\ s.type = r.type /\ s.gen = r.gen /\ s.idx = i
           /\ s.m = [r.m EXCEPT ![h] = e] /\ s.chunks = [r.chunks EXCEPT ![c] = x]
           /\ s.freeChunks = r.freeChunks /\ s.allocatedChunks = r.allocatedChunks
           /\ s.nextAllocChunks = r.nextAllocChunks
BY Zenon DEF Bucket, Assign

(* append in a chunk. *)
LEMMA AppendedChunk ==
    ASSUME NEW x \in Chunk, NEW k \in Key, NEW v \in Value, x.len + kvLen(k) < ChunkSize
    PROVE  /\ Appended(x, k, v) \in Chunk /\ Appended(x, k, v).len = x.len + kvLen(k)
           /\ \A j \in 0..(ChunkSize - 1) :
                  Appended(x, k, v).bytes[j] =
                      IF j \in x.len..(x.len + kvLen(k) - 1)
                      THEN [key |-> k, val |-> v, off |-> j - x.len] ELSE x.bytes[j]
<1>1. x.len \in Nat /\ x.bytes \in [0..(ChunkSize - 1) -> {Junk} \cup Byte] /\ kvLen(k) \in Nat
  BY Sizes DEF Chunk
<1>2. ASSUME NEW j \in x.len..(x.len + kvLen(k) - 1)
      PROVE  [key |-> k, val |-> v, off |-> j - x.len] \in Byte
  <2>1. j - x.len \in Nat
    BY <1>1
  <2> QED BY <2>1 DEF Byte
<1>3. ASSUME NEW j \in 0..(ChunkSize - 1)
      PROVE  (IF j \in x.len..(x.len + kvLen(k) - 1)
              THEN [key |-> k, val |-> v, off |-> j - x.len] ELSE x.bytes[j]) \in {Junk} \cup Byte
  BY <1>1, <1>2, Zenon
<1>4. Appended(x, k, v).bytes \in [0..(ChunkSize - 1) -> {Junk} \cup Byte]
  BY <1>3, Zenon DEF Appended
<1>5. Appended(x, k, v).len = x.len + kvLen(k) /\ x.len + kvLen(k) \in Nat
  BY <1>1 DEF Appended
<1>6. Appended(x, k, v) \in Chunk
  <2>1. Appended(x, k, v) = [len |-> Appended(x, k, v).len, bytes |-> Appended(x, k, v).bytes]
    BY Zenon DEF Appended
  <2> QED BY <1>4, <1>5, <2>1, Zenon DEF Chunk
<1> QED BY <1>5, <1>6, Zenon DEF Appended

(* The bucket when Set has chosen the place: the generation and the length of the
   chunk may be new. *)
LEMMA PreparedFields ==
    ASSUME NEW bu \in Bucket, NEW p, NEW c \in 0..(maxChunks - 1), c = p.chunk
    PROVE  LET bp == Prepared(bu, p) IN
           /\ bp \in Bucket /\ bp.type = bu.type /\ bp.m = bu.m /\ bp.idx = bu.idx
           /\ bp.gen = IF p.wraps THEN NextGen(bu.gen) ELSE bu.gen
           /\ bp.freeChunks = bu.freeChunks /\ bp.allocatedChunks = bu.allocatedChunks
           /\ bp.nextAllocChunks = bu.nextAllocChunks
           /\ bp.chunks = [bu.chunks EXCEPT ![c] =
                  IF ~p.opens \/ bu.chunks[c] = NilChunk THEN bu.chunks[c]
                  ELSE [bu.chunks[c] EXCEPT !.len = 0]]
<1> DEFINE bp == Prepared(bu, p)
           g == IF p.wraps THEN NextGen(bu.gen) ELSE bu.gen
           bw == IF p.wraps THEN Wrapped(bu) ELSE bu
<1>1. g \in 1..maxGen
  BY Generations, Fields, Zenon
<1>2. /\ bw \in Bucket /\ bw.type = bu.type /\ bw.m = bu.m /\ bw.idx = bu.idx /\ bw.gen = g
      /\ bw.freeChunks = bu.freeChunks /\ bw.allocatedChunks = bu.allocatedChunks
      /\ bw.nextAllocChunks = bu.nextAllocChunks /\ bw.chunks = bu.chunks
  BY <1>1, Zenon DEF Bucket, Wrapped
<1> HIDE DEF g, bw
<1>3. bu.chunks \in Chunks
  BY Fields, Zenon
<1>4. bu.chunks[c] \in {NilChunk} \cup Chunk
  BY <1>3, Zenon DEF Chunks
<1> HIDE DEF bp
<1>5. [bu.chunks EXCEPT ![c] = bu.chunks[c]] = bu.chunks
  BY <1>3, Zenon DEF Chunks
<1>6. CASE ~p.opens
  <2>1. bp = bw
    BY <1>6, Zenon DEF bp, Prepared, bw
  <2> QED BY <1>2, <1>5, <1>6, <2>1, Zenon DEF bp, g
<1>7. CASE p.opens
  <2> DEFINE l == IF bw.chunks[c].len = -1 THEN -1 ELSE 0
             x == [bw.chunks[c] EXCEPT !.len = l]
  <2>1. bp = [bw EXCEPT !.chunks[c].len = l]
    BY <1>7, Zenon DEF bp, Prepared, bw, Opened
  <2>2. x = IF bu.chunks[c] = NilChunk THEN bu.chunks[c] ELSE [bu.chunks[c] EXCEPT !.len = 0]
    <3>1. CASE bu.chunks[c] = NilChunk
      <4>1. l = -1
        BY <1>2, <3>1 DEF NilChunk
      <4>2. [NilChunk EXCEPT !.len = -1] = NilChunk
        BY DEF NilChunk
      <4> HIDE DEF l
      <4> QED BY <1>2, <3>1, <4>1, <4>2, Zenon
    <3>2. CASE bu.chunks[c] \in Chunk
      <4>1. l = 0
        BY <1>2, <3>2 DEF Chunk
      <4> HIDE DEF l
      <4> QED BY <1>2, <3>2, <4>1, Nothing, Zenon
    <3> QED BY <1>4, <3>1, <3>2, Zenon
  <2>3. x \in {NilChunk} \cup Chunk
    <3>1. CASE bu.chunks[c] \in Chunk
      <4>1. [bu.chunks[c] EXCEPT !.len = 0] \in Chunk
        BY <3>1 DEF Chunk
      <4> QED BY <2>2, <3>1, <4>1, Nothing, Zenon
    <3> QED BY <1>4, <2>2, <3>1, Zenon
  <2>4. bp = [bw EXCEPT !.chunks = [bw.chunks EXCEPT ![c] = x]]
    BY <1>2, <2>1, Zenon DEF Bucket
  <2> HIDE DEF x
  <2>5. [bu.chunks EXCEPT ![c] = x] \in Chunks
    BY <1>3, <2>3, Zenon DEF Chunks
  <2>6. /\ bp \in Bucket /\ bp.type = bw.type /\ bp.m = bw.m /\ bp.idx = bw.idx /\ bp.gen = bw.gen
        /\ bp.freeChunks = bw.freeChunks /\ bp.allocatedChunks = bw.allocatedChunks
        /\ bp.nextAllocChunks = bw.nextAllocChunks /\ bp.chunks = [bu.chunks EXCEPT ![c] = x]
    BY <1>2, <2>4, <2>5, Zenon DEF Bucket, Chunks
  <2> QED BY <1>2, <1>7, <2>2, <2>6, Zenon DEF bp, g
<1> QED BY <1>6, <1>7

(* A slab. *)
LEMMA SlabChunks ==
    /\ calcMaxSlabChunks \in Nat \ {0} /\ calcInitialAllocChunks \in Nat \ {0}
    /\ \A a, n \in Int : Min({n, calcMaxSlabChunks, maxChunks - a}) \in Int
    /\ \A a, n \in Int : n >= 1 /\ a < maxChunks =>
           /\ Min({n, calcMaxSlabChunks, maxChunks - a}) >= 1
           /\ Min({n, calcMaxSlabChunks, maxChunks - a}) <= maxChunks - a
    /\ \A n \in Int : Min({2 * n, calcMaxSlabChunks}) \in Int
    /\ \A n \in Int : n >= 1 => Min({2 * n, calcMaxSlabChunks}) >= 1
<1>1. /\ ChunkSize \in Nat \ {0} /\ MinSlabChunks \in Nat \ {0} /\ ChunksPerAlloc \in Nat \ {0}
      /\ SlabTarget \in Nat \ {0} /\ maxChunks \in Nat \ {0}
  BY BucketAssumption, Sizes
<1>2. maxBytes \in Nat
  <2>1. CacheBytes \div BucketsCount \in Nat
    BY BucketAssumption, Split, Zenon
  <2> QED BY <1>1, <2>1 DEF maxBytes
<1> DEFINE target == Min({Max({maxBytes \div 16, MinSlabChunks * ChunkSize}), SlabTarget})
<1>3. target \in Nat
  <2>1. /\ maxBytes \div 16 \in Nat /\ MinSlabChunks * ChunkSize \in Nat
        /\ maxBytes \div 16 \in Int /\ MinSlabChunks * ChunkSize \in Int
    BY <1>1, <1>2
  <2>2. Max({maxBytes \div 16, MinSlabChunks * ChunkSize}) \in Nat
    <3>1. Max({maxBytes \div 16, MinSlabChunks * ChunkSize})
              \in {maxBytes \div 16, MinSlabChunks * ChunkSize}
      BY <2>1, MaxOfTwo, Zenon
    <3> QED BY <2>1, <3>1, Zenon
  <2>3. target \in {Max({maxBytes \div 16, MinSlabChunks * ChunkSize}), SlabTarget}
    BY <1>1, <2>2, MinOf, SMTT(30)
  <2> QED BY <1>1, <2>2, <2>3
<1> HIDE DEF target
<1>4. target \div ChunkSize \in Nat
  BY <1>1, <1>3, Split, Zenon
<1> DEFINE slab == Max({target \div ChunkSize, MinSlabChunks})
<1>5. slab \in Nat \ {0}
  BY <1>1, <1>4, MaxOfTwo
<1>6. calcMaxSlabChunks = Min({slab, ChunksPerAlloc, maxChunks})
  BY Zenon DEF calcMaxSlabChunks, target
<1> HIDE DEF slab
<1>7. calcMaxSlabChunks \in Nat \ {0}
  <2>1. Min({slab, ChunksPerAlloc, maxChunks}) \in {slab, ChunksPerAlloc, maxChunks}
    <3>1. slab \in Int /\ ChunksPerAlloc \in Int /\ maxChunks \in Int
      BY <1>1, <1>5
    <3> QED BY <3>1, MinOf, Zenon
  <2> QED BY <1>1, <1>5, <1>6, <2>1, Zenon
<1>8. calcInitialAllocChunks \in Nat \ {0}
  <2>1. calcMaxSlabChunks \div 4 \in Int /\ MinSlabChunks \in Int
    BY <1>1, <1>7
  <2>2. /\ Max({calcMaxSlabChunks \div 4, MinSlabChunks}) \in {calcMaxSlabChunks \div 4, MinSlabChunks}
        /\ Max({calcMaxSlabChunks \div 4, MinSlabChunks}) >= MinSlabChunks
    BY <2>1, MaxOfTwo, Zenon
  <2>3. Max({calcMaxSlabChunks \div 4, MinSlabChunks}) \in Nat \ {0}
    BY <1>1, <2>1, <2>2
  <2> QED BY <1>1, <1>7, <2>3, Zenon DEF calcInitialAllocChunks
<1>9. ASSUME NEW a \in Int, NEW n \in Int
      PROVE  /\ Min({n, calcMaxSlabChunks, maxChunks - a}) \in Int
             /\ n >= 1 /\ a < maxChunks =>
                    /\ Min({n, calcMaxSlabChunks, maxChunks - a}) >= 1
                    /\ Min({n, calcMaxSlabChunks, maxChunks - a}) <= maxChunks - a
  <2>1. /\ Min({n, calcMaxSlabChunks, maxChunks - a}) \in {n, calcMaxSlabChunks, maxChunks - a}
        /\ Min({n, calcMaxSlabChunks, maxChunks - a}) <= maxChunks - a
    <3>1. calcMaxSlabChunks \in Int /\ maxChunks - a \in Int
      BY <1>1, <1>7
    <3> QED BY <3>1, MinOf, Zenon
  <2> QED BY <1>1, <1>7, <2>1
<1>10. ASSUME NEW n \in Int
       PROVE  /\ Min({2 * n, calcMaxSlabChunks}) \in Int
              /\ n >= 1 => Min({2 * n, calcMaxSlabChunks}) >= 1
  <2>1. Min({2 * n, calcMaxSlabChunks}) \in {2 * n, calcMaxSlabChunks}
    BY <1>7, MinOf
  <2> QED BY <1>7, <2>1
<1> QED BY <1>7, <1>8, <1>9, <1>10, Zenon

(* The last assignment of getChunk. *)
Fill(r, c, x, f) == [r EXCEPT !.freeChunks = f, !.chunks[c] = x]

(* Its fields. *)
LEMMA Filled ==
    ASSUME NEW r \in Bucket, NEW c \in 0..(maxChunks - 1), NEW x \in Chunk, NEW f \in Int
    PROVE  LET s == Fill(r, c, x, f) IN
           /\ s \in Bucket /\ s.type = r.type /\ s.gen = r.gen /\ s.idx = r.idx /\ s.m = r.m
           /\ s.chunks = [r.chunks EXCEPT ![c] = x] /\ s.freeChunks = f
           /\ s.allocatedChunks = r.allocatedChunks /\ s.nextAllocChunks = r.nextAllocChunks
BY Zenon DEF Bucket, Fill

(* The counters of a bucket that has taken a chunk from the free list or, when that is
   empty, from a new slab. *)
Taken(bu, bn) ==
    LET n == Min({bu.nextAllocChunks, calcMaxSlabChunks, maxChunks - bu.allocatedChunks}) IN
    IF bu.freeChunks = 0
    THEN /\ bn.freeChunks = n - 1 /\ bn.allocatedChunks = bu.allocatedChunks + n
         /\ bn.nextAllocChunks = Min({2 * bu.nextAllocChunks, calcMaxSlabChunks})
    ELSE /\ bn.freeChunks = bu.freeChunks - 1 /\ bn.allocatedChunks = bu.allocatedChunks
         /\ bn.nextAllocChunks = bu.nextAllocChunks

SameCounters(bu, bn) ==
    /\ bn.freeChunks = bu.freeChunks /\ bn.allocatedChunks = bu.allocatedChunks
    /\ bn.nextAllocChunks = bu.nextAllocChunks

(* getChunk puts an empty chunk where there is none. *)
LEMMA GotChunk ==
    ASSUME NEW bu \in Bucket, NEW c \in 0..(maxChunks - 1)
    PROVE  LET bc == getChunk(bu, c) IN
           /\ bc \in Bucket /\ bc.type = bu.type /\ bc.m = bu.m /\ bc.idx = bu.idx /\ bc.gen = bu.gen
           /\ bc.chunks = [bu.chunks EXCEPT ![c] = FreshChunk]
           /\ FreshChunk \in Chunk /\ FreshChunk.len = 0
           /\ Taken(bu, bc)
<1> DEFINE bc == getChunk(bu, c)
           n == Min({bu.nextAllocChunks, calcMaxSlabChunks, maxChunks - bu.allocatedChunks})
           x == Min({2 * bu.nextAllocChunks, calcMaxSlabChunks})
           bg == IF bu.freeChunks = 0 THEN WithSlab(bu) ELSE bu
<1>1. FreshChunk \in Chunk /\ FreshChunk.len = 0
  BY DEF FreshChunk, Chunk
<1>2. n \in Int /\ x \in Int
  BY SlabChunks, Fields, Zenon
<1>3. WithSlab(bu) = [bu EXCEPT !.allocatedChunks = bu.allocatedChunks + n,
                                !.freeChunks = bu.freeChunks + n, !.nextAllocChunks = x]
  BY Zenon DEF WithSlab, Bucket
<1> HIDE DEF n, x
<1>4. bu.allocatedChunks + n \in Int /\ bu.freeChunks + n \in Int
  BY <1>2, Fields
<1>5. /\ WithSlab(bu) \in Bucket /\ WithSlab(bu).type = bu.type /\ WithSlab(bu).m = bu.m
      /\ WithSlab(bu).idx = bu.idx /\ WithSlab(bu).gen = bu.gen /\ WithSlab(bu).chunks = bu.chunks
      /\ WithSlab(bu).freeChunks = bu.freeChunks + n /\ WithSlab(bu).nextAllocChunks = x
      /\ WithSlab(bu).allocatedChunks = bu.allocatedChunks + n
  BY <1>2, <1>3, <1>4, Zenon DEF Bucket
<1>6. /\ bg \in Bucket /\ bg.type = bu.type /\ bg.m = bu.m
      /\ bg.idx = bu.idx /\ bg.gen = bu.gen /\ bg.chunks = bu.chunks
      /\ bg.freeChunks = IF bu.freeChunks = 0 THEN bu.freeChunks + n ELSE bu.freeChunks
      /\ bg.nextAllocChunks = IF bu.freeChunks = 0 THEN x ELSE bu.nextAllocChunks
      /\ bg.allocatedChunks = IF bu.freeChunks = 0 THEN bu.allocatedChunks + n ELSE bu.allocatedChunks
  BY <1>5, Zenon
<1>7. bc = [bg EXCEPT !.freeChunks = bg.freeChunks - 1, !.chunks[c] = FreshChunk]
  BY <1>6, Zenon DEF getChunk, Bucket
<1> HIDE DEF bg, bc
<1>8. PICK f \in Int : f = bg.freeChunks - 1
  BY <1>6, Fields
<1>a. bg \in Bucket /\ bc = Fill(bg, c, FreshChunk, f)
  BY <1>6, <1>7, <1>8, Zenon DEF Fill
<1>9. /\ bc \in Bucket /\ bc.type = bg.type /\ bc.m = bg.m /\ bc.idx = bg.idx /\ bc.gen = bg.gen
      /\ bc.chunks = [bg.chunks EXCEPT ![c] = FreshChunk] /\ bc.freeChunks = f
      /\ bc.allocatedChunks = bg.allocatedChunks /\ bc.nextAllocChunks = bg.nextAllocChunks
  <2> DEFINE s == Fill(bg, c, FreshChunk, f)
  <2>1. /\ s \in Bucket /\ s.type = bg.type /\ s.gen = bg.gen /\ s.idx = bg.idx /\ s.m = bg.m
        /\ s.chunks = [bg.chunks EXCEPT ![c] = FreshChunk] /\ s.freeChunks = f
        /\ s.allocatedChunks = bg.allocatedChunks /\ s.nextAllocChunks = bg.nextAllocChunks
    BY <1>1, <1>a, Filled
  <2> HIDE DEF s
  <2>2. bc = s
    BY <1>a, Zenon DEF s
  <2> QED BY <2>1, <2>2, Zenon
<1>10. CASE bu.freeChunks = 0
  <2>1. f = n - 1
    BY <1>2, <1>6, <1>8, <1>10
  <2>2. bc.allocatedChunks = bu.allocatedChunks + n /\ bc.nextAllocChunks = x
    BY <1>6, <1>9, <1>10, Zenon
  <2> QED BY <1>1, <1>6, <1>9, <1>10, <2>1, <2>2, Zenon DEF n, x, Taken, bc
<1>11. CASE bu.freeChunks # 0
  BY <1>1, <1>6, <1>8, <1>9, <1>11, Zenon DEF n, x, Taken, bc
<1> QED BY <1>10, <1>11

(* The place of a pair: behind the last one, at the start of the next chunk, or at the
   start of the ring, after the last chunk. *)
LEMMA Places ==
    ASSUME NEW bu \in Bucket, Position(bu), NEW n \in Nat \ {0}, n < ChunkSize,
           NEW c, c = bu.idx \div ChunkSize, NEW o, o = bu.idx % ChunkSize
    PROVE  /\ c \in 0..(maxChunks - 1) /\ o \in 0..(ChunkSize - 1) /\ bu.idx = c * ChunkSize + o
           /\ \/ /\ Place(bu, n) = [idx |-> bu.idx, chunk |-> c, wraps |-> FALSE, opens |-> FALSE]
                 /\ o + n < ChunkSize
              \/ /\ Place(bu, n) = [idx |-> (c + 1) * ChunkSize, chunk |-> c + 1,
                                    wraps |-> FALSE, opens |-> TRUE]
                 /\ c + 1 < maxChunks /\ bu.idx # 0
              \/ /\ Place(bu, n) = [idx |-> 0, chunk |-> 0, wraps |-> TRUE, opens |-> TRUE]
                 /\ c = maxChunks - 1 /\ bu.idx # 0
<1> DEFINE C == ChunkSize
           next == (bu.idx + n) \div C
<1>1. C \in Nat \ {0} /\ maxChunks \in Nat \ {0} /\ bu.idx \in Nat /\ bu.idx < maxChunks * C
  BY Sizes, Fields, Zenon DEF Position
<1>2. c \in Nat /\ o \in 0..(C - 1) /\ bu.idx = c * C + o
  BY <1>1, Split, Zenon
<1> HIDE DEF C
<1>3. c \in 0..(maxChunks - 1)
  <2>1. ~(c >= maxChunks)
    <3>1. c * C < maxChunks * C
      BY <1>1, <1>2
    <3>2. maxChunks < c => maxChunks * C + C <= c * C
      BY <1>1, <1>2, ChunkOrder
    <3>3. maxChunks * C \in Nat /\ c * C \in Nat
      BY <1>1, <1>2
    <3> QED BY <1>1, <1>2, <3>1, <3>2, <3>3
  <2> QED BY <1>1, <1>2, <2>1
<1>4. CASE o + n < C
  <2>1. bu.idx + n = c * C + (o + n) /\ o + n \in 0..(C - 1)
    <3>1. c * C \in Nat
      BY <1>1, <1>2
    <3> QED BY <1>1, <1>2, <1>4, <3>1
  <2>2. next = c
    <3>1. (c * C + (o + n)) \div C = c
      BY <1>1, <1>2, <2>1, DivMod, Zenon
    <3> QED BY <2>1, <3>1, Zenon
  <2>3. Place(bu, n) = [idx |-> bu.idx, chunk |-> c, wraps |-> FALSE, opens |-> FALSE]
    BY <2>2, Zenon DEF Place, C
  <2> QED BY <1>2, <1>3, <1>4, <2>3, Zenon DEF C
<1>5. CASE ~(o + n < C)
  <2>0. bu.idx # 0
    <3>1. n < C
      BY DEF C
    <3>2. o # 0
      BY <1>1, <1>2, <1>5, <3>1
    <3> QED BY <1>1, <1>2, <3>2
  <2>1. bu.idx + n = (c + 1) * C + (o + n - C) /\ o + n - C \in 0..(C - 1)
    <3>1. c * C \in Nat /\ (c + 1) * C = c * C + C
      BY <1>1, <1>2
    <3>2. n < C
      BY DEF C
    <3> QED BY <1>1, <1>2, <1>5, <3>1, <3>2
  <2>2. next = c + 1
    <3>1. c + 1 \in Nat
      BY <1>2
    <3> QED BY <1>1, <2>1, <3>1, DivMod
  <2>3. next # c
    BY <1>2, <2>2
  <2>4. CASE c + 1 < maxChunks
    <3>1. ~(next >= maxChunks)
      BY <1>1, <1>2, <2>2, <2>4
    <3>2. Place(bu, n) = [idx |-> (c + 1) * ChunkSize, chunk |-> c + 1, wraps |-> FALSE, opens |-> TRUE]
      BY <2>2, <2>3, <3>1, Zenon DEF Place, C
    <3> QED BY <1>2, <1>3, <2>0, <2>4, <3>2, Zenon DEF C
  <2>5. CASE ~(c + 1 < maxChunks)
    <3>1. next >= maxChunks /\ c = maxChunks - 1
      BY <1>1, <1>3, <2>2, <2>5
    <3>2. Place(bu, n) = [idx |-> 0, chunk |-> 0, wraps |-> TRUE, opens |-> TRUE]
      BY <2>3, <3>1, Zenon DEF Place, C
    <3> QED BY <1>2, <1>3, <2>0, <3>1, <3>2, Zenon DEF C
  <2> QED BY <2>4, <2>5
<1> QED BY <1>4, <1>5

(* The place of a pair that a ring stores: chunk c, which is empty from offset o on,
   index i and generation g. *)
AtPlace(bu, k, mm, c, o, i, g) ==
    LET p == Place(bu, kvLen(k)) IN
    /\ Stored(bu, k, mm)
    /\ c \in 0..(maxChunks - 1) /\ c = p.chunk /\ i \in Nat /\ i = p.idx
    /\ g = IF p.wraps THEN NextGen(bu.gen) ELSE bu.gen
    /\ o \in Nat /\ o + kvLen(k) < ChunkSize
    /\ p.opens \/ bu.chunks[c] = NilChunk => o = 0
    /\ ~p.opens /\ bu.chunks[c] # NilChunk => bu.chunks[c].len = o

(* The pair is stored there, in a chunk that is taken if need be. *)
RingStored(bu, bs, k, v, c, o, i, g) ==
    /\ Puts(bu, bs, k, v, c, o, i, g)
    /\ bs.chunks[c].len = o + kvLen(k)
    /\ IF bu.chunks[c] = NilChunk THEN Taken(bu, bs) ELSE SameCounters(bu, bs)

(* Set of the rings stores a pair. *)
LEMMA RingPuts ==
    ASSUME NEW bu \in Bucket, NEW k \in Key, NEW v \in Value, NEW mm, NEW c, NEW o, NEW i, NEW g,
           AtPlace(bu, k, mm, c, o, i, g)
    PROVE  RingStored(bu, SetRing(bu, k, v, mm), k, v, c, o, i, g)
<1> DEFINE p == Place(bu, kvLen(k))
<1>a. /\ Stored(bu, k, mm) /\ p = Place(bu, kvLen(k))
      /\ c \in 0..(maxChunks - 1) /\ c = p.chunk /\ i \in Nat /\ i = p.idx
      /\ g = IF p.wraps THEN NextGen(bu.gen) ELSE bu.gen
      /\ o \in Nat /\ o + kvLen(k) < ChunkSize
      /\ p.opens \/ bu.chunks[c] = NilChunk => o = 0
      /\ ~p.opens /\ bu.chunks[c] # NilChunk => bu.chunks[c].len = o
  BY Zenon DEF AtPlace
<1> HIDE DEF p
<1> USE <1>a
<1> DEFINE bp == Prepared(bu, p)
           bc == IF bp.chunks[c] = NilChunk THEN getChunk(bp, c) ELSE bp
           h == Hash[k]
           bs == SetRing(bu, k, v, mm)
<1>1. /\ bp \in Bucket /\ bp.type = bu.type /\ bp.m = bu.m /\ bp.idx = bu.idx /\ bp.gen = g
      /\ SameCounters(bu, bp)
      /\ bp.chunks = [bu.chunks EXCEPT ![c] = IF ~p.opens \/ bu.chunks[c] = NilChunk THEN bu.chunks[c]
                                              ELSE [bu.chunks[c] EXCEPT !.len = 0]]
  BY PreparedFields DEF SameCounters
<1>2. bs = [bc EXCEPT !.chunks[c] = Appended(@, k, v),
                      !.m[h] = [idx |-> i, gen |-> bc.gen], !.idx = i + kvLen(k)]
  BY Zenon DEF SetRing, Stored
<1> HIDE DEF bp
<1>3. bu.chunks \in Chunks /\ bu.chunks[c] \in {NilChunk} \cup Chunk
  BY Fields, Zenon DEF Chunks
<1>4. /\ bc \in Bucket /\ bc.type = bu.type /\ bc.m = bu.m /\ bc.gen = g
      /\ bc.chunks[c] \in Chunk /\ bc.chunks[c].len = o
      /\ bu.chunks[c] # NilChunk => bc.chunks[c].bytes = bu.chunks[c].bytes
      /\ \A d \in 0..(maxChunks - 1) : d # c => bc.chunks[d] = bu.chunks[d]
      /\ IF bu.chunks[c] = NilChunk THEN Taken(bu, bc) ELSE SameCounters(bu, bc)
  <2>1. CASE bu.chunks[c] = NilChunk
    <3>1. bp.chunks = bu.chunks /\ bp.chunks[c] = NilChunk
      BY <1>1, <1>3, <2>1, Zenon DEF Chunks
    <3>2. bc = getChunk(bp, c)
      BY <3>1, Zenon
    <3> HIDE DEF bc
    <3>3. /\ bc \in Bucket /\ bc.type = bp.type /\ bc.m = bp.m /\ bc.gen = bp.gen
          /\ bc.chunks = [bp.chunks EXCEPT ![c] = FreshChunk]
          /\ FreshChunk \in Chunk /\ FreshChunk.len = 0 /\ Taken(bp, bc)
      <4> DEFINE bn == getChunk(bp, c)
      <4>1. /\ bn \in Bucket /\ bn.type = bp.type /\ bn.m = bp.m /\ bn.gen = bp.gen
            /\ bn.chunks = [bp.chunks EXCEPT ![c] = FreshChunk]
            /\ FreshChunk \in Chunk /\ FreshChunk.len = 0 /\ Taken(bp, bn)
        BY <1>1, GotChunk
      <4> HIDE DEF bn
      <4>2. bc = bn
        BY <3>2, Zenon DEF bn
      <4> QED BY <4>1, <4>2, Zenon
    <3>4. Taken(bu, bc)
      <4>1. /\ bp.freeChunks = bu.freeChunks /\ bp.allocatedChunks = bu.allocatedChunks
            /\ bp.nextAllocChunks = bu.nextAllocChunks
        BY <1>1, Zenon DEF SameCounters
      <4> QED BY <3>3, <4>1 DEF Taken
    <3>5. bc.chunks[c] = FreshChunk /\ \A d \in 0..(maxChunks - 1) : d # c => bc.chunks[d] = bu.chunks[d]
      BY <1>3, <3>1, <3>3, ZenonT(40) DEF Chunks
    <3> QED BY <1>1, <2>1, <3>3, <3>4, <3>5, Zenon
  <2>2. CASE bu.chunks[c] \in Chunk
    <3>1. bu.chunks[c] # NilChunk
      BY <2>2, Nothing, Zenon
    <3>2. [bu.chunks[c] EXCEPT !.len = 0] \in Chunk
      BY <2>2 DEF Chunk
    <3>3. /\ [bu.chunks[c] EXCEPT !.len = 0].len = 0
          /\ [bu.chunks[c] EXCEPT !.len = 0].bytes = bu.chunks[c].bytes
      BY <2>2 DEF Chunk
    <3>4. /\ bp.chunks[c] \in Chunk /\ bp.chunks[c].len = o /\ bp.chunks[c].bytes = bu.chunks[c].bytes
          /\ \A d \in 0..(maxChunks - 1) : d # c => bp.chunks[d] = bu.chunks[d]
      <4>1. CASE p.opens
        <5>1. bp.chunks = [bu.chunks EXCEPT ![c] = [bu.chunks[c] EXCEPT !.len = 0]] /\ o = 0
          BY <1>1, <3>1, <4>1, Zenon
        <5> QED BY <1>3, <3>2, <3>3, <5>1, Zenon DEF Chunks
      <4>2. CASE ~p.opens
        <5>1. bp.chunks = [bu.chunks EXCEPT ![c] = bu.chunks[c]] /\ bu.chunks[c].len = o
          BY <1>1, <3>1, <4>2, Zenon
        <5> QED BY <1>3, <2>2, <5>1, Zenon DEF Chunks
      <4> QED BY <4>1, <4>2, ZenonT(40)
    <3>5. bc = bp
      BY <3>4, Nothing, ZenonT(40)
    <3> HIDE DEF bc
    <3> QED BY <1>1, <3>1, <3>4, <3>5, Zenon
  <2> QED BY <1>3, <2>1, <2>2, Zenon
<1> HIDE DEF bc, bs
<1> DEFINE x == Appended(bc.chunks[c], k, v)
           e == [idx |-> i, gen |-> g]
           n == i + kvLen(k)
<1>5. /\ x \in Chunk /\ x.len = o + kvLen(k)
      /\ \A j \in 0..(ChunkSize - 1) :
             x.bytes[j] = IF j \in o..(o + kvLen(k) - 1)
                          THEN [key |-> k, val |-> v, off |-> j - o] ELSE bc.chunks[c].bytes[j]
  <2>1. PICK y \in Chunk : y = bc.chunks[c] /\ y.len = o
    BY <1>4, Zenon
  <2>2. /\ Appended(y, k, v) \in Chunk /\ Appended(y, k, v).len = o + kvLen(k)
        /\ \A j \in 0..(ChunkSize - 1) :
               Appended(y, k, v).bytes[j] = IF j \in o..(o + kvLen(k) - 1)
                                            THEN [key |-> k, val |-> v, off |-> j - o]
                                            ELSE y.bytes[j]
    BY <2>1, AppendedChunk
  <2> QED BY <2>1, <2>2, Zenon
<1> HIDE DEF x
<1>6. h \in Hashes
  BY Zenon DEF Hashes
<1>7. e \in Entry /\ n \in Nat
  <2>1. g \in 1..maxGen
    BY <1>4, Fields, Zenon
  <2>2. kvLen(k) \in Nat
    BY Sizes, Zenon
  <2> QED BY <2>1, <2>2 DEF Entry
<1> HIDE DEF h, e, n
<1>8. bs = Assign(bc, c, x, h, e, n)
  <2>1. bs = [bc EXCEPT !.chunks[c] = x, !.m[h] = e, !.idx = n]
    BY <1>2, <1>4, Zenon DEF x, e, n, Bucket
  <2> QED BY <2>1, Zenon DEF Assign
<1>9. /\ bs \in Bucket /\ bs.type = bc.type /\ bs.gen = bc.gen /\ bs.idx = n
      /\ bs.m = [bc.m EXCEPT ![h] = e] /\ bs.chunks = [bc.chunks EXCEPT ![c] = x]
      /\ SameCounters(bc, bs)
  <2> DEFINE s == Assign(bc, c, x, h, e, n)
  <2>1. /\ s \in Bucket /\ s.type = bc.type /\ s.gen = bc.gen /\ s.idx = n
        /\ s.m = [bc.m EXCEPT ![h] = e] /\ s.chunks = [bc.chunks EXCEPT ![c] = x]
        /\ s.freeChunks = bc.freeChunks /\ s.allocatedChunks = bc.allocatedChunks
        /\ s.nextAllocChunks = bc.nextAllocChunks
    <3>1. bc \in Bucket /\ x \in Chunk
      BY <1>4, <1>5, Zenon
    <3> QED BY <1>6, <1>7, <3>1, Assigned
  <2> HIDE DEF s
  <2>2. bs = s
    BY <1>8, Zenon DEF s
  <2> QED BY <2>1, <2>2, ZenonT(30) DEF SameCounters
<1>10. bs.chunks[c] = x /\ \A d \in 0..(maxChunks - 1) : d # c => bs.chunks[d] = bu.chunks[d]
  <2>1. bc.chunks \in Chunks
    BY <1>4, Fields, Zenon
  <2> QED BY <1>4, <1>9, <2>1, ZenonT(40) DEF Chunks
<1>11. Puts(bu, bs, k, v, c, o, i, g)
  <2>1. bs.m = [bu.m EXCEPT ![Hash[k]] = [idx |-> i, gen |-> g]] /\ bs.idx = i + kvLen(k)
    BY <1>4, <1>9, Zenon DEF h, e, n
  <2>2. bs.chunks[c] # NilChunk
    BY <1>5, <1>10, Nothing, Zenon
  <2>3. ASSUME NEW j \in 0..(ChunkSize - 1)
        PROVE  /\ j \in o..(o + kvLen(k) - 1) =>
                      bs.chunks[c].bytes[j] = [key |-> k, val |-> v, off |-> j - o]
               /\ j \notin o..(o + kvLen(k) - 1) /\ bu.chunks[c] # NilChunk =>
                      bs.chunks[c].bytes[j] = bu.chunks[c].bytes[j]
    BY <1>4, <1>5, <1>10, ZenonT(30)
  <2>4. bs \in Bucket /\ bs.type = bu.type /\ bs.gen = g
    BY <1>4, <1>9, Zenon
  <2> QED BY <1>10, <2>1, <2>2, <2>3, <2>4, Zenon DEF Puts
<1>12. IF bu.chunks[c] = NilChunk THEN Taken(bu, bs) ELSE SameCounters(bu, bs)
  BY <1>4, <1>9, Zenon DEF Taken, SameCounters
<1> QED BY <1>5, <1>10, <1>11, <1>12, Zenon DEF RingStored, bs

(* The last assignment of SetPreallocated: copy overwrites bytes of a chunk. *)
Overwrite(bt, k, v) ==
    LET c == bt.idx \div ChunkSize
        at == [bt.chunks[c] EXCEPT !.len = bt.idx % ChunkSize]
    IN [bt EXCEPT !.chunks[c].bytes = Appended(at, k, v).bytes,
                  !.m[Hash[k]] = [idx |-> bt.idx, gen |-> bt.gen],
                  !.idx = @ + kvLen(k)]

(* It stores the pair at the write position. *)
LEMMA Overwrites ==
    ASSUME NEW bt \in Bucket, NEW k \in Key, NEW v \in Value,
           NEW c \in 0..(maxChunks - 1), c = bt.idx \div ChunkSize, bt.chunks[c] # NilChunk,
           NEW o \in Nat, o = bt.idx % ChunkSize, o + kvLen(k) < ChunkSize
    PROVE  Puts(bt, Overwrite(bt, k, v), k, v, c, o, bt.idx, bt.gen)
<1> DEFINE at == [bt.chunks[c] EXCEPT !.len = o]
           y == Appended(at, k, v).bytes
           x == [bt.chunks[c] EXCEPT !.bytes = y]
           h == Hash[k]
           e == [idx |-> bt.idx, gen |-> bt.gen]
           n == bt.idx + kvLen(k)
           bs == Overwrite(bt, k, v)
<1>1. bt.chunks[c] \in Chunk
  BY Fields, Zenon DEF Chunks
<1>2. at \in Chunk /\ at.len = o /\ at.bytes = bt.chunks[c].bytes
  BY <1>1 DEF Chunk
<1> HIDE DEF at
<1>3. /\ Appended(at, k, v) \in Chunk
      /\ \A j \in 0..(ChunkSize - 1) :
             y[j] = IF j \in o..(o + kvLen(k) - 1)
                    THEN [key |-> k, val |-> v, off |-> j - o] ELSE bt.chunks[c].bytes[j]
  BY <1>2, AppendedChunk
<1>4. y \in [0..(ChunkSize - 1) -> {Junk} \cup Byte]
  BY <1>3, ZenonT(40) DEF Chunk
<1> HIDE DEF y
<1>5. x \in Chunk /\ x.bytes = y
  BY <1>1, <1>4 DEF Chunk
<1>6. h \in Hashes /\ bt.idx \in Nat /\ bt.gen \in 1..maxGen /\ kvLen(k) \in Nat
  BY Fields, Sizes, Zenon DEF Hashes
<1>7. e \in Entry /\ n \in Nat
  BY <1>6 DEF Entry
<1>8. bs = Assign(bt, c, x, h, e, n)
  <2>1. bs = [bt EXCEPT !.chunks[c].bytes = y, !.m[h] = e, !.idx = n]
    BY Zenon DEF Overwrite, y, at, Bucket
  <2>2. bs = [bt EXCEPT !.chunks[c] = x, !.m[h] = e, !.idx = n]
    BY <2>1, Zenon DEF Bucket
  <2> QED BY <2>2, Zenon DEF Assign
<1> HIDE DEF x, h, e, n, bs
<1>9. /\ bs \in Bucket /\ bs.type = bt.type /\ bs.gen = bt.gen /\ bs.idx = n
      /\ bs.m = [bt.m EXCEPT ![h] = e] /\ bs.chunks = [bt.chunks EXCEPT ![c] = x]
  <2> DEFINE s == Assign(bt, c, x, h, e, n)
  <2>1. /\ s \in Bucket /\ s.type = bt.type /\ s.gen = bt.gen /\ s.idx = n
        /\ s.m = [bt.m EXCEPT ![h] = e] /\ s.chunks = [bt.chunks EXCEPT ![c] = x]
    BY <1>5, <1>6, <1>7, Assigned
  <2> HIDE DEF s
  <2>2. bs = s
    BY <1>8, Zenon DEF s
  <2> QED BY <2>1, <2>2, ZenonT(40)
<1>10. bs.chunks[c] = x /\ \A d \in 0..(maxChunks - 1) : d # c => bs.chunks[d] = bt.chunks[d]
  BY <1>9, Fields, Zenon DEF Chunks
<1>11. bs.m = [bt.m EXCEPT ![Hash[k]] = [idx |-> bt.idx, gen |-> bt.gen]] /\ bs.idx = bt.idx + kvLen(k)
  BY <1>9, Zenon DEF h, e, n
<1>12. bs.chunks[c] # NilChunk
  BY <1>5, <1>10, Nothing, Zenon
<1>13. ASSUME NEW j \in 0..(ChunkSize - 1)
       PROVE  /\ j \in o..(o + kvLen(k) - 1) =>
                     bs.chunks[c].bytes[j] = [key |-> k, val |-> v, off |-> j - o]
              /\ j \notin o..(o + kvLen(k) - 1) /\ bt.chunks[c] # NilChunk =>
                     bs.chunks[c].bytes[j] = bt.chunks[c].bytes[j]
  BY <1>3, <1>5, <1>10, Zenon
<1> QED BY <1>9, <1>10, <1>11, <1>12, <1>13, Zenon DEF Puts, bs

-----------------------------------------------------------------------------
(* A pair that is stored behind the others, in the same lap.               *)

(* The note of a pair. *)
NewNote(k, v, i) == [key |-> k, val |-> v, idx |-> i, laps |-> 0]

(* A stored pair is where its note says. *)
LEMMA PutWritten ==
    ASSUME NEW bu, NEW bn, NEW k \in Key, NEW v \in Value, NEW c \in 0..(maxChunks - 1),
           NEW o \in 0..(ChunkSize - 1), o + kvLen(k) < ChunkSize, NEW i, i = c * ChunkSize + o,
           NEW g, Puts(bu, bn, k, v, c, o, i, g)
    PROVE  Written(bn, NewNote(k, v, i))
<1>1. /\ ChunkSize \in Nat \ {0} /\ c \in Nat /\ maxChunks \in Nat /\ kvLen(k) \in Nat
      /\ c < maxChunks
  BY Sizes
<1>2. i \div ChunkSize = c /\ i % ChunkSize = o
  BY <1>1, DivMod, Zenon
<1>3. NewNote(k, v, i).key = k /\ NewNote(k, v, i).val = v /\ NewNote(k, v, i).idx = i
  BY DEF NewNote
<1>4. ASSUME NEW j \in 0..(kvLen(k) - 1)
      PROVE  bn.chunks[c].bytes[o + j] = [key |-> k, val |-> v, off |-> j]
  <2>1. o + j \in 0..(ChunkSize - 1) /\ o + j \in o..(o + kvLen(k) - 1) /\ (o + j) - o = j
    BY <1>1
  <2>2. bn.chunks[c].bytes[o + j] = [key |-> k, val |-> v, off |-> (o + j) - o]
    BY <2>1, Zenon DEF Puts
  <2> QED BY <2>1, <2>2, Zenon
<1>5. bn.chunks[c] # NilChunk
  BY Zenon DEF Puts
<1> QED BY <1>1, <1>2, <1>3, <1>4, <1>5, ZenonT(30) DEF Written, WrittenAt

(* A pair that lies before or behind the one that is stored keeps its bytes. *)
LEMMA PutElsewhere ==
    ASSUME NEW bu, NEW bn, NEW k \in Key, NEW v \in Value, NEW c \in 0..(maxChunks - 1),
           NEW o \in 0..(ChunkSize - 1), NEW i, i = c * ChunkSize + o,
           NEW g, Puts(bu, bn, k, v, c, o, i, g),
           NEW l \in Note, Written(bu, l),
           l.idx + kvLen(l.key) <= i \/ l.idx >= i + kvLen(k)
    PROVE  Written(bn, l)
<1> DEFINE d == l.idx \div ChunkSize
           p == l.idx % ChunkSize
           n == kvLen(l.key)
<1>1. /\ ChunkSize \in Nat \ {0} /\ c \in Nat /\ maxChunks \in Nat /\ kvLen(k) \in Nat
      /\ l.idx \in Nat /\ l.key \in Key
  BY Sizes DEF Note
<1>2. n \in Nat \ {0} /\ d \in Nat /\ p \in 0..(ChunkSize - 1) /\ l.idx = d * ChunkSize + p
  BY <1>1, Sizes, Split, Zenon
<1>3. /\ d < maxChunks /\ bu.chunks[d] # NilChunk /\ p + n < ChunkSize
      /\ \A j \in 0..(n - 1) : bu.chunks[d].bytes[p + j] = [key |-> l.key, val |-> l.val, off |-> j]
  BY Zenon DEF Written, WrittenAt
<1>4. d \in 0..(maxChunks - 1)
  BY <1>1, <1>2, <1>3
<1> HIDE DEF d, p, n
<1>5. CASE d # c
  <2>1. bn.chunks[d] = bu.chunks[d]
    BY <1>4, <1>5, Zenon DEF Puts
  <2> QED BY <1>3, <2>1, Zenon DEF Written, WrittenAt, d, p, n
<1>6. CASE d = c
  <2>1. p + n <= o \/ p >= o + kvLen(k)
    <3>1. PICK w \in Int : w = c * ChunkSize
      BY <1>1
    <3>2. l.idx = w + p /\ i = w + o
      BY <1>2, <1>6, <3>1, Zenon
    <3>3. l.idx + n <= i \/ l.idx >= i + kvLen(k)
      BY Zenon DEF n
    <3> QED BY <1>1, <1>2, <3>1, <3>2, <3>3
  <2>2. ASSUME NEW j \in 0..(n - 1) PROVE bn.chunks[c].bytes[p + j] = bu.chunks[c].bytes[p + j]
    <3>1. p + j \in 0..(ChunkSize - 1) /\ p + j \notin o..(o + kvLen(k) - 1)
      BY <1>1, <1>2, <1>3, <2>1
    <3> QED BY <1>3, <1>6, <3>1, Zenon DEF Puts
  <2>3. bn.chunks[c] # NilChunk
    BY Zenon DEF Puts
  <2> QED BY <1>3, <1>6, <2>2, <2>3, Zenon DEF Written, WrittenAt, d, p, n
<1> QED BY <1>5, <1>6

(* The note of a pair that was just stored. *)
LEMMA NewRecorded ==
    ASSUME NEW bu \in Bucket, NEW bn, NEW k \in Key, NEW v \in Value, NEW c \in 0..(maxChunks - 1),
           NEW o \in 0..(ChunkSize - 1), o + kvLen(k) < ChunkSize, NEW i \in Nat, i = c * ChunkSize + o,
           NEW g \in 1..maxGen, Puts(bu, bn, k, v, c, o, i, g),
           NEW la, la[Hash[k]] = NewNote(k, v, i)
    PROVE  Recorded(bn, la, Hash[k]) /\ NewNote(k, v, i) \in Note
<1>1. Hash[k] \in Hashes /\ kvLen(k) \in Nat
  BY Sizes, Zenon DEF Hashes
<1>2. bn.m[Hash[k]] = [idx |-> i, gen |-> g] /\ bn.gen = g /\ bn.idx = i + kvLen(k)
  BY <1>1, Fields, ZenonT(30) DEF Puts
<1>3. [idx |-> i, gen |-> g] \in Entry /\ [idx |-> i, gen |-> g].idx = i /\ [idx |-> i, gen |-> g].gen = g
  BY DEF Entry
<1>4. /\ NewNote(k, v, i) \in Note /\ NewNote(k, v, i).key = k /\ NewNote(k, v, i).idx = i
      /\ NewNote(k, v, i).laps = 0
  BY DEF NewNote, Note
<1>5. Written(bn, NewNote(k, v, i))
  BY PutWritten, Zenon
<1>6. i + kvLen(k) <= i + kvLen(k)
  BY <1>1
<1>7. /\ bn.m[Hash[k]] # none /\ bn.m[Hash[k]].idx = i /\ bn.m[Hash[k]].gen = g
      /\ la[Hash[k]] # none
  BY <1>2, <1>3, <1>4, Nothing, Zenon
<1> QED BY <1>2, <1>4, <1>5, <1>6, <1>7, Zenon DEF Recorded

(* The write position behind a pair that was just stored. *)
LEMMA NewPosition ==
    ASSUME NEW bu \in Bucket, Position(bu), NEW bn, NEW k \in Key, NEW v \in Value,
           NEW c \in 0..(maxChunks - 1), NEW o \in 0..(ChunkSize - 1), o + kvLen(k) < ChunkSize,
           NEW i \in Nat, i = c * ChunkSize + o, NEW g, Puts(bu, bn, k, v, c, o, i, g),
           bu.type # "preallocated" => /\ bn.chunks[c].len = o + kvLen(k)
                                       /\ \A d \in 0..(c - 1) : bu.chunks[d] # NilChunk
    PROVE  Position(bn)
<1>1. ChunkSize \in Nat \ {0} /\ c \in Nat /\ maxChunks \in Nat /\ kvLen(k) \in Nat \ {0} /\ c < maxChunks
  BY Sizes
<1>2. PICK p \in 0..(ChunkSize - 1) : p = o + kvLen(k)
  BY <1>1
<1>3. bn.idx = c * ChunkSize + p
  <2>1. PICK w \in Int : w = c * ChunkSize
    BY <1>1
  <2>2. bn.idx = i + kvLen(k)
    BY Zenon DEF Puts
  <2>3. (w + o) + kvLen(k) = w + p
    BY <1>1, <1>2, <2>1
  <2> QED BY <2>1, <2>2, <2>3, Zenon
<1>4. bn.idx \div ChunkSize = c /\ bn.idx % ChunkSize = p
  BY <1>1, <1>3, DivMod, ZenonT(40)
<1>5. bn.idx < maxChunks * ChunkSize
  <2>1. c * ChunkSize + ChunkSize <= maxChunks * ChunkSize
    BY <1>1, ChunkOrder
  <2>2. PICK w \in Int : w = c * ChunkSize
    BY <1>1
  <2>3. PICK x \in Int : x = maxChunks * ChunkSize
    BY <1>1
  <2> QED BY <1>1, <1>2, <1>3, <2>1, <2>2, <2>3
<1>6. bn.type = bu.type /\ bn.chunks[c] # NilChunk
      /\ \A d \in 0..(maxChunks - 1) : d # c => bn.chunks[d] = bu.chunks[d]
  BY Zenon DEF Puts
<1>7. CASE bu.type = "preallocated"
  <2>1. \A d \in 0..(maxChunks - 1) : bn.chunks[d] # NilChunk
    BY <1>6, <1>7, Zenon DEF Position
  <2> QED BY <1>5, <1>6, <1>7, <2>1, Zenon DEF Position
<1>8. CASE bu.type # "preallocated"
  <2>1. ASSUME NEW d \in 0..c PROVE bn.chunks[d] # NilChunk
    <3>1. d \in 0..(maxChunks - 1) /\ (d # c => d \in 0..(c - 1))
      BY <1>1
    <3> QED BY <1>6, <1>8, <3>1, Zenon
  <2>2. bn.chunks[c].len = p
    BY <1>2, <1>8, Zenon
  <2> QED BY <1>4, <1>5, <1>6, <1>8, <2>1, <2>2, Zenon DEF Position
<1> QED BY <1>7, <1>8

(* Pair (k, v) is stored behind the others of this lap, at index i. *)
Behind(bu, bn, k, v, c, o, i) ==
    /\ k \in Key /\ v \in Value
    /\ c \in 0..(maxChunks - 1) /\ o \in 0..(ChunkSize - 1) /\ o + kvLen(k) < ChunkSize
    /\ i \in Nat /\ i = c * ChunkSize + o /\ i >= bu.idx
    /\ Puts(bu, bn, k, v, c, o, i, bu.gen)
    /\ bu.type # "preallocated" => /\ bn.chunks[c].len = o + kvLen(k)
                                   /\ \A d \in 0..(c - 1) : bu.chunks[d] # NilChunk

NotedAt(la, k, v, i) == [h \in Hashes |-> IF h = Hash[k] THEN NewNote(k, v, i) ELSE la[h]]

(* Such a pair keeps the invariant. *)
LEMMA Advances ==
    ASSUME NEW bu, NEW la, Kept(bu, la), NEW bn, NEW k, NEW v, NEW c, NEW o, NEW i,
           Behind(bu, bn, k, v, c, o, i)
    PROVE  Kept(bn, NotedAt(la, k, v, i))
<1> DEFINE ln == NotedAt(la, k, v, i)
<1>a. /\ k \in Key /\ v \in Value
      /\ c \in 0..(maxChunks - 1) /\ o \in 0..(ChunkSize - 1) /\ o + kvLen(k) < ChunkSize
      /\ i \in Nat /\ i = c * ChunkSize + o /\ i >= bu.idx
      /\ Puts(bu, bn, k, v, c, o, i, bu.gen)
      /\ bu.type # "preallocated" => /\ bn.chunks[c].len = o + kvLen(k)
                                     /\ \A d \in 0..(c - 1) : bu.chunks[d] # NilChunk
  BY Zenon DEF Behind
<1>b. ln = [h \in Hashes |-> IF h = Hash[k] THEN NewNote(k, v, i) ELSE la[h]]
  BY Zenon DEF NotedAt
<1> HIDE DEF ln
<1> USE <1>a, <1>b
<1>1. /\ bu \in Bucket /\ la \in Notes /\ Position(bu) /\ \A h \in Hashes : Recorded(bu, la, h)
      /\ bu.gen \in 1..maxGen /\ bu.idx \in Nat /\ bu.m \in [Hashes -> {none} \cup Entry]
  BY Fields, Zenon DEF Kept
<1>2. Hash[k] \in Hashes /\ kvLen(k) \in Nat \ {0}
  BY Sizes, Zenon DEF Hashes
<1>3. Recorded(bn, ln, Hash[k]) /\ NewNote(k, v, i) \in Note
  <2>1. ln[Hash[k]] = NewNote(k, v, i)
    BY <1>2, Zenon
  <2>2. bu \in Bucket /\ bu.gen \in 1..maxGen
    BY <1>1, Zenon
  <2> QED BY <2>1, <2>2, NewRecorded, Zenon
<1>4. /\ bn \in Bucket /\ bn.type = bu.type /\ bn.gen = bu.gen /\ bn.idx = i + kvLen(k)
      /\ bn.m = [bu.m EXCEPT ![Hash[k]] = [idx |-> i, gen |-> bu.gen]]
  BY Zenon DEF Puts
<1>5. ASSUME NEW h \in Hashes, h # Hash[k] PROVE Recorded(bn, ln, h)
  <2>1. bn.m[h] = bu.m[h] /\ ln[h] = la[h]
    BY <1>1, <1>4, <1>5, Zenon
  <2>2. Recorded(bu, la, h)
    BY <1>1, Zenon
  <2>3. ASSUME la[h] # none
        PROVE  /\ la[h].laps = 0 => la[h].idx + kvLen(la[h].key) <= bn.idx
               /\ Live(bn, la[h]) => bu.m[h] # none /\ Written(bn, la[h])
    <3>1. la[h] \in Note /\ la[h].idx \in Nat /\ kvLen(la[h].key) \in Nat
      <4>1. la[h] \in Note
        BY <1>1, <2>3, Zenon DEF Notes
      <4>2. la[h].idx \in Nat /\ la[h].key \in Key
        BY <4>1 DEF Note
      <4> QED BY <4>1, <4>2, Sizes, Zenon
    <3>2. la[h].laps = 0 => la[h].idx + kvLen(la[h].key) <= bu.idx
      BY <2>2, <2>3, ZenonT(40) DEF Recorded
    <3>3. la[h].laps = 0 => la[h].idx + kvLen(la[h].key) <= i /\ la[h].idx + kvLen(la[h].key) <= i + kvLen(k)
      BY <1>1, <1>2, <3>1, <3>2
    <3>4. ASSUME Live(bn, la[h]) PROVE bu.m[h] # none /\ Written(bn, la[h])
      <4>1. la[h].laps = 0 \/ (la[h].laps = 1 /\ la[h].idx >= i + kvLen(k))
        BY <1>4, <3>4, ZenonT(40) DEF Live
      <4>2. la[h].idx >= i + kvLen(k) => la[h].idx >= bu.idx
        BY <1>1, <1>2, <3>1
      <4>3. bu.m[h] # none /\ Written(bu, la[h])
        BY <2>2, <2>3, <4>1, <4>2, Zenon DEF Recorded, Live
      <4>4. la[h].idx + kvLen(la[h].key) <= i \/ la[h].idx >= i + kvLen(k)
        BY <3>3, <4>1, Zenon
      <4> QED BY <3>1, <4>3, <4>4, PutElsewhere, Zenon
    <3> QED BY <1>4, <3>3, <3>4, Zenon
  <2>4. bu.m[h] # none =>
           /\ la[h] # none /\ la[h].idx = bu.m[h].idx
           /\ \/ la[h].laps = 0 /\ bu.m[h].gen = bn.gen
              \/ la[h].laps = 1 /\ NextGen(bu.m[h].gen) = bn.gen
    BY <1>4, <2>2, Zenon DEF Recorded
  <2>5. la[h] # none /\ bn.type = "preallocated" => la[h].laps = 0
    BY <1>4, <2>2, Zenon DEF Recorded
  <2> QED BY <2>1, <2>3, <2>4, <2>5, Zenon DEF Recorded
<1>6. ln \in Notes
  BY <1>1, <1>3, ZenonT(40) DEF Notes
<1>7. Position(bn)
  BY <1>1, NewPosition
<1> QED BY <1>3, <1>4, <1>5, <1>6, <1>7, Zenon DEF Kept, ln
-----------------------------------------------------------------------------
(* A pair that starts the ring over.                                       *)

(* cleanLockedMap drops entries that do not pass the test of Get, and keeps none that
   is older than the last generation. *)
Cleaned(bs, bn) ==
    /\ bn \in Bucket /\ bn.type = bs.type /\ bn.idx = bs.idx /\ bn.gen = bs.gen
    /\ bn.chunks = bs.chunks /\ SameCounters(bs, bn)
    /\ \A h \in Hashes : /\ bn.m[h] = bs.m[h] \/ (bn.m[h] = none /\ ~InRing(bs, bs.m[h]))
                         /\ bn.m[h] # none => Counted(bs, bs.m[h])

(* Both forms of it do. *)
LEMMA CleanedMaps ==
    ASSUME NEW bs \in Bucket
    PROVE  Cleaned(bs, cleanLockedMap(bs)) /\ Cleaned(bs, cleanLockedMapTrimmed(bs))
<1> DEFINE m == [h \in Hashes |-> IF InRing(bs, bs.m[h]) THEN bs.m[h] ELSE none]
           bn == cleanLockedMap(bs)
<1>1. bs.m \in [Hashes -> {none} \cup Entry]
  BY Fields, Zenon
<1>2. m \in [Hashes -> {none} \cup Entry]
  BY <1>1, Zenon
<1>3. bn = [bs EXCEPT !.m = m]
  BY Zenon DEF cleanLockedMap
<1>4. \A h \in Hashes : /\ m[h] = bs.m[h] \/ (m[h] = none /\ ~InRing(bs, bs.m[h]))
                        /\ m[h] # none => InRing(bs, bs.m[h])
  BY Zenon
<1> HIDE DEF m, bn
<1>5. /\ bn \in Bucket /\ bn.type = bs.type /\ bn.idx = bs.idx /\ bn.gen = bs.gen
      /\ bn.chunks = bs.chunks /\ SameCounters(bs, bn) /\ bn.m = m
  BY <1>2, <1>3, Zenon DEF Bucket, SameCounters
<1>6. Cleaned(bs, bn)
  BY <1>4, <1>5, Zenon DEF Cleaned, Counted
<1>7. CASE \A h \in Hashes : bs.m[h] # none => Counted(bs, bs.m[h])
  <2>1. cleanLockedMapTrimmed(bs) = bs
    BY <1>7, Zenon DEF cleanLockedMapTrimmed
  <2>2. Cleaned(bs, bs)
    BY <1>7, Zenon DEF Cleaned, SameCounters
  <2> QED BY <1>6, <2>1, <2>2, Zenon DEF bn
<1>8. CASE ~ \A h \in Hashes : bs.m[h] # none => Counted(bs, bs.m[h])
  <2>1. cleanLockedMapTrimmed(bs) = bn
    BY <1>8, Zenon DEF cleanLockedMapTrimmed, bn
  <2> QED BY <1>6, <2>1, Zenon DEF bn
<1> QED BY <1>7, <1>8

(* A generation is told from the next and the one after it. *)
LEMMA ThreeGenerations ==
    ASSUME NEW e \in Entry, NEW bs, NEW g \in 1..maxGen, bs.gen = NextGen(g)
    PROVE  /\ e.gen = g => (InRing(bs, e) <=> e.idx >= bs.idx)
           /\ NextGen(e.gen) = g => ~Counted(bs, e)
<1>1. e.gen \in 1..maxGen /\ e # none
  BY Nothing DEF Entry
<1>2. /\ NextGen(g) = (IF g = maxGen THEN 1 ELSE g + 1) /\ maxGen \in Nat /\ maxGen >= 3
      /\ NextGen(e.gen) = (IF e.gen = maxGen THEN 1 ELSE e.gen + 1)
  BY <1>1, Generations, Sizes, Zenon
<1>3. ASSUME e.gen = g PROVE InRing(bs, e) <=> e.idx >= bs.idx
  <2>1. bs.gen # e.gen /\ (e.gen + 1 = bs.gen \/ (e.gen = maxGen /\ bs.gen = 1))
    BY <1>1, <1>2, <1>3
  <2> QED BY <1>1, <2>1, Zenon DEF InRing
<1>4. ASSUME NextGen(e.gen) = g PROVE ~Counted(bs, e)
  <2>1. bs.gen # e.gen /\ e.gen + 1 # bs.gen /\ ~(e.gen = maxGen /\ bs.gen = 1)
    BY <1>1, <1>2, <1>4
  <2> QED BY <1>1, <2>1, Zenon DEF InRing, Counted
<1> QED BY <1>3, <1>4, Zenon

(* A note that a lap has passed over. *)
Passed(l) == IF l = none THEN none ELSE [l EXCEPT !.laps = Min({@ + 1, 2})]

(* Its fields. *)
LEMMA PassedNote ==
    ASSUME NEW l \in {none} \cup Note
    PROVE  /\ Passed(l) \in {none} \cup Note /\ (Passed(l) = none <=> l = none)
           /\ l # none => /\ Passed(l).key = l.key /\ Passed(l).val = l.val /\ Passed(l).idx = l.idx
                          /\ Passed(l).laps # 0 /\ (Passed(l).laps = 1 <=> l.laps = 0)
<1>1. CASE l = none
  BY <1>1, Zenon DEF Passed
<1>2. CASE l \in Note
  <2>1. l.laps \in 0..2
    BY <1>2 DEF Note
  <2>2. PICK n \in 0..2 : n = Min({l.laps + 1, 2}) /\ n # 0 /\ (n = 1 <=> l.laps = 0)
    <3>1. l.laps + 1 \in Int /\ 2 \in Int
      BY <2>1
    <3>2. Min({l.laps + 1, 2}) \in {l.laps + 1, 2} /\ Min({l.laps + 1, 2}) <= 2
          /\ Min({l.laps + 1, 2}) <= l.laps + 1
      BY <3>1 DEF Min
    <3> QED BY <2>1, <3>2
  <2>3. Passed(l) = [l EXCEPT !.laps = n]
    BY <1>2, <2>2, Nothing, Zenon DEF Passed
  <2>4. /\ [l EXCEPT !.laps = n] \in Note /\ [l EXCEPT !.laps = n].laps = n
        /\ [l EXCEPT !.laps = n].key = l.key /\ [l EXCEPT !.laps = n].val = l.val
        /\ [l EXCEPT !.laps = n].idx = l.idx
    BY <1>2, <2>2, Zenon DEF Note
  <2> QED BY <1>2, <2>2, <2>3, <2>4, Nothing, Zenon
<1> QED BY <1>1, <1>2

(* The ring starts over with a pair at index 0, and the map is cleaned. *)
Restarts(bu, bs, bn, k, v) ==
    /\ bu.type # "preallocated" /\ k \in Key /\ v \in Value /\ kvLen(k) < ChunkSize
    /\ Puts(bu, bs, k, v, 0, 0, 0, NextGen(bu.gen)) /\ bs.chunks[0].len = kvLen(k)
    /\ Cleaned(bs, bn)

NotedOver(la, k, v) == [h \in Hashes |-> IF h = Hash[k] THEN NewNote(k, v, 0) ELSE Passed(la[h])]

(* Such a pair keeps the invariant. *)
LEMMA StartsOver ==
    ASSUME NEW bu, NEW la, Kept(bu, la), NEW bs, NEW bn, NEW k, NEW v, Restarts(bu, bs, bn, k, v)
    PROVE  Kept(bn, NotedOver(la, k, v))
<1> DEFINE ln == NotedOver(la, k, v)
<1>a. /\ bu.type # "preallocated" /\ k \in Key /\ v \in Value /\ kvLen(k) < ChunkSize
      /\ Puts(bu, bs, k, v, 0, 0, 0, NextGen(bu.gen)) /\ bs.chunks[0].len = kvLen(k)
      /\ Cleaned(bs, bn)
  BY Zenon DEF Restarts
<1>b. ln = [h \in Hashes |-> IF h = Hash[k] THEN NewNote(k, v, 0) ELSE Passed(la[h])]
  BY Zenon DEF NotedOver
<1> HIDE DEF ln
<1> USE <1>a, <1>b
<1>1. /\ bu \in Bucket /\ la \in Notes /\ Position(bu) /\ \A h \in Hashes : Recorded(bu, la, h)
      /\ bu.gen \in 1..maxGen /\ bu.idx \in Nat /\ bu.m \in [Hashes -> {none} \cup Entry]
  BY Fields, Zenon DEF Kept
<1>2. Hash[k] \in Hashes /\ kvLen(k) \in Nat \ {0} /\ NextGen(bu.gen) \in 1..maxGen
  BY <1>1, Sizes, Generations, ZenonT(40) DEF Hashes
<1>3. /\ 0 \in 0..(maxChunks - 1) /\ 0 \in 0..(ChunkSize - 1) /\ 0 = 0 * ChunkSize + 0 /\ 0 \in Nat
      /\ 0 + kvLen(k) = kvLen(k) /\ 0..(0 - 1) = {}
  BY <1>2, Sizes
<1>4. ln[Hash[k]] = NewNote(k, v, 0)
  BY <1>2, Zenon
<1>5. Recorded(bs, ln, Hash[k]) /\ NewNote(k, v, 0) \in Note
  <2>1. 0 + kvLen(k) < ChunkSize
    BY <1>3, ZenonT(40)
  <2> QED BY <1>1, <1>2, <1>3, <1>4, <2>1, NewRecorded, Zenon
<1>6. Position(bs)
  <2>1. 0 + kvLen(k) < ChunkSize /\ bs.chunks[0].len = 0 + kvLen(k)
        /\ \A d \in 0..(0 - 1) : bu.chunks[d] # NilChunk
    BY <1>3, Zenon
  <2> QED BY <1>1, <1>3, <2>1, NewPosition, ZenonT(40)
<1>7. /\ bs \in Bucket /\ bs.type = bu.type /\ bs.gen = NextGen(bu.gen) /\ bs.idx = 0 + kvLen(k)
      /\ bs.m = [bu.m EXCEPT ![Hash[k]] = [idx |-> 0, gen |-> NextGen(bu.gen)]]
  BY Zenon DEF Puts
<1>8. /\ bn \in Bucket /\ bn.type = bs.type /\ bn.idx = bs.idx /\ bn.gen = bs.gen /\ bn.chunks = bs.chunks
      /\ \A h \in Hashes : /\ bn.m[h] = bs.m[h] \/ (bn.m[h] = none /\ ~InRing(bs, bs.m[h]))
                           /\ bn.m[h] # none => Counted(bs, bs.m[h])
  BY Zenon DEF Cleaned
<1>9. Position(bn)
  BY <1>6, <1>8, Zenon DEF Position
<1>10. \A l : /\ Live(bn, l) <=> Live(bs, l)
              /\ Written(bn, l) <=> Written(bs, l)
  BY <1>8, Zenon DEF Live, Written, WrittenAt
<1>11. Recorded(bn, ln, Hash[k])
  <2>1. bs.m[Hash[k]] = [idx |-> 0, gen |-> NextGen(bu.gen)]
    BY <1>1, <1>2, <1>7, ZenonT(40)
  <2>2. /\ [idx |-> 0, gen |-> NextGen(bu.gen)] \in Entry
        /\ [idx |-> 0, gen |-> NextGen(bu.gen)].idx = 0
        /\ [idx |-> 0, gen |-> NextGen(bu.gen)].gen = NextGen(bu.gen)
    BY <1>2, ZenonT(40) DEF Entry
  <2>3. 0 < bs.idx
    BY <1>2, <1>7
  <2>4. InRing(bs, bs.m[Hash[k]])
    BY <1>7, <2>1, <2>2, <2>3, Nothing, Zenon DEF InRing
  <2>5. bn.m[Hash[k]] = bs.m[Hash[k]]
    BY <1>2, <1>8, <2>4, Zenon
  <2> QED BY <1>5, <1>8, <1>10, <2>5, Zenon DEF Recorded
<1>12. ASSUME NEW h \in Hashes, h # Hash[k] PROVE Recorded(bn, ln, h)
  <2>1. bs.m[h] = bu.m[h] /\ ln[h] = Passed(la[h])
    BY <1>1, <1>7, <1>12, Zenon
  <2>2. la[h] \in {none} \cup Note /\ bu.m[h] \in {none} \cup Entry
    BY <1>1, Zenon DEF Notes
  <2>3. /\ Passed(la[h]) = none <=> la[h] = none
        /\ la[h] # none => /\ Passed(la[h]).key = la[h].key /\ Passed(la[h]).val = la[h].val
                           /\ Passed(la[h]).idx = la[h].idx
                           /\ Passed(la[h]).laps # 0 /\ (Passed(la[h]).laps = 1 <=> la[h].laps = 0)
    BY <2>2, PassedNote, Zenon
  <2>4. bu.m[h] # none =>
           /\ la[h] # none /\ la[h].idx = bu.m[h].idx
           /\ \/ la[h].laps = 0 /\ bu.m[h].gen = bu.gen
              \/ la[h].laps = 1 /\ NextGen(bu.m[h].gen) = bu.gen
    BY <1>1, Zenon DEF Recorded
  <2>5. ASSUME bn.m[h] # none
        PROVE  /\ ln[h] # none /\ ln[h].idx = bn.m[h].idx
               /\ ln[h].laps = 1 /\ NextGen(bn.m[h].gen) = bn.gen
    <3>1. bn.m[h] = bu.m[h] /\ bu.m[h] \in Entry /\ Counted(bs, bu.m[h])
      BY <1>8, <2>1, <2>2, <2>5, Zenon
    <3>2. NextGen(bu.m[h].gen) # bu.gen
      BY <1>1, <1>7, <3>1, ThreeGenerations, Zenon
    <3>3. la[h].laps = 0 /\ bu.m[h].gen = bu.gen /\ la[h] # none /\ la[h].idx = bu.m[h].idx
      BY <2>4, <2>5, <3>1, <3>2, Zenon
    <3>4. Passed(la[h]) # none /\ Passed(la[h]).idx = la[h].idx /\ Passed(la[h]).laps = 1
      BY <2>3, <3>3, Zenon
    <3>5. NextGen(bu.m[h].gen) = bn.gen
      BY <1>7, <1>8, <3>3, ZenonT(40)
    <3> QED BY <2>1, <3>1, <3>3, <3>4, <3>5, Zenon
  <2>6. ASSUME ln[h] # none, Live(bn, ln[h]) PROVE bn.m[h] # none /\ Written(bn, ln[h])
    <3>1. la[h] # none /\ la[h] \in Note
      BY <2>1, <2>2, <2>3, <2>6, Zenon
    <3>2. la[h].laps = 0 /\ la[h].idx >= bs.idx
      BY <1>8, <2>1, <2>3, <2>6, <3>1, Zenon DEF Live
    <3>3. bu.m[h] # none /\ Written(bu, la[h])
      BY <1>1, <3>1, <3>2, Zenon DEF Recorded, Live
    <3>4. bu.m[h] \in Entry /\ bu.m[h].gen = bu.gen /\ bu.m[h].idx >= bs.idx
      <4>1. 0 # 1
        OBVIOUS
      <4> QED BY <2>2, <2>4, <3>2, <3>3, <4>1, ZenonT(40)
    <3>5. InRing(bs, bu.m[h])
      BY <1>1, <1>7, <3>4, ThreeGenerations, Zenon
    <3>6. bn.m[h] # none
      BY <1>8, <2>1, <3>3, <3>5, ZenonT(40)
    <3>7. Written(bs, la[h])
      <4>1. la[h].idx >= 0 + kvLen(k)
        BY <1>7, <3>2, Zenon
      <4> QED BY <1>3, <3>1, <3>3, <4>1, PutElsewhere, ZenonT(40)
    <3>8. Written(bn, ln[h])
      <4>1. Written(bn, la[h])
        BY <1>10, <3>7, Zenon
      <4>2. ln[h].key = la[h].key /\ ln[h].val = la[h].val /\ ln[h].idx = la[h].idx
        BY <2>1, <2>3, <3>1, Zenon
      <4> QED BY <4>1, <4>2, ZenonT(30) DEF Written, WrittenAt
    <3> QED BY <3>6, <3>8, ZenonT(40)
  <2>7. ln[h] # none => ln[h].laps # 0
    BY <2>1, <2>3, Zenon
  <2> QED BY <1>7, <1>8, <2>5, <2>6, <2>7, Zenon DEF Recorded
<1>13. ln \in Notes
  <2>1. \A h \in Hashes : Passed(la[h]) \in {none} \cup Note
    BY <1>1, PassedNote, Zenon DEF Notes
  <2> QED BY <1>5, <2>1, Zenon DEF Notes
<1> QED BY <1>8, <1>9, <1>11, <1>12, <1>13, Zenon DEF Kept, ln
-----------------------------------------------------------------------------
(* A full preallocated bucket is trimmed.                                  *)

(* Some chunk is dropped. *)
LEMMA SomeDropped == numOfChunksToRemove \in 1..maxChunks
<1>1. maxChunks \in Nat \ {0} /\ TrimRatio \in 1..100
  BY Sizes, BucketAssumption, Zenon
<1>2. PICK x \in Nat : x = maxChunks * TrimRatio + 99
  BY <1>1
<1>3. x >= 100 /\ x <= 100 * maxChunks + 99
  <2>1. maxChunks * TrimRatio >= 1 /\ maxChunks * TrimRatio <= maxChunks * 100
    BY <1>1
  <2>2. PICK y \in Int : y = maxChunks * TrimRatio
    BY <1>1
  <2> QED BY <1>1, <1>2, <2>1, <2>2
<1>4. numOfChunksToRemove = x \div 100
  BY <1>2, Zenon DEF numOfChunksToRemove
<1> QED BY <1>1, <1>3, <1>4

(* The fields of the trimmed bucket. *)
LEMMA TrimmedFields ==
    ASSUME NEW bu \in Bucket
    PROVE  LET keep == maxChunks - numOfChunksToRemove
               bt == Trimmed(bu) IN
           /\ bt \in Bucket /\ bt.type = bu.type /\ bt.gen = bu.gen /\ bt.idx = keep * ChunkSize
           /\ bt.m = [h \in Hashes |-> Moved(bu.m[h])]
           /\ bt.chunks = [c \in 0..(maxChunks - 1) |->
                              IF c < keep THEN bu.chunks[c + numOfChunksToRemove] ELSE ZeroChunk]
           /\ ZeroChunk \in Chunk /\ SameCounters(bu, bt)
<1> DEFINE R == numOfChunksToRemove
           keep == maxChunks - R
           m == [h \in Hashes |-> Moved(bu.m[h])]
           chunks == [c \in 0..(maxChunks - 1) |-> IF c < keep THEN bu.chunks[c + R] ELSE ZeroChunk]
           i == keep * ChunkSize
           bt == Trimmed(bu)
<1>1. /\ bu.m \in [Hashes -> {none} \cup Entry] /\ bu.chunks \in Chunks
      /\ DOMAIN bu.chunks = 0..(maxChunks - 1)
  BY Fields, Zenon DEF Chunks
<1>2. R \in Nat \ {0} /\ maxChunks \in Nat /\ ChunkSize \in Nat \ {0} /\ keep \in Nat /\ R <= maxChunks
  BY Sizes, SomeDropped
<1> HIDE DEF R
<1>3. ZeroChunk \in Chunk
  BY <1>2 DEF ZeroChunk, FreshChunk, Chunk
<1>4. m \in [Hashes -> {none} \cup Entry]
  <2>1. ASSUME NEW e \in {none} \cup Entry PROVE Moved(e) \in {none} \cup Entry
    <3>1. CASE e = none \/ e.idx < R * ChunkSize
      BY <3>1, Zenon DEF Moved, R
    <3>2. CASE ~(e = none \/ e.idx < R * ChunkSize)
      <4>1. e \in Entry /\ Moved(e) = [e EXCEPT !.idx = e.idx - R * ChunkSize]
        BY <3>2, Zenon DEF Moved, R, Entry
      <4>2. e.idx \in Nat /\ e.gen \in 1..maxGen
        BY <4>1 DEF Entry
      <4>3. PICK j \in Nat : j = e.idx - R * ChunkSize
        <5>1. PICK w \in Int : w = R * ChunkSize
          BY <1>2
        <5> QED BY <3>2, <4>2, <5>1
      <4>4. [e EXCEPT !.idx = j] \in Entry
        BY <4>1, <4>3, Zenon DEF Entry
      <4> QED BY <4>1, <4>3, <4>4, Zenon
    <3> QED BY <3>1, <3>2
  <2> QED BY <1>1, <2>1, Zenon
<1>5. chunks \in Chunks
  <2>1. ASSUME NEW c \in 0..(maxChunks - 1), c < keep PROVE bu.chunks[c + R] \in {NilChunk} \cup Chunk
    <3>1. c + R \in 0..(maxChunks - 1)
      BY <1>2, <2>1
    <3> QED BY <1>1, <3>1, Zenon DEF Chunks
  <2> HIDE DEF keep
  <2> QED BY <1>3, <2>1, Zenon DEF Chunks
<1>6. i \in Nat
  BY <1>2
<1>7. bt = [bu EXCEPT !.chunks = chunks, !.m = m, !.idx = i]
  BY <1>1, Zenon DEF Trimmed, Bucket, R
<1> HIDE DEF m, chunks, i, bt, keep
<1>8. /\ bt \in Bucket /\ bt.type = bu.type /\ bt.gen = bu.gen /\ bt.idx = i /\ bt.m = m
      /\ bt.chunks = chunks /\ SameCounters(bu, bt)
  BY <1>4, <1>5, <1>6, <1>7, Zenon DEF Bucket, Chunks, SameCounters
<1> QED BY <1>3, <1>8, Zenon DEF m, chunks, i, keep, R, bt

(* A note of a chunk that stays, moved with its chunk. *)
LEMMA MovedNote ==
    ASSUME NEW l \in Note, ~(l.idx < numOfChunksToRemove * ChunkSize)
    PROVE  /\ Moved(l) \in Note /\ Moved(l).key = l.key /\ Moved(l).val = l.val
           /\ Moved(l).laps = l.laps /\ Moved(l).idx = l.idx - numOfChunksToRemove * ChunkSize
<1>1. l.idx \in Nat /\ l # none
  BY Nothing DEF Note
<1>2. PICK w \in Nat : w = numOfChunksToRemove * ChunkSize
  BY SomeDropped, Sizes
<1>3. PICK j \in Nat : j = l.idx - w
  BY <1>1, <1>2
<1>4. Moved(l) = [l EXCEPT !.idx = j]
  BY <1>1, <1>2, <1>3, Zenon DEF Moved, Note
<1>5. /\ [l EXCEPT !.idx = j] \in Note /\ [l EXCEPT !.idx = j].key = l.key
      /\ [l EXCEPT !.idx = j].val = l.val /\ [l EXCEPT !.idx = j].laps = l.laps
      /\ [l EXCEPT !.idx = j].idx = j
  BY <1>3, Zenon DEF Note
<1> QED BY <1>2, <1>3, <1>4, <1>5, Zenon

(* Its bytes move along. *)
LEMMA MovedWritten ==
    ASSUME NEW bu \in Bucket, NEW l \in Note, ~(l.idx < numOfChunksToRemove * ChunkSize),
           Written(bu, l)
    PROVE  /\ Written(Trimmed(bu), Moved(l))
           /\ Moved(l).idx + kvLen(Moved(l).key) <= Trimmed(bu).idx
<1> DEFINE R == numOfChunksToRemove
           C == ChunkSize
           keep == maxChunks - R
           bt == Trimmed(bu)
           d == l.idx \div C
           p == l.idx % C
           n == kvLen(l.key)
<1>1. /\ R \in 1..maxChunks /\ C \in Nat \ {0} /\ maxChunks \in Nat \ {0} /\ l.idx \in Nat /\ n \in Nat
  <2>1. l.idx \in Nat /\ l.key \in Key
    BY DEF Note
  <2> QED BY <2>1, SomeDropped, Sizes, Zenon
<1>2. d \in Nat /\ p \in 0..(C - 1) /\ l.idx = d * C + p
  BY <1>1, Split, Zenon
<1>3. /\ d < maxChunks /\ bu.chunks[d] # NilChunk /\ p + n < C
      /\ \A j \in 0..(n - 1) : bu.chunks[d].bytes[p + j] = [key |-> l.key, val |-> l.val, off |-> j]
  BY Zenon DEF Written, WrittenAt
<1>4. /\ bt.idx = keep * C
      /\ bt.chunks = [c \in 0..(maxChunks - 1) |-> IF c < keep THEN bu.chunks[c + R] ELSE ZeroChunk]
  BY TrimmedFields, Zenon
<1>5. Moved(l).key = l.key /\ Moved(l).val = l.val /\ Moved(l).idx = l.idx - R * C /\ ~(l.idx < R * C)
  BY MovedNote, Zenon
<1> HIDE DEF R, C, bt, d, p, n
<1>6. PICK e \in Nat : d = e + R /\ e < keep
  <2>1. d >= R
    <3>1. d < R => d * C + C <= R * C
      BY <1>1, <1>2, ChunkOrder
    <3>2. PICK x \in Int : x = d * C
      BY <1>1, <1>2
    <3>3. PICK y \in Int : y = R * C
      BY <1>1
    <3> QED BY <1>1, <1>2, <1>5, <3>1, <3>2, <3>3
  <2>2. d - R \in Nat /\ d = (d - R) + R /\ d - R < keep
    BY <1>1, <1>2, <1>3, <2>1
  <2> QED BY <2>2
<1>7. Moved(l).idx = e * C + p
  <2>1. d * C = e * C + R * C
    BY <1>1, <1>6
  <2>2. PICK x \in Int : x = e * C
    BY <1>1
  <2>3. PICK y \in Int : y = R * C
    BY <1>1
  <2> QED BY <1>2, <1>5, <2>1, <2>2, <2>3
<1>8. Moved(l).idx \div C = e /\ Moved(l).idx % C = p
  BY <1>1, <1>2, <1>6, <1>7, DivMod, Zenon
<1>9. e \in 0..(maxChunks - 1) /\ e < maxChunks
  BY <1>1, <1>3, <1>6
<1>10. bt.chunks[e] = bu.chunks[d]
  BY <1>4, <1>6, <1>9, Zenon
<1>11. Written(bt, Moved(l))
  BY <1>3, <1>5, <1>8, <1>9, <1>10, ZenonT(40) DEF Written, WrittenAt, n, C
<1>12. Moved(l).idx + n <= bt.idx
  <2>1. e * C + C <= keep * C
    <3>1. keep \in Nat
      BY <1>1
    <3> QED BY <1>1, <1>6, <3>1, ChunkOrder
  <2>2. PICK x \in Int : x = e * C
    BY <1>1
  <2>3. PICK y \in Int : y = keep * C
    BY <1>1
  <2>4. C \in Nat /\ n \in Nat /\ p \in 0..(C - 1) /\ p + n < C
    BY <1>1, <1>2, <1>3
  <2>5. x + C <= y /\ Moved(l).idx = x + p /\ bt.idx = y
    BY <1>4, <1>7, <2>1, <2>2, <2>3, Zenon
  <2> QED BY <2>4, <2>5
<1> QED BY <1>5, <1>11, <1>12, Zenon DEF n, bt

(* Trimming keeps what it does not drop. *)
LEMMA Trims ==
    ASSUME NEW bu, NEW la, Kept(bu, la), bu.type = "preallocated",
           NEW lt, lt = [h \in Hashes |-> Moved(la[h])]
    PROVE  Kept(Trimmed(bu), lt)
<1> DEFINE R == numOfChunksToRemove
           keep == maxChunks - R
           bt == Trimmed(bu)
<1>1. /\ bu \in Bucket /\ la \in Notes /\ Position(bu) /\ \A h \in Hashes : Recorded(bu, la, h)
      /\ bu.m \in [Hashes -> {none} \cup Entry]
  BY Fields, Zenon DEF Kept
<1>2. /\ R \in 1..maxChunks /\ ChunkSize \in Nat \ {0} /\ maxChunks \in Nat \ {0}
  BY SomeDropped, Sizes, ZenonT(40)
<1>3. /\ bt \in Bucket /\ bt.type = bu.type /\ bt.gen = bu.gen /\ bt.idx = keep * ChunkSize
      /\ bt.m = [h \in Hashes |-> Moved(bu.m[h])]
      /\ bt.chunks = [c \in 0..(maxChunks - 1) |-> IF c < keep THEN bu.chunks[c + R] ELSE ZeroChunk]
      /\ ZeroChunk \in Chunk
  BY <1>1, TrimmedFields, ZenonT(40)
<1> HIDE DEF R, bt
<1>4. Position(bt)
  <2>1. bt.idx < maxChunks * ChunkSize
    <3>1. keep * ChunkSize + ChunkSize <= maxChunks * ChunkSize
      <4>1. keep \in Nat /\ keep < maxChunks
        BY <1>2
      <4> QED BY <1>2, <4>1, ChunkOrder
    <3>2. PICK x \in Int : x = keep * ChunkSize
      BY <1>2
    <3>3. PICK y \in Int : y = maxChunks * ChunkSize
      BY <1>2
    <3> QED BY <1>2, <1>3, <3>1, <3>2, <3>3
  <2>2. ASSUME NEW c \in 0..(maxChunks - 1) PROVE bt.chunks[c] # NilChunk
    <3>1. CASE c < keep
      <4>1. c + R \in 0..(maxChunks - 1)
        BY <1>2, <3>1
      <4>2. bt.chunks[c] = bu.chunks[c + R]
        BY <1>3, <3>1, Zenon
      <4> QED BY <1>1, <4>1, <4>2, Zenon DEF Position
    <3>2. CASE ~(c < keep)
      <4>1. bt.chunks[c] = ZeroChunk
        BY <1>3, <3>2, ZenonT(40)
      <4> QED BY <1>3, <4>1, Nothing, Zenon
    <3> QED BY <3>1, <3>2
  <2> QED BY <1>3, <2>1, <2>2, ZenonT(40) DEF Position
<1>5. ASSUME NEW h \in Hashes PROVE Recorded(bt, lt, h) /\ lt[h] \in {none} \cup Note
  <2>1. bt.m[h] = Moved(bu.m[h]) /\ lt[h] = Moved(la[h])
    BY <1>3, Zenon
  <2>2. la[h] \in {none} \cup Note /\ bu.m[h] \in {none} \cup Entry
    BY <1>1, Zenon DEF Notes
  <2>3. CASE la[h] = none
    <3>1. bu.m[h] = none
      BY <1>1, <2>3, Zenon DEF Recorded
    <3>2. bt.m[h] = none /\ lt[h] = none
      BY <2>1, <2>3, <3>1, Zenon DEF Moved
    <3> QED BY <3>2, Zenon DEF Recorded
  <2>4. CASE la[h] # none /\ la[h].idx < R * ChunkSize
    <3>1. bu.m[h] = none \/ bu.m[h].idx = la[h].idx
      BY <1>1, Zenon DEF Recorded
    <3>2. bt.m[h] = none /\ lt[h] = none
      BY <2>1, <2>4, <3>1, Zenon DEF Moved, R
    <3> QED BY <3>2, Zenon DEF Recorded
  <2>5. CASE la[h] # none /\ ~(la[h].idx < R * ChunkSize)
    <3>1. la[h] \in Note /\ la[h].laps = 0
      BY <1>1, <2>2, <2>5, Zenon DEF Recorded
    <3>2. bu.m[h] # none /\ Written(bu, la[h]) /\ bu.m[h].idx = la[h].idx
      BY <1>1, <2>5, <3>1, Zenon DEF Recorded, Live
    <3>3. bu.m[h] \in Entry /\ bu.m[h].gen = bu.gen
      <4>1. 0 # 1
        OBVIOUS
      <4> QED BY <1>1, <2>2, <3>1, <3>2, <4>1, Zenon DEF Recorded
    <3>4. /\ lt[h] \in Note /\ lt[h].key = la[h].key /\ lt[h].laps = 0
          /\ lt[h].idx = la[h].idx - R * ChunkSize
      BY <2>1, <2>5, <3>1, MovedNote, Zenon DEF R
    <3>5. Written(bt, lt[h]) /\ lt[h].idx + kvLen(lt[h].key) <= bt.idx
      BY <1>1, <2>1, <2>5, <3>1, <3>2, MovedWritten, Zenon DEF R, bt
    <3>6. bt.m[h] \in Entry /\ bt.m[h].idx = la[h].idx - R * ChunkSize /\ bt.m[h].gen = bu.gen
      <4>1. bt.m[h] = [bu.m[h] EXCEPT !.idx = la[h].idx - R * ChunkSize]
        BY <2>1, <2>5, <3>2, <3>3, Zenon DEF Moved, R, Entry
      <4>2. bt.m[h].idx = la[h].idx - R * ChunkSize /\ bt.m[h].gen = bu.m[h].gen
        BY <3>3, <4>1, Zenon DEF Entry
      <4>3. bt.m[h] \in Entry
        <5>1. la[h].idx - R * ChunkSize \in Nat
          BY <3>4 DEF Note
        <5> QED BY <3>3, <4>1, <5>1, ZenonT(40) DEF Entry
      <4> QED BY <3>3, <4>2, <4>3, Zenon
    <3>7. bt.m[h] # none /\ lt[h] # none
      BY <3>4, <3>6, Nothing, Zenon
    <3> QED BY <1>3, <3>4, <3>5, <3>6, <3>7, Zenon DEF Recorded
  <2> QED BY <2>3, <2>4, <2>5
<1>6. lt \in Notes
  BY <1>5, Zenon DEF Notes
<1> QED BY <1>3, <1>4, <1>5, <1>6, Zenon DEF Kept, bt
-----------------------------------------------------------------------------
(* Set keeps the invariant.                                                *)

(* The invariant does not depend on the counters of chunks. *)
LEMMA SameKept ==
    ASSUME NEW bu, NEW la, Kept(bu, la), NEW bn \in Bucket, bn.type = bu.type, bn.m = bu.m,
           bn.chunks = bu.chunks, bn.idx = bu.idx, bn.gen = bu.gen
    PROVE  Kept(bn, la)
<1>1. Position(bn)
  BY Zenon DEF Kept, Position
<1>2. \A l : (Live(bn, l) <=> Live(bu, l)) /\ (Written(bn, l) <=> Written(bu, l))
  BY Zenon DEF Live, Written, WrittenAt
<1>3. ASSUME NEW h \in Hashes PROVE Recorded(bn, la, h)
  <2>1. Recorded(bu, la, h)
    BY Zenon DEF Kept
  <2> QED BY <1>2, <2>1, Zenon DEF Recorded
<1> QED BY <1>1, <1>3, Zenon DEF Kept

(* The result of Set and its history. *)
AfterSet(la, bu, k, v, mm) == IF Stored(bu, k, mm) THEN Noted(la, bu, k, v) ELSE la

(* A pair that does not fit changes nothing. *)
LEMMA NotFitting ==
    ASSUME NEW bu \in Bucket, NEW la, NEW k \in Key, NEW v, NEW mm, ~Fits(k)
    PROVE  Set(bu, k, v, mm) = bu /\ AfterSet(la, bu, k, v, mm) = la
<1>1. /\ SetRing(bu, k, v, mm) = bu /\ SetPreallocated(bu, k, v) = bu /\ ~Stored(bu, k, mm)
      /\ ~Cleans(bu, k, mm)
  BY Zenon DEF SetRing, SetPreallocated, Stored, Cleans
<1>2. SetUnallocated(bu, k, v, mm) = bu /\ SetTrimmed(bu, k, v, mm) = bu
  BY <1>1, Zenon DEF SetUnallocated, SetTrimmed
<1>3. bu.type \in {"unallocated", "trimmed", "preallocated"}
  BY Fields, Zenon
<1>4. Set(bu, k, v, mm) = bu
  BY <1>1, <1>2, <1>3 DEF Set
<1> QED BY <1>1, <1>4, Zenon DEF AfterSet

(* Set takes a chunk of the free list for a place without one, or none. *)
Allocated(bu, bn) ==
    \/ /\ SameCounters(bu, bn)
       /\ \A d \in 0..(maxChunks - 1) : bn.chunks[d] = NilChunk <=> bu.chunks[d] = NilChunk
    \/ /\ Taken(bu, bn) /\ (bu.freeChunks = 0 => CanGrow(bu))
       /\ \E c \in 0..(maxChunks - 1) :
              /\ bu.chunks[c] = NilChunk /\ bn.chunks[c] # NilChunk
              /\ \A d \in 0..(maxChunks - 1) : d # c => bn.chunks[d] = bu.chunks[d]

(* The chunk that a pair is put into is taken when it was not there. *)
LEMMA PutAllocated ==
    ASSUME NEW bu, NEW bn, NEW c \in 0..(maxChunks - 1), bn.chunks[c] # NilChunk,
           \A d \in 0..(maxChunks - 1) : d # c => bn.chunks[d] = bu.chunks[d],
           IF bu.chunks[c] = NilChunk THEN Taken(bu, bn) ELSE SameCounters(bu, bn),
           bu.chunks[c] = NilChunk /\ bu.freeChunks = 0 => CanGrow(bu)
    PROVE  Allocated(bu, bn)
<1>1. CASE bu.chunks[c] = NilChunk
  BY <1>1, Zenon DEF Allocated
<1>2. CASE bu.chunks[c] # NilChunk
  BY <1>2, Zenon DEF Allocated
<1> QED BY <1>1, <1>2, Zenon

(* A ring stores a pair unless it has no chunk for it, and then nothing changes: the
   generation does not advance, since the first chunk is there when the ring is full. *)
LEMMA SetRingKept ==
    ASSUME NEW bu, NEW la, Kept(bu, la), bu.type # "preallocated", NEW k \in Key, NEW v \in Value,
           NEW mm, Fits(k), NEW bs, bs = SetRing(bu, k, v, mm),
           NEW bn, IF Cleans(bu, k, mm) THEN bs \in Bucket => Cleaned(bs, bn) ELSE bn = bs
    PROVE  Kept(bn, AfterSet(la, bu, k, v, mm)) /\ Allocated(bu, bn)
<1> DEFINE n == kvLen(k)
           p == Place(bu, n)
           c == bu.idx \div ChunkSize
           o == bu.idx % ChunkSize
<1>1. /\ bu \in Bucket /\ la \in Notes /\ Position(bu) /\ bu.chunks \in Chunks /\ bu.idx \in Nat
      /\ bu.gen \in 1..maxGen
  BY Fields, Zenon DEF Kept
<1>2. n \in Nat \ {0} /\ n < ChunkSize /\ ChunkSize \in Nat \ {0} /\ maxChunks \in Nat \ {0}
  BY Sizes, Zenon DEF Fits
<1>3. /\ c \in 0..(maxChunks - 1) /\ o \in 0..(ChunkSize - 1) /\ bu.idx = c * ChunkSize + o
      /\ \/ /\ p = [idx |-> bu.idx, chunk |-> c, wraps |-> FALSE, opens |-> FALSE]
            /\ o + n < ChunkSize
         \/ /\ p = [idx |-> (c + 1) * ChunkSize, chunk |-> c + 1, wraps |-> FALSE, opens |-> TRUE]
            /\ c + 1 < maxChunks /\ bu.idx # 0
         \/ /\ p = [idx |-> 0, chunk |-> 0, wraps |-> TRUE, opens |-> TRUE]
            /\ c = maxChunks - 1 /\ bu.idx # 0
  BY <1>1, <1>2, Places, Zenon
<1> HIDE DEF n, p, c, o
<1>4. /\ bu.idx # 0 => \A d \in 0..c : bu.chunks[d] # NilChunk
      /\ bu.chunks[c] # NilChunk => bu.chunks[c].len = o
      /\ bu.chunks[c] = NilChunk => bu.idx = 0
  <2>1. c \in 0..c
    BY <1>3
  <2> QED BY <1>1, <2>1, ZenonT(40) DEF Position, c, o
<1>5. bu.idx = 0 => c = 0 /\ o = 0
  <2>1. 0 = 0 * ChunkSize + 0 /\ 0 \in 0..(ChunkSize - 1) /\ 0 \in Nat
    BY <1>2
  <2>2. 0 \div ChunkSize = 0 /\ 0 % ChunkSize = 0
    BY <1>2, <2>1, DivMod
  <2> QED BY <2>2, Zenon DEF c, o
<1>6. p.wraps => p.chunk = 0 /\ bu.chunks[0] # NilChunk
  <2>1. 0 \in 0..c
    BY <1>3
  <2> QED BY <1>3, <1>4, <2>1
<1>7. CASE ~Stored(bu, k, mm)
  <2>1. bs = Prepared(bu, p) /\ bn = bs /\ AfterSet(la, bu, k, v, mm) = la
    BY <1>7, Zenon DEF SetRing, AfterSet, Cleans, p, n
  <2>2. bu.chunks[p.chunk] = NilChunk /\ ~p.wraps
    BY <1>6, <1>7, ZenonT(40) DEF Stored, NeedsSlab, p, n
  <2>3. p.chunk \in 0..(maxChunks - 1)
    BY <1>2, <1>3
  <2> HIDE DEF p
  <2>4. PICK d \in 0..(maxChunks - 1) : d = p.chunk /\ bu.chunks[d] = NilChunk
    BY <2>2, <2>3, Zenon
  <2>5. LET bp == Prepared(bu, p) IN
        /\ bp \in Bucket /\ bp.type = bu.type /\ bp.m = bu.m /\ bp.idx = bu.idx
        /\ bp.gen = IF p.wraps THEN NextGen(bu.gen) ELSE bu.gen
        /\ bp.freeChunks = bu.freeChunks /\ bp.allocatedChunks = bu.allocatedChunks
        /\ bp.nextAllocChunks = bu.nextAllocChunks
        /\ bp.chunks = [bu.chunks EXCEPT ![d] =
               IF ~p.opens \/ bu.chunks[d] = NilChunk THEN bu.chunks[d]
               ELSE [bu.chunks[d] EXCEPT !.len = 0]]
    BY <1>1, <2>4, PreparedFields
  <2>6. [bu.chunks EXCEPT ![d] = bu.chunks[d]] = bu.chunks
    BY <1>1, Zenon DEF Chunks
  <2>7. /\ bn \in Bucket /\ bn.type = bu.type /\ bn.m = bu.m /\ bn.idx = bu.idx
        /\ bn.gen = bu.gen /\ bn.chunks = bu.chunks
    BY <2>1, <2>2, <2>4, <2>5, <2>6, Zenon
  <2>8. Allocated(bu, bn)
    BY <2>1, <2>5, <2>7, Zenon DEF Allocated, SameCounters
  <2> QED BY <2>1, <2>7, <2>8, SameKept, Zenon
<1>8. CASE Stored(bu, k, mm) /\ ~p.wraps
  <2>1. PICK d \in 0..(maxChunks - 1), r \in 0..(ChunkSize - 1), i \in Nat :
            /\ d = p.chunk /\ i = p.idx /\ i = d * ChunkSize + r /\ r + n < ChunkSize /\ i >= bu.idx
            /\ p.opens \/ bu.chunks[d] = NilChunk => r = 0
            /\ ~p.opens /\ bu.chunks[d] # NilChunk => bu.chunks[d].len = r
            /\ \A e \in 0..(d - 1) : bu.chunks[e] # NilChunk
    <3>1. CASE /\ p = [idx |-> bu.idx, chunk |-> c, wraps |-> FALSE, opens |-> FALSE]
               /\ o + n < ChunkSize
      <4>1. p.idx = bu.idx /\ p.chunk = c /\ ~p.opens
        BY <3>1
      <4>2. ASSUME NEW e \in 0..(c - 1) PROVE bu.chunks[e] # NilChunk
        <5>1. c # 0 /\ e \in 0..c
          BY <1>3, <4>2
        <5> QED BY <1>4, <1>5, <5>1, ZenonT(40)
      <4>3. bu.idx >= bu.idx
        BY <1>1
      <4> QED BY <1>1, <1>3, <1>4, <1>5, <3>1, <4>1, <4>2, <4>3, ZenonT(40)
    <3>2. CASE /\ p = [idx |-> (c + 1) * ChunkSize, chunk |-> c + 1, wraps |-> FALSE, opens |-> TRUE]
               /\ c + 1 < maxChunks /\ bu.idx # 0
      <4>1. p.idx = (c + 1) * ChunkSize /\ p.chunk = c + 1 /\ p.opens
        BY <3>2
      <4>2. PICK d \in 0..(maxChunks - 1) : d = c + 1 /\ 0..(d - 1) = 0..c
        BY <1>2, <1>3, <3>2
      <4>3. PICK i \in Nat : i = (c + 1) * ChunkSize /\ i >= bu.idx
        <5>1. (c + 1) * ChunkSize = c * ChunkSize + ChunkSize
          BY <1>2, <1>3
        <5>2. PICK w \in Nat : w = c * ChunkSize
          BY <1>2, <1>3
        <5> QED BY <1>2, <1>3, <5>1, <5>2
      <4>4. i = d * ChunkSize + 0 /\ 0 \in 0..(ChunkSize - 1) /\ 0 + n < ChunkSize
        BY <1>2, <4>2, <4>3
      <4> QED BY <1>4, <3>2, <4>1, <4>2, <4>3, <4>4, ZenonT(40)
    <3>3. p # [idx |-> 0, chunk |-> 0, wraps |-> TRUE, opens |-> TRUE]
      BY <1>8
    <3> QED BY <1>3, <3>1, <3>2, <3>3, ZenonT(40)
  <2>2. PICK g : g = (IF p.wraps THEN NextGen(bu.gen) ELSE bu.gen) /\ g = bu.gen
    BY <1>8, Zenon
  <2>3. /\ Puts(bu, bs, k, v, d, r, i, g) /\ bs.chunks[d].len = r + n
        /\ IF bu.chunks[d] = NilChunk THEN Taken(bu, bs) ELSE SameCounters(bu, bs)
    <3>1. r \in Nat /\ r + kvLen(k) < ChunkSize
      BY <2>1 DEF n
    <3>2. AtPlace(bu, k, mm, d, r, i, g)
      BY <1>8, <2>1, <2>2, <3>1, ZenonT(30) DEF AtPlace, p, n
    <3>3. RingStored(bu, SetRing(bu, k, v, mm), k, v, d, r, i, g)
      BY <1>1, <3>2, RingPuts, Zenon
    <3> QED BY <3>3, ZenonT(40) DEF RingStored, n
  <2> DEFINE ln == NotedAt(la, k, v, i)
  <2>4. AfterSet(la, bu, k, v, mm) = ln
    <3>1. Noted(la, bu, k, v) =
              [h \in Hashes |-> IF h = Hash[k] THEN [key |-> k, val |-> v, idx |-> p.idx, laps |-> 0]
                                ELSE IF la[h] = none THEN none ELSE la[h]]
      BY <1>8, Zenon DEF Noted, p, n
    <3>2. \A h \in Hashes : (IF h = Hash[k] THEN [key |-> k, val |-> v, idx |-> p.idx, laps |-> 0]
                             ELSE IF la[h] = none THEN none ELSE la[h])
                          = (IF h = Hash[k] THEN NewNote(k, v, i) ELSE la[h])
      BY <2>1, Zenon DEF NewNote
    <3> QED BY <1>8, <3>1, <3>2, Zenon DEF AfterSet, NotedAt
  <2>5. bn = bs
    BY <1>8, Zenon DEF Cleans, p, n
  <2> HIDE DEF ln
  <2>6. Kept(bs, ln)
    <3>1. Behind(bu, bs, k, v, d, r, i)
      BY <2>1, <2>2, <2>3, Zenon DEF Behind, n
    <3> QED BY <3>1, Advances, Zenon DEF ln
  <2>7. Allocated(bu, bs)
    <3>1. bu.chunks[d] = NilChunk /\ bu.freeChunks = 0 => CanGrow(bu)
      BY <1>8, <2>1, Zenon DEF Stored, NeedsSlab, p, n
    <3>2. /\ bs.chunks[d] # NilChunk
          /\ \A e \in 0..(maxChunks - 1) : e # d => bs.chunks[e] = bu.chunks[e]
      BY <2>3, Zenon DEF Puts
    <3> QED BY <2>3, <3>1, <3>2, PutAllocated, ZenonT(40)
  <2> QED BY <2>4, <2>5, <2>6, <2>7, ZenonT(30)
<1>9. CASE Stored(bu, k, mm) /\ p.wraps
  <2>1. p = [idx |-> 0, chunk |-> 0, wraps |-> TRUE, opens |-> TRUE]
    BY <1>3, <1>9
  <2>2. p.idx = 0 /\ p.chunk = 0 /\ p.wraps /\ p.opens /\ bu.chunks[0] # NilChunk
    BY <1>6, <2>1
  <2>3. /\ 0 \in 0..(maxChunks - 1) /\ 0 \in Nat /\ 0 + kvLen(k) < ChunkSize /\ 0 + kvLen(k) = kvLen(k)
    BY <1>2 DEF n
  <2>4. PICK g : g = (IF p.wraps THEN NextGen(bu.gen) ELSE bu.gen) /\ g = NextGen(bu.gen)
    BY <2>2, Zenon
  <2>5. /\ Puts(bu, bs, k, v, 0, 0, 0, NextGen(bu.gen)) /\ bs.chunks[0].len = kvLen(k)
        /\ SameCounters(bu, bs)
    <3>1. AtPlace(bu, k, mm, 0, 0, 0, g)
      BY <1>9, <2>2, <2>3, <2>4, ZenonT(30) DEF AtPlace, p, n
    <3>2. RingStored(bu, SetRing(bu, k, v, mm), k, v, 0, 0, 0, g)
      BY <1>1, <3>1, RingPuts, Zenon
    <3> QED BY <2>2, <2>3, <2>4, <3>2, Zenon DEF RingStored
  <2> DEFINE ln == NotedOver(la, k, v)
  <2>6. AfterSet(la, bu, k, v, mm) = ln
    <3>1. Noted(la, bu, k, v) =
              [h \in Hashes |-> IF h = Hash[k] THEN [key |-> k, val |-> v, idx |-> p.idx, laps |-> 0]
                                ELSE IF la[h] = none THEN none
                                ELSE [la[h] EXCEPT !.laps = Min({@ + 1, 2})]]
      BY <1>9, Zenon DEF Noted, p, n
    <3> QED BY <1>9, <2>2, <3>1, Zenon DEF AfterSet, NotedOver, NewNote, Passed
  <2>7. Cleaned(bs, bn)
    BY <1>9, <2>5, Zenon DEF Cleans, Puts, p, n
  <2> HIDE DEF ln
  <2>8. Kept(bn, ln)
    <3>1. Restarts(bu, bs, bn, k, v)
      BY <1>2, <2>5, <2>7, Zenon DEF Restarts, n
    <3> QED BY <3>1, StartsOver, Zenon DEF ln
  <2>9. Allocated(bu, bn)
    <3>1. /\ bs.chunks[0] # NilChunk /\ bn.chunks = bs.chunks
          /\ \A e \in 0..(maxChunks - 1) : e # 0 => bs.chunks[e] = bu.chunks[e]
      BY <2>5, <2>7, Zenon DEF Puts, Cleaned
    <3>2. SameCounters(bu, bn)
      BY <2>5, <2>7, Zenon DEF Cleaned, SameCounters
    <3> QED BY <2>2, <3>1, <3>2, ZenonT(40) DEF Allocated
  <2> QED BY <2>6, <2>8, <2>9, Zenon
<1> QED BY <1>7, <1>8, <1>9, Zenon

(* A preallocated bucket stores every pair that fits, after it has dropped and moved
   chunks when it is full. *)
LEMMA SetPreallocatedKept ==
    ASSUME NEW bu, NEW la, Kept(bu, la), bu.type = "preallocated", NEW k \in Key, NEW v \in Value,
           NEW mm, Fits(k)
    PROVE  /\ Kept(SetPreallocated(bu, k, v), AfterSet(la, bu, k, v, mm))
           /\ SetPreallocated(bu, k, v).type = bu.type
<1> DEFINE n == kvLen(k)
           p == Place(bu, n)
           c == bu.idx \div ChunkSize
           o == bu.idx % ChunkSize
           bn == SetPreallocated(bu, k, v)
<1>1. /\ bu \in Bucket /\ la \in Notes /\ Position(bu) /\ bu.chunks \in Chunks /\ bu.idx \in Nat
      /\ bu.gen \in 1..maxGen
  BY Fields, Zenon DEF Kept
<1>2. n \in Nat \ {0} /\ n < ChunkSize /\ ChunkSize \in Nat \ {0} /\ maxChunks \in Nat \ {0}
  BY Sizes, Zenon DEF Fits
<1>3. /\ c \in 0..(maxChunks - 1) /\ o \in 0..(ChunkSize - 1) /\ bu.idx = c * ChunkSize + o
      /\ \/ /\ p = [idx |-> bu.idx, chunk |-> c, wraps |-> FALSE, opens |-> FALSE]
            /\ o + n < ChunkSize
         \/ /\ p = [idx |-> (c + 1) * ChunkSize, chunk |-> c + 1, wraps |-> FALSE, opens |-> TRUE]
            /\ c + 1 < maxChunks /\ bu.idx # 0
         \/ /\ p = [idx |-> 0, chunk |-> 0, wraps |-> TRUE, opens |-> TRUE]
            /\ c = maxChunks - 1 /\ bu.idx # 0
  BY <1>1, <1>2, Places, ZenonT(30)
<1>4. bn = Overwrite(IF p.wraps THEN Trimmed(bu) ELSE [bu EXCEPT !.idx = p.idx], k, v)
  BY Zenon DEF SetPreallocated, Overwrite, p, n
<1> HIDE DEF n, p, c, o, bn
<1>5. \A d \in 0..(maxChunks - 1) : bu.chunks[d] # NilChunk
  BY <1>1, Zenon DEF Position
<1>6. AfterSet(la, bu, k, v, mm) = Noted(la, bu, k, v)
  <2>1. p.chunk \in 0..(maxChunks - 1)
    BY <1>2, <1>3
  <2> QED BY <1>5, <2>1, ZenonT(40) DEF AfterSet, Stored, NeedsSlab, p, n
<1>7. CASE ~p.wraps
  <2>1. PICK d \in 0..(maxChunks - 1), r \in 0..(ChunkSize - 1), i \in Nat :
            i = p.idx /\ i = d * ChunkSize + r /\ r + n < ChunkSize /\ i >= bu.idx
    <3>1. CASE /\ p = [idx |-> bu.idx, chunk |-> c, wraps |-> FALSE, opens |-> FALSE]
               /\ o + n < ChunkSize
      <4>1. p.idx = bu.idx /\ bu.idx >= bu.idx
        BY <1>1, <3>1
      <4> QED BY <1>1, <1>3, <3>1, <4>1, ZenonT(40)
    <3>2. CASE /\ p = [idx |-> (c + 1) * ChunkSize, chunk |-> c + 1, wraps |-> FALSE, opens |-> TRUE]
               /\ c + 1 < maxChunks /\ bu.idx # 0
      <4>1. p.idx = (c + 1) * ChunkSize
        BY <3>2
      <4>2. PICK d \in 0..(maxChunks - 1) : d = c + 1
        BY <1>2, <1>3, <3>2
      <4>3. PICK i \in Nat : i = (c + 1) * ChunkSize /\ i >= bu.idx
        <5>1. (c + 1) * ChunkSize = c * ChunkSize + ChunkSize
          BY <1>2, <1>3
        <5>2. PICK w \in Nat : w = c * ChunkSize
          BY <1>2, <1>3
        <5> QED BY <1>2, <1>3, <5>1, <5>2
      <4>4. i = d * ChunkSize + 0 /\ 0 \in 0..(ChunkSize - 1) /\ 0 + n < ChunkSize
        BY <1>2, <4>2, <4>3
      <4> QED BY <4>1, <4>3, <4>4, Zenon
    <3> QED BY <1>3, <1>7, <3>1, <3>2
  <2>2. d = i \div ChunkSize /\ r = i % ChunkSize /\ r \in Nat
    BY <1>2, <2>1, DivMod
  <2> DEFINE bt == [bu EXCEPT !.idx = i]
  <2>3. bt \in Bucket /\ bt.type = bu.type /\ bt.m = bu.m /\ bt.chunks = bu.chunks
        /\ bt.idx = i /\ bt.gen = bu.gen
    BY <1>1, <2>1, Zenon DEF Bucket
  <2>4. bn = Overwrite(bt, k, v)
    BY <1>4, <1>7, <2>1, ZenonT(40)
  <2> HIDE DEF bt
  <2>5. Puts(bt, bn, k, v, d, r, bt.idx, bt.gen)
    <3>1. /\ d = bt.idx \div ChunkSize /\ r = bt.idx % ChunkSize /\ bt.chunks[d] # NilChunk
          /\ r + kvLen(k) < ChunkSize
      BY <1>5, <2>1, <2>2, <2>3, Zenon DEF n
    <3> QED BY <2>2, <2>3, <2>4, <3>1, Overwrites, ZenonT(40)
  <2>6. Puts(bu, bn, k, v, d, r, i, bu.gen)
    BY <2>3, <2>5, ZenonT(40) DEF Puts
  <2> DEFINE ln == NotedAt(la, k, v, i)
  <2>7. Noted(la, bu, k, v) = ln
    <3>1. Noted(la, bu, k, v) =
              [h \in Hashes |-> IF h = Hash[k] THEN [key |-> k, val |-> v, idx |-> p.idx, laps |-> 0]
                                ELSE IF la[h] = none THEN none ELSE la[h]]
      BY <1>7, Zenon DEF Noted, p, n
    <3>2. \A h \in Hashes : (IF h = Hash[k] THEN [key |-> k, val |-> v, idx |-> p.idx, laps |-> 0]
                             ELSE IF la[h] = none THEN none ELSE la[h])
                          = (IF h = Hash[k] THEN NewNote(k, v, i) ELSE la[h])
      BY <2>1, Zenon DEF NewNote
    <3> QED BY <3>1, <3>2, Zenon DEF NotedAt
  <2> HIDE DEF ln
  <2>8. Kept(bn, ln)
    <3>1. Behind(bu, bn, k, v, d, r, i)
      BY <2>1, <2>6, Zenon DEF Behind, n
    <3> QED BY <3>1, Advances, Zenon DEF ln
  <2>9. bn.type = bu.type
    BY <2>6, Zenon DEF Puts
  <2> QED BY <1>6, <2>7, <2>8, <2>9, ZenonT(40) DEF bn
<1>8. CASE p.wraps
  <2> DEFINE bt == Trimmed(bu)
             keep == maxChunks - numOfChunksToRemove
             lt == [h \in Hashes |-> Moved(la[h])]
  <2>1. Kept(bt, lt)
    BY Trims, Zenon
  <2>2. bt \in Bucket /\ bt.type = bu.type /\ bt.gen = bu.gen /\ bt.idx = keep * ChunkSize
    BY <1>1, TrimmedFields, Zenon
  <2>3. bn = Overwrite(bt, k, v)
    BY <1>4, <1>8, Zenon
  <2>4. keep \in 0..(maxChunks - 1)
    BY <1>2, SomeDropped
  <2> HIDE DEF bt, keep, lt
  <2>5. bt.idx \in Nat /\ Position(bt)
    BY <2>1, Fields, ZenonT(40) DEF Kept
  <2>6. /\ 0 \in 0..(ChunkSize - 1) /\ 0 \in Nat /\ 0 + kvLen(k) < ChunkSize /\ keep \in Nat
        /\ bt.idx = keep * ChunkSize + 0 /\ bt.idx >= bt.idx
    BY <1>2, <2>2, <2>4, <2>5 DEF n
  <2>7. keep = bt.idx \div ChunkSize /\ 0 = bt.idx % ChunkSize
    BY <1>2, <2>6, DivMod, Zenon
  <2>8. bt.chunks[keep] # NilChunk
    BY <2>2, <2>4, <2>5, ZenonT(40) DEF Position
  <2>9. Puts(bt, bn, k, v, keep, 0, bt.idx, bt.gen)
    BY <2>2, <2>3, <2>4, <2>6, <2>7, <2>8, Overwrites, ZenonT(40)
  <2> DEFINE ln == NotedAt(lt, k, v, bt.idx)
  <2>10. Noted(la, bu, k, v) = ln
    <3>1. Noted(la, bu, k, v) =
              [h \in Hashes |-> IF h = Hash[k] THEN [key |-> k, val |-> v, idx |-> bt.idx, laps |-> 0]
                                ELSE IF la[h] = none THEN none ELSE Moved(la[h])]
      BY <1>8, Zenon DEF Noted, p, n, bt
    <3>2. \A h \in Hashes : (IF la[h] = none THEN none ELSE Moved(la[h])) = lt[h]
      BY Zenon DEF Moved, lt
    <3>3. \A h \in Hashes : (IF h = Hash[k] THEN [key |-> k, val |-> v, idx |-> bt.idx, laps |-> 0]
                             ELSE IF la[h] = none THEN none ELSE Moved(la[h]))
                          = (IF h = Hash[k] THEN NewNote(k, v, bt.idx) ELSE lt[h])
      BY <3>2, Zenon DEF NewNote
    <3> QED BY <3>1, <3>3, Zenon DEF NotedAt
  <2> HIDE DEF ln
  <2>11. Kept(bn, ln)
    <3>1. Behind(bt, bn, k, v, keep, 0, bt.idx)
      BY <2>2, <2>4, <2>5, <2>6, <2>9, Zenon DEF Behind
    <3> QED BY <2>1, <3>1, Advances, Zenon DEF ln
  <2>12. bn.type = bu.type
    BY <2>2, <2>9, Zenon DEF Puts
  <2> QED BY <1>6, <2>10, <2>11, <2>12, Zenon DEF bn
<1> QED BY <1>7, <1>8, Zenon

(* Set of either ring. *)
LEMMA SetOfRing ==
    ASSUME NEW bu, NEW la, Kept(bu, la), bu.type # "preallocated", NEW k \in Key, NEW v \in Value,
           NEW mm, Fits(k)
    PROVE  Kept(Set(bu, k, v, mm), AfterSet(la, bu, k, v, mm)) /\ Allocated(bu, Set(bu, k, v, mm))
<1> DEFINE bs == SetRing(bu, k, v, mm)
           bn == Set(bu, k, v, mm)
<1>1. bu \in Bucket /\ bu.type \in {"unallocated", "trimmed"}
  BY Fields, Zenon DEF Kept
<1>2. bn = SetUnallocated(bu, k, v, mm) \/ bn = SetTrimmed(bu, k, v, mm)
  BY <1>1 DEF Set
<1>3. bn = bs \/ (Cleans(bu, k, mm) /\ (bn = cleanLockedMap(bs) \/ bn = cleanLockedMapTrimmed(bs)))
  BY <1>2, Zenon DEF SetUnallocated, SetTrimmed
<1>4. ~Cleans(bu, k, mm) => bn = bs
  BY <1>3, Zenon
<1>5. Cleans(bu, k, mm) => bn = cleanLockedMap(bs) \/ bn = cleanLockedMapTrimmed(bs)
  BY <1>2, Zenon DEF SetUnallocated, SetTrimmed
<1> HIDE DEF bs, bn
<1>6. /\ bs = SetRing(bu, k, v, mm)
      /\ IF Cleans(bu, k, mm) THEN bs \in Bucket => Cleaned(bs, bn) ELSE bn = bs
  BY <1>4, <1>5, CleanedMaps, ZenonT(40) DEF bs
<1>7. Kept(bn, AfterSet(la, bu, k, v, mm)) /\ Allocated(bu, bn)
  BY <1>6, SetRingKept
<1> QED BY <1>7, Zenon DEF bn

(* Set of any bucket. *)
LEMMA SetKept ==
    ASSUME NEW bu, NEW la, Kept(bu, la), NEW k \in Key, NEW v \in Value, NEW mm
    PROVE  Kept(Set(bu, k, v, mm), AfterSet(la, bu, k, v, mm))
<1>1. bu \in Bucket /\ bu.type \in {"unallocated", "trimmed", "preallocated"}
  BY Fields, Zenon DEF Kept
<1>2. CASE ~Fits(k)
  <2>1. Set(bu, k, v, mm) = bu /\ AfterSet(la, bu, k, v, mm) = la
    BY <1>1, <1>2, NotFitting
  <2> QED BY <2>1, Zenon
<1>3. CASE Fits(k) /\ bu.type = "preallocated"
  <2>1. Set(bu, k, v, mm) = SetPreallocated(bu, k, v)
    BY <1>3 DEF Set
  <2> QED BY <1>3, <2>1, SetPreallocatedKept, Zenon
<1>4. CASE Fits(k) /\ bu.type # "preallocated"
  BY <1>4, SetOfRing
<1> QED BY <1>2, <1>3, <1>4, Zenon
-----------------------------------------------------------------------------
(* The other operations.                                                   *)

(* A bucket without entries. *)
LEMMA Emptied ==
    ASSUME NEW bu \in Bucket, bu.m = [h \in Hashes |-> none], bu.idx = 0,
           bu.type = "preallocated" => \A c \in 0..(maxChunks - 1) : bu.chunks[c] # NilChunk,
           bu.type # "preallocated" => \A c \in 0..(maxChunks - 1) : bu.chunks[c] = NilChunk
    PROVE  Kept(bu, [h \in Hashes |-> none])
<1> DEFINE la == [h \in Hashes |-> none]
<1>1. ChunkSize \in Nat \ {0} /\ maxChunks \in Nat \ {0}
  BY Sizes, Zenon
<1>2. 0 \div ChunkSize = 0 /\ 0 < maxChunks * ChunkSize /\ 0 \in 0..(maxChunks - 1)
  <2>1. 0 = 0 * ChunkSize + 0 /\ 0 \in 0..(ChunkSize - 1) /\ 0 \in Nat
    BY <1>1
  <2>2. 0 \div ChunkSize = 0
    BY <1>1, <2>1, DivMod
  <2>3. 0 * ChunkSize + ChunkSize <= maxChunks * ChunkSize
    BY <1>1, ChunkOrder
  <2>4. PICK w \in Int : w = maxChunks * ChunkSize
    BY <1>1
  <2> QED BY <1>1, <2>2, <2>3, <2>4
<1>3. Position(bu)
  BY <1>2, Zenon DEF Position
<1>4. la \in Notes /\ \A h \in Hashes : Recorded(bu, la, h)
  BY Zenon DEF Notes, Recorded
<1> QED BY <1>3, <1>4, Zenon DEF Kept

(* The bucket of Init, and of Reset. *)
LEMMA EmptyFields ==
    ASSUME NEW t \in {"unallocated", "trimmed", "preallocated"}
    PROVE  LET r == EmptyBucket(t) IN
           /\ r \in Bucket /\ r.type = t /\ r.m = [h \in Hashes |-> none] /\ r.idx = 0
           /\ r.freeChunks = 0 /\ r.allocatedChunks = 0 /\ r.nextAllocChunks = calcInitialAllocChunks
           /\ \A c \in 0..(maxChunks - 1) : r.chunks[c] = IF t = "preallocated" THEN ZeroChunk ELSE NilChunk
           /\ ZeroChunk # NilChunk
<1> DEFINE m == [h \in Hashes |-> none]
           chunks == [c \in 0..(maxChunks - 1) |-> IF t = "preallocated" THEN ZeroChunk ELSE NilChunk]
<1>1. ZeroChunk \in Chunk
  <2>1. FreshChunk \in Chunk
    BY DEF FreshChunk, Chunk
  <2>2. ChunkSize \in Nat
    BY Sizes
  <2> QED BY <2>1, <2>2 DEF ZeroChunk, Chunk
<1>2. m \in [Hashes -> {none} \cup Entry] /\ chunks \in [0..(maxChunks - 1) -> {NilChunk} \cup Chunk]
  BY <1>1, Zenon
<1>3. 0 \in Nat /\ 1 \in 1..maxGen /\ 0 \in Int /\ calcInitialAllocChunks \in Int
  BY Sizes, SlabChunks
<1>4. EmptyBucket(t) = [type |-> t, m |-> m, chunks |-> chunks, idx |-> 0, gen |-> 1,
                        freeChunks |-> 0, allocatedChunks |-> 0,
                        nextAllocChunks |-> calcInitialAllocChunks]
  BY Zenon DEF EmptyBucket
<1>5. \A c \in 0..(maxChunks - 1) : chunks[c] = IF t = "preallocated" THEN ZeroChunk ELSE NilChunk
  BY Zenon
<1>6. ZeroChunk # NilChunk
  BY <1>1, Nothing, ZenonT(40)
<1> DEFINE r == EmptyBucket(t)
<1>7. r.type = t /\ r.m = m /\ r.idx = 0 /\ r.chunks = chunks
      /\ r.freeChunks = 0 /\ r.allocatedChunks = 0 /\ r.nextAllocChunks = calcInitialAllocChunks
  <2> HIDE DEF m, chunks
  <2> QED BY <1>4
<1>8. r \in Bucket
  <2> HIDE DEF m, chunks
  <2> QED BY <1>2, <1>3, <1>4 DEF Bucket
<1> HIDE DEF r, chunks
<1>9. /\ r \in Bucket /\ r.type = t /\ r.m = [h \in Hashes |-> none] /\ r.idx = 0
      /\ r.freeChunks = 0 /\ r.allocatedChunks = 0 /\ r.nextAllocChunks = calcInitialAllocChunks
      /\ \A c \in 0..(maxChunks - 1) : r.chunks[c] = IF t = "preallocated" THEN ZeroChunk ELSE NilChunk
      /\ ZeroChunk # NilChunk
  BY <1>5, <1>6, <1>7, <1>8, Zenon
<1> QED BY <1>9, Zenon DEF r

(* Reset empties the map; a ring returns its chunks, a preallocated bucket keeps them. *)
LEMMA ResetFields ==
    ASSUME b \in Bucket, Position(b), putChunks(b) \in Nat, Reset
    PROVE  /\ b' \in Bucket /\ b'.type = b.type /\ b'.m = [h \in Hashes |-> none] /\ b'.idx = 0
           /\ b.type = "preallocated" => \A c \in 0..(maxChunks - 1) : b'.chunks[c] # NilChunk
           /\ b.type # "preallocated" =>
                  /\ \A c \in 0..(maxChunks - 1) : b'.chunks[c] = NilChunk
                  /\ b'.freeChunks = b.freeChunks + putChunks(b)
                  /\ b'.allocatedChunks = b.allocatedChunks
                  /\ b'.nextAllocChunks = calcInitialAllocChunks
<1> DEFINE r == EmptyBucket(b.type)
           f == b.freeChunks + putChunks(b)
<1>1. /\ b.type \in {"unallocated", "trimmed", "preallocated"} /\ b.chunks \in Chunks
      /\ f \in Int /\ b.allocatedChunks \in Int
  BY Fields
<1>2. /\ r \in Bucket /\ r.type = b.type /\ r.m = [h \in Hashes |-> none] /\ r.idx = 0
      /\ r.nextAllocChunks = calcInitialAllocChunks
      /\ \A c \in 0..(maxChunks - 1) :
             r.chunks[c] = IF b.type = "preallocated" THEN ZeroChunk ELSE NilChunk
  BY <1>1, EmptyFields, ZenonT(40)
<1>3. b' = IF b.type = "preallocated" THEN [r EXCEPT !.chunks = b.chunks]
           ELSE [r EXCEPT !.freeChunks = f, !.allocatedChunks = b.allocatedChunks]
  BY Zenon DEF Reset
<1> HIDE DEF r, f
<1>4. CASE b.type = "preallocated"
  <2>1. /\ b' \in Bucket /\ b'.type = r.type /\ b'.m = r.m /\ b'.idx = r.idx /\ b'.chunks = b.chunks
    BY <1>1, <1>2, <1>3, <1>4, Zenon DEF Bucket, Chunks
  <2> QED BY <1>2, <1>4, <2>1, Zenon DEF Position
<1>5. CASE b.type # "preallocated"
  <2>1. /\ b' \in Bucket /\ b'.type = r.type /\ b'.m = r.m /\ b'.idx = r.idx /\ b'.chunks = r.chunks
        /\ b'.freeChunks = f /\ b'.allocatedChunks = b.allocatedChunks
        /\ b'.nextAllocChunks = r.nextAllocChunks
    BY <1>1, <1>2, <1>3, <1>5, Zenon DEF Bucket
  <2> QED BY <1>2, <1>5, <2>1, Zenon DEF f
<1> QED BY <1>4, <1>5, ZenonT(40)

(* Del drops the entry of a hash. *)
LEMMA DelKept ==
    ASSUME Kept(b, last), NEW x \in Hashes, Del(x)
    PROVE  /\ Kept(b', last') /\ b'.type = b.type /\ b'.chunks = b.chunks /\ SameCounters(b, b')
<1> DEFINE m == [b.m EXCEPT ![x] = none]
<1>1. /\ b \in Bucket /\ last \in Notes /\ Position(b) /\ \A h \in Hashes : Recorded(b, last, h)
      /\ b.m \in [Hashes -> {none} \cup Entry]
  BY Fields, Zenon DEF Kept
<1>2. m \in [Hashes -> {none} \cup Entry] /\ last' \in Notes
  BY <1>1, Zenon DEF Del, Notes
<1>3. b' = [b EXCEPT !.m = m]
  BY Zenon DEF Del
<1>4. m[x] = none /\ last'[x] = none /\ \A h \in Hashes : h # x => m[h] = b.m[h] /\ last'[h] = last[h]
  BY <1>1, Zenon DEF Del, Notes
<1> HIDE DEF m
<1>5. /\ b' \in Bucket /\ b'.type = b.type /\ b'.idx = b.idx /\ b'.gen = b.gen /\ b'.m = m
      /\ b'.chunks = b.chunks /\ SameCounters(b, b')
  BY <1>1, <1>2, <1>3, Zenon DEF Bucket, SameCounters
<1>6. Position(b')
  BY <1>1, <1>5, Zenon DEF Position
<1>7. ASSUME NEW h \in Hashes PROVE Recorded(b', last', h)
  <2>1. CASE h = x
    BY <1>4, <1>5, <2>1, Zenon DEF Recorded
  <2>2. CASE h # x
    <3>1. Recorded(b, last, h) /\ m[h] = b.m[h] /\ last'[h] = last[h]
      BY <1>1, <1>4, <2>2, Zenon
    <3> QED BY <1>5, <3>1, ZenonT(40) DEF Recorded, Live, Written, WrittenAt
  <2> QED BY <2>1, <2>2, Zenon
<1> QED BY <1>2, <1>5, <1>6, <1>7, Zenon DEF Kept
-----------------------------------------------------------------------------
(* Get.                                                                    *)

(* An entry passes the test of Get if, and only if, the pair stored last for its hash
   is not yet overwritten, and then the entry is the one of that pair. *)
LEMMA PassesTest ==
    ASSUME NEW bu, NEW la, Kept(bu, la), NEW h \in Hashes
    PROVE  /\ InRing(bu, bu.m[h]) => /\ la[h] \in Note /\ la[h].idx = bu.m[h].idx
                                     /\ Written(bu, la[h])
           /\ la[h] # none /\ Live(bu, la[h]) => InRing(bu, bu.m[h])
<1> DEFINE e == bu.m[h]
           l == la[h]
<1>1. /\ bu \in Bucket /\ Recorded(bu, la, h) /\ bu.gen \in 1..maxGen /\ bu.idx \in Nat
      /\ e \in {none} \cup Entry /\ l \in {none} \cup Note
  BY Fields, Zenon DEF Kept, Notes
<1>2. maxGen \in Nat /\ maxGen >= 3
  BY Sizes, Zenon
<1>3. e # none => /\ e.gen \in 1..maxGen
                  /\ NextGen(e.gen) = IF e.gen = maxGen THEN 1 ELSE e.gen + 1
  <2>1. ASSUME e # none PROVE e.gen \in 1..maxGen
    <3>1. e \in Entry
      BY <1>1, <2>1, Zenon
    <3> QED BY <3>1, ZenonT(40) DEF Entry
  <2> QED BY <2>1, Generations, ZenonT(40)
<1>4. l # none => l \in Note /\ l.idx \in Nat /\ kvLen(l.key) \in Nat \ {0}
  <2>1. ASSUME l # none PROVE l \in Note /\ l.idx \in Nat /\ l.key \in Key
    <3>1. l \in Note
      BY <1>1, <2>1, Zenon
    <3> QED BY <3>1 DEF Note
  <2> QED BY <2>1, Sizes, Zenon
<1>5. /\ e # none => /\ l # none /\ l.idx = e.idx
                     /\ \/ l.laps = 0 /\ e.gen = bu.gen
                        \/ l.laps = 1 /\ NextGen(e.gen) = bu.gen
      /\ l # none => /\ l.laps = 0 => l.idx + kvLen(l.key) <= bu.idx
                     /\ Live(bu, l) => e # none /\ Written(bu, l)
  BY <1>1, Zenon DEF Recorded
<1> HIDE DEF e, l
<1>6. ASSUME InRing(bu, e) PROVE l \in Note /\ l.idx = e.idx /\ Written(bu, l)
  <2>1. /\ e # none
        /\ \/ e.gen = bu.gen /\ e.idx < bu.idx
           \/ e.gen + 1 = bu.gen /\ e.idx >= bu.idx
           \/ e.gen = maxGen /\ bu.gen = 1 /\ e.idx >= bu.idx
    BY <1>6, Zenon DEF InRing
  <2>2. l # none /\ l.idx = e.idx
    BY <1>5, <2>1, ZenonT(40)
  <2>3. l.laps = 0 \/ (l.laps = 1 /\ e.idx >= bu.idx)
    BY <1>1, <1>2, <1>3, <1>5, <2>1
  <2> QED BY <1>4, <1>5, <2>2, <2>3, Zenon DEF Live
<1>7. ASSUME l # none, Live(bu, l) PROVE InRing(bu, e)
  <2>1. e # none /\ l.idx = e.idx
    BY <1>5, <1>7, Zenon
  <2>2. l.laps = 0 \/ (l.laps = 1 /\ l.idx >= bu.idx)
    BY <1>7, Zenon DEF Live
  <2>3. CASE l.laps = 0 /\ e.gen = bu.gen
    <3>1. l.idx < bu.idx
      BY <1>1, <1>4, <1>5, <1>7, <2>3
    <3> QED BY <2>1, <2>3, <3>1, ZenonT(40) DEF InRing
  <2>4. CASE l.laps = 1 /\ NextGen(e.gen) = bu.gen
    <3>1. l.idx >= bu.idx
      BY <2>2, <2>4
    <3>2. e.gen + 1 = bu.gen \/ (e.gen = maxGen /\ bu.gen = 1)
      BY <1>3, <2>1, <2>4, Zenon
    <3> QED BY <2>1, <3>1, <3>2, Zenon DEF InRing
  <2> QED BY <1>5, <2>1, <2>3, <2>4, Zenon
<1> QED BY <1>6, <1>7, Zenon DEF e, l

(* What a written pair looks like to Get. *)
LEMMA ReadsWritten ==
    ASSUME NEW bu, NEW l \in Note, Written(bu, l)
    PROVE  /\ WholePair(bu, l.idx) /\ ~Corrupted(l.idx, PairAt(bu, l.idx))
           /\ PairAt(bu, l.idx).key = l.key /\ PairAt(bu, l.idx).val = l.val
<1> DEFINE c == bu.chunks[l.idx \div ChunkSize]
           o == l.idx % ChunkSize
           n == kvLen(l.key)
<1>1. l.key \in Key /\ l.val \in Value /\ l.idx \in Nat
  BY DEF Note
<1>2. /\ n \in Nat \ {0} /\ n >= HeaderLen /\ HeaderLen \in Nat /\ ChunkSize \in Nat \ {0}
      /\ o \in 0..(ChunkSize - 1)
  BY <1>1, Sizes, Split, Zenon
<1>3. /\ c # NilChunk /\ o + n < ChunkSize
      /\ \A i \in 0..(n - 1) : c.bytes[o + i] = [key |-> l.key, val |-> l.val, off |-> i]
  BY Zenon DEF Written, WrittenAt
<1> HIDE DEF c, o, n
<1>4. c.bytes[o] = [key |-> l.key, val |-> l.val, off |-> 0]
  <2>1. 0 \in 0..(n - 1) /\ o + 0 = o
    BY <1>2
  <2>2. c.bytes[o + 0] = [key |-> l.key, val |-> l.val, off |-> 0]
    BY <1>3, <2>1, Zenon
  <2> QED BY <2>1, <2>2, Zenon
<1>5. /\ c.bytes[o].key = l.key /\ c.bytes[o].val = l.val
      /\ \A i : [c.bytes[o] EXCEPT !.off = i] = [key |-> l.key, val |-> l.val, off |-> i]
  BY <1>4
<1>6. c.bytes[o] # Junk
  <2>1. 0 \in Nat
    OBVIOUS
  <2>2. c.bytes[o] \in Byte
    BY <1>1, <1>4, <2>1 DEF Byte
  <2> QED BY <2>2, Nothing, Zenon
<1>7. \A i \in 0..(n - 1) : o + i < ChunkSize
  BY <1>2, <1>3
<1>8. \A i \in 0..(n - 1) : o + i < ChunkSize /\ c.bytes[o + i] = [c.bytes[o] EXCEPT !.off = i]
  BY <1>3, <1>5, <1>7, ZenonT(40)
<1>9. WholePair(bu, l.idx)
  BY <1>3, <1>5, <1>6, <1>8, Zenon DEF WholePair, c, o, n
<1>10. ~(o + HeaderLen >= ChunkSize) /\ ~(o + n >= ChunkSize)
  BY <1>2, <1>3
<1>11. PairAt(bu, l.idx) = c.bytes[o]
  BY Zenon DEF PairAt, c, o
<1>12. ~Corrupted(l.idx, PairAt(bu, l.idx))
  BY <1>5, <1>10, <1>11, Zenon DEF Corrupted, o, n
<1> QED BY <1>5, <1>9, <1>11, <1>12, Zenon

(* The three properties of Get. *)
LEMMA KeptReads ==
    ASSUME Kept(b, last)
    PROVE  GetIsLastSet /\ ReadsWholePair /\ FoundUntilOverwritten
<1>1. \A h \in Hashes : /\ InRing(b, b.m[h]) => /\ last[h] \in Note /\ last[h].idx = b.m[h].idx
                                                /\ Written(b, last[h])
                        /\ last[h] # none /\ Live(b, last[h]) => InRing(b, b.m[h])
  BY PassesTest, Zenon
<1>2. ASSUME NEW h \in Hashes, InRing(b, b.m[h])
      PROVE  /\ last[h] # none
             /\ WholePair(b, b.m[h].idx) /\ ~Corrupted(b.m[h].idx, PairAt(b, b.m[h].idx))
             /\ PairAt(b, b.m[h].idx).key = last[h].key /\ PairAt(b, b.m[h].idx).val = last[h].val
  <2>1. last[h] \in Note /\ last[h].idx = b.m[h].idx /\ Written(b, last[h])
    BY <1>1, <1>2, Zenon
  <2>2. last[h] # none
    BY <2>1, Nothing, Zenon
  <2> QED BY <2>1, <2>2, ReadsWritten, ZenonT(40)
<1>3. GetIsLastSet
  <2> SUFFICES ASSUME NEW k \in Key, NEW v \in Get(b, k)
               PROVE  last[Hash[k]] # none /\ last[Hash[k]].key = k /\ last[Hash[k]].val = v
    BY Zenon DEF GetIsLastSet
  <2>1. Hash[k] \in Hashes
    BY Zenon DEF Hashes
  <2>2. /\ InRing(b, b.m[Hash[k]]) /\ PairAt(b, b.m[Hash[k]].idx).key = k
        /\ v = PairAt(b, b.m[Hash[k]].idx).val
    BY Zenon DEF Get, KeyMatches
  <2> QED BY <1>2, <2>1, <2>2, Zenon
<1>4. ReadsWholePair
  BY <1>2, Zenon DEF ReadsWholePair
<1>5. FoundUntilOverwritten
  <2> SUFFICES ASSUME NEW k \in Key, last[Hash[k]] # none, last[Hash[k]].key = k,
                      Live(b, last[Hash[k]])
               PROVE  Get(b, k) = {last[Hash[k]].val}
    BY Zenon DEF FoundUntilOverwritten, Live
  <2>1. Hash[k] \in Hashes
    BY Zenon DEF Hashes
  <2>2. InRing(b, b.m[Hash[k]])
    BY <1>1, <2>1, Zenon
  <2> QED BY <1>2, <2>1, <2>2, Zenon DEF Get, KeyMatches
<1> QED BY <1>3, <1>4, <1>5, Zenon
-----------------------------------------------------------------------------
(* The chunks that are in their places, counted.                           *)

FST == INSTANCE FiniteSetTheorems

(* The theorems on finite sets are about the same operators. *)
LEMMA SameSets ==
    /\ \A S : Cardinality(S) = FST!Cardinality(S)
    /\ \A S : IsFiniteSet(S) <=> FST!IsFiniteSet(S)
BY Zenon DEF Cardinality, FST!Cardinality, IsFiniteSet, FST!IsFiniteSet

InPlace(bu) == {c \in 0..(maxChunks - 1) : bu.chunks[c] # NilChunk}

(* What putChunks counts, at most the places. *)
LEMMA PlacesCount ==
    ASSUME NEW bu, bu.chunks \in Chunks
    PROVE  /\ putChunks(bu) = Cardinality(InPlace(bu)) /\ putChunks(bu) \in Nat
           /\ IsFiniteSet(InPlace(bu))
           /\ (\E c \in 0..(maxChunks - 1) : bu.chunks[c] = NilChunk) => putChunks(bu) < maxChunks
           /\ (\A c \in 0..(maxChunks - 1) : bu.chunks[c] = NilChunk) => putChunks(bu) = 0
<1> DEFINE S == 0..(maxChunks - 1)
           T == InPlace(bu)
<1>1. putChunks(bu) = Cardinality(T)
  <2>1. DOMAIN bu.chunks = 0..(maxChunks - 1)
    BY Zenon DEF Chunks
  <2> QED BY <2>1, Zenon DEF putChunks, Quantify, InPlace
<1>2. maxChunks \in Nat \ {0}
  BY Sizes, Zenon
<1>3. IsFiniteSet(S) /\ Cardinality(S) = maxChunks
  <2>1. 0 \in Int /\ maxChunks - 1 \in Int
    BY <1>2
  <2>2. FST!IsFiniteSet(S) /\ FST!Cardinality(S) = IF 0 > maxChunks - 1 THEN 0 ELSE (maxChunks - 1) - 0 + 1
    BY <2>1, FST!FS_Interval, ZenonT(40)
  <2>3. (IF 0 > maxChunks - 1 THEN 0 ELSE (maxChunks - 1) - 0 + 1) = maxChunks
    BY <1>2
  <2>4. FST!Cardinality(S) = maxChunks
    BY <2>2, <2>3
  <2> HIDE DEF S
  <2> QED BY <2>2, <2>4, SameSets, ZenonT(40)
<1>4. T \in SUBSET S
  BY Zenon DEF InPlace
<1> HIDE DEF S, T
<1>5. /\ IsFiniteSet(T) /\ Cardinality(T) <= Cardinality(S)
      /\ Cardinality(S) = Cardinality(T) => S = T
  BY <1>3, <1>4, SameSets, FST!FS_Subset, ZenonT(40)
<1>6. Cardinality(T) \in Nat
  BY <1>5, SameSets, FST!FS_CardinalityType, ZenonT(40)
<1>7. ASSUME NEW c \in S, bu.chunks[c] = NilChunk PROVE putChunks(bu) < maxChunks
  <2>1. S # T
    BY <1>7, Zenon DEF S, T, InPlace
  <2>2. Cardinality(T) # maxChunks /\ Cardinality(T) <= maxChunks
    BY <1>3, <1>5, <2>1, ZenonT(40)
  <2> QED BY <1>1, <1>2, <1>6, <2>2
<1>8. ASSUME \A c \in S : bu.chunks[c] = NilChunk PROVE putChunks(bu) = 0
  <2>1. T = {}
    BY <1>8, ZenonT(40) DEF S, T, InPlace
  <2> QED BY <1>1, <2>1, SameSets, FST!FS_EmptySet, ZenonT(40)
<1> QED BY <1>1, <1>5, <1>6, <1>7, <1>8, ZenonT(40) DEF S, T

(* Set counts the chunk it takes. *)
LEMMA SetSlabs ==
    ASSUME NEW bu \in Bucket, NEW bn \in Bucket, bu.type # "preallocated",
           Allocated(bu, bn), Slabs(bu)
    PROVE  Slabs(bn)
<1> DEFINE n == Min({bu.nextAllocChunks, calcMaxSlabChunks, maxChunks - bu.allocatedChunks})
           x == Min({2 * bu.nextAllocChunks, calcMaxSlabChunks})
<1>1. /\ bu.chunks \in Chunks /\ bn.chunks \in Chunks /\ bu.freeChunks \in Int
      /\ bu.allocatedChunks \in Int /\ bu.nextAllocChunks \in Int
  BY Fields, ZenonT(40)
<1>2. /\ putChunks(bu) = Cardinality(InPlace(bu)) /\ putChunks(bu) \in Nat /\ IsFiniteSet(InPlace(bu))
      /\ putChunks(bn) = Cardinality(InPlace(bn))
  BY <1>1, PlacesCount, ZenonT(40)
<1>3. /\ bu.freeChunks >= 0 /\ bu.allocatedChunks <= maxChunks /\ bu.nextAllocChunks >= 1
      /\ bu.allocatedChunks = bu.freeChunks + putChunks(bu)
  BY Zenon DEF Slabs
<1>4. CASE /\ SameCounters(bu, bn)
           /\ \A d \in 0..(maxChunks - 1) : bn.chunks[d] = NilChunk <=> bu.chunks[d] = NilChunk
  <2>1. InPlace(bn) = InPlace(bu)
    BY <1>4, ZenonT(40) DEF InPlace
  <2>2. /\ bn.freeChunks = bu.freeChunks /\ bn.allocatedChunks = bu.allocatedChunks
        /\ bn.nextAllocChunks = bu.nextAllocChunks /\ putChunks(bn) = putChunks(bu)
    BY <1>2, <1>4, <2>1, ZenonT(40) DEF SameCounters
  <2> QED BY <1>3, <2>2, ZenonT(40) DEF Slabs
<1>5. CASE /\ Taken(bu, bn) /\ (bu.freeChunks = 0 => CanGrow(bu))
           /\ \E c \in 0..(maxChunks - 1) :
                  /\ bu.chunks[c] = NilChunk /\ bn.chunks[c] # NilChunk
                  /\ \A d \in 0..(maxChunks - 1) : d # c => bn.chunks[d] = bu.chunks[d]
  <2>1. PICK c \in 0..(maxChunks - 1) :
            /\ bu.chunks[c] = NilChunk /\ bn.chunks[c] # NilChunk
            /\ \A d \in 0..(maxChunks - 1) : d # c => bn.chunks[d] = bu.chunks[d]
    BY <1>5, ZenonT(40)
  <2>2. InPlace(bn) = InPlace(bu) \cup {c} /\ c \notin InPlace(bu)
    BY <2>1, ZenonT(40) DEF InPlace
  <2>3. putChunks(bn) = putChunks(bu) + 1
    BY <1>2, <2>2, SameSets, FST!FS_AddElement, ZenonT(30)
  <2>4. CASE bu.freeChunks = 0
    <3>1. bn.freeChunks = n - 1 /\ bn.allocatedChunks = bu.allocatedChunks + n /\ bn.nextAllocChunks = x
      BY <1>5, <2>4, Zenon DEF Taken
    <3>2. bu.allocatedChunks < maxChunks /\ maxChunks \in Nat
      BY <1>5, <2>4, Sizes, ZenonT(40) DEF CanGrow
    <3>3. n \in Int /\ n >= 1 /\ n <= maxChunks - bu.allocatedChunks /\ x \in Int /\ x >= 1
      BY <1>1, <1>3, <3>2, SlabChunks, ZenonT(40)
    <3> HIDE DEF n, x
    <3>4. bn.freeChunks >= 0 /\ bn.nextAllocChunks >= 1
      BY <3>1, <3>3
    <3>5. PICK a \in Int : a = bu.allocatedChunks
      BY <1>1, Zenon
    <3>6. bn.allocatedChunks <= maxChunks
      BY <3>1, <3>2, <3>3, <3>5
    <3>7. PICK q \in Nat : q = putChunks(bu)
      BY <1>2, Zenon
    <3>8. n \in Int /\ a = 0 + q /\ bn.allocatedChunks = a + n /\ bn.freeChunks = n - 1 /\ putChunks(bn) = q + 1
      BY <1>3, <2>3, <2>4, <3>1, <3>3, <3>5, <3>7, Zenon
    <3>9. bn.allocatedChunks = bn.freeChunks + putChunks(bn)
      BY <3>8
    <3> QED BY <3>4, <3>6, <3>9, Zenon DEF Slabs
  <2>5. CASE bu.freeChunks # 0
    <3>1. /\ bn.freeChunks = bu.freeChunks - 1 /\ bn.allocatedChunks = bu.allocatedChunks
          /\ bn.nextAllocChunks = bu.nextAllocChunks
      BY <1>5, <2>5, ZenonT(40) DEF Taken
    <3>2. /\ bn.freeChunks >= 0 /\ bn.allocatedChunks <= maxChunks /\ bn.nextAllocChunks >= 1
          /\ bn.allocatedChunks = bn.freeChunks + putChunks(bn)
      BY <1>1, <1>2, <1>3, <2>3, <2>5, <3>1
    <3> QED BY <3>2, Zenon DEF Slabs
  <2> QED BY <2>4, <2>5, ZenonT(40)
<1> QED BY <1>4, <1>5, ZenonT(40) DEF Allocated

(* A place without a chunk is left for the chunk that Set asks for. *)
LEMMA RoomToGrow ==
    ASSUME NEW bu, NEW la, Kept(bu, la), Slabs(bu), NEW k \in Key, NeedsSlab(bu, k)
    PROVE  CanGrow(bu)
<1> DEFINE n == kvLen(k)
           p == Place(bu, n)
           c == bu.idx \div ChunkSize
           o == bu.idx % ChunkSize
<1>1. bu \in Bucket /\ Position(bu) /\ bu.chunks \in Chunks
  BY Fields, ZenonT(40) DEF Kept
<1>2. n \in Nat \ {0} /\ n < ChunkSize /\ maxChunks \in Nat \ {0}
  BY Sizes, ZenonT(40) DEF NeedsSlab, Fits
<1>3. /\ c \in 0..(maxChunks - 1)
      /\ \/ p = [idx |-> bu.idx, chunk |-> c, wraps |-> FALSE, opens |-> FALSE]
         \/ /\ p = [idx |-> (c + 1) * ChunkSize, chunk |-> c + 1, wraps |-> FALSE, opens |-> TRUE]
            /\ c + 1 < maxChunks
         \/ p = [idx |-> 0, chunk |-> 0, wraps |-> TRUE, opens |-> TRUE]
  BY <1>1, <1>2, Places, ZenonT(40)
<1>4. bu.chunks[p.chunk] = NilChunk /\ bu.freeChunks = 0
  BY ZenonT(40) DEF NeedsSlab
<1> HIDE DEF n, p, c, o
<1>5. p.chunk \in 0..(maxChunks - 1)
  <2>1. /\ c \in 0..(maxChunks - 1)
        /\ p.chunk = c \/ (p.chunk = c + 1 /\ c + 1 < maxChunks) \/ p.chunk = 0
    BY <1>3
  <2> QED BY <1>2, <2>1
<1>6. bu.type # "preallocated"
  BY <1>1, <1>4, <1>5, ZenonT(40) DEF Position
<1>7. putChunks(bu) < maxChunks /\ putChunks(bu) \in Nat
  BY <1>1, <1>4, <1>5, PlacesCount, ZenonT(40)
<1>8. bu.allocatedChunks = bu.freeChunks + putChunks(bu)
  BY <1>6, ZenonT(40) DEF Slabs
<1>9. bu.allocatedChunks < maxChunks
  BY <1>4, <1>7, <1>8
<1> QED BY <1>9, ZenonT(40) DEF CanGrow
-----------------------------------------------------------------------------
(* The steps.                                                              *)

Sound(bu, la) == Kept(bu, la) /\ Slabs(bu)

(* Set of one pair. *)
LEMMA SetSound ==
    ASSUME NEW bu, NEW la, Sound(bu, la), NEW k \in Key, NEW v \in Value, NEW mm
    PROVE  /\ Sound(Set(bu, k, v, mm), AfterSet(la, bu, k, v, mm))
           /\ ~(NeedsSlab(bu, k) /\ ~CanGrow(bu))
<1> DEFINE bn == Set(bu, k, v, mm)
           ln == AfterSet(la, bu, k, v, mm)
<1>1. Kept(bu, la) /\ Slabs(bu) /\ bu \in Bucket
  BY Zenon DEF Sound, Kept
<1>2. Kept(bn, ln)
  BY <1>1, SetKept, ZenonT(40)
<1>3. bn \in Bucket
  BY <1>2, ZenonT(40) DEF Kept
<1>4. Slabs(bn)
  <2>1. CASE ~Fits(k)
    <3>1. bn = bu
      BY <1>1, <2>1, NotFitting, ZenonT(40)
    <3> QED BY <1>1, <3>1, ZenonT(40)
  <2>2. CASE Fits(k) /\ bu.type = "preallocated"
    <3>1. bn = SetPreallocated(bu, k, v)
      BY <2>2 DEF Set
    <3>2. SetPreallocated(bu, k, v).type = bu.type
      BY <1>1, <2>2, SetPreallocatedKept, ZenonT(40)
    <3>3. bn.type = "preallocated"
      BY <2>2, <3>1, <3>2, ZenonT(40)
    <3> QED BY <3>3, ZenonT(40) DEF Slabs
  <2>3. CASE Fits(k) /\ bu.type # "preallocated"
    <3>1. Allocated(bu, bn)
      BY <1>1, <2>3, SetOfRing, ZenonT(40)
    <3> QED BY <1>1, <1>3, <2>3, <3>1, SetSlabs, ZenonT(40)
  <2> QED BY <2>1, <2>2, <2>3, ZenonT(40)
<1>5. ~(NeedsSlab(bu, k) /\ ~CanGrow(bu))
  BY <1>1, RoomToGrow, ZenonT(40)
<1> QED BY <1>2, <1>4, <1>5, ZenonT(40) DEF Sound

(* The bucket of Init, and every operation. *)
LEMMA InitSound == ASSUME Init PROVE Sound(b, last) /\ NeverExhausted
<1>1. PICK t \in BucketType : b = EmptyBucket(t)
  BY Zenon DEF Init
<1>2. t \in {"unallocated", "trimmed", "preallocated"}
  BY BucketAssumption, Zenon
<1>3. /\ b \in Bucket /\ b.type = t /\ b.m = [h \in Hashes |-> none] /\ b.idx = 0
      /\ b.freeChunks = 0 /\ b.allocatedChunks = 0 /\ b.nextAllocChunks = calcInitialAllocChunks
      /\ \A c \in 0..(maxChunks - 1) : b.chunks[c] = IF t = "preallocated" THEN ZeroChunk ELSE NilChunk
      /\ ZeroChunk # NilChunk
  BY <1>1, <1>2, EmptyFields, ZenonT(40)
<1>4. /\ b.type = "preallocated" => \A c \in 0..(maxChunks - 1) : b.chunks[c] # NilChunk
      /\ b.type # "preallocated" => \A c \in 0..(maxChunks - 1) : b.chunks[c] = NilChunk
  BY <1>3, Zenon
<1>5. last = [h \in Hashes |-> none] /\ ~exhausted
  BY Zenon DEF Init
<1>6. Kept(b, last)
  BY <1>3, <1>4, <1>5, Emptied, ZenonT(40)
<1>7. b.chunks \in Chunks
  BY <1>3, Fields, ZenonT(40)
<1>8. b.type # "preallocated" => putChunks(b) = 0
  BY <1>4, <1>7, PlacesCount, ZenonT(40)
<1>9. maxChunks \in Nat /\ calcInitialAllocChunks \in Nat \ {0}
  BY Sizes, SlabChunks, ZenonT(40)
<1>10. 0 >= 0 /\ 0 <= maxChunks /\ calcInitialAllocChunks >= 1 /\ 0 = 0 + 0
  BY <1>9
<1>11. Slabs(b)
  BY <1>3, <1>8, <1>10, ZenonT(40) DEF Slabs
<1> QED BY <1>5, <1>6, <1>11, ZenonT(40) DEF Sound, NeverExhausted

(* Every step. *)
LEMMA NextSound ==
    ASSUME Sound(b, last), NeverExhausted, [Next]_vars
    PROVE  Sound(b', last') /\ NeverExhausted'
<1>1. Kept(b, last) /\ Slabs(b) /\ b \in Bucket /\ Position(b) /\ b.chunks \in Chunks /\ ~exhausted
  <2>1. Kept(b, last) /\ Slabs(b) /\ b \in Bucket /\ Position(b) /\ ~exhausted
    BY Zenon DEF Sound, Kept, NeverExhausted
  <2> QED BY <2>1, Fields, ZenonT(40)
<1>2. ASSUME NEW x \in Input, NEW mm \in BOOLEAN, SetOne(x[1], x[2], mm)
      PROVE  Sound(b', last') /\ NeverExhausted'
  <2>1. x[1] \in Key /\ x[2] \in Value
    <3>1. x \in Key \X Value
      BY BucketAssumption, ZenonT(40)
    <3> QED BY <3>1, ZenonT(40)
  <2>2. /\ Sound(Set(b, x[1], x[2], mm), AfterSet(last, b, x[1], x[2], mm))
        /\ ~(NeedsSlab(b, x[1]) /\ ~CanGrow(b))
    BY <2>1, SetSound, ZenonT(40)
  <2>3. /\ b' = Set(b, x[1], x[2], mm) /\ last' = AfterSet(last, b, x[1], x[2], mm)
        /\ exhausted' = (exhausted \/ (NeedsSlab(b, x[1]) /\ ~CanGrow(b)))
    BY <1>2, ZenonT(40) DEF SetOne, AfterSet
  <2> QED BY <1>1, <2>2, <2>3, ZenonT(40) DEF NeverExhausted
<1>3. ASSUME NEW xy \in Batch, SetMulti(xy[1], xy[2])
      PROVE  Sound(b', last') /\ NeverExhausted'
  <2> DEFINE x == xy[1]
             y == xy[2]
             bx == Set(b, x[1], x[2], TRUE)
             lx == AfterSet(last, b, x[1], x[2], TRUE)
  <2>1. x[1] \in Key /\ x[2] \in Value /\ y[1] \in Key /\ y[2] \in Value
    <3>1. xy \in (Key \X Value) \X (Key \X Value)
      BY BucketAssumption, ZenonT(40)
    <3>2. xy[1] \in Key \X Value /\ xy[2] \in Key \X Value
      BY <3>1
    <3> QED BY <3>2, ZenonT(40)
  <2>2. /\ b' = Set(bx, y[1], y[2], TRUE) /\ last' = AfterSet(lx, bx, y[1], y[2], TRUE)
        /\ exhausted' = (exhausted \/ (NeedsSlab(b, x[1]) /\ ~CanGrow(b))
                                   \/ (NeedsSlab(bx, y[1]) /\ ~CanGrow(bx)))
    BY <1>3, ZenonT(40) DEF SetMulti, AfterSet
  <2> HIDE DEF x, y
  <2>3. Sound(bx, lx) /\ ~(NeedsSlab(b, x[1]) /\ ~CanGrow(b))
    BY <2>1, SetSound, ZenonT(40)
  <2> HIDE DEF bx, lx
  <2>4. /\ Sound(Set(bx, y[1], y[2], TRUE), AfterSet(lx, bx, y[1], y[2], TRUE))
        /\ ~(NeedsSlab(bx, y[1]) /\ ~CanGrow(bx))
    BY <2>1, <2>3, SetSound, ZenonT(40)
  <2> QED BY <1>1, <2>2, <2>3, <2>4, ZenonT(40) DEF NeverExhausted
<1>4. ASSUME NEW h \in Hashes, Del(h) PROVE Sound(b', last') /\ NeverExhausted'
  <2>1. Kept(b', last') /\ b'.type = b.type /\ b'.chunks = b.chunks /\ SameCounters(b, b')
    BY <1>1, <1>4, DelKept, ZenonT(40)
  <2>2. putChunks(b') = putChunks(b)
    <3>1. putChunks(b') = Cardinality(InPlace(b')) /\ putChunks(b) = Cardinality(InPlace(b))
      BY <1>1, <2>1, PlacesCount, ZenonT(40)
    <3> QED BY <2>1, <3>1, ZenonT(40) DEF InPlace
  <2>3. Slabs(b')
    BY <1>1, <2>1, <2>2, ZenonT(40) DEF Slabs, SameCounters
  <2>4. ~exhausted'
    BY <1>1, <1>4, ZenonT(40) DEF Del
  <2> QED BY <2>1, <2>3, <2>4, ZenonT(40) DEF Sound, NeverExhausted
<1>5. CASE Reset
  <2>1. putChunks(b) \in Nat
    BY <1>1, PlacesCount, ZenonT(40)
  <2>2. /\ b' \in Bucket /\ b'.type = b.type /\ b'.m = [h \in Hashes |-> none] /\ b'.idx = 0
        /\ b.type = "preallocated" => \A c \in 0..(maxChunks - 1) : b'.chunks[c] # NilChunk
        /\ b.type # "preallocated" =>
               /\ \A c \in 0..(maxChunks - 1) : b'.chunks[c] = NilChunk
               /\ b'.freeChunks = b.freeChunks + putChunks(b)
               /\ b'.allocatedChunks = b.allocatedChunks
               /\ b'.nextAllocChunks = calcInitialAllocChunks
    BY <1>1, <1>5, <2>1, ResetFields, ZenonT(40)
  <2>3. last' = [h \in Hashes |-> none] /\ ~exhausted'
    BY <1>1, <1>5, ZenonT(40) DEF Reset
  <2>4. Kept(b', last')
    BY <2>2, <2>3, Emptied, ZenonT(40)
  <2>5. b'.chunks \in Chunks
    BY <2>2, Fields, ZenonT(40)
  <2>6. ASSUME b.type # "preallocated"
        PROVE  /\ b'.freeChunks >= 0 /\ b'.allocatedChunks <= maxChunks /\ b'.nextAllocChunks >= 1
               /\ b'.allocatedChunks = b'.freeChunks + putChunks(b')
    <3>1. putChunks(b') = 0
      BY <2>2, <2>5, <2>6, PlacesCount, ZenonT(40)
    <3>2. /\ b.freeChunks >= 0 /\ b.allocatedChunks <= maxChunks
          /\ b.allocatedChunks = b.freeChunks + putChunks(b)
      BY <1>1, <2>6, ZenonT(40) DEF Slabs
    <3>3. b.freeChunks \in Int /\ calcInitialAllocChunks \in Nat \ {0}
      BY <1>1, Fields, SlabChunks, ZenonT(40)
    <3>4. /\ b'.freeChunks = b.freeChunks + putChunks(b) /\ b'.allocatedChunks = b.allocatedChunks
          /\ b'.nextAllocChunks = calcInitialAllocChunks
      BY <2>2, <2>6, ZenonT(40)
    <3> QED BY <2>1, <3>1, <3>2, <3>3, <3>4
  <2>7. Slabs(b')
    BY <2>2, <2>6, ZenonT(40) DEF Slabs
  <2> QED BY <2>3, <2>4, <2>7, ZenonT(40) DEF Sound, NeverExhausted
<1>6. CASE UNCHANGED vars
  BY <1>6, Zenon DEF vars, NeverExhausted
<1> QED BY <1>2, <1>3, <1>4, <1>5, <1>6, ZenonT(40) DEF Next

(* A bucket and its history stay sound: the map, the generations and the write
   position agree with the bytes of the chunks and with what was stored last for each
   hash, and every chunk of the slabs is in its place or free.  This holds for Set,
   SetMulti, Del and Reset of the three types of bucket, with failing mmaps. *)
THEOREM BucketSound == Spec => [](Sound(b, last) /\ NeverExhausted)
<1>1. Init => Sound(b, last) /\ NeverExhausted
  BY InitSound, Zenon
<1>2. Sound(b, last) /\ NeverExhausted /\ [Next]_vars => (Sound(b, last) /\ NeverExhausted)'
  BY NextSound, Zenon
<1> QED BY <1>1, <1>2, PTL DEF Spec

(* Get of improved_cache.go returns the value stored last for its key or nothing, for
   every hash function, size of chunk and number of generations. *)
THEOREM ReadsLatest == Spec => []GetIsLastSet
<1>1. Sound(b, last) => GetIsLastSet
  BY KeptReads, ZenonT(40) DEF Sound
<1> QED BY <1>1, BucketSound, PTL

(* An entry that passes the test of Get on its generation and index leads to the whole
   bytes of one pair. *)
THEOREM ReadsWhole == Spec => []ReadsWholePair
<1>1. Sound(b, last) => ReadsWholePair
  BY KeptReads, ZenonT(40) DEF Sound
<1> QED BY <1>1, BucketSound, PTL

(* Neither cleanLockedMap nor a generation that starts over at 1 loses a pair before
   the write position of the next lap reaches it, or its chunk is dropped. *)
THEOREM LostOnlyWhenOverwritten == Spec => []FoundUntilOverwritten
<1>1. Sound(b, last) => FoundUntilOverwritten
  BY KeptReads, ZenonT(40) DEF Sound
<1> QED BY <1>1, BucketSound, PTL

(* The branch of getChunk that its comment calls unreachable is. *)
THEOREM GetChunkHasRoom == Spec => []NeverExhausted
BY BucketSound, PTL
=============================================================================
