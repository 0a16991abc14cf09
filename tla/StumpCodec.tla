----------------------------- MODULE StumpCodec -----------------------------
(***************************************************************************)
(* internal/stump/builder.go: the BRC-0074 encoding of the STUMP that      *)
(* Build returns, and MergeSTUMPs.                                         *)
(***************************************************************************)
EXTENDS StumpBuilder, SequencesExt, FiniteSetsExt

CONSTANTS
    Byte,           \* values of a byte (256)
    BlockHeights    \* block heights to encode

ASSUME CodecAssumption ==
    /\ Byte \in Nat /\ Byte > 3
    /\ BlockHeights \subseteq Nat

-----------------------------------------------------------------------------
(* Encode.  A hash is one symbol of the output.                            *)

LittleEndian(v, width) == [i \in 1..width |-> (v \div Byte^(i - 1)) % Byte]

(* Mutant of appendCompactSize: two digits for one value too many. *)
appendCompactSizeLate(buf, v) ==
    buf \o (IF v < Byte - 3 THEN <<v>>
            ELSE IF v <= Byte^2 THEN <<Byte - 3>> \o LittleEndian(v, 2)
            ELSE IF v < Byte^4 THEN <<Byte - 2>> \o LittleEndian(v, 4)
            ELSE <<Byte - 1>> \o LittleEndian(v, 8))

appendCompactSize(buf, v) ==
    buf \o (IF v < Byte - 3 THEN <<v>>
            ELSE IF v < Byte^2 THEN <<Byte - 3>> \o LittleEndian(v, 2)
            ELSE IF v < Byte^4 THEN <<Byte - 2>> \o LittleEndian(v, 4)
            ELSE <<Byte - 1>> \o LittleEndian(v, 8))

encodeLeaf(buf, leaf) ==
    appendCompactSize(buf, leaf.offset)
        \o <<IF leaf.duplicate THEN 1 ELSE IF leaf.txid THEN 2 ELSE 0>>
        \o (IF leaf.duplicate THEN <<>> ELSE <<leaf.hash>>)

encodeLevel(buf, pathLevel) ==
    FoldLeft(encodeLeaf, appendCompactSize(buf, Len(pathLevel)), pathLevel)

Encode(blockHeight, ps) ==
    FoldLeft(encodeLevel, Append(appendCompactSize(<<>>, blockHeight), Len(ps)), ps)

-----------------------------------------------------------------------------
(* MergeSTUMPs, on the paths of STUMPs of one subtree.                     *)

(* Mutant of Preferred: the flag does not matter. *)
PreferredFirst(found) == Head(found)

(* The leaf that the map keeps for an offset: the first one that has the TxID
   flag or, if none has, the first one. *)
Preferred(found) ==
    LET flagged == SelectSeq(found, LAMBDA leaf : leaf.txid)
    IN IF flagged = <<>> THEN Head(found) ELSE Head(flagged)

MergeLevel(ls) ==
    LET all == FlattenSeq(ls)
        offsets == {all[i].offset : i \in DOMAIN all}
    IN Sorted({Preferred(SelectSeq(all, LAMBDA leaf : leaf.offset = o)) : o \in offsets})

MergeSTUMPs(stumps) ==
    [l \in 1..Len(Head(stumps)) |-> MergeLevel([s \in 1..Len(stumps) |-> stumps[s][l]])]

-----------------------------------------------------------------------------
(* Reference definitions: the Merkle root of Bitcoin, a BRC-0074 reader,   *)
(* and the STUMP of a set of indices, level by level.                      *)

(* The rows of the Merkle tree of Bitcoin, from the leaves to the root. *)
RECURSIVE MerkleRows(_)
MerkleRows(r) ==
    IF Len(r) = 1 THEN <<r>>
    ELSE <<r>> \o MerkleRows([i \in 1..((Len(r) + 1) \div 2) |->
                                 <<r[2 * i - 1], r[Min({2 * i, Len(r)})]>>])

Rows == MerkleRows([i \in 1..nLeaves |-> <<i>>])

(* The root that a holder of leaf idx computes from the paths. *)
RootFrom(ps, idx) ==
    LET working[l \in 0..Len(ps)] ==
            IF l = 0 THEN <<idx + 1>>
            ELSE LET at == idx \div 2^(l - 1)
                     sib == LeafAt(ps[l], Sibling(at))
                 IN IF sib.duplicate THEN <<working[l - 1], working[l - 1]>>
                    ELSE IF at % 2 = 0 THEN <<working[l - 1], sib.hash>>
                    ELSE <<sib.hash, working[l - 1]>>
    IN working[Len(ps)]

Width(first) ==
    IF first < Byte - 3 THEN 0
    ELSE IF first = Byte - 3 THEN 2 ELSE IF first = Byte - 2 THEN 4 ELSE 8

(* A CompactSize and what follows it. *)
ReadSize(buf) ==
    LET w == Width(Head(buf))
    IN [value |-> IF w = 0 THEN Head(buf)
                  ELSE MapThenSumSet(LAMBDA i : buf[i + 1] * Byte^(i - 1), 1..w),
        rest |-> SubSeq(buf, w + 2, Len(buf))]

RECURSIVE ReadLeaves(_, _)
ReadLeaves(count, buf) ==
    IF count = 0 THEN [value |-> <<>>, rest |-> buf]
    ELSE LET offset == ReadSize(buf)
             flag == Head(offset.rest)
             more == ReadLeaves(count - 1, SubSeq(offset.rest, IF flag = 1 THEN 2 ELSE 3,
                                                  Len(offset.rest)))
             leaf == IF flag = 1 THEN DuplicateLeaf(offset.value)
                     ELSE HashLeaf(offset.value, offset.rest[2], flag = 2)
         IN [value |-> <<leaf>> \o more.value, rest |-> more.rest]

RECURSIVE ReadLevels(_, _)
ReadLevels(count, buf) ==
    IF count = 0 THEN [value |-> <<>>, rest |-> buf]
    ELSE LET size == ReadSize(buf)
             first == ReadLeaves(size.value, size.rest)
             more == ReadLevels(count - 1, first.rest)
         IN [value |-> <<first.value>> \o more.value, rest |-> more.rest]

(* The STUMP of a set of leaves, from the rows. *)
StumpOf(rows, indices) ==
    [l \in 1..(Len(rows) - 1) |->
        LET at == {i \div 2^(l - 1) : i \in indices}
            shown == {Sibling(i) : i \in at} \cup (IF l = 1 THEN at ELSE {})
        IN Sorted({IF i >= Len(rows[l]) THEN DuplicateLeaf(i)
                   ELSE HashLeaf(i, rows[l][i + 1], l = 1 /\ i \in indices) : i \in shown})]

-----------------------------------------------------------------------------
(* Properties.                                                             *)

(***************************************************************************)
(* A BRC-0074 reader gets back the block height and the paths that Encode  *)
(* wrote, nothing is left over, and from what it has read the holder of    *)
(* every registered leaf computes the Merkle root of the subtree.          *)
(***************************************************************************)
EncodeIsReadable ==
    pc = "done" => \A blockHeight \in BlockHeights :
        LET size == ReadSize(Encode(blockHeight, paths))
            read == ReadLevels(Head(size.rest), Tail(size.rest))
            root == Last(Rows)[1]
        IN /\ size.value = blockHeight /\ read.value = paths /\ read.rest = <<>>
           /\ \A idx \in registered : RootFrom(read.value, idx) = root

(***************************************************************************)
(* MergeSTUMPs of the STUMPs of two sets of leaves is what Build returns   *)
(* for all of these leaves, whatever order Build met the indices in.       *)
(***************************************************************************)
MergeIsBuild ==
    pc = "done" =>
        LET rows == Rows
        IN \A some \in SUBSET registered \ {{}}, rest \in SUBSET registered \ {{}} :
               some \cup rest = registered =>
                   MergeSTUMPs(<<StumpOf(rows, some), StumpOf(rows, rest)>>) = paths
=============================================================================
