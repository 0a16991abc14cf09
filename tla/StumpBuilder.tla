---------------------------- MODULE StumpBuilder ----------------------------
(***************************************************************************)
(* internal/stump/builder.go: Build, the partial Merkle tree (STUMP) that  *)
(* proves the registered leaves of a subtree.  Build ranges over Go maps,  *)
(* so the order in which it meets the needed indices of a level is any     *)
(* order: each index is a step, and so is each turn of the other loops.    *)
(*                                                                         *)
(* Hashes are symbolic: the i-th leaf is <<i>>, the parent of two nodes is *)
(* the pair of them, and <<>> is the zero hash that go-subtree leaves in   *)
(* the padding of its internal nodes.                                      *)
(***************************************************************************)
EXTENDS Integers, Sequences, FiniteSets

CONSTANT MaxLeaves      \* bound: leaves of a subtree

ASSUME LeavesAssumption == MaxLeaves \in Nat

VARIABLES
    nLeaves, registered,    \* the arguments: leaves and registeredIndices
    pc,                     \* the loop that runs
    nextPoT,                \* nLeaves, or the power of two above it
    internalNodes, built,   \* go-subtree's nodes, and how many it has computed
    half, treeHeight,       \* n of the loop that counts the height
    level, realCount,       \* the outer loop
    off, sz,                \* getNode: where the level starts, and its size
    needed, todo,           \* the indices of this level, and those still to come
    pathLeaves,             \* the leaves of this level, addedOffsets with them
    nextNeeded,
    paths,                  \* stump.Paths
    row,                    \* history: this row of the Merkle tree of Bitcoin
    proof                   \* history: what the holder of a leaf has computed

args == <<nLeaves, registered>>
store == <<nextPoT, internalNodes, built>>
height == <<half, treeHeight>>
levels == <<level, realCount, off, sz, needed, todo, pathLeaves, nextNeeded, paths>>
history == <<row, proof>>
vars == <<args, pc, store, height, levels, history>>

-----------------------------------------------------------------------------
(* The tree.                                                               *)

leaves(i) == IF i < nLeaves THEN <<i + 1>> ELSE <<>>

(* BuildMerkleTreeStoreFromBytes of go-subtree: a missing right child is its
   sibling, the parent of padding is the zero hash. *)
Parent(l, r) == IF l = <<>> THEN <<>> ELSE IF r = <<>> THEN <<l, l>> ELSE <<l, r>>

(* The nodes are level by level behind the leaves, so the children of node j are
   the entries 2j and 2j + 1 of leaves and nodes together. *)
Child(c) == IF c < nextPoT THEN leaves(c) ELSE internalNodes[c - nextPoT + 1]

Init ==
    /\ nLeaves \in 1..MaxLeaves /\ registered = {}
    /\ pc = "size" /\ nextPoT = 1
    /\ internalNodes = <<>> /\ built = 0
    /\ half = 0 /\ treeHeight = 0
    /\ level = 0 /\ realCount = 0 /\ off = 0 /\ sz = 0
    /\ needed = {} /\ todo = {} /\ pathLeaves = {} /\ nextNeeded = {}
    /\ paths = <<>> /\ row = <<>> /\ proof = <<>>

(* nextPowerOfTwo, which go-subtree has of its own. *)
nextPowerOfTwo ==
    /\ pc = "size" /\ nextPoT < nLeaves
    /\ nextPoT' = 2 * nextPoT
    /\ UNCHANGED <<args, pc, internalNodes, built, height, levels, history>>

MakeStore ==
    /\ pc = "size" /\ nextPoT >= nLeaves
    /\ pc' = "store"
    /\ internalNodes' = [i \in 1..(nextPoT - 1) |-> <<>>]
    /\ UNCHANGED <<args, nextPoT, built, height, levels, history>>

StoreNode ==
    /\ pc = "store" /\ built < nextPoT - 1
    /\ internalNodes' =
           [internalNodes EXCEPT ![built + 1] = Parent(Child(2 * built), Child(2 * built + 1))]
    /\ built' = built + 1
    /\ UNCHANGED <<args, pc, nextPoT, height, levels, history>>

(* The call of Build; nothing is built without leaves or registrations. *)
Call ==
    /\ pc = "store" /\ built = nextPoT - 1
    /\ pc' = "height" /\ half' = nextPoT
    /\ registered' \in SUBSET (0..(nLeaves - 1)) \ {{}}
    /\ UNCHANGED <<nLeaves, store, treeHeight, levels, history>>

CountHeight ==
    /\ pc = "height" /\ half > 1
    /\ half' = half \div 2 /\ treeHeight' = treeHeight + 1
    /\ UNCHANGED <<args, pc, store, levels, history>>

-----------------------------------------------------------------------------
(* Build.                                                                  *)

Sibling(idx) == IF idx % 2 = 0 THEN idx + 1 ELSE idx - 1

(* getNode.  The loop that sums up the levels below takes one turn more from one
   level to the next: off and sz have its result. *)
HasNode(index) == IF level = 0 THEN index < nLeaves ELSE off + index < nextPoT - 1

getNode(index) == IF level = 0 THEN leaves(index) ELSE internalNodes[off + index + 1]

HashLeaf(offset, hash, txid) ==
    [offset |-> offset, hash |-> hash, txid |-> txid, duplicate |-> FALSE]

DuplicateLeaf(offset) ==
    [offset |-> offset, hash |-> <<>>, txid |-> FALSE, duplicate |-> TRUE]

AddedOffsets == {x.offset : x \in pathLeaves}

IsTxid(idx) == level = 0 /\ idx \in registered

(* The registered txid itself, at level 0. *)
OwnLeaf(idx) ==
    IF IsTxid(idx) /\ idx \notin AddedOffsets THEN {HashLeaf(idx, leaves(idx), TRUE)} ELSE {}

(* Mutant of SiblingLeaf: the padding above the leaves is taken for nodes. *)
SiblingLeafPadded(sib) ==
    IF level = 0 /\ sib >= realCount THEN DuplicateLeaf(sib)
    ELSE HashLeaf(sib, getNode(sib), IsTxid(sib))

SiblingLeaf(sib) ==
    IF sib >= realCount THEN DuplicateLeaf(sib)
    ELSE IF HasNode(sib) THEN HashLeaf(sib, getNode(sib), IsTxid(sib))
    ELSE [DuplicateLeaf(sib) EXCEPT !.txid = IsTxid(sib)]

(* The outer loop begins; a single leaf needs no path. *)
Begin ==
    /\ pc = "height" /\ half <= 1
    /\ pc' = IF treeHeight = 0 THEN "done" ELSE "levels"
    /\ realCount' = nLeaves
    /\ sz' = nextPoT \div 2
    /\ needed' = registered /\ todo' = registered
    /\ paths' = [l \in 1..treeHeight |-> <<>>]
    /\ row' = [i \in 1..nLeaves |-> leaves(i - 1)]
    /\ proof' = [idx \in registered |-> [at |-> idx, hash |-> leaves(idx)]]
    /\ UNCHANGED <<args, store, height, level, off, pathLeaves, nextNeeded>>

(* The body of the inner loop for one index. *)
AddIndex(idx) ==
    /\ pc = "levels" /\ idx \in todo
    /\ todo' = todo \ {idx}
    /\ LET own == pathLeaves \cup OwnLeaf(idx)
           sib == Sibling(idx)
       IN pathLeaves' = IF sib \in AddedOffsets THEN own ELSE own \cup {SiblingLeaf(sib)}
    /\ nextNeeded' = nextNeeded \cup {idx \div 2}
    /\ UNCHANGED <<args, pc, store, height, level, realCount, off, sz, needed, paths, history>>

NextRealCount(count) == (count + 1) \div 2

(* The leaves of a level by offset, of which no two are the same. *)
Sorted(S) ==
    [i \in 1..Cardinality(S) |->
        CHOOSE x \in S : Cardinality({y \in S : y.offset < x.offset}) = i - 1]

(* The next row of the Merkle tree of Bitcoin: a last node without a sibling is
   paired with itself. *)
ParentRow(r, count) ==
    [i \in 1..((count + 1) \div 2) |->
        <<r[2 * i - 1], IF 2 * i <= count THEN r[2 * i] ELSE r[count]>>]

LeafAt(pathLevel, offset) ==
    pathLevel[CHOOSE i \in DOMAIN pathLevel : pathLevel[i].offset = offset]

(* What the holder of a leaf computes next from a level of the STUMP. *)
Climb(p, pathLevel) ==
    LET sib == LeafAt(pathLevel, Sibling(p.at))
    IN [at |-> p.at \div 2,
        hash |-> IF sib.duplicate THEN <<p.hash, p.hash>>
                 ELSE IF p.at % 2 = 0 THEN <<p.hash, sib.hash>> ELSE <<sib.hash, p.hash>>]

(* The end of a level. *)
FinishLevel ==
    /\ pc = "levels" /\ todo = {}
    /\ LET pathLevel == Sorted(pathLeaves)
       IN /\ paths' = [paths EXCEPT ![level + 1] = pathLevel]
          /\ proof' = [idx \in registered |-> Climb(proof[idx], pathLevel)]
    /\ row' = ParentRow(row, Len(row))
    /\ needed' = nextNeeded /\ todo' = nextNeeded
    /\ pathLeaves' = {} /\ nextNeeded' = {}
    /\ realCount' = NextRealCount(realCount)
    /\ level' = level + 1
    /\ off' = IF level = 0 THEN 0 ELSE off + sz
    /\ sz' = IF level = 0 THEN sz ELSE sz \div 2
    /\ pc' = IF level + 1 = treeHeight THEN "done" ELSE "levels"
    /\ UNCHANGED <<args, store, height>>

(* Build has returned. *)
Returned == pc = "done" /\ UNCHANGED vars

Next ==
    \/ nextPowerOfTwo \/ MakeStore \/ StoreNode \/ Call \/ CountHeight \/ Begin
    \/ (\E idx \in todo : AddIndex(idx)) \/ FinishLevel \/ Returned

Spec == Init /\ [][Next]_vars

-----------------------------------------------------------------------------
(* Properties.                                                             *)

Flagged(pathLevel) ==
    {pathLevel[i].offset : i \in {j \in DOMAIN pathLevel : pathLevel[j].txid}}

(***************************************************************************)
(* From the STUMP that Build returns, the holder of every registered leaf  *)
(* computes the Merkle root of the subtree, also when the number of leaves *)
(* is not a power of two, and the registered leaves are the flagged ones.  *)
(***************************************************************************)
StumpProves ==
    pc = "done" =>
        /\ Len(row) = 1
        /\ \A idx \in registered : proof[idx].hash = row[1]
        /\ treeHeight > 0 => Flagged(paths[1]) = registered
=============================================================================
