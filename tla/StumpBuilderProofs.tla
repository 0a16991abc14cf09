------------------------- MODULE StumpBuilderProofs -------------------------
(***************************************************************************)
(* Build of internal/stump/builder.go, for every number of leaves, every   *)
(* set of registered leaves and every order in which Go ranges over its    *)
(* maps: from the STUMP the holder of a registered leaf computes the       *)
(* Merkle root.  f is the sequence of the powers of two up to nextPoT; the *)
(* level l has the f[Len(f) - l] nodes of its width, padding included.     *)
(***************************************************************************)
EXTENDS StumpBuilder, TLAPS

(* What the lemmas use of finite sets; it is proved at the end. *)
Distinct(S) == \A x, y \in S : x.offset \in Nat /\ (x.offset = y.offset => x = y)

SetFacts ==
    /\ IsFiniteSet({})
    /\ \A S, x : IsFiniteSet(S) => IsFiniteSet(S \cup {x})
    /\ \A S : IsFiniteSet(S) /\ Distinct(S) =>
                  {Sorted(S)[i] : i \in DOMAIN Sorted(S)} = S

-----------------------------------------------------------------------------
(* The inductive invariant.                                                *)

Powers(f) ==
    /\ f \in Seq(Nat) /\ Len(f) > 0 /\ f[1] = 1
    /\ \A i \in 1..Len(f) : f[i] > 0
    /\ \A i \in 1..(Len(f) - 1) : f[i + 1] = 2 * f[i]

(* nextPoT is the last power, and the height counts its halvings. *)
Sizes(f) ==
    /\ pc \in {"size", "store", "height", "levels", "done"}
    /\ Powers(f) /\ nextPoT = f[Len(f)]
    /\ nLeaves \in Nat /\ nLeaves > 0
    /\ pc # "size" => nextPoT >= nLeaves
    /\ pc \in {"size", "store"} => treeHeight = 0
    /\ pc = "height" => treeHeight \in 0..(Len(f) - 1) /\ half = f[Len(f) - treeHeight]
    /\ pc \in {"levels", "done"} => treeHeight = Len(f) - 1

(* Every node that is computed is the parent of its children. *)
Stored ==
    /\ built \in Nat
    /\ pc = "size" => built = 0
    /\ pc = "store" => built <= nextPoT - 1
    /\ pc \notin {"size", "store"} => built = nextPoT - 1
    /\ pc # "size" =>
           /\ internalNodes = [i \in 1..(nextPoT - 1) |-> internalNodes[i]]
           /\ \A j \in 0..(built - 1) :
                  internalNodes[j + 1] = Parent(Child(2 * j), Child(2 * j + 1))

Begun == pc \in {"levels", "done"}

Idle == ~Begun => level = 0 /\ off = 0 /\ pathLeaves = {} /\ nextNeeded = {}

Width(f) == f[Len(f) - level]

(* off and sz are what the loop of getNode computes for the level. *)
Located(f) ==
    Begun =>
        /\ level \in 0..treeHeight
        /\ pc = "done" <=> level = treeHeight
        /\ level = 0 => off = 0 /\ sz = nextPoT \div 2 /\ realCount = nLeaves
        /\ level > 0 => sz = Width(f) /\ off \in Nat /\ off + 2 * sz = nextPoT

(* The nodes of a level are those of the Merkle tree of Bitcoin, and behind the
   realCount of them is padding. *)
Rowed(f) ==
    Begun =>
        /\ realCount \in 1..Width(f)
        /\ row = [i \in 1..realCount |-> row[i]] /\ Len(row) = realCount
        /\ \A i \in 0..(realCount - 1) : row[i + 1] # <<>> /\ getNode(i) = row[i + 1]
        /\ \A i \in realCount..(Width(f) - 1) : getNode(i) = <<>>

(* The holder of a registered leaf has the node above it. *)
Held ==
    /\ pc \notin {"size", "store"} => registered \subseteq 0..(nLeaves - 1)
    /\ Begun =>
           /\ \A idx \in registered :
                  /\ proof[idx].at \in 0..(realCount - 1)
                  /\ proof[idx].hash = row[proof[idx].at + 1]
                  /\ level = 0 => proof[idx].at = idx
           /\ needed = {proof[idx].at : idx \in registered}

(* The leaf that belongs at an offset of the level. *)
Expected(o) ==
    IF o >= realCount THEN DuplicateLeaf(o) ELSE HashLeaf(o, row[o + 1], IsTxid(o))

(* The inner loop has added the siblings of the indices it has met. *)
Looped ==
    Begun =>
        /\ todo \subseteq needed
        /\ nextNeeded = {i \div 2 : i \in needed \ todo}
        /\ IsFiniteSet(pathLeaves)
        /\ \A x \in pathLeaves : x.offset \in Nat /\ x = Expected(x.offset)
        /\ \A i \in needed \ todo :
               Sibling(i) \in AddedOffsets /\ (level = 0 => i \in AddedOffsets)

Marked ==
    Begun =>
        /\ paths = [l \in 1..treeHeight |-> paths[l]]
        /\ level > 0 => Flagged(paths[1]) = registered

Inv(f) ==
    Sizes(f) /\ Stored /\ Idle /\ Located(f) /\ Rowed(f) /\ Held /\ Looped /\ Marked

-----------------------------------------------------------------------------
(* Sizes.                                                                  *)

(* nextPowerOfTwo appends a power to the sequence. *)
LEMMA OneMorePower ==
    ASSUME NEW f, Powers(f) PROVE Powers(Append(f, 2 * f[Len(f)]))
<1> DEFINE g == Append(f, 2 * f[Len(f)])
<1>1. f \in Seq(Nat) /\ Len(f) \in Nat /\ Len(f) > 0 /\ f[Len(f)] \in Nat /\ f[Len(f)] > 0
  BY DEF Powers
<1>2. g \in Seq(Nat) /\ Len(g) = Len(f) + 1 /\ g[Len(f) + 1] = 2 * f[Len(f)]
  BY <1>1
<1>3. \A i \in 1..Len(f) : g[i] = f[i]
  BY <1>1
<1> HIDE DEF g
<1>4. \A i \in 1..Len(g) : g[i] > 0
  <2> TAKE i \in 1..Len(g)
  <2>1. CASE i = Len(f) + 1
    BY <1>1, <1>2, <2>1
  <2>2. CASE i \in 1..Len(f)
    BY <1>3, <2>2 DEF Powers
  <2> QED BY <1>1, <1>2, <2>1, <2>2
<1>5. \A i \in 1..(Len(g) - 1) : g[i + 1] = 2 * g[i]
  <2> TAKE i \in 1..(Len(g) - 1)
  <2>1. CASE i = Len(f)
    BY <1>1, <1>2, <1>3, <2>1
  <2>2. CASE i \in 1..(Len(f) - 1)
    <3>1. i \in 1..Len(f) /\ i + 1 \in 1..Len(f)
      BY <1>1, <2>2
    <3>2. f[i + 1] = 2 * f[i]
      BY <2>2 DEF Powers
    <3> QED BY <1>3, <3>1, <3>2
  <2> QED BY <1>1, <1>2, <2>1, <2>2
<1>6. g[1] = 1
  BY <1>1, <1>3 DEF Powers
<1>7. Len(g) > 0
  BY <1>1, <1>2
<1>8. Powers(g)
  BY <1>2, <1>4, <1>5, <1>6, <1>7 DEF Powers
<1> QED BY <1>8 DEF g

(* A leaf or a pair is not the zero hash. *)
LEMMA NoZero == \A x, y : <<x>> # <<>> /\ <<x, y>> # <<>>
<1> TAKE x, y
<1>1. Len(<<x>>) = 1 /\ Len(<<x, y>>) = 2 /\ Len(<<>>) = 0
  OBVIOUS
<1> QED BY <1>1

(* Halving a power that is not 1 is exact and gives the one before it. *)
LEMMA Halves ==
    ASSUME NEW f, Powers(f), NEW i \in 1..Len(f)
    PROVE  /\ f[i] \in Nat /\ f[i] > 0
           /\ f[i] > 1 <=> i > 1
           /\ i > 1 => f[i - 1] = f[i] \div 2 /\ f[i] = 2 * f[i - 1] /\ f[i - 1] \in Nat
<1>1. f \in Seq(Nat) /\ Len(f) \in Nat /\ f[i] \in Nat /\ f[i] > 0
  BY DEF Powers
<1>2. CASE i = 1
  BY <1>1, <1>2 DEF Powers
<1>3. CASE i > 1
  <2>1. i - 1 \in 1..(Len(f) - 1) /\ i - 1 \in 1..Len(f) /\ (i - 1) + 1 = i
    BY <1>1, <1>3
  <2>2. f[i - 1] \in Nat /\ f[i - 1] > 0
    BY <1>1, <2>1, SMTT(30) DEF Powers
  <2>3. f[i] = 2 * f[i - 1]
    BY <2>1 DEF Powers
  <2> QED BY <1>1, <1>3, <2>2, <2>3, SMTT(30)
<1> QED BY <1>1, <1>2, <1>3

-----------------------------------------------------------------------------
(* Before the levels.                                                      *)

(* One more turn of the loop of nextPowerOfTwo. *)
LEMMA PowerStep ==
    ASSUME NEW f, Inv(f), nextPowerOfTwo PROVE Inv(Append(f, 2 * f[Len(f)]))'
<1> DEFINE g == Append(f, 2 * f[Len(f)])
<1>1. Powers(f) /\ pc = "size" /\ pc' = "size" /\ nextPoT' = 2 * f[Len(f)]
  BY DEF Inv, Sizes, nextPowerOfTwo
<1>2. Powers(g)
  BY <1>1, OneMorePower
<1>3. g[Len(g)] = 2 * f[Len(f)]
  BY <1>1 DEF Powers
<1> HIDE DEF g
<1>4. Sizes(g)'
  BY <1>1, <1>2, <1>3 DEF Inv, Sizes, nextPowerOfTwo, args, height, Powers
<1>5. Stored' /\ Idle' /\ Located(g)' /\ Rowed(g)' /\ Held' /\ Looped' /\ Marked'
  BY <1>1 DEF Inv, Stored, Idle, Located, Rowed, Held, Looped, Marked, Begun,
     nextPowerOfTwo, args, levels
<1> QED BY <1>4, <1>5 DEF Inv, g

(* go-subtree computes its nodes one after the other, from nodes it has already. *)
LEMMA StoreStep ==
    ASSUME NEW f, Inv(f), MakeStore \/ StoreNode PROVE Inv(f)'
<1>1. pc \in {"size", "store"} /\ pc' = "store"
  BY DEF MakeStore, StoreNode
<1>2. Sizes(f)'
  BY <1>1 DEF Inv, Sizes, MakeStore, StoreNode, args, height
<1>3. Idle' /\ Located(f)' /\ Rowed(f)' /\ Held' /\ Looped' /\ Marked'
  BY <1>1 DEF Inv, Idle, Located, Rowed, Held, Looped, Marked, Begun,
     MakeStore, StoreNode, args, levels
<1>4. nextPoT \in Nat /\ nextPoT > 0 /\ nextPoT' = nextPoT /\ nLeaves' = nLeaves
  BY DEF Inv, Sizes, Powers, MakeStore, StoreNode, args
<1>5. ASSUME MakeStore PROVE Stored'
  <2>1. built = 0 /\ built' = 0
    BY <1>5 DEF Inv, Stored, MakeStore
  <2>2. internalNodes' = [i \in 1..(nextPoT' - 1) |-> internalNodes'[i]]
    BY <1>4, <1>5, Zenon DEF MakeStore
  <2>3. 0..(built' - 1) = {}
    BY <2>1
  <2>4. built' \in Nat /\ built' <= nextPoT' - 1 /\ pc' # "size"
    BY <1>1, <1>4, <2>1
  <2>5. \A j \in 0..(built' - 1) : (internalNodes[j + 1] = Parent(Child(2 * j), Child(2 * j + 1)))'
    BY <2>3, Zenon
  <2> QED BY <1>1, <2>2, <2>4, <2>5, Zenon DEF Stored
<1>6. ASSUME StoreNode PROVE Stored'
  <2>1. /\ built \in Nat /\ built < nextPoT - 1 /\ built' = built + 1
        /\ internalNodes = [i \in 1..(nextPoT - 1) |-> internalNodes[i]]
        /\ internalNodes' = [internalNodes EXCEPT ![built + 1] =
                                 Parent(Child(2 * built), Child(2 * built + 1))]
    BY <1>6 DEF Inv, Stored, StoreNode
  <2>2. /\ \A k \in 1..(nextPoT - 1) : k # built + 1 => internalNodes'[k] = internalNodes[k]
        /\ internalNodes'[built + 1] = Parent(Child(2 * built), Child(2 * built + 1))
    BY <1>4, <2>1
  <2>3. ASSUME NEW j \in 0..(built' - 1)
        PROVE  (internalNodes[j + 1] = Parent(Child(2 * j), Child(2 * j + 1)))'
    <3>1. Child(2 * j)' = Child(2 * j) /\ Child(2 * j + 1)' = Child(2 * j + 1)
      <4>1. j \in Nat /\ j <= built
        BY <2>1
      <4>2. ASSUME NEW c \in Nat, c <= 2 * built + 1, c >= nextPoT
            PROVE  internalNodes'[c - nextPoT + 1] = internalNodes[c - nextPoT + 1]
        BY <1>4, <2>1, <2>2, <4>2, SMTT(30)
      <4>3. 2 * j \in Nat /\ 2 * j + 1 \in Nat /\ 2 * j <= 2 * built + 1 /\ 2 * j + 1 <= 2 * built + 1
        BY <2>1, <4>1, SMTT(30)
      <4> QED BY <1>4, <4>2, <4>3 DEF Child, leaves
    <3>2. CASE j = built
      BY <2>2, <3>1, <3>2
    <3>3. CASE j \in 0..(built - 1)
      <4>1. internalNodes[j + 1] = Parent(Child(2 * j), Child(2 * j + 1))
        BY <1>6, <3>3 DEF Inv, Stored, StoreNode
      <4>2. internalNodes'[j + 1] = internalNodes[j + 1]
        BY <1>4, <2>1, <2>2, <3>3
      <4> QED BY <3>1, <4>1, <4>2
    <3> QED BY <2>1, <3>2, <3>3
  <2>4. internalNodes' = [i \in 1..(nextPoT' - 1) |-> internalNodes'[i]]
    BY <1>4, <2>1, Zenon
  <2>5. built' \in Nat /\ built' <= nextPoT' - 1 /\ pc' # "size"
    BY <1>1, <1>4, <2>1
  <2> QED BY <1>1, <2>3, <2>4, <2>5, Zenon DEF Stored
<1> QED BY <1>2, <1>3, <1>5, <1>6 DEF Inv

(* The call of Build and the loop that counts the height. *)
LEMMA HeightStep ==
    ASSUME NEW f, Inv(f), Call \/ CountHeight PROVE Inv(f)'
<1>1. pc \in {"store", "height"} /\ pc' = "height" /\ nLeaves' = nLeaves /\ store' = store
  BY DEF Call, CountHeight, args
<1>2. Sizes(f)'
  <2>1. Powers(f) /\ Len(f) \in Nat /\ Len(f) > 0
    BY DEF Inv, Sizes, Powers
  <2>2. CASE Call
    BY <1>1, <2>1, <2>2 DEF Inv, Sizes, Call, store
  <2>3. CASE CountHeight
    <3>1. treeHeight \in 0..(Len(f) - 1) /\ half = f[Len(f) - treeHeight] /\ half > 1
      BY <2>3 DEF Inv, Sizes, CountHeight
    <3>2. Len(f) - treeHeight \in 1..Len(f)
      BY <2>1, <3>1
    <3>3. Len(f) - treeHeight > 1 /\ half \div 2 = f[(Len(f) - treeHeight) - 1]
      BY <2>1, <3>1, <3>2, Halves
    <3>4. treeHeight + 1 \in 0..(Len(f) - 1)
          /\ (Len(f) - treeHeight) - 1 = Len(f) - (treeHeight + 1)
      BY <2>1, <3>1, <3>3
    <3>5. treeHeight' = treeHeight + 1 /\ half' = f[Len(f) - treeHeight']
      BY <2>3, <3>3, <3>4 DEF CountHeight
    <3> QED BY <1>1, <2>1, <3>4, <3>5 DEF Inv, Sizes, store
  <2> QED BY <2>2, <2>3
<1>3. Stored'
  <2>1. built = nextPoT - 1
    BY DEF Inv, Stored, Call, CountHeight
  <2> QED BY <1>1, <2>1 DEF Inv, Stored, store, Child, leaves
<1>4. Held'
  BY <1>1 DEF Inv, Held, Begun, Call, CountHeight, args
<1>5. Idle' /\ Located(f)' /\ Rowed(f)' /\ Looped' /\ Marked'
  BY <1>1 DEF Inv, Idle, Located, Rowed, Looped, Marked, Begun, Call, CountHeight, levels
<1> QED BY <1>2, <1>3, <1>4, <1>5 DEF Inv

-----------------------------------------------------------------------------
(* The levels.                                                             *)

(* The outer loop begins with the leaves, each of which its holder has. *)
LEMMA BeginStep ==
    ASSUME SetFacts, NEW f, Inv(f), Begin PROVE Inv(f)'
<1>1. /\ pc = "height" /\ pc' \in {"levels", "done"} /\ (pc' = "done" <=> treeHeight = 0)
      /\ nLeaves' = nLeaves /\ registered' = registered
      /\ nextPoT' = nextPoT /\ internalNodes' = internalNodes /\ built' = built
      /\ treeHeight' = treeHeight /\ half' = half
      /\ level = 0 /\ level' = 0 /\ off = 0 /\ off' = 0
      /\ pathLeaves' = {} /\ nextNeeded' = {} /\ realCount' = nLeaves
  BY DEF Begin, Inv, Idle, Begun, args, store, height
<1>2. Powers(f) /\ Len(f) \in Nat /\ Len(f) > 0 /\ nextPoT = f[Len(f)] /\ nextPoT \in Nat
  BY DEF Inv, Sizes, Powers
<1>3. treeHeight = Len(f) - 1
  <2>1. treeHeight \in 0..(Len(f) - 1) /\ half = f[Len(f) - treeHeight] /\ half <= 1
    BY DEF Begin, Inv, Sizes
  <2>2. Len(f) - treeHeight \in 1..Len(f)
    BY <1>2, <2>1
  <2>3. /\ f[Len(f) - treeHeight] \in Nat
        /\ f[Len(f) - treeHeight] > 1 <=> Len(f) - treeHeight > 1
    BY <1>2, <2>2, Halves
  <2> QED BY <1>2, <2>1, <2>2, <2>3
<1>4. nLeaves \in Nat /\ nLeaves > 0 /\ nLeaves <= nextPoT
  BY <1>1, <1>2 DEF Inv, Sizes
<1>5. Sizes(f)' /\ Stored' /\ Idle'
  <2>1. Sizes(f)'
    BY <1>1, <1>2, <1>3, <1>4 DEF Sizes
  <2>2. Stored'
    BY <1>1, Zenon DEF Inv, Stored, Child, leaves
  <2> QED BY <1>1, <2>1, <2>2 DEF Idle, Begun
<1>6. Located(f)'
  BY <1>1, <1>2, <1>3 DEF Located, Begin
<1>7. Width(f)' = nextPoT
  BY <1>1, <1>2 DEF Width
<1>8. /\ row' = [i \in 1..nLeaves |-> leaves(i - 1)]
      /\ \A i \in 0..(nLeaves - 1) : row'[i + 1] = <<i + 1>> /\ leaves(i) = <<i + 1>>
      /\ \A i \in nLeaves..(nextPoT - 1) : leaves(i) = <<>>
  BY <1>2, <1>4, SMTT(30) DEF Begin, leaves
<1>9. Len(row') = nLeaves
  BY <1>4, <1>8
<1>10. \A i : getNode(i)' = leaves(i)
  BY <1>1 DEF getNode, leaves
<1>11. Rowed(f)'
  <2>1. realCount' \in 1..Width(f)'
    BY <1>1, <1>2, <1>4, <1>7
  <2>2. row' = [i \in 1..realCount' |-> row'[i]]
    BY <1>1, <1>8, Zenon
  <2>3. \A i \in 0..(realCount' - 1) : row'[i + 1] # <<>> /\ getNode(i)' = row'[i + 1]
    BY <1>1, <1>8, <1>10, NoZero, Zenon
  <2>4. \A i \in realCount'..(Width(f)' - 1) : getNode(i)' = <<>>
    BY <1>1, <1>7, <1>8, <1>10
  <2> QED BY <1>1, <1>9, <2>1, <2>2, <2>3, <2>4, Zenon DEF Rowed
<1>12. registered \subseteq 0..(nLeaves - 1)
  BY <1>1 DEF Inv, Held
<1>13. Held'
  <2>1. \A idx \in registered : proof'[idx].at = idx /\ proof'[idx].hash = leaves(idx)
    BY DEF Begin
  <2>2. needed' = {proof'[idx].at : idx \in registered}
    BY <2>1 DEF Begin
  <2> QED BY <1>1, <1>4, <1>8, <1>12, <2>1, <2>2 DEF Held
<1>14. Looped'
  BY <1>1 DEF Looped, SetFacts, Begin
<1>15. Marked'
  BY <1>1 DEF Marked, Begin
<1> QED BY <1>5, <1>6, <1>11, <1>13, <1>14, <1>15 DEF Inv

(* The index of the loop is that of a real node, and its sibling has an offset. *)
LEMMA RealIndex ==
    ASSUME NEW f, Inv(f), Begun, NEW idx \in needed
    PROVE  /\ realCount \in Nat /\ idx \in 0..(realCount - 1)
           /\ Sibling(idx) \in Nat
           /\ level = 0 => idx \in registered
<1>1. PICK k \in registered : idx = proof[k].at
  BY DEF Inv, Held
<1>2. realCount \in Nat
  BY DEF Inv, Rowed
<1>3. idx \in 0..(realCount - 1) /\ (level = 0 => idx \in registered)
  BY <1>1 DEF Inv, Held
<1>4. Sibling(idx) \in Nat
  BY <1>2, <1>3 DEF Sibling
<1> QED BY <1>2, <1>3, <1>4

(* The width of a level is a power of two, 1 at the top only. *)
LEMMA Widths ==
    ASSUME NEW f, Inv(f), Begun
    PROVE  /\ Powers(f) /\ Len(f) \in Nat /\ level \in Nat
           /\ Len(f) - level \in 1..Len(f)
           /\ treeHeight = Len(f) - 1 /\ level <= treeHeight
           /\ Width(f) \in Nat /\ Width(f) > 0
           /\ Width(f) > 1 <=> level < treeHeight
<1>1. Powers(f) /\ Len(f) \in Nat /\ Len(f) > 0
  BY DEF Inv, Sizes, Powers
<1>2. treeHeight = Len(f) - 1 /\ level \in 0..treeHeight
  BY DEF Inv, Sizes, Located, Begun
<1>3. Len(f) - level \in 1..Len(f)
  BY <1>1, <1>2
<1>4. /\ Width(f) \in Nat /\ Width(f) > 0
      /\ Width(f) > 1 <=> Len(f) - level > 1
  BY <1>1, <1>3, Halves DEF Width
<1> QED BY <1>1, <1>2, <1>3, <1>4

(* getNode finds every real node. *)
LEMMA NodeFound ==
    ASSUME NEW f, Inv(f), Begun, NEW i \in 0..(realCount - 1)
    PROVE  HasNode(i) /\ getNode(i) = row[i + 1]
<1>1. realCount \in Nat /\ realCount <= Width(f) /\ Width(f) \in Nat
  BY Widths DEF Inv, Rowed
<1>2. getNode(i) = row[i + 1]
  BY DEF Inv, Rowed
<1>3. CASE level = 0
  BY <1>1, <1>3, <1>2 DEF Inv, Located, HasNode
<1>4. CASE level # 0
  <2>1. sz = Width(f) /\ off \in Nat /\ off + 2 * sz = nextPoT
    BY <1>4 DEF Inv, Located
  <2>2. off + i < nextPoT - 1
    BY <1>1, <2>1
  <2> QED BY <1>2, <1>4, <2>2 DEF HasNode
<1> QED BY <1>3, <1>4

(* The sibling leaf is the one that belongs at its offset. *)
LEMMA SiblingExpected ==
    ASSUME NEW f, Inv(f), Begun, NEW o \in Nat
    PROVE  SiblingLeaf(o) = Expected(o)
<1>1. realCount \in Nat
  BY DEF Inv, Rowed
<1>2. CASE o >= realCount
  BY <1>2 DEF SiblingLeaf, Expected
<1>3. CASE o \in 0..(realCount - 1)
  <2>1. HasNode(o) /\ getNode(o) = row[o + 1]
    BY <1>3, NodeFound
  <2>2. ~(o >= realCount)
    BY <1>1, <1>3
  <2> QED BY <2>1, <2>2, Zenon DEF SiblingLeaf, Expected
<1> QED BY <1>1, <1>2, <1>3

(* So is the leaf of a registered txid. *)
LEMMA OwnExpected ==
    ASSUME NEW f, Inv(f), Begun, NEW idx \in needed
    PROVE  OwnLeaf(idx) \subseteq {Expected(idx)}
<1>1. CASE IsTxid(idx)
  <2>1. realCount \in Nat /\ idx \in 0..(realCount - 1) /\ level = 0
    BY <1>1, RealIndex DEF IsTxid
  <2>2. row[idx + 1] = leaves(idx)
    BY <2>1, NodeFound DEF getNode
  <2>3. ~(idx >= realCount)
    BY <2>1
  <2>4. IsTxid(idx) = TRUE
    BY <1>1 DEF IsTxid
  <2>5. Expected(idx) = HashLeaf(idx, leaves(idx), TRUE)
    BY <2>2, <2>3, <2>4, Zenon DEF Expected
  <2> QED BY <2>5, Zenon DEF OwnLeaf
<1>2. CASE ~IsTxid(idx)
  BY <1>2, Zenon DEF OwnLeaf
<1> QED BY <1>1, <1>2

(* The leaf that belongs at an offset has this offset. *)
LEMMA ExpectedOffset == \A o : Expected(o).offset = o
BY DEF Expected, DuplicateLeaf, HashLeaf

(* The body of the inner loop adds what belongs at the offsets of the index and
   of its sibling. *)
LEMMA AddStep ==
    ASSUME SetFacts, NEW f, Inv(f), NEW idx \in todo, AddIndex(idx) PROVE Inv(f)'
<1>1. /\ pc = "levels" /\ pc' = pc /\ Begun /\ Begun'
      /\ nLeaves' = nLeaves /\ registered' = registered
      /\ nextPoT' = nextPoT /\ internalNodes' = internalNodes /\ built' = built
      /\ treeHeight' = treeHeight /\ half' = half
      /\ level' = level /\ realCount' = realCount /\ off' = off /\ sz' = sz
      /\ needed' = needed /\ paths' = paths /\ row' = row /\ proof' = proof
  BY DEF AddIndex, args, store, height, history, Begun
<1>2. Sizes(f)' /\ Stored' /\ Idle' /\ Located(f)'
  BY <1>1, ZenonT(40) DEF Inv, Sizes, Stored, Idle, Located, Width, Child, leaves
<1>3. Rowed(f)' /\ Held' /\ Marked'
  <2>1. Rowed(f)'
    BY <1>1, Zenon DEF Inv, Rowed, Width, getNode, leaves
  <2>2. Held'
    BY <1>1, Zenon DEF Inv, Held
  <2>3. Marked'
    BY <1>1, Zenon DEF Inv, Marked
  <2> QED BY <2>1, <2>2, <2>3
<1> DEFINE sib == Sibling(idx)
<1>4. idx \in needed /\ idx \in 0..(realCount - 1) /\ sib \in Nat
      /\ (level = 0 => idx \in registered)
  BY <1>1, RealIndex DEF Inv, Looped
<1>5. OwnLeaf(idx) = {} \/ OwnLeaf(idx) = {Expected(idx)}
  BY <1>1, <1>4, OwnExpected
<1>6. SiblingLeaf(sib) = Expected(sib)
  BY <1>1, <1>4, SiblingExpected
<1> HIDE DEF sib
<1>7. pathLeaves' = IF sib \in AddedOffsets THEN pathLeaves \cup OwnLeaf(idx)
                    ELSE (pathLeaves \cup OwnLeaf(idx)) \cup {Expected(sib)}
  BY <1>6, Zenon DEF AddIndex, sib
<1>8. Looped'
  <2>1. todo' \subseteq needed' /\ nextNeeded' = {i \div 2 : i \in needed' \ todo'}
    BY <1>1, <1>4, Zenon DEF Inv, Looped, AddIndex
  <2>2. IsFiniteSet(pathLeaves')
    <3>1. IsFiniteSet(pathLeaves)
      BY <1>1 DEF Inv, Looped
    <3>2. IsFiniteSet(pathLeaves \cup OwnLeaf(idx))
      <4>1. CASE OwnLeaf(idx) = {}
        <5>1. pathLeaves \cup OwnLeaf(idx) = pathLeaves
          BY <4>1
        <5> QED BY <3>1, <5>1
      <4>2. CASE OwnLeaf(idx) = {Expected(idx)}
        BY <3>1, <4>2, Zenon DEF SetFacts
      <4> QED BY <1>5, <4>1, <4>2
    <3> QED BY <1>7, <3>2, Zenon DEF SetFacts
  <2>3. pathLeaves \subseteq pathLeaves' /\ AddedOffsets \subseteq AddedOffsets'
    BY <1>7, Zenon DEF AddedOffsets
  <2>4. \A o : Expected(o)' = Expected(o)
    BY <1>1, Zenon DEF Expected, DuplicateLeaf, HashLeaf, IsTxid
  <2>5. ASSUME NEW x \in pathLeaves' PROVE x.offset \in Nat /\ x = Expected(x.offset)
    <3>1. CASE x \in pathLeaves
      BY <1>1, <3>1, Zenon DEF Inv, Looped
    <3>2. CASE x = Expected(idx)
      BY <1>4, <3>2, ExpectedOffset
    <3>3. CASE x = Expected(sib)
      BY <1>4, <3>3, ExpectedOffset
    <3> QED BY <1>5, <1>7, <3>1, <3>2, <3>3, Zenon
  <2>6. sib \in AddedOffsets'
    <3>1. CASE sib \in AddedOffsets
      BY <2>3, <3>1
    <3>2. CASE sib \notin AddedOffsets
      BY <1>7, <3>2, ExpectedOffset, Zenon DEF AddedOffsets
    <3> QED BY <3>1, <3>2
  <2>7. level = 0 => idx \in AddedOffsets'
    <3>1. CASE idx \in AddedOffsets
      BY <2>3, <3>1
    <3>2. CASE idx \notin AddedOffsets /\ level = 0
      <4>1. OwnLeaf(idx) = {HashLeaf(idx, leaves(idx), TRUE)}
        BY <1>4, <3>2, Zenon DEF OwnLeaf, IsTxid
      <4>2. HashLeaf(idx, leaves(idx), TRUE) \in pathLeaves'
        BY <1>7, <4>1, Zenon
      <4> QED BY <4>2 DEF AddedOffsets, HashLeaf
    <3> QED BY <3>1, <3>2
  <2>8. ASSUME NEW i \in needed' \ todo'
        PROVE  Sibling(i) \in AddedOffsets' /\ (level' = 0 => i \in AddedOffsets')
    <3>1. CASE i = idx
      BY <1>1, <2>6, <2>7, <3>1, Zenon DEF sib
    <3>2. CASE i \in needed \ todo
      BY <1>1, <2>3, <3>2, Zenon DEF Inv, Looped
    <3> QED BY <1>1, <3>1, <3>2, Zenon DEF AddIndex
  <2> QED BY <1>1, <2>1, <2>2, <2>4, <2>5, <2>8, Zenon DEF Looped
<1> QED BY <1>2, <1>3, <1>8 DEF Inv

-----------------------------------------------------------------------------
(* The end of a level.                                                     *)

(* The sorted leaves of the level are those that the loop has added. *)
LEMMA SortedLevel ==
    ASSUME SetFacts, NEW f, Inv(f), Begun
    PROVE  {Sorted(pathLeaves)[i] : i \in DOMAIN Sorted(pathLeaves)} = pathLeaves
<1>1. IsFiniteSet(pathLeaves)
      /\ \A x \in pathLeaves : x.offset \in Nat /\ x = Expected(x.offset)
  BY DEF Inv, Looped
<1>2. Distinct(pathLeaves)
  BY <1>1, Zenon DEF Distinct
<1> QED BY <1>1, <1>2, Zenon DEF SetFacts

(* A reader finds the leaf that belongs at the offset of every sibling. *)
LEMMA ReadsExpected ==
    ASSUME SetFacts, NEW f, Inv(f), Begun, NEW o \in AddedOffsets
    PROVE  LeafAt(Sorted(pathLeaves), o) = Expected(o)
<1> DEFINE s == Sorted(pathLeaves)
<1>1. {s[i] : i \in DOMAIN s} = pathLeaves
  BY SortedLevel
<1>2. \A x \in pathLeaves : x = Expected(x.offset)
  BY DEF Inv, Looped
<1> HIDE DEF s
<1>3. \E i \in DOMAIN s : s[i].offset = o
  BY <1>1, Zenon DEF AddedOffsets
<1> DEFINE c == CHOOSE i \in DOMAIN s : s[i].offset = o
<1>4. c \in DOMAIN s /\ s[c].offset = o
  BY <1>3, Zenon
<1> HIDE DEF c
<1>5. s[c] \in pathLeaves
  BY <1>1, <1>4, Zenon
<1>6. s[c] = Expected(o)
  BY <1>2, <1>4, <1>5, Zenon
<1> QED BY <1>6, Zenon DEF LeafAt, s, c

(* A node of the next level is the parent of two nodes of this level, where getNode
   looks for it. *)
LEMMA NextNodes ==
    ASSUME NEW f, Inv(f), FinishLevel
    PROVE  /\ Width(f)' \in Nat /\ Width(f) = 2 * Width(f)'
           /\ level' > 0 /\ sz' = Width(f)' /\ off' \in Nat /\ off' + 2 * sz' = nextPoT
           /\ \A i \in 0..(Width(f)' - 1) :
                  getNode(i)' = Parent(getNode(2 * i), getNode(2 * i + 1))
<1>1. /\ pc = "levels" /\ Begun /\ level' = level + 1
      /\ nextPoT' = nextPoT /\ internalNodes' = internalNodes /\ nLeaves' = nLeaves
  BY DEF FinishLevel, Begun, store, args
<1>2. /\ Powers(f) /\ Len(f) \in Nat /\ level \in Nat
      /\ Len(f) - level \in 1..Len(f)
      /\ treeHeight = Len(f) - 1 /\ level <= treeHeight
      /\ Width(f) \in Nat /\ Width(f) > 0 
      /\ Width(f) > 1 <=> level < treeHeight
  BY <1>1, Widths
<1>3. level < treeHeight /\ Len(f) - level > 1
  BY <1>1, <1>2 DEF Inv, Located
<1>4. /\ f[(Len(f) - level) - 1] = f[Len(f) - level] \div 2
      /\ f[Len(f) - level] = 2 * f[(Len(f) - level) - 1]
      /\ f[(Len(f) - level) - 1] \in Nat
  BY <1>2, <1>3, Halves, Zenon
<1>5. Len(f) - level' = (Len(f) - level) - 1
  BY <1>1, <1>2
<1>6. Width(f)' \in Nat /\ Width(f) = 2 * Width(f)'
  BY <1>4, <1>5 DEF Width
<1>7. nextPoT \in Nat /\ built = nextPoT - 1
      /\ \A j \in 0..(nextPoT - 2) :
             internalNodes[j + 1] = Parent(Child(2 * j), Child(2 * j + 1))
  <2>1. nextPoT = f[Len(f)] /\ Len(f) \in 1..Len(f)
    BY <1>2 DEF Inv, Sizes
  <2>2. nextPoT \in Nat
    BY <1>2, <2>1, Halves
  <2>3. built = nextPoT - 1 /\ built - 1 = nextPoT - 2
    BY <1>1, <2>2 DEF Inv, Stored
  <2> QED BY <1>1, <2>2, <2>3 DEF Inv, Stored
<1>8. CASE level = 0
  <2>1. off' = 0 /\ sz' = nextPoT \div 2 /\ Width(f) = nextPoT
    BY <1>1, <1>2, <1>8 DEF FinishLevel, Inv, Located, Sizes, Width
  <2>2. sz' = Width(f)' /\ off' + 2 * sz' = nextPoT
    BY <1>6, <1>7, <2>1
  <2>3. ASSUME NEW i \in 0..(Width(f)' - 1)
        PROVE  getNode(i)' = Parent(getNode(2 * i), getNode(2 * i + 1))
    <3>1. i \in 0..(nextPoT - 2) /\ 2 * i < nextPoT /\ 2 * i + 1 < nextPoT
      BY <1>6, <1>7, <2>1
    <3>2. internalNodes[i + 1] = Parent(leaves(2 * i), leaves(2 * i + 1))
      BY <1>7, <3>1 DEF Child
    <3>3. getNode(i)' = internalNodes[i + 1]
      BY <1>1, <1>2, <2>1 DEF getNode
    <3> QED BY <1>8, <3>2, <3>3, Zenon DEF getNode
  <2> QED BY <1>1, <1>2, <1>6, <2>1, <2>2, <2>3
<1>9. CASE level > 0
  <2>1. sz = Width(f) /\ off \in Nat /\ off + 2 * sz = nextPoT
    BY <1>1, <1>9 DEF Inv, Located
  <2>2. PICK w \in Nat : w = Width(f)'
    BY <1>6
  <2>3. sz \in Nat /\ sz = 2 * w /\ off' = off + sz /\ sz' = sz \div 2
    BY <1>6, <1>9, <2>1, <2>2, SMTT(30) DEF FinishLevel
  <2>4. sz' = w /\ off' \in Nat /\ off' + 2 * sz' = nextPoT
    BY <2>1, <2>2, <2>3
  <2>5. ASSUME NEW i \in 0..(Width(f)' - 1)
        PROVE  getNode(i)' = Parent(getNode(2 * i), getNode(2 * i + 1))
    <3> DEFINE j == off + sz + i
    <3>1. j \in 0..(nextPoT - 2)
      BY <1>7, <2>1, <2>2, <2>3
    <3>2. /\ ~(2 * j < nextPoT) /\ ~(2 * j + 1 < nextPoT)
          /\ 2 * j - nextPoT + 1 = off + 2 * i + 1
          /\ (2 * j + 1) - nextPoT + 1 = off + (2 * i + 1) + 1
      BY <1>7, <2>1, <2>2, <2>3
    <3>3. off' + i + 1 = j + 1
      BY <2>1, <2>2, <2>3
    <3> HIDE DEF j
    <3>4. internalNodes[j + 1] =
              Parent(internalNodes[off + 2 * i + 1], internalNodes[off + (2 * i + 1) + 1])
      BY <1>7, <3>1, <3>2 DEF Child
    <3>5. getNode(i)' = internalNodes[j + 1]
      BY <1>1, <1>2, <3>3 DEF getNode
    <3>6. level # 0
      BY <1>9
    <3> QED BY <3>4, <3>5, <3>6, Zenon DEF getNode
  <2> QED BY <1>1, <1>2, <1>6, <2>2, <2>4, <2>5
<1> QED BY <1>2, <1>8, <1>9

(* Node i of the next level is above real nodes if it is below half of the real
   ones, rounded up, and above padding if not. *)
LEMMA Above ==
    ASSUME NEW c \in Nat, NEW r \in Nat, NEW w \in Nat, NEW i \in Nat,
           c = 2 * r \/ c = 2 * r - 1
    PROVE  /\ i < r => 2 * i \in 0..(c - 1)
           /\ r <= i /\ i < w => i \in 0..(w - 1) /\ 2 * i \in c..(2 * w - 1)
OBVIOUS

(* The next level has the next row of the Merkle tree, with padding behind it. *)
LEMMA NextRow ==
    ASSUME NEW f, Inv(f), FinishLevel
    PROVE  /\ realCount' \in 1..Width(f)'
           /\ row' = [i \in 1..realCount' |-> row'[i]] /\ Len(row') = realCount'
           /\ \A i \in 0..(realCount' - 1) :
                  /\ row'[i + 1] = <<row[2 * i + 1], IF 2 * i + 2 <= realCount
                                                    THEN row[2 * i + 2] ELSE row[realCount]>>
                  /\ row'[i + 1] # <<>> /\ getNode(i)' = row'[i + 1]
           /\ \A i \in realCount'..(Width(f)' - 1) : getNode(i)' = <<>>
<1>1. Begun /\ realCount' = (realCount + 1) \div 2
  BY DEF FinishLevel, Begun, NextRealCount
<1>2. /\ realCount \in Nat /\ realCount > 0 /\ realCount <= Width(f) /\ Len(row) = realCount
      /\ \A i \in 0..(realCount - 1) : row[i + 1] # <<>> /\ getNode(i) = row[i + 1]
      /\ \A i \in realCount..(Width(f) - 1) : getNode(i) = <<>>
  <2>1. Width(f) \in Nat
    BY <1>1, Widths
  <2> QED BY <1>1, <2>1 DEF Inv, Rowed
<1>3. PICK w \in Nat : w = Width(f)' /\ Width(f) = 2 * w
  BY NextNodes
<1>4. PICK r \in Nat : /\ r = realCount' /\ r > 0 /\ r <= w
                        /\ (realCount = 2 * r \/ realCount = 2 * r - 1)
  BY <1>1, <1>2, <1>3
<1>10. realCount \in Nat /\ realCount > 0 /\ realCount <= 2 * w
  BY <1>2, <1>3
<1>5. row' = [i \in 1..realCount' |->
                 <<row[2 * i - 1], IF 2 * i <= realCount THEN row[2 * i] ELSE row[realCount]>>]
  BY <1>1, <1>2, Zenon DEF FinishLevel, ParentRow
<1>6. row' = [i \in 1..realCount' |-> row'[i]]
  BY <1>5, Zenon
<1>7. Len(row') = realCount'
  BY <1>4, <1>5
<1>8. ASSUME NEW i \in 0..(realCount' - 1)
      PROVE  /\ row'[i + 1] = <<row[2 * i + 1], IF 2 * i + 2 <= realCount
                                               THEN row[2 * i + 2] ELSE row[realCount]>>
             /\ row'[i + 1] # <<>> /\ getNode(i)' = row'[i + 1]
  <2>1. /\ i + 1 \in 1..realCount' /\ 2 * (i + 1) - 1 = 2 * i + 1 /\ 2 * (i + 1) = 2 * i + 2
        /\ 2 * i \in 0..(realCount - 1) /\ i \in 0..(w - 1)
    <3>0. i \in 0..(r - 1)
      BY <1>4, Zenon
    <3>1. i \in Nat /\ i + 1 <= r
      BY <3>0
    <3>2. i + 1 \in 1..realCount' /\ i \in 0..(w - 1)
      BY <1>4, <3>1
    <3>3. 2 * (i + 1) - 1 = 2 * i + 1 /\ 2 * (i + 1) = 2 * i + 2
      BY <3>1
    <3>4. 2 * i \in 0..(realCount - 1)
      <4>1. i < r
        BY <3>1
      <4> QED BY <1>10, <1>4, <3>1, <4>1, Above, Zenon
    <3> QED BY <3>2, <3>3, <3>4
  <2>2. row'[i + 1] = <<row[2 * i + 1], IF 2 * i + 2 <= realCount
                                      THEN row[2 * i + 2] ELSE row[realCount]>>
    BY <1>5, <2>1
  <2>3. row'[i + 1] # <<>>
    BY <2>2, NoZero, Zenon
  <2>4. getNode(i)' = Parent(getNode(2 * i), getNode(2 * i + 1))
    BY <1>3, <2>1, NextNodes
  <2>5. getNode(2 * i) = row[2 * i + 1] /\ row[2 * i + 1] # <<>>
    BY <1>2, <2>1, ZenonT(40)
  <2>6. CASE 2 * i + 2 <= realCount
    <3>1. 2 * i + 1 \in 0..(realCount - 1) /\ (2 * i + 1) + 1 = 2 * i + 2
      BY <1>2, <2>1, <2>6
    <3>2. getNode(2 * i + 1) = row[2 * i + 2] /\ row[2 * i + 2] # <<>>
      BY <1>2, <3>1
    <3> QED BY <2>2, <2>3, <2>4, <2>5, <2>6, <3>2, Zenon DEF Parent
  <2>7. CASE ~(2 * i + 2 <= realCount)
    <3>1. 2 * i + 1 = realCount /\ 2 * i + 1 \in realCount..(Width(f) - 1)
      BY <1>2, <1>3, <2>1, <2>7
    <3>2. getNode(2 * i + 1) = <<>>
      BY <1>2, <3>1
    <3> QED BY <2>2, <2>3, <2>4, <2>5, <2>7, <3>1, <3>2, Zenon DEF Parent
  <2> QED BY <2>6, <2>7
<1>9. ASSUME NEW i \in realCount'..(Width(f)' - 1) PROVE getNode(i)' = <<>>
  <2>1. i \in 0..(w - 1) /\ 2 * i \in realCount..(Width(f) - 1)
    <3>0. i \in r..(w - 1)
      BY <1>3, <1>4, Zenon
    <3>1. i \in Nat /\ r <= i /\ i < w
      BY <3>0
    <3>2. i \in 0..(w - 1) /\ 2 * i \in realCount..(2 * w - 1)
      BY <1>10, <1>4, <3>1, Above, Zenon
    <3> QED BY <1>3, <3>2, Zenon
  <2>2. getNode(i)' = Parent(getNode(2 * i), getNode(2 * i + 1))
    BY <1>3, <2>1, NextNodes
  <2>3. getNode(2 * i) = <<>>
    BY <1>2, <2>1
  <2> QED BY <2>2, <2>3, Zenon DEF Parent
<1> QED BY <1>3, <1>4, <1>6, <1>7, <1>8, <1>9

(* With the leaf at the sibling's offset the holder of a node computes its parent. *)
LEMMA ClimbsToParent ==
    ASSUME SetFacts, NEW f, Inv(f), FinishLevel, NEW idx \in registered
    PROVE  /\ proof'[idx].at = proof[idx].at \div 2
           /\ proof'[idx].at \in 0..(realCount' - 1)
           /\ proof'[idx].hash = row'[proof'[idx].at + 1]
<1> DEFINE at == proof[idx].at
           sib == Sibling(at)
           x == LeafAt(Sorted(pathLeaves), sib)
<1>1. Begun /\ todo = {} /\ realCount' = (realCount + 1) \div 2
  BY DEF FinishLevel, Begun, NextRealCount
<1>2. realCount \in Nat /\ at \in 0..(realCount - 1) /\ proof[idx].hash = row[at + 1]
      /\ at \in needed
  BY <1>1 DEF Inv, Held, Rowed
<1>3. sib \in AddedOffsets
  BY <1>1, <1>2 DEF Inv, Looped
<1>4. x = Expected(sib)
  BY <1>1, <1>3, ReadsExpected
<1>5. /\ proof'[idx].at = at \div 2
      /\ proof'[idx].hash = IF x.duplicate THEN <<row[at + 1], row[at + 1]>>
                            ELSE IF at % 2 = 0 THEN <<row[at + 1], x.hash>>
                            ELSE <<x.hash, row[at + 1]>>
  BY <1>2, ZenonT(40) DEF FinishLevel, Climb
<1>6. /\ sib >= realCount => x.duplicate = TRUE
      /\ ~(sib >= realCount) => x.duplicate = FALSE /\ x.hash = row[sib + 1]
  BY <1>4 DEF Expected, DuplicateLeaf, HashLeaf
<1> HIDE DEF x
<1>7. at \div 2 \in 0..(realCount' - 1)
  BY <1>1, <1>2
<1>8. row'[at \div 2 + 1] =
          <<row[2 * (at \div 2) + 1], IF 2 * (at \div 2) + 2 <= realCount
                                     THEN row[2 * (at \div 2) + 2] ELSE row[realCount]>>
  BY <1>7, NextRow
<1>9. proof'[idx].hash = row'[at \div 2 + 1]
  <2>1. CASE at % 2 = 0
    <3>1. sib = at + 1 /\ 2 * (at \div 2) = at
      BY <1>2, <2>1 DEF Sibling
    <3>2. row'[at \div 2 + 1] =
              <<row[at + 1], IF at + 2 <= realCount THEN row[at + 2] ELSE row[realCount]>>
      BY <1>8, <3>1, ZenonT(40)
    <3>3. CASE sib >= realCount
      <4>1. ~(at + 2 <= realCount) /\ realCount = at + 1
        BY <1>2, <3>1, <3>3
      <4> QED BY <1>5, <1>6, <3>2, <3>3, <4>1, ZenonT(40)
    <3>4. CASE ~(sib >= realCount)
      <4>1. at + 2 <= realCount /\ sib + 1 = at + 2
        BY <1>2, <3>1, <3>4
      <4> QED BY <1>5, <1>6, <2>1, <3>2, <3>4, <4>1, ZenonT(40)
    <3> QED BY <3>3, <3>4
  <2>2. CASE at % 2 # 0
    <3>1. sib = at - 1 /\ 2 * (at \div 2) = at - 1
      BY <1>2, <2>2 DEF Sibling
    <3>2. /\ ~(sib >= realCount) /\ sib + 1 = at
          /\ 2 * (at \div 2) + 1 = at /\ 2 * (at \div 2) + 2 = at + 1 /\ at + 1 <= realCount
      BY <1>2, <3>1
    <3>3. row'[at \div 2 + 1] = <<row[at], row[at + 1]>>
      BY <1>8, <3>2
    <3> QED BY <1>5, <1>6, <2>2, <3>2, <3>3, ZenonT(40)
  <2> QED BY <2>1, <2>2
<1> QED BY <1>5, <1>7, <1>9

(* The flagged leaves of level 0 are the registered ones. *)
LEMMA FlagsLevel ==
    ASSUME SetFacts, NEW f, Inv(f), FinishLevel, level = 0
    PROVE  Flagged(Sorted(pathLeaves)) = registered
<1> DEFINE s == Sorted(pathLeaves)
<1>1. Begun /\ todo = {}
  BY DEF FinishLevel, Begun
<1>2. {s[i] : i \in DOMAIN s} = pathLeaves
  BY <1>1, SortedLevel
<1> HIDE DEF s
<1>3. Flagged(s) = {x.offset : x \in {y \in pathLeaves : y.txid}}
  BY <1>2, Zenon DEF Flagged
<1>4. realCount \in Nat /\ realCount = nLeaves
  BY <1>1 DEF Inv, Located, Rowed
<1>5. registered \subseteq 0..(nLeaves - 1)
  BY <1>1 DEF Inv, Held, Begun
<1>6. ASSUME NEW x \in pathLeaves, x.txid PROVE x.offset \in registered
  <2>1. x = Expected(x.offset)
    BY <1>1 DEF Inv, Looped
  <2>2. CASE x.offset >= realCount
    <3>1. x.txid = FALSE
      BY <2>1, <2>2 DEF Expected, DuplicateLeaf
    <3> QED BY <1>6, <3>1
  <2>3. CASE ~(x.offset >= realCount)
    <3>1. x = HashLeaf(x.offset, row[x.offset + 1], IsTxid(x.offset))
      BY <2>1, <2>3, Zenon DEF Expected
    <3>2. x.txid = IsTxid(x.offset)
      BY <3>1 DEF HashLeaf
    <3> QED BY <1>6, <3>2, Zenon DEF IsTxid
  <2> QED BY <2>2, <2>3
<1>7. ASSUME NEW idx \in registered
      PROVE  \E x \in pathLeaves : x.txid /\ x.offset = idx
  <2>1. idx \in needed
    BY <1>1 DEF Inv, Held
  <2>2. idx \in AddedOffsets
    BY <1>1, <2>1 DEF Inv, Looped
  <2>3. PICK x \in pathLeaves : x.offset = idx
    BY <2>2 DEF AddedOffsets
  <2>4. x = Expected(idx)
    BY <1>1, <2>3 DEF Inv, Looped
  <2>5. ~(idx >= realCount)
    BY <1>4, <1>5
  <2>6. IsTxid(idx)
    BY DEF IsTxid
  <2>7. x = HashLeaf(idx, row[idx + 1], IsTxid(idx))
    BY <2>4, <2>5, Zenon DEF Expected
  <2>8. x.txid = IsTxid(idx)
    BY <2>7 DEF HashLeaf
  <2> QED BY <2>3, <2>6, <2>8, Zenon
<1> QED BY <1>3, <1>6, <1>7, Zenon DEF s

(* The end of a level. *)
LEMMA FinishStep ==
    ASSUME SetFacts, NEW f, Inv(f), FinishLevel PROVE Inv(f)'
<1>1. /\ pc = "levels" /\ Begun /\ Begun' /\ level' = level + 1 /\ todo = {}
      /\ pc' = IF level + 1 = treeHeight THEN "done" ELSE "levels"
      /\ nextPoT' = nextPoT /\ internalNodes' = internalNodes /\ built' = built
      /\ nLeaves' = nLeaves /\ registered' = registered
      /\ treeHeight' = treeHeight /\ half' = half
  BY DEF FinishLevel, Begun, store, args, height
<1>2. level \in Nat /\ treeHeight \in Nat /\ level < treeHeight
  BY <1>1, Widths, SMTT(30) DEF Inv, Located
<1>3. Sizes(f)'
  BY <1>1 DEF Inv, Sizes
<1>4. Stored'
  BY <1>1, Zenon DEF Inv, Stored, Child, leaves
<1>5. Idle'
  BY <1>1, Zenon DEF Idle
<1>6. Located(f)'
  <2>1. level' \in 0..treeHeight' /\ (pc' = "done" <=> level' = treeHeight') /\ level' # 0
    BY <1>1, <1>2
  <2> QED BY <1>1, <2>1, NextNodes, Zenon DEF Located
<1>7. Rowed(f)'
  BY NextRow, Zenon DEF Rowed
<1>8. Held'
  <2>1. registered' \subseteq 0..(nLeaves' - 1)
    BY <1>1 DEF Inv, Held
  <2>2. level' # 0
    BY <1>1, <1>2
  <2>3. nextNeeded = {i \div 2 : i \in needed} /\ needed = {proof[idx].at : idx \in registered}
    BY <1>1 DEF Inv, Looped, Held
  <2>4. needed' = {proof'[idx].at : idx \in registered}
    <3>1. needed' = {i \div 2 : i \in needed}
      BY <2>3 DEF FinishLevel
    <3>2. needed' = {proof[idx].at \div 2 : idx \in registered}
      BY <2>3, <3>1, Zenon
    <3>3. \A idx \in registered : proof'[idx].at = proof[idx].at \div 2
      BY ClimbsToParent
    <3> QED BY <3>2, <3>3, Zenon
  <2>5. \A idx \in registered : /\ proof'[idx].at \in 0..(realCount' - 1)
                                /\ proof'[idx].hash = row'[proof'[idx].at + 1]
    BY ClimbsToParent
  <2> QED BY <1>1, <2>1, <2>2, <2>4, <2>5, ZenonT(40) DEF Held
<1>9. Looped'
  BY DEF FinishLevel, Looped, SetFacts
<1>10. Marked'
  <2>1. paths = [l \in 1..treeHeight |-> paths[l]]
        /\ paths' = [paths EXCEPT ![level + 1] = Sorted(pathLeaves)]
    BY <1>1, Zenon DEF Inv, Marked, FinishLevel
  <2>2. paths' = [l \in 1..treeHeight' |-> paths'[l]]
    BY <1>1, <2>1, Zenon
  <2>3. 1 \in 1..treeHeight
    BY <1>2
  <2>4. CASE level = 0
    <3>1. paths'[1] = Sorted(pathLeaves)
      BY <2>1, <2>3, <2>4
    <3>2. Flagged(paths'[1]) = registered'
      BY <1>1, <2>4, <3>1, FlagsLevel, Zenon
    <3> QED BY <2>2, <3>2, Zenon DEF Marked
  <2>5. CASE level > 0
    <3>1. paths'[1] = paths[1]
      BY <1>2, <2>1, <2>3, <2>5
    <3>2. Flagged(paths'[1]) = registered'
      BY <1>1, <2>5, <3>1, Zenon DEF Inv, Marked
    <3> QED BY <2>2, <3>2, Zenon DEF Marked
  <2> QED BY <1>2, <2>4, <2>5
<1> QED BY <1>3, <1>4, <1>5, <1>6, <1>7, <1>8, <1>9, <1>10 DEF Inv

-----------------------------------------------------------------------------
(* The invariant.                                                          *)

(* Before anything is computed the one power is 1. *)
LEMMA BuildInit ==
    ASSUME SetFacts, Init PROVE Inv(<<1>>)
<1>1. Powers(<<1>>)
  BY DEF Powers
<1>2. nLeaves \in Nat /\ nLeaves > 0
  BY LeavesAssumption DEF Init
<1>3. Sizes(<<1>>)
  BY <1>1, <1>2 DEF Init, Sizes
<1>4. Stored /\ Idle /\ Located(<<1>>) /\ Rowed(<<1>>) /\ Held /\ Looped /\ Marked
  BY DEF Init, Stored, Idle, Located, Rowed, Held, Looped, Marked, Begun
<1> QED BY <1>3, <1>4 DEF Inv

(* Every step of go-subtree and of Build preserves the invariant; the loop of
   nextPowerOfTwo makes the sequence of powers longer. *)
LEMMA BuildStep ==
    ASSUME SetFacts, NEW f, Inv(f), [Next]_vars PROVE \E g : Inv(g)'
<1>1. CASE nextPowerOfTwo
  BY <1>1, PowerStep, Zenon
<1>2. CASE MakeStore \/ StoreNode
  BY <1>2, StoreStep, Zenon
<1>3. CASE Call \/ CountHeight
  BY <1>3, HeightStep, Zenon
<1>4. CASE Begin
  BY <1>4, BeginStep, Zenon
<1>5. CASE \E idx \in todo : AddIndex(idx)
  BY <1>5, AddStep, Zenon
<1>6. CASE FinishLevel
  BY <1>6, FinishStep, Zenon
<1>7. CASE UNCHANGED vars
  <2>1. /\ pc' = pc /\ nLeaves' = nLeaves /\ registered' = registered
        /\ nextPoT' = nextPoT /\ internalNodes' = internalNodes /\ built' = built
        /\ treeHeight' = treeHeight /\ half' = half
        /\ level' = level /\ realCount' = realCount /\ off' = off /\ sz' = sz
        /\ needed' = needed /\ todo' = todo /\ pathLeaves' = pathLeaves
        /\ nextNeeded' = nextNeeded /\ paths' = paths /\ row' = row /\ proof' = proof
    BY <1>7 DEF vars, args, store, height, levels, history
  <2>2. Sizes(f)' /\ Stored' /\ Idle' /\ Located(f)'
    BY <2>1, ZenonT(40) DEF Inv, Sizes, Stored, Idle, Begun, Located, Width, Child, leaves
  <2>3. Rowed(f)'
    BY <2>1, Zenon DEF Inv, Rowed, Begun, Width, getNode, leaves
  <2>4. Held' /\ Marked'
    BY <2>1, Zenon DEF Inv, Held, Marked, Begun
  <2>5. Looped'
    BY <2>1, Zenon DEF Inv, Looped, Begun, AddedOffsets, Expected, DuplicateLeaf, HashLeaf, IsTxid
  <2>6. Inv(f)'
    BY <2>2, <2>3, <2>4, <2>5, Zenon DEF Inv
  <2> QED BY <2>6, Zenon
<1> QED BY <1>1, <1>2, <1>3, <1>4, <1>5, <1>6, <1>7, Zenon DEF Next, Returned

(* When Build returns, the level has one node, the root, and every holder has it. *)
LEMMA InvProves ==
    ASSUME NEW f, Inv(f) PROVE StumpProves
<1> SUFFICES ASSUME pc = "done"
             PROVE  /\ Len(row) = 1
                    /\ \A idx \in registered : proof[idx].hash = row[1]
                    /\ treeHeight > 0 => Flagged(paths[1]) = registered
  BY DEF StumpProves
<1>1. Begun /\ level = treeHeight
  BY DEF Begun, Inv, Located
<1>2. Width(f) \in Nat /\ ~(Width(f) > 1) /\ treeHeight \in Nat
  BY <1>1, Widths
<1>3. realCount = 1 /\ Len(row) = realCount
  BY <1>1, <1>2 DEF Inv, Rowed
<1>4. ASSUME NEW idx \in registered PROVE proof[idx].hash = row[1]
  <2>1. proof[idx].at \in 0..0 /\ proof[idx].hash = row[proof[idx].at + 1]
    BY <1>1, <1>3 DEF Inv, Held
  <2> QED BY <2>1
<1>5. treeHeight > 0 => Flagged(paths[1]) = registered
  BY <1>1 DEF Inv, Marked
<1> QED BY <1>3, <1>4, <1>5

-----------------------------------------------------------------------------
(* Sorting.                                                                *)

FST == INSTANCE FiniteSetTheorems

(* Every leaf of a level is in the sorted sequence, and nothing else is: the number
   of leaves before it is a bijection of the level and the positions. *)
LEMMA SortsAll ==
    ASSUME NEW S, IsFiniteSet(S), Distinct(S)
    PROVE  {Sorted(S)[i] : i \in DOMAIN Sorted(S)} = S
<1> DEFINE Before(x) == {y \in S : y.offset < x.offset}
           n == Cardinality(S)
           rank == [x \in S |-> Cardinality(Before(x))]
<1>1. /\ \A T : Cardinality(T) = FST!Cardinality(T)
      /\ \A T : IsFiniteSet(T) <=> FST!IsFiniteSet(T)
  BY Zenon DEF Cardinality, FST!Cardinality, IsFiniteSet, FST!IsFiniteSet
<1>2. n \in Nat
  BY <1>1, FST!FS_CardinalityType, ZenonT(40)
<1>3. ASSUME NEW T, IsFiniteSet(T), NEW U \in SUBSET T
      PROVE  /\ IsFiniteSet(U) /\ Cardinality(U) \in Nat /\ Cardinality(T) \in Nat
             /\ Cardinality(U) <= Cardinality(T)
             /\ Cardinality(T) = Cardinality(U) => T = U
  BY <1>1, <1>3, FST!FS_Subset, FST!FS_CardinalityType, ZenonT(40)
<1>4. \A x \in S : Before(x) \in SUBSET S /\ x \notin Before(x)
  BY DEF Distinct
<1>5. \A x \in S : rank[x] \in 0..(n - 1)
  <2> TAKE x \in S
  <2>1. Cardinality(Before(x)) \in Nat /\ Cardinality(Before(x)) <= n
        /\ (n = Cardinality(Before(x)) => S = Before(x))
    BY <1>3, <1>4, Zenon
  <2>2. S # Before(x)
    BY <1>4, Zenon
  <2>3. rank[x] = Cardinality(Before(x))
    BY Zenon
  <2> HIDE DEF n, rank, Before
  <2> QED BY <1>2, <2>1, <2>2, <2>3
<1>6. ASSUME NEW x \in S, NEW y \in S, x.offset < y.offset PROVE rank[x] # rank[y]
  <2>1. x.offset \in Nat /\ y.offset \in Nat
    BY DEF Distinct
  <2>2. Before(x) \in SUBSET Before(y) /\ x \in Before(y) /\ x \notin Before(x)
    <3>1. \A z \in S : z.offset \in Nat
      BY DEF Distinct
    <3> QED BY <1>6, <2>1, <3>1
  <2>3. IsFiniteSet(Before(y))
    BY <1>3, <1>4, Zenon
  <2>4. Cardinality(Before(y)) # Cardinality(Before(x))
    BY <1>3, <2>2, <2>3, Zenon
  <2> QED BY <2>4, Zenon
<1>7. \A x, y \in S : rank[x] = rank[y] => x = y
  <2> TAKE x, y \in S
  <2>1. x.offset \in Nat /\ y.offset \in Nat /\ (x.offset = y.offset => x = y)
    BY DEF Distinct
  <2>2. x.offset < y.offset \/ y.offset < x.offset \/ x.offset = y.offset
    BY <2>1
  <2> QED BY <1>6, <2>1, <2>2, ZenonT(40)
<1>8. \A k \in 0..(n - 1) : \E x \in S : rank[x] = k
  <2>1. rank \in [S -> 0..(n - 1)]
    BY <1>5, Zenon
  <2>2. rank \in FST!Injection(S, 0..(n - 1))
    BY <1>7, <2>1, Zenon DEF FST!Injection, FST!IsInjective
  <2>3. FST!IsFiniteSet(0..(n - 1)) /\ FST!Cardinality(0..(n - 1)) = n
    <3>1. 0 \in Int /\ n - 1 \in Int /\ (0 > n - 1 => n = 0) /\ (~(0 > n - 1) => (n - 1) - 0 + 1 = n)
      BY <1>2
    <3> QED BY <3>1, FST!FS_Interval, ZenonT(40)
  <2>4. rank \in FST!Surjection(S, 0..(n - 1))
    BY <1>1, <2>2, <2>3, FST!FS_Injection, ZenonT(40)
  <2> QED BY <2>4, Zenon DEF FST!Surjection
<1>9. DOMAIN Sorted(S) = 1..n
      /\ \A i \in 1..n : Sorted(S)[i] = CHOOSE x \in S : Cardinality(Before(x)) = i - 1
  BY Zenon DEF Sorted
<1>10. ASSUME NEW i \in 1..n
       PROVE  Sorted(S)[i] \in S /\ Cardinality(Before(Sorted(S)[i])) = i - 1
  <2>1. i - 1 \in 0..(n - 1)
    BY <1>2
  <2>2. \E x \in S : Cardinality(Before(x)) = i - 1
    BY <1>8, <2>1, Zenon
  <2> QED BY <1>9, <2>2, Zenon
<1>11. ASSUME NEW x \in S PROVE \E i \in 1..n : Sorted(S)[i] = x
  <2>1. PICK i \in 1..n : rank[x] = i - 1
    <3>1. rank[x] \in 0..(n - 1)
      BY <1>5
    <3> HIDE DEF rank, n
    <3>2. rank[x] + 1 \in 1..n /\ rank[x] = (rank[x] + 1) - 1
      BY <1>2, <3>1
    <3> QED BY <3>2
  <2>2. Sorted(S)[i] \in S /\ rank[Sorted(S)[i]] = i - 1
    BY <1>10, Zenon
  <2> QED BY <1>7, <2>1, <2>2, ZenonT(40)
<1> QED BY <1>9, <1>10, <1>11, Zenon

(* The facts on finite sets that the lemmas use. *)
LEMMA Facts == SetFacts
<1>1. /\ \A T : IsFiniteSet(T) <=> FST!IsFiniteSet(T)
  BY Zenon DEF IsFiniteSet, FST!IsFiniteSet
<1>2. IsFiniteSet({})
  BY <1>1, FST!FS_EmptySet, Zenon
<1>3. \A S, x : IsFiniteSet(S) => IsFiniteSet(S \cup {x})
  BY <1>1, FST!FS_AddElement, ZenonT(40)
<1> QED BY <1>2, <1>3, SortsAll, Zenon DEF SetFacts

(***************************************************************************)
(* Build is sound: with the STUMP it returns, the holder of every          *)
(* registered leaf computes the Merkle root of the subtree, and the        *)
(* registered leaves are the flagged ones; for every number of leaves, not *)
(* only powers of two, every non-empty set of registered ones, and every   *)
(* order of the map iterations.                                            *)
(***************************************************************************)
THEOREM BuildProves == Spec => []StumpProves
<1>1. Init => \E f : Inv(f)
  BY Facts, BuildInit, Zenon
<1>2. (\E f : Inv(f)) /\ [Next]_vars => (\E f : Inv(f))'
  BY Facts, BuildStep, Zenon
<1>3. (\E f : Inv(f)) => StumpProves
  BY InvProves, Zenon
<1> QED BY <1>1, <1>2, <1>3, PTL DEF Spec
=============================================================================
