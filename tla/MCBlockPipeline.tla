-------------------------- MODULE MCBlockPipeline ---------------------------
(***************************************************************************)
(* Instances of BlockPipeline for TLC.                                     *)
(***************************************************************************)
EXTENDS BlockPipeline, TLC

CONSTANTS b1, b2, u1, u2, p1, p2, q1, q2

(* One block of two subtrees in different partitions; u1 has a registered
   txid in both, u2 in the second only. *)
OneCount == b1 :> 2
OneHeight == b1 :> 1
OnePartitionOf == (<<b1, 0>> :> p1) @@ (<<b1, 1>> :> p2)
OneRegistered == (<<b1, 0>> :> {u1}) @@ (<<b1, 1>> :> {u1, u2})

(* One block of three subtrees, two of them in one partition: the offset of
   the first can be committed before the second is redelivered. *)
ThreeCount == b1 :> 3
ThreeHeight == b1 :> 1
ThreePartitionOf ==
    (<<b1, 0>> :> p1) @@ (<<b1, 1>> :> p1) @@ (<<b1, 2>> :> p2)
ThreeRegistered ==
    (<<b1, 0>> :> {}) @@ (<<b1, 1>> :> {u1}) @@ (<<b1, 2>> :> {u1})

(* Two blocks at successive heights, the second with one subtree.  Either a
   subtree with registered txids or one without finishes the first block. *)
TwoCount == (b1 :> 2) @@ (b2 :> 1)
TwoHeight == (b1 :> 1) @@ (b2 :> 2)
TwoPartitionOf ==
    (<<b1, 0>> :> p1) @@ (<<b1, 1>> :> p2) @@ (<<b2, 0>> :> p1)
TwoRegistered ==
    (<<b1, 0>> :> {u1}) @@ (<<b1, 1>> :> {}) @@ (<<b2, 0>> :> {})

NoRealtime == {}
OneRealtime == {<<b1, 0>>}

(* All-in-one: every component in one process.  Microservice: the block
   processor in one, each worker in another. *)
AllInOne == (p1 :> q1) @@ (p2 :> q1)
PerPod == (p1 :> q1) @@ (p2 :> q2)
=============================================================================
