-------------------------- MODULE MCSubtreeFetcher --------------------------
(* Instances of SubtreeFetcher for TLC. *)
EXTENDS SubtreeFetcher, TLC

CONSTANTS s1, s2, s3, t1, u1, p1, p2

(* t1 is in two subtrees, which are on different partitions; the third
   subtree has no transactions. *)
SeenTwice == (s1 :> {t1}) @@ (s2 :> {t1}) @@ (s3 :> {})
TwoPartitions == (s1 :> p1) @@ (s2 :> p2) @@ (s3 :> p1)

OneWatched == {<<t1, u1>>}
=============================================================================
