--------------------------- MODULE MCCacheBucket ---------------------------
(* An instance of CacheBucket for TLC. *)
EXTENDS CacheBucket, TLC

CONSTANTS k1, k2, k3, k4

(* k1 and k2 collide (k2 is only read), k3 is one byte longer, k4 does not fit
   into a chunk; k1 is stored with two values. *)
Collide == (k1 :> 1) @@ (k2 :> 1) @@ (k3 :> 2) @@ (k4 :> 2)
Lengths == (k1 :> 1) @@ (k2 :> 1) @@ (k3 :> 2) @@ (k4 :> 9)
Inputs == {<<k1, 0>>, <<k3, 0>>}
Batches == {<<<<k1, 1>>, <<k3, 0>>>>, <<<<k4, 0>>, <<k1, 0>>>>}
=============================================================================
