------------------------ MODULE MCCallbackDelivery ------------------------
(* Instances of CallbackDelivery for TLC. *)
EXTENDS CallbackDelivery, TLC

CONSTANTS p1, u1, b1, w1, w2

stump(u, i, r) == [type |-> "STUMP", url |-> u, block |-> b1, index |-> i, retry |-> r]
blockProcessed(u) == [type |-> "BLOCK_PROCESSED", url |-> u, block |-> b1, index |-> 0, retry |-> 0]

(* One URL: two STUMPs, then the BLOCK_PROCESSED of their block. *)
OneUrl == p1 :> <<stump(u1, 0, 0), stump(u1, 1, 0), blockProcessed(u1)>>

(* One STUMP and its BLOCK_PROCESSED. *)
OneStump == p1 :> <<stump(u1, 0, 0), blockProcessed(u1)>>

(* A re-driven STUMP, another STUMP, and a retry left on the topic by an
   earlier release of the service. *)
Mixed == p1 :> <<stump(u1, 0, 0), stump(u1, 1, 1), stump(u1, 0, 0)>>

Workers == Permutations({w1, w2})
=============================================================================
