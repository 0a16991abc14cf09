----------------------------- MODULE DedupCache -----------------------------
(***************************************************************************)
(* The bounded set of processed hashes of internal/cache/dedup_cache.go,   *)
(* as the sequence of its keys with the most recently added one first.     *)
(* Every operation holds the cache's mutex, so each is one step.           *)
(***************************************************************************)
EXTENDS Integers, Sequences

Capacity(maxSize) == IF maxSize <= 0 THEN 1 ELSE maxSize

Contains(cache, key) == \E n \in 1..Len(cache) : cache[n] = key

PositionOf(cache, key) == CHOOSE n \in 1..Len(cache) : cache[n] = key

(* A key that is present moves to the front, a new one evicts the oldest. *)
Add(cache, maxSize, key) ==
    <<key>> \o
    IF Contains(cache, key)
    THEN LET n == PositionOf(cache, key)
         IN  SubSeq(cache, 1, n - 1) \o SubSeq(cache, n + 1, Len(cache))
    ELSE IF Len(cache) < Capacity(maxSize)
         THEN cache
         ELSE SubSeq(cache, 1, Capacity(maxSize) - 1)
=============================================================================
