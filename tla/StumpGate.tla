----------------------------- MODULE StumpGate -----------------------------
(***************************************************************************)
(* The gate of internal/callback/delivery.go that orders STUMP before      *)
(* BLOCK_PROCESSED: a map from (blockHash, callbackURL) to a               *)
(* sync.WaitGroup.  A wait group outlives its entry in the map, because a  *)
(* goroutine may still hold it, so the gate is the map `at` into the       *)
(* sequence `count` of the counters of all wait groups made so far.        *)
(* sync.WaitGroup itself is external: a counter that may not go negative   *)
(* and that must still be zero when a released Wait returns.               *)
(***************************************************************************)
EXTENDS Integers, Sequences

NoGroup == 0

GateOfType(K) == [at : [K -> Nat], count : Seq(Int)]

newStumpGate(K) == [at |-> [k \in K |-> NoGroup], count |-> <<>>]

HasGroup(gate, k) == gate.at[k] # NoGroup

(* stumpGate.Add: creates the wait group of the key on first use. *)
GateAdd(gate, k) ==
    IF HasGroup(gate, k)
    THEN [gate EXCEPT !.count[gate.at[k]] = @ + 1]
    ELSE [gate EXCEPT !.at[k] = Len(gate.count) + 1, !.count = Append(@, 1)]

(* stumpGate.Done: no effect when the key has no wait group (any more). *)
GateDone(gate, k) ==
    IF HasGroup(gate, k) THEN [gate EXCEPT !.count[gate.at[k]] = @ - 1] ELSE gate

(* The wait group a Done on k releases the waiters of, or NoGroup. *)
Released(gate, k) ==
    IF HasGroup(gate, k) /\ gate.count[gate.at[k]] = 1 THEN gate.at[k] ELSE NoGroup

(* sync.WaitGroup panics when its counter goes negative. *)
DonePanics(gate, k) == HasGroup(gate, k) /\ gate.count[gate.at[k]] <= 0

(* The end of stumpGate.Wait: delete(g.gates, key). *)
GateDelete(gate, k) == [at |-> [gate.at EXCEPT ![k] = NoGroup], count |-> gate.count]
=============================================================================
