---------------------------- MODULE SeenCounter ----------------------------
(***************************************************************************)
(* What SeenCounterStore.Increment promises its callers                    *)
(* (internal/store/interfaces.go and the comments of its implementations): *)
(* the call records the subtree for the txid, and reports ThresholdReached *)
(* to the one caller whose subtree brings the number of distinct subtrees  *)
(* to the threshold.  Txids are independent, so one is modelled.           *)
(*                                                                         *)
(* A call that returns an error has had no effect, or its whole effect.    *)
(***************************************************************************)
EXTENDS Integers, FiniteSets

CONSTANTS
    Caller,     \* goroutines that call Increment for the txid
    Subtree,    \* subtree identifiers
    Threshold   \* the configured threshold

VARIABLES
    seen,       \* the distinct subtrees recorded
    fired,      \* the threshold has been reported, or its report was lost
    call,       \* the state of each caller
    reports     \* history: how many calls returned ThresholdReached

vars == <<seen, fired, call, reports>>

IdleCall == [pc |-> "idle"]
Pending(s) == [pc |-> "pending", subtree |-> s]
Returned(s, reached) == [pc |-> "returned", subtree |-> s, reached |-> reached]

Init ==
    /\ seen = {}
    /\ fired = FALSE
    /\ call = [c \in Caller |-> IdleCall]
    /\ reports = 0

Call(c, s) ==
    /\ call[c] = IdleCall
    /\ call' = [call EXCEPT ![c] = Pending(s)]
    /\ UNCHANGED <<seen, fired, reports>>

Reached(s) == ~fired /\ Cardinality(seen \cup {s}) >= Threshold

(* The call takes effect, at one instant, and returns. *)
Increment(c, s) ==
    /\ call[c] = Pending(s)
    /\ seen' = seen \cup {s}
    /\ fired' = (fired \/ Reached(s))
    /\ call' = [call EXCEPT ![c] = Returned(s, Reached(s))]
    /\ reports' = IF Reached(s) THEN reports + 1 ELSE reports

(* The call takes effect, but its caller gets an error. *)
IncrementLost(c, s) ==
    /\ call[c] = Pending(s)
    /\ seen' = seen \cup {s}
    /\ fired' = (fired \/ Reached(s))
    /\ call' = [call EXCEPT ![c] = Returned(s, FALSE)]
    /\ UNCHANGED reports

IncrementFails(c, s) ==
    /\ call[c] = Pending(s)
    /\ call' = [call EXCEPT ![c] = Returned(s, FALSE)]
    /\ UNCHANGED <<seen, fired, reports>>

Return(c) ==
    /\ call[c].pc = "returned"
    /\ call' = [call EXCEPT ![c] = IdleCall]
    /\ UNCHANGED <<seen, fired, reports>>

Next ==
    \E c \in Caller :
        \/ \E s \in Subtree : \/ Call(c, s) \/ Increment(c, s)
                              \/ IncrementLost(c, s) \/ IncrementFails(c, s)
        \/ Return(c)

Spec == Init /\ [][Next]_vars
=============================================================================
