------------------------ MODULE AerospikeSeenCounter ------------------------
(***************************************************************************)
(* Increment of internal/store/seen_counter.go: one atomic Operate that    *)
(* appends the subtree, reads the list size and reads the fired bin, then  *)
(* a separate Put of the fired bin.  Aerospike is external: an operation   *)
(* on a record is atomic, may fail without effect, or may take effect      *)
(* although the client gets an error (wp.MaxRetries repeats it, which an   *)
(* append of a unique value does not show).                                *)
(***************************************************************************)
EXTENDS Integers, FiniteSets

CONSTANTS
    Caller,     \* goroutines that call Increment for the txid
    Subtree,    \* subtree identifiers
    Threshold,  \* the configured threshold
    MaxFault    \* bound: failing operations

VARIABLES
    seen,       \* the list bin of distinct subtrees
    firedBin,   \* the fired bin
    op,         \* the callers
    reports,    \* history: how many calls returned ThresholdReached
    faults      \* what is left of the fault budget

vars == <<seen, firedBin, op, reports, faults>>

IdleOp == [pc |-> "idle"]

Init ==
    /\ seen = {}
    /\ firedBin = FALSE
    /\ op = [c \in Caller |-> IdleOp]
    /\ reports = 0
    /\ faults = MaxFault

At(c, pc) == op[c].pc = pc

Returns(c, reached) ==
    op' = [op EXCEPT ![c] = [pc |-> "returned", subtree |-> op[c].subtree, reached |-> reached]]

Call(c, s) ==
    /\ At(c, "idle")
    /\ op' = [op EXCEPT ![c] = [pc |-> "operate", subtree |-> s]]
    /\ UNCHANGED <<seen, firedBin, reports, faults>>

(* newSize >= s.threshold && !alreadyFired *)
Reaches(newSize) == newSize >= Threshold /\ ~firedBin

Operate(c) ==
    /\ At(c, "operate")
    /\ seen' = seen \cup {op[c].subtree}
    /\ IF Reaches(Cardinality(seen')) THEN op' = [op EXCEPT ![c].pc = "put"] ELSE Returns(c, FALSE)
    /\ UNCHANGED <<firedBin, reports, faults>>

(* Operate returns an error, with or without its effect on the list. *)
OperateFails(c) ==
    /\ At(c, "operate") /\ faults > 0
    /\ seen' \in {seen, seen \cup {op[c].subtree}}
    /\ Returns(c, FALSE)
    /\ faults' = faults - 1
    /\ UNCHANGED <<firedBin, reports>>

(* The Put that marks the threshold as fired; its error is ignored. *)
MarkFired(c) ==
    /\ At(c, "put")
    /\ \/ firedBin' = TRUE /\ faults' = faults
       \/ firedBin' = firedBin /\ faults > 0 /\ faults' = faults - 1
    /\ Returns(c, TRUE)
    /\ reports' = reports + 1
    /\ UNCHANGED seen

Return(c) ==
    /\ At(c, "returned")
    /\ op' = [op EXCEPT ![c] = IdleOp]
    /\ UNCHANGED <<seen, firedBin, reports, faults>>

Next ==
    \E c \in Caller :
        \/ \E s \in Subtree : Call(c, s)
        \/ Operate(c) \/ OperateFails(c) \/ MarkFired(c)
        \/ Return(c)

Spec == Init /\ [][Next]_vars

(***************************************************************************)
(* Properties.                                                             *)
(***************************************************************************)

(* The comment of Increment: ThresholdReached is true only once. *)
ReportedOnce == reports <= 1
=============================================================================
