--------------------------- MODULE SQLSeenCounter ---------------------------
(***************************************************************************)
(* Increment of internal/store/sql/seen_counter.go: one transaction of     *)
(* five statements, run by concurrent callers.  Statements take effect one *)
(* by one and see committed rows and the transaction's own.                *)
(*                                                                         *)
(* The databases are external.  PostgreSQL runs the transaction at READ    *)
(* COMMITTED: an INSERT waits for an uncommitted insertion of the same     *)
(* key, SELECT .. FOR UPDATE waits for the row lock.  SQLite takes its     *)
(* single write lock with the first INSERT and holds it to the end.        *)
(***************************************************************************)
EXTENDS Integers, FiniteSets

CONSTANTS
    Caller,     \* goroutines that call Increment for the txid
    Subtree,    \* subtree identifiers
    Threshold,  \* the configured threshold
    Postgres,   \* BOOLEAN: the dialect
    MaxFault    \* bound: failing statements and commits

ASSUME SQLSeenAssumption ==
    /\ IsFiniteSet(Subtree)
    /\ Threshold \in Nat
    /\ Postgres \in BOOLEAN
    /\ MaxFault \in Nat

VARIABLES
    counters,   \* BOOLEAN: the txid's row of seen_counters is committed
    seen,       \* its committed rows of seen_counter_subtrees
    fired,      \* the committed threshold_fired of the row
    lock,       \* holder of the row lock (SQLite: of the write lock)
    tx,         \* the callers and their transactions
    reports,    \* history: how many calls returned ThresholdReached
    faults      \* what is left of the fault budget

vars == <<counters, seen, fired, lock, tx, reports, faults>>

Free == {}

IdleTx == [pc |-> "idle"]

InTx == {"counter", "subtree", "count", "flag", "commit"}

OpenTx == [pc : InTx, subtree : Subtree, inserted : BOOLEAN, count : Nat, reached : BOOLEAN]

EndedTx == [pc : {"returned"}, subtree : Subtree, reached : BOOLEAN]

Init ==
    /\ counters = FALSE
    /\ seen = {}
    /\ fired = FALSE
    /\ lock = Free
    /\ tx = [c \in Caller |-> IdleTx]
    /\ reports = 0
    /\ faults = MaxFault

At(c, pc) == tx[c].pc = pc

BeginTx(c, s) ==
    /\ At(c, "idle")
    /\ tx' = [tx EXCEPT ![c] = [pc |-> "counter", subtree |-> s, inserted |-> FALSE,
                                count |-> 0, reached |-> FALSE]]
    /\ UNCHANGED <<counters, seen, fired, lock, reports, faults>>

(* Has the lock the statement needs, or takes it while nobody holds it. *)
Locks(c) == lock \in {Free, {c}} /\ lock' = {c}

(* An open transaction holds an uncommitted row of seen_counters. *)
Inserting(c) == tx[c].pc \in InTx /\ tx[c].inserted

(* An open transaction holds an uncommitted row for subtree s. *)
Adding(c, s) ==
    tx[c].pc \in {"count", "flag", "commit"} /\ tx[c].subtree = s /\ s \notin seen

(* INSERT INTO seen_counters .. ON CONFLICT DO NOTHING *)
InsertCounter(c) ==
    /\ At(c, "counter")
    /\ IF Postgres THEN (\A d \in Caller : ~Inserting(d)) /\ UNCHANGED lock ELSE Locks(c)
    /\ tx' = [tx EXCEPT ![c].pc = "subtree", ![c].inserted = ~counters]
    /\ UNCHANGED <<counters, seen, fired, reports, faults>>

(* INSERT INTO seen_counter_subtrees .. ON CONFLICT DO NOTHING *)
InsertSubtree(c) ==
    /\ At(c, "subtree")
    /\ \A d \in Caller : ~Adding(d, tx[c].subtree)
    /\ tx' = [tx EXCEPT ![c].pc = "count"]
    /\ UNCHANGED <<counters, seen, fired, lock, reports, faults>>

(* SELECT COUNT( * ): the committed rows and the transaction's own. *)
CountSubtrees(c) ==
    /\ At(c, "count")
    /\ tx' = [tx EXCEPT ![c].pc = "flag",
                        ![c].count = Cardinality(seen \cup {tx[c].subtree})]
    /\ UNCHANGED <<counters, seen, fired, lock, reports, faults>>

(* Mutant of Fires: the flag is not looked at. *)
FiresAgain(c) == tx[c].count >= Threshold

Fires(c) == ~fired /\ tx[c].count >= Threshold

(* SELECT threshold_fired [FOR UPDATE], and the UPDATE that sets it. *)
ReadFlag(c) ==
    /\ At(c, "flag")
    /\ Locks(c)
    /\ tx' = [tx EXCEPT ![c].pc = "commit", ![c].reached = Fires(c)]
    /\ UNCHANGED <<counters, seen, fired, reports, faults>>

(* What a commit makes durable, and the locks that the end releases. *)
Released(c) == lock' = IF lock = {c} THEN Free ELSE lock

Committed(c) ==
    /\ counters' = TRUE
    /\ seen' = seen \cup {tx[c].subtree}
    /\ fired' = (fired \/ tx[c].reached)
    /\ Released(c)

Ended(c, reached) ==
    tx' = [tx EXCEPT ![c] = [pc |-> "returned", subtree |-> tx[c].subtree,
                             reached |-> reached]]

Commit(c) ==
    /\ At(c, "commit")
    /\ Committed(c)
    /\ Ended(c, tx[c].reached)
    /\ reports' = IF tx[c].reached THEN reports + 1 ELSE reports
    /\ UNCHANGED faults

(* The commit is applied, but its answer does not arrive: an error. *)
CommitUnanswered(c) ==
    /\ At(c, "commit") /\ faults > 0
    /\ Committed(c)
    /\ Ended(c, FALSE)
    /\ faults' = faults - 1
    /\ UNCHANGED reports

(* A statement fails or the context times out: the deferred Rollback. *)
Rollback(c) ==
    /\ tx[c].pc \in InTx /\ faults > 0
    /\ Released(c)
    /\ Ended(c, FALSE)
    /\ faults' = faults - 1
    /\ UNCHANGED <<counters, seen, fired, reports>>

Return(c) ==
    /\ At(c, "returned")
    /\ tx' = [tx EXCEPT ![c] = IdleTx]
    /\ UNCHANGED <<counters, seen, fired, lock, reports, faults>>

Next ==
    \E c \in Caller :
        \/ \E s \in Subtree : BeginTx(c, s)
        \/ InsertCounter(c) \/ InsertSubtree(c) \/ CountSubtrees(c) \/ ReadFlag(c)
        \/ Commit(c) \/ CommitUnanswered(c) \/ Rollback(c)
        \/ Return(c)

Spec == Init /\ [][Next]_vars

(***************************************************************************)
(* Properties.                                                             *)
(***************************************************************************)

(* Every variable has its type. *)
TypeOK ==
    /\ counters \in BOOLEAN
    /\ seen \subseteq Subtree
    /\ fired \in BOOLEAN
    /\ lock \in {Free} \cup {{c} : c \in Caller}
    /\ tx \in [Caller -> {IdleTx} \cup OpenTx \cup EndedTx]
    /\ reports \in Nat
    /\ faults \in Nat

(* Increment reports ThresholdReached to one caller at most, in both
   dialects and whatever statements fail: the locked threshold_fired flag. *)
ReportedOnce == reports <= 1

(***************************************************************************)
(* The comment of Increment: ThresholdReached=true is observed on exactly  *)
(* one call.  Once no call is open, a threshold that the recorded subtrees *)
(* reach has been reported.                                                *)
(***************************************************************************)
ReportedWhenReached ==
    (\A c \in Caller : tx[c].pc \notin InTx) /\ Cardinality(seen) >= Threshold => reports = 1

(***************************************************************************)
(* The transaction implements the promise of SeenCounterStore: an open     *)
(* transaction is a pending call, and its commit is the instant the call   *)
(* takes effect.                                                           *)
(***************************************************************************)
callOf(c) ==
    IF tx[c].pc \in InTx THEN [pc |-> "pending", subtree |-> tx[c].subtree] ELSE tx[c]

Promise == INSTANCE SeenCounter WITH call <- [c \in Caller |-> callOf(c)]

(* Increment's transaction behaves like one atomic, possibly failing, step. *)
ImplementsPromise == Promise!Spec
=============================================================================
