------------------------------ MODULE SQLTables ------------------------------
(***************************************************************************)
(* The calls of the SQL stores on the tables that carry an expires_at      *)
(* column, and the sweeper's DELETEs between them: registrations,          *)
(* callback_dedup, subtree_counters and callback_accumulator with the      *)
(* child tables registration_urls and callback_accumulator_entries.  There *)
(* is one row key per table: one txid, one callback, one block.            *)
(*                                                                         *)
(* A call of one statement, or one transaction that only writes, is one    *)
(* step, at its commit.  Decrement on SQLite and ReadAndDelete read first  *)
(* and write later.  On SQLite their BEGIN is a deferred one: the first    *)
(* SELECT fixes a snapshot, and the write fails when another connection    *)
(* has committed since (SQLITE_BUSY).  On PostgreSQL each statement reads  *)
(* what is committed, and a DELETE waits for rows another one deletes.     *)
(*                                                                         *)
(* A row is the set of its expires_at, a NULL being later than any time;   *)
(* an absent row is the empty set.                                         *)
(***************************************************************************)
EXTENDS Integers, FiniteSets

CONSTANTS
    Session,        \* goroutines that run a transaction of several statements
    URL,            \* callback URLs that register for the txid
    Entry,          \* accumulator entries, one per Append
    Count,          \* subtrees of the block
    TTL,            \* seconds to live, the same for every table
    MaxTime, MaxCall, MaxCallFault,     \* bounds: clock, calls, lost answers and failures
    NoSession       \* none of them

ASSUME TablesAssumption ==
    /\ NoSession \notin Session
    /\ Count \in Int /\ TTL \in Nat
    /\ MaxTime \in Nat /\ MaxCall \in Nat /\ MaxCallFault \in Nat

VARIABLES
    dialect,        \* "postgres" or "sqlite"
    now,
    registrations,  \* parent row of the txid
    urls,           \* registration_urls of the txid
    dedup,          \* row of the callback
    counter,        \* row of subtree_counters: remaining and expires_at
    accumulator,    \* parent row of the block
    entries,        \* callback_accumulator_entries of the block
    rowLock,        \* the session whose uncommitted write others wait for
    rowTx,          \* open transactions
    calls, callFaults,
    accepted,       \* URLs for which Add returned nil
    promised,       \* when the last recorded callback expires
    decrements,     \* committed since the counter's Init
    acked,          \* entries whose Append returned nil
    overlapped,     \* entries appended while a ReadAndDelete was open
    drained         \* how many ReadAndDelete that committed had read the entry

rows == <<registrations, urls, dedup, counter, accumulator, entries>>
ghosts == <<accepted, promised, decrements, acked, overlapped, drained>>
callVars == <<dialect, now, rows, rowLock, rowTx, calls, callFaults, ghosts>>

NoTx == [op |-> "none"]
Null == MaxTime + TTL + 1

TablesInit ==
    /\ dialect \in {"postgres", "sqlite"}
    /\ now = 0
    /\ registrations = {} /\ urls = {} /\ dedup = {} /\ counter = {}
    /\ accumulator = {} /\ entries = {}
    /\ rowLock = NoSession
    /\ rowTx = [c \in Session |-> NoTx]
    /\ calls = MaxCall /\ callFaults = MaxCallFault
    /\ accepted = {} /\ promised = 0 /\ decrements = 0
    /\ acked = {} /\ overlapped = {} /\ drained = [e \in Entry |-> 0]

(* d.intervalSeconds *)
InTTL == now + TTL

-----------------------------------------------------------------------------
(* A commit makes the snapshots of SQLite's other open transactions stale. *)
Staled(c) ==
    [d \in Session |->
        IF d # c /\ rowTx[d].op # "none" THEN [rowTx[d] EXCEPT !.stale = TRUE] ELSE rowTx[d]]

(* A call that is one statement, or one transaction of writes: on SQLite it
   waits for the write lock.  Its answer may be lost (answered = FALSE). *)
Write(answered) ==
    /\ calls > 0 /\ calls' = calls - 1
    /\ dialect = "sqlite" => rowLock = NoSession
    /\ rowTx' = IF dialect = "sqlite" THEN Staled(NoSession) ELSE rowTx
    /\ \/ answered /\ UNCHANGED callFaults
       \/ ~answered /\ callFaults > 0 /\ callFaults' = callFaults - 1
    /\ UNCHANGED <<dialect, now, rowLock>>

(* registrationStore.Add: both INSERTs leave an existing row as it is. *)
AddRegistration(u, answered) ==
    /\ Write(answered)
    /\ registrations' = IF registrations = {} THEN {Null} ELSE registrations
    /\ urls' = urls \cup {u}
    /\ accepted' = IF answered THEN accepted \cup {u} ELSE accepted
    /\ UNCHANGED <<dedup, counter, accumulator, entries,
                   promised, decrements, acked, overlapped, drained>>

(* registrationStore.UpdateTTL and BatchUpdateTTL, after the txid is mined. *)
BatchUpdateTTL ==
    /\ Write(TRUE)
    /\ registrations' = {InTTL : e \in registrations}
    /\ UNCHANGED <<urls, dedup, counter, accumulator, entries, ghosts>>

(* Mutant of BatchGet: only rows that have their parent are returned. *)
BatchGetJoined == IF registrations = {} THEN {} ELSE urls

(* registrationStore.Get and BatchGet read the child table alone. *)
BatchGet == urls

(* Mutant of Record: an existing row keeps its expiry. *)
RecordOnce(expiry, answered) ==
    /\ Write(answered)
    /\ dedup' = IF dedup = {} THEN {expiry} ELSE dedup
    /\ promised' = expiry
    /\ UNCHANGED <<registrations, urls, counter, accumulator, entries,
                   accepted, decrements, acked, overlapped, drained>>

(* callbackDedup.Record, with a TTL or with none *)
Record(expiry, answered) ==
    /\ Write(answered)
    /\ dedup' = {expiry}
    /\ promised' = expiry
    /\ UNCHANGED <<registrations, urls, counter, accumulator, entries,
                   accepted, decrements, acked, overlapped, drained>>

(* callbackDedup.Exists *)
Exists == \E e \in dedup : e > now

(* subtreeCounter.Init *)
InitCounter(answered) ==
    /\ Write(answered)
    /\ counter' = {[remaining |-> Count, expires |-> InTTL]}
    /\ decrements' = 0
    /\ UNCHANGED <<registrations, urls, dedup, accumulator, entries,
                   accepted, promised, acked, overlapped, drained>>

(* subtreeCounter.Decrement on PostgreSQL: UPDATE .. RETURNING *)
UpdateReturning(answered) ==
    /\ dialect = "postgres" /\ counter # {}
    /\ Write(answered)
    /\ counter' = {[r EXCEPT !.remaining = @ - 1] : r \in counter}
    /\ decrements' = decrements + 1
    /\ UNCHANGED <<registrations, urls, dedup, accumulator, entries,
                   accepted, promised, acked, overlapped, drained>>

Reading(c) == rowTx[c].op = "ReadAndDelete"

(* callbackAccumulator.Append *)
AppendEntry(e, answered) ==
    /\ e \notin entries /\ e \notin overlapped /\ drained[e] = 0 /\ e \notin acked
    /\ Write(answered)
    /\ accumulator' = {InTTL}
    /\ entries' = entries \cup {e}
    /\ acked' = IF answered THEN acked \cup {e} ELSE acked
    /\ overlapped' = IF \E c \in Session : Reading(c) THEN overlapped \cup {e} ELSE overlapped
    /\ UNCHANGED <<registrations, urls, dedup, counter, accepted, promised, decrements, drained>>

-----------------------------------------------------------------------------
Begins(c, op, read) ==
    /\ rowTx[c] = NoTx
    /\ calls > 0 /\ calls' = calls - 1
    /\ rowTx' = [rowTx EXCEPT ![c] = [op |-> op, read |-> read, deleted |-> {}, stale |-> FALSE]]
    /\ UNCHANGED <<dialect, now, rows, rowLock, callFaults, ghosts>>

(* The SELECT of subtreeCounter.Decrement on SQLite; no row is an error. *)
SelectRemaining(c) ==
    /\ dialect = "sqlite" /\ counter # {}
    /\ Begins(c, "Decrement", {r.remaining : r \in counter})

(* The SELECT of callbackAccumulator.ReadAndDelete *)
SelectEntries(c) == Begins(c, "ReadAndDelete", entries)

(* Mutant of MayWrite: a stale snapshot does not stop the write. *)
MayWriteStale(c) == rowTx[c].op # "none" /\ rowLock = NoSession

(* Mutant of MayWrite: the counter is read before the transaction. *)
MayWriteReadBefore(c) ==
    /\ rowTx[c].op # "none" /\ rowLock = NoSession
    /\ dialect = "sqlite" /\ Reading(c) => ~rowTx[c].stale

(* The first write of a transaction that has read. *)
MayWrite(c) ==
    /\ rowTx[c].op # "none" /\ rowLock = NoSession
    /\ dialect = "sqlite" => ~rowTx[c].stale

(* The UPDATE of Decrement, or DELETE FROM callback_accumulator_entries *)
WriteInTx(c) ==
    /\ MayWrite(c)
    /\ rowLock' = c
    /\ rowTx' = [rowTx EXCEPT ![c].deleted = IF Reading(c) THEN entries ELSE {}]
    /\ UNCHANGED <<dialect, now, rows, calls, callFaults, ghosts>>

(* The effect of the transaction: the UPDATE, or both DELETEs. *)
CommittedTx(c) ==
    /\ rowLock = c /\ rowLock' = NoSession
    /\ rowTx' = [Staled(c) EXCEPT ![c] = NoTx]
    /\ IF Reading(c)
       THEN /\ entries' = entries \ rowTx[c].deleted
            /\ accumulator' = {}
            /\ drained' = [e \in Entry |-> IF e \in rowTx[c].read THEN drained[e] + 1 ELSE drained[e]]
            /\ UNCHANGED <<counter, decrements>>
       ELSE /\ counter' = {[r EXCEPT !.remaining = n - 1] : r \in counter, n \in rowTx[c].read}
            /\ decrements' = decrements + 1
            /\ UNCHANGED <<entries, accumulator, drained>>
    /\ UNCHANGED <<dialect, now, registrations, urls, dedup, calls,
                   accepted, promised, acked, overlapped>>

CommitTx(c) == CommittedTx(c) /\ UNCHANGED callFaults

CommitTxUnanswered(c) == CommittedTx(c) /\ callFaults > 0 /\ callFaults' = callFaults - 1

Rolled(c) ==
    /\ rowTx' = [rowTx EXCEPT ![c] = NoTx]
    /\ rowLock' = IF rowLock = c THEN NoSession ELSE rowLock
    /\ UNCHANGED <<dialect, now, rows, calls, ghosts>>

(* SQLITE_BUSY: the snapshot is stale; the deferred Rollback. *)
Busy(c) ==
    /\ dialect = "sqlite" /\ rowTx[c].op # "none" /\ rowLock # c /\ rowTx[c].stale
    /\ Rolled(c)
    /\ UNCHANGED callFaults

(* A statement fails or the context times out. *)
RollbackTx(c) ==
    /\ rowTx[c].op # "none" /\ callFaults > 0
    /\ Rolled(c)
    /\ callFaults' = callFaults - 1

-----------------------------------------------------------------------------
(* expires_at < now *)
Expired(e) == e < now

(* The sweeper of any process deletes what has expired in one table. *)
SweepTable ==
    /\ dialect = "sqlite" => rowLock = NoSession
    /\ \/ /\ \E e \in registrations : Expired(e)
          /\ registrations' = {e \in registrations : ~Expired(e)}
          /\ UNCHANGED <<dedup, counter, accumulator>>
       \/ /\ \E e \in dedup : Expired(e)
          /\ dedup' = {e \in dedup : ~Expired(e)}
          /\ UNCHANGED <<registrations, counter, accumulator>>
       \/ /\ \E r \in counter : Expired(r.expires)
          /\ counter' = {r \in counter : ~Expired(r.expires)}
          /\ UNCHANGED <<registrations, dedup, accumulator>>
       \/ /\ \E e \in accumulator : Expired(e)
          /\ accumulator' = {e \in accumulator : ~Expired(e)}
          /\ UNCHANGED <<registrations, dedup, counter>>
    /\ rowTx' = IF dialect = "sqlite" THEN Staled(NoSession) ELSE rowTx
    /\ UNCHANGED <<dialect, now, urls, entries, rowLock, calls, callFaults, ghosts>>

Elapse ==
    /\ now < MaxTime /\ now' = now + 1
    /\ UNCHANGED <<dialect, rows, rowLock, rowTx, calls, callFaults, ghosts>>

TablesNext ==
    \/ \E answered \in BOOLEAN :
        \/ \E u \in URL : AddRegistration(u, answered)
        \/ \E expiry \in {InTTL, Null} : Record(expiry, answered)
        \/ InitCounter(answered)
        \/ UpdateReturning(answered)
        \/ \E e \in Entry : AppendEntry(e, answered)
    \/ BatchUpdateTTL
    \/ \E c \in Session :
        \/ SelectRemaining(c) \/ SelectEntries(c)
        \/ WriteInTx(c) \/ CommitTx(c) \/ CommitTxUnanswered(c)
        \/ Busy(c) \/ RollbackTx(c)
    \/ SweepTable
    \/ Elapse

TablesSpec == TablesInit /\ [][TablesNext]_callVars

(***************************************************************************)
(* Properties.                                                             *)
(***************************************************************************)

ReadTx ==
    [op : {"Decrement"}, read : SUBSET Int, deleted : {{}}, stale : BOOLEAN] \cup
    [op : {"ReadAndDelete"}, read : SUBSET Entry, deleted : SUBSET Entry, stale : BOOLEAN]

(* Every variable has its type. *)
TablesTypeOK ==
    /\ dialect \in {"postgres", "sqlite"}
    /\ now \in 0..MaxTime
    /\ registrations \subseteq Nat /\ dedup \subseteq Nat /\ accumulator \subseteq Nat
    /\ \A row \in {registrations, dedup, accumulator} : Cardinality(row) <= 1
    /\ Cardinality(counter) <= 1
    /\ \A r \in counter : r.remaining \in Int /\ r.expires \in Nat
    /\ urls \subseteq URL /\ accepted \subseteq URL
    /\ entries \subseteq Entry /\ acked \subseteq Entry /\ overlapped \subseteq Entry
    /\ drained \in [Entry -> Nat]
    /\ rowLock \in Session \cup {NoSession}
    /\ rowTx \in [Session -> {NoTx} \cup ReadTx]

(***************************************************************************)
(* A URL whose registration was accepted is returned by BatchGet from then *)
(* on.  Add does not renew the expiry of a txid that was mined before, and *)
(* the sweeper deletes its parent row; the URL is still found.             *)
(***************************************************************************)
RegisteredIsFound == accepted \subseteq BatchGet

(***************************************************************************)
(* A recorded callback is found until its TTL is over and not after,       *)
(* however often it is recorded again and whenever the sweeper runs.       *)
(***************************************************************************)
FoundUntilExpiry == Exists <=> promised > now

(***************************************************************************)
(* No decrement is lost or doubled: the counter has gone down by the       *)
(* committed calls of Decrement, in both dialects, also when one commits   *)
(* between the SELECT and the UPDATE of another.                           *)
(***************************************************************************)
DecrementsCounted == \A r \in counter : r.remaining = Count - decrements

(***************************************************************************)
(* An accumulated entry stays until a ReadAndDelete that returns it; on    *)
(* SQLite one only returns it.  On PostgreSQL this is so for entries that  *)
(* are appended while no ReadAndDelete is open.                            *)
(***************************************************************************)
EntriesAccounted ==
    \A e \in acked :
        LET copies == drained[e] + Cardinality({e} \cap entries)
        IN  /\ dialect = "sqlite" => copies = 1
            /\ e \notin overlapped => copies >= 1
=============================================================================
