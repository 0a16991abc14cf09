----------------------------- MODULE SQLStartup -----------------------------
(***************************************************************************)
(* sql.New and the closer it registers, in several processes that use one  *)
(* database: the migrations each start applies under the migration lock,   *)
(* the goroutine of the TTL sweeper and its end in Registry.Close.         *)
(*                                                                         *)
(* The code has one migration file; runMigrations is written for any       *)
(* number, and binaries of different age embed different numbers of them.  *)
(* A transaction's statements become visible together, at its commit.  On  *)
(* SQLite a writer holds the one write lock of the file until its          *)
(* transaction ends; on PostgreSQL an INSERT waits for an uncommitted row  *)
(* with the same key.                                                      *)
(***************************************************************************)
EXTENDS Integers, FiniteSets

CONSTANTS
    Process,        \* the processes that start against the database
    Known,          \* Known[p]: p's binary embeds the migrations 1..Known[p]
    MaxOpenConns,   \* store.sql.maxopenconns
    LastTable,      \* length of ttlTables (4 in the code)
    MaxBatch,       \* DELETEs per table and sweep (10 in the code)
    MaxStartFault,  \* bound: crashes and failed calls
    None            \* no process

(* A binary embeds some number of migrations, and ttlTables is not empty. *)
ASSUME StartupAssumption ==
    /\ Known \in [Process -> Nat]
    /\ None \notin Process
    /\ LastTable \in Nat \ {0}
    /\ MaxStartFault \in Nat

VARIABLES
    driver,         \* the dialect that New resolved from the configuration
    applied,        \* committed rows of schema_migrations
    execs,          \* how often the statements of a version were committed
    advisory,       \* the process that holds pg_advisory_lock
    writer,         \* the process that holds SQLite's write lock
    pc,             \* where the process is in New, or between New and Close
    done,           \* the versions its queryAppliedVersions returned
    at,             \* its position in the loop over the migrations
    sweeper,        \* its sweeper goroutine
    startFaults

startVars == <<driver, applied, execs, advisory, writer, pc, done, at, sweeper, startFaults>>

Version == UNION {1..Known[p] : p \in Process}

Migrating == {"bootstrap", "query", "loop", "exec", "record", "commit"}
Starting == {"lock", "blob"} \cup Migrating
Finished == {"failed", "refused", "closed"}

NoSweeper == [pc |-> "none", table |-> 0, batch |-> 0]
Waiting == [pc |-> "waiting", table |-> 0, batch |-> 0]
Stopped == [pc |-> "stopped", table |-> 0, batch |-> 0]

StartInit ==
    /\ driver \in {"postgres", "sqlite"}
    /\ applied = {}
    /\ execs = [v \in Version |-> 0]
    /\ advisory = None
    /\ writer = None
    /\ pc = [p \in Process |-> "down"]
    /\ done = [p \in Process |-> {}]
    /\ at = [p \in Process |-> 1]
    /\ sweeper = [p \in Process |-> NoSweeper]
    /\ startFaults = MaxStartFault

In(p, l) == pc[p] = l
Goes(p, l) == pc' = [pc EXCEPT ![p] = l]

Freed(holder, p) == IF holder = p THEN None ELSE holder

(* runMigrations is left, with its lock and its variables. *)
LeavesMigrations(p) ==
    /\ advisory' = Freed(advisory, p)
    /\ done' = [done EXCEPT ![p] = {}]
    /\ at' = [at EXCEPT ![p] = 1]

(* The connection of the migration lock is one of the pool's. *)
HasConn(p) == MaxOpenConns > Cardinality({advisory} \cap {p})

-----------------------------------------------------------------------------
(* New, up to the migration lock. *)
Open(p) ==
    /\ In(p, "down")
    /\ Goes(p, "lock")
    /\ UNCHANGED <<driver, applied, execs, advisory, writer, done, at, sweeper, startFaults>>

(* Mutant of AcquireLock: PostgreSQL goes without a lock, as SQLite does. *)
AcquireNoLock(p) ==
    /\ In(p, "lock")
    /\ Goes(p, "bootstrap")
    /\ UNCHANGED <<driver, applied, execs, advisory, writer, done, at, sweeper, startFaults>>

(* acquireMigrationLock: nothing is locked on SQLite. *)
AcquireLock(p) ==
    /\ In(p, "lock")
    /\ IF driver = "postgres" THEN advisory = None /\ advisory' = p ELSE UNCHANGED advisory
    /\ Goes(p, "bootstrap")
    /\ UNCHANGED <<driver, applied, execs, writer, done, at, sweeper, startFaults>>

(* CREATE TABLE IF NOT EXISTS schema_migrations *)
Bootstrap(p) ==
    /\ In(p, "bootstrap") /\ HasConn(p)
    /\ driver = "sqlite" => writer = None
    /\ Goes(p, "query")
    /\ UNCHANGED <<driver, applied, execs, advisory, writer, done, at, sweeper, startFaults>>

(* Mutant of QueryAppliedVersions: no row is scanned on SQLite. *)
QueryNoVersions(p) ==
    /\ In(p, "query") /\ HasConn(p)
    /\ done' = [done EXCEPT ![p] = IF driver = "sqlite" THEN {} ELSE applied]
    /\ at' = [at EXCEPT ![p] = 1]
    /\ Goes(p, "loop")
    /\ UNCHANGED <<driver, applied, execs, advisory, writer, sweeper, startFaults>>

QueryAppliedVersions(p) ==
    /\ In(p, "query") /\ HasConn(p)
    /\ done' = [done EXCEPT ![p] = applied]
    /\ at' = [at EXCEPT ![p] = 1]
    /\ Goes(p, "loop")
    /\ UNCHANGED <<driver, applied, execs, advisory, writer, sweeper, startFaults>>

(* Mutant of Pending: the last migration is taken for an applied one. *)
PendingButLast(p) == {v \in at[p]..(Known[p] - 1) : v \notin done[p]}

(* The migrations that the loop of runMigrations has still to apply. *)
Pending(p) == {v \in at[p]..Known[p] : v \notin done[p]}

(* applyMigration opens its transaction for the next pending migration. *)
BeginMigration(p) ==
    /\ In(p, "loop") /\ HasConn(p)
    /\ \E v \in Pending(p) :
        /\ \A w \in Pending(p) : v <= w
        /\ at' = [at EXCEPT ![p] = v]
    /\ Goes(p, "exec")
    /\ UNCHANGED <<driver, applied, execs, advisory, writer, done, sweeper, startFaults>>

(* The statements of the migration; on SQLite they wait for the write lock. *)
ExecStatements(p) ==
    /\ In(p, "exec")
    /\ IF driver = "sqlite" THEN writer = None /\ writer' = p ELSE UNCHANGED writer
    /\ Goes(p, "record")
    /\ UNCHANGED <<driver, applied, execs, advisory, done, at, sweeper, startFaults>>

(* Mutant of Recordable: schema_migrations has no primary key. *)
RecordableAgain(p) == In(p, "record")

(* The primary key of schema_migrations lets the INSERT through: the version
   is neither committed nor in an open transaction. *)
Recordable(p) ==
    /\ In(p, "record")
    /\ at[p] \notin applied
    /\ \A q \in Process : ~(In(q, "commit") /\ at[q] = at[p])

RecordVersion(p) ==
    /\ Recordable(p)
    /\ Goes(p, "commit")
    /\ UNCHANGED <<driver, applied, execs, advisory, writer, done, at, sweeper, startFaults>>

CommittedMigration(p) ==
    /\ applied' = applied \cup {at[p]}
    /\ execs' = [execs EXCEPT ![at[p]] = @ + 1]
    /\ writer' = Freed(writer, p)

CommitMigration(p) ==
    /\ In(p, "commit")
    /\ CommittedMigration(p)
    /\ at' = [at EXCEPT ![p] = @ + 1]
    /\ Goes(p, "loop")
    /\ UNCHANGED <<driver, advisory, done, sweeper, startFaults>>

(* runMigrations returns; the deferred release. *)
EndMigrations(p) ==
    /\ In(p, "loop") /\ Pending(p) = {}
    /\ LeavesMigrations(p)
    /\ Goes(p, "blob")
    /\ UNCHANGED <<driver, applied, execs, writer, sweeper, startFaults>>

(* The blob store is opened, the sweeper's goroutine is started. *)
FinishNew(p) ==
    /\ In(p, "blob")
    /\ Goes(p, "running")
    /\ sweeper' = [sweeper EXCEPT ![p] = Waiting]
    /\ UNCHANGED <<driver, applied, execs, advisory, writer, done, at, startFaults>>

(* New returns an error: Rollback, the deferred release and db.Close. *)
GivesUp(p, l) ==
    /\ Goes(p, l)
    /\ LeavesMigrations(p)
    /\ UNCHANGED <<driver, sweeper>>

(* The INSERT violates the primary key: another start recorded the version. *)
Refused(p) ==
    /\ In(p, "record") /\ at[p] \in applied
    /\ GivesUp(p, "refused")
    /\ writer' = Freed(writer, p)
    /\ UNCHANGED <<applied, execs, startFaults>>

(* A ping, a statement, the lock or the blob store fails. *)
Fail(p) ==
    /\ pc[p] \in Starting /\ startFaults > 0
    /\ startFaults' = startFaults - 1
    /\ GivesUp(p, "failed")
    /\ writer' = Freed(writer, p)
    /\ UNCHANGED <<applied, execs>>

(* The commit is applied, but its answer does not arrive. *)
MigrationUnanswered(p) ==
    /\ In(p, "commit") /\ startFaults > 0
    /\ startFaults' = startFaults - 1
    /\ CommittedMigration(p)
    /\ GivesUp(p, "failed")

-----------------------------------------------------------------------------
(* The context of the sweeper is cancelled by the closer. *)
Cancelled(p) == In(p, "closing")

(* run: the ticker has fired, and select takes its branch. *)
Tick(p) ==
    /\ sweeper[p] = Waiting
    /\ sweeper' = [sweeper EXCEPT ![p] = [pc |-> "table", table |-> 1, batch |-> 1]]
    /\ UNCHANGED <<driver, applied, execs, advisory, writer, pc, done, at, startFaults>>

(* run: select takes the branch of the cancelled context. *)
StopSweeper(p) ==
    /\ sweeper[p] = Waiting /\ Cancelled(p)
    /\ sweeper' = [sweeper EXCEPT ![p] = Stopped]
    /\ UNCHANGED <<driver, applied, execs, advisory, writer, pc, done, at, startFaults>>

(* Mutant of NextTable: one table too many. *)
NextTablePast(s) ==
    IF s.table = LastTable + 1
    THEN Waiting
    ELSE [pc |-> "table", table |-> s.table + 1, batch |-> 1]

NextTable(s) ==
    IF s.table = LastTable
    THEN Waiting
    ELSE [pc |-> "table", table |-> s.table + 1, batch |-> 1]

NextBatch(s) == [pc |-> "table", table |-> s.table, batch |-> s.batch + 1]

(* ExecContext sends the DELETE, or returns the error of the context. *)
IssueDelete(p) ==
    /\ sweeper[p].pc = "table"
    /\ sweeper' = [sweeper EXCEPT ![p] = IF Cancelled(p) THEN NextTable(@)
                                         ELSE [@ EXCEPT !.pc = "delete"]]
    /\ UNCHANGED <<driver, applied, execs, advisory, writer, pc, done, at, startFaults>>

(* The DELETE ends: fewer rows than a batch, an error, or a full batch that
   is followed by another one while there are less than MaxBatch. *)
EndDelete(p) ==
    /\ sweeper[p].pc = "delete"
    /\ \/ sweeper' = [sweeper EXCEPT ![p] = NextTable(@)]
       \/ /\ sweeper[p].batch < MaxBatch
          /\ sweeper' = [sweeper EXCEPT ![p] = NextBatch(@)]
    /\ UNCHANGED <<driver, applied, execs, advisory, writer, pc, done, at, startFaults>>

(* The closer cancels the sweeper's context. *)
BeginClose(p) ==
    /\ In(p, "running")
    /\ Goes(p, "closing")
    /\ UNCHANGED <<driver, applied, execs, advisory, writer, done, at, sweeper, startFaults>>

(* Mutant of EndClose: the closer does not wait for the sweeper. *)
EndCloseAtOnce(p) ==
    /\ In(p, "closing")
    /\ Goes(p, "closed")
    /\ UNCHANGED <<driver, applied, execs, advisory, writer, done, at, sweeper, startFaults>>

(* waitStopped has returned; db.Close. *)
EndClose(p) ==
    /\ In(p, "closing") /\ sweeper[p] = Stopped
    /\ Goes(p, "closed")
    /\ UNCHANGED <<driver, applied, execs, advisory, writer, done, at, sweeper, startFaults>>

-----------------------------------------------------------------------------
(* The process dies; the database ends its transaction and its session. *)
Crash(p) ==
    /\ pc[p] \in Starting \cup {"running", "closing"} /\ startFaults > 0
    /\ startFaults' = startFaults - 1
    /\ Goes(p, "down")
    /\ LeavesMigrations(p)
    /\ writer' = Freed(writer, p)
    /\ sweeper' = [sweeper EXCEPT ![p] = NoSweeper]
    /\ UNCHANGED <<driver, applied, execs>>

(* A process that has ended is started again. *)
Restart(p) ==
    /\ pc[p] \in Finished
    /\ Goes(p, "down")
    /\ sweeper' = [sweeper EXCEPT ![p] = NoSweeper]
    /\ UNCHANGED <<driver, applied, execs, advisory, writer, done, at, startFaults>>

Migrate(p) ==
    \/ Bootstrap(p) \/ QueryAppliedVersions(p) \/ BeginMigration(p)
    \/ ExecStatements(p) \/ RecordVersion(p) \/ CommitMigration(p)
    \/ EndMigrations(p) \/ Refused(p)

Start(p) == Open(p) \/ AcquireLock(p) \/ Migrate(p) \/ FinishNew(p)

Sweep(p) == Tick(p) \/ IssueDelete(p) \/ EndDelete(p) \/ StopSweeper(p)

StartNext ==
    \E p \in Process :
        \/ Start(p) \/ Fail(p) \/ MigrationUnanswered(p)
        \/ Sweep(p) \/ BeginClose(p) \/ EndClose(p)
        \/ Crash(p) \/ Restart(p)

StartSpec == StartInit /\ [][StartNext]_startVars

(***************************************************************************)
(* A start runs on by itself, PostgreSQL serves the waiters of an advisory *)
(* lock in turn, and a process that has ended is started again.  A sweep   *)
(* runs to its end; select chooses at random between a tick and the        *)
(* cancelled context, so it does not for ever choose the tick.             *)
(***************************************************************************)
StartFairness ==
    \A p \in Process :
        /\ WF_startVars(Open(p) \/ Migrate(p) \/ FinishNew(p) \/ EndClose(p) \/ Restart(p))
        /\ SF_startVars(AcquireLock(p))
        /\ WF_startVars(IssueDelete(p) \/ EndDelete(p))
        /\ SF_startVars(StopSweeper(p))

(***************************************************************************)
(* Properties.                                                             *)
(***************************************************************************)

SweeperState ==
    {NoSweeper, Waiting, Stopped} \cup
    [pc : {"table", "delete"}, table : 1..LastTable, batch : Nat \ {0}]

(* Every variable has its type. *)
StartTypeOK ==
    /\ driver \in {"postgres", "sqlite"}
    /\ applied \subseteq Version
    /\ execs \in [Version -> Nat]
    /\ advisory \in Process \cup {None}
    /\ writer \in Process \cup {None}
    /\ pc \in [Process -> {"down", "running", "closing"} \cup Starting \cup Finished]
    /\ done \in [Process -> SUBSET Version]
    /\ at \in [Process -> Nat \ {0}]
    /\ sweeper \in [Process -> SweeperState]
    /\ startFaults \in Nat

(***************************************************************************)
(* The statements of a migration are committed once at most, and after     *)
(* those of every earlier version, however many processes start at once or *)
(* crash on the way: the advisory lock, or the primary key of              *)
(* schema_migrations in the transaction of applyMigration.                 *)
(***************************************************************************)
AppliedOnceInOrder ==
    /\ \A v \in Version : execs[v] <= 1
    /\ \A v \in applied : 1..v \subseteq applied

(***************************************************************************)
(* New returns a registry only when the whole schema of the binary is      *)
(* there, also when another process applied it or is killed meanwhile.     *)
(***************************************************************************)
StartedIsMigrated ==
    \A p \in Process : pc[p] \in {"running", "closing"} => 1..Known[p] \subseteq applied

(***************************************************************************)
(* On PostgreSQL no start fails because of another start: the applied      *)
(* versions are read under the advisory lock.  (On SQLite nothing is       *)
(* locked, and the later of two concurrent starts may be refused.)         *)
(***************************************************************************)
NeverRefused == driver = "postgres" => \A p \in Process : ~In(p, "refused")

(* A DELETE of the sweeper is under way only while its database is open:
   Close waits for the goroutine before it closes the database. *)
DeletesWhileOpen ==
    \A p \in Process : sweeper[p].pc = "delete" => pc[p] \in {"running", "closing"}

(* Every process is up again in the end, whatever it is doing: also on SQLite,
   where a start may be refused and repeated, after crashes that held the lock,
   and after a Close that had to wait for the sweeper. *)
StartsEventually == \A p \in Process : []<>In(p, "running")

=============================================================================
