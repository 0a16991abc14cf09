---------------------------- MODULE ProcessProofs ----------------------------
(***************************************************************************)
(* Proofs about how a process starts and stops: the startup of the SQL     *)
(* store, and the services that main starts and stops.                     *)
(***************************************************************************)
EXTENDS SQLStartup, ProcessLifecycle, TLAPS

(***************************************************************************)
(* The startup of any number of processes, whatever versions their         *)
(* binaries embed and whatever crashes or fails: migrations are committed  *)
(* once and in order, a started process has its whole schema, no start on  *)
(* PostgreSQL is refused, and no DELETE outlives its database.  The        *)
(* inductive invariant is StartInv.                                        *)
(***************************************************************************)

(* Inside applyMigration, and inside the loop of runMigrations. *)
Applying == {"exec", "record", "commit"}
Looping == Applying \cup {"loop"}

(* applyMigration is inside the binary's list of migrations. *)
Bounded == \A p \in Process : pc[p] \in Applying => at[p] \in 1..Known[p]

(* The statements of a version are committed with its row. *)
Counted == \A v \in Version : execs[v] = IF v \in applied THEN 1 ELSE 0

(* A transaction past the INSERT is the only one with its version. *)
Exclusive ==
    \A p \in Process : In(p, "commit") =>
        /\ at[p] \notin applied
        /\ \A q \in Process : In(q, "commit") /\ at[q] = at[p] => q = p

(* The versions below the loop's position are committed. *)
Ordered ==
    /\ \A v \in applied : 1..v \subseteq applied
    /\ \A p \in Process : done[p] \subseteq applied
    /\ \A p \in Process : pc[p] \in Looping => 1..(at[p] - 1) \subseteq applied

(* A process that came through runMigrations finds its schema. *)
Migrated ==
    \A p \in Process :
        pc[p] \in {"blob", "running", "closing"} => 1..Known[p] \subseteq applied

(* On PostgreSQL what queryAppliedVersions returned stays true of the versions
   that are still ahead of the loop. *)
Locked ==
    driver = "postgres" => \A p \in Process :
        /\ pc[p] \in Migrating => advisory = p
        /\ pc[p] \in Looping => \A v \in applied : v >= at[p] => v \in done[p]
        /\ pc[p] \in Applying => at[p] \notin done[p]
        /\ pc[p] # "refused"

(* The sweeper's goroutine lives as long as the backend. *)
Sweeping ==
    \A p \in Process :
        sweeper[p].pc \in {"waiting", "table", "delete"} => pc[p] \in {"running", "closing"}

StartInv ==
    /\ StartTypeOK /\ Bounded /\ Counted /\ Exclusive /\ Ordered /\ Migrated /\ Locked
    /\ Sweeping

-----------------------------------------------------------------------------
(* Versions are counted from 1, and every binary embeds the first ones. *)
LEMMA VersionFacts ==
    /\ Version \subseteq Nat \ {0}
    /\ \A p \in Process : 1..Known[p] \subseteq Version
BY StartupAssumption DEF Version

(* The places of the sweeper. *)
LEMMA SweeperStates == {NoSweeper, Waiting, Stopped} \subseteq SweeperState
BY Zenon DEF SweeperState

(* What the sweeper's goroutine does to its place in the tables. *)
LEMMA SweeperFacts ==
    ASSUME NEW s \in SweeperState, s.pc \in {"table", "delete"}
    PROVE  /\ NextTable(s) \in SweeperState
           /\ [s EXCEPT !.pc = "delete"] \in SweeperState
           /\ NextBatch(s) \in SweeperState
<1> USE StartupAssumption
<1>1. PICK l \in {"table", "delete"}, t \in 1..LastTable, b \in Nat \ {0} :
          s = [pc |-> l, table |-> t, batch |-> b]
  BY DEF SweeperState, NoSweeper, Waiting, Stopped
<1>2. NextTable(s) \in SweeperState
  BY <1>1 DEF NextTable, SweeperState, Waiting
<1>3. [s EXCEPT !.pc = "delete"] = [pc |-> "delete", table |-> t, batch |-> b]
  BY <1>1
<1>4. [pc |-> "delete", table |-> t, batch |-> b] \in SweeperState
  BY DEF SweeperState
<1>5. NextBatch(s) \in SweeperState
  BY <1>1 DEF NextBatch, SweeperState
<1> QED BY <1>2, <1>3, <1>4, <1>5, Zenon

(* One more commit of a version. *)
LEMMA OneMore ==
    ASSUME NEW f \in [Version -> Nat], NEW v \in Version
    PROVE  [f EXCEPT ![v] = @ + 1] \in [Version -> Nat]
OBVIOUS

(* Every step keeps the types: a committed version is one the binary embeds. *)
LEMMA TypeStep ==
    ASSUME StartTypeOK, Bounded, [StartNext]_startVars
    PROVE  StartTypeOK'
<1> USE StartupAssumption
<1> USE VersionFacts, SweeperStates DEF StartTypeOK, Bounded, Applying, Goes, In, Starting, Migrating,
          Finished
<1>1. ASSUME NEW p \in Process, BeginMigration(p) PROVE StartTypeOK'
  BY <1>1 DEF BeginMigration, Pending
<1>2. ASSUME NEW p \in Process, CommitMigration(p) PROVE StartTypeOK'
  <2>1. at[p] \in Version
    BY <1>2 DEF CommitMigration
  <2>2. execs' \in [Version -> Nat] /\ applied' \subseteq Version
    BY <1>2, <2>1, OneMore, Zenon DEF CommitMigration, CommittedMigration
  <2>3. writer' \in Process \cup {None}
    BY <1>2 DEF CommitMigration, CommittedMigration, Freed
  <2>4. at' \in [Process -> Nat \ {0}]
    BY <1>2 DEF CommitMigration
  <2> QED BY <1>2, <2>2, <2>3, <2>4 DEF CommitMigration
<1>3. ASSUME NEW p \in Process, MigrationUnanswered(p) PROVE StartTypeOK'
  <2>1. at[p] \in Version
    BY <1>3 DEF MigrationUnanswered
  <2>2. execs' \in [Version -> Nat] /\ applied' \subseteq Version
    BY <1>3, <2>1, OneMore, Zenon DEF MigrationUnanswered, CommittedMigration
  <2>3. writer' \in Process \cup {None}
    BY <1>3 DEF MigrationUnanswered, CommittedMigration, Freed
  <2> QED BY <1>3, <2>2, <2>3 DEF MigrationUnanswered, GivesUp, LeavesMigrations, Freed
<1>4. ASSUME NEW p \in Process, IssueDelete(p) PROVE StartTypeOK'
  BY <1>4, SweeperFacts, Zenon DEF IssueDelete
<1>5. ASSUME NEW p \in Process, EndDelete(p) PROVE StartTypeOK'
  <2>1. CASE sweeper' = [sweeper EXCEPT ![p] = NextTable(@)]
    BY <1>5, <2>1, SweeperFacts, Zenon DEF EndDelete
  <2>2. CASE sweeper' = [sweeper EXCEPT ![p] = NextBatch(@)]
    BY <1>5, <2>2, SweeperFacts, Zenon DEF EndDelete
  <2> QED BY <1>5, <2>1, <2>2, Zenon DEF EndDelete
<1>6. ASSUME NEW p \in Process, Open(p) PROVE StartTypeOK'
  BY <1>6 DEF Open
<1>7. ASSUME NEW p \in Process, AcquireLock(p) PROVE StartTypeOK'
  BY <1>7 DEF AcquireLock
<1>8. ASSUME NEW p \in Process, Bootstrap(p) PROVE StartTypeOK'
  BY <1>8 DEF Bootstrap
<1>9. ASSUME NEW p \in Process, QueryAppliedVersions(p) PROVE StartTypeOK'
  BY <1>9 DEF QueryAppliedVersions
<1>10. ASSUME NEW p \in Process, ExecStatements(p) PROVE StartTypeOK'
  BY <1>10 DEF ExecStatements
<1>11. ASSUME NEW p \in Process, RecordVersion(p) PROVE StartTypeOK'
  BY <1>11 DEF RecordVersion, Recordable
<1>12. ASSUME NEW p \in Process, EndMigrations(p) PROVE StartTypeOK'
  BY <1>12 DEF EndMigrations, Pending, LeavesMigrations, Freed
<1>13. ASSUME NEW p \in Process, Refused(p) PROVE StartTypeOK'
  BY <1>13 DEF Refused, GivesUp, LeavesMigrations, Freed
<1>14. ASSUME NEW p \in Process, FinishNew(p) PROVE StartTypeOK'
  BY <1>14 DEF FinishNew
<1>15. ASSUME NEW p \in Process, Fail(p) PROVE StartTypeOK'
  BY <1>15 DEF Fail, GivesUp, LeavesMigrations, Freed
<1>16. ASSUME NEW p \in Process, Tick(p) PROVE StartTypeOK'
  <2>1. [pc |-> "table", table |-> 1, batch |-> 1] \in SweeperState
    BY DEF SweeperState
  <2> QED BY <1>16, <2>1 DEF Tick
<1>17. ASSUME NEW p \in Process, StopSweeper(p) PROVE StartTypeOK'
  BY <1>17 DEF StopSweeper
<1>18. ASSUME NEW p \in Process, BeginClose(p) PROVE StartTypeOK'
  BY <1>18 DEF BeginClose
<1>19. ASSUME NEW p \in Process, EndClose(p) PROVE StartTypeOK'
  BY <1>19 DEF EndClose
<1>20. ASSUME NEW p \in Process, Crash(p) PROVE StartTypeOK'
  BY <1>20 DEF Crash, LeavesMigrations, Freed
<1>21. ASSUME NEW p \in Process, Restart(p) PROVE StartTypeOK'
  BY <1>21 DEF Restart
<1>22. CASE UNCHANGED startVars
  BY <1>22 DEF startVars
<1> QED BY <1>1, <1>2, <1>3, <1>4, <1>5, <1>6, <1>7, <1>8, <1>9, <1>10, <1>11,
           <1>12, <1>13, <1>14, <1>15, <1>16, <1>17, <1>18, <1>19, <1>20, <1>21,
           <1>22, ZenonT(40)
       DEF StartNext, Start, Migrate, Sweep

(* The migration being applied is one of the pending ones. *)
LEMMA BoundedStep ==
    ASSUME StartTypeOK, Bounded, [StartNext]_startVars
    PROVE  Bounded'
<1> USE StartupAssumption
<1> USE DEF StartTypeOK, Bounded, Applying, Goes, In
<1>1. ASSUME NEW p \in Process, BeginMigration(p) PROVE Bounded'
  BY <1>1 DEF BeginMigration, Pending
<1>2. ASSUME NEW p \in Process, CommitMigration(p) PROVE Bounded'
  BY <1>2 DEF CommitMigration, CommittedMigration, Freed
<1>3. ASSUME NEW p \in Process,
            \/ Open(p) \/ AcquireLock(p) \/ Bootstrap(p)
            \/ QueryAppliedVersions(p) \/ ExecStatements(p) \/ RecordVersion(p)
            \/ EndMigrations(p) \/ Refused(p) \/ FinishNew(p)
     PROVE  Bounded'
  BY <1>3 DEF Open, AcquireLock, Bootstrap, QueryAppliedVersions, ExecStatements,
            RecordVersion, Recordable, EndMigrations, Pending, LeavesMigrations,
            Freed, Refused, GivesUp, FinishNew
<1>4. ASSUME NEW p \in Process,
            \/ Fail(p) \/ MigrationUnanswered(p) \/ Tick(p) \/ IssueDelete(p)
            \/ EndDelete(p) \/ StopSweeper(p) \/ BeginClose(p) \/ EndClose(p)
            \/ Crash(p)
     PROVE  Bounded'
  BY <1>4 DEF Fail, GivesUp, LeavesMigrations, Freed, MigrationUnanswered,
            CommittedMigration, Tick, IssueDelete, NextTable, EndDelete,
            StopSweeper, BeginClose, EndClose, Crash
<1>5. ASSUME NEW p \in Process, Restart(p) PROVE Bounded'
  BY <1>5 DEF Restart
<1>6. CASE UNCHANGED startVars
  BY <1>6 DEF startVars
<1> QED BY <1>1, <1>2, <1>3, <1>4, <1>5, <1>6, Zenon
       DEF StartNext, Start, Migrate, Sweep

(* A commit adds a version that was not there: its statements ran once. *)
LEMMA CountedStep ==
    ASSUME StartTypeOK, StartTypeOK', Bounded, [StartNext]_startVars, Counted, Exclusive
    PROVE  Counted'
<1> USE DEF StartTypeOK, Exclusive, Counted, Bounded, Applying, Goes, In
<1>1. ASSUME NEW p \in Process, CommitMigration(p) PROVE Counted'
  BY <1>1 DEF CommitMigration, CommittedMigration, Freed
<1>2. ASSUME NEW p \in Process, MigrationUnanswered(p) PROVE Counted'
  BY <1>2 DEF MigrationUnanswered, CommittedMigration, GivesUp, LeavesMigrations, Freed
<1>3. ASSUME NEW p \in Process,
            \/ Open(p) \/ AcquireLock(p) \/ Bootstrap(p)
            \/ QueryAppliedVersions(p) \/ BeginMigration(p)
     PROVE  Counted'
  BY <1>3 DEF Open, AcquireLock, Bootstrap, QueryAppliedVersions, BeginMigration,
            Pending
<1>4. ASSUME NEW p \in Process,
            \/ ExecStatements(p) \/ RecordVersion(p) \/ EndMigrations(p)
            \/ Refused(p) \/ FinishNew(p)
     PROVE  Counted'
  BY <1>4 DEF ExecStatements, RecordVersion, Recordable, EndMigrations, Pending,
            LeavesMigrations, Freed, Refused, GivesUp, FinishNew
<1>5. ASSUME NEW p \in Process,
            \/ Fail(p) \/ Tick(p) \/ IssueDelete(p) \/ EndDelete(p)
            \/ StopSweeper(p)
     PROVE  Counted'
  BY <1>5 DEF Fail, GivesUp, LeavesMigrations, Freed, Tick, IssueDelete, NextTable,
            EndDelete, StopSweeper
<1>6. ASSUME NEW p \in Process,
            BeginClose(p) \/ EndClose(p) \/ Crash(p) \/ Restart(p)
     PROVE  Counted'
  BY <1>6 DEF BeginClose, EndClose, Crash, LeavesMigrations, Freed, Restart
<1>7. CASE UNCHANGED startVars
  BY <1>7 DEF startVars
<1> QED BY <1>1, <1>2, <1>3, <1>4, <1>5, <1>6, <1>7, Zenon
       DEF StartNext, Start, Migrate, Sweep

(* The primary key lets one of several transactions past the INSERT. *)
LEMMA ExclusiveStep ==
    ASSUME StartTypeOK, StartTypeOK', Bounded, [StartNext]_startVars, Exclusive
    PROVE  Exclusive'
<1> USE DEF StartTypeOK, Exclusive, Goes, In
<1>1. ASSUME NEW p \in Process, RecordVersion(p) PROVE Exclusive'
  BY <1>1 DEF RecordVersion, Recordable
<1>2. ASSUME NEW p \in Process, CommitMigration(p) PROVE Exclusive'
  BY <1>2 DEF CommitMigration, CommittedMigration, Freed
<1>3. ASSUME NEW p \in Process, MigrationUnanswered(p) PROVE Exclusive'
  BY <1>3 DEF MigrationUnanswered, CommittedMigration, GivesUp, LeavesMigrations, Freed
<1>4. ASSUME NEW p \in Process,
            \/ Open(p) \/ AcquireLock(p) \/ Bootstrap(p)
            \/ QueryAppliedVersions(p) \/ BeginMigration(p) \/ ExecStatements(p)
            \/ EndMigrations(p) \/ Refused(p) \/ FinishNew(p)
     PROVE  Exclusive'
  BY <1>4 DEF Open, AcquireLock, Bootstrap, QueryAppliedVersions, BeginMigration,
            Pending, ExecStatements, EndMigrations, LeavesMigrations, Freed,
            Refused, GivesUp, FinishNew
<1>5. ASSUME NEW p \in Process,
            \/ Fail(p) \/ Tick(p) \/ IssueDelete(p) \/ EndDelete(p)
            \/ StopSweeper(p) \/ BeginClose(p) \/ EndClose(p) \/ Crash(p)
            \/ Restart(p)
     PROVE  Exclusive'
  BY <1>5 DEF Fail, GivesUp, LeavesMigrations, Freed, Tick, IssueDelete, NextTable,
            EndDelete, StopSweeper, BeginClose, EndClose, Crash, Restart
<1>6. CASE UNCHANGED startVars
  BY <1>6 DEF startVars
<1> QED BY <1>1, <1>2, <1>3, <1>4, <1>5, <1>6, Zenon
       DEF StartNext, Start, Migrate, Sweep

(* The loop passes over versions that are committed, and commits the next. *)
LEMMA OrderedStep ==
    ASSUME StartTypeOK, StartTypeOK', Bounded, [StartNext]_startVars, Ordered
    PROVE  Ordered'
<1> USE StartupAssumption
<1> USE DEF StartTypeOK, Ordered, Applying, Looping, Goes, In
<1>1. ASSUME NEW p \in Process, BeginMigration(p) PROVE Ordered'
  BY <1>1, VersionFacts DEF BeginMigration, Pending, Bounded
<1>2. ASSUME NEW p \in Process, CommitMigration(p) PROVE Ordered'
  <2>1. 1..at[p] \subseteq applied'
    BY <1>2 DEF CommitMigration, CommittedMigration
  <2>2. applied' = applied \cup {at[p]} /\ at'[p] - 1 = at[p]
    BY <1>2 DEF CommitMigration, CommittedMigration
  <2>3. \A v \in applied' : 1..v \subseteq applied'
    BY <2>1, <2>2
  <2> QED BY <1>2, <2>1, <2>2, <2>3 DEF CommitMigration
<1>3. ASSUME NEW p \in Process, MigrationUnanswered(p) PROVE Ordered'
  BY <1>3, VersionFacts, SMTT(30) DEF MigrationUnanswered, CommittedMigration, GivesUp, LeavesMigrations, Bounded
<1>4. ASSUME NEW p \in Process, QueryAppliedVersions(p) PROVE Ordered'
  BY <1>4 DEF QueryAppliedVersions
<1>5. ASSUME NEW p \in Process,
            \/ Open(p) \/ AcquireLock(p) \/ Bootstrap(p) \/ ExecStatements(p)
            \/ RecordVersion(p)
     PROVE  Ordered'
  BY <1>5 DEF Open, AcquireLock, Bootstrap, ExecStatements, RecordVersion,
            Recordable
<1>6. ASSUME NEW p \in Process,
            \/ EndMigrations(p) \/ Refused(p) \/ FinishNew(p) \/ Fail(p)
            \/ Tick(p)
     PROVE  Ordered'
  BY <1>6 DEF EndMigrations, Pending, LeavesMigrations, Freed, Refused, GivesUp,
            FinishNew, Fail, Tick
<1>7. ASSUME NEW p \in Process,
            \/ IssueDelete(p) \/ EndDelete(p) \/ StopSweeper(p) \/ BeginClose(p)
            \/ EndClose(p)
     PROVE  Ordered'
  BY <1>7 DEF IssueDelete, NextTable, EndDelete, StopSweeper, BeginClose, EndClose
<1>8. ASSUME NEW p \in Process,
            Crash(p) \/ Restart(p)
     PROVE  Ordered'
  BY <1>8 DEF Crash, LeavesMigrations, Freed, Restart
<1>9. CASE UNCHANGED startVars
  BY <1>9 DEF startVars
<1> QED BY <1>1, <1>2, <1>3, <1>4, <1>5, <1>6, <1>7, <1>8, <1>9, ZenonT(40)
       DEF StartNext, Start, Migrate, Sweep

(* The loop ends when every version of the binary is committed. *)
LEMMA MigratedStep ==
    ASSUME StartTypeOK, StartTypeOK', Bounded, [StartNext]_startVars, Ordered, Migrated
    PROVE  Migrated'
<1> USE StartupAssumption
<1> USE VersionFacts DEF StartTypeOK, Ordered, Migrated, Looping, Goes, In
<1>1. ASSUME NEW p \in Process, EndMigrations(p) PROVE Migrated'
  BY <1>1 DEF EndMigrations, Pending, LeavesMigrations, Freed
<1>2. ASSUME NEW p \in Process,
            \/ Open(p) \/ AcquireLock(p) \/ Bootstrap(p)
            \/ QueryAppliedVersions(p) \/ BeginMigration(p) \/ ExecStatements(p)
            \/ RecordVersion(p) \/ CommitMigration(p) \/ Refused(p)
     PROVE  Migrated'
  BY <1>2 DEF Open, AcquireLock, Bootstrap, QueryAppliedVersions, BeginMigration,
            Pending, ExecStatements, RecordVersion, Recordable, CommitMigration,
            CommittedMigration, Freed, Refused, GivesUp, LeavesMigrations
<1>3. ASSUME NEW p \in Process,
            \/ FinishNew(p) \/ Fail(p) \/ MigrationUnanswered(p) \/ Tick(p)
            \/ IssueDelete(p) \/ EndDelete(p) \/ StopSweeper(p) \/ BeginClose(p)
            \/ EndClose(p)
     PROVE  Migrated'
  BY <1>3, ZenonT(40) DEF FinishNew, Fail, GivesUp, LeavesMigrations, Freed, MigrationUnanswered,
            CommittedMigration, Tick, IssueDelete, NextTable, EndDelete,
            StopSweeper, BeginClose, EndClose
<1>4. ASSUME NEW p \in Process,
            Crash(p) \/ Restart(p)
     PROVE  Migrated'
  BY <1>4 DEF Crash, LeavesMigrations, Freed, Restart
<1>5. CASE UNCHANGED startVars
  BY <1>5 DEF startVars
<1> QED BY <1>1, <1>2, <1>3, <1>4, <1>5, Zenon
       DEF StartNext, Start, Migrate, Sweep

(* Under the advisory lock nobody else commits a version. *)
LEMMA LockedStep ==
    ASSUME StartTypeOK, StartTypeOK', Bounded, [StartNext]_startVars, Locked
    PROVE  Locked'
<1> USE StartupAssumption
<1> USE VersionFacts DEF StartTypeOK, Locked, Bounded, Applying, Looping, Migrating, Goes, In
<1>1. ASSUME NEW p \in Process, AcquireLock(p) PROVE Locked'
  BY <1>1, ZenonT(40) DEF AcquireLock
<1>2. ASSUME NEW p \in Process, QueryAppliedVersions(p) PROVE Locked'
  BY <1>2 DEF QueryAppliedVersions
<1>3. ASSUME NEW p \in Process, BeginMigration(p) PROVE Locked'
  BY <1>3 DEF BeginMigration, Pending
<1>4. ASSUME NEW p \in Process, CommitMigration(p) PROVE Locked'
  BY <1>4 DEF CommitMigration, CommittedMigration, Freed
<1>5. ASSUME NEW p \in Process, MigrationUnanswered(p) PROVE Locked'
  BY <1>5 DEF MigrationUnanswered, CommittedMigration, GivesUp, LeavesMigrations, Freed
<1>6. ASSUME NEW p \in Process, EndMigrations(p) PROVE Locked'
  BY <1>6 DEF EndMigrations, Pending, LeavesMigrations, Freed
<1>7. ASSUME NEW p \in Process, Refused(p) PROVE Locked'
  BY <1>7 DEF Refused, GivesUp, LeavesMigrations, Freed
<1>8. ASSUME NEW p \in Process,
            \/ Open(p) \/ Bootstrap(p) \/ ExecStatements(p) \/ RecordVersion(p)
            \/ FinishNew(p) \/ Fail(p) \/ Tick(p) \/ IssueDelete(p)
            \/ EndDelete(p)
     PROVE  Locked'
  BY <1>8 DEF Open, Bootstrap, ExecStatements, RecordVersion, Recordable, FinishNew,
            Fail, GivesUp, LeavesMigrations, Freed, Tick, IssueDelete, NextTable,
            EndDelete
<1>9. ASSUME NEW p \in Process,
            \/ StopSweeper(p) \/ BeginClose(p) \/ EndClose(p) \/ Crash(p)
            \/ Restart(p)
     PROVE  Locked'
  BY <1>9 DEF StopSweeper, BeginClose, EndClose, Crash, LeavesMigrations, Freed,
            Restart
<1>10. CASE UNCHANGED startVars
  BY <1>10 DEF startVars
<1> QED BY <1>1, <1>2, <1>3, <1>4, <1>5, <1>6, <1>7, <1>8, <1>9, <1>10, ZenonT(40)
       DEF StartNext, Start, Migrate, Sweep

(* The sweeper lives between the end of New and the end of Close. *)
LEMMA SweepingStep ==
    ASSUME StartTypeOK, StartTypeOK', Bounded, [StartNext]_startVars, Sweeping
    PROVE  Sweeping'
<1> USE DEF StartTypeOK, Sweeping, Goes, In, NoSweeper, Waiting, Stopped, Starting, Finished,
          Migrating
<1>1. ASSUME NEW p \in Process, FinishNew(p) PROVE Sweeping'
  BY <1>1, ZenonT(40) DEF FinishNew
<1>2. ASSUME NEW p \in Process, EndClose(p) PROVE Sweeping'
  BY <1>2 DEF EndClose
<1>3. ASSUME NEW p \in Process,
            \/ Open(p) \/ AcquireLock(p) \/ Bootstrap(p)
            \/ QueryAppliedVersions(p) \/ BeginMigration(p) \/ ExecStatements(p)
            \/ RecordVersion(p) \/ CommitMigration(p) \/ EndMigrations(p)
     PROVE  Sweeping'
  BY <1>3, ZenonT(40) DEF Open, AcquireLock, Bootstrap, QueryAppliedVersions, BeginMigration,
            Pending, ExecStatements, RecordVersion, Recordable, CommitMigration,
            CommittedMigration, Freed, EndMigrations, LeavesMigrations
<1>4. ASSUME NEW p \in Process,
            \/ Refused(p) \/ Fail(p) \/ MigrationUnanswered(p) \/ Tick(p)
            \/ IssueDelete(p) \/ EndDelete(p) \/ StopSweeper(p) \/ BeginClose(p)
            \/ Crash(p)
     PROVE  Sweeping'
  BY <1>4 DEF Refused, GivesUp, LeavesMigrations, Freed, Fail, MigrationUnanswered,
            CommittedMigration, Tick, IssueDelete, NextTable, EndDelete,
            StopSweeper, BeginClose, Crash
<1>5. ASSUME NEW p \in Process, Restart(p) PROVE Sweeping'
  BY <1>5 DEF Restart
<1>6. CASE UNCHANGED startVars
  BY <1>6 DEF startVars
<1> QED BY <1>1, <1>2, <1>3, <1>4, <1>5, <1>6, ZenonT(40)
       DEF StartNext, Start, Migrate, Sweep

(* Before the first start nothing is committed and nobody runs. *)
LEMMA InitInvariant == ASSUME StartInit PROVE StartInv
<1> USE StartupAssumption
<1>1. NoSweeper \in SweeperState
  BY DEF SweeperState
<1>2. execs \in [Version -> Nat] /\ at \in [Process -> Nat \ {0}]
  BY DEF StartInit
<1>3. StartTypeOK
  BY <1>1, <1>2, Zenon DEF StartInit, StartTypeOK
<1>4. Bounded /\ Counted /\ Exclusive /\ Ordered /\ Migrated /\ Locked /\ Sweeping
  BY DEF StartInit, Bounded, Counted, Exclusive, Ordered, Migrated, Locked, Sweeping, In,
         Applying, Looping, Migrating, NoSweeper
<1> QED BY <1>3, <1>4, Zenon DEF StartInv

(* No process, crash or failing call leaves the invariant. *)
LEMMA Inductive == StartSpec => []StartInv
<1>1. StartInit => StartInv
  BY InitInvariant
<1>2. StartInv /\ [StartNext]_startVars => StartInv'
  <2> SUFFICES ASSUME StartInv, [StartNext]_startVars PROVE StartInv'
    OBVIOUS
  <2>1. StartTypeOK' /\ Bounded'
    BY TypeStep, BoundedStep, Zenon DEF StartInv
  <2>2. Counted' /\ Exclusive'
    BY <2>1, CountedStep, ExclusiveStep, Zenon DEF StartInv
  <2>3. Ordered' /\ Migrated'
    BY <2>1, OrderedStep, MigratedStep, Zenon DEF StartInv
  <2>4. Locked' /\ Sweeping'
    BY <2>1, LockedStep, SweepingStep, Zenon DEF StartInv
  <2> QED BY <2>1, <2>2, <2>3, <2>4, Zenon DEF StartInv
<1> QED BY <1>1, <1>2, PTL DEF StartSpec

(* Every process, the migrations table, its locks and the sweepers keep their types
   while New, runMigrations and Close run. *)
THEOREM StartTypeCorrect == StartSpec => []StartTypeOK
<1>1. StartInv => StartTypeOK
  BY DEF StartInv
<1> QED BY <1>1, Inductive, PTL

(* The statements of a migration are committed once at most and in the order of
   the versions, however many processes run runMigrations at the same time. *)
THEOREM MigrationsOnce == StartSpec => []AppliedOnceInOrder
<1>1. StartInv => AppliedOnceInOrder
  BY DEF StartInv, Counted, Ordered, AppliedOnceInOrder
<1> QED BY <1>1, Inductive, PTL

(* New returns a registry to a process only when the schema of its binary is
   complete. *)
THEOREM SchemaComplete == StartSpec => []StartedIsMigrated
<1>1. StartInv => StartedIsMigrated
  BY DEF StartInv, Migrated, StartedIsMigrated
<1> QED BY <1>1, Inductive, PTL

(* Under acquireMigrationLock no INSERT into schema_migrations is refused. *)
THEOREM LockSuffices == StartSpec => []NeverRefused
<1>1. StartInv => NeverRefused
  BY DEF StartInv, Locked, NeverRefused, In
<1> QED BY <1>1, Inductive, PTL

(* waitStopped keeps db.Close behind the last DELETE of the sweeper. *)
THEOREM SweeperEndsFirst == StartSpec => []DeletesWhileOpen
<1>1. StartInv => DeletesWhileOpen
  BY DEF StartInv, Sweeping, DeletesWhileOpen
<1> QED BY <1>1, Inductive, PTL

(***************************************************************************)
(* The services of a process: nothing of a service is under way once its   *)
(* Stop has returned, for every list of services with at most one API      *)
(* server and one P2P client, and every number of message loops.  The      *)
(* inductive invariant is LifeInv.                                         *)
(***************************************************************************)

MainPC == {"start", "read", "wait", "running", "stop", "defer", "exited", "killed"}
Main == [pc : MainPC, at : 1..Len(Services), channel : 0..MaxReady]

(* The service was told to stop and has ended, or Stop gave up on it. *)
Ended(s) == s \in cancelled /\ (Drained(s) \/ s \in timedOut)

(* The context of a service is cancelled behind main only: when main stops the
   service main.at, those after it have ended and those before it run. *)
InOrder ==
    /\ main.pc \in {"start", "read", "wait", "running"} => cancelled = {}
    /\ main.pc = "running" => main.at = Len(Services)
    /\ main.pc = "stop" =>
           \A n \in 1..Len(Services) :
               /\ n > main.at => Ended(Services[n])
               /\ n < main.at => Services[n] \notin cancelled
    /\ main.pc \in {"defer", "exited"} => \A s \in Service : Ended(s)

(* The message loops belong to a P2P client, and try as often as they may. *)
Loops ==
    \A g \in Loop :
        /\ loop[g].pc # "none" => \E s \in Service : Kind[s] = "p2p"
        /\ loop[g].pc = "sleep" => loop[g].attempt < MaxPublishRetries

(* A producer is closed by the deferred calls of main only, and who panics on
   it is a loop that Stop gave up on. *)
Producers ==
    /\ producers # Loop => main.pc \in {"defer", "exited", "killed"}
    /\ panicked => \E s \in timedOut : Kind[s] = "p2p"

LifeInv == LifeTypeOK /\ InOrder /\ Loops /\ Producers

-----------------------------------------------------------------------------
(* Where main goes. *)
LEMMA MainMoves ==
    ASSUME main \in Main
    PROVE  /\ main.pc \in MainPC /\ main.at \in 1..Len(Services)
           /\ NextStart =>
                  /\ main' \in Main
                  /\ \/ main.at = Len(Services) /\ main'.pc = "running" /\ main'.at = main.at
                     \/ main'.pc = "start"
           /\ NextStop =>
                  /\ main' \in Main
                  /\ \/ main.at = 1 /\ main'.pc = "defer"
                     \/ main.at # 1 /\ main'.pc = main.pc /\ main'.at = main.at - 1
           /\ Kill => main' \in Main /\ main'.pc = "killed"
<1>1. Len(Services) \in Nat \ {0} /\ MaxReady \in Nat \ {0}
  BY LifeAssumption
<1>2. main.pc \in MainPC /\ main.at \in 1..Len(Services) /\ main.channel \in 0..MaxReady
  BY DEF Main
<1>3. ASSUME NextStart
      PROVE  /\ main' \in Main
             /\ \/ main.at = Len(Services) /\ main'.pc = "running" /\ main'.at = main.at
                \/ main'.pc = "start"
  <2>1. CASE main.at = Len(Services)
    <3>1. main' = [pc |-> "running", at |-> main.at, channel |-> 0]
      BY <1>3, <2>1, Zenon DEF NextStart, Main
    <3> QED BY <1>1, <1>2, <2>1, <3>1 DEF Main, MainPC
  <2>2. CASE main.at # Len(Services)
    <3>1. main' = [pc |-> "start", at |-> main.at + 1, channel |-> 0]
      BY <1>3, <2>2, Zenon DEF NextStart, Main
    <3> QED BY <1>1, <1>2, <2>2, <3>1 DEF Main, MainPC
  <2> QED BY <2>1, <2>2
<1>4. ASSUME NextStop
      PROVE  /\ main' \in Main
             /\ \/ main.at = 1 /\ main'.pc = "defer"
                \/ main.at # 1 /\ main'.pc = main.pc /\ main'.at = main.at - 1
  BY <1>1, <1>2, <1>4 DEF NextStop, Main, MainPC
<1>5. ASSUME Kill PROVE main' \in Main /\ main'.pc = "killed"
  BY <1>5 DEF Kill, Main, MainPC
<1> QED BY <1>2, <1>3, <1>4, <1>5

LoopPC == {"none", "idle", "publish", "sleep", "ended"}
LoopState == [pc : LoopPC, attempt : 0..MaxPublishRetries]

(* One goroutine moves on, the others stay where they are. *)
LEMMA LoopMoves ==
    ASSUME loop \in [Loop -> LoopState], NEW g \in Loop, NEW place \in LoopPC,
           NEW n \in 0..MaxPublishRetries, LoopGoes(g, place, n)
    PROVE  /\ loop' \in [Loop -> LoopState]
           /\ loop'[g].pc = place /\ loop'[g].attempt = n
           /\ \A h \in Loop : h # g => loop'[h] = loop[h]
<1> DEFINE l == [pc |-> place, attempt |-> n]
<1>1. l \in LoopState /\ l.pc = place /\ l.attempt = n
  BY DEF LoopState
<1>2. loop' = [loop EXCEPT ![g] = l]
  BY DEF LoopGoes
<1> HIDE DEF l
<1> QED BY <1>1, <1>2, Zenon

(* The fields of a goroutine. *)
LEMMA LoopFacts ==
    ASSUME loop \in [Loop -> LoopState], NEW g \in Loop
    PROVE  loop[g].pc \in LoopPC /\ loop[g].attempt \in 0..MaxPublishRetries
BY DEF LoopState

(* The bounds of the attempts of publishWithRetry, and the places they lead to. *)
LEMMA LoopBounds ==
    /\ MaxPublishRetries \in Nat \ {0} /\ MaxReceive \in Nat
    /\ 0 \in 0..MaxPublishRetries /\ 1 \in 0..MaxPublishRetries
    /\ "idle" \in LoopPC /\ "publish" \in LoopPC /\ "sleep" \in LoopPC /\ "ended" \in LoopPC
BY LifeAssumption DEF LoopPC

(* The fault budget of a call that works or fails. *)
LEMMA FaultTypes ==
    ASSUME LifeTypeOK
    PROVE  Works \/ Fails => lifeFaults' \in 0..MaxLifeFault
BY LifeAssumption DEF LifeTypeOK, Works, Fails

GroupPC == {"none", "join", "session", "handling", "ended"}

(* LifeTypeOK with its sets named. *)
Types ==
    /\ main \in Main
    /\ cancelled \subseteq Service /\ timedOut \subseteq cancelled
    /\ group \in [Consumer -> GroupPC]
    /\ ready \in [Consumer -> 1..MaxReady]
    /\ closed \in [Consumer -> SUBSET (1..MaxReady)]
    /\ requests \in {0, 1}
    /\ loop \in [Loop -> LoopState]
    /\ producers \subseteq Loop /\ registry \in BOOLEAN
    /\ panicked \in BOOLEAN
    /\ received \in 0..MaxReceive /\ lifeFaults \in 0..MaxLifeFault

(* The two forms of the types are one. *)
LEMMA TypesAre == LifeTypeOK <=> Types
BY DEF LifeTypeOK, Types, Main, MainPC, LoopState, LoopPC, GroupPC

(* Every step keeps the types. *)
LEMMA LifeTypeStep ==
    ASSUME LifeInv, LifeNext
    PROVE  Types'
<1> USE DEF Types
<1>0. Types /\ Loops
  BY TypesAre, ZenonT(40) DEF LifeInv
<1>1. ASSUME NEW s \in Service, StartApi(s) PROVE Types'
  BY <1>0, <1>1, MainMoves DEF StartApi
<1>2. ASSUME NEW s \in Service, StartP2P(s) PROVE Types'
  <2>1. IdleLoop \in LoopState
    BY LifeAssumption DEF IdleLoop, LoopState, LoopPC
  <2>2. loop' \in [Loop -> LoopState]
    BY <1>0, <1>2, <2>1, ZenonT(40) DEF StartP2P
  <2>3. main' \in Main /\ lifeFaults' \in 0..MaxLifeFault
    BY <1>0, <1>2, MainMoves, FaultTypes, TypesAre DEF StartP2P
  <2> QED BY <1>0, <1>2, <2>2, <2>3, ZenonT(40) DEF StartP2P
<1>3. ASSUME NEW s \in Service, Cancel(s) PROVE Types'
  BY <1>0, <1>3 DEF Cancel
<1>4. ASSUME NEW s \in Service, StopReturns(s) PROVE Types'
  <2>1. main' \in Main /\ lifeFaults' \in 0..MaxLifeFault
    BY <1>0, <1>4, MainMoves, FaultTypes, TypesAre DEF StopReturns
  <2>2. timedOut' \subseteq cancelled
    BY <1>0, <1>4 DEF StopReturns
  <2> QED BY <1>0, <1>4, <2>1, <2>2, ZenonT(40) DEF StopReturns
<1>5. ASSUME NEW s \in Consumer, StartConsumer(s) PROVE Types'
  <2>1. main' \in Main
    BY <1>0, <1>5, ZenonT(40) DEF StartConsumer, Main, MainPC
  <2>2. group' \in [Consumer -> GroupPC]
    BY <1>0, <1>5 DEF StartConsumer, GroupPC
  <2> QED BY <1>0, <1>5, <2>1, <2>2, Zenon DEF StartConsumer
<1>6. ASSUME NEW s \in Consumer, ReadReady(s) PROVE Types'
  <2>1. PICK n \in 1..ready[s] : main' = [main EXCEPT !.pc = "wait", !.channel = n]
    BY <1>6, Zenon DEF ReadReady
  <2>2. n \in 0..MaxReady
    BY <1>0, LifeAssumption
  <2>3. main' = [pc |-> "wait", at |-> main.at, channel |-> n]
    BY <1>0, <2>1, Zenon DEF Main
  <2>4. main' \in Main
    BY <1>0, <2>2, <2>3 DEF Main, MainPC
  <2> QED BY <1>0, <1>6, <2>4, Zenon DEF ReadReady
<1>7. ASSUME NEW s \in Consumer, Ready(s) PROVE Types'
  BY <1>0, <1>7, MainMoves DEF Ready
<1>8. ASSUME NEW g \in Loop, CloseProducer(g) PROVE Types'
  BY <1>0, <1>8 DEF CloseProducer
<1>9. ASSUME CloseRegistry PROVE Types'
  BY <1>0, <1>9, Zenon DEF CloseRegistry
<1>10. ASSUME Exit PROVE Types'
  <2>1. main' \in Main
    BY <1>0, <1>10 DEF Exit, Main, MainPC
  <2> QED BY <1>0, <1>10, <2>1, Zenon DEF Exit
<1>11. ASSUME Signal PROVE Types'
  <2>1. main' \in Main
    BY <1>0, <1>11, MainMoves, Zenon DEF Signal, Main, MainPC
  <2> QED BY <1>0, <1>11, <2>1, Zenon DEF Signal
<1>12. ASSUME NEW s \in Service, BeginRequest(s) PROVE Types'
  BY <1>0, <1>12 DEF BeginRequest
<1>13. ASSUME EndRequest PROVE Types'
  BY <1>0, <1>13 DEF EndRequest
<1>14. ASSUME NEW s \in Consumer, Setup(s) PROVE Types'
  <2>1. group' \in [Consumer -> GroupPC]
    BY <1>0, <1>14 DEF Setup, GroupPC
  <2>2. closed' \in [Consumer -> SUBSET (1..MaxReady)]
    BY <1>0, <1>14 DEF Setup
  <2> QED BY <1>0, <1>14, <2>1, <2>2, Zenon DEF Setup
<1>15. ASSUME NEW s \in Consumer, Handle(s) \/ Handled(s) PROVE Types'
  <2>1. group' \in [Consumer -> GroupPC]
    BY <1>0, <1>15 DEF Handle, Handled, GroupPC
  <2> QED BY <1>0, <1>15, <2>1, Zenon DEF Handle, Handled
<1>16. ASSUME NEW s \in Consumer, ConsumeReturns(s) PROVE Types'
  <2>1. group' \in [Consumer -> GroupPC]
    BY <1>0, <1>16 DEF ConsumeReturns, GroupPC
  <2>2. ready' \in [Consumer -> 1..MaxReady]
    <3>1. ready[s] < MaxReady => ready[s] + 1 \in 1..MaxReady
      BY <1>0, LifeAssumption
    <3> QED BY <1>0, <1>16, <3>1, ZenonT(40) DEF ConsumeReturns
  <2>3. lifeFaults' \in 0..MaxLifeFault
    BY <1>0, <1>16, FaultTypes, TypesAre DEF ConsumeReturns, Works
  <2> QED BY <1>0, <1>16, <2>1, <2>2, <2>3, Zenon DEF ConsumeReturns
<1>17. ASSUME NEW g \in Loop, Receive(g) PROVE Types'
  <2>1. loop' \in [Loop -> LoopState]
    BY <1>0, <1>17, LoopMoves, LoopBounds, ZenonT(40) DEF Receive
  <2>2. received' \in 0..MaxReceive
    <3>1. received \in 0..MaxReceive /\ received < MaxReceive /\ received' = received + 1
      BY <1>0, <1>17, ZenonT(40) DEF Receive
    <3> QED BY <3>1, LoopBounds
  <2> QED BY <1>0, <1>17, <2>1, <2>2, ZenonT(40) DEF Receive
<1>18. ASSUME NEW g \in Loop, EndLoop(g) PROVE Types'
  <2>1. loop' \in [Loop -> LoopState]
    BY <1>0, <1>18, LoopMoves, LoopBounds, ZenonT(40) DEF EndLoop
  <2> QED BY <1>0, <1>18, <2>1, ZenonT(40) DEF EndLoop
<1>19. ASSUME NEW g \in Loop, Publish(g) PROVE Types'
  <2>1. loop' \in [Loop -> LoopState]
    <3>1. loop[g].attempt \in 0..MaxPublishRetries /\ 0 \in 0..MaxPublishRetries
      BY <1>0, LoopFacts, LifeAssumption
    <3> QED BY <1>0, <1>19, <3>1, LoopMoves DEF Publish, LoopPC
  <2>2. main' \in Main /\ lifeFaults' \in 0..MaxLifeFault /\ panicked' \in BOOLEAN
    BY <1>0, <1>19, MainMoves, FaultTypes, TypesAre, Zenon DEF Publish
  <2> QED BY <1>0, <1>19, <2>1, <2>2, ZenonT(40) DEF Publish
<1>20. ASSUME NEW g \in Loop, Wake(g) PROVE Types'
  <2>1. loop[g].attempt + 1 \in 0..MaxPublishRetries
    <3>1. loop[g].attempt \in 0..MaxPublishRetries /\ loop[g].attempt < MaxPublishRetries
      BY <1>0, <1>20, LoopFacts, ZenonT(40) DEF Wake, Loops
    <3> QED BY <3>1, LoopBounds
  <2>2. loop' \in [Loop -> LoopState]
    BY <1>0, <1>20, <2>1, LoopMoves DEF Wake, LoopPC
  <2> QED BY <1>0, <1>20, <2>2, ZenonT(40) DEF Wake
<1> HIDE DEF Types
<1> QED
  BY <1>1, <1>2, <1>3, <1>4, <1>5, <1>6, <1>7, <1>8, <1>9, <1>10, <1>11, <1>12, <1>13,
     <1>14, <1>15, <1>16, <1>17, <1>18, <1>19, <1>20, ZenonT(40) DEF LifeNext, MainStep

-----------------------------------------------------------------------------
(* There is one API server and one P2P client. *)
LEMMA OneOfAKind ==
    ASSUME NEW s \in Service, NEW t \in Service, Kind[s] = Kind[t], Kind[s] # "consumer"
    PROVE  s = t
BY LifeAssumption, ZenonT(40) DEF Service

(* A service that has ended stays so: nobody joins its group again, restarts
   its loops or opens a request. *)
LEMMA EndedStays ==
    ASSUME LifeInv, LifeNext, NEW s \in Service, Ended(s)
    PROVE  Ended(s)'
<1>0. Types /\ InOrder /\ s \in cancelled
  BY TypesAre DEF LifeInv, Ended
<1>1. main.pc \notin {"start", "read", "wait", "running"}
  BY <1>0 DEF InOrder
<1>2. cancelled \subseteq cancelled' /\ timedOut \subseteq timedOut'
  BY Zenon DEF LifeNext, MainStep, StartApi, StartP2P, Cancel, StopReturns, StartConsumer,
     ReadReady, Ready, CloseProducer, CloseRegistry, Exit, Signal, BeginRequest, EndRequest,
     Setup, Handle, Handled, ConsumeReturns, Receive, EndLoop, Publish, Wake
<1>3. CASE s \in timedOut
  BY <1>0, <1>2, <1>3 DEF Ended
<1>4. CASE Kind[s] = "api" /\ RequestsEnded
  <2>1. \A t \in Service : ~BeginRequest(t)
    BY <1>0, <1>4, OneOfAKind DEF BeginRequest, ApiServes
  <2>2. ~EndRequest
    BY <1>4 DEF EndRequest, RequestsEnded
  <2>3. requests' = requests
    BY <2>1, <2>2, ZenonT(40) DEF LifeNext, MainStep, StartApi, StartP2P, Cancel,
       StopReturns, StartConsumer, ReadReady, Ready, CloseProducer, CloseRegistry, Exit,
       Signal, Setup, Handle, Handled, ConsumeReturns, Receive, EndLoop, Publish, Wake
  <2> QED BY <1>0, <1>2, <1>4, <2>3 DEF Ended, Drained, RequestsEnded
<1>5. CASE Kind[s] = "p2p" /\ LoopsEnded
  <2>1. \A g \in Loop : loop[g].pc \notin {"idle", "publish", "sleep"}
    BY <1>5 DEF LoopsEnded
  <2>2. \A g \in Loop : ~Receive(g) /\ ~EndLoop(g) /\ ~Publish(g) /\ ~Wake(g)
    BY <2>1, ZenonT(40) DEF Receive, EndLoop, Publish, Wake
  <2>3. \A t \in Service : ~StartP2P(t)
    BY <1>1 DEF StartP2P, Starts
  <2>4. loop' = loop
    BY <2>2, <2>3, ZenonT(40) DEF LifeNext, MainStep, StartApi, Cancel, StopReturns, StartConsumer,
       ReadReady, Ready, CloseProducer, CloseRegistry, Exit, Signal, BeginRequest,
       EndRequest, Setup, Handle, Handled, ConsumeReturns
  <2> QED BY <1>0, <1>2, <1>5, <2>4 DEF Ended, Drained, LoopsEnded
<1>6. CASE Kind[s] = "consumer" /\ GroupEnded(s)
  <2>0. s \in Consumer /\ group[s] = "ended"
    BY <1>6 DEF Consumer, GroupEnded
  <2>1. ASSUME NEW t \in Consumer,
               Setup(t) \/ Handle(t) \/ Handled(t) \/ ConsumeReturns(t)
        PROVE  group'[s] = "ended"
    <3>1. t # s
      BY <2>0, <2>1 DEF Setup, Handle, Handled, ConsumeReturns
    <3>2. \E x : group' = [group EXCEPT ![t] = x]
      BY <2>1, Zenon DEF Setup, Handle, Handled, ConsumeReturns
    <3> QED BY <1>0, <2>0, <3>1, <3>2, ZenonT(40) DEF Types
  <2>2. \A t \in Consumer : ~StartConsumer(t)
    BY <1>1 DEF StartConsumer, Starts
  <2>3. group'[s] = "ended"
    <3>1. CASE \E t \in Consumer : Setup(t) \/ Handle(t) \/ Handled(t) \/ ConsumeReturns(t)
      BY <2>1, <3>1
    <3>2. CASE ~\E t \in Consumer : Setup(t) \/ Handle(t) \/ Handled(t) \/ ConsumeReturns(t)
      <4>1. group' = group
        BY <2>2, <3>2, Zenon DEF LifeNext, MainStep, StartApi, StartP2P, Cancel, StopReturns,
           ReadReady, Ready, CloseProducer, CloseRegistry, Exit, Signal, BeginRequest,
           EndRequest, Receive, EndLoop, Publish, Wake
      <4> QED BY <2>0, <4>1
    <3> QED BY <3>1, <3>2
  <2> QED BY <1>0, <1>2, <1>6, <2>3 DEF Ended, Drained, GroupEnded
<1> QED BY <1>3, <1>4, <1>5, <1>6 DEF Ended, Drained

(* main stays where it is, goes on starting services, or gets the signal. *)
MainStays == main' = main /\ UNCHANGED cancelled
MainStarts ==
    /\ main.pc \in {"start", "read", "wait"} /\ UNCHANGED cancelled
    /\ \/ main'.pc \in {"start", "read", "wait"}
       \/ main'.pc = "running" /\ main'.at = Len(Services)
MainSignalled ==
    main.pc = "running" /\ main'.pc = "stop" /\ main'.at = main.at /\ UNCHANGED cancelled
MainExits == main.pc = "defer" /\ main'.pc = "exited" /\ UNCHANGED cancelled

(* Every step is one of these, seen from main. *)
LEMMA MainSteps ==
    ASSUME LifeInv, LifeNext
    PROVE  \/ MainStays \/ MainStarts \/ MainSignalled \/ MainExits \/ main'.pc = "killed"
           \/ \E s \in Service : Cancel(s) \/ StopReturns(s)
<1>0. main \in Main
  BY TypesAre DEF LifeInv, Types
<1>1. \A s \in Service : StartApi(s) => MainStarts
  BY <1>0, MainMoves DEF StartApi, Starts, MainStarts
<1>2. \A s \in Service : StartP2P(s) => MainStarts \/ main'.pc = "killed"
  <2> SUFFICES ASSUME NEW s \in Service, StartP2P(s)
               PROVE  MainStarts \/ main'.pc = "killed"
    OBVIOUS
  <2>1. main.pc = "start" /\ UNCHANGED cancelled /\ (NextStart \/ Kill)
    BY ZenonT(40) DEF StartP2P, Starts
  <2> QED BY <1>0, <2>1, MainMoves DEF MainStarts
<1>3. \A s \in Consumer : StartConsumer(s) => MainStarts
  <2> SUFFICES ASSUME NEW s \in Consumer, StartConsumer(s) PROVE MainStarts
    OBVIOUS
  <2>1. main.pc = "start" /\ UNCHANGED cancelled /\ main' = [main EXCEPT !.pc = "read"]
    BY DEF StartConsumer, Starts
  <2>2. main'.pc = "read"
    BY <1>0, <2>1, Zenon DEF Main
  <2> QED BY <2>1, <2>2 DEF MainStarts
<1>4. \A s \in Consumer : ReadReady(s) => MainStarts
  <2> SUFFICES ASSUME NEW s \in Consumer, ReadReady(s) PROVE MainStarts
    OBVIOUS
  <2>1. PICK n : main' = [main EXCEPT !.pc = "wait", !.channel = n]
    BY Zenon DEF ReadReady
  <2>2. main.pc = "read" /\ UNCHANGED cancelled
    BY DEF ReadReady
  <2>3. main'.pc = "wait"
    BY <1>0, <2>1 DEF Main
  <2> QED BY <2>2, <2>3 DEF MainStarts
<1>5. \A s \in Consumer : Ready(s) => MainStarts
  <2> SUFFICES ASSUME NEW s \in Consumer, Ready(s) PROVE MainStarts
    OBVIOUS
  <2>1. main.pc = "wait" /\ UNCHANGED cancelled /\ NextStart
    BY DEF Ready
  <2> QED BY <1>0, <2>1, MainMoves DEF MainStarts
<1>6. Exit => MainExits
  BY <1>0 DEF Exit, Main, MainExits
<1>7. Signal => MainSignalled \/ main'.pc = "killed"
  BY <1>0, MainMoves DEF Signal, Main, MainSignalled
<1>8. \A g \in Loop : Publish(g) => MainStays \/ main'.pc = "killed"
  BY <1>0, MainMoves, ZenonT(40) DEF Publish, MainStays
<1>9. ASSUME \/ \E g \in Loop : CloseProducer(g) \/ Receive(g) \/ EndLoop(g) \/ Wake(g)
             \/ CloseRegistry \/ EndRequest
             \/ \E s \in Service : BeginRequest(s)
             \/ \E s \in Consumer : Setup(s) \/ Handle(s) \/ Handled(s) \/ ConsumeReturns(s)
      PROVE  MainStays
  BY <1>9, Zenon DEF MainStays, CloseProducer, Receive, EndLoop, Wake, CloseRegistry,
     EndRequest, BeginRequest, Setup, Handle, Handled, ConsumeReturns
<1> QED
  BY <1>1, <1>2, <1>3, <1>4, <1>5, <1>6, <1>7, <1>8, <1>9, Zenon DEF LifeNext, MainStep

(* main starts the services in order and stops them in reverse. *)
LEMMA InOrderStep ==
    ASSUME LifeInv, LifeNext
    PROVE  InOrder'
<1>0. main \in Main /\ Types /\ InOrder
  BY TypesAre DEF LifeInv, Types
<1>1. main.at \in 1..Len(Services) /\ Len(Services) \in Nat \ {0}
  BY <1>0, LifeAssumption, ZenonT(40) DEF Main
<1>2. \A n \in 1..Len(Services) : Services[n] \in Service
  BY DEF Service
<1>3. \A s \in Service : Ended(s) => Ended(s)'
  BY EndedStays
<1>4. CASE MainStays
  BY <1>0, <1>2, <1>3, <1>4 DEF InOrder, MainStays
<1>5. CASE MainStarts
  BY <1>0, <1>5 DEF InOrder, MainStarts
<1>6. CASE MainSignalled
  BY <1>0, <1>1, <1>6 DEF InOrder, MainSignalled
<1>7. CASE MainExits
  BY <1>0, <1>2, <1>3, <1>7 DEF InOrder, MainExits
<1>8. CASE main'.pc = "killed"
  BY <1>8 DEF InOrder
<1>9. ASSUME NEW s \in Service, Cancel(s) PROVE InOrder'
  <2>1. /\ main.pc = "stop" /\ main' = main /\ s = Services[main.at]
        /\ cancelled' = cancelled \cup {s}
    BY <1>9 DEF Cancel, Stops
  <2>2. \A n \in 1..Len(Services) : n < main.at => Services[n] # s
    BY <1>1, <2>1, LifeAssumption
  <2> QED BY <1>0, <1>2, <1>3, <2>1, <2>2 DEF InOrder
<1>10. ASSUME NEW s \in Service, StopReturns(s) PROVE InOrder'
  <2>1. /\ main.pc = "stop" /\ s = Services[main.at] /\ s \in cancelled
        /\ cancelled' = cancelled /\ NextStop
    BY <1>10 DEF StopReturns, Stops
  <2>2. Ended(s)'
    <3>1. CASE Drained(s)
      BY <1>3, <2>1, <3>1 DEF Ended
    <3>2. CASE ~Drained(s)
      BY <1>10, <2>1, <3>2, ZenonT(40) DEF Ended, StopReturns
    <3> QED BY <3>1, <3>2
  <2>3. \A n \in 1..Len(Services) : n >= main.at => Ended(Services[n])'
    <3> TAKE n \in 1..Len(Services)
    <3> HAVE n >= main.at
    <3>1. CASE n = main.at
      BY <2>1, <2>2, <3>1
    <3>2. CASE n # main.at
      BY <1>0, <1>1, <1>2, <1>3, <2>1, <3>2 DEF InOrder
    <3> QED BY <3>1, <3>2
  <2>4. CASE main.at = 1
    <3>1. main'.pc = "defer"
      BY <1>0, <2>1, <2>4, MainMoves
    <3>2. \A t \in Service : Ended(t)'
      BY <1>1, <2>3, <2>4 DEF Service
    <3> QED BY <3>1, <3>2 DEF InOrder
  <2>5. CASE main.at # 1
    <3>1. main'.pc = "stop" /\ main'.at = main.at - 1
      BY <1>0, <2>1, <2>5, MainMoves
    <3> QED BY <1>0, <1>1, <2>1, <2>3, <3>1 DEF InOrder
  <2> QED BY <2>4, <2>5
<1> QED BY <1>4, <1>5, <1>6, <1>7, <1>8, <1>9, <1>10, MainSteps, ZenonT(40)

(* No goroutine of a message loop runs without a P2P client. *)
LEMMA LoopsStep ==
    ASSUME LifeInv, LifeNext
    PROVE  Loops'
<1>0. Types /\ Loops /\ loop \in [Loop -> LoopState]
  BY TypesAre, ZenonT(40) DEF LifeInv, Types
<1>1. ASSUME NEW s \in Service, StartP2P(s) PROVE Loops'
  <2>1. CASE loop' = [g \in Loop |-> IdleLoop]
    BY <1>1, <2>1 DEF Loops, StartP2P, IdleLoop
  <2>2. CASE loop' = loop
    BY <1>0, <2>2 DEF Loops
  <2> QED BY <1>1, <2>1, <2>2 DEF StartP2P
<1>2. ASSUME NEW g \in Loop, NEW place \in LoopPC, NEW n \in 0..MaxPublishRetries,
             loop[g].pc # "none", LoopGoes(g, place, n), place = "sleep" => n < MaxPublishRetries
      PROVE  Loops'
  <2>1. /\ loop'[g].pc = place /\ loop'[g].attempt = n
        /\ \A h \in Loop : h # g => loop'[h] = loop[h]
    BY <1>0, <1>2, LoopMoves
  <2> QED BY <1>0, <1>2, <2>1 DEF Loops
<1>3. 0 \in 0..MaxPublishRetries /\ 1 \in 0..MaxPublishRetries
  BY LifeAssumption
<1>4. ASSUME NEW g \in Loop, Receive(g) PROVE Loops'
  BY <1>2, <1>3, <1>4 DEF Receive, LoopPC
<1>5. ASSUME NEW g \in Loop, EndLoop(g) PROVE Loops'
  BY <1>2, <1>3, <1>5 DEF EndLoop, LoopPC
<1>6. ASSUME NEW g \in Loop, Publish(g) PROVE Loops'
  <2>1. loop[g].attempt \in 0..MaxPublishRetries
    BY <1>0, LoopFacts
  <2>2. loop[g].attempt # MaxPublishRetries => loop[g].attempt < MaxPublishRetries
    BY <2>1, LifeAssumption
  <2>3. CASE loop' = loop
    BY <1>0, <2>3 DEF Loops
  <2>4. CASE LoopGoes(g, "idle", 0)
    BY <1>2, <1>3, <1>6, <2>4, ZenonT(40) DEF Publish, LoopPC
  <2>5. CASE LoopGoes(g, "sleep", loop[g].attempt) /\ ~Exhausted(loop[g].attempt)
    BY <1>2, <1>6, <2>1, <2>2, <2>5, ZenonT(40) DEF Publish, LoopPC, Exhausted
  <2> QED BY <1>6, <2>3, <2>4, <2>5, Zenon DEF Publish
<1>7. ASSUME NEW g \in Loop, Wake(g) PROVE Loops'
  <2>1. loop[g].attempt + 1 \in 0..MaxPublishRetries
    <3>1. loop[g].attempt \in 0..MaxPublishRetries /\ loop[g].attempt < MaxPublishRetries
      BY <1>0, <1>7, LoopFacts, ZenonT(40) DEF Wake, Loops
    <3> QED BY <3>1, LoopBounds
  <2> QED BY <1>2, <1>7, <2>1 DEF Wake, LoopPC
<1>8. CASE loop' = loop
  BY <1>0, <1>8 DEF Loops
<1> HIDE DEF Loops
<1> QED
  BY <1>1, <1>4, <1>5, <1>6, <1>7, <1>8, ZenonT(40) DEF LifeNext, MainStep, StartApi, Cancel,
     StopReturns, StartConsumer, ReadReady, Ready, CloseProducer, CloseRegistry, Exit, Signal,
     BeginRequest, EndRequest, Setup, Handle, Handled, ConsumeReturns

(* No producer is closed under a loop that Stop has waited for. *)
LEMMA ProducersStep ==
    ASSUME LifeInv, LifeNext
    PROVE  Producers'
<1>0. main \in Main /\ Types /\ InOrder /\ Loops /\ Producers
  BY TypesAre DEF LifeInv, Types
<1>1. timedOut \subseteq timedOut'
  BY ZenonT(40) DEF LifeNext, MainStep, StartApi, StartP2P, Cancel, StopReturns, StartConsumer,
     ReadReady, Ready, CloseProducer, CloseRegistry, Exit, Signal, BeginRequest, EndRequest,
     Setup, Handle, Handled, ConsumeReturns, Receive, EndLoop, Publish, Wake
<1>2. main.pc \in {"defer", "exited", "killed"} => main'.pc \in {"defer", "exited", "killed"}
  BY <1>0, MainSteps, ZenonT(40) DEF MainStays, MainStarts, MainSignalled, MainExits, Cancel, StopReturns,
     Stops
<1>3. ASSUME NEW g \in Loop, CloseProducer(g) PROVE Producers'
  BY <1>0, <1>1, <1>3 DEF Producers, CloseProducer
<1>4. ASSUME NEW g \in Loop, Publish(g) PROVE Producers'
  <2>1. CASE g \notin producers
    <3>1. main.pc = "defer"
      BY <1>0, <1>4, <2>1, ZenonT(40) DEF Producers, Publish, Alive
    <3>2. PICK s \in Service : Kind[s] = "p2p"
      BY <1>0, <1>4, ZenonT(40) DEF Loops, Publish
    <3>3. ~LoopsEnded
      BY <1>4, ZenonT(40) DEF LoopsEnded, Publish
    <3>4. s \in timedOut
      BY <1>0, <3>1, <3>2, <3>3, ZenonT(40) DEF InOrder, Ended, Drained
    <3> QED BY <1>1, <1>2, <3>1, <3>2, <3>4 DEF Producers
  <2>2. CASE g \in producers
    BY <1>0, <1>1, <1>2, <1>4, <2>2 DEF Producers, Publish
  <2> QED BY <2>1, <2>2
<1>5. CASE UNCHANGED <<producers, panicked>>
  BY <1>0, <1>1, <1>2, <1>5 DEF Producers
<1> HIDE DEF Producers
<1> QED
  BY <1>3, <1>4, <1>5, ZenonT(40) DEF LifeNext, MainStep, StartApi, StartP2P, Cancel,
     StopReturns, StartConsumer, ReadReady, Ready, CloseRegistry, Exit, Signal, BeginRequest,
     EndRequest, Setup, Handle, Handled, ConsumeReturns, Receive, EndLoop, Wake

-----------------------------------------------------------------------------
(* Every behaviour of the process keeps the invariant. *)
LEMMA LifeInductive == LifeSpec => []LifeInv
<1>1. LifeInit => LifeInv
  <2> SUFFICES ASSUME LifeInit PROVE LifeInv
    OBVIOUS
  <2> USE LifeAssumption DEF LifeInit, Opened
  <2>1. main \in Main /\ main.pc = "start"
    BY DEF Main, MainPC
  <2>2. loop \in [Loop -> LoopState] /\ \A g \in Loop : loop[g].pc = "none"
    BY DEF NoLoop, LoopState, LoopPC
  <2>3. Types
    <3>1. /\ group \in [Consumer -> GroupPC] /\ ready \in [Consumer -> 1..MaxReady]
          /\ closed \in [Consumer -> SUBSET (1..MaxReady)]
      BY DEF GroupPC
    <3>2. requests \in {0, 1} /\ received \in 0..MaxReceive /\ lifeFaults \in 0..MaxLifeFault
      OBVIOUS
    <3> QED BY <2>1, <2>2, <3>1, <3>2, ZenonT(40) DEF Types
  <2>4. InOrder
    BY <2>1, ZenonT(40) DEF InOrder
  <2>5. Loops
    BY <2>2, ZenonT(40) DEF Loops
  <2>6. Producers
    BY ZenonT(40) DEF Producers
  <2> QED BY <2>3, <2>4, <2>5, <2>6, TypesAre, ZenonT(40) DEF LifeInv
<1>2. LifeInv /\ [LifeNext]_lifeVars => LifeInv'
  <2> SUFFICES ASSUME LifeInv, [LifeNext]_lifeVars PROVE LifeInv'
    OBVIOUS
  <2>1. CASE LifeNext
    <3>1. LifeTypeOK'
      BY <2>1, LifeTypeStep, TypesAre, PTL
    <3> QED BY <2>1, <3>1, InOrderStep, LoopsStep, ProducersStep DEF LifeInv
  <2>2. CASE UNCHANGED lifeVars
    BY <2>2, ZenonT(40) DEF LifeInv, LifeTypeOK, InOrder, Loops, Producers, Ended, Drained,
       RequestsEnded, LoopsEnded, GroupEnded, lifeVars
  <2> QED BY <2>1, <2>2
<1> QED BY <1>1, <1>2, PTL DEF LifeSpec

(* main, the consumer groups and the message loops keep their types. *)
THEOREM LifeTypeCorrect == LifeSpec => []LifeTypeOK
<1>1. LifeInv => LifeTypeOK
  BY DEF LifeInv
<1> QED BY <1>1, LifeInductive, PTL

(***************************************************************************)
(* Nothing of a service is under way once main has stopped it, unless its  *)
(* Stop gave up waiting, and no message loop publishes on a producer that  *)
(* the deferred calls of main have closed: for every list of services,     *)
(* whichever of them fails to start, and whenever the signal comes.        *)
(***************************************************************************)
THEOREM StoppedIsIdle == LifeSpec => []NoUseAfterClose
<1>1. LifeInv => NoUseAfterClose
  <2> SUFFICES ASSUME LifeInv PROVE NoUseAfterClose
    OBVIOUS
  <2>0. main \in Main /\ Types /\ InOrder /\ Producers
    BY TypesAre DEF LifeInv, Types
  <2>1. \A s \in Service : Ended(s) /\ InUse(s) => s \in timedOut
    BY DEF Ended, Drained, InUse, RequestsEnded, LoopsEnded, GroupEnded
  <2>2. ASSUME NEW s \in cancelled, InUse(s), Alive PROVE Stops(s) \/ s \in timedOut
    <3>1. s \in Service /\ main.pc \in {"stop", "defer"}
      BY <2>0, <2>2 DEF InOrder, Types, Alive, Main, MainPC
    <3>2. CASE main.pc = "defer"
      BY <2>0, <2>1, <2>2, <3>1, <3>2 DEF InOrder
    <3>3. CASE main.pc = "stop"
      <4>1. PICK n \in 1..Len(Services) : s = Services[n]
        BY <3>1 DEF Service
      <4>2. main.at \in 1..Len(Services) /\ Len(Services) \in Nat
        BY <2>0, LifeAssumption DEF Main
      <4>3. CASE n > main.at
        BY <2>0, <2>1, <2>2, <3>1, <3>3, <4>1, <4>3 DEF InOrder
      <4>4. CASE n = main.at
        BY <3>3, <4>1, <4>4 DEF Stops
      <4>5. CASE n < main.at
        BY <2>0, <2>2, <3>3, <4>1, <4>5 DEF InOrder
      <4> QED BY <4>2, <4>3, <4>4, <4>5
    <3> QED BY <3>1, <3>2, <3>3
  <2>3. main.pc = "defer" => \A s \in Service : InUse(s) => s \in timedOut
    BY <2>0, <2>1 DEF InOrder
  <2> QED BY <2>0, <2>2, <2>3 DEF NoUseAfterClose, Producers
<1> QED BY <1>1, LifeInductive, PTL
=============================================================================
