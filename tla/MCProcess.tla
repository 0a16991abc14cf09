------------------------------ MODULE MCProcess ------------------------------
(***************************************************************************)
(* An instance for TLC of what a process on the SQL backend goes through:  *)
(* the start of the backend in several processes (SQLStartup), the life of *)
(* the services of one of them (ProcessLifecycle), and the calls these     *)
(* make on the tables with an expiry (SQLTables) and on the seen counter   *)
(* (SQLSeenCounter).  The four share no table and no goroutine, so that a  *)
(* behaviour exercises one of them; the last three begin where the start   *)
(* of the backend has ended.                                               *)
(***************************************************************************)
EXTENDS SQLSeenCounter, SQLStartup, SQLTables, ProcessLifecycle, TLC

CONSTANTS old, new, api, p2p, fetcher

VARIABLE workload

(* A binary with one migration, and a newer one with two. *)
Binaries == (old :> 1) @@ (new :> 2)

(* One service of each kind. *)
AllServices == <<api, p2p, fetcher>>
KindOf == (api :> "api") @@ (p2p :> "p2p") @@ (fetcher :> "consumer")

ProcessVars == <<workload, vars, startVars, callVars, lifeVars>>

(* Every process is up, on a database with the schema of the newest. *)
Started ==
    /\ driver \in {"postgres", "sqlite"}
    /\ applied = Version
    /\ execs = [v \in Version |-> 1]
    /\ advisory = None /\ writer = None
    /\ pc = [p \in Process |-> "running"]
    /\ done = [p \in Process |-> {}] /\ at = [p \in Process |-> 1]
    /\ sweeper = [p \in Process |-> Waiting]
    /\ startFaults = 0

(* No main runs: none of the fair actions of ProcessLifecycle is enabled. *)
NoService == Opened /\ main = [pc |-> "killed", at |-> 1, channel |-> 0]

ProcessInit ==
    /\ Init
    /\ TablesInit
    /\ \/ workload = "start" /\ StartInit /\ NoService /\ dialect = driver
       \/ workload = "life" /\ Started /\ LifeInit /\ driver = "sqlite" /\ dialect = "sqlite"
       \/ workload = "calls" /\ Started /\ NoService /\ driver = dialect
       \/ workload = "seen" /\ Started /\ NoService /\ driver = "sqlite" /\ dialect = "sqlite"

(* The calls are spent, or the process has ended. *)
Over == (workload = "calls" /\ calls = 0) \/ (workload = "life" /\ ~Alive)

ProcessNext ==
    /\ UNCHANGED workload
    /\ \/ workload = "start" /\ StartNext /\ UNCHANGED <<vars, callVars, lifeVars>>
       \/ workload = "life" /\ LifeNext /\ UNCHANGED <<vars, startVars, callVars>>
       \/ workload = "calls" /\ TablesNext /\ UNCHANGED <<vars, startVars, lifeVars>>
       \/ workload = "seen" /\ Next /\ UNCHANGED <<startVars, callVars, lifeVars>>
       \/ Over /\ UNCHANGED <<vars, startVars, callVars, lifeVars>>

ProcessSpec ==
    ProcessInit /\ [][ProcessNext]_ProcessVars /\ StartFairness /\ LifeFairness

(* Every variable of the four modules has its type. *)
ProcessTypeOK == TypeOK /\ StartTypeOK /\ TablesTypeOK /\ LifeTypeOK
=============================================================================
