------------------------------ MODULE SQLStoreProofs ------------------------------
(***************************************************************************)
(* Proofs about the SQL store: its seen counter and its other tables, each *)
(* for any callers and values, in both dialects.                           *)
(***************************************************************************)
EXTENDS SQLSeenCounter, SQLTables, TLAPS

(***************************************************************************)
(* The seen counter: types, at most one report in both dialects, and that  *)
(* the SQLite transaction implements the promise of SeenCounterStore.      *)
(***************************************************************************)

Tx == {IdleTx} \cup OpenTx \cup EndedTx

(* A transaction at a statement is an open one. *)
LEMMA OpenTxTypes ==
    ASSUME NEW t \in Tx, t.pc \in InTx
    PROVE  t \in OpenTx
BY DEF Tx, IdleTx, OpenTx, EndedTx, InTx

(* The number of subtrees that a transaction counts is a number. *)
CountsSubtrees == \A S \in SUBSET Subtree : Cardinality(S) \in Nat

(* Every step of Increment's transaction keeps the types. *)
LEMMA TypeStep == ASSUME CountsSubtrees, TypeOK, [Next]_vars PROVE TypeOK'
<1>a. /\ counters \in BOOLEAN /\ fired \in BOOLEAN
      /\ seen \subseteq Subtree
      /\ lock \in {Free} \cup {{c} : c \in Caller}
      /\ reports \in Nat /\ faults \in Nat
  BY DEF TypeOK
<1>b. tx \in [Caller -> Tx]
  BY DEF TypeOK, Tx
<1>c. ASSUME NEW c \in Caller, tx[c].pc \in InTx
      PROVE  tx[c] \in OpenTx
  BY <1>b, <1>c, OpenTxTypes
<1>d. ASSUME NEW c \in Caller, NEW t \in Tx, tx' = [tx EXCEPT ![c] = t]
      PROVE  tx' \in [Caller -> Tx]
  BY <1>b, <1>d
<1>e. ASSUME NEW c \in Caller, Released(c)
      PROVE  lock' \in {Free} \cup {{d} : d \in Caller}
  BY <1>a, <1>e DEF Released
<1>f. ASSUME NEW c \in Caller, NEW r \in BOOLEAN, tx[c] \in OpenTx, Ended(c, r)
      PROVE  tx' \in [Caller -> Tx]
  <2>1. [pc |-> "returned", subtree |-> tx[c].subtree, reached |-> r] \in EndedTx
    BY <1>f DEF OpenTx, EndedTx
  <2> QED BY <1>d, <1>f, <2>1, Zenon DEF Ended, Tx
<1>1. ASSUME NEW c \in Caller, NEW s \in Subtree, BeginTx(c, s) PROVE TypeOK'
  <2>1. [pc |-> "counter", subtree |-> s, inserted |-> FALSE, count |-> 0,
         reached |-> FALSE] \in OpenTx
    BY DEF OpenTx, InTx
  <2> QED BY <1>1, <1>a, <1>d, <2>1 DEF BeginTx, Tx, TypeOK
<1>2. ASSUME NEW c \in Caller, InsertCounter(c) PROVE TypeOK'
  <2>1. [tx[c] EXCEPT !.pc = "subtree", !.inserted = ~counters] \in OpenTx
    BY <1>2, <1>a, <1>c, Zenon DEF InsertCounter, At, OpenTx, InTx
  <2>2. tx' = [tx EXCEPT ![c] = [tx[c] EXCEPT !.pc = "subtree", !.inserted = ~counters]]
    BY <1>2, <1>b, Zenon DEF InsertCounter
  <2>3. tx' \in [Caller -> Tx]
    BY <1>d, <2>1, <2>2, Zenon DEF Tx
  <2>4. lock' \in {Free} \cup {{d} : d \in Caller}
    BY <1>2, <1>a DEF InsertCounter, Locks
  <2> QED BY <1>2, <1>a, <2>3, <2>4 DEF InsertCounter, Tx, TypeOK
<1>3. ASSUME NEW c \in Caller, InsertSubtree(c) PROVE TypeOK'
  <2>1. [tx[c] EXCEPT !.pc = "count"] \in OpenTx
    BY <1>3, <1>c DEF InsertSubtree, At, OpenTx, InTx
  <2> QED BY <1>3, <1>a, <1>d, <2>1 DEF InsertSubtree, Tx, TypeOK
<1>4. ASSUME NEW c \in Caller, CountSubtrees(c) PROVE TypeOK'
  <2>1. tx[c] \in OpenTx
    BY <1>4, <1>c DEF CountSubtrees, At, InTx
  <2>2. Cardinality(seen \cup {tx[c].subtree}) \in Nat
    <3>1. seen \cup {tx[c].subtree} \subseteq Subtree
      BY <1>a, <2>1 DEF OpenTx
    <3> QED BY <3>1 DEF CountsSubtrees
  <2>3. [tx[c] EXCEPT !.pc = "flag",
                      !.count = Cardinality(seen \cup {tx[c].subtree})] \in OpenTx
    BY <2>1, <2>2, Zenon DEF OpenTx, InTx
  <2> QED BY <1>4, <1>a, <1>d, <2>3 DEF CountSubtrees, Tx, TypeOK
<1>5. ASSUME NEW c \in Caller, ReadFlag(c) PROVE TypeOK'
  <2>0. Fires(c) \in BOOLEAN
    BY DEF Fires
  <2>1. [tx[c] EXCEPT !.pc = "commit", !.reached = Fires(c)] \in OpenTx
    BY <1>5, <1>c, <2>0, Zenon DEF ReadFlag, At, OpenTx, InTx
  <2>2. lock' \in {Free} \cup {{d} : d \in Caller}
    BY <1>5, <1>a DEF ReadFlag, Locks
  <2> QED BY <1>5, <1>a, <1>d, <2>1, <2>2 DEF ReadFlag, Tx, TypeOK
<1>6. ASSUME NEW c \in Caller, Commit(c) \/ CommitUnanswered(c) PROVE TypeOK'
  <2>1. tx[c] \in OpenTx
    BY <1>6, <1>c, Zenon DEF Commit, CommitUnanswered, At, InTx
  <2>2. tx[c].reached \in BOOLEAN /\ tx[c].subtree \in Subtree
    BY <2>1 DEF OpenTx
  <2>3. tx' \in [Caller -> Tx]
    BY <1>6, <1>f, <2>1, <2>2, Zenon DEF Commit, CommitUnanswered
  <2>4. seen' \subseteq Subtree /\ fired' \in BOOLEAN /\ counters' \in BOOLEAN
    BY <1>6, <1>a, <2>2, Zenon DEF Commit, CommitUnanswered, Committed
  <2>5. lock' \in {Free} \cup {{d} : d \in Caller}
    BY <1>6, <1>e, Zenon DEF Commit, CommitUnanswered, Committed
  <2>6. reports' \in Nat /\ faults' \in Nat
    <3>1. CASE Commit(c)
      BY <3>1, <1>a DEF Commit
    <3>2. CASE CommitUnanswered(c)
      BY <3>2, <1>a DEF CommitUnanswered
    <3> QED BY <1>6, <3>1, <3>2
  <2> QED BY <2>3, <2>4, <2>5, <2>6 DEF Tx, TypeOK
<1>7. ASSUME NEW c \in Caller, Rollback(c) PROVE TypeOK'
  <2>1. tx' \in [Caller -> Tx]
    BY <1>7, <1>c, <1>f, Zenon DEF Rollback
  <2>2. faults' \in Nat
    BY <1>7, <1>a DEF Rollback
  <2> QED BY <1>7, <1>a, <1>e, <2>1, <2>2 DEF Rollback, Tx, TypeOK
<1>8. ASSUME NEW c \in Caller, Return(c) PROVE TypeOK'
  BY <1>8, <1>a, <1>d DEF Return, Tx, TypeOK
<1>9. ASSUME UNCHANGED vars PROVE TypeOK'
  BY <1>9 DEF vars, TypeOK
<1> QED BY <1>1, <1>2, <1>3, <1>4, <1>5, <1>6, <1>7, <1>8, <1>9 DEF Next

(* A transaction that is about to commit holds the lock of the row, so what
   it read of threshold_fired still holds; no report without the flag. *)
FlagInv ==
    /\ \A c \in Caller : tx[c].pc = "commit" => lock = {c}
    /\ \A c \in Caller : tx[c].pc = "commit" /\ tx[c].reached => ~fired
    /\ ~fired => reports = 0
    /\ reports <= 1

(* A step changes the transaction of one caller, and only its end releases
   the lock. *)
LEMMA FlagStep == ASSUME TypeOK, FlagInv, [Next]_vars PROVE FlagInv'
<1>a. tx \in [Caller -> Tx]
  BY DEF TypeOK, Tx
<1>b. reports \in Nat /\ fired \in BOOLEAN
  BY DEF TypeOK
<1>c. ASSUME NEW c \in Caller, NEW t, tx' = [tx EXCEPT ![c] = t], t.pc # "commit",
             \A d \in Caller \ {c} : tx[d].pc = "commit" => lock' = {d},
             fired' = fired, reports' = reports
      PROVE  FlagInv'
  <2>1. \A d \in Caller : tx'[d] = IF d = c THEN t ELSE tx[d]
    BY <1>a, <1>c
  <2> QED BY <1>c, <2>1 DEF FlagInv
<1>d. ASSUME NEW c \in Caller, Locks(c)
      PROVE  \A d \in Caller \ {c} : tx[d].pc # "commit"
  <2>1. ASSUME NEW d \in Caller \ {c}, tx[d].pc = "commit" PROVE FALSE
    <3>1. lock = {d} /\ lock \in {{}, {c}}
      BY <1>d, <2>1 DEF Locks, FlagInv, Free
    <3> QED BY <3>1, <2>1
  <2> QED BY <2>1
<1>e. ASSUME NEW c \in Caller, Released(c)
      PROVE  \A d \in Caller \ {c} : tx[d].pc = "commit" => lock' = {d}
  <2> SUFFICES ASSUME NEW d \in Caller \ {c}, tx[d].pc = "commit" PROVE lock' = {d}
    OBVIOUS
  <2>1. lock = {d} /\ lock # {c}
    BY DEF FlagInv
  <2> QED BY <1>e, <2>1 DEF Released
<1>1. ASSUME NEW c \in Caller, NEW s \in Subtree, BeginTx(c, s) PROVE FlagInv'
  BY <1>1, <1>c DEF BeginTx, FlagInv
<1>2. ASSUME NEW c \in Caller, InsertCounter(c) PROVE FlagInv'
  <2>1. \A d \in Caller \ {c} : tx[d].pc = "commit" => lock' = {d}
    BY <1>2, <1>d DEF InsertCounter, FlagInv
  <2>2. PICK t : t = [tx[c] EXCEPT !.pc = "subtree", !.inserted = ~counters]
    OBVIOUS
  <2>3. tx' = [tx EXCEPT ![c] = t]
    BY <1>2, <1>a, <2>2, Zenon DEF InsertCounter
  <2>4. t.pc # "commit"
    BY <1>2, <1>a, <2>2, OpenTxTypes DEF InsertCounter, At, InTx, OpenTx
  <2> QED BY <1>2, <1>c, <2>1, <2>3, <2>4, Zenon DEF InsertCounter
<1>3. ASSUME NEW c \in Caller, InsertSubtree(c) \/ CountSubtrees(c) \/ Return(c)
      PROVE  FlagInv'
  <2>1. \A d \in Caller \ {c} : tx[d].pc = "commit" => lock' = {d}
    BY <1>3 DEF InsertSubtree, CountSubtrees, Return, FlagInv
  <2>2. tx[c] \in OpenTx \/ Return(c)
    BY <1>3, <1>a, OpenTxTypes DEF InsertSubtree, CountSubtrees, At, InTx
  <2>3. PICK t : tx' = [tx EXCEPT ![c] = t] /\ t.pc # "commit"
    <3>1. CASE InsertSubtree(c)
      <4>1. [tx[c] EXCEPT !.pc = "count"].pc = "count"
        BY <2>2, <3>1 DEF InsertSubtree, At, OpenTx, Return
      <4> QED BY <3>1, <4>1, Zenon DEF InsertSubtree
    <3>2. CASE CountSubtrees(c)
      <4> DEFINE t == [tx[c] EXCEPT !.pc = "flag",
                                    !.count = Cardinality(seen \cup {tx[c].subtree})]
      <4>1. t.pc = "flag"
        BY <2>2, <3>2 DEF CountSubtrees, At, OpenTx, Return
      <4>2. tx' = [tx EXCEPT ![c] = t]
        BY <3>2, <1>a, Zenon DEF CountSubtrees
      <4> QED BY <4>1, <4>2, Zenon
    <3>3. CASE Return(c)
      <4>1. IdleTx.pc # "commit"
        BY DEF IdleTx
      <4> QED BY <3>3, <4>1, Zenon DEF Return
    <3> QED BY <1>3, <3>1, <3>2, <3>3
  <2> QED BY <1>3, <1>c, <2>1, <2>3, Zenon DEF InsertSubtree, CountSubtrees, Return
<1>4. ASSUME NEW c \in Caller, ReadFlag(c) PROVE FlagInv'
  <2>1. PICK t : t = [tx[c] EXCEPT !.pc = "commit", !.reached = Fires(c)]
    OBVIOUS
  <2>2. tx' = [tx EXCEPT ![c] = t]
    BY <1>4, <1>a, <2>1, Zenon DEF ReadFlag
  <2>3. \A d \in Caller : tx'[d] = IF d = c THEN t ELSE tx[d]
    BY <1>a, <2>2
  <2>4. t.reached = Fires(c)
    BY <1>4, <1>a, <2>1, OpenTxTypes DEF ReadFlag, At, InTx, OpenTx
  <2>5. lock' = {c} /\ fired' = fired /\ reports' = reports
    BY <1>4 DEF ReadFlag, Locks
  <2>6. \A d \in Caller : tx'[d].pc = "commit" => d = c
    BY <1>4, <1>d, <2>3 DEF ReadFlag
  <2> QED BY <2>3, <2>4, <2>5, <2>6, Zenon DEF FlagInv, Fires
<1>5. ASSUME NEW c \in Caller, Commit(c) \/ CommitUnanswered(c) PROVE FlagInv'
  <2>1. tx[c].pc = "commit" /\ lock = {c}
    BY <1>5, Zenon DEF Commit, CommitUnanswered, At, FlagInv
  <2>2. \A d \in Caller \ {c} : tx[d].pc # "commit"
    <3>1. ASSUME NEW d \in Caller \ {c}, tx[d].pc = "commit" PROVE FALSE
      BY <2>1, <3>1 DEF FlagInv
    <3> QED BY <3>1
  <2>3. \A d \in Caller : tx'[d].pc # "commit"
    BY <1>5, <1>a, <2>2 DEF Commit, CommitUnanswered, Ended
  <2>4. (~fired' => reports' = 0) /\ reports' <= 1
    <3>1. tx[c].reached \in BOOLEAN
      BY <1>a, <2>1, OpenTxTypes DEF InTx, OpenTx
    <3>2. fired' = (fired \/ tx[c].reached)
      BY <1>5, Zenon DEF Commit, CommitUnanswered, Committed
    <3>3. tx[c].reached => reports = 0
      BY <2>1 DEF FlagInv
    <3>4. reports' = reports \/ (tx[c].reached /\ reports' = reports + 1)
      BY <1>5, Zenon DEF Commit, CommitUnanswered
    <3> QED BY <1>b, <3>1, <3>2, <3>3, <3>4 DEF FlagInv
  <2> QED BY <2>3, <2>4 DEF FlagInv
<1>6. ASSUME NEW c \in Caller, Rollback(c) PROVE FlagInv'
  <2>1. PICK t : t = [pc |-> "returned", subtree |-> tx[c].subtree, reached |-> FALSE]
    BY Zenon
  <2>2. tx' = [tx EXCEPT ![c] = t] /\ t.pc # "commit"
    BY <1>6, <2>1 DEF Rollback, Ended
  <2> QED BY <1>6, <1>c, <1>e, <2>2, Zenon DEF Rollback
<1>7. ASSUME UNCHANGED vars PROVE FlagInv'
  BY <1>7 DEF vars, FlagInv
<1> QED BY <1>1, <1>2, <1>3, <1>4, <1>5, <1>6, <1>7 DEF Next

(* With one write lock a transaction that got past its first statement runs
   alone: what it counted and what it read are still true. *)
Serial ==
    \A c \in Caller :
        /\ tx[c].pc \in {"subtree", "count", "flag", "commit"} => lock = {c}
        /\ tx[c].pc \in {"flag", "commit"} =>
               tx[c].count = Cardinality(seen \cup {tx[c].subtree})
        /\ tx[c].pc = "commit" => tx[c].reached = (~fired /\ tx[c].count >= Threshold)

(* On SQLite every step keeps the transactions serial. *)
LEMMA SerialStep == ASSUME TypeOK, ~Postgres, Serial, [Next]_vars PROVE Serial'
<1> DEFINE Running(c) == tx[c].pc \in {"subtree", "count", "flag", "commit"}
<1>a. tx \in [Caller -> Tx]
  BY DEF TypeOK, Tx
<1>b. \A c \in Caller : tx[c].pc \in InTx => tx[c] \in OpenTx
  BY <1>a, OpenTxTypes
<1>c. ASSUME NEW c \in Caller, Running(c) PROVE \A d \in Caller \ {c} : ~Running(d)
  <2>1. ASSUME NEW d \in Caller \ {c}, Running(d) PROVE FALSE
    <3>1. lock = {c} /\ lock = {d}
      BY <1>c, <2>1, Zenon DEF Serial
    <3> QED BY <3>1
  <2> QED BY <2>1
<1>d. ASSUME NEW c \in Caller, Locks(c) PROVE \A d \in Caller \ {c} : ~Running(d)
  <2>1. ASSUME NEW d \in Caller \ {c}, Running(d) PROVE FALSE
    <3>1. lock = {d} /\ lock \in {{}, {c}}
      BY <1>d, <2>1, Zenon DEF Locks, Serial, Free
    <3> QED BY <3>1
  <2> QED BY <2>1
<1>e. ASSUME NEW c \in Caller, NEW t, tx' = [tx EXCEPT ![c] = t],
             t.pc \in {"subtree", "count", "flag", "commit"} => lock' = {c},
             t.pc \in {"flag", "commit"} => t.count = Cardinality(seen' \cup {t.subtree}),
             t.pc = "commit" => t.reached = (~fired' /\ t.count >= Threshold),
             \A d \in Caller \ {c} : Running(d) =>
                 lock' = lock /\ seen' = seen /\ fired' = fired
      PROVE  Serial'
  <2>1. \A d \in Caller : tx'[d] = IF d = c THEN t ELSE tx[d]
    BY <1>a, <1>e
  <2>2. ASSUME NEW d \in Caller
        PROVE  /\ tx'[d].pc \in {"subtree", "count", "flag", "commit"} => lock' = {d}
               /\ tx'[d].pc \in {"flag", "commit"} =>
                      tx'[d].count = Cardinality(seen' \cup {tx'[d].subtree})
               /\ tx'[d].pc = "commit" =>
                      tx'[d].reached = (~fired' /\ tx'[d].count >= Threshold)
    <3>1. CASE d = c
      BY <1>e, <2>1, <3>1, Zenon
    <3>2. CASE d # c
      <4>1. tx'[d] = tx[d] /\ d \in Caller \ {c}
        BY <2>1, <3>2
      <4>2. CASE Running(d)
        <5>1. lock' = lock /\ seen' = seen /\ fired' = fired
          BY <1>e, <4>1, <4>2
        <5> QED BY <4>1, <5>1 DEF Serial
      <4>3. CASE ~Running(d)
        BY <4>1, <4>3
      <4> QED BY <4>2, <4>3
    <3> QED BY <3>1, <3>2
  <2> QED BY <2>2 DEF Serial
<1>1. ASSUME NEW c \in Caller, NEW s \in Subtree, BeginTx(c, s) PROVE Serial'
  BY <1>1, <1>e, Zenon DEF BeginTx
<1>2. ASSUME NEW c \in Caller, InsertCounter(c) PROVE Serial'
  <2>1. Locks(c) /\ seen' = seen /\ fired' = fired
    BY <1>2 DEF InsertCounter
  <2>2. PICK t : t = [tx[c] EXCEPT !.pc = "subtree", !.inserted = ~counters]
    OBVIOUS
  <2>3. tx' = [tx EXCEPT ![c] = t]
    BY <1>2, <1>a, <2>2, Zenon DEF InsertCounter
  <2>4. t.pc = "subtree"
    BY <1>2, <1>b, <2>2 DEF InsertCounter, At, InTx, OpenTx
  <2> QED BY <1>d, <1>e, <2>1, <2>3, <2>4, Zenon DEF Locks
<1>3. ASSUME NEW c \in Caller, InsertSubtree(c) PROVE Serial'
  <2>1. lock' = {c} /\ lock' = lock /\ seen' = seen /\ fired' = fired
    BY <1>3, Zenon DEF InsertSubtree, At, Serial
  <2>2. PICK t : t = [tx[c] EXCEPT !.pc = "count"]
    BY Zenon
  <2>3. tx' = [tx EXCEPT ![c] = t]
    BY <1>3, <2>2 DEF InsertSubtree
  <2>4. t.pc = "count"
    BY <1>3, <1>b, <2>2 DEF InsertSubtree, At, InTx, OpenTx
  <2> QED BY <1>e, <2>1, <2>3, <2>4, Zenon
<1>4. ASSUME NEW c \in Caller, CountSubtrees(c) PROVE Serial'
  <2>1. lock' = {c} /\ lock' = lock /\ seen' = seen /\ fired' = fired
    BY <1>4 DEF CountSubtrees, At, Serial
  <2>2. PICK t : t = [tx[c] EXCEPT !.pc = "flag",
                                   !.count = Cardinality(seen \cup {tx[c].subtree})]
    OBVIOUS
  <2>3. tx' = [tx EXCEPT ![c] = t]
    BY <1>4, <1>a, <2>2, Zenon DEF CountSubtrees
  <2>4. t.pc = "flag" /\ t.count = Cardinality(seen \cup {t.subtree})
    BY <1>4, <1>b, <2>2 DEF CountSubtrees, At, InTx, OpenTx
  <2> QED BY <1>e, <2>1, <2>3, <2>4, Zenon
<1>5. ASSUME NEW c \in Caller, ReadFlag(c) PROVE Serial'
  <2>0. tx[c].pc = "flag"
    BY <1>5 DEF ReadFlag, At
  <2>1. lock' = {c} /\ lock' = lock /\ seen' = seen /\ fired' = fired
    <3>1. lock = {c}
      BY <2>0, Zenon DEF Serial
    <3> QED BY <1>5, <3>1 DEF ReadFlag, Locks
  <2>2. PICK t : t = [tx[c] EXCEPT !.pc = "commit", !.reached = Fires(c)]
    OBVIOUS
  <2>3. tx' = [tx EXCEPT ![c] = t]
    BY <1>5, <1>a, <2>2, Zenon DEF ReadFlag
  <2>4. /\ t.pc = "commit" /\ t.reached = Fires(c)
        /\ t.count = tx[c].count /\ t.subtree = tx[c].subtree
    BY <1>5, <1>b, <2>2 DEF ReadFlag, At, InTx, OpenTx
  <2>5. tx[c].count = Cardinality(seen \cup {tx[c].subtree})
    BY <2>0 DEF Serial
  <2> QED BY <1>e, <2>1, <2>3, <2>4, <2>5, Zenon DEF Fires
<1>6. ASSUME NEW c \in Caller, Commit(c) \/ CommitUnanswered(c) \/ Rollback(c)
      PROVE  Serial'
  <2>1. PICK t : tx' = [tx EXCEPT ![c] = t] /\ t.pc = "returned"
    <3>1. PICK r : Ended(c, r)
      BY <1>6, Zenon DEF Commit, CommitUnanswered, Rollback
    <3>2. PICK t : t = [pc |-> "returned", subtree |-> tx[c].subtree, reached |-> r]
      BY Zenon
    <3>3. t.pc = "returned"
      BY <3>2
    <3> QED BY <3>1, <3>2, <3>3, Zenon DEF Ended
  <2>2. CASE Running(c)
    BY <1>c, <1>e, <2>1, <2>2, Zenon
  <2>3. CASE ~Running(c)
    <3>1. seen' = seen /\ fired' = fired /\ Released(c)
      BY <1>6, <2>3, Zenon DEF Commit, CommitUnanswered, Rollback, At
    <3>2. \A d \in Caller \ {c} : Running(d) => lock' = lock
      <4> SUFFICES ASSUME NEW d \in Caller \ {c}, Running(d) PROVE lock' = lock
        OBVIOUS
      <4>1. lock = {d} /\ lock # {c}
        BY Zenon DEF Serial
      <4> QED BY <3>1, <4>1 DEF Released
    <3> QED BY <1>e, <2>1, <3>1, <3>2, Zenon
  <2> QED BY <2>2, <2>3
<1>7. ASSUME NEW c \in Caller, Return(c) PROVE Serial'
  <2>1. IdleTx.pc = "idle"
    BY DEF IdleTx
  <2> QED BY <1>7, <1>e, <2>1, Zenon DEF Return
<1>8. ASSUME UNCHANGED vars PROVE Serial'
  BY <1>8 DEF vars, Serial
<1> QED BY <1>1, <1>2, <1>3, <1>4, <1>5, <1>6, <1>7, <1>8 DEF Next

(* On SQLite a commit is the one step of Increment that the promise sees. *)
LEMMA PromiseStep ==
    ASSUME CountsSubtrees, ~Postgres, TypeOK, Serial, [Next]_vars
    PROVE  [Promise!Next]_(Promise!vars)
<1> DEFINE started == [c \in Caller |-> callOf(c)]
<1>a. tx \in [Caller -> Tx]
  BY DEF TypeOK, Tx
<1>b. \A c \in Caller : tx[c].pc \in InTx => tx[c] \in OpenTx
  BY <1>a, OpenTxTypes
<1>c. ASSUME NEW c \in Caller, NEW t, tx' = [tx EXCEPT ![c] = t]
      PROVE  /\ \A d \in Caller \ {c} : callOf(d)' = callOf(d)
             /\ tx'[c] = t
  <2>1. \A d \in Caller : tx'[d] = IF d = c THEN t ELSE tx[d]
    BY <1>a, <1>c
  <2> QED BY <2>1 DEF callOf
<1>1. ASSUME NEW c \in Caller, NEW s \in Subtree, BeginTx(c, s)
      PROVE  Promise!Call(c, s)
  <2>1. PICK t : t = [pc |-> "counter", subtree |-> s, inserted |-> FALSE,
                      count |-> 0, reached |-> FALSE]
    BY Zenon
  <2>2. tx' = [tx EXCEPT ![c] = t] /\ t.pc = "counter" /\ t.subtree = s
    BY <1>1, <2>1 DEF BeginTx
  <2>3. callOf(c)' = [pc |-> "pending", subtree |-> s]
    BY <1>c, <2>2, Zenon DEF callOf, InTx
  <2>4. callOf(c) = IdleTx
    BY <1>1, <1>a DEF BeginTx, At, callOf, InTx, Tx, OpenTx, EndedTx
  <2>5. started' = [started EXCEPT ![c] = [pc |-> "pending", subtree |-> s]]
    BY <1>c, <2>2, <2>3, Zenon
  <2> QED BY <1>1, <2>4, <2>5 DEF BeginTx, Promise!Call, Promise!IdleCall, Promise!Pending, IdleTx
<1>2. ASSUME NEW c \in Caller,
             InsertCounter(c) \/ InsertSubtree(c) \/ CountSubtrees(c) \/ ReadFlag(c)
      PROVE  UNCHANGED Promise!vars
  <2>1. tx[c] \in OpenTx
    BY <1>2, <1>b DEF InsertCounter, InsertSubtree, CountSubtrees, ReadFlag, At, InTx
  <2>2. PICK t \in OpenTx : tx' = [tx EXCEPT ![c] = t] /\ t.subtree = tx[c].subtree
    <3>1. CASE InsertCounter(c)
      <4> DEFINE t == [tx[c] EXCEPT !.pc = "subtree", !.inserted = ~counters]
      <4>1. t \in OpenTx /\ t.subtree = tx[c].subtree
        BY <2>1, Zenon DEF OpenTx, InTx, TypeOK
      <4>2. tx' = [tx EXCEPT ![c] = t]
        BY <3>1, <1>a, Zenon DEF InsertCounter
      <4> QED BY <4>1, <4>2, Zenon
    <3>2. CASE InsertSubtree(c)
      <4>1. [tx[c] EXCEPT !.pc = "count"] \in OpenTx
        BY <2>1 DEF OpenTx, InTx
      <4>2. [tx[c] EXCEPT !.pc = "count"].subtree = tx[c].subtree
        BY <2>1 DEF OpenTx
      <4> QED BY <3>2, <4>1, <4>2, Zenon DEF InsertSubtree
    <3>3. CASE CountSubtrees(c)
      <4> DEFINE n == Cardinality(seen \cup {tx[c].subtree})
                 t == [tx[c] EXCEPT !.pc = "flag", !.count = n]
      <4>1. n \in Nat
        <5>1. seen \cup {tx[c].subtree} \subseteq Subtree
          <6>1. seen \subseteq Subtree
            BY DEF TypeOK
          <6> QED BY <2>1, <6>1 DEF OpenTx
        <5> QED BY <5>1 DEF CountsSubtrees
      <4>2. tx' = [tx EXCEPT ![c] = t]
        BY <3>3, <1>a, Zenon DEF CountSubtrees
      <4> HIDE DEF n
      <4>3. t \in OpenTx /\ t.subtree = tx[c].subtree
        BY <2>1, <4>1, Zenon DEF OpenTx, InTx
      <4> QED BY <4>2, <4>3, Zenon
    <3>4. CASE ReadFlag(c)
      <4> DEFINE t == [tx[c] EXCEPT !.pc = "commit", !.reached = Fires(c)]
      <4>1. t \in OpenTx /\ t.subtree = tx[c].subtree
        BY <2>1, Zenon DEF OpenTx, InTx, Fires
      <4>2. tx' = [tx EXCEPT ![c] = t]
        BY <3>4, <1>a, Zenon DEF ReadFlag
      <4> QED BY <4>1, <4>2, Zenon
    <3> QED BY <1>2, <3>1, <3>2, <3>3, <3>4
  <2>3. callOf(c)' = callOf(c)
    BY <1>c, <2>1, <2>2 DEF callOf, OpenTx
  <2>4. started' = started
    BY <1>c, <2>2, <2>3, Zenon
  <2>5. seen' = seen /\ fired' = fired /\ reports' = reports
    BY <1>2 DEF InsertCounter, InsertSubtree, CountSubtrees, ReadFlag
  <2> QED BY <2>4, <2>5 DEF Promise!vars
<1>3. ASSUME NEW c \in Caller, NEW r, Ended(c, r), tx[c].pc \in InTx
      PROVE  /\ tx[c].subtree \in Subtree
             /\ started[c] = [pc |-> "pending", subtree |-> tx[c].subtree]
             /\ started' = [started EXCEPT ![c] = [pc |-> "returned", subtree |-> tx[c].subtree,
                                               reached |-> r]]
  <2>1. PICK t : t = [pc |-> "returned", subtree |-> tx[c].subtree, reached |-> r]
    BY Zenon
  <2>2. tx' = [tx EXCEPT ![c] = t] /\ t.pc = "returned"
    BY <1>3, <2>1 DEF Ended
  <2>3. callOf(c)' = t
    BY <1>c, <2>2, ZenonT(40) DEF callOf, InTx
  <2>4. started' = [started EXCEPT ![c] = t]
    BY <1>c, <2>2, <2>3, Zenon
  <2>5. tx[c].subtree \in Subtree
    BY <1>3, <1>b DEF OpenTx
  <2>6. started[c] = [pc |-> "pending", subtree |-> tx[c].subtree]
    BY <1>3 DEF callOf
  <2> QED BY <2>1, <2>4, <2>5, <2>6
<1>4. ASSUME NEW c \in Caller, tx[c].pc = "commit"
      PROVE  Promise!Reached(tx[c].subtree) = tx[c].reached
  <2>1. /\ tx[c].reached = (~fired /\ tx[c].count >= Threshold)
        /\ tx[c].count = Cardinality(seen \cup {tx[c].subtree})
    BY <1>4 DEF Serial
  <2>2. Promise!Reached(tx[c].subtree)
          = (~fired /\ Cardinality(seen \cup {tx[c].subtree}) >= Threshold)
    BY DEF Promise!Reached, Promise!Cardinality, Cardinality
  <2> QED BY <2>1, <2>2
<1>5. ASSUME NEW c \in Caller, Commit(c) PROVE Promise!Increment(c, tx[c].subtree)
  <2>1. tx[c].pc = "commit" /\ tx[c].pc \in InTx
    BY <1>5 DEF Commit, At, InTx
  <2> QED BY <1>3, <1>4, <1>5, <2>1
      DEF Commit, Committed, Promise!Increment, Promise!Pending, Promise!Returned
<1>6. ASSUME NEW c \in Caller, CommitUnanswered(c)
      PROVE  Promise!IncrementLost(c, tx[c].subtree)
  <2>1. tx[c].pc = "commit" /\ tx[c].pc \in InTx
    BY <1>6 DEF CommitUnanswered, At, InTx
  <2> QED BY <1>3, <1>4, <1>6, <2>1, Zenon
      DEF CommitUnanswered, Committed, Promise!IncrementLost, Promise!Pending, Promise!Returned
<1>7. ASSUME NEW c \in Caller, Rollback(c)
      PROVE  Promise!IncrementFails(c, tx[c].subtree)
  BY <1>3, <1>7, Zenon DEF Rollback, Promise!IncrementFails, Promise!Pending, Promise!Returned
<1>8. ASSUME NEW c \in Caller, Return(c) PROVE Promise!Return(c)
  <2>1. tx' = [tx EXCEPT ![c] = IdleTx]
    BY <1>8 DEF Return
  <2>2. callOf(c)' = IdleTx
    <3>1. IdleTx.pc \notin InTx
      BY DEF IdleTx, InTx
    <3>2. tx'[c] = IdleTx
      BY <1>c, <2>1, Zenon
    <3> QED BY <3>1, <3>2, Zenon DEF callOf
  <2>3. started' = [started EXCEPT ![c] = IdleTx]
    BY <1>c, <2>1, <2>2, Zenon
  <2>4. started[c].pc = "returned"
    BY <1>8 DEF Return, At, callOf, InTx
  <2> QED BY <1>8, <2>3, <2>4 DEF Return, IdleTx, Promise!Return, Promise!IdleCall
<1>9. CASE UNCHANGED vars
  BY <1>9 DEF vars, Promise!vars, callOf
<1>10. ASSUME NEW c \in Caller, tx[c].pc \in InTx PROVE tx[c].subtree \in Subtree
  BY <1>10, <1>b DEF OpenTx
<1> QED BY <1>1, <1>2, <1>5, <1>6, <1>7, <1>8, <1>9, <1>10, Zenon
    DEF Next, Promise!Next, Commit, CommitUnanswered, Rollback, At, InTx

(* Before the first call nothing is reported, no transaction is open, and the
   promise is in its initial state. *)
LEMMA SeenInit == Init => FlagInv /\ Serial /\ Promise!Init
<1>1. Init => FlagInv
  BY DEF Init, FlagInv, IdleTx
<1>2. Init => Serial
  BY DEF Init, Serial, IdleTx
<1>3. Init => Promise!Init
  BY DEF Init, Promise!Init, Promise!IdleCall, callOf, IdleTx, InTx
<1> QED BY <1>1, <1>2, <1>3

(***************************************************************************)
(* The tables of registrations, dedup records, subtree counters and        *)
(* accumulated entries: what a call has answered holds whatever the other  *)
(* sessions and the sweeper do.  The inductive invariant is TablesInv.     *)
(***************************************************************************)

(* A table has at most one row for its key. *)
OneRow(row) == \A x, y \in row : x = y

(* TablesTypeOK without its counts, and the types of the ghosts. *)
TablesTypes ==
    /\ dialect \in {"postgres", "sqlite"}
    /\ now \in 0..MaxTime
    /\ registrations \subseteq Nat /\ accumulator \subseteq Nat
    /\ OneRow(registrations) /\ OneRow(accumulator) /\ OneRow(counter)
    /\ counter \subseteq [remaining : Int, expires : Nat]
    /\ urls \subseteq URL /\ accepted \subseteq URL
    /\ entries \subseteq Entry /\ acked \subseteq Entry /\ overlapped \subseteq Entry
    /\ drained \in [Entry -> Nat] /\ decrements \in Nat
    /\ rowLock \in Session \cup {NoSession}
    /\ rowTx \in [Session -> {NoTx} \cup ReadTx]

(* The row of the callback is the one recorded last, and is deleted only when
   it has expired. *)
Recorded ==
    /\ promised \in Nat
    /\ dedup \subseteq {promised}
    /\ dedup = {} => promised <= now

(* Who holds the lock is in a transaction; PostgreSQL needs none to decrement;
   SQLite lets nobody commit next to the transaction that writes. *)
Locking ==
    \A c \in Session :
        /\ rowLock = c => rowTx[c].op # "none"
        /\ dialect = "postgres" => rowTx[c].op # "Decrement"
        /\ dialect = "sqlite" /\ rowLock = c => ~rowTx[c].stale

(* What a transaction of SQLite has read and what it deletes is what the table
   holds, until another commit makes its snapshot stale. *)
Snapshots ==
    \A c \in Session : dialect = "sqlite" /\ rowTx[c].op # "none" /\ ~rowTx[c].stale =>
        /\ rowTx[c].op = "Decrement" => rowTx[c].read = {r.remaining : r \in counter}
        /\ Reading(c) => rowTx[c].read = entries
        /\ Reading(c) /\ rowLock = c => rowTx[c].deleted = entries

(* An entry that an open ReadAndDelete has not read came while it was open. *)
Overlaps ==
    \A c \in Session : Reading(c) =>
        /\ entries \subseteq rowTx[c].read \cup overlapped
        /\ rowLock = c => rowTx[c].deleted \subseteq rowTx[c].read \cup overlapped

(* Entries are in the table or were returned; on SQLite not both. *)
Kept ==
    /\ \A e \in acked : e \in entries \/ drained[e] >= 1 \/ (dialect = "postgres" /\ e \in overlapped)
    /\ dialect = "sqlite" =>
           \A e \in Entry : drained[e] = 0 \/ (drained[e] = 1 /\ e \notin entries)

TablesInv ==
    /\ TablesTypes /\ Recorded /\ Locking /\ Snapshots /\ Overlaps /\ Kept
    /\ RegisteredIsFound /\ DecrementsCounted

-----------------------------------------------------------------------------
(* What a transaction has read and deletes, by its operation. *)
LEMMA TxTypes ==
    ASSUME NEW t \in {NoTx} \cup ReadTx
    PROVE  /\ t.op \in {"none", "Decrement", "ReadAndDelete"}
           /\ t.op = "none" <=> t = NoTx
           /\ t.op = "Decrement" =>
                  t.read \subseteq Int /\ t.deleted = {} /\ t.stale \in BOOLEAN
           /\ t.op = "ReadAndDelete" =>
                  t.read \subseteq Entry /\ t.deleted \subseteq Entry /\ t.stale \in BOOLEAN
BY DEF NoTx, ReadTx

(* What becomes of a transaction when another one commits. *)
LEMMA StaleTx ==
    ASSUME NEW t \in {NoTx} \cup ReadTx, t.op # "none"
    PROVE  LET u == [t EXCEPT !.stale = TRUE]
           IN  /\ u \in ReadTx
               /\ u.op = t.op /\ u.read = t.read /\ u.deleted = t.deleted /\ u.stale
<1> DEFINE u == [t EXCEPT !.stale = TRUE]
<1>1. t \in ReadTx
  BY DEF NoTx
<1>2. u.op = t.op /\ u.read = t.read /\ u.deleted = t.deleted
  BY <1>1 DEF ReadTx
<1>3. u.stale
  BY <1>1, Zenon DEF ReadTx
<1>4. u \in ReadTx
  BY <1>1, Zenon DEF ReadTx
<1> QED BY <1>2, <1>3, <1>4, Zenon

(* What becomes of a transaction when it has written. *)
LEMMA DeletingTx ==
    ASSUME NEW t \in {NoTx} \cup ReadTx, t.op # "none", NEW D \in SUBSET Entry,
           t.op = "Decrement" => D = {}
    PROVE  LET u == [t EXCEPT !.deleted = D]
           IN  /\ u \in ReadTx
               /\ u.op = t.op /\ u.read = t.read /\ u.deleted = D /\ u.stale = t.stale
BY DEF NoTx, ReadTx

(* A transaction after the commit of another. *)
Outdated(d) ==
    /\ rowTx'[d].op = rowTx[d].op
    /\ rowTx[d].op # "none" =>
           /\ rowTx'[d].read = rowTx[d].read
           /\ rowTx'[d].deleted = rowTx[d].deleted
           /\ rowTx'[d].stale

(* A commit makes the snapshots of the other transactions stale, and no more. *)
LEMMA StaledTypes ==
    ASSUME TablesTypes, NEW c
    PROVE  /\ Staled(c) \in [Session -> {NoTx} \cup ReadTx]
           /\ \A d \in Session :
                 LET u == Staled(c)[d]
                 IN  /\ d = c \/ rowTx[d].op = "none" => u = rowTx[d]
                     /\ d # c /\ rowTx[d].op # "none" =>
                           u.op = rowTx[d].op /\ u.read = rowTx[d].read
                           /\ u.deleted = rowTx[d].deleted /\ u.stale
<1>1. \A d \in Session : rowTx[d] \in {NoTx} \cup ReadTx
  BY DEF TablesTypes
<1>2. \A d \in Session : rowTx[d].op # "none" =>
         LET u == [rowTx[d] EXCEPT !.stale = TRUE]
         IN  /\ u \in ReadTx
             /\ u.op = rowTx[d].op /\ u.read = rowTx[d].read /\ u.deleted = rowTx[d].deleted
             /\ u.stale
  BY <1>1, StaleTx
<1> QED BY <1>1, <1>2, Zenon DEF Staled

(* What the calls of one commit, and the sweeper, have in common. *)
Statement ==
    /\ dialect = "sqlite" => rowLock = NoSession
    /\ rowTx' = IF dialect = "sqlite" THEN Staled(NoSession) ELSE rowTx
    /\ UNCHANGED <<dialect, rowLock>>

(* The transactions after a statement. *)
LEMMA StatementTx ==
    ASSUME TablesTypes, Statement
    PROVE  /\ rowTx' \in [Session -> {NoTx} \cup ReadTx]
           /\ dialect = "sqlite" => \A d \in Session : Outdated(d)
           /\ dialect # "sqlite" => rowTx' = rowTx
<1>1. CASE dialect = "sqlite"
  <2>1. rowTx' = Staled(NoSession)
    BY <1>1 DEF Statement
  <2>2. \A d \in Session : d # NoSession
    BY TablesAssumption
  <2>3. \A d \in Session : rowTx[d] \in {NoTx} \cup ReadTx
    BY DEF TablesTypes
  <2> QED BY <1>1, <2>1, <2>2, <2>3, StaledTypes, ZenonT(40) DEF Outdated
<1>2. CASE dialect # "sqlite"
  BY <1>2 DEF Statement, TablesTypes
<1> QED BY <1>1, <1>2

(* A statement leaves the lock, and no current snapshot on SQLite. *)
LEMMA StatementLocking ==
    ASSUME TablesTypes, Locking, Snapshots, Statement
    PROVE  Locking' /\ Snapshots'
<1>1. dialect' = dialect /\ rowLock' = rowLock /\ (dialect = "sqlite" => rowLock = NoSession)
  BY DEF Statement
<1>2. \A d \in Session : d # NoSession
  BY TablesAssumption
<1>3. CASE dialect = "sqlite"
  <2>1. \A d \in Session : Outdated(d)
    BY <1>3, StatementTx
  <2>2. Locking'
    BY <1>1, <1>2, <1>3, <2>1 DEF Locking, Outdated
  <2>3. Snapshots'
    BY <1>1, <1>3, <2>1 DEF Snapshots, Outdated
  <2> QED BY <2>2, <2>3
<1>4. CASE dialect # "sqlite"
  <2>1. rowTx' = rowTx
    BY <1>4, StatementTx
  <2>2. Locking'
    BY <1>1, <1>4, <2>1 DEF Locking
  <2>3. Snapshots'
    BY <1>1, <1>4 DEF Snapshots
  <2> QED BY <2>2, <2>3
<1> QED BY <1>3, <1>4

(* A statement that leaves the entries alone leaves what is overlapped. *)
LEMMA StatementOverlaps ==
    ASSUME TablesTypes, Overlaps, Statement, UNCHANGED <<entries, overlapped>>
    PROVE  Overlaps'
<1>1. rowLock' = rowLock
  BY DEF Statement
<1>2. CASE dialect = "sqlite"
  <2>1. \A d \in Session : Outdated(d)
    BY <1>2, StatementTx
  <2> QED BY <1>1, <2>1 DEF Overlaps, Outdated, Reading
<1>3. CASE dialect # "sqlite"
  <2>1. rowTx' = rowTx
    BY <1>3, StatementTx
  <2> QED BY <1>1, <2>1 DEF Overlaps, Reading
<1> QED BY <1>2, <1>3

(* A statement that commits by itself is one. *)
LEMMA WriteIsStatement == \A answered : Write(answered) => Statement /\ now' = now
BY DEF Write, Statement

-----------------------------------------------------------------------------
(* One lemma for each action: the invariant is kept. *)

(* The part of the types that no statement changes by itself. *)
LEMMA TimeTypes ==
    ASSUME now \in 0..MaxTime
    PROVE  now \in Nat /\ InTTL \in Nat /\ Null \in Nat /\ InTTL > now - 1 /\ Null > now
BY TablesAssumption DEF InTTL, Null

(* registrationStore.Add returns only what BatchGet finds. *)
LEMMA AddRegistrationStep ==
    ASSUME TablesInv, NEW u \in URL, NEW answered \in BOOLEAN, AddRegistration(u, answered)
    PROVE  TablesInv'
<1> USE DEF TablesInv
<1>1. Statement /\ now' = now
  BY WriteIsStatement DEF AddRegistration
<1>2. /\ UNCHANGED <<dedup, counter, accumulator, entries,
                     promised, decrements, acked, overlapped, drained>>
      /\ registrations' = IF registrations = {} THEN {Null} ELSE registrations
      /\ urls' = urls \cup {u}
      /\ accepted' = IF answered THEN accepted \cup {u} ELSE accepted
  BY DEF AddRegistration
<1>3. dialect' = dialect /\ rowLock' = rowLock
  BY <1>1 DEF Statement
<1>4. TablesTypes'
  <2>1. registrations' \subseteq Nat /\ OneRow(registrations')
    BY <1>2, TimeTypes, ZenonT(40) DEF TablesTypes, OneRow
  <2>2. urls' \subseteq URL /\ accepted' \subseteq URL
    BY <1>2 DEF TablesTypes
  <2>3. rowTx' \in [Session -> {NoTx} \cup ReadTx]
    BY <1>1, StatementTx
  <2> QED BY <1>1, <1>2, <1>3, <2>1, <2>2, <2>3 DEF TablesTypes, OneRow
<1>5. Recorded'
  BY <1>1, <1>2 DEF Recorded
<1>6. Locking' /\ Snapshots' /\ Overlaps'
  BY <1>1, <1>2, StatementLocking, StatementOverlaps
<1>7. Kept'
  BY <1>2, <1>3 DEF Kept
<1>8. RegisteredIsFound' /\ DecrementsCounted'
  BY <1>2 DEF RegisteredIsFound, DecrementsCounted, BatchGet
<1> QED BY <1>4, <1>5, <1>6, <1>7, <1>8

(* batchUpdateRegistrationTTL moves the expiry and no URL. *)
LEMMA BatchUpdateTTLStep == ASSUME TablesInv, BatchUpdateTTL PROVE TablesInv'
<1> USE DEF TablesInv
<1>1. Statement /\ now' = now
  BY WriteIsStatement, Zenon DEF BatchUpdateTTL
<1>2. /\ UNCHANGED <<urls, dedup, counter, accumulator, entries,
                     accepted, promised, decrements, acked, overlapped, drained>>
      /\ registrations' = {InTTL : e \in registrations}
  BY DEF BatchUpdateTTL, ghosts
<1>3. dialect' = dialect /\ rowLock' = rowLock
  BY <1>1 DEF Statement
<1>4. TablesTypes'
  <2>1. registrations' \subseteq Nat /\ OneRow(registrations')
    BY <1>2, TimeTypes DEF TablesTypes, OneRow
  <2>2. rowTx' \in [Session -> {NoTx} \cup ReadTx]
    BY <1>1, StatementTx
  <2> QED BY <1>1, <1>2, <1>3, <2>1, <2>2 DEF TablesTypes, OneRow
<1>5. Recorded'
  BY <1>1, <1>2 DEF Recorded
<1>6. Locking' /\ Snapshots' /\ Overlaps'
  BY <1>1, <1>2, StatementLocking, StatementOverlaps
<1>7. Kept'
  BY <1>2, <1>3 DEF Kept
<1>8. RegisteredIsFound' /\ DecrementsCounted'
  BY <1>2 DEF RegisteredIsFound, DecrementsCounted, BatchGet
<1> QED BY <1>4, <1>5, <1>6, <1>7, <1>8

(* callbackDedupStore.Record leaves one row, the one recorded last. *)
LEMMA RecordStep ==
    ASSUME TablesInv, NEW expiry \in {InTTL, Null}, NEW answered \in BOOLEAN,
           Record(expiry, answered)
    PROVE  TablesInv'
<1> USE DEF TablesInv
<1>1. Statement /\ now' = now
  BY WriteIsStatement DEF Record
<1>2. /\ UNCHANGED <<registrations, urls, counter, accumulator, entries,
                     accepted, decrements, acked, overlapped, drained>>
      /\ dedup' = {expiry} /\ promised' = expiry
  BY DEF Record
<1>3. dialect' = dialect /\ rowLock' = rowLock
  BY <1>1 DEF Statement
<1>4. TablesTypes'
  <2>1. rowTx' \in [Session -> {NoTx} \cup ReadTx]
    BY <1>1, StatementTx
  <2> QED BY <1>1, <1>2, <1>3, <2>1 DEF TablesTypes, OneRow
<1>5. Recorded'
  BY <1>1, <1>2, TimeTypes DEF Recorded, TablesTypes
<1>6. Locking' /\ Snapshots' /\ Overlaps'
  BY <1>1, <1>2, StatementLocking, StatementOverlaps
<1>7. Kept'
  BY <1>2, <1>3 DEF Kept
<1>8. RegisteredIsFound' /\ DecrementsCounted'
  BY <1>2 DEF RegisteredIsFound, DecrementsCounted, BatchGet
<1> QED BY <1>4, <1>5, <1>6, <1>7, <1>8

(* subtreeCounter.Init starts the count again. *)
LEMMA InitCounterStep ==
    ASSUME TablesInv, NEW answered \in BOOLEAN, InitCounter(answered)
    PROVE  TablesInv'
<1> USE DEF TablesInv
<1>1. Statement /\ now' = now
  BY WriteIsStatement DEF InitCounter
<1>2. /\ UNCHANGED <<registrations, urls, dedup, accumulator, entries,
                     accepted, promised, acked, overlapped, drained>>
      /\ counter' = {[remaining |-> Count, expires |-> InTTL]} /\ decrements' = 0
  BY DEF InitCounter
<1>3. dialect' = dialect /\ rowLock' = rowLock
  BY <1>1 DEF Statement
<1>4. TablesTypes'
  <2>1. rowTx' \in [Session -> {NoTx} \cup ReadTx]
    BY <1>1, StatementTx
  <2>2. counter' \subseteq [remaining : Int, expires : Nat] /\ OneRow(counter')
    BY <1>2, TimeTypes, TablesAssumption DEF TablesTypes, OneRow
  <2> QED BY <1>1, <1>2, <1>3, <2>1, <2>2, ZenonT(40) DEF TablesTypes, OneRow
<1>5. Recorded'
  BY <1>1, <1>2 DEF Recorded
<1>6. Locking' /\ Snapshots' /\ Overlaps'
  BY <1>1, <1>2, StatementLocking, StatementOverlaps
<1>7. Kept'
  BY <1>2, <1>3 DEF Kept
<1>8. RegisteredIsFound' /\ DecrementsCounted'
  BY <1>2, TablesAssumption DEF RegisteredIsFound, DecrementsCounted, BatchGet
<1> QED BY <1>4, <1>5, <1>6, <1>7, <1>8

(* PostgreSQL decrements in one statement. *)
LEMMA UpdateReturningStep ==
    ASSUME TablesInv, NEW answered \in BOOLEAN, UpdateReturning(answered)
    PROVE  TablesInv'
<1> USE DEF TablesInv
<1>1. Statement /\ now' = now
  BY WriteIsStatement DEF UpdateReturning
<1>2. /\ UNCHANGED <<registrations, urls, dedup, accumulator, entries,
                     accepted, promised, acked, overlapped, drained>>
      /\ counter' = {[r EXCEPT !.remaining = @ - 1] : r \in counter}
      /\ decrements' = decrements + 1
  BY DEF UpdateReturning
<1>3. dialect' = dialect /\ rowLock' = rowLock
  BY <1>1 DEF Statement
<1>4. \A s \in counter' : \E r \in counter :
         s = [remaining |-> r.remaining - 1, expires |-> r.expires]
  <2> SUFFICES ASSUME NEW r \in counter
               PROVE  [r EXCEPT !.remaining = @ - 1]
                          = [remaining |-> r.remaining - 1, expires |-> r.expires]
    BY <1>2, ZenonT(40)
  <2>1. r \in [remaining : Int, expires : Nat]
    BY ZenonT(40) DEF TablesTypes
  <2> QED BY <2>1
<1>5. TablesTypes'
  <2>1. rowTx' \in [Session -> {NoTx} \cup ReadTx]
    BY <1>1, StatementTx
  <2>2. counter' \subseteq [remaining : Int, expires : Nat]
    BY <1>4 DEF TablesTypes
  <2>3. OneRow(counter')
    BY <1>4, ZenonT(40) DEF TablesTypes, OneRow
  <2> QED BY <1>1, <1>2, <1>3, <2>1, <2>2, <2>3 DEF TablesTypes, OneRow
<1>6. Recorded'
  BY <1>1, <1>2 DEF Recorded
<1>7. Locking' /\ Snapshots' /\ Overlaps'
  BY <1>1, <1>2, StatementLocking, StatementOverlaps
<1>8. Kept'
  BY <1>2, <1>3 DEF Kept
<1>9. RegisteredIsFound'
  BY <1>2 DEF RegisteredIsFound, BatchGet
<1>10. DecrementsCounted'
  <2> SUFFICES ASSUME NEW s \in counter' PROVE s.remaining = Count - decrements'
    BY DEF DecrementsCounted
  <2>1. PICK r \in counter : s = [remaining |-> r.remaining - 1, expires |-> r.expires]
    BY <1>4
  <2>2. r.remaining = Count - decrements
    BY DEF DecrementsCounted
  <2>3. decrements \in Nat
    BY DEF TablesTypes
  <2> QED BY <1>2, <2>1, <2>2, <2>3, TablesAssumption
<1> QED BY <1>5, <1>6, <1>7, <1>8, <1>9, <1>10

(* An appended entry overlaps the transactions that are open. *)
LEMMA AppendEntryStep ==
    ASSUME TablesInv, NEW e \in Entry, NEW answered \in BOOLEAN, AppendEntry(e, answered)
    PROVE  TablesInv'
<1> USE DEF TablesInv
<1>1. Statement /\ now' = now
  BY WriteIsStatement, ZenonT(40) DEF AppendEntry
<1>2. /\ UNCHANGED <<registrations, urls, dedup, counter,
                     accepted, promised, decrements, drained>>
      /\ drained[e] = 0
      /\ accumulator' = {InTTL}
      /\ entries' = entries \cup {e}
      /\ acked' \subseteq acked \cup {e}
      /\ overlapped' = IF \E c \in Session : Reading(c) THEN overlapped \cup {e} ELSE overlapped
  BY ZenonT(40) DEF AppendEntry
<1>3. dialect' = dialect /\ rowLock' = rowLock
  BY <1>1 DEF Statement
<1>4. TablesTypes'
  <2>1. rowTx' \in [Session -> {NoTx} \cup ReadTx]
    BY <1>1, StatementTx
  <2>2. accumulator' \subseteq Nat /\ OneRow(accumulator')
    BY <1>2, TimeTypes DEF TablesTypes, OneRow
  <2>3. entries' \subseteq Entry /\ acked' \subseteq Entry /\ overlapped' \subseteq Entry
    BY <1>2 DEF TablesTypes
  <2> QED BY <1>1, <1>2, <1>3, <2>1, <2>2, <2>3, ZenonT(40) DEF TablesTypes, OneRow
<1>5. Recorded'
  BY <1>1, <1>2 DEF Recorded
<1>6. Locking' /\ Snapshots'
  BY <1>1, StatementLocking
<1>7. Overlaps'
  <2> SUFFICES ASSUME NEW c \in Session, Reading(c)'
               PROVE  /\ entries' \subseteq rowTx'[c].read \cup overlapped'
                      /\ rowLock' = c => rowTx'[c].deleted \subseteq rowTx'[c].read \cup overlapped'
    BY ZenonT(40) DEF Overlaps
  <2>1. Reading(c) /\ rowTx'[c].read = rowTx[c].read /\ rowTx'[c].deleted = rowTx[c].deleted
    BY <1>1, StatementTx DEF Reading, Outdated
  <2>2. overlapped' = overlapped \cup {e}
    BY <1>2, <2>1
  <2> QED BY <1>2, <1>3, <2>1, <2>2, ZenonT(40) DEF Overlaps
<1>8. Kept'
  BY <1>2, <1>3 DEF Kept
<1>9. RegisteredIsFound' /\ DecrementsCounted'
  BY <1>2 DEF RegisteredIsFound, DecrementsCounted, BatchGet
<1> QED BY <1>4, <1>5, <1>6, <1>7, <1>8, <1>9

(* The sweeper deletes what has expired. *)
LEMMA SweepTableStep == ASSUME TablesInv, SweepTable PROVE TablesInv'
<1> USE DEF TablesInv
<1>1. Statement /\ now' = now
  BY ZenonT(40) DEF SweepTable, Statement
<1>2. /\ UNCHANGED <<urls, entries, accepted, promised, decrements, acked, overlapped, drained>>
      /\ registrations' \subseteq registrations /\ accumulator' \subseteq accumulator
      /\ counter' \subseteq counter
      /\ dedup' \in {dedup, {e \in dedup : ~Expired(e)}}
  BY ZenonT(40) DEF SweepTable, ghosts
<1>3. dialect' = dialect /\ rowLock' = rowLock
  BY <1>1 DEF Statement
<1>4. TablesTypes'
  <2>1. rowTx' \in [Session -> {NoTx} \cup ReadTx]
    BY <1>1, StatementTx
  <2> QED BY <1>1, <1>2, <1>3, <2>1 DEF TablesTypes, OneRow
<1>5. Recorded'
  <2>1. now \in Nat
    BY TimeTypes, ZenonT(40) DEF TablesTypes
  <2> QED BY <1>1, <1>2, <2>1 DEF Recorded, Expired
<1>6. Locking' /\ Snapshots' /\ Overlaps'
  BY <1>1, <1>2, StatementLocking, StatementOverlaps
<1>7. Kept'
  BY <1>2, <1>3 DEF Kept
<1>8. RegisteredIsFound' /\ DecrementsCounted'
  BY <1>2 DEF RegisteredIsFound, DecrementsCounted, BatchGet
<1> QED BY <1>4, <1>5, <1>6, <1>7, <1>8

(* Time only passes. *)
LEMMA ElapseStep == ASSUME TablesInv, Elapse PROVE TablesInv'
<1> USE DEF TablesInv
<1>1. now' \in 0..MaxTime /\ now' = now + 1 /\ now \in Nat
  BY TablesAssumption DEF Elapse, TablesTypes
<1>2. UNCHANGED <<dialect, rows, rowLock, rowTx, ghosts>>
  BY DEF Elapse
<1>3. TablesTypes'
  BY <1>1, <1>2 DEF TablesTypes, OneRow, rows, ghosts
<1>4. Recorded'
  BY <1>1, <1>2 DEF Recorded, rows, ghosts
<1>5. Locking' /\ Snapshots' /\ Overlaps' /\ Kept'
  BY <1>2, ZenonT(40) DEF Locking, Snapshots, Overlaps, Kept, Reading, rows, ghosts
<1>6. RegisteredIsFound' /\ DecrementsCounted'
  BY <1>2 DEF RegisteredIsFound, DecrementsCounted, BatchGet, rows, ghosts
<1> QED BY <1>3, <1>4, <1>5, <1>6

(* What a transaction that has not committed leaves as it is. *)
LEMMA InTxKeeps ==
    ASSUME TablesInv, UNCHANGED <<dialect, now, rows, ghosts>>,
           rowLock' \in Session \cup {NoSession}, rowTx' \in [Session -> {NoTx} \cup ReadTx]
    PROVE  TablesTypes' /\ Recorded' /\ Kept' /\ RegisteredIsFound' /\ DecrementsCounted'
<1> USE DEF TablesInv
<1>1. TablesTypes'
  BY DEF TablesTypes, OneRow, rows, ghosts
<1>2. Recorded' /\ Kept'
  BY DEF Recorded, Kept, rows, ghosts
<1>3. RegisteredIsFound' /\ DecrementsCounted'
  BY DEF RegisteredIsFound, DecrementsCounted, BatchGet, rows, ghosts
<1> QED BY <1>1, <1>2, <1>3

(* The SELECT of a transaction takes a snapshot of what is committed. *)
LEMMA SelectStep ==
    ASSUME TablesInv, NEW c \in Session, SelectRemaining(c) \/ SelectEntries(c)
    PROVE  TablesInv'
<1> USE DEF TablesInv
<1>1. PICK op, read :
         /\ op \in {"Decrement", "ReadAndDelete"} /\ Begins(c, op, read)
         /\ op = "Decrement" => dialect = "sqlite" /\ read = {r.remaining : r \in counter}
         /\ op = "ReadAndDelete" => read = entries
  <2>0. "Decrement" # "ReadAndDelete"
    OBVIOUS
  <2>1. CASE SelectRemaining(c)
    BY <2>0, <2>1, Zenon DEF SelectRemaining
  <2>2. CASE SelectEntries(c)
    BY <2>0, <2>2, ZenonT(40) DEF SelectEntries
  <2> QED BY <2>1, <2>2, ZenonT(40)
<1> DEFINE t == [op |-> op, read |-> read, deleted |-> {}, stale |-> FALSE]
<1>2. /\ rowTx[c] = NoTx /\ rowTx' = [rowTx EXCEPT ![c] = t]
      /\ UNCHANGED <<dialect, now, rows, rowLock, ghosts>>
  BY <1>1, ZenonT(40) DEF Begins
<1>3. t \in ReadTx
  <2>1. {r.remaining : r \in counter} \subseteq Int /\ entries \subseteq Entry
    BY ZenonT(40) DEF TablesTypes
  <2> QED BY <1>1, <2>1, ZenonT(40) DEF ReadTx
<1>4. /\ rowTx' \in [Session -> {NoTx} \cup ReadTx]
      /\ rowTx'[c] = t /\ \A d \in Session : d # c => rowTx'[d] = rowTx[d]
  BY <1>2, <1>3, ZenonT(40) DEF TablesTypes
<1>5. rowLock # c
  BY <1>2 DEF Locking, NoTx
<1>6. t.op = op /\ t.read = read /\ t.deleted = {} /\ ~t.stale
  OBVIOUS
<1> HIDE DEF t
<1>7. rowLock' = rowLock /\ rowLock \in Session \cup {NoSession}
  BY <1>2 DEF TablesTypes
<1>8. /\ entries' = entries /\ counter' = counter /\ dialect' = dialect
      /\ overlapped' = overlapped
  BY <1>2 DEF rows, ghosts
<1>9. Locking'
  BY <1>1, <1>4, <1>5, <1>6, <1>7, <1>8, ZenonT(40) DEF Locking
<1>10. Snapshots'
  BY <1>1, <1>4, <1>5, <1>6, <1>7, <1>8, ZenonT(40) DEF Snapshots, Reading
<1>11. Overlaps'
  BY <1>1, <1>4, <1>5, <1>6, <1>7, <1>8, ZenonT(40) DEF Overlaps, Reading
<1> QED BY <1>2, <1>4, <1>7, <1>9, <1>10, <1>11, InTxKeeps

(* The write of a transaction takes the lock; the DELETE of ReadAndDelete fixes
   what it deletes. *)
LEMMA WriteInTxStep == ASSUME TablesInv, NEW c \in Session, WriteInTx(c) PROVE TablesInv'
<1> USE DEF TablesInv
<1> DEFINE D == IF Reading(c) THEN entries ELSE {}
           t == [rowTx[c] EXCEPT !.deleted = D]
<1>1. /\ MayWrite(c) /\ rowLock' = c /\ rowTx' = [rowTx EXCEPT ![c] = t]
      /\ UNCHANGED <<dialect, now, rows, ghosts>>
  BY DEF WriteInTx
<1>2. rowTx[c].op # "none" /\ rowLock = NoSession /\ (dialect = "sqlite" => ~rowTx[c].stale)
  BY <1>1 DEF MayWrite
<1>3. /\ t \in ReadTx /\ t.op = rowTx[c].op /\ t.read = rowTx[c].read
      /\ t.deleted = D /\ t.stale = rowTx[c].stale
  <2>1. rowTx[c] \in {NoTx} \cup ReadTx
    BY DEF TablesTypes
  <2>2. D \in SUBSET Entry /\ (rowTx[c].op = "Decrement" => D = {})
    BY DEF TablesTypes, Reading
  <2> HIDE DEF D
  <2> QED BY <1>2, <2>1, <2>2, DeletingTx
<1>4. /\ rowTx' \in [Session -> {NoTx} \cup ReadTx]
      /\ rowTx'[c] = t /\ \A d \in Session : d # c => rowTx'[d] = rowTx[d]
  <2> HIDE DEF t
  <2> QED BY <1>1, <1>3, Zenon DEF TablesTypes
<1>5. \A d \in Session : rowLock' = d => d = c
  BY <1>1
<1>6. Reading(c) => t.deleted = entries
  BY <1>3
<1> HIDE DEF t
<1>7. /\ entries' = entries /\ counter' = counter /\ dialect' = dialect
      /\ overlapped' = overlapped
  BY <1>1 DEF rows, ghosts
<1>8. Locking'
  BY <1>2, <1>3, <1>4, <1>5, <1>7, ZenonT(40) DEF Locking
<1>9. Snapshots'
  BY <1>2, <1>3, <1>4, <1>5, <1>6, <1>7, ZenonT(40) DEF Snapshots, Reading
<1>10. Overlaps'
  BY <1>2, <1>3, <1>4, <1>5, <1>6, <1>7, ZenonT(40) DEF Overlaps, Reading
<1> QED BY <1>1, <1>4, <1>8, <1>9, <1>10, InTxKeeps

(* A transaction that is rolled back leaves no trace. *)
LEMMA RolledStep == ASSUME TablesInv, NEW c \in Session, Rolled(c) PROVE TablesInv'
<1> USE DEF TablesInv
<1>1. /\ rowTx' = [rowTx EXCEPT ![c] = NoTx]
      /\ rowLock' = IF rowLock = c THEN NoSession ELSE rowLock
      /\ UNCHANGED <<dialect, now, rows, ghosts>>
  BY DEF Rolled
<1>2. /\ rowTx' \in [Session -> {NoTx} \cup ReadTx]
      /\ rowTx'[c] = NoTx /\ \A d \in Session : d # c => rowTx'[d] = rowTx[d]
  BY <1>1, ZenonT(40) DEF TablesTypes
<1>3. rowTx'[c].op = "none"
  BY <1>2 DEF NoTx
<1>4. /\ rowLock' \in Session \cup {NoSession}
      /\ \A d \in Session : rowLock' = d => rowLock = d /\ d # c
  BY <1>1, TablesAssumption DEF TablesTypes
<1>5. /\ entries' = entries /\ counter' = counter /\ dialect' = dialect
      /\ overlapped' = overlapped
  BY <1>1 DEF rows, ghosts
<1>6. Locking'
  BY <1>2, <1>3, <1>4, <1>5, ZenonT(40) DEF Locking
<1>7. Snapshots'
  BY <1>2, <1>3, <1>4, <1>5, ZenonT(40) DEF Snapshots, Reading
<1>8. Overlaps'
  BY <1>2, <1>3, <1>4, <1>5, ZenonT(40) DEF Overlaps, Reading
<1> QED BY <1>1, <1>2, <1>4, <1>6, <1>7, <1>8, InTxKeeps

(* Both transactions take effect as a whole: the entries that are deleted are
   the ones that were read, and the counter that is written is one less than
   the counter that is there. *)
LEMMA CommittedTxStep == ASSUME TablesInv, NEW c \in Session, CommittedTx(c) PROVE TablesInv'
<1> USE DEF TablesInv
<1>1. /\ rowLock = c /\ rowLock' = NoSession
      /\ rowTx' = [Staled(c) EXCEPT ![c] = NoTx]
      /\ UNCHANGED <<dialect, now, registrations, urls, dedup,
                     accepted, promised, acked, overlapped>>
  BY DEF CommittedTx
<1>2. /\ rowTx' \in [Session -> {NoTx} \cup ReadTx]
      /\ rowTx'[c] = NoTx /\ \A d \in Session : d # c => Outdated(d)
  <2>1. /\ Staled(c) \in [Session -> {NoTx} \cup ReadTx]
        /\ \A d \in Session : d # c =>
             LET u == Staled(c)[d]
             IN  /\ rowTx[d].op = "none" => u = rowTx[d]
                 /\ rowTx[d].op # "none" =>
                       u.op = rowTx[d].op /\ u.read = rowTx[d].read
                       /\ u.deleted = rowTx[d].deleted /\ u.stale
    BY StaledTypes, Zenon
  <2>2. /\ rowTx' \in [Session -> {NoTx} \cup ReadTx] /\ rowTx'[c] = NoTx
        /\ \A d \in Session : d # c => rowTx'[d] = Staled(c)[d]
    BY <1>1, <2>1, Zenon
  <2> QED BY <2>1, <2>2, ZenonT(40) DEF Outdated
<1>3. rowTx'[c].op = "none"
  BY <1>2 DEF NoTx
<1>4. \A d \in Session : d # NoSession
  BY TablesAssumption
<1>5. Locking'
  BY <1>1, <1>2, <1>3, <1>4, ZenonT(40) DEF Locking, Outdated
<1>6. Snapshots'
  BY <1>2, <1>3, ZenonT(40) DEF Snapshots, Outdated
<1>7. Recorded' /\ RegisteredIsFound'
  BY <1>1 DEF Recorded, RegisteredIsFound, BatchGet
<1>8. /\ rowTx[c] \in {NoTx} \cup ReadTx /\ rowTx[c].op # "none"
      /\ dialect = "sqlite" => ~rowTx[c].stale
      /\ dialect = "postgres" => rowTx[c].op # "Decrement"
      /\ dialect \in {"postgres", "sqlite"}
  BY <1>1, ZenonT(40) DEF TablesTypes, Locking
<1>9. CASE Reading(c)
  <2>1. /\ entries' = entries \ rowTx[c].deleted /\ accumulator' = {}
        /\ drained' = [e \in Entry |->
                          IF e \in rowTx[c].read THEN drained[e] + 1 ELSE drained[e]]
        /\ UNCHANGED <<counter, decrements>>
    BY <1>9 DEF CommittedTx
  <2>2. TablesTypes'
    <3>1. drained' \in [Entry -> Nat]
      BY <2>1 DEF TablesTypes
    <3>2. entries' \subseteq Entry /\ accumulator' \subseteq Nat /\ OneRow(accumulator')
      BY <2>1, ZenonT(40) DEF TablesTypes, OneRow
    <3>3. rowLock' \in Session \cup {NoSession}
      BY <1>1
    <3> QED BY <1>1, <1>2, <2>1, <3>1, <3>2, <3>3, ZenonT(40) DEF TablesTypes, OneRow
  <2>3. Overlaps'
    BY <1>1, <1>2, <1>3, <1>4, <2>1, ZenonT(40) DEF Overlaps, Outdated, Reading
  <2>4. /\ rowTx[c].deleted \subseteq rowTx[c].read \cup overlapped
        /\ dialect = "sqlite" => rowTx[c].deleted = entries /\ rowTx[c].read = entries
    BY <1>1, <1>8, <1>9, ZenonT(40) DEF Overlaps, Snapshots
  <2>5. \A e \in Entry : /\ drained[e] \in Nat
                         /\ drained'[e] = IF e \in rowTx[c].read THEN drained[e] + 1 ELSE drained[e]
    BY <2>1, ZenonT(40) DEF TablesTypes
  <2>6. Kept'
    <3>1. ASSUME NEW e \in acked'
          PROVE  e \in entries' \/ drained'[e] >= 1 \/ (dialect' = "postgres" /\ e \in overlapped')
      <4>1. e \in Entry /\ e \in acked
        BY <1>1, ZenonT(40) DEF TablesTypes
      <4>2. CASE dialect = "sqlite"
        BY <1>1, <2>1, <2>4, <2>5, <4>1, <4>2 DEF Kept
      <4>3. CASE dialect = "postgres"
        BY <1>1, <2>1, <2>4, <2>5, <4>1, <4>3 DEF Kept
      <4> QED BY <1>8, <4>2, <4>3
    <3>2. ASSUME dialect' = "sqlite", NEW e \in Entry
          PROVE  drained'[e] = 0 \/ (drained'[e] = 1 /\ e \notin entries')
      BY <1>1, <2>1, <2>4, <2>5, <3>2 DEF Kept
    <3> QED BY <3>1, <3>2, ZenonT(40) DEF Kept
  <2>7. DecrementsCounted'
    BY <2>1, ZenonT(40) DEF DecrementsCounted
  <2> QED BY <1>5, <1>6, <1>7, <2>2, <2>3, <2>6, <2>7
<1>10. CASE ~Reading(c)
  <2>1. /\ counter' = {[r EXCEPT !.remaining = n - 1] : r \in counter, n \in rowTx[c].read}
        /\ decrements' = decrements + 1
        /\ UNCHANGED <<entries, accumulator, drained>>
    BY <1>10 DEF CommittedTx
  <2>2. rowTx[c].op = "Decrement" /\ dialect = "sqlite"
    BY <1>8, <1>10, TxTypes, ZenonT(40) DEF Reading
  <2>3. rowTx[c].read = {r.remaining : r \in counter}
    BY <1>8, <2>2, ZenonT(40) DEF Snapshots
  <2>4. \A s \in counter' : \E r \in counter :
           s = [remaining |-> r.remaining - 1, expires |-> r.expires]
    <3> TAKE s \in counter'
    <3>1. PICK r \in counter, n \in rowTx[c].read : s = [r EXCEPT !.remaining = n - 1]
      BY <2>1
    <3>2. r \in [remaining : Int, expires : Nat]
      BY DEF TablesTypes
    <3>3. n = r.remaining
      BY <2>3, ZenonT(40) DEF TablesTypes, OneRow
    <3> QED BY <3>1, <3>2, <3>3
  <2>5. TablesTypes'
    <3>1. counter' \subseteq [remaining : Int, expires : Nat]
      BY <2>4 DEF TablesTypes
    <3>2. OneRow(counter')
      BY <2>4, ZenonT(40) DEF TablesTypes, OneRow
    <3>3. rowLock' \in Session \cup {NoSession} /\ decrements' \in Nat
      BY <1>1, <2>1 DEF TablesTypes
    <3> QED BY <1>1, <1>2, <2>1, <3>1, <3>2, <3>3, ZenonT(40) DEF TablesTypes, OneRow
  <2>6. Overlaps'
    BY <1>1, <1>2, <1>3, <1>4, <2>1 DEF Overlaps, Outdated, Reading
  <2>7. Kept'
    BY <1>1, <2>1 DEF Kept
  <2>8. DecrementsCounted'
    <3> SUFFICES ASSUME NEW s \in counter' PROVE s.remaining = Count - decrements'
      BY DEF DecrementsCounted
    <3>1. PICK r \in counter : s = [remaining |-> r.remaining - 1, expires |-> r.expires]
      BY <2>4
    <3>2. r.remaining = Count - decrements
      BY DEF DecrementsCounted
    <3>3. decrements \in Nat
      BY ZenonT(40) DEF TablesTypes
    <3> QED BY <2>1, <3>1, <3>2, <3>3, TablesAssumption
  <2> QED BY <1>5, <1>6, <1>7, <2>5, <2>6, <2>7, <2>8
<1> QED BY <1>9, <1>10

-----------------------------------------------------------------------------
(* The tables start empty. *)
LEMMA TablesInitInvariant == ASSUME TablesInit PROVE TablesInv
<1> USE TablesAssumption DEF TablesInit
<1>1. TablesTypes
  BY DEF TablesTypes, OneRow
<1>2. Recorded
  BY DEF Recorded
<1>3. \A c \in Session : rowTx[c].op = "none"
  BY DEF NoTx
<1>4. Locking /\ Snapshots /\ Overlaps
  BY <1>3, ZenonT(40) DEF Locking, Snapshots, Overlaps, Reading
<1>5. Kept
  BY DEF Kept
<1>6. RegisteredIsFound /\ DecrementsCounted
  BY DEF RegisteredIsFound, DecrementsCounted, BatchGet
<1> QED BY <1>1, <1>2, <1>4, <1>5, <1>6 DEF TablesInv

(* Every behaviour of the tables keeps the invariant. *)
LEMMA TablesInductive == TablesSpec => []TablesInv
<1>1. TablesInit => TablesInv
  BY TablesInitInvariant
<1>2. TablesInv /\ [TablesNext]_callVars => TablesInv'
  <2> SUFFICES ASSUME TablesInv, [TablesNext]_callVars PROVE TablesInv'
    OBVIOUS
  <2>1. CASE UNCHANGED callVars
    <3>1. UNCHANGED <<dialect, now, rows, ghosts>> /\ rowLock' = rowLock /\ rowTx' = rowTx
      BY <2>1 DEF callVars
    <3>2. rowLock' \in Session \cup {NoSession} /\ rowTx' \in [Session -> {NoTx} \cup ReadTx]
      BY <3>1, ZenonT(40) DEF TablesInv, TablesTypes
    <3>3. Locking' /\ Snapshots' /\ Overlaps'
      BY <3>1, ZenonT(40) DEF TablesInv, Locking, Snapshots, Overlaps, Reading, rows, ghosts
    <3> QED BY <3>1, <3>2, <3>3, InTxKeeps DEF TablesInv
  <2>2. CASE TablesNext
    BY <2>2, AddRegistrationStep, BatchUpdateTTLStep, RecordStep, InitCounterStep,
       UpdateReturningStep, AppendEntryStep, SweepTableStep, ElapseStep, SelectStep,
       WriteInTxStep, CommittedTxStep, RolledStep, ZenonT(40)
       DEF TablesNext, CommitTx, CommitTxUnanswered, Busy, RollbackTx
  <2> QED BY <2>1, <2>2
<1> QED BY <1>1, <1>2, PTL DEF TablesSpec

-----------------------------------------------------------------------------
(* The theorems of the library about finite sets, under a name. *)
FST == INSTANCE FiniteSetTheorems

(* How many elements a set has. *)
LEMMA SetCounts ==
    /\ Cardinality({}) = 0 /\ \A x : Cardinality({x}) = 1
    /\ \A S : IsFiniteSet(S) => Cardinality(S) \in Nat /\ \A T \in SUBSET S : IsFiniteSet(T)
<1>0. /\ \A S : Cardinality(S) = FST!Cardinality(S)
      /\ \A S : IsFiniteSet(S) <=> FST!IsFiniteSet(S)
  BY Zenon DEF Cardinality, FST!Cardinality, IsFiniteSet, FST!IsFiniteSet
<1>1. Cardinality({}) = 0
  BY <1>0, FST!FS_EmptySet, Zenon
<1>2. ASSUME NEW x PROVE Cardinality({x}) = 1
  BY <1>0, FST!FS_Singleton, Zenon
<1>3. ASSUME NEW S, IsFiniteSet(S) PROVE Cardinality(S) \in Nat
  BY <1>0, <1>3, FST!FS_CardinalityType, ZenonT(40)
<1>4. ASSUME NEW S, IsFiniteSet(S), NEW T \in SUBSET S PROVE IsFiniteSet(T)
  BY <1>0, <1>4, FST!FS_Subset, ZenonT(40)
<1> QED BY <1>1, <1>2, <1>3, <1>4, ZenonT(40)

(* The subtrees that a transaction counts are finitely many. *)
LEMMA SeenCounted == CountsSubtrees
BY SetCounts, SQLSeenAssumption, ZenonT(40) DEF CountsSubtrees

(* Every step of Increment's transaction keeps the types. *)
THEOREM TypeCorrect == Spec => []TypeOK
<1>1. Init => TypeOK
  <2> SUFFICES ASSUME Init PROVE TypeOK
    OBVIOUS
  <2>1. tx \in [Caller -> {IdleTx} \cup OpenTx \cup EndedTx]
    BY Zenon DEF Init
  <2>2. reports \in Nat /\ faults \in Nat
    BY SQLSeenAssumption DEF Init
  <2> QED BY <2>1, <2>2, Zenon DEF Init, TypeOK
<1>2. TypeOK /\ [Next]_vars => TypeOK'
  BY SeenCounted, TypeStep
<1> QED BY <1>1, <1>2, PTL DEF Spec

(* Increment reports ThresholdReached to one caller at most, on PostgreSQL
   and on SQLite, however calls interleave and whatever statements fail. *)
THEOREM AtMostOneReport == Spec => []ReportedOnce
<1>1. FlagInv => ReportedOnce
  BY DEF FlagInv, ReportedOnce
<1> QED BY <1>1, SeenInit, FlagStep, TypeCorrect, PTL DEF Spec

(* On SQLite the transaction of Increment implements the promise of
   SeenCounterStore: committing is the call's one atomic effect. *)
THEOREM SQLiteImplementsPromise == ~Postgres /\ Spec => ImplementsPromise
<1> SUFFICES ASSUME ~Postgres PROVE Spec => ImplementsPromise
  OBVIOUS
<1>1. TypeOK /\ Serial /\ [Next]_vars => [Promise!Next]_(Promise!vars)
  BY SeenCounted, PromiseStep
<1>2. TypeOK /\ Serial /\ [Next]_vars => Serial'
  BY SerialStep
<1> QED BY <1>1, <1>2, SeenInit, TypeCorrect, PTL
    DEF Spec, ImplementsPromise, Promise!Spec

(* A row that is there once is counted once. *)
LEMMA OneRowCount == ASSUME NEW row, OneRow(row) PROVE Cardinality(row) \in {0, 1}
<1>1. CASE row = {}
  BY <1>1, SetCounts, Zenon
<1>2. CASE row # {}
  <2>1. PICK x : x \in row
    BY <1>2
  <2>2. row = {x}
    BY <2>1, Zenon DEF OneRow
  <2> QED BY <2>2, SetCounts, ZenonT(40)
<1> QED BY <1>1, <1>2

(***************************************************************************)
(* The statements of the SQL stores keep every row in its type and the     *)
(* primary keys unique, for any sessions, URLs, entries and TTL.           *)
(***************************************************************************)
THEOREM TablesTypeCorrect == TablesSpec => []TablesTypeOK
<1>1. TablesInv => TablesTypeOK
  <2> SUFFICES ASSUME TablesInv PROVE TablesTypeOK
    OBVIOUS
  <2> USE DEF TablesInv
  <2>1. dedup \subseteq Nat /\ OneRow(dedup)
    BY DEF Recorded, OneRow
  <2>2. \A row \in {registrations, dedup, accumulator, counter} : Cardinality(row) \in {0, 1}
    BY <2>1, OneRowCount, ZenonT(40) DEF TablesTypes
  <2>3. \A r \in counter : r.remaining \in Int /\ r.expires \in Nat
    BY ZenonT(40) DEF TablesTypes
  <2>4. \A row \in {registrations, dedup, accumulator, counter} : Cardinality(row) <= 1
    BY <2>2
  <2> QED BY <2>1, <2>3, <2>4, ZenonT(40) DEF TablesTypes, TablesTypeOK
<1> QED BY <1>1, TablesInductive, PTL

(***************************************************************************)
(* registrationStore.BatchGet returns every URL whose Add was answered     *)
(* while the registration is alive, whoever else registers, extends the    *)
(* TTL or sweeps, and whatever answers are lost.                           *)
(***************************************************************************)
THEOREM AcceptedIsReturned == TablesSpec => []RegisteredIsFound
<1>1. TablesInv => RegisteredIsFound
  BY DEF TablesInv
<1> QED BY <1>1, TablesInductive, PTL

(***************************************************************************)
(* callbackDedupStore.Exists finds a recorded callback until its TTL is    *)
(* over, with the sweeper at work and records repeated.                    *)
(***************************************************************************)
THEOREM RecordedUntilExpiry == TablesSpec => []FoundUntilExpiry
<1>1. TablesInv => FoundUntilExpiry
  <2> SUFFICES ASSUME TablesInv PROVE FoundUntilExpiry
    OBVIOUS
  <2>1. now \in Nat
    BY TimeTypes, ZenonT(40) DEF TablesInv, TablesTypes
  <2> QED BY <2>1 DEF TablesInv, Recorded, FoundUntilExpiry, Exists
<1> QED BY <1>1, TablesInductive, PTL

(***************************************************************************)
(* subtreeCounter loses no Decrement that was answered, in both dialects:  *)
(* the snapshot SQLite reads the count from is current when it commits.    *)
(***************************************************************************)
THEOREM NoDecrementLost == TablesSpec => []DecrementsCounted
<1>1. TablesInv => DecrementsCounted
  BY DEF TablesInv
<1> QED BY <1>1, TablesInductive, PTL

(***************************************************************************)
(* Every entry whose Append was answered is in the accumulator's table or  *)
(* was returned by a ReadAndDelete, on SQLite exactly once; on PostgreSQL  *)
(* unless it was appended while a ReadAndDelete was open.                  *)
(***************************************************************************)
THEOREM NoEntryLost == TablesSpec => []EntriesAccounted
<1>1. TablesInv => EntriesAccounted
  <2> SUFFICES ASSUME TablesInv, NEW e \in acked
               PROVE  LET copies == drained[e] + Cardinality({e} \cap entries)
                      IN  /\ dialect = "sqlite" => copies = 1
                          /\ e \notin overlapped => copies >= 1
    BY ZenonT(40) DEF EntriesAccounted
  <2>1. e \in Entry /\ drained[e] \in Nat
    BY ZenonT(40) DEF TablesInv, TablesTypes
  <2>2. Cardinality({e} \cap entries) = IF e \in entries THEN 1 ELSE 0
    <3>1. CASE e \in entries
      <4>1. {e} \cap entries = {e}
        BY <3>1, ZenonT(40)
      <4> QED BY <3>1, <4>1, SetCounts, ZenonT(40)
    <3>2. CASE e \notin entries
      <4>1. {e} \cap entries = {}
        BY <3>2
      <4> QED BY <3>2, <4>1, SetCounts, ZenonT(40)
    <3> QED BY <3>1, <3>2
  <2>3. /\ e \in entries \/ drained[e] >= 1 \/ (dialect = "postgres" /\ e \in overlapped)
        /\ dialect = "sqlite" => drained[e] = 0 \/ (drained[e] = 1 /\ e \notin entries)
    BY <2>1, ZenonT(40) DEF TablesInv, Kept
  <2> QED BY <2>1, <2>2, <2>3
<1> QED BY <1>1, TablesInductive, PTL
=============================================================================
