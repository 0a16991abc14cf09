--------------------------- MODULE KafkaPartition ---------------------------
(***************************************************************************)
(* One partition of a Kafka topic as the consumer wrapper of               *)
(* internal/kafka/consumer.go sees it: the append-only log, the offset the *)
(* session fetches next, the offset the session has marked, and the offset *)
(* the group has committed.  Offsets count from 1; NoOffset means that the *)
(* group has never committed one.  The broker and the client library are   *)
(* external; what is translated is how consumer.go drives them.            *)
(***************************************************************************)
EXTENDS Integers, Sequences

NoOffset == 0

PartitionOfType(M) ==
    [log : Seq(M), next : Nat \ {0}, marked : Nat, committed : Nat]

EmptyPartition ==
    [log |-> <<>>, next |-> 1, marked |-> NoOffset, committed |-> NoOffset]

(* A synchronous publish that the broker acknowledged. *)
Published(part, m) == [part EXCEPT !.log = Append(@, m)]

HasMessage(part) == part.next <= Len(part.log)

Message(part) == part.log[part.next]

(* The handler returned nil: MarkMessage, then the loop takes the next one. *)
Marked(part) == [part EXCEPT !.next = @ + 1, !.marked = part.next + 1]

(* The handler returned an error: "continue", nothing is marked. *)
Skipped(part) == [part EXCEPT !.next = @ + 1]

(* The session's background commit of the offset marked last. *)
Committed(part) == [part EXCEPT !.committed = part.marked]

(* Mutant of Rejoined: the session resumes at the committed offset even when
   there is none. *)
RejoinedAtCommitted(part) ==
    [part EXCEPT !.next = part.committed, !.marked = part.committed]

(***************************************************************************)
(* A new session after a crash: it resumes at the committed offset, or at  *)
(* the end of the log when there is none (Offsets.Initial = OffsetNewest). *)
(***************************************************************************)
Rejoined(part) ==
    [part EXCEPT !.next = IF part.committed = NoOffset
                          THEN Len(part.log) + 1
                          ELSE part.committed,
                 !.marked = part.committed]
=============================================================================
