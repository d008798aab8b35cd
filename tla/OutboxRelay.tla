----------------------------- MODULE OutboxRelay -----------------------------
(***************************************************************************)
(* The transactional outbox: the rows CreatePayment commits to             *)
(* outbox_events, and the relay workers, one per replica of the payment    *)
(* service, that poll the PENDING rows, publish them to payment-events and *)
(* mark them PROCESSED.                                                    *)
(*                                                                         *)
(* Events are numbered by created_at, which the handler takes before its   *)
(* transaction commits: rows become visible in any order.  The topic is    *)
(* one log per partition key; the writer hashes the key, so two accounts   *)
(* may share a partition, but nothing is promised across accounts.         *)
(***************************************************************************)
EXTENDS Integers, Sequences, FiniteSets

CONSTANTS
  Workers,      \* relay workers
  Events,       \* rows of outbox_events, numbered by created_at
  Accounts,
  SourceOf,     \* the source account in each event's payload
  BatchSize,    \* LIMIT of the poll
  Unreachable,  \* accounts whose partition has no leader for good
  MaxCopies,    \* bound: copies of an event the log counts
  MaxCrashes    \* bound: crashes of workers

ASSUME EventsAssumption == Events \subseteq Nat /\ IsFiniteSet(Events)
ASSUME SourceAssumption == SourceOf \in [Events -> Accounts]
ASSUME BatchAssumption == BatchSize \in Nat \ {0}
ASSUME UnreachableAssumption == Unreachable \subseteq Accounts
ASSUME BoundsAssumption == MaxCopies \in Nat \ {0} /\ MaxCrashes \in Nat

VARIABLES
  status,   \* per event: status column, or "uncommitted"
  topic,    \* per account: the events written under its key, in log order
  pc,       \* per worker: waiting for the ticker, next statement, or down
  batch,    \* per worker: events of its poll still to be handled
  crashes,
  dropped   \* history: the events that Kafka has lost

vars == <<status, topic, pc, batch, crashes, dropped>>

-----------------------------------------------------------------------------

Stuck   == {e \in Events : SourceOf[e] \in Unreachable}
Pending == {e \in Events : status[e] = "PENDING"}

(* The sequence of the n oldest pending events, as a set of one.            *)
Oldest(n) ==
  {events \in [1..n -> Pending] :
     /\ \A i, j \in 1..n : i < j => events[i] < events[j]
     /\ \A e \in Pending : (\E i \in 1..n : e <= events[i]) => \E i \in 1..n : e = events[i]}

(* SELECT ... WHERE status = 'PENDING' ORDER BY created_at LIMIT BatchSize  *)
AllPending    == Oldest(Cardinality(Pending))  \* mutant: no LIMIT
PendingEvents == Oldest(IF Cardinality(Pending) < BatchSize THEN Cardinality(Pending)
                                                            ELSE BatchSize)

Copies(e) == Cardinality({i \in DOMAIN topic[SourceOf[e]] : topic[SourceOf[e]][i] = e})

(* The partition key is the source account of the payload.                  *)
AppendCopy(e) ==
  topic' = IF Copies(e) < MaxCopies
           THEN [topic EXCEPT ![SourceOf[e]] = Append(@, e)]
           ELSE topic

(* The worker turns to the next event of its batch, or to the ticker.       *)
Continue(w) ==
  /\ batch' = [batch EXCEPT ![w] = Tail(@)]
  /\ pc' = [pc EXCEPT ![w] = IF Len(batch[w]) = 1 THEN "waiting" ELSE "publish"]

-----------------------------------------------------------------------------
(* CreatePayment commits the event with its payment.                        *)
Commit(e) ==
  /\ status[e] = "uncommitted"
  /\ status' = [status EXCEPT ![e] = "PENDING"]
  /\ UNCHANGED <<topic, pc, batch, crashes, dropped>>

(* A failed or an empty poll changes nothing and waits for the next tick.   *)
Poll(w) ==
  /\ pc[w] = "waiting"
  /\ Pending # {}
  /\ \E events \in PendingEvents : batch' = [batch EXCEPT ![w] = events]
  /\ pc' = [pc EXCEPT ![w] = "publish"]
  /\ UNCHANGED <<status, topic, crashes, dropped>>

(* Publish returns no error.  The writer asks for no acknowledgement        *)
(* (RequiredAcks is left unset), so the broker may not have stored the      *)
(* message.                                                                 *)
Publish(w) ==
  /\ pc[w] = "publish"
  /\ Head(batch[w]) \notin Stuck
  /\ \/ AppendCopy(Head(batch[w])) /\ UNCHANGED dropped
     \/ dropped' = dropped \cup {Head(batch[w])} /\ UNCHANGED topic
  /\ pc' = [pc EXCEPT ![w] = "mark"]
  /\ UNCHANGED <<status, batch, crashes>>

(* Mutants: the error of Publish is not looked at; it ends the batch.       *)
PublishErrorIgnored(w) ==
  /\ pc[w] = "publish"
  /\ pc' = [pc EXCEPT ![w] = "mark"]
  /\ UNCHANGED <<status, topic, batch, crashes, dropped>>

PublishErrorEndsBatch(w) ==
  /\ pc[w] = "publish"
  /\ pc' = [pc EXCEPT ![w] = "waiting"]
  /\ batch' = [batch EXCEPT ![w] = <<>>]
  /\ UNCHANGED <<status, topic, crashes, dropped>>

(* Publish returns an error, after the message was written or not: the      *)
(* event stays PENDING, the loop continues with the next one.               *)
PublishFails(w) ==
  /\ pc[w] = "publish"
  /\ \/ UNCHANGED topic
     \/ Head(batch[w]) \notin Stuck /\ AppendCopy(Head(batch[w]))
  /\ Continue(w)
  /\ UNCHANGED <<status, crashes, dropped>>

(* Mutant: the UPDATE is given another column's id and matches no row.      *)
MarkNoRow(w) ==
  /\ pc[w] = "mark"
  /\ Continue(w)
  /\ UNCHANGED <<status, topic, crashes, dropped>>

MarkProcessed(w) ==
  /\ pc[w] = "mark"
  /\ status' = [status EXCEPT ![Head(batch[w])] = "PROCESSED"]
  /\ Continue(w)
  /\ UNCHANGED <<topic, crashes, dropped>>

(* The UPDATE fails: the event stays PENDING and is published again.  (An   *)
(* update that was carried out while its answer was lost is MarkProcessed.) *)
MarkFails(w) ==
  /\ pc[w] = "mark"
  /\ Continue(w)
  /\ UNCHANGED <<status, topic, crashes, dropped>>

Crash(w) ==
  /\ pc[w] # "down"
  /\ crashes < MaxCrashes
  /\ crashes' = crashes + 1
  /\ pc' = [pc EXCEPT ![w] = "down"]
  /\ batch' = [batch EXCEPT ![w] = <<>>]
  /\ UNCHANGED <<status, topic, dropped>>

Restart(w) ==
  /\ pc[w] = "down"
  /\ pc' = [pc EXCEPT ![w] = "waiting"]
  /\ UNCHANGED <<status, topic, batch, crashes, dropped>>

-----------------------------------------------------------------------------

Init ==
  /\ status = [e \in Events |-> "uncommitted"]
  /\ topic = [a \in Accounts |-> <<>>]
  /\ pc = [w \in Workers |-> "waiting"]
  /\ batch = [w \in Workers |-> <<>>]
  /\ crashes = 0
  /\ dropped = {}

WorkerStep(w) ==
  Poll(w) \/ Publish(w) \/ PublishFails(w) \/ MarkProcessed(w) \/ MarkFails(w)
  \/ Restart(w)

Idle == Pending = {} /\ (\A w \in Workers : pc[w] = "waiting") /\ UNCHANGED vars

Next ==
  \/ \E e \in Events : Commit(e)
  \/ \E w \in Workers : WorkerStep(w) \/ Crash(w)
  \/ Idle

Spec == Init /\ [][Next]_vars

(* The ticker fires and a pod is restarted, so each worker keeps going.     *)
(* Errors other than those of an unreachable partition are transient: a     *)
(* worker that publishes again and again succeeds at last, and so does one  *)
(* that marks again and again.                                              *)
Fairness ==
  \A w \in Workers :
    WF_vars(WorkerStep(w)) /\ SF_vars(Publish(w)) /\ SF_vars(MarkProcessed(w))

FairSpec == Spec /\ Fairness

-----------------------------------------------------------------------------
(* Properties *)

Published(e) == \E i \in DOMAIN topic[SourceOf[e]] : topic[SourceOf[e]][i] = e

(* The shape of the state; a batch has at most LIMIT events, and a worker   *)
(* between poll and ticker has one.                                         *)
TypeOK ==
  /\ status \in [Events -> {"uncommitted", "PENDING", "PROCESSED"}]
  /\ topic \in [Accounts -> Seq(Events)]
  /\ pc \in [Workers -> {"waiting", "publish", "mark", "down"}]
  /\ batch \in [Workers -> Seq(Events)]
  /\ crashes \in 0..MaxCrashes
  /\ dropped \subseteq Events
  /\ \A w \in Workers : /\ Len(batch[w]) <= BatchSize
                        /\ pc[w] \in {"publish", "mark"} <=> batch[w] # <<>>

(* The relay forgets no event: a row that is PROCESSED, and so never looked *)
(* at again, has its event in the topic, or Kafka has lost it on the way,   *)
(* after a Publish without error; whatever calls fail, whoever dies, and    *)
(* whatever the other replica's worker does with the same row meanwhile.    *)
LostOnlyByKafka ==
  \A e \in Events : status[e] = "PROCESSED" => Published(e) \/ e \in dropped

(* Head-of-line blocking is bounded: although an account's partition stays  *)
(* without a leader and its events fail in every batch, an event of another *)
(* account that is committed is handed to Kafka and marked at last.  (It    *)
(* needs fewer stuck events than BatchSize: those fill up every batch.)     *)
EveryEventProcessed ==
  \A e \in Events \ Stuck : status[e] = "PENDING" ~> status[e] = "PROCESSED"

(* Strict in-order delivery per account: the events of an account are in    *)
(* the log in the order in which they were created.                         *)
PerAccountOrder ==
  \A a \in Accounts : \A i, j \in DOMAIN topic[a] :
    i < j => topic[a][i] <= topic[a][j]
=============================================================================
