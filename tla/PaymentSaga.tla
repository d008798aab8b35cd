----------------------------- MODULE PaymentSaga -----------------------------
(***************************************************************************)
(* The saga: the payment service's consumers of fraud-events, one per      *)
(* replica, each with a circuit breaker of its own; ProcessFraudResult,    *)
(* which moves the money by a call to the account service and settles the  *)
(* payment; and the result event for the notification service.             *)
(*                                                                         *)
(* One partition of fraud-events is modelled: results of one payment share *)
(* a partition (the fraud service keys them by payment), and partitions do *)
(* not interact.  Payments exist and are PENDING: PaymentIntake commits    *)
(* them before their events.  A transfer is atomic: AccountLedger shows    *)
(* that it is carried out entirely or not at all.                          *)
(***************************************************************************)
EXTENDS Integers, Sequences, FiniteSets

CONSTANTS
  Payments,
  Consumers,         \* replicas of the payment service
  NoConsumer, NoResult,
  FailureThreshold,  \* of the circuit breaker
  SuccessThreshold,
  MaxResults,        \* bound: messages in the partition
  MaxCrashes,        \* bound: crashes of consumers
  MaxRebalances      \* bound: partition moves away from a live consumer

ASSUME ThresholdAssumption == FailureThreshold \in Nat \ {0} /\ SuccessThreshold \in Nat \ {0}
ASSUME BoundsAssumption == {MaxResults, MaxCrashes, MaxRebalances} \subseteq Nat
ASSUME ConsumerAssumption == NoConsumer \notin Consumers

VARIABLES
  status,     \* payments.status
  told,       \* the outcomes that have been told, by a payment's idempotency
              \* record or by a result event on payment-events
  results,    \* the partition of fraud-events
  owner,      \* consumer the partition is assigned to
  position,   \* offsets the owner has read
  committed,  \* offsets committed for the group
  moved,      \* per payment: transfers the account service has carried out
  pc, msg,    \* per consumer: next step, result being handled
  call,       \* per consumer: the transfer request it waits for
  late,       \* per payment: requests nobody waits for that may still be
              \* carried out
  final,      \* per consumer: status to write or to publish
  breaker,    \* per consumer: circuit breaker
  crashes, rebalances

partition == <<results, owner, position, committed>>
service   == <<status, told>>
account   == <<late, moved>>
local     == <<pc, msg, call, final, breaker>>
bounds    == <<crashes, rebalances>>
vars      == <<status, told, results, owner, position, committed,
               late, moved, pc, msg, call, final, breaker, crashes, rebalances>>

-----------------------------------------------------------------------------
(* Data *)

Result    == [payment : Payments, approved : BOOLEAN]
Outcome   == [payment : Payments, status : {"SUCCESS", "FAILED"}]

ASSUME ResultAssumption == NoResult \notin Result

(* The most transfer requests the bounds allow: one per delivery.           *)
MaxCalls == MaxResults * (1 + MaxCrashes + MaxRebalances)

NewBreaker == [state |-> "CLOSED", failures |-> 0, successes |-> 0]
Breaker    == [state : {"CLOSED", "HALF_OPEN", "OPEN"}, failures : Nat, successes : Nat]

PaymentOf(c) == msg[c].payment
Handling     == {"lookup", "execute", "answer", "update", "cache", "publish"}

Goto(c, label) == pc' = [pc EXCEPT ![c] = label]

-----------------------------------------------------------------------------
(* The circuit breaker, under its mutex *)

(* Mutant: opens one failure too late.                                      *)
OneFailureLate(b) ==
  IF b.state = "HALF_OPEN" \/ b.failures + 1 > FailureThreshold
  THEN [b EXCEPT !.state = "OPEN", !.failures = 0]
  ELSE [b EXCEPT !.failures = @ + 1]

(* A failure opens a half-open breaker, and a closed one at the threshold.  *)
AfterFailure(b) ==
  IF b.state = "HALF_OPEN" \/ b.failures + 1 >= FailureThreshold
  THEN [b EXCEPT !.state = "OPEN", !.failures = 0]
  ELSE [b EXCEPT !.failures = @ + 1]

(* SuccessThreshold successes close a half-open breaker.                    *)
AfterSuccess(b) ==
  CASE b.state = "CLOSED" -> [b EXCEPT !.failures = 0]
    [] b.state = "OPEN"   -> b
    [] b.state = "HALF_OPEN" ->
         IF b.successes + 1 >= SuccessThreshold
         THEN [b EXCEPT !.state = "CLOSED", !.failures = 0, !.successes = @ + 1]
         ELSE [b EXCEPT !.successes = @ + 1]

-----------------------------------------------------------------------------
(* The partition and its consumer group *)

(* The fraud service publishes a verdict; a payment may get several, since  *)
(* its PaymentCreated event is delivered at least once.                     *)
FraudResult(p, approved) ==
  /\ Len(results) < MaxResults
  /\ results' = Append(results, [payment |-> p, approved |-> approved])
  /\ UNCHANGED <<owner, position, committed, service, account, local, bounds>>

(* Mutant: reading resumes one message after the committed offset.          *)
AssignNext(c) ==
  /\ owner # c
  /\ owner' = c
  /\ position' = committed + 1
  /\ UNCHANGED <<results, committed, service, account, local, bounds>>

(* The partition is assigned to a consumer, which reads from the       *)
(* committed offset.  A consumer that loses it finishes the message it has. *)
Assign(c) ==
  /\ owner # c
  /\ owner # NoConsumer => rebalances < MaxRebalances
  /\ owner' = c
  /\ position' = committed
  /\ rebalances' = IF owner = NoConsumer THEN rebalances ELSE rebalances + 1
  /\ UNCHANGED <<results, committed, service, account, local, crashes>>

(* The reader flushes the offsets of the messages it has returned every     *)
(* second, whether their handler has finished or not.                       *)
CommitOffsets ==
  /\ owner # NoConsumer
  /\ committed # position
  /\ committed' = position
  /\ UNCHANGED <<results, owner, position, service, account, local, bounds>>

ReadMessage(c) ==
  /\ pc[c] = "idle"
  /\ owner = c
  /\ position < Len(results)
  /\ msg' = [msg EXCEPT ![c] = results[position + 1]]
  /\ position' = position + 1
  /\ Goto(c, "lookup")
  /\ UNCHANGED <<results, owner, committed, service, account, call, final, breaker, bounds>>

-----------------------------------------------------------------------------
(* ProcessFraudResult *)

(* The handler returns.  Its error is only logged: the loop reads on.       *)
Return(c) ==
  /\ Goto(c, "idle")
  /\ msg' = [msg EXCEPT ![c] = NoResult]
  /\ call' = [call EXCEPT ![c] = "none"]
  /\ final' = [final EXCEPT ![c] = "NONE"]

(* GetPaymentByID fails; a settled payment is not touched, its result is    *)
(* published again; a rejected one fails; an approved one goes on.          *)
Lookup(c) ==
  /\ pc[c] = "lookup"
  /\ LET s == status[PaymentOf(c)] IN
       \/ Return(c)
       \/ /\ s # "PENDING"
          /\ Goto(c, "publish")
          /\ final' = [final EXCEPT ![c] = s]
          /\ UNCHANGED <<msg, call>>
       \/ /\ s = "PENDING" /\ ~msg[c].approved
          /\ Goto(c, "update")
          /\ final' = [final EXCEPT ![c] = "FAILED"]
          /\ UNCHANGED <<msg, call>>
       \/ /\ s = "PENDING" /\ msg[c].approved
          /\ Goto(c, "execute")
          /\ UNCHANGED <<msg, call, final>>
  /\ UNCHANGED <<partition, service, account, breaker, bounds>>

(* Execute: an open breaker fails the payment at once, until its timeout    *)
(* has passed; then, or while it is not open, the request is sent.          *)
Rejected(c) ==
  /\ pc[c] = "execute"
  /\ breaker[c].state = "OPEN"
  /\ final' = [final EXCEPT ![c] = "FAILED"]
  /\ Goto(c, "update")
  /\ UNCHANGED <<partition, service, account, msg, call, breaker, bounds>>

Send(c) ==
  /\ pc[c] = "execute"
  /\ breaker' = [breaker EXCEPT ![c] =
                   IF @.state = "OPEN"
                   THEN [@ EXCEPT !.state = "HALF_OPEN", !.successes = 0] ELSE @]
  /\ call' = [call EXCEPT ![c] = "sent"]
  /\ Goto(c, "answer")
  /\ UNCHANGED <<partition, service, account, msg, final, bounds>>

(* The account service carries a request out, while its caller waits or     *)
(* later.  One it refuses stays as it is: the caller sees an error.         *)
Transfer(c) ==
  /\ call[c] = "sent"
  /\ call' = [call EXCEPT ![c] = "moved"]
  /\ moved' = [moved EXCEPT ![PaymentOf(c)] = @ + 1]
  /\ UNCHANGED <<partition, service, late, pc, msg, final, breaker, bounds>>

LateTransfer(p) ==
  /\ late[p] > 0
  /\ late' = [late EXCEPT ![p] = @ - 1]
  /\ moved' = [moved EXCEPT ![p] = @ + 1]
  /\ UNCHANGED <<partition, service, local, bounds>>

(* The caller no longer waits.                                              *)
Abandon(c) ==
  late' = IF call[c] = "sent" THEN [late EXCEPT ![PaymentOf(c)] = @ + 1] ELSE late

Answered(c, newBreaker, outcome) ==
  /\ breaker' = [breaker EXCEPT ![c] = newBreaker]
  /\ final' = [final EXCEPT ![c] = outcome]
  /\ call' = [call EXCEPT ![c] = "none"]
  /\ Abandon(c)
  /\ Goto(c, "update")
  /\ UNCHANGED <<partition, service, moved, msg, bounds>>

AnswerOK(c) ==
  /\ pc[c] = "answer"
  /\ call[c] = "moved"
  /\ Answered(c, AfterSuccess(breaker[c]), "SUCCESS")

(* Mutants: an error is taken for a 200; the client has no timeout.         *)
ErrorIsSuccess(c) ==
  /\ pc[c] = "answer"
  /\ Answered(c, AfterSuccess(breaker[c]), "SUCCESS")

NoTimeout(c) ==
  /\ pc[c] = "answer"
  /\ call[c] = "moved"
  /\ Answered(c, AfterFailure(breaker[c]), "FAILED")

(* Mutant: the request is sent again.                                       *)
RetryRequest(c) ==
  /\ pc[c] = "answer"
  /\ call' = [call EXCEPT ![c] = "none"]
  /\ Abandon(c)
  /\ Goto(c, "execute")
  /\ UNCHANGED <<partition, service, moved, msg, final, breaker, bounds>>

(* Another status than 200, a broken connection or the client's timeout:    *)
(* the request may have been carried out, or still be.                      *)
AnswerError(c) ==
  /\ pc[c] = "answer"
  /\ Answered(c, AfterFailure(breaker[c]), "FAILED")

(* UPDATE payments SET status, whatever it is by now.  When its answer is   *)
(* lost the handler returns.                                                *)
UpdateStatus(c) ==
  /\ pc[c] = "update"
  /\ status' = [status EXCEPT ![PaymentOf(c)] = final[c]]
  /\ \/ Goto(c, "cache") /\ UNCHANGED <<msg, call, final>>
     \/ Return(c)
  /\ UNCHANGED <<partition, told, account, breaker, bounds>>

(* Mutant: the error of the UPDATE is not looked at.                        *)
UpdateErrorIgnored(c) ==
  /\ pc[c] = "update"
  /\ Goto(c, "cache")
  /\ UNCHANGED <<partition, service, account, msg, call, final, breaker, bounds>>

UpdateFails(c) ==
  /\ pc[c] = "update"
  /\ Return(c)
  /\ UNCHANGED <<partition, service, account, breaker, bounds>>

(* Complete caches the settled payment in its idempotency record, then the  *)
(* result event is published; both errors are ignored.                      *)
Tell(c) ==
  \/ told' = told \cup {[payment |-> PaymentOf(c), status |-> final[c]]}
  \/ UNCHANGED told

CacheOutcome(c) ==
  /\ pc[c] = "cache"
  /\ Tell(c)
  /\ Goto(c, "publish")
  /\ UNCHANGED <<partition, status, account, msg, call, final, breaker, bounds>>

PublishResult(c) ==
  /\ pc[c] = "publish"
  /\ Tell(c)
  /\ Return(c)
  /\ UNCHANGED <<partition, status, account, breaker, bounds>>

-----------------------------------------------------------------------------
(* A replica dies and is started again, without its partition, its message  *)
(* and its circuit breaker, which are all in memory.                        *)
Crash(c) ==
  /\ crashes < MaxCrashes
  /\ crashes' = crashes + 1
  /\ Return(c)
  /\ owner' = IF owner = c THEN NoConsumer ELSE owner
  /\ breaker' = [breaker EXCEPT ![c] = NewBreaker]
  /\ Abandon(c)
  /\ UNCHANGED <<results, position, committed, service, moved, rebalances>>

-----------------------------------------------------------------------------

Init ==
  /\ status = [p \in Payments |-> "PENDING"]
  /\ told = {}
  /\ results = <<>>
  /\ owner = NoConsumer
  /\ position = 0
  /\ committed = 0
  /\ late = [p \in Payments |-> 0]
  /\ moved = [p \in Payments |-> 0]
  /\ pc = [c \in Consumers |-> "idle"]
  /\ msg = [c \in Consumers |-> NoResult]
  /\ call = [c \in Consumers |-> "none"]
  /\ final = [c \in Consumers |-> "NONE"]
  /\ breaker = [c \in Consumers |-> NewBreaker]
  /\ crashes = 0
  /\ rebalances = 0

ConsumerStep(c) ==
  \/ ReadMessage(c) \/ Lookup(c) \/ Rejected(c) \/ Send(c) \/ AnswerOK(c)
  \/ AnswerError(c) \/ UpdateStatus(c) \/ UpdateFails(c) \/ CacheOutcome(c)
  \/ PublishResult(c)

Environment ==
  \/ \E p \in Payments, approved \in BOOLEAN : FraudResult(p, approved)
  \/ \E p \in Payments : LateTransfer(p)
  \/ \E c \in Consumers : Transfer(c) \/ Assign(c) \/ Crash(c)
  \/ CommitOffsets

Quiet ==
  /\ Len(results) = MaxResults /\ committed = position /\ position = Len(results)
  /\ \A c \in Consumers : pc[c] = "idle"
  /\ UNCHANGED vars

Next ==
  \/ \E c \in Consumers : ConsumerStep(c)
  \/ Environment
  \/ Quiet

Spec == Init /\ [][Next]_vars

(* A consumer's goroutine keeps running; its HTTP client gives up after 5s. *)
(* Nothing is assumed of the account service.                               *)
FairSpec == Spec /\ \A c \in Consumers : WF_vars(ConsumerStep(c))

-----------------------------------------------------------------------------
(* Properties *)

(* The shape of the state; offsets are ordered, and a consumer waits for an *)
(* answer exactly when it has sent a request.                               *)
TypeOK ==
  /\ status \in [Payments -> {"PENDING", "SUCCESS", "FAILED"}]
  /\ told \subseteq Outcome
  /\ results \in Seq(Result)
  /\ owner \in Consumers \cup {NoConsumer}
  /\ position \in Nat /\ committed \in Nat
  /\ committed <= position /\ position <= Len(results)
  /\ late \in [Payments -> Nat]
  /\ moved \in [Payments -> Nat]
  /\ pc \in [Consumers -> Handling \cup {"idle"}]
  /\ msg \in [Consumers -> Result \cup {NoResult}]
  /\ call \in [Consumers -> {"none", "sent", "moved"}]
  /\ final \in [Consumers -> {"NONE", "SUCCESS", "FAILED"}]
  /\ breaker \in [Consumers -> Breaker]
  /\ crashes \in 0..MaxCrashes /\ rebalances \in 0..MaxRebalances
  /\ \A c \in Consumers :
       /\ pc[c] \in Handling <=> msg[c] # NoResult
       /\ pc[c] = "answer" <=> call[c] # "none"

(* Whoever is told of SUCCESS, by the row, by the idempotency record or by  *)
(* the result event, is told of money that has moved, whatever was          *)
(* delivered twice, timed out or handled by two replicas at once.           *)
SuccessMeansMoved ==
  \A p \in Payments :
    \/ status[p] = "SUCCESS"
    \/ [payment |-> p, status |-> "SUCCESS"] \in told
    => moved[p] > 0

(* The money of a payment moves at most once per delivery of an approval:   *)
(* each crash and each rebalance may deliver it once more.  A timeout, a    *)
(* late answer or another verdict does not move it again, and without an    *)
(* approval none moves.                                                     *)
Approvals(p) ==
  {i \in DOMAIN results : results[i] = [payment |-> p, approved |-> TRUE]}

ChargedPerDelivery ==
  \A p \in Payments :
    moved[p] <= Cardinality(Approvals(p)) * (1 + crashes + rebalances)

(* The breaker opens at the FailureThreshold-th failure in a row, not       *)
(* later, closes at the SuccessThreshold-th success of a half-open period,  *)
(* and does not carry failures from one closed period to the next.          *)
BreakerCounts ==
  \A c \in Consumers :
    /\ breaker[c].failures < FailureThreshold
    /\ breaker[c].state # "CLOSED" => breaker[c].failures = 0
    /\ breaker[c].state = "HALF_OPEN" => breaker[c].successes < SuccessThreshold

(* The saga implements PaymentLifecycle.                                    *)
Lifecycle == INSTANCE PaymentLifecycle
               WITH MaxMoves <- MaxCalls
ImplementsLifecycle == Lifecycle!Spec

(* A consumer that handles a result always comes back to its loop, though   *)
(* the account service may never answer.                                    *)
ConsumerNeverBlocks ==
  \A c \in Consumers : pc[c] \in Handling ~> pc[c] = "idle"

(* Network failures, redelivered results and retries do not charge an       *)
(* account twice: the money of a payment moves at most once.                *)
NoDoubleCharge == \A p \in Payments : moved[p] <= 1
=============================================================================
