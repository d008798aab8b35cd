--------------------------- MODULE PaymentPipeline ---------------------------
(***************************************************************************)
(* The way of a payment through Kafka: the relay publishes PaymentCreated  *)
(* to payment-events; the fraud service publishes a verdict to             *)
(* fraud-events; the payment service's saga settles the payment and        *)
(* publishes the outcome, to payment-events again.                         *)
(*                                                                         *)
(* One partition of each topic, each read by a ConsumerGroup.  The relay   *)
(* publishes an event once or more (OutboxRelay).  The velocity rule is a  *)
(* free choice (SlidingWindow), and so is whether a transfer succeeds      *)
(* (PaymentSaga, AccountLedger).  The other reader of payment-events is in *)
(* NotificationService.                                                    *)
(***************************************************************************)
EXTENDS Integers, Sequences, FiniteSets

CONSTANTS
  Payments,
  Large,          \* payments of more than 10,000
  FraudReplicas, SagaReplicas,
  NoConsumer,
  MaxCopies,      \* bound: PaymentCreated events, counting every copy
  MaxFaults       \* bound: replicas that end, partitions taken from a live
                  \* consumer and calls that fail

ASSUME LargeAssumption == Large \subseteq Payments
ASSUME ReplicasAssumption == NoConsumer \notin FraudReplicas \cup SagaReplicas
ASSUME BoundsAssumption == {MaxCopies, MaxFaults} \subseteq Nat

VARIABLES
  paymentEvents, fraudEvents,  \* the two partitions
  fraud, saga,                 \* their consumer groups
  status,                      \* payments.status
  stage,                       \* per saga replica: next step of ProcessFraudResult
  final,                       \* per saga replica: the outcome it will write or publish
  faults,
  dropped                      \* payments of which a verdict was lost by Kafka

groups  == <<fraud, saga>>
handler == <<stage, final>>
trouble == <<faults, dropped>>
vars    == <<paymentEvents, fraudEvents, groups, status, handler, trouble>>

PaymentEvent == [payment : Payments, status : {"PENDING", "SUCCESS", "FAILED"}]
Verdict      == [payment : Payments, approved : BOOLEAN]

Fraud == INSTANCE ConsumerGroup
  WITH Consumers <- FraudReplicas, Messages <- PaymentEvent,
       log <- paymentEvents, group <- fraud
Saga == INSTANCE ConsumerGroup
  WITH Consumers <- SagaReplicas, Messages <- Verdict,
       log <- fraudEvents, group <- saga

(* Something goes wrong.                                                    *)
Fault == faults < MaxFaults /\ faults' = faults + 1 /\ UNCHANGED dropped

(* Publish returns no error for a message that the broker did not store:    *)
(* the writer asks for no acknowledgement.                                  *)
Drop(p) ==
  /\ faults < MaxFaults
  /\ faults' = faults + 1
  /\ dropped' = dropped \cup {p}

Created  == {i \in DOMAIN paymentEvents : paymentEvents[i].status = "PENDING"}
Results  == DOMAIN paymentEvents \ Created

-----------------------------------------------------------------------------

(* The relay publishes the PaymentCreated event, which carries PENDING.     *)
Relay(p) ==
  /\ Cardinality(Created) < MaxCopies
  /\ Fraud!Publish([payment |-> p, status |-> "PENDING"])
  /\ UNCHANGED <<fraudEvents, groups, status, handler, trouble>>

-----------------------------------------------------------------------------
(* The fraud service *)

FraudRead(c) ==
  /\ Fraud!Read(c)
  /\ UNCHANGED <<paymentEvents, fraudEvents, saga, status, handler, trouble>>

(* Mutants: every event of the topic is evaluated; only one without status. *)
Unfiltered(event) == TRUE
WithoutStatus(event) == event.status = ""

(* Only newly created payments are evaluated.                               *)
IsNew(event) == event.status \in {"", "PENDING"}

FraudSkip(c) ==
  /\ Fraud!Busy(c) /\ ~IsNew(Fraud!Message(c))
  /\ Fraud!Return(c, TRUE)
  /\ UNCHANGED <<paymentEvents, fraudEvents, saga, status, handler, trouble>>

(* Mutant: the velocity rule, which passes when Redis is down, comes first. *)
FailOpenFirst(p) == BOOLEAN

(* CheckPayment: the amount first; then the velocity of the deliveries,     *)
(* which passes when Redis is down.                                         *)
Verdicts(p) == IF p \in Large THEN {FALSE} ELSE BOOLEAN

Evaluate(c) ==
  /\ Fraud!Busy(c) /\ IsNew(Fraud!Message(c))
  /\ LET p == Fraud!Message(c).payment IN
       \E approved \in Verdicts(p) :
         Saga!Publish([payment |-> p, approved |-> approved])
  /\ \/ Fraud!Return(c, TRUE) /\ UNCHANGED trouble
     \/ Fraud!Return(c, FALSE) /\ Fault
  /\ UNCHANGED <<paymentEvents, saga, status, handler>>

(* The verdict is not published (or, above, it is and the answer is lost):  *)
(* the handler returns the error, if there is one.                          *)
EvaluateFails(c) ==
  /\ Fraud!Busy(c) /\ IsNew(Fraud!Message(c))
  /\ \/ Fraud!Return(c, FALSE) /\ Fault
     \/ Fraud!Return(c, TRUE) /\ Drop(Fraud!Message(c).payment)
  /\ UNCHANGED <<paymentEvents, fraudEvents, saga, status, handler>>

-----------------------------------------------------------------------------
(* The saga *)

SagaRead(c) ==
  /\ Saga!Read(c)
  /\ UNCHANGED <<paymentEvents, fraudEvents, fraud, status, handler, trouble>>

Begin(c, next, outcome) ==
  /\ stage' = [stage EXCEPT ![c] = next]
  /\ final' = [final EXCEPT ![c] = outcome]

(* Mutant: a variable outside the callback, which keeps its value.          *)
Keep(c) == UNCHANGED handler

Leave(c) == Begin(c, "lookup", "NONE")

(* Mutant: the status that was read is not looked at.                       *)
LookupIgnored(c) ==
  /\ Saga!Busy(c) /\ stage[c] = "lookup"
  /\ IF Saga!Message(c).approved
     THEN \E outcome \in {"SUCCESS", "FAILED"} : Begin(c, "update", outcome)
     ELSE Begin(c, "update", "FAILED")
  /\ UNCHANGED <<paymentEvents, fraudEvents, groups, status, trouble>>

(* A settled payment keeps its status; a rejected one fails; an approved    *)
(* one succeeds or fails with its transfer.                                 *)
Lookup(c) ==
  /\ Saga!Busy(c) /\ stage[c] = "lookup"
  /\ LET verdict == Saga!Message(c) IN
       \/ /\ status[verdict.payment] # "PENDING"
          /\ Begin(c, "tell", status[verdict.payment])
       \/ /\ status[verdict.payment] = "PENDING" /\ ~verdict.approved
          /\ Begin(c, "update", "FAILED")
       \/ /\ status[verdict.payment] = "PENDING" /\ verdict.approved
          /\ \E outcome \in {"SUCCESS", "FAILED"} : Begin(c, "update", outcome)
  /\ UNCHANGED <<paymentEvents, fraudEvents, groups, status, trouble>>

Update(c) ==
  /\ Saga!Busy(c) /\ stage[c] = "update"
  /\ status' = [status EXCEPT ![Saga!Message(c).payment] = final[c]]
  /\ Begin(c, "tell", final[c])
  /\ UNCHANGED <<paymentEvents, fraudEvents, groups, trouble>>

(* The SELECT or the UPDATE fails, the latter perhaps after it was carried  *)
(* out: the handler returns the error.                                      *)
SagaFails(c) ==
  /\ Saga!Busy(c) /\ stage[c] \in {"lookup", "update"}
  /\ \/ UNCHANGED status
     \/ /\ stage[c] = "update"
        /\ status' = [status EXCEPT ![Saga!Message(c).payment] = final[c]]
  /\ Saga!Return(c, FALSE)
  /\ Leave(c)
  /\ Fault
  /\ UNCHANGED <<paymentEvents, fraudEvents, fraud>>

(* The outcome is published; an error is ignored.                           *)
Tell(c) ==
  /\ Saga!Busy(c) /\ stage[c] = "tell"
  /\ \/ /\ Fraud!Publish([payment |-> Saga!Message(c).payment, status |-> final[c]])
        /\ UNCHANGED trouble
     \/ UNCHANGED paymentEvents /\ Fault
  /\ Saga!Return(c, TRUE)
  /\ Leave(c)
  /\ UNCHANGED <<fraudEvents, fraud, status>>

-----------------------------------------------------------------------------
(* Consumer groups *)

(* A partition without an owner is assigned to a replica.                   *)
FindOwner ==
  /\ \/ fraud.owner = NoConsumer /\ (\E c \in FraudReplicas : Fraud!Assign(c)) /\ UNCHANGED saga
     \/ saga.owner = NoConsumer /\ (\E c \in SagaReplicas : Saga!Assign(c)) /\ UNCHANGED fraud
  /\ UNCHANGED <<paymentEvents, fraudEvents, status, handler, trouble>>

(* A partition moves from one replica to another, which both live.          *)
Rebalance ==
  /\ Fault
  /\ \/ fraud.owner # NoConsumer /\ (\E c \in FraudReplicas : Fraud!Assign(c)) /\ UNCHANGED saga
     \/ saga.owner # NoConsumer /\ (\E c \in SagaReplicas : Saga!Assign(c)) /\ UNCHANGED fraud
  /\ UNCHANGED <<paymentEvents, fraudEvents, status, handler>>

(* A replica crashes or is shut down.                                       *)
End ==
  /\ Fault
  /\ \/ /\ \E c \in FraudReplicas : Fraud!Crash(c) \/ Fraud!ShutDown(c)
        /\ UNCHANGED <<saga, handler>>
     \/ /\ \E c \in SagaReplicas : (Saga!Crash(c) \/ Saga!ShutDown(c)) /\ Leave(c)
        /\ UNCHANGED fraud
  /\ UNCHANGED <<paymentEvents, fraudEvents, status>>

-----------------------------------------------------------------------------

Init ==
  /\ Fraud!Init /\ Saga!Init
  /\ status = [p \in Payments |-> "PENDING"]
  /\ stage = [c \in SagaReplicas |-> "lookup"]
  /\ final = [c \in SagaReplicas |-> "NONE"]
  /\ faults = 0
  /\ dropped = {}

FraudStep(c) == FraudRead(c) \/ FraudSkip(c) \/ Evaluate(c) \/ EvaluateFails(c)
SagaStep(c)  == SagaRead(c) \/ Lookup(c) \/ Update(c) \/ SagaFails(c) \/ Tell(c)

(* Nothing left to publish, to read or to go wrong.                         *)
Quiet ==
  /\ Cardinality(Created) = MaxCopies /\ faults = MaxFaults
  /\ fraud.position = Len(paymentEvents) /\ saga.position = Len(fraudEvents)
  /\ \A c \in FraudReplicas : ~Fraud!Busy(c)
  /\ \A c \in SagaReplicas : ~Saga!Busy(c)
  /\ UNCHANGED vars

Next ==
  \/ \E p \in Payments : Relay(p)
  \/ \E c \in FraudReplicas : FraudStep(c)
  \/ \E c \in SagaReplicas : SagaStep(c)
  \/ FindOwner \/ Rebalance \/ End \/ Quiet

Spec == Init /\ [][Next]_vars

(* Every partition finds an owner, every replica's loop keeps running and   *)
(* its handler returns.  No call is assumed to succeed.                     *)
FairSpec ==
  /\ Spec
  /\ WF_vars(FindOwner)
  /\ \A c \in FraudReplicas : WF_vars(FraudStep(c))
  /\ \A c \in SagaReplicas : WF_vars(SagaStep(c))

-----------------------------------------------------------------------------
(* Properties *)

(* The shape of the state; a saga replica is past its lookup only with a    *)
(* verdict in its handler, and then knows the outcome.                      *)
TypeOK ==
  /\ Fraud!GroupOK /\ Saga!GroupOK
  /\ status \in [Payments -> {"PENDING", "SUCCESS", "FAILED"}]
  /\ stage \in [SagaReplicas -> {"lookup", "update", "tell"}]
  /\ final \in [SagaReplicas -> {"NONE", "SUCCESS", "FAILED"}]
  /\ faults \in 0..MaxFaults
  /\ dropped \subseteq Payments
  /\ \A c \in SagaReplicas :
       /\ stage[c] # "lookup" => Saga!Busy(c)
       /\ final[c] = "NONE" <=> stage[c] = "lookup"

(* The outcomes the saga publishes to the topic the fraud service reads do  *)
(* not come back as verdicts: the messages are bounded by the copies of     *)
(* PaymentCreated and how often a message can have been delivered, which is *)
(* once as long as nothing has gone wrong.                                  *)
NoFeedback ==
  LET deliveries == 1 + faults IN
    /\ Len(fraudEvents) <= Cardinality(Created) * deliveries
    /\ Cardinality(Results) <= Len(fraudEvents) * deliveries

(* A payment above the amount limit never succeeds, however often it is     *)
(* evaluated and though the velocity rule fails open.                       *)
LargeNeverSucceeds == \A p \in Large : status[p] # "SUCCESS"

(* As long as the saga's partition has not been taken from a replica that   *)
(* lived, a payment has one outcome: duplicates of its PaymentCreated event *)
(* with contradictory verdicts, failures and crashes do not change what is  *)
(* recorded and told.                                                       *)
OneOutcome ==
  saga.moves = 0 =>
    \A i \in Results : paymentEvents[i].status = status[paymentEvents[i].payment]

Lost(p) ==
  \/ \E i \in fraud.failed : paymentEvents[i] = [payment |-> p, status |-> "PENDING"]
  \/ \E i \in saga.failed : fraudEvents[i].payment = p
  \/ p \in dropped

(* A published payment is settled at last, unless a handler returned an     *)
(* error for it, a replica ended with it after its offset was committed, or *)
(* Kafka lost what had been published.                                      *)
SettledUnlessLost ==
  \A p \in Payments :
    (\E i \in Created : paymentEvents[i].payment = p) ~> status[p] # "PENDING" \/ Lost(p)
========================================
