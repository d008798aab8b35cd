------------------------- MODULE PaymentPipelineProofs -------------------------
(***************************************************************************)
(* Theorems of PaymentPipeline, for any number of payments, replicas,      *)
(* copies and faults.  What they need of the two consumer groups is proved *)
(* in ConsumerGroupProofs.                                                 *)
(***************************************************************************)
EXTENDS PaymentPipeline, FiniteSetTheorems, TLAPS

FraudFacts == INSTANCE ConsumerGroupProofs
  WITH Consumers <- FraudReplicas, Messages <- PaymentEvent,
       log <- paymentEvents, group <- fraud
SagaFacts == INSTANCE ConsumerGroupProofs
  WITH Consumers <- SagaReplicas, Messages <- Verdict,
       log <- fraudEvents, group <- saga

(* No verdict approves a large payment, and no handler means to record that *)
(* one succeeded.                                                           *)
LargeRejected ==
  /\ \A i \in DOMAIN fraudEvents : fraudEvents[i].approved => fraudEvents[i].payment \notin Large
  /\ \A c \in SagaReplicas : final[c] = "SUCCESS" => Saga!Message(c).payment \notin Large
  /\ LargeNeverSucceeds

(* Until the saga's partition is taken from a replica that lives only its   *)
(* owner has a verdict in its handler, so that nobody settles a payment     *)
(* between that handler's look at the status and its use of it.             *)
Alone == \A c \in SagaReplicas : Saga!Busy(c) => saga.owner = c

Current ==
  \A c \in SagaReplicas :
    /\ stage[c] = "update" => status[Saga!Message(c).payment] = "PENDING"
    /\ stage[c] = "tell"   => status[Saga!Message(c).payment] = final[c]

Serial == saga.moves = 0 => Alone /\ Current /\ OneOutcome

(* Every message counts once for each reading that is still to come, is in  *)
(* a handler or has been answered; only a fault, which takes the position   *)
(* back, makes the readings of a message one more.                          *)
ToEvaluate   == {i \in Created : i > fraud.position}
InEvaluation == {c \in FraudReplicas : fraud.hand[c] \in Created}
InSaga       == {c \in SagaReplicas : Saga!Busy(c)}

Within(messages, causes, mistakes) == messages <= causes * (1 + mistakes)

VerdictsCounted ==
  /\ IsFiniteSet(InEvaluation)
  /\ Within(Len(fraudEvents) + Cardinality(InEvaluation) + Cardinality(ToEvaluate),
            Cardinality(Created), faults)

ResultsCounted ==
  /\ IsFiniteSet(InSaga)
  /\ Within(Cardinality(Results) + Cardinality(InSaga) + (Len(fraudEvents) - saga.position),
            Len(fraudEvents), faults)

Inv ==
  /\ TypeOK
  /\ FraudFacts!Inv
  /\ SagaFacts!Inv
  /\ LargeRejected
  /\ Serial
  /\ VerdictsCounted
  /\ ResultsCounted

-----------------------------------------------------------------------------
(* The two groups *)

(* The steps of the groups, as ConsumerGroupProofs knows them.              *)
LEMMA SameSteps ==
  /\ \A c : Fraud!Assign(c) <=> FraudFacts!Assign(c)
  /\ \A c : Fraud!Read(c) <=> FraudFacts!Read(c)
  /\ \A c, ok : Fraud!Return(c, ok) <=> FraudFacts!Return(c, ok)
  /\ \A c : Fraud!Crash(c) <=> FraudFacts!Crash(c)
  /\ \A c : Fraud!ShutDown(c) <=> FraudFacts!ShutDown(c)
  /\ \A m : Fraud!Publish(m) <=> FraudFacts!Publish(m)
  /\ \A c : Saga!Assign(c) <=> SagaFacts!Assign(c)
  /\ \A c : Saga!Read(c) <=> SagaFacts!Read(c)
  /\ \A c, ok : Saga!Return(c, ok) <=> SagaFacts!Return(c, ok)
  /\ \A c : Saga!Crash(c) <=> SagaFacts!Crash(c)
  /\ \A c : Saga!ShutDown(c) <=> SagaFacts!ShutDown(c)
  /\ \A m : Saga!Publish(m) <=> SagaFacts!Publish(m)
<1>1. /\ \A c : Fraud!Assign(c) <=> FraudFacts!Assign(c)
      /\ \A c : Saga!Assign(c) <=> SagaFacts!Assign(c)
  BY DEF Fraud!Assign, Fraud!Flushed, FraudFacts!Assign, FraudFacts!Flushed,
         Saga!Assign, Saga!Flushed, SagaFacts!Assign, SagaFacts!Flushed
<1>2. /\ \A c : Fraud!Read(c) <=> FraudFacts!Read(c)
      /\ \A c : Saga!Read(c) <=> SagaFacts!Read(c)
  BY DEF Fraud!Read, Fraud!Busy, FraudFacts!Read, FraudFacts!Busy,
         Saga!Read, Saga!Busy, SagaFacts!Read, SagaFacts!Busy
<1>3. /\ \A c, ok : Fraud!Return(c, ok) <=> FraudFacts!Return(c, ok)
      /\ \A c, ok : Saga!Return(c, ok) <=> SagaFacts!Return(c, ok)
  BY DEF Fraud!Return, Fraud!Busy, FraudFacts!Return, FraudFacts!Busy,
         Saga!Return, Saga!Busy, SagaFacts!Return, SagaFacts!Busy
<1>4. /\ \A c : Fraud!Crash(c) <=> FraudFacts!Crash(c)
      /\ \A c : Fraud!ShutDown(c) <=> FraudFacts!ShutDown(c)
  BY DEF Fraud!Crash, Fraud!ShutDown, Fraud!Stop, Fraud!Busy, Fraud!Flushed,
         FraudFacts!Crash, FraudFacts!ShutDown, FraudFacts!Stop, FraudFacts!Busy,
         FraudFacts!Flushed
<1>5. /\ \A c : Saga!Crash(c) <=> SagaFacts!Crash(c)
      /\ \A c : Saga!ShutDown(c) <=> SagaFacts!ShutDown(c)
  BY DEF Saga!Crash, Saga!ShutDown, Saga!Stop, Saga!Busy, Saga!Flushed,
         SagaFacts!Crash, SagaFacts!ShutDown, SagaFacts!Stop, SagaFacts!Busy,
         SagaFacts!Flushed
<1>6. /\ \A m : Fraud!Publish(m) <=> FraudFacts!Publish(m)
      /\ \A m : Saga!Publish(m) <=> SagaFacts!Publish(m)
  BY DEF Fraud!Publish, FraudFacts!Publish, Saga!Publish, SagaFacts!Publish
<1> QED BY <1>1, <1>2, <1>3, <1>4, <1>5, <1>6

LEMMA SameShape ==
  /\ Fraud!GroupOK <=> FraudFacts!GroupOK
  /\ Saga!GroupOK <=> SagaFacts!GroupOK
BY DEF Fraud!GroupOK, Fraud!Group, FraudFacts!GroupOK, FraudFacts!Group,
       Saga!GroupOK, Saga!Group, SagaFacts!GroupOK, SagaFacts!Group

LEMMA Fields ==
  ASSUME TypeOK
  PROVE  /\ paymentEvents \in Seq(PaymentEvent) /\ fraudEvents \in Seq(Verdict)
         /\ Len(paymentEvents) \in Nat /\ DOMAIN paymentEvents = 1..Len(paymentEvents)
         /\ Len(fraudEvents) \in Nat /\ DOMAIN fraudEvents = 1..Len(fraudEvents)
         /\ fraud.position \in Nat /\ fraud.committed \in Nat
         /\ fraud.hand \in [FraudReplicas -> Nat]
         /\ saga.position \in Nat /\ saga.committed \in Nat /\ saga.moves \in Nat
         /\ saga.hand \in [SagaReplicas -> Nat]
         /\ saga.owner \in SagaReplicas \cup {NoConsumer}
         /\ fraud.position <= Len(paymentEvents) /\ saga.position <= Len(fraudEvents)
         /\ \A c \in FraudReplicas : fraud.hand[c] <= Len(paymentEvents)
         /\ \A c \in SagaReplicas : saga.hand[c] <= Len(fraudEvents)
BY DEF TypeOK, Fraud!GroupOK, Fraud!Group, Saga!GroupOK, Saga!Group

(* The message in a handler.                                                *)
LEMMA InHand ==
  ASSUME TypeOK
  PROVE  /\ \A c \in FraudReplicas : Fraud!Busy(c) =>
              /\ fraud.hand[c] \in DOMAIN paymentEvents
              /\ Fraud!Message(c) = paymentEvents[fraud.hand[c]]
              /\ Fraud!Message(c) \in PaymentEvent
         /\ \A c \in SagaReplicas : Saga!Busy(c) =>
              /\ saga.hand[c] \in DOMAIN fraudEvents
              /\ Saga!Message(c) = fraudEvents[saga.hand[c]]
              /\ Saga!Message(c) \in Verdict
<1>1. ASSUME NEW c \in FraudReplicas, Fraud!Busy(c)
      PROVE  fraud.hand[c] \in DOMAIN paymentEvents
  BY <1>1, Fields DEF Fraud!Busy
<1>2. ASSUME NEW c \in SagaReplicas, Saga!Busy(c)
      PROVE  saga.hand[c] \in DOMAIN fraudEvents
  BY <1>2, Fields DEF Saga!Busy
<1> QED BY <1>1, <1>2, Fields DEF Fraud!Message, Saga!Message

(* Each topic is left alone or given one message.                           *)
LEMMA Topics ==
  ASSUME TypeOK, [Next]_vars
  PROVE  /\ \/ UNCHANGED fraudEvents
            \/ \E v \in Verdict : Saga!Publish(v) /\ (v.approved => v.payment \notin Large)
         /\ \/ UNCHANGED paymentEvents
            \/ \E m \in PaymentEvent : Fraud!Publish(m)
<1>1. ASSUME NEW c \in FraudReplicas, Evaluate(c)
      PROVE  \E v \in Verdict : Saga!Publish(v) /\ (v.approved => v.payment \notin Large)
  <2>1. Fraud!Message(c).payment \in Payments
    BY <1>1, InHand DEF Evaluate, PaymentEvent
  <2>2. PICK approved \in Verdicts(Fraud!Message(c).payment) :
          Saga!Publish([payment |-> Fraud!Message(c).payment, approved |-> approved])
    BY <1>1 DEF Evaluate
  <2> DEFINE v == [payment |-> Fraud!Message(c).payment, approved |-> approved]
  <2>3. v \in Verdict /\ (v.approved => v.payment \notin Large)
    BY <2>1 DEF Verdicts, Verdict
  <2> QED BY <2>2, <2>3
<1>2. ASSUME NEW c \in SagaReplicas, Tell(c)
      PROVE  UNCHANGED paymentEvents \/ \E m \in PaymentEvent : Fraud!Publish(m)
  <2>1. Saga!Message(c).payment \in Payments /\ final[c] \in {"SUCCESS", "FAILED"}
    BY <1>2, InHand DEF Tell, Verdict, TypeOK
  <2> QED BY <1>2, <2>1 DEF Tell, PaymentEvent
<1>3. ASSUME NEW p \in Payments, Relay(p)
      PROVE  \E m \in PaymentEvent : Fraud!Publish(m)
  BY <1>3 DEF Relay, PaymentEvent
<1>4. \/ UNCHANGED fraudEvents
      \/ \E c \in FraudReplicas : Evaluate(c)
  BY DEF Next, vars, Relay, FraudStep, FraudRead, FraudSkip, EvaluateFails, SagaStep,
         SagaRead, Lookup, Update, SagaFails, Tell, FindOwner, Rebalance, End, Quiet
<1>5. \/ UNCHANGED paymentEvents
      \/ \E c \in SagaReplicas : Tell(c)
      \/ \E p \in Payments : Relay(p)
  BY DEF Next, vars, FraudStep, FraudRead, FraudSkip, Evaluate, EvaluateFails, SagaStep,
         SagaRead, Lookup, Update, SagaFails, FindOwner, Rebalance, End, Quiet
<1> QED BY <1>1, <1>2, <1>3, <1>4, <1>5

(* Every step of the pipeline is, for either group, one of its own.         *)
LEMMA GroupSteps ==
  ASSUME TypeOK, [Next]_vars
  PROVE  /\ [FraudFacts!Next]_(FraudFacts!groupVars)
         /\ [SagaFacts!Next]_(SagaFacts!groupVars)
<1> DEFINE F == FraudFacts!Step \/ UNCHANGED fraud
           S == SagaFacts!Step \/ UNCHANGED saga
<1>1. ASSUME NEW c \in FraudReplicas,
             Fraud!Assign(c) \/ Fraud!Read(c) \/ Fraud!Return(c, TRUE) \/ Fraud!Return(c, FALSE)
               \/ Fraud!Crash(c) \/ Fraud!ShutDown(c)
      PROVE  F
  BY <1>1, SameSteps DEF FraudFacts!Step
<1>2. ASSUME NEW c \in SagaReplicas,
             Saga!Assign(c) \/ Saga!Read(c) \/ Saga!Return(c, TRUE) \/ Saga!Return(c, FALSE)
               \/ Saga!Crash(c) \/ Saga!ShutDown(c)
      PROVE  S
  BY <1>2, SameSteps DEF SagaFacts!Step
<1> HIDE DEF F, S
<1>3. UNCHANGED fraud => F
  BY DEF F
<1>4. UNCHANGED saga => S
  BY DEF S
<1>5. F /\ S
  <2>1. CASE \E c \in FraudReplicas : FraudStep(c)
    BY <1>1, <1>4, <2>1 DEF FraudStep, FraudRead, FraudSkip, Evaluate, EvaluateFails, handler
  <2>2. CASE \E c \in SagaReplicas : SagaStep(c)
    BY <1>2, <1>3, <1>4, <2>2 DEF SagaStep, SagaRead, Lookup, Update, SagaFails, Tell, groups
  <2>3. CASE FindOwner \/ Rebalance
    BY <1>1, <1>2, <1>3, <1>4, <2>3 DEF FindOwner, Rebalance
  <2>4. CASE End
    BY <1>1, <1>2, <1>3, <1>4, <2>4 DEF End
  <2>5. CASE (\E p \in Payments : Relay(p)) \/ Quiet \/ UNCHANGED vars
    BY <1>3, <1>4, <2>5 DEF Relay, Quiet, vars, groups
  <2> QED BY <2>1, <2>2, <2>3, <2>4, <2>5 DEF Next
<1>6. /\ UNCHANGED paymentEvents \/ \E m \in PaymentEvent : FraudFacts!Publish(m)
      /\ UNCHANGED fraudEvents \/ \E m \in Verdict : SagaFacts!Publish(m)
  BY Topics, SameSteps
<1> QED BY <1>5, <1>6 DEF F, S, FraudFacts!Next, SagaFacts!Next

LEMMA GroupsInv ==
  ASSUME Inv, [Next]_vars
  PROVE  FraudFacts!Inv' /\ SagaFacts!Inv' /\ Fraud!GroupOK' /\ Saga!GroupOK'
<1>1. [FraudFacts!Next]_(FraudFacts!groupVars) /\ [SagaFacts!Next]_(SagaFacts!groupVars)
  BY GroupSteps DEF Inv
<1>2. NoConsumer \notin FraudReplicas /\ NoConsumer \notin SagaReplicas
  BY ReplicasAssumption
<1>3. FraudFacts!Inv'
  BY <1>1, <1>2, FraudFacts!NextInv DEF Inv
<1>4. SagaFacts!Inv'
  BY <1>1, <1>2, SagaFacts!NextInv DEF Inv
<1>5. Fraud!GroupOK' /\ Saga!GroupOK'
  BY <1>3, <1>4, SameShape, PTL DEF FraudFacts!Inv, SagaFacts!Inv
<1> QED BY <1>3, <1>4, <1>5

(* A topic only grows.                                                      *)
LEMMA Appended ==
  ASSUME TypeOK, [Next]_vars
  PROVE  /\ \A i \in DOMAIN fraudEvents :
              i \in DOMAIN fraudEvents' /\ fraudEvents'[i] = fraudEvents[i]
         /\ \A i \in DOMAIN paymentEvents :
              i \in DOMAIN paymentEvents' /\ paymentEvents'[i] = paymentEvents[i]
<1>1. ASSUME NEW v \in Verdict, Saga!Publish(v)
      PROVE  \A i \in DOMAIN fraudEvents :
               i \in DOMAIN fraudEvents' /\ fraudEvents'[i] = fraudEvents[i]
  BY <1>1, Fields DEF Saga!Publish
<1>2. ASSUME NEW m \in PaymentEvent, Fraud!Publish(m)
      PROVE  \A i \in DOMAIN paymentEvents :
               i \in DOMAIN paymentEvents' /\ paymentEvents'[i] = paymentEvents[i]
  BY <1>2, Fields DEF Fraud!Publish
<1> QED BY <1>1, <1>2, Topics

-----------------------------------------------------------------------------
(* The handlers of the saga *)

(* In a step a saga replica goes on with its message, or is done with it or *)
(* takes one up, or is not concerned.                                       *)
Untouched(d) ==
  saga'.hand[d] = saga.hand[d] /\ stage'[d] = stage[d] /\ final'[d] = final[d]

Fresh(d) == stage'[d] = "lookup" /\ final'[d] = "NONE"

LEMMA Handlers ==
  ASSUME TypeOK, [Next]_vars, NEW d \in SagaReplicas
  PROVE  /\ Untouched(d) \/ Fresh(d) \/ Lookup(d) \/ Update(d)
         /\ stage' \in [SagaReplicas -> {"lookup", "update", "tell"}]
         /\ final' \in [SagaReplicas -> {"NONE", "SUCCESS", "FAILED"}]
         /\ \A c \in SagaReplicas :
              Lookup(c) \/ Update(c) \/ SagaFails(c) \/ Tell(c) => c = d \/ Untouched(d)
<1>1. /\ stage \in [SagaReplicas -> {"lookup", "update", "tell"}]
      /\ final \in [SagaReplicas -> {"NONE", "SUCCESS", "FAILED"}]
      /\ status \in [Payments -> {"PENDING", "SUCCESS", "FAILED"}]
      /\ saga.hand \in [SagaReplicas -> Nat]
  BY Fields DEF TypeOK
<1> DEFINE Typed == /\ stage' \in [SagaReplicas -> {"lookup", "update", "tell"}]
                    /\ final' \in [SagaReplicas -> {"NONE", "SUCCESS", "FAILED"}]
           Case  == Untouched(d) \/ Fresh(d) \/ Lookup(d) \/ Update(d)
<1>2. ASSUME NEW c \in SagaReplicas, NEW next \in {"lookup", "update", "tell"},
             NEW outcome \in {"NONE", "SUCCESS", "FAILED"}, Begin(c, next, outcome)
      PROVE  /\ Typed
             /\ stage'[c] = next /\ final'[c] = outcome
             /\ d # c => stage'[d] = stage[d] /\ final'[d] = final[d]
  BY <1>1, <1>2 DEF Begin
<1>3. ASSUME NEW c \in SagaReplicas, Leave(c)
      PROVE  /\ Typed
             /\ Fresh(c)
             /\ d # c => stage'[d] = stage[d] /\ final'[d] = final[d]
  BY <1>2, <1>3 DEF Leave, Fresh
<1>4. UNCHANGED <<saga, handler>> => Typed /\ Untouched(d)
  BY <1>1 DEF handler, Untouched
<1>5. ASSUME NEW c \in SagaReplicas, NEW hand, saga'.hand = [saga.hand EXCEPT ![c] = hand]
      PROVE  d # c => saga'.hand[d] = saga.hand[d]
  BY <1>1, <1>5
<1>6. /\ \A c \in SagaReplicas : Saga!Assign(c) => saga'.hand = saga.hand
      /\ \A c \in SagaReplicas : Saga!Read(c) =>
           saga.hand[c] = 0 /\ saga'.hand = [saga.hand EXCEPT ![c] = saga.position + 1]
      /\ \A c \in SagaReplicas :
           Saga!Return(c, TRUE) \/ Saga!Return(c, FALSE) \/ Saga!Crash(c) \/ Saga!ShutDown(c)
             => saga'.hand = [saga.hand EXCEPT ![c] = 0]
  BY SameSteps, SameShape, SagaFacts!Effects DEF TypeOK, SagaFacts!Crash, SagaFacts!ShutDown
<1>7. ASSUME NEW c \in SagaReplicas, SagaRead(c)
      PROVE  Typed /\ Case
  <2>1. saga'.hand = [saga.hand EXCEPT ![c] = saga.position + 1] /\ ~Saga!Busy(c)
    BY <1>6, <1>7 DEF SagaRead, Saga!Busy
  <2>2. stage[c] = "lookup" /\ final[c] = "NONE" /\ UNCHANGED handler
    BY <1>7, <2>1 DEF SagaRead, TypeOK
  <2>3. d = c => Fresh(d)
    BY <2>2 DEF Fresh, handler
  <2>4. d # c => Untouched(d)
    BY <1>5, <2>1, <2>2 DEF Untouched, handler
  <2> QED BY <1>1, <2>2, <2>3, <2>4 DEF handler
<1>8. ASSUME NEW c \in SagaReplicas, Lookup(c)
      PROVE  Typed /\ (c = d \/ Untouched(d))
  <2>1. PICK next \in {"update", "tell"}, outcome \in {"SUCCESS", "FAILED"} :
          Begin(c, next, outcome)
    <3>1. Saga!Message(c).payment \in Payments
      BY <1>8, InHand DEF Lookup, Verdict
    <3>2. status[Saga!Message(c).payment] # "PENDING" =>
            status[Saga!Message(c).payment] \in {"SUCCESS", "FAILED"}
      BY <1>1, <3>1
    <3> QED BY <1>8, <3>2 DEF Lookup
  <2> QED BY <1>2, <1>8, <2>1 DEF Lookup, Untouched, groups
<1>9. ASSUME NEW c \in SagaReplicas, Update(c)
      PROVE  Typed /\ (c = d \/ Untouched(d))
  BY <1>1, <1>2, <1>9 DEF Update, Untouched, groups
<1>10. ASSUME NEW c \in SagaReplicas, SagaFails(c) \/ Tell(c)
       PROVE  Typed /\ Case /\ (c = d \/ Untouched(d))
  <2>1. saga'.hand = [saga.hand EXCEPT ![c] = 0] /\ Leave(c)
    BY <1>6, <1>10 DEF SagaFails, Tell
  <2> QED BY <1>3, <1>5, <2>1 DEF Untouched
<1>11. ASSUME NEW c \in SagaReplicas, Saga!Crash(c) \/ Saga!ShutDown(c), Leave(c)
       PROVE  Typed /\ Case
  BY <1>3, <1>5, <1>6, <1>11 DEF Untouched
<1>12. ASSUME NEW c \in SagaReplicas, Saga!Assign(c), UNCHANGED handler
       PROVE  Typed /\ Case
  BY <1>1, <1>6, <1>12 DEF Untouched, handler
<1>13. Typed /\ Case
  <2>1. CASE \E c \in SagaReplicas : SagaStep(c)
    BY <1>7, <1>8, <1>9, <1>10, <2>1 DEF SagaStep
  <2>2. CASE \E c \in FraudReplicas : FraudStep(c)
    BY <1>4, <2>2 DEF FraudStep, FraudRead, FraudSkip, Evaluate, EvaluateFails
  <2>3. CASE FindOwner \/ Rebalance
    BY <1>4, <1>12, <2>3 DEF FindOwner, Rebalance
  <2>4. CASE End
    BY <1>4, <1>11, <2>4 DEF End
  <2>5. CASE (\E p \in Payments : Relay(p)) \/ Quiet \/ UNCHANGED vars
    BY <1>4, <2>5 DEF Relay, Quiet, vars, groups
  <2> QED BY <2>1, <2>2, <2>3, <2>4, <2>5 DEF Next
<1> QED BY <1>8, <1>9, <1>10, <1>13

(* What an untouched replica has in its handler stays.                      *)
LEMMA SameMessage ==
  ASSUME TypeOK, [Next]_vars, NEW d \in SagaReplicas, saga'.hand[d] = saga.hand[d]
  PROVE  /\ Saga!Busy(d)' <=> Saga!Busy(d)
         /\ Saga!Busy(d) => (Saga!Message(d))' = Saga!Message(d)
<1>1. Saga!Busy(d) => saga.hand[d] \in DOMAIN fraudEvents
  BY InHand
<1> QED BY <1>1, Appended DEF Saga!Busy, Saga!Message

(* Only a replica that has an outcome to write changes a status.            *)
LEMMA StatusStep ==
  ASSUME TypeOK, [Next]_vars
  PROVE  \/ UNCHANGED status
         \/ \E c \in SagaReplicas :
              /\ Update(c) \/ SagaFails(c)
              /\ Saga!Busy(c) /\ stage[c] = "update" /\ final[c] \in {"SUCCESS", "FAILED"}
              /\ Saga!Message(c).payment \in Payments
              /\ status' = [status EXCEPT ![Saga!Message(c).payment] = final[c]]
<1>1. ASSUME NEW c \in SagaReplicas, Saga!Busy(c), stage[c] = "update"
      PROVE  final[c] \in {"SUCCESS", "FAILED"} /\ Saga!Message(c).payment \in Payments
  BY <1>1, InHand DEF TypeOK, Verdict
<1>2. ASSUME NEW c \in SagaReplicas, Update(c) \/ SagaFails(c)
      PROVE  \/ UNCHANGED status
             \/ /\ Saga!Busy(c) /\ stage[c] = "update"
                /\ status' = [status EXCEPT ![Saga!Message(c).payment] = final[c]]
  BY <1>2 DEF Update, SagaFails
<1>3. UNCHANGED status \/ \E c \in SagaReplicas : Update(c) \/ SagaFails(c)
  BY DEF Next, vars, Relay, FraudStep, FraudRead, FraudSkip, Evaluate, EvaluateFails, SagaStep,
         SagaRead, Lookup, Tell, FindOwner, Rebalance, End, Quiet
<1> QED BY <1>1, <1>2, <1>3

(* What goes wrong in a step.                                               *)
LEMMA Troubles ==
  ASSUME TypeOK, [Next]_vars
  PROVE  UNCHANGED trouble \/ Fault \/ \E p \in Payments : Drop(p)
<1>1. ASSUME NEW c \in FraudReplicas, FraudStep(c)
      PROVE  UNCHANGED trouble \/ Fault \/ \E p \in Payments : Drop(p)
  <2>1. Fraud!Busy(c) => Fraud!Message(c).payment \in Payments
    BY InHand DEF PaymentEvent
  <2> QED BY <1>1, <2>1 DEF FraudStep, FraudRead, FraudSkip, Evaluate, EvaluateFails
<1> QED BY <1>1 DEF Next, vars, Relay, SagaStep, SagaRead, Lookup, Update, SagaFails, Tell,
       FindOwner, Rebalance, End, Quiet

LEMMA TypeInv ==
  ASSUME Inv, [Next]_vars
  PROVE  TypeOK'
<1>1. TypeOK /\ Fraud!GroupOK' /\ Saga!GroupOK'
  BY GroupsInv DEF Inv
<1>2. status' \in [Payments -> {"PENDING", "SUCCESS", "FAILED"}]
  BY <1>1, StatusStep DEF TypeOK
<1>3. /\ stage' \in [SagaReplicas -> {"lookup", "update", "tell"}]
      /\ final' \in [SagaReplicas -> {"NONE", "SUCCESS", "FAILED"}]
  <2>1. CASE SagaReplicas = {}
    BY <1>1, <2>1 DEF TypeOK, Next, vars, Relay, FraudStep, FraudRead, FraudSkip, Evaluate,
       EvaluateFails, FindOwner, Rebalance, End, Quiet, handler
  <2>2. CASE SagaReplicas # {}
    BY <1>1, <2>2, Handlers
  <2> QED BY <2>1, <2>2
<1>4. faults' \in 0..MaxFaults /\ dropped' \subseteq Payments
  <2>1. faults \in 0..MaxFaults /\ dropped \subseteq Payments
    BY <1>1 DEF TypeOK
  <2>2. \A n \in 0..MaxFaults : n < MaxFaults => n + 1 \in 0..MaxFaults
    BY BoundsAssumption
  <2> QED BY <1>1, <2>1, <2>2, Troubles DEF trouble, Fault, Drop
<1>5. ASSUME NEW d \in SagaReplicas
      PROVE  /\ stage'[d] # "lookup" => Saga!Busy(d)'
             /\ final'[d] = "NONE" <=> stage'[d] = "lookup"
  <2>1. stage[d] # "lookup" => Saga!Busy(d)
    BY <1>1 DEF TypeOK
  <2>2. final[d] = "NONE" <=> stage[d] = "lookup"
    BY <1>1 DEF TypeOK
  <2>3. CASE Untouched(d)
    BY <1>1, <2>1, <2>2, <2>3, SameMessage DEF Untouched
  <2>4. CASE Fresh(d)
    BY <2>4 DEF Fresh
  <2>5. CASE Lookup(d)
    <3>1. Saga!Busy(d)'
      BY <2>5 DEF Lookup, groups, Saga!Busy
    <3>2. Saga!Message(d).payment \in Payments
      BY <1>1, <2>5, InHand DEF Lookup, Verdict
    <3>3. status[Saga!Message(d).payment] \in {"PENDING", "SUCCESS", "FAILED"}
      BY <1>1, <3>2 DEF TypeOK
    <3>4. stage'[d] \in {"update", "tell"} /\ final'[d] \in {"SUCCESS", "FAILED"}
      BY <1>1, <2>5, <3>3 DEF Lookup, Begin, TypeOK
    <3> QED BY <3>1, <3>4
  <2>6. CASE Update(d)
    BY <1>1, <2>2, <2>6 DEF Update, Begin, TypeOK, groups, Saga!Busy
  <2> QED BY <1>1, <2>3, <2>4, <2>5, <2>6, Handlers
<1> QED BY <1>1, <1>2, <1>3, <1>4, <1>5 DEF TypeOK

-----------------------------------------------------------------------------
(* Large payments *)

LEMMA LargeInv ==
  ASSUME Inv, [Next]_vars
  PROVE  LargeRejected'
<1>1. TypeOK /\ LargeRejected
  BY DEF Inv
<1>2. ASSUME NEW i \in DOMAIN fraudEvents', NEW v, v = fraudEvents'[i], v.approved
      PROVE  v.payment \notin Large
  <2>1. CASE i \in DOMAIN fraudEvents
    <3>1. v = fraudEvents[i]
      BY <1>1, <1>2, <2>1, Appended
    <3> QED BY <1>1, <1>2, <2>1, <3>1 DEF LargeRejected
  <2>2. CASE i \notin DOMAIN fraudEvents
    <3>1. PICK w \in Verdict : Saga!Publish(w) /\ (w.approved => w.payment \notin Large)
      BY <1>1, <1>2, <2>2, Topics
    <3>2. v = w
      BY <1>1, <1>2, <2>2, <3>1, Fields DEF Saga!Publish
    <3> QED BY <1>2, <3>1, <3>2
  <2> QED BY <2>1, <2>2
<1>3. ASSUME NEW d \in SagaReplicas, final'[d] = "SUCCESS"
      PROVE  (Saga!Message(d).payment)' \notin Large
  <2> SUFFICES ASSUME NEW message, message = Saga!Message(d)' PROVE message.payment \notin Large
    OBVIOUS
  <2>1. final[d] = "SUCCESS" => Saga!Message(d).payment \notin Large /\ Saga!Busy(d)
    BY <1>1 DEF LargeRejected, TypeOK
  <2>2. CASE Untouched(d)
    BY <1>1, <1>3, <2>1, <2>2, SameMessage DEF Untouched
  <2>3. CASE Fresh(d)
    BY <1>3, <2>3 DEF Fresh
  <2>4. CASE Lookup(d)
    <3>1. /\ Saga!Message(d).payment \in Payments
          /\ Saga!Message(d).approved => Saga!Message(d).payment \notin Large
      BY <1>1, <2>4, InHand DEF Lookup, Verdict, LargeRejected
    <3>2. \/ status[Saga!Message(d).payment] = "SUCCESS"
          \/ Saga!Message(d).approved
      BY <1>1, <1>3, <2>4 DEF Lookup, Begin, TypeOK
    <3>3. Saga!Message(d).payment \notin Large
      BY <1>1, <3>1, <3>2 DEF LargeRejected, LargeNeverSucceeds
    <3>4. saga'.hand[d] = saga.hand[d] /\ Saga!Busy(d)
      BY <2>4 DEF Lookup, groups
    <3>5. message = Saga!Message(d)
      BY <1>1, <3>4, SameMessage
    <3> QED BY <3>3, <3>5
  <2>5. CASE Update(d)
    <3>1. final[d] = "SUCCESS" /\ saga'.hand[d] = saga.hand[d] /\ Saga!Busy(d)
      BY <1>1, <1>3, <2>5 DEF Update, Begin, TypeOK, groups
    <3>2. message = Saga!Message(d)
      BY <1>1, <3>1, SameMessage
    <3> QED BY <2>1, <3>1, <3>2
  <2> QED BY <1>1, <2>2, <2>3, <2>4, <2>5, Handlers
<1>4. LargeNeverSucceeds'
  <2> SUFFICES ASSUME NEW p \in Large PROVE status'[p] # "SUCCESS"
    BY DEF LargeNeverSucceeds
  <2>1. p \in Payments /\ status[p] # "SUCCESS"
    BY <1>1, LargeAssumption DEF LargeRejected, LargeNeverSucceeds
  <2>2. ASSUME NEW c \in SagaReplicas, NEW q \in Payments, q = Saga!Message(c).payment,
               status' = [status EXCEPT ![q] = final[c]]
        PROVE  status'[p] # "SUCCESS"
    <3>1. p = q => final[c] # "SUCCESS"
      BY <1>1, <2>2 DEF LargeRejected
    <3> QED BY <1>1, <2>1, <2>2, <3>1 DEF TypeOK
  <2> QED BY <1>1, <2>1, <2>2, StatusStep
<1> QED BY <1>2, <1>3, <1>4 DEF LargeRejected

-----------------------------------------------------------------------------
(* One outcome *)

(* The saga's partition and its handlers.                                   *)
LEMMA AloneInv ==
  ASSUME TypeOK, [Next]_vars, saga'.moves = 0
  PROVE  saga.moves = 0 /\ (Alone => Alone')
<1>1. /\ saga.hand \in [SagaReplicas -> Nat] /\ saga.moves \in Nat
      /\ saga.owner \in SagaReplicas \cup {NoConsumer} /\ NoConsumer \notin SagaReplicas
  BY Fields, ReplicasAssumption
<1> DEFINE Goal == saga.moves = 0 /\ (Alone => Alone')
<1> SUFFICES Goal
  OBVIOUS
<1> HIDE DEF Goal
<1>2. UNCHANGED saga => Goal
  BY DEF Goal, Alone, Saga!Busy
<1>3. ASSUME NEW c \in SagaReplicas, Saga!Assign(c)
      PROVE  Goal
  <2>1. /\ saga'.owner = c /\ saga'.hand = saga.hand
        /\ saga'.moves = IF saga.owner = NoConsumer THEN saga.moves ELSE saga.moves + 1
    BY <1>3, SameSteps, SameShape, SagaFacts!Effects DEF TypeOK
  <2>2. saga.owner = NoConsumer /\ saga.moves = 0
    BY <1>1, <2>1
  <2> QED BY <1>1, <2>1, <2>2 DEF Goal, Alone, Saga!Busy
<1>4. ASSUME NEW c \in SagaReplicas, Saga!Read(c)
      PROVE  Goal
  <2>1. /\ saga.owner = c /\ saga'.owner = c /\ saga'.moves = saga.moves
        /\ saga'.hand = [saga.hand EXCEPT ![c] = saga.position + 1]
    BY <1>4, SameSteps, SameShape, SagaFacts!Effects DEF TypeOK
  <2> QED BY <1>1, <2>1 DEF Goal, Alone, Saga!Busy
<1>5. ASSUME NEW c \in SagaReplicas, NEW ok \in BOOLEAN, Saga!Return(c, ok)
      PROVE  Goal
  <2>1. /\ saga'.owner = saga.owner /\ saga'.moves = saga.moves
        /\ saga'.hand = [saga.hand EXCEPT ![c] = 0]
    <3>1. SagaFacts!Return(c, ok) /\ SagaFacts!GroupOK
      BY <1>5, SameSteps, SameShape DEF TypeOK
    <3> QED BY <3>1, SagaFacts!Effects
  <2> QED BY <1>1, <2>1 DEF Goal, Alone, Saga!Busy
<1>6. ASSUME NEW c \in SagaReplicas, Saga!Crash(c) \/ Saga!ShutDown(c)
      PROVE  Goal
  <2>1. /\ saga'.owner = IF saga.owner = c THEN NoConsumer ELSE saga.owner
        /\ saga'.moves = saga.moves
        /\ saga'.hand = [saga.hand EXCEPT ![c] = 0]
    BY <1>6, SameSteps, SameShape, SagaFacts!Effects
    DEF TypeOK, SagaFacts!Crash, SagaFacts!ShutDown
  <2> QED BY <1>1, <2>1 DEF Goal, Alone, Saga!Busy
<1>7. CASE \E c \in SagaReplicas : SagaStep(c)
  BY <1>2, <1>4, <1>5, <1>7 DEF SagaStep, SagaRead, Lookup, Update, SagaFails, Tell, groups
<1>8. CASE FindOwner \/ Rebalance \/ End
  BY <1>2, <1>3, <1>6, <1>8 DEF FindOwner, Rebalance, End
<1>9. CASE \E c \in FraudReplicas : FraudStep(c)
  BY <1>2, <1>9 DEF FraudStep, FraudRead, FraudSkip, Evaluate, EvaluateFails
<1>10. CASE (\E p \in Payments : Relay(p)) \/ Quiet \/ UNCHANGED vars
  BY <1>2, <1>10 DEF Relay, Quiet, vars, groups
<1> QED BY <1>7, <1>8, <1>9, <1>10 DEF Next

LEMMA SerialInv ==
  ASSUME Inv, [Next]_vars
  PROVE  Serial'
<1> SUFFICES ASSUME saga'.moves = 0
             PROVE  Alone' /\ Current' /\ OneOutcome'
  BY DEF Serial
<1>1. TypeOK /\ saga.moves = 0 /\ Alone /\ Current /\ OneOutcome /\ Alone'
  BY AloneInv DEF Inv, Serial
<1>2. /\ stage \in [SagaReplicas -> {"lookup", "update", "tell"}]
      /\ final \in [SagaReplicas -> {"NONE", "SUCCESS", "FAILED"}]
      /\ status \in [Payments -> {"PENDING", "SUCCESS", "FAILED"}]
  BY <1>1 DEF TypeOK
(* A status that is written was PENDING.                                    *)
<1>3. \A p \in Payments : status[p] # "PENDING" => status'[p] = status[p]
  BY <1>1, <1>2, StatusStep DEF Current
<1>4. ASSUME NEW d \in SagaReplicas
      PROVE  \A payment : payment = (Saga!Message(d).payment)' =>
               /\ stage'[d] = "update" => status'[payment] = "PENDING"
               /\ stage'[d] = "tell"   => status'[payment] = final'[d]
  <2> SUFFICES ASSUME NEW payment, payment = (Saga!Message(d).payment)'
               PROVE  /\ stage'[d] = "update" => status'[payment] = "PENDING"
                      /\ stage'[d] = "tell"   => status'[payment] = final'[d]
    OBVIOUS
  <2>1. Saga!Busy(d) => Saga!Message(d).payment \in Payments
    BY <1>1, InHand DEF Verdict
  <2>2. ASSUME saga'.hand[d] = saga.hand[d], Saga!Busy(d)
        PROVE  payment = Saga!Message(d).payment
    BY <1>1, <2>2, SameMessage
  <2>3. CASE Untouched(d) /\ stage[d] # "lookup"
    <3>1. Saga!Busy(d) /\ payment = Saga!Message(d).payment /\ payment \in Payments
      BY <1>1, <2>1, <2>2, <2>3 DEF TypeOK, Untouched
    <3>2. CASE UNCHANGED status
      BY <1>1, <2>3, <3>1, <3>2 DEF Untouched, Current
    <3>3. ASSUME NEW c \in SagaReplicas, Update(c) \/ SagaFails(c), Saga!Busy(c)
          PROVE  FALSE
      <4>1. c = d
        BY <1>1, <3>1, <3>3 DEF Alone
      <4>2. stage'[d] # stage[d]
        BY <1>2, <2>3, <3>3, <4>1 DEF Update, SagaFails, Leave, Begin
      <4> QED BY <2>3, <4>2 DEF Untouched
    <3> QED BY <1>1, <3>2, <3>3, StatusStep
  <2>4. CASE (Untouched(d) /\ stage[d] = "lookup") \/ Fresh(d)
    BY <2>4 DEF Untouched, Fresh
  <2>5. CASE Lookup(d)
    <3>1. payment = Saga!Message(d).payment /\ payment \in Payments /\ UNCHANGED status
      BY <2>1, <2>2, <2>5 DEF Lookup, groups
    <3> QED BY <1>2, <2>5, <3>1 DEF Lookup, Begin
  <2>6. CASE Update(d)
    <3>1. payment = Saga!Message(d).payment /\ payment \in Payments
      BY <2>1, <2>2, <2>6 DEF Update, groups
    <3> QED BY <1>2, <2>6, <3>1 DEF Update, Begin
  <2> QED BY <1>1, <2>3, <2>4, <2>5, <2>6, Handlers
<1>5. Current'
  BY <1>4 DEF Current
<1>6. ASSUME NEW i \in DOMAIN paymentEvents', NEW m, m = paymentEvents'[i], m.status # "PENDING"
      PROVE  m.status = status'[m.payment]
  <2>1. CASE i \in DOMAIN paymentEvents
    <3>1. m = paymentEvents[i] /\ m.payment \in Payments
      <4>1. m = paymentEvents[i]
        BY <1>1, <1>6, <2>1, Appended
      <4>2. m \in PaymentEvent
        BY <1>1, <2>1, <4>1, Fields
      <4> QED BY <4>1, <4>2 DEF PaymentEvent
    <3>2. m.status = status[m.payment]
      BY <1>1, <1>6, <2>1, <3>1 DEF OneOutcome, Results, Created
    <3> QED BY <1>3, <1>6, <3>1, <3>2
  <2>2. CASE i \notin DOMAIN paymentEvents
    <3>1. paymentEvents' # paymentEvents
      BY <1>6, <2>2
    <3>2. \A e : Fraud!Publish(e) => m = e
      BY <1>1, <1>6, <2>2, Fields DEF Fraud!Publish
    <3>3. \A p \in Payments : ~Relay(p)
      BY <1>6, <3>2 DEF Relay
    <3>4. PICK c \in SagaReplicas : Tell(c)
      BY <3>1, <3>3 DEF Next, vars, FraudStep, FraudRead, FraudSkip, Evaluate, EvaluateFails,
         SagaStep, SagaRead, Lookup, Update, SagaFails, FindOwner, Rebalance, End, Quiet
    <3>5. /\ m = [payment |-> Saga!Message(c).payment, status |-> final[c]]
          /\ stage[c] = "tell" /\ UNCHANGED status
      BY <3>1, <3>2, <3>4 DEF Tell
    <3> QED BY <1>1, <3>5 DEF Current
  <2> QED BY <2>1, <2>2
<1>7. OneOutcome'
  BY <1>6 DEF OneOutcome, Results, Created
<1> QED BY <1>1, <1>5, <1>7

-----------------------------------------------------------------------------
(* No feedback *)

(* How a step takes s messages to t, caused by c and then by d messages of  *)
(* the topic before, with f and then g faults.                              *)
Causes(s, t, c, d, f, g) ==
  \/ t <= s /\ d = c /\ g \in {f, f + 1}
  \/ t <= s + 1 /\ d = c + 1 /\ g \in {f, f + 1}
  \/ t <= s + c /\ d = c /\ g = f + 1

LEMMA Budget ==
  ASSUME NEW s \in Nat, NEW t \in Nat, NEW c \in Nat, NEW d \in Nat, NEW f \in Nat, NEW g \in Nat,
         Within(s, c, f), Causes(s, t, c, d, f, g)
  PROVE  Within(t, d, g)
<1>1. /\ c * (1 + (f + 1)) = c * (1 + f) + c
      /\ (c + 1) * (1 + f) = c * (1 + f) + 1 + f
      /\ (c + 1) * (1 + (f + 1)) = c * (1 + f) + c + 2 + f
  OBVIOUS
<1>2. c * (1 + f) \in Nat
  OBVIOUS
<1> DEFINE budget == c * (1 + f)
<1> HIDE DEF budget
<1>3. /\ budget \in Nat
      /\ c * (1 + (f + 1)) = budget + c
      /\ (c + 1) * (1 + f) = budget + 1 + f
      /\ (c + 1) * (1 + (f + 1)) = budget + c + 2 + f
  BY <1>1, <1>2 DEF budget
<1> SUFFICES t <= d * (1 + g)
  BY DEF Within
<1>7. s <= budget
  BY DEF Within, budget
<1>4. CASE t <= s /\ d = c /\ g \in {f, f + 1}
  <2>1. t <= budget
    BY <1>3, <1>4, <1>7
  <2>2. d * (1 + g) = budget \/ d * (1 + g) = budget + c
    BY <1>3, <1>4 DEF budget
  <2> QED BY <1>3, <2>1, <2>2
<1>5. CASE t <= s + 1 /\ d = c + 1 /\ g \in {f, f + 1}
  <2>1. t <= budget + 1
    BY <1>3, <1>5, <1>7
  <2>2. d * (1 + g) = budget + 1 + f \/ d * (1 + g) = budget + c + 2 + f
    BY <1>3, <1>5
  <2> QED BY <1>3, <2>1, <2>2
<1>6. CASE t <= s + c /\ d = c /\ g = f + 1
  <2>1. t <= budget + c
    BY <1>3, <1>6, <1>7
  <2>2. d * (1 + g) = budget + c
    BY <1>3, <1>6
  <2> QED BY <2>1, <2>2
<1> QED BY <1>4, <1>5, <1>6 DEF Causes

LEMMA CreatedFinite ==
  TypeOK =>
    /\ IsFiniteSet(Created) /\ IsFiniteSet(Results) /\ IsFiniteSet(ToEvaluate)
    /\ Cardinality(Created) \in Nat /\ Cardinality(Results) \in Nat
    /\ Cardinality(ToEvaluate) \in Nat
    /\ Cardinality(ToEvaluate) <= Cardinality(Created)
    /\ Len(fraudEvents) \in Nat /\ saga.position \in Nat /\ saga.position <= Len(fraudEvents)
    /\ faults \in Nat
<1> SUFFICES ASSUME TypeOK
             PROVE  /\ IsFiniteSet(Created) /\ IsFiniteSet(Results) /\ IsFiniteSet(ToEvaluate)
                    /\ Cardinality(Created) \in Nat /\ Cardinality(Results) \in Nat
                    /\ Cardinality(ToEvaluate) \in Nat
                    /\ Cardinality(ToEvaluate) <= Cardinality(Created)
  BY Fields, BoundsAssumption DEF TypeOK
<1>1. IsFiniteSet(DOMAIN paymentEvents)
  BY Fields, FS_Interval
<1>2. IsFiniteSet(Created) /\ IsFiniteSet(Results)
  BY <1>1, FS_Subset DEF Created, Results
<1>3. ToEvaluate \subseteq Created
  BY DEF ToEvaluate
<1> QED BY <1>2, <1>3, FS_Subset, FS_CardinalityType

(* What a message published to payment-events adds.                         *)
LEMMA PaymentPublished ==
  ASSUME TypeOK, NEW m \in PaymentEvent, Fraud!Publish(m), NEW n, n = Len(paymentEvents) + 1
  PROVE  /\ n \notin Created /\ n \notin Results
         /\ m.status = "PENDING" => Created' = Created \cup {n} /\ Results' = Results
         /\ m.status # "PENDING" => Created' = Created /\ Results' = Results \cup {n}
<1>1. /\ paymentEvents \in Seq(PaymentEvent) /\ Len(paymentEvents) \in Nat
      /\ DOMAIN paymentEvents = 1..Len(paymentEvents)
  BY Fields
<1>2. /\ DOMAIN paymentEvents' = 1..n
      /\ \A i \in DOMAIN paymentEvents : paymentEvents'[i] = paymentEvents[i]
      /\ paymentEvents'[n] = m
  BY <1>1 DEF Fraud!Publish
<1>3. n \notin DOMAIN paymentEvents /\ 1..n = DOMAIN paymentEvents \cup {n}
  BY <1>1
<1>4. n \notin Created /\ n \notin Results
  BY <1>3 DEF Created, Results
<1>5. m.status = "PENDING" => Created' = Created \cup {n} /\ Results' = Results
  BY <1>2, <1>3 DEF Created, Results
<1>6. m.status # "PENDING" => Created' = Created /\ Results' = Results \cup {n}
  BY <1>2, <1>3 DEF Created, Results
<1> QED BY <1>4, <1>5, <1>6

(* The faults are counted.                                                  *)
LEMMA FaultsCounted ==
  ASSUME TypeOK, [Next]_vars
  PROVE  faults \in Nat /\ faults' \in {faults, faults + 1}
<1>1. faults' = faults \/ faults' = faults + 1
  BY DEF Next, vars, trouble, Fault, Drop, Relay, FraudStep, FraudRead, FraudSkip, Evaluate,
     EvaluateFails, SagaStep, SagaRead, Lookup, Update, SagaFails, Tell, FindOwner, Rebalance,
     End, Quiet
<1> QED BY <1>1, BoundsAssumption DEF TypeOK

LEMMA VerdictsBudget ==
  ASSUME Inv, [Next]_vars, IsFiniteSet(InEvaluation'),
         NEW s, s = Len(fraudEvents) + Cardinality(InEvaluation) + Cardinality(ToEvaluate),
         NEW t, t = (Len(fraudEvents) + Cardinality(InEvaluation) + Cardinality(ToEvaluate))',
         NEW c, c = Cardinality(Created), NEW d, d = Cardinality(Created'),
         \/ t <= s /\ d = c
         \/ t <= s + 1 /\ d = c + 1
         \/ t <= s + c /\ d = c /\ faults' = faults + 1
  PROVE  VerdictsCounted'
<1>1. TypeOK /\ VerdictsCounted /\ TypeOK'
  BY TypeInv DEF Inv
<1>2. /\ Len(fraudEvents) \in Nat /\ Cardinality(ToEvaluate) \in Nat
      /\ Cardinality(InEvaluation) \in Nat /\ c \in Nat /\ faults \in Nat
  BY <1>1, CreatedFinite, FS_CardinalityType DEF VerdictsCounted
<1>3. /\ (Len(fraudEvents) \in Nat)' /\ (Cardinality(ToEvaluate) \in Nat)'
      /\ (Cardinality(Created) \in Nat)'
  BY <1>1, CreatedFinite, PTL
<1>4. Cardinality(InEvaluation)' \in Nat
  BY FS_CardinalityType
<1>5. s \in Nat /\ t \in Nat /\ d \in Nat
  BY <1>2, <1>3, <1>4
<1>6. faults' \in Nat /\ faults' \in {faults, faults + 1}
  BY <1>1, <1>2, FaultsCounted
<1>7. ASSUME NEW f \in Nat, f = faults, NEW g \in Nat, g = faults'
      PROVE  Within(t, d, g)
  <2>1. Within(s, c, f)
    BY <1>1, <1>7 DEF VerdictsCounted
  <2>2. Causes(s, t, c, d, f, g)
    BY <1>6, <1>7 DEF Causes
  <2>3. s \in Nat /\ t \in Nat /\ c \in Nat /\ d \in Nat
    BY <1>2, <1>5
  <2>4. ASSUME NEW x \in Nat, NEW y \in Nat, NEW u \in Nat, NEW v \in Nat, Within(x, u, f), Causes(x, y, u, v, f, g)
        PROVE  Within(y, v, g)
    BY <2>4, Budget
  <2> QED BY <2>1, <2>2, <2>3, <2>4
<1> QED BY <1>2, <1>6, <1>7 DEF VerdictsCounted

(* The fraud service's messages, step by step.                              *)
LEMMA VerdictsInv ==
  ASSUME Inv, [Next]_vars
  PROVE  VerdictsCounted'
<1> SUFFICES VerdictsCounted'
  OBVIOUS
<1>1. /\ TypeOK /\ VerdictsCounted
      /\ IsFiniteSet(InEvaluation) /\ IsFiniteSet(ToEvaluate) /\ IsFiniteSet(Created)
      /\ Cardinality(InEvaluation) \in Nat /\ Cardinality(ToEvaluate) \in Nat
      /\ Cardinality(Created) \in Nat /\ Cardinality(ToEvaluate) <= Cardinality(Created)
      /\ Len(fraudEvents) \in Nat
  BY CreatedFinite, FS_CardinalityType DEF Inv, VerdictsCounted
<1>2. /\ fraud.hand \in [FraudReplicas -> Nat] /\ fraud.position \in Nat
      /\ Len(paymentEvents) \in Nat /\ fraud.position <= Len(paymentEvents)
      /\ Created \subseteq 1..Len(paymentEvents)
      /\ \A c \in FraudReplicas : fraud.hand[c] <= Len(paymentEvents)
  BY <1>1, Fields DEF Created
<1>3. CASE UNCHANGED <<paymentEvents, fraudEvents, fraud>>
  <2>1. /\ InEvaluation' = InEvaluation /\ ToEvaluate' = ToEvaluate
        /\ Created' = Created /\ fraudEvents' = fraudEvents
    BY <1>3 DEF InEvaluation, ToEvaluate, Created
  <2> QED BY <1>1, <2>1, VerdictsBudget
<1>4. ASSUME NEW p \in Payments, Relay(p)
      PROVE  VerdictsCounted'
  <2> DEFINE n == Len(paymentEvents) + 1
             m == [payment |-> p, status |-> "PENDING"]
  <2>1. m \in PaymentEvent /\ m.status = "PENDING"
    BY DEF PaymentEvent
  <2>2. Fraud!Publish(m) /\ UNCHANGED <<fraudEvents, fraud>>
    BY <1>4 DEF Relay, groups
  <2>3. n \notin Created /\ Created' = Created \cup {n}
    BY <1>1, <2>1, <2>2, PaymentPublished
  <2>4. InEvaluation' = InEvaluation
    BY <1>2, <2>2, <2>3 DEF InEvaluation
  <2>5. ToEvaluate' = ToEvaluate \cup {n} /\ n \notin ToEvaluate
    BY <1>2, <2>2, <2>3 DEF ToEvaluate
  <2> HIDE DEF n, m
  <2>6. /\ Cardinality(Created') = Cardinality(Created) + 1
        /\ Cardinality(ToEvaluate') = Cardinality(ToEvaluate) + 1
    BY <1>1, <2>3, <2>5, FS_AddElement
  <2> QED BY <1>1, <2>2, <2>4, <2>6, VerdictsBudget
<1>5. ASSUME NEW c \in SagaReplicas, Tell(c)
      PROVE  VerdictsCounted'
  <2> DEFINE m == [payment |-> Saga!Message(c).payment, status |-> final[c]]
  <2>1. UNCHANGED <<fraudEvents, fraud>>
    BY <1>5 DEF Tell
  <2>2. CASE UNCHANGED paymentEvents
    BY <1>3, <2>1, <2>2
  <2>3. CASE Fraud!Publish(m)
    <3>1. m \in PaymentEvent /\ m.status # "PENDING"
      BY <1>1, <1>5, InHand DEF Tell, TypeOK, Verdict, PaymentEvent
    <3>2. Created' = Created
      BY <1>1, <2>3, <3>1, PaymentPublished
    <3>3. InEvaluation' = InEvaluation /\ ToEvaluate' = ToEvaluate
      BY <2>1, <3>2 DEF InEvaluation, ToEvaluate
    <3> QED BY <1>1, <2>1, <3>2, <3>3, VerdictsBudget
  <2> QED BY <1>5, <2>2, <2>3 DEF Tell
<1>6. ASSUME NEW c \in FraudReplicas, FraudRead(c)
      PROVE  VerdictsCounted'
  <2> DEFINE n == fraud.position + 1
  <2>1. /\ fraud'.position = n /\ fraud.hand[c] = 0
        /\ fraud'.hand = [fraud.hand EXCEPT ![c] = n]
        /\ UNCHANGED <<paymentEvents, fraudEvents>>
    BY <1>1, <1>6, SameSteps, SameShape, FraudFacts!Effects DEF TypeOK, FraudRead
  <2>2. Created' = Created
    BY <2>1 DEF Created
  <2>3. c \notin InEvaluation
    BY <1>2, <2>1 DEF InEvaluation
  <2>6. \A i \in Created : i > fraud.position <=> i = n \/ i > n
    BY <1>2
  <2>4. CASE n \in Created
    <3>1. InEvaluation' = InEvaluation \cup {c}
      BY <1>2, <2>1, <2>2, <2>4 DEF InEvaluation
    <3>2. ToEvaluate' = ToEvaluate \ {n} /\ n \in ToEvaluate
      <4>1. ~(n > n)
        BY <1>2
      <4> HIDE DEF n
      <4> QED BY <2>1, <2>2, <2>4, <2>6, <4>1 DEF ToEvaluate
    <3>3. /\ IsFiniteSet(InEvaluation')
          /\ Cardinality(InEvaluation') = Cardinality(InEvaluation) + 1
      BY <1>1, <2>3, <3>1, FS_AddElement
    <3>4. Cardinality(ToEvaluate') = Cardinality(ToEvaluate) - 1
      BY <1>1, <3>2, FS_RemoveElement
    <3> QED BY <1>1, <2>1, <2>2, <3>3, <3>4, VerdictsBudget
  <2>5. CASE n \notin Created
    <3>1. InEvaluation' = InEvaluation
      BY <1>2, <2>1, <2>2, <2>3, <2>5 DEF InEvaluation
    <3>2. ToEvaluate' = ToEvaluate
      <4> HIDE DEF n
      <4> QED BY <2>1, <2>2, <2>5, <2>6 DEF ToEvaluate
    <3> QED BY <1>1, <2>1, <2>2, <3>1, <3>2, VerdictsBudget
  <2> QED BY <2>4, <2>5
<1>7. ASSUME NEW c \in FraudReplicas, FraudSkip(c) \/ Evaluate(c) \/ EvaluateFails(c)
      PROVE  VerdictsCounted'
  <2>1. /\ fraud'.position = fraud.position /\ UNCHANGED paymentEvents
        /\ fraud'.hand = [fraud.hand EXCEPT ![c] = 0] /\ fraud.hand[c] # 0
    <3>1. Fraud!Return(c, TRUE) \/ Fraud!Return(c, FALSE)
      BY <1>7 DEF FraudSkip, Evaluate, EvaluateFails
    <3>2. FraudFacts!Return(c, TRUE) \/ FraudFacts!Return(c, FALSE)
      BY <3>1, SameSteps
    <3>3. FraudFacts!GroupOK
      BY <1>1, SameShape DEF TypeOK
    <3> QED BY <1>7, <3>2, <3>3, FraudFacts!Effects DEF FraudSkip, Evaluate, EvaluateFails
  <2>2. Created' = Created /\ ToEvaluate' = ToEvaluate
    BY <2>1 DEF Created, ToEvaluate
  <2>3. InEvaluation' = InEvaluation \ {c}
    BY <1>2, <2>1, <2>2 DEF InEvaluation
  <2>4. /\ IsFiniteSet(InEvaluation')
        /\ Cardinality(InEvaluation') = IF c \in InEvaluation THEN Cardinality(InEvaluation) - 1
                                                              ELSE Cardinality(InEvaluation)
    BY <1>1, <2>3, FS_RemoveElement
  <2>5. CASE Evaluate(c)
    <3>1. Len(fraudEvents') = Len(fraudEvents) + 1
      BY <1>1, <2>5, Fields DEF Evaluate, Saga!Publish
    <3>2. c \in InEvaluation
      BY <1>1, <2>5, InHand DEF Evaluate, IsNew, InEvaluation, Created, PaymentEvent
    <3> QED BY <1>1, <2>2, <2>4, <3>1, <3>2, VerdictsBudget
  <2>6. CASE FraudSkip(c) \/ EvaluateFails(c)
    <3>1. fraudEvents' = fraudEvents
      BY <2>6 DEF FraudSkip, EvaluateFails
    <3>2. Cardinality(InEvaluation') <= Cardinality(InEvaluation)
      BY <1>1, <2>4
    <3> QED BY <1>1, <2>2, <2>4, <3>1, <3>2, VerdictsBudget
  <2> QED BY <1>7, <2>5, <2>6
(* A partition without an owner stands where the group has committed.       *)
<1>8. ASSUME NEW c \in FraudReplicas, Fraud!Assign(c), fraud.owner = NoConsumer,
             UNCHANGED <<paymentEvents, fraudEvents>>
      PROVE  VerdictsCounted'
  <2>1. fraud'.position \in fraud.committed..fraud.position /\ fraud'.hand = fraud.hand
    BY <1>1, <1>8, SameSteps, SameShape, FraudFacts!Effects DEF TypeOK, FraudFacts!Flushed
  <2>2. fraud.position = fraud.committed
    BY <1>8 DEF Inv, FraudFacts!Inv, FraudFacts!ReadSeen
  <2>3. fraud'.position = fraud.position
    BY <1>2, <2>1, <2>2
  <2>4. /\ InEvaluation' = InEvaluation /\ ToEvaluate' = ToEvaluate
        /\ Created' = Created /\ fraudEvents' = fraudEvents
    BY <1>8, <2>1, <2>3 DEF InEvaluation, ToEvaluate, Created
  <2> QED BY <1>1, <2>4, VerdictsBudget
<1>9. ASSUME faults' = faults + 1, UNCHANGED <<paymentEvents, fraudEvents>>,
             NEW c \in FraudReplicas,
             fraud'.hand = fraud.hand \/ fraud'.hand = [fraud.hand EXCEPT ![c] = 0]
      PROVE  VerdictsCounted'
  <2>1. Created' = Created /\ ToEvaluate' \subseteq Created
    BY <1>9 DEF Created, ToEvaluate
  <2>2. InEvaluation' \subseteq InEvaluation
    BY <1>2, <1>9, <2>1 DEF InEvaluation
  <2>3. /\ IsFiniteSet(InEvaluation')
        /\ Cardinality(InEvaluation') \in Nat
        /\ Cardinality(InEvaluation') <= Cardinality(InEvaluation)
    BY <1>1, <2>2, FS_Subset, FS_CardinalityType
  <2>4. /\ Cardinality(ToEvaluate') \in Nat
        /\ Cardinality(ToEvaluate') <= Cardinality(Created)
    BY <1>1, <2>1, FS_Subset, FS_CardinalityType
  <2>5. ASSUME NEW e, e = Cardinality(InEvaluation'), NEW u, u = Cardinality(ToEvaluate')
        PROVE  /\ Len(fraudEvents) + e + u
                    <= Len(fraudEvents) + Cardinality(InEvaluation) + Cardinality(ToEvaluate)
                         + Cardinality(Created)
    BY <1>1, <2>3, <2>4, <2>5
  <2> QED BY <1>1, <1>9, <2>1, <2>3, <2>5, VerdictsBudget
<1>10. CASE FindOwner
  BY <1>3, <1>8, <1>10 DEF FindOwner
<1>11. CASE Rebalance \/ End
  <2>1. faults' = faults + 1 /\ UNCHANGED <<paymentEvents, fraudEvents>>
    BY <1>11 DEF Rebalance, End, Fault
  <2>2. ASSUME NEW c \in FraudReplicas, Fraud!Assign(c) \/ Fraud!Crash(c) \/ Fraud!ShutDown(c)
        PROVE  fraud'.hand = fraud.hand \/ fraud'.hand = [fraud.hand EXCEPT ![c] = 0]
    BY <1>1, <2>2, SameSteps, SameShape, FraudFacts!Effects
    DEF TypeOK, FraudFacts!Crash, FraudFacts!ShutDown
  <2>3. CASE UNCHANGED fraud
    BY <1>3, <2>1, <2>3
  <2>4. CASE \E c \in FraudReplicas : Fraud!Assign(c) \/ Fraud!Crash(c) \/ Fraud!ShutDown(c)
    BY <1>9, <2>1, <2>2, <2>4
  <2> QED BY <1>11, <2>3, <2>4 DEF Rebalance, End
<1>12. CASE \E c \in SagaReplicas : SagaRead(c) \/ Lookup(c) \/ Update(c) \/ SagaFails(c)
  BY <1>3, <1>12 DEF SagaRead, Lookup, Update, SagaFails, groups
<1>13. CASE Quiet \/ UNCHANGED vars
  BY <1>3, <1>13 DEF Quiet, vars, groups
<1> QED BY <1>4, <1>5, <1>6, <1>7, <1>10, <1>11, <1>12, <1>13 DEF Next, FraudStep, SagaStep

LEMMA ResultsBudget ==
  ASSUME Inv, [Next]_vars, IsFiniteSet(InSaga'),
         NEW s, s = Cardinality(Results) + Cardinality(InSaga) + (Len(fraudEvents) - saga.position),
         NEW t, t = (Cardinality(Results) + Cardinality(InSaga)
                       + (Len(fraudEvents) - saga.position))',
         NEW c, c = Len(fraudEvents), NEW d, d = Len(fraudEvents'),
         \/ t <= s /\ d = c
         \/ t <= s + 1 /\ d = c + 1
         \/ t <= s + c /\ d = c /\ faults' = faults + 1
  PROVE  ResultsCounted'
<1>1. TypeOK /\ ResultsCounted /\ TypeOK'
  BY TypeInv DEF Inv
<1>2. /\ Cardinality(Results) \in Nat /\ Cardinality(InSaga) \in Nat
      /\ c \in Nat /\ saga.position \in Nat /\ saga.position <= c /\ faults \in Nat
  BY <1>1, CreatedFinite, FS_CardinalityType DEF ResultsCounted
<1>3. /\ (Cardinality(Results) \in Nat)' /\ (Len(fraudEvents) \in Nat)'
      /\ (saga.position \in Nat)' /\ (saga.position <= Len(fraudEvents))'
  BY <1>1, CreatedFinite, PTL
<1>4. Cardinality(InSaga)' \in Nat
  BY FS_CardinalityType
<1>5. s \in Nat /\ t \in Nat /\ d \in Nat
  <2>1. \A a, b, n, k \in Nat : k <= n => a + b + (n - k) \in Nat
    OBVIOUS
  <2>2. s \in Nat
    BY <1>2, <2>1
  <2>3. t \in Nat /\ d \in Nat
    BY <1>3, <1>4, <2>1
  <2> QED BY <2>2, <2>3
<1>6. faults' \in Nat /\ faults' \in {faults, faults + 1}
  BY <1>1, <1>2, FaultsCounted
<1>7. ASSUME NEW f \in Nat, f = faults, NEW g \in Nat, g = faults'
      PROVE  Within(t, d, g)
  <2>1. Within(s, c, f)
    BY <1>1, <1>7 DEF ResultsCounted
  <2>2. Causes(s, t, c, d, f, g)
    BY <1>6, <1>7 DEF Causes
  <2>3. s \in Nat /\ t \in Nat /\ c \in Nat /\ d \in Nat
    BY <1>2, <1>5
  <2>4. ASSUME NEW x \in Nat, NEW y \in Nat, NEW u \in Nat, NEW v \in Nat,
               Within(x, u, f), Causes(x, y, u, v, f, g)
        PROVE  Within(y, v, g)
    BY <2>4, Budget
  <2> QED BY <2>1, <2>2, <2>3, <2>4
<1> QED BY <1>2, <1>6, <1>7 DEF ResultsCounted

(* The saga's messages, step by step.                                       *)
LEMMA ResultsInv ==
  ASSUME Inv, [Next]_vars
  PROVE  ResultsCounted'
<1> SUFFICES ResultsCounted'
  OBVIOUS
<1>1. /\ TypeOK /\ ResultsCounted /\ IsFiniteSet(InSaga) /\ IsFiniteSet(Results)
      /\ Cardinality(InSaga) \in Nat /\ Cardinality(Results) \in Nat
      /\ Len(fraudEvents) \in Nat /\ saga.position \in Nat /\ saga.position <= Len(fraudEvents)
  BY CreatedFinite, FS_CardinalityType DEF Inv, ResultsCounted
<1>2. saga.hand \in [SagaReplicas -> Nat]
  BY <1>1, Fields
<1>3. CASE Results' = Results /\ UNCHANGED <<fraudEvents, saga>>
  <2>1. InSaga' = InSaga
    BY <1>3 DEF InSaga, Saga!Busy
  <2> QED BY <1>1, <1>3, <2>1, ResultsBudget
<1>4. ASSUME NEW p \in Payments, Relay(p)
      PROVE  ResultsCounted'
  <2> DEFINE m == [payment |-> p, status |-> "PENDING"]
  <2>1. m \in PaymentEvent /\ m.status = "PENDING"
    BY DEF PaymentEvent
  <2>2. Fraud!Publish(m) /\ UNCHANGED <<fraudEvents, saga>>
    BY <1>4 DEF Relay, groups
  <2>3. Results' = Results
    BY <1>1, <2>1, <2>2, PaymentPublished
  <2> QED BY <1>3, <2>2, <2>3
<1>5. UNCHANGED paymentEvents => Results' = Results
  BY DEF Results, Created
<1>6. ASSUME NEW c \in FraudReplicas, Evaluate(c)
      PROVE  ResultsCounted'
  <2>1. Results' = Results /\ InSaga' = InSaga /\ UNCHANGED saga
    BY <1>5, <1>6 DEF Evaluate, InSaga, Saga!Busy
  <2>2. Len(fraudEvents') = Len(fraudEvents) + 1
    BY <1>1, <1>6, Fields DEF Evaluate, Saga!Publish
  <2> QED BY <1>1, <2>1, <2>2, ResultsBudget
<1>7. ASSUME NEW c \in SagaReplicas, SagaRead(c)
      PROVE  ResultsCounted'
  <2>1. /\ saga'.position = saga.position + 1 /\ saga.hand[c] = 0
        /\ saga'.hand = [saga.hand EXCEPT ![c] = saga.position + 1]
        /\ UNCHANGED <<paymentEvents, fraudEvents>>
    BY <1>1, <1>7, SameSteps, SameShape, SagaFacts!Effects DEF TypeOK, SagaRead
  <2>2. InSaga' = InSaga \cup {c} /\ c \notin InSaga
    BY <1>1, <1>2, <2>1 DEF InSaga, Saga!Busy
  <2>3. IsFiniteSet(InSaga') /\ Cardinality(InSaga') = Cardinality(InSaga) + 1
    BY <1>1, <2>2, FS_AddElement
  <2> QED BY <1>1, <1>5, <2>1, <2>3, ResultsBudget
<1>8. ASSUME NEW c \in SagaReplicas, SagaFails(c) \/ Tell(c)
      PROVE  ResultsCounted'
  <2>1. /\ saga'.position = saga.position /\ UNCHANGED fraudEvents
        /\ saga'.hand = [saga.hand EXCEPT ![c] = 0] /\ saga.hand[c] # 0
    <3>1. SagaFacts!Return(c, TRUE) \/ SagaFacts!Return(c, FALSE)
      BY <1>8, SameSteps DEF SagaFails, Tell
    <3>2. SagaFacts!GroupOK
      BY <1>1, SameShape DEF TypeOK
    <3> QED BY <1>8, <3>1, <3>2, SagaFacts!Effects DEF SagaFails, Tell
  <2>2. InSaga' = InSaga \ {c} /\ c \in InSaga
    BY <1>2, <2>1 DEF InSaga, Saga!Busy
  <2>3. IsFiniteSet(InSaga') /\ Cardinality(InSaga') = Cardinality(InSaga) - 1
    BY <1>1, <2>2, FS_RemoveElement
  <2>4. Results' = Results \/ \E n : Results' = Results \cup {n}
    <3> DEFINE m == [payment |-> Saga!Message(c).payment, status |-> final[c]]
    <3>1. CASE UNCHANGED paymentEvents
      BY <1>5, <3>1
    <3>2. CASE Tell(c) /\ Fraud!Publish(m)
      <4>1. m \in PaymentEvent
        BY <1>1, <3>2, InHand DEF Tell, TypeOK, Verdict, PaymentEvent
      <4> QED BY <1>1, <3>2, <4>1, PaymentPublished
    <3> QED BY <1>8, <3>1, <3>2 DEF SagaFails, Tell
  <2>5. Cardinality(Results') \in Nat /\ Cardinality(Results') <= Cardinality(Results) + 1
    <3>1. ASSUME NEW n, Results' = Results \cup {n}
          PROVE  \/ Cardinality(Results') = Cardinality(Results)
                 \/ Cardinality(Results') = Cardinality(Results) + 1
      BY <1>1, <3>1, FS_AddElement
    <3>2. \/ Cardinality(Results') = Cardinality(Results)
          \/ Cardinality(Results') = Cardinality(Results) + 1
      BY <2>4, <3>1
    <3> QED BY <1>1, <3>2
  <2> QED BY <1>1, <2>1, <2>3, <2>5, ResultsBudget
(* A partition without an owner stands where the group has committed.       *)
<1>9. ASSUME NEW c \in SagaReplicas, Saga!Assign(c), saga.owner = NoConsumer,
             UNCHANGED <<paymentEvents, fraudEvents>>
      PROVE  ResultsCounted'
  <2>1. saga'.position \in saga.committed..saga.position /\ saga'.hand = saga.hand
    BY <1>1, <1>9, SameSteps, SameShape, SagaFacts!Effects DEF TypeOK, SagaFacts!Flushed
  <2>2. saga.position = saga.committed
    BY <1>9 DEF Inv, SagaFacts!Inv, SagaFacts!ReadSeen
  <2>3. saga'.position = saga.position
    BY <1>1, <2>1, <2>2
  <2>4. InSaga' = InSaga
    BY <2>1 DEF InSaga, Saga!Busy
  <2> QED BY <1>1, <1>5, <1>9, <2>3, <2>4, ResultsBudget
<1>10. ASSUME faults' = faults + 1, UNCHANGED <<paymentEvents, fraudEvents>>,
              NEW c \in SagaReplicas,
              saga'.hand = saga.hand \/ saga'.hand = [saga.hand EXCEPT ![c] = 0]
       PROVE  ResultsCounted'
  <2>1. InSaga' \subseteq InSaga
    BY <1>2, <1>10 DEF InSaga, Saga!Busy
  <2>2. /\ IsFiniteSet(InSaga')
        /\ Cardinality(InSaga') \in Nat
        /\ Cardinality(InSaga') <= Cardinality(InSaga)
    BY <1>1, <2>1, FS_Subset, FS_CardinalityType
  <2>3. (saga.position \in Nat)'
    BY TypeInv, CreatedFinite, PTL
  <2>4. ASSUME NEW e, e = Cardinality(InSaga'), NEW q, q = saga'.position
        PROVE  Cardinality(Results) + e + (Len(fraudEvents) - q)
                 <= Cardinality(Results) + Cardinality(InSaga)
                      + (Len(fraudEvents) - saga.position) + Len(fraudEvents)
    BY <1>1, <2>2, <2>3, <2>4
  <2> QED BY <1>1, <1>5, <1>10, <2>2, <2>4, ResultsBudget
<1>11. CASE FindOwner
  BY <1>3, <1>5, <1>9, <1>11 DEF FindOwner
<1>12. CASE Rebalance \/ End
  <2>1. faults' = faults + 1 /\ UNCHANGED <<paymentEvents, fraudEvents>>
    BY <1>12 DEF Rebalance, End, Fault
  <2>2. ASSUME NEW c \in SagaReplicas, Saga!Assign(c) \/ Saga!Crash(c) \/ Saga!ShutDown(c)
        PROVE  saga'.hand = saga.hand \/ saga'.hand = [saga.hand EXCEPT ![c] = 0]
    BY <1>1, <2>2, SameSteps, SameShape, SagaFacts!Effects
    DEF TypeOK, SagaFacts!Crash, SagaFacts!ShutDown
  <2>3. CASE UNCHANGED saga
    BY <1>3, <1>5, <2>1, <2>3
  <2>4. CASE \E c \in SagaReplicas : Saga!Assign(c) \/ Saga!Crash(c) \/ Saga!ShutDown(c)
    BY <1>10, <2>1, <2>2, <2>4
  <2> QED BY <1>12, <2>3, <2>4 DEF Rebalance, End
<1>13. CASE \E c \in SagaReplicas : Lookup(c) \/ Update(c)
  BY <1>3, <1>5, <1>13 DEF Lookup, Update, groups
<1>14. CASE \E c \in FraudReplicas : FraudRead(c) \/ FraudSkip(c) \/ EvaluateFails(c)
  BY <1>3, <1>5, <1>14 DEF FraudRead, FraudSkip, EvaluateFails
<1>15. CASE Quiet \/ UNCHANGED vars
  BY <1>3, <1>5, <1>15 DEF Quiet, vars, groups
<1> QED BY <1>4, <1>6, <1>7, <1>8, <1>11, <1>12, <1>13, <1>14, <1>15
        DEF Next, FraudStep, SagaStep

-----------------------------------------------------------------------------
(* The safety properties *)

LEMMA InitInv == Init => Inv
<1> SUFFICES ASSUME Init PROVE Inv
  OBVIOUS
<1>1. FraudFacts!Inv /\ SagaFacts!Inv
  BY FraudFacts!InitInv, SagaFacts!InitInv
  DEF Init, Fraud!Init, Fraud!NewGroup, FraudFacts!Init, FraudFacts!NewGroup,
      Saga!Init, Saga!NewGroup, SagaFacts!Init, SagaFacts!NewGroup
<1>2. /\ paymentEvents = <<>> /\ fraudEvents = <<>> /\ faults = 0 /\ dropped = {}
      /\ saga.position = 0 /\ fraud.position = 0
      /\ \A c \in FraudReplicas : fraud.hand[c] = 0
      /\ \A c \in SagaReplicas : ~Saga!Busy(c)
      /\ status = [p \in Payments |-> "PENDING"]
      /\ stage = [c \in SagaReplicas |-> "lookup"]
      /\ final = [c \in SagaReplicas |-> "NONE"]
  BY DEF Init, Fraud!Init, Fraud!NewGroup, Saga!Init, Saga!NewGroup, Saga!Busy
<1>3. TypeOK
  BY <1>1, <1>2, SameShape, BoundsAssumption DEF TypeOK, FraudFacts!Inv, SagaFacts!Inv
<1>4. LargeRejected
  BY <1>2, LargeAssumption DEF LargeRejected, LargeNeverSucceeds
<1>5. Serial
  BY <1>2 DEF Serial, Alone, Current, OneOutcome, Results, Created
<1>6. InEvaluation = {} /\ ToEvaluate = {} /\ Created = {} /\ Results = {} /\ InSaga = {}
  BY <1>2 DEF InEvaluation, ToEvaluate, Created, Results, InSaga
<1>7. VerdictsCounted /\ ResultsCounted
  BY <1>2, <1>6, FS_EmptySet DEF VerdictsCounted, ResultsCounted, Within
<1> QED BY <1>1, <1>3, <1>4, <1>5, <1>7 DEF Inv

LEMMA NextInv == Inv /\ [Next]_vars => Inv'
BY TypeInv, GroupsInv, LargeInv, SerialInv, VerdictsInv, ResultsInv DEF Inv

LEMMA Invariance == Spec => []Inv
BY InitInv, NextInv, PTL DEF Spec

-----------------------------------------------------------------------------
(* No payment is stranded *)

(* A message that some replica still has in hand or will read.              *)
Waiting(i, group, replicas) == i > group.position \/ \E c \in replicas : group.hand[c] = i

Underway(p) ==
  \/ \E i \in Created : paymentEvents[i].payment = p /\ Waiting(i, fraud, FraudReplicas)
  \/ \E j \in DOMAIN fraudEvents :
       fraudEvents[j].payment = p /\ Waiting(j, saga, SagaReplicas)

(* A published payment that is still PENDING is on its way, or has been     *)
(* lost as SettledUnlessLost says: no state is a dead end.                  *)
NeverStranded ==
  \A p \in Payments :
    (\E i \in Created : paymentEvents[i].payment = p)
      => status[p] # "PENDING" \/ Lost(p) \/ Underway(p)

(* A handler that returned without an error has done its part: of a new     *)
(* payment there is a verdict, unless Kafka lost it, and a verdict has its  *)
(* payment settled.                                                         *)
HasVerdict(p) == p \in dropped \/ \E j \in DOMAIN fraudEvents : fraudEvents[j].payment = p

Answered ==
  /\ fraud.done \subseteq DOMAIN paymentEvents /\ saga.done \subseteq DOMAIN fraudEvents
  /\ \A i \in fraud.done \cap Created : HasVerdict(paymentEvents[i].payment)
  /\ \A j \in saga.done : status[fraudEvents[j].payment] # "PENDING"
  /\ \A c \in SagaReplicas : stage[c] = "tell" => status[Saga!Message(c).payment] # "PENDING"

LEMMA DoneSteps ==
  ASSUME TypeOK, [Next]_vars
  PROVE  /\ \/ fraud'.done = fraud.done
            \/ \E c \in FraudReplicas :
                 /\ \/ FraudSkip(c) \/ Evaluate(c)
                    \/ EvaluateFails(c) /\ Drop(Fraud!Message(c).payment)
                 /\ Fraud!Busy(c)
                 /\ fraud'.done = fraud.done \cup {fraud.hand[c]}
         /\ \/ saga'.done = saga.done
            \/ \E c \in SagaReplicas :
                 /\ Saga!Busy(c) /\ stage[c] = "tell"
                 /\ saga'.done = saga.done \cup {saga.hand[c]}
<1>1. ASSUME NEW c \in FraudReplicas
      PROVE  /\ Fraud!Assign(c) => fraud'.done = fraud.done
             /\ Fraud!Read(c) => fraud'.done = fraud.done
             /\ Fraud!Return(c, FALSE) => fraud'.done = fraud.done
             /\ Fraud!Return(c, TRUE) => fraud'.done = fraud.done \cup {fraud.hand[c]}
             /\ Fraud!Crash(c) \/ Fraud!ShutDown(c) => fraud'.done = fraud.done
  BY SameSteps, SameShape, FraudFacts!DoneStep DEF TypeOK
<1>2. ASSUME NEW c \in SagaReplicas
      PROVE  /\ Saga!Assign(c) => saga'.done = saga.done
             /\ Saga!Read(c) => saga'.done = saga.done
             /\ Saga!Return(c, FALSE) => saga'.done = saga.done
             /\ Saga!Return(c, TRUE) => saga'.done = saga.done \cup {saga.hand[c]}
             /\ Saga!Crash(c) \/ Saga!ShutDown(c) => saga'.done = saga.done
  BY SameSteps, SameShape, SagaFacts!DoneStep DEF TypeOK
<1> DEFINE F == \/ fraud'.done = fraud.done
                \/ \E c \in FraudReplicas :
                     /\ \/ FraudSkip(c) \/ Evaluate(c)
                        \/ EvaluateFails(c) /\ Drop(Fraud!Message(c).payment)
                     /\ Fraud!Busy(c)
                     /\ fraud'.done = fraud.done \cup {fraud.hand[c]}
           S == \/ saga'.done = saga.done
                \/ \E c \in SagaReplicas :
                     /\ Saga!Busy(c) /\ stage[c] = "tell"
                     /\ saga'.done = saga.done \cup {saga.hand[c]}
<1>3. CASE \E c \in FraudReplicas : FraudStep(c)
  <2>1. UNCHANGED saga
    BY <1>3 DEF FraudStep, FraudRead, FraudSkip, Evaluate, EvaluateFails
  <2>2. PICK c \in FraudReplicas : FraudStep(c)
    BY <1>3
  <2> DEFINE C == /\ \/ FraudSkip(c) \/ Evaluate(c)
                     \/ EvaluateFails(c) /\ Drop(Fraud!Message(c).payment)
                  /\ Fraud!Busy(c)
                  /\ fraud'.done = fraud.done \cup {fraud.hand[c]}
  <2>3. FraudRead(c) => fraud'.done = fraud.done
    BY <1>1 DEF FraudRead
  <2>4. ASSUME FraudSkip(c)
        PROVE  C
    <3>1. Fraud!Busy(c) /\ Fraud!Return(c, TRUE)
      BY <2>4 DEF FraudSkip
    <3>2. fraud'.done = fraud.done \cup {fraud.hand[c]}
      BY <1>1, <3>1
    <3> QED BY <2>4, <3>1, <3>2
  <2>5. ASSUME Evaluate(c)
        PROVE  fraud'.done = fraud.done \/ C
    <3>1. Fraud!Busy(c) /\ (Fraud!Return(c, TRUE) \/ Fraud!Return(c, FALSE))
      BY <2>5 DEF Evaluate
    <3>2. fraud'.done = fraud.done \/ fraud'.done = fraud.done \cup {fraud.hand[c]}
      BY <1>1, <3>1
    <3> QED BY <2>5, <3>1, <3>2
  <2>6. EvaluateFails(c) => fraud'.done = fraud.done \/ C
    <3>1. EvaluateFails(c) =>
            /\ Fraud!Busy(c)
            /\ \/ Fraud!Return(c, FALSE)
               \/ Fraud!Return(c, TRUE) /\ Drop(Fraud!Message(c).payment)
      BY DEF EvaluateFails
    <3> QED BY <1>1, <3>1
  <2>7. fraud'.done = fraud.done \/ C
    BY <2>2, <2>3, <2>4, <2>5, <2>6 DEF FraudStep
  <2>8. F
    BY <2>7
  <2> QED BY <2>1, <2>8
<1>4. CASE \E c \in SagaReplicas : SagaStep(c)
  <2>1. UNCHANGED fraud
    BY <1>4 DEF SagaStep, SagaRead, Lookup, Update, SagaFails, Tell, groups
  <2>2. PICK c \in SagaReplicas : SagaStep(c)
    BY <1>4
  <2>3. S
    BY <1>2, <2>2 DEF SagaStep, SagaRead, Lookup, Update, SagaFails, Tell, groups
  <2> QED BY <2>1, <2>3
<1>5. CASE FindOwner \/ Rebalance \/ End
  BY <1>1, <1>2, <1>5 DEF FindOwner, Rebalance, End
<1>6. CASE (\E p \in Payments : Relay(p)) \/ Quiet \/ UNCHANGED vars
  BY <1>6 DEF Relay, Quiet, vars, groups
<1> QED BY <1>3, <1>4, <1>5, <1>6 DEF Next

(* A settled payment stays settled, and what is lost stays lost.            *)
LEMMA Lasting ==
  ASSUME TypeOK, [Next]_vars
  PROVE  /\ \A p \in Payments : status[p] # "PENDING" => status'[p] # "PENDING"
         /\ \A p : HasVerdict(p) => HasVerdict(p)'
<1>1. \A p \in Payments : status[p] # "PENDING" => status'[p] # "PENDING"
  BY StatusStep DEF TypeOK
<1>2. dropped \subseteq dropped'
  BY Troubles DEF trouble, Fault, Drop
<1> QED BY <1>1, <1>2, Appended DEF HasVerdict

LEMMA AnsweredInv ==
  ASSUME Inv, Answered, [Next]_vars
  PROVE  Answered'
<1>1. TypeOK
  BY DEF Inv
<1>2. /\ \A i \in DOMAIN fraudEvents :
           /\ i \in DOMAIN fraudEvents' /\ fraudEvents'[i] = fraudEvents[i]
           /\ fraudEvents[i].payment \in Payments
      /\ \A i \in DOMAIN paymentEvents :
           i \in DOMAIN paymentEvents' /\ paymentEvents'[i] = paymentEvents[i]
  <2>1. \A i \in DOMAIN fraudEvents : fraudEvents[i].payment \in Payments
    <3>1. \A i \in DOMAIN fraudEvents : fraudEvents[i] \in Verdict
      BY <1>1, Fields
    <3> QED BY <3>1 DEF Verdict
  <2> QED BY <1>1, <2>1, Appended
<1>3. \A i \in DOMAIN paymentEvents : i \in Created' => i \in Created
  BY <1>2 DEF Created
<1>4. ASSUME NEW i \in fraud'.done, i \notin fraud.done
      PROVE  i \in DOMAIN paymentEvents /\ (i \in Created => HasVerdict(paymentEvents[i].payment)')
  <2>1. PICK c \in FraudReplicas :
          /\ \/ FraudSkip(c) \/ Evaluate(c)
             \/ EvaluateFails(c) /\ Drop(Fraud!Message(c).payment)
          /\ Fraud!Busy(c) /\ i = fraud.hand[c]
    BY <1>1, <1>4, DoneSteps
  <2>2. i \in DOMAIN paymentEvents /\ Fraud!Message(c) = paymentEvents[i]
    BY <1>1, <2>1, InHand
  <2>3. CASE FraudSkip(c)
    BY <2>2, <2>3 DEF FraudSkip, IsNew, Created
  <2>4. CASE Evaluate(c)
    <3>1. PICK approved :
            Saga!Publish([payment |-> paymentEvents[i].payment, approved |-> approved])
      BY <2>2, <2>4 DEF Evaluate
    <3>2. /\ Len(fraudEvents) + 1 \in DOMAIN fraudEvents'
          /\ fraudEvents'[Len(fraudEvents) + 1].payment = paymentEvents[i].payment
      BY <1>1, <3>1, Fields DEF Saga!Publish
    <3>3. paymentEvents'[i] = paymentEvents[i]
      BY <1>2, <2>2
    <3> QED BY <2>2, <3>2, <3>3 DEF HasVerdict
  <2>5. CASE Drop(Fraud!Message(c).payment)
    BY <1>2, <2>2, <2>5 DEF Drop, HasVerdict
  <2> QED BY <2>1, <2>3, <2>4, <2>5
<1>5. ASSUME NEW i \in fraud'.done
      PROVE  i \in DOMAIN paymentEvents /\ (i \in Created => HasVerdict(paymentEvents[i].payment)')
  <2>1. CASE i \in fraud.done
    <3>1. i \in DOMAIN paymentEvents /\ (i \in Created => HasVerdict(paymentEvents[i].payment))
      BY <2>1 DEF Answered
    <3>2. paymentEvents'[i] = paymentEvents[i]
      BY <1>2, <3>1
    <3> QED BY <1>1, <3>1, <3>2, Lasting
  <2> QED BY <1>4, <2>1
<1>6. ASSUME NEW j \in saga'.done
      PROVE  j \in DOMAIN fraudEvents /\ status'[fraudEvents[j].payment] # "PENDING"
  <2>1. j \in DOMAIN fraudEvents /\ status[fraudEvents[j].payment] # "PENDING"
    <3>1. CASE j \in saga.done
      BY <3>1 DEF Answered
    <3>2. CASE j \notin saga.done
      <4>1. PICK c \in SagaReplicas : Saga!Busy(c) /\ stage[c] = "tell" /\ j = saga.hand[c]
        BY <1>1, <1>6, <3>2, DoneSteps
      <4> QED BY <1>1, <4>1, InHand DEF Answered
    <3> QED BY <3>1, <3>2
  <2> QED BY <1>1, <1>2, <2>1, Lasting
<1>7. ASSUME NEW c \in SagaReplicas, stage'[c] = "tell"
      PROVE  status'[(Saga!Message(c))'.payment] # "PENDING"
  <2>1. CASE Untouched(c)
    <3>1. stage[c] = "tell" /\ Saga!Busy(c) /\ (Saga!Message(c))' = Saga!Message(c)
      BY <1>1, <1>7, <2>1, SameMessage DEF Untouched, TypeOK
    <3>2. Saga!Message(c).payment \in Payments
      BY <1>1, <3>1, InHand DEF Verdict
    <3> QED BY <1>1, <3>1, <3>2, Lasting DEF Answered
  <2>2. CASE Lookup(c)
    <3>1. status[Saga!Message(c).payment] # "PENDING"
      BY <1>1, <1>7, <2>2 DEF Lookup, Begin, TypeOK
    <3>2. (Saga!Message(c))' = Saga!Message(c) /\ status' = status
      BY <2>2 DEF Lookup, groups, Saga!Message
    <3> QED BY <3>1, <3>2
  <2>3. CASE Update(c)
    <3>1. (Saga!Message(c))' = Saga!Message(c)
      BY <2>3 DEF Update, groups, Saga!Message
    <3>2. Saga!Message(c).payment \in Payments /\ final[c] \in {"SUCCESS", "FAILED"}
      BY <1>1, <2>3, InHand DEF Update, TypeOK, Verdict
    <3> QED BY <1>1, <2>3, <3>1, <3>2 DEF Update, TypeOK
  <2> QED BY <1>1, <1>7, <2>1, <2>2, <2>3, Handlers DEF Fresh
<1>8. /\ \A i \in (fraud.done \cap Created)' : HasVerdict(paymentEvents[i].payment)'
      /\ (fraud.done)' \subseteq (DOMAIN paymentEvents)'
  BY <1>2, <1>3, <1>5
<1>9. /\ \A j \in (saga.done)' : status'[fraudEvents'[j].payment] # "PENDING"
      /\ (saga.done)' \subseteq (DOMAIN fraudEvents)'
  BY <1>2, <1>6
<1> QED BY <1>7, <1>8, <1>9 DEF Answered

LEMMA AnsweredInit == Init => Answered
BY DEF Init, Answered, Fraud!Init, Fraud!NewGroup, Saga!Init, Saga!NewGroup

(* With what both groups promise, that no message behind the position is    *)
(* forgotten, there is no gap between two handlers either.                  *)
LEMMA NoGap ==
  ASSUME Inv, Answered
  PROVE  NeverStranded
<1>1. TypeOK
  BY DEF Inv
<1>2. \A i \in 1..fraud.position : FraudFacts!Seen(i)
  <2>1. FraudFacts!NothingSkipped
    BY FraudFacts!SkipsNothing DEF Inv
  <2> QED BY <2>1 DEF Inv, FraudFacts!Inv, FraudFacts!ReadSeen, FraudFacts!NothingSkipped
<1>3. \A j \in 1..saga.position : SagaFacts!Seen(j)
  <2>1. SagaFacts!NothingSkipped
    BY SagaFacts!SkipsNothing DEF Inv
  <2> QED BY <2>1 DEF Inv, SagaFacts!Inv, SagaFacts!ReadSeen, SagaFacts!NothingSkipped
<1>4. ASSUME NEW j \in DOMAIN fraudEvents
      PROVE  LET p == fraudEvents[j].payment
             IN  status[p] # "PENDING" \/ Lost(p) \/ Underway(p)
  <2>1. \/ Waiting(j, saga, SagaReplicas)
        \/ j \in saga.done \/ j \in saga.failed
    BY <1>1, <1>3, <1>4, Fields DEF Waiting, SagaFacts!Seen
  <2> QED BY <2>1 DEF Underway, Lost, Answered
<1>5. ASSUME NEW i \in Created
      PROVE  LET p == paymentEvents[i].payment
             IN  Lost(p) \/ Underway(p) \/ HasVerdict(p)
  <2>1. i \in DOMAIN paymentEvents /\ paymentEvents[i].status = "PENDING"
    BY DEF Created
  <2>2. \/ Waiting(i, fraud, FraudReplicas)
        \/ i \in fraud.done \/ i \in fraud.failed
    BY <1>1, <1>2, <2>1, Fields DEF Waiting, FraudFacts!Seen
  <2>3. paymentEvents[i] = [payment |-> paymentEvents[i].payment, status |-> "PENDING"]
    <3>1. paymentEvents[i] \in PaymentEvent
      BY <1>1, <2>1, Fields
    <3> QED BY <2>1, <3>1 DEF PaymentEvent
  <2> QED BY <2>2, <2>3 DEF Underway, Lost, Answered
<1> QED BY <1>4, <1>5 DEF NeverStranded, HasVerdict, Lost

-----------------------------------------------------------------------------
(* Theorems *)

(* Type correctness of the pipeline and of both consumer groups: a replica  *)
(* of the payment service is past its look at the status only with a        *)
(* verdict in its handler, and then has an outcome to write or to tell.     *)
THEOREM TypeCorrect == Spec => []TypeOK
<1>1. Inv => TypeOK
  BY DEF Inv
<1> QED BY <1>1, Invariance, PTL

(* A payment above the fraud service's limit never succeeds, however often  *)
(* it is published and evaluated, whoever reads it, and though the velocity *)
(* rule passes when Redis is down.                                          *)
THEOREM LargePaymentsFail == Spec => []LargeNeverSucceeds
<1>1. Inv => LargeNeverSucceeds
  BY DEF Inv, LargeRejected
<1> QED BY <1>1, Invariance, PTL

(* While the saga's partition has not been taken from a replica that lives, *)
(* what is published of a payment is what its row says: contradictory       *)
(* verdicts, failures and crashes of ProcessFraudResult do not change it.   *)
THEOREM OutcomeIsOne == Spec => []OneOutcome
<1>1. Inv => OneOutcome
  BY DEF Inv, Serial, OneOutcome
<1> QED BY <1>1, Invariance, PTL

(* The saga publishes to the topic the fraud service reads; for any number  *)
(* of payments, replicas and faults its outcomes are not evaluated again:   *)
(* verdicts and outcomes are bounded by what the relay has published and    *)
(* how often a fault has a message read once more.                          *)
THEOREM NothingFedBack == Spec => []NoFeedback
<1>1. ASSUME Inv
      PROVE  NoFeedback
  <2>1. /\ TypeOK /\ VerdictsCounted /\ ResultsCounted
        /\ faults \in Nat
    BY <1>1, BoundsAssumption DEF Inv, TypeOK
  <2>2. /\ Cardinality(Created) \in Nat /\ Cardinality(Results) \in Nat
        /\ Cardinality(ToEvaluate) \in Nat /\ Cardinality(InEvaluation) \in Nat
        /\ Cardinality(InSaga) \in Nat /\ Len(fraudEvents) \in Nat
        /\ saga.position \in Nat /\ saga.position <= Len(fraudEvents)
    BY <2>1, CreatedFinite, FS_CardinalityType DEF VerdictsCounted, ResultsCounted
  <2>3. \A n \in Nat : n * (1 + faults) \in Nat
    BY <2>1
  <2>4. Len(fraudEvents) <= Cardinality(Created) * (1 + faults)
    BY <2>1, <2>2, <2>3 DEF VerdictsCounted, Within
  <2>5. Cardinality(Results) <= Len(fraudEvents) * (1 + faults)
    BY <2>1, <2>2, <2>3 DEF ResultsCounted, Within
  <2> QED BY <2>4, <2>5 DEF NoFeedback
<1> QED BY <1>1, Invariance, PTL

(* Both consumer groups of the pipeline are groups as the Kafka wrapper     *)
(* makes them: whatever the services' handlers do between reading and       *)
(* returning, each step is one of ConsumerGroup, and neither group skips a  *)
(* message, though the saga publishes to the topic the other one reads.     *)
THEOREM BothAreGroups ==
  Spec => /\ Fraud!Spec /\ []Fraud!NothingSkipped
          /\ Saga!Spec /\ []Saga!NothingSkipped
<1>1. Init => Fraud!Init /\ Saga!Init
  BY DEF Init
<1>2. ASSUME Inv, [Next]_vars
      PROVE  [Fraud!Next]_(Fraud!groupVars) /\ [Saga!Next]_(Saga!groupVars)
  <2>1. /\ [FraudFacts!Next]_(FraudFacts!groupVars)
        /\ [SagaFacts!Next]_(SagaFacts!groupVars)
    BY <1>2, GroupSteps DEF Inv
  <2>2. (FraudFacts!Step <=> Fraud!Step) /\ (SagaFacts!Step <=> Saga!Step)
    BY SameSteps DEF FraudFacts!Step, Fraud!Step, SagaFacts!Step, Saga!Step
  <2>3. (FraudFacts!Next <=> Fraud!Next) /\ (SagaFacts!Next <=> Saga!Next)
    BY <2>2, SameSteps DEF FraudFacts!Next, Fraud!Next, SagaFacts!Next, Saga!Next
  <2> QED BY <2>1, <2>3 DEF FraudFacts!groupVars, Fraud!groupVars, SagaFacts!groupVars,
          Saga!groupVars
<1>3. Inv => Fraud!NothingSkipped /\ Saga!NothingSkipped
  <2>1. Inv => FraudFacts!NothingSkipped /\ SagaFacts!NothingSkipped
    BY FraudFacts!SkipsNothing, SagaFacts!SkipsNothing DEF Inv
  <2> QED BY <2>1 DEF FraudFacts!NothingSkipped, FraudFacts!Seen, Fraud!NothingSkipped, Fraud!Seen,
          SagaFacts!NothingSkipped, SagaFacts!Seen, Saga!NothingSkipped, Saga!Seen
<1> QED BY <1>1, <1>2, <1>3, Invariance, PTL DEF Spec, Fraud!Spec, Saga!Spec

(* What liveness rests on: in every state a published payment that is       *)
(* PENDING still has a message that is unread or in a handler, or has been  *)
(* lost by an error, a replica's end or Kafka.  Rebalances, early commits   *)
(* and duplicates strand none between the fraud service and the saga.       *)
THEOREM NoneStranded == Spec => []NeverStranded
<1>1. Inv /\ Answered /\ [Next]_vars => Answered'
  BY AnsweredInv
<1>2. Inv /\ Answered => NeverStranded
  BY NoGap
<1> QED BY <1>1, <1>2, AnsweredInit, Invariance, PTL DEF Spec
=============================================================================
