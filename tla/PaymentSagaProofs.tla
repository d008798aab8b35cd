--------------------------- MODULE PaymentSagaProofs ---------------------------
(***************************************************************************)
(* Theorems of PaymentSaga, for any number of payments, replicas, results, *)
(* crashes and rebalances, and any thresholds of the circuit breaker.      *)
(***************************************************************************)
EXTENDS PaymentSaga, FiniteSetTheorems, TLAPS

(* What a consumer knows of the payment it handles, at each of its calls.   *)
Knows(c) ==
  /\ pc[c] # "idle" => \E i \in DOMAIN results : results[i] = msg[c]
  /\ pc[c] \in {"execute", "answer"} => msg[c].approved
  /\ pc[c] = "answer" => breaker[c].state # "OPEN"
  /\ call[c] = "moved" => moved[PaymentOf(c)] > 0
  /\ pc[c] \in {"update", "cache", "publish"} =>
       final[c] # "NONE" /\ (final[c] = "SUCCESS" => moved[PaymentOf(c)] > 0)
  /\ pc[c] \in {"cache", "publish"} => status[PaymentOf(c)] # "PENDING"

Inv ==
  /\ TypeOK
  /\ \A c \in Consumers : Knows(c)
  /\ SuccessMeansMoved
  /\ BreakerCounts

-----------------------------------------------------------------------------
(* Type correctness *)

LEMMA ConsumerType ==
  ASSUME TypeOK, NEW c \in Consumers, pc[c] # "idle"
  PROVE  msg[c] \in Result /\ PaymentOf(c) \in Payments /\ msg[c].approved \in BOOLEAN
BY DEF TypeOK, PaymentOf, Result

LEMMA AbandonType ==
  ASSUME TypeOK, NEW c \in Consumers, Abandon(c)
  PROVE  late' \in [Payments -> Nat]
<1>1. call[c] = "sent" => PaymentOf(c) \in Payments
  BY ConsumerType DEF TypeOK
<1> QED BY <1>1 DEF Abandon, TypeOK

LEMMA ReturnType ==
  ASSUME TypeOK, NEW c \in Consumers, Return(c)
  PROVE  /\ pc' \in [Consumers -> Handling \cup {"idle"}]
         /\ msg' \in [Consumers -> Result \cup {NoResult}]
         /\ call' \in [Consumers -> {"none", "sent", "moved"}]
         /\ final' \in [Consumers -> {"NONE", "SUCCESS", "FAILED"}]
         /\ \A d \in Consumers : /\ pc'[d] \in Handling <=> msg'[d] # NoResult
                                 /\ pc'[d] = "answer" <=> call'[d] # "none"
BY DEF TypeOK, Return, Goto, Handling

LEMMA BreakerType ==
  ASSUME NEW b \in Breaker
  PROVE  AfterFailure(b) \in Breaker /\ AfterSuccess(b) \in Breaker
<1>1. b.failures \in Nat /\ b.successes \in Nat /\ b.state \in {"CLOSED", "HALF_OPEN", "OPEN"}
  BY DEF Breaker
<1>2. AfterFailure(b) \in Breaker
  <2>1. [b EXCEPT !.state = "OPEN", !.failures = 0] \in Breaker
    BY DEF Breaker
  <2>2. [b EXCEPT !.failures = @ + 1] \in Breaker
    BY <1>1 DEF Breaker
  <2> QED BY <2>1, <2>2 DEF AfterFailure
<1>3. AfterSuccess(b) \in Breaker
  <2>1. [b EXCEPT !.failures = 0] \in Breaker
    BY DEF Breaker
  <2>2. [b EXCEPT !.state = "CLOSED", !.failures = 0, !.successes = @ + 1] \in Breaker
    <3>1. \A n \in Nat : [b EXCEPT !.state = "CLOSED", !.failures = 0, !.successes = n] \in Breaker
      BY DEF Breaker
    <3>2. b.successes + 1 \in Nat
      BY <1>1
    <3> QED BY <3>1, <3>2
  <2>3. [b EXCEPT !.successes = @ + 1] \in Breaker
    BY <1>1 DEF Breaker
  <2> QED BY <1>1, <2>1, <2>2, <2>3 DEF AfterSuccess
<1> QED BY <1>2, <1>3

LEMMA NewBreakerType == NewBreaker \in Breaker
BY DEF NewBreaker, Breaker

LEMMA AnsweredType ==
  ASSUME TypeOK, NEW c \in Consumers, pc[c] = "answer", NEW b \in Breaker,
         NEW outcome \in {"SUCCESS", "FAILED"}, Answered(c, b, outcome)
  PROVE  TypeOK'
BY AbandonType DEF Answered, TypeOK, Goto, Handling, partition, service, bounds

LEMMA TypeInv ==
  ASSUME Inv, [Next]_vars
  PROVE  TypeOK'
<1>1. TypeOK /\ \A c \in Consumers : Knows(c)
  BY DEF Inv
<1>2. DOMAIN results = 1..Len(results) /\ Len(results) \in Nat
  BY <1>1 DEF TypeOK
<1> USE <1>1 DEF TypeOK, partition, service, account, local, bounds
<1>3. ASSUME NEW p \in Payments, NEW approved \in BOOLEAN, FraudResult(p, approved)
      PROVE  TypeOK'
  <2>1. [payment |-> p, approved |-> approved] \in Result
    BY DEF Result
  <2> QED BY <1>2, <1>3, <2>1 DEF FraudResult
<1>4. ASSUME NEW c \in Consumers, Assign(c)
      PROVE  TypeOK'
  BY <1>2, <1>4, BoundsAssumption DEF Assign
<1>5. ASSUME CommitOffsets
      PROVE  TypeOK'
  BY <1>2, <1>5 DEF CommitOffsets
<1>6. ASSUME NEW c \in Consumers, ReadMessage(c)
      PROVE  TypeOK'
  <2>1. position + 1 \in 1..Len(results) /\ results[position + 1] \in Result
    BY <1>2, <1>6 DEF ReadMessage
  <2> QED BY <1>2, <1>6, <2>1, ResultAssumption DEF ReadMessage, Goto, Handling
<1>7. ASSUME NEW c \in Consumers, Lookup(c)
      PROVE  TypeOK'
  <2>1. CASE Return(c)
    BY <1>7, <2>1, ReturnType DEF Lookup
  <2>2. CASE ~Return(c)
    <3>1. status[PaymentOf(c)] \in {"PENDING", "SUCCESS", "FAILED"}
      BY <1>7, ConsumerType DEF Lookup
    <3>2. PICK outcome \in {"NONE", "SUCCESS", "FAILED"},
               label \in {"publish", "update", "execute"} :
            /\ final' = final \/ final' = [final EXCEPT ![c] = outcome]
            /\ Goto(c, label) /\ UNCHANGED <<msg, call>>
      BY <1>7, <2>2, <3>1 DEF Lookup
    <3>3. final' \in [Consumers -> {"NONE", "SUCCESS", "FAILED"}]
      BY <3>2
    <3> QED BY <1>7, <3>2, <3>3 DEF Lookup, Goto, Handling
  <2> QED BY <2>1, <2>2
<1>8. ASSUME NEW c \in Consumers, Rejected(c)
      PROVE  TypeOK'
  BY <1>8 DEF Rejected, Goto, Handling
<1>9. ASSUME NEW c \in Consumers, Send(c)
      PROVE  TypeOK'
  <2>1. breaker' \in [Consumers -> Breaker]
    <3>1. [breaker[c] EXCEPT !.state = "HALF_OPEN", !.successes = 0] \in Breaker
      BY DEF Breaker
    <3> QED BY <1>9, <3>1 DEF Send
  <2> QED BY <1>9, <2>1 DEF Send, Goto, Handling
<1>10. ASSUME NEW c \in Consumers, Transfer(c)
       PROVE  TypeOK'
  <2>1. PaymentOf(c) \in Payments
    BY <1>10, ConsumerType DEF Transfer
  <2> QED BY <1>10, <2>1 DEF Transfer
<1>11. ASSUME NEW p \in Payments, LateTransfer(p)
       PROVE  TypeOK'
  BY <1>11 DEF LateTransfer
<1>12. ASSUME NEW c \in Consumers, AnswerOK(c) \/ AnswerError(c)
       PROVE  TypeOK'
  <2>1. AfterSuccess(breaker[c]) \in Breaker /\ AfterFailure(breaker[c]) \in Breaker
    BY BreakerType
  <2> QED BY <1>12, <2>1, AnsweredType DEF AnswerOK, AnswerError
<1>13. ASSUME NEW c \in Consumers, UpdateStatus(c)
       PROVE  TypeOK'
  <2>1. status' \in [Payments -> {"PENDING", "SUCCESS", "FAILED"}]
    BY <1>13 DEF UpdateStatus, Knows
  <2>2. CASE Return(c)
    BY <1>13, <2>1, <2>2, ReturnType DEF UpdateStatus
  <2>3. CASE ~Return(c)
    <3>1. Goto(c, "cache") /\ UNCHANGED <<msg, call, final>>
      BY <1>13, <2>3 DEF UpdateStatus
    <3>2. pc[c] = "update" /\ UNCHANGED <<partition, told, account, breaker, bounds>>
      BY <1>13 DEF UpdateStatus
    <3> QED BY <2>1, <3>1, <3>2 DEF Goto, Handling
  <2> QED BY <2>2, <2>3
<1>14. ASSUME NEW c \in Consumers, UpdateFails(c)
       PROVE  TypeOK'
  BY <1>14, ReturnType DEF UpdateFails
<1>15. ASSUME NEW c \in Consumers, CacheOutcome(c) \/ PublishResult(c)
       PROVE  TypeOK'
  <2>1. told' \subseteq Outcome
    <3>1. [payment |-> PaymentOf(c), status |-> final[c]] \in Outcome
      BY <1>15, ConsumerType DEF CacheOutcome, PublishResult, Knows, Outcome
    <3> QED BY <1>15, <3>1 DEF CacheOutcome, PublishResult, Tell
  <2>2. CASE PublishResult(c)
    BY <2>1, <2>2, ReturnType DEF PublishResult
  <2>3. CASE CacheOutcome(c)
    BY <2>1, <2>3 DEF CacheOutcome, Goto, Handling
  <2> QED BY <1>15, <2>2, <2>3
<1>16. ASSUME NEW c \in Consumers, Crash(c)
       PROVE  TypeOK'
  BY <1>16, AbandonType, ReturnType, NewBreakerType, BoundsAssumption DEF Crash
<1>17. ASSUME UNCHANGED vars
       PROVE  TypeOK'
  BY <1>17 DEF vars
<1> QED BY <1>3, <1>4, <1>5, <1>6, <1>7, <1>8, <1>9, <1>10, <1>11, <1>12, <1>13, <1>14,
        <1>15, <1>16, <1>17 DEF Next, ConsumerStep, Environment, Quiet

-----------------------------------------------------------------------------
(* What no step takes back *)

LEMMA Monotone ==
  ASSUME Inv, [Next]_vars
  PROVE  /\ \A p \in Payments : moved[p] <= moved'[p]
         /\ \A p \in Payments : status[p] # "PENDING" => status'[p] # "PENDING"
         /\ \A i \in DOMAIN results : i \in DOMAIN results' /\ results'[i] = results[i]
<1> DEFINE Moves    == \A p \in Payments : moved[p] <= moved'[p]
           Settled  == \A p \in Payments : status[p] # "PENDING" => status'[p] # "PENDING"
           Appended == \A i \in DOMAIN results : i \in DOMAIN results' /\ results'[i] = results[i]
<1>1. TypeOK /\ TypeOK' /\ (\A c \in Consumers : Knows(c))
  BY TypeInv DEF Inv
<1> USE <1>1 DEF TypeOK, partition, service, account, local, bounds
<1>2. ASSUME NEW p \in Payments, NEW approved \in BOOLEAN, FraudResult(p, approved)
      PROVE  /\ Appended
             /\ moved' = moved /\ status' = status
  BY <1>2 DEF FraudResult
<1>3. ASSUME NEW c \in Consumers, UpdateStatus(c)
      PROVE  /\ Settled
             /\ moved' = moved /\ results' = results
  <2>1. final[c] # "NONE"
    BY <1>3 DEF UpdateStatus, Knows
  <2> QED BY <1>3, <2>1 DEF UpdateStatus
<1>4. ASSUME NEW c \in Consumers, Transfer(c)
      PROVE  Moves /\ status' = status /\ results' = results
  BY <1>4 DEF Transfer
<1>5. ASSUME NEW p \in Payments, LateTransfer(p)
      PROVE  Moves /\ status' = status /\ results' = results
  BY <1>5 DEF LateTransfer
<1>6. ASSUME NEW c \in Consumers, Assign(c) \/ Crash(c) \/ ReadMessage(c) \/ Lookup(c)
      PROVE  moved' = moved /\ status' = status /\ results' = results
  BY <1>6 DEF Assign, Crash, ReadMessage, Lookup
<1>7. ASSUME NEW c \in Consumers, Rejected(c) \/ Send(c) \/ AnswerOK(c) \/ AnswerError(c)
      PROVE  moved' = moved /\ status' = status /\ results' = results
  BY <1>7 DEF Rejected, Send, AnswerOK, AnswerError, Answered
<1>8. ASSUME NEW c \in Consumers, UpdateFails(c) \/ CacheOutcome(c) \/ PublishResult(c)
      PROVE  moved' = moved /\ status' = status /\ results' = results
  BY <1>8 DEF UpdateFails, CacheOutcome, PublishResult
<1>9. ASSUME CommitOffsets \/ UNCHANGED vars
      PROVE  moved' = moved /\ status' = status /\ results' = results
  BY <1>9 DEF CommitOffsets, vars
<1>10. /\ moved' = moved => Moves
       /\ status' = status => Settled
       /\ results' = results => Appended
  OBVIOUS
<1> HIDE DEF Moves, Settled, Appended
<1>11. Moves /\ Settled /\ Appended
  <2>1. CASE \E c \in Consumers : ConsumerStep(c)
    BY <2>1, <1>3, <1>6, <1>7, <1>8, <1>10 DEF ConsumerStep
  <2>2. CASE \E p \in Payments, approved \in BOOLEAN : FraudResult(p, approved)
    BY <2>2, <1>2, <1>10
  <2>3. CASE Environment
    BY <2>2, <2>3, <1>4, <1>5, <1>6, <1>9, <1>10 DEF Environment
  <2>4. CASE UNCHANGED vars
    BY <2>4, <1>9, <1>10
  <2> QED BY <2>1, <2>3, <2>4 DEF Next, Quiet
<1> QED BY <1>11 DEF Moves, Settled, Appended

-----------------------------------------------------------------------------
(* The parts of the invariant *)

(* What a step of one consumer, or of the account service for it, leaves    *)
(* alone.                                                                   *)
LEMMA OthersUntouched ==
  ASSUME TypeOK, NEW c \in Consumers, ConsumerStep(c) \/ Transfer(c) \/ Crash(c),
         NEW d \in Consumers, d # c
  PROVE  /\ pc'[d] = pc[d] /\ msg'[d] = msg[d] /\ final'[d] = final[d]
         /\ breaker'[d] = breaker[d] /\ call'[d] = call[d]
<1> USE DEF TypeOK, Goto, Return, Answered, partition, service, account, local, bounds
<1>1. CASE ReadMessage(c) \/ Lookup(c) \/ Rejected(c) \/ Send(c)
  BY <1>1 DEF ReadMessage, Lookup, Rejected, Send
<1>2. CASE AnswerOK(c) \/ AnswerError(c) \/ UpdateStatus(c) \/ UpdateFails(c)
  BY <1>2 DEF AnswerOK, AnswerError, UpdateStatus, UpdateFails
<1>3. CASE CacheOutcome(c) \/ PublishResult(c) \/ Transfer(c) \/ Crash(c)
  BY <1>3 DEF CacheOutcome, PublishResult, Transfer, Crash
<1> QED BY <1>1, <1>2, <1>3 DEF ConsumerStep

LEMMA KnowsKept ==
  ASSUME Inv, [Next]_vars, NEW c \in Consumers,
         pc'[c] = pc[c], msg'[c] = msg[c], final'[c] = final[c], breaker'[c] = breaker[c],
         call'[c] = "moved" => call[c] = "moved"
  PROVE  Knows(c)'
<1>1. TypeOK /\ TypeOK' /\ Knows(c)
  BY TypeInv DEF Inv
<1>2. PaymentOf(c)' = PaymentOf(c) /\ (pc[c] # "idle" => PaymentOf(c) \in Payments)
  BY <1>1, ConsumerType DEF PaymentOf
<1>3. /\ pc[c] # "idle" => moved[PaymentOf(c)] \in Nat /\ moved'[PaymentOf(c)] \in Nat
      /\ call[c] = "moved" => pc[c] # "idle"
  BY <1>1, <1>2 DEF TypeOK
<1> QED BY <1>1, <1>2, <1>3, Monotone DEF Knows

LEMMA KnowsInv ==
  ASSUME Inv, [Next]_vars, NEW d \in Consumers
  PROVE  Knows(d)'
<1>1. TypeOK /\ TypeOK' /\ Knows(d)
  BY TypeInv DEF Inv
<1> USE DEF partition, service, account, local, bounds
<1>2. ASSUME NEW c \in Consumers, c # d, ConsumerStep(c) \/ Transfer(c) \/ Crash(c)
      PROVE  Knows(d)'
  <2>1. /\ pc'[d] = pc[d] /\ msg'[d] = msg[d] /\ final'[d] = final[d]
        /\ breaker'[d] = breaker[d] /\ call'[d] = call[d]
    BY <1>1, <1>2, OthersUntouched
  <2> QED BY <2>1, KnowsKept
<1>3. CASE UNCHANGED local
  BY <1>3, KnowsKept
<1>4. CASE Return(d)
  BY <1>1, <1>4 DEF Knows, Return, Goto, TypeOK
<1>5. CASE ReadMessage(d)
  <2>1. position + 1 \in DOMAIN results /\ msg'[d] = results[position + 1] /\ results' = results
    BY <1>1, <1>5 DEF ReadMessage, TypeOK
  <2>2. pc'[d] = "lookup" /\ call'[d] = "none"
    BY <1>1, <1>5 DEF ReadMessage, Goto, TypeOK
  <2>3. \E i \in DOMAIN results' : results'[i] = msg'[d]
    BY <2>1
  <2> QED BY <2>2, <2>3 DEF Knows
<1>6. CASE Lookup(d) /\ ~Return(d)
  <2>1. PaymentOf(d) \in Payments /\ PaymentOf(d)' = PaymentOf(d) /\ UNCHANGED <<status, moved, results>>
    BY <1>1, <1>6, ConsumerType DEF Lookup, PaymentOf
  <2>2. status[PaymentOf(d)] = "SUCCESS" => moved[PaymentOf(d)] > 0
    BY <2>1 DEF Inv, SuccessMeansMoved
  <2>3. call' = call /\ msg' = msg /\ pc[d] = "lookup"
    BY <1>6 DEF Lookup
  <2>4. \/ /\ pc'[d] = "publish" /\ final'[d] = status[PaymentOf(d)]
           /\ status[PaymentOf(d)] \in {"SUCCESS", "FAILED"}
        \/ pc'[d] = "update" /\ final'[d] = "FAILED"
        \/ pc'[d] = "execute" /\ msg[d].approved
    BY <1>1, <1>6, <2>1 DEF Lookup, Goto, TypeOK
  <2> QED BY <1>1, <2>1, <2>2, <2>3, <2>4 DEF Knows, TypeOK
<1>7. CASE Rejected(d)
  BY <1>1, <1>7 DEF Rejected, Knows, Goto, TypeOK, PaymentOf
<1>8. CASE Send(d)
  <2>1. breaker'[d].state # "OPEN"
    BY <1>1, <1>8 DEF Send, TypeOK, Breaker
  <2> QED BY <1>1, <1>8, <2>1 DEF Send, Knows, Goto, TypeOK, PaymentOf
<1>9. CASE Transfer(d)
  <2>1. PaymentOf(d) \in Payments /\ pc[d] = "answer"
    BY <1>1, <1>9, ConsumerType DEF Transfer, TypeOK
  <2>2. moved'[PaymentOf(d)] > 0 /\ PaymentOf(d)' = PaymentOf(d)
    BY <1>1, <1>9, <2>1 DEF Transfer, TypeOK, PaymentOf
  <2> QED BY <1>1, <1>9, <2>1, <2>2 DEF Transfer, Knows, TypeOK
<1>10. CASE AnswerOK(d) \/ AnswerError(d)
  <2>1. pc'[d] = "update" /\ UNCHANGED <<msg, moved, results, status>> /\ pc[d] = "answer"
        /\ call'[d] = "none"
    BY <1>1, <1>10 DEF AnswerOK, AnswerError, Answered, Goto, TypeOK
  <2>2. \/ final'[d] = "FAILED"
        \/ final'[d] = "SUCCESS" /\ call[d] = "moved"
    BY <1>1, <1>10 DEF AnswerOK, AnswerError, Answered, TypeOK
  <2> QED BY <1>1, <2>1, <2>2 DEF Knows, PaymentOf
<1>11. CASE UpdateStatus(d) /\ ~Return(d)
  <2>1. PaymentOf(d) \in Payments /\ pc[d] = "update"
    BY <1>1, <1>11, ConsumerType DEF UpdateStatus
  <2>2. /\ status'[PaymentOf(d)] = final[d] /\ pc'[d] = "cache"
        /\ UNCHANGED <<msg, call, final, results, moved>>
    BY <1>1, <1>11, <2>1 DEF UpdateStatus, Goto, TypeOK
  <2> QED BY <1>1, <2>1, <2>2 DEF Knows, PaymentOf, TypeOK
<1>12. CASE CacheOutcome(d)
  BY <1>1, <1>12 DEF CacheOutcome, Goto, Knows, PaymentOf, TypeOK
<1>13. ConsumerStep(d) \/ Transfer(d) \/ Crash(d) =>
         \/ Return(d) \/ ReadMessage(d) \/ Lookup(d) \/ Rejected(d) \/ Send(d) \/ Transfer(d)
         \/ AnswerOK(d) \/ AnswerError(d) \/ UpdateStatus(d) \/ CacheOutcome(d)
  BY DEF ConsumerStep, UpdateFails, PublishResult, Crash
<1>14. \/ \E c \in Consumers : ConsumerStep(c) \/ Transfer(c) \/ Crash(c)
       \/ UNCHANGED local
  BY DEF Next, Environment, Quiet, vars, FraudResult, LateTransfer, Assign, CommitOffsets
<1> QED BY <1>2, <1>3, <1>4, <1>5, <1>6, <1>7, <1>8, <1>9, <1>10, <1>11, <1>12, <1>13, <1>14

LEMMA SuccessInv ==
  ASSUME Inv, [Next]_vars
  PROVE  SuccessMeansMoved'
<1>1. TypeOK /\ TypeOK' /\ SuccessMeansMoved /\ \A c \in Consumers : Knows(c)
  BY TypeInv DEF Inv
<1> USE DEF partition, service, account, local, bounds
<1> SUFFICES ASSUME NEW p \in Payments,
                    \/ status'[p] = "SUCCESS"
                    \/ [payment |-> p, status |-> "SUCCESS"] \in told'
             PROVE  moved[p] > 0
  BY <1>1, Monotone DEF SuccessMeansMoved, TypeOK
<1>2. CASE status'[p] = status[p] /\ told' = told
  BY <1>1, <1>2 DEF SuccessMeansMoved
<1>3. ASSUME NEW c \in Consumers, UpdateStatus(c)
      PROVE  moved[p] > 0
  <2>1. PaymentOf(c) \in Payments
    BY <1>1, <1>3, ConsumerType DEF UpdateStatus
  <2>2. status' = [status EXCEPT ![PaymentOf(c)] = final[c]] /\ told' = told
    BY <1>3 DEF UpdateStatus
  <2>3. CASE p = PaymentOf(c) /\ final[c] = "SUCCESS"
    BY <1>1, <1>3, <2>3 DEF UpdateStatus, Knows
  <2>4. CASE p # PaymentOf(c) \/ final[c] # "SUCCESS"
    BY <1>1, <2>1, <2>2, <2>4 DEF SuccessMeansMoved, TypeOK
  <2> QED BY <2>3, <2>4
<1>4. ASSUME NEW c \in Consumers, CacheOutcome(c) \/ PublishResult(c)
      PROVE  moved[p] > 0
  <2>1. final[c] = "SUCCESS" => moved[PaymentOf(c)] > 0
    BY <1>1, <1>4 DEF CacheOutcome, PublishResult, Knows
  <2>2. status' = status /\ Tell(c)
    BY <1>4 DEF CacheOutcome, PublishResult
  <2> QED BY <1>1, <2>1, <2>2 DEF Tell, SuccessMeansMoved
<1>5. (~\E c \in Consumers : UpdateStatus(c) \/ CacheOutcome(c) \/ PublishResult(c))
        => UNCHANGED <<status, told>>
  BY DEF Next, ConsumerStep, Environment, Quiet, vars, FraudResult, Assign, CommitOffsets,
     ReadMessage, Lookup, Rejected, Send, AnswerOK, AnswerError, Answered, UpdateFails,
     Transfer, LateTransfer, Crash
<1> QED BY <1>2, <1>3, <1>4, <1>5

LEMMA BreakerInv ==
  ASSUME Inv, [Next]_vars
  PROVE  BreakerCounts'
<1>1. /\ TypeOK /\ BreakerCounts /\ \A c \in Consumers : Knows(c)
  BY DEF Inv
<1> DEFINE Counts(b) == /\ b.failures < FailureThreshold
                        /\ b.state # "CLOSED" => b.failures = 0
                        /\ b.state = "HALF_OPEN" => b.successes < SuccessThreshold
<1> USE DEF partition, service, account, local, bounds
<1> SUFFICES ASSUME NEW d \in Consumers PROVE Counts(breaker'[d])
  BY DEF BreakerCounts
<1>2. breaker[d] \in Breaker /\ Counts(breaker[d])
  BY <1>1 DEF TypeOK, BreakerCounts
<1>3. /\ breaker[d].failures \in Nat /\ breaker[d].successes \in Nat
      /\ breaker[d].state \in {"CLOSED", "HALF_OPEN", "OPEN"}
  BY <1>2 DEF Breaker
<1> DEFINE b == breaker[d]
<1>9. b = [state |-> b.state, failures |-> b.failures, successes |-> b.successes]
  BY <1>2 DEF Breaker
<1>4. CASE Send(d)
  <2>1. CASE b.state = "OPEN"
    <3>1. breaker'[d] = [state |-> "HALF_OPEN", failures |-> b.failures, successes |-> 0]
      BY <1>1, <1>4, <1>9, <2>1 DEF Send, TypeOK
    <3> QED BY <1>2, <1>3, <2>1, <3>1, ThresholdAssumption
  <2>2. CASE b.state # "OPEN"
    BY <1>1, <1>2, <1>4, <2>2 DEF Send, TypeOK
  <2> QED BY <2>1, <2>2
<1>5. CASE AnswerOK(d)
  <2>1. breaker[d].state # "OPEN"
    BY <1>1, <1>5 DEF AnswerOK, Knows
  <2>2. Counts(AfterSuccess(breaker[d]))
    <3>1. CASE b.state = "CLOSED"
      <4>1. AfterSuccess(b) = [state |-> "CLOSED", failures |-> 0, successes |-> b.successes]
        BY <1>9, <3>1 DEF AfterSuccess
      <4> QED BY <4>1, ThresholdAssumption
    <3>2. CASE b.state = "HALF_OPEN" /\ b.successes + 1 >= SuccessThreshold
      <4>1. AfterSuccess(b) = [state |-> "CLOSED", failures |-> 0, successes |-> b.successes + 1]
        BY <1>9, <3>2 DEF AfterSuccess
      <4> QED BY <4>1, ThresholdAssumption
    <3>3. CASE b.state = "HALF_OPEN" /\ b.successes + 1 < SuccessThreshold
      <4>1. AfterSuccess(b) =
              [state |-> "HALF_OPEN", failures |-> b.failures, successes |-> b.successes + 1]
        BY <1>3, <1>9, <3>3, ThresholdAssumption DEF AfterSuccess
      <4> QED BY <1>2, <3>3, <4>1
    <3> QED BY <1>3, <2>1, <3>1, <3>2, <3>3, ThresholdAssumption
  <2>3. breaker'[d] = AfterSuccess(breaker[d])
    BY <1>1, <1>5 DEF AnswerOK, Answered, TypeOK
  <2> QED BY <2>2, <2>3
<1>6. CASE AnswerError(d)
  <2>1. breaker[d].state # "OPEN"
    BY <1>1, <1>6 DEF AnswerError, Knows
  <2>2. Counts(AfterFailure(breaker[d]))
    BY <1>2, <1>3, <2>1, ThresholdAssumption DEF AfterFailure, Breaker
  <2>3. breaker'[d] = AfterFailure(breaker[d])
    BY <1>1, <1>6 DEF AnswerError, Answered, TypeOK
  <2> QED BY <2>2, <2>3
<1>7. CASE Crash(d)
  BY <1>1, <1>7, ThresholdAssumption DEF Crash, NewBreaker, TypeOK
<1>8. ~Send(d) /\ ~AnswerOK(d) /\ ~AnswerError(d) /\ ~Crash(d) => breaker'[d] = breaker[d]
  <2>1. ASSUME NEW c \in Consumers, c # d,
               Send(c) \/ AnswerOK(c) \/ AnswerError(c) \/ Crash(c)
        PROVE  breaker'[d] = breaker[d]
    BY <1>1, <2>1 DEF Send, AnswerOK, AnswerError, Answered, Crash, TypeOK
  <2>2. (~\E c \in Consumers : Send(c) \/ AnswerOK(c) \/ AnswerError(c) \/ Crash(c))
          => UNCHANGED breaker
    BY DEF Next, ConsumerStep, Environment, Quiet, vars, FraudResult, Assign, CommitOffsets,
       ReadMessage, Lookup, Rejected, UpdateStatus, UpdateFails, CacheOutcome, PublishResult,
       Transfer, LateTransfer
  <2> QED BY <2>1, <2>2
<1> QED BY <1>2, <1>4, <1>5, <1>6, <1>7, <1>8

-----------------------------------------------------------------------------
(* The safety properties *)

LEMMA InitInv == Init => Inv
<1> SUFFICES ASSUME Init PROVE Inv
  OBVIOUS
<1> USE DEF Init
<1>1. TypeOK
  BY BoundsAssumption, NewBreakerType DEF TypeOK, Handling
<1>2. \A c \in Consumers : Knows(c)
  BY DEF Knows
<1>3. SuccessMeansMoved
  BY DEF SuccessMeansMoved
<1>4. BreakerCounts
  BY ThresholdAssumption DEF BreakerCounts, NewBreaker
<1> QED BY <1>1, <1>2, <1>3, <1>4 DEF Inv

LEMMA NextInv == Inv /\ [Next]_vars => Inv'
BY TypeInv, KnowsInv, SuccessInv, BreakerInv DEF Inv

LEMMA Invariance == Spec => []Inv
BY InitInv, NextInv, PTL DEF Spec

(* Type correctness; the offsets of the group are ordered, and a consumer   *)
(* waits for the account service exactly when it has sent a request.        *)
THEOREM TypeCorrect == Spec => []TypeOK
<1>1. Inv => TypeOK
  BY DEF Inv
<1> QED BY <1>1, Invariance, PTL

(* SUCCESS, in the row, in the idempotency record or in a result event,     *)
(* means that money has moved.                                              *)
THEOREM SuccessIsPaid == Spec => []SuccessMeansMoved
<1>1. Inv => SuccessMeansMoved
  BY DEF Inv
<1> QED BY <1>1, Invariance, PTL

(* The circuit breaker's counters stay below its thresholds.                *)
THEOREM BreakerBounded == Spec => []BreakerCounts
<1>1. Inv => BreakerCounts
  BY DEF Inv
<1> QED BY <1>1, Invariance, PTL

-----------------------------------------------------------------------------
(* How often a payment's money moves *)

(* Whether a consumer's handling may still move the money of a payment.     *)
MayMove(c, p) ==
  /\ pc[c] \in {"lookup", "execute"} \/ call[c] = "sent"
  /\ msg[c] = [payment |-> p, approved |-> TRUE]

Pending(p) == {c \in Consumers : MayMove(c, p)}

(* At most this many approvals of p have been delivered: those the owner    *)
(* has read, and all there are before each crash and each rebalance.        *)
ApprovalsTo(p, n) == {i \in Approvals(p) : i <= n}

Delivered(reader, read, all, restarts) ==
  (IF reader = NoConsumer THEN 0 ELSE read) + all * restarts

Deliveries(p) ==
  Delivered(owner, Cardinality(ApprovalsTo(p, position)),
            Cardinality(Approvals(p)), crashes + rebalances)

Fits == Len(results) <= MaxResults

(* Every transfer that was made, and every one that still may be, belongs   *)
(* to a delivery.                                                           *)
Counted ==
  /\ Fits
  /\ \A p \in Payments :
       /\ IsFiniteSet(Pending(p))
       /\ moved[p] + late[p] + Cardinality(Pending(p)) <= Deliveries(p)

LEMMA Times ==
  ASSUME NEW m \in Nat, NEW a \in Nat, NEW b \in Nat
  PROVE  /\ a + b \in Nat /\ m * a \in Nat /\ m * (a + 1) = m * a + m
         /\ a <= b => m * a <= m * b /\ a * m <= b * m
OBVIOUS

LEMMA DeliveredType ==
  ASSUME NEW o, NEW n \in Nat, NEW all \in Nat, NEW k \in Nat, n <= all
  PROVE  /\ Delivered(o, n, all, k) \in Nat
         /\ Delivered(o, n, all, k) <= all * (1 + k)
<1>1. PICK x \in Nat : all * k = x /\ all * (1 + k) = x + all
  <2>1. all * k \in Nat /\ all * (k + 1) = all * k + all
    BY Times
  <2>2. 1 + k = k + 1
    OBVIOUS
  <2> QED BY <2>1, <2>2
<1>2. Delivered(o, n, all, k) = (IF o = NoConsumer THEN 0 ELSE n) + x
  BY <1>1 DEF Delivered
<1> QED BY <1>1, <1>2

(* A message more is one delivery more; new approvals, a crash, a rebalance *)
(* and the assignment of a partition nobody has take none back.             *)
LEMMA DeliveredGrows ==
  ASSUME NEW o, NEW n \in Nat, NEW all \in Nat, NEW k \in Nat, n <= all,
         NEW o2, NEW n2 \in Nat, NEW all2 \in Nat, NEW k2 \in Nat
  PROVE  /\ o2 = o /\ n2 = n /\ all <= all2 /\ k2 = k =>
              Delivered(o, n, all, k) <= Delivered(o2, n2, all2, k2)
         /\ o = NoConsumer /\ all2 = all /\ k2 = k =>
              Delivered(o, n, all, k) <= Delivered(o2, n2, all2, k2)
         /\ all2 = all /\ k2 = k + 1 =>
              Delivered(o, n, all, k) <= Delivered(o2, n2, all2, k2)
         /\ o2 = o /\ o # NoConsumer /\ n2 = n + 1 /\ all2 = all /\ k2 = k =>
              Delivered(o, n, all, k) + 1 = Delivered(o2, n2, all2, k2)
<1>1. PICK x \in Nat : x = all * k
  BY Times
<1>2. PICK y \in Nat : y = all2 * k2
  BY Times
<1>3. /\ all <= all2 /\ k2 = k => x <= y
      /\ all2 = all /\ k2 = k + 1 => y = x + all
      /\ all2 = all /\ k2 = k => y = x
  <2>1. all <= all2 => all * k <= all2 * k
    BY Times
  <2>2. all * (k + 1) = all * k + all
    BY Times
  <2> QED BY <1>1, <1>2, <2>1, <2>2
<1>4. /\ Delivered(o, n, all, k) = (IF o = NoConsumer THEN 0 ELSE n) + x
      /\ Delivered(o2, n2, all2, k2) = (IF o2 = NoConsumer THEN 0 ELSE n2) + y
  BY <1>1, <1>2 DEF Delivered
<1> QED BY <1>3, <1>4

(* A set of offsets is finite.                                              *)
LEMMA Offsets ==
  ASSUME NEW n \in Nat, NEW S, S \subseteq 1..n
  PROVE  IsFiniteSet(S) /\ Cardinality(S) \in Nat /\ Cardinality(S) <= n
<1>1. 1 \in Int /\ n \in Int
  OBVIOUS
<1>2. /\ IsFiniteSet(1..n)
      /\ Cardinality(1..n) = IF 1 > n THEN 0 ELSE n - 1 + 1
  BY <1>1, FS_Interval
<1>3. Cardinality(1..n) = n
  BY <1>2
<1> QED BY <1>2, <1>3, FS_Subset, FS_CardinalityType

(* The approvals are messages of the partition.                             *)
LEMMA ApprovalsFinite ==
  ASSUME TypeOK, NEW p, NEW n \in Nat
  PROVE  /\ IsFiniteSet(Approvals(p)) /\ Cardinality(Approvals(p)) \in Nat
         /\ Cardinality(Approvals(p)) <= Len(results)
         /\ IsFiniteSet(ApprovalsTo(p, n)) /\ Cardinality(ApprovalsTo(p, n)) \in Nat
         /\ Cardinality(ApprovalsTo(p, n)) <= Cardinality(Approvals(p))
<1>1. Len(results) \in Nat /\ DOMAIN results = 1..Len(results)
  BY DEF TypeOK
<1>2. Approvals(p) \subseteq 1..Len(results) /\ ApprovalsTo(p, n) \subseteq Approvals(p)
  BY <1>1 DEF Approvals, ApprovalsTo
<1> QED BY <1>1, <1>2, Offsets, FS_Subset, FS_CardinalityType

(* The owner's next message may be one more approval.                       *)
LEMMA NextApproval ==
  ASSUME TypeOK, NEW p, NEW n \in Nat, n + 1 \in Approvals(p)
  PROVE  Cardinality(ApprovalsTo(p, n + 1)) = Cardinality(ApprovalsTo(p, n)) + 1
<1>1. Approvals(p) \subseteq Nat
  BY DEF Approvals, TypeOK
<1>2. ApprovalsTo(p, n + 1) = ApprovalsTo(p, n) \cup {n + 1} /\ n + 1 \notin ApprovalsTo(p, n)
  BY <1>1 DEF ApprovalsTo
<1> QED BY <1>2, ApprovalsFinite, FS_AddElement

(* A verdict that is published adds to the approvals, behind all that has   *)
(* been read.                                                               *)
LEMMA NewApproval ==
  ASSUME TypeOK, TypeOK', NEW p \in Payments, NEW q \in Payments, NEW approved \in BOOLEAN,
         FraudResult(q, approved)
  PROVE  /\ ApprovalsTo(p, position)' = ApprovalsTo(p, position)
         /\ Cardinality(Approvals(p)) <= Cardinality(Approvals(p)')
<1>1. /\ Len(results) \in Nat /\ position \in Nat /\ position <= Len(results)
      /\ position' = position
      /\ DOMAIN results = 1..Len(results)
      /\ DOMAIN results' = 1..(Len(results) + 1)
      /\ \A i \in 1..Len(results) : results'[i] = results[i]
  <2>1. results \in Seq(Result) /\ position \in Nat /\ position <= Len(results)
    BY DEF TypeOK
  <2>2. results' = Append(results, [payment |-> q, approved |-> approved]) /\ position' = position
    BY DEF FraudResult
  <2> QED BY <2>1, <2>2
<1>2. Approvals(p) \subseteq Approvals(p)'
  <2>1. 1..Len(results) \subseteq 1..(Len(results) + 1)
    BY <1>1
  <2>2. Approvals(p)' = {i \in DOMAIN results' : results'[i] = [payment |-> p, approved |-> TRUE]}
    BY DEF Approvals
  <2> QED BY <1>1, <2>1, <2>2 DEF Approvals
<1>3. ASSUME NEW i \in Nat, i <= position
      PROVE  i \in DOMAIN results <=> i \in DOMAIN results'
  BY <1>1, <1>3
<1>4. ASSUME NEW i \in Nat, i <= position
      PROVE  i \in Approvals(p) <=> i \in Approvals(p)'
  BY <1>1, <1>3, <1>4 DEF Approvals
<1>5. Approvals(p) \subseteq Nat /\ Approvals(p)' \subseteq Nat
  BY <1>1 DEF Approvals
<1>6. ApprovalsTo(p, position)' = {i \in Approvals(p)' : i <= position}
  BY <1>1 DEF ApprovalsTo
<1>7. ApprovalsTo(p, position)' = ApprovalsTo(p, position)
  BY <1>4, <1>5, <1>6 DEF ApprovalsTo
<1>8. IsFiniteSet(Approvals(p)')
  <2>1. Len(results) + 1 \in Nat /\ Approvals(p)' \subseteq 1..(Len(results) + 1)
    BY <1>1 DEF Approvals
  <2> QED BY <2>1, Offsets
<1> QED BY <1>2, <1>7, <1>8, FS_Subset

LEMMA DeliveriesGrow ==
  ASSUME Inv, Inv', [Next]_vars, NEW p \in Payments
  PROVE  /\ Deliveries(p) \in Nat /\ Deliveries(p)' \in Nat /\ Deliveries(p) <= Deliveries(p)'
         /\ \A c \in Consumers :
              ReadMessage(c) /\ MayMove(c, p)' => Deliveries(p) + 1 <= Deliveries(p)'
<1> DEFINE k == crashes + rebalances
           n == Cardinality(ApprovalsTo(p, position))
           all == Cardinality(Approvals(p))
<1>1. TypeOK /\ TypeOK'
  BY DEF Inv
<1>2. /\ crashes \in Nat /\ rebalances \in Nat /\ crashes' \in Nat /\ rebalances' \in Nat
      /\ position \in Nat /\ position' \in Nat /\ committed \in Nat
  BY <1>1, BoundsAssumption DEF TypeOK
<1>3. /\ n \in Nat /\ all \in Nat /\ n <= all
      /\ k \in Nat
  BY <1>1, <1>2, ApprovalsFinite
<1>4. n' \in Nat /\ all' \in Nat /\ n' <= all' /\ k' \in Nat
  <2>1. /\ Len(results') \in Nat /\ DOMAIN results' = 1..Len(results')
    BY <1>1 DEF TypeOK
  <2>2. Approvals(p)' \subseteq 1..Len(results') /\ ApprovalsTo(p, position)' \subseteq Approvals(p)'
    BY <2>1 DEF Approvals, ApprovalsTo
  <2>3. all' \in Nat /\ IsFiniteSet(Approvals(p)')
    BY <2>1, <2>2, Offsets
  <2>4. n' \in Nat /\ n' <= all'
    BY <2>2, <2>3, FS_Subset, FS_CardinalityType
  <2>5. k' \in Nat
    <3>1. crashes' \in Nat /\ rebalances' \in Nat
      BY <1>2
    <3>2. \A a, b \in Nat : a + b \in Nat
      OBVIOUS
    <3> QED BY <3>1, <3>2
  <2> QED BY <2>3, <2>4, <2>5
<1>5. /\ Deliveries(p) = Delivered(owner, n, all, k)
      /\ Deliveries(p)' = Delivered(owner', n', all', k')
  BY DEF Deliveries
<1>6. UNCHANGED results => all' = all
  BY DEF Approvals
<1> HIDE DEF n, all, k
<1>7. Deliveries(p) \in Nat /\ Deliveries(p)' \in Nat
  BY <1>3, <1>4, <1>5, DeliveredType
<1> USE DEF partition, service, account, local, bounds
<1>8. ASSUME NEW c \in Consumers, Assign(c)
      PROVE  Deliveries(p) <= Deliveries(p)'
  <2>1. all' = all
    BY <1>6, <1>8 DEF Assign
  <2>2. CASE owner = NoConsumer
    <3>1. k' = k
      BY <1>8, <2>2 DEF Assign, k
    <3> QED BY <1>3, <1>4, <1>5, <2>1, <2>2, <3>1, DeliveredGrows
  <2>3. CASE owner # NoConsumer
    <3>1. k' = k + 1
      BY <1>2, <1>8, <2>3 DEF Assign, k
    <3> QED BY <1>3, <1>4, <1>5, <2>1, <3>1, DeliveredGrows
  <2> QED BY <2>2, <2>3
<1>9. ASSUME NEW c \in Consumers, Crash(c)
      PROVE  Deliveries(p) <= Deliveries(p)'
  <2>1. k' = k + 1 /\ all' = all
    BY <1>2, <1>6, <1>9 DEF Crash, k
  <2> QED BY <1>3, <1>4, <1>5, <2>1, DeliveredGrows
<1>10. ASSUME NEW c \in Consumers, ReadMessage(c)
       PROVE  /\ Deliveries(p) <= Deliveries(p)'
              /\ MayMove(c, p)' => Deliveries(p) + 1 <= Deliveries(p)'
  <2>1. /\ k' = k /\ all' = all /\ position' = position + 1 /\ owner' = owner
        /\ owner # NoConsumer /\ position < Len(results) /\ UNCHANGED results
        /\ msg' = [msg EXCEPT ![c] = results[position + 1]]
    BY <1>6, <1>10, ConsumerAssumption DEF ReadMessage, k
  <2>2. ApprovalsTo(p, position)' = ApprovalsTo(p, position + 1)
    BY <2>1 DEF ApprovalsTo, Approvals
  <2>3. CASE position + 1 \in Approvals(p)
    <3>1. n' = n + 1
      BY <1>1, <1>2, <2>2, <2>3, NextApproval DEF n
    <3> QED BY <1>3, <1>4, <1>5, <1>7, <2>1, <3>1, DeliveredGrows
  <2>4. CASE position + 1 \notin Approvals(p)
    <3>1. ApprovalsTo(p, position + 1) = ApprovalsTo(p, position)
      <4>1. Approvals(p) \subseteq Nat
        BY <1>1 DEF Approvals, TypeOK
      <4> QED BY <1>2, <2>4, <4>1 DEF ApprovalsTo
    <3>2. n' = n
      BY <2>2, <3>1 DEF n
    <3>3. ~MayMove(c, p)'
      <4>1. position + 1 \in DOMAIN results
        BY <1>1, <1>2, <2>1 DEF TypeOK
      <4>2. msg'[c] = results[position + 1]
        BY <1>1, <2>1 DEF TypeOK
      <4> QED BY <2>4, <4>1, <4>2 DEF Approvals, MayMove
    <3> QED BY <1>5, <1>7, <2>1, <3>2, <3>3
  <2> QED BY <2>3, <2>4
<1>11. ASSUME NEW q \in Payments, NEW approved \in BOOLEAN, FraudResult(q, approved)
       PROVE  Deliveries(p) <= Deliveries(p)'
  <2>1. n' = n /\ all <= all'
    BY <1>1, <1>11, NewApproval DEF n, all
  <2>2. owner' = owner /\ k' = k
    BY <1>11 DEF FraudResult, k
  <2> QED BY <1>3, <1>4, <1>5, <2>1, <2>2, DeliveredGrows
<1>12. CASE UNCHANGED <<results, owner, position, crashes, rebalances>>
  <2>1. Deliveries(p)' = Deliveries(p)
    BY <1>12 DEF Deliveries, ApprovalsTo, Approvals
  <2> QED BY <1>7, <1>10, <2>1
<1>13. \/ \E c \in Consumers : Assign(c) \/ Crash(c) \/ ReadMessage(c)
       \/ \E q \in Payments, approved \in BOOLEAN : FraudResult(q, approved)
       \/ UNCHANGED <<results, owner, position, crashes, rebalances>>
  BY DEF Next, ConsumerStep, Environment, Quiet, vars, CommitOffsets, Lookup,
     Rejected, Send, AnswerOK, AnswerError, Answered, UpdateStatus, UpdateFails, CacheOutcome,
     PublishResult, Transfer, LateTransfer
<1>14. (\E c \in Consumers : ReadMessage(c)) => Deliveries(p) <= Deliveries(p)'
  BY <1>10
<1> QED BY <1>7, <1>8, <1>9, <1>10, <1>11, <1>12, <1>13, <1>14

LEMMA DeliveriesBounded ==
  ASSUME TypeOK, Fits, NEW p \in Payments
  PROVE  /\ Deliveries(p) \in Nat /\ Deliveries(p) <= MaxCalls
         /\ Deliveries(p) <= Cardinality(Approvals(p)) * (1 + crashes + rebalances)
<1> DEFINE k == crashes + rebalances
           n == MaxCrashes + MaxRebalances
           all == Cardinality(Approvals(p))
           read == Cardinality(ApprovalsTo(p, position))
<1>1. /\ MaxResults \in Nat /\ crashes \in Nat /\ rebalances \in Nat
      /\ position \in Nat /\ Len(results) \in Nat /\ Len(results) <= MaxResults
      /\ MaxCrashes \in Nat /\ MaxRebalances \in Nat
      /\ crashes <= MaxCrashes /\ rebalances <= MaxRebalances
  BY BoundsAssumption DEF TypeOK, Fits
<1>2. k \in Nat /\ n \in Nat /\ k <= n
  BY <1>1
<1>3. all \in Nat /\ all <= MaxResults /\ read \in Nat /\ read <= all
  <2>1. all \in Nat /\ all <= Len(results) /\ read \in Nat /\ read <= all
    BY <1>1, ApprovalsFinite
  <2> QED BY <1>1, <2>1
<1>4. MaxCalls = MaxResults * (1 + n) /\ 1 + crashes + rebalances = 1 + k
  BY <1>1 DEF MaxCalls
<1>5. Deliveries(p) = Delivered(owner, read, all, k)
  BY DEF Deliveries
<1> HIDE DEF k, n, all, read
<1>6. Delivered(owner, read, all, k) \in Nat /\ Delivered(owner, read, all, k) <= all * (1 + k)
  BY <1>2, <1>3, DeliveredType
<1>7. 1 + k \in Nat /\ 1 + n \in Nat /\ 1 + k <= 1 + n
  BY <1>2
<1>8. all * (1 + k) \in Nat /\ all * (1 + k) <= MaxResults * (1 + k)
  BY <1>1, <1>3, <1>7, Times
<1>9. MaxResults * (1 + k) \in Nat /\ MaxResults * (1 + n) \in Nat
      /\ MaxResults * (1 + k) <= MaxResults * (1 + n)
  BY <1>1, <1>7, Times
<1> QED BY <1>4, <1>5, <1>6, <1>8, <1>9 DEF all

(* Sets that gain or lose a member.                                         *)
LEMMA Gained ==
  ASSUME NEW S, NEW T, NEW e, IsFiniteSet(S), T \subseteq S \cup {e}
  PROVE  /\ IsFiniteSet(T) /\ Cardinality(T) \in Nat /\ Cardinality(S) \in Nat
         /\ Cardinality(T) <= Cardinality(S) + 1
         /\ T \subseteq S => Cardinality(T) <= Cardinality(S)
<1>1. IsFiniteSet(S \cup {e}) /\ Cardinality(S \cup {e}) <= Cardinality(S) + 1
  <2>1. Cardinality(S) \in Nat
    BY FS_CardinalityType
  <2>2. /\ IsFiniteSet(S \cup {e})
        /\ Cardinality(S \cup {e}) = IF e \in S THEN Cardinality(S) ELSE Cardinality(S) + 1
    BY FS_AddElement
  <2> QED BY <2>1, <2>2
<1> QED BY <1>1, FS_Subset, FS_CardinalityType

LEMMA Lost ==
  ASSUME NEW S, NEW T, NEW e \in S, IsFiniteSet(S), T \subseteq S \ {e}
  PROVE  /\ IsFiniteSet(T) /\ Cardinality(T) \in Nat /\ Cardinality(S) \in Nat
         /\ Cardinality(T) + 1 <= Cardinality(S)
<1>1. IsFiniteSet(S \ {e}) /\ Cardinality(S \ {e}) = Cardinality(S) - 1
  BY FS_RemoveElement
<1> QED BY <1>1, FS_Subset, FS_CardinalityType

(* A request on its way was made for an approval.                           *)
LEMMA CallPending ==
  ASSUME TypeOK, NEW c \in Consumers, Knows(c), call[c] = "sent"
  PROVE  PaymentOf(c) \in Payments /\ MayMove(c, PaymentOf(c))
<1>1. pc[c] = "answer"
  BY DEF TypeOK
<1>2. msg[c] \in Result /\ PaymentOf(c) \in Payments /\ msg[c].approved \in BOOLEAN /\ msg[c].approved
  BY <1>1, ConsumerType DEF Knows
<1>3. msg[c] = [payment |-> PaymentOf(c), approved |-> TRUE]
  BY <1>2 DEF Result, PaymentOf
<1> QED BY <1>2, <1>3 DEF MayMove

(* A consumer's step makes its handling pending only when it reads a        *)
(* result; what it moves or leaves behind was pending until then.           *)
LEMMA ConsumerCount ==
  ASSUME Inv, [Next]_vars, NEW c \in Consumers, ConsumerStep(c) \/ Transfer(c) \/ Crash(c),
         NEW p \in Payments
  PROVE  \/ moved'[p] + late'[p] = moved[p] + late[p] /\ (MayMove(c, p)' => MayMove(c, p))
         \/ moved'[p] + late'[p] = moved[p] + late[p] + 1 /\ MayMove(c, p) /\ ~MayMove(c, p)'
         \/ moved'[p] + late'[p] = moved[p] + late[p] /\ ReadMessage(c) /\ MayMove(c, p)'
<1>1. TypeOK /\ TypeOK' /\ moved[p] \in Nat /\ late[p] \in Nat
  BY TypeInv DEF Inv, TypeOK
<1> USE DEF partition, service, account, local, bounds
<1>2. ASSUME UNCHANGED <<late, moved>>
      PROVE  moved'[p] + late'[p] = moved[p] + late[p]
  BY <1>2
<1>3. CASE ReadMessage(c)
  BY <1>2, <1>3 DEF ReadMessage
<1>4. CASE Lookup(c)
  <2>1. MayMove(c, p)' => MayMove(c, p)
    BY <1>1, <1>4 DEF Lookup, Return, Goto, MayMove, PaymentOf, TypeOK
  <2> QED BY <1>2, <1>4, <2>1 DEF Lookup
<1>5. CASE Rejected(c) \/ Send(c)
  <2>1. MayMove(c, p)' => MayMove(c, p)
    BY <1>1, <1>5 DEF Rejected, Send, Goto, MayMove, PaymentOf, TypeOK
  <2> QED BY <1>2, <1>5, <2>1 DEF Rejected, Send
<1>6. CASE UpdateStatus(c) \/ UpdateFails(c) \/ CacheOutcome(c) \/ PublishResult(c)
  <2>1. ~MayMove(c, p)'
    BY <1>1, <1>6 DEF UpdateStatus, UpdateFails, CacheOutcome, PublishResult, Return, Goto,
       MayMove, TypeOK
  <2> QED BY <1>2, <1>6, <2>1 DEF UpdateStatus, UpdateFails, CacheOutcome, PublishResult
<1>7. CASE Transfer(c)
  <2>1. moved' = [moved EXCEPT ![PaymentOf(c)] = @ + 1] /\ late' = late
    BY <1>7 DEF Transfer
  <2>2. MayMove(c, PaymentOf(c)) /\ ~MayMove(c, p)'
    <3>1. call[c] = "sent" /\ Knows(c)
      BY <1>7 DEF Transfer, Inv
    <3>2. pc[c] = "answer" /\ pc' = pc /\ call'[c] = "moved"
      BY <1>1, <1>7 DEF Transfer, TypeOK
    <3> QED BY <1>1, <3>1, <3>2, CallPending DEF MayMove
  <2>3. CASE p = PaymentOf(c)
    BY <1>1, <2>1, <2>2, <2>3 DEF TypeOK
  <2>4. CASE p # PaymentOf(c)
    BY <1>1, <2>1, <2>2, <2>4 DEF TypeOK
  <2> QED BY <2>3, <2>4
<1>8. ASSUME Abandon(c), moved' = moved, ~MayMove(c, p)'
      PROVE  \/ moved'[p] + late'[p] = moved[p] + late[p]
             \/ moved'[p] + late'[p] = moved[p] + late[p] + 1 /\ MayMove(c, p)
  <2>1. CASE call[c] = "sent" /\ p = PaymentOf(c)
    <3>1. late'[p] = late[p] + 1
      BY <1>1, <1>8, <2>1 DEF Abandon, TypeOK
    <3>2. MayMove(c, p)
      BY <1>1, <2>1, CallPending DEF Inv
    <3> QED BY <1>1, <1>8, <3>1, <3>2
  <2>2. CASE ~(call[c] = "sent" /\ p = PaymentOf(c))
    <3>1. late'[p] = late[p]
      BY <1>1, <1>8, <2>2 DEF Abandon, TypeOK
    <3> QED BY <1>8, <3>1
  <2> QED BY <2>1, <2>2
<1>9. CASE AnswerOK(c) \/ AnswerError(c)
  <2>1. Abandon(c) /\ moved' = moved /\ ~MayMove(c, p)'
    BY <1>1, <1>9 DEF AnswerOK, AnswerError, Answered, Goto, MayMove, TypeOK
  <2> QED BY <1>8, <2>1
<1>10. CASE Crash(c)
  <2>1. Abandon(c) /\ moved' = moved /\ ~MayMove(c, p)'
    BY <1>1, <1>10 DEF Crash, Return, Goto, MayMove, TypeOK
  <2> QED BY <1>8, <2>1
<1> QED BY <1>3, <1>4, <1>5, <1>6, <1>7, <1>9, <1>10 DEF ConsumerStep

LEMMA CountedInv ==
  ASSUME Inv, Counted, [Next]_vars
  PROVE  Counted'
<1>1. TypeOK /\ TypeOK' /\ Fits /\ Inv'
  BY NextInv DEF Inv, Counted
<1> USE DEF partition, service, account, local, bounds
<1>2. Fits'
  <2>1. ASSUME NEW p \in Payments, NEW approved \in BOOLEAN, FraudResult(p, approved)
        PROVE  Fits'
    BY <1>1, <2>1, BoundsAssumption DEF FraudResult, Fits, TypeOK
  <2>2. \/ \E p \in Payments, approved \in BOOLEAN : FraudResult(p, approved)
        \/ results' = results
    BY DEF Next, ConsumerStep, Environment, Quiet, vars, Assign, CommitOffsets, ReadMessage,
       Lookup, Rejected, Send, AnswerOK, AnswerError, Answered, UpdateStatus, UpdateFails,
       CacheOutcome, PublishResult, Transfer, LateTransfer, Crash
  <2> QED BY <1>1, <2>1, <2>2 DEF Fits
<1> SUFFICES ASSUME NEW p \in Payments
             PROVE  /\ IsFiniteSet(Pending(p)')
                    /\ moved'[p] + late'[p] + Cardinality(Pending(p)') <= Deliveries(p)'
  BY <1>2 DEF Counted
<1> DEFINE before == Pending(p)
           after  == Pending(p)'
<1>3. /\ IsFiniteSet(before) /\ Cardinality(before) \in Nat
      /\ moved[p] + late[p] + Cardinality(before) <= Deliveries(p)
      /\ moved[p] \in Nat /\ late[p] \in Nat /\ moved'[p] \in Nat /\ late'[p] \in Nat
  BY <1>1, FS_CardinalityType DEF Counted, TypeOK
<1>4. Deliveries(p) \in Nat /\ Deliveries(p)' \in Nat /\ Deliveries(p) <= Deliveries(p)'
  BY <1>1, DeliveriesGrow
<1>5. \A c \in Consumers : /\ c \in before <=> MayMove(c, p)
                           /\ c \in after <=> MayMove(c, p)'
  BY DEF Pending
<1>6. before \subseteq Consumers /\ after \subseteq Consumers
  BY DEF Pending
<1> HIDE DEF before, after
<1> SUFFICES IsFiniteSet(after) /\ moved'[p] + late'[p] + Cardinality(after) <= Deliveries(p)'
  BY DEF after
<1>7. ASSUME after \subseteq before, moved'[p] + late'[p] = moved[p] + late[p]
      PROVE  IsFiniteSet(after) /\ moved'[p] + late'[p] + Cardinality(after) <= Deliveries(p)'
  <2>1. IsFiniteSet(after) /\ Cardinality(after) \in Nat
        /\ Cardinality(after) <= Cardinality(before)
    BY <1>3, <1>7, Gained
  <2> QED BY <1>3, <1>4, <1>7, <2>1
<1>8. ASSUME NEW c \in Consumers, ConsumerStep(c) \/ Transfer(c) \/ Crash(c)
      PROVE  IsFiniteSet(after) /\ moved'[p] + late'[p] + Cardinality(after) <= Deliveries(p)'
  <2>1. after \ {c} = before \ {c}
    <3>1. \A d \in Consumers \ {c} : MayMove(d, p)' <=> MayMove(d, p)
      BY <1>1, <1>8, OthersUntouched DEF MayMove
    <3> QED BY <1>5, <1>6, <3>1
  <2>2. CASE /\ moved'[p] + late'[p] = moved[p] + late[p]
             /\ MayMove(c, p)' => MayMove(c, p)
    BY <1>5, <1>7, <2>1, <2>2
  <2>3. CASE /\ moved'[p] + late'[p] = moved[p] + late[p] + 1
             /\ MayMove(c, p) /\ ~MayMove(c, p)'
    <3>1. c \in before /\ after \subseteq before \ {c}
      BY <1>5, <2>1, <2>3
    <3>2. IsFiniteSet(after) /\ Cardinality(after) \in Nat
          /\ Cardinality(after) + 1 <= Cardinality(before)
      BY <1>3, <3>1, Lost
    <3> QED BY <1>3, <1>4, <2>3, <3>2
  <2>4. CASE moved'[p] + late'[p] = moved[p] + late[p] /\ ReadMessage(c) /\ MayMove(c, p)'
    <3>1. after \subseteq before \cup {c}
      BY <2>1
    <3>2. IsFiniteSet(after) /\ Cardinality(after) \in Nat
          /\ Cardinality(after) <= Cardinality(before) + 1
      BY <1>3, <3>1, Gained
    <3>3. Deliveries(p) + 1 <= Deliveries(p)'
      BY <1>1, <2>4, DeliveriesGrow
    <3> QED BY <1>3, <1>4, <2>4, <3>2, <3>3
  <2> QED BY <1>8, <2>2, <2>3, <2>4, ConsumerCount
<1>9. ASSUME UNCHANGED <<pc, msg, call>>
      PROVE  after \subseteq before
  BY <1>9 DEF before, after, Pending, MayMove
<1>10. ASSUME NEW q \in Payments, LateTransfer(q)
       PROVE  moved'[p] + late'[p] = moved[p] + late[p] /\ UNCHANGED <<pc, msg, call>>
  <2>1. p # q => moved'[p] = moved[p] /\ late'[p] = late[p]
    BY <1>1, <1>10 DEF LateTransfer, TypeOK
  <2>2. p = q => moved'[p] = moved[p] + 1 /\ late'[p] = late[p] - 1
    BY <1>1, <1>10 DEF LateTransfer, TypeOK
  <2> QED BY <1>3, <1>10, <2>1, <2>2 DEF LateTransfer
<1>11. CASE UNCHANGED <<moved, late, pc, msg, call>>
  BY <1>7, <1>9, <1>11
<1> QED BY <1>7, <1>8, <1>9, <1>10, <1>11 DEF Next, Environment, Quiet, vars, FraudResult,
        Assign, CommitOffsets

(* Money moves only while a delivery has a transfer left.                   *)
LEMMA MoveBounded ==
  ASSUME Inv, Counted, NEW p \in Payments
  PROVE  /\ \A c \in Consumers : call[c] = "sent" /\ PaymentOf(c) = p => moved[p] < MaxCalls
         /\ late[p] > 0 => moved[p] < MaxCalls
<1>1. /\ TypeOK /\ Fits /\ moved[p] \in Nat /\ late[p] \in Nat
      /\ IsFiniteSet(Pending(p)) /\ Cardinality(Pending(p)) \in Nat
      /\ moved[p] + late[p] + Cardinality(Pending(p)) <= Deliveries(p)
  BY FS_CardinalityType DEF Inv, Counted, TypeOK
<1>2. Deliveries(p) \in Nat /\ Deliveries(p) <= MaxCalls
  BY <1>1, DeliveriesBounded
<1>3. MaxCalls \in Int
  BY BoundsAssumption DEF MaxCalls
<1>4. ASSUME NEW c \in Consumers, call[c] = "sent", PaymentOf(c) = p
      PROVE  Cardinality(Pending(p)) >= 1
  <2>1. c \in Pending(p)
    BY <1>1, <1>4, CallPending DEF Inv, Pending
  <2>2. /\ Cardinality(Pending(p) \ {c}) \in Nat
        /\ Cardinality(Pending(p) \ {c}) + 1 <= Cardinality(Pending(p))
    BY <1>1, <2>1, Lost
  <2> QED BY <1>1, <2>2
<1> QED BY <1>1, <1>2, <1>3, <1>4

-----------------------------------------------------------------------------
(* The saga implements PaymentLifecycle *)

LEMMA CountedInit == Init => Counted
<1> SUFFICES ASSUME Init PROVE Counted
  OBVIOUS
<1>1. \A p \in Payments : Pending(p) = {}
  BY DEF Init, Pending, MayMove
<1>2. MaxResults \in Nat
  BY BoundsAssumption
<1>3. ASSUME NEW p \in Payments PROVE Deliveries(p) = 0
  <2>1. Approvals(p) = {} /\ Cardinality({}) = 0 /\ 0 * (0 + 0) = 0
    BY FS_EmptySet DEF Init, Approvals
  <2> QED BY <2>1 DEF Init, Deliveries, Delivered
<1>4. Fits
  BY <1>2 DEF Init, Fits
<1>5. IsFiniteSet({}) /\ Cardinality({}) = 0
  BY FS_EmptySet
<1>6. \A p \in Payments : moved[p] = 0 /\ late[p] = 0
  BY DEF Init
<1> QED BY <1>1, <1>3, <1>4, <1>5, <1>6 DEF Counted

LEMMA LifecycleStep ==
  ASSUME Inv, Counted, [Next]_vars
  PROVE  [Lifecycle!Next]_(Lifecycle!vars)
<1>1. TypeOK /\ TypeOK' /\ \A c \in Consumers : Knows(c)
  BY TypeInv DEF Inv
<1> USE DEF Lifecycle!Next, Lifecycle!vars, Lifecycle!Outcomes, partition, service, account,
        local, bounds
<1>2. ASSUME NEW c \in Consumers, Transfer(c)
      PROVE  \E p \in Payments : Lifecycle!Move(p)
  <2>1. PaymentOf(c) \in Payments /\ moved[PaymentOf(c)] < MaxCalls
    BY <1>1, <1>2, ConsumerType, MoveBounded DEF Transfer, TypeOK
  <2> QED BY <1>2, <2>1 DEF Transfer, Lifecycle!Move
<1>3. ASSUME NEW p \in Payments, LateTransfer(p)
      PROVE  Lifecycle!Move(p)
  BY <1>3, MoveBounded DEF LateTransfer, Lifecycle!Move
<1>4. ASSUME NEW c \in Consumers, pc[c] \in {"update", "cache", "publish"}
      PROVE  LET o == [payment |-> PaymentOf(c), status |-> final[c]] IN
               /\ o \in Lifecycle!Outcomes
               /\ o.status = "SUCCESS" => moved[o.payment] > 0
  BY <1>1, <1>4, ConsumerType DEF Knows, TypeOK
<1>5. ASSUME NEW c \in Consumers, UpdateStatus(c)
      PROVE  \E o \in Lifecycle!Outcomes : Lifecycle!Settle(o)
  <2> DEFINE o == [payment |-> PaymentOf(c), status |-> final[c]]
  <2>1. o \in Lifecycle!Outcomes /\ Lifecycle!Settle(o)
    BY <1>4, <1>5 DEF UpdateStatus, Lifecycle!Settle
  <2> QED BY <2>1
<1>6. ASSUME NEW c \in Consumers, CacheOutcome(c) \/ PublishResult(c)
      PROVE  [Lifecycle!Next]_(Lifecycle!vars)
  <2> DEFINE o == [payment |-> PaymentOf(c), status |-> final[c]]
  <2>1. /\ o \in Lifecycle!Outcomes /\ status[o.payment] # "PENDING"
        /\ o.status = "SUCCESS" => moved[o.payment] > 0
    BY <1>1, <1>4, <1>6 DEF CacheOutcome, PublishResult, Knows
  <2>2. UNCHANGED <<status, moved>> /\ (told' = told \cup {o} \/ told' = told)
    BY <1>6 DEF CacheOutcome, PublishResult, Tell
  <2> QED BY <2>1, <2>2 DEF Lifecycle!Tell
<1>7. \/ \E c \in Consumers : Transfer(c) \/ UpdateStatus(c) \/ CacheOutcome(c) \/ PublishResult(c)
      \/ \E p \in Payments : LateTransfer(p)
      \/ UNCHANGED <<status, moved, told>>
  BY DEF Next, ConsumerStep, Environment, Quiet, vars, FraudResult, Assign, CommitOffsets,
     ReadMessage, Lookup, Rejected, Send, AnswerOK, AnswerError, Answered, UpdateFails, Crash
<1> QED BY <1>2, <1>3, <1>5, <1>6, <1>7

LEMMA LifecycleInit == Init => Lifecycle!Init
BY DEF Init, Lifecycle!Init

LEMMA CountedInvariance == Spec => []Counted
<1>1. Inv /\ Counted /\ [Next]_vars => Counted'
  BY CountedInv
<1> QED BY <1>1, CountedInit, Invariance, PTL DEF Spec

(* Whatever is delivered twice, answered late, cut off by a crash or        *)
(* handled by two replicas at once, the money of a payment moves at most    *)
(* once for each approval and each time the partition was delivered.        *)
THEOREM ChargesBounded == Spec => []ChargedPerDelivery
<1>1. ASSUME Inv, Counted
      PROVE  ChargedPerDelivery
  <2> SUFFICES ASSUME NEW p \in Payments
               PROVE  moved[p] <= Cardinality(Approvals(p)) * (1 + crashes + rebalances)
    BY DEF ChargedPerDelivery
  <2> DEFINE most == Cardinality(Approvals(p)) * (1 + crashes + rebalances)
  <2>1. /\ moved[p] \in Nat /\ late[p] \in Nat /\ Cardinality(Approvals(p)) \in Nat
        /\ 1 + crashes + rebalances \in Nat
    <3>1. crashes \in Nat /\ rebalances \in Nat /\ position \in Nat
      BY <1>1, BoundsAssumption DEF Inv, TypeOK
    <3>2. TypeOK /\ moved[p] \in Nat /\ late[p] \in Nat
      BY <1>1 DEF Inv, TypeOK
    <3>3. Cardinality(Approvals(p)) \in Nat
      BY <3>1, <3>2, ApprovalsFinite
    <3> QED BY <3>1, <3>2, <3>3
  <2>2. most \in Nat
    BY <2>1, Times
  <2>3. Deliveries(p) \in Nat /\ Deliveries(p) <= most
    BY <1>1, DeliveriesBounded DEF Inv, Counted
  <2>4. Cardinality(Pending(p)) \in Nat /\ moved[p] + late[p] + Cardinality(Pending(p)) <= Deliveries(p)
    BY <1>1, FS_CardinalityType DEF Counted
  <2> HIDE DEF most
  <2>5. moved[p] <= most
    BY <2>1, <2>2, <2>3, <2>4
  <2> QED BY <2>5 DEF most
<1> QED BY <1>1, Invariance, CountedInvariance, PTL

(* The saga implements the life of a payment: it never becomes PENDING      *)
(* again, SUCCESS is recorded and told only after money has moved, nothing  *)
(* is told of a PENDING payment, and money moves at most once per delivery  *)
(* of a result.                                                             *)
THEOREM Refinement == Spec => ImplementsLifecycle
<1>1. Inv /\ Counted /\ [Next]_vars => [Lifecycle!Next]_(Lifecycle!vars)
  BY LifecycleStep
<1> QED BY <1>1, LifecycleInit, Invariance, CountedInvariance, PTL
        DEF Spec, ImplementsLifecycle, Lifecycle!Spec
=============================================================================
