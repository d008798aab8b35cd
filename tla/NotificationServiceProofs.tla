----------------------- MODULE NotificationServiceProofs -----------------------
(***************************************************************************)
(* Theorems of NotificationService, for any number of payments, replicas,  *)
(* messages, crashes, shutdowns and rebalances.  What they need of the     *)
(* consumer group is proved in ConsumerGroupProofs.                        *)
(***************************************************************************)
EXTENDS NotificationService, TLAPS

GroupFacts == INSTANCE ConsumerGroupProofs WITH Messages <- PaymentEvent

(* The payment has the outcome that is told of it, or has had it.           *)
True(outcome) ==
  /\ status[outcome.payment] # "PENDING"
  /\ outcome.status = "SUCCESS" => moved[outcome.payment] > 0

(* Whatever the topic says of an outcome is true.                           *)
TopicIsTrue == \A i \in DOMAIN log : IsOutcome(log[i]) => True(log[i])

PaymentsOK ==
  /\ status \in [Payments -> {"PENDING", "SUCCESS", "FAILED"}]
  /\ moved \in [Payments -> Nat]

(* A handler that has used k channels has sent its outcome on the first k.  *)
HalfSent(c) ==
  Reader!Busy(c) /\ IsOutcome(Reader!Message(c)) =>
    \A i \in 1..used[c] : [outcome |-> Reader!Message(c), channel |-> Channels[i]] \in sent

(* Where a handler has returned, its outcome has gone out on all channels.  *)
DoneNotified ==
  \A i \in group.done : i \in DOMAIN log /\ (IsOutcome(log[i]) => Notified(log[i]))

Inv ==
  /\ TypeOK
  /\ GroupFacts!Inv
  /\ PaymentsOK
  /\ TopicIsTrue
  /\ NotifiedIsTrue
  /\ \A c \in Consumers : HalfSent(c)
  /\ DoneNotified

-----------------------------------------------------------------------------

LEMMA GroupFields ==
  ASSUME Reader!GroupOK
  PROVE  /\ log \in Seq(PaymentEvent) /\ Len(log) \in Nat /\ DOMAIN log = 1..Len(log)
         /\ group.owner \in Consumers \cup {NoConsumer}
         /\ group.position \in Nat /\ group.committed \in Nat
         /\ group.hand \in [Consumers -> Nat]
         /\ group.done \in SUBSET Nat /\ group.failed \in SUBSET Nat
         /\ group.position <= Len(log) /\ group.committed <= group.position
         /\ \A c \in Consumers : group.hand[c] \in Nat /\ group.hand[c] <= Len(log)
         /\ group = [owner |-> group.owner, position |-> group.position,
                     committed |-> group.committed, hand |-> group.hand,
                     done |-> group.done, failed |-> group.failed,
                     moves |-> group.moves]
BY DEF Reader!GroupOK, Reader!Group

(* Every step is one of the group, of a producer, or of neither.            *)
LEMMA GroupSteps ==
  ASSUME [Next]_vars
  PROVE  [GroupFacts!Next]_(GroupFacts!groupVars)
<1> USE DEF GroupFacts!Next, GroupFacts!groupVars, GroupFacts!Step
<1>1. ASSUME NEW c \in Consumers, Reader!Assign(c) \/ Read(c) \/ Skip(c) \/ Finish(c) \/ End(c),
             UNCHANGED log
      PROVE  GroupFacts!Next
  <2>1. CASE Reader!Assign(c)
    BY <1>1, <2>1 DEF Reader!Assign, Reader!Flushed, GroupFacts!Assign, GroupFacts!Flushed
  <2>2. CASE Read(c)
    BY <1>1, <2>2 DEF Read, Reader!Read, Reader!Busy, GroupFacts!Read, GroupFacts!Busy
  <2>3. CASE Skip(c) \/ Finish(c)
    BY <1>1, <2>3 DEF Skip, Finish, Reader!Return, Reader!Busy, GroupFacts!Return, GroupFacts!Busy
  <2>4. CASE End(c)
    BY <1>1, <2>4 DEF End, Reader!Crash, Reader!ShutDown, Reader!Stop, Reader!Flushed,
       Reader!Busy, GroupFacts!Crash, GroupFacts!ShutDown, GroupFacts!Stop,
       GroupFacts!Flushed, GroupFacts!Busy
  <2> QED BY <1>1, <2>1, <2>2, <2>3, <2>4
<1>2. ASSUME Rebalance \/ FindOwner
      PROVE  GroupFacts!Next
  BY <1>1, <1>2 DEF Rebalance, FindOwner
<1>3. ASSUME NEW p \in Payments, Relay(p)
      PROVE  GroupFacts!Next
  <2>1. [payment |-> p, status |-> "PENDING"] \in PaymentEvent
    BY DEF PaymentEvent
  <2> QED BY <1>3, <2>1 DEF Relay, Reader!Publish, GroupFacts!Publish
<1>4. ASSUME Pay
      PROVE  GroupFacts!Next
  <2>1. PaymentService!Outcomes \subseteq PaymentEvent
    BY DEF PaymentService!Outcomes, PaymentEvent
  <2> QED BY <1>4, <2>1 DEF Pay, Reader!Publish, GroupFacts!Publish
<1>5. ASSUME NEW c \in Consumers, Send(c)
      PROVE  UNCHANGED <<log, group>>
  BY <1>5 DEF Send
<1>6. CASE \E c \in Consumers : Handle(c) \/ End(c)
  BY <1>1, <1>5, <1>6 DEF Handle, Read, Skip, Finish, End
<1> QED BY <1>2, <1>3, <1>4, <1>6 DEF Next, vars

LEMMA GroupStep ==
  ASSUME Inv, [Next]_vars
  PROVE  GroupFacts!Inv' /\ Reader!GroupOK'
<1>1. [GroupFacts!Next]_(GroupFacts!groupVars)
  BY GroupSteps
<1>2. GroupFacts!Inv'
  BY <1>1, NoConsumerAssumption, GroupFacts!NextInv DEF Inv
<1>3. GroupFacts!GroupOK' => Reader!GroupOK'
  BY DEF GroupFacts!GroupOK, GroupFacts!Group, Reader!GroupOK, Reader!Group
<1> QED BY <1>2, <1>3 DEF GroupFacts!Inv

-----------------------------------------------------------------------------
(* What no step takes back *)

LEMMA Monotone ==
  ASSUME Inv, [Next]_vars
  PROVE  /\ PaymentsOK'
         /\ \A o \in PaymentEvent : True(o) => True(o)'
         /\ sent \subseteq sent'
         /\ \A i \in DOMAIN log : i \in DOMAIN log' /\ log'[i] = log[i]
<1>1. PaymentsOK /\ log \in Seq(PaymentEvent)
  BY GroupFields DEF Inv, TypeOK
<1> DEFINE Kept     == PaymentsOK' /\ \A o \in PaymentEvent : True(o) => True(o)'
           Appended == \A i \in DOMAIN log : i \in DOMAIN log' /\ log'[i] = log[i]
<1>2. UNCHANGED payment => Kept
  BY <1>1 DEF payment, PaymentsOK, True
<1>3. UNCHANGED log => Appended
  OBVIOUS
<1>4. ASSUME NEW e, Reader!Publish(e)
      PROVE  Appended
  BY <1>1, <1>4 DEF Reader!Publish
<1>5. ASSUME NEW p \in Payments, PaymentService!Move(p)
      PROVE  Kept
  BY <1>1, <1>5 DEF PaymentService!Move, PaymentsOK, True, PaymentEvent
<1>6. ASSUME NEW o \in PaymentService!Outcomes, PaymentService!Settle(o)
      PROVE  Kept
  BY <1>1, <1>6 DEF PaymentService!Settle, PaymentService!Outcomes, PaymentsOK, True, PaymentEvent
<1>7. ASSUME NEW o \in PaymentService!Outcomes, PaymentService!Tell(o)
      PROVE  Kept
  BY <1>1, <1>7 DEF PaymentService!Tell, PaymentsOK, True
<1>8. sent \subseteq sent'
  BY DEF Next, Pay, Relay, FindOwner, Rebalance, Handle, Read, Skip, Send, Finish, End, vars
<1> SUFFICES Kept /\ Appended
  BY <1>8
<1> HIDE DEF Kept, Appended
<1>9. CASE Pay
  <2>1. Kept
    BY <1>5, <1>6, <1>7, <1>9 DEF Pay
  <2>2. Appended
    BY <1>3, <1>4, <1>9 DEF Pay
  <2> QED BY <2>1, <2>2
<1>10. CASE \E p \in Payments : Relay(p)
  BY <1>2, <1>4, <1>10 DEF Relay
<1>11. CASE FindOwner \/ Rebalance
  BY <1>2, <1>3, <1>11 DEF FindOwner, Rebalance
<1>12. CASE \E c \in Consumers : Handle(c) \/ End(c)
  BY <1>2, <1>3, <1>12 DEF Handle, Read, Skip, Send, Finish, End
<1>13. CASE UNCHANGED vars
  BY <1>2, <1>3, <1>13 DEF vars
<1> QED BY <1>9, <1>10, <1>11, <1>12, <1>13 DEF Next

-----------------------------------------------------------------------------
(* The handlers *)

(* What the steps do to the messages in the handlers and to those handled.  *)
LEMMA HandsStep ==
  ASSUME TypeOK, NEW c \in Consumers
  PROVE  /\ Reader!Assign(c) => group'.hand = group.hand /\ group'.done = group.done
         /\ Read(c) => /\ group.hand[c] = 0 /\ group'.done = group.done
                       /\ group'.hand = [group.hand EXCEPT ![c] = group.position + 1]
         /\ Skip(c) \/ Finish(c) => /\ group'.done = group.done \cup {group.hand[c]}
                                    /\ group'.hand = [group.hand EXCEPT ![c] = 0]
         /\ End(c) => /\ group'.done = group.done
                      /\ group'.hand = [group.hand EXCEPT ![c] = 0]
<1>1. Reader!GroupOK
  BY DEF TypeOK
<1>2. Reader!Assign(c) => group'.hand = group.hand /\ group'.done = group.done
  BY <1>1, GroupFields DEF Reader!Assign
<1>3. Read(c) => /\ group.hand[c] = 0 /\ group'.done = group.done
                 /\ group'.hand = [group.hand EXCEPT ![c] = group.position + 1]
  BY <1>1, GroupFields DEF Read, Reader!Read, Reader!Busy
<1>4. Skip(c) \/ Finish(c) => /\ group'.done = group.done \cup {group.hand[c]}
                              /\ group'.hand = [group.hand EXCEPT ![c] = 0]
  BY <1>1, GroupFields DEF Skip, Finish, Reader!Return
<1>5. ASSUME NEW offset, Reader!Stop(c, offset)
      PROVE  /\ group'.done = group.done
             /\ group'.hand = [group.hand EXCEPT ![c] = 0]
  BY <1>1, <1>5, GroupFields DEF Reader!Stop
<1>6. End(c) => /\ group'.done = group.done
                /\ group'.hand = [group.hand EXCEPT ![c] = 0]
  BY <1>5 DEF End, Reader!Crash, Reader!ShutDown
<1> QED BY <1>2, <1>3, <1>4, <1>6

(* A replica whose message and count stay as they are.                      *)
LEMMA HandlerKept ==
  ASSUME Inv, [Next]_vars, NEW c \in Consumers,
         group'.hand[c] = group.hand[c], used'[c] = used[c]
  PROVE  /\ HalfSent(c)'
         /\ used'[c] > 0 => (Reader!Busy(c) /\ IsOutcome(Reader!Message(c)))'
<1>1. group.hand[c] # 0 => group.hand[c] \in DOMAIN log
  BY GroupFields DEF Inv, TypeOK
<1>2. Reader!Busy(c) => (Reader!Message(c))' = Reader!Message(c)
  BY <1>1, Monotone DEF Reader!Busy, Reader!Message
<1>3. Reader!Busy(c)' <=> Reader!Busy(c)
  BY DEF Reader!Busy
<1>4. HalfSent(c)'
  BY <1>2, <1>3, Monotone DEF Inv, HalfSent
<1>5. used[c] > 0 => Reader!Busy(c) /\ IsOutcome(Reader!Message(c))
  BY DEF Inv, TypeOK
<1> QED BY <1>2, <1>3, <1>4, <1>5 DEF IsOutcome

(* A replica whose handler has just been given a message, or has none.      *)
LEMMA HandlerFresh ==
  ASSUME NEW c \in Consumers, used'[c] = 0
  PROVE  /\ HalfSent(c)'
         /\ used'[c] > 0 => (Reader!Busy(c) /\ IsOutcome(Reader!Message(c)))'
BY DEF HalfSent

LEMMA HandlerInv ==
  ASSUME Inv, [Next]_vars, NEW d \in Consumers
  PROVE  /\ used' \in [Consumers -> 0..Len(Channels)]
         /\ HalfSent(d)'
         /\ used'[d] > 0 => (Reader!Busy(d) /\ IsOutcome(Reader!Message(d)))'
<1>1. TypeOK /\ used \in [Consumers -> 0..3] /\ Len(Channels) = 3
  BY DEF Inv, TypeOK, Channels
<1>2. group.hand \in [Consumers -> Nat]
  BY <1>1, GroupFields DEF TypeOK
<1>3. ASSUME NEW c \in Consumers, Reader!Assign(c), UNCHANGED used
      PROVE  group'.hand = group.hand
  BY <1>1, <1>3, HandsStep
<1>4. CASE UNCHANGED used /\ group'.hand = group.hand
  BY <1>1, <1>4, HandlerKept
<1>5. ASSUME NEW c \in Consumers, Read(c)
      PROVE  /\ UNCHANGED used /\ used[c] = 0
             /\ \A e \in Consumers \ {c} : group'.hand[e] = group.hand[e]
  <2>1. ~Reader!Busy(c) /\ UNCHANGED used
    BY <1>5 DEF Read, Reader!Read
  <2>2. used[c] = 0
    BY <1>1, <2>1 DEF TypeOK
  <2>3. group'.hand = [group.hand EXCEPT ![c] = group.position + 1]
    BY <1>1, <1>5, HandsStep
  <2> QED BY <1>2, <2>1, <2>2, <2>3
<1>6. ASSUME NEW c \in Consumers, Skip(c) \/ Finish(c) \/ End(c)
      PROVE  /\ used' \in [Consumers -> 0..3] /\ used'[c] = 0
             /\ \A e \in Consumers \ {c} : used'[e] = used[e] /\ group'.hand[e] = group.hand[e]
  <2>1. Skip(c) => used[c] = 0 /\ used' = used
    BY <1>1 DEF Skip, TypeOK
  <2>2. Finish(c) \/ End(c) => used' = [used EXCEPT ![c] = 0]
    BY DEF Finish, End
  <2>3. group'.hand = [group.hand EXCEPT ![c] = 0]
    BY <1>1, <1>6, HandsStep
  <2> QED BY <1>1, <1>2, <1>6, <2>1, <2>2, <2>3
<1>7. ASSUME NEW c \in Consumers, Send(c)
      PROVE  /\ used' \in [Consumers -> 0..3] /\ HalfSent(c)'
             /\ (Reader!Busy(c) /\ IsOutcome(Reader!Message(c)))'
             /\ \A e \in Consumers \ {c} : used'[e] = used[e] /\ group'.hand[e] = group.hand[e]
  <2>1. /\ Reader!Busy(c) /\ IsOutcome(Reader!Message(c)) /\ used[c] < 3
        /\ used' = [used EXCEPT ![c] = used[c] + 1]
        /\ sent' = sent \cup {[outcome |-> Reader!Message(c), channel |-> Channels[used'[c]]]}
        /\ UNCHANGED <<log, group>>
    BY <1>1, <1>7 DEF Send
  <2>2. /\ used[c] \in 0..3 /\ used'[c] = used[c] + 1
        /\ \A e \in Consumers \ {c} : used'[e] = used[e]
    BY <1>1, <2>1
  <2>3. Reader!Busy(c)' = Reader!Busy(c) /\ Reader!Message(c)' = Reader!Message(c)
    BY <2>1 DEF Reader!Busy, Reader!Message
  <2>4. ASSUME NEW i \in 1..used'[c]
        PROVE  [outcome |-> Reader!Message(c), channel |-> Channels[i]] \in sent'
    <3>1. i \in 1..used[c] \/ i = used'[c]
      BY <2>2
    <3>2. i \in 1..used[c] => [outcome |-> Reader!Message(c), channel |-> Channels[i]] \in sent
      BY <2>1 DEF Inv, HalfSent
    <3> QED BY <2>1, <3>1, <3>2
  <2>5. HalfSent(c)'
    BY <2>3, <2>4 DEF HalfSent
  <2>6. used' \in [Consumers -> 0..3]
    BY <1>1, <2>1, <2>2
  <2> QED BY <2>1, <2>2, <2>3, <2>5, <2>6 DEF IsOutcome
<1>8. CASE \E c \in Consumers : Read(c)
  BY <1>1, <1>5, <1>8, HandlerKept, HandlerFresh
<1>9. CASE \E c \in Consumers : Skip(c) \/ Finish(c) \/ End(c)
  BY <1>1, <1>6, <1>9, HandlerKept, HandlerFresh
<1>10. CASE \E c \in Consumers : Send(c)
  BY <1>1, <1>7, <1>10, HandlerKept
<1>11. \/ UNCHANGED used /\ group'.hand = group.hand
       \/ \E c \in Consumers : Handle(c) \/ End(c)
  BY <1>3 DEF Next, Pay, Relay, FindOwner, Rebalance, vars
<1> QED BY <1>4, <1>8, <1>9, <1>10, <1>11 DEF Handle

-----------------------------------------------------------------------------
(* The parts of the invariant *)

LEMMA TypeInv ==
  ASSUME Inv, [Next]_vars
  PROVE  TypeOK'
<1>1. Reader!GroupOK' /\ TypeOK
  BY GroupStep DEF Inv
<1>2. faults' \in 0..MaxFaults
  <2>1. faults' = faults \/ Fault
    BY DEF Next, Pay, Relay, FindOwner, Rebalance, Handle, Read, Skip, Send, Finish, End, vars
  <2>2. faults \in 0..MaxFaults
    BY <1>1 DEF TypeOK
  <2>3. \A n \in 0..MaxFaults : n < MaxFaults => n + 1 \in 0..MaxFaults
    BY BoundsAssumption
  <2> QED BY <2>1, <2>2, <2>3 DEF Fault
<1>3. used' \in [Consumers -> 0..Len(Channels)]
  <2>1. CASE Consumers = {}
    BY <1>1, <2>1 DEF TypeOK, Next, Pay, Relay, FindOwner, Rebalance, vars
  <2>2. CASE Consumers # {}
    BY <2>2, HandlerInv
  <2> QED BY <2>1, <2>2
<1>4. sent' \subseteq [outcome : PaymentEvent, channel : {"SMS", "e-mail", "webhook"}]
  <2>1. ASSUME NEW c \in Consumers, Send(c)
        PROVE  sent' \subseteq [outcome : PaymentEvent, channel : {"SMS", "e-mail", "webhook"}]
    <3>1. Reader!Message(c) \in PaymentEvent
      BY <1>1, <2>1, GroupFields DEF TypeOK, Send, Reader!Busy, Reader!Message
    <3>2. used'[c] \in 1..3
      BY <1>1, <2>1 DEF TypeOK, Send, Channels
    <3>3. Channels[used'[c]] \in {"SMS", "e-mail", "webhook"}
      BY <3>2 DEF Channels
    <3> QED BY <1>1, <2>1, <3>1, <3>3 DEF Send, TypeOK
  <2>2. \/ \E c \in Consumers : Send(c)
        \/ UNCHANGED sent
    BY DEF Next, Pay, Relay, FindOwner, Rebalance, Handle, Read, Skip, Finish, End, vars
  <2> QED BY <1>1, <2>1, <2>2 DEF TypeOK
<1>5. \A c \in Consumers : used'[c] > 0 => (Reader!Busy(c) /\ IsOutcome(Reader!Message(c)))'
  BY HandlerInv
<1> QED BY <1>1, <1>2, <1>3, <1>4, <1>5 DEF TypeOK

LEMMA TopicInv ==
  ASSUME Inv, [Next]_vars
  PROVE  TopicIsTrue'
<1>1. log \in Seq(PaymentEvent) /\ TopicIsTrue
  BY GroupFields DEF Inv, TypeOK
<1>2. CASE UNCHANGED log
  <2> SUFFICES ASSUME NEW i \in DOMAIN log, NEW o, o = log[i], IsOutcome(o)
               PROVE  True(o)'
    BY <1>2 DEF TopicIsTrue, IsOutcome, True
  <2>1. o \in PaymentEvent /\ True(o)
    BY <1>1 DEF TopicIsTrue
  <2> QED BY <2>1, Monotone
<1>3. ASSUME NEW e \in PaymentEvent, Reader!Publish(e), IsOutcome(e) => True(e)'
      PROVE  TopicIsTrue'
  <2> SUFFICES ASSUME NEW i \in DOMAIN log', NEW o, o = log'[i], IsOutcome(o)
               PROVE  True(o)'
    BY DEF TopicIsTrue, IsOutcome, True
  <2>1. CASE i \in DOMAIN log
    <3>1. o = log[i] /\ o \in PaymentEvent
      BY <1>1, <2>1, Monotone
    <3>2. True(o)
      BY <1>1, <2>1, <3>1 DEF TopicIsTrue
    <3> QED BY <3>1, <3>2, Monotone
  <2>2. CASE i \notin DOMAIN log
    <3>1. o = e
      BY <1>1, <1>3, <2>2 DEF Reader!Publish
    <3> QED BY <1>3, <3>1
  <2> QED BY <2>1, <2>2
<1>4. ASSUME NEW p \in Payments, Relay(p)
      PROVE  TopicIsTrue'
  <2> DEFINE e == [payment |-> p, status |-> "PENDING"]
  <2>1. e \in PaymentEvent /\ ~IsOutcome(e) /\ Reader!Publish(e)
    BY <1>4 DEF Relay, PaymentEvent, IsOutcome
  <2> QED BY <1>3, <2>1
<1>5. ASSUME NEW o \in PaymentService!Outcomes, PaymentService!Tell(o), Reader!Publish(o)
      PROVE  TopicIsTrue'
  <2>1. o \in PaymentEvent /\ True(o)'
    BY <1>5 DEF PaymentService!Outcomes, PaymentService!Tell, PaymentEvent, True
  <2> QED BY <1>3, <1>5, <2>1
<1>6. \/ UNCHANGED log
      \/ \E p \in Payments : Relay(p)
      \/ \E o \in PaymentService!Outcomes : PaymentService!Tell(o) /\ Reader!Publish(o)
  BY DEF Next, Pay, FindOwner, Rebalance, Handle, Read, Skip, Send, Finish, End, vars
<1> QED BY <1>2, <1>4, <1>5, <1>6

LEMMA NotifiedInv ==
  ASSUME Inv, [Next]_vars
  PROVE  NotifiedIsTrue'
<1>1. TypeOK /\ NotifiedIsTrue /\ TopicIsTrue
  BY DEF Inv
<1>2. ASSUME NEW m \in sent
      PROVE  True(m.outcome)'
  <2>1. m.outcome \in PaymentEvent
    BY <1>1 DEF TypeOK
  <2>2. True(m.outcome)
    BY <1>1 DEF NotifiedIsTrue, True
  <2> QED BY <2>1, <2>2, Monotone
<1>3. ASSUME NEW c \in Consumers, Send(c), NEW m \in sent', m \notin sent
      PROVE  True(m.outcome)'
  <2>1. m.outcome = Reader!Message(c)
    BY <1>3 DEF Send
  <2>2. group.hand[c] \in DOMAIN log /\ Reader!Message(c) = log[group.hand[c]]
    BY <1>1, <1>3, GroupFields DEF Send, Reader!Busy, Reader!Message, TypeOK
  <2>3. m.outcome \in PaymentEvent /\ True(m.outcome)
    BY <1>1, <1>3, <2>1, <2>2, GroupFields DEF Send, TopicIsTrue, TypeOK
  <2> QED BY <2>3, Monotone
<1>4. \/ \E c \in Consumers : Send(c)
      \/ UNCHANGED sent
  BY DEF Next, Pay, Relay, FindOwner, Rebalance, Handle, Read, Skip, Finish, End, vars
<1>5. \A m \in sent' : True(m.outcome)'
  BY <1>2, <1>3, <1>4
<1> QED BY <1>5 DEF NotifiedIsTrue, True

LEMMA DoneInv ==
  ASSUME Inv, [Next]_vars
  PROVE  DoneNotified'
<1>1. TypeOK /\ DoneNotified
  BY DEF Inv
<1>2. ASSUME NEW i \in DOMAIN log, IsOutcome(log[i]) => Notified(log[i]), NEW o, o = log'[i]
      PROVE  i \in DOMAIN log' /\ (IsOutcome(o) => Notified(o)')
  <2>1. i \in DOMAIN log' /\ o = log[i]
    BY <1>2, Monotone
  <2>2. Notified(o) => Notified(o)'
    BY Monotone DEF Notified
  <2> QED BY <1>2, <2>1, <2>2
<1>3. ASSUME NEW c \in Consumers, Skip(c) \/ Finish(c)
      PROVE  /\ group.hand[c] \in DOMAIN log
             /\ IsOutcome(log[group.hand[c]]) => Notified(log[group.hand[c]])
  <2>1. Reader!Busy(c)
    BY <1>3 DEF Skip, Finish
  <2>2. group.hand[c] \in DOMAIN log /\ Reader!Message(c) = log[group.hand[c]]
    BY <1>1, <2>1, GroupFields DEF Reader!Busy, Reader!Message, TypeOK
  <2>3. CASE Skip(c)
    BY <2>2, <2>3 DEF Skip
  <2>4. CASE Finish(c) /\ IsOutcome(Reader!Message(c))
    <3>1. HalfSent(c) /\ used[c] = Len(Channels)
      BY <2>4 DEF Finish, Inv
    <3>2. \A i \in 1..Len(Channels) :
            [outcome |-> Reader!Message(c), channel |-> Channels[i]] \in sent
      BY <2>1, <2>4, <3>1 DEF HalfSent
    <3>3. DOMAIN Channels = 1..Len(Channels)
      BY DEF Channels
    <3> QED BY <2>2, <3>2, <3>3 DEF Notified
  <2> QED BY <1>3, <2>2, <2>3, <2>4
<1>4. \/ group'.done = group.done
      \/ \E c \in Consumers : (Skip(c) \/ Finish(c)) /\ group'.done = group.done \cup {group.hand[c]}
  <2>1. UNCHANGED group => group'.done = group.done
    OBVIOUS
  <2>2. ASSUME NEW c \in Consumers, Handle(c) \/ End(c)
        PROVE  \/ group'.done = group.done
               \/ (Skip(c) \/ Finish(c)) /\ group'.done = group.done \cup {group.hand[c]}
    BY <1>1, <2>1, <2>2, HandsStep DEF Handle, Send
  <2>3. FindOwner \/ Rebalance => group'.done = group.done
    BY <1>1, HandsStep DEF FindOwner, Rebalance
  <2>4. Pay \/ (\E p \in Payments : Relay(p)) \/ UNCHANGED vars => UNCHANGED group
    BY DEF Pay, Relay, vars
  <2> QED BY <2>1, <2>2, <2>3, <2>4 DEF Next
<1>5. ASSUME NEW i \in group'.done
      PROVE  i \in DOMAIN log /\ (IsOutcome(log[i]) => Notified(log[i]))
  BY <1>1, <1>3, <1>4, <1>5 DEF DoneNotified
<1>6. \A i \in group'.done : \A o : o = log'[i] =>
        i \in DOMAIN log' /\ (IsOutcome(o) => Notified(o)')
  BY <1>2, <1>5
<1> QED BY <1>6 DEF DoneNotified, Notified, IsOutcome

-----------------------------------------------------------------------------
(* The safety properties *)

LEMMA InitInv == Init => Inv
<1> SUFFICES ASSUME Init PROVE Inv
  OBVIOUS
<1>1. GroupFacts!Inv
  BY GroupFacts!InitInv DEF Init, Reader!Init, Reader!NewGroup, GroupFacts!Init, GroupFacts!NewGroup
<1>2. Reader!GroupOK
  BY <1>1 DEF GroupFacts!Inv, GroupFacts!GroupOK, GroupFacts!Group, Reader!GroupOK, Reader!Group
<1>3. log = <<>> /\ group.done = {} /\ sent = {} /\ used = [c \in Consumers |-> 0] /\ faults = 0
  BY DEF Init, Reader!Init, Reader!NewGroup
<1>4. TypeOK
  BY <1>2, <1>3, BoundsAssumption DEF TypeOK, Channels
<1>5. PaymentsOK
  BY DEF Init, PaymentService!Init, PaymentsOK
<1> QED BY <1>1, <1>3, <1>4, <1>5 DEF Inv, TopicIsTrue, NotifiedIsTrue, HalfSent, DoneNotified

LEMMA NextInv == Inv /\ [Next]_vars => Inv'
BY GroupStep, TypeInv, Monotone, TopicInv, NotifiedInv, HandlerInv, DoneInv DEF Inv

LEMMA Invariance == Spec => []Inv
BY InitInv, NextInv, PTL DEF Spec

(* The outcome is in the topic.                                             *)
Announced(o) == \E i \in DOMAIN log : log[i] = o

(* An outcome that was announced has a message whose outcome was sent on    *)
(* all channels, or which was lost with a handler, is in one, or is unread. *)
AnnouncedUnderway ==
  \A o \in told : \E i \in DOMAIN log :
    /\ log[i] = o
    /\ \/ Notified(o)
       \/ i \in group.failed
       \/ \E c \in Consumers : group.hand[c] = i
       \/ i > IF group.owner = NoConsumer THEN group.committed ELSE group.position

LEMMA AnnouncedInv ==
  ASSUME Inv, [Next]_vars, \A o \in told : IsOutcome(o) /\ Announced(o)
  PROVE  \A o \in told' : IsOutcome(o) /\ Announced(o)'
<1>1. log \in Seq(PaymentEvent)
  BY GroupFields DEF Inv, TypeOK
<1>2. \A o \in told : IsOutcome(o) /\ Announced(o)'
  BY Monotone DEF Announced
<1>3. ASSUME NEW o \in PaymentService!Outcomes, PaymentService!Tell(o), Reader!Publish(o)
      PROVE  told' = told \cup {o} /\ IsOutcome(o) /\ Announced(o)'
  <2>1. log' = Append(log, o) /\ Len(log) + 1 \in DOMAIN log' /\ log'[Len(log) + 1] = o
    BY <1>1, <1>3 DEF Reader!Publish
  <2> QED BY <1>3, <2>1 DEF PaymentService!Tell, PaymentService!Outcomes, IsOutcome, Announced
<1>4. \/ UNCHANGED told
      \/ \E o \in PaymentService!Outcomes : PaymentService!Tell(o) /\ Reader!Publish(o)
  BY DEF Next, Pay, PaymentService!Move, PaymentService!Settle, Relay, FindOwner, Rebalance,
     Handle, Read, Skip, Send, Finish, End, payment, vars
<1> QED BY <1>2, <1>3, <1>4

(* Type correctness of the service and of its consumer group.               *)
THEOREM TypeCorrect == Spec => []TypeOK
<1>1. Inv => TypeOK
  BY DEF Inv
<1> QED BY <1>1, Invariance, PTL

(* Nobody is told of a success whose money has not moved, nor of a payment  *)
(* that is not settled, with any payment service that behaves as            *)
(* PaymentLifecycle says.                                                   *)
THEOREM NotificationsTrue == Spec => []NotifiedIsTrue
<1>1. Inv => NotifiedIsTrue
  BY DEF Inv
<1> QED BY <1>1, Invariance, PTL

(* An outcome that is not going to be read again has been sent on all       *)
(* channels, is in a handler, or was lost with one.                         *)
THEOREM OutcomesNotForgotten == Spec => []NoneForgotten
<1>1. ASSUME Inv
      PROVE  NoneForgotten
  <2>1. GroupFacts!NothingSkipped
    BY <1>1, GroupFacts!SkipsNothing DEF Inv
  <2> QED BY <1>1, <2>1 DEF GroupFacts!NothingSkipped, GroupFacts!Seen, NoneForgotten, Inv,
          DoneNotified
<1> QED BY <1>1, Invariance, PTL

(* What liveness rests on: an outcome that the payment service announced is *)
(* never forgotten half-way: it has gone out on all channels, was lost with *)
(* a replica's handler, is in a handler, or is still to be read.            *)
THEOREM NoneSilent == Spec => []AnnouncedUnderway
<1> DEFINE AllAnnounced == \A o \in told : IsOutcome(o) /\ Announced(o)
<1>1. Init => AllAnnounced
  BY DEF Init, PaymentService!Init
<1>2. Inv /\ AllAnnounced /\ [Next]_vars => AllAnnounced'
  BY AnnouncedInv
<1>3. ASSUME Inv, AllAnnounced
      PROVE  AnnouncedUnderway
  <2> SUFFICES ASSUME NEW o \in told, NEW i \in DOMAIN log, log[i] = o,
                      i <= IF group.owner = NoConsumer THEN group.committed ELSE group.position
               PROVE  \/ Notified(o) \/ i \in group.failed
                      \/ \E c \in Consumers : group.hand[c] = i
    BY <1>3, GroupFields DEF AnnouncedUnderway, Announced, Inv, TypeOK
  <2>1. IsOutcome(o)
    BY <1>3 DEF IsOutcome
  <2>2. GroupFacts!NothingSkipped
    BY <1>3, GroupFacts!SkipsNothing DEF Inv
  <2>3. i \in 1..(IF group.owner = NoConsumer THEN group.committed ELSE group.position)
    BY <1>3, GroupFields DEF Inv, TypeOK
  <2> QED BY <1>3, <2>1, <2>2, <2>3 DEF GroupFacts!NothingSkipped, GroupFacts!Seen, Inv,
          DoneNotified
<1> QED BY <1>1, <1>2, <1>3, Invariance, PTL DEF Spec

(* The module joins two components that have specifications of their own;   *)
(* whatever their joint steps do, each of the two does only what its own    *)
(* specification allows: so what is proved of a consumer group and of       *)
(* PaymentLifecycle holds here.                                             *)
THEOREM BothComponents == Spec => Reader!Spec /\ PaymentService!Spec
<1>1. Init => Reader!Init /\ PaymentService!Init
  BY DEF Init
<1>2. [Next]_vars => [Reader!Next]_(Reader!groupVars)
  <2>1. GroupFacts!Step <=> Reader!Step
    BY DEF GroupFacts!Step, GroupFacts!Assign, GroupFacts!Read, GroupFacts!Return,
       GroupFacts!Crash, GroupFacts!ShutDown, GroupFacts!Stop, GroupFacts!Flushed,
       GroupFacts!Busy, Reader!Step, Reader!Assign, Reader!Read, Reader!Return, Reader!Crash,
       Reader!ShutDown, Reader!Stop, Reader!Flushed, Reader!Busy
  <2>2. GroupFacts!Next <=> Reader!Next
    BY <2>1 DEF GroupFacts!Next, GroupFacts!Publish, Reader!Next, Reader!Publish
  <2> QED BY <2>2, GroupSteps DEF GroupFacts!groupVars, Reader!groupVars
<1>3. [Next]_vars => [PaymentService!Next]_(PaymentService!vars)
  BY DEF Next, Pay, Relay, FindOwner, Rebalance, Handle, Read, Skip, Send, Finish, End, vars,
     payment, PaymentService!Next, PaymentService!vars
<1> QED BY <1>1, <1>2, <1>3, PTL DEF Spec, Reader!Spec, PaymentService!Spec
=============================================================================
