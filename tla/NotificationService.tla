------------------------- MODULE NotificationService -------------------------
(***************************************************************************)
(* The notification service: a ConsumerGroup on payment-events, whose      *)
(* handler skips everything but the outcomes of payments and sends an SMS, *)
(* an e-mail and a webhook for each of those.  The topic is written by the *)
(* relay, which publishes PaymentCreated, and by a payment service that    *)
(* behaves as PaymentLifecycle says, whose announcements are the outcomes. *)
(*                                                                         *)
(* The senders are mocks: they log, and never fail.                        *)
(***************************************************************************)
EXTENDS Integers, Sequences

CONSTANTS
  Payments,
  Consumers,    \* replicas of the service
  NoConsumer,
  MaxMoves,     \* bound: transfers of a payment
  MaxEvents,    \* bound: messages in the partition
  MaxFaults     \* bound: replicas that end, partitions taken from a live one

ASSUME NoConsumerAssumption == NoConsumer \notin Consumers
ASSUME BoundsAssumption == {MaxMoves, MaxEvents, MaxFaults} \subseteq Nat

VARIABLES
  log, group,           \* the partition and the consumer group
  status, moved, told,  \* the payment service (PaymentLifecycle)
  sent,                 \* the messages sent, by outcome and channel
  used,                 \* per replica: how many channels its handler has used
  faults

payment == <<status, moved, told>>
vars    == <<log, group, payment, sent, used, faults>>

PaymentEvent == [payment : Payments, status : {"PENDING", "SUCCESS", "FAILED"}]
Channels     == <<"SMS", "e-mail", "webhook">>

PaymentService == INSTANCE PaymentLifecycle
Reader == INSTANCE ConsumerGroup WITH Messages <- PaymentEvent

-----------------------------------------------------------------------------
(* The topic's writers *)

(* The relay publishes PaymentCreated, which carries PENDING.               *)
Relay(p) ==
  /\ Len(log) < MaxEvents
  /\ Reader!Publish([payment |-> p, status |-> "PENDING"])
  /\ UNCHANGED <<group, payment, sent, used, faults>>

(* The payment service settles a payment, and publishes outcomes.           *)
Pay ==
  /\ \/ \E p \in Payments : PaymentService!Move(p) /\ UNCHANGED log
     \/ \E o \in PaymentService!Outcomes :
          \/ PaymentService!Settle(o) /\ UNCHANGED log
          \/ Len(log) < MaxEvents /\ PaymentService!Tell(o) /\ Reader!Publish(o)
  /\ UNCHANGED <<group, sent, used, faults>>

-----------------------------------------------------------------------------
(* The handler *)

Read(c) ==
  /\ Reader!Read(c)
  /\ UNCHANGED <<log, payment, sent, used, faults>>

(* Mutant: nothing is filtered out.                                         *)
EveryEvent(event) == TRUE

(* Only completed or failed payments are notified.                          *)
IsOutcome(event) == event.status \in {"SUCCESS", "FAILED"}

Skip(c) ==
  /\ Reader!Busy(c) /\ ~IsOutcome(Reader!Message(c))
  /\ Reader!Return(c, TRUE)
  /\ UNCHANGED <<log, payment, sent, used, faults>>

(* The next channel, in their order; an error would be ignored.             *)
Send(c) ==
  /\ Reader!Busy(c) /\ IsOutcome(Reader!Message(c))
  /\ used[c] < Len(Channels)
  /\ used' = [used EXCEPT ![c] = @ + 1]
  /\ sent' = sent \cup {[outcome |-> Reader!Message(c), channel |-> Channels[used'[c]]]}
  /\ UNCHANGED <<log, group, payment, faults>>

(* Mutant: the handler returns after its first message.                     *)
FinishEarly(c) ==
  /\ Reader!Busy(c) /\ used[c] > 0
  /\ Reader!Return(c, TRUE)
  /\ used' = [used EXCEPT ![c] = 0]
  /\ UNCHANGED <<log, payment, sent, faults>>

(* Mutant: the count is shared by the calls of the handler.                 *)
FinishWithoutReset(c) ==
  /\ Reader!Busy(c) /\ used[c] = Len(Channels)
  /\ Reader!Return(c, TRUE)
  /\ UNCHANGED <<log, payment, sent, used, faults>>

Finish(c) ==
  /\ Reader!Busy(c) /\ used[c] = Len(Channels)
  /\ Reader!Return(c, TRUE)
  /\ used' = [used EXCEPT ![c] = 0]
  /\ UNCHANGED <<log, payment, sent, faults>>

-----------------------------------------------------------------------------
(* The consumer group *)

FindOwner ==
  /\ group.owner = NoConsumer
  /\ \E c \in Consumers : Reader!Assign(c)
  /\ UNCHANGED <<log, payment, sent, used, faults>>

Fault == faults < MaxFaults /\ faults' = faults + 1

(* The partition moves from one replica to another, which both live.        *)
Rebalance ==
  /\ Fault
  /\ group.owner # NoConsumer
  /\ \E c \in Consumers : Reader!Assign(c)
  /\ UNCHANGED <<log, payment, sent, used>>

(* A replica crashes or is shut down.                                       *)
End(c) ==
  /\ Fault
  /\ Reader!Crash(c) \/ Reader!ShutDown(c)
  /\ used' = [used EXCEPT ![c] = 0]
  /\ UNCHANGED <<log, payment, sent>>

-----------------------------------------------------------------------------

Init ==
  /\ Reader!Init
  /\ PaymentService!Init
  /\ sent = {}
  /\ used = [c \in Consumers |-> 0]
  /\ faults = 0

Handle(c) == Read(c) \/ Skip(c) \/ Send(c) \/ Finish(c)

Next ==
  \/ Pay \/ FindOwner \/ Rebalance
  \/ \E p \in Payments : Relay(p)
  \/ \E c \in Consumers : Handle(c) \/ End(c)

Spec == Init /\ [][Next]_vars

(* The partition finds an owner; every replica's loop and its handler run.  *)
FairSpec ==
  /\ Spec
  /\ WF_vars(FindOwner)
  /\ \A c \in Consumers : WF_vars(Handle(c))

-----------------------------------------------------------------------------
(* Properties *)

(* The shape of the state; a replica has used a channel only for the        *)
(* outcome in its handler.                                                  *)
TypeOK ==
  /\ Reader!GroupOK
  /\ sent \subseteq [outcome : PaymentEvent, channel : {"SMS", "e-mail", "webhook"}]
  /\ used \in [Consumers -> 0..Len(Channels)]
  /\ faults \in 0..MaxFaults
  /\ \A c \in Consumers :
       used[c] > 0 => Reader!Busy(c) /\ IsOutcome(Reader!Message(c))

(* However the events of payments are interleaved and delivered again, a    *)
(* customer or merchant is told that a payment succeeded only if its money  *)
(* has moved, and nothing at all of a payment that is not settled.          *)
NotifiedIsTrue ==
  \A m \in sent :
    /\ status[m.outcome.payment] # "PENDING"
    /\ m.outcome.status = "SUCCESS" => moved[m.outcome.payment] > 0

Notified(outcome) ==
  \A i \in DOMAIN Channels : [outcome |-> outcome, channel |-> Channels[i]] \in sent

(* An outcome that no replica will read again has gone out on all three     *)
(* channels, is in some replica's handler, or was in the handler of one     *)
(* that ended after the offset had been committed.                          *)
NoneForgotten ==
  LET gone == 1..(IF group.owner = NoConsumer THEN group.committed ELSE group.position) IN
    \A i \in gone :
      IsOutcome(log[i]) => \/ Notified(log[i])
                           \/ i \in group.failed
                           \/ \E c \in Consumers : group.hand[c] = i

(* A published outcome goes out on all channels at last, unless a replica   *)
(* ended with it in its handler after its offset was committed.             *)
NotifiedUnlessLost ==
  \A o \in PaymentService!Outcomes :
    o \in told ~> Notified(o) \/ \E i \in group.failed : log[i] = o
=============================================================================
