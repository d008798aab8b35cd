--------------------------- MODULE PaymentLifecycle ---------------------------
(***************************************************************************)
(* What the payment service promises about a payment: it starts PENDING    *)
(* and never becomes PENDING again; SUCCESS is recorded, and told to the   *)
(* consumers of payment-events, only after its money has moved; they are   *)
(* told an outcome only once the payment has one.                          *)
(*                                                                         *)
(* It does not promise that money moves once, nor that FAILED means it did *)
(* not move, nor that an outcome is the last one: the code does not.       *)
(***************************************************************************)
EXTENDS Naturals

CONSTANTS Payments, MaxMoves

VARIABLES
  status,  \* per payment
  moved,   \* per payment: how often its money has moved
  told     \* the outcomes published

vars == <<status, moved, told>>

Outcomes == [payment : Payments, status : {"SUCCESS", "FAILED"}]

Init ==
  /\ status = [p \in Payments |-> "PENDING"]
  /\ moved = [p \in Payments |-> 0]
  /\ told = {}

Move(p) ==
  /\ moved[p] < MaxMoves
  /\ moved' = [moved EXCEPT ![p] = @ + 1]
  /\ UNCHANGED <<status, told>>

Settle(o) ==
  /\ o.status = "SUCCESS" => moved[o.payment] > 0
  /\ status' = [status EXCEPT ![o.payment] = o.status]
  /\ UNCHANGED <<moved, told>>

Tell(o) ==
  /\ status[o.payment] # "PENDING"
  /\ o.status = "SUCCESS" => moved[o.payment] > 0
  /\ told' = told \cup {o}
  /\ UNCHANGED <<status, moved>>

Next ==
  \/ \E p \in Payments : Move(p)
  \/ \E o \in Outcomes : Settle(o) \/ Tell(o)

Spec == Init /\ [][Next]_vars
=============================================================================
