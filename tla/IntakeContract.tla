---------------------------- MODULE IntakeContract ----------------------------
(***************************************************************************)
(* What POST /payments promises its clients.  An idempotency key has one   *)
(* payment at most; its parameters never change, and its status never goes *)
(* back to PENDING.  (It may change from one final status to the other:    *)
(* the contract does not promise a single outcome.)  An answer 201 names   *)
(* the payment of the request's key, in a status that it has or has had.   *)
(* It is about the parameters the request asks for, unless it comes from   *)
(* the cache; "created" is answered to one request alone, the one that     *)
(* made the payment.                                                       *)
(*                                                                         *)
(* A refusal says nothing: the request may have made a payment.  Only "the *)
(* key was used with other parameters" means that the key has one.         *)
(***************************************************************************)
CONSTANTS
  Handlers,   \* requests
  Keys,
  Bodies,     \* what a request may ask for, once validated and rounded
  NoBody, NoPayment

VARIABLES
  book,       \* the payment of each key
  past,       \* the statuses it has had
  asked,      \* per request: its body
  reply       \* per request: what the client was told, and of which payment

vars == <<book, past, asked, reply>>

Refusals == {"invalid", "in_flight", "conflict", "parameters", "failed"}
NoReply  == [kind |-> "none", payment |-> NoPayment]

Init ==
  /\ book = [k \in Keys |-> NoPayment]
  /\ past = [k \in Keys |-> {}]
  /\ asked = [h \in Handlers |-> NoBody]
  /\ reply = [h \in Handlers |-> NoReply]

Reply(h, kind, payment) ==
  reply' = [reply EXCEPT ![h] = [kind |-> kind, payment |-> payment]]

(* A request arrives; validation may refuse it.                             *)
Ask(h) ==
  /\ asked[h] = NoBody
  /\ \E b \in Bodies : asked' = [asked EXCEPT ![h] = b]
  /\ UNCHANGED reply \/ Reply(h, "invalid", NoPayment)
  /\ UNCHANGED <<book, past>>

(* What becomes of a request that waits for its answer, when its key has    *)
(* the payment kept, or NoPayment.                                          *)
Pay(h, kept) ==
  /\ kept = NoPayment
  /\ book' = [book EXCEPT ![asked[h].key] =
                [id |-> h, of |-> asked[h], status |-> "PENDING"]]
  /\ past' = [past EXCEPT ![asked[h].key] = {"PENDING"}]
  /\ UNCHANGED <<asked, reply>>

Answer(h, kept) ==
  /\ kept # NoPayment
  /\ \E s \in past[asked[h].key] :
       LET payment == [kept EXCEPT !.status = s] IN
         \/ kept.id = h /\ kept.of = asked[h] /\ Reply(h, "created", payment)
         \/ kept.of = asked[h] /\ Reply(h, "existing", payment)
         \/ Reply(h, "cached", payment)
  /\ UNCHANGED <<book, past, asked>>

Refuse(h, kept) ==
  /\ \E kind \in Refusals :
       (kind = "parameters" => kept # NoPayment) /\ Reply(h, kind, NoPayment)
  /\ UNCHANGED <<book, past, asked>>

Serve(h) ==
  /\ asked[h] # NoBody /\ reply[h] = NoReply
  /\ LET kept == book[asked[h].key] IN
       Pay(h, kept) \/ Answer(h, kept) \/ Refuse(h, kept)

Settle(k) ==
  /\ book[k] # NoPayment
  /\ \E s \in {"SUCCESS", "FAILED"} :
       /\ book' = [book EXCEPT ![k].status = s]
       /\ past' = [past EXCEPT ![k] = @ \cup {s}]
  /\ UNCHANGED <<asked, reply>>

Next ==
  \/ \E h \in Handlers : Ask(h) \/ Serve(h)
  \/ \E k \in Keys : Settle(k)

Spec == Init /\ [][Next]_vars
=============================================================================
