--------------------------- MODULE MCPaymentIntake ---------------------------
(* Small instances of PaymentIntake for TLC.                                *)
EXTENDS PaymentIntake, TLC

CONSTANTS h1, h2, c1, c2

TwoRequests  == {h1, h2}
TwoConsumers == {c1, c2}
Symmetric    == Permutations(Handlers) \cup Permutations(Consumers)

Body(source, target, amount, currency) ==
  [key |-> "k1", source |-> source, target |-> target, amount |-> amount,
   currency |-> currency]

(* A payment, a retry that omits the default currency, the same key with    *)
(* another amount and with one below the column's scale, and a body         *)
(* validation refuses.                                                      *)
Retries ==
  {Body("a", "b", 2, "USD"), Body("a", "b", 2, Empty), Body("a", "b", 4, "USD"),
   Body("a", "b", 1, "USD"), Body("a", "a", 2, "USD")}
=============================================================================
