------------------------- MODULE PaymentIntakeProofs -------------------------
(***************************************************************************)
(* Theorems of PaymentIntake, for any number of requests, keys, bodies and *)
(* consumers, any selection of faults and any number of commands that      *)
(* Redis leaves unanswered.                                                *)
(*                                                                         *)
(* The inductive invariant Inv adds to TypeOK what the committed rows, the *)
(* open transactions, the handlers, the consumers, the Redis records and   *)
(* the writes that may still reach Redis have to do with each other.       *)
(***************************************************************************)
EXTENDS PaymentIntake, TLAPS

(* The handlers that may have a committed row.                              *)
Returning == {"complete", "release", "rollback", "done", "crashed"}

(* A committed row is the one its handler's request asked for, with the     *)
(* last of the statuses it has had, and comes with its event.               *)
Rows ==
  /\ events = Committed
  /\ \A h \in Handlers :
       /\ h \in Committed =>
            /\ payments[h].id = h
            /\ payments[h].of = OnScale(req[h])
            /\ req[h].key \in Keys
            /\ pc[h] \in Returning
            /\ {"PENDING", payments[h].status} \subseteq had[h]

(* The UNIQUE index: of the open transactions and the committed rows of one *)
(* key there is at most one in all.                                         *)
Unique ==
  /\ \A g, h \in Handlers : tx[g] # "none" /\ tx[h] # "none" /\ req[g].key = req[h].key => g = h
  /\ \A g \in Handlers, h \in Committed : tx[g] # "none" => payments[h].of.key # req[g].key
  /\ OnePaymentPerKey

(* Payment p is a copy, perhaps an old one, of the committed row of key k.  *)
Names(p, k) ==
  \E h \in Committed :
    /\ payments[h].of.key = k
    /\ p \in Payment
    /\ p.id = h
    /\ OnScale(p.of) = payments[h].of
    /\ p.status \in had[h]

(* What a handler knows at each of its calls.                               *)
Knows(h) ==
  /\ pc[h] = "idle" => req[h] = NoRequest
  /\ pc[h] # "idle" => req[h].currency # Empty
  /\ InFlight(h) => req[h].key \in Keys
  /\ pc[h] \notin {"existing", "done"} => answer[h] = NoAnswer
  /\ pc[h] = "existing" =>
       answer[h].kind = "none" /\ answer[h].payment.of = req[h]
         /\ Names(answer[h].payment, req[h].key)
  /\ pc[h] = "complete" => h \in Committed

(* What a consumer knows of the payment it is settling.                     *)
SagaKnows(c) ==
  saga[c] # Idle =>
    /\ saga[c].step \in {"update", "cache"}
    /\ saga[c].payment \in Committed
    /\ saga[c].step = "cache" => saga[c].status \in had[saga[c].payment]

(* A handler that got past the idempotency check: such a one may leave an   *)
(* IN_FLIGHT record behind.                                                 *)
Past(g) ==
  \/ InFlight(g) /\ pc[g] \notin {"start", "get"}
  \/ pc[g] = "crashed"
  \/ pc[g] = "done" /\ answer[g].kind \in {"created", "existing", "parameters", "failed"}

(* A record that key k may have.                                            *)
Backed(k, r) ==
  /\ r.status = "COMPLETED" => Names(r.payment, k)
  /\ r.status = "IN_FLIGHT" =>
       /\ r = Reserved(r.hash)
       /\ (\E g \in Handlers : req[g] = r.hash /\ Past(g)) \/ <<k, r>> \in unanswered

Records ==
  /\ \A k \in Keys : Backed(k, cache[k])
  /\ \A k \in Keys, r \in Record : <<k, r>> \in unanswered => Backed(k, r)

Inv ==
  /\ TypeOK
  /\ Rows
  /\ Unique
  /\ \A h \in Handlers : Knows(h)
  /\ \A c \in Consumers : SagaKnows(c)
  /\ Records

-----------------------------------------------------------------------------
(* Bodies, and what the columns keep of them *)

LEMMA NumericFacts ==
  ASSUME NEW v \in Int
  PROVE  Numeric(v) \in Int /\ Numeric(Numeric(v)) = Numeric(v)
BY DEF Numeric

LEMMA OnScaleFacts ==
  ASSUME NEW r \in Request
  PROVE  /\ OnScale(r) \in Request /\ OnScale(OnScale(r)) = OnScale(r)
         /\ OnScale(r).key = r.key /\ OnScale(r).currency = r.currency
<1>1. r.amount \in Int
  BY DEF Request
<1>2. Numeric(r.amount) \in Int /\ Numeric(Numeric(r.amount)) = Numeric(r.amount)
  BY <1>1, NumericFacts
<1> QED BY <1>2 DEF OnScale, Request

LEMMA NoRequestFacts ==
  NoRequest \in Request /\ OnScale(NoRequest) = NoRequest /\ NoRequest.currency = Empty
<1>1. Numeric(0) = 0
  BY DEF Numeric
<1> QED BY <1>1 DEF NoRequest, OnScale, Request

LEMMA NormalFacts ==
  ASSUME NEW r \in Requests
  PROVE  /\ Normal(r) \in Request /\ Normal(r).currency # Empty
         /\ ~Invalid(r) => Normal(r).key \in Keys
<1>1. r \in Request
  BY RequestsAssumption
<1>2. Normal(r) \in Request
  BY <1>1, UsdAssumption DEF Normal, Request
<1>3. Normal(r).currency # Empty /\ Normal(r).key = r.key
  BY <1>1 DEF Normal, Request, Empty
<1>4. ~Invalid(r) => r.key \in Keys
  BY <1>1 DEF Invalid, Request
<1> QED BY <1>2, <1>3, <1>4

LEMMA RowFacts ==
  /\ NoRow \notin Payment /\ NoRow.status = "NONE"
  /\ \A p \in Payment : p.id \in Handlers /\ p.of \in Request /\ p.status \in Statuses
  /\ NoAnswer \in Answer /\ NoAnswer.kind = "none"
  /\ NoRecord \in Record /\ NoRecord.status = "NONE"
<1>1. NoRow \notin Payment
  BY NoPaymentAssumption DEF NoRow, Payment
<1> QED BY <1>1, NoRequestFacts DEF NoRow, Payment, NoAnswer, Answer, NoRecord, Record

LEMMA BuiltFacts ==
  ASSUME NEW h \in Handlers, req[h] \in Request
  PROVE  /\ Built(h) \in Payment /\ Stored(h) \in Payment
         /\ Built(h).id = h /\ Stored(h).id = h
         /\ Built(h).of = req[h] /\ Stored(h).of = OnScale(req[h])
         /\ Built(h).status = "PENDING" /\ Stored(h).status = "PENDING"
BY OnScaleFacts DEF Built, Stored, OnScale, Payment, Statuses

-----------------------------------------------------------------------------
(* Type correctness *)

LEMMA CompleteType ==
  ASSUME TypeOK, NEW k \in Keys, NEW p \in Payment, Complete(k, p)
  PROVE  cache' \in [Keys -> Record]
<1>1. Completed(p) \in Record
  BY NoRequestFacts DEF Completed, Record
<1> QED BY <1>1 DEF Complete, TypeOK

LEMMA HandlerType ==
  ASSUME TypeOK, NEW h \in Handlers
  PROVE  /\ payments[h] \in Payment \cup {NoRow}
         /\ req[h] \in Request /\ answer[h] \in Answer
         /\ answer[h].payment \in Payment \cup {NoRow}
         /\ h \in Committed <=> payments[h] \in Payment
BY RowFacts DEF TypeOK, Answer, Committed

(* What one handler's step leaves alone.                                    *)
Others(h) ==
  \A g \in Handlers \ {h} :
    pc'[g] = pc[g] /\ req'[g] = req[g] /\ tx'[g] = tx[g] /\ answer'[g] = answer[g]

RequestStep(h) ==
  \/ Receive(h) \/ Start(h) \/ Get(h) \/ Lookup(h) \/ CompleteExisting(h)
  \/ InsertPayment(h) \/ InsertEvent(h) \/ Commit(h) \/ CompleteCreated(h)
  \/ StatementFails(h) \/ Release(h) \/ Rollback(h) \/ Crash(h)

LEMMA OthersUntouched ==
  ASSUME TypeOK, NEW h \in Handlers, RequestStep(h)
  PROVE  Others(h)
<1> USE DEF Others, TypeOK, Goto, Respond
<1>1. CASE Receive(h)
  BY <1>1 DEF Receive
<1>2. CASE Start(h)
  BY <1>2 DEF Start
<1>3. CASE Get(h)
  BY <1>3 DEF Get
<1>4. CASE Lookup(h)
  BY <1>4 DEF Lookup
<1>5. CASE CompleteExisting(h) \/ CompleteCreated(h)
  BY <1>5 DEF CompleteExisting, CompleteCreated
<1>6. CASE InsertPayment(h) \/ InsertEvent(h) \/ Commit(h)
  BY <1>6 DEF InsertPayment, InsertEvent, Commit
<1>7. CASE StatementFails(h) \/ Release(h) \/ Rollback(h) \/ Crash(h)
  BY <1>7 DEF StatementFails, Release, Rollback, Crash
<1> QED BY <1>1, <1>2, <1>3, <1>4, <1>5, <1>6, <1>7 DEF RequestStep

LEMMA AnswerType ==
  ASSUME TypeOK, NEW h \in Handlers, NEW kind \in Success \cup Refusals,
         NEW p \in Payment \cup {NoRow}, Respond(h, kind, p)
  PROVE  /\ answer' \in [Handlers -> Answer]
         /\ answer'[h] = [kind |-> kind, payment |-> p]
         /\ pc'[h] = "done" /\ DOMAIN pc' = Handlers
BY DEF TypeOK, Respond, Goto, Answer

LEMMA TypeInv ==
  ASSUME Inv, NEW h \in Handlers, RequestStep(h)
  PROVE  TypeOK'
<1>1. TypeOK /\ Rows /\ Knows(h) /\ Records /\ Others(h)
  BY OthersUntouched DEF Inv
<1>2. /\ req[h] \in Request /\ answer[h] \in Answer
      /\ InFlight(h) => req[h].key \in Keys
  BY <1>1, HandlerType DEF Knows
<1> USE <1>1 DEF TypeOK, Goto, tables, redis
<1>3. CASE Receive(h)
  <2>1. PICK r \in Requests :
          /\ req' = [req EXCEPT ![h] = Normal(r)]
          /\ IF Invalid(r) THEN Respond(h, "invalid", NoRow)
                           ELSE Goto(h, "start") /\ UNCHANGED answer
    BY <1>3 DEF Receive
  <2>2. req' \in [Handlers -> Request]
    BY <2>1, NormalFacts
  <2>3. answer' \in [Handlers -> Answer]
    BY <2>1, AnswerType DEF Refusals
  <2> QED BY <1>3, <2>1, <2>2, <2>3 DEF Receive, Respond
<1>4. CASE Start(h)
  <2>1. Reserve(h) => cache' \in [Keys -> Record]
    <3>1. Reserved(req[h]) \in Record
      BY <1>2 DEF Reserved, Record
    <3> QED BY <3>1 DEF Reserve
  <2> QED BY <1>4, <2>1 DEF Start
<1>5. CASE Get(h)
  <2>1. cache[req[h].key] \in Record
    BY <1>2, <1>5 DEF Get, InFlight
  <2>2. answer' \in [Handlers -> Answer]
    BY <1>5, <2>1, AnswerType DEF Get, Refusals, Success, Record
  <2> QED BY <1>5, <2>2 DEF Get, Respond
<1>6. CASE Lookup(h)
  <2>1. answer' \in [Handlers -> Answer]
    <3>1. ASSUME NEW row \in RowsOfKey(req[h].key),
                 answer' = [answer EXCEPT ![h].payment = row]
          PROVE  answer' \in [Handlers -> Answer]
      <4>1. row \in Payment
        BY HandlerType DEF RowsOfKey, Committed
      <4>2. [answer[h] EXCEPT !.payment = row] \in Answer
        BY <1>2, <4>1 DEF Answer
      <4> QED BY <3>1, <4>2
    <3> QED BY <1>6, <3>1, AnswerType DEF Lookup, Refusals
  <2> QED BY <1>6, <2>1 DEF Lookup, Respond
<1>7. CASE CompleteExisting(h)
  <2>1. answer[h].payment \in Payment
    BY <1>7 DEF CompleteExisting, Knows, Names
  <2>2. cache' \in [Keys -> Record]
    BY <1>2, <1>7, <2>1, CompleteType DEF CompleteExisting, InFlight
  <2>3. answer' \in [Handlers -> Answer]
    BY <1>7, <2>1, AnswerType DEF CompleteExisting, Success
  <2> QED BY <1>7, <2>2, <2>3 DEF CompleteExisting, Respond
<1>8. CASE CompleteCreated(h)
  <2>1. Built(h) \in Payment
    BY <1>2, BuiltFacts
  <2>2. cache' \in [Keys -> Record]
    BY <1>2, <1>8, <2>1, CompleteType DEF CompleteCreated, InFlight
  <2>3. answer' \in [Handlers -> Answer]
    BY <1>8, <2>1, AnswerType DEF CompleteCreated, Success
  <2> QED BY <1>8, <2>2, <2>3 DEF CompleteCreated, Respond
<1>9. CASE InsertPayment(h) \/ InsertEvent(h)
  BY <1>9 DEF InsertPayment, InsertEvent
<1>10. CASE Commit(h)
  BY <1>2, <1>10, BuiltFacts DEF Commit, Statuses
<1>11. CASE StatementFails(h)
  BY <1>11 DEF StatementFails
<1>12. CASE Release(h)
  <2>1. cache' \in [Keys -> Record]
    BY <1>2, <1>12, RowFacts DEF Release, InFlight
  <2> QED BY <1>12, <2>1 DEF Release
<1>13. CASE Rollback(h)
  <2>1. answer' \in [Handlers -> Answer]
    BY <1>13, AnswerType DEF Rollback, Refusals
  <2> QED BY <1>13, <2>1 DEF Rollback, Respond
<1>14. CASE Crash(h)
  BY <1>14, RowFacts DEF Crash
<1> QED BY <1>3, <1>4, <1>5, <1>6, <1>7, <1>8, <1>9, <1>10, <1>11, <1>12, <1>13, <1>14
        DEF RequestStep

-----------------------------------------------------------------------------
(* What every step keeps: a copy of a committed row, a handler's past *)

(* A row is made once; only its status changes, and the history grows.      *)
Evolves(g) ==
  g \in Committed =>
    /\ payments'[g] \in Payment
    /\ payments'[g].of = payments[g].of
    /\ had[g] \subseteq had'[g]

LEMMA NamesKept ==
  ASSUME TypeOK, \A g \in Handlers : Evolves(g),
         NEW k, NEW p, Names(p, k)
  PROVE  Names(p, k)'
<1>1. PICK h \in Committed :
        /\ payments[h].of.key = k
        /\ p \in Payment
        /\ p.id = h
        /\ OnScale(p.of) = payments[h].of
        /\ p.status \in had[h]
  BY DEF Names
<1>2. payments'[h] \in Payment /\ payments'[h].of = payments[h].of /\ had[h] \subseteq had'[h]
  BY DEF Evolves, Committed
<1>3. h \in Committed'
  BY <1>2, RowFacts DEF Committed
<1> QED BY <1>1, <1>2, <1>3 DEF Names

LEMMA PaymentsEvolve ==
  ASSUME Inv, NEW h \in Handlers, RequestStep(h)
  PROVE  \A g \in Handlers : Evolves(g)
<1> USE DEF Evolves
<1>1. \A g \in Committed : payments[g] \in Payment
  BY HandlerType DEF Inv, Committed
<1>2. CASE Commit(h)
  <2>1. h \notin Committed
    BY <1>2 DEF Inv, Rows, Commit, Returning
  <2> QED BY <1>1, <1>2, <2>1 DEF Commit, Committed, Inv, TypeOK
<1>3. CASE ~Commit(h)
  <2>1. payments' = payments /\ had' = had
    BY <1>3 DEF RequestStep, Receive, Start, Get, Lookup, CompleteExisting, InsertPayment,
       InsertEvent, CompleteCreated, StatementFails, Release, Rollback, Crash, tables
  <2> QED BY <1>1, <2>1
<1> QED BY <1>2, <1>3

LEMMA PastKept ==
  ASSUME Inv, NEW h \in Handlers, RequestStep(h), NEW g \in Handlers, Past(g)
  PROVE  Past(g)' /\ req'[g] = req[g]
<1>1. TypeOK /\ Others(h)
  BY OthersUntouched DEF Inv
<1>2. CASE g # h
  BY <1>1, <1>2 DEF Past, InFlight, Others
<1>3. CASE g = h
  <2> USE <1>1, <1>3 DEF Past, InFlight, TypeOK, Goto, Respond
  <2>1. CASE Receive(h) \/ Start(h) \/ Get(h)
    BY <2>1 DEF Receive, Start, Get
  <2>2. CASE Lookup(h) \/ CompleteExisting(h) \/ CompleteCreated(h)
    BY <2>2 DEF Lookup, CompleteExisting, CompleteCreated
  <2>3. CASE InsertPayment(h) \/ InsertEvent(h) \/ Commit(h)
    BY <2>3 DEF InsertPayment, InsertEvent, Commit
  <2>4. CASE StatementFails(h) \/ Release(h) \/ Rollback(h) \/ Crash(h)
    BY <2>4 DEF StatementFails, Release, Rollback, Crash
  <2> QED BY <2>1, <2>2, <2>3, <2>4 DEF RequestStep
<1> QED BY <1>2, <1>3

-----------------------------------------------------------------------------
(* The parts of the invariant, over the steps of a request *)

LEMMA RowsInv ==
  ASSUME Inv, NEW h \in Handlers, RequestStep(h)
  PROVE  Rows'
<1>1. TypeOK /\ TypeOK' /\ Rows /\ Others(h)
  BY TypeInv, OthersUntouched DEF Inv
<1> USE <1>1 DEF Rows, TypeOK, Goto, Respond, tables, Committed
<1>2. CASE Commit(h)
  <2>1. req[h].key \in Keys /\ req[h] \in Request /\ h \notin Committed
    BY <1>2 DEF Inv, Knows, InFlight, Commit, Returning
  <2>2. /\ payments' = [payments EXCEPT ![h] = Stored(h)] /\ Stored(h) # NoRow
        /\ events' = events \cup {h} /\ req' = req
        /\ had' = [had EXCEPT ![h] = {"PENDING"}]
        /\ pc'[h] \in Returning
    BY <2>1, <1>2, BuiltFacts, RowFacts DEF Commit, Returning
  <2>3. Committed' = Committed \cup {h} /\ events' = Committed'
    BY <2>1, <2>2
  <2>4. ASSUME NEW g \in Handlers, g \in Committed'
        PROVE  /\ payments'[g].id = g /\ payments'[g].of = OnScale(req'[g])
               /\ req'[g].key \in Keys /\ pc'[g] \in Returning
               /\ {"PENDING", payments'[g].status} \subseteq had'[g]
    <3>1. CASE g = h
      BY <2>1, <2>2, <3>1, BuiltFacts
    <3>2. CASE g # h
      BY <2>2, <2>4, <3>2 DEF Others
    <3> QED BY <3>1, <3>2
  <2> QED BY <2>3, <2>4
<1>3. CASE Receive(h)
  <2>1. h \notin Committed
    BY <1>3 DEF Receive, Returning
  <2>2. payments' = payments /\ events' = events /\ had' = had
    BY <1>3 DEF Receive
  <2>3. Committed' = Committed
    BY <2>2
  <2>4. \A g \in Committed : g # h /\ req'[g] = req[g] /\ pc'[g] = pc[g]
    BY <2>1 DEF Others
  <2> QED BY <2>2, <2>3, <2>4
<1>4. CASE Start(h) \/ Get(h) \/ Lookup(h) \/ CompleteExisting(h)
  BY <1>4 DEF Start, Get, Lookup, CompleteExisting, Returning, OnScale
<1>5. CASE InsertPayment(h) \/ InsertEvent(h) \/ StatementFails(h)
  <2>1. /\ payments' = payments /\ events' = events /\ had' = had /\ req' = req
        /\ h \notin Committed
    BY <1>5 DEF InsertPayment, InsertEvent, StatementFails, Returning
  <2>2. \A g \in Committed : pc'[g] = pc[g]
    BY <2>1 DEF Others
  <2> QED BY <2>1, <2>2
<1>6. CASE CompleteCreated(h) \/ Release(h) \/ Rollback(h) \/ Crash(h)
  BY <1>6 DEF CompleteCreated, Release, Rollback, Crash, Returning, OnScale
<1> QED BY <1>2, <1>3, <1>4, <1>5, <1>6 DEF RequestStep

LEMMA UniqueInv ==
  ASSUME Inv, NEW h \in Handlers, RequestStep(h)
  PROVE  Unique'
<1>1. TypeOK /\ TypeOK' /\ Rows /\ Unique /\ Others(h)
  BY TypeInv, OthersUntouched DEF Inv
<1> USE <1>1 DEF Unique, OnePaymentPerKey, TypeOK, Goto, Respond, tables, Committed
<1>2. CASE Receive(h)
  <2>1. tx[h] = "none" /\ tx' = tx /\ payments' = payments
    BY <1>2 DEF Receive
  <2>2. \A g \in Handlers : tx[g] # "none" => req'[g] = req[g]
    BY <2>1 DEF Others
  <2> QED BY <2>1, <2>2
<1>3. CASE InsertPayment(h)
  <2>1. /\ \A g \in Handlers : tx[g] # "none" => req[g].key # req[h].key
        /\ payments' = payments /\ req' = req
    BY <1>3 DEF InsertPayment
  <2>2. \A g \in Committed : payments[g].of.key = req[h].key => payments[g] \in RowsOfKey(req[h].key)
    BY DEF RowsOfKey
  <2>3. tx' # tx => RowsOfKey(req[h].key) = {}
    BY <1>3 DEF InsertPayment
  <2>4. \A g \in Handlers \ {h} : tx'[g] = tx[g]
    BY DEF Others
  <2>5. CASE tx' = tx
    BY <2>1, <2>5
  <2>6. CASE RowsOfKey(req[h].key) = {}
    <3>1. \A g \in Committed : payments[g].of.key # req[h].key
      BY <2>2, <2>6
    <3> QED BY <2>1, <2>4, <3>1
  <2> QED BY <2>3, <2>5, <2>6
<1>4. CASE Commit(h)
  <2>1. /\ payments' = [payments EXCEPT ![h] = Stored(h)] /\ Stored(h).of.key = req[h].key
        /\ tx' = [tx EXCEPT ![h] = "none"] /\ tx[h] # "none" /\ req' = req
    BY <1>4, BuiltFacts, OnScaleFacts, HandlerType DEF Commit
  <2>2. \A g \in Handlers \ {h} : tx[g] # "none" => req[g].key # req[h].key
    BY <2>1
  <2>3. \A g \in Committed : payments[g].of.key # req[h].key
    BY <2>1
  <2> QED BY <2>1, <2>2, <2>3
<1>5. CASE Start(h) \/ Get(h) \/ Lookup(h) \/ CompleteExisting(h) \/ CompleteCreated(h)
  BY <1>5 DEF Start, Get, Lookup, CompleteExisting, CompleteCreated
<1>6. CASE InsertEvent(h)
  <2>1. payments' = payments /\ req' = req /\ tx[h] # "none"
    BY <1>6 DEF InsertEvent
  <2> QED BY <2>1 DEF Others
<1>7. CASE StatementFails(h) \/ Release(h) \/ Rollback(h) \/ Crash(h)
  <2>1. payments' = payments /\ req' = req /\ \A g \in Handlers : tx'[g] # "none" => tx[g] # "none"
    BY <1>7 DEF StatementFails, Release, Rollback, Crash
  <2> QED BY <2>1
<1> QED BY <1>2, <1>3, <1>4, <1>5, <1>6, <1>7 DEF RequestStep

LEMMA KnowsInv ==
  ASSUME Inv, NEW h \in Handlers, RequestStep(h), NEW g \in Handlers
  PROVE  Knows(g)'
<1>1. /\ TypeOK /\ TypeOK' /\ Rows /\ Knows(g) /\ Others(h)
      /\ \A f \in Handlers : Evolves(f)
  BY TypeInv, OthersUntouched, PaymentsEvolve DEF Inv
<1> USE <1>1
<1>2. CASE g # h
  <2>1. /\ pc'[g] = pc[g] /\ req'[g] = req[g] /\ answer'[g] = answer[g]
        /\ g \in Committed => g \in Committed'
    <3>1. g \in Committed => g \in Committed'
      BY HandlerType, RowFacts DEF Evolves, Committed
    <3> QED BY <1>2, <3>1 DEF Others
  <2>2. pc[g] = "existing" => Names(answer[g].payment, req[g].key)'
    <3> SUFFICES ASSUME pc[g] = "existing" PROVE Names(answer[g].payment, req[g].key)'
      OBVIOUS
    <3>1. \A k, p : Names(p, k) => Names(p, k)'
      BY NamesKept
    <3> QED BY <2>1, <3>1 DEF Knows, Names
  <2> QED BY <2>1, <2>2 DEF Knows, InFlight
<1>3. CASE g = h
  <2> USE <1>3 DEF Knows, InFlight, TypeOK, Goto, Respond, tables
  <2>1. CASE Receive(h)
    <3>1. PICK r \in Requests :
            /\ req' = [req EXCEPT ![h] = Normal(r)]
            /\ IF Invalid(r) THEN Respond(h, "invalid", NoRow)
                             ELSE Goto(h, "start") /\ UNCHANGED answer
      BY <2>1 DEF Receive
    <3> QED BY <2>1, <3>1, NormalFacts DEF Receive
  <2>2. CASE Start(h) \/ Get(h)
    BY <2>2 DEF Start, Get
  <2>3. CASE Lookup(h)
    <3>1. ASSUME NEW row \in RowsOfKey(req[h].key), row.of = req[h]
          PROVE  Names(row, req[h].key)
      BY <3>1, HandlerType, OnScaleFacts, RowFacts DEF RowsOfKey, Committed, Names, Rows, Statuses
    <3>2. ASSUME NEW row \in RowsOfKey(req[h].key), row.of = req[h],
                 answer' = [answer EXCEPT ![h].payment = row], pc'[h] = "existing"
          PROVE  Knows(h)'
      <4>1. Names(row, req[h].key) /\ payments' = payments /\ req' = req
        BY <2>3, <3>1, <3>2 DEF Lookup
      <4>2. answer[h].kind = "none"
        BY <2>3, RowFacts DEF Lookup
      <4>3. answer'[h].payment = row /\ answer'[h].kind = "none"
        BY <3>2, <4>2 DEF Answer
      <4> QED BY <2>3, <3>2, <4>1, <4>3 DEF Names, Committed, Lookup
    <3>3. Goto(h, "payment") /\ UNCHANGED answer => Knows(h)'
      BY <2>3 DEF Lookup
    <3>4. \A kind \in {"parameters", "failed"} : Respond(h, kind, NoRow) => Knows(h)'
      BY <2>3 DEF Lookup
    <3>5. \/ Goto(h, "payment") /\ UNCHANGED answer
          \/ \E kind \in {"parameters", "failed"} : Respond(h, kind, NoRow)
          \/ \E row \in RowsOfKey(req[h].key) :
               /\ row.of = req[h] /\ pc'[h] = "existing"
               /\ answer' = [answer EXCEPT ![h].payment = row]
      BY <2>3 DEF Lookup, SameParameters
    <3> QED BY <3>2, <3>3, <3>4, <3>5
  <2>4. CASE CompleteExisting(h) \/ CompleteCreated(h)
    BY <2>4 DEF CompleteExisting, CompleteCreated
  <2>5. CASE InsertPayment(h) \/ InsertEvent(h)
    BY <2>5 DEF InsertPayment, InsertEvent
  <2>6. CASE Commit(h)
    <3>1. h \in Committed'
      BY <2>6, BuiltFacts, RowFacts DEF Commit, Committed
    <3> QED BY <2>6, <3>1 DEF Commit
  <2>7. CASE StatementFails(h) \/ Release(h) \/ Rollback(h) \/ Crash(h)
    BY <2>7 DEF StatementFails, Release, Rollback, Crash
  <2> QED BY <2>1, <2>2, <2>3, <2>4, <2>5, <2>6, <2>7 DEF RequestStep
<1> QED BY <1>2, <1>3

(* What a request does to a record: nothing, removes it, reserves it for    *)
(* itself, or completes it with a committed row of the key.                 *)
LEMMA CacheStep ==
  ASSUME Inv, NEW h \in Handlers, RequestStep(h), NEW k \in Keys
  PROVE  \/ cache'[k] = cache[k]
         \/ cache'[k] = NoRecord
         \/ cache'[k] = Reserved(req'[h]) /\ Past(h)'
         \/ \E p : cache'[k] = Completed(p) /\ Names(p, k)
<1>1. TypeOK /\ TypeOK' /\ Rows /\ Knows(h)
  BY TypeInv DEF Inv
<1> USE <1>1 DEF TypeOK, Goto, redis
<1>2. CASE Start(h)
  BY <1>2 DEF Start, Reserve, Past, InFlight
<1>3. ASSUME NEW p, Names(p, req[h].key), Complete(req[h].key, p)
      PROVE  \/ cache'[k] = cache[k]
             \/ cache'[k] = Completed(p) /\ Names(p, k)
  BY <1>3 DEF Complete
<1>4. CASE CompleteExisting(h)
  BY <1>3, <1>4 DEF CompleteExisting, Knows
<1>5. CASE CompleteCreated(h)
  <2>1. Names(Built(h), req[h].key)
    BY <1>5, BuiltFacts, OnScaleFacts, HandlerType DEF CompleteCreated, Knows, Rows, Names
  <2> QED BY <1>3, <1>5, <2>1 DEF CompleteCreated
<1>6. CASE Release(h)
  BY <1>6 DEF Release
<1>7. CASE Receive(h) \/ Get(h) \/ Lookup(h) \/ InsertPayment(h) \/ InsertEvent(h) \/ Commit(h)
           \/ StatementFails(h) \/ Rollback(h) \/ Crash(h)
  BY <1>7 DEF Receive, Get, Lookup, InsertPayment, InsertEvent, Commit, StatementFails,
     Rollback, Crash
<1> QED BY <1>2, <1>4, <1>5, <1>6, <1>7 DEF RequestStep

LEMMA RecordFacts ==
  /\ NoRecord.status = "NONE"
  /\ \A body : Reserved(body).status = "IN_FLIGHT" /\ Reserved(body).hash = body
  /\ \A p : Completed(p).status = "COMPLETED" /\ Completed(p).payment = p
BY DEF NoRecord, Reserved, Completed

LEMMA RecordsInv ==
  ASSUME Inv, NEW h \in Handlers, RequestStep(h)
  PROVE  Records'
<1>1. /\ TypeOK /\ TypeOK' /\ Records
      /\ \A g \in Handlers : Evolves(g)
  BY TypeInv, PaymentsEvolve DEF Inv
<1>2. unanswered' = unanswered
  BY DEF RequestStep, Receive, Start, Get, Lookup, CompleteExisting, InsertPayment, InsertEvent,
     Commit, CompleteCreated, StatementFails, Release, Rollback, Crash, redis
<1>3. \A k, p : Names(p, k) => Names(p, k)'
  BY <1>1, NamesKept
<1>4. \A g \in Handlers : Past(g) => Past(g)' /\ req'[g] = req[g]
  BY PastKept
<1>5. ASSUME NEW k, NEW r, Backed(k, r)
      PROVE  /\ r.status = "COMPLETED" => Names(r.payment, k)'
             /\ r.status = "IN_FLIGHT" =>
                  /\ r = Reserved(r.hash)
                  /\ (\E g \in Handlers : req'[g] = r.hash /\ Past(g)') \/ <<k, r>> \in unanswered'
  BY <1>2, <1>3, <1>4, <1>5 DEF Backed
<1>6. ASSUME NEW k \in Keys
      PROVE  Backed(k, cache[k])'
  <2>1. CASE cache'[k] = cache[k]
    BY <1>1, <1>5, <2>1 DEF Records, Backed, Names
  <2>2. CASE cache'[k] = NoRecord
    BY <2>2, RecordFacts DEF Backed
  <2>3. CASE cache'[k] = Reserved(req'[h]) /\ Past(h)'
    BY <2>3, RecordFacts DEF Backed
  <2>4. ASSUME NEW p, cache'[k] = Completed(p), Names(p, k)
        PROVE  Backed(k, cache[k])'
    BY <1>3, <2>4, RecordFacts DEF Backed, Names
  <2> QED BY <2>1, <2>2, <2>3, <2>4, CacheStep
<1>7. ASSUME NEW k \in Keys, NEW r \in Record, <<k, r>> \in unanswered'
      PROVE  Backed(k, r)'
  BY <1>1, <1>2, <1>5, <1>7 DEF Records, Backed, Names
<1> QED BY <1>6, <1>7 DEF Records

LEMMA SagaKnowsKept ==
  ASSUME TypeOK, \A g \in Handlers : Evolves(g), NEW c \in Consumers, SagaKnows(c),
         saga'[c] = saga[c]
  PROVE  SagaKnows(c)'
<1>1. \A g \in Committed : g \in Committed' /\ had[g] \subseteq had'[g]
  BY RowFacts DEF Evolves, Committed
<1> QED BY <1>1 DEF SagaKnows

-----------------------------------------------------------------------------
(* The other steps, and the whole *)

LEMMA RequestInv ==
  ASSUME Inv, NEW h \in Handlers, RequestStep(h)
  PROVE  Inv'
<1>1. saga' = saga
  BY DEF RequestStep, Receive, Start, Get, Lookup, CompleteExisting, InsertPayment, InsertEvent,
     Commit, CompleteCreated, StatementFails, Release, Rollback, Crash
<1>2. \A c \in Consumers : SagaKnows(c)'
  BY <1>1, PaymentsEvolve, SagaKnowsKept DEF Inv
<1> QED BY <1>2, TypeInv, RowsInv, UniqueInv, KnowsInv, RecordsInv DEF Inv

(* A consumer that is at work has a payment that is committed.              *)
LEMMA SagaFacts ==
  ASSUME Inv, NEW c \in Consumers, saga[c] # Idle
  PROVE  /\ saga[c].payment \in Committed /\ saga[c].payment \in Handlers
         /\ payments[saga[c].payment] \in Payment
         /\ payments[saga[c].payment].of.key \in Keys
<1>1. saga[c].payment \in Committed /\ saga[c].payment \in Handlers
  BY DEF Inv, SagaKnows, Committed
<1> QED BY <1>1, HandlerType, OnScaleFacts DEF Inv, Rows

(* What a consumer's UPDATE changes.                                        *)
Writes(c, h, s) ==
  /\ payments' = [payments EXCEPT ![h].status = s]
  /\ payments'[h] = [payments[h] EXCEPT !.status = s]
  /\ payments'[h] \in Payment /\ payments'[h].id = payments[h].id
  /\ payments'[h].of = payments[h].of /\ payments'[h].status = s
  /\ had' = [had EXCEPT ![h] = @ \cup {s}] /\ had'[h] = had[h] \cup {s}
  /\ saga' = [saga EXCEPT ![c].step = "cache", ![c].status = s]

LEMMA SagaUpdateStep ==
  ASSUME Inv, NEW c \in Consumers, SagaUpdate(c), NEW h, h = saga[c].payment
  PROVE  /\ h \in Committed /\ h \in Handlers /\ payments[h] \in Payment
         /\ payments[h].of.key \in Keys
         /\ UNCHANGED <<events, cache, unanswered, pc, req, tx, answer>>
         /\ Committed' = Committed
         /\ \A g \in Handlers \ {h} : payments'[g] = payments[g] /\ had'[g] = had[g]
         /\ \E s \in {"SUCCESS", "FAILED"} : Writes(c, h, s)
<1>1. TypeOK /\ saga[c] # Idle
  BY DEF Inv, SagaUpdate, Idle
<1>2. /\ h \in Committed /\ h \in Handlers /\ payments[h] \in Payment
      /\ payments[h].of.key \in Keys
  BY <1>1, SagaFacts
<1>3. PICK s \in {"SUCCESS", "FAILED"} :
        /\ payments' = [payments EXCEPT ![h].status = s]
        /\ had' = [had EXCEPT ![h] = @ \cup {s}]
        /\ saga' = [saga EXCEPT ![c].step = "cache", ![c].status = s]
  BY DEF SagaUpdate
<1>4. /\ payments'[h] = [payments[h] EXCEPT !.status = s]
      /\ had'[h] = had[h] \cup {s}
      /\ \A g \in Handlers \ {h} : payments'[g] = payments[g] /\ had'[g] = had[g]
  BY <1>1, <1>2, <1>3 DEF TypeOK
<1>5. /\ payments'[h] \in Payment /\ payments'[h].id = payments[h].id
      /\ payments'[h].of = payments[h].of /\ payments'[h].status = s
  BY <1>2, <1>4 DEF Payment, Statuses
<1>6. Committed' = Committed
  BY <1>2, <1>4, <1>5, RowFacts DEF Committed
<1>7. Writes(c, h, s)
  BY <1>3, <1>4, <1>5 DEF Writes
<1> QED BY <1>2, <1>4, <1>6, <1>7 DEF SagaUpdate, redis, handlers

LEMMA SagaUpdateInv ==
  ASSUME Inv, NEW c \in Consumers, SagaUpdate(c)
  PROVE  Inv' /\ \A g \in Handlers : Evolves(g)
<1>0. PICK h : h = saga[c].payment
  OBVIOUS
<1>1. /\ TypeOK /\ Rows /\ Unique /\ Records
      /\ (\A g \in Handlers : Knows(g)) /\ (\A d \in Consumers : SagaKnows(d))
  BY DEF Inv
<1>2. /\ h \in Committed /\ h \in Handlers /\ payments[h] \in Payment
      /\ UNCHANGED <<events, cache, unanswered, pc, req, tx, answer>>
      /\ Committed' = Committed
      /\ \A g \in Handlers \ {h} : payments'[g] = payments[g] /\ had'[g] = had[g]
  BY <1>0, SagaUpdateStep
<1>3. PICK s \in {"SUCCESS", "FAILED"} : Writes(c, h, s)
  BY <1>0, SagaUpdateStep
<1> USE DEF Writes
<1>4. \A g \in Committed : payments[g] \in Payment
  BY <1>1, HandlerType DEF Committed
<1>5. \A g \in Handlers : Evolves(g)
  BY <1>2, <1>3, <1>4 DEF Evolves
<1>6. TypeOK'
  <2>1. payments' \in [Handlers -> Payment \cup {NoRow}]
    BY <1>1, <1>2, <1>3 DEF TypeOK
  <2>2. had' \in [Handlers -> SUBSET Statuses]
    BY <1>1, <1>2, <1>3 DEF TypeOK, Statuses
  <2>3. saga' \in [Consumers -> [step : {"idle", "update", "cache"},
                                 payment : Handlers \cup {NoPayment},
                                 status : Statuses \cup {"NONE"}]]
    <3>1. saga[c] \in [step : {"idle", "update", "cache"}, payment : Handlers \cup {NoPayment},
                       status : Statuses \cup {"NONE"}]
      BY <1>1 DEF TypeOK
    <3>2. [saga[c] EXCEPT !.step = "cache", !.status = s]
            \in [step : {"idle", "update", "cache"}, payment : Handlers \cup {NoPayment},
                status : Statuses \cup {"NONE"}]
      BY <3>1 DEF Statuses
    <3> QED BY <1>1, <1>3, <3>2 DEF TypeOK
  <2> QED BY <1>1, <1>2, <2>1, <2>2, <2>3 DEF TypeOK
<1>7. Rows'
  BY <1>1, <1>2, <1>3 DEF Rows, OnScale, Committed
<1>8. Unique'
  <2>1. \A g \in Committed : payments'[g].of = payments[g].of
    BY <1>2, <1>3 DEF Committed
  <2> QED BY <1>1, <1>2, <2>1 DEF Unique, OnePaymentPerKey
<1>9. \A k, p : Names(p, k) => Names(p, k)'
  BY <1>1, <1>5, NamesKept
<1>10. Records'
  BY <1>1, <1>2, <1>9 DEF Records, Backed, Past, InFlight, Names
<1>11. \A g \in Handlers : Knows(g)'
  BY <1>1, <1>2, <1>9 DEF Knows, InFlight, Names
<1>12. ASSUME NEW d \in Consumers
       PROVE  SagaKnows(d)'
  <2>1. CASE d # c
    <3>1. saga'[d] = saga[d]
      BY <1>1, <1>3, <2>1 DEF TypeOK
    <3> QED BY <1>1, <1>5, <3>1, SagaKnowsKept
  <2>2. CASE d = c
    <3>1. saga'[c].step = "cache" /\ saga'[c].status = s /\ saga'[c].payment = h
      BY <1>0, <1>1, <1>3 DEF TypeOK
    <3> QED BY <1>2, <1>3, <2>2, <3>1 DEF SagaKnows
  <2> QED BY <2>1, <2>2
<1> QED BY <1>5, <1>6, <1>7, <1>8, <1>10, <1>11, <1>12 DEF Inv

(* A step that changes no row and no handler.                               *)
LEMMA RecordStepInv ==
  ASSUME Inv, TypeOK', UNCHANGED <<payments, events, had, pc, req, tx, answer>>,
         unanswered \subseteq unanswered',
         \A c \in Consumers : saga'[c] # saga[c] => SagaKnows(c)',
         \A k \in Keys : \/ cache'[k] = cache[k] \/ cache'[k] = NoRecord
                         \/ Backed(k, cache'[k]),
         \A k \in Keys, r \in Record :
           \/ <<k, r>> \in unanswered' => <<k, r>> \in unanswered
           \/ r = NoRecord \/ (\E body : r = Reserved(body))
           \/ \E p : r = Completed(p) /\ Names(p, k)
  PROVE  Inv'
<1>1. Rows'
  BY DEF Inv, Rows, Committed, OnScale
<1>2. Unique'
  BY DEF Inv, Unique, OnePaymentPerKey, Committed
<1>3. \A g \in Handlers : Knows(g)'
  BY DEF Inv, Knows, InFlight, Names, Committed
<1>4. \A c \in Consumers : SagaKnows(c)'
  BY DEF Inv, SagaKnows, Committed
<1>5. \A k, p : Names(p, k) => Names(p, k)'
  BY DEF Names, Committed
<1>6. \A g \in Handlers : Past(g) => Past(g)' /\ req'[g] = req[g]
  BY DEF Past, InFlight
<1>7. ASSUME NEW k, NEW r, Backed(k, r)
      PROVE  /\ r.status = "COMPLETED" => Names(r.payment, k)'
             /\ r.status = "IN_FLIGHT" =>
                  /\ r = Reserved(r.hash)
                  /\ (\E g \in Handlers : req'[g] = r.hash /\ Past(g)') \/ <<k, r>> \in unanswered'
  BY <1>5, <1>6, <1>7 DEF Backed
<1>8. ASSUME NEW k \in Keys
      PROVE  Backed(k, cache[k])'
  <2>1. CASE cache'[k] = cache[k]
    <3>1. Backed(k, cache[k])
      BY DEF Inv, Records
    <3> QED BY <1>7, <2>1, <3>1 DEF Backed, Names
  <2>2. CASE cache'[k] = NoRecord
    BY <2>2, RecordFacts DEF Backed
  <2>3. CASE Backed(k, cache'[k])
    BY <1>7, <2>3 DEF Backed, Names
  <2> QED BY <2>1, <2>2, <2>3
<1>9. ASSUME NEW k \in Keys, NEW r \in Record, <<k, r>> \in unanswered'
      PROVE  Backed(k, r)'
  <2>1. CASE <<k, r>> \in unanswered
    <3>1. Backed(k, r)
      BY <2>1 DEF Inv, Records
    <3> QED BY <1>7, <3>1 DEF Backed, Names
  <2>2. CASE r = NoRecord
    BY <2>2, RecordFacts DEF Backed
  <2>3. CASE \E body : r = Reserved(body)
    BY <1>9, <2>3, RecordFacts DEF Backed
  <2>4. ASSUME NEW p, r = Completed(p), Names(p, k)
        PROVE  Backed(k, r)'
    BY <1>5, <2>4, RecordFacts DEF Backed, Names
  <2> QED BY <1>9, <2>1, <2>2, <2>3, <2>4
<1> QED BY <1>1, <1>2, <1>3, <1>4, <1>8, <1>9 DEF Inv, Records

(* What a consumer caches is a copy of the row.                             *)
LEMMA SettledFacts ==
  ASSUME Inv, NEW c \in Consumers, saga[c].step = "cache"
  PROVE  /\ Settled(c) \in Payment /\ Settled(c).of.key \in Keys
         /\ Names(Settled(c), Settled(c).of.key)
<1> DEFINE h == saga[c].payment
<1>1. TypeOK /\ Rows /\ saga[c] # Idle
  BY DEF Inv, Idle
<1>2. /\ h \in Committed /\ h \in Handlers /\ payments[h] \in Payment
      /\ payments[h].of.key \in Keys
  BY <1>1, SagaFacts
<1>3. saga[c].status \in had[h] /\ saga[c].status \in Statuses
  BY <1>1, <1>2 DEF Inv, SagaKnows, TypeOK
<1>4. /\ Settled(c) \in Payment /\ Settled(c).id = payments[h].id
      /\ Settled(c).of = payments[h].of /\ Settled(c).status = saga[c].status
  BY <1>2, <1>3 DEF Settled, Payment
<1>5. payments[h].id = h /\ OnScale(payments[h].of) = payments[h].of
  BY <1>1, <1>2, HandlerType, OnScaleFacts DEF Rows
<1> QED BY <1>2, <1>3, <1>4, <1>5 DEF Names

LEMMA SagaInv ==
  ASSUME Inv, NEW c \in Consumers,
         SagaLookup(c) \/ SagaCache(c) \/ SagaEnds(c) \/ SagaNoReply(c)
  PROVE  Inv'
<1>1. TypeOK /\ UNCHANGED <<payments, events, had, pc, req, tx, answer>>
  BY DEF Inv, SagaLookup, SagaCache, SagaEnds, SagaNoReply, tables, handlers
<1>2. Idle \in [step : {"idle", "update", "cache"}, payment : Handlers \cup {NoPayment},
                status : Statuses \cup {"NONE"}]
  BY DEF Idle
<1>3. CASE SagaLookup(c)
  <2>1. PICK h \in Committed :
          saga' = [saga EXCEPT ![c] = [Idle EXCEPT !.step = "update", !.payment = h]]
    BY <1>3 DEF SagaLookup
  <2>2. cache' = cache /\ unanswered' = unanswered
    BY <1>3 DEF SagaLookup, redis
  <2>3. TypeOK'
    BY <1>1, <1>2, <2>1, <2>2 DEF TypeOK, Idle, Committed
  <2>4. \A d \in Consumers : saga'[d] # saga[d] => SagaKnows(d)'
    BY <1>1, <2>1 DEF TypeOK, SagaKnows, Idle, Committed
  <2> QED BY <1>1, <2>2, <2>3, <2>4, RecordStepInv
<1>4. CASE SagaCache(c)
  <2>1. /\ Settled(c) \in Payment /\ Settled(c).of.key \in Keys
        /\ Names(Settled(c), Settled(c).of.key)
    BY <1>4, SettledFacts DEF SagaCache
  <2>2. saga' = [saga EXCEPT ![c] = Idle] /\ unanswered' = unanswered
    BY <1>4 DEF SagaCache
  <2>3. cache' \in [Keys -> Record]
    BY <1>1, <1>4, <2>1, CompleteType DEF SagaCache
  <2>4. TypeOK'
    BY <1>1, <1>2, <2>2, <2>3 DEF TypeOK
  <2>5. \A d \in Consumers : saga'[d] # saga[d] => SagaKnows(d)'
    BY <1>1, <2>2 DEF TypeOK, SagaKnows
  <2>6. \A k \in Keys : cache'[k] = cache[k] \/ Backed(k, cache'[k])
    <3>1. Backed(Settled(c).of.key, Completed(Settled(c)))
      BY <2>1, RecordFacts DEF Backed
    <3> QED BY <1>1, <1>4, <3>1 DEF SagaCache, Complete, TypeOK
  <2> QED BY <1>1, <2>2, <2>4, <2>5, <2>6, RecordStepInv
<1>5. CASE SagaEnds(c)
  <2>1. saga' = [saga EXCEPT ![c] = Idle] /\ cache' = cache /\ unanswered' = unanswered
    BY <1>5 DEF SagaEnds, redis
  <2>2. TypeOK'
    BY <1>1, <1>2, <2>1 DEF TypeOK
  <2>3. \A d \in Consumers : saga'[d] # saga[d] => SagaKnows(d)'
    BY <1>1, <2>1 DEF TypeOK, SagaKnows
  <2> QED BY <1>1, <2>1, <2>2, <2>3, RecordStepInv
<1>6. CASE SagaNoReply(c)
  <2>1. /\ Settled(c) \in Payment /\ Settled(c).of.key \in Keys
        /\ Names(Settled(c), Settled(c).of.key)
    BY <1>6, SettledFacts DEF SagaNoReply
  <2>2. /\ unanswered' = unanswered \cup {<<Settled(c).of.key, Completed(Settled(c))>>}
        /\ saga' = saga /\ cache' = cache
    BY <1>6 DEF SagaNoReply, Unanswered
  <2>3. Completed(Settled(c)) \in Record
    BY <2>1, NoRequestFacts DEF Completed, Record
  <2>4. TypeOK'
    BY <1>1, <2>1, <2>2, <2>3 DEF TypeOK
  <2> QED BY <1>1, <2>1, <2>2, <2>4, RecordStepInv
<1> QED BY <1>3, <1>4, <1>5, <1>6

LEMMA NoReplyInv ==
  ASSUME Inv, NEW h \in Handlers, NoReply(h)
  PROVE  Inv'
<1>1. /\ TypeOK /\ Rows /\ Knows(h) /\ req[h] \in Request
      /\ UNCHANGED <<payments, events, had, cache, pc, req, tx, answer, saga>>
  BY HandlerType DEF Inv, NoReply, tables, handlers
<1>2. PICK record : Sends(h, record) /\ Unanswered(req[h].key, record)
  BY DEF NoReply
<1>3. unanswered' = unanswered \cup {<<req[h].key, record>>}
  BY <1>2 DEF Unanswered
<1>4. req[h].key \in Keys
  BY <1>1, <1>2 DEF Sends, Knows, InFlight
<1>5. /\ record \in Record
      /\ \/ record = NoRecord \/ (\E body : record = Reserved(body))
         \/ \E p : record = Completed(p) /\ Names(p, req[h].key)
  <2>1. CASE pc[h] = "start" /\ record = Reserved(req[h])
    BY <1>1, <2>1 DEF Reserved, Record
  <2>2. CASE pc[h] = "release" /\ record = NoRecord
    BY <2>2, RowFacts
  <2>3. ASSUME NEW p, record = Completed(p), Names(p, req[h].key)
        PROVE  /\ record \in Record
               /\ \/ record = NoRecord \/ (\E body : record = Reserved(body))
                  \/ \E q : record = Completed(q) /\ Names(q, req[h].key)
    BY <2>3, NoRequestFacts DEF Names, Completed, Record
  <2>4. CASE pc[h] = "existing" /\ record = Completed(answer[h].payment)
    BY <1>1, <2>3, <2>4 DEF Knows
  <2>5. CASE pc[h] = "complete" /\ record = Completed(Built(h))
    <3>1. Names(Built(h), req[h].key)
      BY <1>1, <2>5, BuiltFacts, OnScaleFacts, HandlerType DEF Knows, Rows, Names
    <3> QED BY <2>3, <2>5, <3>1
  <2> QED BY <1>2, <2>1, <2>2, <2>4, <2>5 DEF Sends
<1>6. TypeOK'
  BY <1>1, <1>3, <1>4, <1>5 DEF TypeOK
<1>7. \A k \in Keys, r \in Record :
        <<k, r>> \in unanswered' => \/ <<k, r>> \in unanswered
                                  \/ (k = req[h].key /\ r = record)
  BY <1>3
<1>8. \A k \in Keys, r \in Record :
        \/ <<k, r>> \in unanswered' => <<k, r>> \in unanswered
        \/ r = NoRecord \/ (\E body : r = Reserved(body))
        \/ \E p : r = Completed(p) /\ Names(p, k)
  BY <1>5, <1>7
<1> QED BY <1>1, <1>3, <1>6, <1>8, RecordStepInv

LEMMA LateInv ==
  ASSUME Inv, NEW u \in unanswered, Late(u[1], u[2])
  PROVE  Inv'
<1>1. PICK k \in Keys, r \in Record : u = <<k, r>>
  BY DEF Inv, TypeOK
<1>2. TypeOK /\ Backed(k, r)
  BY <1>1 DEF Inv, Records
<1>3. /\ cache' = [cache EXCEPT ![k] = r]
      /\ UNCHANGED <<payments, events, had, unanswered, pc, req, tx, answer, saga>>
  BY <1>1 DEF Late, tables, handlers
<1>4. TypeOK'
  BY <1>2, <1>3 DEF TypeOK
<1>5. \A l \in Keys : cache'[l] = cache[l] \/ Backed(l, cache'[l])
  BY <1>2, <1>3 DEF TypeOK
<1> QED BY <1>2, <1>3, <1>4, <1>5, RecordStepInv

LEMMA RecordExpiresInv ==
  ASSUME Inv, NEW k \in Keys, RecordExpires(k)
  PROVE  Inv'
<1>1. TypeOK /\ cache' = [cache EXCEPT ![k] = NoRecord]
      /\ UNCHANGED <<payments, events, had, unanswered, pc, req, tx, answer, saga>>
  BY DEF Inv, RecordExpires, tables, handlers
<1>2. TypeOK'
  BY <1>1, RowFacts DEF TypeOK
<1> QED BY <1>1, <1>2, RecordStepInv DEF TypeOK

LEMMA InitInv == Init => Inv
<1> SUFFICES ASSUME Init PROVE Inv
  OBVIOUS
<1> USE DEF Init
<1>1. TypeOK
  <2>1. Idle \in [step : {"idle", "update", "cache"}, payment : Handlers \cup {NoPayment},
                  status : Statuses \cup {"NONE"}]
    BY DEF Idle
  <2> QED BY <2>1, NoRequestFacts, RowFacts DEF TypeOK
<1>2. Committed = {}
  BY DEF Committed
<1>3. Rows /\ Unique
  BY <1>2, RowFacts DEF Rows, Unique, OnePaymentPerKey
<1>4. (\A h \in Handlers : Knows(h)) /\ Records
  BY RowFacts DEF Knows, InFlight, Records, Backed
<1>5. \A c \in Consumers : SagaKnows(c)
  BY DEF SagaKnows
<1> QED BY <1>1, <1>3, <1>4, <1>5 DEF Inv

LEMMA NextInv == Inv /\ [Next]_vars => Inv'
<1> SUFFICES ASSUME Inv, [Next]_vars PROVE Inv'
  OBVIOUS
<1>1. CASE \E h \in Handlers : Step(h)
  BY <1>1, RequestInv, NoReplyInv DEF Step, RequestStep
<1>2. CASE \/ \E k \in Keys : RecordExpires(k)
           \/ \E u \in unanswered : Late(u[1], u[2])
  BY <1>2, RecordExpiresInv, LateInv
<1>4. CASE \E c \in Consumers : SagaStep(c)
  BY <1>4, SagaUpdateInv, SagaInv DEF SagaStep
<1>3. CASE UNCHANGED vars
  <2>1. TypeOK'
    BY <1>3 DEF Inv, TypeOK, vars
  <2> QED BY <1>3, <2>1, RecordStepInv DEF vars
<1> QED BY <1>1, <1>2, <1>3, <1>4 DEF Next, Terminated

-----------------------------------------------------------------------------
(* The safety properties *)

LEMMA Invariance == Spec => []Inv
<1> QED BY InitInv, NextInv, PTL DEF Spec

(* Type correctness; CreatePayment has a transaction open exactly between   *)
(* its first INSERT and COMMIT or ROLLBACK.                                 *)
THEOREM TypeCorrect == Spec => []TypeOK
<1>1. Inv => TypeOK
  BY DEF Inv
<1> QED BY <1>1, Invariance, PTL

(* At most one payment is ever committed under an idempotency key, whatever *)
(* becomes of the Redis records: the UNIQUE index makes an INSERT wait for  *)
(* an open transaction of the key and fail on a committed row.              *)
THEOREM KeyChargedOnce == Spec => []OnePaymentPerKey
<1>1. Inv => OnePaymentPerKey
  BY DEF Inv, Unique
<1> QED BY <1>1, Invariance, PTL

(* A payment is committed exactly when its PaymentCreated event is.         *)
THEOREM EventWithPayment == Spec => []OneEventPerPayment
<1>1. Inv => OneEventPerPayment
  BY DEF Inv, Rows, OneEventPerPayment
<1> QED BY <1>1, Invariance, PTL

(* A COMPLETED record names a committed payment of its key, in a status     *)
(* that its row has or has had, whichever of the handlers, the consumers    *)
(* and the commands left unanswered wrote it last.                          *)
THEOREM CacheCommitted == Spec => []CacheIsCommitted
<1>1. Inv => CacheIsCommitted
  BY DEF Inv, Records, Backed, Names, CacheIsCommitted
<1> QED BY <1>1, Invariance, PTL

(* "Already being processed" is answered only because of another request    *)
(* with the same key and body that got past the idempotency check, or of a  *)
(* SETNX of one, perhaps this request's own, that Redis left unanswered.    *)
THEOREM InFlightCause == Spec => InFlightAnswerHasCause
<1> DEFINE Cause(h) ==
      answer[h].kind # "in_flight" /\ answer'[h].kind = "in_flight"
        => \/ \E g \in Handlers \ {h} :
                /\ req[g] = req[h]
                /\ \/ InFlight(g) \/ pc[g] = "crashed"
                   \/ answer[g].kind \in {"created", "existing", "parameters", "failed"}
           \/ <<req[h].key, Reserved(req[h])>> \in unanswered
<1>1. ASSUME Inv, [Next]_vars, NEW h \in Handlers
      PROVE  Cause(h)
  <2> SUFFICES ASSUME answer[h].kind # "in_flight", answer'[h].kind = "in_flight"
               PROVE  \/ \E g \in Handlers \ {h} : req[g] = req[h] /\ Past(g)
                      \/ <<req[h].key, Reserved(req[h])>> \in unanswered
    BY DEF Past
  <2> USE <1>1
  <2>1. TypeOK /\ answer[h] \in Answer
    BY HandlerType DEF Inv
  <2>2. \E g \in Handlers : RequestStep(g)
    BY DEF Next, Step, RequestStep, NoReply, SagaStep, SagaLookup, SagaUpdate, SagaCache,
       SagaEnds, SagaNoReply, Late, RecordExpires, Terminated, vars, handlers
  <2>3. RequestStep(h)
    BY <2>1, <2>2, OthersUntouched DEF Others
  <2>4. Get(h)
    <3> USE <2>1 DEF TypeOK, Respond, Answer
    <3>1. ~Receive(h) /\ ~Start(h) /\ ~CompleteExisting(h) /\ ~CompleteCreated(h)
      BY DEF Receive, Start, CompleteExisting, CompleteCreated
    <3>2. ~Lookup(h)
      BY DEF Lookup
    <3>3. ~InsertPayment(h) /\ ~InsertEvent(h) /\ ~Commit(h) /\ ~StatementFails(h)
      BY DEF InsertPayment, InsertEvent, Commit, StatementFails
    <3>4. ~Release(h) /\ ~Rollback(h) /\ ~Crash(h)
      BY RowFacts DEF Release, Rollback, Crash
    <3> QED BY <2>3, <3>1, <3>2, <3>3, <3>4 DEF RequestStep
  <2>5. pc[h] = "get" /\ req[h].key \in Keys
    BY <2>4 DEF Get, Inv, Knows, InFlight
  <2>6. cache[req[h].key].status = "IN_FLIGHT" /\ cache[req[h].key].hash = req[h]
    BY <2>1, <2>4 DEF Get, Respond, TypeOK
  <2>7. \/ \E g \in Handlers : req[g] = req[h] /\ Past(g)
        \/ <<req[h].key, Reserved(req[h])>> \in unanswered
    BY <2>5, <2>6 DEF Inv, Records, Backed
  <2>8. ~Past(h)
    BY <2>5 DEF Past
  <2> QED BY <2>7, <2>8
<1>2. Inv /\ [Next]_vars => [\A h \in Handlers : Cause(h)]_vars
  BY <1>1
<1> QED BY <1>2, Invariance, PTL DEF Spec, InFlightAnswerHasCause

-----------------------------------------------------------------------------
(* The contract with the clients *)

LEMMA TheRow ==
  ASSUME NEW S, NEW r \in S, \A q \in S : q = r
  PROVE  S # {} /\ (CHOOSE row \in S : TRUE) = r
OBVIOUS

(* The payment of a key is its committed row, with that row's history.      *)
KeyRow(k) ==
  /\ (\A h \in Committed : payments[h].of.key # k) => book[k] = NoRow /\ past[k] = {}
  /\ \A h \in Committed : payments[h].of.key = k => book[k] = payments[h] /\ past[k] = had[h]

LEMMA BookOf == Inv => \A k \in Keys : KeyRow(k)
<1> SUFFICES ASSUME Inv, NEW k \in Keys PROVE KeyRow(k)
  OBVIOUS
<1>1. \A g, h \in Committed : payments[g].of.key = payments[h].of.key => g = h
  BY DEF Inv, Unique, OnePaymentPerKey
<1> DEFINE Of == {g \in Committed : payments[g].of.key = k}
<1>2. ASSUME \A h \in Committed : payments[h].of.key # k
      PROVE  book[k] = NoRow /\ past[k] = {}
  <2>1. RowsOfKey(k) = {}
    BY <1>2 DEF RowsOfKey
  <2>2. UNION {had[g] : g \in Of} = {}
    BY <1>2
  <2> QED BY <2>1, <2>2 DEF book, past
<1>3. ASSUME NEW h \in Committed, payments[h].of.key = k
      PROVE  book[k] = payments[h] /\ past[k] = had[h]
  <2>1. payments[h] \in RowsOfKey(k)
    BY <1>3 DEF RowsOfKey
  <2>2. \A row \in RowsOfKey(k) : row = payments[h]
    BY <1>1, <1>3 DEF RowsOfKey
  <2>3. RowsOfKey(k) # {} /\ (CHOOSE row \in RowsOfKey(k) : TRUE) = payments[h]
    BY <2>1, <2>2, TheRow
  <2>4. Of = {h}
    BY <1>1, <1>3
  <2>5. UNION {had[g] : g \in Of} = had[h]
    BY <2>4
  <2> QED BY <2>3, <2>5 DEF book, past
<1> QED BY <1>2, <1>3 DEF KeyRow

LEMMA BookOfNext == Inv' => (\A k \in Keys : KeyRow(k))'
BY BookOf, PTL

LEMMA CopyOf ==
  ASSUME NEW p \in Payment, NEW q \in Payment, p.id = q.id, OnScale(p.of) = q.of
  PROVE  [p EXCEPT !.of = OnScale(@)] = [q EXCEPT !.status = p.status]
BY DEF Payment

(* What a client sees of a step of its request.                             *)
LEMMA ReplyStep ==
  ASSUME TypeOK, NEW h \in Handlers, RequestStep(h)
  PROVE  /\ pc[h] # "done" /\ reply[h] = NoAnswer
         /\ reply' = [reply EXCEPT ![h] = IF pc'[h] = "done" THEN Told(answer'[h]) ELSE NoAnswer]
<1>1. Others(h)
  BY OthersUntouched
<1>2. pc[h] # "done"
  BY DEF RequestStep, Receive, Start, Get, Lookup, CompleteExisting, InsertPayment, InsertEvent,
     Commit, CompleteCreated, StatementFails, Release, Rollback, Crash, InFlight
<1>3. \A g \in Handlers \ {h} : reply'[g] = reply[g]
  BY <1>1 DEF Others, reply, Told
<1> QED BY <1>2, <1>3 DEF reply, Told

(* The steps of a request, one by one, as steps of the contract.            *)
LEMMA ContractStep ==
  ASSUME Inv, Inv', NEW h \in Handlers, RequestStep(h)
  PROVE  [Contract!Next]_(Contract!vars)
<1>1. /\ TypeOK /\ TypeOK' /\ Rows /\ Knows(h) /\ Others(h) /\ req[h] \in Request
      /\ pc[h] # "done" /\ reply[h] = NoAnswer
      /\ reply' = [reply EXCEPT ![h] = IF pc'[h] = "done" THEN Told(answer'[h]) ELSE NoAnswer]
  BY OthersUntouched, ReplyStep, HandlerType DEF Inv
<1>2. /\ req' = req => asked' = asked
      /\ payments' = payments /\ had' = had => book' = book /\ past' = past
      /\ pc'[h] # "done" => reply' = reply
  <2>1. req' = req => asked' = asked
    BY DEF asked
  <2>2. payments' = payments /\ had' = had => book' = book /\ past' = past
    BY DEF book, past, RowsOfKey, Committed
  <2>3. pc'[h] # "done" => reply' = reply
    BY <1>1 DEF reply
  <2> QED BY <2>1, <2>2, <2>3
<1>3. /\ asked[h] = OnScale(req[h])
      /\ InFlight(h) => asked[h] # NoRequest /\ asked[h].key = req[h].key /\ req[h].key \in Keys
  BY <1>1, OnScaleFacts, NoRequestFacts DEF asked, Knows, InFlight
<1>4. \A kind : Told([kind |-> kind, payment |-> NoRow]) = [kind |-> kind, payment |-> NoRow]
  BY DEF Told
<1> USE DEF Contract!Next, Contract!vars, Goto, tables
<1>5. ASSUME NEW kind \in Refusals, InFlight(h), req' = req, payments' = payments, had' = had,
             Respond(h, kind, NoRow), kind = "parameters" => book[req[h].key] # NoRow
      PROVE  Contract!Serve(h)
  <2>1. reply' = [reply EXCEPT ![h] = [kind |-> kind, payment |-> NoRow]]
    BY <1>1, <1>4, <1>5 DEF Respond, TypeOK
  <2> QED BY <1>1, <1>2, <1>3, <1>5, <2>1 DEF Contract!Serve, Contract!Refuse, Contract!Reply,
          Contract!Refusals, Contract!NoReply, NoAnswer, Refusals
<1>6. ASSUME NEW kind \in {"cached", "existing", "created"}, NEW p, InFlight(h), req' = req,
             payments' = payments, had' = had, Respond(h, kind, p), Names(p, req[h].key),
             kind # "cached" => p.of = req[h], kind = "created" => p.id = h
      PROVE  Contract!Serve(h)
  <2>1. PICK g \in Committed : /\ payments[g].of.key = req[h].key
                               /\ p \in Payment /\ p.id = g
                               /\ OnScale(p.of) = payments[g].of
                               /\ p.status \in had[g]
    BY <1>6 DEF Names
  <2> DEFINE kept == book[asked[h].key]
             copy == [kept EXCEPT !.status = p.status]
  <2>2. /\ kept = payments[g] /\ kept \in Payment /\ kept # NoRow /\ kept.id = p.id
        /\ past[asked[h].key] = had[g]
    BY <1>1, <1>3, <1>6, <2>1, BookOf, HandlerType, RowFacts DEF KeyRow, Rows, Committed
  <2>3. [p EXCEPT !.of = OnScale(@)] = copy
    BY <2>1, <2>2, CopyOf
  <2>4. Told([kind |-> kind, payment |-> p]) = [kind |-> kind, payment |-> copy]
    <3>1. p # NoRow
      BY <2>1, RowFacts
    <3>2. Told([kind |-> kind, payment |-> p]) =
            [kind |-> kind, payment |-> [p EXCEPT !.of = OnScale(@)]]
      BY <3>1 DEF Told
    <3> QED BY <2>3, <3>2
  <2>5. reply' = [reply EXCEPT ![h] = [kind |-> kind, payment |-> copy]]
    BY <1>1, <1>6, <2>4 DEF Respond, TypeOK
  <2>6. Contract!Answer(h, kept)
    <3>1. p.status \in past[asked[h].key]
      BY <2>1, <2>2
    <3>2. kind # "cached" => kept.of = asked[h]
      BY <1>3, <1>6, <2>1, <2>2
    <3>3. kind = "created" => kept.id = h
      BY <1>6, <2>2
    <3> HIDE DEF kept
    <3> QED BY <1>2, <1>6, <2>2, <2>5, <3>1, <3>2, <3>3 DEF Contract!Answer, Contract!Reply
  <2> QED BY <1>1, <1>3, <1>6, <2>6 DEF Contract!Serve, Contract!NoReply, NoAnswer

<1>7. CASE Receive(h)
  <2>1. PICK r \in Requests :
          /\ req' = [req EXCEPT ![h] = Normal(r)]
          /\ IF Invalid(r) THEN Respond(h, "invalid", NoRow)
                           ELSE Goto(h, "start") /\ UNCHANGED answer
    BY <1>7 DEF Receive
  <2>2. asked[h] = NoRequest
    BY <1>1, <1>3, <1>7, NoRequestFacts DEF Receive, Knows
  <2>3. asked' = [asked EXCEPT ![h] = OnScale(Normal(r))]
    BY <1>1, <2>1 DEF asked, TypeOK
  <2>4. book' = book /\ past' = past
    BY <1>2, <1>7 DEF Receive
  <2>5. reply' = reply \/ reply' = [reply EXCEPT ![h] = [kind |-> "invalid", payment |-> NoRow]]
    <3>1. CASE Invalid(r)
      <4>1. pc'[h] = "done" /\ answer'[h] = [kind |-> "invalid", payment |-> NoRow]
        BY <1>1, <2>1, <3>1 DEF Respond, TypeOK
      <4>2. reply' = [reply EXCEPT ![h] = Told(answer'[h])]
        BY <1>1, <4>1
      <4> QED BY <1>4, <4>1, <4>2
    <3>2. CASE ~Invalid(r)
      BY <1>1, <1>2, <2>1, <3>2 DEF TypeOK
    <3> QED BY <3>1, <3>2
  <2>6. Contract!Ask(h)
    BY <2>2, <2>3, <2>4, <2>5 DEF Contract!Ask, Contract!Reply
  <2> QED BY <2>6
<1>8. CASE Get(h)
  <2>1. InFlight(h) /\ req' = req /\ payments' = payments /\ had' = had
    BY <1>8 DEF Get, InFlight
  <2>2. CASE UNCHANGED answer /\ Goto(h, "lookup")
    BY <1>1, <1>2, <2>1, <2>2 DEF TypeOK
  <2>3. CASE \E kind \in {"conflict", "in_flight"} : Respond(h, kind, NoRow)
    BY <1>5, <2>1, <2>3 DEF Refusals
  <2>4. CASE /\ cache[req[h].key].status = "COMPLETED"
             /\ Respond(h, "cached", cache[req[h].key].payment)
    <3>1. Names(cache[req[h].key].payment, req[h].key)
      BY <1>3, <2>1, <2>4 DEF Inv, Records, Backed
    <3> QED BY <1>6, <2>1, <2>4, <3>1
  <2> QED BY <1>8, <2>2, <2>3, <2>4 DEF Get
<1>9. CASE Lookup(h)
  <2>1. InFlight(h) /\ req' = req /\ payments' = payments /\ had' = had
    BY <1>9 DEF Lookup, InFlight
  <2>2. CASE pc'[h] # "done"
    BY <1>2, <2>1, <2>2
  <2>3. CASE Respond(h, "failed", NoRow)
    BY <1>5, <2>1, <2>3 DEF Refusals
  <2>4. CASE RowsOfKey(req[h].key) # {} /\ Respond(h, "parameters", NoRow)
    <3>1. book[req[h].key] # NoRow
      BY <1>3, <2>1, <2>4, BookOf DEF KeyRow, RowsOfKey, Committed
    <3> QED BY <1>5, <2>1, <2>4, <3>1 DEF Refusals
  <2> QED BY <1>1, <1>9, <2>2, <2>3, <2>4 DEF Lookup, TypeOK
<1>10. CASE CompleteExisting(h)
  BY <1>1, <1>6, <1>10 DEF CompleteExisting, InFlight, Knows
<1>11. CASE CompleteCreated(h)
  <2>1. Names(Built(h), req[h].key)
    BY <1>1, <1>11, BuiltFacts, OnScaleFacts, HandlerType
       DEF CompleteCreated, Knows, Rows, Names
  <2> QED BY <1>1, <1>6, <1>11, <2>1, BuiltFacts DEF CompleteCreated, InFlight
<1>12. CASE Commit(h)
  <2> DEFINE key == req[h].key
  <2>1. /\ payments' = [payments EXCEPT ![h] = Stored(h)] /\ req' = req
        /\ had' = [had EXCEPT ![h] = {"PENDING"}]
        /\ tx[h] # "none" /\ InFlight(h) /\ pc'[h] # "done"
    BY <1>1, <1>12 DEF Commit, TypeOK, InFlight
  <2>2. h \notin Committed /\ \A g \in Committed : payments[g].of.key # key
    BY <1>1, <1>12, <2>1 DEF Inv, Unique, Rows, Commit, Returning
  <2>3. /\ payments'[h] = [id |-> h, of |-> asked[h], status |-> "PENDING"]
        /\ payments'[h].of.key = key
        /\ Committed' = Committed \cup {h}
        /\ \A g \in Committed : payments'[g] = payments[g] /\ had'[g] = had[g]
        /\ had'[h] = {"PENDING"}
    <3>1. payments'[h] = Stored(h) /\ Stored(h) \in Payment /\ Stored(h).of.key = key
      BY <1>1, <2>1, BuiltFacts, OnScaleFacts DEF TypeOK
    <3>2. Stored(h) = [id |-> h, of |-> asked[h], status |-> "PENDING"]
      BY <1>3 DEF Stored, OnScale
    <3>3. /\ \A g \in Handlers \ {h} : payments'[g] = payments[g] /\ had'[g] = had[g]
          /\ had'[h] = {"PENDING"}
      BY <1>1, <2>1 DEF TypeOK
    <3>4. Committed' = Committed \cup {h}
      BY <3>1, <3>3, RowFacts DEF Committed
    <3> QED BY <2>2, <3>1, <3>2, <3>3, <3>4 DEF Committed
  <2>4. book[key] = NoRow
    BY <1>3, <2>1, <2>2, BookOf DEF KeyRow
  <2>5. book'[key] = payments'[h] /\ past'[key] = {"PENDING"}
    BY <1>3, <2>1, <2>3, BookOfNext DEF KeyRow
  <2>6. ASSUME NEW k \in Keys, k # key
        PROVE  book'[k] = book[k] /\ past'[k] = past[k]
    <3>1. CASE \E g \in Committed : payments[g].of.key = k
      BY <2>3, <2>6, <3>1, BookOf, BookOfNext DEF KeyRow
    <3>2. CASE \A g \in Committed : payments[g].of.key # k
      <4>1. book[k] = NoRow /\ past[k] = {}
        BY <3>2, BookOf DEF KeyRow
      <4>2. \A g \in Committed' : payments'[g].of.key # k
        BY <2>3, <2>6, <3>2
      <4>3. book'[k] = NoRow /\ past'[k] = {}
        BY <4>2, BookOfNext DEF KeyRow
      <4> QED BY <4>1, <4>3
    <3> QED BY <3>1, <3>2
  <2>7. /\ book' = [book EXCEPT ![key] = payments'[h]]
        /\ past' = [past EXCEPT ![key] = {"PENDING"}]
    BY <2>5, <2>6 DEF book, past
  <2>8. Contract!Serve(h)
    BY <1>1, <1>2, <1>3, <2>1, <2>3, <2>4, <2>7 DEF Contract!Serve, Contract!Pay,
       Contract!NoReply, NoAnswer
  <2> QED BY <2>8
<1>13. CASE Rollback(h)
  BY <1>5, <1>13 DEF Rollback, InFlight, Refusals
<1>14. CASE Start(h) \/ InsertPayment(h) \/ InsertEvent(h) \/ StatementFails(h) \/ Release(h)
            \/ Crash(h)
  <2>1. req' = req /\ payments' = payments /\ had' = had /\ pc'[h] # "done"
    BY <1>1, <1>14 DEF Start, InsertPayment, InsertEvent, StatementFails, Release, Crash, TypeOK
  <2> QED BY <1>2, <2>1
<1> QED BY <1>7, <1>8, <1>9, <1>10, <1>11, <1>12, <1>13, <1>14 DEF RequestStep

LEMMA ContractSettle ==
  ASSUME Inv, Inv', NEW c \in Consumers, SagaUpdate(c)
  PROVE  Contract!Next
<1>0. PICK h : h = saga[c].payment
  OBVIOUS
<1> DEFINE key == payments[h].of.key
<1>1. /\ h \in Committed /\ h \in Handlers /\ payments[h] \in Payment /\ key \in Keys
      /\ UNCHANGED <<pc, req, answer>> /\ Committed' = Committed
      /\ \A g \in Handlers \ {h} : payments'[g] = payments[g] /\ had'[g] = had[g]
  BY <1>0, SagaUpdateStep
<1>2. PICK s \in {"SUCCESS", "FAILED"} : Writes(c, h, s)
  BY <1>0, SagaUpdateStep
<1> USE DEF Writes
<1>3. /\ book[key] = payments[h] /\ book'[key] = payments'[h]
      /\ past[key] = had[h] /\ past'[key] = had'[h]
  <2>1. book[key] = payments[h] /\ past[key] = had[h]
    BY <1>1, BookOf DEF KeyRow
  <2>2. h \in Committed' /\ payments'[h].of.key = key
    BY <1>1, <1>2
  <2>3. book'[key] = payments'[h] /\ past'[key] = had'[h]
    BY <1>1, <2>2, BookOfNext DEF KeyRow
  <2> QED BY <2>1, <2>3
<1>4. ASSUME NEW k \in Keys, k # key
      PROVE  book'[k] = book[k] /\ past'[k] = past[k]
  <2>1. \A g \in Committed : payments'[g].of = payments[g].of
    BY <1>1, <1>2 DEF Committed
  <2>2. \A g \in Committed : payments[g].of.key = k => payments'[g] = payments[g] /\ had'[g] = had[g]
    BY <1>1, <1>4 DEF Committed
  <2>3. CASE \E g \in Committed : payments[g].of.key = k
    BY <1>1, <2>1, <2>2, <2>3, BookOf, BookOfNext DEF KeyRow
  <2>4. CASE \A g \in Committed : payments[g].of.key # k
    <3>1. book[k] = NoRow /\ past[k] = {}
      BY <2>4, BookOf DEF KeyRow
    <3>2. \A g \in Committed' : payments'[g].of.key # k
      BY <1>1, <2>1, <2>4
    <3>3. book'[k] = NoRow /\ past'[k] = {}
      BY <3>2, BookOfNext DEF KeyRow
    <3> QED BY <3>1, <3>3
  <2> QED BY <2>3, <2>4
<1>5. /\ book' = [book EXCEPT ![key].status = s]
      /\ past' = [past EXCEPT ![key] = @ \cup {s}]
  <2>1. /\ book'[key] = [book[key] EXCEPT !.status = s]
        /\ past'[key] = past[key] \cup {s}
    BY <1>2, <1>3
  <2>2. /\ book = [k \in Keys |-> book[k]] /\ book' = [k \in Keys |-> book'[k]]
        /\ past = [k \in Keys |-> past[k]] /\ past' = [k \in Keys |-> past'[k]]
    BY DEF book, past
  <2> QED BY <1>1, <1>4, <2>1, <2>2
<1>6. asked' = asked /\ reply' = reply
  BY <1>1 DEF asked, reply, OnScale, Told
<1>7. book[key] # NoRow
  BY <1>1, <1>3, RowFacts
<1>8. Contract!Settle(key)
  BY <1>5, <1>6, <1>7 DEF Contract!Settle
<1> QED BY <1>1, <1>8 DEF Contract!Next

LEMMA ContractInit == Init => Contract!Init
<1> SUFFICES ASSUME Init PROVE Contract!Init
  OBVIOUS
<1>1. \A k : RowsOfKey(k) = {}
  BY DEF Init, RowsOfKey, Committed
<1>2. past = [k \in Keys |-> {}]
  BY DEF Init, past, Committed
<1> QED BY <1>1, <1>2, NoRequestFacts DEF Init, Contract!Init, Contract!NoReply, book, asked, reply,
        NoAnswer

LEMMA ContractNext == Inv /\ Inv' /\ [Next]_vars => [Contract!Next]_(Contract!vars)
<1> SUFFICES ASSUME Inv, Inv', [Next]_vars PROVE [Contract!Next]_(Contract!vars)
  OBVIOUS
<1>1. CASE \E h \in Handlers : RequestStep(h)
  BY <1>1, ContractStep
<1>2. CASE \E c \in Consumers : SagaUpdate(c)
  BY <1>2, ContractSettle
<1>3. CASE UNCHANGED <<payments, had, pc, req, answer>>
  BY <1>3 DEF Contract!vars, book, past, asked, reply, RowsOfKey, Committed, OnScale, Told
<1> QED BY <1>1, <1>2, <1>3 DEF Next, Step, RequestStep, NoReply, SagaStep, SagaLookup, SagaCache,
        SagaEnds, SagaNoReply, Late, RecordExpires, Terminated, vars, tables, handlers

(* The service implements the contract: to its clients it is one map from   *)
(* keys to payments, each made once, and every answer is about the payment  *)
(* of the request's key, in a status that it has or has had.                *)
THEOREM Refinement == Spec => ImplementsContract
<1> QED BY InitInv, NextInv, ContractInit, ContractNext, PTL DEF Spec, ImplementsContract,
        Contract!Spec

-----------------------------------------------------------------------------
(* What the clients of one key are told *)

Informed(h) == pc[h] = "done" /\ answer[h].payment # NoRow

(* Every answer 201 names the committed payment of the request's key, in a  *)
(* status that it has or has had; unless it comes from the cache it is      *)
(* about what the request asked for, and "created" about its own payment.   *)
ToldTrue(h) ==
  Informed(h) =>
    /\ Names(answer[h].payment, req[h].key)
    /\ answer[h].kind # "cached" => answer[h].payment.of = req[h]
    /\ answer[h].kind = "created" => answer[h].payment.id = h

(* Two requests with the same key that are told of a payment are told of    *)
(* the same one, in statuses that its row has or has had; one of them at    *)
(* most is told that it made it.  (They may be told of two outcomes, but    *)
(* only of a payment that two replicas have settled differently.)           *)
AnswersAgree ==
  \A g, h \in Handlers :
    Informed(g) /\ Informed(h) /\ req[g].key = req[h].key =>
      /\ answer[g].payment.id = answer[h].payment.id
      /\ OnScale(answer[g].payment.of) = OnScale(answer[h].payment.of)
      /\ {answer[g].payment.status, answer[h].payment.status} \subseteq had[answer[g].payment.id]
      /\ answer[g].kind = "created" /\ answer[h].kind = "created" => g = h

LEMMA ToldInv ==
  ASSUME Inv, Inv', NEW h \in Handlers, RequestStep(h), NEW g \in Handlers, ToldTrue(g)
  PROVE  ToldTrue(g)'
<1>1. /\ TypeOK /\ TypeOK' /\ Rows /\ Records /\ Knows(h) /\ Others(h)
      /\ \A k, p : Names(p, k) => Names(p, k)'
  BY OthersUntouched, PaymentsEvolve, NamesKept DEF Inv
<1>2. CASE g # h
  <2>1. /\ Informed(g)' = Informed(g)
        /\ answer'[g] = answer[g] /\ req'[g] = req[g]
    BY <1>1, <1>2 DEF Others, Informed
  <2> QED BY <1>1, <2>1 DEF ToldTrue, Names
<1>3. CASE g = h
  <2> SUFFICES ASSUME pc'[h] = "done", answer'[h].payment # NoRow
               PROVE  ToldTrue(h)'
    BY <1>3 DEF ToldTrue, Informed
  <2>1. /\ req[h] \in Request /\ pc[h] # "done"
        /\ DOMAIN pc = Handlers /\ DOMAIN answer = Handlers
    BY <1>1, HandlerType, ReplyStep DEF TypeOK
  <2>2. ASSUME NEW kind, NEW p, Respond(h, kind, p), req' = req,
               p # NoRow => Names(p, req[h].key),
               kind # "cached" => p.of = req[h], kind = "created" => p.id = h
        PROVE  ToldTrue(h)'
    <3>1. answer'[h] = [kind |-> kind, payment |-> p]
      BY <2>1, <2>2 DEF Respond
    <3>2. p # NoRow /\ Names(p, req[h].key)'
      BY <1>1, <2>2, <3>1
    <3> QED BY <2>2, <3>1, <3>2 DEF ToldTrue, Names
  <2>3. CASE Get(h)
    <3>1. req[h].key \in Keys /\ req' = req
      BY <1>1, <2>3 DEF Get, Knows, InFlight
    <3>2. cache[req[h].key].status = "COMPLETED"
          /\ Respond(h, "cached", cache[req[h].key].payment)
      BY <2>1, <2>3 DEF Get, Respond, Goto
    <3>3. Names(cache[req[h].key].payment, req[h].key)
      BY <1>1, <3>1, <3>2 DEF Records, Backed
    <3> QED BY <2>2, <3>1, <3>2, <3>3
  <2>4. CASE CompleteExisting(h)
    BY <1>1, <2>2, <2>4 DEF CompleteExisting, Knows
  <2>5. CASE CompleteCreated(h)
    <3>1. /\ Names(Built(h), req[h].key)
          /\ Built(h).of = req[h] /\ Built(h).id = h
      BY <1>1, <2>1, <2>5, BuiltFacts, OnScaleFacts, HandlerType
         DEF CompleteCreated, Knows, Rows, Names
    <3> QED BY <2>2, <2>5, <3>1 DEF CompleteCreated
  <2>6. CASE Receive(h) \/ Lookup(h) \/ Rollback(h)
    BY <2>1, <2>6 DEF Receive, Lookup, Rollback, Respond, Goto
  <2>7. CASE Start(h) \/ InsertPayment(h) \/ InsertEvent(h) \/ Commit(h) \/ StatementFails(h)
             \/ Release(h) \/ Crash(h)
    BY <2>1, <2>7 DEF Start, InsertPayment, InsertEvent, Commit, StatementFails, Release,
       Crash, Goto
  <2> QED BY <2>3, <2>4, <2>5, <2>6, <2>7 DEF RequestStep
<1> QED BY <1>2, <1>3

LEMMA AllToldTrue == Spec => [](\A h \in Handlers : ToldTrue(h))
<1> DEFINE True == \A h \in Handlers : ToldTrue(h)
<1>1. Init => True
  BY DEF Init, ToldTrue, Informed
<1>2. Inv /\ Inv' /\ True /\ [Next]_vars => True'
  <2> SUFFICES ASSUME Inv, Inv', True, [Next]_vars, NEW g \in Handlers
               PROVE  ToldTrue(g)'
    OBVIOUS
  <2>1. CASE \E h \in Handlers : RequestStep(h)
    BY <2>1, ToldInv
  <2>2. CASE \E c \in Consumers : SagaUpdate(c)
    <3>1. UNCHANGED handlers
      BY <2>2 DEF SagaUpdate
    <3>2. \A k, p : Names(p, k) => Names(p, k)'
      BY <2>2, SagaUpdateInv, NamesKept DEF Inv
    <3> QED BY <3>1, <3>2 DEF ToldTrue, Informed, Names, handlers
  <2>3. CASE UNCHANGED <<payments, had, pc, req, answer>>
    BY <2>3 DEF ToldTrue, Informed, Names, Committed
  <2> QED BY <2>1, <2>2, <2>3 DEF Next, Step, RequestStep, NoReply, SagaStep, SagaLookup, SagaCache,
          SagaEnds, SagaNoReply, Late, RecordExpires, Terminated, vars, tables, handlers
<1> QED BY <1>1, <1>2, Invariance, PTL DEF Spec

(* Clients that retry with one idempotency key are told of one payment,     *)
(* whichever layer answers them (the Redis record, the row, or the          *)
(* transaction that made it), and of statuses that the payment has had; one *)
(* of them at most hears "created".                                         *)
THEOREM RetriesAgree == Spec => []AnswersAgree
<1>1. Inv /\ (\A h \in Handlers : ToldTrue(h)) => AnswersAgree
  <2> SUFFICES ASSUME Inv, \A h \in Handlers : ToldTrue(h), NEW g \in Handlers, NEW h \in Handlers,
                      Informed(g), Informed(h), req[g].key = req[h].key
               PROVE  /\ answer[g].payment.id = answer[h].payment.id
                      /\ OnScale(answer[g].payment.of) = OnScale(answer[h].payment.of)
                      /\ {answer[g].payment.status, answer[h].payment.status}
                           \subseteq had[answer[g].payment.id]
                      /\ answer[g].kind = "created" /\ answer[h].kind = "created" => g = h
    BY DEF AnswersAgree
  <2> DEFINE Copy(p, f) ==
        /\ payments[f].of.key = req[h].key
        /\ p.id = f
        /\ OnScale(p.of) = payments[f].of
        /\ p.status \in had[f]
  <2>1. PICK a \in Committed : Copy(answer[g].payment, a)
    BY DEF ToldTrue, Names
  <2>2. PICK b \in Committed : Copy(answer[h].payment, b)
    BY DEF ToldTrue, Names
  <2>3. a = b
    BY <2>1, <2>2 DEF Inv, Unique, OnePaymentPerKey
  <2>4. answer[g].kind = "created" /\ answer[h].kind = "created" => g = h
    BY <2>1, <2>2, <2>3 DEF ToldTrue
  <2> QED BY <2>1, <2>2, <2>3, <2>4
<1> QED BY <1>1, Invariance, AllToldTrue, PTL
=============================================================================
