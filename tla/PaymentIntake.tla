---------------------------- MODULE PaymentIntake ----------------------------
(***************************************************************************)
(* POST /payments: the payment service's CreatePayment handler, the Redis  *)
(* idempotency records it keeps under idempotency:<key>, and the           *)
(* PostgreSQL transaction that inserts a payment together with its outbox  *)
(* event.  The calls by which the saga's ProcessFraudResult meets the      *)
(* handlers on the same rows and records are here too: it reads a row,     *)
(* writes its final status, and caches a copy of it.                       *)
(*                                                                         *)
(* One handler is one request, on any replica; each call to Redis or to    *)
(* PostgreSQL is a step.  A payment's id is the handler that made it       *)
(* (generateUUID never repeats).  Amounts are counted as in AccountLedger, *)
(* in halves of the last digit of NUMERIC(18,4).                           *)
(***************************************************************************)
EXTENDS Integers, FiniteSets

CONSTANTS
  Handlers,    \* POST /payments requests, on any replica
  Keys,        \* idempotency keys
  Accounts, Currencies,
  Requests,    \* the bodies a request may have
  Consumers,   \* replicas' consumers of fraud-events, in ProcessFraudResult
  Faults,      \* what may go wrong: "crash", "postgres", "redis", "expiry"
  MaxUnanswered,  \* bound on the different commands that Redis leaves unanswered
  NoPayment

Empty == ""

Request == [key : Keys \cup {Empty}, source : Accounts \cup {Empty},
            target : Accounts \cup {Empty}, amount : Int,
            currency : Currencies \cup {Empty}]

ASSUME RequestsAssumption == Requests \subseteq Request
ASSUME UsdAssumption == "USD" \in Currencies
ASSUME FaultsAssumption == Faults \subseteq {"crash", "postgres", "redis", "expiry"}
ASSUME NoPaymentAssumption == NoPayment \notin Handlers

VARIABLES
  payments,  \* the committed rows of payments, by id; the key column is UNIQUE
  events,    \* the payments with a committed row in outbox_events
  cache,     \* the Redis record of each key
  unanswered,  \* the writes sent to Redis, as key and record, no answer of which
               \* came in time: go-redis sends them again, and each may be
               \* carried out at any time
  pc, req,   \* per handler: next step, body
  tx,        \* per handler: what its open transaction has inserted
  answer,    \* per handler: what the client was told, and of which payment;
             \* before that, the existing payment it has read
  saga,      \* per consumer: where its ProcessFraudResult is
  had        \* history, per payment: the statuses that its row has had

handlers == <<pc, req, tx, answer>>
tables   == <<payments, events, had>>
redis    == <<cache, unanswered>>
vars     == <<payments, events, had, cache, unanswered, pc, req, tx, answer, saga>>

-----------------------------------------------------------------------------
(* Data *)

Statuses == {"PENDING", "SUCCESS", "FAILED"}

NoRequest == [key |-> Empty, source |-> Empty, target |-> Empty, amount |-> 0,
              currency |-> Empty]

Payment == [id : Handlers, of : Request, status : Statuses]
NoRow   == [id |-> NoPayment, of |-> NoRequest, status |-> "NONE"]

Record   == [status : {"NONE", "IN_FLIGHT", "COMPLETED"},
             hash : Request, payment : Payment \cup {NoRow}]
NoRecord == [status |-> "NONE", hash |-> NoRequest, payment |-> NoRow]

(* What SETNX and SET write; DEL writes NoRecord.  Only the first carries a *)
(* hash of the body.                                                        *)
Reserved(body)     == [status |-> "IN_FLIGHT", hash |-> body, payment |-> NoRow]
Completed(payment) == [status |-> "COMPLETED", hash |-> NoRequest, payment |-> payment]

(* NUMERIC(18,4) rounds half away from zero when a value is stored.         *)
Numeric(v) == v + (v % 2)

(* The currency is filled in before the body is hashed.                     *)
Normal(r) == [r EXCEPT !.currency = IF r.currency = Empty THEN "USD" ELSE r.currency]

Invalid(r) ==
  \/ r.key = Empty
  \/ Empty \in {r.source, r.target}
  \/ r.source = r.target
  \/ r.amount <= 0

(* The payment the handler builds, and the row PostgreSQL stores for it.    *)
Built(h)  == [id |-> h, of |-> req[h], status |-> "PENDING"]
Stored(h) == [id |-> h, of |-> [req[h] EXCEPT !.amount = Numeric(req[h].amount)],
              status |-> "PENDING"]

Committed    == {h \in Handlers : payments[h] # NoRow}
RowsOfKey(k) == {payments[h] : h \in {g \in Committed : payments[g].of.key = k}}

(* A Go handler whose Start has been called and which has not returned.     *)
InFlight(h) == pc[h] \in {"start", "get", "lookup", "payment", "event", "commit",
                          "complete", "existing", "release", "rollback"}

(* A call of ProcessFraudResult, and what it knows of its payment.          *)
Idle == [step |-> "idle", payment |-> NoPayment, status |-> "NONE"]

NoAnswer == [kind |-> "none", payment |-> NoRow]
Success  == {"created", "cached", "existing"}
Refusals == {"invalid", "in_flight", "conflict", "parameters", "failed"}
Answer   == [kind : Success \cup Refusals \cup {"none"}, payment : Payment \cup {NoRow}]

-----------------------------------------------------------------------------
(* Steps *)

Goto(h, label) == pc' = [pc EXCEPT ![h] = label]

Respond(h, kind, payment) ==
  /\ Goto(h, "done")
  /\ answer' = [answer EXCEPT ![h] = [kind |-> kind, payment |-> payment]]

Receive(h) ==
  /\ pc[h] = "idle"
  /\ \E r \in Requests :
       /\ req' = [req EXCEPT ![h] = Normal(r)]
       /\ IF Invalid(r) THEN Respond(h, "invalid", NoRow)
                        ELSE Goto(h, "start") /\ UNCHANGED answer
  /\ UNCHANGED <<tables, redis, tx, saga>>

(* SETNX of an IN_FLIGHT record: false when there is a record, be it the    *)
(* handler's own from a call that was not answered.  On an error the        *)
(* handler goes on to the database.                                         *)
Reserve(h) == cache' = [cache EXCEPT ![req[h].key] = Reserved(req[h])]

Start(h) ==
  /\ pc[h] = "start"
  /\ LET free == cache[req[h].key].status = "NONE" IN
       \/ free /\ Reserve(h) /\ Goto(h, "lookup")
       \/ ~free /\ Goto(h, "get") /\ UNCHANGED cache
       \/ "redis" \in Faults /\ Goto(h, "lookup") /\ UNCHANGED cache
  /\ UNCHANGED <<tables, unanswered, req, tx, answer, saga>>

(* Mutant: the payload hash is not compared.                                *)
GetUnhashed(h) ==
  /\ pc[h] = "get"
  /\ LET record == cache[req[h].key] IN
       \/ /\ record.status = "NONE" \/ "redis" \in Faults
          /\ Goto(h, "lookup")
          /\ UNCHANGED answer
       \/ record.status = "IN_FLIGHT" /\ Respond(h, "in_flight", NoRow)
       \/ record.status = "COMPLETED" /\ Respond(h, "cached", record.payment)
  /\ UNCHANGED <<tables, redis, req, tx, saga>>

(* GET of the record that was there: it may be gone by now, and Redis may   *)
(* be out of reach; the handler then goes on to the database.  A COMPLETED  *)
(* record has no payload hash, so it matches every body.                    *)
Get(h) ==
  /\ pc[h] = "get"
  /\ LET record == cache[req[h].key] IN
       \/ /\ record.status = "NONE" \/ "redis" \in Faults
          /\ Goto(h, "lookup")
          /\ UNCHANGED answer
       \/ /\ record.status = "IN_FLIGHT"
          /\ Respond(h, IF record.hash # req[h] THEN "conflict" ELSE "in_flight", NoRow)
       \/ /\ record.status = "COMPLETED"
          /\ Respond(h, "cached", record.payment)
  /\ UNCHANGED <<tables, redis, req, tx, saga>>

(* SELECT by idempotency_key.  An error, or a row with other parameters,    *)
(* returns without Release.                                                 *)
SameParameters(row, r) == row.of = r

Lookup(h) ==
  /\ pc[h] = "lookup"
  /\ \/ RowsOfKey(req[h].key) = {} /\ Goto(h, "payment") /\ UNCHANGED answer
     \/ \E row \in RowsOfKey(req[h].key) :
          IF SameParameters(row, req[h])
          THEN /\ Goto(h, "existing")
               /\ answer' = [answer EXCEPT ![h].payment = row]
          ELSE Respond(h, "parameters", NoRow)
     \/ "postgres" \in Faults /\ Respond(h, "failed", NoRow)
  /\ UNCHANGED <<tables, redis, req, tx, saga>>

(* Complete: SET of a COMPLETED record, whatever is stored; errors are      *)
(* ignored by every caller.                                                 *)
Complete(key, payment) ==
  \/ cache' = [cache EXCEPT ![key] = Completed(payment)]
  \/ "redis" \in Faults /\ UNCHANGED cache

CompleteExisting(h) ==
  /\ pc[h] = "existing"
  /\ Complete(req[h].key, answer[h].payment)
  /\ Respond(h, "existing", answer[h].payment)
  /\ UNCHANGED <<tables, unanswered, req, tx, saga>>

(* Mutant: the error of COMMIT is not looked at.                            *)
CommitErrorIgnored(h) ==
  /\ "postgres" \in Faults
  /\ pc[h] = "commit"
  /\ tx' = [tx EXCEPT ![h] = "none"]
  /\ Goto(h, "complete")
  /\ UNCHANGED <<tables, redis, req, answer, saga>>

(* A statement of the transaction fails, BEGIN included.  The transaction   *)
(* stays open until the deferred Rollback, except when COMMIT was refused   *)
(* or the cancelled request context has already ended it.                   *)
StatementFails(h) ==
  /\ "postgres" \in Faults
  /\ pc[h] \in {"payment", "event", "commit"}
  /\ \/ tx' = [tx EXCEPT ![h] = "none"]
     \/ pc[h] # "commit" /\ UNCHANGED tx
  /\ Goto(h, "release")
  /\ UNCHANGED <<tables, redis, req, answer, saga>>

(* Mutant: no UNIQUE constraint on the key.                                 *)
InsertUnchecked(h) ==
  /\ pc[h] = "payment"
  /\ Goto(h, "event")
  /\ tx' = [tx EXCEPT ![h] = "payment"]
  /\ UNCHANGED <<tables, redis, req, answer, saga>>

(* INSERT INTO payments: the UNIQUE index makes it wait for an open         *)
(* transaction that has inserted the same key, and fail on a committed row. *)
InsertPayment(h) ==
  /\ pc[h] = "payment"
  /\ \A g \in Handlers : tx[g] # "none" => req[g].key # req[h].key
  /\ IF RowsOfKey(req[h].key) = {}
     THEN Goto(h, "event") /\ tx' = [tx EXCEPT ![h] = "payment"]
     ELSE Goto(h, "release") /\ UNCHANGED tx
  /\ UNCHANGED <<tables, redis, req, answer, saga>>

(* Mutant: the event is inserted through r.db, outside the transaction.     *)
InsertEventOutsideTx(h) ==
  /\ pc[h] = "event"
  /\ Goto(h, "commit")
  /\ events' = events \cup {h}
  /\ tx' = [tx EXCEPT ![h] = "event"]
  /\ UNCHANGED <<payments, had, redis, req, answer, saga>>

InsertEvent(h) ==
  /\ pc[h] = "event"
  /\ Goto(h, "commit")
  /\ tx' = [tx EXCEPT ![h] = "event"]
  /\ UNCHANGED <<tables, redis, req, answer, saga>>

(* The transaction is committed; the answer of COMMIT may still be lost,    *)
(* and the handler then behaves as if it had failed.                        *)
Commit(h) ==
  /\ pc[h] = "commit"
  /\ payments' = [payments EXCEPT ![h] = Stored(h)]
  /\ had' = [had EXCEPT ![h] = {"PENDING"}]
  /\ events' = events \cup {h}
  /\ tx' = [tx EXCEPT ![h] = "none"]
  /\ \/ Goto(h, "complete")
     \/ "postgres" \in Faults /\ Goto(h, "release")
  /\ UNCHANGED <<redis, req, answer, saga>>

(* Complete with the payment as it was built, PENDING, then 201.            *)
CompleteCreated(h) ==
  /\ pc[h] = "complete"
  /\ Complete(req[h].key, Built(h))
  /\ Respond(h, "created", Built(h))
  /\ UNCHANGED <<tables, unanswered, req, tx, saga>>

(* Mutant: the payment that failed is cached.                               *)
CompleteInstead(h) ==
  /\ pc[h] = "release"
  /\ Goto(h, "rollback")
  /\ Complete(req[h].key, Built(h))
  /\ UNCHANGED <<tables, unanswered, req, tx, answer, saga>>

(* Release: DEL, before the deferred Rollback; the error is ignored.        *)
Release(h) ==
  /\ pc[h] = "release"
  /\ Goto(h, "rollback")
  /\ \/ cache' = [cache EXCEPT ![req[h].key] = NoRecord]
     \/ "redis" \in Faults /\ UNCHANGED cache
  /\ UNCHANGED <<tables, unanswered, req, tx, answer, saga>>

(* Mutant: no deferred Rollback.                                            *)
RespondWithoutRollback(h) ==
  /\ pc[h] = "rollback"
  /\ Respond(h, "failed", NoRow)
  /\ UNCHANGED <<tables, redis, req, tx, saga>>

Rollback(h) ==
  /\ pc[h] = "rollback"
  /\ tx' = [tx EXCEPT ![h] = "none"]
  /\ Respond(h, "failed", NoRow)
  /\ UNCHANGED <<tables, redis, req, saga>>

(* The replica dies: PostgreSQL rolls back, Redis keeps the record.         *)
Crash(h) ==
  /\ "crash" \in Faults
  /\ InFlight(h)
  /\ Goto(h, "crashed")
  /\ tx' = [tx EXCEPT ![h] = "none"]
  /\ answer' = [answer EXCEPT ![h] = NoAnswer]
  /\ UNCHANGED <<tables, redis, req, saga>>

(* The record's TTL passes, or Redis loses it.                              *)
RecordExpires(k) ==
  /\ "expiry" \in Faults
  /\ cache[k].status # "NONE"
  /\ cache' = [cache EXCEPT ![k] = NoRecord]
  /\ UNCHANGED <<tables, unanswered, handlers, saga>>

-----------------------------------------------------------------------------
(* The saga: ProcessFraudResult *)

(* It reads the row, and goes on only if the row is PENDING.                *)
SagaLookup(c) ==
  /\ saga[c] = Idle
  /\ \E h \in Committed :
       /\ payments[h].status = "PENDING"
       /\ saga' = [saga EXCEPT ![c] = [Idle EXCEPT !.step = "update", !.payment = h]]
  /\ UNCHANGED <<tables, redis, handlers>>

(* The verdict, or the transfer that it asks for, gives the final status.   *)
(* The UPDATE does not look at the row's status, which another replica may  *)
(* have settled since.                                                      *)
SagaUpdate(c) ==
  /\ saga[c].step = "update"
  /\ \E s \in {"SUCCESS", "FAILED"} :
       /\ payments' = [payments EXCEPT ![saga[c].payment].status = s]
       /\ had' = [had EXCEPT ![saga[c].payment] = @ \cup {s}]
       /\ saga' = [saga EXCEPT ![c].step = "cache", ![c].status = s]
  /\ UNCHANGED <<events, redis, handlers>>

(* It caches the row it has read, with the status it has itself written.    *)
Settled(c) == [payments[saga[c].payment] EXCEPT !.status = saga[c].status]

SagaCache(c) ==
  /\ saga[c].step = "cache"
  /\ Complete(Settled(c).of.key, Settled(c))
  /\ saga' = [saga EXCEPT ![c] = Idle]
  /\ UNCHANGED <<tables, unanswered, handlers>>

(* The UPDATE fails, or its answer is lost, or the replica dies.            *)
SagaEnds(c) ==
  /\ Faults \cap {"postgres", "crash"} # {}
  /\ saga[c] # Idle
  /\ saga' = [saga EXCEPT ![c] = Idle]
  /\ UNCHANGED <<tables, redis, handlers>>

-----------------------------------------------------------------------------
(* Redis does not answer: go-redis gives up on the reply and sends the      *)
(* command again, three times unless told otherwise.                        *)

Unanswered(key, record) ==
  /\ "redis" \in Faults
  /\ unanswered' = unanswered \cup {<<key, record>>}
  /\ Cardinality(unanswered') <= MaxUnanswered

(* The write that a handler's call, or a consumer's, sends.                 *)
Sends(h, record) ==
  \/ pc[h] = "start"    /\ record = Reserved(req[h])
  \/ pc[h] = "existing" /\ record = Completed(answer[h].payment)
  \/ pc[h] = "complete" /\ record = Completed(Built(h))
  \/ pc[h] = "release"  /\ record = NoRecord

NoReply(h) ==
  /\ \E record \in {Reserved(req[h]), Completed(answer[h].payment), Completed(Built(h)), NoRecord} :
       Sends(h, record) /\ Unanswered(req[h].key, record)
  /\ UNCHANGED <<tables, cache, handlers, saga>>

SagaNoReply(c) ==
  /\ saga[c].step = "cache"
  /\ Unanswered(Settled(c).of.key, Completed(Settled(c)))
  /\ UNCHANGED <<tables, cache, handlers, saga>>

(* A command that was not answered is carried out, whatever its sender has  *)
(* done since.                                                              *)
Late(key, record) ==
  /\ <<key, record>> \in unanswered
  /\ record.status = "IN_FLIGHT" => cache[key].status = "NONE"
  /\ cache' = [cache EXCEPT ![key] = record]
  /\ UNCHANGED <<tables, unanswered, handlers, saga>>

-----------------------------------------------------------------------------

Init ==
  /\ payments = [h \in Handlers |-> NoRow]
  /\ events = {}
  /\ had = [h \in Handlers |-> {}]
  /\ cache = [k \in Keys |-> NoRecord]
  /\ unanswered = {}
  /\ pc = [h \in Handlers |-> "idle"]
  /\ req = [h \in Handlers |-> NoRequest]
  /\ tx = [h \in Handlers |-> "none"]
  /\ answer = [h \in Handlers |-> NoAnswer]
  /\ saga = [c \in Consumers |-> Idle]

Step(h) ==
  \/ Receive(h) \/ Start(h) \/ Get(h) \/ Lookup(h) \/ CompleteExisting(h)
  \/ InsertPayment(h) \/ InsertEvent(h) \/ Commit(h) \/ CompleteCreated(h)
  \/ StatementFails(h) \/ Release(h) \/ Rollback(h) \/ Crash(h) \/ NoReply(h)

SagaStep(c) ==
  SagaLookup(c) \/ SagaUpdate(c) \/ SagaCache(c) \/ SagaEnds(c) \/ SagaNoReply(c)

Terminated ==
  /\ \A h \in Handlers : pc[h] \in {"done", "crashed"}
  /\ UNCHANGED vars

Next ==
  \/ \E h \in Handlers : Step(h)
  \/ \E c \in Consumers : SagaStep(c)
  \/ \E u \in unanswered : Late(u[1], u[2])
  \/ \E k \in Keys : RecordExpires(k)
  \/ Terminated

Spec == Init /\ [][Next]_vars

-----------------------------------------------------------------------------
(* Properties *)

(* The shape of the state; a handler's transaction is open exactly between  *)
(* its first INSERT and the COMMIT or ROLLBACK of CreatePayment.            *)
TypeOK ==
  /\ payments \in [Handlers -> Payment \cup {NoRow}]
  /\ events \subseteq Handlers
  /\ had \in [Handlers -> SUBSET Statuses]
  /\ cache \in [Keys -> Record]
  /\ unanswered \subseteq Keys \X Record
  /\ pc \in [Handlers -> {"idle", "start", "get", "lookup", "existing", "payment",
                          "event", "commit", "complete", "release", "rollback",
                          "done", "crashed"}]
  /\ req \in [Handlers -> Request]
  /\ tx \in [Handlers -> {"none", "payment", "event"}]
  /\ answer \in [Handlers -> Answer]
  /\ saga \in [Consumers -> [step : {"idle", "update", "cache"},
                             payment : Handlers \cup {NoPayment},
                             status : Statuses \cup {"NONE"}]]
  /\ \A h \in Handlers :
       /\ pc[h] = "event" => tx[h] = "payment"
       /\ pc[h] = "commit" => tx[h] = "event"
       /\ tx[h] # "none" => pc[h] \in {"event", "commit", "release", "rollback"}

(* However requests, retries, failed replicas and expired records           *)
(* interleave, an idempotency key is charged at most once: at most one      *)
(* committed payment carries it (CreatePayment's three layers).             *)
OnePaymentPerKey ==
  \A g, h \in Committed : payments[g].of.key = payments[h].of.key => g = h

(* The transactional outbox: a payment is committed exactly when its        *)
(* PaymentCreated event is.                                                 *)
OneEventPerPayment == events = Committed

(* A COMPLETED record names a committed payment of its key, with a status   *)
(* that its row has or has had: a retry is never told of a payment, or of   *)
(* an outcome, that never was.  The status may not be the row's present     *)
(* one: writes of the record come late, and two replicas that settle one    *)
(* payment may write row and record in different orders.                    *)
CacheIsCommitted ==
  \A k \in Keys :
    cache[k].status = "COMPLETED" =>
      \E h \in Committed :
        /\ cache[k].payment.id = h
        /\ payments[h].of.key = k
        /\ cache[k].payment.status \in had[h]

(* Every answer, and every change of a committed payment, is one that the   *)
(* contract with the clients allows, with amounts as the columns keep them: *)
(* the service is one map from keys to payments, each made once, though it  *)
(* is three layers, replicas, retries and records that expire.              *)
OnScale(body) == [body EXCEPT !.amount = Numeric(@)]
Told(a)       == IF a.payment = NoRow THEN a ELSE [a EXCEPT !.payment.of = OnScale(@)]

book  == [k \in Keys |-> IF RowsOfKey(k) = {} THEN NoRow
                         ELSE CHOOSE row \in RowsOfKey(k) : TRUE]
past  == [k \in Keys |-> UNION {had[h] : h \in {g \in Committed : payments[g].of.key = k}}]
asked == [h \in Handlers |-> OnScale(req[h])]
reply == [h \in Handlers |-> IF pc[h] = "done" THEN Told(answer[h]) ELSE NoAnswer]

Contract == INSTANCE IntakeContract WITH
  Bodies <- {OnScale(Normal(r)) : r \in Requests}, NoBody <- NoRequest, NoPayment <- NoRow

ImplementsContract == Contract!Spec

(* "payment request is already being processed" is answered only when a     *)
(* request with the same key and body has left its mark: another one got as *)
(* far as the database (it is in progress, died, failed, or its record      *)
(* could not be completed; one that was itself turned away leaves no key    *)
(* behind), or Redis left the SETNX of one unanswered, perhaps this         *)
(* request's own, which then meets the record it has itself stored.         *)
InFlightAnswerHasCause ==
  [][\A h \in Handlers :
       answer[h].kind # "in_flight" /\ answer'[h].kind = "in_flight"
         => \/ \E g \in Handlers \ {h} :
                 /\ req[g] = req[h]
                 /\ \/ InFlight(g) \/ pc[g] = "crashed"
                    \/ answer[g].kind \in {"created", "existing", "parameters", "failed"}
            \/ <<req[h].key, Reserved(req[h])>> \in unanswered]_vars
=============================================================================
