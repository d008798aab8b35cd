--------------------------- MODULE AccountLedger ---------------------------
(***************************************************************************)
(* The account service: the transfer handler, its PostgreSQL transaction   *)
(* over accounts and balance_ledgers, the optional Redis account locks,    *)
(* and the seeder that creates the rows.                                   *)
(*                                                                         *)
(* One handler is one POST /accounts/transfer request.  Every statement it *)
(* sends is a step of its own, so handlers of all replicas interleave      *)
(* between statements.  PostgreSQL runs READ COMMITTED: a transaction's    *)
(* writes stay in tx[h] until Commit, FOR UPDATE waits for the row's       *)
(* holder and then reads the committed row.                                *)
(*                                                                         *)
(* An amount is counted in halves of the last digit of NUMERIC(18,4), that *)
(* is in units of 0.00005, so that the column's rounding can be told from  *)
(* the exact value the Go code works with.                                 *)
(***************************************************************************)
EXTENDS Integers, FiniteSetsExt

CONSTANTS
  Ids,           \* account ids; their order is the strings' order, 0 is ""
  Handlers,      \* transfer requests, on any replica
  Refs,          \* transaction ids
  Requests,      \* the bodies a request may have
  SeedBalances,  \* balances the seeder may choose
  MaxSeeds,      \* bound: runs of the seeder per account
  NoHandler, NoToken

EmptyId == 0

Request == [ref : Refs \cup {""}, from : Ids, to : Ids, amount : Int,
            lock_strategy : {"pessimistic", "redis"}]

NoRequest == [ref |-> "", from |-> EmptyId, to |-> EmptyId, amount |-> 0,
              lock_strategy |-> "pessimistic"]

ASSUME IdsAssumption == Ids \subseteq Nat /\ EmptyId \in Ids /\ IsFiniteSet(Ids)
ASSUME RequestsAssumption == Requests \subseteq Request
ASSUME SeedAssumption ==
  /\ MaxSeeds \in Nat
  /\ SeedBalances \subseteq Nat
  /\ \A b \in SeedBalances : b % 2 = 0
ASSUME NobodyAssumption ==
  /\ NoHandler \notin Handlers
  /\ NoToken \notin Handlers \X {"lock1", "lock2"}

VARIABLES
  balance, version,  \* the committed rows of accounts
  seeds,             \* seeder runs per account; the row exists after the first
  ledger,            \* the committed rows of balance_ledgers
  rowLock,           \* holder of each row's FOR UPDATE lock
  redisLock,         \* token stored under lock:acc:<id>
  pc, req, result,   \* per handler: next statement, body, error or nil returned
  first, second,     \* per handler: the rows read FOR UPDATE
  tx                 \* per handler: uncommitted balances and ledger rows

tables   == <<balance, version, seeds, ledger>>
handlers == <<pc, req, result, first, second, tx>>
vars     == <<balance, version, seeds, ledger, rowLock, redisLock,
              pc, req, result, first, second, tx>>

-----------------------------------------------------------------------------
(* Data *)

(* NUMERIC(18,4) rounds half away from zero when a value is stored. *)
Numeric(v) == v + (v % 2)

Tokens == Handlers \X {"lock1", "lock2"}

Row   == [id : Ids, balance : Nat, version : Nat]
NoRow == [id |-> EmptyId, balance |-> 0, version |-> 0]

Entry == [id : ({"DEBIT", "CREDIT"} \X Handlers) \cup ({"INIT"} \X (Ids \X Nat)),
          account : Ids, amount : Nat, type : {"DEBIT", "CREDIT"}, ref : Refs \cup {"", "system_init"}]

(* tx.balance[i] is Unwritten until the transaction updates row i. *)
Unwritten == -1
EmptyTx   == [balance |-> [i \in Ids |-> Unwritten], entries |-> {}]

Exists(i) == seeds[i] > 0

(* The rows in the order in which they are locked. *)
RequestOrder(h) == <<req[h].from, req[h].to>>  \* mutant: ids are not sorted
LockSequence(h) == IF req[h].from > req[h].to THEN <<req[h].to, req[h].from>>
                                              ELSE <<req[h].from, req[h].to>>
FirstId(h)  == LockSequence(h)[1]
SecondId(h) == LockSequence(h)[2]

Source(h) == IF first[h].id = req[h].from THEN first[h] ELSE second[h]
Dest(h)   == IF first[h].id = req[h].from THEN second[h] ELSE first[h]

EntryOf(h, type, account) ==
  [id |-> <<type, h>>, account |-> account, amount |-> Numeric(req[h].amount),
   type |-> type, ref |-> req[h].ref]

InTransaction == {"lockFirst", "lockSecond", "check", "updateSource",
                  "updateDest", "debit", "credit", "commit"}
Finished      == {"done", "crashed"}
Running       == InTransaction \cup
                 {"redis1", "redis2", "begin", "unlock2", "unlock1"}

-----------------------------------------------------------------------------
(* The end of a handler's transaction, and of the handler *)

(* Mutant: no deferred Rollback, the row locks outlive the handler. *)
ForgetWithoutRollback(h) ==
  /\ first' = [first EXCEPT ![h] = NoRow]
  /\ second' = [second EXCEPT ![h] = NoRow]
  /\ tx' = [tx EXCEPT ![h] = EmptyTx]
  /\ UNCHANGED rowLock

Forget(h) ==
  /\ first' = [first EXCEPT ![h] = NoRow]
  /\ second' = [second EXCEPT ![h] = NoRow]
  /\ tx' = [tx EXCEPT ![h] = EmptyTx]
  /\ rowLock' = [i \in Ids |-> IF rowLock[i] = h THEN NoHandler ELSE rowLock[i]]

(* Transfer returns: the deferred Rollback ends whatever was not committed, *)
(* then TransferWithRedisLock's deferred releases run.                      *)
Return(h, answer) ==
  /\ Forget(h)
  /\ result' = [result EXCEPT ![h] = answer]
  /\ pc' = [pc EXCEPT ![h] =
              IF req[h].lock_strategy = "redis" THEN "unlock2" ELSE "done"]

Goto(h, label) == pc' = [pc EXCEPT ![h] = label]

-----------------------------------------------------------------------------
(* Transfer *)

Receive(h) ==
  /\ pc[h] = "idle"
  /\ \E r \in Requests :
       /\ req' = [req EXCEPT ![h] = r]
       /\ Goto(h, IF r.lock_strategy = "redis" THEN "redis1" ELSE "begin")
  /\ UNCHANGED <<tables, rowLock, redisLock, result, first, second, tx>>

Begin(h) ==
  /\ pc[h] = "begin"
  /\ IF \/ req[h].amount <= 0
        \/ EmptyId \in {req[h].from, req[h].to}
        \/ req[h].from = req[h].to
     THEN Return(h, "error")
     ELSE Goto(h, "lockFirst") /\ UNCHANGED <<result, first, second, tx, rowLock>>
  /\ UNCHANGED <<tables, redisLock, req>>

(* SELECT ... WHERE id = i FOR UPDATE: no row is an error, a locked row is  *)
(* waited for, a free one is locked and read as committed.                  *)
PlainSelect(h, i) == UNCHANGED rowLock  \* mutant: FOR UPDATE is forgotten
ReadForUpdate(h, i) ==
  /\ rowLock[i] = NoHandler
  /\ rowLock' = [rowLock EXCEPT ![i] = h]

RowOf(i) == [id |-> i, balance |-> balance[i], version |-> version[i]]

LockFirst(h) ==
  /\ pc[h] = "lockFirst"
  /\ LET i == FirstId(h) IN
       IF ~Exists(i)
       THEN Return(h, "error")
       ELSE /\ ReadForUpdate(h, i)
            /\ first' = [first EXCEPT ![h] = RowOf(i)]
            /\ Goto(h, "lockSecond")
            /\ UNCHANGED <<result, second, tx>>
  /\ UNCHANGED <<tables, redisLock, req>>

LockSecond(h) ==
  /\ pc[h] = "lockSecond"
  /\ LET i == SecondId(h) IN
       IF ~Exists(i)
       THEN Return(h, "error")
       ELSE /\ ReadForUpdate(h, i)
            /\ second' = [second EXCEPT ![h] = RowOf(i)]
            /\ Goto(h, "check")
            /\ UNCHANGED <<result, first, tx>>
  /\ UNCHANGED <<tables, redisLock, req>>

(* Mutant: the balance is not checked. *)
ProceedUnchecked(h) ==
  /\ pc[h] = "check"
  /\ Goto(h, "updateSource")
  /\ UNCHANGED <<tables, rowLock, redisLock, req, result, first, second, tx>>

CheckBalance(h) ==
  /\ pc[h] = "check"
  /\ IF Source(h).balance < req[h].amount
     THEN Return(h, "error")
     ELSE Goto(h, "updateSource") /\ UNCHANGED <<result, first, second, tx, rowLock>>
  /\ UNCHANGED <<tables, redisLock, req>>

(* UPDATE accounts ... WHERE id AND version: no matching row is an error.   *)
UpdateAccountBalance(h, row, newBalance, next) ==
  IF version[row.id] = row.version
  THEN /\ tx' = [tx EXCEPT ![h].balance[row.id] = Numeric(newBalance)]
       /\ Goto(h, next)
       /\ UNCHANGED <<result, first, second, rowLock>>
  ELSE Return(h, "error")

(* Mutants: the destination row is never updated; its new balance is        *)
(* computed from the source's.                                              *)
UpdateOnlySource(h) ==
  /\ pc[h] = "updateSource"
  /\ UpdateAccountBalance(h, Source(h), Source(h).balance - req[h].amount, "debit")
  /\ UNCHANGED <<tables, redisLock, req>>

UpdateDestFromSource(h) ==
  /\ pc[h] = "updateDest"
  /\ UpdateAccountBalance(h, Dest(h), Source(h).balance + req[h].amount, "debit")
  /\ UNCHANGED <<tables, redisLock, req>>

UpdateSource(h) ==
  /\ pc[h] = "updateSource"
  /\ UpdateAccountBalance(h, Source(h), Source(h).balance - req[h].amount, "updateDest")
  /\ UNCHANGED <<tables, redisLock, req>>

UpdateDest(h) ==
  /\ pc[h] = "updateDest"
  /\ UpdateAccountBalance(h, Dest(h), Dest(h).balance + req[h].amount, "debit")
  /\ UNCHANGED <<tables, redisLock, req>>

(* Mutants: the entry is inserted outside the transaction; the credit goes  *)
(* to the source's account.                                                 *)
InsertOutsideTx(h, type, account, next) ==
  /\ ledger' = ledger \cup {EntryOf(h, type, account)}
  /\ Goto(h, next)
  /\ UNCHANGED <<balance, version, seeds, rowLock, redisLock, req, result,
                 first, second, tx>>

CreateLedgerEntry(h, type, account, next) ==
  /\ tx' = [tx EXCEPT ![h].entries = @ \cup {EntryOf(h, type, account)}]
  /\ Goto(h, next)
  /\ UNCHANGED <<tables, rowLock, redisLock, req, result, first, second>>

WriteDebit(h) ==
  /\ pc[h] = "debit"
  /\ CreateLedgerEntry(h, "DEBIT", Source(h).id, "credit")

CreditSource(h) ==
  /\ pc[h] = "credit"
  /\ CreateLedgerEntry(h, "CREDIT", Source(h).id, "commit")

WriteCredit(h) ==
  /\ pc[h] = "credit"
  /\ CreateLedgerEntry(h, "CREDIT", Dest(h).id, "commit")

(* The transaction is committed; the answer of COMMIT may still be lost.    *)
Commit(h, answer) ==
  /\ pc[h] = "commit"
  /\ balance' = [i \in Ids |-> IF tx[h].balance[i] = Unwritten
                               THEN balance[i] ELSE tx[h].balance[i]]
  /\ version' = [i \in Ids |-> IF tx[h].balance[i] = Unwritten
                               THEN version[i] ELSE version[i] + 1]
  /\ ledger' = ledger \cup tx[h].entries
  /\ Return(h, answer)
  /\ UNCHANGED <<seeds, redisLock, req>>

(* Any statement may fail: the connection breaks, the request's context is  *)
(* cancelled, COMMIT is refused.                                            *)
StatementFails(h) ==
  /\ pc[h] \in InTransaction \cup {"begin"}
  /\ Return(h, "error")
  /\ UNCHANGED <<tables, redisLock, req>>

(* The replica dies: PostgreSQL rolls back, the Redis locks stay.           *)
Crash(h) ==
  /\ pc[h] \in Running
  /\ Goto(h, "crashed")
  /\ Forget(h)
  /\ UNCHANGED <<tables, redisLock, req, result>>

-----------------------------------------------------------------------------
(* Redis account locks *)

(* SETNX with a fresh token.  An error may come back before or after Redis  *)
(* has stored the token.                                                    *)
AcquireLock(h, i, token, acquired, refused) ==
  /\ UNCHANGED <<tables, rowLock, req, first, second, tx>>
  /\ \/ /\ redisLock[i] = NoToken
        /\ redisLock' = [redisLock EXCEPT ![i] = token]
        /\ Goto(h, acquired)
        /\ UNCHANGED result
     \/ /\ redisLock[i] = NoToken
        /\ redisLock' = [redisLock EXCEPT ![i] = token]
        /\ Goto(h, refused)
        /\ result' = [result EXCEPT ![h] = "error"]
     \/ /\ Goto(h, refused)
        /\ result' = [result EXCEPT ![h] = "error"]
        /\ UNCHANGED redisLock

AcquireLock1(h) ==
  /\ pc[h] = "redis1"
  /\ AcquireLock(h, FirstId(h), <<h, "lock1">>, "redis2", "done")

AcquireLock2(h) ==
  /\ pc[h] = "redis2"
  /\ AcquireLock(h, SecondId(h), <<h, "lock2">>, "begin", "unlock1")

(* Mutant: DEL without comparing the token. *)
ReleaseUnchecked(h, i, token, next) ==
  /\ Goto(h, next)
  /\ redisLock' = [redisLock EXCEPT ![i] = NoToken]
  /\ UNCHANGED <<tables, rowLock, req, result, first, second, tx>>

(* The Lua script deletes the key only under the caller's token; Redis may  *)
(* also be out of reach, and the error is ignored.                          *)
Release(h, i, token, next) ==
  /\ Goto(h, next)
  /\ \/ redisLock' = [redisLock EXCEPT ![i] = IF @ = token THEN NoToken ELSE @]
     \/ UNCHANGED redisLock
  /\ UNCHANGED <<tables, rowLock, req, result, first, second, tx>>

ReleaseLock2(h) ==
  /\ pc[h] = "unlock2"
  /\ Release(h, SecondId(h), <<h, "lock2">>, "unlock1")

ReleaseLock1(h) ==
  /\ pc[h] = "unlock1"
  /\ Release(h, FirstId(h), <<h, "lock1">>, "done")

(* The key's TTL passes, whoever holds the lock and whatever he is doing.   *)
LockExpires(i) ==
  /\ redisLock[i] # NoToken
  /\ redisLock' = [redisLock EXCEPT ![i] = NoToken]
  /\ UNCHANGED <<tables, rowLock, handlers>>

-----------------------------------------------------------------------------
(* Seeder: the account row only when it is new, the ledger row every time   *)

SeedAccount(i, b) ==
  /\ i # EmptyId
  /\ seeds[i] < MaxSeeds
  /\ seeds' = [seeds EXCEPT ![i] = @ + 1]
  /\ IF Exists(i)
     THEN UNCHANGED <<balance, version>>
     ELSE /\ balance' = [balance EXCEPT ![i] = Numeric(b)]
          /\ version' = [version EXCEPT ![i] = 1]
  /\ ledger' = ledger \cup
       {[id |-> <<"INIT", <<i, seeds[i]>>>>, account |-> i, amount |-> Numeric(b),
         type |-> "CREDIT", ref |-> "system_init"]}
  /\ UNCHANGED <<rowLock, redisLock, handlers>>

-----------------------------------------------------------------------------
(* Specification *)

Init ==
  /\ balance = [i \in Ids |-> 0]
  /\ version = [i \in Ids |-> 0]
  /\ seeds = [i \in Ids |-> 0]
  /\ ledger = {}
  /\ rowLock = [i \in Ids |-> NoHandler]
  /\ redisLock = [i \in Ids |-> NoToken]
  /\ pc = [h \in Handlers |-> "idle"]
  /\ req = [h \in Handlers |-> NoRequest]
  /\ result = [h \in Handlers |-> "none"]
  /\ first = [h \in Handlers |-> NoRow]
  /\ second = [h \in Handlers |-> NoRow]
  /\ tx = [h \in Handlers |-> EmptyTx]

Advance(h) ==
  \/ Begin(h) \/ LockFirst(h) \/ LockSecond(h) \/ CheckBalance(h)
  \/ UpdateSource(h) \/ UpdateDest(h) \/ WriteDebit(h) \/ WriteCredit(h)
  \/ \E answer \in {"ok", "error"} : Commit(h, answer)
  \/ AcquireLock1(h) \/ AcquireLock2(h) \/ ReleaseLock2(h) \/ ReleaseLock1(h)

(* All requests have been served: the service idles. *)
Idle ==
  /\ \A h \in Handlers : pc[h] \in Finished
  /\ UNCHANGED vars

Next ==
  \/ \E h \in Handlers : Receive(h) \/ Advance(h) \/ StatementFails(h) \/ Crash(h)
  \/ \E i \in Ids : LockExpires(i)
  \/ \E i \in Ids, b \in SeedBalances : SeedAccount(i, b)
  \/ Idle

Spec == Init /\ [][Next]_vars

(* net/http runs every accepted request's goroutine, and PostgreSQL answers *)
(* every statement whose row lock is free: a handler that can take its next *)
(* step takes it.  Nothing is assumed of failures, crashes or lock expiry.  *)
FairSpec == Spec /\ \A h \in Handlers : WF_vars(Advance(h))

-----------------------------------------------------------------------------
(* Properties *)

(* The sum of f[x] over the elements x of S.                                *)
SumOver(S, f) == MapThenSumSet(LAMBDA x : f[x], S)

EntriesOf(h) == {e \in ledger : e.id \in {<<"DEBIT", h>>, <<"CREDIT", h>>}}

Credits(i) == {e \in ledger : e.account = i /\ e.type = "CREDIT"}
Debits(i)  == {e \in ledger : e.account = i /\ e.type = "DEBIT"}

(* The seeder's ledger rows: that of the account, and those of later runs.  *)
Seeded     == {e \in ledger : e.id[1] = "INIT" /\ e.id[2][2] = 0}
Reseeds(i) == {e \in ledger : e.id[1] = "INIT" /\ e.id[2][2] # 0 /\ e.account = i}

AmountOf == [e \in ledger |-> e.amount]

TypeOK ==
  /\ balance \in [Ids -> Nat]
  /\ version \in [Ids -> Nat]
  /\ seeds \in [Ids -> Nat]
  /\ ledger \subseteq Entry
  /\ rowLock \in [Ids -> Handlers \cup {NoHandler}]
  /\ redisLock \in [Ids -> Tokens \cup {NoToken}]
  /\ pc \in [Handlers -> Running \cup Finished \cup {"idle"}]
  /\ req \in [Handlers -> Requests \cup {NoRequest}]
  /\ result \in [Handlers -> {"none", "ok", "error"}]
  /\ first \in [Handlers -> Row]
  /\ second \in [Handlers -> Row]
  /\ tx \in [Handlers -> [balance : [Ids -> Nat \cup {Unwritten}],
                          entries : SUBSET Entry]]

(* No lost update: from the SELECT ... FOR UPDATE to the COMMIT the row a   *)
(* transfer read is the committed row and is locked by that transfer alone, *)
(* so the balances it computes in Go are never computed from a stale row    *)
(* (service.go:62-103).                                                     *)
NoLostUpdate ==
  \A h \in Handlers :
    /\ pc[h] \in InTransaction \ {"lockFirst"} =>
         /\ rowLock[FirstId(h)] = h
         /\ first[h] = RowOf(FirstId(h))
    /\ pc[h] \in InTransaction \ {"lockFirst", "lockSecond"} =>
         /\ rowLock[SecondId(h)] = h
         /\ second[h] = RowOf(SecondId(h))

(* Deadlock freedom (service.go:56-76): however many transfers wait for     *)
(* rows, in whatever direction, they are not waiting for each other alone:  *)
(* one of them waits for a row that a transfer outside holds.               *)
Wanted(h)  == IF pc[h] = "lockFirst" THEN FirstId(h) ELSE SecondId(h)
Blocked(h) ==
  /\ pc[h] \in {"lockFirst", "lockSecond"}
  /\ Exists(Wanted(h))
  /\ rowLock[Wanted(h)] # NoHandler

NoMutualWait ==
  \A S \in (SUBSET Handlers) \ {{}} :
    (\A h \in S : Blocked(h)) => \E h \in S : rowLock[Wanted(h)] \notin S

(* The ledger audit's equation (account-service.md:26, cmd/README.md:71):   *)
(* every balance is the sum of the account's credits minus its debits.  The *)
(* one thing that breaks it is another run of the seeder, which leaves the  *)
(* balance alone but writes an INIT row again: the audit is off by exactly  *)
(* those rows.                                                              *)
BalanceIsLedgerSum ==
  \A i \in Ids : Exists(i) =>
    balance[i] + SumOver(Reseeds(i), AmountOf)
      = SumOver(Credits(i), AmountOf) - SumOver(Debits(i), AmountOf)

(* Money is neither created nor lost (README.md:98): the balances always    *)
(* add up to what the seeder's first run put into them, whatever transfers  *)
(* committed, failed or died half way.                                      *)
MoneyConserved ==
  SumOver(Ids, balance) = SumOver(Seeded, AmountOf)

(* A transfer is all or nothing, and its answer is honest about success: a  *)
(* request has both ledger rows or none, and 200 is answered only for a     *)
(* transfer whose debit and credit are committed (service.go:105-143).      *)
AllOrNothing ==
  \A h \in Handlers :
    /\ EntriesOf(h) \in {{}, {EntryOf(h, "DEBIT", req[h].from),
                              EntryOf(h, "CREDIT", req[h].to)}}
    /\ result[h] = "ok" => EntriesOf(h) # {}

(* No step moves money in isolation: when a step changes the balance of an  *)
(* existing account it is the commit of one transfer, which takes from the  *)
(* source exactly what it gives to the destination, touches no other        *)
(* account, never overdraws, and adds exactly that debit and that credit to *)
(* the ledger (service.go:88-132).                                          *)
TransferStep(h) ==
  LET from   == req[h].from
      to     == req[h].to
      amount == req[h].amount
  IN /\ from # to
     /\ amount > 0
     /\ balance[from] >= amount
     /\ balance' = [balance EXCEPT ![from] = @ - amount, ![to] = @ + amount]
     /\ version' = [version EXCEPT ![from] = @ + 1, ![to] = @ + 1]
     /\ ledger' = ledger \cup {EntryOf(h, "DEBIT", from), EntryOf(h, "CREDIT", to)}

MoneyMovesInPairs ==
  [][(\E i \in Ids : Exists(i) /\ balance'[i] # balance[i])
       => \E h \in Handlers : TransferStep(h)]_vars

(* A handler never frees a Redis lock another request has taken in the      *)
(* meantime, even when its own lock expired while it was in the transfer    *)
(* (pkg/redis release script).                                              *)
ReleasesOnlyItsOwnLock ==
  [][\A h \in Handlers : pc'[h] # pc[h] =>
       \A i \in Ids : redisLock[i] \in (Handlers \ {h}) \X {"lock1", "lock2"}
                        => redisLock'[i] = redisLock[i]]_vars

(* Every accepted transfer is answered, unless its replica dies: no set of  *)
(* concurrent transfers waits for ever on each other's rows.                *)
EveryTransferAnswered ==
  \A h \in Handlers : pc[h] \in Running ~> pc[h] \in Finished

=============================================================================
