------------------------ MODULE AccountLedgerProofs ------------------------
(***************************************************************************)
(* Theorems of AccountLedger, for any accounts, requests and number of     *)
(* concurrent handlers.                                                    *)
(*                                                                         *)
(* The inductive invariant Inv adds to TypeOK what is true of each handler *)
(* at each statement of Transfer: its request passed validation, it holds  *)
(* exactly the rows it has read, those rows are still what it read, and    *)
(* its uncommitted writes are the ones computed from them.  Only the       *)
(* handler's own steps can disturb the local half of that; the shared half *)
(* (rows and locks) is kept by any step that leaves the rows it locked     *)
(* alone, which is lemma Frame.                                            *)
(***************************************************************************)
EXTENDS AccountLedger, FiniteSetTheorems, WellFoundedInduction, TLAPS

HasFirst  == InTransaction \ {"lockFirst"}
HasSecond == HasFirst \ {"lockSecond"}
Covered   == HasSecond \ {"check"}

ValidRequest(h) ==
  /\ req[h].amount > 0
  /\ req[h].from # req[h].to

HoldsRow(h, i, row) ==
  /\ rowLock[i] = h
  /\ row = RowOf(i)
  /\ Exists(i)

Locking(h) ==
  /\ pc[h] \in InTransaction => ValidRequest(h)
  /\ pc[h] \in HasFirst => HoldsRow(h, FirstId(h), first[h])
  /\ pc[h] \in HasSecond => HoldsRow(h, SecondId(h), second[h])
  /\ \A i \in Ids : rowLock[i] = h =>
       \/ i = FirstId(h) /\ pc[h] \in HasFirst
       \/ i = SecondId(h) /\ pc[h] \in HasSecond

(* The transaction's own version of the two rows. *)
DebitedRows(h) ==
  [EmptyTx.balance EXCEPT ![Source(h).id] = Numeric(Source(h).balance - req[h].amount)]
MovedRows(h) ==
  [DebitedRows(h) EXCEPT ![Dest(h).id] = Numeric(Dest(h).balance + req[h].amount)]

Writing(h) ==
  /\ pc[h] \in Covered => Source(h).balance >= req[h].amount
  /\ pc[h] \notin {"updateDest", "debit", "credit", "commit"} => tx[h] = EmptyTx
  /\ pc[h] = "updateDest" => tx[h] = [balance |-> DebitedRows(h), entries |-> {}]
  /\ pc[h] = "debit" => tx[h] = [balance |-> MovedRows(h), entries |-> {}]
  /\ pc[h] = "credit" =>
       tx[h] = [balance |-> MovedRows(h),
                entries |-> {EntryOf(h, "DEBIT", req[h].from)}]
  /\ pc[h] = "commit" =>
       tx[h] = [balance |-> MovedRows(h),
                entries |-> {EntryOf(h, "DEBIT", req[h].from),
                             EntryOf(h, "CREDIT", req[h].to)}]

Inv ==
  /\ TypeOK
  /\ \A h \in Handlers : Locking(h)
  /\ \A h \in Handlers : Writing(h)
  /\ \A i \in Ids : balance[i] % 2 = 0

-----------------------------------------------------------------------------
(* What the stored amount of NUMERIC(18,4) is: never less, always on scale, *)
(* exact when the amount was on scale.                                      *)
LEMMA NumericFacts ==
  ASSUME NEW v \in Int
  PROVE  /\ Numeric(v) \in Int
         /\ Numeric(v) >= v
         /\ Numeric(v) % 2 = 0
         /\ v % 2 = 0 => Numeric(v) = v
BY DEF Numeric

LEMMA RequestType ==
  ASSUME TypeOK, NEW h \in Handlers
  PROVE  /\ req[h] \in Request
         /\ req[h].amount \in Int
         /\ req[h].from \in Ids /\ req[h].to \in Ids
         /\ req[h].from \in Nat /\ req[h].to \in Nat
         /\ FirstId(h) \in Ids /\ SecondId(h) \in Ids
<1>1. req[h] \in Requests \cup {NoRequest}
  BY DEF TypeOK
<1>2. NoRequest \in Request
  BY IdsAssumption DEF NoRequest, Request
<1>3. req[h] \in Request
  BY <1>1, <1>2, RequestsAssumption
<1>4. req[h].amount \in Int /\ req[h].from \in Ids /\ req[h].to \in Ids
  BY <1>3 DEF Request
<1>5. FirstId(h) \in Ids /\ SecondId(h) \in Ids
  BY <1>4 DEF FirstId, SecondId, LockSequence
<1> QED BY <1>3, <1>4, <1>5, IdsAssumption

(* The rows a transfer has locked are its source and its destination.       *)
LEMMA SourceAndDest ==
  ASSUME TypeOK, NEW h \in Handlers, Locking(h), pc[h] \in HasSecond
  PROVE  /\ Source(h) = RowOf(req[h].from)
         /\ Dest(h) = RowOf(req[h].to)
         /\ Exists(req[h].from) /\ Exists(req[h].to)
         /\ rowLock[req[h].from] = h /\ rowLock[req[h].to] = h
         /\ req[h].amount > 0 /\ req[h].from # req[h].to
<1>1. /\ HoldsRow(h, FirstId(h), first[h])
      /\ HoldsRow(h, SecondId(h), second[h])
      /\ ValidRequest(h)
  BY DEF Locking, HasFirst, HasSecond
<1>2. first[h].id = FirstId(h)
  BY <1>1 DEF HoldsRow, RowOf
<1>3. CASE req[h].from > req[h].to
  <2>1. FirstId(h) = req[h].to /\ SecondId(h) = req[h].from
    BY <1>3 DEF FirstId, SecondId, LockSequence
  <2> QED BY <2>1, <1>1, <1>2 DEF HoldsRow, ValidRequest, Source, Dest
<1>4. CASE ~(req[h].from > req[h].to)
  <2>1. FirstId(h) = req[h].from /\ SecondId(h) = req[h].to
    BY <1>4 DEF FirstId, SecondId, LockSequence
  <2> QED BY <2>1, <1>1, <1>2 DEF HoldsRow, ValidRequest, Source, Dest
<1> QED BY <1>3, <1>4

(* A step that leaves a handler's own state alone, and the rows it has      *)
(* locked, preserves what is known of that handler.                         *)
LEMMA Frame ==
  ASSUME TypeOK, NEW g \in Handlers, Locking(g), Writing(g),
         pc'[g] = pc[g], req'[g] = req[g], first'[g] = first[g],
         second'[g] = second[g], tx'[g] = tx[g],
         \A i \in Ids : rowLock'[i] = g <=> rowLock[i] = g,
         \A i \in Ids : rowLock[i] = g =>
            /\ balance'[i] = balance[i]
            /\ version'[i] = version[i]
            /\ Exists(i) => Exists(i)'
  PROVE  Locking(g)' /\ Writing(g)'
<1>1. FirstId(g) \in Ids /\ SecondId(g) \in Ids
  BY RequestType
<1>2. FirstId(g)' = FirstId(g) /\ SecondId(g)' = SecondId(g)
  BY DEF FirstId, SecondId, LockSequence
<1>3. \A i \in Ids : \A row : HoldsRow(g, i, row) => HoldsRow(g, i, row)'
  BY DEF HoldsRow, RowOf
<1>4. Locking(g)'
  BY <1>1, <1>2, <1>3 DEF Locking, ValidRequest
<1>5. Writing(g)'
  BY DEF Writing, Source, Dest, DebitedRows, MovedRows, EntryOf, Numeric
<1> QED BY <1>4, <1>5

(* A step of handler h: the others' local state is untouched, rows change   *)
(* hands only between h and nobody, and only rows h has locked, or rows     *)
(* nobody has locked, change.                                               *)
OnlyMoves(h) ==
  /\ \A g \in Handlers \ {h} :
       /\ pc'[g] = pc[g] /\ req'[g] = req[g] /\ tx'[g] = tx[g]
       /\ first'[g] = first[g] /\ second'[g] = second[g]
  /\ \A i \in Ids : rowLock'[i] = rowLock[i]
                    \/ {rowLock[i], rowLock'[i]} \subseteq {h, NoHandler}
  /\ \A i \in Ids : rowLock[i] \in Handlers \ {h} =>
       /\ balance'[i] = balance[i]
       /\ version'[i] = version[i]
       /\ Exists(i) => Exists(i)'

LEMMA Others ==
  ASSUME Inv, NEW h \in Handlers, OnlyMoves(h)
  PROVE  \A g \in Handlers \ {h} : Locking(g)' /\ Writing(g)'
<1> SUFFICES ASSUME NEW g \in Handlers \ {h} PROVE Locking(g)' /\ Writing(g)'
  OBVIOUS
<1>1. TypeOK /\ Locking(g) /\ Writing(g)
  BY DEF Inv
<1>2. /\ pc'[g] = pc[g] /\ req'[g] = req[g] /\ first'[g] = first[g]
      /\ second'[g] = second[g] /\ tx'[g] = tx[g]
  BY DEF OnlyMoves
<1>3. \A i \in Ids : rowLock'[i] = g <=> rowLock[i] = g
  BY NobodyAssumption DEF OnlyMoves
<1>4. \A i \in Ids : rowLock[i] = g =>
        /\ balance'[i] = balance[i]
        /\ version'[i] = version[i]
        /\ Exists(i) => Exists(i)'
  BY DEF OnlyMoves
<1> QED BY <1>1, <1>2, <1>3, <1>4, Frame

LEMMA InitInv == Init => Inv
<1> SUFFICES ASSUME Init PROVE Inv
  OBVIOUS
<1>1. TypeOK
  BY IdsAssumption
     DEF Init, TypeOK, Row, NoRow, EmptyTx, Unwritten
<1>2. \A h \in Handlers : Locking(h)
  BY NobodyAssumption DEF Init, Locking, InTransaction, HasFirst, HasSecond
<1>3. \A h \in Handlers : Writing(h)
  BY DEF Init, Writing, Covered, InTransaction, HasFirst, HasSecond
<1>4. \A i \in Ids : balance[i] % 2 = 0
  BY DEF Init
<1> QED BY <1>1, <1>2, <1>3, <1>4 DEF Inv

(* A rolled back transaction, by an error or by a crash.                    *)
LEMMA ForgetInv ==
  ASSUME Inv, NEW h \in Handlers, Forget(h), UNCHANGED <<tables, redisLock, req>>,
         pc' \in [Handlers -> Running \cup Finished \cup {"idle"}],
         pc'[h] \notin InTransaction,
         \A g \in Handlers \ {h} : pc'[g] = pc[g],
         result' \in [Handlers -> {"none", "ok", "error"}]
  PROVE  Inv'
<1>1. TypeOK
  BY DEF Inv
<1>2. TypeOK'
  <2>1. first' \in [Handlers -> Row] /\ second' \in [Handlers -> Row]
    BY <1>1, IdsAssumption DEF TypeOK, Forget, Row, NoRow
  <2>2. rowLock' \in [Ids -> Handlers \cup {NoHandler}]
    BY <1>1 DEF TypeOK, Forget
  <2>3. tx' \in [Handlers -> [balance : [Ids -> Nat \cup {Unwritten}],
                               entries : SUBSET Entry]]
    BY <1>1 DEF TypeOK, Forget, EmptyTx
  <2> QED BY <1>1, <2>1, <2>2, <2>3 DEF TypeOK, tables
<1>3. OnlyMoves(h)
  BY <1>1, NobodyAssumption DEF OnlyMoves, Forget, TypeOK, tables, Exists
<1>4. Locking(h)'
  BY <1>1, NobodyAssumption
     DEF TypeOK, Locking, Forget, HasFirst, HasSecond
<1>5. Writing(h)'
  BY <1>1 DEF TypeOK, Writing, Forget, Covered, HasFirst, HasSecond,
              InTransaction, EmptyTx
<1>6. \A i \in Ids : balance'[i] % 2 = 0
  BY DEF Inv, tables
<1> QED BY <1>2, <1>3, <1>4, <1>5, <1>6, Others DEF Inv

LEMMA ReturnInv ==
  ASSUME Inv, NEW h \in Handlers, NEW answer \in {"ok", "error"},
         Return(h, answer), UNCHANGED <<tables, redisLock, req>>
  PROVE  Inv'
<1>1. /\ Forget(h)
      /\ pc' \in [Handlers -> Running \cup Finished \cup {"idle"}]
      /\ pc'[h] \notin InTransaction
      /\ \A g \in Handlers \ {h} : pc'[g] = pc[g]
      /\ result' \in [Handlers -> {"none", "ok", "error"}]
  BY DEF Inv, TypeOK, Return, InTransaction, Running, Finished
<1> QED BY <1>1, ForgetInv

-----------------------------------------------------------------------------
(* Each action preserves the inductive invariant. *)

(* A step of h that moves no row and no lock, stages nothing and stays      *)
(* outside the transaction or moves within its read-only part.              *)
LEMMA ReceiveInv ==
  ASSUME Inv, NEW h \in Handlers, Receive(h)
  PROVE  Inv'
<1>1. TypeOK /\ pc[h] = "idle"
  BY DEF Inv, Receive
<1>2. TypeOK'
  BY <1>1 DEF TypeOK, Receive, Goto, tables, Running
<1>3. OnlyMoves(h)
  BY <1>1 DEF OnlyMoves, Receive, Goto, tables, Exists, TypeOK
<1>4. pc'[h] \in {"redis1", "begin"}
  BY <1>1 DEF Receive, Goto, TypeOK
<1>5. \A i \in Ids : rowLock[i] # h
  BY <1>1 DEF Inv, Locking, HasFirst, HasSecond, InTransaction
<1>6. Locking(h)' /\ Writing(h)'
  BY <1>1, <1>4, <1>5
     DEF Inv, Receive, tables, Locking, Writing, Covered, HasFirst, HasSecond, InTransaction
<1>7. \A i \in Ids : balance'[i] % 2 = 0
  BY DEF Inv, Receive, tables
<1> QED BY <1>2, <1>3, <1>6, <1>7, Others DEF Inv

LEMMA BeginInv ==
  ASSUME Inv, NEW h \in Handlers, Begin(h)
  PROVE  Inv'
<1>1. CASE Return(h, "error") /\ UNCHANGED <<tables, redisLock, req>>
  BY <1>1, ReturnInv
<1>2. CASE /\ Goto(h, "lockFirst")
           /\ UNCHANGED <<result, first, second, tx, rowLock, tables, redisLock, req>>
           /\ pc[h] = "begin"
           /\ ~(req[h].amount <= 0)
           /\ req[h].from # req[h].to
  <2>1. TypeOK
    BY DEF Inv
  <2>2. TypeOK'
    BY <1>2, <2>1 DEF TypeOK, Goto, tables, Running, InTransaction
  <2>3. OnlyMoves(h)
    BY <1>2, <2>1 DEF OnlyMoves, Goto, tables, Exists, TypeOK
  <2>4. pc'[h] = "lockFirst"
    BY <1>2, <2>1 DEF Goto, TypeOK
  <2>5. req[h].amount > 0
    BY <1>2, <2>1, RequestType
  <2>6. Locking(h)' /\ Writing(h)'
    BY <1>2, <2>4, <2>5
       DEF Inv, tables, Locking, Writing, ValidRequest, Covered, HasFirst, HasSecond,
           InTransaction
  <2>7. \A i \in Ids : balance'[i] % 2 = 0
    BY <1>2 DEF Inv, tables
  <2> QED BY <2>2, <2>3, <2>6, <2>7, Others DEF Inv
<1> QED BY <1>1, <1>2 DEF Begin

LEMMA LockFirstInv ==
  ASSUME Inv, NEW h \in Handlers, LockFirst(h)
  PROVE  Inv'
<1>1. CASE Return(h, "error") /\ UNCHANGED <<tables, redisLock, req>>
  BY <1>1, ReturnInv
<1>2. CASE /\ Exists(FirstId(h))
           /\ ReadForUpdate(h, FirstId(h))
           /\ first' = [first EXCEPT ![h] = RowOf(FirstId(h))]
           /\ Goto(h, "lockSecond")
           /\ pc[h] = "lockFirst"
           /\ UNCHANGED <<result, second, tx, tables, redisLock, req>>
  <2>1. TypeOK /\ FirstId(h) \in Ids
    BY RequestType DEF Inv
  <2>2. RowOf(FirstId(h)) \in Row
    BY <2>1 DEF RowOf, Row, TypeOK
  <2>3. TypeOK'
    BY <1>2, <2>1, <2>2
       DEF TypeOK, Goto, ReadForUpdate, tables, Running, InTransaction
  <2>4. OnlyMoves(h)
    BY <1>2, <2>1 DEF OnlyMoves, Goto, ReadForUpdate, tables, Exists, TypeOK
  <2>5. pc'[h] = "lockSecond" /\ first'[h] = RowOf(FirstId(h)) /\ FirstId(h)' = FirstId(h)
    BY <1>2, <2>1 DEF Goto, TypeOK, FirstId, LockSequence
  <2>6. Locking(h)'
    <3>1. \A i \in Ids : rowLock[i] # h
      BY <1>2 DEF Inv, Locking, HasFirst, HasSecond
    <3>2. HoldsRow(h, FirstId(h), first[h])'
      BY <1>2, <2>1, <2>5 DEF HoldsRow, ReadForUpdate, RowOf, Exists, tables, TypeOK
    <3>3. \A i \in Ids : rowLock'[i] = h => i = FirstId(h)
      BY <1>2, <2>1, <3>1 DEF ReadForUpdate, TypeOK
    <3>4. ValidRequest(h)'
      BY <1>2 DEF Inv, Locking, ValidRequest, InTransaction
    <3> QED BY <2>5, <3>2, <3>3, <3>4 DEF Locking, HasFirst, HasSecond, InTransaction
  <2>7. Writing(h)'
    BY <1>2, <2>5 DEF Inv, Writing, Covered, HasFirst, HasSecond
  <2>8. \A i \in Ids : balance'[i] % 2 = 0
    BY <1>2 DEF Inv, tables
  <2> QED BY <2>3, <2>4, <2>6, <2>7, <2>8, Others DEF Inv
<1> QED BY <1>1, <1>2 DEF LockFirst

LEMMA LockSecondInv ==
  ASSUME Inv, NEW h \in Handlers, LockSecond(h)
  PROVE  Inv'
<1>1. CASE Return(h, "error") /\ UNCHANGED <<tables, redisLock, req>>
  BY <1>1, ReturnInv
<1>2. CASE /\ Exists(SecondId(h))
           /\ ReadForUpdate(h, SecondId(h))
           /\ second' = [second EXCEPT ![h] = RowOf(SecondId(h))]
           /\ Goto(h, "check")
           /\ pc[h] = "lockSecond"
           /\ UNCHANGED <<result, first, tx, tables, redisLock, req>>
  <2>1. TypeOK /\ FirstId(h) \in Ids /\ SecondId(h) \in Ids
    BY RequestType DEF Inv
  <2>2. RowOf(SecondId(h)) \in Row
    BY <2>1 DEF RowOf, Row, TypeOK
  <2>3. TypeOK'
    BY <1>2, <2>1, <2>2
       DEF TypeOK, Goto, ReadForUpdate, tables, Running, InTransaction
  <2>4. OnlyMoves(h)
    BY <1>2, <2>1 DEF OnlyMoves, Goto, ReadForUpdate, tables, Exists, TypeOK
  <2>5. /\ pc'[h] = "check" /\ second'[h] = RowOf(SecondId(h))
        /\ FirstId(h)' = FirstId(h) /\ SecondId(h)' = SecondId(h)
    BY <1>2, <2>1 DEF Goto, TypeOK, FirstId, SecondId, LockSequence
  <2>6. Locking(h)'
    <3>1. /\ HoldsRow(h, FirstId(h), first[h])
          /\ \A i \in Ids : rowLock[i] = h => i = FirstId(h)
          /\ ValidRequest(h)
      BY <1>2 DEF Inv, Locking, HasFirst, HasSecond, InTransaction
    <3>2. HoldsRow(h, SecondId(h), second[h])'
      BY <1>2, <2>1, <2>5 DEF HoldsRow, ReadForUpdate, RowOf, Exists, tables, TypeOK
    <3>3. HoldsRow(h, FirstId(h), first[h])'
      BY <1>2, <2>1, <2>5, <3>1 DEF HoldsRow, ReadForUpdate, RowOf, Exists, tables, TypeOK
    <3>4. \A i \in Ids : rowLock'[i] = h => i \in {FirstId(h), SecondId(h)}
      BY <1>2, <2>1, <3>1 DEF ReadForUpdate, TypeOK
    <3>5. ValidRequest(h)'
      BY <1>2, <3>1 DEF ValidRequest
    <3> QED BY <2>5, <3>2, <3>3, <3>4, <3>5 DEF Locking, HasFirst, HasSecond, InTransaction
  <2>7. Writing(h)'
    BY <1>2, <2>5 DEF Inv, Writing, Covered, HasFirst, HasSecond
  <2>8. \A i \in Ids : balance'[i] % 2 = 0
    BY <1>2 DEF Inv, tables
  <2> QED BY <2>3, <2>4, <2>6, <2>7, <2>8, Others DEF Inv
<1> QED BY <1>1, <1>2 DEF LockSecond

(* A step of h between two statements at which it holds both rows, that     *)
(* changes nothing but its own uncommitted writes: what is left to show is  *)
(* that the writes are the ones the next statement expects.                 *)
LEMMA StageInv ==
  ASSUME Inv, NEW h \in Handlers, NEW label \in HasSecond, pc[h] \in HasSecond,
         Goto(h, label),
         UNCHANGED <<tables, rowLock, redisLock, req, result, first, second>>,
         \A g \in Handlers \ {h} : tx'[g] = tx[g],
         tx' \in [Handlers -> [balance : [Ids -> Nat \cup {Unwritten}],
                               entries : SUBSET Entry]],
         pc'[h] = label => Writing(h)'
  PROVE  Inv'
<1>1. TypeOK
  BY DEF Inv
<1>2. TypeOK'
  BY <1>1 DEF TypeOK, Goto, tables, Running, HasSecond, HasFirst
<1>3. OnlyMoves(h)
  BY <1>1 DEF OnlyMoves, Goto, tables, Exists, TypeOK
<1>4. pc'[h] = label
  BY <1>1 DEF Goto, TypeOK
<1>5. Locking(h)'
  BY <1>4
     DEF Inv, Locking, HoldsRow, ValidRequest, FirstId, SecondId, LockSequence, RowOf,
         Exists, tables,
             HasFirst, HasSecond
<1>6. \A i \in Ids : balance'[i] % 2 = 0
  BY DEF Inv, tables
<1> QED BY <1>2, <1>3, <1>4, <1>5, <1>6, Others DEF Inv

LEMMA CheckBalanceInv ==
  ASSUME Inv, NEW h \in Handlers, CheckBalance(h)
  PROVE  Inv'
<1>1. CASE Return(h, "error") /\ UNCHANGED <<tables, redisLock, req>>
  BY <1>1, ReturnInv
<1>2. CASE /\ Goto(h, "updateSource")
           /\ UNCHANGED <<result, first, second, tx, rowLock, tables, redisLock, req>>
           /\ pc[h] = "check"
           /\ ~(Source(h).balance < req[h].amount)
  <2>1. TypeOK /\ Locking(h) /\ Writing(h) /\ pc[h] \in HasSecond
    BY <1>2 DEF Inv, HasSecond, HasFirst, InTransaction
  <2>2. Source(h).balance \in Nat /\ req[h].amount \in Int
    BY <2>1, RequestType DEF Source, TypeOK, Row
  <2>3. Source(h).balance >= req[h].amount
    BY <1>2, <2>2
  <2>4. pc'[h] = "updateSource" => Writing(h)'
    BY <1>2, <2>1, <2>3 DEF Writing, Source
  <2> QED BY <1>2, <2>1, <2>4, StageInv DEF TypeOK, HasSecond, HasFirst, InTransaction
<1> QED BY <1>1, <1>2 DEF CheckBalance

(* What the two UPDATEs stage is a balance the column can hold.             *)
LEMMA StagedRows ==
  ASSUME TypeOK, NEW h \in Handlers, Locking(h), Writing(h), pc[h] \in Covered
  PROVE  /\ Numeric(Source(h).balance - req[h].amount) \in Nat
         /\ Numeric(Dest(h).balance + req[h].amount) \in Nat
         /\ DebitedRows(h) \in [Ids -> Nat \cup {Unwritten}]
         /\ MovedRows(h) \in [Ids -> Nat \cup {Unwritten}]
         /\ \A type \in {"DEBIT", "CREDIT"}, i \in Ids : EntryOf(h, type, i) \in Entry
<1>1. /\ req[h].amount \in Int /\ req[h].amount > 0
      /\ Source(h).balance >= req[h].amount
      /\ Source(h) \in Row /\ Dest(h) \in Row
      /\ req[h].ref \in Refs \cup {""}
  BY RequestType
     DEF Locking, Writing, Covered, HasSecond, HasFirst, ValidRequest, TypeOK, Source, Dest,
         Request
<1>2. Source(h).balance \in Nat /\ Dest(h).balance \in Nat
  BY <1>1 DEF Row
<1>3. /\ Numeric(Source(h).balance - req[h].amount) \in Nat
      /\ Numeric(Dest(h).balance + req[h].amount) \in Nat
      /\ Numeric(req[h].amount) \in Nat
  <2>1. \A v \in Nat : Numeric(v) \in Nat
    <3> SUFFICES ASSUME NEW v \in Nat PROVE Numeric(v) \in Nat
      OBVIOUS
    <3>1. Numeric(v) \in Int /\ Numeric(v) >= v
      BY NumericFacts
    <3> QED BY <3>1
  <2>2. /\ Source(h).balance - req[h].amount \in Nat
        /\ Dest(h).balance + req[h].amount \in Nat
        /\ req[h].amount \in Nat
    <3> DEFINE a == req[h].amount
               x == Source(h).balance
               y == Dest(h).balance
    <3>1. a \in Int /\ a > 0 /\ x >= a /\ x \in Nat /\ y \in Nat
      BY <1>1, <1>2
    <3> HIDE DEF a, x, y
    <3>2. x - a \in Nat /\ y + a \in Nat /\ a \in Nat
      BY <3>1
    <3> QED BY <3>2 DEF a, x, y
  <2> QED BY <2>1, <2>2
<1>4. /\ DebitedRows(h) \in [Ids -> Nat \cup {Unwritten}]
      /\ MovedRows(h) \in [Ids -> Nat \cup {Unwritten}]
  BY <1>3 DEF DebitedRows, MovedRows, EmptyTx
<1>5. \A type \in {"DEBIT", "CREDIT"}, i \in Ids : EntryOf(h, type, i) \in Entry
  BY <1>1, <1>3 DEF EntryOf, Entry
<1> QED BY <1>3, <1>4, <1>5

LEMMA UpdateSourceInv ==
  ASSUME Inv, NEW h \in Handlers, UpdateSource(h)
  PROVE  Inv'
<1>1. CASE Return(h, "error") /\ UNCHANGED <<tables, redisLock, req>>
  BY <1>1, ReturnInv
<1>2. CASE /\ tx' = [tx EXCEPT ![h].balance[Source(h).id] =
                                 Numeric(Source(h).balance - req[h].amount)]
           /\ Goto(h, "updateDest")
           /\ pc[h] = "updateSource"
           /\ UNCHANGED <<result, first, second, rowLock, tables, redisLock, req>>
  <2>1. TypeOK /\ Locking(h) /\ Writing(h) /\ pc[h] \in HasSecond /\ pc[h] \in Covered
    BY <1>2 DEF Inv, Covered, HasSecond, HasFirst, InTransaction
  <2>2. tx[h] = EmptyTx
    BY <1>2, <2>1 DEF Writing
  <2>3. tx'[h] = [balance |-> DebitedRows(h), entries |-> {}]
    <3>1. tx'[h] = [tx[h] EXCEPT !.balance =
                      [tx[h].balance EXCEPT ![Source(h).id] =
                         Numeric(Source(h).balance - req[h].amount)]]
      BY <1>2, <2>1 DEF TypeOK
    <3> QED BY <3>1, <2>2 DEF DebitedRows, EmptyTx
  <2>4. DebitedRows(h)' = DebitedRows(h) /\ Source(h)' = Source(h)
    BY <1>2 DEF DebitedRows, Source
  <2>5. pc'[h] = "updateDest" => Writing(h)'
    BY <1>2, <2>1, <2>3, <2>4 DEF Writing, Covered, HasSecond, HasFirst, InTransaction
  <2>6. tx' \in [Handlers -> [balance : [Ids -> Nat \cup {Unwritten}],
                               entries : SUBSET Entry]]
    <3>1. tx' = [tx EXCEPT ![h] = tx'[h]]
      BY <1>2, <2>1 DEF TypeOK
    <3>2. tx'[h] \in [balance : [Ids -> Nat \cup {Unwritten}], entries : SUBSET Entry]
      BY <2>1, <2>3, StagedRows
    <3>3. tx \in [Handlers -> [balance : [Ids -> Nat \cup {Unwritten}],
                               entries : SUBSET Entry]]
      BY <2>1 DEF TypeOK
    <3> QED BY <3>1, <3>2, <3>3
  <2>7. \A g \in Handlers \ {h} : tx'[g] = tx[g]
    BY <1>2, <2>1 DEF TypeOK
  <2> QED BY <1>2, <2>1, <2>5, <2>6, <2>7, StageInv DEF HasSecond, HasFirst, InTransaction
<1> QED BY <1>1, <1>2 DEF UpdateSource, UpdateAccountBalance

LEMMA UpdateDestInv ==
  ASSUME Inv, NEW h \in Handlers, UpdateDest(h)
  PROVE  Inv'
<1>1. CASE Return(h, "error") /\ UNCHANGED <<tables, redisLock, req>>
  BY <1>1, ReturnInv
<1>2. CASE /\ tx' = [tx EXCEPT ![h].balance[Dest(h).id] =
                                 Numeric(Dest(h).balance + req[h].amount)]
           /\ Goto(h, "debit")
           /\ pc[h] = "updateDest"
           /\ UNCHANGED <<result, first, second, rowLock, tables, redisLock, req>>
  <2>1. TypeOK /\ Locking(h) /\ Writing(h) /\ pc[h] \in HasSecond /\ pc[h] \in Covered
    BY <1>2 DEF Inv, Covered, HasSecond, HasFirst, InTransaction
  <2>2. tx[h] = [balance |-> DebitedRows(h), entries |-> {}]
    BY <1>2, <2>1 DEF Writing
  <2>3. tx'[h] = [balance |-> MovedRows(h), entries |-> {}]
    <3>1. tx'[h] = [tx[h] EXCEPT !.balance =
                      [tx[h].balance EXCEPT ![Dest(h).id] =
                         Numeric(Dest(h).balance + req[h].amount)]]
      BY <1>2, <2>1 DEF TypeOK
    <3> QED BY <3>1, <2>2 DEF MovedRows
  <2>4. MovedRows(h)' = MovedRows(h) /\ Source(h)' = Source(h)
    BY <1>2 DEF MovedRows, DebitedRows, Source, Dest
  <2>5. pc'[h] = "debit" => Writing(h)'
    BY <1>2, <2>1, <2>3, <2>4 DEF Writing, Covered, HasSecond, HasFirst, InTransaction
  <2>6. tx' \in [Handlers -> [balance : [Ids -> Nat \cup {Unwritten}],
                               entries : SUBSET Entry]]
    <3>1. tx' = [tx EXCEPT ![h] = tx'[h]]
      BY <1>2, <2>1 DEF TypeOK
    <3>2. tx'[h] \in [balance : [Ids -> Nat \cup {Unwritten}], entries : SUBSET Entry]
      BY <2>1, <2>3, StagedRows
    <3>3. tx \in [Handlers -> [balance : [Ids -> Nat \cup {Unwritten}],
                               entries : SUBSET Entry]]
      BY <2>1 DEF TypeOK
    <3> QED BY <3>1, <3>2, <3>3
  <2>7. \A g \in Handlers \ {h} : tx'[g] = tx[g]
    BY <1>2, <2>1 DEF TypeOK
  <2> QED BY <1>2, <2>1, <2>5, <2>6, <2>7, StageInv DEF HasSecond, HasFirst, InTransaction
<1> QED BY <1>1, <1>2 DEF UpdateDest, UpdateAccountBalance

LEMMA LedgerEntryInv ==
  ASSUME Inv, NEW h \in Handlers, WriteDebit(h) \/ WriteCredit(h)
  PROVE  Inv'
<1>1. TypeOK /\ Locking(h) /\ Writing(h) /\ pc[h] \in HasSecond /\ pc[h] \in Covered
  BY DEF Inv, Covered, HasSecond, HasFirst, InTransaction, WriteDebit, WriteCredit
<1>2. /\ Source(h).id = req[h].from /\ Dest(h).id = req[h].to
      /\ req[h].from \in Ids /\ req[h].to \in Ids
  BY <1>1, SourceAndDest, RequestType DEF RowOf
<1>3. UNCHANGED <<tables, rowLock, redisLock, req, result, first, second>>
  BY DEF WriteDebit, WriteCredit, CreateLedgerEntry
<1>4. \A type, i : EntryOf(h, type, i)' = EntryOf(h, type, i)
  BY <1>3 DEF EntryOf
<1>5. MovedRows(h)' = MovedRows(h) /\ Source(h)' = Source(h)
  BY <1>3 DEF MovedRows, DebitedRows, Source, Dest
<1>6. CASE WriteDebit(h)
  <2>1. tx'[h] = [balance |-> MovedRows(h), entries |-> {EntryOf(h, "DEBIT", req[h].from)}]
    <3>0. tx \in [Handlers -> [balance : [Ids -> Nat \cup {Unwritten}],
                               entries : SUBSET Entry]]
      BY <1>1 DEF TypeOK
    <3>1. tx'[h] = [balance |-> tx[h].balance,
                    entries |-> tx[h].entries \cup {EntryOf(h, "DEBIT", Source(h).id)}]
      BY <3>0, <1>6 DEF WriteDebit, CreateLedgerEntry
    <3>2. tx[h] = [balance |-> MovedRows(h),
                   entries |-> {}]
      BY <1>1, <1>6 DEF WriteDebit, Writing
    <3>3. tx'[h] = [balance |-> MovedRows(h),
                    entries |-> {} \cup {EntryOf(h, "DEBIT", req[h].from)}]
      BY <1>2, <3>1, <3>2
    <3>4. {} \cup {EntryOf(h, "DEBIT", req[h].from)}
            = {EntryOf(h, "DEBIT", req[h].from)}
      OBVIOUS
    <3> QED BY <3>3, <3>4
  <2>2. pc'[h] = "credit" => Writing(h)'
    BY <1>1, <1>3, <1>4, <1>5, <1>6, <2>1
       DEF Writing, WriteDebit, Covered, HasSecond, HasFirst, InTransaction
  <2>3. /\ tx' = [tx EXCEPT ![h] = tx'[h]]
        /\ Goto(h, "credit")
    BY <1>1, <1>6 DEF TypeOK, WriteDebit, CreateLedgerEntry
  <2>4. tx' \in [Handlers -> [balance : [Ids -> Nat \cup {Unwritten}],
                               entries : SUBSET Entry]]
    <3>1. tx'[h] \in [balance : [Ids -> Nat \cup {Unwritten}], entries : SUBSET Entry]
      BY <1>1, <1>2, <2>1, StagedRows
    <3>2. tx \in [Handlers -> [balance : [Ids -> Nat \cup {Unwritten}],
                               entries : SUBSET Entry]]
      BY <1>1 DEF TypeOK
    <3> QED BY <2>3, <3>1, <3>2
  <2>5. \A g \in Handlers \ {h} : tx'[g] = tx[g]
    BY <1>1, <2>3 DEF TypeOK
  <2> QED BY <1>1, <1>3, <2>2, <2>3, <2>4, <2>5, StageInv
          DEF HasSecond, HasFirst, InTransaction
<1>7. CASE WriteCredit(h)
  <2>1. tx'[h] = [balance |-> MovedRows(h),
                  entries |-> {EntryOf(h, "DEBIT", req[h].from),
                               EntryOf(h, "CREDIT", req[h].to)}]
    <3>0. tx \in [Handlers -> [balance : [Ids -> Nat \cup {Unwritten}],
                               entries : SUBSET Entry]]
      BY <1>1 DEF TypeOK
    <3>1. tx'[h] = [balance |-> tx[h].balance,
                    entries |-> tx[h].entries \cup {EntryOf(h, "CREDIT", Dest(h).id)}]
      BY <3>0, <1>7 DEF WriteCredit, CreateLedgerEntry
    <3>2. tx[h] = [balance |-> MovedRows(h),
                   entries |-> {EntryOf(h, "DEBIT", req[h].from)}]
      BY <1>1, <1>7 DEF WriteCredit, Writing
    <3>3. tx'[h] = [balance |-> MovedRows(h),
                    entries |-> {EntryOf(h, "DEBIT", req[h].from)} \cup {EntryOf(h, "CREDIT", req[h].to)}]
      BY <1>2, <3>1, <3>2
    <3>4. {EntryOf(h, "DEBIT", req[h].from)} \cup {EntryOf(h, "CREDIT", req[h].to)}
            = {EntryOf(h, "DEBIT", req[h].from), EntryOf(h, "CREDIT", req[h].to)}
      OBVIOUS
    <3> QED BY <3>3, <3>4
  <2>2. pc'[h] = "commit" => Writing(h)'
    BY <1>1, <1>3, <1>4, <1>5, <1>7, <2>1
       DEF Writing, WriteCredit, Covered, HasSecond, HasFirst, InTransaction
  <2>3. /\ tx' = [tx EXCEPT ![h] = tx'[h]]
        /\ Goto(h, "commit")
    BY <1>1, <1>7 DEF TypeOK, WriteCredit, CreateLedgerEntry
  <2>4. tx' \in [Handlers -> [balance : [Ids -> Nat \cup {Unwritten}],
                               entries : SUBSET Entry]]
    <3>1. tx'[h] \in [balance : [Ids -> Nat \cup {Unwritten}], entries : SUBSET Entry]
      BY <1>1, <1>2, <2>1, StagedRows
    <3>2. tx \in [Handlers -> [balance : [Ids -> Nat \cup {Unwritten}],
                               entries : SUBSET Entry]]
      BY <1>1 DEF TypeOK
    <3> QED BY <2>3, <3>1, <3>2
  <2>5. \A g \in Handlers \ {h} : tx'[g] = tx[g]
    BY <1>1, <2>3 DEF TypeOK
  <2> QED BY <1>1, <1>3, <2>2, <2>3, <2>4, <2>5, StageInv
          DEF HasSecond, HasFirst, InTransaction
<1> QED BY <1>6, <1>7

(* What a commit does to the tables.                                        *)
LEMMA CommitRows ==
  ASSUME Inv, NEW h \in Handlers, NEW answer, Commit(h, answer)
  PROVE  LET from == req[h].from
             to   == req[h].to
         IN /\ from \in Ids /\ to \in Ids /\ from # to
            /\ req[h].amount \in Int /\ req[h].amount > 0
            /\ balance[from] >= req[h].amount
            /\ Exists(from) /\ Exists(to)
            /\ rowLock[from] = h /\ rowLock[to] = h
            /\ balance' = [balance EXCEPT
                             ![from] = Numeric(balance[from] - req[h].amount),
                             ![to] = Numeric(balance[to] + req[h].amount)]
            /\ version' = [version EXCEPT ![from] = @ + 1, ![to] = @ + 1]
            /\ ledger' = ledger \cup {EntryOf(h, "DEBIT", from), EntryOf(h, "CREDIT", to)}
            /\ balance' \in [Ids -> Nat]
            /\ EntryOf(h, "DEBIT", from) \in Entry
            /\ EntryOf(h, "CREDIT", to) \in Entry
<1> DEFINE from == req[h].from
           to   == req[h].to
           newSrc  == Numeric(balance[from] - req[h].amount)
           newDest == Numeric(balance[to] + req[h].amount)
<1>1. TypeOK /\ Locking(h) /\ Writing(h) /\ pc[h] = "commit"
  BY DEF Inv, Commit
<1>2. pc[h] \in HasSecond /\ pc[h] \in Covered
  BY <1>1 DEF Covered, HasSecond, HasFirst, InTransaction
<1>3. /\ from \in Ids /\ to \in Ids /\ req[h].amount \in Int
  BY <1>1, RequestType
<1>4. /\ Source(h) = RowOf(from) /\ Dest(h) = RowOf(to)
      /\ from # to /\ req[h].amount > 0
      /\ Exists(from) /\ Exists(to)
      /\ rowLock[from] = h /\ rowLock[to] = h
  BY <1>1, <1>2, SourceAndDest
<1>5. balance[from] >= req[h].amount
  BY <1>1, <1>2, <1>4 DEF Writing, RowOf
<1>6. newSrc \in Nat /\ newDest \in Nat
  BY <1>1, <1>2, <1>4, StagedRows DEF RowOf
<1>7. tx[h].balance = [[i \in Ids |-> Unwritten] EXCEPT ![from] = newSrc, ![to] = newDest]
  <2>1. tx[h].balance = MovedRows(h)
    BY <1>1 DEF Writing
  <2>2. /\ Source(h).id = from /\ Source(h).balance = balance[from]
        /\ Dest(h).id = to /\ Dest(h).balance = balance[to]
    BY <1>4 DEF RowOf
  <2>3. EmptyTx.balance = [i \in Ids |-> Unwritten]
    BY DEF EmptyTx
  <2> QED BY <2>1, <2>2, <2>3 DEF MovedRows, DebitedRows
<1>8. /\ tx[h].balance[from] = newSrc /\ tx[h].balance[to] = newDest
      /\ \A i \in Ids \ {from, to} : tx[h].balance[i] = Unwritten
  BY <1>3, <1>4, <1>7
<1>9. newSrc # Unwritten /\ newDest # Unwritten
  BY <1>6 DEF Unwritten
<1> HIDE DEF newSrc, newDest
<1>10. balance \in [Ids -> Nat] /\ version \in [Ids -> Nat]
  BY <1>1 DEF TypeOK
<1>11. balance' = [balance EXCEPT ![from] = newSrc, ![to] = newDest]
  BY <1>3, <1>4, <1>8, <1>9, <1>10 DEF Commit
<1>12. version' = [version EXCEPT ![from] = @ + 1, ![to] = @ + 1]
  BY <1>3, <1>4, <1>8, <1>9, <1>10 DEF Commit
<1>13. balance' \in [Ids -> Nat]
  BY <1>3, <1>6, <1>10, <1>11
<1>14. ledger' = ledger \cup {EntryOf(h, "DEBIT", from), EntryOf(h, "CREDIT", to)}
  BY <1>1 DEF Commit, Writing
<1>15. EntryOf(h, "DEBIT", from) \in Entry /\ EntryOf(h, "CREDIT", to) \in Entry
  BY <1>1, <1>2, <1>3, StagedRows
<1> QED BY <1>3, <1>4, <1>5, <1>11, <1>12, <1>13, <1>14, <1>15 DEF newSrc, newDest

LEMMA CommitInv ==
  ASSUME Inv, NEW h \in Handlers, NEW answer \in {"ok", "error"}, Commit(h, answer)
  PROVE  Inv'
<1> DEFINE from == req[h].from
           to   == req[h].to
<1>1. TypeOK /\ pc[h] = "commit"
  BY DEF Inv, Commit
<1>2. /\ from \in Ids /\ to \in Ids /\ from # to
      /\ req[h].amount \in Int /\ req[h].amount > 0
      /\ rowLock[from] = h /\ rowLock[to] = h
      /\ balance' = [balance EXCEPT ![from] = Numeric(balance[from] - req[h].amount),
                                    ![to] = Numeric(balance[to] + req[h].amount)]
      /\ version' = [version EXCEPT ![from] = @ + 1, ![to] = @ + 1]
      /\ ledger' = ledger \cup {EntryOf(h, "DEBIT", from), EntryOf(h, "CREDIT", to)}
      /\ balance' \in [Ids -> Nat]
      /\ EntryOf(h, "DEBIT", from) \in Entry
      /\ EntryOf(h, "CREDIT", to) \in Entry
  BY CommitRows
<1>3. Return(h, answer) /\ UNCHANGED <<seeds, redisLock, req>>
  BY DEF Commit
<1>4. /\ Forget(h)
      /\ pc'[h] \in {"unlock2", "done"}
      /\ \A g \in Handlers \ {h} : pc'[g] = pc[g]
  BY <1>1, <1>3 DEF TypeOK, Return
<1>5. TypeOK'
  <2>1. first' \in [Handlers -> Row] /\ second' \in [Handlers -> Row]
    BY <1>1, <1>4, IdsAssumption DEF TypeOK, Forget, Row, NoRow
  <2>2. rowLock' \in [Ids -> Handlers \cup {NoHandler}]
    BY <1>1, <1>4 DEF TypeOK, Forget
  <2>3. tx' \in [Handlers -> [balance : [Ids -> Nat \cup {Unwritten}],
                               entries : SUBSET Entry]]
    BY <1>1, <1>4 DEF TypeOK, Forget, EmptyTx
  <2>4. version' \in [Ids -> Nat] /\ balance' \in [Ids -> Nat] /\ ledger' \subseteq Entry
    <3>1. version \in [Ids -> Nat] /\ ledger \subseteq Entry
      BY <1>1 DEF TypeOK
    <3>2. version' \in [Ids -> Nat]
      BY <1>2, <3>1
    <3>3. ledger' \subseteq Entry
      BY <1>2, <3>1
    <3> QED BY <1>2, <3>2, <3>3
  <2>5. /\ pc' \in [Handlers -> Running \cup Finished \cup {"idle"}]
        /\ result' \in [Handlers -> {"none", "ok", "error"}]
    BY <1>1, <1>3 DEF TypeOK, Return, Running, Finished
  <2> QED BY <1>1, <1>3, <2>1, <2>2, <2>3, <2>4, <2>5 DEF TypeOK
<1>6. OnlyMoves(h)
  <2>1. \A i \in Ids : rowLock[i] \in Handlers \ {h} => i # from /\ i # to
    BY <1>2
  <2>2. \A i \in Ids : rowLock[i] \in Handlers \ {h} =>
          balance'[i] = balance[i] /\ version'[i] = version[i]
    BY <1>1, <1>2, <2>1 DEF TypeOK
  <2>3. \A i \in Ids : rowLock'[i] = rowLock[i]
                       \/ {rowLock[i], rowLock'[i]} \subseteq {h, NoHandler}
    BY <1>1, <1>4 DEF TypeOK, Forget
  <2>4. \A g \in Handlers \ {h} :
          /\ pc'[g] = pc[g] /\ req'[g] = req[g] /\ tx'[g] = tx[g]
          /\ first'[g] = first[g] /\ second'[g] = second[g]
    BY <1>1, <1>3, <1>4 DEF TypeOK, Forget
  <2> QED BY <1>3, <2>2, <2>3, <2>4 DEF OnlyMoves, Exists
<1>7. Locking(h)'
  BY <1>1, <1>4, NobodyAssumption
     DEF TypeOK, Locking, Forget, HasFirst, HasSecond, InTransaction
<1>8. Writing(h)'
  BY <1>1, <1>4 DEF TypeOK, Writing, Forget, Covered, HasFirst, HasSecond,
              InTransaction, EmptyTx
<1>9. \A i \in Ids : balance'[i] % 2 = 0
  <2>1. \A v \in Int : Numeric(v) % 2 = 0
    BY NumericFacts
  <2>2. /\ balance[from] - req[h].amount \in Int
        /\ balance[to] + req[h].amount \in Int
    BY <1>1, <1>2 DEF TypeOK
  <2>3. /\ Numeric(balance[from] - req[h].amount) % 2 = 0
        /\ Numeric(balance[to] + req[h].amount) % 2 = 0
    BY <2>1, <2>2
  <2>4. \A i \in Ids : balance[i] % 2 = 0
    BY DEF Inv
  <2>5. balance \in [Ids -> Nat]
    BY <1>1 DEF TypeOK
  <2> QED BY <1>2, <2>3, <2>4, <2>5
<1> QED BY <1>5, <1>6, <1>7, <1>8, <1>9, Others DEF Inv

(* Steps of a handler outside its transaction: the Redis locks.             *)
LEMMA RedisInv ==
  ASSUME Inv, NEW h \in Handlers,
         AcquireLock1(h) \/ AcquireLock2(h) \/ ReleaseLock2(h) \/ ReleaseLock1(h)
  PROVE  Inv'
<1>1. TypeOK /\ FirstId(h) \in Ids /\ SecondId(h) \in Ids
  BY RequestType DEF Inv
<1>2. /\ pc[h] \in {"redis1", "redis2", "unlock2", "unlock1"}
      /\ UNCHANGED <<tables, rowLock, req, first, second, tx>>
      /\ \E label \in {"redis2", "begin", "unlock1", "done"} : Goto(h, label)
  BY DEF AcquireLock1, AcquireLock2, ReleaseLock2, ReleaseLock1, AcquireLock, Release
<1>3. redisLock' \in [Ids -> Tokens \cup {NoToken}]
  BY <1>1
     DEF TypeOK, Tokens, AcquireLock1, AcquireLock2, ReleaseLock2, ReleaseLock1,
         AcquireLock, Release
<1>4. result' \in [Handlers -> {"none", "ok", "error"}]
  BY <1>1
     DEF TypeOK, AcquireLock1, AcquireLock2, ReleaseLock2, ReleaseLock1,
         AcquireLock, Release
<1>5. TypeOK'
  BY <1>1, <1>2, <1>3, <1>4 DEF TypeOK, Goto, tables, Running, Finished
<1>6. OnlyMoves(h)
  BY <1>1, <1>2 DEF OnlyMoves, Goto, tables, Exists, TypeOK
<1>7. pc'[h] \in {"redis2", "begin", "unlock1", "done"}
  BY <1>1, <1>2 DEF Goto, TypeOK
<1>8. \A i \in Ids : rowLock[i] # h
  BY <1>2 DEF Inv, Locking, HasFirst, HasSecond, InTransaction
<1>9. Locking(h)' /\ Writing(h)'
  BY <1>2, <1>7, <1>8
     DEF Inv, tables, Locking, Writing, Covered, HasFirst, HasSecond, InTransaction
<1>10. \A i \in Ids : balance'[i] % 2 = 0
  BY <1>2 DEF Inv, tables
<1> QED BY <1>5, <1>6, <1>9, <1>10, Others DEF Inv

LEMMA CrashInv ==
  ASSUME Inv, NEW h \in Handlers, Crash(h)
  PROVE  Inv'
<1>1. /\ Forget(h)
      /\ pc' \in [Handlers -> Running \cup Finished \cup {"idle"}]
      /\ pc'[h] \notin InTransaction
      /\ \A g \in Handlers \ {h} : pc'[g] = pc[g]
      /\ result' \in [Handlers -> {"none", "ok", "error"}]
      /\ UNCHANGED <<tables, redisLock, req>>
  BY DEF Inv, TypeOK, Crash, Goto, InTransaction, Running, Finished
<1> QED BY <1>1, ForgetInv

LEMMA LockExpiresInv ==
  ASSUME Inv, NEW i \in Ids, LockExpires(i)
  PROVE  Inv'
<1>1. TypeOK'
  BY DEF Inv, TypeOK, LockExpires, tables, handlers
<1>2. UNCHANGED <<tables, rowLock, handlers>>
  BY DEF LockExpires
<1>3. ASSUME NEW g \in Handlers PROVE Locking(g)' /\ Writing(g)'
  BY <1>2, Frame DEF Inv, tables, handlers, Exists
<1>4. \A j \in Ids : balance'[j] % 2 = 0
  BY <1>2 DEF Inv, tables
<1> QED BY <1>1, <1>3, <1>4 DEF Inv

(* The seeder writes only rows that do not exist yet, which nobody can have *)
(* locked.                                                                  *)
LEMMA SeedInv ==
  ASSUME Inv, NEW i \in Ids, NEW b \in SeedBalances, SeedAccount(i, b)
  PROVE  Inv'
<1>1. TypeOK
  BY DEF Inv
<1>2. /\ Numeric(b) \in Nat /\ Numeric(b) % 2 = 0
  <2>1. b \in Nat
    BY SeedAssumption
  <2>2. /\ Numeric(b) \in Int /\ Numeric(b) >= b /\ Numeric(b) % 2 = 0
    BY <2>1, NumericFacts
  <2> QED BY <2>1, <2>2
<1>3. /\ seeds' = [seeds EXCEPT ![i] = @ + 1]
      /\ UNCHANGED <<rowLock, redisLock, handlers>>
  BY DEF SeedAccount
<1>4. /\ balance' \in [Ids -> Nat]
      /\ version' \in [Ids -> Nat]
      /\ \A j \in Ids : Exists(j) \/ j # i => balance'[j] = balance[j] /\ version'[j] = version[j]
      /\ balance'[i] \in {balance[i], Numeric(b)}
  <2>1. balance \in [Ids -> Nat] /\ version \in [Ids -> Nat]
    BY <1>1 DEF TypeOK
  <2>2. CASE Exists(i)
    BY <2>1, <2>2 DEF SeedAccount
  <2>3. CASE ~Exists(i)
    <3>1. /\ balance' = [balance EXCEPT ![i] = Numeric(b)]
          /\ version' = [version EXCEPT ![i] = 1]
      BY <2>3 DEF SeedAccount
    <3> QED BY <1>2, <2>1, <2>3, <3>1
  <2> QED BY <2>2, <2>3
<1>5. ledger' \subseteq Entry
  <2> DEFINE e == [id |-> <<"INIT", <<i, seeds[i]>>>>, account |-> i,
                   amount |-> Numeric(b), type |-> "CREDIT", ref |-> "system_init"]
  <2>1. seeds[i] \in Nat
    BY <1>1 DEF TypeOK
  <2>2. e \in Entry
    BY <1>2, <2>1 DEF Entry
  <2>3. ledger' = ledger \cup {e}
    BY DEF SeedAccount
  <2>4. ledger \subseteq Entry
    BY <1>1 DEF TypeOK
  <2> QED BY <2>2, <2>3, <2>4
<1>6. seeds' \in [Ids -> Nat]
  BY <1>1, <1>3 DEF TypeOK
<1>7. TypeOK'
  BY <1>1, <1>3, <1>4, <1>5, <1>6 DEF TypeOK, handlers
<1>8. ASSUME NEW g \in Handlers PROVE Locking(g)' /\ Writing(g)'
  <2>1. Locking(g) /\ Writing(g)
    BY DEF Inv
  <2>2. \A j \in Ids : rowLock[j] = g => Exists(j)
    BY <2>1 DEF Locking, HoldsRow
  <2>3. \A j \in Ids : Exists(j) => Exists(j)'
    BY <1>1, <1>3 DEF Exists, TypeOK
  <2> QED BY <1>1, <1>3, <1>4, <2>1, <2>2, <2>3, Frame DEF handlers
<1>9. \A j \in Ids : balance'[j] % 2 = 0
  BY <1>2, <1>4 DEF Inv
<1> QED BY <1>7, <1>8, <1>9 DEF Inv

LEMMA StutterInv ==
  ASSUME Inv, UNCHANGED vars
  PROVE  Inv'
<1>1. TypeOK'
  BY DEF Inv, TypeOK, vars
<1>2. ASSUME NEW g \in Handlers PROVE Locking(g)' /\ Writing(g)'
  BY Frame DEF Inv, vars, Exists
<1>3. \A i \in Ids : balance'[i] % 2 = 0
  BY DEF Inv, vars
<1> QED BY <1>1, <1>2, <1>3 DEF Inv

LEMMA NextInv == Inv /\ [Next]_vars => Inv'
<1> SUFFICES ASSUME Inv, [Next]_vars PROVE Inv'
  OBVIOUS
<1>1. ASSUME NEW h \in Handlers, Receive(h) PROVE Inv'
  BY <1>1, ReceiveInv
<1>2. ASSUME NEW h \in Handlers, Advance(h) PROVE Inv'
  <2>1. CASE Begin(h)
    BY <2>1, BeginInv
  <2>2. CASE LockFirst(h)
    BY <2>2, LockFirstInv
  <2>3. CASE LockSecond(h)
    BY <2>3, LockSecondInv
  <2>4. CASE CheckBalance(h)
    BY <2>4, CheckBalanceInv
  <2>5. CASE UpdateSource(h)
    BY <2>5, UpdateSourceInv
  <2>6. CASE UpdateDest(h)
    BY <2>6, UpdateDestInv
  <2>7. CASE WriteDebit(h) \/ WriteCredit(h)
    BY <2>7, LedgerEntryInv
  <2>8. CASE \E answer \in {"ok", "error"} : Commit(h, answer)
    BY <2>8, CommitInv
  <2>9. CASE AcquireLock1(h) \/ AcquireLock2(h) \/ ReleaseLock2(h) \/ ReleaseLock1(h)
    BY <2>9, RedisInv
  <2> QED BY <1>2, <2>1, <2>2, <2>3, <2>4, <2>5, <2>6, <2>7, <2>8, <2>9 DEF Advance
<1>3. ASSUME NEW h \in Handlers, StatementFails(h) PROVE Inv'
  BY <1>3, ReturnInv DEF StatementFails
<1>4. ASSUME NEW h \in Handlers, Crash(h) PROVE Inv'
  BY <1>4, CrashInv
<1>5. ASSUME NEW i \in Ids, LockExpires(i) PROVE Inv'
  BY <1>5, LockExpiresInv
<1>6. ASSUME NEW i \in Ids, NEW b \in SeedBalances, SeedAccount(i, b) PROVE Inv'
  BY <1>6, SeedInv
<1>7. CASE UNCHANGED vars
  BY <1>7, StutterInv
<1> QED BY <1>1, <1>2, <1>3, <1>4, <1>5, <1>6, <1>7 DEF Next, Idle

-----------------------------------------------------------------------------
(* Theorems *)

(* The inductive invariant holds in every reachable state.                  *)
THEOREM Invariance == Spec => []Inv
BY InitInv, NextInv, PTL DEF Spec

(* Types, for every instance; balances in particular are never negative.    *)
THEOREM TypeCorrect == Spec => []TypeOK
<1>1. Inv => TypeOK
  BY DEF Inv
<1> QED BY <1>1, Invariance, PTL

(* No update of a balance is ever lost, for any number of concurrent        *)
(* transfers over any accounts: service.go:62-103.                          *)
THEOREM NoUpdateLost == Spec => []NoLostUpdate
<1>1. Inv => NoLostUpdate
  BY DEF Inv, NoLostUpdate, Locking, HoldsRow, HasFirst, HasSecond
<1> QED BY <1>1, Invariance, PTL

(* Amounts the NUMERIC(18,4) columns hold exactly.                          *)
OnScaleRequests == \A r \in Requests : r.amount % 2 = 0

(* With such amounts a commit moves exactly the amount of its request.      *)
LEMMA CommitTransfers ==
  ASSUME OnScaleRequests, Inv, NEW h \in Handlers, NEW answer, Commit(h, answer)
  PROVE  TransferStep(h)
<1> DEFINE from == req[h].from
           to   == req[h].to
           amount == req[h].amount
<1>1. /\ from \in Ids /\ to \in Ids /\ from # to
      /\ amount \in Int /\ amount > 0 /\ balance[from] >= amount
      /\ balance' = [balance EXCEPT ![from] = Numeric(balance[from] - amount),
                                    ![to] = Numeric(balance[to] + amount)]
      /\ version' = [version EXCEPT ![from] = @ + 1, ![to] = @ + 1]
      /\ ledger' = ledger \cup {EntryOf(h, "DEBIT", from), EntryOf(h, "CREDIT", to)}
  BY CommitRows
<1>2. balance \in [Ids -> Nat]
  BY DEF Inv, TypeOK
<1>3. amount % 2 = 0
  <2>1. req[h] \in Requests \/ req[h] = NoRequest
    BY DEF Inv, TypeOK
  <2>2. CASE req[h] \in Requests
    BY <2>2 DEF OnScaleRequests
  <2>3. CASE req[h] = NoRequest
    <3>0. NoRequest.amount = 0
      BY DEF NoRequest
    <3>1. req[h].amount = 0
      BY <2>3, <3>0
    <3>2. req[h].amount > 0
      BY <1>1
    <3>3. FALSE
      BY <3>1, <3>2
    <3> QED BY <3>3
  <2> QED BY <2>1, <2>2, <2>3
<1>4. balance[from] % 2 = 0 /\ balance[to] % 2 = 0
  BY <1>1 DEF Inv
<1>5. /\ Numeric(balance[from] - amount) = balance[from] - amount
      /\ Numeric(balance[to] + amount) = balance[to] + amount
  <2>1. ASSUME NEW x \in Nat, NEW a \in Int, x % 2 = 0, a % 2 = 0
        PROVE  (x - a) % 2 = 0 /\ (x + a) % 2 = 0
    BY <2>1
  <2>2. \A v \in Int : v % 2 = 0 => Numeric(v) = v
    BY NumericFacts
  <2>3. /\ (balance[from] - amount) % 2 = 0 /\ (balance[to] + amount) % 2 = 0
        /\ balance[from] - amount \in Int /\ balance[to] + amount \in Int
    BY <1>1, <1>2, <1>3, <1>4, <2>1
  <2> QED BY <2>2, <2>3
<1> QED BY <1>1, <1>2, <1>5 DEF TransferStep

LEMMA PairStep ==
  ASSUME OnScaleRequests, Inv, [Next]_vars, NEW i \in Ids, Exists(i), balance'[i] # balance[i]
  PROVE  \E h \in Handlers : TransferStep(h)
<1>1. ASSUME NEW h \in Handlers, NEW answer, Commit(h, answer)
      PROVE  TransferStep(h)
  BY <1>1, CommitTransfers
<1>2. ASSUME NEW h \in Handlers, Receive(h) \/ StatementFails(h) \/ Crash(h) PROVE FALSE
  BY <1>2 DEF Receive, StatementFails, Crash, tables
<1>3. ASSUME NEW h \in Handlers, Advance(h) PROVE TransferStep(h)
  <2>1. CASE \E answer \in {"ok", "error"} : Commit(h, answer)
    BY <2>1, <1>1
  <2>2. CASE Begin(h) \/ LockFirst(h) \/ LockSecond(h) \/ CheckBalance(h)
             \/ UpdateSource(h) \/ UpdateDest(h)
    BY <2>2
       DEF Begin, LockFirst, LockSecond, CheckBalance, UpdateSource, UpdateDest, tables
  <2>3. CASE WriteDebit(h) \/ WriteCredit(h)
    BY <2>3 DEF WriteDebit, WriteCredit, CreateLedgerEntry, tables
  <2>4. CASE AcquireLock1(h) \/ AcquireLock2(h) \/ ReleaseLock2(h) \/ ReleaseLock1(h)
    BY <2>4
       DEF AcquireLock1, AcquireLock2, ReleaseLock2, ReleaseLock1, AcquireLock, Release, tables
  <2> QED BY <1>3, <2>1, <2>2, <2>3, <2>4 DEF Advance
<1>4. ASSUME NEW j \in Ids, LockExpires(j) PROVE FALSE
  BY <1>4 DEF LockExpires, tables
<1>5. ASSUME NEW j \in Ids, NEW b \in SeedBalances, SeedAccount(j, b) PROVE FALSE
  BY <1>5 DEF SeedAccount, Inv, TypeOK
<1>6. ~UNCHANGED vars
  BY DEF vars
<1> QED BY <1>2, <1>3, <1>4, <1>5, <1>6 DEF Next, Idle

(* Money moves only in pairs, if amounts are on the columns' scale: every   *)
(* change of a balance is one transfer's commit, and the ledger records     *)
(* exactly that debit and that credit.  Without OnScaleRequests it is false *)
(* (run AccountLedgerSubScale).                                             *)
THEOREM PairedMovement == OnScaleRequests => (Spec => MoneyMovesInPairs)
<1> SUFFICES ASSUME OnScaleRequests PROVE Spec => MoneyMovesInPairs
  OBVIOUS
<1>1. Inv /\ [Next]_vars =>
        [(\E i \in Ids : Exists(i) /\ balance'[i] # balance[i])
           => \E h \in Handlers : TransferStep(h)]_vars
  BY PairStep
<1> QED BY <1>1, Invariance, PTL DEF MoneyMovesInPairs, Spec

-----------------------------------------------------------------------------
(* The lock order *)

(* Induction, for a set of numbers: the least number outside it would be    *)
(* neither 0 nor the successor of one inside.                               *)
LEMMA SetInduction ==
  ASSUME NEW S, 0 \in S, \A n \in Nat : n \in S => n + 1 \in S
  PROVE  Nat \subseteq S
<1> SUFFICES ASSUME Nat \ S # {} PROVE FALSE
  OBVIOUS
<1>1. PICK n \in Nat \ S : \A m \in Nat \ S : ~(<<m, n>> \in OpToRel(<, Nat))
  BY NatLessThanWellFounded, WFMin
<1>2. n # 0 /\ n - 1 \in Nat /\ n - 1 < n
  OBVIOUS
<1>3. <<n - 1, n>> \in OpToRel(<, Nat)
  BY <1>2 DEF OpToRel
<1>4. n - 1 \in S
  BY <1>1, <1>2, <1>3
<1>5. (n - 1) + 1 \in S
  BY <1>2, <1>4
<1> QED BY <1>5

LEMMA Greatest ==
  ASSUME NEW s, s \subseteq Nat, IsFiniteSet(s), s # {}
  PROVE  \E m \in s : \A x \in s : x <= m
<1> DEFINE HasGreatest(u) == u # {} => \E m \in u : \A x \in u : x <= m
           S == {n \in Nat : \A u \in SUBSET s : Cardinality(u) = n => HasGreatest(u)}
<1>1. \A u \in SUBSET s : IsFiniteSet(u) /\ Cardinality(u) \in Nat
  BY FS_Subset, FS_CardinalityType
<1>2. 0 \in S
  BY <1>1, FS_EmptySet
<1>3. ASSUME NEW n \in Nat, n \in S
      PROVE  n + 1 \in S
  <2> SUFFICES ASSUME NEW u \in SUBSET s, Cardinality(u) = n + 1, u # {}
               PROVE  \E m \in u : \A x \in u : x <= m
    OBVIOUS
  <2>1. PICK y \in u : TRUE
    OBVIOUS
  <2>2. /\ u \ {y} \in SUBSET s /\ y \in Nat
        /\ Cardinality(u \ {y}) = Cardinality(u) - 1
    BY <1>1, FS_RemoveElement
  <2>3. HasGreatest(u \ {y})
    BY <1>3, <2>2
  <2>4. CASE u \ {y} = {}
    BY <2>2, <2>4
  <2>5. CASE u \ {y} # {}
    <3>1. PICK m \in u \ {y} : \A x \in u \ {y} : x <= m
      BY <2>3, <2>5
    <3>2. m \in Nat /\ \A x \in u : x \in Nat
      BY <3>1
    <3>3. CASE m <= y
      BY <2>2, <3>1, <3>2, <3>3
    <3>4. CASE ~(m <= y)
      BY <2>2, <3>1, <3>2, <3>4
    <3> QED BY <3>3, <3>4
  <2> QED BY <2>4, <2>5
<1> HIDE DEF S
<1>4. Nat \subseteq S
  BY <1>2, <1>3, SetInduction
<1>5. Cardinality(s) \in S
  BY <1>1, <1>4
<1> QED BY <1>5 DEF S

(* A transfer that waits for a row holds only rows with a smaller id.       *)
LockOrder ==
  \A h \in Handlers :
    /\ pc[h] = "lockFirst" => \A i \in Ids : rowLock[i] # h
    /\ pc[h] = "lockSecond" => \A i \in Ids : rowLock[i] = h => i < SecondId(h)

LEMMA OrderedLocking ==
  ASSUME Inv
  PROVE  LockOrder
<1> SUFFICES ASSUME NEW h \in Handlers
             PROVE  /\ pc[h] = "lockFirst" => \A i \in Ids : rowLock[i] # h
                    /\ pc[h] = "lockSecond" => \A i \in Ids : rowLock[i] = h => i < SecondId(h)
  BY DEF LockOrder
<1>1. Locking(h) /\ TypeOK
  BY DEF Inv
<1>2. pc[h] = "lockFirst" => \A i \in Ids : rowLock[i] # h
  BY <1>1 DEF Locking, HasFirst, HasSecond, InTransaction
<1>3. ASSUME pc[h] = "lockSecond", NEW i \in Ids, rowLock[i] = h PROVE i < SecondId(h)
  <2>1. i = FirstId(h) /\ req[h].from # req[h].to
    BY <1>1, <1>3 DEF Locking, HasFirst, HasSecond, InTransaction, ValidRequest
  <2>2. req[h].from \in Nat /\ req[h].to \in Nat
    BY <1>1, RequestType
  <2> QED BY <2>1, <2>2 DEF FirstId, SecondId, LockSequence
<1> QED BY <1>2, <1>3

(* The lock order excludes circular waiting, for any number of transfers    *)
(* over any accounts (service.go:56-76): of a set of waiting transfers, the *)
(* one that waits for the greatest row waits for one outside the set, since *)
(* a waiting transfer that holds that row would be waiting for a greater.   *)
THEOREM DeadlockFree == Spec => []NoMutualWait
<1>1. ASSUME Inv, NEW S \in SUBSET Handlers, S # {}, \A h \in S : Blocked(h)
      PROVE  \E h \in S : rowLock[Wanted(h)] \notin S
  <2> DEFINE rows == {Wanted(h) : h \in S}
  <2>1. TypeOK /\ LockOrder
    BY <1>1, OrderedLocking DEF Inv
  <2>2. \A h \in S : Wanted(h) \in Ids
    BY <1>1, <2>1, RequestType DEF Wanted
  <2>3. IsFiniteSet(rows) /\ rows \subseteq Nat /\ rows # {}
    <3>1. rows \subseteq Ids /\ rows # {}
      BY <1>1, <2>2
    <3> QED BY <3>1, IdsAssumption, FS_Subset
  <2>4. PICK h \in S : \A g \in S : Wanted(g) <= Wanted(h)
    BY <2>3, Greatest
  <2>5. SUFFICES ASSUME rowLock[Wanted(h)] \in S
                 PROVE  FALSE
    BY <2>4
  <2>6. PICK g \in S : rowLock[Wanted(h)] = g
    BY <2>5
  <2>7. Blocked(g) /\ g \in Handlers /\ Wanted(h) \in Ids
    BY <1>1, <2>2, <2>4, <2>6
  <2>8. pc[g] = "lockSecond"
    BY <2>1, <2>6, <2>7 DEF Blocked, LockOrder
  <2>9. Wanted(h) < Wanted(g)
    BY <2>1, <2>6, <2>7, <2>8 DEF LockOrder, Wanted
  <2>10. Wanted(g) <= Wanted(h) /\ Wanted(g) \in Nat /\ Wanted(h) \in Nat
    BY <2>2, <2>4, <2>6, IdsAssumption
  <2> QED BY <2>9, <2>10
<1>2. ASSUME Inv
      PROVE  NoMutualWait
  <2> SUFFICES ASSUME NEW S \in (SUBSET Handlers) \ {{}}, \A h \in S : Blocked(h)
               PROVE  \E h \in S : rowLock[Wanted(h)] \notin S
    BY Zenon DEF NoMutualWait
  <2>1. S \in SUBSET Handlers /\ S # {}
    OBVIOUS
  <2> QED BY <1>1, <1>2, <2>1
<1> QED BY <1>2, Invariance, PTL

-----------------------------------------------------------------------------
(* Sums over finite sets *)

(* sum adds f up over the subsets of S, element by element as CHOOSE takes  *)
(* them.                                                                    *)
Chosen(s) == CHOOSE x \in s : TRUE

Sums(S, f, sum) ==
  sum = [s \in SUBSET S |-> IF s = {} THEN 0 ELSE f[Chosen(s)] + sum[s \ {Chosen(s)}]]

LEMMA ChosenIn == \A s : s # {} => Chosen(s) \in s
BY DEF Chosen

LEMMA SumsExist ==
  ASSUME NEW S, IsFiniteSet(S), NEW f
  PROVE  \E sum : Sums(S, f, sum)
<1> DEFINE Step(s, sum) == IF s = {} THEN 0 ELSE f[Chosen(s)] + sum[s \ {Chosen(s)}]
           Upto(n, sum) ==
             /\ sum = [s \in SUBSET S |-> sum[s]]
             /\ \A s \in SUBSET S : Cardinality(s) <= n => sum[s] = Step(s, sum)
           Good == {n \in Nat : \E sum : Upto(n, sum)}
<1>0. \A s \in SUBSET S : IsFiniteSet(s) /\ Cardinality(s) \in Nat
  BY FS_Subset, FS_CardinalityType
<1>1. 0 \in Good
  <2> DEFINE zero == [s \in SUBSET S |-> 0]
  <2>1. \A s \in SUBSET S : Cardinality(s) <= 0 => s = {}
    BY <1>0, FS_EmptySet
  <2>2. Upto(0, zero)
    BY <2>1
  <2> QED BY <2>2
<1>2. ASSUME NEW n \in Nat, n \in Good
      PROVE  n + 1 \in Good
  <2>1. PICK sum : Upto(n, sum)
    BY <1>2
  <2> DEFINE next == [s \in SUBSET S |-> Step(s, sum)]
  <2>2. ASSUME NEW s \in SUBSET S, Cardinality(s) <= n + 1
        PROVE  next[s] = Step(s, next)
    <3>1. CASE s = {}
      BY <3>1
    <3>2. CASE s # {}
      <4>1. Chosen(s) \in s /\ s \ {Chosen(s)} \in SUBSET S
        BY <3>2, ChosenIn
      <4>2. Cardinality(s \ {Chosen(s)}) <= n
        BY <1>0, <2>2, <4>1, FS_RemoveElement
      <4>3. next[s \ {Chosen(s)}] = sum[s \ {Chosen(s)}]
        BY <2>1, <4>1, <4>2
      <4> QED BY <3>2, <4>3
    <3> QED BY <3>1, <3>2
  <2>3. Upto(n + 1, next)
    BY <2>2
  <2> HIDE DEF next, Upto
  <2>4. \E g : Upto(n + 1, g)
    BY <2>3
  <2> QED BY <2>4
<1>3. Nat \subseteq Good
  <2> HIDE DEF Good
  <2> QED BY <1>1, <1>2, SetInduction
<1>4. Cardinality(S) \in Good
  BY <1>0, <1>3
<1>5. PICK sum : Upto(Cardinality(S), sum)
  BY <1>4
<1>6. \A s \in SUBSET S : Cardinality(s) <= Cardinality(S)
  BY FS_Subset
<1>7. \A s \in SUBSET S : sum[s] = Step(s, sum)
  BY <1>5, <1>6
<1> QED BY <1>5, <1>7 DEF Sums

LEMMA SumOverDef ==
  ASSUME NEW S, IsFiniteSet(S), NEW f
  PROVE  \E sum : Sums(S, f, sum) /\ SumOver(S, f) = sum[S]
<1> DEFINE sum == CHOOSE g : Sums(S, f, g)
<1>1. Sums(S, f, sum)
  BY SumsExist
<1>2. SumOver(S, f) = sum[S]
  BY DEF SumOver, MapThenSumSet, MapThenFoldSet, Sums, Chosen
<1> QED BY <1>1, <1>2

(* The sums of two functions over a set on which they agree are equal,      *)
(* whatever larger sets they are added up over.                             *)
LEMMA SumsAgree ==
  ASSUME NEW S, IsFiniteSet(S), NEW f, NEW sum, Sums(S, f, sum),
         NEW T, NEW g, NEW other, Sums(T, g, other)
  PROVE  \A s \in (SUBSET S) \cap (SUBSET T) : (\A x \in s : f[x] = g[x]) => sum[s] = other[s]
<1> DEFINE Good == {n \in Nat : \A s \in (SUBSET S) \cap (SUBSET T) :
                      Cardinality(s) = n /\ (\A x \in s : f[x] = g[x]) => sum[s] = other[s]}
<1>0. \A s \in SUBSET S : IsFiniteSet(s) /\ Cardinality(s) \in Nat
  BY FS_Subset, FS_CardinalityType
<1>1. 0 \in Good
  <2> SUFFICES ASSUME NEW s \in (SUBSET S) \cap (SUBSET T), Cardinality(s) = 0
               PROVE  sum[s] = other[s]
    OBVIOUS
  <2>1. s = {}
    BY <1>0, FS_EmptySet
  <2> QED BY <2>1 DEF Sums
<1>2. ASSUME NEW n \in Nat, n \in Good
      PROVE  n + 1 \in Good
  <2> SUFFICES ASSUME NEW s \in (SUBSET S) \cap (SUBSET T), Cardinality(s) = n + 1,
                      \A x \in s : f[x] = g[x]
               PROVE  sum[s] = other[s]
    OBVIOUS
  <2> DEFINE x == Chosen(s)
             r == s \ {x}
  <2>1. s # {} /\ x \in s
    BY <1>0, FS_EmptySet, ChosenIn
  <2>2. IsFiniteSet(s) /\ Cardinality(s \ {x}) = Cardinality(s) - 1
    BY <1>0, <2>1, FS_RemoveElement
  <2>3. Cardinality(r) = n /\ r \in (SUBSET S) \cap (SUBSET T)
    BY <2>2
  <2>4. sum[r] = other[r]
    BY <1>2, <2>3
  <2>5. sum[s] = f[x] + sum[r] /\ other[s] = g[x] + other[r]
    BY <2>1 DEF Sums
  <2> QED BY <2>1, <2>4, <2>5
<1>3. Nat \subseteq Good
  <2> HIDE DEF Good
  <2> QED BY <1>1, <1>2, SetInduction
<1> QED BY <1>0, <1>3

(* Sums of integers do not depend on the order of the elements.             *)
LEMMA AnyOrder ==
  ASSUME NEW S, IsFiniteSet(S), NEW f, NEW sum, Sums(S, f, sum),
         \A x \in S : f[x] \in Int
  PROVE  \A s \in SUBSET S : /\ sum[s] \in Int
                             /\ \A x \in s : sum[s] = f[x] + sum[s \ {x}]
<1> DEFINE Good == {n \in Nat : \A s \in SUBSET S : Cardinality(s) <= n =>
                      /\ sum[s] \in Int
                      /\ \A x \in s : sum[s] = f[x] + sum[s \ {x}]}
<1>0. \A s \in SUBSET S : IsFiniteSet(s) /\ Cardinality(s) \in Nat
  BY FS_Subset, FS_CardinalityType
<1>1. 0 \in Good
  <2> SUFFICES ASSUME NEW s \in SUBSET S, Cardinality(s) <= 0
               PROVE  s = {} /\ sum[s] \in Int
    OBVIOUS
  <2>1. s = {}
    BY <1>0, FS_EmptySet
  <2> QED BY <2>1 DEF Sums
<1>2. ASSUME NEW n \in Nat, n \in Good
      PROVE  n + 1 \in Good
  <2> SUFFICES ASSUME NEW s \in SUBSET S, Cardinality(s) = n + 1
               PROVE  /\ sum[s] \in Int
                      /\ \A x \in s : sum[s] = f[x] + sum[s \ {x}]
    <3>1. \A s \in SUBSET S : Cardinality(s) <= n + 1 =>
            Cardinality(s) <= n \/ Cardinality(s) = n + 1
      BY <1>0
    <3> QED BY <1>2, <3>1
  <2> DEFINE c == Chosen(s)
  <2>1. s # {} /\ c \in s
    BY <1>0, FS_EmptySet, ChosenIn
  <2>2. ASSUME NEW x \in s
        PROVE  s \ {x} \in SUBSET S /\ Cardinality(s \ {x}) <= n
    <3>1. Cardinality(s \ {x}) = Cardinality(s) - 1
      BY <1>0, FS_RemoveElement
    <3> QED BY <3>1
  <2>3. sum[s] = f[c] + sum[s \ {c}]
    BY <2>1 DEF Sums
  <2>4. \A x \in s : sum[s \ {x}] \in Int
    BY <1>2, <2>2
  <2>5. sum[s] \in Int
    BY <2>1, <2>3, <2>4
  <2>6. ASSUME NEW x \in s, x # c
        PROVE  sum[s] = f[x] + sum[s \ {x}]
    <3> DEFINE r == s \ {c, x}
    <3>1. (s \ {c}) \ {x} = r /\ (s \ {x}) \ {c} = r
      OBVIOUS
    <3>2. sum[s \ {c}] = f[x] + sum[(s \ {c}) \ {x}]
      BY <1>2, <2>1, <2>2, <2>6
    <3>3. sum[s \ {x}] = f[c] + sum[(s \ {x}) \ {c}]
      BY <1>2, <2>1, <2>2, <2>6
    <3>4. Cardinality(r) <= n /\ r \in SUBSET S
      <4>1. IsFiniteSet(s \ {c}) /\ r \in SUBSET S
        BY <1>0
      <4>2. Cardinality((s \ {c}) \ {x}) <= Cardinality(s \ {c})
        BY <4>1, FS_Subset
      <4> QED BY <1>0, <2>1, <2>2, <3>1, <4>1, <4>2
    <3>5. sum[r] \in Int
      BY <1>2, <3>4
    <3>6. sum[s \ {c}] = f[x] + sum[r] /\ sum[s \ {x}] = f[c] + sum[r]
      BY <3>1, <3>2, <3>3
    <3>7. f[c] \in Int /\ f[x] \in Int
      BY <2>1
    <3> HIDE DEF c, r
    <3> QED BY <2>3, <3>5, <3>6, <3>7
  <2> QED BY <2>3, <2>5, <2>6
<1>3. Nat \subseteq Good
  <2> HIDE DEF Good
  <2> QED BY <1>1, <1>2, SetInduction
<1> QED BY <1>0, <1>3

(* What a sum of integers is and how it changes.                            *)
LEMMA SumType ==
  ASSUME NEW S, IsFiniteSet(S), NEW f, \A x \in S : f[x] \in Int
  PROVE  SumOver(S, f) \in Int /\ (S = {} => SumOver(S, f) = 0)
<1>1. PICK sum : Sums(S, f, sum) /\ SumOver(S, f) = sum[S]
  BY SumOverDef
<1>2. sum[S] \in Int
  BY <1>1, AnyOrder
<1>3. S = {} => sum[S] = 0
  BY <1>1 DEF Sums
<1> QED BY <1>1, <1>2, <1>3

LEMMA SumSame ==
  ASSUME NEW S, IsFiniteSet(S), NEW f, NEW g, \A x \in S : f[x] = g[x]
  PROVE  SumOver(S, f) = SumOver(S, g)
<1>1. PICK sum : Sums(S, f, sum) /\ SumOver(S, f) = sum[S]
  BY SumOverDef
<1>2. PICK other : Sums(S, g, other) /\ SumOver(S, g) = other[S]
  BY SumOverDef
<1>3. S \in (SUBSET S) \cap (SUBSET S)
  OBVIOUS
<1>4. sum[S] = other[S]
  BY <1>1, <1>2, <1>3, SumsAgree
<1> QED BY <1>1, <1>2, <1>4

LEMMA SumRemove ==
  ASSUME NEW S, IsFiniteSet(S), NEW f, \A x \in S : f[x] \in Int, NEW x \in S
  PROVE  SumOver(S, f) = SumOver(S \ {x}, f) + f[x]
<1> DEFINE r == S \ {x}
<1>1. PICK sum : Sums(S, f, sum) /\ SumOver(S, f) = sum[S]
  BY SumOverDef
<1>2. IsFiniteSet(r)
  BY FS_RemoveElement
<1>3. PICK other : Sums(r, f, other) /\ SumOver(r, f) = other[r]
  BY <1>2, SumOverDef
<1>4. r \in (SUBSET S) \cap (SUBSET r)
  OBVIOUS
<1>5. sum[r] = other[r]
  BY <1>1, <1>2, <1>3, <1>4, SumsAgree
<1>6. sum[S] = f[x] + sum[r] /\ sum[r] \in Int /\ f[x] \in Int
  <2>1. S \in SUBSET S /\ r \in SUBSET S
    OBVIOUS
  <2>2. \A s \in SUBSET S : sum[s] \in Int /\ \A y \in s : sum[s] = f[y] + sum[s \ {y}]
    BY <1>1, AnyOrder
  <2> QED BY <2>1, <2>2
<1> HIDE DEF r
<1>7. SumOver(S, f) = SumOver(r, f) + f[x]
  BY <1>1, <1>3, <1>5, <1>6
<1> QED BY <1>7 DEF r

LEMMA SumAdd ==
  ASSUME NEW S, IsFiniteSet(S), NEW f, NEW x, x \notin S, NEW g,
         \A y \in S : f[y] \in Int /\ g[y] = f[y], g[x] \in Int
  PROVE  SumOver(S \cup {x}, g) = SumOver(S, f) + g[x]
<1> DEFINE all == S \cup {x}
<1>1. IsFiniteSet(all) /\ x \in all /\ all \ {x} = S /\ \A y \in all : g[y] \in Int
  BY FS_AddElement
<1>2. SumOver(all, g) = SumOver(all \ {x}, g) + g[x]
  BY <1>1, SumRemove
<1>3. SumOver(S, g) = SumOver(S, f)
  BY SumSame
<1> QED BY <1>1, <1>2, <1>3

LEMMA SumChange ==
  ASSUME NEW S, IsFiniteSet(S), NEW f, NEW g, NEW x \in S,
         \A y \in S : f[y] \in Int /\ g[y] \in Int /\ (y # x => g[y] = f[y])
  PROVE  SumOver(S, g) = SumOver(S, f) - f[x] + g[x]
<1> DEFINE r == S \ {x}
<1>1. IsFiniteSet(r)
  BY FS_RemoveElement
<1>2. \A y \in r : f[y] \in Int /\ g[y] = f[y]
  OBVIOUS
<1>3. SumOver(S, f) = SumOver(r, f) + f[x]
  BY SumRemove
<1>4. SumOver(S, g) = SumOver(r, g) + g[x]
  BY SumRemove
<1> HIDE DEF r
<1>5. SumOver(r, f) \in Int /\ SumOver(r, g) = SumOver(r, f)
  BY <1>1, <1>2, SumType, SumSame
<1> QED BY <1>3, <1>4, <1>5

-----------------------------------------------------------------------------
(* The ledger *)

BeforeCommit == {"idle", "redis1", "redis2", "begin"} \cup InTransaction

(* What the ledger and the answer say of a request; one that has not come   *)
(* to the end of its COMMIT has written nothing.                            *)
Atomic(h) ==
  /\ EntriesOf(h) \in {{}, {EntryOf(h, "DEBIT", req[h].from), EntryOf(h, "CREDIT", req[h].to)}}
  /\ result[h] = "ok" => EntriesOf(h) # {}
  /\ pc[h] \in BeforeCommit => EntriesOf(h) = {}

(* The seeder's rows are numbered by its runs.                              *)
SeedRows ==
  \A e \in ledger : e.id[1] = "INIT" =>
    /\ e.id[2] \in Ids \X Nat
    /\ e.id[2][1] = e.account /\ e.id[2][2] < seeds[e.account]

Recorded ==
  /\ Inv
  /\ IsFiniteSet(ledger)
  /\ \A h \in Handlers : Atomic(h)
  /\ SeedRows

(* What a step can do to the tables and, in between, to a handler.          *)
LEMMA QuietStep ==
  ASSUME Inv, NEW h \in Handlers,
         \/ Receive(h) \/ StatementFails(h) \/ Crash(h)
         \/ Advance(h) /\ ~\E answer \in {"ok", "error"} : Commit(h, answer)
  PROVE  /\ UNCHANGED tables
         /\ req'[h] = req[h] \/ pc[h] = "idle"
         /\ result'[h] \in {result[h], "error"}
         /\ pc'[h] \in BeforeCommit => pc[h] \in BeforeCommit
         /\ \A g \in Handlers \ {h} :
              req'[g] = req[g] /\ result'[g] = result[g] /\ pc'[g] = pc[g]
<1> DEFINE Goal ==
             /\ UNCHANGED tables
             /\ req'[h] = req[h] \/ pc[h] = "idle"
             /\ result'[h] \in {result[h], "error"}
             /\ pc'[h] \in BeforeCommit => pc[h] \in BeforeCommit
             /\ \A g \in Handlers \ {h} :
                  req'[g] = req[g] /\ result'[g] = result[g] /\ pc'[g] = pc[g]
<1>1. TypeOK
  BY DEF Inv
<1>2. ASSUME Return(h, "error"), UNCHANGED <<tables, redisLock, req>> PROVE Goal
  BY <1>1, <1>2 DEF Return, TypeOK, BeforeCommit, InTransaction
<1>3. ASSUME NEW label, Goto(h, label), UNCHANGED <<tables, req>>,
             \/ UNCHANGED result
             \/ result' = [result EXCEPT ![h] = "error"],
             label \in BeforeCommit => pc[h] \in BeforeCommit
      PROVE  Goal
  BY <1>1, <1>3 DEF Goto, TypeOK
<1> SUFFICES Goal
  OBVIOUS
<1> HIDE DEF Goal
<1>4. CASE Receive(h)
  BY <1>1, <1>4 DEF Receive, Goto, TypeOK, BeforeCommit, Goal
<1>5. CASE StatementFails(h)
  BY <1>2, <1>5 DEF StatementFails
<1>6. CASE Crash(h)
  BY <1>3, <1>6 DEF Crash, BeforeCommit, InTransaction
<1>7. CASE Begin(h) \/ LockFirst(h) \/ LockSecond(h) \/ CheckBalance(h)
  BY <1>2, <1>3, <1>7 DEF Begin, LockFirst, LockSecond, CheckBalance, BeforeCommit, InTransaction
<1>8. CASE UpdateSource(h) \/ UpdateDest(h)
  BY <1>2, <1>3, <1>8
     DEF UpdateSource, UpdateDest, UpdateAccountBalance, BeforeCommit, InTransaction
<1>9. CASE WriteDebit(h) \/ WriteCredit(h)
  BY <1>3, <1>9 DEF WriteDebit, WriteCredit, CreateLedgerEntry, BeforeCommit, InTransaction
<1>10. CASE AcquireLock1(h) \/ AcquireLock2(h) \/ ReleaseLock2(h) \/ ReleaseLock1(h)
  BY <1>3, <1>10 DEF AcquireLock1, AcquireLock2, AcquireLock, ReleaseLock2, ReleaseLock1, Release,
     BeforeCommit, InTransaction
<1> QED BY <1>4, <1>5, <1>6, <1>7, <1>8, <1>9, <1>10 DEF Advance, Goal

(* The three kinds of steps, for the tables.                                *)
LEMMA TableStep ==
  ASSUME [Next]_vars
  PROVE  \/ \E h \in Handlers : \E answer \in {"ok", "error"} : Commit(h, answer)
         \/ \E i \in Ids, b \in SeedBalances : SeedAccount(i, b)
         \/ \E h \in Handlers :
              \/ Receive(h) \/ StatementFails(h) \/ Crash(h)
              \/ Advance(h) /\ ~\E answer \in {"ok", "error"} : Commit(h, answer)
         \/ UNCHANGED <<tables, handlers>>
BY DEF Next, Idle, LockExpires, vars, tables, handlers

(* The rows a commit inserts, and its handler afterwards.                   *)
LEMMA CommitRecord ==
  ASSUME Recorded, NEW h \in Handlers, NEW answer \in {"ok", "error"}, Commit(h, answer)
  PROVE  LET debit  == EntryOf(h, "DEBIT", req[h].from)
             credit == EntryOf(h, "CREDIT", req[h].to)
         IN /\ ledger' = (ledger \cup {debit}) \cup {credit}
            /\ debit \in Entry /\ debit \notin ledger
            /\ credit \in Entry /\ credit \notin ledger \cup {debit}
            /\ IsFiniteSet(ledger)'
            /\ UNCHANGED <<req, seeds>>
            /\ pc'[h] \in {"unlock2", "done"}
            /\ \A g \in Handlers \ {h} : pc'[g] = pc[g] /\ result'[g] = result[g]
<1> DEFINE debit  == EntryOf(h, "DEBIT", req[h].from)
           credit == EntryOf(h, "CREDIT", req[h].to)
<1>1. TypeOK /\ pc[h] = "commit"
  BY DEF Recorded, Inv, Commit
<1>2. /\ ledger' = ledger \cup {debit, credit}
      /\ debit \in Entry /\ credit \in Entry
  BY CommitRows DEF Recorded
<1>3. EntriesOf(h) = {}
  BY <1>1 DEF Recorded, Atomic, BeforeCommit, InTransaction
<1>4. /\ debit.id = <<"DEBIT", h>> /\ credit.id = <<"CREDIT", h>>
      /\ debit.id # credit.id
  BY DEF EntryOf
<1>5. debit \notin ledger /\ credit \notin ledger /\ credit # debit
  BY <1>3, <1>4 DEF EntriesOf
<1>6. IsFiniteSet(ledger \cup {debit, credit})
  <2>1. IsFiniteSet(ledger \cup {debit})
    BY FS_AddElement DEF Recorded
  <2>2. IsFiniteSet((ledger \cup {debit}) \cup {credit})
    BY <2>1, FS_AddElement
  <2>3. (ledger \cup {debit}) \cup {credit} = ledger \cup {debit, credit}
    OBVIOUS
  <2> QED BY <2>2, <2>3
<1>7. /\ UNCHANGED <<req, seeds>>
      /\ pc'[h] \in {"unlock2", "done"}
      /\ \A g \in Handlers \ {h} : pc'[g] = pc[g] /\ result'[g] = result[g]
  BY <1>1 DEF Commit, Return, TypeOK
<1>8. IsFiniteSet(ledger)'
  BY <1>2, <1>6
<1> HIDE DEF debit, credit
<1>9. ledger' = (ledger \cup {debit}) \cup {credit}
  BY <1>2
<1> QED BY <1>2, <1>5, <1>7, <1>8, <1>9 DEF debit, credit

(* The row a run of the seeder inserts.                                     *)
LEMMA SeedRecord ==
  ASSUME Recorded, NEW i \in Ids, NEW b \in SeedBalances, SeedAccount(i, b)
  PROVE  LET row == [id |-> <<"INIT", <<i, seeds[i]>>>>, account |-> i, amount |-> Numeric(b),
                     type |-> "CREDIT", ref |-> "system_init"]
         IN /\ ledger' = ledger \cup {row} /\ row \notin ledger
            /\ IsFiniteSet(ledger)'
            /\ seeds[i] \in Nat /\ seeds' = [seeds EXCEPT ![i] = @ + 1]
            /\ UNCHANGED handlers
<1> DEFINE row == [id |-> <<"INIT", <<i, seeds[i]>>>>, account |-> i, amount |-> Numeric(b),
                   type |-> "CREDIT", ref |-> "system_init"]
<1>1. ledger' = ledger \cup {row} /\ seeds' = [seeds EXCEPT ![i] = @ + 1] /\ UNCHANGED handlers
  BY DEF SeedAccount
<1>2. seeds[i] \in Nat
  BY DEF Recorded, Inv, TypeOK
<1>3. row.id[1] = "INIT" /\ row.id[2][2] = seeds[i] /\ row.account = i
  OBVIOUS
<1>4. row \notin ledger
  BY <1>2, <1>3 DEF Recorded, SeedRows
<1>5. IsFiniteSet(ledger \cup {row})
  BY FS_AddElement DEF Recorded
<1> QED BY <1>1, <1>2, <1>4, <1>5

LEMMA RecordedInit == Init => Recorded
<1> SUFFICES ASSUME Init PROVE Recorded
  OBVIOUS
<1>1. ledger = {} /\ \A h \in Handlers : EntriesOf(h) = {} /\ result[h] = "none"
  BY DEF Init, EntriesOf
<1> QED BY <1>1, InitInv, FS_EmptySet DEF Recorded, Atomic, SeedRows

LEMMA RecordedNext == Recorded /\ [Next]_vars => Recorded'
<1> SUFFICES ASSUME Recorded, [Next]_vars PROVE Recorded'
  OBVIOUS
<1>1. Inv /\ Inv' /\ TypeOK
  BY NextInv DEF Recorded, Inv
<1>2. CASE \E h \in Handlers : \E answer \in {"ok", "error"} : Commit(h, answer)
  <2>1. PICK h \in Handlers, answer \in {"ok", "error"} : Commit(h, answer)
    BY <1>2
  <2> DEFINE debit  == EntryOf(h, "DEBIT", req[h].from)
             credit == EntryOf(h, "CREDIT", req[h].to)
  <2>2. /\ ledger' = (ledger \cup {debit}) \cup {credit}
        /\ IsFiniteSet(ledger)'
        /\ UNCHANGED <<req, seeds>>
        /\ pc'[h] \in {"unlock2", "done"}
        /\ \A g \in Handlers \ {h} : pc'[g] = pc[g] /\ result'[g] = result[g]
    BY <2>1, CommitRecord
  <2>3. debit.id = <<"DEBIT", h>> /\ credit.id = <<"CREDIT", h>>
    BY DEF EntryOf
  <2>4. EntriesOf(h) = {}
    BY <2>1 DEF Recorded, Atomic, Commit, BeforeCommit, InTransaction
  <2>5. EntriesOf(h)' = {debit, credit}
    BY <2>2, <2>3, <2>4 DEF EntriesOf
  <2>6. \A type, account, g : EntryOf(g, type, account)' = EntryOf(g, type, account)
    BY <2>2 DEF EntryOf
  <2>7. Atomic(h)'
    BY <2>2, <2>5, <2>6 DEF Atomic, BeforeCommit, InTransaction
  <2>8. ASSUME NEW g \in Handlers \ {h} PROVE Atomic(g)'
    <3>1. EntriesOf(g)' = EntriesOf(g)
      BY <2>2, <2>3 DEF EntriesOf
    <3> QED BY <2>2, <2>6, <3>1 DEF Recorded, Atomic
  <2>9. SeedRows'
    <3>1. debit.id[1] # "INIT" /\ credit.id[1] # "INIT"
      BY <2>3
    <3> HIDE DEF debit, credit
    <3> QED BY <2>2, <3>1 DEF Recorded, SeedRows
  <2> QED BY <1>1, <2>2, <2>7, <2>8, <2>9 DEF Recorded
<1>3. CASE \E i \in Ids, b \in SeedBalances : SeedAccount(i, b)
  <2>1. PICK i \in Ids, b \in SeedBalances : SeedAccount(i, b)
    BY <1>3
  <2> DEFINE row == [id |-> <<"INIT", <<i, seeds[i]>>>>, account |-> i, amount |-> Numeric(b),
                     type |-> "CREDIT", ref |-> "system_init"]
  <2>2. /\ ledger' = ledger \cup {row} /\ IsFiniteSet(ledger)'
        /\ seeds[i] \in Nat /\ seeds' = [seeds EXCEPT ![i] = @ + 1]
        /\ UNCHANGED handlers
    BY <2>1, SeedRecord
  <2>3. ASSUME NEW g \in Handlers PROVE Atomic(g)'
    <3>1. EntriesOf(g)' = EntriesOf(g)
      BY <2>2 DEF EntriesOf
    <3> QED BY <2>2, <3>1 DEF Recorded, Atomic, EntryOf, handlers
  <2>4. SeedRows'
    <3>2. \A j \in Ids : seeds[j] \in Nat /\ seeds'[j] \in Nat /\ seeds[j] <= seeds'[j]
      BY <1>1, <2>2 DEF TypeOK
    <3>3. seeds[i] < seeds'[i]
      BY <1>1, <2>2 DEF TypeOK
    <3>4. \A e \in ledger : e.account \in Ids
      BY <1>1 DEF TypeOK, Entry
    <3>1. /\ row.id[2] \in Ids \X Nat /\ row.id[2][1] = row.account
          /\ row.id[2][2] < seeds'[row.account]
      BY <2>2, <3>3
    <3> HIDE DEF row
    <3>5. ASSUME NEW e \in ledger, e.id[1] = "INIT"
          PROVE  e.id[2] \in Ids \X Nat /\ e.id[2][1] = e.account /\ e.id[2][2] < seeds'[e.account]
      BY <3>2, <3>4, <3>5 DEF Recorded, SeedRows
    <3> QED BY <2>2, <3>1, <3>5 DEF SeedRows
  <2> QED BY <1>1, <2>2, <2>3, <2>4 DEF Recorded
<1>4. ASSUME UNCHANGED tables,
             \A g \in Handlers : /\ req'[g] = req[g] \/ pc[g] = "idle"
                                 /\ result'[g] \in {result[g], "error"}
                                 /\ pc'[g] \in BeforeCommit => pc[g] \in BeforeCommit
      PROVE  Recorded'
  <2>1. ASSUME NEW g \in Handlers PROVE Atomic(g)'
    <3>1. Atomic(g)
      BY DEF Recorded
    <3>2. EntriesOf(g)' = EntriesOf(g)
      BY <1>4 DEF EntriesOf, tables
    <3>3. CASE pc[g] = "idle"
      BY <1>4, <3>1, <3>2, <3>3 DEF Atomic, BeforeCommit
    <3>4. CASE req'[g] = req[g]
      BY <1>4, <3>1, <3>2, <3>4 DEF Atomic, EntryOf
    <3> QED BY <1>4, <3>3, <3>4
  <2> QED BY <1>1, <1>4, <2>1 DEF Recorded, SeedRows, tables
<1>5. CASE \E h \in Handlers :
             \/ Receive(h) \/ StatementFails(h) \/ Crash(h)
             \/ Advance(h) /\ ~\E answer \in {"ok", "error"} : Commit(h, answer)
  <2>1. PICK h \in Handlers :
             \/ Receive(h) \/ StatementFails(h) \/ Crash(h)
             \/ Advance(h) /\ ~\E answer \in {"ok", "error"} : Commit(h, answer)
    BY <1>5
  <2>2. /\ UNCHANGED tables
        /\ req'[h] = req[h] \/ pc[h] = "idle"
        /\ result'[h] \in {result[h], "error"}
        /\ pc'[h] \in BeforeCommit => pc[h] \in BeforeCommit
        /\ \A g \in Handlers \ {h} :
             req'[g] = req[g] /\ result'[g] = result[g] /\ pc'[g] = pc[g]
    BY <1>1, <2>1, QuietStep
  <2> QED BY <1>4, <2>2
<1>6. CASE UNCHANGED <<tables, handlers>>
  BY <1>4, <1>6 DEF handlers
<1> QED BY <1>2, <1>3, <1>5, <1>6, TableStep

LEMMA AlwaysRecorded == Spec => []Recorded
BY RecordedInit, RecordedNext, PTL DEF Spec

(* A transfer is all or nothing, whatever statement fails and whenever the  *)
(* replica dies, and success is only answered for one that is committed:    *)
(* service.go:105-143.                                                      *)
THEOREM TransferAtomic == Spec => []AllOrNothing
<1>1. Recorded => AllOrNothing
  BY DEF Recorded, Atomic, AllOrNothing
<1> QED BY <1>1, AlwaysRecorded, PTL

-----------------------------------------------------------------------------
(* The audit *)

(* Sums of amounts, before and after rows are inserted.                     *)
Amounts(rows) == [e \in rows |-> e.amount]

LEMMA AmountSums ==
  ASSUME NEW D, IsFiniteSet(D), NEW E \in SUBSET Entry, D \subseteq E, NEW S \in SUBSET D
  PROVE  /\ SumOver(S, Amounts(D)) \in Int
         /\ SumOver(S, Amounts(E)) = SumOver(S, Amounts(D))
         /\ \A e \in E : e \notin S =>
              SumOver(S \cup {e}, Amounts(E)) = SumOver(S, Amounts(D)) + e.amount
<1>1. IsFiniteSet(S)
  BY FS_Subset
<1>2. \A e \in E : e.amount \in Int /\ Amounts(E)[e] = e.amount
  <2>1. \A e \in Entry : e.amount \in Nat
    BY Zenon DEF Entry
  <2>2. \A e \in E : Amounts(E)[e] = e.amount
    BY DEF Amounts
  <2> QED BY <2>1, <2>2
<1>3. \A x \in S : Amounts(D)[x] \in Int /\ Amounts(E)[x] = Amounts(D)[x]
  BY <1>2 DEF Amounts
<1>4. SumOver(S, Amounts(D)) \in Int
  BY <1>1, <1>3, SumType
<1>5. SumOver(S, Amounts(E)) = SumOver(S, Amounts(D))
  BY <1>1, <1>3, SumSame
<1>6. ASSUME NEW e \in E, e \notin S
      PROVE  SumOver(S \cup {e}, Amounts(E)) = SumOver(S, Amounts(D)) + e.amount
  <2>1. Amounts(E)[e] \in Int
    BY <1>2
  <2>2. e \notin S
    BY <1>6
  <2>3. SumOver(S \cup {e}, Amounts(E)) = SumOver(S, Amounts(D)) + Amounts(E)[e]
    BY <1>1, <1>3, <2>1, <2>2, SumAdd
  <2> QED BY <1>2, <2>3
<1> QED BY <1>4, <1>5, <1>6

Audited(i) ==
  balance[i] + SumOver(Reseeds(i), AmountOf)
    = SumOver(Credits(i), AmountOf) - SumOver(Debits(i), AmountOf)

(* An account that does not exist has no money and no rows.                 *)
Audit ==
  /\ \A i \in Ids : ~Exists(i) => balance[i] = 0
  /\ \A i \in Ids : Audited(i)
  /\ MoneyConserved

LEMMA AuditInit == Init => Audit
<1> SUFFICES ASSUME Init PROVE Audit
  OBVIOUS
<1>1. /\ balance = [i \in Ids |-> 0] /\ ledger = {}
      /\ Seeded = {} /\ \A i \in Ids : Reseeds(i) = {} /\ Credits(i) = {} /\ Debits(i) = {}
  BY DEF Init, Seeded, Reseeds, Credits, Debits
<1>2. SumOver({}, AmountOf) = 0
  BY SumType, FS_EmptySet
<1>3. SumOver(Ids, balance) = 0
  <2> DEFINE Good == {n \in Nat : \A s \in SUBSET Ids : Cardinality(s) = n =>
                        SumOver(s, balance) = 0}
  <2>0. \A s \in SUBSET Ids : IsFiniteSet(s) /\ Cardinality(s) \in Nat
    BY IdsAssumption, FS_Subset, FS_CardinalityType
  <2>1. 0 \in Good
    BY <2>0, FS_EmptySet, SumType
  <2>2. ASSUME NEW n \in Nat, n \in Good PROVE n + 1 \in Good
    <3> SUFFICES ASSUME NEW s \in SUBSET Ids, Cardinality(s) = n + 1
                 PROVE  SumOver(s, balance) = 0
      OBVIOUS
    <3>1. PICK x \in s : TRUE
      BY <2>0, FS_EmptySet
    <3>2. Cardinality(s \ {x}) = Cardinality(s) - 1
      BY <2>0, FS_RemoveElement
    <3>3. SumOver(s \ {x}, balance) = 0
      BY <2>2, <3>2
    <3>4. \A y \in s : balance[y] = 0 /\ balance[y] \in Int
      BY <1>1
    <3>5. SumOver(s, balance) = SumOver(s \ {x}, balance) + balance[x]
      BY <2>0, <3>1, <3>4, SumRemove
    <3> QED BY <3>1, <3>3, <3>4, <3>5
  <2>3. Nat \subseteq Good
    <3> HIDE DEF Good
    <3> QED BY <2>1, <2>2, SetInduction
  <2> QED BY <2>0, <2>3
<1> QED BY <1>1, <1>2, <1>3 DEF Audit, Audited, MoneyConserved

(* A commit takes from one balance what it gives to the other, and inserts  *)
(* a debit and a credit of as much.                                         *)
LEMMA AuditCommit ==
  ASSUME OnScaleRequests, Recorded, Audit,
         NEW h \in Handlers, NEW answer \in {"ok", "error"}, Commit(h, answer)
  PROVE  Audit'
<1> DEFINE from   == req[h].from
           to     == req[h].to
           a      == req[h].amount
           debit  == EntryOf(h, "DEBIT", from)
           credit == EntryOf(h, "CREDIT", to)
           mid    == ledger \cup {debit}
<1>1. /\ from \in Ids /\ to \in Ids /\ from # to /\ a \in Int
      /\ Exists(from) /\ Exists(to)
  BY CommitRows DEF Recorded
<1>2. balance' = [balance EXCEPT ![from] = balance[from] - a, ![to] = balance[to] + a]
  BY CommitTransfers DEF Recorded, TransferStep
<1>3. /\ ledger' = mid \cup {credit}
      /\ debit \in Entry /\ debit \notin ledger
      /\ credit \in Entry /\ credit \notin mid
      /\ UNCHANGED seeds
  BY CommitRecord
<1>4. debit.amount = a /\ credit.amount = a
  <2>1. a % 2 = 0
    <3>1. req[h] \in Requests \/ req[h] = NoRequest
      BY DEF Recorded, Inv, TypeOK
    <3>2. NoRequest.amount % 2 = 0
      BY DEF NoRequest
    <3> QED BY <3>1, <3>2 DEF OnScaleRequests
  <2>2. Numeric(a) = a
    BY <1>1, <2>1, NumericFacts
  <2> QED BY <2>2 DEF EntryOf
<1>5. balance \in [Ids -> Nat] /\ ledger \in SUBSET Entry /\ IsFiniteSet(ledger)
  BY DEF Recorded, Inv, TypeOK
<1>6. ledger' \in SUBSET Entry /\ ledger \subseteq ledger' /\ debit \in ledger' /\ credit \in ledger'
  BY <1>3, <1>5
<1>7. AmountOf = Amounts(ledger) /\ AmountOf' = Amounts(ledger')
  BY DEF AmountOf, Amounts
<1>8. /\ debit.id = <<"DEBIT", h>> /\ debit.type = "DEBIT" /\ debit.account = from
      /\ credit.id = <<"CREDIT", h>> /\ credit.type = "CREDIT" /\ credit.account = to
  BY DEF EntryOf
<1>9. ASSUME NEW S \in SUBSET ledger
      PROVE  /\ SumOver(S, AmountOf) \in Int
             /\ SumOver(S, AmountOf') = SumOver(S, AmountOf)
             /\ SumOver(S \cup {debit}, AmountOf') = SumOver(S, AmountOf) + a
             /\ SumOver(S \cup {credit}, AmountOf') = SumOver(S, AmountOf) + a
  <2>1. debit \notin S /\ credit \notin S
    BY <1>3
  <2> QED BY <1>4, <1>5, <1>6, <1>7, <2>1, AmountSums
<1>10. /\ Seeded' = Seeded /\ Seeded \in SUBSET ledger
       /\ \A i \in Ids : Reseeds(i)' = Reseeds(i) /\ Reseeds(i) \in SUBSET ledger
  <2> HIDE DEF debit, credit
  <2> QED BY <1>3, <1>8 DEF Seeded, Reseeds
<1>11. ASSUME NEW i \in Ids
       PROVE  /\ Credits(i)' = IF i = to THEN Credits(i) \cup {credit} ELSE Credits(i)
              /\ Debits(i)' = IF i = from THEN Debits(i) \cup {debit} ELSE Debits(i)
              /\ Credits(i) \in SUBSET ledger /\ Debits(i) \in SUBSET ledger
  <2> HIDE DEF debit, credit
  <2> QED BY <1>3, <1>8 DEF Credits, Debits
<1> HIDE DEF from, to, a, debit, credit, mid
<1>12. ASSUME NEW i \in Ids PROVE Audited(i)'
  <2>1. Audited(i) /\ balance[i] \in Int
    BY <1>5 DEF Audit
  <2>2. balance'[i] = IF i = from THEN balance[i] - a
                      ELSE IF i = to THEN balance[i] + a ELSE balance[i]
    BY <1>1, <1>2, <1>5
  <2>3. /\ SumOver(Reseeds(i), AmountOf) \in Int
        /\ SumOver(Credits(i), AmountOf) \in Int
        /\ SumOver(Debits(i), AmountOf) \in Int
        /\ SumOver(Reseeds(i)', AmountOf') = SumOver(Reseeds(i), AmountOf)
        /\ SumOver(Credits(i)', AmountOf')
             = IF i = to THEN SumOver(Credits(i), AmountOf) + a ELSE SumOver(Credits(i), AmountOf)
        /\ SumOver(Debits(i)', AmountOf')
             = IF i = from THEN SumOver(Debits(i), AmountOf) + a ELSE SumOver(Debits(i), AmountOf)
    BY <1>9, <1>10, <1>11
  <2>4. balance'[i] + SumOver(Reseeds(i)', AmountOf')
          = SumOver(Credits(i)', AmountOf') - SumOver(Debits(i)', AmountOf')
    BY <1>1, <2>1, <2>2, <2>3 DEF Audited
  <2> QED BY <2>4 DEF Audited
<1>13. SumOver(Ids, balance') = SumOver(Seeded', AmountOf')
  <2> DEFINE taken == [balance EXCEPT ![from] = balance[from] - a]
  <2>1. balance \in [Ids -> Int] /\ taken \in [Ids -> Int]
    BY <1>1, <1>5
  <2>2. balance' = [taken EXCEPT ![to] = balance[to] + a] /\ taken[to] = balance[to]
    BY <1>1, <1>2, <1>5
  <2>3. SumOver(Ids, taken) = SumOver(Ids, balance) - balance[from] + (balance[from] - a)
    <3>1. \A y \in Ids : /\ balance[y] \in Int /\ taken[y] \in Int
                         /\ y # from => taken[y] = balance[y]
      BY <2>1
    <3>2. taken[from] = balance[from] - a
      BY <1>1, <2>1
    <3> HIDE DEF taken
    <3>3. IsFiniteSet(Ids) /\ from \in Ids
      BY <1>1, IdsAssumption
    <3>4. SumOver(Ids, taken) = SumOver(Ids, balance) - balance[from] + taken[from]
      BY <3>1, <3>3, SumChange
    <3> QED BY <3>2, <3>4
  <2> HIDE DEF taken
  <2>4. SumOver(Ids, balance') = SumOver(Ids, taken) - taken[to] + (balance[to] + a)
    <3>1. \A y \in Ids : /\ taken[y] \in Int /\ balance'[y] \in Int
                         /\ y # to => balance'[y] = taken[y]
      BY <1>1, <2>1, <2>2
    <3>2. balance'[to] = balance[to] + a
      BY <1>1, <2>1, <2>2
    <3>3. IsFiniteSet(Ids) /\ to \in Ids
      BY <1>1, IdsAssumption
    <3>4. SumOver(Ids, balance') = SumOver(Ids, taken) - taken[to] + balance'[to]
      BY <3>1, <3>3, SumChange
    <3> QED BY <3>2, <3>4
  <2>5. SumOver(Ids, balance) \in Int /\ balance[from] \in Int /\ balance[to] \in Int
    BY <1>1, <2>1, IdsAssumption, SumType
  <2>6. SumOver(Ids, balance') = SumOver(Ids, balance)
    BY <1>1, <2>2, <2>3, <2>4, <2>5
  <2>7. SumOver(Seeded', AmountOf') = SumOver(Seeded, AmountOf)
    BY <1>9, <1>10
  <2> QED BY <2>6, <2>7 DEF Audit, MoneyConserved
<1>14. \A i \in Ids : ~Exists(i)' => balance'[i] = 0
  BY <1>1, <1>2, <1>3, <1>5 DEF Audit, Exists
<1> QED BY <1>12, <1>13, <1>14 DEF Audit, MoneyConserved

(* A run of the seeder brings a new account's money into the system, with   *)
(* its row; a later one inserts a row and moves nothing.                    *)
LEMMA AuditSeed ==
  ASSUME Recorded, Audit, NEW i \in Ids, NEW b \in SeedBalances, SeedAccount(i, b)
  PROVE  Audit'
<1> DEFINE row == [id |-> <<"INIT", <<i, seeds[i]>>>>, account |-> i, amount |-> Numeric(b),
                   type |-> "CREDIT", ref |-> "system_init"]
<1>1. /\ ledger' = ledger \cup {row} /\ row \notin ledger
      /\ seeds[i] \in Nat /\ seeds' = [seeds EXCEPT ![i] = @ + 1]
  BY SeedRecord
<1>2. /\ balance \in [Ids -> Nat] /\ ledger \in SUBSET Entry /\ IsFiniteSet(ledger)
      /\ seeds \in [Ids -> Nat]
  BY DEF Recorded, Inv, TypeOK
<1>3. Recorded'
  BY RecordedNext DEF Next
<1>4. balance' \in [Ids -> Nat] /\ ledger' \in SUBSET Entry
  BY <1>3 DEF Recorded, Inv, TypeOK
<1>5. Numeric(b) \in Int
  BY SeedAssumption, NumericFacts
<1>6. AmountOf = Amounts(ledger) /\ AmountOf' = Amounts(ledger')
  BY DEF AmountOf, Amounts
<1>7. ASSUME NEW S \in SUBSET ledger
      PROVE  /\ SumOver(S, AmountOf) \in Int
             /\ SumOver(S, AmountOf') = SumOver(S, AmountOf)
             /\ SumOver(S \cup {row}, AmountOf') = SumOver(S, AmountOf) + Numeric(b)
  <2>1. row \notin S /\ row \in ledger' /\ row.amount = Numeric(b) /\ ledger \subseteq ledger'
    BY <1>1
  <2> HIDE DEF row
  <2> QED BY <1>2, <1>4, <1>6, <2>1, AmountSums
<1>8. /\ row.id[1] = "INIT" /\ row.id[2][2] = seeds[i] /\ row.account = i
      /\ row.type = "CREDIT"
  OBVIOUS
<1> HIDE DEF row
<1>9. /\ Seeded' = IF Exists(i) THEN Seeded ELSE Seeded \cup {row}
      /\ Seeded \in SUBSET ledger
  BY <1>1, <1>8 DEF Seeded, Exists
<1>10. ASSUME NEW j \in Ids
       PROVE  /\ Reseeds(j)' = IF j = i /\ Exists(i) THEN Reseeds(j) \cup {row} ELSE Reseeds(j)
              /\ Credits(j)' = IF j = i THEN Credits(j) \cup {row} ELSE Credits(j)
              /\ Debits(j)' = Debits(j)
              /\ Reseeds(j) \in SUBSET ledger /\ Credits(j) \in SUBSET ledger
              /\ Debits(j) \in SUBSET ledger
  <2>1. Reseeds(j)' = IF j = i /\ Exists(i) THEN Reseeds(j) \cup {row} ELSE Reseeds(j)
    BY <1>1, <1>8 DEF Reseeds, Exists
  <2>2. /\ Credits(j)' = IF j = i THEN Credits(j) \cup {row} ELSE Credits(j)
        /\ Debits(j)' = Debits(j)
    BY <1>1, <1>8 DEF Credits, Debits
  <2>3. /\ Reseeds(j) \in SUBSET ledger /\ Credits(j) \in SUBSET ledger
        /\ Debits(j) \in SUBSET ledger
    BY DEF Reseeds, Credits, Debits
  <2> QED BY <2>1, <2>2, <2>3
<1>11. /\ \A j \in Ids : balance'[j] = IF j = i /\ ~Exists(i) THEN Numeric(b) ELSE balance[j]
       /\ ~Exists(i) => balance[i] = 0
  BY <1>2 DEF SeedAccount, Audit
<1>12. ASSUME NEW j \in Ids PROVE Audited(j)'
  <2>1. Audited(j) /\ balance[j] \in Int
    BY <1>2 DEF Audit
  <2>2. /\ SumOver(Reseeds(j), AmountOf) \in Int
        /\ SumOver(Credits(j), AmountOf) \in Int
        /\ SumOver(Debits(j), AmountOf) \in Int
        /\ SumOver(Reseeds(j)', AmountOf')
             = IF j = i /\ Exists(i) THEN SumOver(Reseeds(j), AmountOf) + Numeric(b)
               ELSE SumOver(Reseeds(j), AmountOf)
        /\ SumOver(Credits(j)', AmountOf')
             = IF j = i THEN SumOver(Credits(j), AmountOf) + Numeric(b)
               ELSE SumOver(Credits(j), AmountOf)
        /\ SumOver(Debits(j)', AmountOf') = SumOver(Debits(j), AmountOf)
    BY <1>7, <1>10
  <2>3. balance'[j] + SumOver(Reseeds(j)', AmountOf')
          = SumOver(Credits(j)', AmountOf') - SumOver(Debits(j)', AmountOf')
    BY <1>5, <1>11, <2>1, <2>2 DEF Audited
  <2> QED BY <2>3 DEF Audited
<1>13. SumOver(Ids, balance') = SumOver(Seeded', AmountOf')
  <2>1. /\ IsFiniteSet(Ids)
        /\ \A y \in Ids : balance[y] \in Int /\ balance'[y] \in Int
    BY <1>2, <1>4, IdsAssumption
  <2>2. SumOver(Ids, balance) \in Int
    BY <2>1, SumType
  <2>3. CASE Exists(i)
    <3>1. SumOver(Ids, balance') = SumOver(Ids, balance)
      BY <1>11, <2>1, <2>3, SumSame
    <3>2. SumOver(Seeded', AmountOf') = SumOver(Seeded, AmountOf)
      BY <1>7, <1>9, <2>3
    <3> QED BY <3>1, <3>2 DEF Audit, MoneyConserved
  <2>4. CASE ~Exists(i)
    <3>1. \A y \in Ids : y # i => balance'[y] = balance[y]
      BY <1>11
    <3>2. SumOver(Ids, balance') = SumOver(Ids, balance) - balance[i] + balance'[i]
      BY <2>1, <3>1, SumChange
    <3>3. balance[i] = 0 /\ balance'[i] = Numeric(b)
      BY <1>11, <2>4
    <3>4. SumOver(Seeded', AmountOf') = SumOver(Seeded, AmountOf) + Numeric(b)
      BY <1>7, <1>9, <2>4
    <3> QED BY <1>5, <2>2, <3>2, <3>3, <3>4 DEF Audit, MoneyConserved
  <2> QED BY <2>3, <2>4
<1>14. ASSUME NEW j \in Ids, ~Exists(j)' PROVE balance'[j] = 0
  <2>1. seeds'[i] > 0 /\ (j # i => seeds'[j] = seeds[j])
    BY <1>1, <1>2
  <2>2. j # i /\ ~Exists(j)
    BY <1>14, <2>1 DEF Exists
  <2> QED BY <1>11, <2>2 DEF Audit
<1> QED BY <1>12, <1>13, <1>14 DEF Audit, MoneyConserved

LEMMA AuditNext ==
  ASSUME OnScaleRequests
  PROVE  Recorded /\ Audit /\ [Next]_vars => Audit'
<1> SUFFICES ASSUME Recorded, Audit, [Next]_vars PROVE Audit'
  OBVIOUS
<1>1. ASSUME UNCHANGED tables PROVE Audit'
  <2>1. UNCHANGED <<balance, seeds, ledger>>
    BY <1>1 DEF tables
  <2>2. /\ Seeded' = Seeded /\ AmountOf' = AmountOf
        /\ \A i \in Ids : Reseeds(i)' = Reseeds(i) /\ Credits(i)' = Credits(i) /\ Debits(i)' = Debits(i)
    BY <2>1 DEF Seeded, AmountOf, Reseeds, Credits, Debits
  <2> QED BY <2>1, <2>2 DEF Audit, Audited, MoneyConserved, Exists
<1>2. ASSUME NEW h \in Handlers,
             \/ Receive(h) \/ StatementFails(h) \/ Crash(h)
             \/ Advance(h) /\ ~\E answer \in {"ok", "error"} : Commit(h, answer)
      PROVE  UNCHANGED tables
  BY <1>2, QuietStep DEF Recorded
<1> QED BY <1>1, <1>2, TableStep, AuditCommit, AuditSeed

LEMMA AlwaysAudited == OnScaleRequests => (Spec => []Audit)
<1> SUFFICES ASSUME OnScaleRequests PROVE Spec => []Audit
  OBVIOUS
<1>1. Recorded /\ Audit /\ [Next]_vars => Audit'
  BY AuditNext
<1> QED BY <1>1, AuditInit, AlwaysRecorded, PTL DEF Spec

(* For any accounts, any number of concurrent transfers and any failures,   *)
(* the money in the accounts is what the seeder first put into them, as     *)
(* long as the amounts are on the columns' scale.                           *)
THEOREM MoneyIsConserved == OnScaleRequests => (Spec => []MoneyConserved)
<1> SUFFICES ASSUME OnScaleRequests PROVE Spec => []MoneyConserved
  OBVIOUS
<1>1. Audit => MoneyConserved
  BY DEF Audit
<1>2. Spec => []Audit
  BY AlwaysAudited
<1> QED BY <1>1, <1>2, PTL

(* Under the same condition the balance of every account is the sum of its  *)
(* ledger rows, but for the rows of a repeated run of the seeder.           *)
THEOREM LedgerExplainsBalances == OnScaleRequests => (Spec => []BalanceIsLedgerSum)
<1> SUFFICES ASSUME OnScaleRequests PROVE Spec => []BalanceIsLedgerSum
  OBVIOUS
<1>1. Audit => BalanceIsLedgerSum
  BY DEF Audit, Audited, BalanceIsLedgerSum
<1>2. Spec => []Audit
  BY AlwaysAudited
<1> QED BY <1>1, <1>2, PTL

-----------------------------------------------------------------------------
(* The Redis locks *)

LEMMA LockStep ==
  ASSUME TypeOK, [Next]_vars, NEW h \in Handlers, pc'[h] # pc[h],
         NEW i \in Ids, redisLock[i] \in (Handlers \ {h}) \X {"lock1", "lock2"}
  PROVE  redisLock'[i] = redisLock[i]
<1>1. FirstId(h) \in Ids /\ SecondId(h) \in Ids /\ redisLock[i] # NoToken
  BY RequestType, NobodyAssumption
<1>2. redisLock \in [Ids -> Tokens \cup {NoToken}] /\ pc \in [Handlers -> Running \cup Finished \cup {"idle"}]
  BY DEF TypeOK
<1>3. ASSUME NEW j \in Ids, NEW token, NEW acquired, NEW refused,
             AcquireLock(h, j, token, acquired, refused)
      PROVE  redisLock'[i] = redisLock[i]
  BY <1>1, <1>2, <1>3 DEF AcquireLock
<1>4. ASSUME NEW j \in Ids, NEW name \in {"lock1", "lock2"}, NEW next,
             Release(h, j, <<h, name>>, next)
      PROVE  redisLock'[i] = redisLock[i]
  <2>1. redisLock[i] # <<h, name>>
    OBVIOUS
  <2> QED BY <1>2, <1>4, <2>1 DEF Release
<1>5. ASSUME NEW g \in Handlers, \/ Receive(g) \/ StatementFails(g) \/ Crash(g) \/ Advance(g)
      PROVE  \/ UNCHANGED redisLock
             \/ AcquireLock1(g) \/ AcquireLock2(g) \/ ReleaseLock2(g) \/ ReleaseLock1(g)
  <2>1. CASE Receive(g) \/ StatementFails(g) \/ Crash(g)
    BY <2>1 DEF Receive, StatementFails, Crash
  <2>2. CASE Begin(g) \/ LockFirst(g) \/ LockSecond(g) \/ CheckBalance(g)
    BY <2>2 DEF Begin, LockFirst, LockSecond, CheckBalance
  <2>3. CASE UpdateSource(g) \/ UpdateDest(g) \/ WriteDebit(g) \/ WriteCredit(g)
    BY <2>3 DEF UpdateSource, UpdateDest, WriteDebit, WriteCredit, CreateLedgerEntry
  <2>4. CASE \E answer \in {"ok", "error"} : Commit(g, answer)
    BY <2>4 DEF Commit
  <2> QED BY <1>5, <2>1, <2>2, <2>3, <2>4 DEF Advance
<1>6. ASSUME NEW g \in Handlers,
             AcquireLock1(g) \/ AcquireLock2(g) \/ ReleaseLock2(g) \/ ReleaseLock1(g)
      PROVE  g = h
  <2>1. \E label : Goto(g, label)
    BY <1>6 DEF AcquireLock1, AcquireLock2, ReleaseLock2, ReleaseLock1, AcquireLock, Release
  <2> QED BY <1>2, <2>1 DEF Goto
<1>7. AcquireLock1(h) \/ AcquireLock2(h) \/ ReleaseLock2(h) \/ ReleaseLock1(h)
        => redisLock'[i] = redisLock[i]
  BY <1>1, <1>3, <1>4 DEF AcquireLock1, AcquireLock2, ReleaseLock2, ReleaseLock1
<1>8. ASSUME NEW j \in Ids, LockExpires(j) PROVE FALSE
  BY <1>8 DEF LockExpires, handlers
<1>9. ASSUME NEW j \in Ids, NEW b \in SeedBalances, SeedAccount(j, b) PROVE FALSE
  BY <1>9 DEF SeedAccount, handlers
<1>10. ~UNCHANGED vars
  BY DEF vars
<1> QED BY <1>5, <1>6, <1>7, <1>8, <1>9, <1>10 DEF Next, Idle

(* No handler ever frees a Redis lock that another request has taken, for   *)
(* any number of requests and however locks expire: pkg/redis.              *)
THEOREM OwnLockOnly == Spec => ReleasesOnlyItsOwnLock
<1>1. TypeOK /\ [Next]_vars =>
        [\A h \in Handlers : pc'[h] # pc[h] =>
           \A i \in Ids : redisLock[i] \in (Handlers \ {h}) \X {"lock1", "lock2"}
                            => redisLock'[i] = redisLock[i]]_vars
  BY LockStep
<1> QED BY <1>1, TypeCorrect, PTL DEF ReleasesOnlyItsOwnLock, Spec
=============================================================================
