--------------------------- MODULE SettlementProofs ---------------------------
(***************************************************************************)
(* Two replicas run the reconciliation job together only when one of them  *)
(* has gone a whole lease without hearing that it lost it, for any number  *)
(* of replicas, any lease and any calls.                                   *)
(*                                                                         *)
(* Who is leader, or has just been given the lease, holds it until TTL     *)
(* ticks have passed since: what is left of the lease and the ticks since  *)
(* it was given add up to the time to live, or to more, after a renewal    *)
(* that arrived late.                                                      *)
(***************************************************************************)
EXTENDS Settlement, TLAPS

(* Who is leader, or is about to be, holds the lease, or once did and has   *)
(* gone its whole time without another word.                                *)
Lent(n) ==
  isLeader[n] \/ phase[n] = "acquired" =>
    since[n] = TTL \/ (holder = n /\ left + since[n] >= TTL)

Inv == TypeOK /\ \A n \in Nodes : Lent(n)
-----------------------------------------------------------------------------

LEMMA InitInv == Init => Inv
<1> SUFFICES ASSUME Init PROVE Inv
  OBVIOUS
<1>1. TypeOK
  BY LeaseAssumption, BoundsAssumption, NodesAssumption DEF Init, TypeOK
<1>2. ASSUME NEW n \in Nodes PROVE Lent(n)
  BY DEF Init, Lent
<1> QED BY <1>1, <1>2 DEF Inv

(* A step of one node leaves the others' local state alone; the lease       *)
(* passes from nobody to the node, or is the node's to give up or to keep,  *)
(* or stays: the others keep what they have of it.                          *)
LEMMA Others ==
  ASSUME Inv, NEW n \in Nodes, TypeOK',
         \A m \in Nodes \ {n} :
           phase'[m] = phase[m] /\ isLeader'[m] = isLeader[m] /\ since'[m] = since[m],
         UNCHANGED lease \/ holder \in {NoNode, n}
  PROVE  \A m \in Nodes \ {n} : Lent(m)'
<1> SUFFICES ASSUME NEW m \in Nodes, m # n PROVE Lent(m)'
  OBVIOUS
<1>1. /\ Lent(m)
      /\ phase'[m] = phase[m] /\ isLeader'[m] = isLeader[m] /\ since'[m] = since[m]
  BY DEF Inv
<1> QED BY <1>1, NodesAssumption DEF Lent, lease

LEMMA TakeHeartbeatInv ==
  ASSUME Inv, NEW n \in Nodes, TakeHeartbeat(n)
  PROVE  Inv'
<1>1. TypeOK'
  BY DEF Inv, TypeOK, TakeHeartbeat, Sends, Goto, Calling, Sent, lease, bounds
<1>2. \A m \in Nodes \ {n} : Lent(m)'
  BY <1>1, Others DEF TakeHeartbeat, Sends, Goto, Inv, TypeOK
<1>3. Lent(n)'
  BY DEF Inv, TypeOK, Lent, TakeHeartbeat, Sends, Goto, lease
<1> QED BY <1>1, <1>2, <1>3 DEF Inv

LEMMA AcquireInv ==
  ASSUME Inv, NEW n \in Nodes, Acquire(n)
  PROVE  Inv'
<1>1. TypeOK'
  BY LeaseAssumption, NodesAssumption
     DEF Inv, TypeOK, Acquire, Leased, Goto, Calling, Sent, lease, bounds
<1>2. \A m \in Nodes \ {n} : Lent(m)'
  BY <1>1, Others DEF Acquire, Goto, Inv, TypeOK, lease
<1>3. Lent(n)'
  BY LeaseAssumption DEF Inv, TypeOK, Lent, Acquire, Leased, Goto, lease
<1> QED BY <1>1, <1>2, <1>3 DEF Inv

LEMMA RenewInv ==
  ASSUME Inv, NEW n \in Nodes, Renew(n)
  PROVE  Inv'
<1>1. TypeOK'
  BY LeaseAssumption, NodesAssumption
     DEF Inv, TypeOK, Renew, Leased, Goto, Calling, Sent, lease, bounds
<1>2. \A m \in Nodes \ {n} : Lent(m)'
  BY <1>1, Others DEF Renew, Goto, Inv, TypeOK, lease
<1>3. Lent(n)'
  BY LeaseAssumption DEF Inv, TypeOK, Lent, Renew, Leased, Goto, lease
<1> QED BY <1>1, <1>2, <1>3 DEF Inv

LEMMA BecomeLeaderInv ==
  ASSUME Inv, NEW n \in Nodes, BecomeLeader(n) \/ StayLeader(n)
  PROVE  Inv'
<1>1. TypeOK'
  BY DEF Inv, TypeOK, BecomeLeader, StayLeader, Goto, Calling, Sent, lease, bounds
<1>2. \A m \in Nodes \ {n} : Lent(m)'
  BY <1>1, Others DEF BecomeLeader, StayLeader, Goto, Inv, TypeOK
<1>3. Lent(n)'
  BY DEF Inv, TypeOK, Lent, BecomeLeader, StayLeader, Goto, lease
<1> QED BY <1>1, <1>2, <1>3 DEF Inv

(* What is abandoned is counted, whichever command it is.                   *)
LEMMA AbandonType ==
  ASSUME Inv, NEW n \in Nodes, Abandon(n)
  PROVE  unanswered' \in [Commands -> Nat]
<1>1. CASE phase[n] \in Sent
  <2>1. <<phase[n], n>> \in Commands
    BY <1>1 DEF Commands, Ids
  <2> QED BY <1>1, <2>1 DEF Abandon, Inv, TypeOK
<1>2. CASE phase[n] \notin Sent
  BY <1>2 DEF Abandon, Inv, TypeOK
<1> QED BY <1>1, <1>2

(* Whoever has lost a call is no leader, whatever it holds.                 *)
LEMMA LoseCallInv ==
  ASSUME Inv, NEW n \in Nodes, Refused(n) \/ CallFails(n)
  PROVE  Inv'
<1>1. crashes' \in 0..MaxCrashes /\ errors' \in 0..MaxErrors
  BY BoundsAssumption DEF Inv, TypeOK, Refused, CallFails, Unreliable, bounds
<1>2. unanswered' \in [Commands -> Nat]
  BY AbandonType DEF Inv, TypeOK, Refused, CallFails, Unreliable
<1>3. LoseCall(n)
  BY DEF Refused, CallFails
<1>4. TypeOK'
  BY <1>1, <1>2, <1>3, LeaseAssumption DEF Inv, TypeOK, LoseCall, Goto, Calling, lease
<1>5. \A m \in Nodes \ {n} : Lent(m)'
  BY <1>3, <1>4, Others DEF LoseCall, Goto, Inv, TypeOK
<1>6. Lent(n)'
  BY <1>3 DEF Inv, TypeOK, Lent, LoseCall, Goto
<1> QED BY <1>4, <1>5, <1>6 DEF Inv

LEMMA ResendInv ==
  ASSUME Inv, NEW n \in Nodes, Resend(n)
  PROVE  Inv'
<1>1. crashes' \in 0..MaxCrashes /\ errors' \in 0..MaxErrors
  BY BoundsAssumption DEF Inv, TypeOK, Resend, Unreliable
<1>2. unanswered' \in [Commands -> Nat]
  BY AbandonType DEF Resend, Unreliable
<1>3. TypeOK'
  BY <1>1, <1>2 DEF Inv, TypeOK, Resend, Sends, Goto, Calling, Sent, lease
<1>4. \A m \in Nodes \ {n} : Lent(m)'
  BY <1>3, Others DEF Resend, Sends, Goto, Inv, TypeOK
<1>5. Lent(n)'
  BY DEF Inv, TypeOK, Lent, Resend, Sends, Goto, lease
<1> QED BY <1>3, <1>4, <1>5 DEF Inv

(* A late SETNX takes a lease nobody has, a late renewal leaves it where it *)
(* is, for longer.                                                          *)
LEMMA LateInv ==
  ASSUME Inv, NEW c \in Commands, Late(c)
  PROVE  Inv'
<1>1. c[2] \in Ids /\ NoNode \notin Ids
  BY NodesAssumption DEF Commands, Ids
<1>2. /\ UNCHANGED lease \/ (holder \in {NoNode, c[2]} /\ holder' = c[2] /\ left' = TTL)
      /\ UNCHANGED <<elector, bounds>>
  BY DEF Late, Leased, lease
<1>3. unanswered' \in [Commands -> Nat]
  BY DEF Late, Inv, TypeOK
<1>4. TypeOK'
  BY <1>1, <1>2, <1>3, LeaseAssumption DEF Inv, TypeOK, Ids, lease, elector, bounds
<1>5. ASSUME NEW n \in Nodes PROVE Lent(n)'
  <2>1. Lent(n) /\ n # NoNode
    BY NodesAssumption DEF Inv
  <2>2. since[n] \in Nat /\ left \in Nat /\ TTL \in Nat
    BY LeaseAssumption DEF Inv, TypeOK
  <2> QED BY <1>2, <2>1, <2>2 DEF Lent, elector, lease
<1> QED BY <1>4, <1>5 DEF Inv

LEMMA EndInv ==
  ASSUME Inv, NEW n \in Nodes, NEW release \in BOOLEAN, End(n, release)
  PROVE  Inv'
<1>1. unanswered' \in [Commands -> Nat]
  <2>1. ASSUME NEW c \in Commands
        PROVE  unanswered[c] \in Nat /\ unanswered[<<c[1], n>>] \in Nat
    BY DEF Inv, TypeOK, Commands, Ids
  <2> QED BY <2>1 DEF End, Orphan
<1>2. TypeOK'
  BY <1>1, LeaseAssumption, BoundsAssumption, NodesAssumption
     DEF Inv, TypeOK, End, Goto, Calling
<1>3. holder \in {NoNode, n} \/ UNCHANGED lease
  BY DEF End, lease
<1>4. \A m \in Nodes \ {n} : Lent(m)'
  BY <1>2, <1>3, Others DEF End, Goto, Inv, TypeOK
<1>5. phase'[n] = "down" /\ ~isLeader'[n]
  BY DEF Inv, TypeOK, End, Goto
<1>6. Lent(n)'
  BY <1>5 DEF Lent
<1> QED BY <1>2, <1>4, <1>6 DEF Inv

LEMMA StartUpInv ==
  ASSUME Inv, NEW n \in Nodes, StartUp(n)
  PROVE  Inv'
<1>1. TypeOK'
  BY DEF Inv, TypeOK, StartUp, Goto, Calling, lease, bounds
<1>2. \A m \in Nodes \ {n} : Lent(m)'
  BY <1>1, Others DEF StartUp, Goto, Inv, TypeOK
<1>3. Lent(n)'
  BY DEF Inv, TypeOK, Lent, StartUp, Goto, lease
<1> QED BY <1>1, <1>2, <1>3 DEF Inv

(* A tick takes one from the lease and adds one to what has passed since it *)
(* was given: while that is less than TTL, something is left.               *)
LEMMA TickInv ==
  ASSUME Inv, Tick
  PROVE  Inv'
<1>1. ASSUME NEW n \in Nodes
      PROVE  /\ since'[n] = IF since[n] < TTL THEN since[n] + 1 ELSE TTL
             /\ phase'[n] = phase[n] /\ isLeader'[n] = isLeader[n]
             /\ since[n] \in 0..TTL /\ since'[n] \in 0..TTL
  BY LeaseAssumption DEF Inv, TypeOK, Tick
<1>2. TypeOK'
  <2>1. since' \in [Nodes -> 0..TTL]
    BY <1>1 DEF Tick
  <2> QED BY <2>1, NodesAssumption, LeaseAssumption DEF Inv, TypeOK, Tick, bounds
<1>3. ASSUME NEW n \in Nodes PROVE Lent(n)'
  <2> SUFFICES ASSUME isLeader[n] \/ phase[n] = "acquired", since'[n] # TTL
               PROVE  holder' = n /\ left' + since'[n] >= TTL
    BY <1>1 DEF Lent
  <2>1. since[n] + 1 < TTL /\ since'[n] = since[n] + 1
    BY <1>1, LeaseAssumption
  <2>2. holder = n /\ left + since[n] >= TTL
    BY <1>1, <2>1, LeaseAssumption DEF Inv, Lent
  <2>3. left \in Nat /\ left > 1
    BY <1>1, <2>1, <2>2, LeaseAssumption DEF Inv, TypeOK
  <2> QED BY <1>1, <2>1, <2>2, <2>3, LeaseAssumption DEF Tick
<1> QED BY <1>2, <1>3 DEF Inv

LEMMA ElsewhereInv ==
  ASSUME Inv, UNCHANGED <<lease, elector, unanswered, bounds>>
  PROVE  Inv'
<1>1. TypeOK'
  BY DEF Inv, TypeOK, lease, elector, bounds
<1>2. \A n \in Nodes : Lent(n)'
  BY DEF Inv, Lent, lease, elector
<1> QED BY <1>1, <1>2 DEF Inv

LEMMA NextInv == Inv /\ [Next]_vars => Inv'
<1> SUFFICES ASSUME Inv, [Next]_vars PROVE Inv'
  OBVIOUS
<1>1. ASSUME NEW n \in Nodes, ElectorStep(n) PROVE Inv'
  BY <1>1, TakeHeartbeatInv, AcquireInv, RenewInv, BecomeLeaderInv, LoseCallInv
     DEF ElectorStep
<1>2. ASSUME NEW n \in Nodes, CallFails(n) \/ Resend(n) PROVE Inv'
  BY <1>2, LoseCallInv, ResendInv
<1>3. ASSUME NEW n \in Nodes, ShutDown(n) \/ Crash(n) PROVE Inv'
  BY <1>3, EndInv DEF ShutDown, Crash
<1>4. ASSUME NEW n \in Nodes, StartUp(n) PROVE Inv'
  BY <1>4, StartUpInv
<1>5. ASSUME NEW n \in Nodes, RunAudit(n) PROVE Inv'
  BY <1>5, ElsewhereInv DEF RunAudit
<1>6. ASSUME NEW c \in Commands, Late(c) PROVE Inv'
  BY <1>6, LateInv
<1>7. CASE PaymentService!Next /\ UNCHANGED <<lease, elector, unanswered, bounds, alarm>>
  BY <1>7, ElsewhereInv
<1>8. CASE UNCHANGED vars
  BY <1>8, ElsewhereInv DEF vars, lease, elector, bounds
<1> QED BY <1>1, <1>2, <1>3, <1>4, <1>5, <1>6, <1>7, <1>8, TickInv DEF Next

THEOREM Invariance == Spec => []Inv
BY InitInv, NextInv, PTL DEF Spec

(* The shape of the state, for every instance; the job's context lives      *)
(* exactly as long as the node believes to be leader.                       *)
THEOREM TypeCorrect == Spec => []TypeOK
<1>1. Inv => TypeOK
  BY DEF Inv
<1> QED BY <1>1, Invariance, PTL

(* Two replicas execute reconciliation jobs at a time only when one of them *)
(* has gone a whole lease without hearing that it lost it, for any number   *)
(* of replicas, any lease, and calls of any length that fail, are sent      *)
(* again and arrive late, through crashes and restarts.                     *)
THEOREM OnlyOneJob == Spec => []OneJob
<1>1. Inv => OneJob
  BY DEF Inv, TypeOK, Lent, OneJob
<1> QED BY <1>1, Invariance, PTL
-----------------------------------------------------------------------------
(* The audit: whatever the payment service does, a payment that is SUCCESS  *)
(* has moved, and so has its pair of ledger rows.                           *)

Honest ==
  /\ status \in [Payments -> {"PENDING", "SUCCESS", "FAILED"}]
  /\ moved \in [Payments -> Nat]
  /\ \A p \in Payments : status[p] = "SUCCESS" => moved[p] > 0

LEMMA PaymentServiceHonest ==
  ASSUME Honest, PaymentService!Next
  PROVE  Honest'
<1>1. ASSUME NEW p \in Payments, PaymentService!Move(p) PROVE Honest'
  BY <1>1 DEF Honest, PaymentService!Move
<1>2. ASSUME NEW o \in PaymentService!Outcomes, PaymentService!Settle(o) PROVE Honest'
  BY <1>2 DEF Honest, PaymentService!Settle, PaymentService!Outcomes
<1>3. ASSUME NEW o \in PaymentService!Outcomes, PaymentService!Tell(o) PROVE Honest'
  BY <1>3 DEF Honest, PaymentService!Tell
<1> QED BY <1>1, <1>2, <1>3 DEF PaymentService!Next

LEMMA HonestNext == Honest /\ NoFalseAlarm /\ [Next]_vars => Honest' /\ NoFalseAlarm'
<1> SUFFICES ASSUME Honest, NoFalseAlarm, [Next]_vars
             PROVE  Honest' /\ NoFalseAlarm'
  OBVIOUS
<1>1. ASSUME UNCHANGED payment, UNCHANGED alarm PROVE Honest' /\ NoFalseAlarm'
  BY <1>1 DEF Honest, NoFalseAlarm, payment
<1>2. ASSUME NEW n \in Nodes, RunAudit(n) PROVE Honest' /\ NoFalseAlarm'
  <2>1. MissingInLedger = {}
    BY DEF MissingInLedger, LedgerCount, Honest
  <2> QED BY <1>2, <2>1 DEF RunAudit, NoFalseAlarm, Honest, payment
<1>3. CASE PaymentService!Next /\ UNCHANGED <<lease, elector, unanswered, bounds, alarm>>
  BY <1>3, PaymentServiceHonest DEF NoFalseAlarm
<1>4. ASSUME NEW n \in Nodes, ElectorStep(n) PROVE UNCHANGED payment /\ UNCHANGED alarm
  BY <1>4 DEF ElectorStep, TakeHeartbeat, Acquire, Renew, BecomeLeader, StayLeader,
              Refused, LoseCall
<1>5. ASSUME NEW n \in Nodes, CallFails(n) \/ Resend(n) \/ ShutDown(n) \/ Crash(n)
                          \/ StartUp(n)
      PROVE  UNCHANGED payment /\ UNCHANGED alarm
  BY <1>5 DEF CallFails, Unreliable, LoseCall, Resend, ShutDown, Crash, End, StartUp
<1>6. ASSUME Tick \/ \E c \in Commands : Late(c)
      PROVE  UNCHANGED payment /\ UNCHANGED alarm
  BY <1>6 DEF Tick, Late
<1>7. CASE UNCHANGED vars
  BY <1>1, <1>7 DEF vars, payment
<1> QED BY <1>1, <1>2, <1>3, <1>4, <1>5, <1>6, <1>7 DEF Next

(* The three-way audit never reports a payment of a service that behaves as *)
(* PaymentLifecycle says, whenever its query is answered.                   *)
THEOREM AuditIsQuiet == Spec => []NoFalseAlarm
<1>1. Init => Honest /\ NoFalseAlarm
  BY DEF Init, PaymentService!Init, Honest, NoFalseAlarm
<1> QED BY <1>1, HonestNext, PTL DEF Spec
=============================================================================
