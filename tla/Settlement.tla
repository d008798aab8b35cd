----------------------------- MODULE Settlement -----------------------------
(***************************************************************************)
(* The settlement service: replicas that compete for a Redis lease, and    *)
(* the reconciliation job that runs while a replica believes to be leader. *)
(* The job audits the payments and ledgers of a payment service that       *)
(* behaves as PaymentLifecycle says.                                       *)
(*                                                                         *)
(* Nothing bounds what a call to Redis takes: election.go sets no deadline, *)
(* go-redis dials, reads and sends again for longer than the lease lives,  *)
(* and a process may be paused.  Time, in ticks, therefore passes between  *)
(* any two steps, and a command nobody waits for any more may still reach  *)
(* Redis.  Every process makes a fresh instance id, so what a dead process *)
(* left there is Foreign.                                                  *)
(***************************************************************************)
EXTENDS Integers, FiniteSets

CONSTANTS
  Nodes,       \* replicas of the settlement service
  NoNode, Foreign,
  TTL,         \* of the lease
  MaxCrashes,  \* bound: processes that end, by a crash or a shutdown
  MaxErrors,   \* bound: calls that end in an error, and replies that are lost
  Payments, MaxMoves

ASSUME LeaseAssumption == TTL \in Nat \ {0}
ASSUME NodesAssumption == {NoNode, Foreign} \cap Nodes = {} /\ NoNode # Foreign
ASSUME BoundsAssumption == {MaxCrashes, MaxErrors} \subseteq Nat

VARIABLES
  holder,    \* instance stored under leader:settlement:lock
  left,      \* ticks until the lease expires
  isLeader,  \* per node: Elector.isLeader
  job,       \* per node: a reconciliation job with a live context runs
  phase,     \* per node: down, waiting for the ticker, or a call to Redis
  since,     \* per node, a history: ticks since Redis last gave it the lease,
             \* or since it was last told that it has none
  unanswered, \* how many of each command nobody waits for any more
  crashes, errors,
  status, moved, told,  \* the payment service (PaymentLifecycle)
  alarm      \* an audit has found a SUCCESS payment without its ledger pair

lease    == <<holder, left>>
elector  == <<isLeader, job, phase, since>>
bounds   == <<crashes, errors>>
payment  == <<status, moved, told>>
vars     == <<holder, left, isLeader, job, phase, since, unanswered, crashes, errors,
              status, moved, told, alarm>>

PaymentService == INSTANCE PaymentLifecycle

-----------------------------------------------------------------------------
(* The election loop: SETNX or the renew script at every heartbeat *)

Sent    == {"acquire", "renew"}
Calling == Sent \cup {"acquired", "renewed", "refused"}

Goto(n, p) == phase' = [phase EXCEPT ![n] = p]

Sends(n) == Goto(n, IF isLeader[n] THEN "renew" ELSE "acquire")

(* The ticker fires, or has fired while the last call was under way.        *)
TakeHeartbeat(n) ==
  /\ phase[n] = "waiting"
  /\ Sends(n)
  /\ UNCHANGED <<lease, isLeader, job, since, unanswered, bounds, payment, alarm>>

(* Redis gives the lease to id for its whole time to live.                  *)
Leased(id) == holder' = id /\ left' = TTL

(* Mutant: SETNX without a time to live; the first renewal sets one.        *)
AcquireForever(n) ==
  /\ phase[n] = "acquire"
  /\ IF holder = NoNode
     THEN holder' = n /\ since' = [since EXCEPT ![n] = 0] /\ Goto(n, "acquired")
     ELSE Goto(n, "refused") /\ UNCHANGED <<holder, since>>
  /\ UNCHANGED <<left, isLeader, job, unanswered, bounds, payment, alarm>>

Acquire(n) ==
  /\ phase[n] = "acquire"
  /\ IF holder = NoNode
     THEN Leased(n) /\ since' = [since EXCEPT ![n] = 0] /\ Goto(n, "acquired")
     ELSE Goto(n, "refused") /\ UNCHANGED <<lease, since>>
  /\ UNCHANGED <<isLeader, job, unanswered, bounds, payment, alarm>>

Renew(n) ==
  /\ phase[n] = "renew"
  /\ IF holder = n
     THEN Leased(n) /\ since' = [since EXCEPT ![n] = 0] /\ Goto(n, "renewed")
     ELSE Goto(n, "refused") /\ UNCHANGED <<lease, since>>
  /\ UNCHANGED <<isLeader, job, unanswered, bounds, payment, alarm>>

BecomeLeader(n) ==
  /\ phase[n] = "acquired"
  /\ Goto(n, "waiting")
  /\ isLeader' = [isLeader EXCEPT ![n] = TRUE]
  /\ job' = [job EXCEPT ![n] = TRUE]
  /\ UNCHANGED <<lease, since, unanswered, bounds, payment, alarm>>

StayLeader(n) ==
  /\ phase[n] = "renewed"
  /\ Goto(n, "waiting")
  /\ UNCHANGED <<lease, isLeader, job, since, unanswered, bounds, payment, alarm>>

(* Mutant: the job's context is not cancelled.                              *)
StepDownOnly(n) ==
  /\ Goto(n, "waiting")
  /\ isLeader' = [isLeader EXCEPT ![n] = FALSE]
  /\ since' = [since EXCEPT ![n] = 0]
  /\ UNCHANGED <<lease, job, payment, alarm>>

(* The leader cancels its job and steps down, a candidate tries again.      *)
LoseCall(n) ==
  /\ Goto(n, "waiting")
  /\ isLeader' = [isLeader EXCEPT ![n] = FALSE]
  /\ job' = [job EXCEPT ![n] = FALSE]
  /\ since' = [since EXCEPT ![n] = 0]
  /\ UNCHANGED <<lease, payment, alarm>>

Refused(n) ==
  /\ phase[n] = "refused"
  /\ LoseCall(n)
  /\ UNCHANGED <<unanswered, bounds>>

-----------------------------------------------------------------------------
(* Errors.  A command Redis has not carried out by then may still arrive.   *)

Ids == Nodes \cup {Foreign}

Commands == Sent \X Ids

Abandon(n) ==
  unanswered' = IF phase[n] \in Sent
                THEN [unanswered EXCEPT ![<<phase[n], n>>] = @ + 1]
                ELSE unanswered

Unreliable(n) ==
  /\ phase[n] \in Calling
  /\ errors < MaxErrors
  /\ errors' = errors + 1
  /\ Abandon(n)
  /\ UNCHANGED crashes

(* Mutant: an error of the renewal is not taken for a lost lease.           *)
RetryRenewal(n) ==
  /\ Unreliable(n)
  /\ Goto(n, "waiting")
  /\ since' = [since EXCEPT ![n] = 0]
  /\ UNCHANGED <<lease, isLeader, job, payment, alarm>>

(* The call ends in an error, before or after Redis has carried it out.     *)
CallFails(n) == Unreliable(n) /\ LoseCall(n)

(* No reply in time, before or after Redis has carried it out: go-redis     *)
(* sends the command again.                                                 *)
Resend(n) ==
  /\ Unreliable(n)
  /\ Sends(n)
  /\ UNCHANGED <<lease, isLeader, job, since, payment, alarm>>

(* An abandoned SETNX or renewal is carried out after all.                  *)
Late(c) ==
  /\ unanswered[c] > 0
  /\ unanswered' = [unanswered EXCEPT ![c] = @ - 1]
  /\ IF holder = (IF c[1] = "acquire" THEN NoNode ELSE c[2])
     THEN Leased(c[2])
     ELSE UNCHANGED lease
  /\ UNCHANGED <<elector, bounds, payment, alarm>>

-----------------------------------------------------------------------------
(* Processes end and start *)

(* What the process had sent stays under way, with an id nobody has.        *)
Orphan(n) ==
  unanswered' = [c \in Commands |->
    CASE c[2] = n       -> 0
      [] c[2] = Foreign -> unanswered[c] + unanswered[<<c[1], n>>]
                           + (IF phase[n] = c[1] THEN 1 ELSE 0)
      [] OTHER          -> unanswered[c]]

(* SIGTERM: the job's context is cancelled and the lease released by its    *)
(* holder, unless main returns before the elector has got that far.         *)
End(n, release) ==
  /\ phase[n] # "down"
  /\ crashes < MaxCrashes
  /\ crashes' = crashes + 1
  /\ Goto(n, "down")
  /\ isLeader' = [isLeader EXCEPT ![n] = FALSE]
  /\ job' = [job EXCEPT ![n] = FALSE]
  /\ since' = [since EXCEPT ![n] = 0]
  /\ holder' = IF holder # n THEN holder ELSE IF release THEN NoNode ELSE Foreign
  /\ left' = IF holder = n /\ release THEN 0 ELSE left
  /\ Orphan(n)
  /\ UNCHANGED <<errors, payment, alarm>>

ShutDown(n) == isLeader[n] /\ End(n, TRUE)

Crash(n) == End(n, FALSE)

StartUp(n) ==
  /\ phase[n] = "down"
  /\ Goto(n, "waiting")
  /\ UNCHANGED <<lease, isLeader, job, since, unanswered, bounds, payment, alarm>>

-----------------------------------------------------------------------------
(* Time *)

(* TTL in since[n]: a lease's time or more.                                 *)
Tick ==
  /\ left' = IF left = 0 THEN 0 ELSE left - 1
  /\ holder' = IF left = 1 THEN NoNode ELSE holder
  /\ since' = [n \in Nodes |-> IF since[n] < TTL THEN since[n] + 1 ELSE TTL]
  /\ UNCHANGED <<isLeader, job, phase, unanswered, bounds, payment, alarm>>

-----------------------------------------------------------------------------
(* The audit *)

(* A transfer writes a debit and a credit with the payment's id.            *)
LedgerCount(p) == 2 * moved[p]

(* Mutant: <= for <.                                                        *)
PairsAreMissing == {p \in Payments : status[p] = "SUCCESS" /\ LedgerCount(p) <= 2}

MissingInLedger == {p \in Payments : status[p] = "SUCCESS" /\ LedgerCount(p) < 2}

(* RunAudit, by the leader's job or by POST /reconcile/now on any node: one *)
(* SQL statement, which sees one state of the database.                     *)
RunAudit(n) ==
  /\ phase[n] # "down"
  /\ alarm' = (alarm \/ MissingInLedger # {})
  /\ UNCHANGED <<lease, elector, unanswered, bounds, payment>>

-----------------------------------------------------------------------------

Init ==
  /\ holder = NoNode
  /\ left = 0
  /\ isLeader = [n \in Nodes |-> FALSE]
  /\ job = [n \in Nodes |-> FALSE]
  /\ phase = [n \in Nodes |-> "waiting"]
  /\ since = [n \in Nodes |-> 0]
  /\ unanswered = [c \in Commands |-> 0]
  /\ crashes = 0
  /\ errors = 0
  /\ PaymentService!Init
  /\ alarm = FALSE

ElectorStep(n) ==
  TakeHeartbeat(n) \/ Acquire(n) \/ Renew(n) \/ BecomeLeader(n) \/ StayLeader(n)
  \/ Refused(n)

Next ==
  \/ \E n \in Nodes : \/ ElectorStep(n) \/ CallFails(n) \/ Resend(n)
                      \/ ShutDown(n) \/ Crash(n) \/ StartUp(n) \/ RunAudit(n)
  \/ \E c \in Commands : Late(c)
  \/ Tick
  \/ PaymentService!Next /\ UNCHANGED <<lease, elector, unanswered, bounds, alarm>>

Spec == Init /\ [][Next]_vars

(* Time passes, the electors' goroutines run, pods are started again.       *)
FairSpec ==
  /\ Spec
  /\ WF_vars(Tick)
  /\ \A n \in Nodes : WF_vars(ElectorStep(n)) /\ WF_vars(StartUp(n))

-----------------------------------------------------------------------------
(* Properties *)

(* The shape of the state; a job runs exactly on the nodes that believe to  *)
(* be leader.                                                               *)
TypeOK ==
  /\ holder \in Nodes \cup {NoNode, Foreign}
  /\ left \in 0..TTL
  /\ holder = NoNode <=> left = 0
  /\ isLeader \in [Nodes -> BOOLEAN]
  /\ job = isLeader
  /\ phase \in [Nodes -> Calling \cup {"down", "waiting"}]
  /\ since \in [Nodes -> 0..TTL]
  /\ unanswered \in [Commands -> Nat]
  /\ crashes \in 0..MaxCrashes
  /\ errors \in 0..MaxErrors

(* Two replicas execute reconciliation jobs at a time only when one of them *)
(* cannot know better: a whole time to live has passed since Redis gave it  *)
(* the lease, and no refusal or error has reached it.  Calls that fail or   *)
(* are sent again, commands that arrive late, crashes and restarts never    *)
(* are the cause by themselves.                                             *)
OneJob ==
  \A m, n \in Nodes : job[m] /\ job[n] => m = n \/ TTL \in {since[m], since[n]}

(* Failover is automatic: again and again some replica is leader.           *)
AlwaysALeaderAgain == []<>(\E n \in Nodes : isLeader[n])

(* The three-way reconciliation does not report a payment the saga settled  *)
(* as it should, at whatever moment the audit's query sees the database.    *)
NoFalseAlarm == ~alarm
=============================================================================
