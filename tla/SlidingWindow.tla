---------------------------- MODULE SlidingWindow ----------------------------
(***************************************************************************)
(* The two sliding windows the services keep in Redis sorted sets: the     *)
(* gateway's rate limit per client (a Lua script that adds a request only  *)
(* below the limit) and the fraud service's velocity check per account (a  *)
(* MULTI pipeline that adds every check, then counts).  One key, of either *)
(* kind, and the processes that call it.                                   *)
(*                                                                         *)
(* A process reads its clock, then calls Redis: the calls arrive up to     *)
(* Delay late, in any order; Delay also covers the difference between the  *)
(* replicas' clocks.  The member is its timestamp, so that a tick is the   *)
(* smallest difference a sorted set sees (256 ns in the script, where a    *)
(* timestamp is a double), and calls of one tick are one member.           *)
(***************************************************************************)
EXTENDS Integers, FiniteSets

CONSTANTS
  Procs,    \* concurrent requests or consumers
  Limit,    \* 300 for the gateway, 10 for the velocity check
  Window,   \* one minute
  Delay,
  MaxTime   \* bound: the clock stops there

ASSUME WindowAssumption ==
  Limit \in Nat \ {0} /\ Window \in Nat /\ Delay \in Nat /\ Delay < Window /\ MaxTime \in Nat

VARIABLES
  kind,     \* "gateway" or "fraud"
  clock,
  zset,     \* timestamps in the sorted set
  expires,  \* time at which the key expires
  stamp,    \* per process: the time it has read, or None
  passed, refused,  \* timestamps of the calls answered yes, no
  seen              \* timestamps of all calls that reached Redis

None == -1
Times == 0..MaxTime
windowVars == <<kind, clock, zset, expires, stamp, passed, refused, seen>>

-----------------------------------------------------------------------------

(* An expired key is an empty set.                                          *)
Live == IF clock < expires THEN zset ELSE {}

(* Mutant: nothing is removed.                                              *)
Everything(now) == {t \in Live : now \in Nat}

(* ZREMRANGEBYSCORE key 0 now-Window                                        *)
Since(now) == {t \in Live : t > now - Window}

(* Mutants: a key that expires early, or in another unit.                   *)
HalfWindow == Window \div 2
ThousandWindows == 1000 * Window

TimeToLive == IF kind = "gateway" THEN Window ELSE 2 * Window

ReadClock(p) ==
  /\ stamp[p] = None
  /\ stamp' = [stamp EXCEPT ![p] = clock]
  /\ UNCHANGED <<kind, clock, zset, expires, passed, refused, seen>>

Answer(p, ok) ==
  /\ passed' = IF ok THEN passed \cup {stamp[p]} ELSE passed
  /\ refused' = IF ok THEN refused ELSE refused \cup {stamp[p]}
  /\ seen' = seen \cup {stamp[p]}
  /\ stamp' = [stamp EXCEPT ![p] = None]
  /\ UNCHANGED <<kind, clock>>

GatewayEval(p) ==
  /\ kind = "gateway" /\ stamp[p] # None
  /\ LET now == stamp[p]
         ok  == Cardinality(Since(now)) < Limit
     IN  /\ zset' = IF ok THEN Since(now) \cup {now} ELSE Since(now)
         /\ expires' = IF ok THEN clock + TimeToLive ELSE expires
         /\ Answer(p, ok)

(* The bound of the removal comes from a second look at the clock.          *)
FraudPipeline(p) ==
  /\ kind = "fraud" /\ stamp[p] # None
  /\ \E later \in stamp[p]..clock :
       LET window == Since(later) \cup {stamp[p]}
       IN  /\ zset' = window
           /\ expires' = clock + TimeToLive
           /\ Answer(p, Cardinality(window) <= Limit)

(* Redis is out of reach: both fail open, and the request leaves no trace.  *)
(* A call that is carried out counts even if its answer is lost.            *)
FailOpen(p) ==
  /\ stamp[p] # None
  /\ stamp' = [stamp EXCEPT ![p] = None]
  /\ UNCHANGED <<kind, clock, zset, expires, passed, refused, seen>>

Tick ==
  /\ clock < MaxTime
  /\ \A p \in Procs : stamp[p] # None => clock < stamp[p] + Delay
  /\ clock' = clock + 1
  /\ UNCHANGED <<kind, zset, expires, stamp, passed, refused, seen>>

WindowInit ==
  /\ kind \in {"gateway", "fraud"}
  /\ clock = 0
  /\ zset = {}
  /\ expires = 0
  /\ stamp = [p \in Procs |-> None]
  /\ passed = {}
  /\ refused = {}
  /\ seen = {}

WindowNext ==
  \/ \E p \in Procs : ReadClock(p) \/ GatewayEval(p) \/ FraudPipeline(p) \/ FailOpen(p)
  \/ Tick

WindowSpec == WindowInit /\ [][WindowNext]_windowVars

-----------------------------------------------------------------------------
(* Properties *)

(* The shape of the state.                                                 *)
WindowTypeOK ==
  /\ clock \in Times
  /\ zset \subseteq Times
  /\ expires \in 0..MaxTime + 2 * Window
  /\ stamp \in [Procs -> Times \cup {None}]
  /\ passed \cup refused \subseteq seen
  /\ seen \subseteq Times

(* The limit holds over every window, wherever it starts, in spite of calls *)
(* that reach Redis late and in another order than they were stamped; only  *)
(* what a call may be late is lost.                                         *)
LimitHolds ==
  \A from \in Times :
    Cardinality({t \in passed : from <= t /\ t < from + Window - Delay}) <= Limit

(* Who is refused has used up the limit: the gateway counts the requests it *)
(* let through, the velocity check all of them.                             *)
RefusalIsJustified ==
  \A t \in refused :
    LET recent == {u \in Times : t - Window < u /\ u <= t + Delay}
    IN  IF kind = "gateway"
        THEN Cardinality(passed \cap recent) >= Limit
        ELSE Cardinality(seen \cap recent) > Limit
=============================================================================
