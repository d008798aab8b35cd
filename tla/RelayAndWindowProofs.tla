------------------------- MODULE RelayAndWindowProofs -------------------------
(***************************************************************************)
(* Theorems of OutboxRelay, for any number of workers, events and crashes, *)
(* and of SlidingWindow, for any number of callers, limit and window: the  *)
(* two components no other module builds on.                               *)
(***************************************************************************)
EXTENDS OutboxRelay, SlidingWindow, FiniteSetTheorems, SequenceTheorems, TLAPS

(***************************************************************************)
(* The outbox relay                                                        *)
(*                                                                         *)
(* A row is marked some steps after it was published, and meanwhile other  *)
(* workers publish and mark the same row, fail or die: what holds all the  *)
(* time is that a worker about to mark has an event in hand that is in the *)
(* topic, or that Kafka has lost.                                          *)
(***************************************************************************)

Sent(e) == Published(e) \/ e \in dropped

Inv ==
  /\ TypeOK
  /\ LostOnlyByKafka
  /\ \A w \in Workers : pc[w] = "mark" => Sent(Head(batch[w]))

-----------------------------------------------------------------------------
(* Operators *)

(* A poll that finds something returns between one and BatchSize events.    *)
LEMMA BatchType ==
  ASSUME TypeOK, Pending # {}, NEW events \in PendingEvents
  PROVE  events \in Seq(Events) /\ events # <<>> /\ Len(events) <= BatchSize
<1> DEFINE n == IF Cardinality(Pending) < BatchSize THEN Cardinality(Pending) ELSE BatchSize
<1>1. IsFiniteSet(Pending)
  BY EventsAssumption, FS_Subset DEF Pending
<1>2. Cardinality(Pending) \in Nat /\ Cardinality(Pending) # 0
  BY <1>1, FS_CardinalityType, FS_EmptySet
<1>3. n \in Nat /\ n # 0 /\ n <= BatchSize
  BY <1>2, BatchAssumption
<1> HIDE DEF n
<1>4. events \in [1..n -> Events]
  BY DEF PendingEvents, Oldest, n, Pending
<1> QED BY <1>3, <1>4

(* After the write the event is in the topic, and nothing has left it.      *)
LEMMA Appended ==
  ASSUME TypeOK, NEW e \in Events, AppendCopy(e)
  PROVE  /\ topic' \in [Accounts -> Seq(Events)]
         /\ \A f \in Events : f = e \/ Published(f) => Published(f)'
<1>1. \A f \in Events : SourceOf[f] \in Accounts /\ topic[SourceOf[f]] \in Seq(Events)
  BY SourceAssumption DEF TypeOK
<1>2. topic \in [Accounts -> Seq(Events)]
  BY DEF TypeOK
<1>3. CASE topic' = topic /\ ~(Copies(e) < MaxCopies)
  <2>1. Copies(e) # 0
    BY <1>3, BoundsAssumption
  <2>2. Published(e)
    BY <2>1, FS_EmptySet DEF Copies, Published
  <2> QED BY <1>2, <1>3, <2>2 DEF Published
<1>4. CASE topic' = [topic EXCEPT ![SourceOf[e]] = Append(@, e)]
  <2>1. topic'[SourceOf[e]] = Append(topic[SourceOf[e]], e)
    BY <1>1, <1>2, <1>4
  <2>2. topic' \in [Accounts -> Seq(Events)]
    BY <1>1, <1>2, <1>4
  <2>3. Published(e)'
    BY <1>1, <2>1 DEF Published
  <2>4. ASSUME NEW f \in Events, Published(f)
        PROVE  Published(f)'
    <3>1. CASE SourceOf[f] = SourceOf[e]
      BY <1>1, <2>1, <2>4, <3>1 DEF Published
    <3>2. CASE SourceOf[f] # SourceOf[e]
      BY <1>1, <1>2, <1>4, <2>4, <3>2 DEF Published
    <3> QED BY <3>1, <3>2
  <2> QED BY <2>2, <2>3, <2>4
<1> QED BY <1>3, <1>4 DEF AppendCopy

-----------------------------------------------------------------------------
(* Steps *)

(* The worker goes on to the next event of its batch.                       *)
LEMMA ContinueType ==
  ASSUME TypeOK, NEW w \in Workers, pc[w] \in {"publish", "mark"}, Continue(w)
  PROVE  /\ pc' \in [Workers -> {"waiting", "publish", "mark", "down"}]
         /\ batch' \in [Workers -> Seq(Events)]
         /\ \A v \in Workers : /\ Len(batch'[v]) <= BatchSize
                               /\ pc'[v] \in {"publish", "mark"} <=> batch'[v] # <<>>
         /\ pc'[w] # "mark"
         /\ \A v \in Workers \ {w} : pc'[v] = pc[v] /\ batch'[v] = batch[v]
<1>1. /\ batch[w] \in Seq(Events) /\ batch[w] # <<>> /\ Len(batch[w]) <= BatchSize
      /\ pc \in [Workers -> {"waiting", "publish", "mark", "down"}]
      /\ batch \in [Workers -> Seq(Events)]
      /\ \A v \in Workers : /\ Len(batch[v]) <= BatchSize
                            /\ pc[v] \in {"publish", "mark"} <=> batch[v] # <<>>
  BY DEF TypeOK
<1>2. /\ Tail(batch[w]) \in Seq(Events) /\ Len(Tail(batch[w])) = Len(batch[w]) - 1
      /\ Len(batch[w]) \in Nat
      /\ Tail(batch[w]) = <<>> <=> Len(batch[w]) = 1
  <2>1. Tail(batch[w]) \in Seq(Events) /\ Len(Tail(batch[w])) = Len(batch[w]) - 1
    BY <1>1, HeadTailProperties
  <2>2. \A q \in Seq(Events) : Len(q) \in Nat /\ (q = <<>> <=> Len(q) = 0)
    BY EmptySeq, LenProperties
  <2>3. Len(batch[w]) \in Nat
    BY <1>1, <2>2
  <2>4. Tail(batch[w]) = <<>> <=> Len(Tail(batch[w])) = 0
    BY <2>1, <2>2
  <2>5. \A n, m \in Int : n = m - 1 => (n = 0 <=> m = 1)
    OBVIOUS
  <2>6. Len(Tail(batch[w])) = 0 <=> Len(batch[w]) = 1
    BY <2>1, <2>3, <2>5
  <2> QED BY <2>1, <2>3, <2>4, <2>6
<1>3. /\ batch'[w] = Tail(batch[w])
      /\ pc'[w] = IF Len(batch[w]) = 1 THEN "waiting" ELSE "publish"
      /\ \A v \in Workers \ {w} : pc'[v] = pc[v] /\ batch'[v] = batch[v]
  BY <1>1 DEF Continue
<1>4. Len(batch'[w]) <= BatchSize
  BY <1>1, <1>2, <1>3, BatchAssumption
<1>5. /\ pc' \in [Workers -> {"waiting", "publish", "mark", "down"}]
      /\ batch' \in [Workers -> Seq(Events)]
  BY <1>1, <1>2 DEF Continue
<1> QED BY <1>1, <1>2, <1>3, <1>4, <1>5

LEMMA InitInv == Init => Inv
BY BatchAssumption, BoundsAssumption DEF Init, Inv, TypeOK, LostOnlyByKafka

LEMMA NextInv == Inv /\ [Next]_vars => Inv'
<1> SUFFICES ASSUME Inv, [Next]_vars PROVE Inv'
  OBVIOUS
<1> DEFINE Kept == \A f \in Events : Sent(f) => Sent(f)'
           Bounded == \A v \in Workers : /\ Len(batch[v]) <= BatchSize
                                        /\ pc[v] \in {"publish", "mark"} <=> batch[v] # <<>>
<1>1. TypeOK /\ Bounded
  BY DEF Inv, TypeOK
<1>2. \A w \in Workers : pc[w] \in {"publish", "mark"} => Head(batch[w]) \in Events
  <2>1. \A q \in Seq(Events) : q # <<>> => Head(q) \in Events
    OBVIOUS
  <2> QED BY <1>1, <2>1 DEF TypeOK
<1>3. UNCHANGED <<topic, dropped>> => Kept
  BY DEF Sent, Published
<1>4. CASE \E e \in Events : Commit(e)
  BY <1>1, <1>3, <1>4 DEF Inv, TypeOK, Commit, LostOnlyByKafka, Sent
<1>5. ASSUME NEW w \in Workers, Poll(w) PROVE Inv'
  <2>1. PICK events \in PendingEvents : batch' = [batch EXCEPT ![w] = events]
    BY <1>5 DEF Poll
  <2>2. events \in Seq(Events) /\ events # <<>> /\ Len(events) <= BatchSize
    BY <1>1, <1>5, <2>1, BatchType DEF Poll
  <2>3. pc' = [pc EXCEPT ![w] = "publish"] /\ UNCHANGED <<status, topic, crashes, dropped>>
    BY <1>5 DEF Poll
  <2>4. TypeOK'
    BY <1>1, <2>1, <2>2, <2>3 DEF TypeOK
  <2> QED BY <1>1, <1>3, <2>1, <2>3, <2>4 DEF Inv, TypeOK, LostOnlyByKafka, Sent
<1>6. ASSUME NEW w \in Workers, Publish(w) PROVE Inv'
  <2>1. Head(batch[w]) \in Events
    BY <1>1, <1>2, <1>6 DEF Publish
  <2>2. /\ topic' \in [Accounts -> Seq(Events)] /\ dropped' \subseteq Events
        /\ \A f \in Events : f = Head(batch[w]) \/ Sent(f) => Sent(f)'
    <3>1. CASE AppendCopy(Head(batch[w])) /\ UNCHANGED dropped
      BY <1>1, <2>1, <3>1, Appended DEF Sent, TypeOK
    <3>2. CASE dropped' = dropped \cup {Head(batch[w])} /\ UNCHANGED topic
      BY <1>1, <2>1, <3>2 DEF Sent, Published, TypeOK
    <3> QED BY <1>6, <3>1, <3>2 DEF Publish
  <2>3. pc' = [pc EXCEPT ![w] = "mark"] /\ UNCHANGED <<status, batch, crashes>>
    BY <1>6 DEF Publish
  <2>4. TypeOK'
    BY <1>1, <1>6, <2>2, <2>3 DEF TypeOK, Publish
  <2>5. ASSUME NEW v \in Workers, pc'[v] = "mark" PROVE Sent(Head(batch[v]))'
    <3>1. v = w \/ pc[v] = "mark"
      BY <1>1, <2>3, <2>5 DEF TypeOK
    <3>2. PICK f \in Events : f = Head(batch[v])
      BY <1>2, <2>1, <3>1
    <3>3. f = Head(batch[w]) \/ Sent(f)
      BY <3>1, <3>2 DEF Inv
    <3>4. Sent(f)'
      BY <2>2, <3>3
    <3> QED BY <2>3, <3>2, <3>4
  <2>6. LostOnlyByKafka'
    BY <2>2, <2>3 DEF Inv, LostOnlyByKafka, Sent, Published
  <2> QED BY <2>4, <2>5, <2>6 DEF Inv
<1>7. ASSUME NEW w \in Workers, PublishFails(w) \/ MarkFails(w) PROVE Inv'
  <2>1. /\ pc[w] \in {"publish", "mark"} /\ Continue(w) /\ UNCHANGED <<status, crashes, dropped>>
        /\ UNCHANGED topic \/ AppendCopy(Head(batch[w]))
    BY <1>7 DEF PublishFails, MarkFails
  <2>2. topic' \in [Accounts -> Seq(Events)] /\ Kept
    <3>1. CASE UNCHANGED topic
      BY <1>1, <1>3, <2>1, <3>1 DEF TypeOK
    <3>2. CASE AppendCopy(Head(batch[w]))
      <4>1. Head(batch[w]) \in Events
        BY <1>2, <2>1
      <4>2. topic' \in [Accounts -> Seq(Events)] /\ \A f \in Events : Published(f) => Published(f)'
        BY <1>1, <3>2, <4>1, Appended
      <4> QED BY <2>1, <4>2 DEF Sent
    <3> QED BY <2>1, <3>1, <3>2
  <2>3. TypeOK'
    BY <1>1, <2>1, <2>2, ContinueType DEF TypeOK
  <2>4. ASSUME NEW v \in Workers, pc'[v] = "mark" PROVE Sent(Head(batch[v]))'
    BY <1>1, <1>2, <2>1, <2>2, <2>4, ContinueType DEF Inv
  <2> QED BY <1>1, <2>1, <2>2, <2>3, <2>4 DEF Inv, TypeOK, LostOnlyByKafka, Sent
<1>8. ASSUME NEW w \in Workers, MarkProcessed(w) PROVE Inv'
  <2>1. /\ pc[w] = "mark" /\ Continue(w) /\ UNCHANGED <<topic, crashes, dropped>>
        /\ status' = [status EXCEPT ![Head(batch[w])] = "PROCESSED"]
    BY <1>8 DEF MarkProcessed
  <2>2. Head(batch[w]) \in Events
    BY <1>2, <2>1
  <2>3. Kept
    BY <1>3, <2>1
  <2>4. Sent(Head(batch[w]))
    BY <2>1 DEF Inv
  <2>5. TypeOK'
    BY <1>1, <2>1, <2>2, ContinueType DEF TypeOK
  <2>6. ASSUME NEW v \in Workers, pc'[v] = "mark" PROVE Sent(Head(batch[v]))'
    BY <1>1, <1>2, <2>1, <2>3, <2>6, ContinueType DEF Inv
  <2> QED BY <1>1, <2>1, <2>2, <2>3, <2>4, <2>5, <2>6 DEF Inv, TypeOK, LostOnlyByKafka, Sent
<1>9. ASSUME NEW w \in Workers, Crash(w) \/ Restart(w) PROVE Inv'
  <2>1. UNCHANGED <<status, topic, dropped>> /\ Kept
    BY <1>3, <1>9 DEF Crash, Restart
  <2>2. crashes' \in 0..MaxCrashes
    BY <1>1, <1>9, BoundsAssumption DEF Crash, Restart, TypeOK
  <2>3. TypeOK'
    <3>1. CASE Crash(w)
      <4>1. /\ pc' = [pc EXCEPT ![w] = "down"] /\ batch' = [batch EXCEPT ![w] = <<>>]
            /\ Len(<<>>) = 0 /\ <<>> \in Seq(Events)
        BY <3>1 DEF Crash
      <4> QED BY <1>1, <2>1, <2>2, <4>1, BatchAssumption DEF TypeOK
    <3>2. CASE Restart(w)
      BY <1>1, <2>1, <2>2, <3>2 DEF Restart, TypeOK
    <3> QED BY <1>9, <3>1, <3>2
  <2>4. \A v \in Workers : pc'[v] = "mark" => pc[v] = "mark" /\ batch'[v] = batch[v]
    BY <1>1, <1>9 DEF Crash, Restart, TypeOK
  <2> QED BY <1>1, <1>2, <2>1, <2>3, <2>4 DEF Inv, TypeOK, LostOnlyByKafka, Sent
<1>10. CASE UNCHANGED vars
  BY <1>10 DEF Inv, TypeOK, LostOnlyByKafka, Sent, Published, vars
<1> QED BY <1>4, <1>5, <1>6, <1>7, <1>8, <1>9, <1>10 DEF Next, WorkerStep, Idle

LEMMA Invariance == Spec => []Inv
BY InitInv, NextInv, PTL DEF Spec

-----------------------------------------------------------------------------
(* Theorems *)

(* The shape of the state: in particular no batch exceeds the poll's LIMIT, *)
(* and a worker never indexes an empty one.                                 *)
THEOREM TypeCorrect == Spec => []TypeOK
<1>1. Inv => TypeOK
  BY DEF Inv
<1> QED BY <1>1, Invariance, PTL

(* The relay's half of at-least-once delivery: however many replicas poll   *)
(* the same rows and whenever they fail, no row leaves the outbox before    *)
(* its event is in the topic or Kafka has lost it (relay.go:65-85).         *)
THEOREM NothingDropped == Spec => []LostOnlyByKafka
<1>1. Inv => LostOnlyByKafka
  BY DEF Inv
<1> QED BY <1>1, Invariance, PTL

-----------------------------------------------------------------------------
(***************************************************************************)
(* The sliding windows                                                     *)
(*                                                                         *)
(* A call is stamped before it reaches Redis, and by then a call with a    *)
(* later stamp may have removed entries and moved the expiry.  What it     *)
(* still finds is every entry it must count: one leaves the set, or its    *)
(* key expires, only when the clock is a Window past it.                   *)
(***************************************************************************)

(* The calls of which the set keeps an entry.                               *)
Kept == IF kind = "gateway" THEN passed ELSE seen

(* A call reaches Redis at most Delay after it was stamped.                 *)
Stamped ==
  \A p \in Procs :
    stamp[p] # None => stamp[p] <= clock /\ clock <= stamp[p] + Delay

Entries ==
  /\ zset \subseteq Kept
  /\ \A t \in Kept :
       /\ t <= clock
       /\ clock < t + Window => t \in zset /\ t + Window <= expires

WindowInv ==
  /\ WindowTypeOK
  /\ kind \in {"gateway", "fraud"}
  /\ Stamped
  /\ Entries
  /\ LimitHolds
  /\ RefusalIsJustified

LEMMA TypeFacts ==
  ASSUME WindowTypeOK
  PROVE  /\ Times \subseteq Nat
         /\ clock \in Times /\ clock \in Nat /\ expires \in Int
         /\ zset \subseteq Times /\ passed \subseteq Times /\ seen \subseteq Times
         /\ zset \subseteq Nat /\ passed \subseteq Nat /\ seen \subseteq Nat
         /\ \A p \in Procs : stamp[p] # None => stamp[p] \in Times /\ stamp[p] \in Nat
<1>1. Times \subseteq Nat
  BY DEF Times
<1>2. expires \in Int
  BY DEF WindowTypeOK
<1>3. /\ clock \in Times
      /\ zset \subseteq Times /\ passed \subseteq Times /\ seen \subseteq Times
      /\ \A p \in Procs : stamp[p] # None => stamp[p] \in Times
  BY DEF WindowTypeOK
<1> QED BY <1>1, <1>2, <1>3

(* What a call finds in the set, and which stamps it can be about.          *)
LEMMA SinceFacts ==
  ASSUME WindowInv, NEW p \in Procs, stamp[p] # None, NEW now \in stamp[p]..clock
  PROVE  /\ stamp[p] \in Times /\ now \in Int
         /\ stamp[p] <= now /\ now <= clock /\ clock <= stamp[p] + Delay
         /\ Since(now) \subseteq Kept /\ Since(now) \subseteq zset
         /\ \A t \in Since(now) : now - Window < t /\ t <= clock
         /\ \A t \in Kept : clock < t + Window => t \in Since(now)
<1>1. /\ stamp[p] \in Times /\ stamp[p] \in Nat /\ clock \in Nat /\ zset \subseteq Nat
      /\ passed \subseteq Nat /\ seen \subseteq Nat /\ expires \in Int
  BY TypeFacts DEF WindowInv
<1>2. Kept \subseteq Nat
  BY <1>1 DEF Kept
<1>3. now \in Int /\ stamp[p] <= now /\ now <= clock /\ clock <= stamp[p] + Delay
  BY <1>1 DEF WindowInv, Stamped
<1>4. Since(now) \subseteq zset
  BY DEF Since, Live
<1>5. ASSUME NEW t \in Since(now) PROVE now - Window < t /\ t <= clock
  BY <1>1, <1>2, <1>3, <1>4, <1>5, WindowAssumption DEF Since, WindowInv, Entries
<1>6. ASSUME NEW t \in Kept, clock < t + Window PROVE t \in Since(now)
  <2>1. t \in Nat /\ t \in zset /\ t + Window <= expires
    BY <1>2, <1>6 DEF WindowInv, Entries
  <2>2. clock < expires /\ t > now - Window
    BY <1>1, <1>3, <1>6, <2>1, WindowAssumption
  <2> QED BY <2>1, <2>2 DEF Since, Live
<1> QED BY <1>1, <1>3, <1>4, <1>5, <1>6 DEF WindowInv, Entries

LEMMA TimesFinite ==
  ASSUME NEW S, S \subseteq Times
  PROVE  /\ IsFiniteSet(S) /\ Cardinality(S) \in Nat
         /\ \A T \in SUBSET S : Cardinality(T) \in Nat /\ Cardinality(T) <= Cardinality(S)
<1>1. IsFiniteSet(S)
  <2>1. IsFiniteSet(Times)
    BY WindowAssumption, FS_Interval DEF Times
  <2> QED BY <2>1, FS_Subset
<1>2. \A T \in SUBSET S : IsFiniteSet(T) /\ Cardinality(T) <= Cardinality(S)
  BY <1>1, FS_Subset
<1> QED BY <1>1, <1>2, FS_CardinalityType

(* A call is let through only if the set, with its own entry, has no more   *)
(* than Limit.  Any stretch of Window - Delay that the call is in has       *)
(* begun less than a Window ago, so the set has all of it.                  *)
LEMMA LimitKept ==
  ASSUME WindowInv, NEW p \in Procs, stamp[p] # None, NEW now \in stamp[p]..clock,
         passed \subseteq Kept, Cardinality(Since(now) \cup {stamp[p]}) <= Limit,
         passed' = passed \cup {stamp[p]}
  PROVE  LimitHolds'
<1> DEFINE In(S, from) == {t \in S : from <= t /\ t < from + Window - Delay}
<1> SUFFICES ASSUME NEW from \in Times
             PROVE  Cardinality(In(passed', from)) <= Limit
  BY DEF LimitHolds
<1>1. /\ stamp[p] \in Times /\ clock <= stamp[p] + Delay
      /\ \A t \in Kept : clock < t + Window => t \in Since(now)
      /\ Since(now) \subseteq zset
  BY SinceFacts
<1>2. clock \in Nat /\ zset \subseteq Times /\ passed \subseteq Times /\ Times \subseteq Nat
  BY TypeFacts DEF WindowInv
<1>3. CASE stamp[p] \notin In({stamp[p]}, from)
  <2>1. In(passed', from) = In(passed, from)
    BY <1>3
  <2> QED BY <2>1 DEF WindowInv, LimitHolds
<1>4. CASE stamp[p] \in In({stamp[p]}, from)
  <2>1. clock < from + Window
    <3>1. stamp[p] < from + Window - Delay
      BY <1>4
    <3>2. stamp[p] \in Nat /\ from \in Nat
      BY <1>1, <1>2
    <3> QED BY <1>1, <1>2, <3>1, <3>2, WindowAssumption
  <2>2. ASSUME NEW t \in In(passed, from) PROVE t \in Since(now)
    <3>1. t \in Kept /\ t \in Nat /\ clock < t + Window
      BY <1>2, <2>1, <2>2, WindowAssumption
    <3> QED BY <1>1, <3>1
  <2>3. In(passed', from) \subseteq Since(now) \cup {stamp[p]}
    BY <2>2
  <2>4. Since(now) \cup {stamp[p]} \subseteq Times
    BY <1>1, <1>2
  <2>5. /\ Cardinality(In(passed', from)) \in Nat
        /\ Cardinality(Since(now) \cup {stamp[p]}) \in Nat
        /\ Cardinality(In(passed', from)) <= Cardinality(Since(now) \cup {stamp[p]})
    BY <2>3, <2>4, TimesFinite
  <2> HIDE DEF In
  <2> QED BY <2>5, WindowAssumption
<1> QED BY <1>3, <1>4

(* A refusal stays justified, since calls are only added.                   *)
LEMMA RefusalsKept ==
  ASSUME WindowInv, UNCHANGED kind,
         passed \subseteq passed', seen \subseteq seen', passed' \cup seen' \subseteq Times,
         NEW t \in refused
  PROVE  LET recent == {u \in Times : t - Window < u /\ u <= t + Delay}
         IN  IF kind' = "gateway"
             THEN Cardinality(passed' \cap recent) >= Limit
             ELSE Cardinality(seen' \cap recent) > Limit
<1> DEFINE recent == {u \in Times : t - Window < u /\ u <= t + Delay}
<1>1. /\ passed' \cap recent \subseteq Times /\ seen' \cap recent \subseteq Times
      /\ passed \cap recent \subseteq passed' \cap recent
      /\ seen \cap recent \subseteq seen' \cap recent
  OBVIOUS
<1>2. IF kind = "gateway" THEN Cardinality(passed \cap recent) >= Limit
                          ELSE Cardinality(seen \cap recent) > Limit
  BY DEF WindowInv, RefusalIsJustified
<1> HIDE DEF recent
<1>3. /\ Cardinality(passed' \cap recent) \in Nat /\ Cardinality(seen' \cap recent) \in Nat
      /\ Cardinality(passed \cap recent) \in Nat /\ Cardinality(seen \cap recent) \in Nat
      /\ Cardinality(passed \cap recent) <= Cardinality(passed' \cap recent)
      /\ Cardinality(seen \cap recent) <= Cardinality(seen' \cap recent)
  BY <1>1, TimesFinite
<1>4. IF kind' = "gateway" THEN Cardinality(passed' \cap recent) >= Limit
                           ELSE Cardinality(seen' \cap recent) > Limit
  BY <1>2, <1>3, WindowAssumption
<1> QED BY <1>4 DEF recent

-----------------------------------------------------------------------------

LEMMA GatewayInv ==
  ASSUME WindowInv, NEW p \in Procs, GatewayEval(p)
  PROVE  WindowInv'
<1> DEFINE now == stamp[p]
           ok  == Cardinality(Since(now)) < Limit
<1>1. /\ kind = "gateway" /\ now # None /\ UNCHANGED <<kind, clock>>
      /\ zset' = IF ok THEN Since(now) \cup {now} ELSE Since(now)
      /\ expires' = IF ok THEN clock + Window ELSE expires
      /\ passed' = IF ok THEN passed \cup {now} ELSE passed
      /\ refused' = IF ok THEN refused ELSE refused \cup {now}
      /\ seen' = seen \cup {now}
      /\ stamp' = [stamp EXCEPT ![p] = None]
  BY DEF GatewayEval, Answer, TimeToLive
<1>2. /\ Times \subseteq Nat /\ clock \in Times /\ clock \in Nat
      /\ zset \subseteq Times /\ passed \subseteq Times /\ seen \subseteq Times
      /\ passed \subseteq Nat
      /\ now \in Times /\ now \in Nat
  BY <1>1, TypeFacts DEF WindowInv
<1>3. now \in now..clock
  BY <1>1, <1>2 DEF WindowInv, Stamped
<1>4. /\ now <= clock /\ clock <= now + Delay
      /\ Since(now) \subseteq passed /\ Since(now) \subseteq zset
      /\ \A t \in Since(now) : now - Window < t /\ t <= clock
      /\ \A t \in passed : clock < t + Window => t \in Since(now)
  BY <1>1, <1>3, SinceFacts DEF Kept
<1>5. /\ Cardinality(Since(now)) \in Nat
      /\ IsFiniteSet(Since(now))
  BY <1>2, <1>4, TimesFinite
<1> HIDE DEF now
<1>6. WindowTypeOK'
  <2>1. expires' \in 0..MaxTime + 2 * Window
    <3>1. clock + Window \in 0..MaxTime + 2 * Window
      BY <1>2, WindowAssumption DEF Times
    <3> QED BY <1>1, <3>1 DEF WindowInv, WindowTypeOK
  <2>2. zset' \subseteq Times
    BY <1>1, <1>2, <1>4
  <2>3. stamp' \in [Procs -> Times \cup {None}]
    BY <1>1 DEF WindowInv, WindowTypeOK
  <2>4. passed' \cup refused' \subseteq seen' /\ seen' \subseteq Times
    BY <1>1, <1>2 DEF WindowInv, WindowTypeOK
  <2> QED BY <1>1, <1>2, <2>1, <2>2, <2>3, <2>4 DEF WindowTypeOK
<1>7. Stamped'
  BY <1>1 DEF WindowInv, WindowTypeOK, Stamped
<1>8. Entries'
  <2>1. Kept' = passed' /\ Kept = passed
    BY <1>1 DEF Kept
  <2>2. zset' \subseteq passed'
    BY <1>1, <1>4
  <2>3. ASSUME NEW t \in passed'
        PROVE  t <= clock /\ (clock < t + Window => t \in zset' /\ t + Window <= expires')
    <3>1. CASE t \in passed
      <4>1. /\ t \in Nat /\ t <= clock
            /\ clock < t + Window => t \in Since(now) /\ t + Window <= expires
        BY <1>2, <1>4, <2>1, <3>1 DEF WindowInv, Entries
      <4>2. t + Window <= clock + Window
        BY <1>2, <4>1, WindowAssumption
      <4> QED BY <1>1, <4>1, <4>2
    <3>2. CASE t = now /\ ok
      BY <1>1, <1>2, <1>4, <3>2, WindowAssumption
    <3> QED BY <1>1, <2>3, <3>1, <3>2
  <2> QED BY <1>1, <2>1, <2>2, <2>3 DEF Entries
<1>9. LimitHolds'
  <2>1. CASE ok
    <3>1. Cardinality(Since(now) \cup {now}) <= Limit
      BY <1>5, <2>1, FS_AddElement, WindowAssumption
    <3> QED BY <1>1, <1>3, <2>1, <3>1, LimitKept DEF Kept, now
  <2>2. CASE ~ok
    BY <1>1, <2>2 DEF WindowInv, LimitHolds
  <2> QED BY <2>1, <2>2
<1>10. RefusalIsJustified'
  <2>1. /\ passed \subseteq passed' /\ seen \subseteq seen' /\ passed' \cup seen' \subseteq Times
    BY <1>1, <1>2
  <2>2. ASSUME ~ok
        PROVE  Cardinality(passed' \cap {u \in Times : now - Window < u /\ u <= now + Delay}) >= Limit
    <3> DEFINE recent == {u \in Times : now - Window < u /\ u <= now + Delay}
    <3>1. Since(now) \subseteq passed' \cap recent
      <4>1. ASSUME NEW t \in Since(now) PROVE now - Window < t /\ t <= now + Delay /\ t \in Times
        <5>1. t \in Times /\ t \in Nat /\ now - Window < t /\ t <= clock
          BY <1>2, <1>4, <4>1
        <5> QED BY <1>2, <1>4, <5>1, WindowAssumption
      <4> QED BY <1>1, <1>4, <2>2, <4>1
    <3>2. passed' \cap recent \subseteq Times
      OBVIOUS
    <3> HIDE DEF recent
    <3>3. /\ Cardinality(passed' \cap recent) \in Nat
          /\ Cardinality(Since(now)) <= Cardinality(passed' \cap recent)
      BY <3>1, <3>2, TimesFinite
    <3>4. Cardinality(passed' \cap recent) >= Limit
      BY <1>5, <2>2, <3>3, WindowAssumption
    <3> QED BY <3>4 DEF recent
  <2> QED BY <1>1, <2>1, <2>2, RefusalsKept DEF RefusalIsJustified
<1> QED BY <1>1, <1>6, <1>7, <1>8, <1>9, <1>10 DEF WindowInv

LEMMA FraudInv ==
  ASSUME WindowInv, NEW p \in Procs, FraudPipeline(p)
  PROVE  WindowInv'
<1> DEFINE now == stamp[p]
<1>1. /\ kind = "fraud" /\ now # None /\ UNCHANGED <<kind, clock>>
      /\ seen' = seen \cup {now}
      /\ stamp' = [stamp EXCEPT ![p] = None]
      /\ expires' = clock + 2 * Window
  BY DEF FraudPipeline, Answer, TimeToLive
<1>2. PICK later \in now..clock :
        /\ zset' = Since(later) \cup {now}
        /\ LET ok == Cardinality(Since(later) \cup {now}) <= Limit
           IN  /\ passed' = IF ok THEN passed \cup {now} ELSE passed
               /\ refused' = IF ok THEN refused ELSE refused \cup {now}
  BY DEF FraudPipeline, Answer
<1> DEFINE ok == Cardinality(Since(later) \cup {now}) <= Limit
<1>3. /\ Times \subseteq Nat /\ clock \in Times /\ clock \in Nat
      /\ zset \subseteq Times /\ passed \subseteq Times /\ seen \subseteq Times
      /\ seen \subseteq Nat
      /\ now \in Times /\ now \in Nat
  BY <1>1, TypeFacts DEF WindowInv
<1>4. /\ later \in Int /\ now <= later /\ now <= clock /\ clock <= now + Delay
      /\ Since(later) \subseteq seen /\ Since(later) \subseteq zset
      /\ \A t \in Since(later) : later - Window < t /\ t <= clock
      /\ \A t \in seen : clock < t + Window => t \in Since(later)
  <2>1. /\ now <= later /\ later <= clock /\ Since(later) \subseteq Kept
        /\ Since(later) \subseteq zset /\ later \in Int /\ clock <= now + Delay
        /\ \A t \in Since(later) : later - Window < t /\ t <= clock
        /\ \A t \in Kept : clock < t + Window => t \in Since(later)
    BY <1>1, SinceFacts
  <2>2. now <= clock
    BY <1>3, <2>1
  <2>3. Kept = seen
    BY <1>1 DEF Kept
  <2> QED BY <2>1, <2>2, <2>3
<1>5. passed \subseteq seen
  BY DEF WindowInv, WindowTypeOK
<1> HIDE DEF now
<1>6. WindowTypeOK'
  <2>1. expires' \in 0..MaxTime + 2 * Window
    <3>1. clock + 2 * Window \in 0..MaxTime + 2 * Window
      BY <1>3, WindowAssumption DEF Times
    <3> QED BY <1>1, <3>1
  <2>2. zset' \subseteq Times
    BY <1>2, <1>3, <1>4
  <2>3. stamp' \in [Procs -> Times \cup {None}]
    BY <1>1 DEF WindowInv, WindowTypeOK
  <2>4. passed' \cup refused' \subseteq seen' /\ seen' \subseteq Times
    BY <1>1, <1>2, <1>3 DEF WindowInv, WindowTypeOK
  <2> QED BY <1>1, <1>3, <2>1, <2>2, <2>3, <2>4 DEF WindowTypeOK
<1>7. Stamped'
  BY <1>1 DEF WindowInv, WindowTypeOK, Stamped
<1>8. Entries'
  <2>1. Kept' = seen' /\ Kept = seen
    BY <1>1 DEF Kept
  <2>2. zset' \subseteq seen'
    BY <1>1, <1>2, <1>4
  <2>3. ASSUME NEW t \in seen'
        PROVE  t <= clock /\ (clock < t + Window => t \in zset' /\ t + Window <= expires')
    <3>1. t \in Nat /\ t <= clock
      BY <1>1, <1>3, <1>4, <2>1, <2>3 DEF WindowInv, Entries
    <3>2. t + Window <= clock + 2 * Window
      BY <1>3, <3>1, WindowAssumption
    <3>3. clock < t + Window => t \in zset'
      BY <1>1, <1>2, <1>4, <2>3
    <3> QED BY <1>1, <3>1, <3>2, <3>3
  <2> QED BY <1>1, <2>1, <2>2, <2>3 DEF Entries
<1>9. LimitHolds'
  <2>1. CASE ok
    <3>1. passed \subseteq Kept
      BY <1>1, <1>5 DEF Kept
    <3> QED BY <1>1, <1>2, <2>1, <3>1, LimitKept DEF now
  <2>2. CASE ~ok
    BY <1>2, <2>2 DEF WindowInv, LimitHolds
  <2> QED BY <2>1, <2>2
<1>10. RefusalIsJustified'
  <2>1. /\ passed \subseteq passed' /\ seen \subseteq seen' /\ passed' \cup seen' \subseteq Times
    BY <1>1, <1>2, <1>3
  <2>2. ASSUME ~ok
        PROVE  Cardinality(seen' \cap {u \in Times : now - Window < u /\ u <= now + Delay}) > Limit
    <3> DEFINE recent == {u \in Times : now - Window < u /\ u <= now + Delay}
               window == Since(later) \cup {now}
    <3>1. window \subseteq seen' \cap recent
      <4>1. ASSUME NEW t \in Since(later) PROVE now - Window < t /\ t <= now + Delay /\ t \in Times
        <5>1. t \in Times /\ t \in Nat /\ later - Window < t /\ t <= clock
          BY <1>3, <1>4, <4>1
        <5> QED BY <1>3, <1>4, <5>1, WindowAssumption
      <4>2. now \in recent
        BY <1>3, WindowAssumption
      <4> QED BY <1>1, <1>4, <4>1, <4>2
    <3>2. seen' \cap recent \subseteq Times
      OBVIOUS
    <3> HIDE DEF recent, window
    <3>3. /\ Cardinality(seen' \cap recent) \in Nat /\ Cardinality(window) \in Nat
          /\ Cardinality(window) <= Cardinality(seen' \cap recent)
      BY <3>1, <3>2, TimesFinite
    <3>4. ~(Cardinality(window) <= Limit)
      BY <2>2 DEF window
    <3>5. Cardinality(seen' \cap recent) > Limit
      BY <3>3, <3>4, WindowAssumption
    <3> QED BY <3>5 DEF recent
  <2> QED BY <1>1, <1>2, <2>1, <2>2, RefusalsKept DEF RefusalIsJustified
<1> QED BY <1>1, <1>6, <1>7, <1>8, <1>9, <1>10 DEF WindowInv

(* The calls that reached Redis stay as they are.                           *)
LEMMA WindowUnchanged ==
  ASSUME WindowInv, UNCHANGED <<kind, zset, expires, passed, refused, seen>>
  PROVE  LimitHolds' /\ RefusalIsJustified' /\ Kept' = Kept
<1>1. LimitHolds /\ RefusalIsJustified
  BY DEF WindowInv
<1> QED BY <1>1 DEF LimitHolds, RefusalIsJustified, Kept

LEMMA TickWindowInv ==
  ASSUME WindowInv, Tick
  PROVE  WindowInv'
<1>1. /\ clock < MaxTime /\ clock' = clock + 1
      /\ UNCHANGED <<kind, zset, expires, stamp, passed, refused, seen>>
      /\ \A p \in Procs : stamp[p] # None => clock < stamp[p] + Delay
  BY DEF Tick
<1>2. clock \in Nat /\ clock' \in Times
  BY <1>1, TypeFacts, WindowAssumption DEF WindowInv, Times
<1>3. WindowTypeOK'
  BY <1>1, <1>2 DEF WindowInv, WindowTypeOK
<1>4. Stamped'
  <2> SUFFICES ASSUME NEW p \in Procs, stamp[p] # None
               PROVE  stamp[p] <= clock + 1 /\ clock + 1 <= stamp[p] + Delay
    BY <1>1 DEF Stamped
  <2>1. stamp[p] \in Nat /\ stamp[p] <= clock /\ clock < stamp[p] + Delay
    BY <1>1, TypeFacts DEF WindowInv, Stamped
  <2> QED BY <1>2, <2>1, WindowAssumption
<1>5. Entries'
  <2>1. Kept' = Kept /\ Kept \subseteq Nat
    BY <1>1, WindowUnchanged, TypeFacts DEF WindowInv, Kept
  <2>2. ASSUME NEW t \in Kept
        PROVE  /\ t <= clock + 1
               /\ clock + 1 < t + Window => t \in zset /\ t + Window <= expires
    <3>1. t \in Nat /\ t <= clock /\ (clock < t + Window => t \in zset /\ t + Window <= expires)
      BY <2>1, <2>2 DEF WindowInv, Entries
    <3> QED BY <1>2, <3>1, WindowAssumption
  <2> QED BY <1>1, <2>1, <2>2 DEF WindowInv, Entries
<1> QED BY <1>1, <1>3, <1>4, <1>5, WindowUnchanged DEF WindowInv

LEMMA WindowInitInv == WindowInit => WindowInv
<1> SUFFICES ASSUME WindowInit PROVE WindowInv
  OBVIOUS
<1>1. WindowTypeOK
  BY WindowAssumption DEF WindowInit, WindowTypeOK, Times
<1>2. Stamped /\ Entries /\ RefusalIsJustified
  BY DEF WindowInit, Stamped, Entries, Kept, RefusalIsJustified
<1>3. LimitHolds
  <2> SUFFICES ASSUME NEW from \in Times
               PROVE  Cardinality({t \in passed : from <= t /\ t < from + Window - Delay}) <= Limit
    BY DEF LimitHolds
  <2>1. {t \in passed : from <= t /\ t < from + Window - Delay} = {}
    BY DEF WindowInit
  <2> QED BY <2>1, FS_EmptySet, WindowAssumption
<1> QED BY <1>1, <1>2, <1>3 DEF WindowInit, WindowInv

LEMMA WindowNextInv == WindowInv /\ [WindowNext]_windowVars => WindowInv'
<1> SUFFICES ASSUME WindowInv, [WindowNext]_windowVars PROVE WindowInv'
  OBVIOUS
<1>1. ASSUME NEW p \in Procs, ReadClock(p) \/ FailOpen(p) PROVE WindowInv'
  <2>1. /\ UNCHANGED <<kind, clock, zset, expires, passed, refused, seen>>
        /\ stamp' = [stamp EXCEPT ![p] = clock] \/ stamp' = [stamp EXCEPT ![p] = None]
    BY <1>1 DEF ReadClock, FailOpen
  <2>2. clock \in Times /\ clock \in Nat
    BY TypeFacts DEF WindowInv
  <2>3. WindowTypeOK'
    BY <2>1, <2>2 DEF WindowInv, WindowTypeOK
  <2>4. Stamped'
    <3> SUFFICES ASSUME NEW q \in Procs, stamp'[q] # None
                 PROVE  stamp'[q] <= clock /\ clock <= stamp'[q] + Delay
      BY <2>1 DEF Stamped
    <3>1. stamp'[q] = clock \/ stamp'[q] = stamp[q]
      BY <2>1 DEF WindowInv, WindowTypeOK
    <3> QED BY <2>2, <3>1, WindowAssumption DEF WindowInv, Stamped
  <2>5. Entries'
    BY <2>1, WindowUnchanged DEF WindowInv, Entries
  <2> QED BY <2>1, <2>3, <2>4, <2>5, WindowUnchanged DEF WindowInv
<1>2. CASE UNCHANGED windowVars
  BY <1>2, WindowUnchanged
     DEF windowVars, WindowInv, WindowTypeOK, Stamped, Entries
<1> QED BY <1>1, <1>2, GatewayInv, FraudInv, TickWindowInv DEF WindowNext

LEMMA WindowInvariance == WindowSpec => []WindowInv
BY WindowInitInv, WindowNextInv, PTL DEF WindowSpec

-----------------------------------------------------------------------------

(* The shape of the state: in particular a key's expiry never runs ahead of *)
(* the two windows of the velocity check.                                   *)
THEOREM WindowTypeCorrect == WindowSpec => []WindowTypeOK
<1>1. WindowInv => WindowTypeOK
  BY DEF WindowInv
<1> QED BY <1>1, WindowInvariance, PTL

(* Neither the gateway (middleware.go:15-32) nor the velocity check         *)
(* (service.go:24-63) lets more than the limit through in any window, but   *)
(* for what a call may be late, for any number of callers in any order.     *)
THEOREM LimitEnforced == WindowSpec => []LimitHolds
<1>1. WindowInv => LimitHolds
  BY DEF WindowInv
<1> QED BY <1>1, WindowInvariance, PTL

(* A call is refused only when the limit has been used up around it, by     *)
(* calls that were let through (gateway) or made (velocity check).          *)
THEOREM RefusalsCaused == WindowSpec => []RefusalIsJustified
<1>1. WindowInv => RefusalIsJustified
  BY DEF WindowInv
<1> QED BY <1>1, WindowInvariance, PTL
=============================================================================
