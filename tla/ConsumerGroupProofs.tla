------------------------- MODULE ConsumerGroupProofs -------------------------
(***************************************************************************)
(* Theorems about ConsumerGroup, for any number of consumers and messages. *)
(***************************************************************************)
EXTENDS ConsumerGroup, TLAPS

Handled == group.done \cup group.failed

(* Nobody reads again what is committed.  What the owner has read since is  *)
(* either handled or in its own handler: it is not enough that some former  *)
(* owner holds it, whose end would drop it.  Without an owner nothing has   *)
(* been read that is not committed.                                         *)
CommittedSeen == \A i \in 1..group.committed : Seen(i)

ReadSeen ==
  /\ group.owner = NoConsumer => group.position = group.committed
  /\ group.owner # NoConsumer =>
       \A i \in (group.committed + 1)..group.position :
         i \in Handled \/ group.hand[group.owner] = i

Inv == GroupOK /\ CommittedSeen /\ ReadSeen

-----------------------------------------------------------------------------

LEMMA GroupFields ==
  ASSUME GroupOK
  PROVE  /\ group.owner \in Consumers \cup {NoConsumer}
         /\ group.position \in Nat /\ group.committed \in Nat
         /\ group.hand \in [Consumers -> Nat]
         /\ group.done \in SUBSET Nat /\ group.failed \in SUBSET Nat
         /\ group.moves \in Nat
         /\ group = [owner |-> group.owner, position |-> group.position,
                     committed |-> group.committed, hand |-> group.hand,
                     done |-> group.done, failed |-> group.failed,
                     moves |-> group.moves]
BY DEF GroupOK, Group

LEMMA InitInv == Init => Inv
<1> SUFFICES ASSUME Init PROVE Inv
  OBVIOUS
<1>1. GroupOK
  BY DEF Init, GroupOK, Group, NewGroup
<1>2. CommittedSeen /\ ReadSeen
  BY DEF Init, NewGroup, CommittedSeen, ReadSeen
<1> QED BY <1>1, <1>2 DEF Inv

(* The log only grows.                                                      *)
LEMMA LogGrows ==
  ASSUME GroupOK, UNCHANGED log \/ \E m \in Messages : Publish(m)
  PROVE  /\ log' \in Seq(Messages)
         /\ Len(log) \in Nat /\ Len(log') \in Nat /\ Len(log) <= Len(log')
BY DEF GroupOK, Publish

(* Whatever is at or below an offset that may be committed has been seen.   *)
LEMMA FlushedSeen ==
  ASSUME Inv, NEW offset \in Flushed
  PROVE  /\ offset \in Nat /\ group.committed <= offset /\ offset <= group.position
         /\ \A i \in 1..offset :
              Seen(i) /\ (group.owner # NoConsumer /\ i > group.committed =>
                            i \in Handled \/ group.hand[group.owner] = i)
<1>1. GroupOK /\ CommittedSeen /\ ReadSeen
  BY DEF Inv
<1>2. /\ group.position \in Nat /\ group.committed \in Nat
      /\ group.owner \in Consumers \cup {NoConsumer}
  BY <1>1, GroupFields
<1>3. offset \in Nat /\ group.committed <= offset /\ offset <= group.position
  BY <1>2 DEF Flushed
<1>4. ASSUME NEW i \in 1..offset
      PROVE  Seen(i) /\ (group.owner # NoConsumer /\ i > group.committed =>
                            i \in Handled \/ group.hand[group.owner] = i)
  <2>1. CASE i <= group.committed
    <3>1. i \in 1..group.committed
      BY <1>2, <1>3, <2>1
    <3> QED BY <1>1, <1>2, <1>3, <2>1, <3>1 DEF CommittedSeen
  <2>2. CASE i > group.committed
    <3>1. group.owner # NoConsumer /\ i \in (group.committed + 1)..group.position
      BY <1>1, <1>2, <1>3, <2>2 DEF ReadSeen
    <3>2. i \in Handled \/ group.hand[group.owner] = i
      BY <1>1, <3>1 DEF ReadSeen
    <3> QED BY <1>2, <3>1, <3>2 DEF Seen, Handled
  <2> QED BY <1>2, <1>3, <2>1, <2>2
<1> QED BY <1>3, <1>4

(* What a step does to the owner, the position and the messages in hand.    *)
LEMMA Effects ==
  ASSUME GroupOK, NEW c \in Consumers
  PROVE  /\ Assign(c) =>
              /\ group'.owner = c /\ group'.position \in Flushed
              /\ group'.hand = group.hand
              /\ group'.moves = IF group.owner = NoConsumer THEN group.moves ELSE group.moves + 1
         /\ Read(c) =>
              /\ group.owner = c /\ group'.owner = c
              /\ group.position < Len(log) /\ group'.position = group.position + 1
              /\ group.hand[c] = 0
              /\ group'.hand = [group.hand EXCEPT ![c] = group.position + 1]
              /\ group'.moves = group.moves
         /\ \A ok : Return(c, ok) =>
              /\ group'.owner = group.owner /\ group'.position = group.position
              /\ group.hand[c] # 0
              /\ group'.hand = [group.hand EXCEPT ![c] = 0]
              /\ group'.moves = group.moves
         /\ \A offset : Stop(c, offset) =>
              /\ group'.owner = IF group.owner = c THEN NoConsumer ELSE group.owner
              /\ group'.position = IF group.owner = c THEN offset ELSE group.position
              /\ group'.hand = [group.hand EXCEPT ![c] = 0]
              /\ group'.moves = group.moves
<1> USE GroupFields
<1>1. Assign(c) =>
        /\ group'.owner = c /\ group'.position \in Flushed
        /\ group'.hand = group.hand
        /\ group'.moves = IF group.owner = NoConsumer THEN group.moves ELSE group.moves + 1
  BY DEF Assign
<1>2. Read(c) =>
        /\ group.owner = c /\ group'.owner = c
        /\ group.position < Len(log) /\ group'.position = group.position + 1
        /\ group.hand[c] = 0
        /\ group'.hand = [group.hand EXCEPT ![c] = group.position + 1]
        /\ group'.moves = group.moves
  BY DEF Read, Busy
<1>3. ASSUME NEW ok, Return(c, ok)
      PROVE  /\ group'.owner = group.owner /\ group'.position = group.position
             /\ group.hand[c] # 0
             /\ group'.hand = [group.hand EXCEPT ![c] = 0]
             /\ group'.moves = group.moves
  BY <1>3 DEF Return, Busy
<1>4. ASSUME NEW offset, Stop(c, offset)
      PROVE  /\ group'.owner = IF group.owner = c THEN NoConsumer ELSE group.owner
             /\ group'.position = IF group.owner = c THEN offset ELSE group.position
             /\ group'.hand = [group.hand EXCEPT ![c] = 0]
             /\ group'.moves = group.moves
  BY <1>4 DEF Stop
<1> QED BY <1>1, <1>2, <1>3, <1>4

(* A message is done when its handler returns without an error.             *)
LEMMA DoneStep ==
  ASSUME GroupOK, NEW c \in Consumers
  PROVE  /\ Assign(c) => group'.done = group.done
         /\ Read(c) => group'.done = group.done
         /\ Return(c, FALSE) => group'.done = group.done
         /\ Return(c, TRUE) => group'.done = group.done \cup {group.hand[c]}
         /\ Crash(c) \/ ShutDown(c) => group'.done = group.done
<1> USE GroupFields
<1>1. (Assign(c) => group'.done = group.done) /\ (Read(c) => group'.done = group.done)
  BY DEF Assign, Read
<1>2. /\ Return(c, FALSE) => group'.done = group.done
      /\ Return(c, TRUE) => group'.done = group.done \cup {group.hand[c]}
  BY DEF Return
<1>3. ASSUME NEW offset, Stop(c, offset)
      PROVE  group'.done = group.done
  BY <1>3 DEF Stop
<1> QED BY <1>1, <1>2, <1>3 DEF Crash, ShutDown

-----------------------------------------------------------------------------
(* One lemma per step of the group *)

LEMMA AssignInv ==
  ASSUME Inv, NoConsumer \notin Consumers, NEW c \in Consumers, Assign(c),
         UNCHANGED log \/ \E m \in Messages : Publish(m)
  PROVE  Inv'
<1>1. PICK offset \in Flushed :
        group' = [group EXCEPT
          !.owner = c, !.position = offset, !.committed = offset,
          !.moves = IF group.owner = NoConsumer THEN @ ELSE @ + 1]
  BY DEF Assign
<1>2. GroupOK
  BY DEF Inv
<1>3. /\ offset \in Nat /\ offset <= group.position
      /\ \A i \in 1..offset : Seen(i)
  BY FlushedSeen
<1>4. /\ group'.owner = c /\ group'.position = offset /\ group'.committed = offset
      /\ group'.hand = group.hand /\ group'.done = group.done
      /\ group'.failed = group.failed
      /\ group'.moves = IF group.owner = NoConsumer THEN group.moves ELSE group.moves + 1
  BY <1>1, <1>2, GroupFields
<1>8. group' \in Group
  <2>1. group' = [owner |-> c, position |-> offset, committed |-> offset,
                  hand |-> group.hand, done |-> group.done, failed |-> group.failed,
                  moves |-> IF group.owner = NoConsumer THEN group.moves
                                                        ELSE group.moves + 1]
    BY <1>1, <1>2, GroupFields
  <2>2. (IF group.owner = NoConsumer THEN group.moves ELSE group.moves + 1) \in Nat
    BY <1>2, GroupFields
  <2> QED BY <1>2, <1>3, <2>1, <2>2, GroupFields DEF Group
<1>5. GroupOK'
  BY <1>2, <1>3, <1>4, <1>8, GroupFields, LogGrows DEF GroupOK
<1>6. CommittedSeen'
  BY <1>3, <1>4 DEF CommittedSeen, Seen
<1>7. ReadSeen'
  BY <1>3, <1>4 DEF ReadSeen
<1> QED BY <1>5, <1>6, <1>7 DEF Inv

LEMMA ReadInv ==
  ASSUME Inv, NoConsumer \notin Consumers, NEW c \in Consumers, Read(c),
         UNCHANGED log \/ \E m \in Messages : Publish(m)
  PROVE  Inv'
<1>1. GroupOK /\ CommittedSeen /\ ReadSeen
  BY DEF Inv
<1>2. /\ group.owner = c /\ group.hand[c] = 0 /\ group.position < Len(log)
      /\ group' = [group EXCEPT !.position = @ + 1, !.hand[c] = group.position + 1]
  BY DEF Read, Busy
<1>3. /\ group'.owner = c /\ group'.position = group.position + 1
      /\ group'.committed = group.committed
      /\ group'.hand = [group.hand EXCEPT ![c] = group.position + 1]
      /\ group'.done = group.done /\ group'.failed = group.failed
      /\ group'.moves = group.moves
  BY <1>1, <1>2, GroupFields
<1>8. group' \in Group
  <2>1. group' = [owner |-> group.owner, position |-> group.position + 1,
                  committed |-> group.committed,
                  hand |-> [group.hand EXCEPT ![c] = group.position + 1],
                  done |-> group.done, failed |-> group.failed, moves |-> group.moves]
    BY <1>1, <1>2, GroupFields
  <2>2. [group.hand EXCEPT ![c] = group.position + 1] \in [Consumers -> Nat]
    BY <1>1, GroupFields
  <2> QED BY <1>1, <2>1, <2>2, GroupFields DEF Group
<1>4. GroupOK'
  BY <1>1, <1>2, <1>3, <1>8, GroupFields, LogGrows DEF GroupOK
<1>5. CommittedSeen'
  <2> SUFFICES ASSUME NEW i \in 1..group.committed PROVE Seen(i)'
    BY <1>3 DEF CommittedSeen
  <2>1. Seen(i) /\ i # 0
    BY <1>1, GroupFields DEF CommittedSeen
  <2> QED BY <1>1, <1>2, <1>3, <2>1, GroupFields DEF Seen
<1>6. ReadSeen'
  <2> SUFFICES ASSUME NEW i \in (group.committed + 1)..(group.position + 1)
               PROVE  i \in Handled \/ group'.hand[c] = i
    BY <1>2, <1>3 DEF ReadSeen, Handled
  <2>1. CASE i = group.position + 1
    BY <1>1, <1>3, <2>1, GroupFields
  <2>2. CASE i # group.position + 1
    <3>1. i \in (group.committed + 1)..group.position
      BY <1>1, <2>2, GroupFields
    <3>2. i \in Handled \/ group.hand[c] = i
      BY <1>1, <1>2, <3>1 DEF ReadSeen
    <3> QED BY <1>1, <1>2, <3>1, <3>2, GroupFields
  <2> QED BY <2>1, <2>2
<1> QED BY <1>4, <1>5, <1>6 DEF Inv

LEMMA ReturnInv ==
  ASSUME Inv, NEW c \in Consumers, NEW ok \in BOOLEAN, Return(c, ok),
         UNCHANGED log \/ \E m \in Messages : Publish(m)
  PROVE  Inv'
<1>1. GroupOK /\ CommittedSeen /\ ReadSeen
  BY DEF Inv
<1>2. /\ group.hand[c] # 0
      /\ group' = [group EXCEPT
           !.hand[c] = 0,
           !.done = IF ok THEN @ \cup {group.hand[c]} ELSE @,
           !.failed = IF ok THEN @ ELSE @ \cup {group.hand[c]}]
  BY DEF Return, Busy
<1> DEFINE done == IF ok THEN group.done \cup {group.hand[c]} ELSE group.done
           failed == IF ok THEN group.failed ELSE group.failed \cup {group.hand[c]}
           hand == [group.hand EXCEPT ![c] = 0]
<1>3. group' = [owner |-> group.owner, position |-> group.position,
                committed |-> group.committed, hand |-> hand,
                done |-> done, failed |-> failed, moves |-> group.moves]
  BY <1>1, <1>2, GroupFields
<1>4. /\ hand \in [Consumers -> Nat] /\ hand[c] = 0
      /\ \A d \in Consumers : d # c => hand[d] = group.hand[d]
  BY <1>1, GroupFields
<1>5. /\ done \in SUBSET Nat /\ failed \in SUBSET Nat
      /\ done \cup failed = Handled \cup {group.hand[c]}
  BY <1>1, GroupFields DEF Handled
<1> HIDE DEF done, failed, hand
<1>6. GroupOK'
  <2>1. group' \in Group
    BY <1>1, <1>3, <1>4, <1>5, GroupFields DEF Group
  <2>2. group'.committed <= group'.position /\ group'.position <= Len(log')
    BY <1>1, <1>3, GroupFields, LogGrows DEF GroupOK
  <2>3. \A d \in Consumers : group'.hand[d] <= Len(log')
    BY <1>1, <1>3, <1>4, GroupFields, LogGrows DEF GroupOK
  <2> QED BY <1>1, <2>1, <2>2, <2>3, LogGrows DEF GroupOK
<1>7. CommittedSeen'
  <2> SUFFICES ASSUME NEW i \in 1..group.committed PROVE Seen(i)'
    BY <1>3 DEF CommittedSeen
  <2>1. i \in Handled \/ \E d \in Consumers : group.hand[d] = i
    BY <1>1 DEF CommittedSeen, Seen, Handled
  <2> QED BY <1>3, <1>4, <1>5, <2>1 DEF Seen
<1>8. ReadSeen'
  <2>1. Handled' = Handled \cup {group.hand[c]}
    BY <1>3, <1>5 DEF Handled
  <2>2. group.owner # NoConsumer => group.owner \in Consumers
    BY <1>1, GroupFields
  <2> QED BY <1>1, <1>3, <1>4, <2>1, <2>2 DEF ReadSeen
<1> QED BY <1>6, <1>7, <1>8 DEF Inv

LEMMA StopInv ==
  ASSUME Inv, NoConsumer \notin Consumers, NEW c \in Consumers,
         NEW offset \in Flushed, Stop(c, offset),
         UNCHANGED log \/ \E m \in Messages : Publish(m)
  PROVE  Inv'
<1>1. GroupOK /\ CommittedSeen /\ ReadSeen
  BY DEF Inv
<1>2. /\ offset \in Nat /\ group.committed <= offset /\ offset <= group.position
      /\ \A i \in 1..offset : Seen(i)
  BY FlushedSeen
<1> DEFINE owner == IF group.owner = c THEN NoConsumer ELSE group.owner
           position == IF group.owner = c THEN offset ELSE group.position
           hand == [group.hand EXCEPT ![c] = 0]
           failed == IF Busy(c) /\ group.hand[c] <= offset
                     THEN group.failed \cup {group.hand[c]} ELSE group.failed
<1>3. group' = [owner |-> owner, position |-> position, committed |-> offset,
                hand |-> hand, done |-> group.done, failed |-> failed,
                moves |-> group.moves]
  BY <1>1, GroupFields DEF Stop
<1>4. /\ hand \in [Consumers -> Nat] /\ hand[c] = 0
      /\ \A d \in Consumers : d # c => hand[d] = group.hand[d]
  BY <1>1, GroupFields
<1>5. /\ failed \in SUBSET Nat /\ group.failed \subseteq failed
      /\ group.hand[c] \in 1..offset => group.hand[c] \in failed
  BY <1>1, <1>2, GroupFields DEF Busy
<1>6. /\ owner \in Consumers \cup {NoConsumer} /\ position \in Nat
      /\ offset <= position /\ position <= group.position
  BY <1>1, <1>2, GroupFields
<1>7. GroupOK'
  <2>1. group' \in Group
    BY <1>1, <1>2, <1>3, <1>4, <1>5, <1>6, GroupFields DEF Group
  <2>2. group'.committed <= group'.position /\ group'.position <= Len(log')
    BY <1>1, <1>2, <1>3, <1>6, GroupFields, LogGrows DEF GroupOK
  <2>3. \A d \in Consumers : group'.hand[d] <= Len(log')
    BY <1>1, <1>3, <1>4, GroupFields, LogGrows DEF GroupOK
  <2> QED BY <1>1, <2>1, <2>2, <2>3, LogGrows DEF GroupOK
<1>8. CommittedSeen'
  <2> HIDE DEF hand, failed, owner, position
  <2> SUFFICES ASSUME NEW i \in 1..offset PROVE Seen(i)'
    BY <1>3 DEF CommittedSeen
  <2>1. i \in group.done \cup group.failed \/ \E d \in Consumers : group.hand[d] = i
    BY <1>2 DEF Seen
  <2> QED BY <1>3, <1>4, <1>5, <2>1 DEF Seen
<1>9. ReadSeen'
  <2>1. CASE group.owner = c
    BY <1>1, <1>3, <2>1 DEF ReadSeen
  <2>2. CASE group.owner # c
    <3>1. owner = group.owner /\ position = group.position
      BY <2>2
    <3>2. group.owner # NoConsumer => group.owner \in Consumers
      BY <1>1, GroupFields
    <3>3. group.done \cup group.failed \subseteq Handled'
      BY <1>3, <1>5 DEF Handled
    <3>4. CASE group.owner = NoConsumer
      BY <1>1, <1>2, <1>3, <3>1, <3>4, GroupFields DEF ReadSeen
    <3>5. CASE group.owner # NoConsumer
      <4> HIDE DEF hand, failed, owner, position
      <4> SUFFICES ASSUME NEW i \in (offset + 1)..group.position
                   PROVE  i \in Handled' \/ hand[group.owner] = i
        BY <1>3, <3>1, <3>5 DEF ReadSeen
      <4>1. i \in (group.committed + 1)..group.position
        BY <1>1, <1>2, GroupFields
      <4>2. i \in Handled \/ group.hand[group.owner] = i
        BY <1>1, <3>5, <4>1 DEF ReadSeen
      <4> QED BY <1>4, <2>2, <3>2, <3>3, <3>5, <4>2 DEF Handled
    <3> QED BY <3>4, <3>5
  <2> QED BY <2>1, <2>2
<1> QED BY <1>7, <1>8, <1>9 DEF Inv

(* A producer's step, which leaves the group alone.                         *)
LEMMA PublishInv ==
  ASSUME Inv, UNCHANGED group, UNCHANGED log \/ \E m \in Messages : Publish(m)
  PROVE  Inv'
<1>1. GroupOK /\ CommittedSeen /\ ReadSeen
  BY DEF Inv
<1>2. GroupOK'
  BY <1>1, GroupFields, LogGrows DEF GroupOK
<1>3. CommittedSeen' /\ ReadSeen'
  BY <1>1 DEF CommittedSeen, ReadSeen, Seen, Handled
<1> QED BY <1>2, <1>3 DEF Inv

LEMMA NextInv ==
  ASSUME Inv, NoConsumer \notin Consumers, [Next]_groupVars
  PROVE  Inv'
<1> DEFINE Produces == UNCHANGED log \/ \E m \in Messages : Publish(m)
<1>1. Produces /\ (Step \/ UNCHANGED group)
  BY DEF Next, groupVars
<1>2. CASE UNCHANGED group
  BY <1>1, <1>2, PublishInv
<1>3. CASE Step
  <2>1. PICK c \in Consumers :
          Assign(c) \/ Read(c) \/ Crash(c) \/ ShutDown(c)
            \/ \E ok \in BOOLEAN : Return(c, ok)
    BY <1>3 DEF Step
  <2>2. CASE Assign(c)
    BY <1>1, <2>2, AssignInv
  <2>3. CASE Read(c)
    BY <1>1, <2>3, ReadInv
  <2>4. CASE Crash(c)
    BY <1>1, <2>4, StopInv DEF Crash
  <2>5. CASE ShutDown(c)
    <3>1. group.position \in Flushed
      BY GroupFields DEF Inv, GroupOK, Flushed
    <3> QED BY <1>1, <2>5, <3>1, StopInv DEF ShutDown
  <2>6. CASE \E ok \in BOOLEAN : Return(c, ok)
    BY <1>1, <2>6, ReturnInv
  <2> QED BY <2>1, <2>2, <2>3, <2>4, <2>5, <2>6
<1> QED BY <1>1, <1>2, <1>3

-----------------------------------------------------------------------------

LEMMA SkipsNothing == Inv => NothingSkipped
<1> SUFFICES ASSUME Inv PROVE NothingSkipped
  OBVIOUS
<1>1. group.position \in Flushed /\ group.committed \in Flushed
  BY GroupFields DEF Inv, GroupOK, Flushed
<1> QED BY <1>1, FlushedSeen DEF NothingSkipped

(* pkg/kafka commits the offset of a message it has only returned, not yet  *)
(* handled; still, for any number of replicas and messages, and whatever    *)
(* rebalances, crashes and shutdowns come in between, a committed message   *)
(* has been handled, has failed, or is in some replica's handler.           *)
THEOREM GroupSkipsNothing ==
  ASSUME NoConsumer \notin Consumers
  PROVE  Spec => []NothingSkipped
<1>1. Init => Inv
  BY InitInv
<1>2. Inv /\ [Next]_groupVars => Inv'
  BY NextInv
<1> QED BY <1>1, <1>2, SkipsNothing, PTL DEF Spec
=============================================================================
