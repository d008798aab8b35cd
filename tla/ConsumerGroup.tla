---------------------------- MODULE ConsumerGroup ----------------------------
(***************************************************************************)
(* pkg/kafka: one partition of a topic and the consumer group that reads   *)
(* it.  The wrapper's loop takes the next message, calls the service's     *)
(* handler, logs its error and reads on; kafka-go commits the offsets of   *)
(* the messages it has returned in the background, every second, at a      *)
(* rebalance and when the reader is closed.                                *)
(*                                                                         *)
(* The handler belongs to the service: a module that instantiates this one *)
(* joins Read and Return with what the handler does in between.            *)
(***************************************************************************)
EXTENDS Integers, Sequences

CONSTANTS
  Consumers,   \* replicas of the service
  NoConsumer,
  Messages

VARIABLES
  log,         \* the messages of the partition
  group        \* the consumer group

groupVars == <<log, group>>

(* owner     consumer the partition is assigned to                          *)
(* position  offsets its reader has returned                                *)
(* committed what the group had committed when it was last looked at: at    *)
(*           an assignment, or at the end of a consumer                     *)
(* hand      per consumer: offset of the message in its handler, 0 if none  *)
(* done      offsets whose handler has returned without an error            *)
(* failed    offsets whose handler has returned an error, or was cut off    *)
(*           after the offset had been committed                            *)
(* moves     how often the partition was taken from a consumer that lived   *)
Group == [owner : Consumers \cup {NoConsumer}, position : Nat, committed : Nat,
          hand : [Consumers -> Nat], done : SUBSET Nat, failed : SUBSET Nat,
          moves : Nat]

NewGroup == [owner |-> NoConsumer, position |-> 0, committed |-> 0,
             hand |-> [c \in Consumers |-> 0], done |-> {}, failed |-> {},
             moves |-> 0]

Busy(c)    == group.hand[c] # 0
Message(c) == log[group.hand[c]]

-----------------------------------------------------------------------------

(* Producer.Publish appends a message to the partition of its key.          *)
Publish(m) == log' = Append(log, m)

(* Flushed: what the group may have committed by now.                       *)
Flushed == group.committed..group.position

(* Mutant: reading resumes one message after the committed offset.          *)
AssignNext(c) ==
  /\ group.owner # c
  /\ \E offset \in Flushed :
       group' = [group EXCEPT
         !.owner = c, !.committed = offset,
         !.position = IF offset < Len(log) THEN offset + 1 ELSE offset,
         !.moves = IF group.owner = NoConsumer THEN @ ELSE @ + 1]

(* The partition is assigned to a consumer, which reads from the committed  *)
(* offset.  The one that loses it finishes the message it has.              *)
Assign(c) ==
  /\ group.owner # c
  /\ \E offset \in Flushed :
       group' = [group EXCEPT
         !.owner = c, !.position = offset, !.committed = offset,
         !.moves = IF group.owner = NoConsumer THEN @ ELSE @ + 1]

Read(c) ==
  /\ group.owner = c
  /\ ~Busy(c)
  /\ group.position < Len(log)
  /\ group' = [group EXCEPT !.position = @ + 1, !.hand[c] = group.position + 1]

(* The handler returns; the loop only logs its error.                       *)
Return(c, ok) ==
  /\ Busy(c)
  /\ group' = [group EXCEPT
       !.hand[c] = 0,
       !.done = IF ok THEN @ \cup {group.hand[c]} ELSE @,
       !.failed = IF ok THEN @ ELSE @ \cup {group.hand[c]}]

(* A consumer is gone, with the message in its handler; the group has       *)
(* committed this offset by then.  Another process takes its place.  If it  *)
(* was the owner, the next one reads from there.                            *)
Stop(c, offset) ==
  group' = [group EXCEPT
    !.owner = IF @ = c THEN NoConsumer ELSE @,
    !.position = IF group.owner = c THEN offset ELSE @,
    !.committed = offset,
    !.hand[c] = 0,
    !.failed = IF Busy(c) /\ group.hand[c] <= offset
               THEN @ \cup {group.hand[c]} ELSE @]

Crash(c) == \E offset \in Flushed : Stop(c, offset)

(* SIGTERM cancels the handler's context, so that its calls fail, and main  *)
(* closes the reader, which commits what it has returned.                   *)
ShutDown(c) == group.owner = c /\ Stop(c, group.position)

-----------------------------------------------------------------------------

Step ==
  \E c \in Consumers : \/ Assign(c) \/ Read(c) \/ Crash(c) \/ ShutDown(c)
                         \/ \E ok \in BOOLEAN : Return(c, ok)

Init == log = <<>> /\ group = NewGroup

(* A step of the group, of a producer, or, when a handler publishes to the  *)
(* topic it reads, of both.                                                 *)
Next ==
  /\ Step \/ UNCHANGED group
  /\ UNCHANGED log \/ \E m \in Messages : Publish(m)

Spec == Init /\ [][Next]_groupVars

-----------------------------------------------------------------------------
(* Properties *)

(* The shape of the group; offsets are ordered.                             *)
GroupOK ==
  /\ log \in Seq(Messages)
  /\ group \in Group
  /\ group.committed <= group.position
  /\ group.position <= Len(log)
  /\ \A c \in Consumers : group.hand[c] <= Len(log)

Seen(i) ==
  i \in group.done \cup group.failed \/ \E c \in Consumers : group.hand[c] = i

(* A committed message, which nobody will read again, has been handled, has *)
(* failed, or is being handled: no rebalance, crash or shutdown skips one.  *)
NothingSkipped ==
  \A i \in 1..(IF group.owner = NoConsumer THEN group.committed ELSE group.position) :
    Seen(i)
=============================================================================
