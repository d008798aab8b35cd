---------------------------- MODULE MCOutboxRelay ----------------------------
(* Small instances of OutboxRelay for TLC.                                  *)
EXTENDS OutboxRelay, TLC

(* The oldest event's partition is unreachable; two events of one account.  *)
StuckThenTwo == 1 :> "z" @@ 2 :> "a" @@ 3 :> "a"
TwoOfOne     == 1 :> "a" @@ 2 :> "a"
=============================================================================
