-------------------------- MODULE MCAccountLedger --------------------------
(* Small instances of AccountLedger for TLC.                                *)
EXTENDS AccountLedger, TLC

CONSTANTS h1, h2, h3

Pair  == {h1, h2}
Three == {h1, h2, h3}
Symmetric == Permutations(Handlers)

Transfer(ref, from, to, amount, strategy) ==
  [ref |-> ref, from |-> from, to |-> to, amount |-> amount,
   lock_strategy |-> strategy]

(* Two accounts, transfers both ways, one that can overdraw. *)
CrossTransfers ==
  {Transfer("t1", 1, 2, 2, "pessimistic"), Transfer("t2", 2, 1, 4, "pessimistic")}

(* The same with one of them under Redis locks, and a body Transfer refuses *)
(* after TransferWithRedisLock has taken a lock.                            *)
MixedTransfers ==
  CrossTransfers \cup
  {Transfer("t3", 1, 2, 2, "redis"), Transfer("t4", 1, 1, 2, "redis"),
   Transfer("t5", 0, 1, 2, "pessimistic")}

(* A ring of three accounts. *)
RingTransfers ==
  {Transfer("t1", 1, 2, 2, "pessimistic"), Transfer("t2", 2, 3, 2, "pessimistic"),
   Transfer("t3", 3, 1, 2, "pessimistic")}

(* 0.00005: half of the last digit the balance column keeps. *)
SubScaleTransfers == {Transfer("t1", 1, 2, 1, "pessimistic")}

TwoAccounts   == 0..2
ThreeAccounts == 0..3
=============================================================================
