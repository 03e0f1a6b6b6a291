------------------------------ MODULE Emission ------------------------------
(***************************************************************************)
(* The rewards of a growing chain: calc_reward of block.h for one height   *)
(* after the other.  The loop compares the reward with the floor before it *)
(* halves it, so that one era pays less than the floor of all later ones.  *)
(***************************************************************************)
EXTENDS Rules

CONSTANT LastHeight   \* bound: the chain grows up to this height

VARIABLE height, reward

\* A height, and what verify_block allows its coinbase.
Init == height = 0 /\ reward = CalcReward(0)

\* The next block.
Grow ==
  /\ height < LastHeight
  /\ height' = height + 1
  /\ reward' = CalcReward(height + 1)

Spec == Init /\ [][Grow]_<<height, reward>>
-----------------------------------------------------------------------------
\* From block to block the reward stays, is halved, or rises; it rises only
\* to the floor, and only from an era that paid between half the floor and
\* the floor.
RisesOnlyToFloor ==
  [][reward' \in {reward, reward \div 2}
       \/ (reward' = FloorReward /\ reward < FloorReward
             /\ reward >= FloorReward \div 2)]_<<height, reward>>
=============================================================================
