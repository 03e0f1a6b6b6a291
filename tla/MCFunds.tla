------------------------------ MODULE MCFunds ------------------------------
(***************************************************************************)
(* Funds for TLC: gen mines and pays bob 4 of its coins with t1; bob tries *)
(* to spend 3 of them twice, with t2 and t3.                               *)
(***************************************************************************)
EXTENDS Funds

CONSTANTS zero, gen, bob, mixed, t1, t2, t3

MCAddr == {zero, gen, bob, mixed}
MCSender == [x \in Tx |-> IF x = t1 THEN gen ELSE bob]
MCReceiver == [x \in Tx |-> IF x = t1 THEN bob ELSE gen]
MCAmount == [x \in Tx |-> IF x = t1 THEN 4 ELSE 3]
=============================================================================
