------------------------------- MODULE MCNode -------------------------------
(***************************************************************************)
(* Small instances of Node for TLC.  gen owns the premine; t1 sends 4 of   *)
(* its coins to bob, t2 sends 3 of bob's on to gen: t2 is refused until t1 *)
(* or bob's own coinbase is in the chain.  Any other transfer sends 4 of   *)
(* gen's coins to gen.                                                     *)
(***************************************************************************)
EXTENDS Node

CONSTANTS zero, gen, bob, mixed, t1, t2

MCAddr == {zero, gen, bob, mixed}
MCSender == [x \in Tx |-> IF x = t2 THEN bob ELSE gen]
MCReceiver == [x \in Tx |-> IF x = t1 THEN bob ELSE gen]
MCAmount == [x \in Tx |-> IF x = t2 THEN 3 ELSE 4]
=============================================================================
