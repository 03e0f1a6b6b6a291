------------------------------- MODULE Funds -------------------------------
(***************************************************************************)
(* Can an address spend more than it has?  Module Node with two history    *)
(* variables that record the two known reasons: verify_transaction looks   *)
(* at recorded transfers only, so two transfers of one sender can be       *)
(* accepted against the same balance; and the row of a coinbase, which an  *)
(* address may already have spent, is replaced by the next coinbase.       *)
(***************************************************************************)
EXTENDS Node

VARIABLES
  rivals,  \* transfers accepted while another of their sender was under way
  lost     \* addresses that were paid by a coinbase row since replaced

fundsVars == <<vars, rivals, lost>>

\* What an address has, without the wrap of a uint64_t.
Balance(a) ==
  LET effect(s) == IF txcache[s].from = a THEN -txcache[s].amount
                   ELSE IF txcache[s].to = a THEN txcache[s].amount ELSE 0
  IN  MapThenSumSet(effect, DOMAIN txcache)

\* Accepted, and not yet counted by get_balance_for_address.
UnderWay == (Range(pool) \cup Held \cup Mined) \ DOMAIN txcache

Accepted == IF pc["rpc"] = "balance" /\ pc'["rpc"] = "offer" THEN req ELSE {}

Replaced ==
  IF CoinbaseSig \in DOMAIN txcache /\ txcache'[CoinbaseSig] # txcache[CoinbaseSig]
  THEN {txcache[CoinbaseSig].to} ELSE {}

Record ==
  /\ rivals' = rivals \cup {x \in Accepted : \E y \in UnderWay : Sender[y] = Sender[x]}
  /\ lost' = lost \cup Replaced

FundsInit == Init /\ rivals = {} /\ lost = {}
FundsNext == Next /\ Record
FundsSpec == FundsInit /\ [][FundsNext]_fundsVars
-----------------------------------------------------------------------------
\* tx.c:8-14 keeps an address from spending more than it has, with two
\* exceptions: a transfer of it was accepted while another one of it was
\* between the check and the table, or a coinbase it lived on was replaced.
NoOverdraft ==
  \A a \in Addr \ {ZeroAddr} :
    Balance(a) < 0 => a \in lost \/ \E x \in rivals \cap DOMAIN txcache : Sender[x] = a
=============================================================================
