------------------------------ MODULE KeyValue ------------------------------
(***************************************************************************)
(* What map.h promises: entries are set, replaced and removed by key, a    *)
(* lookup returns the value last set, or NULL, and map_size is the number  *)
(* of keys.                                                                *)
(***************************************************************************)
EXTENDS Integers, FiniteSets, Functions

CONSTANTS Key, Value, NULL

VARIABLES map, size, answer

Become(m) == map' = m /\ size' = Cardinality(DOMAIN m)

Lookup(k) ==
  /\ answer' = IF k \in DOMAIN map THEN map[k] ELSE NULL
  /\ UNCHANGED <<map, size>>

Set(k, v) ==
  /\ Become([x \in DOMAIN map \cup {k} |-> IF x = k THEN v ELSE map[x]])
  /\ answer' = 0

\* Out of memory.
Refuse(k) == k \notin DOMAIN map /\ answer' = -1 /\ UNCHANGED <<map, size>>

Remove(k) == Become(Restrict(map, DOMAIN map \ {k})) /\ UNCHANGED answer

Init == map = <<>> /\ size = 0 /\ answer = NULL

Next == \E k \in Key : Lookup(k) \/ Refuse(k) \/ Remove(k) \/ \E v \in Value : Set(k, v)

Spec == Init /\ [][Next]_<<map, size, answer>>
=============================================================================
