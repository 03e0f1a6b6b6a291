----------------------------- MODULE SortedMap -----------------------------
(***************************************************************************)
(* map.c: a map as a linked list sorted by key.  main.c creates one,       *)
(* balance_cache, and no thread uses it yet; the caller is external.  A    *)
(* call is one step, as no two threads share a map; malloc may fail, and   *)
(* may return the address of a node that was freed.                        *)
(***************************************************************************)
EXTENDS Integers, FiniteSetsExt

CONSTANTS
  Key,      \* keys, as numbers: strcmp orders them
  Value,    \* values
  Address,  \* what malloc may return for a node
  NULL

SortedMapAssumption ==
  Key \subseteq Nat /\ NULL \notin Address /\ IsFiniteSet(Address)

VARIABLES
  head, size,       \* of struct map_t
  key, value, next, \* the fields of the node at each address
  live,             \* addresses of nodes that malloc returned and nobody freed
  answer            \* what the last call returned

vars == <<head, size, key, value, next, live, answer>>
nodes == <<head, size, key, value, next, live>>

Sign(x) == IF x < 0 THEN -1 ELSE IF x > 0 THEN 1 ELSE 0

\* (*map->cmp_func)(key, node->key)
cmp(k, n) == Sign(k - key[n])

\* The k-th pointer of the list, counted from head.
Path[i \in 0 .. Cardinality(Address)] ==
  IF i = 0 THEN head
  ELSE IF Path[i - 1] = NULL THEN NULL
  ELSE next[Path[i - 1]]

\* map_find: the first node whose key is not below k, and the node before it.
map_find(k) ==
  LET i == Min({j \in DOMAIN Path : Path[j] = NULL \/ cmp(k, Path[j]) <= 0})
  IN  [prev |-> IF i = 0 THEN NULL ELSE Path[i - 1],
       node |-> Path[i],
       exact |-> Path[i] # NULL /\ cmp(k, Path[i]) = 0]
-----------------------------------------------------------------------------
Get(k) ==
  /\ answer' = IF map_find(k).exact THEN value[map_find(k).node] ELSE NULL
  /\ UNCHANGED nodes

\* map_set of a key that is there.
Replace(k, v) ==
  /\ map_find(k).exact
  /\ value' = [value EXCEPT ![map_find(k).node] = v]
  /\ answer' = 0
  /\ UNCHANGED <<head, size, key, next, live>>

\* Mutant: the new node always becomes the head of the list.
Insert_First(k, v) ==
  /\ ~map_find(k).exact
  /\ \E a \in Address \ live :
       /\ live' = live \cup {a}
       /\ key' = [key EXCEPT ![a] = k]
       /\ value' = [value EXCEPT ![a] = v]
       /\ next' = [next EXCEPT ![a] = head]
       /\ head' = a
  /\ size' = size + 1
  /\ answer' = 0

\* map_set of a new key.
Insert(k, v) ==
  /\ ~map_find(k).exact
  /\ \E a \in Address \ live :
       LET found == map_find(k)
       IN  /\ live' = live \cup {a}
           /\ key' = [key EXCEPT ![a] = k]
           /\ value' = [value EXCEPT ![a] = v]
           /\ next' = IF found.prev = NULL THEN [next EXCEPT ![a] = found.node]
                      ELSE [next EXCEPT ![a] = found.node, ![found.prev] = a]
           /\ head' = IF found.prev = NULL THEN a ELSE head
  /\ size' = IF head = NULL THEN 1 ELSE size + 1
  /\ answer' = 0

\* malloc fails in new_map_node.
InsertFails(k) ==
  /\ ~map_find(k).exact
  /\ answer' = -1
  /\ UNCHANGED nodes

\* map_del; a key that is not there is no error.
Delete(k) ==
  LET found == map_find(k)
  IN  /\ found.exact
      /\ IF found.node = head
         THEN head' = next[head] /\ UNCHANGED next
         ELSE head' = head /\ next' = [next EXCEPT ![found.prev] = next[found.node]]
      /\ live' = live \ {found.node}
      /\ size' = size - 1
      /\ UNCHANGED <<key, value, answer>>

\* new_map
Init ==
  /\ head = NULL /\ size = 0 /\ live = {} /\ answer = NULL
  /\ key \in [Address -> {NULL}] /\ value \in [Address -> {NULL}]
  /\ next \in [Address -> {NULL}]

Next ==
  \E k \in Key :
    \/ Get(k) \/ InsertFails(k) \/ Delete(k)
    \/ \E v \in Value : Replace(k, v) \/ Insert(k, v)

Spec == Init /\ [][Next]_vars
-----------------------------------------------------------------------------
Listed == {Path[i] : i \in DOMAIN Path} \ {NULL}

\* What the list stands for.
Contents == [k \in {key[n] : n \in Listed} |-> value[CHOOSE n \in Listed : key[n] = k]]

\* The promise of map.h: a finite function from keys to values.
Ideal == INSTANCE KeyValue WITH map <- Contents

ImplementsKeyValue == Ideal!Spec
=============================================================================
