------------------------------- MODULE TxQueue -------------------------------
(***************************************************************************)
(* The transaction pool of txpool.c as it is in memory: the linked list of *)
(* queue.c, used without a lock by the RPC thread, which offers (wallet/tx)*)
(* and polls (getblocktemplate), and by the miner, which polls.  Module    *)
(* Node takes an offer and a poll as one step each; here a step is one     *)
(* access to memory that both threads use.                                 *)
(*                                                                         *)
(* malloc may return an address that was freed before.  An access to a     *)
(* freed node is undefined in C: it ends the behaviour with damaged.       *)
(* The counters count and txpool_size_, which decide nothing, are left     *)
(* out.                                                                    *)
(***************************************************************************)
EXTENDS Integers, FiniteSets, SequencesExt

CONSTANTS
  Item,     \* transfers; each is offered once
  Address,  \* what malloc may return for a node
  NULL

Thread == {"rpc", "miner"}

TxQueueAssumption == NULL \notin Address /\ IsFiniteSet(Address)

VARIABLES
  head, tail,  \* of the linked_list_queue_t
  item, next,  \* the fields of the node at each address
  live,        \* addresses malloc returned and nobody freed
  pc,          \* where each thread is in llqueue_offer or llqueue_poll
  node, other, \* its local node, and the pointer it read last
  got,         \* the item llqueue_poll read from its node
  offered,     \* history: items in the order of their offers,
  taken,       \*          and in the order the polls unlinked them
  pollers,     \* history: the threads that polled
  clashed,     \* history: two threads worked on the same node
  damaged      \* a freed node was used

list == <<head, tail, item, next, live>>
locals == <<pc, node, other, got>>
vars == <<list, locals, offered, taken, pollers, clashed, damaged>>

Goto(t, label) == pc' = [pc EXCEPT ![t] = label]

\* The pointer a thread is about to follow or to free.
Deref(t) ==
  IF pc[t] = "link" THEN other[t]
  ELSE IF pc[t] \in {"read", "succ", "free"} THEN node[t]
  ELSE NULL
-----------------------------------------------------------------------------
(* llqueue_offer, called by the RPC thread only *)

\* malloc, the fields of the new node, and the first reading of qu->tail.
Offer(x) ==
  /\ pc["rpc"] = "idle"
  /\ \A i \in DOMAIN offered : offered[i] # x
  /\ \E a \in Address \ live :
       /\ live' = live \cup {a}
       /\ item' = [item EXCEPT ![a] = x]
       /\ next' = [next EXCEPT ![a] = NULL]
       /\ node' = [node EXCEPT !["rpc"] = a]
  /\ other' = [other EXCEPT !["rpc"] = tail]
  /\ offered' = Append(offered, x)
  /\ Goto("rpc", "link")
  /\ UNCHANGED <<head, tail, got, taken, damaged>>

\* if (qu->tail) qu->tail->next = node;
Link ==
  /\ pc["rpc"] = "link"
  /\ other["rpc"] = NULL \/ other["rpc"] \in live
  /\ next' = IF other["rpc"] = NULL THEN next
             ELSE [next EXCEPT ![other["rpc"]] = node["rpc"]]
  /\ Goto("rpc", "first")
  /\ UNCHANGED <<head, tail, item, live, node, other, got, offered, taken, damaged>>

\* if (!qu->head)
TestHead ==
  /\ pc["rpc"] = "first"
  /\ Goto("rpc", IF head = NULL THEN "head" ELSE "tail")
  /\ UNCHANGED <<list, node, other, got, offered, taken, damaged>>

SetHead ==
  /\ pc["rpc"] = "head"
  /\ head' = node["rpc"]
  /\ Goto("rpc", "tail")
  /\ UNCHANGED <<tail, item, next, live, node, other, got, offered, taken, damaged>>

\* Mutant: only the first node of a list becomes its tail.
SetTail_FirstOnly ==
  /\ pc["rpc"] = "tail"
  /\ tail' = IF head = node["rpc"] THEN head ELSE tail
  /\ Goto("rpc", "idle")
  /\ UNCHANGED <<head, item, next, live, node, other, got, offered, taken, damaged>>

SetTail ==
  /\ pc["rpc"] = "tail"
  /\ tail' = node["rpc"]
  /\ Goto("rpc", "idle")
  /\ UNCHANGED <<head, item, next, live, node, other, got, offered, taken, damaged>>
-----------------------------------------------------------------------------
(* llqueue_poll; on an empty queue it returns NULL and changes nothing *)

Poll(t) ==
  /\ pc[t] = "idle"
  /\ head # NULL
  /\ node' = [node EXCEPT ![t] = head]
  /\ Goto(t, "read")
  /\ UNCHANGED <<list, other, got, offered, taken, damaged>>

\* Mutant: the tail is never reset.
ReadItem_KeepTail(t) ==
  /\ pc[t] = "read" /\ node[t] \in live
  /\ got' = [got EXCEPT ![t] = item[node[t]]]
  /\ Goto(t, "succ")
  /\ UNCHANGED <<list, node, other, offered, taken, damaged>>

\* item = node->item; if (qu->tail == qu->head)
ReadItem(t) ==
  /\ pc[t] = "read" /\ node[t] \in live
  /\ got' = [got EXCEPT ![t] = item[node[t]]]
  /\ Goto(t, IF tail = node[t] THEN "null" ELSE "succ")
  /\ UNCHANGED <<list, node, other, offered, taken, damaged>>

ClearTail(t) ==
  /\ pc[t] = "null"
  /\ tail' = NULL
  /\ Goto(t, "succ")
  /\ UNCHANGED <<head, item, next, live, node, other, got, offered, taken, damaged>>

ReadNext(t) ==
  /\ pc[t] = "succ" /\ node[t] \in live
  /\ other' = [other EXCEPT ![t] = next[node[t]]]
  /\ Goto(t, "unlink")
  /\ UNCHANGED <<list, node, got, offered, taken, damaged>>

\* Mutant: the item is returned but its node stays.
Unlink_Peek(t) ==
  /\ pc[t] = "unlink"
  /\ taken' = Append(taken, got[t])
  /\ Goto(t, "idle")
  /\ UNCHANGED <<list, node, other, got, offered, damaged>>

\* qu->head = node->next;
Unlink(t) ==
  /\ pc[t] = "unlink"
  /\ head' = other[t]
  /\ taken' = Append(taken, got[t])
  /\ Goto(t, "free")
  /\ UNCHANGED <<tail, item, next, live, node, other, got, offered, damaged>>

Free(t) ==
  /\ pc[t] = "free" /\ node[t] \in live
  /\ live' = live \ {node[t]}
  /\ Goto(t, "idle")
  /\ UNCHANGED <<head, tail, item, next, node, other, got, offered, taken, damaged>>

\* A freed node is read, written or freed again.
UseFreed(t) ==
  /\ Deref(t) \in Address \ live
  /\ damaged' = TRUE
  /\ UNCHANGED <<list, locals, offered, taken>>
-----------------------------------------------------------------------------
\* The nodes whose place in the list a thread relies on: a poll on the one it
\* removes, until it is freed; an offer on the new one and on the last one
\* it saw or, if it saw none, on what head then points to.
Holds(t) ==
  CASE pc[t] = "idle" -> {}
    [] pc[t] \in {"link", "first", "head", "tail"} ->
         {node[t], IF other[t] = NULL THEN head ELSE other[t]} \ {NULL}
    [] OTHER -> {node[t]}

Clash == Holds("rpc") \cap Holds("miner") # {}

Init ==
  /\ head = NULL /\ tail = NULL /\ live = {}
  /\ item \in [Address -> {NULL}] /\ next \in [Address -> {NULL}]
  /\ pc = [t \in Thread |-> "idle"]
  /\ node = [t \in Thread |-> NULL] /\ other = [t \in Thread |-> NULL]
  /\ got = [t \in Thread |-> NULL]
  /\ offered = <<>> /\ taken = <<>> /\ pollers = {}
  /\ clashed = FALSE /\ damaged = FALSE

Step ==
  \/ \E x \in Item : Offer(x)
  \/ Link \/ TestHead \/ SetHead \/ SetTail
  \/ \E t \in Thread :
       \/ Poll(t) \/ ReadItem(t) \/ ClearTail(t) \/ ReadNext(t) \/ Unlink(t)
       \/ Free(t) \/ UseFreed(t)

Next ==
  /\ ~damaged
  /\ Step
  /\ clashed' = (clashed \/ Clash')
  /\ pollers' = pollers \cup {t \in Thread : pc[t] = "idle" /\ pc'[t] = "read"}

Spec == Init /\ [][Next]_vars
-----------------------------------------------------------------------------
\* The k-th pointer of the list, counted from head.
Path[k \in 0 .. Cardinality(Address)] ==
  IF k = 0 THEN head
  ELSE IF Path[k - 1] = NULL THEN NULL
  ELSE next[Path[k - 1]]

\* The items that polls will return, as long as nobody offers.
Listed ==
  LET n == Cardinality({k \in 0 .. Cardinality(Address) - 1 : Path[k] # NULL})
  IN  [k \in 1 .. n |-> item[Path[k - 1]]]

Quiet == \A t \in Thread : pc[t] = "idle"

Ideal == INSTANCE Fifo WITH queue <- Listed

\* Until two threads work on the same node the list is a queue, whoever uses
\* it: what llqueue_offer and llqueue_poll do step by step, Fifo does in one.
ImplementsFifo == Ideal!Init /\ [][~clashed' => Ideal!Next]_Listed

\* Two threads may use the list at once and nothing is lost, doubled,
\* reordered or freed twice, provided they never work on the same node: the
\* missing lock only hurts when the pool is about to be empty, or when both
\* threads poll.
OnlyClashesHurt ==
  ~clashed => ~damaged /\ (Quiet => offered = taken \o Listed)

\* Even where they do clash, no transfer is taken a second time as long as
\* one thread alone polls: transfers can get lost, not doubled.
TakenOnce == Cardinality(pollers) <= 1 => IsInjective(taken)
=============================================================================
