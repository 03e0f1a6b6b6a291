--------------------------- MODULE RoutinesProof ---------------------------
(***************************************************************************)
(* The routines of MCRoutines, for any number of items, addresses and      *)
(* keys: as long as the two threads of the pool never work on the same     *)
(* node, the unlocked list is a queue, and the counter beside it is right  *)
(* until two updates of it overlap; the sorted list is a finite function;  *)
(* the reward rises to the floor and no other way; a block pays the        *)
(* address that was encoded, decoded and copied, unless the copy was torn; *)
(* and arithmetic on words is arithmetic on the numbers they stand for, as *)
(* long as no addition loses a carry.                                      *)
(***************************************************************************)
EXTENDS MCRoutines, FiniteSetTheorems, SequenceTheorems, WellFoundedInduction, TLAPS

Pointer == Address \cup {NULL}

Offering == queuePc["rpc"] \in {"link", "first", "head", "tail"}

\* A poll that has not unlinked its node yet.
Removing(t) == queuePc[t] \in {"read", "null", "succ", "unlink"}

QueueTypes ==
  /\ head \in Pointer /\ tail \in Pointer /\ live \subseteq Address
  /\ item \in [Address -> Item \cup {NULL}] /\ next \in [Address -> Pointer]
  /\ \A a \in live : item[a] \in Item
  /\ queuePc \in [Queue!Thread -> {"idle", "link", "first", "head", "tail", "read", "null",
                        "succ", "unlink", "free"}]
  /\ queuePc["miner"] \notin {"link", "first", "head", "tail"}
  /\ node \in [Queue!Thread -> Pointer] /\ other \in [Queue!Thread -> Pointer]
  /\ got \in [Queue!Thread -> Item \cup {NULL}]
  /\ offered \in Seq(Item) /\ taken \in Seq(Item \cup {NULL})
  /\ pollers \subseteq Queue!Thread /\ clashed \in BOOLEAN /\ damaged \in BOOLEAN

\* ns are the nodes of the list that begins at h.
IsList(h, nx, ns) ==
  /\ ns \in Seq(Address) /\ IsInjective(ns)
  /\ h = IF ns = <<>> THEN NULL ELSE ns[1]
  /\ \A i \in 1 .. Len(ns) : nx[ns[i]] = IF i = Len(ns) THEN NULL ELSE ns[i + 1]

Items(it, ns) == [i \in 1 .. Len(ns) |-> it[ns[i]]]

\* The new node is not in the list yet.
Unlisted ==
  \/ queuePc["rpc"] = "link"
  \/ queuePc["rpc"] \in {"first", "head"} /\ other["rpc"] = NULL

\* The new node is in the list, but not its tail yet.
Listing == Offering /\ ~Unlisted

\* A poll works on the first node, or has taken it out of the list.
PollOK(t, ns) ==
  /\ Removing(t) => ns # <<>> /\ node[t] = ns[1]
  /\ queuePc[t] \in {"null", "succ", "unlink"} => got[t] = item[node[t]]
  /\ queuePc[t] = "unlink" => other[t] = next[node[t]]
  /\ queuePc[t] = "null" => Len(ns) = 1
  /\ queuePc[t] = "free" => node[t] \in live /\ \A i \in 1 .. Len(ns) : ns[i] # node[t]

\* An offer works on the new node and the last one.
OfferOK(ns) ==
  /\ Offering => node["rpc"] \in live /\ next[node["rpc"]] = NULL /\ tail = other["rpc"]
  /\ queuePc["rpc"] = "head" => other["rpc"] = NULL
  /\ Unlisted =>
       /\ \A i \in 1 .. Len(ns) : ns[i] # node["rpc"]
       /\ other["rpc"] = IF ns = <<>> THEN NULL ELSE ns[Len(ns)]
  /\ Listing =>
       /\ ns # <<>> /\ node["rpc"] = ns[Len(ns)]
       /\ other["rpc"] = IF Len(ns) = 1 THEN NULL ELSE ns[Len(ns) - 1]

\* tail is the last node, unless a poll has cleared it for the only one.
TailOK(ns) ==
  ~Offering =>
    tail = IF \/ ns = <<>>
              \/ Len(ns) = 1 /\ \E t \in Queue!Thread : queuePc[t] \in {"succ", "unlink"}
           THEN NULL ELSE ns[Len(ns)]

\* What was offered was taken, or is in the list, or is about to be.
InOrder(ns) ==
  offered = (taken \o Items(item, ns)) \o (IF Unlisted THEN <<item[node["rpc"]]>> ELSE <<>>)

Good(ns) ==
  /\ IsList(head, next, ns) /\ \A i \in 1 .. Len(ns) : ns[i] \in live
  /\ \A t \in Queue!Thread : PollOK(t, ns)
  /\ OfferOK(ns) /\ TailOK(ns) /\ InOrder(ns)

\* What a step may do to the nodes: add one behind the last, remove the first.
NodesStep(ns, ms) ==
  \/ ms = ns
  \/ \E a \in live : ms = Append(ns, a)
  \/ ns # <<>> /\ ms = Tail(ns)

QueueInv ==
  /\ QueueTypes
  /\ ~clashed => ~Queue!Clash /\ ~damaged /\ \E ns \in Seq(Address) : Good(ns)
-----------------------------------------------------------------------------
(* What moves in a behaviour is one of the routines, in a step of its own *)

LEMMA RoutinesInit == Init => Queue!Init /\ Counter!Init
  BY DEF Init

LEMMA RoutinesStep ==
  [Next]_vars => [Queue!Next]_(Queue!vars) /\ [Counter!Next]_(Counter!vars)
<1>1. UNCHANGED queueVars => UNCHANGED Queue!vars
  BY DEF queueVars, Queue!vars, Queue!list, Queue!locals
<1>2. UNCHANGED counterVars => UNCHANGED Counter!vars
  BY DEF counterVars, Counter!vars
<1>3. UseQueue => Queue!Next /\ UNCHANGED counterVars
  BY DEF UseQueue
<1>4. UseCounter => Counter!Next /\ UNCHANGED queueVars
  BY DEF UseCounter
<1>5. UseMap \/ UseNumber \/ UseText \/ UseReward \/ UNCHANGED vars
        => UNCHANGED queueVars /\ UNCHANGED counterVars
  BY DEF UseMap, UseNumber, UseText, UseReward, vars
<1> QED
  BY <1>1, <1>2, <1>3, <1>4, <1>5 DEF Next
-----------------------------------------------------------------------------
(* TxQueue's operators of the standard modules are those of this module *)

LEMMA SameFinite == \A S : Queue!IsFiniteSet(S) <=> IsFiniteSet(S)
  BY DEF Queue!IsFiniteSet, IsFiniteSet

LEMMA SameCardinality == \A S : Queue!Cardinality(S) = Cardinality(S)
  BY DEF Queue!Cardinality, Cardinality

LEMMA SameInjective == \A f : Queue!IsInjective(f) <=> IsInjective(f)
  BY DEF Queue!IsInjective, IsInjective
-----------------------------------------------------------------------------
(* The list as a sequence of nodes *)

LEMMA LeastNat ==
  ASSUME NEW T, T \subseteq Nat, T # {}
  PROVE  \E x \in T : \A y \in T : x <= y
<1> DEFINE R == OpToRel(<, Nat)
<1>1. IsWellFoundedOn(R, Nat)
  BY NatLessThanWellFounded
<1>2. \A x, y \in Nat : <<y, x>> \in R <=> y < x
  BY DEF OpToRel
<1> HIDE DEF R
<1>3. PICK x \in T : \A y \in T : ~ (<<y, x>> \in R)
  BY <1>1, WFMin
<1>4. \A y \in T : x <= y
  <2> TAKE y \in T
  <2>1. x \in Nat /\ y \in Nat
    OBVIOUS
  <2>2. ~ (y < x)
    BY <2>1, <1>2, <1>3
  <2> QED
    BY <2>1, <2>2
<1> QED
  BY <1>4

\* A list without a cycle is no longer than there are addresses.
LEMMA ListFits ==
  ASSUME IsFiniteSet(Address), NEW ns \in Seq(Address), IsInjective(ns)
  PROVE  /\ Len(ns) \in Nat /\ Cardinality(Address) \in Nat /\ Len(ns) <= Cardinality(Address)
         /\ Cardinality(1 .. Len(ns)) = Len(ns)
<1>1. ns \in Injection(1 .. Len(ns), Address)
  BY DEF Injection, IsInjective
<1>2. Len(ns) \in Nat /\ Cardinality(1 .. Len(ns)) = Len(ns)
  <2>1. Len(ns) \in Nat
    OBVIOUS
  <2>2. Cardinality(1 .. Len(ns)) = IF 1 > Len(ns) THEN 0 ELSE Len(ns) - 1 + 1
    BY <2>1, FS_Interval
  <2> QED
    BY <2>1, <2>2
<1> QED
  BY <1>1, <1>2, FS_Injection, FS_CardinalityType

\* The pointers of a list, counted from its head, and what they must be.
Places(ns) ==
  [k \in 0 .. Cardinality(Address) |-> IF k < Len(ns) THEN ns[k + 1] ELSE NULL]

Follows(P, h, nx) ==
  P = [k \in 0 .. Cardinality(Address) |->
         IF k = 0 THEN h ELSE IF P[k - 1] = NULL THEN NULL ELSE nx[P[k - 1]]]

\* Following the pointers yields the nodes, and NULL behind the last one.
LEMMA PlacesFollow ==
  ASSUME IsFiniteSet(Address), NULL \notin Address, NEW h, NEW nx, NEW ns, IsList(h, nx, ns)
  PROVE  Follows(Places(ns), h, nx)
<1> DEFINE N == Cardinality(Address)
           f == [k \in 0 .. N |-> IF k < Len(ns) THEN ns[k + 1] ELSE NULL]
<1>1. /\ ns \in Seq(Address) /\ Len(ns) \in Nat /\ N \in Nat /\ Len(ns) <= N
      /\ (Len(ns) = 0 <=> ns = <<>>) /\ \A i \in 1 .. Len(ns) : ns[i] # NULL
  BY ListFits DEF IsList
<1> HIDE DEF N
<1>2. ASSUME NEW k \in 0 .. N
      PROVE  f[k] = IF k = 0 THEN h ELSE IF f[k - 1] = NULL THEN NULL ELSE nx[f[k - 1]]
  <2>1. CASE k = 0
    BY <2>1, <1>1 DEF IsList
  <2>2. CASE k # 0 /\ k - 1 < Len(ns)
    <3>1. f[k - 1] = ns[k] /\ k \in 1 .. Len(ns)
      BY <2>2, <1>1
    <3>2. nx[ns[k]] = IF k = Len(ns) THEN NULL ELSE ns[k + 1]
      BY <3>1 DEF IsList
    <3> QED
      BY <2>2, <3>1, <3>2, <1>1
  <2>3. CASE k # 0 /\ ~(k - 1 < Len(ns))
    <3>1. f[k - 1] = NULL /\ ~(k < Len(ns))
      BY <2>3, <1>1
    <3> QED
      BY <2>3, <3>1
  <2> QED
    BY <2>1, <2>2, <2>3
<1> QED
  BY <1>2 DEF Follows, Places, N

\* There is one way to follow them.
LEMMA FollowsOnce ==
  ASSUME IsFiniteSet(Address), NEW h, NEW nx, NEW P, NEW Q, Follows(P, h, nx), Follows(Q, h, nx)
  PROVE  P = Q
<1> DEFINE N == Cardinality(Address)
<1>1. N \in Nat
  BY FS_CardinalityType
<1>2. /\ \A k \in 0 .. N :
           P[k] = IF k = 0 THEN h ELSE IF P[k - 1] = NULL THEN NULL ELSE nx[P[k - 1]]
      /\ \A k \in 0 .. N :
           Q[k] = IF k = 0 THEN h ELSE IF Q[k - 1] = NULL THEN NULL ELSE nx[Q[k - 1]]
      /\ P = [k \in 0 .. N |-> P[k]] /\ Q = [k \in 0 .. N |-> Q[k]]
  BY Zenon DEF Follows
<1> HIDE DEF N
<1>3. \A k \in 0 .. N : P[k] = Q[k]
  <2> DEFINE Wrong == {k \in 0 .. N : P[k] # Q[k]}
  <2> SUFFICES ASSUME Wrong # {} PROVE FALSE
    OBVIOUS
  <2>1. Wrong \subseteq Nat
    BY <1>1
  <2>2. PICK m \in Wrong : \A y \in Wrong : m <= y
    <3> HIDE DEF Wrong
    <3> QED
      BY LeastNat, <2>1
  <2>3. m # 0
    BY <2>2, <1>2
  <2>4. m - 1 \in 0 .. N /\ P[m - 1] = Q[m - 1]
    BY <2>2, <2>3, <1>1
  <2> QED
    BY <2>2, <2>3, <2>4, <1>2, ZenonT(30)
<1> QED
  BY <1>2, <1>3

LEMMA AddressIsFinite ==
  Queue!TxQueueAssumption => IsFiniteSet(Address) /\ NULL \notin Address
  BY SameFinite DEF Queue!TxQueueAssumption

LEMMA PathIs ==
  ASSUME Queue!TxQueueAssumption, NEW ns, IsList(head, next, ns)
  PROVE  Queue!Path = Places(ns)
<1>1. IsFiniteSet(Address) /\ Follows(Places(ns), head, next)
  BY AddressIsFinite, PlacesFollow
<1>2. Follows(Queue!Path, head, next)
  BY <1>1, SameCardinality DEF Queue!Path, Follows
<1> QED
  BY <1>1, <1>2, FollowsOnce

\* What polls will return are the items of the nodes in their order.
LEMMA ListedIs ==
  Queue!TxQueueAssumption => \A ns : IsList(head, next, ns) => Queue!Listed = Items(item, ns)
<1> SUFFICES ASSUME Queue!TxQueueAssumption, NEW ns, IsList(head, next, ns)
             PROVE  Queue!Listed = Items(item, ns)
  OBVIOUS
<1> DEFINE N == Cardinality(Address)
<1>1. /\ ns \in Seq(Address) /\ Len(ns) \in Nat /\ N \in Nat /\ Len(ns) <= N
      /\ \A i \in 1 .. Len(ns) : ns[i] # NULL
  BY ListFits, AddressIsFinite DEF IsList
<1>2. \A k \in 0 .. N : Queue!Path[k] = IF k < Len(ns) THEN ns[k + 1] ELSE NULL
  BY PathIs DEF Places
<1>3. {k \in 0 .. N - 1 : Queue!Path[k] # NULL} = 0 .. (Len(ns) - 1)
  BY <1>1, <1>2
<1>4. Cardinality(0 .. (Len(ns) - 1)) = Len(ns)
  <2>1. Cardinality(0 .. (Len(ns) - 1)) =
          IF 0 > Len(ns) - 1 THEN 0 ELSE (Len(ns) - 1) - 0 + 1
    <3>1. 0 \in Int /\ Len(ns) - 1 \in Int
      BY <1>1
    <3> QED
      BY ONLY <3>1, FS_Interval
  <2> QED
    BY <1>1, <2>1
<1>5. \A k \in 1 .. Len(ns) : Queue!Path[k - 1] = ns[k]
  BY <1>1, <1>2
<1>6. Queue!Listed = [k \in 1 .. Len(ns) |-> item[Queue!Path[k - 1]]]
  BY <1>3, <1>4, SameCardinality DEF Queue!Listed
<1> QED
  BY <1>5, <1>6 DEF Items
-----------------------------------------------------------------------------
LEMMA TypesInit == Queue!TxQueueAssumption /\ Queue!Init => QueueTypes
<1> SUFFICES ASSUME Queue!TxQueueAssumption, Queue!Init PROVE QueueTypes
  OBVIOUS
<1>1. /\ head \in Pointer /\ tail \in Pointer /\ live = {}
      /\ pollers = {} /\ clashed = FALSE /\ damaged = FALSE
  BY DEF Queue!Init, Pointer
<1>2. item \in [Address -> Item \cup {NULL}] /\ next \in [Address -> Pointer]
  BY DEF Queue!Init, Pointer
<1>3. /\ node \in [Queue!Thread -> Pointer] /\ other \in [Queue!Thread -> Pointer]
      /\ got \in [Queue!Thread -> Item \cup {NULL}]
  BY DEF Queue!Init, Pointer
<1>4. queuePc \in [Queue!Thread -> {"idle"}] /\ queuePc["miner"] = "idle"
  BY DEF Queue!Init, Queue!Thread
<1>5. offered \in Seq(Item) /\ taken \in Seq(Item \cup {NULL})
  BY DEF Queue!Init
<1> QED
  BY <1>1, <1>2, <1>3, <1>4, <1>5 DEF QueueTypes

LEMMA TypesStep == Queue!TxQueueAssumption /\ QueueTypes /\ [Queue!Next]_(Queue!vars) => QueueTypes'
<1> SUFFICES ASSUME Queue!TxQueueAssumption, QueueTypes, [Queue!Next]_(Queue!vars) PROVE QueueTypes'
  OBVIOUS
<1> USE DEF Queue!TxQueueAssumption, Queue!Thread, Pointer
<1>1. ASSUME Queue!Next PROVE pollers' \subseteq Queue!Thread /\ clashed' \in BOOLEAN
  BY <1>1 DEF Queue!Next, QueueTypes, Queue!Clash
<1>2. ASSUME NEW x \in Item, Queue!Next, Queue!Offer(x) PROVE QueueTypes'
  BY <1>1, <1>2 DEF QueueTypes, Queue!Offer, Queue!Goto
<1>3. ASSUME Queue!Next, Queue!Link PROVE QueueTypes'
  BY <1>1, <1>3 DEF QueueTypes, Queue!Link, Queue!Goto
<1>4. ASSUME Queue!Next, Queue!TestHead PROVE QueueTypes'
  BY <1>1, <1>4 DEF QueueTypes, Queue!TestHead, Queue!Goto, Queue!list
<1>5. ASSUME Queue!Next, Queue!SetHead PROVE QueueTypes'
  BY <1>1, <1>5 DEF QueueTypes, Queue!SetHead, Queue!Goto
<1>6. ASSUME Queue!Next, Queue!SetTail PROVE QueueTypes'
  BY <1>1, <1>6 DEF QueueTypes, Queue!SetTail, Queue!Goto
<1>7. ASSUME NEW t \in Queue!Thread, Queue!Next, Queue!Poll(t) PROVE QueueTypes'
  BY <1>1, <1>7 DEF QueueTypes, Queue!Poll, Queue!Goto, Queue!list
<1>8. ASSUME NEW t \in Queue!Thread, Queue!Next, Queue!ReadItem(t) PROVE QueueTypes'
  BY <1>1, <1>8 DEF QueueTypes, Queue!ReadItem, Queue!Goto, Queue!list
<1>9. ASSUME NEW t \in Queue!Thread, Queue!Next, Queue!ClearTail(t) PROVE QueueTypes'
  BY <1>1, <1>9 DEF QueueTypes, Queue!ClearTail, Queue!Goto
<1>10. ASSUME NEW t \in Queue!Thread, Queue!Next, Queue!ReadNext(t) PROVE QueueTypes'
  <2>1. node[t] \in Address /\ next[node[t]] \in Pointer
    BY <1>10 DEF QueueTypes, Queue!ReadNext
  <2> QED
    BY <1>1, <1>10, <2>1 DEF QueueTypes, Queue!ReadNext, Queue!Goto, Queue!list
<1>11. ASSUME NEW t \in Queue!Thread, Queue!Next, Queue!Unlink(t) PROVE QueueTypes'
  <2>1. got[t] \in Item \cup {NULL} /\ taken' = Append(taken, got[t])
    BY <1>11 DEF QueueTypes, Queue!Unlink
  <2> QED
    BY <1>1, <1>11, <2>1 DEF QueueTypes, Queue!Unlink, Queue!Goto
<1>12. ASSUME NEW t \in Queue!Thread, Queue!Next, Queue!Free(t) PROVE QueueTypes'
  BY <1>1, <1>12 DEF QueueTypes, Queue!Free, Queue!Goto
<1>13. ASSUME NEW t \in Queue!Thread, Queue!Next, Queue!UseFreed(t) PROVE QueueTypes'
  BY <1>1, <1>13 DEF QueueTypes, Queue!UseFreed, Queue!list, Queue!locals
<1>14. CASE UNCHANGED Queue!vars
  BY <1>14 DEF QueueTypes, Queue!vars, Queue!list, Queue!locals
<1> QED
  BY <1>2, <1>3, <1>4, <1>5, <1>6, <1>7, <1>8, <1>9, <1>10, <1>11, <1>12, <1>13, <1>14
     DEF Queue!Next, Queue!Step
-----------------------------------------------------------------------------
(* What it means that the threads do not clash *)

LEMMA HoldsIs ==
  QueueTypes /\ ~Queue!Clash =>
    \A t \in Queue!Thread : Removing(t) \/ queuePc[t] = "free" =>
      /\ \A u \in Queue!Thread \ {t} :
           Removing(u) \/ queuePc[u] = "free" => node[t] # node[u]
      /\ Offering =>
           /\ t = "miner"
           /\ node["rpc"] # NULL => node[t] # node["rpc"]
           /\ other["rpc"] # NULL => node[t] # other["rpc"]
           /\ other["rpc"] = NULL /\ head # NULL => node[t] # head
  BY DEF QueueTypes, Queue!Clash, Queue!Holds, Queue!Thread, Removing, Offering

\* A poll that has not unlinked its node is the only one, and an offer that
\* goes on at the same time works behind that node.
LEMMA Alone ==
  ASSUME Queue!TxQueueAssumption, QueueTypes, ~Queue!Clash, NEW ns \in Seq(Address), Good(ns),
         NEW t \in Queue!Thread, Removing(t)
  PROVE  /\ ns # <<>> /\ node[t] = ns[1] /\ \A u \in Queue!Thread \ {t} : ~Removing(u)
         /\ Unlisted => t = "miner" /\ Len(ns) >= 2
         /\ Listing => t = "miner" /\ Len(ns) >= 3
<1>1. /\ ns # <<>> /\ Len(ns) # 0
      /\ node[t] = ns[1] /\ head = ns[1] /\ ns[1] # NULL
  BY DEF Good, IsList, PollOK, Queue!TxQueueAssumption
<1>2. ASSUME NEW u \in Queue!Thread \ {t}, Removing(u) PROVE FALSE
  BY <1>1, <1>2, HoldsIs DEF Good, PollOK
<1>3. ASSUME Unlisted PROVE t = "miner" /\ Len(ns) >= 2
  BY <1>1, <1>3, HoldsIs DEF Good, OfferOK, Unlisted, Offering
<1>4. ASSUME Listing PROVE t = "miner" /\ Len(ns) >= 3
  <2>1. /\ t = "miner" /\ node["rpc"] = ns[Len(ns)] /\ ns[Len(ns)] # NULL
        /\ other["rpc"] = IF Len(ns) = 1 THEN NULL ELSE ns[Len(ns) - 1]
    BY <1>1, <1>4, HoldsIs DEF Good, OfferOK, Listing, Queue!TxQueueAssumption
  <2>2. Len(ns) # 1
    BY <1>1, <1>4, <2>1, HoldsIs DEF Listing
  <2>3. Len(ns) # 2
    BY <1>1, <1>4, <2>1, HoldsIs DEF Listing
  <2>4. \A n \in Nat : n \notin {0, 1, 2} => n >= 3
    OBVIOUS
  <2>5. Len(ns) >= 3
    <3>1. Len(ns) \in Nat
      OBVIOUS
    <3> QED
      BY <1>1, <2>2, <2>3, <2>4, <3>1
  <2> QED
    BY <2>1, <2>5
<1> QED
  BY <1>1, <1>2, <1>3, <1>4
-----------------------------------------------------------------------------
(* Every step of an offer keeps the list in order *)

LEMMA OfferGood ==
  ASSUME Queue!TxQueueAssumption, QueueTypes, QueueTypes', ~Queue!Clash, ~Queue!Clash',
         NEW ns \in Seq(Address), Good(ns), NEW x \in Item, Queue!Offer(x)
  PROVE  Good(ns)'
<1>1. PICK a \in Address \ live :
        /\ live' = live \cup {a}
        /\ item' = [item EXCEPT ![a] = x] /\ next' = [next EXCEPT ![a] = NULL]
        /\ node' = [node EXCEPT !["rpc"] = a]
  BY DEF Queue!Offer
<1>2. /\ queuePc["rpc"] = "idle" /\ queuePc' = [queuePc EXCEPT !["rpc"] = "link"]
      /\ other' = [other EXCEPT !["rpc"] = tail] /\ offered' = Append(offered, x)
      /\ head' = head /\ tail' = tail /\ got' = got /\ taken' = taken
  BY DEF Queue!Offer, Queue!Goto
<1>3. /\ queuePc'["rpc"] = "link" /\ queuePc'["miner"] = queuePc["miner"]
      /\ node'["rpc"] = a /\ node'["miner"] = node["miner"]
      /\ other'["rpc"] = tail /\ other'["miner"] = other["miner"]
      /\ item'[a] = x /\ next'[a] = NULL
      /\ \A b \in live : item'[b] = item[b] /\ next'[b] = next[b]
  BY <1>1, <1>2 DEF QueueTypes, Queue!Thread
<1>4. \A i \in 1 .. Len(ns) : ns[i] \in live /\ ns[i] # a
  BY <1>1 DEF Good
<1>5. IsList(head, next, ns)' /\ \A i \in 1 .. Len(ns) : ns[i] \in live'
  BY <1>1, <1>2, <1>3, <1>4 DEF Good, IsList
<1>6. \A t \in Queue!Thread : PollOK(t, ns)'
  <2>1. PollOK("rpc", ns)'
    BY <1>3 DEF PollOK, Removing
  <2>2. PollOK("miner", ns)'
    <3>1. Removing("miner") \/ queuePc["miner"] = "free" => node["miner"] \in live
      BY <1>4 DEF Good, PollOK, Queue!Thread
    <3> QED
      BY <3>1, <1>1, <1>2, <1>3, <1>4 DEF Good, PollOK, Queue!Thread, Removing
  <2> QED
    BY <2>1, <2>2 DEF Queue!Thread
<1>7. tail = IF ns = <<>> THEN NULL ELSE ns[Len(ns)]
  <2>1. ASSUME ns # <<>>, Len(ns) = 1, NEW t \in Queue!Thread, queuePc[t] \in {"succ", "unlink"},
               tail = NULL
        PROVE  FALSE
    <3>1. t = "miner" /\ node["miner"] = ns[1] /\ head = ns[1] /\ ns[1] # NULL
      BY <2>1, <1>2 DEF Good, IsList, PollOK, Queue!Thread, Removing,
         Queue!TxQueueAssumption
    <3>2. node'["miner"] = head' /\ other'["rpc"] = NULL /\ head' # NULL
      BY <3>1, <2>1, <1>2, <1>3
    <3>3. (Removing("miner"))' /\ Offering'
      BY <2>1, <3>1, <1>3 DEF Removing, Offering
    <3>4. HoldsIs'
      BY HoldsIs, PTL
    <3> QED
      BY <3>2, <3>3, <3>4 DEF Queue!Thread
  <2> QED
    BY <2>1, <1>2 DEF Good, TailOK, Offering
<1>8. OfferOK(ns)' /\ TailOK(ns)'
  BY <1>1, <1>2, <1>3, <1>4, <1>7 DEF OfferOK, TailOK, Offering, Unlisted, Listing
<1>9. InOrder(ns)'
  <2>1. Items(item', ns) = Items(item, ns) /\ Items(item, ns) \in Seq(Item)
    BY <1>3, <1>4 DEF Items, QueueTypes
  <2>2. /\ offered = (taken \o Items(item, ns)) \o <<>>
        /\ Unlisted'
    BY <1>2, <1>3 DEF Good, InOrder, Unlisted
  <2>3. offered = taken \o Items(item, ns)
    BY <2>1, <2>2, ConcatEmptySeq DEF QueueTypes
  <2>4. offered' = offered \o <<x>>
    BY <1>2, AppendIsConcat DEF QueueTypes
  <2> QED
    BY <1>2, <1>3, <2>1, <2>2, <2>3, <2>4 DEF InOrder
<1> QED
  BY <1>5, <1>6, <1>8, <1>9 DEF Good

LEMMA LinkGood ==
  ASSUME Queue!TxQueueAssumption, QueueTypes, QueueTypes', ~Queue!Clash,
         NEW ns \in Seq(Address), Good(ns), Queue!Link
  PROVE  \E ms \in Seq(Address) : Good(ms)' /\ NodesStep(ns, ms)
<1>1. /\ queuePc["rpc"] = "link" /\ queuePc' = [queuePc EXCEPT !["rpc"] = "first"]
      /\ next' = IF other["rpc"] = NULL THEN next
                 ELSE [next EXCEPT ![other["rpc"]] = node["rpc"]]
      /\ UNCHANGED <<head, tail, item, live, node, other, got, offered, taken>>
  BY DEF Queue!Link, Queue!Goto
<1>2. queuePc'["rpc"] = "first" /\ \A t \in Queue!Thread \ {"rpc"} : queuePc'[t] = queuePc[t]
  BY <1>1 DEF QueueTypes, Queue!Thread
<1>3. Offering /\ Unlisted
  BY <1>1 DEF Offering, Unlisted
<1>4. CASE other["rpc"] = NULL
  <2>1. next' = next
    BY <1>1, <1>4
  <2>2. IsList(head, next, ns)' /\ \A i \in 1 .. Len(ns) : ns[i] \in live'
    BY <1>1, <2>1 DEF Good, IsList
  <2>3. \A t \in Queue!Thread : PollOK(t, ns)'
    BY <1>1, <1>2, <2>1 DEF Good, PollOK, Removing
  <2>4. Unlisted' /\ Offering' /\ ~Listing'
    BY <1>1, <1>2, <1>4 DEF Unlisted, Offering, Listing
  <2>5. OfferOK(ns)' /\ TailOK(ns)'
    BY <1>1, <1>2, <1>3, <2>1, <2>4 DEF Good, OfferOK, TailOK
  <2>6. InOrder(ns)'
    BY <1>1, <1>3, <2>4 DEF Good, InOrder
  <2> QED
    BY <2>2, <2>3, <2>5, <2>6 DEF Good, NodesStep
<1>5. CASE other["rpc"] # NULL
  <2>0. PICK new : new = node["rpc"]
    OBVIOUS
  <2>1. /\ new \in live /\ new \in Address /\ next[new] = NULL /\ tail = other["rpc"]
        /\ ns # <<>> /\ other["rpc"] = ns[Len(ns)] /\ Len(ns) \in Nat \ {0}
        /\ \A i \in 1 .. Len(ns) : ns[i] # new /\ ns[i] \in live
    BY <2>0, <1>3, <1>5 DEF Good, OfferOK, QueueTypes
  <2> DEFINE ms == Append(ns, new)
  <2>2. /\ ms \in Seq(Address) /\ ms # <<>> /\ Len(ms) = Len(ns) + 1
        /\ ms[Len(ns) + 1] = new /\ ms[1] = ns[1] /\ ms[Len(ns)] = ns[Len(ns)]
        /\ \A i \in 1 .. Len(ns) : ms[i] = ns[i]
    BY <2>1, AppendProperties
  <2> HIDE DEF ms
  <2>3. /\ next'[ns[Len(ns)]] = new /\ next'[new] = NULL
        /\ \A b \in Address : b # ns[Len(ns)] => next'[b] = next[b]
    <3>1. ns[Len(ns)] # new /\ ns[Len(ns)] \in Address
      BY <2>1
    <3> QED
      BY <1>1, <1>5, <2>0, <2>1, <3>1 DEF QueueTypes
  <2>4. IsInjective(ns) /\ \A i \in 1 .. Len(ns) - 1 : ns[i] # ns[Len(ns)]
    BY <2>1 DEF Good, IsList, IsInjective
  <2>5. IsInjective(ms)
    BY <2>1, <2>2, <2>4 DEF IsInjective
  <2>6. head' = ms[1]
    BY <1>1, <2>1, <2>2 DEF Good, IsList
  <2>7. ASSUME NEW i \in 1 .. Len(ms)
        PROVE  next'[ms[i]] = IF i = Len(ms) THEN NULL ELSE ms[i + 1]
    <3>1. CASE i = Len(ns) + 1
      BY <3>1, <2>2, <2>3
    <3>2. CASE i = Len(ns)
      BY <3>2, <2>1, <2>2, <2>3
    <3>3. CASE i \in 1 .. Len(ns) - 1
      <4>1. ms[i] = ns[i] /\ ms[i + 1] = ns[i + 1] /\ ns[i] # ns[Len(ns)] /\ ns[i] \in Address
        BY <3>3, <2>1, <2>2, <2>4
      <4>2. next[ns[i]] = ns[i + 1]
        BY <3>3, <2>1 DEF Good, IsList
      <4> QED
        BY <3>3, <4>1, <4>2, <2>2, <2>3
    <3> QED
      BY <3>1, <3>2, <3>3, <2>1, <2>2
  <2>8. IsList(head, next, ms)' /\ \A i \in 1 .. Len(ms) : ms[i] \in live'
    BY <1>1, <2>1, <2>2, <2>5, <2>6, <2>7 DEF IsList
  <2>9. ASSUME NEW t \in Queue!Thread PROVE PollOK(t, ms)'
    <3>1. CASE t = "rpc"
      BY <3>1, <1>2 DEF PollOK, Removing
    <3>2. CASE t # "rpc" /\ Removing(t)
      <4>1. ns # <<>> /\ node[t] = ns[1] /\ Len(ns) >= 2
        BY <1>3, <3>2, Alone
      <4>2. next'[node[t]] = next[node[t]]
        BY <4>1, <2>1, <2>3, <2>4
      <4>3. queuePc[t] # "null"
        BY <4>1, <2>1 DEF Good, PollOK
      <4> QED
        BY <1>1, <1>2, <2>2, <3>2, <4>1, <4>2, <4>3 DEF Good, PollOK, Removing
    <3>3. CASE t # "rpc" /\ queuePc[t] = "free"
      <4>1. node[t] # new
        BY <1>3, <2>0, <2>1, <3>3, HoldsIs DEF Queue!TxQueueAssumption
      <4>2. node[t] \in live /\ \A i \in 1 .. Len(ns) : ns[i] # node[t]
        BY <3>3 DEF Good, PollOK
      <4>3. \A i \in 1 .. Len(ms) : ms[i] # node[t]
        BY <2>1, <2>2, <4>1, <4>2
      <4> QED
        BY <1>1, <1>2, <3>3, <4>2, <4>3 DEF PollOK, Removing
    <3> QED
      BY <1>2, <3>1, <3>2, <3>3 DEF PollOK, Removing
  <2>10. Offering' /\ ~Unlisted' /\ Listing'
    BY <1>1, <1>2, <1>5 DEF Offering, Unlisted, Listing
  <2>11. OfferOK(ms)' /\ TailOK(ms)'
    BY <1>1, <1>2, <2>0, <2>1, <2>2, <2>3, <2>10 DEF OfferOK, TailOK
  <2>12. InOrder(ms)'
    <3>1. Items(item, ns) \in Seq(Item) /\ Items(item, ms) = Append(Items(item, ns), item[new])
      BY <2>1, <2>2 DEF Items, QueueTypes
    <3>2. item[new] \in Item /\ Items(item, ms) \in Seq(Item)
      BY <3>1, <2>1 DEF QueueTypes
    <3>3. Items(item, ms) = Items(item, ns) \o <<item[new]>>
      BY <3>1, <3>2, AppendIsConcat
    <3>4. /\ taken \in Seq(Item \cup {NULL}) /\ Items(item, ns) \in Seq(Item \cup {NULL})
          /\ <<item[new]>> \in Seq(Item \cup {NULL})
          /\ taken \o Items(item, ms) \in Seq(Item \cup {NULL})
      BY <3>1, <3>2 DEF QueueTypes
    <3>5. offered = (taken \o Items(item, ns)) \o <<item[new]>>
      BY <1>3, <2>0 DEF Good, InOrder
    <3>6. offered = taken \o Items(item, ms)
      BY <3>3, <3>4, <3>5, ConcatAssociative
    <3> QED
      BY <1>1, <2>10, <3>4, <3>6, ConcatEmptySeq DEF InOrder
  <2>13. NodesStep(ns, ms)
    BY <2>1 DEF NodesStep, ms
  <2> QED
    BY <2>2, <2>8, <2>9, <2>11, <2>12, <2>13 DEF Good
<1> QED
  BY <1>4, <1>5

LEMMA TestHeadGood ==
  ASSUME Queue!TxQueueAssumption, QueueTypes,
         NEW ns \in Seq(Address), Good(ns), Queue!TestHead
  PROVE  Good(ns)'
<1>1. /\ queuePc["rpc"] = "first" /\ UNCHANGED <<Queue!list, node, other, got, offered, taken>>
      /\ queuePc' = [queuePc EXCEPT !["rpc"] = IF head = NULL THEN "head" ELSE "tail"]
  BY DEF Queue!TestHead, Queue!Goto
<1>2. /\ queuePc'["rpc"] = IF head = NULL THEN "head" ELSE "tail"
      /\ \A t \in Queue!Thread \ {"rpc"} : queuePc'[t] = queuePc[t]
  BY <1>1 DEF QueueTypes, Queue!Thread
<1>3. head = NULL <=> ns = <<>>
  BY DEF Good, IsList, Queue!TxQueueAssumption
<1>4. Offering /\ (Unlisted \/ Listing) /\ Offering'
  BY <1>1, <1>2 DEF Offering, Unlisted, Listing
<1>5. Unlisted <=> head = NULL
  BY <1>1, <1>3, <1>4 DEF Good, OfferOK, Unlisted, Queue!TxQueueAssumption
<1>6. head = NULL => other["rpc"] = NULL
  BY <1>1, <1>5 DEF Unlisted
<1>7. (Unlisted' <=> Unlisted) /\ (Listing' <=> Listing)
  BY <1>1, <1>2, <1>4, <1>5, <1>6 DEF Unlisted, Listing
<1>8. \A t \in Queue!Thread : PollOK(t, ns)'
  BY <1>1, <1>2 DEF Good, PollOK, Removing, Queue!list
<1>9. OfferOK(ns)' /\ TailOK(ns)'
  BY <1>1, <1>2, <1>4, <1>6, <1>7 DEF Good, OfferOK, TailOK, Queue!list
<1>10. InOrder(ns)'
  BY <1>1, <1>7 DEF Good, InOrder, Queue!list
<1> QED
  BY <1>1, <1>8, <1>9, <1>10 DEF Good, IsList, Queue!list

LEMMA SetHeadGood ==
  ASSUME Queue!TxQueueAssumption, QueueTypes, ~Queue!Clash,
         NEW ns \in Seq(Address), Good(ns), Queue!SetHead
  PROVE  \E ms \in Seq(Address) : Good(ms)' /\ NodesStep(ns, ms)
<1>0. PICK new : new = node["rpc"]
  OBVIOUS
<1> DEFINE ms == <<new>>
<1>1. /\ queuePc["rpc"] = "head" /\ queuePc' = [queuePc EXCEPT !["rpc"] = "tail"] /\ head' = new
      /\ UNCHANGED <<tail, item, next, live, node, other, got, offered, taken>>
  BY <1>0 DEF Queue!SetHead, Queue!Goto
<1>2. queuePc'["rpc"] = "tail" /\ \A t \in Queue!Thread \ {"rpc"} : queuePc'[t] = queuePc[t]
  BY <1>1 DEF QueueTypes, Queue!Thread
<1>3. Offering /\ Unlisted /\ other["rpc"] = NULL
  BY <1>1 DEF Offering, Unlisted, Good, OfferOK
<1>4. ns = <<>>
  BY <1>3 DEF Good, OfferOK, Queue!TxQueueAssumption
<1>5. new \in live /\ new \in Address /\ next[new] = NULL /\ tail = other["rpc"] /\ new # NULL
  BY <1>0, <1>3 DEF Good, OfferOK, QueueTypes, Queue!TxQueueAssumption
<1>6. ms \in Seq(Address) /\ ms # <<>> /\ Len(ms) = 1 /\ ms[1] = new
  BY <1>5
<1>7. IsInjective(ms)
  BY <1>6 DEF IsInjective
<1>8. ASSUME NEW t \in Queue!Thread PROVE PollOK(t, ms)'
  <2>1. ~Removing(t)
    BY <1>4 DEF Good, PollOK
  <2>2. queuePc[t] = "free" => node[t] # new
    BY <1>0, <1>3, <1>5, HoldsIs
  <2> QED
    BY <1>1, <1>2, <1>6, <2>1, <2>2 DEF Good, PollOK, Removing
<1>9. Offering' /\ ~Unlisted' /\ Listing'
  BY <1>2 DEF Offering, Unlisted, Listing
<1>10. OfferOK(ms)' /\ TailOK(ms)'
  BY <1>0, <1>1, <1>2, <1>3, <1>5, <1>6, <1>9 DEF OfferOK, TailOK
<1>11. InOrder(ms)'
  <2>1. Items(item, ns) = <<>> /\ Items(item, ms) = <<item[new]>>
    BY <1>4, <1>6 DEF Items
  <2>2. item[new] \in Item /\ <<item[new]>> \in Seq(Item \cup {NULL})
    BY <1>5 DEF QueueTypes
  <2>3. taken \in Seq(Item \cup {NULL}) /\ taken \o <<item[new]>> \in Seq(Item \cup {NULL})
    BY <2>2 DEF QueueTypes
  <2>4. offered = (taken \o <<>>) \o <<item[new]>>
    BY <1>0, <1>3, <2>1 DEF Good, InOrder
  <2>5. offered = (taken \o <<item[new]>>) \o <<>>
    BY <2>3, <2>4, ConcatEmptySeq
  <2> QED
    BY <1>1, <1>9, <2>1, <2>5 DEF InOrder
<1>12. IsList(head, next, ms)' /\ \A i \in 1 .. Len(ms) : ms[i] \in live'
  BY <1>1, <1>5, <1>6, <1>7 DEF IsList
<1>13. NodesStep(ns, ms)
  BY <1>4, <1>5 DEF NodesStep
<1> QED
  BY <1>6, <1>8, <1>10, <1>11, <1>12, <1>13 DEF Good

LEMMA SetTailGood ==
  ASSUME Queue!TxQueueAssumption, QueueTypes, ~Queue!Clash,
         NEW ns \in Seq(Address), Good(ns), Queue!SetTail
  PROVE  Good(ns)'
<1>1. /\ queuePc["rpc"] = "tail" /\ queuePc' = [queuePc EXCEPT !["rpc"] = "idle"] /\ tail' = node["rpc"]
      /\ UNCHANGED <<head, item, next, live, node, other, got, offered, taken>>
  BY DEF Queue!SetTail, Queue!Goto
<1>2. queuePc'["rpc"] = "idle" /\ \A t \in Queue!Thread \ {"rpc"} : queuePc'[t] = queuePc[t]
  BY <1>1 DEF QueueTypes, Queue!Thread
<1>3. Listing /\ ~Unlisted /\ ~Offering' /\ ~Unlisted' /\ ~Listing'
  BY <1>1, <1>2 DEF Listing, Offering, Unlisted
<1>4. ns # <<>> /\ tail' = ns[Len(ns)]
  BY <1>1, <1>3 DEF Good, OfferOK
<1>5. ASSUME NEW t \in Queue!Thread, queuePc'[t] \in {"succ", "unlink"} PROVE Len(ns) # 1
  <2>1. Removing(t)
    BY <1>2, <1>5 DEF Removing
  <2>2. Len(ns) >= 3 /\ Len(ns) \in Nat
    BY <1>3, <2>1, Alone
  <2>3. \A n \in Nat : n >= 3 => n # 1
    OBVIOUS
  <2> QED
    BY <2>2, <2>3
<1>6. OfferOK(ns)' /\ TailOK(ns)'
  BY <1>2, <1>3, <1>4, <1>5 DEF OfferOK, TailOK
<1>7. \A t \in Queue!Thread : PollOK(t, ns)'
  BY <1>1, <1>2 DEF Good, PollOK, Removing
<1>8. InOrder(ns)'
  BY <1>1, <1>3 DEF Good, InOrder
<1> QED
  BY <1>1, <1>6, <1>7, <1>8 DEF Good, IsList
-----------------------------------------------------------------------------
(* Every step of a poll keeps the list in order *)

LEMMA PollGood ==
  ASSUME Queue!TxQueueAssumption, QueueTypes,
         NEW ns \in Seq(Address), Good(ns), NEW t \in Queue!Thread, Queue!Poll(t)
  PROVE  Good(ns)'
<1>1. /\ queuePc[t] = "idle" /\ head # NULL /\ node' = [node EXCEPT ![t] = head]
      /\ queuePc' = [queuePc EXCEPT ![t] = "read"]
      /\ UNCHANGED <<Queue!list, other, got, offered, taken>>
  BY DEF Queue!Poll, Queue!Goto
<1>2. /\ queuePc'[t] = "read" /\ node'[t] = head
      /\ \A u \in Queue!Thread \ {t} : queuePc'[u] = queuePc[u] /\ node'[u] = node[u]
  BY <1>1 DEF QueueTypes, Queue!Thread
<1>3. ns # <<>> /\ head = ns[1]
  BY <1>1 DEF Good, IsList
<1>4. \A u \in Queue!Thread : PollOK(u, ns)'
  BY <1>1, <1>2, <1>3 DEF Good, PollOK, Removing, Queue!list
<1>5. /\ (Offering' <=> Offering) /\ (Unlisted' <=> Unlisted) /\ (Listing' <=> Listing)
      /\ (Offering => node'["rpc"] = node["rpc"]) /\ (queuePc'["rpc"] = "head" <=> queuePc["rpc"] = "head")
  BY <1>1, <1>2 DEF Offering, Unlisted, Listing, Queue!Thread
<1>6. Unlisted => Offering
  BY DEF Unlisted, Offering
<1>7. OfferOK(ns)'
  BY <1>1, <1>5, <1>6 DEF Good, OfferOK, Listing, Queue!list
<1>8. \A u \in Queue!Thread : queuePc'[u] \in {"succ", "unlink"} <=> queuePc[u] \in {"succ", "unlink"}
  BY <1>1, <1>2
<1>9. TailOK(ns)'
  BY <1>1, <1>5, <1>8 DEF Good, TailOK, Queue!list
<1>10. InOrder(ns)'
  BY <1>1, <1>5, <1>6 DEF Good, InOrder, Queue!list
<1> QED
  BY <1>1, <1>4, <1>7, <1>9, <1>10 DEF Good, IsList, Queue!list

\* The three steps between do not change the list.
LEMMA StayGood ==
  ASSUME Queue!TxQueueAssumption, QueueTypes,
         NEW ns \in Seq(Address), Good(ns), NEW t \in Queue!Thread, Removing(t), (Removing(t))',
         queuePc' = [queuePc EXCEPT ![t] = queuePc'[t]],
         \A u \in Queue!Thread \ {t} : got'[u] = got[u] /\ other'[u] = other[u],
         UNCHANGED <<head, item, next, live, node, offered, taken>>,
         Offering => tail' = tail, PollOK(t, ns)', TailOK(ns)'
  PROVE  Good(ns)'
<1>1. queuePc'["miner"] = queuePc["miner"] \/ t = "miner"
  BY DEF QueueTypes, Queue!Thread
<1>2. \A u \in Queue!Thread \ {t} : queuePc'[u] = queuePc[u]
  BY DEF QueueTypes
<1>3. /\ (Offering' <=> Offering) /\ (Unlisted' <=> Unlisted) /\ (Listing' <=> Listing)
      /\ (Offering => t # "rpc") /\ (queuePc'["rpc"] = "head" <=> queuePc["rpc"] = "head")
      /\ (Offering => other'["rpc"] = other["rpc"])
  BY <1>2 DEF Offering, Unlisted, Listing, Removing, Queue!Thread
<1>4. ASSUME NEW u \in Queue!Thread \ {t} PROVE PollOK(u, ns)'
  BY <1>2, <1>4 DEF Good, PollOK, Removing
<1>5. Unlisted => Offering
  BY DEF Unlisted, Offering
<1>6. queuePc["rpc"] = "head" => Offering
  BY DEF Offering
<1>7. OfferOK(ns)'
  BY <1>3, <1>5, <1>6 DEF Good, OfferOK, Listing
<1>8. InOrder(ns)'
  BY <1>3, <1>5 DEF Good, InOrder
<1> QED
  BY <1>4, <1>7, <1>8 DEF Good, IsList

LEMMA ReadItemGood ==
  ASSUME Queue!TxQueueAssumption, QueueTypes, ~Queue!Clash,
         NEW ns \in Seq(Address), Good(ns), NEW t \in Queue!Thread, Queue!ReadItem(t)
  PROVE  Good(ns)'
<1>1. /\ queuePc[t] = "read" /\ got' = [got EXCEPT ![t] = item[node[t]]]
      /\ queuePc' = [queuePc EXCEPT ![t] = IF tail = node[t] THEN "null" ELSE "succ"]
      /\ UNCHANGED <<Queue!list, node, other, offered, taken>>
  BY DEF Queue!ReadItem, Queue!Goto
<1>2. /\ queuePc'[t] = (IF tail = node[t] THEN "null" ELSE "succ") /\ got'[t] = item[node[t]]
      /\ \A u \in Queue!Thread \ {t} : queuePc'[u] = queuePc[u] /\ got'[u] = got[u]
  BY <1>1 DEF QueueTypes
<1>3. Removing(t) /\ (Removing(t))'
  BY <1>1, <1>2 DEF Removing
<1>4. /\ ns # <<>> /\ node[t] = ns[1] /\ \A u \in Queue!Thread \ {t} : ~Removing(u)
      /\ Unlisted => Len(ns) >= 2
      /\ Listing => Len(ns) >= 3
  BY <1>3, Alone
<1>5. /\ Len(ns) \in Nat \ {0} /\ IsInjective(ns) /\ \A i \in 1 .. Len(ns) : ns[i] # NULL
      /\ \A i \in 1 .. Len(ns) : i # 1 => ns[i] # ns[1]
  BY <1>4 DEF Good, IsList, IsInjective, Queue!TxQueueAssumption
<1>6. ASSUME Unlisted PROVE tail # ns[1]
  <2>1. tail = ns[Len(ns)]
    BY <1>4, <1>6 DEF Good, OfferOK, Unlisted, Offering
  <2> QED
    BY <1>4, <1>5, <1>6, <2>1
<1>7. ASSUME Listing PROVE tail # ns[1]
  <2>1. /\ Len(ns) # 1 /\ Len(ns) - 1 \in 1 .. Len(ns) /\ Len(ns) - 1 # 1
    BY <1>4, <1>5, <1>7
  <2>2. tail = ns[Len(ns) - 1]
    BY <1>7, <2>1 DEF Good, OfferOK, Listing
  <2> QED
    BY <1>5, <2>1, <2>2
<1>8. ASSUME ~Offering
      PROVE  tail = ns[Len(ns)] /\ (tail = ns[1] <=> Len(ns) = 1)
  <2>1. \A u \in Queue!Thread : queuePc[u] \notin {"succ", "unlink"}
    BY <1>1, <1>4 DEF Removing
  <2>2. tail = ns[Len(ns)]
    BY <1>4, <1>8, <2>1 DEF Good, TailOK
  <2> QED
    BY <1>5, <2>2
<1>9. tail = ns[1] => Len(ns) = 1
  BY <1>6, <1>7, <1>8 DEF Listing
<1>10. PollOK(t, ns)'
  BY <1>1, <1>2, <1>4, <1>9 DEF PollOK, Removing, Queue!list
<1>11. Offering' <=> Offering
  BY <1>1, <1>2 DEF Offering
<1>12. TailOK(ns)'
  <2>1. ASSUME ~Offering, Len(ns) = 1, NEW u \in Queue!Thread
        PROVE  queuePc'[u] \notin {"succ", "unlink"}
    BY <1>2, <1>4, <1>8, <2>1 DEF Removing
  <2> QED
    BY <1>1, <1>4, <1>8, <1>11, <2>1 DEF TailOK, Queue!list
<1> QED
  BY <1>1, <1>2, <1>3, <1>10, <1>12, StayGood DEF Queue!list

LEMMA ClearTailGood ==
  ASSUME Queue!TxQueueAssumption, QueueTypes, ~Queue!Clash,
         NEW ns \in Seq(Address), Good(ns), NEW t \in Queue!Thread, Queue!ClearTail(t)
  PROVE  Good(ns)'
<1>1. /\ queuePc[t] = "null" /\ queuePc' = [queuePc EXCEPT ![t] = "succ"] /\ tail' = NULL
      /\ UNCHANGED <<head, item, next, live, node, other, got, offered, taken>>
  BY DEF Queue!ClearTail, Queue!Goto
<1>2. queuePc'[t] = "succ" /\ \A u \in Queue!Thread \ {t} : queuePc'[u] = queuePc[u]
  BY <1>1 DEF QueueTypes
<1>3. Removing(t) /\ (Removing(t))' /\ Len(ns) = 1
  BY <1>1, <1>2 DEF Removing, Good, PollOK
<1>4. ns # <<>> /\ (Unlisted => Len(ns) >= 2) /\ (Listing => Len(ns) >= 3)
  BY <1>3, Alone
<1>5. ~Offering
  BY <1>3, <1>4 DEF Listing
<1>6. PollOK(t, ns)'
  BY <1>1, <1>2, <1>3 DEF Good, PollOK, Removing
<1>7. TailOK(ns)'
  BY <1>1, <1>2, <1>3 DEF TailOK
<1> QED
  BY <1>1, <1>2, <1>3, <1>5, <1>6, <1>7, StayGood

LEMMA ReadNextGood ==
  ASSUME Queue!TxQueueAssumption, QueueTypes,
         NEW ns \in Seq(Address), Good(ns), NEW t \in Queue!Thread, Queue!ReadNext(t)
  PROVE  Good(ns)'
<1>1. /\ queuePc[t] = "succ" /\ queuePc' = [queuePc EXCEPT ![t] = "unlink"]
      /\ other' = [other EXCEPT ![t] = next[node[t]]]
      /\ UNCHANGED <<Queue!list, node, got, offered, taken>>
  BY DEF Queue!ReadNext, Queue!Goto
<1>2. /\ queuePc'[t] = "unlink" /\ other'[t] = next[node[t]]
      /\ \A u \in Queue!Thread \ {t} : queuePc'[u] = queuePc[u] /\ other'[u] = other[u]
  BY <1>1 DEF QueueTypes
<1>3. Removing(t) /\ (Removing(t))'
  BY <1>1, <1>2 DEF Removing
<1>4. PollOK(t, ns)'
  BY <1>1, <1>2, <1>3 DEF Good, PollOK, Removing, Queue!list
<1>5. /\ Offering' <=> Offering
      /\ \A u \in Queue!Thread : queuePc'[u] \in {"succ", "unlink"} <=> queuePc[u] \in {"succ", "unlink"}
  BY <1>1, <1>2 DEF Offering
<1>6. TailOK(ns)'
  BY <1>1, <1>5 DEF Good, TailOK, Queue!list
<1> QED
  BY <1>1, <1>2, <1>3, <1>4, <1>6, StayGood DEF Queue!list

LEMMA UnlinkGood ==
  ASSUME Queue!TxQueueAssumption, QueueTypes, ~Queue!Clash,
         NEW ns \in Seq(Address), Good(ns), NEW t \in Queue!Thread, Queue!Unlink(t)
  PROVE  ns # <<>> /\ Good(Tail(ns))'
<1> DEFINE ms == Tail(ns)
<1>1. /\ queuePc[t] = "unlink" /\ queuePc' = [queuePc EXCEPT ![t] = "free"] /\ head' = other[t]
      /\ taken' = Append(taken, got[t])
      /\ UNCHANGED <<tail, item, next, live, node, other, got, offered>>
  BY DEF Queue!Unlink, Queue!Goto
<1>2. queuePc'[t] = "free" /\ \A u \in Queue!Thread \ {t} : queuePc'[u] = queuePc[u]
  BY <1>1 DEF QueueTypes
<1>3. Removing(t) /\ ~(Removing(t))'
  BY <1>1, <1>2 DEF Removing
<1>4. /\ ns # <<>> /\ node[t] = ns[1] /\ \A u \in Queue!Thread \ {t} : ~Removing(u)
      /\ Unlisted => Len(ns) >= 2
      /\ Listing => Len(ns) >= 3
  BY <1>3, Alone
<1>5. /\ ms \in Seq(Address) /\ Len(ns) \in Nat \ {0} /\ Len(ms) = Len(ns) - 1
      /\ \A i \in 1 .. Len(ms) : i + 1 \in 1 .. Len(ns) /\ i + 1 # 1 /\ ms[i] = ns[i + 1]
      /\ (ms = <<>> <=> Len(ns) = 1)
  <2>1. Len(ns) \in Nat \ {0}
    BY <1>4
  <2>2. /\ ms \in Seq(Address) /\ Len(ms) = Len(ns) - 1
        /\ \A i \in 1 .. Len(ms) : ms[i] = ns[i + 1]
    BY <1>4, HeadTailProperties
  <2> HIDE DEF ms
  <2> QED
    BY <2>1, <2>2
<1>6. IsInjective(ns) /\ \A i \in 1 .. Len(ns) : i # 1 => ns[i] # ns[1]
  BY <1>4 DEF Good, IsList, IsInjective
<1>7. other[t] = next[ns[1]] /\ got[t] = item[ns[1]]
  BY <1>1, <1>4 DEF Good, PollOK
<1> HIDE DEF ms
<1>8. IsList(head, next, ms)'
  <2>1. IsInjective(ms)
    <3>1. ASSUME NEW i \in 1 .. Len(ms), NEW j \in 1 .. Len(ms), ms[i] = ms[j] PROVE i = j
      <4>1. /\ i + 1 \in DOMAIN ns /\ j + 1 \in DOMAIN ns
            /\ ns[i + 1] = ns[j + 1]
        BY <1>5, <3>1
      <4>2. i + 1 = j + 1
        BY <1>6, <4>1 DEF IsInjective
      <4> QED
        BY <4>2
    <3> QED
      BY <1>5, <3>1 DEF IsInjective
  <2>2. head' = IF ms = <<>> THEN NULL ELSE ms[1]
    <3>1. next[ns[1]] = IF 1 = Len(ns) THEN NULL ELSE ns[1 + 1]
      BY <1>5 DEF Good, IsList
    <3>2. ms # <<>> => ms[1] = ns[1 + 1]
      BY <1>5
    <3> QED
      BY <1>1, <1>5, <1>7, <3>1, <3>2
  <2>3. ASSUME NEW i \in 1 .. Len(ms)
        PROVE  next[ms[i]] = IF i = Len(ms) THEN NULL ELSE ms[i + 1]
    <3>1. /\ i + 1 \in 1 .. Len(ns) /\ ms[i] = ns[i + 1]
          /\ (i = Len(ms) <=> i + 1 = Len(ns))
          /\ (i # Len(ms) => ms[i + 1] = ns[(i + 1) + 1])
      BY <1>5
    <3>2. next[ns[i + 1]] = IF i + 1 = Len(ns) THEN NULL ELSE ns[(i + 1) + 1]
      BY <3>1 DEF Good, IsList
    <3> QED
      BY <3>1, <3>2
  <2> QED
    BY <1>1, <1>5, <2>1, <2>2, <2>3 DEF IsList
<1>9. \A i \in 1 .. Len(ms) : ms[i] \in live' /\ ms[i] # ns[1]
  BY <1>1, <1>5, <1>6 DEF Good
<1>10. ASSUME NEW u \in Queue!Thread PROVE PollOK(u, ms)'
  <2>1. CASE u = t
    <3>1. node[t] \in live
      BY <1>4, <1>5 DEF Good
    <3> QED
      BY <1>1, <1>2, <1>4, <1>9, <2>1, <3>1 DEF PollOK, Removing
  <2>2. CASE u # t
    BY <1>1, <1>2, <1>4, <1>5, <2>2 DEF Good, PollOK, Removing
  <2> QED
    BY <2>1, <2>2
<1>11. /\ (Offering' <=> Offering) /\ (Unlisted' <=> Unlisted) /\ (Listing' <=> Listing)
       /\ (Offering => t # "rpc") /\ (queuePc'["rpc"] = "head" <=> queuePc["rpc"] = "head")
       /\ (Unlisted => Offering)
  BY <1>1, <1>2 DEF Offering, Unlisted, Listing, Queue!Thread
<1>12. OfferOK(ms)'
  <2>1. Offering => node["rpc"] \in live /\ next[node["rpc"]] = NULL /\ tail = other["rpc"]
    BY DEF Good, OfferOK
  <2>2. queuePc["rpc"] = "head" => other["rpc"] = NULL
    BY DEF Good, OfferOK
  <2>3. ASSUME Unlisted
        PROVE  /\ \A i \in 1 .. Len(ms) : ms[i] # node["rpc"]
               /\ other["rpc"] = IF ms = <<>> THEN NULL ELSE ms[Len(ms)]
    <3>1. ms # <<>> /\ ms[Len(ms)] = ns[Len(ns)]
      BY <1>4, <1>5, <2>3
    <3>2. other["rpc"] = ns[Len(ns)] /\ \A i \in 1 .. Len(ns) : ns[i] # node["rpc"]
      BY <1>4, <2>3 DEF Good, OfferOK
    <3> QED
      BY <1>5, <3>1, <3>2
  <2>4. ASSUME Listing
        PROVE  /\ ms # <<>> /\ node["rpc"] = ms[Len(ms)]
               /\ other["rpc"] = IF Len(ms) = 1 THEN NULL ELSE ms[Len(ms) - 1]
    <3>1. /\ ms # <<>> /\ ms[Len(ms)] = ns[Len(ns)] /\ Len(ns) # 1 /\ Len(ms) # 1
          /\ ms[Len(ms) - 1] = ns[Len(ns) - 1]
      BY <1>4, <1>5, <2>4, SMTT(30)
    <3>2. node["rpc"] = ns[Len(ns)] /\ other["rpc"] = ns[Len(ns) - 1]
      BY <2>4, <3>1 DEF Good, OfferOK
    <3> QED
      BY <3>1, <3>2
  <2> QED
    BY <1>1, <1>11, <2>1, <2>2, <2>3, <2>4 DEF OfferOK
<1>13. TailOK(ms)'
  <2>1. \A u \in Queue!Thread : queuePc'[u] \notin {"succ", "unlink"}
    BY <1>2, <1>4 DEF Removing
  <2>2. ASSUME ~Offering
        PROVE  tail = IF Len(ns) = 1 THEN NULL ELSE ns[Len(ns)]
    BY <1>1, <1>4, <2>2 DEF Good, TailOK
  <2>3. Len(ns) # 1 => ms[Len(ms)] = ns[Len(ns)]
    BY <1>5
  <2> QED
    BY <1>1, <1>5, <1>11, <2>1, <2>2, <2>3 DEF TailOK
<1>14. InOrder(ms)'
  <2> DEFINE S == Item \cup {NULL}
             rest == IF Unlisted THEN <<item[node["rpc"]]>> ELSE <<>>
  <2>1. /\ taken \in Seq(S) /\ got[t] \in S /\ <<got[t]>> \in Seq(S)
        /\ taken' = taken \o <<got[t]>>
    BY <1>1, AppendIsConcat DEF QueueTypes
  <2>2. Items(item, ms) \in Seq(S) /\ Items(item, ns) = <<got[t]>> \o Items(item, ms)
    <3>1. Items(item, ms) \in Seq(S) /\ Items(item, ns) \in Seq(S)
      BY <1>5 DEF Items, QueueTypes
    <3>2. /\ Len(Items(item, ns)) = Len(ns) /\ Len(Items(item, ms)) = Len(ms)
          /\ \A i \in 1 .. Len(ns) : Items(item, ns)[i] = item[ns[i]]
          /\ \A i \in 1 .. Len(ms) : Items(item, ms)[i] = item[ms[i]]
      BY <1>5 DEF Items
    <3>3. /\ <<got[t]>> \o Items(item, ms) \in Seq(S)
          /\ Len(<<got[t]>> \o Items(item, ms)) = 1 + Len(ms)
          /\ \A i \in 1 .. 1 + Len(ms) :
               (<<got[t]>> \o Items(item, ms))[i]
                 = IF i <= 1 THEN <<got[t]>>[i] ELSE Items(item, ms)[i - 1]
      <4>1. Len(<<got[t]>>) = 1
        OBVIOUS
      <4> HIDE DEF S
      <4> QED
        BY <2>1, <3>1, <3>2, <4>1, ConcatProperties
    <3>4. ASSUME NEW i \in 1 .. Len(ns)
          PROVE  Items(item, ns)[i] = (<<got[t]>> \o Items(item, ms))[i]
      <4>1. CASE i = 1
        BY <4>1, <1>5, <1>7, <3>2, <3>3
      <4>2. CASE i # 1
        <5>1. i - 1 \in 1 .. Len(ms) /\ ms[i - 1] = ns[i]
          BY <4>2, <1>5
        <5>2. Items(item, ns)[i] = item[ns[i]] /\ Items(item, ms)[i - 1] = item[ms[i - 1]]
          BY <5>1, <3>2
        <5>3. i \in 1 .. 1 + Len(ms) /\ ~(i <= 1)
          BY <4>2, <5>1, <1>5
        <5>4. (<<got[t]>> \o Items(item, ms))[i] = Items(item, ms)[i - 1]
          BY ONLY <5>3, <3>3
        <5> QED
          BY <5>1, <5>2, <5>4
      <4> QED
        BY <4>1, <4>2
    <3>5. Len(ns) = 1 + Len(ms)
      BY <1>5
    <3> HIDE DEF S
    <3> QED
      BY <3>1, <3>2, <3>3, <3>4, <3>5, SeqEqual
  <2>3. taken \o Items(item, ns) = taken' \o Items(item, ms)
    <3> HIDE DEF S
    <3>1. (taken \o <<got[t]>>) \o Items(item, ms) = taken \o (<<got[t]>> \o Items(item, ms))
      BY <2>1, <2>2, ConcatAssociative
    <3> QED
      BY <2>1, <2>2, <3>1
  <2>4. offered = (taken \o Items(item, ns)) \o rest
    BY DEF Good, InOrder
  <2> QED
    BY <1>1, <1>11, <2>3, <2>4 DEF InOrder
<1> QED
  BY <1>4, <1>5, <1>8, <1>9, <1>10, <1>12, <1>13, <1>14 DEF Good, ms

LEMMA FreeGood ==
  ASSUME Queue!TxQueueAssumption, QueueTypes, ~Queue!Clash,
         NEW ns \in Seq(Address), Good(ns), NEW t \in Queue!Thread, Queue!Free(t)
  PROVE  Good(ns)'
<1>1. /\ queuePc[t] = "free" /\ queuePc' = [queuePc EXCEPT ![t] = "idle"] /\ live' = live \ {node[t]}
      /\ UNCHANGED <<head, tail, item, next, node, other, got, offered, taken>>
  BY DEF Queue!Free, Queue!Goto
<1>2. queuePc'[t] = "idle" /\ \A u \in Queue!Thread \ {t} : queuePc'[u] = queuePc[u]
  BY <1>1 DEF QueueTypes
<1>3. \A i \in 1 .. Len(ns) : ns[i] \in live'
  BY <1>1 DEF Good, PollOK
<1>4. \A u \in Queue!Thread : PollOK(u, ns)'
  BY <1>1, <1>2, HoldsIs DEF Good, PollOK, Removing
<1>5. /\ (Offering' <=> Offering) /\ (Unlisted' <=> Unlisted) /\ (Listing' <=> Listing)
      /\ (Offering => t # "rpc") /\ (queuePc'["rpc"] = "head" <=> queuePc["rpc"] = "head")
  BY <1>1, <1>2 DEF Offering, Unlisted, Listing, Queue!Thread
<1>6. Offering => node["rpc"] \in live'
  <2>1. Offering => node["rpc"] \in live /\ node["rpc"] # NULL
    BY DEF Good, OfferOK, QueueTypes, Queue!TxQueueAssumption
  <2> QED
    BY <1>1, <2>1, HoldsIs
<1>7. OfferOK(ns)'
  BY <1>1, <1>5, <1>6 DEF Good, OfferOK
<1>8. \A u \in Queue!Thread : queuePc'[u] \in {"succ", "unlink"} <=> queuePc[u] \in {"succ", "unlink"}
  BY <1>1, <1>2
<1>9. TailOK(ns)'
  BY <1>1, <1>5, <1>8 DEF Good, TailOK
<1>10. InOrder(ns)'
  BY <1>1, <1>5 DEF Good, InOrder
<1> QED
  BY <1>1, <1>3, <1>4, <1>7, <1>9, <1>10 DEF Good, IsList

\* As long as the threads do not clash, no pointer they follow is freed.
LEMMA NoUseFreed ==
  ASSUME Queue!TxQueueAssumption, QueueTypes,
         NEW ns \in Seq(Address), Good(ns), NEW t \in Queue!Thread, Queue!UseFreed(t)
  PROVE  FALSE
<1>1. Queue!Deref(t) \in Address \ live /\ NULL \notin Address
  BY DEF Queue!UseFreed, Queue!TxQueueAssumption
<1>2. ns # <<>> => ns[1] \in live /\ ns[Len(ns)] \in live
  BY DEF Good
<1>3. CASE queuePc[t] = "link"
  <2>1. t = "rpc" /\ Unlisted
    BY <1>3 DEF QueueTypes, Queue!Thread, Unlisted
  <2> QED
    BY <1>1, <1>2, <1>3, <2>1 DEF Good, OfferOK, Queue!Deref
<1>4. CASE queuePc[t] \in {"read", "succ", "free"}
  BY <1>1, <1>2, <1>4 DEF Good, PollOK, Removing, Queue!Deref
<1> QED
  BY <1>1, <1>3, <1>4 DEF Queue!Deref
-----------------------------------------------------------------------------
LEMMA InvInit == Queue!TxQueueAssumption /\ Queue!Init => QueueInv
<1> SUFFICES ASSUME Queue!TxQueueAssumption, Queue!Init PROVE QueueInv
  OBVIOUS
<1>1. QueueTypes
  BY TypesInit
<1>2. /\ head = NULL /\ tail = NULL /\ offered = <<>> /\ taken = <<>> /\ ~damaged
      /\ \A t \in Queue!Thread : queuePc[t] = "idle"
  BY DEF Queue!Init
<1>3. ~Queue!Clash
  BY <1>2 DEF Queue!Clash, Queue!Holds, Queue!Thread
<1>4. <<>> \in Seq(Address) /\ IsList(head, next, <<>>)
  BY <1>2 DEF IsList, IsInjective
<1>5. /\ \A t \in Queue!Thread : PollOK(t, <<>>)
      /\ OfferOK(<<>>) /\ TailOK(<<>>) /\ InOrder(<<>>)
  BY <1>2 DEF PollOK, OfferOK, TailOK, InOrder, Items, Removing, Offering, Unlisted,
              Listing, Queue!Thread
<1>6. Good(<<>>)
  BY <1>4, <1>5 DEF Good
<1> QED
  BY <1>1, <1>2, <1>3, <1>4, <1>6 DEF QueueInv

\* What a step does to the list of nodes: only Link and SetHead add one, at
\* the end, and only Unlink removes one, at the front.
LEMMA GoodStep ==
  ASSUME Queue!TxQueueAssumption, QueueTypes, QueueTypes', ~Queue!Clash, ~Queue!Clash',
         NEW ns \in Seq(Address), Good(ns), Queue!Step
  PROVE  (\E ms \in Seq(Address) : Good(ms)' /\ NodesStep(ns, ms)) /\ damaged' = damaged
<1>1. ASSUME NEW x \in Item, Queue!Offer(x)
      PROVE  Good(ns)' /\ NodesStep(ns, ns) /\ damaged' = damaged
  BY <1>1, OfferGood DEF Queue!Offer, NodesStep
<1>2. ASSUME Queue!Link
      PROVE  (\E ms \in Seq(Address) : Good(ms)' /\ NodesStep(ns, ms)) /\ damaged' = damaged
  BY <1>2, LinkGood DEF Queue!Link
<1>3. ASSUME Queue!TestHead PROVE Good(ns)' /\ NodesStep(ns, ns) /\ damaged' = damaged
  BY <1>3, TestHeadGood DEF Queue!TestHead, NodesStep
<1>4. ASSUME Queue!SetHead
      PROVE  (\E ms \in Seq(Address) : Good(ms)' /\ NodesStep(ns, ms)) /\ damaged' = damaged
  BY <1>4, SetHeadGood DEF Queue!SetHead
<1>5. ASSUME Queue!SetTail PROVE Good(ns)' /\ NodesStep(ns, ns) /\ damaged' = damaged
  BY <1>5, SetTailGood DEF Queue!SetTail, NodesStep
<1>6. ASSUME NEW t \in Queue!Thread, Queue!Poll(t)
      PROVE  Good(ns)' /\ NodesStep(ns, ns) /\ damaged' = damaged
  BY <1>6, PollGood DEF Queue!Poll, NodesStep
<1>7. ASSUME NEW t \in Queue!Thread, Queue!ReadItem(t)
      PROVE  Good(ns)' /\ NodesStep(ns, ns) /\ damaged' = damaged
  BY <1>7, ReadItemGood DEF Queue!ReadItem, NodesStep
<1>8. ASSUME NEW t \in Queue!Thread, Queue!ClearTail(t)
      PROVE  Good(ns)' /\ NodesStep(ns, ns) /\ damaged' = damaged
  BY <1>8, ClearTailGood DEF Queue!ClearTail, NodesStep
<1>9. ASSUME NEW t \in Queue!Thread, Queue!ReadNext(t)
      PROVE  Good(ns)' /\ NodesStep(ns, ns) /\ damaged' = damaged
  BY <1>9, ReadNextGood DEF Queue!ReadNext, NodesStep
<1>10. ASSUME NEW t \in Queue!Thread, Queue!Unlink(t)
       PROVE  /\ Tail(ns) \in Seq(Address) /\ Good(Tail(ns))' /\ NodesStep(ns, Tail(ns))
              /\ damaged' = damaged
  BY <1>10, UnlinkGood, HeadTailProperties DEF Queue!Unlink, NodesStep
<1>11. ASSUME NEW t \in Queue!Thread, Queue!Free(t)
       PROVE  Good(ns)' /\ NodesStep(ns, ns) /\ damaged' = damaged
  BY <1>11, FreeGood DEF Queue!Free, NodesStep
<1>12. ASSUME NEW t \in Queue!Thread, Queue!UseFreed(t) PROVE FALSE
  BY <1>12, NoUseFreed
<1> QED
  BY <1>1, <1>2, <1>3, <1>4, <1>5, <1>6, <1>7, <1>8, <1>9, <1>10, <1>11, <1>12
     DEF Queue!Step

LEMMA InvStep == Queue!TxQueueAssumption /\ QueueInv /\ [Queue!Next]_(Queue!vars) => QueueInv'
<1> SUFFICES ASSUME Queue!TxQueueAssumption, QueueInv, [Queue!Next]_(Queue!vars) PROVE QueueInv'
  OBVIOUS
<1>1. QueueTypes /\ QueueTypes'
  BY TypesStep DEF QueueInv
<1>2. CASE UNCHANGED Queue!vars
  <2>1. \A ns : Good(ns)' <=> Good(ns)
    BY <1>2 DEF Good, IsList, PollOK, OfferOK, TailOK, InOrder, Items, Removing, Offering,
                Unlisted, Listing, Queue!vars, Queue!list, Queue!locals
  <2>2. Queue!Clash' <=> Queue!Clash
    BY <1>2 DEF Queue!Clash, Queue!Holds, Queue!vars, Queue!list, Queue!locals
  <2> QED
    BY <1>1, <1>2, <2>1, <2>2 DEF QueueInv, Queue!vars
<1>3. CASE Queue!Next
  <2>1. SUFFICES ASSUME ~clashed'
                 PROVE  ~Queue!Clash' /\ ~damaged' /\ \E ms \in Seq(Address) : Good(ms)'
    BY <1>1 DEF QueueInv
  <2>2. ~clashed /\ ~Queue!Clash /\ ~Queue!Clash' /\ ~damaged
    BY <1>3, <2>1 DEF Queue!Next, QueueInv
  <2>3. PICK ns \in Seq(Address) : Good(ns)
    BY <2>2 DEF QueueInv
  <2>4. Queue!Step
    BY <1>3 DEF Queue!Next
  <2>5. (\E ms \in Seq(Address) : Good(ms)') /\ damaged' = damaged
    BY <1>1, <2>2, <2>3, <2>4, GoodStep
  <2> QED
    BY <2>2, <2>5
<1> QED
  BY <1>2, <1>3

LEMMA InvIsOnlyClashesHurt == Queue!TxQueueAssumption /\ QueueInv => OnlyClashesHurt
<1> SUFFICES ASSUME Queue!TxQueueAssumption, QueueInv, ~clashed
             PROVE  ~damaged /\ (Queue!Quiet => offered = taken \o Queue!Listed)
  BY DEF Queue!OnlyClashesHurt, OnlyClashesHurt
<1>1. PICK ns \in Seq(Address) : Good(ns)
  BY DEF QueueInv
<1>2. Queue!Listed = Items(item, ns)
  BY <1>1, ListedIs DEF Good
<1>3. ASSUME Queue!Quiet PROVE offered = taken \o Queue!Listed
  <2>1. ~Unlisted
    BY <1>3 DEF Queue!Quiet, Unlisted, Queue!Thread
  <2>2. offered = (taken \o Queue!Listed) \o <<>>
    BY <1>1, <1>2, <2>1 DEF Good, InOrder
  <2>3. Queue!Listed \in Seq(Item \cup {NULL}) /\ taken \in Seq(Item \cup {NULL})
    BY <1>1, <1>2 DEF Good, Items, QueueInv, QueueTypes
  <2>4. taken \o Queue!Listed \in Seq(Item \cup {NULL})
    BY <2>3
  <2> QED
    BY <2>2, <2>4, ConcatEmptySeq
<1> QED
  BY <1>3 DEF QueueInv

\* The list of queue.c may be used by both threads at once without a lock:
\* until they work on the same node, no transfer is lost, doubled or
\* reordered and no freed node is used, however many transfers there are.
THEOREM NothingLostBeforeClash == Spec => []OnlyClashesHurt
<1>1. Queue!TxQueueAssumption
  BY RoutinesAssumption
<1>2. Init => QueueInv
  BY <1>1, RoutinesInit, InvInit
<1>3. QueueInv /\ [Next]_vars => QueueInv'
  BY <1>1, RoutinesStep, InvStep
<1>4. QueueInv => OnlyClashesHurt
  BY <1>1, InvIsOnlyClashesHurt
<1> QED
  BY <1>2, <1>3, <1>4, PTL DEF Spec
-----------------------------------------------------------------------------
(* The list implements a queue *)

LEMMA FifoInit == Queue!TxQueueAssumption /\ Queue!Init => Queue!Ideal!Init
<1> SUFFICES ASSUME Queue!TxQueueAssumption, Queue!Init PROVE Queue!Ideal!Init
  OBVIOUS
<1>1. IsList(head, next, <<>>)
  BY DEF Queue!Init, IsList, IsInjective
<1>2. Queue!Listed = Items(item, <<>>)
  BY <1>1, ListedIs
<1> QED
  BY <1>2 DEF Items, Queue!Ideal!Init

LEMMA PutIs ==
  ASSUME NEW it, NEW ns \in Seq(Address), NEW a \in Address
  PROVE  Items(it, Append(ns, a)) = Append(Items(it, ns), it[a])
<1>1. Append(ns, a) \in Seq(Address) /\ Len(Append(ns, a)) = Len(ns) + 1 /\ Len(ns) \in Nat
  BY AppendProperties
<1>2. /\ Append(ns, a)[Len(ns) + 1] = a
      /\ \A i \in 1 .. Len(ns) : Append(ns, a)[i] = ns[i]
  BY AppendProperties
<1>3. Items(it, ns) \in Seq({it[b] : b \in Address} \cup {it[a]})
  BY DEF Items
<1> QED
  BY <1>1, <1>2, <1>3 DEF Items

LEMMA GetIs ==
  ASSUME NEW it, NEW ns \in Seq(Address), ns # <<>>
  PROVE  Items(it, ns) # <<>> /\ Items(it, Tail(ns)) = Tail(Items(it, ns))
<1>1. Len(ns) \in Nat \ {0}
  OBVIOUS
<1>2. /\ Tail(ns) \in Seq(Address) /\ Len(Tail(ns)) = Len(ns) - 1
      /\ \A i \in 1 .. Len(Tail(ns)) : Tail(ns)[i] = ns[i + 1]
  BY HeadTailProperties
<1>3. Items(it, ns) \in Seq({it[b] : b \in Address}) /\ Len(Items(it, ns)) = Len(ns)
  BY DEF Items
<1>4. Items(it, ns) # <<>>
  BY <1>1, <1>3
<1>5. /\ Tail(Items(it, ns)) \in Seq({it[b] : b \in Address})
      /\ Len(Tail(Items(it, ns))) = Len(ns) - 1
      /\ \A i \in 1 .. Len(ns) - 1 : Tail(Items(it, ns))[i] = Items(it, ns)[i + 1]
  BY <1>3, <1>4, HeadTailProperties
<1>6. Items(it, Tail(ns)) \in Seq({it[b] : b \in Address})
  BY <1>2 DEF Items
<1>7. ASSUME NEW i \in 1 .. Len(ns) - 1
      PROVE  Items(it, Tail(ns))[i] = Tail(Items(it, ns))[i]
  <2>1. i \in 1 .. Len(Tail(ns)) /\ i + 1 \in 1 .. Len(ns)
    BY <1>1, <1>2
  <2> QED
    BY <1>2, <1>5, <2>1 DEF Items
<1>8. Len(Items(it, Tail(ns))) = Len(ns) - 1
  BY <1>1, <1>2 DEF Items
<1> QED
  BY <1>4, <1>5, <1>6, <1>7, <1>8, SeqEqual

\* An item stays the same as long as its node is in use.
LEMMA ItemsStay ==
  ASSUME QueueTypes, Queue!Step, NEW a \in live
  PROVE  item'[a] = item[a]
<1>1. ASSUME NEW x \in Item, Queue!Offer(x) PROVE item'[a] = item[a]
  BY <1>1 DEF Queue!Offer, QueueTypes
<1>2. CASE Queue!Link \/ Queue!TestHead \/ Queue!SetHead \/ Queue!SetTail
  BY <1>2 DEF Queue!Link, Queue!TestHead, Queue!SetHead, Queue!SetTail, Queue!list
<1>3. ASSUME NEW t \in Queue!Thread,
             Queue!Poll(t) \/ Queue!ReadItem(t) \/ Queue!ClearTail(t) \/ Queue!ReadNext(t)
               \/ Queue!Unlink(t) \/ Queue!Free(t) \/ Queue!UseFreed(t)
      PROVE  item'[a] = item[a]
  BY <1>3 DEF Queue!Poll, Queue!ReadItem, Queue!ClearTail, Queue!ReadNext, Queue!Unlink,
     Queue!Free, Queue!UseFreed, Queue!list
<1> QED
  BY <1>1, <1>2, <1>3 DEF Queue!Step

LEMMA ListedIsNext ==
  ASSUME Queue!TxQueueAssumption
  PROVE  (\A ns : IsList(head, next, ns) => Queue!Listed = Items(item, ns))'
<1>1. \A ns : IsList(head, next, ns) => Queue!Listed = Items(item, ns)
  BY ListedIs
<1> QED
  BY <1>1, PTL

LEMMA FifoStep ==
  ASSUME Queue!TxQueueAssumption, QueueInv, [Queue!Next]_(Queue!vars)
  PROVE  [~clashed' => Queue!Ideal!Next]_(Queue!Listed)
<1>1. QueueTypes /\ QueueTypes' /\ QueueInv'
  BY TypesStep, InvStep DEF QueueInv
<1>2. CASE UNCHANGED Queue!vars
  <2>1. Queue!Path' = Queue!Path
    BY <1>2 DEF Queue!Path, Queue!vars, Queue!list
  <2> QED
    BY <1>2, <2>1 DEF Queue!Listed, Queue!vars, Queue!list
<1>3. ASSUME Queue!Next, ~clashed' PROVE Queue!Ideal!Next \/ Queue!Listed' = Queue!Listed
  <2>1. ~clashed /\ ~Queue!Clash /\ ~Queue!Clash' /\ Queue!Step
    BY <1>1, <1>3 DEF Queue!Next, QueueInv
  <2>2. PICK ns \in Seq(Address) : Good(ns)
    BY <2>1 DEF QueueInv
  <2>3. PICK ms \in Seq(Address) : Good(ms)' /\ NodesStep(ns, ms)
    BY <1>1, <2>1, <2>2, GoodStep
  <2>4. Queue!Listed = Items(item, ns)
    BY <2>2, ListedIs DEF Good
  <2>5. Queue!Listed' = Items(item', ms)
    BY <2>3, ListedIsNext DEF Good
  <2>6. \A i \in 1 .. Len(ns) : ns[i] \in live
    BY <2>2 DEF Good
  <2>7. Items(item', ns) = Items(item, ns)
    BY <1>1, <2>1, <2>6, ItemsStay DEF Items
  <2>8. CASE ms = ns
    BY <2>4, <2>5, <2>7, <2>8
  <2>9. ASSUME NEW a \in live, ms = Append(ns, a) PROVE Queue!Ideal!Next
    <3>1. a \in Address /\ item'[a] = item[a] /\ item[a] \in Item
      BY <1>1, <2>1, ItemsStay DEF QueueTypes
    <3>2. Queue!Listed' = Append(Queue!Listed, item[a])
      BY <2>4, <2>5, <2>7, <2>9, <3>1, PutIs
    <3> QED
      BY <3>1, <3>2 DEF Queue!Ideal!Next, Queue!Ideal!Put
  <2>10. CASE ns # <<>> /\ ms = Tail(ns)
    <3>1. Queue!Listed # <<>> /\ Queue!Listed' = Tail(Queue!Listed)
      BY <2>4, <2>5, <2>7, <2>10, GetIs
    <3> QED
      BY <3>1 DEF Queue!Ideal!Next, Queue!Ideal!Get
  <2> QED
    BY <2>3, <2>8, <2>9, <2>10 DEF NodesStep
<1> QED
  BY <1>2, <1>3

\* Step by step, without a lock, llqueue_offer and llqueue_poll do what a
\* queue does in one step, until the two threads work on the same node.
THEOREM QueueImplementsFifo == Spec => ImplementsFifo
<1>1. Queue!TxQueueAssumption
  BY RoutinesAssumption
<1>2. Init => QueueInv /\ Queue!Ideal!Init
  BY <1>1, RoutinesInit, InvInit, FifoInit
<1>3. QueueInv /\ [Next]_vars => QueueInv'
  BY <1>1, RoutinesStep, InvStep
<1>4. QueueInv /\ [Next]_vars => [~clashed' => Queue!Ideal!Next]_(Queue!Listed)
  BY <1>1, RoutinesStep, FifoStep
<1> QED
  BY <1>2, <1>3, <1>4, PTL DEF Spec, ImplementsFifo, Queue!ImplementsFifo
-----------------------------------------------------------------------------
(* One poller takes nothing twice, clash or not *)

Polling(t) == Removing(t) \/ queuePc[t] = "free"

\* What holds as long as nobody but t polls.
OnlyPoller(t) ==
  /\ IsInjective(offered) /\ IsInjective(taken)
  /\ \A i \in DOMAIN taken : \E j \in DOMAIN offered : taken[i] = offered[j]
  /\ \A a \in live : \E j \in DOMAIN offered : item[a] = offered[j]
  /\ \A a, b \in live : item[a] = item[b] => a = b
  /\ \A a \in live : ~(queuePc[t] = "free" /\ node[t] = a) =>
       \A i \in DOMAIN taken : taken[i] # item[a]
  /\ queuePc[t] \in {"null", "succ", "unlink"} => node[t] \in live /\ got[t] = item[node[t]]

OnceInv ==
  /\ QueueTypes
  /\ \A t \in Queue!Thread : Polling(t) => t \in pollers
  /\ \A t \in Queue!Thread : pollers \subseteq {t} => OnlyPoller(t)

LEMMA OnceInit == Queue!TxQueueAssumption /\ Queue!Init => OnceInv
<1> SUFFICES ASSUME Queue!TxQueueAssumption, Queue!Init PROVE OnceInv
  OBVIOUS
<1>1. QueueTypes
  BY TypesInit
<1>2. live = {} /\ offered = <<>> /\ taken = <<>> /\ \A t \in Queue!Thread : queuePc[t] = "idle"
  BY DEF Queue!Init
<1>3. DOMAIN offered = {} /\ DOMAIN taken = {}
  BY <1>2
<1> QED
  BY <1>1, <1>2, <1>3 DEF OnceInv, OnlyPoller, Polling, Removing, IsInjective

LEMMA PollersStep ==
  ASSUME OnceInv, QueueTypes', Queue!Next
  PROVE  \A t \in Queue!Thread : (Polling(t))' => t \in pollers'
<1> SUFFICES ASSUME NEW t \in Queue!Thread, (Polling(t))', ~Polling(t)
             PROVE  queuePc[t] = "idle" /\ queuePc'[t] = "read"
  BY DEF OnceInv, Queue!Next
<1>1. queuePc \in [Queue!Thread -> {"idle", "link", "first", "head", "tail", "read", "null",
                         "succ", "unlink", "free"}]
  BY DEF OnceInv, QueueTypes
<1> USE <1>1 DEF Polling, Removing, Queue!Goto
<1>2. ASSUME NEW x \in Item, Queue!Offer(x) PROVE FALSE
  BY <1>2 DEF Queue!Offer
<1>3. CASE Queue!Link \/ Queue!TestHead \/ Queue!SetHead \/ Queue!SetTail
  BY <1>3 DEF Queue!Link, Queue!TestHead, Queue!SetHead, Queue!SetTail
<1>4. ASSUME NEW u \in Queue!Thread, Queue!Poll(u) PROVE queuePc[t] = "idle" /\ queuePc'[t] = "read"
  BY <1>4 DEF Queue!Poll
<1>5. ASSUME NEW u \in Queue!Thread,
             Queue!ReadItem(u) \/ Queue!ClearTail(u) \/ Queue!ReadNext(u) \/ Queue!Unlink(u) \/ Queue!Free(u)
      PROVE  FALSE
  BY <1>5 DEF Queue!ReadItem, Queue!ClearTail, Queue!ReadNext, Queue!Unlink, Queue!Free
<1>6. ASSUME NEW u \in Queue!Thread, Queue!UseFreed(u) PROVE FALSE
  BY <1>6 DEF Queue!UseFreed, Queue!locals
<1> QED
  BY <1>2, <1>3, <1>4, <1>5, <1>6 DEF Queue!Next, Queue!Step

LEMMA OnceStep == Queue!TxQueueAssumption /\ OnceInv /\ [Queue!Next]_(Queue!vars) => OnceInv'
<1> SUFFICES ASSUME Queue!TxQueueAssumption, OnceInv, [Queue!Next]_(Queue!vars) PROVE OnceInv'
  OBVIOUS
<1>1. QueueTypes /\ QueueTypes'
  BY TypesStep DEF OnceInv
<1>2. CASE UNCHANGED Queue!vars
  BY <1>1, <1>2 DEF OnceInv, OnlyPoller, Polling, Removing, Queue!vars, Queue!list,
     Queue!locals
<1>3. CASE Queue!Next
  <2>1. \A t \in Queue!Thread : (Polling(t))' => t \in pollers'
    BY <1>1, <1>3, PollersStep
  <2>2. SUFFICES ASSUME NEW t \in Queue!Thread, pollers' \subseteq {t} PROVE OnlyPoller(t)'
    BY <1>1, <2>1 DEF OnceInv
  <2>3. pollers \subseteq {t} /\ OnlyPoller(t)
    BY <1>3, <2>2 DEF Queue!Next, OnceInv
  <2>4. \A u \in Queue!Thread \ {t} : ~Polling(u) /\ ~(Polling(u))'
    BY <2>1, <2>2, <2>3 DEF OnceInv
  <2>5. /\ queuePc \in [Queue!Thread -> {"idle", "link", "first", "head", "tail", "read", "null",
                              "succ", "unlink", "free"}]
        /\ node \in [Queue!Thread -> Pointer] /\ got \in [Queue!Thread -> Item \cup {NULL}]
        /\ item \in [Address -> Item \cup {NULL}] /\ live \subseteq Address
        /\ offered \in Seq(Item) /\ taken \in Seq(Item \cup {NULL})
    BY <1>1 DEF QueueTypes
  <2>6. ASSUME NEW x \in Item, Queue!Offer(x) PROVE OnlyPoller(t)'
    <3>1. PICK a \in Address \ live :
            /\ live' = live \cup {a}
            /\ item' = [item EXCEPT ![a] = x] /\ node' = [node EXCEPT !["rpc"] = a]
      BY <2>6 DEF Queue!Offer
    <3>2. /\ queuePc["rpc"] = "idle" /\ queuePc' = [queuePc EXCEPT !["rpc"] = "link"]
          /\ offered' = Append(offered, x) /\ taken' = taken /\ got' = got
          /\ \A i \in DOMAIN offered : offered[i] # x
      BY <2>6 DEF Queue!Offer, Queue!Goto
    <3>3. /\ DOMAIN offered' = DOMAIN offered \cup {Len(offered) + 1}
          /\ offered'[Len(offered) + 1] = x
          /\ \A i \in DOMAIN offered : offered'[i] = offered[i]
      BY <3>2, <2>5
    <3>4. item'[a] = x /\ \A b \in live : item'[b] = item[b]
      BY <3>1, <2>5
    <3>5. IsInjective(offered')
      BY <2>3, <3>2, <3>3 DEF OnlyPoller, IsInjective
    <3>6. /\ \A b \in live' : \E j \in DOMAIN offered' : item'[b] = offered'[j]
          /\ \A i \in DOMAIN taken : \E j \in DOMAIN offered' : taken[i] = offered'[j]
      BY <2>3, <3>1, <3>3, <3>4 DEF OnlyPoller
    <3>7. \A b, d \in live' : item'[b] = item'[d] => b = d
      BY <2>3, <3>1, <3>2, <3>4 DEF OnlyPoller
    <3>8. /\ queuePc'[t] = "free" <=> queuePc[t] = "free"
          /\ queuePc[t] = "free" => node'[t] = node[t]
          /\ queuePc'[t] \in {"null", "succ", "unlink"} => queuePc'[t] = queuePc[t] /\ node'[t] = node[t]
      BY <3>1, <3>2, <2>5
    <3>9. ASSUME NEW b \in live', ~(queuePc'[t] = "free" /\ node'[t] = b), NEW i \in DOMAIN taken
          PROVE  taken[i] # item'[b]
      <4>1. CASE b = a
        BY <2>3, <3>2, <3>4, <4>1 DEF OnlyPoller
      <4>2. CASE b # a
        BY <2>3, <3>1, <3>4, <3>8, <3>9, <4>2 DEF OnlyPoller
      <4> QED
        BY <4>1, <4>2
    <3>10. queuePc'[t] \in {"null", "succ", "unlink"} => node'[t] \in live' /\ got'[t] = item'[node'[t]]
      BY <2>3, <3>1, <3>2, <3>4, <3>8 DEF OnlyPoller
    <3> QED
      BY <2>3, <3>2, <3>5, <3>6, <3>7, <3>9, <3>10 DEF OnlyPoller
  <2>7. CASE Queue!Link \/ Queue!TestHead \/ Queue!SetHead \/ Queue!SetTail
    <3>1. /\ UNCHANGED <<item, live, node, got, offered, taken>>
          /\ queuePc'[t] \in {"free", "null", "succ", "unlink"} \/ queuePc[t] = "free" => queuePc'[t] = queuePc[t]
      BY <2>5, <2>7 DEF Queue!Link, Queue!TestHead, Queue!SetHead, Queue!SetTail,
         Queue!Goto, Queue!list
    <3> QED
      BY <2>3, <3>1 DEF OnlyPoller
  <2>8. ASSUME NEW u \in Queue!Thread, Queue!Poll(u) PROVE OnlyPoller(t)'
    <3>1. u = t
      BY <2>4, <2>5, <2>8 DEF Queue!Poll, Queue!Goto, Polling, Removing
    <3>2. UNCHANGED <<item, live, got, offered, taken>> /\ queuePc[t] = "idle" /\ queuePc'[t] = "read"
      BY <2>5, <2>8, <3>1 DEF Queue!Poll, Queue!Goto, Queue!list
    <3> QED
      BY <2>3, <3>2 DEF OnlyPoller
  <2>9. ASSUME NEW u \in Queue!Thread, Queue!ReadItem(u) PROVE OnlyPoller(t)'
    <3>1. u = t
      BY <2>4, <2>9 DEF Queue!ReadItem, Polling, Removing
    <3>2. /\ UNCHANGED <<item, live, node, offered, taken>> /\ queuePc[t] = "read"
          /\ queuePc'[t] \in {"null", "succ"} /\ node[t] \in live /\ got'[t] = item[node[t]]
      BY <2>5, <2>9, <3>1 DEF Queue!ReadItem, Queue!Goto, Queue!list
    <3> QED
      BY <2>3, <3>2 DEF OnlyPoller
  <2>10. ASSUME NEW u \in Queue!Thread, Queue!ClearTail(u) \/ Queue!ReadNext(u) PROVE OnlyPoller(t)'
    <3>1. u = t
      BY <2>4, <2>10 DEF Queue!ClearTail, Queue!ReadNext, Polling, Removing
    <3>2. /\ UNCHANGED <<item, live, node, got, offered, taken>>
          /\ queuePc[t] \in {"null", "succ"} /\ queuePc'[t] \in {"succ", "unlink"}
      BY <2>5, <2>10, <3>1 DEF Queue!ClearTail, Queue!ReadNext, Queue!Goto, Queue!list
    <3> QED
      BY <2>3, <3>2 DEF OnlyPoller
  <2>11. ASSUME NEW u \in Queue!Thread, Queue!Unlink(u) PROVE OnlyPoller(t)'
    <3>1. u = t
      BY <2>4, <2>11 DEF Queue!Unlink, Polling, Removing
    <3>2. /\ UNCHANGED <<item, live, node, got, offered>> /\ queuePc[t] = "unlink"
          /\ queuePc'[t] = "free" /\ taken' = Append(taken, got[t])
      BY <2>5, <2>11, <3>1 DEF Queue!Unlink, Queue!Goto
    <3>3. /\ node[t] \in live /\ got[t] = item[node[t]]
          /\ \A i \in DOMAIN taken : taken[i] # item[node[t]]
      BY <2>3, <3>2 DEF OnlyPoller
    <3>4. /\ DOMAIN taken' = DOMAIN taken \cup {Len(taken) + 1}
          /\ taken'[Len(taken) + 1] = item[node[t]]
          /\ \A i \in DOMAIN taken : taken'[i] = taken[i]
      BY <2>5, <3>2, <3>3
    <3>5. IsInjective(taken')
      BY <2>3, <3>3, <3>4 DEF OnlyPoller, IsInjective
    <3>6. \A i \in DOMAIN taken' : \E j \in DOMAIN offered : taken'[i] = offered[j]
      BY <2>3, <3>3, <3>4 DEF OnlyPoller
    <3>7. ASSUME NEW a \in live, node[t] # a, NEW i \in DOMAIN taken'
          PROVE  taken'[i] # item[a]
      BY <2>3, <3>2, <3>3, <3>4, <3>7 DEF OnlyPoller
    <3> QED
      BY <2>3, <3>2, <3>5, <3>6, <3>7 DEF OnlyPoller
  <2>12. ASSUME NEW u \in Queue!Thread, Queue!Free(u) PROVE OnlyPoller(t)'
    <3>1. u = t
      BY <2>4, <2>12 DEF Queue!Free, Polling
    <3>2. /\ UNCHANGED <<item, node, got, offered, taken>> /\ queuePc[t] = "free"
          /\ queuePc'[t] = "idle" /\ live' = live \ {node[t]}
      BY <2>5, <2>12, <3>1 DEF Queue!Free, Queue!Goto
    <3> QED
      BY <2>3, <3>2 DEF OnlyPoller
  <2>13. ASSUME NEW u \in Queue!Thread, Queue!UseFreed(u) PROVE OnlyPoller(t)'
    <3>1. UNCHANGED <<item, live, queuePc, node, got, offered, taken>>
      BY <2>13 DEF Queue!UseFreed, Queue!list, Queue!locals
    <3> QED
      BY <2>3, <3>1 DEF OnlyPoller
  <2> QED
    BY <1>3, <2>6, <2>7, <2>8, <2>9, <2>10, <2>11, <2>12, <2>13 DEF Queue!Next, Queue!Step
<1> QED
  BY <1>2, <1>3

LEMMA OnceIsTakenOnce == OnceInv => TakenOnce
<1> SUFFICES ASSUME OnceInv, Cardinality(pollers) <= 1 PROVE IsInjective(taken)
  BY SameCardinality, SameInjective DEF Queue!TakenOnce, TakenOnce
<1>1. pollers \subseteq {"rpc", "miner"}
  BY DEF OnceInv, QueueTypes, Queue!Thread
<1>2. ~("rpc" \in pollers /\ "miner" \in pollers)
  <2> SUFFICES ASSUME "rpc" \in pollers, "miner" \in pollers PROVE FALSE
    OBVIOUS
  <2>1. pollers = {"rpc"} \cup {"miner"}
    BY <1>1
  <2>2. IsFiniteSet({"rpc"}) /\ Cardinality({"rpc"}) = 1
    BY FS_Singleton
  <2>3. Cardinality({"rpc"} \cup {"miner"}) = Cardinality({"rpc"}) + 1
    BY <2>2, FS_AddElement
  <2> QED
    BY <2>1, <2>2, <2>3
<1>3. PICK t \in Queue!Thread : pollers \subseteq {t}
  BY <1>1, <1>2 DEF Queue!Thread
<1> QED
  BY <1>3 DEF OnceInv, OnlyPoller

\* Even where the threads clash, one that polls alone never takes a transfer a
\* second time: an unlocked list can lose a transfer, not double it.
THEOREM OnePollerTakesOnce == Spec => []TakenOnce
<1>1. Queue!TxQueueAssumption
  BY RoutinesAssumption
<1>2. Init => OnceInv
  BY <1>1, RoutinesInit, OnceInit
<1>3. OnceInv /\ [Next]_vars => OnceInv'
  BY <1>1, RoutinesStep, OnceStep
<1>4. OnceInv => TakenOnce
  BY OnceIsTakenOnce
<1> QED
  BY <1>2, <1>3, <1>4, PTL DEF Spec
-----------------------------------------------------------------------------
(* The counter beside the list *)

CountInv ==
  /\ pooled \in Int /\ poolSize \in Int
  /\ sizePc \in [Counter!Thread -> {"idle", "up", "offer", "polled", "down"}]
  /\ sizePc["miner"] \notin {"up", "offer"}
  /\ read \in [Counter!Thread -> Int] /\ fresh \in [Counter!Thread -> BOOLEAN] /\ raced \in BOOLEAN
  /\ \A t \in Counter!Thread : sizePc[t] \in {"up", "down"} /\ fresh[t] => read[t] = poolSize
  /\ SizeIsRightUntilRace

LEMMA CountInit == Counter!Init => CountInv
<1> SUFFICES ASSUME Counter!Init PROVE CountInv
  OBVIOUS
<1>1. /\ pooled = 0 /\ poolSize = 0 /\ raced = FALSE /\ sizePc = [t \in Counter!Thread |-> "idle"]
      /\ read = [t \in Counter!Thread |-> 0] /\ fresh = [t \in Counter!Thread |-> FALSE]
  BY DEF Counter!Init, Counter!Thread
<1>2. sizePc["rpc"] = "idle" /\ sizePc["miner"] = "idle"
  BY <1>1 DEF Counter!Thread
<1>3. Counter!OnTheWay = 0
  BY <1>2 DEF Counter!OnTheWay
<1>4. Counter!Error = 0
  BY <1>1, <1>3 DEF Counter!Error
<1>5. /\ sizePc \in [Counter!Thread -> {"idle", "up", "offer", "polled", "down"}]
      /\ read \in [Counter!Thread -> Int] /\ fresh \in [Counter!Thread -> BOOLEAN]
      /\ \A t \in Counter!Thread : ~fresh[t]
  BY <1>1
<1>6. pooled \in Int /\ poolSize \in Int
  BY <1>1
<1>7. raced \in BOOLEAN
  BY <1>1
<1> QED
  BY <1>2, <1>4, <1>5, <1>6, <1>7
     DEF CountInv, SizeIsRightUntilRace, Counter!SizeIsRightUntilRace

\* What the second half of an update does: only a fresh reading keeps it right.
LEMMA SaveIs ==
  ASSUME CountInv, NEW t \in Counter!Thread, NEW v, Counter!Save(t, v)
  PROVE  /\ poolSize' = v
         /\ fresh' \in [Counter!Thread -> BOOLEAN] /\ raced' \in BOOLEAN
         /\ \A u \in Counter!Thread : fresh'[u] => u = t
         /\ ~raced' => ~raced /\ fresh[t]
<1>1. /\ poolSize' = v /\ fresh' = [u \in Counter!Thread |-> fresh[u] /\ u = t]
      /\ raced' = (raced \/ ~fresh[t])
  BY DEF Counter!Save, Counter!Thread
<1>2. \A u \in Counter!Thread : fresh'[u] = (fresh[u] /\ u = t)
  BY <1>1
<1>3. \A u \in Counter!Thread : (fresh[u] /\ u = t) \in BOOLEAN
  OBVIOUS
<1>4. fresh' \in [Counter!Thread -> BOOLEAN]
  BY <1>1, <1>3
<1> QED
  BY <1>1, <1>2, <1>4

LEMMA CountStep == CountInv /\ [Counter!Next]_(Counter!vars) => CountInv'
<1> SUFFICES ASSUME CountInv, [Counter!Next]_(Counter!vars) PROVE CountInv'
  OBVIOUS
<1> USE DEF CountInv, SizeIsRightUntilRace, Counter!SizeIsRightUntilRace, Counter!Error,
            Counter!OnTheWay, Counter!Goto, Counter!Thread
<1>1. CASE Counter!ReadUp
  BY <1>1 DEF Counter!ReadUp, Counter!Load
<1>2. CASE Counter!WriteUp
  <2>1. Counter!Save("rpc", read["rpc"] + 1) /\ sizePc["rpc"] = "up"
    BY <1>2 DEF Counter!WriteUp
  <2>2. /\ poolSize' = read["rpc"] + 1
        /\ fresh' \in [Counter!Thread -> BOOLEAN] /\ raced' \in BOOLEAN
        /\ \A u \in Counter!Thread : fresh'[u] => u = "rpc"
        /\ ~raced' => ~raced /\ read["rpc"] = poolSize
    BY <2>1, SaveIs
  <2> QED
    BY <1>2, <2>2 DEF Counter!WriteUp
<1>3. CASE Counter!Offer
  BY <1>3 DEF Counter!Offer
<1>4. ASSUME NEW t \in Counter!Thread, Counter!Poll(t) PROVE CountInv'
  BY <1>4 DEF Counter!Poll
<1>5. ASSUME NEW t \in Counter!Thread, Counter!ReadDown(t) PROVE CountInv'
  BY <1>5 DEF Counter!ReadDown, Counter!Load
<1>6. ASSUME NEW t \in Counter!Thread, Counter!WriteDown(t) PROVE CountInv'
  <2>1. Counter!Save(t, read[t] - 1) /\ sizePc[t] = "down"
    BY <1>6 DEF Counter!WriteDown
  <2>2. /\ poolSize' = read[t] - 1
        /\ fresh' \in [Counter!Thread -> BOOLEAN] /\ raced' \in BOOLEAN
        /\ \A u \in Counter!Thread : fresh'[u] => u = t
        /\ ~raced' => ~raced /\ read[t] = poolSize
    BY <2>1, SaveIs
  <2> QED
    BY <1>6, <2>2 DEF Counter!WriteDown
<1>7. CASE UNCHANGED Counter!vars
  BY <1>7 DEF Counter!vars
<1> QED
  BY <1>1, <1>2, <1>3, <1>4, <1>5, <1>6, <1>7 DEF Counter!Next

\* txpool_size_ is right until a thread writes what it made of a reading that
\* the other has outdated.
THEOREM SizeIsRight == Spec => []SizeIsRightUntilRace
<1>1. CountInv => SizeIsRightUntilRace
  BY DEF CountInv
<1> QED
  BY <1>1, RoutinesInit, RoutinesStep, CountInit, CountStep, PTL DEF Spec
-----------------------------------------------------------------------------
(* The sorted list implements a finite function *)

LEMMA MapFinite == \A S : Map!IsFiniteSet(S) <=> IsFiniteSet(S)
  BY DEF Map!IsFiniteSet, IsFiniteSet

LEMMA MapCardinality ==
  \A S : Map!Cardinality(S) = Cardinality(S) /\ Map!Ideal!Cardinality(S) = Cardinality(S)
  BY DEF Map!Cardinality, Map!Ideal!Cardinality, Cardinality

MapTypes ==
  /\ used \subseteq Address
  /\ key \in [Address -> Key \cup {NULL}] /\ value \in [Address -> Value \cup {NULL}]
  /\ succ \in [Address -> Pointer]
  /\ \A a \in used : key[a] \in Key

\* ns are the nodes of the map: all that malloc gave, in the order of their keys.
SortedNodes(ns) ==
  /\ IsList(first, succ, ns)
  /\ used = {ns[i] : i \in 1 .. Len(ns)}
  /\ \A i, j \in 1 .. Len(ns) : i < j => key[ns[i]] < key[ns[j]]
  /\ size = Len(ns)

MapInv == MapTypes /\ \E ns \in Seq(Address) : SortedNodes(ns)

\* Between the nodes i and i + 1 is the place of k.
PlaceOf(ns, k, i) ==
  /\ i \in 0 .. Len(ns)
  /\ \A j \in 1 .. i : key[ns[j]] < k
  /\ \A j \in (i + 1) .. Len(ns) : k <= key[ns[j]]

\* What map_find returns for k, the place of k being i.
FindsAt(ns, k, i) ==
  /\ PlaceOf(ns, k, i)
  /\ Map!map_find(k).prev = IF i = 0 THEN NULL ELSE ns[i]
  /\ Map!map_find(k).node = IF i < Len(ns) THEN ns[i + 1] ELSE NULL
  /\ Map!map_find(k).exact <=> i < Len(ns) /\ k = key[ns[i + 1]]

\* What a sorted sequence of nodes gives: the pointers lead along it.
LEMMA SortedFacts ==
  ASSUME Map!SortedMapAssumption, MapTypes, NEW ns, SortedNodes(ns)
  PROVE  /\ ns \in Seq(Address) /\ Len(ns) \in Nat /\ (ns = <<>> <=> Len(ns) = 0)
         /\ Cardinality(Address) \in Nat /\ Len(ns) <= Cardinality(Address)
         /\ Cardinality(1 .. Len(ns)) = Len(ns)
         /\ \A i \in 1 .. Len(ns) :
              ns[i] \in used /\ ns[i] \in Address /\ ns[i] # NULL /\ key[ns[i]] \in Nat
         /\ \A i, j \in 1 .. Len(ns) : ns[i] = ns[j] => i = j
         /\ Map!Path = Places(ns)
<1>1. IsFiniteSet(Address) /\ NULL \notin Address /\ Key \subseteq Nat
  BY MapFinite DEF Map!SortedMapAssumption
<1>2. ns \in Seq(Address) /\ IsInjective(ns) /\ IsList(first, succ, ns)
  BY DEF SortedNodes, IsList
<1>3. Follows(Places(ns), first, succ)
  BY <1>1, <1>2, PlacesFollow
<1>4. Follows(Map!Path, first, succ)
  BY <1>3, MapCardinality DEF Map!Path, Follows
<1>5. Map!Path = Places(ns)
  BY <1>1, <1>3, <1>4, FollowsOnce
<1>6. \A i \in 1 .. Len(ns) : ns[i] \in used /\ ns[i] \in Address
  BY <1>2 DEF SortedNodes
<1>7. \A i \in 1 .. Len(ns) : key[ns[i]] \in Nat /\ ns[i] # NULL
  BY <1>1, <1>6 DEF MapTypes
<1>8. \A i, j \in 1 .. Len(ns) : ns[i] = ns[j] => i = j
  BY <1>2 DEF IsInjective
<1> QED
  BY <1>1, <1>2, <1>5, <1>6, <1>7, <1>8, ListFits

\* map_find stops at the place of its key.
LEMMA FindIs ==
  ASSUME Map!SortedMapAssumption, MapTypes, NEW ns, SortedNodes(ns), NEW k \in Key
  PROVE  \E i : FindsAt(ns, k, i)
<1> DEFINE N == Cardinality(Address)
           P == Places(ns)
           S == {j \in 0 .. N : P[j] = NULL \/ Map!cmp(k, P[j]) <= 0}
           i == Map!Min(S)
<1>1. /\ Len(ns) \in Nat /\ N \in Nat /\ Len(ns) <= N /\ Map!Path = P /\ k \in Nat
      /\ \A j \in 1 .. Len(ns) : ns[j] # NULL /\ key[ns[j]] \in Nat
      /\ \A j \in 0 .. N : P[j] = IF j < Len(ns) THEN ns[j + 1] ELSE NULL
      /\ DOMAIN P = 0 .. N
  BY SortedFacts DEF Places, Map!SortedMapAssumption
<1>2. \A j \in 1 .. Len(ns) : /\ Map!cmp(k, ns[j]) <= 0 <=> k <= key[ns[j]]
                              /\ Map!cmp(k, ns[j]) = 0 <=> k = key[ns[j]]
  BY <1>1 DEF Map!cmp, Map!Sign
<1> HIDE DEF N, P
<1>3. S \subseteq Nat /\ Len(ns) \in S
  BY <1>1
<1>4. i \in S /\ \A y \in S : i <= y
  <2>1. PICK x \in S : \A y \in S : x <= y
    <3> HIDE DEF S
    <3> QED
      BY <1>3, LeastNat
  <2> QED
    BY <2>1 DEF Map!Min
<1>5. /\ Map!map_find(k).prev = IF i = 0 THEN NULL ELSE P[i - 1]
      /\ Map!map_find(k).node = P[i]
      /\ Map!map_find(k).exact <=> P[i] # NULL /\ Map!cmp(k, P[i]) = 0
  BY <1>1 DEF Map!map_find
<1> HIDE DEF i
<1>6. i \in 0 .. Len(ns)
  BY <1>1, <1>3, <1>4
<1>7. ASSUME NEW j \in 1 .. i PROVE key[ns[j]] < k
  <2>1. j - 1 \in 0 .. N /\ j - 1 < Len(ns) /\ j - 1 \notin S /\ j \in 1 .. Len(ns)
    BY <1>1, <1>3, <1>4, <1>6
  <2>2. P[j - 1] = ns[j]
    BY <2>1, <1>1
  <2> QED
    BY <2>1, <2>2, <1>1, <1>2
<1>8. i < Len(ns) => i + 1 \in 1 .. Len(ns) /\ P[i] = ns[i + 1] /\ k <= key[ns[i + 1]]
  BY <1>1, <1>2, <1>4, <1>6
<1>9. ASSUME NEW j \in (i + 1) .. Len(ns) PROVE k <= key[ns[j]]
  <2>1. i < Len(ns) /\ j \in 1 .. Len(ns) /\ (j = i + 1 \/ i + 1 < j)
    BY <1>1, <1>6
  <2> QED
    BY <2>1, <1>1, <1>8 DEF SortedNodes
<1>10. PlaceOf(ns, k, i)
  BY <1>6, <1>7, <1>9 DEF PlaceOf
<1>11. (IF i = 0 THEN NULL ELSE P[i - 1]) = (IF i = 0 THEN NULL ELSE ns[i])
  BY <1>1, <1>6
<1>12. P[i] = IF i < Len(ns) THEN ns[i + 1] ELSE NULL
  BY <1>1, <1>6
<1>13. P[i] # NULL /\ Map!cmp(k, P[i]) = 0 <=> i < Len(ns) /\ k = key[ns[i + 1]]
  BY <1>1, <1>2, <1>8, <1>12
<1> QED
  BY <1>5, <1>10, <1>11, <1>12, <1>13 DEF FindsAt

\* What the list stands for, in terms of its nodes.
ContentsOfNodes ==
  /\ \A a, b \in used : key[a] = key[b] => a = b
  /\ DOMAIN Map!Contents = {key[a] : a \in used}
  /\ Map!Contents = [k \in DOMAIN Map!Contents |-> Map!Contents[k]]
  /\ \A a \in used : Map!Contents[key[a]] = value[a]
  /\ size = Cardinality(DOMAIN Map!Contents)

\* The contents are the keys of the nodes with their values.
LEMMA ContentsIs == Map!SortedMapAssumption /\ MapInv => ContentsOfNodes
<1> SUFFICES ASSUME Map!SortedMapAssumption, MapTypes, NEW ns, SortedNodes(ns)
             PROVE  ContentsOfNodes
  BY DEF MapInv
<1> DEFINE N == Cardinality(Address)
           D == {key[a] : a \in used}
<1>1. /\ Len(ns) \in Nat /\ N \in Nat /\ Len(ns) <= N /\ Map!Path = Places(ns)
      /\ \A i \in 1 .. Len(ns) : ns[i] \in used /\ ns[i] # NULL /\ key[ns[i]] \in Nat
      /\ \A i, j \in 1 .. Len(ns) : ns[i] = ns[j] => i = j
      /\ Cardinality(1 .. Len(ns)) = Len(ns)
  BY SortedFacts
<1>2. \A a \in used : \E i \in 1 .. Len(ns) : a = ns[i]
  BY DEF SortedNodes
<1>3. Map!Listed = used
  <2>1. /\ DOMAIN Places(ns) = 0 .. N
        /\ \A j \in 0 .. N : Places(ns)[j] = IF j < Len(ns) THEN ns[j + 1] ELSE NULL
    BY DEF Places
  <2> HIDE DEF N
  <2>2. ASSUME NEW a \in used PROVE a \in Map!Listed
    <3>1. PICK i \in 1 .. Len(ns) : a = ns[i]
      BY <1>2
    <3>2. i - 1 \in 0 .. N /\ Places(ns)[i - 1] = a /\ a # NULL
      BY <1>1, <2>1, <3>1
    <3> QED
      BY <1>1, <2>1, <3>2 DEF Map!Listed
  <2>3. ASSUME NEW a \in Map!Listed PROVE a \in used
    <3>1. PICK j \in 0 .. N : a = Places(ns)[j] /\ a # NULL
      BY <1>1, <2>1 DEF Map!Listed
    <3> QED
      BY <1>1, <2>1, <3>1
  <2> QED
    BY <2>2, <2>3
<1>4. ASSUME NEW a \in used, NEW b \in used, key[a] = key[b] PROVE a = b
  <2>1. PICK i \in 1 .. Len(ns), j \in 1 .. Len(ns) : a = ns[i] /\ b = ns[j]
    BY <1>2
  <2>2. ~(i < j) /\ ~(j < i)
    BY <1>1, <1>4, <2>1 DEF SortedNodes
  <2> QED
    BY <2>1, <2>2
<1>5. Map!Contents = [k \in D |-> value[CHOOSE a \in used : key[a] = k]]
  BY <1>3 DEF Map!Contents
<1>6. DOMAIN Map!Contents = D /\ Map!Contents = [k \in D |-> Map!Contents[k]]
  BY <1>5
<1>7. ASSUME NEW a \in used PROVE Map!Contents[key[a]] = value[a]
  <2>1. key[a] \in D
    OBVIOUS
  <2>2. (CHOOSE b \in used : key[b] = key[a]) = a
    BY <1>4
  <2> HIDE DEF D
  <2> QED
    BY <2>1, <2>2, <1>5
<1>8. size = Cardinality(D)
  <2> DEFINE f == [i \in 1 .. Len(ns) |-> key[ns[i]]]
  <2>1. f \in [1 .. Len(ns) -> D]
    BY <1>1
  <2>2. \A i, j \in 1 .. Len(ns) : f[i] = f[j] => i = j
    BY <1>1, <1>4
  <2>3. \A d \in D : \E i \in 1 .. Len(ns) : f[i] = d
    BY <1>2
  <2> HIDE DEF f, D
  <2>4. ExistsBijection(1 .. Len(ns), D)
    BY <2>1, <2>2, <2>3 DEF ExistsBijection, Bijection, Injection, Surjection, IsInjective
  <2>5. IsFiniteSet(1 .. Len(ns))
    BY <1>1, FS_Interval
  <2>6. Cardinality(D) = Cardinality(1 .. Len(ns))
    BY <2>4, <2>5, FS_Bijection
  <2> QED
    BY <1>1, <2>6 DEF SortedNodes
<1> QED
  BY <1>4, <1>6, <1>7, <1>8 DEF ContentsOfNodes

LEMMA ContentsIsNext ==
  ASSUME Map!SortedMapAssumption
  PROVE  MapInv' => ContentsOfNodes'
<1>1. MapInv => ContentsOfNodes
  BY ContentsIs
<1> QED
  BY <1>1, PTL
-----------------------------------------------------------------------------
\* A step of the function, from what it does to its contents.
LEMMA BecomeIs ==
  ASSUME ContentsOfNodes', NEW m, m = [k \in DOMAIN m |-> m[k]],
         DOMAIN m = {key'[a] : a \in used'}, \A a \in used' : m[key'[a]] = value'[a]
  PROVE  Map!Ideal!Become(m)
<1>1. DOMAIN Map!Contents' = DOMAIN m /\ Map!Contents' = [k \in DOMAIN m |-> Map!Contents'[k]]
  BY DEF ContentsOfNodes
<1>2. ASSUME NEW k \in DOMAIN m PROVE Map!Contents'[k] = m[k]
  <2>1. PICK a \in used' : k = key'[a]
    OBVIOUS
  <2> QED
    BY <2>1 DEF ContentsOfNodes
<1>3. Map!Contents' = m
  BY <1>1, <1>2
<1>4. size' = Cardinality(DOMAIN m)
  BY <1>1 DEF ContentsOfNodes
<1> QED
  BY <1>3, <1>4, MapCardinality DEF Map!Ideal!Become

\* The key a search is for is in the list exactly if the search is exact.
LEMMA FoundIs ==
  ASSUME Map!SortedMapAssumption, MapTypes, NEW ns, SortedNodes(ns), NEW k \in Key, NEW i,
         PlaceOf(ns, k, i)
  PROVE  (i < Len(ns) /\ k = key[ns[i + 1]]) <=> (\E a \in used : key[a] = k)
<1>1. Len(ns) \in Nat /\ k \in Nat /\ \A j \in 1 .. Len(ns) : key[ns[j]] \in Nat /\ ns[j] \in used
  BY SortedFacts DEF Map!SortedMapAssumption
<1>2. ASSUME i < Len(ns), k = key[ns[i + 1]] PROVE \E a \in used : key[a] = k
  <2>1. i + 1 \in 1 .. Len(ns)
    BY <1>1, <1>2 DEF PlaceOf
  <2> QED
    BY <2>1, <1>1, <1>2
<1>3. ASSUME NEW a \in used, key[a] = k PROVE i < Len(ns) /\ k = key[ns[i + 1]]
  <2>1. PICK j \in 1 .. Len(ns) : a = ns[j]
    BY DEF SortedNodes
  <2>2. i \in 0 .. Len(ns) /\ j \notin 1 .. i
    BY <1>1, <1>3, <2>1 DEF PlaceOf
  <2>3. i < Len(ns) /\ i + 1 \in 1 .. Len(ns) /\ (j = i + 1 \/ i + 1 < j)
    BY <1>1, <2>1, <2>2
  <2>4. k <= key[ns[i + 1]]
    BY <2>3, <1>1 DEF PlaceOf
  <2>5. key[ns[i + 1]] <= k
    <3>1. key[ns[j]] = k /\ key[ns[i + 1]] \in Nat
      BY <1>1, <1>3, <2>1, <2>3
    <3>2. CASE j = i + 1
      BY <1>1, <3>1, <3>2
    <3>3. CASE i + 1 < j
      <4>1. key[ns[i + 1]] < key[ns[j]]
        BY <2>3, <3>3 DEF SortedNodes
      <4> QED
        BY <1>1, <3>1, <4>1
    <3> QED
      BY <2>3, <3>2, <3>3
  <2> QED
    BY <1>1, <2>3, <2>4, <2>5
<1> QED
  BY <1>2, <1>3

\* The empty list is the empty function.
LEMMA MapInit == Map!SortedMapAssumption /\ Map!Init => MapInv /\ Map!Ideal!Init
<1> SUFFICES ASSUME Map!SortedMapAssumption, Map!Init PROVE MapInv /\ Map!Ideal!Init
  OBVIOUS
<1>1. /\ first = NULL /\ size = 0 /\ used = {} /\ answer = NULL
      /\ key \in [Address -> {NULL}] /\ value \in [Address -> {NULL}]
      /\ succ \in [Address -> {NULL}]
  BY DEF Map!Init
<1>2. MapTypes
  BY <1>1 DEF MapTypes, Pointer
<1>3. <<>> \in Seq(Address) /\ Len(<<>>) = 0 /\ IsInjective(<<>>)
  BY DEF IsInjective
<1>4. SortedNodes(<<>>)
  BY <1>1, <1>3 DEF SortedNodes, IsList
<1>5. MapInv
  BY <1>2, <1>3, <1>4 DEF MapInv
<1>6. DOMAIN Map!Contents = {} /\ Map!Contents = [k \in {} |-> Map!Contents[k]]
  <2>1. /\ DOMAIN Map!Contents = {key[a] : a \in used}
        /\ Map!Contents = [k \in DOMAIN Map!Contents |-> Map!Contents[k]]
    BY <1>5, ContentsIs DEF ContentsOfNodes
  <2>2. DOMAIN Map!Contents = {}
    BY <1>1, <2>1
  <2> QED
    BY ONLY <2>1, <2>2
<1>7. Map!Contents = <<>>
  BY <1>6
<1> QED
  BY <1>1, <1>5, <1>7 DEF Map!Ideal!Init

\* map_get changes nothing and answers with the value of the key.
LEMMA GetStep ==
  ASSUME Map!SortedMapAssumption, MapInv, NEW k \in Key, Map!Get(k)
  PROVE  MapInv' /\ Map!Ideal!Lookup(k)
<1>1. PICK ns \in Seq(Address) : SortedNodes(ns) /\ MapTypes
  BY DEF MapInv
<1>2. PICK i : FindsAt(ns, k, i)
  BY <1>1, FindIs
<1>3. UNCHANGED <<first, size, key, value, succ, used>>
  BY DEF Map!Get, Map!nodes
<1>4. MapInv'
  BY <1>1, <1>3 DEF MapInv, MapTypes, SortedNodes
<1>5. Map!Path' = Map!Path
  BY <1>3 DEF Map!Path
<1>6. Map!Contents' = Map!Contents
  BY <1>3, <1>5 DEF Map!Contents, Map!Listed
<1>7. ContentsOfNodes
  BY ContentsIs
<1>8. answer' = IF k \in DOMAIN Map!Contents THEN Map!Contents[k] ELSE NULL
  <2>1. CASE i < Len(ns) /\ k = key[ns[i + 1]]
    <3>1. ns[i + 1] \in used
      BY <1>1, <1>2, <2>1, SortedFacts DEF FindsAt, PlaceOf
    <3>2. answer' = value[ns[i + 1]]
      BY <1>2, <2>1 DEF Map!Get, FindsAt
    <3> QED
      BY <1>7, <2>1, <3>1, <3>2 DEF ContentsOfNodes
  <2>2. CASE ~(i < Len(ns) /\ k = key[ns[i + 1]])
    <3>1. answer' = NULL
      BY <1>2, <2>2 DEF Map!Get, FindsAt
    <3>2. k \notin DOMAIN Map!Contents
      BY <1>1, <1>2, <1>7, <2>2, FoundIs DEF ContentsOfNodes, FindsAt
    <3> QED
      BY <3>1, <3>2
  <2> QED
    BY <2>1, <2>2
<1> QED
  BY <1>3, <1>4, <1>6, <1>8 DEF Map!Ideal!Lookup

\* map_set with a key that is in the list.
LEMMA ReplaceStep ==
  ASSUME Map!SortedMapAssumption, MapInv, NEW k \in Key, NEW v \in Value, Map!Replace(k, v)
  PROVE  MapInv' /\ Map!Ideal!Set(k, v)
<1>1. PICK ns \in Seq(Address) : SortedNodes(ns) /\ MapTypes
  BY DEF MapInv
<1>2. PICK i : FindsAt(ns, k, i)
  BY <1>1, FindIs
<1> DEFINE n == ns[i + 1]
<1>3. n \in used /\ n \in Address /\ key[n] = k /\ Map!map_find(k).node = n
  <2>1. i < Len(ns) /\ k = key[ns[i + 1]]
    BY <1>2 DEF Map!Replace, FindsAt
  <2> QED
    BY <1>1, <1>2, <2>1, SortedFacts DEF FindsAt, PlaceOf
<1>4. /\ UNCHANGED <<first, size, key, succ, used>>
      /\ value' = [value EXCEPT ![n] = v] /\ answer' = 0
  BY <1>3 DEF Map!Replace
<1> HIDE DEF n
<1>5. MapTypes'
  BY <1>1, <1>3, <1>4 DEF MapTypes
<1>6. MapInv'
  BY <1>1, <1>4, <1>5 DEF MapInv, SortedNodes
<1>7. ContentsOfNodes /\ ContentsOfNodes'
  BY <1>6, ContentsIs, ContentsIsNext
<1> DEFINE m == [x \in DOMAIN Map!Contents \cup {k} |-> IF x = k THEN v ELSE Map!Contents[x]]
<1>8. DOMAIN m = {key'[a] : a \in used'}
  BY <1>3, <1>4, <1>7 DEF ContentsOfNodes
<1>9. ASSUME NEW a \in used' PROVE m[key'[a]] = value'[a]
  <2>1. a \in used /\ key'[a] = key[a] /\ key[a] \in DOMAIN Map!Contents
    BY <1>4, <1>7 DEF ContentsOfNodes
  <2>2. CASE a = n
    BY <1>1, <1>3, <1>4, <2>1, <2>2 DEF MapTypes
  <2>3. CASE a # n
    <3>1. key[a] # k
      BY <1>3, <1>7, <2>1, <2>3 DEF ContentsOfNodes
    <3>2. value'[a] = value[a]
      BY <1>1, <1>4, <2>3 DEF MapTypes
    <3> QED
      BY <1>7, <2>1, <3>1, <3>2 DEF ContentsOfNodes
  <2> QED
    BY <2>2, <2>3
<1>10. m = [x \in DOMAIN m |-> m[x]]
  OBVIOUS
<1>11. Map!Ideal!Become(m)
  <2> HIDE DEF m
  <2> QED
    BY <1>7, <1>8, <1>9, <1>10, BecomeIs
<1> QED
  BY <1>4, <1>6, <1>11 DEF Map!Ideal!Set

\* map_set without memory leaves the list as it is.
LEMMA FailStep ==
  ASSUME Map!SortedMapAssumption, MapInv, NEW k \in Key, Map!InsertFails(k)
  PROVE  MapInv' /\ Map!Ideal!Refuse(k)
<1>1. PICK ns \in Seq(Address) : SortedNodes(ns) /\ MapTypes
  BY DEF MapInv
<1>2. PICK i : FindsAt(ns, k, i)
  BY <1>1, FindIs
<1>3. UNCHANGED <<first, size, key, value, succ, used>> /\ answer' = -1
  BY DEF Map!InsertFails, Map!nodes
<1>4. MapInv'
  BY <1>1, <1>3 DEF MapInv, MapTypes, SortedNodes
<1>5. Map!Path' = Map!Path
  BY <1>3 DEF Map!Path
<1>6. Map!Contents' = Map!Contents
  BY <1>3, <1>5 DEF Map!Contents, Map!Listed
<1>7. ~(i < Len(ns) /\ k = key[ns[i + 1]])
  BY <1>2 DEF Map!InsertFails, FindsAt
<1>8. k \notin DOMAIN Map!Contents
  BY <1>1, <1>2, <1>7, FoundIs, ContentsIs DEF ContentsOfNodes, FindsAt
<1> QED
  BY <1>3, <1>4, <1>6, <1>8 DEF Map!Ideal!Refuse
-----------------------------------------------------------------------------
\* Nodes in the order of their keys are distinct.
LEMMA SortedIsInjective ==
  ASSUME NEW ns, ns \in Seq(Address), NEW ky, \A i \in 1 .. Len(ns) : ky[ns[i]] \in Nat,
         \A i, j \in 1 .. Len(ns) : i < j => ky[ns[i]] < ky[ns[j]]
  PROVE  IsInjective(ns)
<1>1. DOMAIN ns = 1 .. Len(ns) /\ Len(ns) \in Nat
  OBVIOUS
<1>2. ASSUME NEW i \in 1 .. Len(ns), NEW j \in 1 .. Len(ns), ns[i] = ns[j] PROVE i = j
  <2>1. ~(i < j) /\ ~(j < i)
    BY <1>2
  <2> QED
    BY <2>1, <1>1
<1> QED
  BY <1>1, <1>2 DEF IsInjective

\* map_set puts the new node between two others.
LEMMA InsertStep ==
  ASSUME Map!SortedMapAssumption, MapInv, NEW k \in Key, NEW v \in Value, Map!Insert(k, v)
  PROVE  MapInv' /\ Map!Ideal!Set(k, v)
<1>1. PICK ns \in Seq(Address) : SortedNodes(ns) /\ MapTypes
  BY DEF MapInv
<1>2. PICK i : FindsAt(ns, k, i)
  BY <1>1, FindIs
<1> DEFINE L == Len(ns)
           nd == IF i < L THEN ns[i + 1] ELSE NULL
<1>3. /\ L \in Nat /\ i \in 0 .. L /\ k \in Nat /\ (ns = <<>> <=> L = 0)
      /\ \A j \in 1 .. L :
           ns[j] \in used /\ ns[j] \in Address /\ ns[j] # NULL /\ key[ns[j]] \in Nat
      /\ \A j, m \in 1 .. L : ns[j] = ns[m] => j = m
  BY <1>1, <1>2, SortedFacts DEF FindsAt, PlaceOf, Map!SortedMapAssumption
<1>4. \A b \in used : key[b] # k
  BY <1>1, <1>2, FoundIs DEF FindsAt, Map!Insert
<1>5. Map!map_find(k).node = nd /\ (Map!map_find(k).prev = NULL <=> i = 0)
      /\ (i # 0 => Map!map_find(k).prev = ns[i])
  BY <1>2, <1>3 DEF FindsAt
<1>6. PICK a \in Address \ used :
        /\ used' = used \cup {a}
        /\ key' = [key EXCEPT ![a] = k] /\ value' = [value EXCEPT ![a] = v]
        /\ succ' = IF i = 0 THEN [succ EXCEPT ![a] = nd]
                   ELSE [succ EXCEPT ![a] = nd, ![ns[i]] = a]
        /\ first' = IF i = 0 THEN a ELSE first
  BY <1>5 DEF Map!Insert
<1>7. size' = L + 1 /\ answer' = 0
  BY <1>1, <1>3 DEF Map!Insert, SortedNodes, IsList
<1>8. nd \in Pointer
  BY <1>3 DEF Pointer
<1>9. /\ key'[a] = k /\ value'[a] = v /\ succ'[a] = nd
      /\ \A b \in Address \ {a} : key'[b] = key[b] /\ value'[b] = value[b]
      /\ \A j \in 1 .. L : succ'[ns[j]] = IF j = i THEN a ELSE succ[ns[j]]
  BY <1>1, <1>3, <1>6 DEF MapTypes
<1>10. MapTypes'
  <2>1. succ' \in [Address -> Pointer]
    BY <1>1, <1>6, <1>8 DEF MapTypes, Pointer
  <2> QED
    BY <1>1, <1>6, <1>9, <2>1 DEF MapTypes
<1> HIDE DEF nd
<1> DEFINE ms == [j \in 1 .. L + 1 |-> IF j <= i THEN ns[j]
                                       ELSE IF j = i + 1 THEN a ELSE ns[j - 1]]
<1>11. /\ ms \in Seq(Address) /\ Len(ms) = L + 1
       /\ \A j \in 1 .. L + 1 : ms[j] = IF j <= i THEN ns[j]
                                        ELSE IF j = i + 1 THEN a ELSE ns[j - 1]
  <2>1. \A j \in 1 .. L + 1 : ms[j] \in Address
    BY <1>3
  <2> QED
    BY <1>3, <2>1
<1> HIDE DEF ms
<1>12. /\ \A j \in 1 .. i : j \in 1 .. L /\ j \in 1 .. L + 1 /\ ms[j] = ns[j]
       /\ i + 1 \in 1 .. L + 1 /\ ms[i + 1] = a
       /\ \A j \in (i + 2) .. (L + 1) : j - 1 \in 1 .. L /\ j \in 1 .. L + 1 /\ ms[j] = ns[j - 1]
  BY <1>3, <1>11
<1>13. \A j \in 1 .. L + 1 : j \in 1 .. i \/ j = i + 1 \/ j \in (i + 2) .. (L + 1)
  BY <1>3
<1>14. used' = {ms[j] : j \in 1 .. L + 1}
  <2>1. ASSUME NEW b \in used' PROVE \E j \in 1 .. L + 1 : b = ms[j]
    <3>1. CASE b = a
      BY <1>12, <3>1
    <3>2. CASE b # a
      <4>1. PICK j \in 1 .. L : b = ns[j]
        BY <1>1, <1>6, <3>2 DEF SortedNodes
      <4>2. CASE j <= i
        <5>1. j \in 1 .. i
          BY <1>3, <4>2
        <5> QED
          BY <4>1, <5>1, <1>12
      <4>3. CASE ~(j <= i)
        <5>1. j + 1 \in (i + 2) .. (L + 1) /\ j + 1 - 1 = j
          BY <1>3, <4>3
        <5> QED
          BY <4>1, <5>1, <1>12
      <4> QED
        BY <4>2, <4>3
    <3> QED
      BY <3>1, <3>2
  <2>2. ASSUME NEW j \in 1 .. L + 1 PROVE ms[j] \in used'
    BY <1>3, <1>6, <1>12, <1>13
  <2> QED
    BY <2>1, <2>2
<1>15. ASSUME NEW p \in 1 .. L + 1, NEW q \in 1 .. L + 1, p < q
       PROVE  key'[ms[p]] < key'[ms[q]]
  <2>1. \A j \in 1 .. L : key'[ns[j]] = key[ns[j]]
    BY <1>3, <1>9
  <2>2. CASE q \in 1 .. i
    <3>1. p \in 1 .. i
      BY <1>3, <1>15, <2>2
    <3> QED
      BY <1>1, <1>12, <1>15, <2>1, <2>2, <3>1 DEF SortedNodes
  <2>3. CASE q = i + 1
    <3>1. p \in 1 .. i
      BY <1>3, <1>15, <2>3
    <3>2. key[ns[p]] < k
      BY <1>2, <3>1 DEF FindsAt, PlaceOf
    <3> QED
      BY <1>9, <1>12, <2>1, <2>3, <3>1, <3>2
  <2>4. CASE q \in (i + 2) .. (L + 1)
    <3>1. ms[q] = ns[q - 1] /\ q - 1 \in 1 .. L /\ q - 1 \in (i + 1) .. L
      BY <1>3, <1>12, <2>4
    <3>2. CASE p \in 1 .. i
      <4>1. p < q - 1 /\ p \in 1 .. L
        BY <1>3, <2>4, <3>2
      <4> QED
        BY <1>1, <1>12, <2>1, <3>1, <3>2, <4>1 DEF SortedNodes
    <3>3. CASE p = i + 1
      <4>1. k <= key[ns[q - 1]] /\ key[ns[q - 1]] # k
        BY <1>2, <1>3, <1>4, <3>1 DEF FindsAt, PlaceOf
      <4> QED
        BY <1>3, <1>9, <1>12, <2>1, <3>1, <3>3, <4>1
    <3>4. CASE p \in (i + 2) .. (L + 1)
      <4>1. p - 1 < q - 1 /\ p - 1 \in 1 .. L /\ ms[p] = ns[p - 1]
        BY <1>3, <1>12, <1>15, <3>4
      <4> QED
        BY <1>1, <2>1, <3>1, <4>1 DEF SortedNodes
    <3> QED
      BY <1>13, <3>2, <3>3, <3>4
  <2> QED
    BY <1>13, <2>2, <2>3, <2>4
<1>16. IsInjective(ms)
  <2>1. ASSUME NEW j \in 1 .. Len(ms) PROVE key'[ms[j]] \in Nat
    <3>1. j \in 1 .. i \/ j = i + 1 \/ j \in (i + 2) .. (L + 1)
      BY <1>11, <1>13
    <3>2. CASE j \in 1 .. i
      BY <1>3, <1>9, <1>12, <3>2
    <3>3. CASE j = i + 1
      BY <1>3, <1>9, <1>12, <3>3
    <3>4. CASE j \in (i + 2) .. (L + 1)
      BY <1>3, <1>9, <1>12, <3>4, SMTT(30)
    <3> QED
      BY <3>1, <3>2, <3>3, <3>4
  <2> QED
    BY <1>11, <1>15, <2>1, SortedIsInjective
<1>17. first' = IF ms = <<>> THEN NULL ELSE ms[1]
  <2>1. ms # <<>> /\ 1 \in 1 .. L + 1
    BY <1>3, <1>11
  <2>2. CASE i = 0
    BY <1>6, <1>12, <2>1, <2>2
  <2>3. CASE i # 0
    <3>1. 1 \in 1 .. i /\ first = ns[1]
      BY <1>1, <1>3, <2>3 DEF SortedNodes, IsList
    <3> QED
      BY <1>6, <1>12, <2>1, <2>3, <3>1
  <2> QED
    BY <2>2, <2>3
<1>18. ASSUME NEW j \in 1 .. L + 1
       PROVE  succ'[ms[j]] = IF j = L + 1 THEN NULL ELSE ms[j + 1]
  <2>0. \A m \in 1 .. L : succ[ns[m]] = IF m = L THEN NULL ELSE ns[m + 1]
    BY <1>1 DEF SortedNodes, IsList
  <2>1. CASE j \in 1 .. i /\ j # i
    <3>1. j + 1 \in 1 .. i /\ j # L + 1 /\ j # L
      BY <1>3, <2>1
    <3> QED
      BY <1>9, <1>12, <2>0, <2>1, <3>1
  <2>2. CASE j = i /\ i # 0
    <3>1. j \in 1 .. i /\ j # L + 1
      BY <1>3, <2>2
    <3> QED
      BY <1>9, <1>12, <2>2, <3>1
  <2>3. CASE j = i + 1
    <3>1. CASE i = L
      BY <1>3, <1>9, <1>12, <2>3, <3>1 DEF nd
    <3>2. CASE i # L
      <4>1. j # L + 1 /\ j + 1 \in (i + 2) .. (L + 1) /\ j + 1 - 1 = i + 1 /\ i < L
        BY <1>3, <2>3, <3>2
      <4> QED
        BY <1>9, <1>12, <2>3, <4>1 DEF nd
    <3> QED
      BY <3>1, <3>2
  <2>4. CASE j \in (i + 2) .. (L + 1)
    <3>1. /\ ms[j] = ns[j - 1] /\ j - 1 \in 1 .. L /\ j - 1 # i
          /\ (j = L + 1 <=> j - 1 = L) /\ j - 1 + 1 = j
      BY <1>3, <1>12, <2>4
    <3>2. CASE j = L + 1
      BY <1>9, <2>0, <3>1, <3>2
    <3>3. CASE j # L + 1
      <4>1. j + 1 \in (i + 2) .. (L + 1) /\ j + 1 - 1 = j
        BY <1>3, <2>4, <3>3
      <4>2. ms[j + 1] = ns[j]
        BY <1>12, <4>1
      <4> QED
        BY <1>9, <2>0, <3>1, <3>3, <4>2
    <3> QED
      BY <3>2, <3>3
  <2>5. j \in 1 .. i /\ i = j => i # 0
    BY <1>3
  <2> QED
    BY <1>13, <2>1, <2>2, <2>3, <2>4, <2>5
<1>19. SortedNodes(ms)'
  BY <1>7, <1>11, <1>14, <1>15, <1>16, <1>17, <1>18 DEF SortedNodes, IsList
<1>20. MapInv'
  BY <1>10, <1>11, <1>19 DEF MapInv
<1>21. ContentsOfNodes /\ ContentsOfNodes'
  BY <1>20, ContentsIs, ContentsIsNext
<1> DEFINE m == [x \in DOMAIN Map!Contents \cup {k} |-> IF x = k THEN v ELSE Map!Contents[x]]
<1>22. \A b \in used : b \in Address /\ b # a /\ key'[b] = key[b] /\ value'[b] = value[b]
  BY <1>1, <1>6, <1>9 DEF MapTypes
<1>23. DOMAIN m = {key'[b] : b \in used'}
  BY <1>6, <1>9, <1>21, <1>22 DEF ContentsOfNodes
<1>24. ASSUME NEW b \in used' PROVE m[key'[b]] = value'[b]
  <2>1. CASE b = a
    BY <1>9, <2>1
  <2>2. CASE b # a
    <3>1. b \in used
      BY <1>6, <2>2
    <3> QED
      BY <1>4, <1>21, <1>22, <3>1 DEF ContentsOfNodes
  <2> QED
    BY <2>1, <2>2
<1>25. m = [x \in DOMAIN m |-> m[x]]
  OBVIOUS
<1>26. Map!Ideal!Become(m)
  <2> HIDE DEF m
  <2> QED
    BY <1>21, <1>23, <1>24, <1>25, BecomeIs
<1> QED
  BY <1>7, <1>20, <1>26 DEF Map!Ideal!Set
-----------------------------------------------------------------------------
\* map_del takes the node out of the sequence.
LEMMA DeleteStep ==
  ASSUME Map!SortedMapAssumption, MapInv, NEW k \in Key, Map!Delete(k)
  PROVE  MapInv' /\ Map!Ideal!Remove(k)
<1>1. PICK ns \in Seq(Address) : SortedNodes(ns) /\ MapTypes
  BY DEF MapInv
<1>2. PICK i : FindsAt(ns, k, i)
  BY <1>1, FindIs
<1> DEFINE L == Len(ns)
           n == ns[i + 1]
<1>3. /\ L \in Nat /\ i \in 0 .. (L - 1) /\ i + 1 \in 1 .. L /\ key[n] = k
      /\ \A j \in 1 .. L :
           ns[j] \in used /\ ns[j] \in Address /\ ns[j] # NULL /\ key[ns[j]] \in Nat
      /\ \A j, m \in 1 .. L : ns[j] = ns[m] => j = m
  <2>1. i < L /\ key[n] = k
    BY <1>2 DEF FindsAt, Map!Delete
  <2> QED
    BY <1>1, <1>2, <2>1, SortedFacts DEF FindsAt, PlaceOf
<1>4. /\ Map!map_find(k).node = n /\ (i # 0 => Map!map_find(k).prev = ns[i])
      /\ first = ns[1] /\ (n = first <=> i = 0) /\ 1 \in 1 .. L
  <2>1. ns # <<>> /\ 1 \in 1 .. L
    BY <1>3
  <2>2. first = ns[1]
    BY <1>1, <2>1 DEF SortedNodes, IsList
  <2>3. ns[i + 1] = ns[1] <=> i + 1 = 1
    BY <1>3, <2>1
  <2> QED
    BY <1>2, <1>3, <2>1, <2>2, <2>3 DEF FindsAt
<1>5. /\ first' = IF i = 0 THEN succ[first] ELSE first
      /\ succ' = IF i = 0 THEN succ ELSE [succ EXCEPT ![ns[i]] = succ[n]]
      /\ used' = used \ {n} /\ size' = size - 1 /\ UNCHANGED <<key, value, answer>>
  BY <1>4 DEF Map!Delete
<1>6. \A j \in 1 .. L : succ[ns[j]] = IF j = L THEN NULL ELSE ns[j + 1]
  BY <1>1 DEF SortedNodes, IsList
<1>7. /\ n \in used /\ n \in Address /\ succ[n] \in Pointer
      /\ \A j \in 1 .. L : j = i + 1 <=> ns[j] = n
  BY <1>1, <1>3 DEF MapTypes
<1>8. \A j \in 1 .. L : succ'[ns[j]] = IF j = i THEN succ[n] ELSE succ[ns[j]]
  <2>1. CASE i = 0
    BY <1>3, <1>5, <2>1
  <2>2. CASE i # 0
    <3>1. i \in 1 .. L
      BY <1>3, <2>2
    <3> QED
      BY <1>1, <1>3, <1>5, <2>2, <3>1 DEF MapTypes
  <2> QED
    BY <2>1, <2>2
<1>9. MapTypes'
  <2>1. CASE i = 0
    BY <1>1, <1>5, <2>1 DEF MapTypes
  <2>2. CASE i # 0
    <3>1. succ' \in [Address -> Pointer]
      BY <1>1, <1>5, <1>7, <2>2 DEF MapTypes
    <3> QED
      BY <1>1, <1>5, <3>1 DEF MapTypes
  <2> QED
    BY <2>1, <2>2
<1> HIDE DEF n
<1> DEFINE ms == [j \in 1 .. L - 1 |-> IF j <= i THEN ns[j] ELSE ns[j + 1]]
<1>10. /\ ms \in Seq(Address) /\ Len(ms) = L - 1 /\ L - 1 \in Nat
       /\ \A j \in 1 .. L - 1 : ms[j] = IF j <= i THEN ns[j] ELSE ns[j + 1]
  <2>1. L - 1 \in Nat /\ \A j \in 1 .. L - 1 : ms[j] \in Address
    BY <1>3
  <2> QED
    BY <1>3, <2>1
<1> HIDE DEF ms
<1>11. /\ \A j \in 1 .. i : j \in 1 .. L /\ j \in 1 .. L - 1 /\ ms[j] = ns[j]
       /\ \A j \in (i + 1) .. (L - 1) :
            j + 1 \in 1 .. L /\ j \in 1 .. L - 1 /\ ms[j] = ns[j + 1]
  BY <1>3, <1>10
<1>12. \A j \in 1 .. L - 1 : j \in 1 .. i \/ j \in (i + 1) .. (L - 1)
  BY <1>3
<1>13. used' = {ms[j] : j \in 1 .. L - 1}
  <2>1. ASSUME NEW b \in used' PROVE \E j \in 1 .. L - 1 : b = ms[j]
    <3>1. PICK j \in 1 .. L : b = ns[j] /\ j # i + 1
      BY <1>1, <1>5, <1>7 DEF SortedNodes
    <3>2. CASE j \in 1 .. i
      BY <1>11, <3>1, <3>2
    <3>3. CASE j \notin 1 .. i
      <4>1. j - 1 \in (i + 1) .. (L - 1) /\ j - 1 + 1 = j
        BY <1>3, <3>1, <3>3
      <4> QED
        BY <1>11, <3>1, <4>1
    <3> QED
      BY <3>2, <3>3
  <2>2. ASSUME NEW j \in 1 .. L - 1 PROVE ms[j] \in used'
    <3>1. CASE j \in 1 .. i
      <4>1. j # i + 1 /\ j \in 1 .. L
        BY <1>3, <3>1
      <4> QED
        BY <1>3, <1>5, <1>7, <1>11, <3>1, <4>1
    <3>2. CASE j \in (i + 1) .. (L - 1)
      <4>1. j + 1 # i + 1 /\ j + 1 \in 1 .. L
        BY <1>3, <3>2
      <4> QED
        BY <1>3, <1>5, <1>7, <1>11, <3>2, <4>1
    <3> QED
      BY <1>12, <3>1, <3>2
  <2> QED
    BY <2>1, <2>2
<1>14. ASSUME NEW p \in 1 .. L - 1, NEW q \in 1 .. L - 1, p < q
       PROVE  key'[ms[p]] < key'[ms[q]]
  <2> DEFINE at(j) == IF j \in 1 .. i THEN j ELSE j + 1
  <2>1. \A j \in 1 .. L - 1 : ms[j] = ns[at(j)] /\ at(j) \in 1 .. L
    BY <1>11, <1>12
  <2>2. at(p) < at(q)
    BY <1>3, <1>14
  <2> HIDE DEF at
  <2> QED
    BY <1>1, <1>5, <2>1, <2>2 DEF SortedNodes
<1>15. IsInjective(ms)
  <2>1. \A j \in 1 .. Len(ms) : key'[ms[j]] \in Nat
    BY <1>3, <1>5, <1>10, <1>11, <1>12
  <2> QED
    BY <1>10, <1>14, <2>1, SortedIsInjective
<1>16. first' = IF ms = <<>> THEN NULL ELSE ms[1]
  <2>1. ms = <<>> <=> L = 1
    BY <1>3, <1>10
  <2>2. CASE i = 0 /\ L = 1
    BY <1>4, <1>5, <1>6, <2>1, <2>2
  <2>3. CASE i = 0 /\ L # 1
    <3>1. 1 \in (i + 1) .. (L - 1)
      <4>1. L \in Nat /\ 1 <= L /\ L # 1 /\ i = 0
        BY <1>3, <1>4, <2>3
      <4> HIDE DEF L
      <4> QED
        BY <4>1
    <3> QED
      BY <1>4, <1>5, <1>6, <1>11, <2>1, <2>3, <3>1
  <2>4. CASE i # 0
    <3>1. 1 \in 1 .. i /\ L # 1
      BY <1>3, <2>4
    <3> QED
      BY <1>4, <1>5, <1>11, <2>1, <2>4, <3>1
  <2> QED
    BY <2>2, <2>3, <2>4
<1>17. ASSUME NEW j \in 1 .. L - 1
       PROVE  succ'[ms[j]] = IF j = L - 1 THEN NULL ELSE ms[j + 1]
  <2>1. CASE j \in 1 .. i /\ j # i
    <3>1. j + 1 \in 1 .. i /\ j # L - 1 /\ j # L
      BY <1>3, <2>1
    <3> QED
      BY <1>6, <1>8, <1>11, <2>1, <3>1
  <2>2. CASE j \in 1 .. i /\ j = i
    <3>1. succ'[ms[j]] = succ[n]
      BY <1>8, <1>11, <2>2
    <3>2. succ[n] = IF i + 1 = L THEN NULL ELSE ns[i + 2]
      BY <1>3, <1>6 DEF n
    <3>3. CASE j = L - 1
      BY <1>3, <2>2, <3>1, <3>2, <3>3
    <3>4. CASE j # L - 1
      <4>1. j + 1 \in (i + 1) .. (L - 1) /\ j + 1 + 1 = i + 2 /\ i + 1 # L
        BY <1>3, <2>2, <3>4
      <4> QED
        BY <1>11, <3>1, <3>2, <3>4, <4>1
    <3> QED
      BY <3>3, <3>4
  <2>3. CASE j \in (i + 1) .. (L - 1)
    <3>1. j + 1 \in 1 .. L /\ j + 1 # i /\ (j + 1 = L <=> j = L - 1)
      BY <1>3, <2>3
    <3>2. succ'[ms[j]] = IF j = L - 1 THEN NULL ELSE ns[j + 1 + 1]
      BY <1>6, <1>8, <1>11, <2>3, <3>1
    <3>3. CASE j # L - 1
      <4>1. j + 1 \in (i + 1) .. (L - 1)
        BY <1>3, <2>3, <3>3
      <4> QED
        BY <1>11, <3>2, <3>3, <4>1
    <3> QED
      BY <3>2, <3>3
  <2> QED
    BY <1>12, <2>1, <2>2, <2>3
<1>18. size' = L - 1
  BY <1>1, <1>5 DEF SortedNodes
<1>19. SortedNodes(ms)'
  BY <1>10, <1>13, <1>14, <1>15, <1>16, <1>17, <1>18 DEF SortedNodes, IsList
<1>20. MapInv'
  BY <1>9, <1>10, <1>19 DEF MapInv
<1>21. ContentsOfNodes /\ ContentsOfNodes'
  BY <1>20, ContentsIs, ContentsIsNext
<1> DEFINE m == [x \in DOMAIN Map!Contents \ {k} |-> Map!Contents[x]]
<1>22. DOMAIN m = {key'[b] : b \in used'}
  BY <1>3, <1>5, <1>7, <1>21 DEF ContentsOfNodes
<1>23. ASSUME NEW b \in used' PROVE m[key'[b]] = value'[b]
  BY <1>5, <1>21, <1>22 DEF ContentsOfNodes
<1>24. m = [x \in DOMAIN m |-> m[x]]
  OBVIOUS
<1>25. Map!Ideal!Become(m)
  <2> HIDE DEF m
  <2> QED
    BY <1>21, <1>22, <1>23, <1>24, BecomeIs
<1> QED
  BY <1>5, <1>20, <1>25 DEF Map!Ideal!Remove, Map!Ideal!Restrict

\* Every call keeps the list sorted and is a call of the function.
LEMMA MapStep ==
  ASSUME Map!SortedMapAssumption, MapInv, [Map!Next]_(Map!vars)
  PROVE  MapInv' /\ [Map!Ideal!Next]_<<Map!Contents, size, answer>>
<1>1. CASE UNCHANGED Map!vars
  <2>1. UNCHANGED <<first, size, key, value, succ, used, answer>>
    BY <1>1 DEF Map!vars
  <2>2. Map!Path' = Map!Path
    BY <2>1 DEF Map!Path
  <2>3. Map!Contents' = Map!Contents
    BY <2>1, <2>2 DEF Map!Contents, Map!Listed
  <2>4. MapInv'
    BY <2>1 DEF MapInv, MapTypes, SortedNodes
  <2> QED
    BY <2>1, <2>3, <2>4
<1>2. ASSUME NEW k \in Key, Map!Get(k) PROVE MapInv' /\ Map!Ideal!Next
  BY <1>2, GetStep DEF Map!Ideal!Next
<1>3. ASSUME NEW k \in Key, Map!InsertFails(k) PROVE MapInv' /\ Map!Ideal!Next
  BY <1>3, FailStep DEF Map!Ideal!Next
<1>4. ASSUME NEW k \in Key, Map!Delete(k) PROVE MapInv' /\ Map!Ideal!Next
  BY <1>4, DeleteStep DEF Map!Ideal!Next
<1>5. ASSUME NEW k \in Key, NEW v \in Value, Map!Replace(k, v) \/ Map!Insert(k, v)
      PROVE  MapInv' /\ Map!Ideal!Next
  BY <1>5, ReplaceStep, InsertStep DEF Map!Ideal!Next
<1> QED
  BY <1>1, <1>2, <1>3, <1>4, <1>5 DEF Map!Next

\* map_set, map_get, map_del and map_size are those of a finite function, for
\* any number of keys and nodes: the list stays sorted, without a lost node or
\* a key twice, wherever an entry is added, replaced or removed.
THEOREM MapImplementsKeyValue == Spec => ImplementsKeyValue
<1>1. Map!SortedMapAssumption
  BY RoutinesAssumption
<1>2. Init => MapInv /\ Map!Ideal!Init
  BY <1>1, MapInit DEF Init
<1>3. [Next]_vars => [Map!Next]_(Map!vars)
  <2>1. UNCHANGED mapVars => UNCHANGED Map!vars
    BY DEF mapVars, Map!vars
  <2>2. UseMap => Map!Next
    BY DEF UseMap
  <2>3. UseQueue \/ UseCounter \/ UseNumber \/ UseText \/ UseReward \/ UNCHANGED vars
          => UNCHANGED mapVars
    BY DEF UseQueue, UseCounter, UseNumber, UseText, UseReward, vars
  <2> QED
    BY <2>1, <2>2, <2>3 DEF Next
<1>4. MapInv /\ [Next]_vars => MapInv' /\ [Map!Ideal!Next]_<<Map!Contents, size, answer>>
  BY <1>1, <1>3, MapStep
<1> QED
  BY <1>2, <1>4, PTL DEF Spec, ImplementsKeyValue, Map!ImplementsKeyValue, Map!Ideal!Spec
-----------------------------------------------------------------------------
(* The reward schedule *)

\* A quotient is the only number between its bounds.
LEMMA QuotientIs ==
  ASSUME NEW x \in Int, NEW b \in Nat \ {0}, NEW q \in Int, b * q <= x, x < b * (q + 1)
  PROVE  x \div b = q
<1> DEFINE d == x \div b
           r == x % b
<1>1. d \in Int /\ r \in 0 .. (b - 1) /\ x = b * d + r
  OBVIOUS
<1> HIDE DEF d, r
<1>2. ASSUME d < q PROVE FALSE
  <2>1. d + 1 <= q
    BY <1>1, <1>2
  <2>2. b * (d + 1) <= b * q
    BY <1>1, <2>1
  <2>3. b * (d + 1) = b * d + b
    BY <1>1
  <2> QED
    BY <1>1, <2>2, <2>3
<1>3. ASSUME q < d PROVE FALSE
  <2>1. q + 1 <= d
    BY <1>1, <1>3
  <2>2. b * (q + 1) <= b * d
    BY <1>1, <2>1
  <2> QED
    BY <1>1, <2>2
<1>4. d = q
  BY <1>1, <1>2, <1>3
<1> QED
  BY <1>4 DEF d

\* Dividing by twice a number halves the quotient.
LEMMA HalfQuotient ==
  ASSUME NEW x \in Nat, NEW b \in Nat \ {0}
  PROVE  /\ x \div b \in Nat
         /\ x \div (2 * b) = (x \div b) \div 2
<1> DEFINE d == x \div b
           r == x % b
           e == d \div 2
<1>1. d \in Int /\ r \in 0 .. (b - 1) /\ x = b * d + r
  OBVIOUS
<1>2. d >= 0
  <2> HIDE DEF d, r
  <2> SUFFICES ASSUME d <= -1 PROVE FALSE
    BY <1>1
  <2>1. b * d <= b * (-1)
    BY <1>1
  <2> QED
    BY <1>1, <2>1
<1> HIDE DEF d, r
<1>3. e \in Int /\ 2 * e <= d /\ d <= 2 * e + 1
  BY <1>1
<1> HIDE DEF e
<1>4. b * (2 * e) <= b * d /\ b * d <= b * (2 * e + 1)
  BY <1>1, <1>3
<1>5. b * (2 * e) = (2 * b) * e /\ b * (2 * e + 1) + b = (2 * b) * (e + 1)
  BY <1>3
<1>6. (2 * b) * e <= x /\ x < (2 * b) * (e + 1)
  BY <1>1, <1>3, <1>4, <1>5
<1>7. x \div (2 * b) = e
  BY <1>3, <1>6, QuotientIs
<1> QED
  BY <1>1, <1>2, <1>7 DEF d, e

\* The next block is in the same era or in the next one.
LEMMA EraOfNext ==
  ASSUME NEW h \in Nat, NEW b \in Nat \ {0}
  PROVE  (h + 1) \div b \in {h \div b, h \div b + 1} /\ h \div b \in Nat
<1> DEFINE d == h \div b
           r == h % b
<1>1. d \in Int /\ r \in 0 .. (b - 1) /\ h = b * d + r
  OBVIOUS
<1>5. d \in Nat
  BY HalfQuotient
<1> HIDE DEF d, r
<1>2. b * (d + 1) = b * d + b /\ b * ((d + 1) + 1) = b * d + b + b
  BY <1>1
<1>3. CASE r + 1 < b
  BY <1>1, <1>2, <1>3, QuotientIs DEF d
<1>4. CASE r + 1 = b
  BY <1>1, <1>2, <1>4, QuotientIs DEF d
<1> QED
  BY <1>1, <1>3, <1>4, <1>5 DEF d

\* From one reward to the next: the same, its half, or up to the floor.
KeptHalvedOrRaised(r, s) ==
  \/ s \in {r, r \div 2}
  \/ s = FloorReward /\ r < FloorReward /\ r >= FloorReward \div 2

\* What the powers of two are.
PowersOfTwo ==
  /\ 2^0 = 1 /\ 2^1 = 2
  /\ \A k \in Nat : 2^k \in Nat \ {0}
  /\ \A j, k \in Nat : 2^(j + k) = 2^j * 2^k

\* The rewards of two successive heights.
LEMMA RewardStep ==
  ASSUME PowersOfTwo, NEW h \in Nat,
         StartReward \in Nat, FloorReward \in 0 .. StartReward, Era \in Nat \ {0}
  PROVE  KeptHalvedOrRaised(Reward!CalcReward(h), Reward!CalcReward(h + 1))
<1> DEFINE r == Reward!CalcReward(h)
           s == Reward!CalcReward(h + 1)
           k == h \div Era
           At(j) == StartReward \div 2^j
<1>1. k \in Nat /\ (h + 1) \div Era \in {k, k + 1}
  BY EraOfNext
<1>2. ASSUME NEW j \in Nat PROVE At(j) \in Nat /\ At(j + 1) = At(j) \div 2
  <2>1. 2^j \in Nat \ {0} /\ 2^1 = 2
    BY DEF PowersOfTwo
  <2>2. 2^(j + 1) = 2^j * 2^1
    BY DEF PowersOfTwo
  <2>3. 2^(j + 1) = 2 * 2^j
    BY <2>1, <2>2
  <2> QED
    BY <2>1, <2>3, HalfQuotient
<1>3. At(0) = StartReward
  BY DEF PowersOfTwo
<1>4. r = IF k > 0 /\ At(k - 1) < FloorReward THEN FloorReward ELSE At(k)
  BY DEF Reward!CalcReward
<1>5. CASE (h + 1) \div Era = k
  <2>1. s = r
    BY <1>5 DEF Reward!CalcReward
  <2> QED
    BY <2>1 DEF KeptHalvedOrRaised
<1>6. CASE (h + 1) \div Era = k + 1
  <2>1. s = IF At(k) < FloorReward THEN FloorReward ELSE At(k + 1)
    <3>1. (k + 1 > 0) /\ (k + 1) - 1 = k
      BY <1>1
    <3> HIDE DEF k
    <3> QED
      BY <1>6, <3>1 DEF Reward!CalcReward
  <2> SUFFICES KeptHalvedOrRaised(r, s)
    OBVIOUS
  <2> HIDE DEF r, s, k, At
  <2>2. At(k) \in Nat /\ At(k + 1) = At(k) \div 2 /\ FloorReward \in Nat
    BY <1>1, <1>2
  <2>3. CASE k = 0
    BY <1>3, <1>4, <2>1, <2>2, <2>3 DEF KeptHalvedOrRaised
  <2>4. CASE k > 0
    <3>1. k - 1 \in Nat /\ (k - 1) + 1 = k
      BY <1>1, <2>4
    <3>2. At(k - 1) \in Nat /\ At(k) = At(k - 1) \div 2
      BY <1>2, <3>1
    <3> QED
      BY <1>4, <2>1, <2>2, <2>4, <3>2 DEF KeptHalvedOrRaised
  <2> QED
    BY <1>1, <2>3, <2>4
<1> QED
  BY <1>1, <1>5, <1>6

(* The reward is always the one of the height. *)

RewardInv == height \in Nat /\ reward = Reward!CalcReward(height)

\* From block to block the reward stays, is halved, or rises, and it rises
\* only to the floor, from an era that paid between half the floor and the
\* floor (calc_reward).
THEOREM RewardRisesOnlyToFloor ==
  ASSUME PowersOfTwo PROVE Spec => RisesOnlyToFloor
<1>1. Init => RewardInv
  BY DEF Init, Reward!Init, RewardInv
<1>2. RewardInv /\ [Next]_vars =>
        \/ Reward!Grow
        \/ UNCHANGED rewardVars
  BY DEF Next, vars, UseQueue, UseCounter, UseMap, UseNumber, UseText, UseReward
<1>3. RewardInv /\ [Next]_vars => RewardInv'
  <2> SUFFICES ASSUME RewardInv, [Next]_vars PROVE RewardInv'
    OBVIOUS
  <2>1. CASE Reward!Grow
    BY <2>1 DEF RewardInv, Reward!Grow
  <2>2. CASE UNCHANGED rewardVars
    BY <2>2 DEF RewardInv, rewardVars, Reward!CalcReward
  <2> QED
    BY <1>2, <2>1, <2>2
<1>4. RewardInv /\ [Next]_vars =>
        [KeptHalvedOrRaised(reward, reward')]_<<height, reward>>
  <2> SUFFICES ASSUME RewardInv, [Next]_vars
               PROVE  [KeptHalvedOrRaised(reward, reward')]_<<height, reward>>
    OBVIOUS
  <2>1. CASE Reward!Grow
    BY <2>1, RewardStep, RoutinesAssumption DEF RewardInv, Reward!Grow
  <2>2. CASE UNCHANGED rewardVars
    BY <2>2 DEF rewardVars
  <2> QED
    BY <1>2, <2>1, <2>2
<1> QED
  BY <1>1, <1>3, <1>4, PTL DEF Spec, RisesOnlyToFloor, Reward!RisesOnlyToFloor, KeptHalvedOrRaised
-----------------------------------------------------------------------------
(* An address, through base32 and payto into a block *)

\* The powers of two that occur in base32.
LEMMA SmallPowers ==
  ASSUME PowersOfTwo
  PROVE  /\ 2^0 = 1 /\ 2^1 = 2 /\ 2^2 = 4 /\ 2^3 = 8 /\ 2^4 = 16 /\ 2^5 = 32
         /\ 2^6 = 64 /\ 2^7 = 128 /\ 2^8 = 256 /\ 2^13 = 8192
<1>1. 2^0 = 1 /\ 2^1 = 2 /\ \A j, k \in Nat : 2^(j + k) = 2^j * 2^k
  BY DEF PowersOfTwo
<1>2. 2^2 = 4
  <2>1. 2^(1 + 1) = 2^1 * 2^1
    BY <1>1
  <2> QED
    BY <1>1, <2>1
<1>3. 2^3 = 8
  <2>1. 2^(1 + 2) = 2^1 * 2^2
    BY <1>1
  <2> QED
    BY <1>1, <1>2, <2>1
<1>4. 2^4 = 16
  <2>1. 2^(2 + 2) = 2^2 * 2^2
    BY <1>1
  <2> QED
    BY <1>2, <2>1
<1>5. 2^5 = 32
  <2>1. 2^(1 + 4) = 2^1 * 2^4
    BY <1>1
  <2> QED
    BY <1>1, <1>4, <2>1
<1>6. 2^6 = 64
  <2>1. 2^(2 + 4) = 2^2 * 2^4
    BY <1>1
  <2> QED
    BY <1>2, <1>4, <2>1
<1>7. 2^7 = 128
  <2>1. 2^(3 + 4) = 2^3 * 2^4
    BY <1>1
  <2> QED
    BY <1>3, <1>4, <2>1
<1>8. 2^8 = 256
  <2>1. 2^(4 + 4) = 2^4 * 2^4
    BY <1>1
  <2> QED
    BY <1>4, <2>1
<1>9. 2^13 = 8192
  <2>1. 2^(5 + 8) = 2^5 * 2^8
    BY <1>1
  <2> QED
    BY <1>5, <1>8, <2>1
<1> QED
  BY <1>1, <1>2, <1>3, <1>4, <1>5, <1>6, <1>7, <1>8, <1>9

\* The low b bits of x, and the five and the eight above its low b bits.
Low(x, b) == x % 2^b
Five(x, b) == (x \div 2^b) % 32
Eight(x, b) == (x \div 2^b) % 256

\* x and y have the same low 13 bits.
SameLow(x, y) == x \in Nat /\ \E q \in Int : x = y - 8192 * q

\* An int keeps the low 13 bits at least.
LEMMA WrapKeepsLow ==
  ASSUME PowersOfTwo, Text!Base32Assumption, NEW x \in Nat
  PROVE  SameLow(Text!Wrap(x), x)
<1> DEFINE M == 2^Width
           w == 2^(Width - 13)
           d == x \div M
<1>1. Width \in Nat /\ Width - 13 \in Nat /\ 13 + (Width - 13) = Width
  BY DEF Text!Base32Assumption
<1>2. M \in Nat \ {0} /\ w \in Nat \ {0} /\ M = 8192 * w
  <2>1. M \in Nat \ {0} /\ w \in Nat \ {0} /\ 2^13 = 8192
    BY <1>1, SmallPowers DEF PowersOfTwo
  <2>2. 2^(13 + (Width - 13)) = 2^13 * w
    BY <1>1 DEF PowersOfTwo
  <2> QED
    BY <1>1, <2>1, <2>2
<1> HIDE DEF M, w
<1>3. x % M \in Nat /\ d \in Int /\ x = M * d + (x % M)
  BY <1>2
<1> HIDE DEF d
<1>4. w * d \in Int /\ M * d = 8192 * (w * d)
  BY <1>2, <1>3
<1>5. x % M = x - 8192 * (w * d)
  BY <1>3, <1>4
<1>6. Text!Wrap(x) = x % M
  BY DEF Text!Wrap, M
<1> QED
  BY <1>3, <1>4, <1>5, <1>6 DEF SameLow
-----------------------------------------------------------------------------
\* The digit that begins at offset o, in bits, of a byte d with e behind it.
DigitOf(d, e, o) ==
  IF o <= 3 THEN Five(d, 3 - o)
  ELSE Low(d, 8 - o) * 2^(o - 3) + e \div 2^(11 - o)

\* The five steps of the two loops: buf holds b bits that are in use, d is the
\* byte they are from or belong to, e the next one, and wide the new buffer.
FiveInUse(b, buf, d, e) ==
  Low(buf, b) = Low(d, b) =>
    Five(buf, b - 5) = DigitOf(d, e, 8 - b) /\ Low(buf, b - 5) = Low(d, b - 5)

OneMoreByte(b, buf, d, e, f, wide) ==
  Low(buf, b) = Low(d, b) /\ SameLow(wide, buf * 256 + e) =>
    /\ Five(wide, b + 3) = IF b = 0 THEN DigitOf(e, f, 0) ELSE DigitOf(d, e, 8 - b)
    /\ Low(wide, b + 3) = Low(e, b + 3)

Padded(b, buf, d, wide) ==
  Low(buf, b) = Low(d, b) /\ SameLow(wide, buf * 2^(5 - b)) =>
    Five(wide, 0) = DigitOf(d, 0, 8 - b) /\ Low(wide, 0) = Low(d, 0)

NoByteYet(b, buf, d, e, wide) ==
  Low(buf, b) = d \div 2^(8 - b) /\ SameLow(wide, buf * 32 + DigitOf(d, e, b)) =>
    Low(wide, b + 5) = d \div 2^(8 - (b + 5))

ByteComplete(b, buf, d, e, wide) ==
  Low(buf, b) = d \div 2^(8 - b) /\ SameLow(wide, buf * 32 + DigitOf(d, e, b)) =>
    Eight(wide, b - 3) = d /\ Low(wide, b - 3) = e \div 2^(8 - (b - 3))

LEMMA FiveInUseAlways ==
  ASSUME PowersOfTwo, NEW b \in 5 .. 8, NEW buf \in Nat, NEW d \in 0 .. 255, NEW e
  PROVE  FiveInUse(b, buf, d, e)
<1>1. CASE b = 5
  BY <1>1, SmallPowers, SMTT(30) DEF FiveInUse, DigitOf, Low, Five
<1>2. CASE b = 6
  BY <1>2, SmallPowers, SMTT(30) DEF FiveInUse, DigitOf, Low, Five
<1>3. CASE b = 7
  BY <1>3, SmallPowers, SMTT(30) DEF FiveInUse, DigitOf, Low, Five
<1>4. CASE b = 8
  BY <1>4, SmallPowers, SMTT(30) DEF FiveInUse, DigitOf, Low, Five
<1> QED
  BY <1>1, <1>2, <1>3, <1>4

LEMMA OneMoreByteAlways ==
  ASSUME PowersOfTwo, NEW b \in 0 .. 4, NEW buf \in Nat, NEW d \in 0 .. 255,
         NEW e \in 0 .. 255, NEW f, NEW wide
  PROVE  OneMoreByte(b, buf, d, e, f, wide)
<1>1. CASE b = 0
  BY <1>1, SmallPowers, SMTT(30) DEF OneMoreByte, DigitOf, Low, Five, SameLow
<1>2. CASE b = 1
  BY <1>2, SmallPowers, SMTT(30) DEF OneMoreByte, DigitOf, Low, Five, SameLow
<1>3. CASE b = 2
  BY <1>3, SmallPowers, SMTT(30) DEF OneMoreByte, DigitOf, Low, Five, SameLow
<1>4. CASE b = 3
  BY <1>4, SmallPowers, SMTT(30) DEF OneMoreByte, DigitOf, Low, Five, SameLow
<1>5. CASE b = 4
  BY <1>5, SmallPowers, SMTT(30) DEF OneMoreByte, DigitOf, Low, Five, SameLow
<1> QED
  BY <1>1, <1>2, <1>3, <1>4, <1>5

LEMMA PaddedAlways ==
  ASSUME PowersOfTwo, NEW b \in 1 .. 4, NEW buf \in Nat, NEW d \in 0 .. 255, NEW wide
  PROVE  Padded(b, buf, d, wide)
<1>1. CASE b = 1
  BY <1>1, SmallPowers, SMTT(30) DEF Padded, DigitOf, Low, Five, SameLow
<1>2. CASE b = 2
  BY <1>2, SmallPowers, SMTT(30) DEF Padded, DigitOf, Low, Five, SameLow
<1>3. CASE b = 3
  BY <1>3, SmallPowers, SMTT(30) DEF Padded, DigitOf, Low, Five, SameLow
<1>4. CASE b = 4
  BY <1>4, SmallPowers, SMTT(30) DEF Padded, DigitOf, Low, Five, SameLow
<1> QED
  BY <1>1, <1>2, <1>3, <1>4

LEMMA NoByteYetAlways ==
  ASSUME PowersOfTwo, NEW b \in 0 .. 2, NEW buf \in Nat, NEW d \in 0 .. 255, NEW e, NEW wide
  PROVE  NoByteYet(b, buf, d, e, wide)
<1>1. CASE b = 0
  BY <1>1, SmallPowers, SMTT(30) DEF NoByteYet, DigitOf, Low, Five, SameLow
<1>2. CASE b = 1
  BY <1>2, SmallPowers, SMTT(30) DEF NoByteYet, DigitOf, Low, Five, SameLow
<1>3. CASE b = 2
  BY <1>3, SmallPowers, SMTT(30) DEF NoByteYet, DigitOf, Low, Five, SameLow
<1> QED
  BY <1>1, <1>2, <1>3

LEMMA ByteCompleteAlways ==
  ASSUME PowersOfTwo, NEW b \in 3 .. 7, NEW buf \in Nat, NEW d \in 0 .. 255,
         NEW e \in 0 .. 255, NEW wide
  PROVE  ByteComplete(b, buf, d, e, wide)
<1>1. CASE b = 3
  BY <1>1, SmallPowers, SMTT(30) DEF ByteComplete, DigitOf, Low, Five, Eight, SameLow
<1>2. CASE b = 4
  BY <1>2, SmallPowers, SMTT(30) DEF ByteComplete, DigitOf, Low, Five, Eight, SameLow
<1>3. CASE b = 5
  BY <1>3, SmallPowers, SMTT(30) DEF ByteComplete, DigitOf, Low, Five, Eight, SameLow
<1>4. CASE b = 6
  BY <1>4, SmallPowers, SMTT(30) DEF ByteComplete, DigitOf, Low, Five, Eight, SameLow
<1>5. CASE b = 7
  BY <1>5, SmallPowers, SMTT(30) DEF ByteComplete, DigitOf, Low, Five, Eight, SameLow
<1> QED
  BY <1>1, <1>2, <1>3, <1>4, <1>5

\* A digit has five bits.
LEMMA DigitRange ==
  ASSUME PowersOfTwo, NEW b \in 0 .. 7, NEW d \in 0 .. 255, NEW e \in 0 .. 255
  PROVE  DigitOf(d, e, b) \in 0 .. 31
<1>1. CASE b = 0
  BY <1>1, SmallPowers, SMTT(30) DEF DigitOf, Low, Five
<1>2. CASE b = 1
  BY <1>2, SmallPowers DEF DigitOf, Low, Five
<1>3. CASE b = 2
  BY <1>3, SmallPowers DEF DigitOf, Low, Five
<1>4. CASE b = 3
  BY <1>4, SmallPowers DEF DigitOf, Low, Five
<1>5. CASE b = 4
  BY <1>5, SmallPowers DEF DigitOf, Low, Five
<1>6. CASE b = 5
  BY <1>6, SmallPowers DEF DigitOf, Low, Five
<1>7. CASE b = 6
  BY <1>7, SmallPowers DEF DigitOf, Low, Five
<1>8. CASE b = 7
  BY <1>8, SmallPowers DEF DigitOf, Low, Five
<1> QED
  BY <1>1, <1>2, <1>3, <1>4, <1>5, <1>6, <1>7, <1>8
-----------------------------------------------------------------------------
ByteAt(i) == IF i <= Size THEN data[i] ELSE 0

\* The j-th digit of the encoding of data.
Digit(j) ==
  LET p == 5 * (j - 1)
  IN  DigitOf(ByteAt((p \div 8) + 1), ByteAt((p \div 8) + 2), p % 8)

TextTypes ==
  /\ place \in {"idle", "encode", "typed", "decode"}
  /\ data \in Text!AddressBytes /\ payto \in [1 .. Size -> 0 .. 255]
  /\ text \in Seq(0 .. 33) /\ buffer \in Nat /\ char \in Nat \ {0}
  /\ bitsLeft \in Nat /\ count \in 0 .. Size
  /\ copied \in Seq(0 .. 255) /\ Len(copied) <= Size
  /\ asked \in Text!AddressBytes \cup {<<>>} /\ due \in Text!AddressBytes \cup {<<>>}
  /\ torn \in BOOLEAN

\* The low bits of the buffer are those of the last byte read, and the digits
\* so far have used all bits before; or the last digit was padded.
Encoding ==
  place = "encode" =>
    /\ char \in 2 .. (Size + 1) /\ bitsLeft \in 0 .. 8
    /\ Low(buffer, bitsLeft) = Low(data[char - 1], bitsLeft)
    /\ \/ 5 * Len(text) + bitsLeft = 8 * (char - 1)
       \/ bitsLeft = 0 /\ char = Size + 1

Encoded == place \in {"encode", "typed"} => \A j \in 1 .. Len(text) : text[j] = Digit(j)

\* text holds the digits of data, with a dash at place q, if it is that long,
\* and other characters for some digits.
Typed(q) ==
  \A k \in 1 .. Len(text) :
    IF k = q THEN text[k] = Text!Dash
    ELSE text[k] \in {Digit(IF k > q THEN k - 1 ELSE k), Text!NoDigit}

\* After m digits, count bytes are complete and the low bits of the buffer are
\* the high ones of the next byte.
DecodedBefore(m) ==
  /\ 5 * m = 8 * count + bitsLeft /\ bitsLeft \in 0 .. 7
  /\ Low(buffer, bitsLeft) = ByteAt(count + 1) \div 2^(8 - bitsLeft)
  /\ \A i \in 1 .. count : payto[i] = data[i]

\* The digits before the one to be read.
Digits(q) == IF char > q THEN char - 2 ELSE char - 1

Decoding ==
  place = "decode" => \E q \in Nat \ {0} : Typed(q) /\ DecodedBefore(Digits(q))

\* payto is what was asked for last; what is copied undisturbed is what was
\* asked for when the copy began.
Paying ==
  /\ asked # <<>> /\ place # "decode" => payto = asked
  /\ ~torn /\ copied # <<>> /\ due # <<>> =>
       /\ \A i \in 1 .. Len(copied) : copied[i] = due[i]
       /\ Len(copied) < Size => place # "decode" /\ asked = due

TextInv == TextTypes /\ Encoding /\ Encoded /\ Decoding /\ Paying

\* An address consists of bytes.
LEMMA Bytes ==
  ASSUME Text!Base32Assumption, data \in Text!AddressBytes
  PROVE  /\ Size \in Nat \ {0}
         /\ \A i \in 1 .. Size : data[i] \in 0 .. 255
         /\ \A i \in Nat \ {0} : ByteAt(i) \in 0 .. 255
<1>1. Size \in Nat \ {0} /\ Byte \subseteq 0 .. 255
  BY DEF Text!Base32Assumption
<1>2. \A i \in 1 .. Size : data[i] \in Byte
  BY DEF Text!AddressBytes
<1>3. \A i \in 1 .. Size : data[i] \in 0 .. 255
  BY <1>1, <1>2
<1>4. \A i \in Nat \ {0} : ByteAt(i) \in 0 .. 255
  BY <1>1, <1>3 DEF ByteAt
<1> QED
  BY <1>1, <1>3, <1>4

\* The j-th digit begins at offset o of the byte n + 1.
DigitAt(j, n, o) ==
  5 * (j - 1) = 8 * n + o => Digit(j) = DigitOf(ByteAt(n + 1), ByteAt(n + 2), o)

\* The digit, by where it begins.
LEMMA DigitAtAlways ==
  ASSUME NEW j \in Nat \ {0}, NEW n \in Nat, NEW o \in 0 .. 7
  PROVE  DigitAt(j, n, o)
<1>1. (8 * n + o) \div 8 = n /\ (8 * n + o) % 8 = o
  OBVIOUS
<1> QED
  BY <1>1 DEF DigitAt, Digit

\* A digit is below 32.
LEMMA DigitIn ==
  ASSUME PowersOfTwo, Text!Base32Assumption, data \in Text!AddressBytes, NEW j \in Nat \ {0}
  PROVE  Digit(j) \in 0 .. 31
<1> DEFINE p == 5 * (j - 1)
           n == p \div 8
           o == p % 8
<1>1. n \in Nat /\ o \in 0 .. 7
  OBVIOUS
<1> HIDE DEF n, o
<1>2. ByteAt(n + 1) \in 0 .. 255 /\ ByteAt(n + 2) \in 0 .. 255
  BY <1>1, Bytes
<1>3. Digit(j) = DigitOf(ByteAt(n + 1), ByteAt(n + 2), o)
  BY DEF Digit, n, o
<1> QED
  BY <1>1, <1>2, <1>3, DigitRange, ZenonT(30)

\* The digits are those of data alone.
LEMMA SameDigits == UNCHANGED data => \A j : Digit(j)' = Digit(j) /\ ByteAt(j)' = ByteAt(j)
  BY DEF Digit, ByteAt

LEMMA TextInit == Text!Base32Assumption /\ Text!Init => TextInv
<1> SUFFICES ASSUME Text!Base32Assumption, Text!Init PROVE TextInv
  OBVIOUS
<1>1. Size \in Nat \ {0} /\ 0 \in Byte
  BY DEF Text!Base32Assumption
<1>2. data \in Text!AddressBytes /\ payto \in [1 .. Size -> 0 .. 255] /\ asked \in Text!AddressBytes
  BY <1>1 DEF Text!Init, Text!AddressBytes
<1>3. <<>> \in Seq(0 .. 33) /\ <<>> \in Seq(0 .. 255) /\ Len(<<>>) = 0
  OBVIOUS
<1>4. TextTypes
  <2>1. /\ data \in Text!AddressBytes /\ payto \in [1 .. Size -> 0 .. 255]
        /\ asked \in Text!AddressBytes \cup {<<>>}
    BY <1>2
  <2>2. text \in Seq(0 .. 33) /\ copied \in Seq(0 .. 255) /\ Len(copied) <= Size
    BY <1>1, <1>3 DEF Text!Init
  <2>3. /\ place \in {"idle", "encode", "typed", "decode"} /\ due \in Text!AddressBytes \cup {<<>>}
    BY DEF Text!Init
  <2>4. /\ buffer \in Nat /\ char \in Nat \ {0} /\ bitsLeft \in Nat /\ count \in 0 .. Size
    BY <1>1 DEF Text!Init
  <2>5. torn \in BOOLEAN
    BY DEF Text!Init
  <2> QED
    BY <2>1, <2>2, <2>3, <2>4, <2>5 DEF TextTypes
<1> QED
  BY <1>4 DEF Text!Init, TextInv, Encoding, Encoded, Decoding, Paying
-----------------------------------------------------------------------------
LEMMA EncodeStartStep ==
  ASSUME Text!Base32Assumption, TextInv, Text!EncodeStart
  PROVE  TextInv'
<1>1. /\ data' \in Text!AddressBytes
      /\ buffer' = data'[1] /\ char' = 2 /\ bitsLeft' = 8 /\ text' = <<>> /\ place' = "encode"
      /\ place = "idle" /\ UNCHANGED <<payto, count, copied, due, torn, asked>>
  BY DEF Text!EncodeStart, Text!miner
<1>2. Size \in Nat \ {0} /\ \A i \in 1 .. Size : data'[i] \in 0 .. 255
  <2>1. Size \in Nat \ {0} /\ Byte \subseteq 0 .. 255
    BY DEF Text!Base32Assumption
  <2>2. \A i \in 1 .. Size : data'[i] \in Byte
    BY <1>1 DEF Text!AddressBytes
  <2> QED
    BY <2>1, <2>2
<1>3. data'[1] \in 0 .. 255
  BY <1>2
<1>4. <<>> \in Seq(0 .. 33) /\ Len(<<>>) = 0
  OBVIOUS
<1>5. TextTypes'
  <2>1. TextTypes
    BY DEF TextInv
  <2>2. char' \in Nat \ {0} /\ bitsLeft' \in Nat
    BY <1>1
  <2>4. buffer' \in Nat
    <3>1. buffer' = data'[1]
      BY <1>1
    <3> QED
      BY <1>3, <3>1
  <2>3. text' \in Seq(0 .. 33)
    BY <1>1, <1>4
  <2> QED
    BY <1>1, <2>1, <2>2, <2>3, <2>4 DEF TextTypes, Text!AddressBytes
<1>6. Encoding' /\ Encoded' /\ Decoding'
  BY <1>1, <1>2, <1>4 DEF Encoding, Encoded, Decoding
<1>7. Paying'
  BY <1>1 DEF TextInv, Paying
<1> QED
  BY <1>5, <1>6, <1>7 DEF TextInv

\* What is known of the loop when a digit is to be made.
EncodingNow ==
  /\ char \in 2 .. (Size + 1) /\ bitsLeft \in 0 .. 8 /\ Size \in Nat \ {0}
  /\ buffer \in Nat /\ Len(text) \in Nat
  /\ Low(buffer, bitsLeft) = Low(data[char - 1], bitsLeft)
  /\ 5 * Len(text) + bitsLeft = 8 * (char - 1)
  /\ data[char - 1] \in 0 .. 255 /\ ByteAt(char - 1) = data[char - 1]
  /\ char <= Size => data[char] \in 0 .. 255 /\ ByteAt(char) = data[char]
  /\ char > Size => ByteAt(char) = 0

\* The digit from the buffer and its bits, with the byte at - 1 behind them.
DigitMade(buf, bits, at) ==
  /\ buf \in Nat /\ Five(buf, bits - 5) = Digit(Len(text) + 1) /\ bits - 5 \in 0 .. 8
  /\ at \in 2 .. (Size + 1)
  /\ Low(buf, bits - 5) = Low(data[at - 1], bits - 5)
  /\ \/ 5 * (Len(text) + 1) + (bits - 5) = 8 * (at - 1)
     \/ bits - 5 = 0 /\ at = Size + 1

\* EncodeDigit with enough bits in the buffer, with one byte more, and with
\* padding.
LEMMA BitsLeft ==
  ASSUME PowersOfTwo, EncodingNow, bitsLeft >= 5
  PROVE  DigitMade(buffer, bitsLeft, char)
<1> DEFINE b == bitsLeft
           m == Len(text)
<1>1. b \in 5 .. 8 /\ char - 2 \in Nat /\ 8 - b \in 0 .. 7 /\ m + 1 \in Nat \ {0}
  BY DEF EncodingNow
<1>2. FiveInUse(b, buffer, data[char - 1], ByteAt(char))
  BY <1>1, FiveInUseAlways DEF EncodingNow
<1>3. DigitAt(m + 1, char - 2, 8 - b)
  BY <1>1, DigitAtAlways
<1>4. 5 * ((m + 1) - 1) = 8 * (char - 2) + (8 - b)
  BY DEF EncodingNow
<1>5. (char - 2) + 1 = char - 1 /\ (char - 2) + 2 = char
  BY DEF EncodingNow
<1>6. Digit(m + 1) = DigitOf(data[char - 1], ByteAt(char), 8 - b)
  BY <1>3, <1>4, <1>5 DEF DigitAt, EncodingNow
<1>7. Five(buffer, b - 5) = Digit(m + 1) /\ Low(buffer, b - 5) = Low(data[char - 1], b - 5)
  BY <1>2, <1>6 DEF FiveInUse, EncodingNow
<1>8. 5 * (m + 1) + (b - 5) = 8 * (char - 1) /\ b - 5 \in 0 .. 8
  BY <1>1, SMTT(30) DEF EncodingNow
<1> QED
  BY <1>7, <1>8 DEF DigitMade, EncodingNow

LEMMA NextByte ==
  ASSUME PowersOfTwo, Text!Base32Assumption, EncodingNow, bitsLeft < 5, char <= Size
  PROVE  DigitMade(Text!Wrap(buffer * 256 + data[char]), bitsLeft + 8, char + 1)
<1> DEFINE b == bitsLeft
           m == Len(text)
           wide == Text!Wrap(buffer * 256 + data[char])
<1>1. /\ b \in 0 .. 4 /\ char - 2 \in Nat /\ char - 1 \in Nat /\ m + 1 \in Nat \ {0}
      /\ data[char] \in 0 .. 255 /\ ByteAt(char) = data[char] /\ buffer * 256 + data[char] \in Nat
  <2>1. data[char] \in 0 .. 255 /\ ByteAt(char) = data[char] /\ buffer \in Nat
    BY DEF EncodingNow
  <2>2. buffer * 256 + data[char] \in Nat
    BY <2>1
  <2>3. b \in 0 .. 4 /\ char - 2 \in Nat /\ char - 1 \in Nat /\ m + 1 \in Nat \ {0}
    BY DEF EncodingNow
  <2> QED
    BY <2>1, <2>2, <2>3
<1>2. SameLow(wide, buffer * 256 + data[char])
  BY <1>1, WrapKeepsLow
<1> HIDE DEF wide
<1>3. OneMoreByte(b, buffer, data[char - 1], data[char], ByteAt(char + 1), wide)
  BY <1>1, OneMoreByteAlways DEF EncodingNow
<1>4. /\ Five(wide, b + 3) = IF b = 0 THEN DigitOf(data[char], ByteAt(char + 1), 0)
                             ELSE DigitOf(data[char - 1], data[char], 8 - b)
      /\ Low(wide, b + 3) = Low(data[char], b + 3)
  BY <1>2, <1>3 DEF OneMoreByte, EncodingNow
<1>5. Five(wide, b + 3) = Digit(m + 1)
  <2>1. CASE b = 0
    <3>1. DigitAt(m + 1, char - 1, 0)
      BY <1>1, DigitAtAlways
    <3>2. 5 * ((m + 1) - 1) = 8 * (char - 1) + 0
      BY <2>1 DEF EncodingNow
    <3>3. (char - 1) + 1 = char /\ (char - 1) + 2 = char + 1
      BY DEF EncodingNow
    <3> QED
      BY <1>1, <1>4, <2>1, <3>1, <3>2, <3>3 DEF DigitAt
  <2>2. CASE b > 0
    <3>1. DigitAt(m + 1, char - 2, 8 - b)
      BY <1>1, <2>2, DigitAtAlways
    <3>2. 5 * ((m + 1) - 1) = 8 * (char - 2) + (8 - b)
      BY DEF EncodingNow
    <3>3. (char - 2) + 1 = char - 1 /\ (char - 2) + 2 = char
      BY DEF EncodingNow
    <3> QED
      BY <1>1, <1>4, <2>2, <3>1, <3>2, <3>3 DEF DigitAt, EncodingNow
  <2> QED
    BY <1>1, <2>1, <2>2
<1>6. (char + 1) - 1 = char /\ (b + 8) - 5 = b + 3 /\ b + 3 \in 0 .. 8
  BY <1>1 DEF EncodingNow
<1>7. 5 * (m + 1) + (b + 3) = 8 * char /\ char + 1 \in 2 .. (Size + 1)
  BY <1>1 DEF EncodingNow
<1>8. wide \in Nat
  BY <1>2 DEF SameLow
<1> SUFFICES DigitMade(wide, b + 8, char + 1)
  BY DEF wide
<1> QED
  BY <1>4, <1>5, <1>6, <1>7, <1>8 DEF DigitMade

LEMMA NoMoreBytes ==
  ASSUME PowersOfTwo, Text!Base32Assumption, EncodingNow, bitsLeft \in 1 .. 4, char > Size
  PROVE  DigitMade(Text!Wrap(buffer * 2^(5 - bitsLeft)), 5, char)
<1> DEFINE b == bitsLeft
           m == Len(text)
           wide == Text!Wrap(buffer * 2^(5 - b))
<1>1. /\ b \in 1 .. 4 /\ char - 2 \in Nat /\ 8 - b \in 0 .. 7 /\ m + 1 \in Nat \ {0}
      /\ char = Size + 1 /\ ByteAt(char) = 0 /\ 5 - b \in Nat
  BY DEF EncodingNow
<1>2. buffer * 2^(5 - b) \in Nat
  <2>1. 2^(5 - b) \in Nat
    BY <1>1 DEF PowersOfTwo
  <2> QED
    BY <2>1 DEF EncodingNow
<1>3. SameLow(wide, buffer * 2^(5 - b))
  BY <1>2, WrapKeepsLow
<1> HIDE DEF wide
<1>4. Padded(b, buffer, data[char - 1], wide)
  BY <1>1, PaddedAlways DEF EncodingNow
<1>5. DigitAt(m + 1, char - 2, 8 - b)
  BY <1>1, DigitAtAlways
<1>6. 5 * ((m + 1) - 1) = 8 * (char - 2) + (8 - b)
  BY DEF EncodingNow
<1>7. (char - 2) + 1 = char - 1 /\ (char - 2) + 2 = char
  BY DEF EncodingNow
<1>8. Digit(m + 1) = DigitOf(data[char - 1], 0, 8 - b)
  BY <1>1, <1>5, <1>6, <1>7 DEF DigitAt, EncodingNow
<1>9. Five(wide, 0) = Digit(m + 1) /\ Low(wide, 0) = Low(data[char - 1], 0)
  BY <1>3, <1>4, <1>8 DEF Padded, EncodingNow
<1>10. wide \in Nat /\ 5 - 5 = 0
  BY <1>3 DEF SameLow
<1> SUFFICES DigitMade(wide, 5, char)
  BY DEF wide
<1> QED
  BY <1>1, <1>9, <1>10 DEF DigitMade, EncodingNow

LEMMA EncodeDigitStep ==
  ASSUME PowersOfTwo, Text!Base32Assumption, TextInv, Text!EncodeDigit
  PROVE  TextInv'
<1> DEFINE buf == Text!Loaded[1]
           bits == Text!Loaded[2]
           m == Len(text)
<1>1. /\ place = "encode" /\ (bitsLeft > 0 \/ char <= Size)
      /\ text' = Append(text, Five(buf, bits - 5)) /\ buffer' = buf /\ bitsLeft' = bits - 5
      /\ char' = IF bitsLeft < 5 /\ char <= Size THEN char + 1 ELSE char
      /\ UNCHANGED <<place, data, payto, count, copied, due, torn, asked>>
  BY DEF Text!EncodeDigit, Text!miner, Five
<1>2. /\ TextTypes /\ Encoding /\ Encoded
  BY DEF TextInv
<1>3. /\ Size \in Nat \ {0} /\ \A i \in 1 .. Size : data[i] \in 0 .. 255
      /\ char \in 2 .. (Size + 1) /\ bitsLeft \in 0 .. 8
  BY <1>1, <1>2, Bytes DEF TextTypes, Encoding
<1>4. EncodingNow
  <2>1. Low(buffer, bitsLeft) = Low(data[char - 1], bitsLeft) /\ 5 * m + bitsLeft = 8 * (char - 1)
    BY <1>1, <1>2, <1>3 DEF Encoding
  <2>2. buffer \in Nat /\ m \in Nat
    BY <1>2 DEF TextTypes
  <2>3. char - 1 \in 1 .. Size
    BY <1>3
  <2>4. data[char - 1] \in 0 .. 255 /\ ByteAt(char - 1) = data[char - 1]
    BY <1>3, <2>3 DEF ByteAt
  <2>5. char <= Size => data[char] \in 0 .. 255 /\ ByteAt(char) = data[char]
    BY <1>3 DEF ByteAt
  <2>6. char > Size => ByteAt(char) = 0
    BY <1>3 DEF ByteAt
  <2> QED
    BY <1>3, <2>1, <2>2, <2>4, <2>5, <2>6 DEF EncodingNow
<1>5. DigitMade(buf, bits, char')
  <2>1. CASE bitsLeft >= 5
    BY <1>1, <1>3, <1>4, <2>1, BitsLeft DEF Text!Loaded
  <2>2. CASE bitsLeft < 5 /\ char <= Size
    BY <1>1, <1>3, <1>4, <2>2, NextByte DEF Text!Loaded
  <2>3. CASE bitsLeft < 5 /\ char > Size
    <3>1. bitsLeft \in 1 .. 4
      BY <1>1, <1>3, <2>3
    <3> QED
      BY <1>1, <1>3, <1>4, <2>3, <3>1, NoMoreBytes DEF Text!Loaded
  <2> QED
    BY <1>3, <2>1, <2>2, <2>3
<1> HIDE DEF buf, bits
<1>6. m \in Nat /\ text \in Seq(0 .. 33) /\ \A j \in 1 .. m : text[j] = Digit(j)
  BY <1>1, <1>2 DEF TextTypes, Encoded
<1>7. Digit(m + 1) \in 0 .. 31 /\ Five(buf, bits - 5) = Digit(m + 1)
  <2>1. m + 1 \in Nat \ {0} /\ data \in Text!AddressBytes
    BY <1>2, <1>6 DEF TextTypes
  <2>2. Digit(m + 1) \in 0 .. 31
    BY <2>1, DigitIn
  <2> QED
    BY <1>5, <2>2 DEF DigitMade
<1>8. text' = Append(text, Digit(m + 1))
  BY <1>1, <1>7
<1>15. Digit(m + 1) \in 0 .. 33
  BY <1>7
<1>9. /\ text' \in Seq(0 .. 33) /\ Len(text') = m + 1
      /\ text'[m + 1] = Digit(m + 1) /\ \A j \in 1 .. m : text'[j] = text[j]
  BY <1>6, <1>8, <1>15
<1>10. \A j \in 1 .. (m + 1) : text'[j] = Digit(j)
  BY <1>6, <1>9
<1>11. TextTypes'
  <2>1. buffer' \in Nat /\ bitsLeft' \in Nat /\ char' \in Nat \ {0}
    BY <1>1, <1>3, <1>5, SMTT(30) DEF DigitMade
  <2> QED
    BY <1>1, <1>2, <1>9, <2>1 DEF TextTypes, Text!AddressBytes
<1>12. Encoding'
  BY <1>1, <1>5, <1>9 DEF Encoding, DigitMade
<1>13. Encoded'
  BY <1>1, <1>9, <1>10, SameDigits DEF Encoded
<1>14. Decoding' /\ Paying'
  BY <1>1 DEF TextInv, Decoding, Paying
<1> QED
  BY <1>11, <1>12, <1>13, <1>14 DEF TextInv
-----------------------------------------------------------------------------
\* What is left of a sequence when it is cut behind i.
LEMMA CutIs ==
  ASSUME NEW S, NEW s \in Seq(S), NEW i \in 0 .. Len(s)
  PROVE  /\ SubSeq(s, 1, i) \in Seq(S) /\ Len(SubSeq(s, 1, i)) = i
         /\ \A k \in 1 .. i : SubSeq(s, 1, i)[k] = s[k]
         /\ SubSeq(s, i + 1, Len(s)) \in Seq(S) /\ Len(SubSeq(s, i + 1, Len(s))) = Len(s) - i
         /\ \A k \in 1 .. (Len(s) - i) : SubSeq(s, i + 1, Len(s))[k] = s[i + k]
<1>1. Len(s) \in Nat /\ \A k \in 1 .. Len(s) : s[k] \in S
  OBVIOUS
<1>2. /\ SubSeq(s, 1, i) \in Seq(S) /\ Len(SubSeq(s, 1, i)) = i
      /\ \A k \in 1 .. i : SubSeq(s, 1, i)[k] = s[k]
  <2>1. 1 \in Int /\ i \in Int /\ \A k \in 1 .. i : s[k] \in S
    BY <1>1
  <2>2. /\ SubSeq(s, 1, i) \in Seq(S) /\ Len(SubSeq(s, 1, i)) = IF 1 <= i THEN i - 1 + 1 ELSE 0
        /\ \A k \in 1 .. i - 1 + 1 : SubSeq(s, 1, i)[k] = s[1 + k - 1]
    BY <2>1, SubSeqProperties
  <2>3. i - 1 + 1 = i /\ \A k \in 1 .. i : 1 + k - 1 = k
    BY <2>1
  <2> QED
    BY <2>2, <2>3
<1>3. /\ SubSeq(s, i + 1, Len(s)) \in Seq(S) /\ Len(SubSeq(s, i + 1, Len(s))) = Len(s) - i
      /\ \A k \in 1 .. (Len(s) - i) : SubSeq(s, i + 1, Len(s))[k] = s[i + k]
  <2>1. i + 1 \in Int /\ Len(s) \in Int /\ \A k \in (i + 1) .. Len(s) : s[k] \in S
    BY <1>1
  <2>2. /\ SubSeq(s, i + 1, Len(s)) \in Seq(S)
        /\ Len(SubSeq(s, i + 1, Len(s))) = IF i + 1 <= Len(s) THEN Len(s) - (i + 1) + 1 ELSE 0
        /\ \A k \in 1 .. Len(s) - (i + 1) + 1 :
             SubSeq(s, i + 1, Len(s))[k] = s[(i + 1) + k - 1]
    BY <2>1, SubSeqProperties
  <2>3. Len(s) - (i + 1) + 1 = Len(s) - i
    BY <1>1
  <2>4. ASSUME NEW k \in 1 .. (Len(s) - i)
        PROVE  SubSeq(s, i + 1, Len(s))[k] = s[i + k]
    <3>1. (i + 1) + k - 1 = i + k /\ k \in 1 .. Len(s) - (i + 1) + 1
      BY <1>1, <2>3
    <3>2. SubSeq(s, i + 1, Len(s))[k] = s[(i + 1) + k - 1]
      BY <2>2, <3>1
    <3> QED
      BY <3>1, <3>2
  <2>5. Len(SubSeq(s, i + 1, Len(s))) = Len(s) - i
    <3>1. CASE i + 1 <= Len(s)
      BY <2>2, <2>3, <3>1
    <3>2. CASE ~(i + 1 <= Len(s))
      BY <1>1, <2>2, <3>2
    <3> QED
      BY <3>1, <3>2
  <2> QED
    BY <2>2, <2>4, <2>5
<1> QED
  BY <1>2, <1>3

\* A sequence with an element put in behind i.
Inserted(s, i, e) == SubSeq(s, 1, i) \o <<e>> \o SubSeq(s, i + 1, Len(s))

LEMMA InsertIs ==
  ASSUME NEW S, NEW s \in Seq(S), NEW i \in 0 .. Len(s), NEW e \in S
  PROVE  /\ Inserted(s, i, e) \in Seq(S) /\ Len(Inserted(s, i, e)) = Len(s) + 1
         /\ Inserted(s, i, e)[i + 1] = e
         /\ \A k \in 1 .. i : Inserted(s, i, e)[k] = s[k]
         /\ \A k \in (i + 2) .. (Len(s) + 1) : Inserted(s, i, e)[k] = s[k - 1]
<1> DEFINE a == SubSeq(s, 1, i)
           z == SubSeq(s, i + 1, Len(s))
           b == a \o <<e>>
           t == Inserted(s, i, e)
<1>1. /\ a \in Seq(S) /\ Len(a) = i /\ z \in Seq(S) /\ Len(z) = Len(s) - i
      /\ \A k \in 1 .. i : a[k] = s[k]
      /\ \A k \in 1 .. (Len(s) - i) : z[k] = s[i + k]
  BY CutIs
<1>2. <<e>> \in Seq(S) /\ Len(<<e>>) = 1 /\ <<e>>[1] = e /\ Len(s) \in Nat
  OBVIOUS
<1> HIDE DEF a, z
<1>3. /\ b \in Seq(S) /\ Len(b) = i + 1
      /\ \A k \in 1 .. (i + 1) : b[k] = IF k <= i THEN a[k] ELSE <<e>>[k - i]
  <2>1. /\ b \in Seq(S) /\ Len(b) = Len(a) + Len(<<e>>)
        /\ \A k \in 1 .. Len(a) + Len(<<e>>) : b[k] = IF k <= Len(a) THEN a[k] ELSE <<e>>[k - Len(a)]
    <3>1. a \in Seq(S) /\ <<e>> \in Seq(S)
      BY <1>1, <1>2
    <3> QED
      BY <3>1, ConcatProperties
  <2> QED
    BY <1>1, <1>2, <2>1
<1>4. b[i + 1] = e /\ \A k \in 1 .. i : b[k] = s[k]
  BY <1>1, <1>2, <1>3
<1>5. t = b \o z
  BY DEF a, z, Inserted
<1> HIDE DEF b, t
<1>7. Len(b) + Len(z) = Len(s) + 1 /\ i + 1 \in 1 .. (Len(s) + 1)
  BY <1>1, <1>2, <1>3
<1>6. /\ t \in Seq(S) /\ Len(t) = Len(s) + 1
      /\ \A k \in 1 .. (Len(s) + 1) : t[k] = IF k <= i + 1 THEN b[k] ELSE z[k - (i + 1)]
  <2>1. /\ b \o z \in Seq(S) /\ Len(b \o z) = Len(b) + Len(z)
        /\ \A k \in 1 .. Len(b) + Len(z) :
             (b \o z)[k] = IF k <= Len(b) THEN b[k] ELSE z[k - Len(b)]
    <3>1. b \in Seq(S) /\ z \in Seq(S)
      BY <1>1, <1>3
    <3> QED
      BY <3>1, ConcatProperties
  <2> QED
    BY <1>3, <1>5, <1>7, <2>1
<1>8. ASSUME NEW k \in (i + 2) .. (Len(s) + 1) PROVE t[k] = s[k - 1]
  <2>1. k \in 1 .. (Len(s) + 1) /\ ~(k <= i + 1) /\ k - (i + 1) \in 1 .. (Len(s) - i)
        /\ i + (k - (i + 1)) = k - 1
    BY <1>2
  <2> QED
    BY <1>1, <1>6, <1>7, <2>1, ZenonT(30)
<1>9. ASSUME NEW k \in 1 .. i PROVE t[k] = s[k]
  <2>1. k \in 1 .. (Len(s) + 1) /\ k <= i + 1
    BY <1>2
  <2> QED
    BY <1>4, <1>6, <2>1
<1>10. t[i + 1] = e
  BY <1>4, <1>6, <1>7
<1> QED
  BY <1>6, <1>8, <1>9, <1>10 DEF t
-----------------------------------------------------------------------------
\* Whatever a client makes of the digits, it is as Typed says.
LEMMA PostTyped ==
  ASSUME PowersOfTwo, Text!Base32Assumption, TextInv, Text!Post
  PROVE  text' \in Seq(0 .. 33) /\ \E q \in Nat \ {0} : Typed(q)'
<1> DEFINE L == Len(text)
<1>1. text \in Seq(0 .. 33) /\ L \in Nat /\ \A j \in 1 .. L : text[j] = Digit(j)
  BY DEF TextInv, TextTypes, Encoded, Text!Post
<1>2. UNCHANGED data /\ \A j : Digit(j)' = Digit(j)
  BY SameDigits DEF Text!Post
<1>3. PICK i \in 1 .. L :
        text' \in {text,
                   SubSeq(text, 1, i) \o <<Text!Dash>> \o SubSeq(text, i + 1, Len(text)),
                   [text EXCEPT ![i] = Text!NoDigit],
                   SubSeq(text, 1, i - 1)}
  BY DEF Text!Post
<1>4. Text!Dash = 32 /\ Text!NoDigit = 33
  BY DEF Text!Dash, Text!NoDigit
<1>5. CASE text' = text
  <2>1. Typed(L + 1)'
    BY <1>1, <1>2, <1>5 DEF Typed
  <2> QED
    BY <1>1, <1>5, <2>1
<1>6. CASE text' = SubSeq(text, 1, i) \o <<Text!Dash>> \o SubSeq(text, i + 1, Len(text))
  <2>1. /\ text' \in Seq(0 .. 33) /\ Len(text') = L + 1 /\ text'[i + 1] = Text!Dash
        /\ \A k \in 1 .. i : text'[k] = text[k]
        /\ \A k \in (i + 2) .. (L + 1) : text'[k] = text[k - 1]
    <3>1. i \in 0 .. L /\ Text!Dash \in 0 .. 33
      BY <1>1, <1>4
    <3>2. text' = Inserted(text, i, Text!Dash)
      BY <1>6 DEF Inserted
    <3>3. text \in Seq(0 .. 33)
      BY <1>1
    <3>4. /\ Inserted(text, i, Text!Dash) \in Seq(0 .. 33)
          /\ Len(Inserted(text, i, Text!Dash)) = L + 1
          /\ Inserted(text, i, Text!Dash)[i + 1] = Text!Dash
          /\ \A k \in 1 .. i : Inserted(text, i, Text!Dash)[k] = text[k]
          /\ \A k \in (i + 2) .. (L + 1) : Inserted(text, i, Text!Dash)[k] = text[k - 1]
      <4> DEFINE C == 0 .. 33
      <4>1. text \in Seq(C) /\ Text!Dash \in C /\ i \in 0 .. Len(text)
        BY <3>1, <3>3
      <4> HIDE DEF C
      <4>2. /\ Inserted(text, i, Text!Dash) \in Seq(C)
            /\ Len(Inserted(text, i, Text!Dash)) = Len(text) + 1
            /\ Inserted(text, i, Text!Dash)[i + 1] = Text!Dash
            /\ \A k \in 1 .. i : Inserted(text, i, Text!Dash)[k] = text[k]
            /\ \A k \in (i + 2) .. (Len(text) + 1) :
                 Inserted(text, i, Text!Dash)[k] = text[k - 1]
        BY <4>1, InsertIs
      <4> QED
        BY <4>2 DEF C
    <3> QED
      BY <3>2, <3>4
  <2>2. ASSUME NEW k \in 1 .. (L + 1), k # i + 1
        PROVE  text'[k] = Digit(IF k > i + 1 THEN k - 1 ELSE k)
    <3>1. CASE k > i + 1
      <4>1. k \in (i + 2) .. (L + 1) /\ k - 1 \in 1 .. L
        BY <1>1, <3>1
      <4> QED
        BY <1>1, <2>1, <3>1, <4>1
    <3>2. CASE ~(k > i + 1)
      <4>1. k \in 1 .. i /\ k \in 1 .. L
        BY <1>1, <2>2, <3>2
      <4> QED
        BY <1>1, <2>1, <3>2, <4>1
    <3> QED
      BY <3>1, <3>2
  <2>3. Typed(i + 1)'
    BY <1>2, <2>1, <2>2 DEF Typed, Text!Dash
  <2>4. i + 1 \in Nat \ {0}
    OBVIOUS
  <2> QED
    BY <2>1, <2>3, <2>4
<1>7. CASE text' = [text EXCEPT ![i] = Text!NoDigit]
  <2>1. /\ text' \in Seq(0 .. 33) /\ Len(text') = L
        /\ \A k \in 1 .. L : text'[k] = IF k = i THEN Text!NoDigit ELSE text[k]
    BY <1>1, <1>4, <1>7, ExceptSeq
  <2>2. Typed(L + 1)'
    BY <1>1, <1>2, <2>1 DEF Typed, Text!NoDigit
  <2> QED
    BY <1>1, <2>1, <2>2
<1>8. CASE text' = SubSeq(text, 1, i - 1)
  <2>1. /\ text' \in Seq(0 .. 33) /\ Len(text') = i - 1
        /\ \A k \in 1 .. (i - 1) : text'[k] = text[k]
    <3>1. i - 1 \in 0 .. L
      BY <1>1
    <3> QED
      BY <1>1, <1>8, <3>1, CutIs
  <2>2. Typed(L + 1)'
    BY <1>1, <1>2, <2>1, SMTT(30) DEF Typed
  <2> QED
    BY <1>1, <2>1, <2>2
<1> QED
  BY <1>3, <1>5, <1>6, <1>7, <1>8

LEMMA PostStep ==
  ASSUME PowersOfTwo, Text!Base32Assumption, TextInv, Text!Post
  PROVE  TextInv'
<1>1. /\ place = "typed" /\ place' = "decode"
      /\ buffer' = 0 /\ bitsLeft' = 0 /\ char' = 1 /\ count' = 0
      /\ torn' = (torn \/ Len(copied) \in 1 .. (Size - 1))
      /\ UNCHANGED <<data, payto, copied, due, asked>>
  BY DEF Text!Post
<1>2. TextTypes /\ Paying /\ Size \in Nat \ {0}
  BY DEF TextInv, Text!Base32Assumption
<1>3. text' \in Seq(0 .. 33)
  BY PostTyped
<1>4. PICK q \in Nat \ {0} : Typed(q)'
  BY PostTyped
<1>5. torn' \in BOOLEAN
  BY <1>1
<1>6. TextTypes'
  <2>1. /\ buffer' \in Nat /\ bitsLeft' \in Nat /\ char' \in Nat \ {0} /\ count' \in 0 .. Size
        /\ place' \in {"idle", "encode", "typed", "decode"}
    BY <1>1, <1>2
  <2> QED
    BY <1>1, <1>2, <1>3, <1>5, <2>1 DEF TextTypes, Text!AddressBytes
<1>7. Encoding' /\ Encoded'
  BY <1>1 DEF Encoding, Encoded
<1>8. Decoding'
  <2>1. DecodedBefore(0)'
    <3>1. ByteAt(1) \in 0 .. 255 /\ ByteAt(1)' = ByteAt(1)
      BY <1>1, <1>2, Bytes, SameDigits DEF TextTypes
    <3>2. Low(0, 0) = 0 /\ ByteAt(1) \div 2^8 = 0
      BY <3>1, SmallPowers DEF Low
    <3>3. (Low(buffer, bitsLeft) = ByteAt(count + 1) \div 2^(8 - bitsLeft))'
      BY <1>1, <3>1, <3>2
    <3> QED
      BY <1>1, <3>3 DEF DecodedBefore
  <2>2. Digits(q)' = 0
    BY <1>1 DEF Digits
  <2> QED
    BY <1>1, <1>4, <2>1, <2>2 DEF Decoding
<1>9. Paying'
  <2>1. Len(copied) \in Nat /\ (copied # <<>> <=> Len(copied) > 0)
    BY <1>2 DEF TextTypes
  <2>2. ASSUME ~torn', copied # <<>>, due # <<>>
        PROVE  Len(copied) = Size /\ \A k \in 1 .. Len(copied) : copied[k] = due[k]
    <3>1. ~torn /\ Len(copied) \notin 1 .. (Size - 1)
      BY <1>1, <2>2
    <3>2. \A k \in 1 .. Len(copied) : copied[k] = due[k]
      BY <1>2, <2>2, <3>1 DEF Paying
    <3> QED
      BY <1>2, <2>1, <2>2, <3>1, <3>2 DEF TextTypes
  <2>3. ~(Size < Size)
    BY <1>2
  <2> QED
    BY <1>1, <2>2, <2>3 DEF Paying
<1> QED
  BY <1>6, <1>7, <1>8, <1>9 DEF TextInv
-----------------------------------------------------------------------------
LEMMA EncodeEndStep ==
  ASSUME TextInv, Text!EncodeEnd
  PROVE  TextInv'
<1>1. /\ place = "encode" /\ place' = "typed"
      /\ UNCHANGED <<data, text, buffer, bitsLeft, char, payto, count, copied, due, torn, asked>>
  BY DEF Text!EncodeEnd, Text!loop, Text!miner
<1>2. TextTypes /\ Encoded /\ Paying
  BY DEF TextInv
<1>3. TextTypes'
  BY <1>1, <1>2 DEF TextTypes, Text!AddressBytes
<1>4. Encoded'
  BY <1>1, <1>2, SameDigits DEF Encoded
<1>5. Encoding' /\ Decoding'
  BY <1>1 DEF Encoding, Decoding
<1>6. Paying'
  BY <1>1, <1>2 DEF Paying
<1> QED
  BY <1>3, <1>4, <1>5, <1>6 DEF TextInv

\* The character that is read: a dash only at q, otherwise the digit m + 1 or
\* none.
LEMMA ReadingAt ==
  ASSUME PowersOfTwo, Text!Base32Assumption, TextTypes, Text!Reading, NEW q \in Nat \ {0}, Typed(q)
  PROVE  /\ char \in 1 .. Len(text) /\ count + 1 \in 1 .. Size /\ place = "decode"
         /\ Digits(q) \in Nat
         /\ text[char] = Text!Dash => char = q
         /\ text[char] \in 0 .. 31 =>
              char # q /\ text[char] = Digit(Digits(q) + 1)
<1>1. /\ char \in 1 .. Len(text) /\ count + 1 \in 1 .. Size /\ place = "decode"
  BY DEF TextTypes, Text!Reading, Text!Base32Assumption
<1>2. /\ IF char = q THEN text[char] = Text!Dash
         ELSE text[char] \in {Digit(IF char > q THEN char - 1 ELSE char), Text!NoDigit}
  BY <1>1 DEF Typed
<1>3. Text!Dash = 32 /\ Text!NoDigit = 33
  BY DEF Text!Dash, Text!NoDigit
<1>4. CASE char > q
  <2>1. char - 2 \in Nat /\ char - 1 \in Nat \ {0} /\ (char - 2) + 1 = char - 1 /\ char # q
    BY <1>1, <1>4
  <2>2. Digit(char - 1) \in 0 .. 31
    BY <2>1, DigitIn DEF TextTypes
  <2>3. Digits(q) = char - 2 /\ text[char] \in {Digit(char - 1), 33}
    BY <1>2, <1>3, <1>4, <2>1 DEF Digits
  <2>4. text[char] # 32 /\ (text[char] \in 0 .. 31 => text[char] = Digit(char - 1))
    BY <2>2, <2>3
  <2>5. Digits(q) \in Nat /\ Digits(q) + 1 = char - 1
    BY <2>1, <2>3
  <2> QED
    BY <1>1, <1>3, <2>1, <2>4, <2>5
<1>5. CASE char < q
  <2>1. char - 1 \in Nat /\ char \in Nat \ {0} /\ (char - 1) + 1 = char /\ char # q /\ ~(char > q)
    BY <1>1, <1>5
  <2>2. Digit(char) \in 0 .. 31
    BY <2>1, DigitIn DEF TextTypes
  <2>3. Digits(q) = char - 1 /\ text[char] \in {Digit(char), 33}
    BY <1>2, <1>3, <1>5, <2>1 DEF Digits
  <2>4. text[char] # 32 /\ (text[char] \in 0 .. 31 => text[char] = Digit(char))
    BY <2>2, <2>3
  <2>5. Digits(q) \in Nat /\ Digits(q) + 1 = char
    BY <2>1, <2>3
  <2> QED
    BY <1>1, <1>3, <2>1, <2>4, <2>5
<1>6. CASE char = q
  <2>1. Digits(q) = char - 1 /\ char - 1 \in Nat
    BY <1>1, <1>6 DEF Digits
  <2>2. text[char] = 32 /\ 32 \notin 0 .. 31
    BY <1>2, <1>3, <1>6
  <2> QED
    BY <1>1, <1>2, <1>3, <1>6, <2>1, <2>2
<1> QED
  BY <1>1, <1>4, <1>5, <1>6

LEMMA DecodeSkipStep ==
  ASSUME PowersOfTwo, Text!Base32Assumption, TextInv, Text!DecodeSkip
  PROVE  TextInv'
<1>1. /\ Text!Reading /\ text[char] = Text!Dash /\ char' = char + 1 /\ place = "decode"
      /\ UNCHANGED <<place, data, text, buffer, bitsLeft, payto, count, copied, due, torn, asked>>
  BY DEF Text!DecodeSkip, Text!miner, Text!Reading
<1>2. TextTypes /\ Decoding /\ Paying
  BY DEF TextInv
<1>3. PICK q \in Nat \ {0} : Typed(q) /\ DecodedBefore(Digits(q))
  BY <1>1, <1>2 DEF Decoding
<1>4. char = q
  BY <1>1, <1>2, <1>3, ReadingAt
<1>5. TextTypes'
  <2>1. char' \in Nat \ {0}
    BY <1>1, <1>2 DEF TextTypes
  <2> QED
    BY <1>1, <1>2, <2>1 DEF TextTypes, Text!AddressBytes
<1>6. Encoding' /\ Encoded'
  BY <1>1 DEF Encoding, Encoded
<1>7. Decoding'
  <2>1. Typed(q)' /\ Digits(q)' = q - 1
    BY <1>1, <1>3, <1>4, SameDigits DEF Typed, Digits
  <2>2. DecodedBefore(q - 1)
    BY <1>3, <1>4 DEF Digits
  <2>3. DecodedBefore(q - 1)'
    BY <1>1, <2>2, SameDigits DEF DecodedBefore
  <2> QED
    BY <1>3, <2>1, <2>3 DEF Decoding
<1>8. Paying'
  BY <1>1, <1>2 DEF Paying
<1> QED
  BY <1>5, <1>6, <1>7, <1>8 DEF TextInv

LEMMA DecodeDigitStep ==
  ASSUME PowersOfTwo, Text!Base32Assumption, TextInv, Text!DecodeDigit
  PROVE  TextInv'
<1> DEFINE wide == Text!Wrap(buffer * 32 + text[char])
           bits == bitsLeft + 5
<1>1. /\ Text!Reading /\ text[char] \in 0 .. 31 /\ char' = char + 1 /\ place = "decode"
      /\ buffer' = wide /\ bitsLeft' = IF bits < 8 THEN bits ELSE bits - 8
      /\ payto' = IF bits < 8 THEN payto ELSE [payto EXCEPT ![count + 1] = Eight(wide, bits - 8)]
      /\ count' = IF bits < 8 THEN count ELSE count + 1
      /\ UNCHANGED <<place, data, text, copied, due, torn, asked>>
  BY DEF Text!DecodeDigit, Text!miner, Text!Reading, Eight
<1>2. TextTypes /\ Decoding /\ Paying /\ Size \in Nat \ {0}
  BY DEF TextInv, Text!Base32Assumption
<1>3. PICK q \in Nat \ {0} : Typed(q) /\ DecodedBefore(Digits(q))
  BY <1>1, <1>2 DEF Decoding
<1> DEFINE m == Digits(q)
           d == ByteAt(count + 1)
           e == ByteAt(count + 2)
<1>4. /\ char \in 1 .. Len(text) /\ count + 1 \in 1 .. Size /\ m \in Nat
      /\ char # q /\ text[char] = Digit(m + 1)
  BY <1>1, <1>2, <1>3, ReadingAt
<1>5. Digits(q)' = m + 1
  BY <1>1, <1>3, <1>4 DEF Digits
<1>6. DecodedBefore(m)
  BY <1>3
<1> HIDE DEF m
<1>7. /\ 5 * m = 8 * count + bitsLeft /\ bitsLeft \in 0 .. 7 /\ count \in Nat /\ buffer \in Nat
      /\ Low(buffer, bitsLeft) = d \div 2^(8 - bitsLeft)
      /\ \A i \in 1 .. count : payto[i] = data[i]
  BY <1>2, <1>6 DEF DecodedBefore, TextTypes
<1>8. d \in 0 .. 255 /\ e \in 0 .. 255 /\ data \in Text!AddressBytes /\ d = data[count + 1]
  <2>1. data \in Text!AddressBytes
    BY <1>2 DEF TextTypes
  <2>2. count + 1 \in Nat \ {0} /\ count + 2 \in Nat \ {0} /\ count + 1 <= Size
    BY <1>4, <1>7
  <2> QED
    BY <2>1, <2>2, Bytes DEF ByteAt
<1>9. text[char] = DigitOf(d, e, bitsLeft)
  <2>1. DigitAt(m + 1, count, bitsLeft)
    BY <1>4, <1>7, DigitAtAlways
  <2>2. 5 * ((m + 1) - 1) = 8 * count + bitsLeft
    BY <1>4, <1>7
  <2> QED
    BY <1>4, <2>1, <2>2 DEF DigitAt
<1>10. SameLow(wide, buffer * 32 + DigitOf(d, e, bitsLeft)) /\ wide \in Nat
  <2>1. buffer * 32 + text[char] \in Nat
    BY <1>1, <1>7
  <2>2. SameLow(wide, buffer * 32 + text[char])
    BY <2>1, WrapKeepsLow
  <2> QED
    BY <1>9, <2>2 DEF SameLow
<1> HIDE DEF wide
<1>11. m \in Nat /\ count + 1 \in 1 .. Size
  BY <1>4
<1>12. /\ 5 * (m + 1) = 8 * count' + bitsLeft' /\ bitsLeft' \in 0 .. 7 /\ count' \in 0 .. Size
       /\ Low(wide, bitsLeft') = ByteAt(count' + 1) \div 2^(8 - bitsLeft')
       /\ \A i \in 1 .. count' : payto'[i] = data[i]
       /\ payto' \in [1 .. Size -> 0 .. 255]
  <2>1. CASE bitsLeft < 3
    <3>1. bits < 8 /\ bits \in 0 .. 7 /\ bitsLeft \in 0 .. 2
      BY <1>7, <2>1
    <3>2. bitsLeft' = bitsLeft + 5 /\ count' = count /\ payto' = payto
      BY <1>1, <3>1
    <3> HIDE DEF d, e
    <3>3. NoByteYet(bitsLeft, buffer, d, e, wide)
      BY <1>8, <1>7, <3>1, NoByteYetAlways
    <3>4. Low(wide, bitsLeft + 5) = d \div 2^(8 - (bitsLeft + 5))
      BY <1>7, <1>10, <3>3 DEF NoByteYet
    <3>5. 5 * (m + 1) = 8 * count + (bitsLeft + 5) /\ count \in 0 .. Size
      <4>1. m \in Nat /\ count \in Nat /\ 5 * m = 8 * count + bitsLeft /\ bitsLeft \in 0 .. 7
        BY <1>7, <1>11
      <4> QED
        BY <1>2, <1>11, <4>1
    <3>6. payto \in [1 .. Size -> 0 .. 255]
      BY <1>2 DEF TextTypes
    <3>7. ByteAt(count' + 1) = d
      BY <3>2 DEF d
    <3> QED
      BY <1>7, <3>1, <3>2, <3>4, <3>5, <3>6, <3>7
  <2>2. CASE bitsLeft >= 3
    <3>1. ~(bits < 8) /\ bits - 8 = bitsLeft - 3 /\ bitsLeft \in 3 .. 7 /\ bitsLeft - 3 \in 0 .. 7
      BY <1>7, <2>2
    <3>2. /\ bitsLeft' = bitsLeft - 3 /\ count' = count + 1
          /\ payto' = [payto EXCEPT ![count + 1] = Eight(wide, bitsLeft - 3)]
      BY <1>1, <3>1
    <3> HIDE DEF d, e
    <3>3. ByteComplete(bitsLeft, buffer, d, e, wide)
      BY <1>8, <1>7, <3>1, ByteCompleteAlways
    <3>4. Eight(wide, bitsLeft - 3) = d /\ Low(wide, bitsLeft - 3) = e \div 2^(8 - (bitsLeft - 3))
      BY <1>7, <1>10, <3>3 DEF ByteComplete
    <3>5. 5 * (m + 1) = 8 * (count + 1) + (bitsLeft - 3) /\ count + 1 \in 0 .. Size
      <4>1. m \in Nat /\ count \in Nat /\ 5 * m = 8 * count + bitsLeft /\ bitsLeft \in 0 .. 7
        BY <1>7, <1>11
      <4> QED
        BY <1>2, <1>11, <4>1
    <3>6. payto \in [1 .. Size -> 0 .. 255] /\ payto' = [payto EXCEPT ![count + 1] = d]
      BY <1>2, <3>2, <3>4 DEF TextTypes
    <3>7. ByteAt(count' + 1) = e
      <4>1. (count + 1) + 1 = count + 2
        BY <1>7
      <4> QED
        BY <3>2, <4>1 DEF e
    <3>8. payto' \in [1 .. Size -> 0 .. 255]
      BY <1>8, <3>6
    <3>9. ASSUME NEW i \in 1 .. (count + 1) PROVE payto'[i] = data[i]
      <4>1. i \in 1 .. Size /\ (i = count + 1 \/ i \in 1 .. count)
        BY <1>2, <1>7, <1>11
      <4>2. CASE i = count + 1
        BY <1>8, <1>11, <3>6, <4>1, <4>2
      <4>3. CASE i \in 1 .. count
        <5>1. payto[i] = data[i] /\ i # count + 1
          BY <1>7, <4>3
        <5> QED
          BY <3>6, <4>1, <5>1
      <4> QED
        BY <4>1, <4>2, <4>3
    <3> QED
      BY <3>1, <3>2, <3>4, <3>5, <3>7, <3>8, <3>9
  <2> QED
    BY <1>7, <2>1, <2>2, SMTT(30)
<1>13. TextTypes'
  <2>1. char' \in Nat \ {0} /\ bitsLeft' \in Nat /\ buffer' \in Nat
    <3>1. char' \in Nat \ {0}
      BY <1>1, <1>2 DEF TextTypes
    <3>2. bitsLeft' \in Nat
      BY <1>12
    <3> QED
      BY <1>1, <1>10, <3>1, <3>2
  <2> QED
    BY <1>1, <1>2, <1>12, <2>1 DEF TextTypes, Text!AddressBytes
<1>14. Encoding' /\ Encoded'
  BY <1>1 DEF Encoding, Encoded
<1>15. Decoding'
  <2>1. Typed(q)'
    BY <1>1, <1>3, SameDigits DEF Typed
  <2>2. DecodedBefore(Digits(q))'
    BY <1>1, <1>5, <1>12 DEF DecodedBefore, ByteAt
  <2> QED
    BY <1>3, <2>1, <2>2 DEF Decoding
<1>16. Paying'
  BY <1>1, <1>2 DEF Paying
<1> QED
  BY <1>13, <1>14, <1>15, <1>16 DEF TextInv
-----------------------------------------------------------------------------
LEMMA DecodeFailStep ==
  ASSUME TextInv, Text!DecodeFail
  PROVE  TextInv'
<1>1. /\ place = "decode" /\ place' = "idle" /\ asked' = <<>>
      /\ UNCHANGED <<data, text, buffer, bitsLeft, char, payto, count, copied, due, torn>>
  BY DEF Text!DecodeFail, Text!Reading, Text!loop, Text!miner
<1>2. TextTypes /\ Paying
  BY DEF TextInv
<1>3. TextTypes'
  BY <1>1, <1>2 DEF TextTypes, Text!AddressBytes
<1>4. Encoding' /\ Encoded' /\ Decoding'
  BY <1>1 DEF Encoding, Encoded, Decoding
<1>5. Paying'
  BY <1>1, <1>2 DEF Paying
<1> QED
  BY <1>3, <1>4, <1>5 DEF TextInv

LEMMA DecodeEndStep ==
  ASSUME Text!Base32Assumption, TextInv, Text!DecodeEnd
  PROVE  TextInv'
<1>1. /\ place = "decode" /\ place' = "idle"
      /\ payto' = IF count < Size THEN [payto EXCEPT ![count + 1] = 0] ELSE payto
      /\ asked' = IF count = Size THEN data ELSE <<>>
      /\ UNCHANGED <<data, text, buffer, bitsLeft, char, count, copied, due, torn>>
  BY DEF Text!DecodeEnd, Text!loop, Text!miner
<1>2. TextTypes /\ Decoding /\ Paying /\ Size \in Nat \ {0} /\ Byte \subseteq 0 .. 255
  BY DEF TextInv, Text!Base32Assumption
<1>3. count = Size => payto = data
  <2>1. PICK q \in Nat \ {0} : DecodedBefore(Digits(q))
    BY <1>1, <1>2 DEF Decoding
  <2>2. \A i \in 1 .. count : payto[i] = data[i]
    BY <2>1 DEF DecodedBefore
  <2>3. payto \in [1 .. Size -> 0 .. 255] /\ data \in [1 .. Size -> Byte]
    BY <1>2 DEF TextTypes, Text!AddressBytes
  <2>4. ASSUME count = Size PROVE payto = data
    <3>1. \A i \in 1 .. Size : payto[i] = data[i]
      BY <2>2, <2>4
    <3>2. payto = [i \in 1 .. Size |-> payto[i]] /\ data = [i \in 1 .. Size |-> data[i]]
      BY <2>3
    <3>3. [i \in 1 .. Size |-> payto[i]] = [i \in 1 .. Size |-> data[i]]
      BY <3>1
    <3> QED
      BY <3>2, <3>3
  <2> QED
    BY <2>4
<1>4. payto' \in [1 .. Size -> 0 .. 255]
  BY <1>1, <1>2, SMTT(30) DEF TextTypes
<1>5. asked' \in Text!AddressBytes \cup {<<>>}
  BY <1>1, <1>2 DEF TextTypes
<1>6. TextTypes'
  BY <1>1, <1>2, <1>4, <1>5 DEF TextTypes, Text!AddressBytes
<1>7. Encoding' /\ Encoded' /\ Decoding'
  BY <1>1 DEF Encoding, Encoded, Decoding
<1>8. Paying'
  <2>1. asked' # <<>> => payto' = asked'
    <3>1. count = Size => ~(count < Size)
      BY <1>2
    <3> QED
      BY <1>1, <1>3, <3>1
  <2> QED
    BY <1>1, <1>2, <2>1 DEF Paying
<1> QED
  BY <1>6, <1>7, <1>8 DEF TextInv

LEMMA CopyByteStep ==
  ASSUME Text!Base32Assumption, TextInv, Text!CopyByte
  PROVE  TextInv'
<1> DEFINE n == Len(copied)
<1>1. /\ n < Size /\ copied' = Append(copied, payto[n + 1])
      /\ due' = IF copied = <<>> THEN asked ELSE due
      /\ torn' = (torn \/ place = "decode")
      /\ UNCHANGED <<place, data, text, buffer, bitsLeft, char, payto, count, asked>>
  BY DEF Text!CopyByte, Text!loop
<1>2. TextTypes /\ Encoding /\ Encoded /\ Decoding /\ Paying /\ Size \in Nat \ {0}
  BY DEF TextInv, Text!Base32Assumption
<1>3. /\ copied \in Seq(0 .. 255) /\ n \in Nat /\ (copied = <<>> <=> n = 0)
      /\ payto \in [1 .. Size -> 0 .. 255]
  BY <1>2 DEF TextTypes
<1>4. n + 1 \in 1 .. Size /\ payto[n + 1] \in 0 .. 255
  BY <1>1, <1>2, <1>3
<1>5. /\ copied' \in Seq(0 .. 255) /\ Len(copied') = n + 1 /\ copied'[n + 1] = payto[n + 1]
      /\ \A i \in 1 .. n : copied'[i] = copied[i]
  BY <1>1, <1>3, <1>4
<1>6. TextTypes'
  <2>1. torn' \in BOOLEAN /\ due' \in Text!AddressBytes \cup {<<>>}
    BY <1>1, <1>2 DEF TextTypes
  <2>2. Len(copied') <= Size
    BY <1>4, <1>5
  <2> QED
    BY <1>1, <1>2, <1>5, <2>1, <2>2 DEF TextTypes, Text!AddressBytes
<1>7. Encoding' /\ Encoded'
  BY <1>1, <1>2, SameDigits DEF Encoding, Encoded
<1>8. Decoding'
  BY <1>1, <1>2, SameDigits DEF Decoding, Typed, DecodedBefore, Digits, ByteAt
<1>9. Paying'
  <2>1. ASSUME ~torn', due' # <<>>
        PROVE  /\ place # "decode" /\ asked = due' /\ payto = asked
               /\ \A i \in 1 .. n : copied[i] = due'[i]
    <3>1. ~torn /\ place # "decode"
      BY <1>1, <2>1
    <3>2. CASE copied = <<>>
      BY <1>1, <1>2, <1>3, <2>1, <3>1, <3>2 DEF Paying
    <3>3. CASE copied # <<>>
      BY <1>1, <1>2, <2>1, <3>1, <3>3 DEF Paying
    <3> QED
      BY <3>2, <3>3
  <2>2. ASSUME ~torn', due' # <<>>, NEW i \in 1 .. (n + 1) PROVE copied'[i] = due'[i]
    <3>1. i = n + 1 \/ i \in 1 .. n
      BY <1>3
    <3> QED
      BY <1>5, <2>1, <2>2, <3>1
  <2> QED
    BY <1>1, <1>2, <1>5, <2>1, <2>2 DEF Paying
<1> QED
  BY <1>6, <1>7, <1>8, <1>9 DEF TextInv

LEMMA NewRoundStep ==
  ASSUME Text!Base32Assumption, TextInv, Text!NewRound
  PROVE  TextInv'
<1>1. /\ copied' = <<>> /\ due' = <<>> /\ torn' = FALSE
      /\ UNCHANGED <<place, data, text, buffer, bitsLeft, char, payto, count, asked>>
  BY DEF Text!NewRound, Text!loop
<1>2. TextTypes /\ Encoding /\ Encoded /\ Decoding /\ Paying /\ Size \in Nat \ {0}
  BY DEF TextInv, Text!Base32Assumption
<1>3. copied' \in Seq(0 .. 255) /\ Len(copied') <= Size
  BY <1>1, <1>2
<1>4. TextTypes'
  <2>1. torn' \in BOOLEAN /\ due' \in Text!AddressBytes \cup {<<>>}
    BY <1>1
  <2> QED
    BY <1>1, <1>2, <1>3, <2>1 DEF TextTypes, Text!AddressBytes
<1>5. Encoding' /\ Encoded'
  BY <1>1, <1>2, SameDigits DEF Encoding, Encoded
<1>6. Decoding'
  BY <1>1, <1>2, SameDigits DEF Decoding, Typed, DecodedBefore, Digits, ByteAt
<1>7. Paying'
  BY <1>1, <1>2 DEF Paying
<1> QED
  BY <1>4, <1>5, <1>6, <1>7 DEF TextInv

LEMMA TextStep ==
  ASSUME PowersOfTwo, Text!Base32Assumption
  PROVE  TextInv /\ [Text!Next]_(Text!vars) => TextInv'
<1> SUFFICES ASSUME TextInv, [Text!Next]_(Text!vars) PROVE TextInv'
  OBVIOUS
<1>1. CASE Text!Next
  BY <1>1, EncodeStartStep, EncodeDigitStep, EncodeEndStep, PostStep, DecodeSkipStep,
     DecodeDigitStep, DecodeFailStep, DecodeEndStep, CopyByteStep, NewRoundStep DEF Text!Next
<1>2. CASE UNCHANGED Text!vars
  <2>1. UNCHANGED <<place, data, text, buffer, bitsLeft, char, payto, count, copied, asked, due, torn>>
    BY <1>2 DEF Text!vars
  <2>2. TextTypes' /\ Encoding' /\ Encoded'
    BY <2>1, SameDigits DEF TextInv, TextTypes, Text!AddressBytes, Encoding, Encoded
  <2>3. Decoding'
    BY <2>1, SameDigits DEF TextInv, Decoding, Typed, DecodedBefore, Digits, ByteAt
  <2>4. Paying'
    BY <2>1 DEF TextInv, Paying
  <2> QED
    BY <2>2, <2>3, <2>4 DEF TextInv
<1> QED
  BY <1>1, <1>2

\* For any address, whatever the client does to its text: base32_decode gets
\* from it the address that base32_encode made it from, or the request has
\* failed, and what the miner copies undisturbed is the address of the last
\* request.
THEOREM BlocksPayWhatWasAsked ==
  ASSUME PowersOfTwo PROVE Spec => []PaysWhatWasAsked
<1>1. Text!Base32Assumption
  BY RoutinesAssumption
<1>2. Init => TextInv
  BY <1>1, TextInit DEF Init
<1>3. [Next]_vars => [Text!Next]_(Text!vars)
  <2>1. UNCHANGED textVars => UNCHANGED Text!vars
    BY DEF textVars, Text!vars
  <2>2. UseText => Text!Next
    BY DEF UseText
  <2>3. UseQueue \/ UseCounter \/ UseMap \/ UseNumber \/ UseReward \/ UNCHANGED vars
          => UNCHANGED textVars
    BY DEF UseQueue, UseCounter, UseMap, UseNumber, UseReward, vars
  <2> QED
    BY <2>1, <2>2, <2>3 DEF Next
<1>4. TextInv /\ [Next]_vars => TextInv'
  BY <1>1, <1>3, TextStep
<1>5. TextInv => PaysWhatWasAsked
  <2> SUFFICES ASSUME TextInv, Len(copied) = Size, ~torn, due # <<>> PROVE copied = due
    BY DEF PaysWhatWasAsked, Text!PaysWhatWasAsked
  <2>1. /\ copied \in Seq(0 .. 255) /\ due \in [1 .. Size -> Byte] /\ Size \in Nat \ {0}
    BY <1>1 DEF TextInv, TextTypes, Text!AddressBytes, Text!Base32Assumption
  <2>2. \A i \in 1 .. Size : copied[i] = due[i]
    BY <2>1 DEF TextInv, Paying
  <2>3. copied = [i \in 1 .. Size |-> copied[i]]
    BY <2>1
  <2> QED
    BY <2>1, <2>2, <2>3
<1> QED
  BY <1>2, <1>4, <1>5, PTL DEF Spec
-----------------------------------------------------------------------------
(* The big numbers: induction over the words *)

\* Induction over 0 .. n, upwards and downwards, for a set.
LEMMA UpTo ==
  ASSUME NEW n \in Nat, NEW S, 0 \in S, \A i \in 0 .. (n - 1) : i \in S => i + 1 \in S
  PROVE  \A i \in 0 .. n : i \in S
<1> DEFINE T == {i \in 0 .. n : i \notin S}
<1> SUFFICES ASSUME T # {} PROVE FALSE
  OBVIOUS
<1>1. PICK k \in T : \A j \in T : k <= j
  <2>1. T \subseteq Nat
    OBVIOUS
  <2> HIDE DEF T
  <2> QED
    BY <2>1, LeastNat
<1>2. k \in 0 .. n /\ k \notin S
  OBVIOUS
<1>3. k - 1 \in 0 .. (n - 1) /\ (k - 1) + 1 = k
  BY <1>2
<1>4. k - 1 \in T
  BY <1>2, <1>3
<1> QED
  BY <1>1, <1>2, <1>4

LEMMA DownTo ==
  ASSUME NEW n \in Nat, NEW S, n \in S, \A i \in 0 .. (n - 1) : i + 1 \in S => i \in S
  PROVE  \A i \in 0 .. n : i \in S
<1> DEFINE T == {j \in 0 .. n : n - j \in S}
<1>1. 0 \in T
  <2>1. n - 0 = n /\ 0 \in 0 .. n
    OBVIOUS
  <2> QED
    BY <2>1
<1>2. ASSUME NEW i \in 0 .. (n - 1), i \in T PROVE i + 1 \in T
  <2>1. (n - (i + 1)) + 1 = n - i /\ n - (i + 1) \in 0 .. (n - 1) /\ i + 1 \in 0 .. n
    OBVIOUS
  <2> QED
    BY <1>2, <2>1
<1>3. \A i \in 0 .. n : i \in T
  <2> HIDE DEF T
  <2> QED
    BY <1>1, <1>2, UpTo
<1>4. ASSUME NEW i \in 0 .. n PROVE i \in S
  <2>1. n - i \in T /\ n - (n - i) = i
    BY <1>3
  <2> QED
    BY <2>1
<1> QED
  BY <1>4

\* A value can be passed through any number of steps.
Iterates(D, z, n, g) == \E f \in [0 .. n -> D] : f[0] = z /\ \A i \in 1 .. n : f[i] = g[i][f[i - 1]]

LEMMA Iterate ==
  ASSUME NEW D, NEW z \in D, NEW n \in Nat, NEW g \in [1 .. n -> [D -> D]]
  PROVE  Iterates(D, z, n, g)
<1> DEFINE S == {k \in 0 .. n : \E f \in [0 .. k -> D] :
                   f[0] = z /\ \A i \in 1 .. k : f[i] = g[i][f[i - 1]]}
<1>1. 0 \in S
  <2> DEFINE f == [i \in 0 .. 0 |-> z]
  <2>1. f \in [0 .. 0 -> D] /\ f[0] = z /\ \A i \in 1 .. 0 : f[i] = g[i][f[i - 1]]
    OBVIOUS
  <2> HIDE DEF f
  <2>2. 0 \in 0 .. n
    OBVIOUS
  <2> QED
    BY <2>1, <2>2
<1>2. ASSUME NEW k \in 0 .. (n - 1), k \in S PROVE k + 1 \in S
  <2>1. PICK f \in [0 .. k -> D] : f[0] = z /\ \A i \in 1 .. k : f[i] = g[i][f[i - 1]]
    BY <1>2
  <2> DEFINE h == [i \in 0 .. (k + 1) |-> IF i = k + 1 THEN g[k + 1][f[k]] ELSE f[i]]
  <2>2. k + 1 \in 1 .. n /\ f[k] \in D
    OBVIOUS
  <2>3. g[k + 1] \in [D -> D]
    BY <2>2
  <2>4. g[k + 1][f[k]] \in D
    BY <2>2, <2>3
  <2>5. h \in [0 .. (k + 1) -> D]
    BY <2>4
  <2>6. h[0] = z
    BY <2>1
  <2>7. ASSUME NEW i \in 1 .. (k + 1) PROVE h[i] = g[i][h[i - 1]]
    <3>1. CASE i = k + 1
      <4>1. h[i - 1] = f[k] /\ h[i] = g[i][f[k]]
        BY <3>1
      <4> QED
        BY <4>1
    <3>2. CASE i # k + 1
      <4>1. i \in 1 .. k /\ i - 1 \in 0 .. k /\ i - 1 # k + 1
        BY <3>2
      <4>2. h[i] = f[i] /\ h[i - 1] = f[i - 1]
        BY <3>2, <4>1
      <4> QED
        BY <2>1, <4>1, <4>2
    <3> QED
      BY <3>1, <3>2
  <2>8. k + 1 \in 0 .. n
    OBVIOUS
  <2> HIDE DEF h
  <2> QED
    BY <2>5, <2>6, <2>7, <2>8
<1>3. n \in S
  <2> HIDE DEF S
  <2>1. \A i \in 0 .. n : i \in S
    BY <1>1, <1>2, UpTo
  <2>2. n \in 0 .. n
    OBVIOUS
  <2> QED
    BY <2>1, <2>2
<1> QED
  BY <1>3 DEF Iterates
-----------------------------------------------------------------------------
\* What powers are, for any base: Base is one of 2, and the size of a number
\* one of Base.
Powers ==
  /\ \A b \in Nat \ {0} : b^0 = 1 /\ b^1 = b
  /\ \A b \in Nat \ {0}, k \in Nat : b^k \in Nat \ {0}
  /\ \A b \in Nat \ {0}, j, k \in Nat : b^(j + k) = b^j * b^k
  /\ \A b \in Nat \ {0}, j, k \in Nat : b^(j * k) = (b^j)^k

\* The constants and what is made of them.
NumberFacts ==
  /\ Number!Base \in Nat /\ Number!Base >= 2 /\ Number!MaxVal = Number!Base - 1
  /\ Words \in Nat /\ Words >= 2 /\ Bits \in Nat /\ Bits >= 1
  /\ Number!All \in Nat /\ Number!All >= 1 /\ Number!All = Number!Base^Words
  /\ Number!Top \in Number!Index /\ Number!Top = Words - 1

\* What the constants are.
LEMMA Facts == ASSUME Powers, Number!BigNumAssumption PROVE NumberFacts
<1>1. Bits \in Nat /\ Bits >= 1 /\ Words \in Nat /\ Words >= 2
  BY DEF Number!BigNumAssumption
<1>2. 2 \in Nat \ {0} /\ Bits - 1 \in Nat /\ 1 + (Bits - 1) = Bits
  BY <1>1
<1>3. 2^(1 + (Bits - 1)) = 2^1 * 2^(Bits - 1) /\ 2^1 = 2 /\ 2^(Bits - 1) \in Nat \ {0}
  <2>1. \A j, k \in Nat : 2^(j + k) = 2^j * 2^k
    BY DEF Powers
  <2> QED
    BY <1>2, <2>1 DEF Powers
<1>4. Number!Base \in Nat /\ Number!Base >= 2
  BY <1>2, <1>3 DEF Number!Base
<1>5. Number!Base^Words \in Nat \ {0}
  BY <1>1, <1>4 DEF Powers
<1> QED
  BY <1>1, <1>4, <1>5 DEF NumberFacts, Number!All, Number!Top, Number!Index, Number!MaxVal
-----------------------------------------------------------------------------
\* What the words of x from the i-th stand for.
IsSuffix(F, x) == F = [i \in 0 .. Words |-> IF i = Words THEN 0 ELSE x[i] + Number!Base * F[i + 1]]
Suffix(x) == CHOOSE F : IsSuffix(F, x)

\* Words that need not fit into a word.
WideNumber == [Number!Index -> Nat]

\* Val, word by word.
LEMMA SuffixIs ==
  ASSUME NumberFacts, NEW x \in WideNumber
  PROVE  /\ Suffix(x) \in [0 .. Words -> Nat] /\ Number!Val(x) = Suffix(x)[0] /\ Suffix(x)[Words] = 0
         /\ \A i \in Number!Index : Suffix(x)[i] = x[i] + Number!Base * Suffix(x)[i + 1]
<1> DEFINE g == [j \in 1 .. Words |-> [s \in Nat |-> x[Words - j] + Number!Base * s]]
<1>1. Words \in Nat /\ Number!Base \in Nat /\ Number!Index = 0 .. (Words - 1)
  BY DEF NumberFacts, Number!Index
<1>2. \A j \in 1 .. Words : Words - j \in Number!Index /\ x[Words - j] \in Nat
  BY <1>1 DEF WideNumber
<1>3. g \in [1 .. Words -> [Nat -> Nat]]
  <2> SUFFICES ASSUME NEW j \in 1 .. Words
               PROVE  [s \in Nat |-> x[Words - j] + Number!Base * s] \in [Nat -> Nat]
    OBVIOUS
  <2>1. x[Words - j] \in Nat /\ \A s \in Nat : Number!Base * s \in Nat
    BY <1>1, <1>2
  <2> QED
    BY <2>1
<1>4. \A j \in 1 .. Words, s \in Nat : g[j][s] = x[Words - j] + Number!Base * s
  OBVIOUS
<1>5. PICK f \in [0 .. Words -> Nat] : f[0] = 0 /\ \A j \in 1 .. Words : f[j] = g[j][f[j - 1]]
  <2> HIDE DEF g
  <2>1. 0 \in Nat
    OBVIOUS
  <2>2. Iterates(Nat, 0, Words, g)
    BY <1>1, <1>3, <2>1, Iterate
  <2> QED
    BY <2>2 DEF Iterates
<1> HIDE DEF g
<1> DEFINE F == [i \in 0 .. Words |-> f[Words - i]]
<1>6. F[Words] = 0 /\ F \in [0 .. Words -> Nat]
  BY <1>1, <1>5
<1>7. ASSUME NEW i \in Number!Index PROVE F[i] = x[i] + Number!Base * F[i + 1]
  <2>1. /\ Words - i \in 1 .. Words /\ i + 1 \in 0 .. Words /\ i \in 0 .. Words
        /\ (Words - i) - 1 = Words - (i + 1) /\ Words - (Words - i) = i
    BY <1>1
  <2>2. f[Words - i] = g[Words - i][f[(Words - i) - 1]]
    BY <1>5, <2>1
  <2>3. f[(Words - i) - 1] \in Nat
    BY <2>1, <1>1
  <2>4. f[Words - i] = x[i] + Number!Base * f[Words - (i + 1)]
    BY <1>4, <2>1, <2>2, <2>3
  <2> QED
    BY <2>1, <2>4
<1>8. IsSuffix(F, x)
  <2>1. ASSUME NEW i \in 0 .. Words PROVE F[i] = IF i = Words THEN 0 ELSE x[i] + Number!Base * F[i + 1]
    <3>1. i # Words => i \in Number!Index
      BY <1>1
    <3> QED
      BY <1>6, <1>7, <3>1
  <2>2. DOMAIN F = 0 .. Words /\ F = [i \in 0 .. Words |-> F[i]]
    OBVIOUS
  <2> HIDE DEF F
  <2> QED
    BY <2>1, <2>2 DEF IsSuffix
<1>9. IsSuffix(Suffix(x), x)
  BY <1>8 DEF Suffix
<1>10. ASSUME NEW G, IsSuffix(G, x) PROVE G \in [0 .. Words -> Nat]
  <2>1. DOMAIN G = 0 .. Words /\ G = [i \in 0 .. Words |-> G[i]]
    BY <1>10 DEF IsSuffix
  <2>2. \A i \in 0 .. Words : G[i] = IF i = Words THEN 0 ELSE x[i] + Number!Base * G[i + 1]
    BY <1>10 DEF IsSuffix
  <2> DEFINE S == {i \in 0 .. Words : G[i] \in Nat}
  <2>3. Words \in S
    BY <1>1, <2>2
  <2>4. ASSUME NEW i \in 0 .. (Words - 1), i + 1 \in S PROVE i \in S
    <3>1. i \in 0 .. Words /\ i # Words /\ x[i] \in Nat
      BY <1>1 DEF WideNumber
    <3>2. G[i + 1] \in Nat
      BY <2>4
    <3>3. Number!Base * G[i + 1] \in Nat
      BY <1>1, <3>2
    <3> QED
      BY <2>2, <3>1, <3>3
  <2>5. \A i \in 0 .. Words : i \in S
    <3> HIDE DEF S
    <3> QED
      BY <1>1, <2>3, <2>4, DownTo
  <2> QED
    BY <2>1, <2>5
<1>11. Suffix(x) \in [0 .. Words -> Nat]
  BY <1>9, <1>10
<1>12. \A i \in 0 .. Words : Suffix(x)[i] = IF i = Words THEN 0 ELSE x[i] + Number!Base * Suffix(x)[i + 1]
  BY <1>9 DEF IsSuffix
<1>13. Number!Val(x) = Suffix(x)[0]
  BY DEF Number!Val, Suffix, IsSuffix
<1> QED
  BY <1>1, <1>11, <1>12, <1>13

\* To show what a number stands for it is enough to say what each suffix
\* does, up to what runs over at the end.
LEMMA ValIs ==
  ASSUME Powers, NumberFacts, NEW x \in WideNumber, NEW F \in [0 .. Words -> Int],
         \A i \in Number!Index : F[i] = x[i] + Number!Base * F[i + 1]
  PROVE  Number!Val(x) = F[0] - Number!All * F[Words]
<1> DEFINE s == Suffix(x)
           e == F[Words]
           S == {i \in 0 .. Words : F[i] - s[i] = Number!Base^(Words - i) * e}
<1>1. /\ s \in [0 .. Words -> Nat] /\ Number!Val(x) = s[0] /\ s[Words] = 0
      /\ \A i \in Number!Index : s[i] = x[i] + Number!Base * s[i + 1]
  BY SuffixIs
<1>2. Words \in Nat /\ Number!Base \in Nat \ {0} /\ Number!Index = 0 .. (Words - 1)
      /\ Number!All = Number!Base^Words
  BY DEF NumberFacts, Number!Index
<1> HIDE DEF s
<1>3. e \in Int /\ Number!Base^0 = 1 /\ Number!Base^1 = Number!Base
  BY <1>2 DEF Powers
<1>4. Words \in S
  <2>1. Words - Words = 0 /\ Words \in 0 .. Words /\ 1 * e = e /\ e - 0 = e
    BY <1>2, <1>3
  <2> QED
    BY <1>1, <1>3, <2>1
<1>5. ASSUME NEW i \in 0 .. (Words - 1), i + 1 \in S PROVE i \in S
  <2> DEFINE p == Number!Base^(Words - (i + 1))
  <2>1. /\ Words - (i + 1) \in Nat /\ 1 + (Words - (i + 1)) = Words - i /\ i \in Number!Index
        /\ i \in 0 .. Words /\ i + 1 \in 0 .. Words /\ 1 \in Nat
    BY <1>2
  <2>2. p \in Nat /\ Number!Base^(Words - i) = Number!Base * p
    <3>1. p \in Nat
      BY <1>2, <2>1 DEF Powers
    <3>2. Number!Base^(1 + (Words - (i + 1))) = Number!Base^1 * p
      <4>1. \A j, k \in Nat : Number!Base^(j + k) = Number!Base^j * Number!Base^k
        BY <1>2 DEF Powers
      <4> QED
        BY <2>1, <4>1
    <3> QED
      BY <1>3, <2>1, <3>1, <3>2
  <2>3. F[i + 1] - s[i + 1] = p * e
    BY <1>5
  <2> HIDE DEF p
  <2>4. F[i] = x[i] + Number!Base * F[i + 1] /\ s[i] = x[i] + Number!Base * s[i + 1]
    BY <1>1, <2>1
  <2>5. x[i] \in Nat /\ F[i + 1] \in Int /\ s[i + 1] \in Int /\ F[i] \in Int /\ s[i] \in Int
    BY <1>1, <2>1 DEF WideNumber
  <2>6. F[i] - s[i] = Number!Base * (F[i + 1] - s[i + 1])
    <3>1. Number!Base * (F[i + 1] - s[i + 1]) = Number!Base * F[i + 1] - Number!Base * s[i + 1]
      BY <1>2, <2>5
    <3>2. Number!Base * F[i + 1] \in Int /\ Number!Base * s[i + 1] \in Int
      BY <1>2, <2>5, SMTT(30)
    <3> QED
      BY <2>4, <2>5, <3>1, <3>2, SMTT(30)
  <2>7. Number!Base * (p * e) = (Number!Base * p) * e
    BY <1>2, <1>3, <2>2
  <2> QED
    BY <2>1, <2>2, <2>3, <2>6, <2>7
<1>6. 0 \in S
  <2>1. 0 \in 0 .. Words
    BY <1>2
  <2> HIDE DEF S
  <2> QED
    BY <1>2, <1>4, <1>5, <2>1, DownTo
<1>7. F[0] - s[0] = Number!All * e /\ Number!All * e \in Int /\ F[0] \in Int /\ s[0] \in Int
  <2>1. Words - 0 = Words /\ 0 \in 0 .. Words /\ Number!All \in Int
    BY <1>2 DEF NumberFacts
  <2> QED
    BY <1>1, <1>2, <1>3, <1>6, <2>1
<1> QED
  BY <1>1, <1>7

\* A number is less than All.
LEMMA ValRange ==
  ASSUME Powers, NumberFacts, NEW x \in Number!Number
  PROVE  Number!Val(x) \in 0 .. (Number!All - 1) /\ x \in WideNumber
<1> DEFINE s == Suffix(x)
           S == {i \in 0 .. Words : s[i] <= Number!Base^(Words - i) - 1}
<1>0. x \in WideNumber
  BY DEF Number!Number, WideNumber, NumberFacts
<1>1. /\ s \in [0 .. Words -> Nat] /\ Number!Val(x) = s[0] /\ s[Words] = 0
      /\ \A i \in Number!Index : s[i] = x[i] + Number!Base * s[i + 1]
  BY <1>0, SuffixIs
<1>2. Words \in Nat /\ Number!Base \in Nat \ {0} /\ Number!Index = 0 .. (Words - 1)
      /\ Number!All = Number!Base^Words
  BY DEF NumberFacts, Number!Index
<1> HIDE DEF s
<1>3. Number!Base^0 = 1 /\ Number!Base^1 = Number!Base
  BY <1>2 DEF Powers
<1>4. Words \in S
  <2>1. Words - Words = 0 /\ Words \in 0 .. Words
    BY <1>2
  <2> QED
    BY <1>1, <1>3, <2>1
<1>5. ASSUME NEW i \in 0 .. (Words - 1), i + 1 \in S PROVE i \in S
  <2> DEFINE p == Number!Base^(Words - (i + 1))
  <2>1. /\ Words - (i + 1) \in Nat /\ 1 + (Words - (i + 1)) = Words - i /\ i \in Number!Index
        /\ i \in 0 .. Words /\ i + 1 \in 0 .. Words /\ 1 \in Nat
    BY <1>2
  <2>2. p \in Nat /\ Number!Base^(Words - i) = Number!Base * p
    <3>1. p \in Nat
      BY <1>2, <2>1 DEF Powers
    <3>2. Number!Base^(1 + (Words - (i + 1))) = Number!Base^1 * p
      <4>1. \A j, k \in Nat : Number!Base^(j + k) = Number!Base^j * Number!Base^k
        BY <1>2 DEF Powers
      <4> QED
        BY <2>1, <4>1
    <3> QED
      BY <1>3, <2>1, <3>1, <3>2
  <2>3. s[i + 1] <= p - 1
    BY <1>5
  <2> HIDE DEF p
  <2>4. s[i] = x[i] + Number!Base * s[i + 1]
    BY <1>1, <2>1
  <2>5. x[i] \in 0 .. (Number!Base - 1) /\ s[i + 1] \in Nat /\ s[i] \in Nat
    BY <1>1, <2>1 DEF Number!Number, NumberFacts
  <2>6. Number!Base * s[i + 1] <= Number!Base * (p - 1)
    BY <1>2, <2>2, <2>3, <2>5, SMTT(30)
  <2>7. Number!Base * (p - 1) = Number!Base * p - Number!Base
    BY <1>2, <2>2
  <2>8. s[i] <= Number!Base * p - 1
    <3>1. Number!Base * s[i + 1] \in Int /\ Number!Base * p \in Int
      BY <1>2, <2>2, <2>5
    <3> QED
      BY <1>2, <2>4, <2>5, <2>6, <2>7, <3>1, SMTT(30)
  <2> QED
    BY <2>1, <2>2, <2>8
<1>6. 0 \in S
  <2>1. 0 \in 0 .. Words
    BY <1>2
  <2> HIDE DEF S
  <2> QED
    BY <1>2, <1>4, <1>5, <2>1, DownTo
<1>7. s[0] <= Number!All - 1 /\ s[0] \in Nat /\ Number!All \in Int
  <2>1. Words - 0 = Words /\ 0 \in 0 .. Words /\ Number!All \in Int
    BY <1>2 DEF NumberFacts
  <2> QED
    BY <1>1, <1>2, <1>3, <1>6, <2>1
<1> QED
  BY <1>0, <1>1, <1>7

\* A number below m that differs by a multiple of m from u is u % m.
LEMMA Residue ==
  ASSUME NEW m \in Nat \ {0}, NEW v \in 0 .. (m - 1), NEW u \in Int, NEW q \in Int, v = u - m * q
  PROVE  v = u % m
<1> DEFINE r == u % m
           d == u \div m
<1>1. r \in 0 .. (m - 1) /\ d \in Int /\ u = m * d + r
  OBVIOUS
<1> HIDE DEF r, d
<1>2. v - r = m * (d - q)
  <2>1. m * (d - q) = m * d - m * q /\ m * d \in Int /\ m * q \in Int
    BY <1>1
  <2> QED
    BY <1>1, <2>1
<1>3. CASE d - q >= 1
  <2>1. m * (d - q) >= m
    BY <1>1, <1>3
  <2> QED
    BY <1>1, <1>2, <2>1
<1>4. CASE d - q <= -1
  <2>1. m * (d - q) <= -m
    BY <1>1, <1>4
  <2> QED
    BY <1>1, <1>2, <2>1
<1>5. CASE d - q = 0
  <2>1. m * (d - q) = 0
    BY <1>5
  <2> QED
    BY <1>1, <1>2, <2>1 DEF r
<1> QED
  BY <1>1, <1>3, <1>4, <1>5

\* The word of a sum: the sum, or Base less.
LEMMA WordIs ==
  ASSUME NumberFacts, NEW s \in 0 .. (2 * Number!Base - 1)
  PROVE  s % Number!Base = IF s < Number!Base THEN s ELSE s - Number!Base
<1>1. Number!Base \in Nat \ {0}
  BY DEF NumberFacts
<1>2. CASE s < Number!Base
  <2>1. s \in 0 .. (Number!Base - 1) /\ s = s - Number!Base * 0 /\ s \in Int
    BY <1>1, <1>2
  <2> QED
    BY <1>1, <1>2, <2>1, Residue
<1>3. CASE ~(s < Number!Base)
  <2>1. s - Number!Base \in 0 .. (Number!Base - 1) /\ s - Number!Base = s - Number!Base * 1 /\ s \in Int
    BY <1>1, <1>3
  <2>2. s - Number!Base = s % Number!Base
    BY <1>1, <2>1, Residue
  <2> QED
    BY <1>3, <2>2
<1> QED
  BY <1>2, <1>3
-----------------------------------------------------------------------------
(* Addition and subtraction *)

\* Adding word by word adds, if every word has room for its sum.
LEMMA SumIs ==
  ASSUME Powers, NumberFacts, NEW x \in WideNumber, NEW y \in WideNumber
  PROVE  Number!Val([i \in Number!Index |-> x[i] + y[i]]) = Number!Val(x) + Number!Val(y)
<1> DEFINE z == [i \in Number!Index |-> x[i] + y[i]]
           s == Suffix(x)
           t == Suffix(y)
           F == [i \in 0 .. Words |-> s[i] + t[i]]
<1>1. /\ s \in [0 .. Words -> Nat] /\ Number!Val(x) = s[0] /\ s[Words] = 0
      /\ \A i \in Number!Index : s[i] = x[i] + Number!Base * s[i + 1]
  BY SuffixIs
<1>2. /\ t \in [0 .. Words -> Nat] /\ Number!Val(y) = t[0] /\ t[Words] = 0
      /\ \A i \in Number!Index : t[i] = y[i] + Number!Base * t[i + 1]
  BY SuffixIs
<1>3. Words \in Nat /\ Number!Base \in Nat /\ Number!Index = 0 .. (Words - 1) /\ Number!All \in Int
  BY DEF NumberFacts, Number!Index
<1> HIDE DEF s, t
<1>4. z \in WideNumber /\ F \in [0 .. Words -> Int]
  BY <1>1, <1>2 DEF WideNumber
<1>5. ASSUME NEW i \in Number!Index PROVE F[i] = z[i] + Number!Base * F[i + 1]
  <2>1. i \in 0 .. Words /\ i + 1 \in 0 .. Words
    BY <1>3
  <2>2. s[i + 1] \in Nat /\ t[i + 1] \in Nat /\ x[i] \in Nat /\ y[i] \in Nat
    BY <1>1, <1>2, <2>1 DEF WideNumber
  <2>3. Number!Base * (s[i + 1] + t[i + 1]) = Number!Base * s[i + 1] + Number!Base * t[i + 1]
        /\ Number!Base * s[i + 1] \in Nat /\ Number!Base * t[i + 1] \in Nat
    BY <1>3, <2>2, SMTT(30)
  <2> QED
    BY <1>1, <1>2, <2>1, <2>2, <2>3
<1>6. F[0] = s[0] + t[0] /\ F[Words] = 0 /\ s[0] \in Nat /\ t[0] \in Nat
  BY <1>1, <1>2, <1>3
<1>7. Number!Val(z) = F[0] - Number!All * F[Words]
  <2> HIDE DEF F, z
  <2> QED
    BY <1>4, <1>5, ValIs
<1> QED
  BY <1>1, <1>2, <1>3, <1>6, <1>7

\* bignum_add is exact as long as no word overflows.
LEMMA AddIs ==
  ASSUME Powers, NumberFacts, NEW x \in Number!Number, NEW y \in Number!Number, ~Number!LosesCarry(x, y)
  PROVE  Number!bignum_add(x, y) \in Number!Number
         /\ Number!Val(Number!bignum_add(x, y)) = Number!Val(x) + Number!Val(y)
<1>1. Number!Base \in Nat \ {0} /\ Number!MaxVal = Number!Base - 1
  BY DEF NumberFacts
<1>2. ASSUME NEW i \in Number!Index
      PROVE  (x[i] + y[i]) % Number!Base = x[i] + y[i] /\ x[i] + y[i] \in 0 .. Number!MaxVal
  <2>1. x[i] \in 0 .. Number!MaxVal /\ y[i] \in 0 .. Number!MaxVal /\ ~(x[i] + y[i] > Number!MaxVal)
    BY DEF Number!Number, Number!LosesCarry
  <2>2. x[i] + y[i] \in 0 .. (2 * Number!Base - 1) /\ x[i] + y[i] < Number!Base
    BY <1>1, <2>1
  <2> QED
    BY <1>1, <2>1, <2>2, WordIs
<1>3. Number!bignum_add(x, y) = [i \in Number!Index |-> x[i] + y[i]]
  BY <1>2 DEF Number!bignum_add
<1>4. x \in WideNumber /\ y \in WideNumber
  BY ValRange
<1> QED
  BY <1>2, <1>3, <1>4, SumIs DEF Number!Number

\* The sums of bignum_sub and the borrows between them.
Sums(x, y, f) ==
  f = [i \in Number!Index |-> x[i] + Number!Base - (y[i] + (IF i > 0 /\ f[i - 1] <= Number!MaxVal THEN 1 ELSE 0))]

SubSums(x, y) == CHOOSE f : Sums(x, y, f)

Borrow(x, y) == [i \in 0 .. Words |-> IF i > 0 /\ SubSums(x, y)[i - 1] <= Number!MaxVal THEN 1 ELSE 0]

LEMMA SubSumsIs ==
  ASSUME NumberFacts, NEW x \in Number!Number, NEW y \in Number!Number
  PROVE  /\ Number!bignum_sub(x, y) = [i \in Number!Index |-> SubSums(x, y)[i] % Number!Base]
         /\ SubSums(x, y) \in [Number!Index -> Int] /\ Sums(x, y, SubSums(x, y))
<1> DEFINE n == Words - 1
           g == [j \in 1 .. n |-> [s \in Int |-> x[j] + Number!Base - (y[j] + (IF s <= Number!MaxVal THEN 1 ELSE 0))]]
           z == x[0] + Number!Base - y[0]
<1>1. n \in Nat /\ Number!Base \in Nat /\ Number!MaxVal \in Int /\ Number!Index = 0 .. n
      /\ \A i \in Number!Index : x[i] \in Int /\ y[i] \in Int
  BY DEF NumberFacts, Number!Index, Number!Number
<1> HIDE DEF n
<1>2. z \in Int
  <2>1. 0 \in Number!Index
    BY <1>1
  <2> QED
    BY <1>1, <2>1
<1>3. g \in [1 .. n -> [Int -> Int]]
  <2> SUFFICES ASSUME NEW j \in 1 .. n
               PROVE  [s \in Int |-> x[j] + Number!Base - (y[j] + (IF s <= Number!MaxVal THEN 1 ELSE 0))] \in [Int -> Int]
    OBVIOUS
  <2>1. j \in Number!Index
    BY <1>1
  <2> QED
    BY <1>1, <2>1
<1>4. \A j \in 1 .. n, s \in Int : g[j][s]
        = x[j] + Number!Base - (y[j] + (IF s <= Number!MaxVal THEN 1 ELSE 0))
  OBVIOUS
<1>5. PICK f \in [0 .. n -> Int] : f[0] = z /\ \A j \in 1 .. n : f[j] = g[j][f[j - 1]]
  <2> HIDE DEF g, z
  <2>1. Iterates(Int, z, n, g)
    BY <1>1, <1>2, <1>3, Iterate
  <2> QED
    BY <2>1 DEF Iterates
<1> HIDE DEF g
<1>6. Sums(x, y, f)
  <2>1. ASSUME NEW i \in Number!Index
        PROVE  f[i] = x[i] + Number!Base - (y[i] + (IF i > 0 /\ f[i - 1] <= Number!MaxVal THEN 1 ELSE 0))
    <3>1. CASE i = 0
      BY <1>1, <1>5, <3>1
    <3>2. CASE i # 0
      <4>1. i \in 1 .. n /\ i - 1 \in 0 .. n /\ i > 0
        BY <1>1, <3>2
      <4>2. f[i - 1] \in Int
        BY <4>1
      <4> QED
        BY <1>4, <1>5, <4>1, <4>2
    <3> QED
      BY <3>1, <3>2
  <2>2. f = [i \in Number!Index |-> f[i]]
    BY <1>1, <1>5
  <2> QED
    BY <2>1, <2>2 DEF Sums
<1>7. Sums(x, y, SubSums(x, y))
  BY <1>6 DEF SubSums
<1>8. ASSUME NEW h, Sums(x, y, h) PROVE h \in [Number!Index -> Int]
  <2>1. h = [i \in Number!Index |-> h[i]]
    BY <1>8 DEF Sums
  <2>2. \A i \in Number!Index : h[i]
          = x[i] + Number!Base - (y[i] + (IF i > 0 /\ h[i - 1] <= Number!MaxVal THEN 1 ELSE 0))
    BY <1>8 DEF Sums
  <2>3. ASSUME NEW i \in Number!Index PROVE h[i] \in Int
    <3> DEFINE e == IF i > 0 /\ h[i - 1] <= Number!MaxVal THEN 1 ELSE 0
    <3>1. e \in Int
      OBVIOUS
    <3>2. h[i] = x[i] + Number!Base - (y[i] + e)
      BY <2>2
    <3> HIDE DEF e
    <3> QED
      BY <1>1, <3>1, <3>2
  <2> QED
    BY <2>1, <2>3
<1>9. Number!bignum_sub(x, y) = [i \in Number!Index |-> SubSums(x, y)[i] % Number!Base]
  BY DEF Number!bignum_sub, SubSums, Sums
<1> QED
  BY <1>7, <1>8, <1>9

\* bignum_sub is subtraction, modulo the size of a number.
LEMMA SubIs ==
  ASSUME Powers, NumberFacts, NEW x \in Number!Number, NEW y \in Number!Number
  PROVE  Number!bignum_sub(x, y) \in Number!Number
         /\ Number!Val(Number!bignum_sub(x, y)) = (Number!Val(x) - Number!Val(y)) % Number!All
<1> DEFINE z == Number!bignum_sub(x, y)
           s == Suffix(x)
           t == Suffix(y)
           r == SubSums(x, y)
           b == Borrow(x, y)
           F == [i \in 0 .. Words |-> s[i] - t[i] - b[i]]
<1>0. x \in WideNumber /\ y \in WideNumber
  BY ValRange
<1>1. /\ s \in [0 .. Words -> Nat] /\ Number!Val(x) = s[0] /\ s[Words] = 0
      /\ \A i \in Number!Index : s[i] = x[i] + Number!Base * s[i + 1]
  BY <1>0, SuffixIs
<1>2. /\ t \in [0 .. Words -> Nat] /\ Number!Val(y) = t[0] /\ t[Words] = 0
      /\ \A i \in Number!Index : t[i] = y[i] + Number!Base * t[i + 1]
  BY <1>0, SuffixIs
<1>3. Words \in Nat /\ Number!Base \in Nat \ {0} /\ Number!Index = 0 .. (Words - 1)
      /\ Number!All \in Nat \ {0}
      /\ Number!MaxVal = Number!Base - 1
  BY DEF NumberFacts, Number!Index
<1>4. /\ z = [i \in Number!Index |-> r[i] % Number!Base] /\ r \in [Number!Index -> Int]
      /\ \A i \in Number!Index : r[i] = x[i] + Number!Base - (y[i] + b[i])
      /\ \A i \in Number!Index : b[i + 1] = IF r[i] <= Number!MaxVal THEN 1 ELSE 0
      /\ b \in [0 .. Words -> {0, 1}] /\ b[0] = 0
  <2>0. z = [i \in Number!Index |-> r[i] % Number!Base]
    BY SubSumsIs
  <2>1. r \in [Number!Index -> Int] /\ Sums(x, y, r)
    BY SubSumsIs
  <2>2. \A i \in 0 .. Words : b[i] = IF i > 0 /\ r[i - 1] <= Number!MaxVal THEN 1 ELSE 0
    BY DEF Borrow
  <2>3. b \in [0 .. Words -> {0, 1}]
    BY DEF Borrow
  <2> HIDE DEF z, r, b
  <2>4. \A i \in Number!Index : r[i]
          = x[i] + Number!Base - (y[i] + (IF i > 0 /\ r[i - 1] <= Number!MaxVal THEN 1 ELSE 0))
    BY <2>1 DEF Sums
  <2>5. 0 \in 0 .. Words
        /\ \A i \in Number!Index : i \in 0 .. Words /\ i + 1 \in 0 .. Words /\ i + 1 > 0
           /\ (i + 1) - 1 = i
    BY <1>3
  <2>6. \A i \in Number!Index : r[i] = x[i] + Number!Base - (y[i] + b[i])
    BY <2>2, <2>4, <2>5
  <2>7. \A i \in Number!Index : b[i + 1] = IF r[i] <= Number!MaxVal THEN 1 ELSE 0
    BY <2>2, <2>5
  <2>8. b[0] = 0
    BY <2>2, <2>5
  <2> QED
    BY <2>0, <2>1, <2>3, <2>6, <2>7, <2>8
<1> HIDE DEF s, t, r, b, z
<1>5. ASSUME NEW i \in Number!Index
      PROVE  z[i] \in 0 .. Number!MaxVal /\ z[i] = x[i] - y[i] - b[i] + Number!Base * b[i + 1]
  <2>1. x[i] \in 0 .. Number!MaxVal /\ y[i] \in 0 .. Number!MaxVal /\ b[i] \in {0, 1}
        /\ b[i + 1] \in {0, 1}
    <3>1. i \in 0 .. Words /\ i + 1 \in 0 .. Words
      BY <1>3
    <3> QED
      BY <1>4, <3>1 DEF Number!Number
  <2>2. r[i] = x[i] + Number!Base - (y[i] + b[i])
    BY <1>4
  <2>7. z[i] = r[i] % Number!Base
    BY <1>4
  <2>3. r[i] \in 0 .. (2 * Number!Base - 1)
    BY <1>3, <2>1, <2>2
  <2>4. z[i] = IF r[i] < Number!Base THEN r[i] ELSE r[i] - Number!Base
    BY <2>3, <2>7, WordIs
  <2>8. b[i + 1] = IF r[i] <= Number!MaxVal THEN 1 ELSE 0
    BY <1>4
  <2>5. CASE r[i] < Number!Base
    <3>1. b[i + 1] = 1 /\ z[i] = r[i]
      BY <1>3, <2>3, <2>4, <2>5, <2>8
    <3> QED
      BY <1>3, <2>1, <2>2, <2>3, <2>5, <3>1
  <2>6. CASE ~(r[i] < Number!Base)
    <3>1. b[i + 1] = 0 /\ z[i] = r[i] - Number!Base /\ Number!Base * 0 = 0
      BY <1>3, <2>3, <2>4, <2>6, <2>8
    <3> QED
      BY <1>3, <2>1, <2>2, <2>3, <2>6, <3>1, SMTT(30)
  <2> QED
    BY <2>5, <2>6
<1>6. z \in Number!Number
  BY <1>4, <1>5 DEF Number!Number
<1>7. ASSUME NEW i \in Number!Index PROVE F[i] = z[i] + Number!Base * F[i + 1]
  <2>1. i \in 0 .. Words /\ i + 1 \in 0 .. Words
    BY <1>3
  <2>2. s[i + 1] \in Int /\ t[i + 1] \in Int /\ x[i] \in Int /\ y[i] \in Int /\ b[i + 1] \in Int
        /\ b[i] \in Int
    <3>1. x[i] \in Nat /\ y[i] \in Nat
      BY <1>0 DEF WideNumber
    <3>2. s[i + 1] \in Nat /\ t[i + 1] \in Nat /\ b[i + 1] \in {0, 1} /\ b[i] \in {0, 1}
      BY <1>1, <1>2, <1>4, <2>1
    <3> QED
      BY <3>1, <3>2
  <2>3. Number!Base * (s[i + 1] - t[i + 1] - b[i + 1])
          = Number!Base * s[i + 1] - Number!Base * t[i + 1] - Number!Base * b[i + 1]
        /\ Number!Base * s[i + 1] \in Int /\ Number!Base * t[i + 1] \in Int
        /\ Number!Base * b[i + 1] \in Int
    <3> DEFINE u == s[i + 1]
               v == t[i + 1]
               w == b[i + 1]
    <3>0. Number!Base \in Int /\ u \in Int /\ v \in Int /\ w \in Int
      BY <1>3, <2>2
    <3> HIDE DEF u, v, w, F
    <3>1. Number!Base * (u - v) = Number!Base * u - Number!Base * v
      BY <3>0
    <3>2. Number!Base * ((u - v) - w) = Number!Base * (u - v) - Number!Base * w
      BY <3>0
    <3>3. Number!Base * u \in Int /\ Number!Base * v \in Int /\ Number!Base * w \in Int
      BY <3>0
    <3>4. Number!Base * (u - v - w) = Number!Base * u - Number!Base * v - Number!Base * w
      BY <3>1, <3>2, <3>3
    <3> QED
      BY <3>3, <3>4 DEF u, v, w
  <2>4. F[i] = s[i] - t[i] - b[i] /\ F[i + 1] = s[i + 1] - t[i + 1] - b[i + 1]
    BY <2>1
  <2>5. s[i] = x[i] + Number!Base * s[i + 1] /\ t[i] = y[i] + Number!Base * t[i + 1]
    BY <1>1, <1>2
  <2>6. z[i] = x[i] - y[i] - b[i] + Number!Base * b[i + 1]
    BY <1>5
  <2> HIDE DEF F
  <2> QED
    BY <2>2, <2>3, <2>4, <2>5, <2>6
<1>8. F \in [0 .. Words -> Int] /\ F[0] = s[0] - t[0] /\ F[Words] \in Int /\ s[0] \in Int /\ t[0] \in Int
  <2>1. ASSUME NEW i \in 0 .. Words PROVE s[i] - t[i] - b[i] \in Int
    <3>1. s[i] \in Nat /\ t[i] \in Nat /\ b[i] \in {0, 1}
      BY <1>1, <1>2, <1>4
    <3> QED
      BY <3>1
  <2>2. 0 \in 0 .. Words /\ Words \in 0 .. Words
    BY <1>3
  <2>3. s[0] \in Nat /\ t[0] \in Nat
    BY <1>1, <1>2, <2>2
  <2> QED
    BY <1>4, <2>1, <2>2, <2>3
<1>9. Number!Val(z) = F[0] - Number!All * F[Words]
  <2>1. z \in WideNumber
    BY <1>6, ValRange
  <2> HIDE DEF F
  <2> QED
    BY <1>7, <1>8, <2>1, ValIs
<1>10. Number!Val(z) \in 0 .. (Number!All - 1)
  BY <1>6, ValRange
<1>11. Number!Val(z) = (s[0] - t[0]) % Number!All
  <2> HIDE DEF F
  <2>1. s[0] - t[0] \in Int /\ Number!Val(z) = (s[0] - t[0]) - Number!All * F[Words]
    BY <1>8, <1>9
  <2> QED
    BY <1>3, <1>8, <1>10, <2>1, Residue
<1> QED
  BY <1>1, <1>2, <1>6, <1>11 DEF z
-----------------------------------------------------------------------------
(* Functions with one number *)

\* What a function does that multiplies a number by k and carries g from word
\* to word.
Carries(x, z, k, g) ==
  /\ x \in WideNumber /\ z \in WideNumber /\ g \in [0 .. Words -> Int]
  /\ \A i \in Number!Index : z[i] = k * x[i] + g[i] - Number!Base * g[i + 1]

\* What z stands for then.
Carried(x, z, k, g) == Number!Val(z) = k * Number!Val(x) + g[0] - Number!All * g[Words]
  /\ Number!Val(x) \in Nat

LEMMA CarriedIs ==
  ASSUME Powers, NumberFacts, NEW k \in Int, NEW x, NEW z, NEW g, Carries(x, z, k, g)
  PROVE  Carried(x, z, k, g)
<1> DEFINE s == Suffix(x)
           F == [i \in 0 .. Words |-> k * s[i] + g[i]]
<1>0. /\ x \in WideNumber /\ z \in WideNumber /\ g \in [0 .. Words -> Int]
      /\ \A i \in Number!Index : z[i] = k * x[i] + g[i] - Number!Base * g[i + 1]
  BY DEF Carries
<1>1. /\ s \in [0 .. Words -> Nat] /\ Number!Val(x) = s[0] /\ s[Words] = 0
      /\ \A i \in Number!Index : s[i] = x[i] + Number!Base * s[i + 1]
  BY <1>0, SuffixIs
<1>3. Words \in Nat /\ Number!Base \in Nat /\ Number!Index = 0 .. (Words - 1) /\ Number!All \in Int
  BY DEF NumberFacts, Number!Index
<1> HIDE DEF s
<1>4. F \in [0 .. Words -> Int]
  <2>1. ASSUME NEW i \in 0 .. Words PROVE k * s[i] + g[i] \in Int
    <3>1. s[i] \in Int /\ g[i] \in Int
      BY <1>0, <1>1
    <3>2. k * s[i] \in Int
      BY <3>1
    <3> QED
      BY <3>1, <3>2
  <2> QED
    BY <2>1
<1>5. ASSUME NEW i \in Number!Index PROVE F[i] = z[i] + Number!Base * F[i + 1]
  <2> DEFINE u == s[i + 1]
             v == g[i + 1]
             w == x[i]
  <2>1. i \in 0 .. Words /\ i + 1 \in 0 .. Words
    BY <1>3
  <2>2. F[i] = k * s[i] + g[i] /\ F[i + 1] = k * u + v
    BY <2>1
  <2>3. u \in Int /\ v \in Int /\ w \in Int /\ g[i] \in Int /\ Number!Base \in Int
    <3>1. u \in Nat
      BY <1>1, <2>1
    <3>2. w \in Nat
      BY <1>0 DEF WideNumber
    <3>3. v \in Int /\ g[i] \in Int
      BY <1>0, <2>1
    <3> HIDE DEF u, v, w
    <3> QED
      BY <1>3, <3>1, <3>2, <3>3
  <2>4. s[i] = w + Number!Base * u /\ z[i] = k * w + g[i] - Number!Base * v
    BY <1>0, <1>1
  <2> HIDE DEF u, v, w, F
  <2>5. Number!Base * (k * u + v) = k * (Number!Base * u) + Number!Base * v
    BY <2>3
  <2>6. k * (w + Number!Base * u) = k * w + k * (Number!Base * u)
    BY <2>3
  <2>7. k * w \in Int /\ k * (Number!Base * u) \in Int /\ Number!Base * v \in Int
    BY <2>3
  <2>8. F[i] = k * w + k * (Number!Base * u) + g[i]
    BY <2>2, <2>4, <2>6
  <2>9. z[i] + Number!Base * F[i + 1]
          = (k * w + g[i] - Number!Base * v) + (k * (Number!Base * u) + Number!Base * v)
    BY <2>2, <2>4, <2>5
  <2> QED
    BY <2>3, <2>7, <2>8, <2>9
<1>6. F[0] = k * s[0] + g[0] /\ F[Words] = g[Words]
  <2>1. 0 \in 0 .. Words /\ Words \in 0 .. Words /\ k * 0 = 0 /\ g[Words] \in Int
    BY <1>0, <1>3
  <2> QED
    BY <1>1, <2>1
<1>7. Number!Val(z) = F[0] - Number!All * F[Words]
  <2> HIDE DEF F
  <2> QED
    BY <1>0, <1>4, <1>5, ValIs
<1>8. s[0] \in Nat /\ g[0] \in Int /\ g[Words] \in Int
  BY <1>0, <1>1, <1>3
<1>9. k * s[0] \in Int /\ Number!All * g[Words] \in Int
  BY <1>3, <1>8
<1> HIDE DEF F
<1> QED
  BY <1>1, <1>6, <1>7, <1>8, <1>9 DEF Carried

\* What is known of a result up to a multiple of All.
LEMMA ModuloIs ==
  ASSUME Powers, NumberFacts, NEW z \in Number!Number, NEW u \in Int, NEW q \in Int,
         Number!Val(z) = u - Number!All * q
  PROVE  Number!Val(z) = u % Number!All
<1>1. Number!All \in Nat \ {0} /\ Number!Val(z) \in 0 .. (Number!All - 1)
  BY ValRange DEF NumberFacts
<1> QED
  BY <1>1, Residue

\* bignum_inc: a carry passes the words that are MAX_VAL.
LEMMA IncIs ==
  ASSUME Powers, NumberFacts, NEW x \in Number!Number
  PROVE  Number!bignum_inc(x) \in Number!Number
         /\ Number!Val(Number!bignum_inc(x)) = (Number!Val(x) + 1) % Number!All
<1> DEFINE z == Number!bignum_inc(x)
           g == [i \in 0 .. Words |-> IF \A j \in 0 .. (i - 1) : x[j] = Number!MaxVal THEN 1 ELSE 0]
<1>1. Words \in Nat /\ Number!Base \in Nat \ {0} /\ Number!Index = 0 .. (Words - 1)
      /\ Number!MaxVal = Number!Base - 1
      /\ Number!Base >= 2 /\ Number!All \in Int
  BY DEF NumberFacts, Number!Index
<1>2. ASSUME NEW i \in Number!Index
      PROVE  z[i] \in 0 .. Number!MaxVal /\ z[i] = 1 * x[i] + g[i] - Number!Base * g[i + 1]
  <2>1. i \in 0 .. Words /\ i + 1 \in 0 .. Words /\ x[i] \in 0 .. Number!MaxVal
    BY <1>1 DEF Number!Number
  <2>2. g[i] = IF \A j \in 0 .. (i - 1) : x[j] = Number!MaxVal THEN 1 ELSE 0
    BY <2>1
  <2>3. g[i + 1] = IF \A j \in 0 .. i : x[j] = Number!MaxVal THEN 1 ELSE 0
    <3>1. (i + 1) - 1 = i
      BY <1>1
    <3> QED
      BY <2>1, <3>1
  <2>4. 0 .. i = (0 .. (i - 1)) \cup {i}
    BY <1>1
  <2>5. z[i] = IF \A j \in 0 .. (i - 1) : x[j] = Number!MaxVal THEN (x[i] + 1) % Number!Base ELSE x[i]
    BY DEF Number!bignum_inc
  <2>6. CASE ~(\A j \in 0 .. (i - 1) : x[j] = Number!MaxVal)
    <3>1. g[i] = 0 /\ g[i + 1] = 0 /\ z[i] = x[i]
      BY <2>2, <2>3, <2>4, <2>5, <2>6
    <3> HIDE DEF g, z
    <3> QED
      BY <1>1, <2>1, <3>1
  <2>7. CASE (\A j \in 0 .. (i - 1) : x[j] = Number!MaxVal)
    <3>1. g[i] = 1 /\ z[i] = (x[i] + 1) % Number!Base
      BY <2>2, <2>5, <2>7
    <3>2. x[i] + 1 \in 0 .. (2 * Number!Base - 1)
      BY <1>1, <2>1
    <3>3. (x[i] + 1) % Number!Base = IF x[i] + 1 < Number!Base THEN x[i] + 1 ELSE x[i] + 1 - Number!Base
      <4> DEFINE v == x[i] + 1
      <4>1. v \in 0 .. (2 * Number!Base - 1)
        BY <3>2
      <4> HIDE DEF v
      <4>2. v % Number!Base = IF v < Number!Base THEN v ELSE v - Number!Base
        BY <4>1, WordIs
      <4>3. (x[i] + 1) % Number!Base = IF x[i] + 1 < Number!Base THEN x[i] + 1 ELSE (x[i] + 1) - Number!Base
        BY <4>2, Zenon DEF v
      <4>4. (x[i] + 1) - Number!Base = x[i] + 1 - Number!Base
        BY <1>1, <2>1
      <4> QED
        BY <4>3, <4>4, Zenon
    <3>4. g[i + 1] = IF x[i] = Number!MaxVal THEN 1 ELSE 0
      BY <2>3, <2>4, <2>7
    <3>5. g[i] = 1 /\ z[i] = IF x[i] + 1 < Number!Base THEN x[i] + 1 ELSE x[i] + 1 - Number!Base
      BY <3>1, <3>3
    <3> HIDE DEF g, z
    <3> QED
      BY <1>1, <2>1, <3>4, <3>5
  <2> QED
    BY <2>6, <2>7
<1>3. z \in Number!Number
  <2>1. z = [i \in Number!Index |-> z[i]]
    BY DEF Number!bignum_inc
  <2> HIDE DEF z
  <2> QED
    BY <1>2, <2>1 DEF Number!Number
<1>4. g \in [0 .. Words -> Int] /\ g[0] = 1 /\ g[Words] \in Int
  BY <1>1
<1> HIDE DEF g, z
<1>5. x \in WideNumber /\ z \in WideNumber
  BY <1>3, ValRange
<1>6. Number!Val(z) = 1 * Number!Val(x) + g[0] - Number!All * g[Words] /\ Number!Val(x) \in Nat
  <2>1. Carries(x, z, 1, g)
    BY <1>2, <1>4, <1>5 DEF Carries
  <2>2. 1 \in Int
    OBVIOUS
  <2> QED
    BY <2>1, <2>2, CarriedIs DEF Carried
<1>7. Number!Val(z) = (Number!Val(x) + 1) - Number!All * g[Words] /\ Number!Val(x) + 1 \in Int
  BY <1>1, <1>4, <1>6
<1>8. Number!Val(z) = (Number!Val(x) + 1) % Number!All
  BY <1>3, <1>4, <1>7, ModuloIs
<1> QED
  BY <1>3, <1>8 DEF z

\* bignum_dec: a borrow passes the words that are 0.
LEMMA DecIs ==
  ASSUME Powers, NumberFacts, NEW x \in Number!Number
  PROVE  Number!bignum_dec(x) \in Number!Number
         /\ Number!Val(Number!bignum_dec(x)) = (Number!Val(x) - 1) % Number!All
<1> DEFINE z == Number!bignum_dec(x)
           g == [i \in 0 .. Words |-> IF \A j \in 0 .. (i - 1) : x[j] = 0 THEN -1 ELSE 0]
<1>1. Words \in Nat /\ Number!Base \in Nat \ {0} /\ Number!Index = 0 .. (Words - 1)
      /\ Number!MaxVal = Number!Base - 1
      /\ Number!Base >= 2 /\ Number!All \in Int
  BY DEF NumberFacts, Number!Index
<1>2. ASSUME NEW i \in Number!Index
      PROVE  z[i] \in 0 .. Number!MaxVal /\ z[i] = 1 * x[i] + g[i] - Number!Base * g[i + 1]
  <2>1. i \in 0 .. Words /\ i + 1 \in 0 .. Words /\ x[i] \in 0 .. Number!MaxVal
    BY <1>1 DEF Number!Number
  <2>2. g[i] = IF \A j \in 0 .. (i - 1) : x[j] = 0 THEN -1 ELSE 0
    BY <2>1
  <2>3. g[i + 1] = IF \A j \in 0 .. i : x[j] = 0 THEN -1 ELSE 0
    <3>1. (i + 1) - 1 = i
      BY <1>1
    <3> QED
      BY <2>1, <3>1
  <2>4. 0 .. i = (0 .. (i - 1)) \cup {i}
    BY <1>1
  <2>5. z[i] = IF \A j \in 0 .. (i - 1) : x[j] = 0 THEN (x[i] - 1) % Number!Base ELSE x[i]
    BY DEF Number!bignum_dec
  <2>6. CASE ~(\A j \in 0 .. (i - 1) : x[j] = 0)
    <3>1. g[i] = 0 /\ g[i + 1] = 0 /\ z[i] = x[i]
      BY <2>2, <2>3, <2>4, <2>5, <2>6
    <3> HIDE DEF g, z
    <3> QED
      BY <1>1, <2>1, <3>1
  <2>7. CASE (\A j \in 0 .. (i - 1) : x[j] = 0)
    <3>1. g[i] = -1 /\ z[i] = (x[i] - 1) % Number!Base
      BY <2>2, <2>5, <2>7
    <3>4. g[i + 1] = IF x[i] = 0 THEN -1 ELSE 0
      BY <2>3, <2>4, <2>7
    <3>2. CASE x[i] = 0
      <4>1. Number!Base - 1 \in 0 .. (Number!Base - 1)
            /\ Number!Base - 1 = (x[i] - 1) - Number!Base * (-1) /\ x[i] - 1 \in Int
            /\ -1 \in Int
        BY <1>1, <3>2
      <4>2. Number!Base - 1 = (x[i] - 1) % Number!Base
        BY <1>1, <4>1, Residue
      <4>3. z[i] = Number!Base - 1 /\ g[i] = -1 /\ g[i + 1] = -1
        BY <3>1, <3>2, <3>4, <4>2
      <4> HIDE DEF g, z
      <4> QED
        BY <1>1, <3>2, <4>3
    <3>3. CASE x[i] # 0
      <4>1. x[i] - 1 \in 0 .. (2 * Number!Base - 1) /\ x[i] - 1 < Number!Base
        BY <1>1, <2>1, <3>3
      <4>2. (x[i] - 1) % Number!Base = x[i] - 1
        BY <4>1, WordIs
      <4>3. z[i] = x[i] - 1 /\ g[i] = -1 /\ g[i + 1] = 0
        BY <3>1, <3>3, <3>4, <4>2
      <4> HIDE DEF g, z
      <4> QED
        BY <1>1, <2>1, <3>3, <4>3
    <3> QED
      BY <3>2, <3>3
  <2> QED
    BY <2>6, <2>7
<1>3. z \in Number!Number
  <2>1. z = [i \in Number!Index |-> z[i]]
    BY DEF Number!bignum_dec
  <2> HIDE DEF z
  <2> QED
    BY <1>2, <2>1 DEF Number!Number
<1>4. g \in [0 .. Words -> Int] /\ g[0] = -1 /\ g[Words] \in Int
  BY <1>1
<1> HIDE DEF g, z
<1>5. x \in WideNumber /\ z \in WideNumber
  BY <1>3, ValRange
<1>6. Number!Val(z) = 1 * Number!Val(x) + g[0] - Number!All * g[Words] /\ Number!Val(x) \in Nat
  <2>1. Carries(x, z, 1, g)
    BY <1>2, <1>4, <1>5 DEF Carries
  <2>2. 1 \in Int
    OBVIOUS
  <2> QED
    BY <2>1, <2>2, CarriedIs DEF Carried
<1>7. Number!Val(z) = (Number!Val(x) - 1) - Number!All * g[Words] /\ Number!Val(x) - 1 \in Int
  BY <1>1, <1>4, <1>6
<1>8. Number!Val(z) = (Number!Val(x) - 1) % Number!All
  BY <1>3, <1>4, <1>7, ModuloIs
<1> QED
  BY <1>3, <1>8 DEF z

-----------------------------------------------------------------------------
(* Shifts *)

\* Moving a word by less than a word: p = 2^n, q = 2^(Bits - n).
Splits(p, q) == p \in Nat \ {0} /\ q \in Nat \ {0} /\ p * q = Number!Base

LEMMA SplitAt ==
  ASSUME Powers, NumberFacts, NEW n \in 0 .. Bits
  PROVE  Splits(2^n, 2^(Bits - n))
<1>1. Bits \in Nat /\ n \in Nat /\ Bits - n \in Nat /\ 2 \in Nat \ {0} /\ n + (Bits - n) = Bits
  BY DEF NumberFacts
<1>2. \A j, k \in Nat : 2^(j + k) = 2^j * 2^k
  BY <1>1 DEF Powers
<1>3. 2^(n + (Bits - n)) = 2^n * 2^(Bits - n)
  BY <1>1, <1>2
<1>4. 2^n \in Nat \ {0} /\ 2^(Bits - n) \in Nat \ {0}
  BY <1>1 DEF Powers
<1> QED
  BY <1>1, <1>3, <1>4 DEF Splits, Number!Base

\* A word divided by q, and the low part of it times p.
LEMMA Parts ==
  ASSUME NumberFacts, NEW p, NEW q, Splits(p, q), NEW x \in 0 .. (Number!Base - 1)
  PROVE  /\ x \div q \in 0 .. (p - 1) /\ x % q \in 0 .. (q - 1)
         /\ x = q * (x \div q) + (x % q)
         /\ (x % q) * p \in 0 .. (Number!Base - p)
         /\ x * p = Number!Base * (x \div q) + (x % q) * p
<1> DEFINE d == x \div q
           r == x % q
<1>1. p \in Nat \ {0} /\ q \in Nat \ {0} /\ p * q = Number!Base
  BY DEF Splits
<1>0. x \in Nat /\ x < p * q
  BY <1>1 DEF NumberFacts
<1>2. r \in 0 .. (q - 1) /\ d \in Int /\ x = q * d + r
  BY <1>0, <1>1
<1> HIDE DEF d, r
<1>3. d >= 0
  <2> SUFFICES ASSUME d <= -1 PROVE FALSE
    BY <1>2
  <2>1. q * d <= q * (-1)
    BY <1>1, <1>2
  <2> QED
    BY <1>0, <1>1, <1>2, <2>1
<1>4. d <= p - 1
  <2> SUFFICES ASSUME d >= p PROVE FALSE
    BY <1>1, <1>2
  <2>1. q * d >= q * p
    BY <1>1, <1>2
  <2>2. q * p = p * q
    BY <1>1
  <2> QED
    BY <1>0, <1>1, <1>2, <2>1, <2>2
<1>5. r * p >= 0 /\ r * p <= (q - 1) * p /\ r * p \in Int
  BY <1>1, <1>2
<1>6. (q - 1) * p = p * q - p
  BY <1>1
<1>7. r * p \in 0 .. (Number!Base - p)
  BY <1>1, <1>5, <1>6 DEF NumberFacts
<1>8. x * p = Number!Base * d + r * p
  <2>1. (q * d + r) * p = (p * q) * d + r * p
    BY <1>1, <1>2
  <2> QED
    BY <1>1, <1>2, <2>1
<1>9. d \in 0 .. (p - 1)
  BY <1>1, <1>2, <1>3, <1>4
<1> QED
  BY <1>2, <1>7, <1>8, <1>9 DEF d, r

\* The word that a shift to the left leaves behind.
LEMMA LeftWord ==
  ASSUME NumberFacts, NEW p, NEW q, Splits(p, q), NEW x \in 0 .. (Number!Base - 1), NEW h \in 0 .. (p - 1)
  PROVE  /\ (x * p + h) % Number!Base = x * p + h - Number!Base * (x \div q)
         /\ (x * p + h) % Number!Base \in 0 .. Number!MaxVal
<1> DEFINE d == x \div q
           l == (x % q) * p
           u == x * p + h
           v == l + h
<1>1. p \in Nat \ {0} /\ q \in Nat \ {0} /\ Number!Base \in Nat \ {0} /\ Number!MaxVal = Number!Base - 1
  BY DEF Splits, NumberFacts
<1>2. d \in Int /\ l \in 0 .. (Number!Base - p) /\ x * p = Number!Base * d + l
  BY Parts
<1>3. x * p \in Int /\ Number!Base * d \in Int /\ h \in Int
  BY <1>1, <1>2
<1> HIDE DEF d, l
<1>4. v \in 0 .. (Number!Base - 1) /\ u \in Int /\ v = u - Number!Base * d
  BY <1>1, <1>2, <1>3
<1> HIDE DEF u, v
<1>5. v = u % Number!Base
  BY <1>1, <1>2, <1>4, Residue
<1>6. u % Number!Base = u - Number!Base * d /\ u % Number!Base \in 0 .. Number!MaxVal
  BY <1>1, <1>4, <1>5
<1>7. (x * p + h) % Number!Base = (x * p + h) - Number!Base * d
  BY <1>6, Zenon DEF u
<1>8. (x * p + h) - Number!Base * d = x * p + h - Number!Base * d
  BY <1>3
<1> QED
  BY <1>6, <1>7, <1>8, Zenon DEF u, d

\* A shift to the left by less than a word loses the top bits only.
LEMMA LshiftBitsIs ==
  ASSUME Powers, NumberFacts, NEW x \in Number!Number, NEW n \in 0 .. Bits
  PROVE  /\ Number!lshift_bits(x, n) \in Number!Number
         /\ Number!Val(Number!lshift_bits(x, n))
              = 2^n * Number!Val(x) - Number!All * (x[Number!Top] \div 2^(Bits - n))
<1> DEFINE z == Number!lshift_bits(x, n)
           p == 2^n
           q == 2^(Bits - n)
           g == [i \in 0 .. Words |-> IF i = 0 THEN 0 ELSE x[i - 1] \div q]
<1>1. Words \in Nat /\ Number!Base \in Nat /\ Number!Index = 0 .. (Words - 1) /\ Number!Top = Words - 1
      /\ Number!MaxVal = Number!Base - 1
      /\ Number!All \in Nat
  BY DEF NumberFacts, Number!Index
<1>2. Splits(p, q) /\ p \in Nat \ {0}
  BY SplitAt DEF Splits
<1>3. z = [i \in Number!Index |-> (x[i] * p + (IF i = 0 THEN 0 ELSE x[i - 1] \div q)) % Number!Base]
  BY DEF Number!lshift_bits
<1> HIDE DEF z, p, q
<1>4. ASSUME NEW i \in Number!Index PROVE x[i] \in 0 .. (Number!Base - 1) /\ x[i] \div q \in 0 .. (p - 1)
  <2>1. x[i] \in 0 .. (Number!Base - 1)
    BY <1>1 DEF Number!Number
  <2> QED
    BY <1>2, <2>1, Parts
<1>5. \A i \in Number!Index : g[i + 1] = x[i] \div q
  BY <1>1
<1>6. g[0] = 0 /\ \A i \in 0 .. Words : g[i] \in 0 .. (p - 1)
  <2>1. g[0] = 0
    BY <1>1
  <2>2. ASSUME NEW i \in 0 .. Words, i # 0 PROVE g[i] \in 0 .. (p - 1)
    <3>1. i - 1 \in Number!Index /\ (i - 1) + 1 = i
      BY <1>1, <2>2
    <3>2. g[(i - 1) + 1] = x[i - 1] \div q /\ x[i - 1] \div q \in 0 .. (p - 1)
      BY <1>4, <1>5, <3>1
    <3> HIDE DEF g
    <3> QED
      BY <3>1, <3>2
  <2>3. 0 \in 0 .. (p - 1)
    BY <1>2
  <2> HIDE DEF g
  <2> QED
    BY <2>1, <2>2, <2>3
<1>7. \A i \in Number!Index : z[i] = (x[i] * p + g[i]) % Number!Base
  <2>1. \A i \in Number!Index : i \in 0 .. Words
    BY <1>1
  <2>2. \A i \in Number!Index : g[i] = IF i = 0 THEN 0 ELSE x[i - 1] \div q
    BY <2>1
  <2> HIDE DEF g
  <2> QED
    BY <1>3, <2>2
<1>8. g \in [0 .. Words -> Int]
  <2>1. g = [i \in 0 .. Words |-> g[i]]
    OBVIOUS
  <2>2. \A i \in 0 .. Words : g[i] \in Int
    BY <1>2, <1>6
  <2> HIDE DEF g
  <2> QED
    BY <2>1, <2>2
<1> HIDE DEF g
<1>9. ASSUME NEW i \in Number!Index
      PROVE  z[i] \in 0 .. Number!MaxVal /\ z[i] = p * x[i] + g[i] - Number!Base * g[i + 1]
  <2>1. g[i] \in 0 .. (p - 1) /\ x[i] \in 0 .. (Number!Base - 1)
    BY <1>1, <1>4, <1>6
  <2>2. /\ (x[i] * p + g[i]) % Number!Base = x[i] * p + g[i] - Number!Base * (x[i] \div q)
        /\ (x[i] * p + g[i]) % Number!Base \in 0 .. Number!MaxVal
    BY <1>2, <2>1, LeftWord
  <2>3. x[i] * p = p * x[i]
    BY <1>2, <2>1
  <2> QED
    BY <1>5, <1>7, <2>2, <2>3, Zenon
<1>10. z \in Number!Number
  BY <1>3, <1>9 DEF Number!Number
<1>11. Carries(x, z, p, g)
  <2>1. x \in WideNumber /\ z \in WideNumber
    BY <1>10, ValRange
  <2> QED
    BY <1>8, <1>9, <2>1 DEF Carries
<1>12. Number!Val(z) = p * Number!Val(x) + g[0] - Number!All * g[Words] /\ Number!Val(x) \in Nat
  <2>1. p \in Int
    BY <1>2
  <2> QED
    BY <1>11, <2>1, CarriedIs DEF Carried
<1>13. g[Words] = x[Number!Top] \div q /\ g[Words] \in Int
  <2>1. Number!Top \in Number!Index /\ Number!Top + 1 = Words /\ Words \in 0 .. Words
    BY <1>1 DEF NumberFacts
  <2> QED
    BY <1>5, <1>8, <2>1
<1>14. p * Number!Val(x) \in Int /\ Number!All * g[Words] \in Int
  BY <1>1, <1>2, <1>12, <1>13
<1>15. Number!Val(z) = p * Number!Val(x) - Number!All * g[Words]
  BY <1>6, <1>12, <1>14
<1> QED
  BY <1>10, <1>13, <1>15 DEF z, p, q

\* A shift by whole words is a multiplication, modulo the size of a number.
LEMMA LshiftWordIs ==
  ASSUME Powers, NumberFacts, NEW x \in Number!Number, NEW n \in Number!Index
  PROVE  /\ Number!lshift_word(x, n) \in Number!Number
         /\ Number!Val(Number!lshift_word(x, n)) = (Number!Base^n * Number!Val(x)) % Number!All
<1> DEFINE z == Number!lshift_word(x, n)
           s == Suffix(x)
           F == [i \in 0 .. Words |-> IF i >= n THEN s[i - n] ELSE Number!Base^(n - i) * s[0]]
<1>1. Words \in Nat /\ Number!Base \in Nat \ {0} /\ Number!Index = 0 .. (Words - 1)
      /\ Number!MaxVal = Number!Base - 1 /\ Number!MaxVal \in Nat
      /\ Number!All \in Nat /\ n \in 0 .. (Words - 1)
  BY DEF NumberFacts, Number!Index
<1>2. x \in WideNumber
  BY ValRange
<1>3. /\ s \in [0 .. Words -> Nat] /\ Number!Val(x) = s[0] /\ s[Words] = 0
      /\ \A i \in Number!Index : s[i] = x[i] + Number!Base * s[i + 1]
  BY <1>2, SuffixIs
<1> HIDE DEF s
<1>4. z = [i \in Number!Index |-> IF i >= n THEN x[i - n] ELSE 0]
  BY DEF Number!lshift_word
<1> HIDE DEF z
<1>5. \A i \in Number!Index : i >= n => i - n \in Number!Index
  BY <1>1
<1>6. z \in Number!Number
  <2>1. \A i \in Number!Index : i >= n => x[i - n] \in 0 .. Number!MaxVal
    BY <1>5 DEF Number!Number
  <2>2. 0 \in 0 .. Number!MaxVal
    BY <1>1
  <2> QED
    BY <1>4, <2>1, <2>2 DEF Number!Number
<1>7. s[0] \in Nat
  BY <1>1, <1>3
<1>8. \A k \in Nat : Number!Base^k \in Nat /\ Number!Base^k * s[0] \in Int
  <2> TAKE k \in Nat
  <2>1. Number!Base^k \in Nat
    BY <1>1 DEF Powers
  <2> QED
    BY <1>7, <2>1
<1>9. F \in [0 .. Words -> Int]
  <2>1. ASSUME NEW i \in 0 .. Words PROVE F[i] \in Int
    <3>1. CASE i >= n
      <4>1. i - n \in 0 .. Words
        BY <1>1, <3>1
      <4>2. s[i - n] \in Nat /\ F[i] = s[i - n]
        BY <1>3, <3>1, <4>1
      <4> QED
        BY <4>2
    <3>2. CASE ~(i >= n)
      <4>1. n - i \in Nat
        BY <1>1, <3>2
      <4>2. Number!Base^(n - i) * s[0] \in Int /\ F[i] = Number!Base^(n - i) * s[0]
        BY <1>8, <3>2, <4>1
      <4> QED
        BY <4>2
    <3> QED
      BY <3>1, <3>2
  <2>2. F = [i \in 0 .. Words |-> F[i]]
    OBVIOUS
  <2> HIDE DEF F
  <2> QED
    BY <2>1, <2>2
<1>10. ASSUME NEW i \in Number!Index PROVE F[i] = z[i] + Number!Base * F[i + 1]
  <2>1. i \in 0 .. Words /\ i + 1 \in 0 .. Words
    BY <1>1
  <2>2. CASE i >= n
    <3>1. i + 1 >= n /\ (i + 1) - n = (i - n) + 1
      BY <1>1, <2>2
    <3>2. F[i] = s[i - n] /\ F[i + 1] = s[(i - n) + 1] /\ z[i] = x[i - n]
      BY <1>4, <2>1, <2>2, <3>1
    <3> HIDE DEF F
    <3> QED
      BY <1>3, <1>5, <2>2, <3>2
  <2>3. CASE ~(i >= n)
    <3>1. n - i \in Nat /\ n - (i + 1) \in Nat /\ 1 \in Nat /\ 1 + (n - (i + 1)) = n - i
      BY <1>1, <2>3
    <3>2. Number!Base^(n - i) = Number!Base * Number!Base^(n - (i + 1))
      <4>1. \A j, k \in Nat : Number!Base^(j + k) = Number!Base^j * Number!Base^k
        BY <1>1 DEF Powers
      <4>2. Number!Base^1 = Number!Base
        BY <1>1 DEF Powers
      <4>3. Number!Base^(1 + (n - (i + 1))) = Number!Base^1 * Number!Base^(n - (i + 1))
        BY <3>1, <4>1
      <4> QED
        BY <3>1, <4>2, <4>3
    <3>3. F[i] = Number!Base^(n - i) * s[0] /\ z[i] = 0
      BY <1>4, <2>1, <2>3
    <3>4. F[i + 1] = Number!Base^(n - (i + 1)) * s[0]
      <4>1. CASE i + 1 >= n
        <5>1. n - (i + 1) = 0 /\ (i + 1) - n = 0
          BY <1>1, <2>3, <4>1
        <5>2. F[i + 1] = s[0]
          BY <2>1, <4>1, <5>1
        <5>3. Number!Base^(n - (i + 1)) = 1 /\ 1 * s[0] = s[0]
          BY <1>1, <1>7, <5>1 DEF Powers
        <5> QED
          BY <5>2, <5>3
      <4>2. CASE ~(i + 1 >= n)
        BY <2>1, <4>2
      <4> QED
        BY <4>1, <4>2
    <3> DEFINE b == Number!Base^(n - (i + 1))
    <3>5. b \in Nat /\ s[0] \in Nat
      BY <1>7, <1>8, <3>1
    <3> HIDE DEF F, b
    <3>6. (Number!Base * b) * s[0] = Number!Base * (b * s[0]) /\ Number!Base * (b * s[0]) \in Int
      BY <1>1, <3>5
    <3>7. F[i] = (Number!Base * b) * s[0] /\ F[i + 1] = b * s[0]
      BY <3>2, <3>3, <3>4 DEF b
    <3> QED
      BY <3>3, <3>6, <3>7
  <2> QED
    BY <2>2, <2>3
<1>11. F[0] = Number!Base^n * s[0]
  <2>1. 0 \in 0 .. Words
    BY <1>1
  <2>2. CASE n = 0
    <3>1. F[0] = s[0]
      BY <2>1, <2>2
    <3>2. Number!Base^n = 1 /\ 1 * s[0] = s[0]
      BY <1>1, <1>7, <2>2 DEF Powers
    <3> QED
      BY <3>1, <3>2
  <2>3. CASE n # 0
    <3>1. ~(0 >= n) /\ n - 0 = n
      BY <1>1, <2>3
    <3> QED
      BY <2>1, <3>1
  <2> QED
    BY <2>2, <2>3
<1>12. Number!Val(z) = F[0] - Number!All * F[Words] /\ F[0] \in Int /\ F[Words] \in Int
  <2>1. z \in WideNumber
    BY <1>6, ValRange
  <2>2. 0 \in 0 .. Words /\ Words \in 0 .. Words
    BY <1>1
  <2> HIDE DEF F
  <2> QED
    BY <1>9, <1>10, <2>1, <2>2, ValIs
<1>13. Number!Val(z) = (Number!Base^n * s[0]) % Number!All
  <2> HIDE DEF F
  <2>1. Number!Val(z) = F[0] % Number!All
    BY <1>6, <1>12, ModuloIs
  <2> QED
    BY <1>11, <2>1
<1> QED
  BY <1>3, <1>6, <1>13 DEF z

\* bignum_lshift multiplies by a power of two.
LEMMA LshiftIs ==
  ASSUME Powers, NumberFacts, NEW x \in Number!Number, NEW n \in 0 .. (Bits * Words - 1)
  PROVE  /\ Number!bignum_lshift(x, n) \in Number!Number
         /\ Number!Val(Number!bignum_lshift(x, n)) = (Number!Val(x) * 2^n) % Number!All
<1> DEFINE k == n \div Bits
           r == n % Bits
           y == Number!lshift_word(x, k)
           z == Number!lshift_bits(y, r)
           v == Number!Val(x)
           u == Number!Base^k * v
           e == y[Number!Top] \div 2^(Bits - r)
           d == u \div Number!All
           p == 2^r
<1>1. Bits \in Nat \ {0} /\ Words \in Nat /\ Number!All \in Nat \ {0} /\ Number!Base \in Nat \ {0}
      /\ Number!Index = 0 .. (Words - 1) /\ Number!MaxVal = Number!Base - 1
  BY DEF NumberFacts, Number!Index
<1>2. n \in Nat /\ n < Bits * Words
  BY <1>1
<1>3. k \in Int /\ r \in 0 .. (Bits - 1) /\ n = Bits * k + r
  BY <1>1, <1>2
<1> HIDE DEF k, r
<1>4. k \in Number!Index
  <2>1. k >= 0
    <3> SUFFICES ASSUME k <= -1 PROVE FALSE
      BY <1>3
    <3>1. Bits * k <= Bits * (-1)
      BY <1>1, <1>3
    <3> QED
      BY <1>1, <1>2, <1>3, <3>1
  <2>2. k < Words
    <3> SUFFICES ASSUME k >= Words PROVE FALSE
      BY <1>1, <1>3
    <3>1. Bits * k >= Bits * Words
      BY <1>1, <1>3
    <3> QED
      BY <1>1, <1>2, <1>3, <3>1
  <2> QED
    BY <1>1, <1>3, <2>1, <2>2
<1>5. y \in Number!Number /\ Number!Val(y) = u % Number!All
  BY <1>4, LshiftWordIs
<1>6. z \in Number!Number /\ Number!Val(z) = p * Number!Val(y) - Number!All * e
  <2>1. r \in 0 .. Bits
    BY <1>1, <1>3
  <2> QED
    BY <1>5, <2>1, LshiftBitsIs
<1>7. v \in Nat
  BY <1>1, ValRange
<1>8. u \in Int /\ p \in Nat /\ 2^n = Number!Base^k * p /\ Number!Base^k \in Nat
  <2>1. 2 \in Nat \ {0} /\ k \in Nat /\ r \in Nat /\ Bits * k \in Nat
    BY <1>1, <1>3, <1>4
  <2>2. \A i, j \in Nat : 2^(i + j) = 2^i * 2^j
    BY <2>1 DEF Powers
  <2>3. 2^(Bits * k + r) = 2^(Bits * k) * 2^r
    BY <2>1, <2>2
  <2>4. 2^(Bits * k) = (2^Bits)^k
    BY <1>1, <2>1 DEF Powers
  <2>5. Number!Base^k \in Nat /\ p \in Nat
    BY <1>1, <2>1 DEF Powers
  <2>6. u \in Int
    BY <1>7, <2>5
  <2> QED
    BY <1>3, <2>3, <2>4, <2>5, <2>6 DEF Number!Base
<1>9. e \in Int
  <2>1. 2^(Bits - r) \in Nat \ {0}
    <3>1. 2 \in Nat \ {0} /\ Bits - r \in Nat
      BY <1>1, <1>3
    <3> QED
      BY <3>1 DEF Powers
  <2>2. y[Number!Top] \in Int
    BY <1>1, <1>5 DEF NumberFacts, Number!Number
  <2> QED
    BY <2>1, <2>2
<1> HIDE DEF y, z, v, e, p
<1>10. u % Number!All = u - Number!All * d /\ d \in Int
  <2> HIDE DEF u
  <2> QED
    BY <1>1, <1>8
<1> DEFINE w == Number!Base^k
<1>11. v * 2^n = p * u
  <2>1. w \in Nat /\ v \in Nat /\ p \in Nat /\ 2^n = w * p
    BY <1>7, <1>8
  <2> HIDE DEF w
  <2>2. v * (w * p) = p * (w * v)
    BY <2>1
  <2> QED
    BY <2>1, <2>2 DEF w
<1> HIDE DEF u, d
<1>12. Number!Val(z) = p * u - Number!All * (p * d + e) /\ p * u \in Int /\ p * d + e \in Int
  <2>1. p * (u - Number!All * d) = p * u - Number!All * (p * d)
    BY <1>1, <1>8, <1>10
  <2>2. Number!All * (p * d + e) = Number!All * (p * d) + Number!All * e
    BY <1>1, <1>8, <1>9, <1>10
  <2>3. p * u \in Int /\ p * d \in Int /\ Number!All * (p * d) \in Int /\ Number!All * e \in Int
    BY <1>1, <1>8, <1>9, <1>10
  <2>4. Number!Val(z) = p * (u - Number!All * d) - Number!All * e
    BY <1>5, <1>6, <1>10
  <2> QED
    BY <1>9, <2>1, <2>2, <2>3, <2>4
<1>13. Number!Val(z) = (p * u) % Number!All
  BY <1>6, <1>12, ModuloIs
<1>14. Number!bignum_lshift(x, n) = z
  BY DEF Number!bignum_lshift, z, y, k, r
<1> QED
  BY <1>6, <1>11, <1>13, <1>14 DEF v

\* The word that a shift to the right takes from the one above.
LEMMA RightWord ==
  ASSUME NumberFacts, NEW p, NEW q, Splits(p, q), NEW x \in 0 .. (Number!Base - 1)
  PROVE  /\ (x * q) % Number!Base = (x % p) * q
         /\ (x % p) * q \in 0 .. (Number!Base - q)
<1> DEFINE l == (x % p) * q
           d == x \div p
<1>1. p \in Nat \ {0} /\ q \in Nat \ {0} /\ Number!Base \in Nat \ {0} /\ p * q = Number!Base
  BY DEF Splits, NumberFacts
<1>2. Splits(q, p)
  <2>1. q * p = p * q
    BY <1>1
  <2> QED
    BY <1>1, <2>1 DEF Splits
<1>3. d \in 0 .. (q - 1) /\ l \in 0 .. (Number!Base - q) /\ x * q = Number!Base * d + l
  BY <1>2, Parts
<1> DEFINE u == x * q
<1>4. u \in Int /\ Number!Base * d \in Int /\ d \in Int
  BY <1>1, <1>3
<1> HIDE DEF l, d
<1>5. l \in 0 .. (Number!Base - 1) /\ l = u - Number!Base * d
  BY <1>1, <1>3, <1>4
<1> HIDE DEF u
<1>6. l = u % Number!Base
  BY <1>1, <1>4, <1>5, Residue
<1> QED
  BY <1>3, <1>6 DEF l, u

\* A shift to the right by less than a word divides by a power of two.
LEMMA RshiftBitsIs ==
  ASSUME Powers, NumberFacts, NEW x \in Number!Number, NEW n \in 0 .. Bits
  PROVE  /\ Number!rshift_bits(x, n) \in Number!Number
         /\ Number!Val(Number!rshift_bits(x, n)) = Number!Val(x) \div 2^n
<1> DEFINE z == Number!rshift_bits(x, n)
           p == 2^n
           q == 2^(Bits - n)
           s == Suffix(x)
           F == [i \in 0 .. Words |-> IF i = Words THEN 0 ELSE x[i] \div p + q * s[i + 1]]
           g == [i \in Number!Index |-> IF i = Number!Top THEN 0 ELSE (x[i + 1] % p) * q]
<1>1. Words \in Nat /\ Number!Base \in Nat \ {0} /\ Number!Index = 0 .. (Words - 1)
      /\ Number!Top = Words - 1
      /\ Number!MaxVal = Number!Base - 1 /\ Number!All \in Nat
  BY DEF NumberFacts, Number!Index
<1>2. Splits(p, q) /\ p \in Nat \ {0} /\ q \in Nat \ {0} /\ p * q = Number!Base
  BY SplitAt DEF Splits
<1>3. z = [i \in Number!Index |-> x[i] \div p + (IF i = Number!Top THEN 0 ELSE (x[i + 1] * q) % Number!Base)]
  BY DEF Number!rshift_bits
<1>4. x \in WideNumber
  BY ValRange
<1>5. /\ s \in [0 .. Words -> Nat] /\ Number!Val(x) = s[0] /\ s[Words] = 0
      /\ \A i \in Number!Index : s[i] = x[i] + Number!Base * s[i + 1]
  BY <1>4, SuffixIs
<1> HIDE DEF z, p, q, s
<1>6. ASSUME NEW i \in Number!Index
      PROVE  /\ x[i] \in 0 .. (Number!Base - 1) /\ x[i] \div p \in 0 .. (q - 1)
             /\ x[i] % p \in 0 .. (p - 1)
             /\ x[i] = p * (x[i] \div p) + (x[i] % p)
  <2>1. x[i] \in 0 .. (Number!Base - 1)
    BY <1>1 DEF Number!Number
  <2>2. Splits(q, p)
    <3>1. q * p = p * q
      BY <1>2
    <3> QED
      BY <1>2, <3>1 DEF Splits
  <2> QED
    BY <2>1, <2>2, Parts
<1>7. ASSUME NEW i \in Number!Index PROVE z[i] = x[i] \div p + g[i] /\ g[i] \in 0 .. (Number!Base - q)
  <2>1. CASE i = Number!Top
    <3>1. g[i] = 0 /\ z[i] = x[i] \div p + 0
      BY <1>3, <2>1
    <3>2. q <= Number!Base
      <4>1. (p - 1) * q >= 0 /\ (p - 1) * q = p * q - q
        BY <1>2
      <4> QED
        BY <1>1, <1>2, <4>1
    <3>3. 0 \in 0 .. (Number!Base - q)
      BY <1>1, <1>2, <3>2
    <3> QED
      BY <3>1, <3>3
  <2>2. CASE i # Number!Top
    <3>1. i + 1 \in Number!Index
      BY <1>1, <2>2
    <3>2. x[i + 1] \in 0 .. (Number!Base - 1)
      BY <1>6, <3>1
    <3>3. (x[i + 1] * q) % Number!Base = (x[i + 1] % p) * q
          /\ (x[i + 1] % p) * q \in 0 .. (Number!Base - q)
      BY <1>2, <3>2, RightWord
    <3>4. g[i] = (x[i + 1] % p) * q
      BY <2>2
    <3>5. z[i] = x[i] \div p + ((x[i + 1] * q) % Number!Base)
      BY <1>3, <2>2
    <3> QED
      BY <3>3, <3>4, <3>5
  <2> QED
    BY <2>1, <2>2
<1>8. z \in Number!Number
  <2>1. ASSUME NEW i \in Number!Index PROVE z[i] \in 0 .. Number!MaxVal
    <3> DEFINE d == x[i] \div p
    <3>1. d \in 0 .. (q - 1) /\ z[i] = d + g[i] /\ g[i] \in 0 .. (Number!Base - q)
      BY <1>6, <1>7
    <3> HIDE DEF d, g
    <3> QED
      BY <1>1, <1>2, <3>1
  <2> QED
    BY <1>3, <2>1 DEF Number!Number
<1>9. F \in [0 .. Words -> Int]
  <2>1. ASSUME NEW i \in 0 .. Words PROVE F[i] \in Int
    <3>1. CASE i = Words
      BY <3>1
    <3>2. CASE i # Words
      <4>1. i \in Number!Index /\ i + 1 \in 0 .. Words
        BY <1>1, <3>2
      <4>2. x[i] \div p \in Int /\ q * s[i + 1] \in Int
        <5>1. x[i] \div p \in 0 .. (q - 1)
          BY <1>6, <4>1
        <5>2. s[i + 1] \in Nat
          BY <1>5, <4>1
        <5>3. q * s[i + 1] \in Int
          BY <1>2, <5>2
        <5> QED
          BY <1>2, <5>1, <5>3
      <4>3. F[i] = x[i] \div p + q * s[i + 1]
        BY <3>2
      <4> HIDE DEF F
      <4> QED
        BY <4>2, <4>3
    <3> QED
      BY <3>1, <3>2
  <2>2. F = [i \in 0 .. Words |-> F[i]]
    OBVIOUS
  <2> HIDE DEF F
  <2> QED
    BY <2>1, <2>2
<1>10. ASSUME NEW i \in Number!Index PROVE F[i] = z[i] + Number!Base * F[i + 1]
  <2>1. i \in 0 .. Words /\ i + 1 \in 0 .. Words /\ i # Words
    BY <1>1
  <2>2. F[i] = x[i] \div p + q * s[i + 1]
    BY <2>1
  <2>3. CASE i = Number!Top
    <3>1. F[i + 1] = 0 /\ s[i + 1] = 0
      <4>1. i + 1 = Words
        BY <1>1, <2>3
      <4> QED
        BY <1>5, <2>1, <4>1
    <3>2. g[i] = 0
      BY <2>3
    <3>3. z[i] = x[i] \div p + g[i] /\ x[i] \div p \in 0 .. (q - 1)
      BY <1>6, <1>7
    <3> DEFINE d == x[i] \div p
    <3>4. d \in Int /\ F[i] = d + q * s[i + 1] /\ z[i] = d + g[i]
      BY <1>2, <2>2, <3>3
    <3> HIDE DEF F, g, d
    <3> QED
      BY <1>1, <1>2, <3>1, <3>2, <3>4
  <2>4. CASE i # Number!Top
    <3> DEFINE j == i + 1
               d == x[i] \div p
               e == x[j] \div p
               m == x[j] % p
               t == s[j + 1]
    <3>1. j \in Number!Index /\ j \in 0 .. Words /\ j + 1 \in 0 .. Words /\ j # Words
      BY <1>1, <2>4
    <3>2. F[j] = e + q * t
      BY <3>1
    <3>3. g[i] = m * q
      BY <2>4
    <3>4. z[i] = d + g[i]
      BY <1>7
    <3>5. d \in Int /\ e \in Int /\ m \in Int /\ x[j] = p * e + m
      <4>1. x[i] \div p \in 0 .. (q - 1)
        BY <1>6
      <4>2. x[j] \div p \in 0 .. (q - 1) /\ x[j] % p \in 0 .. (p - 1)
            /\ x[j] = p * (x[j] \div p) + (x[j] % p)
        BY <1>6, <3>1
      <4> QED
        BY <1>2, <4>1, <4>2
    <3>6. s[j] = x[j] + Number!Base * t
      BY <1>5, <3>1
    <3>7. t \in Int
      BY <1>5, <3>1
    <3>8. F[i] = d + q * s[j]
      BY <2>2
    <3> HIDE DEF F, g, j, d, e, m, t
    <3>9. q * ((p * e + m) + Number!Base * t) = Number!Base * (e + q * t) + m * q
      <4>1. q * ((p * e + m) + Number!Base * t) = (p * q) * e + m * q + Number!Base * (q * t)
        BY <1>1, <1>2, <3>5, <3>7
      <4>2. Number!Base * (e + q * t) = Number!Base * e + Number!Base * (q * t)
        BY <1>1, <1>2, <3>5, <3>7
      <4>3. Number!Base * e \in Int /\ m * q \in Int /\ Number!Base * (q * t) \in Int
        BY <1>1, <1>2, <3>5, <3>7
      <4> QED
        BY <1>2, <4>1, <4>2, <4>3
    <3>10. Number!Base * (e + q * t) \in Int /\ m * q \in Int
      BY <1>1, <1>2, <3>5, <3>7
    <3>11. F[i] = d + (Number!Base * (e + q * t) + m * q)
      BY <3>5, <3>6, <3>8, <3>9
    <3>12. z[i] + Number!Base * F[j] = (d + m * q) + Number!Base * (e + q * t)
      BY <3>2, <3>3, <3>4
    <3> QED
      BY <3>5, <3>10, <3>11, <3>12 DEF j
  <2> QED
    BY <2>3, <2>4
<1>11. F[Words] = 0 /\ 0 \in Number!Index /\ 0 \in 0 .. Words /\ 0 # Words /\ 1 \in 0 .. Words
  BY <1>1 DEF NumberFacts
<1>12. F[0] = x[0] \div p + q * s[1]
  BY <1>11
<1>13. Number!Val(z) = F[0] /\ F[0] \in Int
  <2>1. z \in WideNumber
    BY <1>8, ValRange
  <2> HIDE DEF F
  <2>2. Number!Val(z) = F[0] - Number!All * F[Words] /\ F[0] \in Int
    BY <1>9, <1>10, <1>11, <2>1, ValIs
  <2> QED
    BY <1>1, <1>11, <2>2
<1>14. s[0] = p * F[0] + (x[0] % p) /\ x[0] % p \in 0 .. (p - 1)
  <2> DEFINE d == x[0] \div p
             m == x[0] % p
             t == s[1]
  <2>1. s[0] = x[0] + Number!Base * t /\ t \in Int
    <3>1. 0 + 1 = 1
      OBVIOUS
    <3> QED
      BY <1>5, <1>11, <3>1
  <2>2. d \in 0 .. (q - 1) /\ m \in 0 .. (p - 1) /\ x[0] = p * d + m
    BY <1>6, <1>11
  <2>3. F[0] = d + q * t
    BY <1>12
  <2> HIDE DEF F, d, m, t
  <2>4. p * (d + q * t) = p * d + (p * q) * t /\ p * d \in Int /\ (p * q) * t \in Int
    BY <1>2, <2>1, <2>2
  <2>5. s[0] = p * F[0] + m
    BY <1>2, <2>1, <2>2, <2>3, <2>4
  <2> QED
    BY <2>2, <2>5 DEF m
<1>15. s[0] \div p = F[0]
  <2> DEFINE f == F[0]
             m == x[0] % p
             v == s[0]
  <2>1. v = p * f + m /\ m \in 0 .. (p - 1) /\ f \in Int
    BY <1>13, <1>14
  <2> HIDE DEF f, m, v
  <2>2. p * f \in Int /\ p * (f + 1) = p * f + p
    BY <1>2, <2>1
  <2>3. v \in Int /\ p * f <= v /\ v < p * (f + 1)
    BY <1>2, <2>1, <2>2
  <2>4. v \div p = f
    BY <1>2, <2>1, <2>3, QuotientIs
  <2> QED
    BY <2>4 DEF f, v
<1> QED
  BY <1>5, <1>8, <1>13, <1>15 DEF z, p

-----------------------------------------------------------------------------
(* Comparison *)

\* The highest word in which two numbers differ decides.
LEMMA HighestDecides ==
  ASSUME Powers, NumberFacts, NEW x \in Number!Number, NEW y \in Number!Number, NEW k \in Number!Index,
         x[k] > y[k], \A j \in Number!Index : j > k => x[j] = y[j]
  PROVE  Number!Val(x) > Number!Val(y)
<1> DEFINE s == Suffix(x)
           t == Suffix(y)
           Same == {i \in 0 .. Words : i > k => s[i] = t[i]}
           More == {i \in 0 .. Words : i <= k => s[i] > t[i]}
<1>0. x \in WideNumber /\ y \in WideNumber
  BY ValRange
<1>1. /\ s \in [0 .. Words -> Nat] /\ Number!Val(x) = s[0] /\ s[Words] = 0
      /\ \A i \in Number!Index : s[i] = x[i] + Number!Base * s[i + 1]
  BY <1>0, SuffixIs
<1>2. /\ t \in [0 .. Words -> Nat] /\ Number!Val(y) = t[0] /\ t[Words] = 0
      /\ \A i \in Number!Index : t[i] = y[i] + Number!Base * t[i + 1]
  BY <1>0, SuffixIs
<1>3. Words \in Nat /\ Number!Base \in Nat \ {0} /\ Number!Index = 0 .. (Words - 1)
      /\ Number!MaxVal = Number!Base - 1
  BY DEF NumberFacts, Number!Index
<1> HIDE DEF s, t
<1>4. \A i \in 0 .. Words : i \in Same
  <2>1. Words \in Same
    BY <1>1, <1>2, <1>3
  <2>2. ASSUME NEW i \in 0 .. (Words - 1), i + 1 \in Same PROVE i \in Same
    <3>1. i \in Number!Index /\ i \in 0 .. Words /\ i + 1 \in 0 .. Words
      BY <1>3
    <3>2. ASSUME i > k PROVE s[i] = t[i]
      <4>1. s[i + 1] = t[i + 1] /\ x[i] = y[i]
        BY <1>3, <2>2, <3>1, <3>2
      <4> QED
        BY <1>1, <1>2, <3>1, <4>1
    <3> QED
      BY <3>1, <3>2
  <2> HIDE DEF Same
  <2> QED
    BY <1>3, <2>1, <2>2, DownTo
<1>5. \A i \in Number!Index : x[i] \in 0 .. (Number!Base - 1) /\ y[i] \in 0 .. (Number!Base - 1)
                       /\ s[i + 1] \in Nat /\ t[i + 1] \in Nat
  <2> TAKE i \in Number!Index
  <2>1. x[i] \in 0 .. (Number!Base - 1) /\ y[i] \in 0 .. (Number!Base - 1)
    BY <1>3 DEF Number!Number
  <2>2. i + 1 \in 0 .. Words
    BY <1>3
  <2> QED
    BY <1>1, <1>2, <2>1, <2>2
<1>6. s[k] > t[k]
  <2>1. s[k + 1] = t[k + 1]
    <3>1. k + 1 \in Same /\ k + 1 > k
      BY <1>3, <1>4
    <3> QED
      BY <3>1
  <2> DEFINE u == Number!Base * s[k + 1]
  <2>2. u \in Int
    BY <1>3, <1>5
  <2>3. s[k] = x[k] + u /\ t[k] = y[k] + u
    BY <1>1, <1>2, <2>1
  <2> HIDE DEF u
  <2> QED
    BY <1>3, <1>5, <2>2, <2>3
<1>7. \A i \in 0 .. Words : i \in More
  <2>1. Words \in More
    BY <1>3
  <2>2. ASSUME NEW i \in 0 .. (Words - 1), i + 1 \in More PROVE i \in More
    <3>1. i \in Number!Index /\ i \in 0 .. Words /\ i + 1 \in 0 .. Words
      BY <1>3
    <3>2. ASSUME i < k PROVE s[i] > t[i]
      <4> DEFINE u == s[i + 1]
                 v == t[i + 1]
      <4>1. u > v /\ u \in Nat /\ v \in Nat
        <5>1. i + 1 <= k
          BY <1>3, <3>2
        <5>2. s[i + 1] > t[i + 1]
          BY <2>2, <5>1
        <5> QED
          BY <1>5, <3>1, <5>2
      <4>2. s[i] = x[i] + Number!Base * u /\ t[i] = y[i] + Number!Base * v
        BY <1>1, <1>2, <3>1
      <4>3. x[i] \in 0 .. (Number!Base - 1) /\ y[i] \in 0 .. (Number!Base - 1)
        BY <1>5, <3>1
      <4> HIDE DEF u, v
      <4>4. Number!Base * u >= Number!Base * (v + 1)
            /\ Number!Base * (v + 1) = Number!Base * v + Number!Base
        BY <1>3, <4>1
      <4>5. Number!Base * u \in Int /\ Number!Base * v \in Int
        BY <1>3, <4>1
      <4> QED
        BY <1>3, <4>2, <4>3, <4>4, <4>5
    <3> QED
      BY <1>3, <1>6, <3>1, <3>2
  <2> HIDE DEF More
  <2> QED
    BY <1>3, <2>1, <2>2, DownTo
<1>8. s[0] > t[0]
  <2>1. 0 \in More /\ 0 <= k
    BY <1>3, <1>7
  <2> QED
    BY <2>1
<1> QED
  BY <1>1, <1>2, <1>8

\* bignum_cmp compares the numbers.
LEMMA CmpIs ==
  ASSUME Powers, NumberFacts, NEW x \in Number!Number, NEW y \in Number!Number
  PROVE  /\ Number!bignum_cmp(x, y) = 1 <=> Number!Val(x) > Number!Val(y)
         /\ Number!bignum_cmp(x, y) = -1 <=> Number!Val(x) < Number!Val(y)
         /\ x = y <=> Number!Val(x) = Number!Val(y)
<1>1. Words \in Nat /\ Number!Index = 0 .. (Words - 1) /\ Number!Val(x) \in Int /\ Number!Val(y) \in Int
  <2>1. Number!All \in Nat
    BY DEF NumberFacts
  <2> QED
    BY <2>1, ValRange DEF NumberFacts, Number!Index
<1>2. CASE x = y
  <2>1. Number!bignum_cmp(x, y) = 0
    BY <1>2 DEF Number!bignum_cmp
  <2> QED
    BY <1>1, <1>2, <2>1
<1>3. CASE x # y
  <2> DEFINE D == {j \in Number!Index : x[j] # y[j]}
             T == {n \in 0 .. (Words - 1) : (Words - 1) - n \in D}
             i == Number!Max(D)
  <2>1. D # {}
    <3>1. x = [j \in Number!Index |-> x[j]] /\ y = [j \in Number!Index |-> y[j]]
      BY DEF Number!Number
    <3> QED
      BY <1>3, <3>1
  <2>2. T # {}
    <3>1. PICK j \in D : TRUE
      BY <2>1
    <3>2. (Words - 1) - j \in 0 .. (Words - 1) /\ (Words - 1) - ((Words - 1) - j) = j
      BY <1>1
    <3>3. (Words - 1) - j \in T
      BY <3>1, <3>2
    <3> QED
      BY <3>3
  <2>3. PICK n \in T : \A m \in T : n <= m
    <3>1. T \subseteq Nat
      BY <1>1
    <3> HIDE DEF T
    <3> QED
      BY <2>2, <3>1, LeastNat
  <2>4. (Words - 1) - n \in D /\ \A j \in D : (Words - 1) - n >= j
    <3>1. ASSUME NEW j \in D PROVE (Words - 1) - n >= j
      <4>1. (Words - 1) - j \in 0 .. (Words - 1) /\ (Words - 1) - ((Words - 1) - j) = j /\ n \in Int
        BY <1>1
      <4>2. (Words - 1) - j \in T
        BY <4>1
      <4>3. n <= (Words - 1) - j
        BY <2>3, <4>2
      <4> QED
        BY <1>1, <4>1, <4>3
    <3> QED
      BY <3>1
  <2>5. i \in D /\ \A j \in D : i >= j
    <3> HIDE DEF D, T
    <3>1. \E d \in D : \A j \in D : d >= j
      BY <2>4
    <3> QED
      BY <3>1 DEF Number!Max
  <2>6. Number!bignum_cmp(x, y) = IF x[i] > y[i] THEN 1 ELSE -1
    BY <1>3 DEF Number!bignum_cmp
  <2>7. i \in Number!Index /\ x[i] # y[i]
    BY <2>5
  <2>8. \A j \in Number!Index : j > i => x[j] = y[j]
    <3> TAKE j \in Number!Index
    <3> HAVE j > i
    <3>1. j \notin D
      BY <1>1, <2>5, <2>7
    <3> QED
      BY <3>1
  <2> HIDE DEF i, D, T
  <2>9. x[i] \in Int /\ y[i] \in Int
    <3>1. x[i] \in 0 .. Number!MaxVal /\ y[i] \in 0 .. Number!MaxVal
      BY <2>7 DEF Number!Number
    <3> QED
      BY <3>1
  <2>10. CASE x[i] > y[i]
    <3>1. Number!Val(x) > Number!Val(y)
      BY <2>7, <2>8, <2>10, HighestDecides
    <3> QED
      BY <1>1, <1>3, <2>6, <2>10, <3>1
  <2>11. CASE y[i] > x[i]
    <3>1. Number!Val(y) > Number!Val(x)
      BY <2>7, <2>8, <2>11, HighestDecides
    <3>2. Number!bignum_cmp(x, y) = -1
      BY <2>6, <2>9, <2>11
    <3> QED
      BY <1>1, <1>3, <3>1, <3>2
  <2> QED
    BY <2>7, <2>9, <2>10, <2>11
<1> QED
  BY <1>2, <1>3
-----------------------------------------------------------------------------
(* Multiplication *)

LEMMA ZeroIs ==
  ASSUME Powers, NumberFacts
  PROVE  Number!zero \in Number!Number /\ Number!Val(Number!zero) = 0
<1> DEFINE F == [i \in 0 .. Words |-> 0]
<1>1. Words \in Nat /\ Number!Base \in Nat /\ Number!Index = 0 .. (Words - 1) /\ Number!All \in Nat
      /\ Number!MaxVal \in Nat
  BY DEF NumberFacts, Number!Index
<1>2. Number!zero \in Number!Number
  BY <1>1 DEF Number!zero, Number!Number
<1>3. Number!zero \in WideNumber
  BY <1>2, ValRange
<1>4. F \in [0 .. Words -> Int] /\ F[0] = 0 /\ F[Words] = 0
  BY <1>1
<1>5. \A i \in Number!Index : F[i] = Number!zero[i] + Number!Base * F[i + 1]
  <2> TAKE i \in Number!Index
  <2>1. F[i] = 0 /\ F[i + 1] = 0 /\ Number!zero[i] = 0 /\ Number!Base * 0 = 0
    BY <1>1 DEF Number!zero
  <2> QED
    BY <2>1
<1>6. Number!Val(Number!zero) = F[0] - Number!All * F[Words]
  <2> HIDE DEF F
  <2> QED
    BY <1>3, <1>4, <1>5, ValIs
<1>7. Number!All * 0 = 0
  BY <1>1
<1> QED
  BY <1>2, <1>4, <1>6, <1>7

\* An integer fits in two words.
LEMMA FromIntIs ==
  ASSUME Powers, NumberFacts, NEW v \in Nat, v < Number!Base * Number!Base
  PROVE  Number!bignum_from_int(v) \in Number!Number /\ Number!Val(Number!bignum_from_int(v)) = v
<1> DEFINE z == Number!bignum_from_int(v)
           l == v % Number!Base
           d == v \div Number!Base
           F == [i \in 0 .. Words |-> IF i = 0 THEN v ELSE IF i = 1 THEN d ELSE 0]
<1>1. Words \in Nat /\ Words >= 2 /\ Number!Base \in Nat \ {0} /\ Number!Index = 0 .. (Words - 1)
      /\ Number!All \in Nat
      /\ Number!MaxVal = Number!Base - 1
  BY DEF NumberFacts, Number!Index
<1>2. l \in 0 .. (Number!Base - 1) /\ d \in Int /\ v = Number!Base * d + l
  BY <1>1
<1>3. z = [i \in Number!Index |-> IF i = 1 THEN d % Number!Base ELSE IF i = 0 THEN l ELSE 0]
  <2>1. 0 \in Number!Index /\ 1 \in Number!Index
    BY <1>1
  <2> QED
    BY <2>1 DEF Number!bignum_from_int, Number!zero
<1> HIDE DEF l, d, z
<1>4. d \in 0 .. (Number!Base - 1)
  <2>1. ~(d <= -1)
    <3> SUFFICES ASSUME d <= -1 PROVE FALSE
      OBVIOUS
    <3>1. Number!Base * d <= Number!Base * (-1)
      BY <1>1, <1>2
    <3> QED
      BY <1>1, <1>2, <3>1
  <2>2. ~(d >= Number!Base)
    <3> SUFFICES ASSUME d >= Number!Base PROVE FALSE
      OBVIOUS
    <3>1. Number!Base * d >= Number!Base * Number!Base
      BY <1>1, <1>2
    <3> QED
      BY <1>1, <1>2, <3>1
  <2> QED
    BY <1>1, <1>2, <2>1, <2>2
<1>5. d % Number!Base = d
  <2>1. d \in 0 .. (2 * Number!Base - 1) /\ d < Number!Base
    BY <1>1, <1>4
  <2> QED
    BY <2>1, WordIs
<1>6. z = [i \in Number!Index |-> IF i = 1 THEN d ELSE IF i = 0 THEN l ELSE 0]
  BY <1>3, <1>5
<1>7. z \in Number!Number
  <2>1. d \in 0 .. Number!MaxVal /\ l \in 0 .. Number!MaxVal /\ 0 \in 0 .. Number!MaxVal
    BY <1>1, <1>2, <1>4
  <2> QED
    BY <1>6, <2>1 DEF Number!Number
<1>8. F \in [0 .. Words -> Int] /\ F[0] = v /\ F[Words] = 0
  BY <1>1, <1>2
<1>9. ASSUME NEW i \in Number!Index PROVE F[i] = z[i] + Number!Base * F[i + 1]
  <2>1. i \in 0 .. Words /\ i + 1 \in 0 .. Words /\ i + 1 # 0 /\ Number!Base * 0 = 0
    BY <1>1
  <2>2. CASE i = 0
    <3>1. F[i] = v /\ F[i + 1] = d /\ z[i] = l
      BY <1>6, <2>1, <2>2
    <3> HIDE DEF F
    <3> QED
      BY <1>1, <1>2, <3>1
  <2>3. CASE i = 1
    <3>1. F[i] = d /\ F[i + 1] = 0 /\ z[i] = d
      BY <1>6, <2>1, <2>3
    <3> HIDE DEF F
    <3> QED
      BY <1>1, <1>2, <2>1, <3>1
  <2>4. CASE i # 0 /\ i # 1
    <3>1. F[i] = 0 /\ F[i + 1] = 0 /\ z[i] = 0
      BY <1>1, <1>6, <2>1, <2>4
    <3> HIDE DEF F
    <3> QED
      BY <2>1, <3>1
  <2> QED
    BY <2>2, <2>3, <2>4
<1>10. Number!Val(z) = F[0] - Number!All * F[Words]
  <2>1. z \in WideNumber
    BY <1>7, ValRange
  <2> HIDE DEF F
  <2> QED
    BY <1>8, <1>9, <2>1, ValIs
<1>11. Number!All * 0 = 0
  BY <1>1
<1> QED
  BY <1>7, <1>8, <1>10, <1>11 DEF z

\* The same up to a multiple of All.
Same(u, v) == u \in Int /\ v \in Int /\ \E q \in Int : u = v + Number!All * q

\* It is an equivalence that sums respect, and x % All is the same as x.
LEMMA SameIs ==
  ASSUME NumberFacts
  PROVE  /\ \A u \in Int : Same(u, u) /\ Same(u % Number!All, u)
         /\ \A u, v, w : Same(u, v) /\ Same(v, w) => Same(u, w)
         /\ \A t, u, v, w : Same(t, u) /\ Same(v, w) => Same(t + v, u + w)
         /\ \A u, v : Same(u, v) /\ u \in 0 .. (Number!All - 1) => u = v % Number!All
<1>1. Number!All \in Nat \ {0}
  BY DEF NumberFacts
<1>2. ASSUME NEW u \in Int PROVE Same(u, u) /\ Same(u % Number!All, u)
  <2>1. u = u + Number!All * 0
    BY <1>1
  <2> DEFINE d == u \div Number!All
             r == u % Number!All
  <2>2. d \in Int /\ r \in 0 .. (Number!All - 1) /\ u = Number!All * d + r
    BY <1>1
  <2> HIDE DEF d, r
  <2>3. -d \in Int /\ r = u + Number!All * (-d)
    BY <1>1, <2>2
  <2>4. Same(r, u)
    BY <1>1, <2>2, <2>3 DEF Same
  <2> QED
    BY <2>1, <2>4 DEF Same, r
<1>3. ASSUME NEW u, NEW v, NEW w, Same(u, v), Same(v, w) PROVE Same(u, w)
  <2>1. PICK p \in Int : u = v + Number!All * p
    BY <1>3 DEF Same
  <2>2. PICK q \in Int : v = w + Number!All * q
    BY <1>3 DEF Same
  <2>3. u \in Int /\ v \in Int /\ w \in Int /\ p + q \in Int
    BY <1>3 DEF Same
  <2>4. Number!All * (p + q) = Number!All * p + Number!All * q /\ Number!All * p \in Int
        /\ Number!All * q \in Int
    BY <1>1
  <2>5. u = w + Number!All * (p + q)
    BY <2>1, <2>2, <2>3, <2>4
  <2> QED
    BY <2>3, <2>5 DEF Same
<1>4. ASSUME NEW t, NEW u, NEW v, NEW w, Same(t, u), Same(v, w) PROVE Same(t + v, u + w)
  <2>1. PICK p \in Int : t = u + Number!All * p
    BY <1>4 DEF Same
  <2>2. PICK q \in Int : v = w + Number!All * q
    BY <1>4 DEF Same
  <2>3. t \in Int /\ u \in Int /\ v \in Int /\ w \in Int /\ p + q \in Int
    BY <1>4 DEF Same
  <2>4. Number!All * (p + q) = Number!All * p + Number!All * q /\ Number!All * p \in Int
        /\ Number!All * q \in Int
    BY <1>1
  <2>5. t + v = (u + w) + Number!All * (p + q) /\ t + v \in Int /\ u + w \in Int
    BY <2>1, <2>2, <2>3, <2>4
  <2> QED
    BY <2>3, <2>5 DEF Same
<1>5. ASSUME NEW u, NEW v, Same(u, v), u \in 0 .. (Number!All - 1) PROVE u = v % Number!All
  <2>1. PICK q \in Int : u = v + Number!All * q
    BY <1>5 DEF Same
  <2>2. v \in Int /\ -q \in Int
    BY <1>5 DEF Same
  <2>3. u = v - Number!All * (-q)
    BY <1>1, <2>1, <2>2
  <2> QED
    BY <1>1, <1>5, <2>2, <2>3, Residue
<1> QED
  BY <1>2, <1>3, <1>4, <1>5

-----------------------------------------------------------------------------
\* The product of two words in its place, the rows of bignum_mul, and their sums.
Part(x, y, i, j) == Number!lshift_word(Number!bignum_from_int(x[i] * y[j]), i + j)

\* A row is one word of x times y, with one more word of y at every place.
IsRow(f, x, y, i) ==
  f = [k \in 0 .. Words |->
         IF k = 0 THEN Number!zero
         ELSE IF i + k > Words THEN f[k - 1]
         ELSE Number!bignum_add(Part(x, y, i, k - 1), f[k - 1])]

Row(x, y, i) == CHOOSE f : IsRow(f, x, y, i)

\* The sums of the first rows.
IsTotals(f, x, y) ==
  f = [i \in 0 .. Words |-> IF i = 0 THEN Number!zero ELSE Number!bignum_add(f[i - 1], Row(x, y, i - 1)[Words])]

Totals(x, y) == CHOOSE f : IsTotals(f, x, y)

\* No bignum_add of a bignum_mul loses a carry.
NothingLost(x, y) ==
  \A i \in Number!Index :
    /\ ~Number!LosesCarry(Totals(x, y)[i], Row(x, y, i)[Words])
    /\ \A k \in 0 .. (Words - i - 1) : ~Number!LosesCarry(Part(x, y, i, k), Row(x, y, i)[k])

\* bignum_mul in these terms.
LEMMA MulIs ==
  ASSUME NEW x, NEW y
  PROVE  /\ Number!bignum_mul(x, y).product = Totals(x, y)[Words]
         /\ ~Number!bignum_mul(x, y).lost => NothingLost(x, y)
<1> DEFINE L == \E i \in Number!Index :
                  \/ Number!LosesCarry(Totals(x, y)[i], Row(x, y, i)[Words])
                  \/ \E k \in 0 .. (Words - i - 1) : Number!LosesCarry(Part(x, y, i, k), Row(x, y, i)[k])
<1>1. Number!bignum_mul(x, y) = [product |-> Totals(x, y)[Words], lost |-> L]
  BY DEF Number!bignum_mul, Totals, IsTotals, Row, IsRow, Part
<1>2. Number!bignum_mul(x, y).product = Totals(x, y)[Words]
  BY <1>1
<1>3. Number!bignum_mul(x, y).lost = L
  <2> HIDE DEF L
  <2> QED
    BY <1>1
<1>4. ~L => NothingLost(x, y)
  BY Zenon DEF NothingLost
<1> QED
  BY <1>2, <1>3, <1>4, Zenon

LEMMA AddType ==
  ASSUME NumberFacts, NEW x \in Number!Number, NEW y \in Number!Number
  PROVE  Number!bignum_add(x, y) \in Number!Number
<1>1. Number!Base \in Nat \ {0} /\ Number!MaxVal = Number!Base - 1
  BY DEF NumberFacts
<1>2. ASSUME NEW i \in Number!Index PROVE (x[i] + y[i]) % Number!Base \in 0 .. Number!MaxVal
  <2> DEFINE u == x[i] + y[i]
  <2>1. u \in Int
    <3>1. x[i] \in 0 .. Number!MaxVal /\ y[i] \in 0 .. Number!MaxVal
      BY DEF Number!Number
    <3> QED
      BY <1>1, <3>1
  <2> HIDE DEF u
  <2>2. u % Number!Base \in 0 .. (Number!Base - 1)
    BY <1>1, <2>1
  <2> QED
    BY <1>1, <2>2 DEF u
<1> QED
  BY <1>2 DEF Number!bignum_add, Number!Number

\* What a part stands for; there is room for its product.
LEMMA PartIs ==
  ASSUME Powers, NumberFacts, NEW x \in Number!Number, NEW y \in Number!Number, NEW i \in Number!Index,
         NEW j \in Number!Index
  PROVE  i + j \in Number!Index =>
           /\ Part(x, y, i, j) \in Number!Number
           /\ Same(Number!Val(Part(x, y, i, j)), (Number!Base^i * x[i]) * (Number!Base^j * y[j]))
<1> SUFFICES ASSUME i + j \in Number!Index
             PROVE  /\ Part(x, y, i, j) \in Number!Number
                    /\ Same(Number!Val(Part(x, y, i, j)), (Number!Base^i * x[i]) * (Number!Base^j * y[j]))
  OBVIOUS
<1> DEFINE a == x[i]
           b == y[j]
           v == a * b
           m == Number!bignum_from_int(v)
           p == Number!Base^i
           q == Number!Base^j
<1>1. Number!Base \in Nat \ {0} /\ Number!MaxVal = Number!Base - 1 /\ Number!Index = 0 .. (Words - 1)
      /\ Number!All \in Nat \ {0}
      /\ Words \in Nat
  BY DEF NumberFacts, Number!Index
<1>2. a \in 0 .. (Number!Base - 1) /\ b \in 0 .. (Number!Base - 1)
  BY <1>1 DEF Number!Number
<1> HIDE DEF a, b
<1>3. v \in Nat /\ v < Number!Base * Number!Base
  <2>1. v \in Nat
    BY <1>2
  <2>2. v <= a * Number!Base /\ a * Number!Base <= (Number!Base - 1) * Number!Base
    BY <1>1, <1>2
  <2>3. (Number!Base - 1) * Number!Base = Number!Base * Number!Base - Number!Base
        /\ Number!Base * Number!Base \in Int /\ a * Number!Base \in Int
    BY <1>1, <1>2
  <2> QED
    BY <1>1, <2>1, <2>2, <2>3
<1>4. m \in Number!Number /\ Number!Val(m) = v
  BY <1>3, FromIntIs
<1>5. /\ Part(x, y, i, j) = Number!lshift_word(m, i + j)
      /\ Part(x, y, i, j) \in Number!Number
      /\ Number!Val(Part(x, y, i, j)) = (Number!Base^(i + j) * v) % Number!All
  BY <1>4, LshiftWordIs DEF Part, a, b
<1>6. Number!Base^(i + j) = p * q /\ p \in Nat /\ q \in Nat
  BY <1>1 DEF Powers
<1> HIDE DEF p, q
<1>7. (p * q) * v = (p * a) * (q * b) /\ (p * q) * v \in Int
  BY <1>2, <1>6
<1>8. Same(((p * q) * v) % Number!All, (p * q) * v)
  BY <1>7, SameIs
<1> QED
  BY <1>5, <1>6, <1>7, <1>8 DEF p, q, a, b

\* Without room for it, it is a multiple of All.
LEMMA PartBeyond ==
  ASSUME Powers, NumberFacts, NEW x \in Number!Number, NEW y \in Number!Number, NEW i \in Number!Index,
         NEW j \in Number!Index
  PROVE  i + j \notin Number!Index => Same(0, (Number!Base^i * x[i]) * (Number!Base^j * y[j]))
<1> SUFFICES ASSUME i + j \notin Number!Index
             PROVE  Same(0, (Number!Base^i * x[i]) * (Number!Base^j * y[j]))
  OBVIOUS
<1> DEFINE a == x[i]
           b == y[j]
           p == Number!Base^i
           q == Number!Base^j
           e == (i + j) - Words
           r == Number!Base^e
<1>1. Number!Base \in Nat \ {0} /\ Number!MaxVal = Number!Base - 1 /\ Number!Index = 0 .. (Words - 1)
      /\ Number!All \in Nat \ {0}
      /\ Words \in Nat /\ Number!All = Number!Base^Words
  BY DEF NumberFacts, Number!Index
<1>2. a \in 0 .. (Number!Base - 1) /\ b \in 0 .. (Number!Base - 1)
  BY <1>1 DEF Number!Number
<1>3. e \in Nat /\ Words + e = i + j /\ i \in Nat /\ j \in Nat
  BY <1>1
<1>4. Number!Base^(i + j) = p * q /\ p \in Nat /\ q \in Nat
  BY <1>1, <1>3 DEF Powers
<1>5. Number!Base^(Words + e) = Number!All * r /\ r \in Nat
  <2> HIDE DEF e
  <2> QED
    BY <1>1, <1>3 DEF Powers
<1>6. p * q = Number!All * r
  BY <1>3, <1>4, <1>5
<1> HIDE DEF a, b, p, q, r, e
<1>7. (p * a) * (q * b) = (p * q) * (a * b) /\ (p * a) * (q * b) \in Int
  BY <1>2, <1>4
<1>8. (Number!All * r) * (a * b) = Number!All * (r * (a * b)) /\ -(r * (a * b)) \in Int
  BY <1>1, <1>2, <1>5
<1>9. 0 = (p * a) * (q * b) + Number!All * (-(r * (a * b)))
  <2> DEFINE w == r * (a * b)
  <2>1. w \in Int /\ (p * a) * (q * b) = Number!All * w
    <3>1. w \in Int
      BY <1>2, <1>5
    <3>2. (p * q) * (a * b) = (Number!All * r) * (a * b)
      BY <1>6, Zenon
    <3> QED
      BY <1>7, <1>8, <3>1, <3>2, Zenon
  <2> HIDE DEF w
  <2>2. Number!All * (-w) = -(Number!All * w) /\ Number!All * w \in Int
    BY <1>1, <2>1
  <2>3. 0 = (p * a) * (q * b) + Number!All * (-w)
    BY <2>1, <2>2
  <2> QED
    BY <2>3 DEF w
<1> QED
  BY <1>7, <1>8, <1>9 DEF Same, a, b, p, q

LEMMA PartType ==
  ASSUME Powers, NumberFacts, NEW x \in Number!Number, NEW y \in Number!Number, NEW i \in Number!Index,
         NEW k \in 1 .. Words
  PROVE  i + k <= Words => k - 1 \in Number!Index /\ i + (k - 1) \in Number!Index
         /\ Part(x, y, i, k - 1) \in Number!Number
<1> SUFFICES ASSUME i + k <= Words
             PROVE  k - 1 \in Number!Index /\ i + (k - 1) \in Number!Index
                    /\ Part(x, y, i, k - 1) \in Number!Number
  OBVIOUS
<1>1. k - 1 \in Number!Index /\ i + (k - 1) \in Number!Index
  BY DEF NumberFacts, Number!Index
<1> DEFINE j == k - 1
<1> HIDE DEF j
<1>2. j \in Number!Index /\ i + j \in Number!Index
  BY <1>1 DEF j
<1>3. Part(x, y, i, j) \in Number!Number
  BY <1>2, PartIs
<1> QED
  BY <1>1, <1>3 DEF j

LEMMA RowIs ==
  ASSUME Powers, NumberFacts, NEW x \in Number!Number, NEW y \in Number!Number, NEW i \in Number!Index
  PROVE  /\ Row(x, y, i) \in [0 .. Words -> Number!Number] /\ Row(x, y, i)[0] = Number!zero
         /\ \A k \in 1 .. Words :
              Row(x, y, i)[k] = IF i + k > Words THEN Row(x, y, i)[k - 1]
                                ELSE Number!bignum_add(Part(x, y, i, k - 1), Row(x, y, i)[k - 1])
<1> DEFINE g == [k \in 1 .. Words |-> [s \in Number!Number |->
                   IF i + k > Words THEN s ELSE Number!bignum_add(Part(x, y, i, k - 1), s)]]
           r == Row(x, y, i)
<1>1. Words \in Nat /\ Number!Index = 0 .. (Words - 1) /\ Number!zero \in Number!Number
  BY ZeroIs DEF NumberFacts, Number!Index
<1>2. g \in [1 .. Words -> [Number!Number -> Number!Number]]
  <2>1. ASSUME NEW k \in 1 .. Words, NEW s \in Number!Number
        PROVE  (IF i + k > Words THEN s ELSE Number!bignum_add(Part(x, y, i, k - 1), s)) \in Number!Number
    <3>1. CASE i + k > Words
      BY <3>1
    <3>2. CASE ~(i + k > Words)
      <4>1. Part(x, y, i, k - 1) \in Number!Number
        <5>1. i + k <= Words
          BY <1>1, <3>2
        <5> QED
          BY <5>1, PartType
      <4>2. Number!bignum_add(Part(x, y, i, k - 1), s) \in Number!Number
        BY <4>1, AddType
      <4> QED
        BY <3>2, <4>2
    <3> QED
      BY <3>1, <3>2
  <2> QED
    BY <2>1
<1>3. \A k \in 1 .. Words, s \in Number!Number :
        g[k][s] = IF i + k > Words THEN s ELSE Number!bignum_add(Part(x, y, i, k - 1), s)
  OBVIOUS
<1>4. PICK f \in [0 .. Words -> Number!Number] : f[0] = Number!zero
           /\ \A k \in 1 .. Words : f[k] = g[k][f[k - 1]]
  <2> HIDE DEF g
  <2>1. Iterates(Number!Number, Number!zero, Words, g)
    BY <1>1, <1>2, Iterate
  <2> QED
    BY <2>1 DEF Iterates
<1> HIDE DEF g
<1>5. IsRow(f, x, y, i)
  <2>1. ASSUME NEW k \in 0 .. Words
        PROVE  f[k] = IF k = 0 THEN Number!zero
                      ELSE IF i + k > Words THEN f[k - 1]
                      ELSE Number!bignum_add(Part(x, y, i, k - 1), f[k - 1])
    <3>1. CASE k = 0
      BY <1>4, <3>1
    <3>2. CASE k # 0
      <4>1. k \in 1 .. Words /\ k - 1 \in 0 .. Words
        BY <1>1, <3>2
      <4>2. f[k - 1] \in Number!Number
        BY <4>1
      <4>3. f[k] = g[k][f[k - 1]]
        BY <1>4, <4>1
      <4> QED
        BY <1>3, <3>2, <4>1, <4>2, <4>3
    <3> QED
      BY <3>1, <3>2
  <2>2. f = [k \in 0 .. Words |-> f[k]]
    OBVIOUS
  <2> QED
    BY <2>1, <2>2 DEF IsRow
<1>6. IsRow(r, x, y, i)
  BY <1>5 DEF Row
<1> HIDE DEF r
<1>7. r = [k \in 0 .. Words |-> r[k]]
  BY <1>6 DEF IsRow
<1>8. \A k \in 0 .. Words :
        r[k] = IF k = 0 THEN Number!zero
               ELSE IF i + k > Words THEN r[k - 1]
               ELSE Number!bignum_add(Part(x, y, i, k - 1), r[k - 1])
  BY <1>6 DEF IsRow
<1>9. r[0] = Number!zero
  BY <1>1, <1>8
<1>10. \A k \in 1 .. Words : r[k] = IF i + k > Words THEN r[k - 1]
                                    ELSE Number!bignum_add(Part(x, y, i, k - 1), r[k - 1])
  <2> TAKE k \in 1 .. Words
  <2>1. k \in 0 .. Words /\ k # 0
    BY <1>1
  <2> QED
    BY <1>8, <2>1
<1> DEFINE S == {k \in 0 .. Words : r[k] \in Number!Number}
<1>11. 0 \in S
  BY <1>1, <1>9
<1>12. ASSUME NEW k \in 0 .. (Words - 1), k \in S PROVE k + 1 \in S
  <2> DEFINE j == k + 1
  <2>1. j \in 1 .. Words /\ j \in 0 .. Words /\ j - 1 = k
    BY <1>1
  <2>2. r[j - 1] \in Number!Number
    BY <1>12, <2>1
  <2> HIDE DEF j
  <2>3. CASE i + j > Words
    BY <1>10, <2>1, <2>2, <2>3
  <2>4. CASE ~(i + j > Words)
    <3>1. Part(x, y, i, j - 1) \in Number!Number
      <4>1. i + j <= Words
        BY <1>1, <2>1, <2>4
      <4> QED
        BY <2>1, <4>1, PartType
    <3>2. Number!bignum_add(Part(x, y, i, j - 1), r[j - 1]) \in Number!Number
      BY <2>2, <3>1, AddType
    <3> QED
      BY <1>10, <2>1, <2>4, <3>2
  <2> QED
    BY <2>3, <2>4 DEF j
<1>13. \A k \in 0 .. Words : r[k] \in Number!Number
  <2>1. \A k \in 0 .. Words : k \in S
    <3> HIDE DEF S
    <3> QED
      BY <1>1, <1>11, <1>12, UpTo
  <2> QED
    BY <2>1
<1> QED
  BY <1>7, <1>9, <1>10, <1>13 DEF r

LEMMA TotalsIs ==
  ASSUME Powers, NumberFacts, NEW x \in Number!Number, NEW y \in Number!Number
  PROVE  /\ Totals(x, y) \in [0 .. Words -> Number!Number] /\ Totals(x, y)[0] = Number!zero
         /\ \A i \in 1 .. Words :
              Totals(x, y)[i] = Number!bignum_add(Totals(x, y)[i - 1], Row(x, y, i - 1)[Words])
<1> DEFINE g == [i \in 1 .. Words |-> [s \in Number!Number |-> Number!bignum_add(s, Row(x, y, i - 1)[Words])]]
           r == Totals(x, y)
<1>1. Words \in Nat /\ Number!Index = 0 .. (Words - 1) /\ Number!zero \in Number!Number
  BY ZeroIs DEF NumberFacts, Number!Index
<1>2. ASSUME NEW i \in 1 .. Words, NEW s \in Number!Number
      PROVE  Number!bignum_add(s, Row(x, y, i - 1)[Words]) \in Number!Number
  <2> DEFINE j == i - 1
  <2>1. j \in Number!Index /\ Words \in 0 .. Words
    BY <1>1
  <2> HIDE DEF j
  <2>2. Row(x, y, j)[Words] \in Number!Number
    BY <2>1, RowIs
  <2>3. Number!bignum_add(s, Row(x, y, j)[Words]) \in Number!Number
    BY <2>2, AddType
  <2> QED
    BY <2>3 DEF j
<1>3. g \in [1 .. Words -> [Number!Number -> Number!Number]]
  BY <1>2
<1>4. PICK f \in [0 .. Words -> Number!Number] : f[0] = Number!zero
           /\ \A i \in 1 .. Words : f[i] = g[i][f[i - 1]]
  <2> HIDE DEF g
  <2>1. Iterates(Number!Number, Number!zero, Words, g)
    BY <1>1, <1>3, Iterate
  <2> QED
    BY <2>1 DEF Iterates
<1>5. IsTotals(f, x, y)
  <2>1. ASSUME NEW i \in 0 .. Words
        PROVE  f[i] = IF i = 0 THEN Number!zero ELSE Number!bignum_add(f[i - 1], Row(x, y, i - 1)[Words])
    <3>1. CASE i = 0
      BY <1>4, <3>1
    <3>2. CASE i # 0
      <4>1. i \in 1 .. Words /\ i - 1 \in 0 .. Words
        BY <1>1, <3>2
      <4>2. f[i - 1] \in Number!Number
        BY <4>1
      <4>3. f[i] = g[i][f[i - 1]]
        BY <1>4, <4>1
      <4>4. g[i][f[i - 1]] = Number!bignum_add(f[i - 1], Row(x, y, i - 1)[Words])
        BY <4>1, <4>2
      <4> QED
        BY <3>2, <4>3, <4>4
    <3> QED
      BY <3>1, <3>2
  <2>2. f = [i \in 0 .. Words |-> f[i]]
    OBVIOUS
  <2> HIDE DEF g
  <2> QED
    BY <2>1, <2>2 DEF IsTotals
<1> HIDE DEF g
<1>6. IsTotals(r, x, y)
  BY <1>5 DEF Totals
<1> HIDE DEF r
<1>7. r = [i \in 0 .. Words |-> r[i]]
  BY <1>6 DEF IsTotals
<1>8. \A i \in 0 .. Words : r[i] = IF i = 0 THEN Number!zero ELSE Number!bignum_add(r[i - 1], Row(x, y, i - 1)[Words])
  BY <1>6 DEF IsTotals
<1>9. r[0] = Number!zero
  BY <1>1, <1>8
<1>10. \A i \in 1 .. Words : r[i] = Number!bignum_add(r[i - 1], Row(x, y, i - 1)[Words])
  <2> TAKE i \in 1 .. Words
  <2>1. i \in 0 .. Words /\ i # 0
    BY <1>1
  <2> QED
    BY <1>8, <2>1
<1> DEFINE S == {i \in 0 .. Words : r[i] \in Number!Number}
<1>11. 0 \in S
  BY <1>1, <1>9
<1>12. ASSUME NEW i \in 0 .. (Words - 1), i \in S PROVE i + 1 \in S
  <2> DEFINE j == i + 1
  <2>1. j \in 1 .. Words /\ j \in 0 .. Words /\ j - 1 = i
    BY <1>1
  <2>2. r[j - 1] \in Number!Number
    BY <1>12, <2>1
  <2> HIDE DEF j
  <2>3. Number!bignum_add(r[j - 1], Row(x, y, j - 1)[Words]) \in Number!Number
    BY <1>2, <2>1, <2>2
  <2>4. j \in S
    BY <1>10, <2>1, <2>3
  <2> QED
    BY <2>4 DEF j
<1>13. \A i \in 0 .. Words : r[i] \in Number!Number
  <2>1. \A i \in 0 .. Words : i \in S
    <3> HIDE DEF S
    <3> QED
      BY <1>1, <1>11, <1>12, UpTo
  <2> QED
    BY <2>1
<1> QED
  BY <1>7, <1>9, <1>10, <1>13 DEF r

\* What the first k words of y stand for.
Prefix(y, k) == Number!Val(y) - Number!Base^k * Suffix(y)[k]

LEMMA PrefixIs ==
  ASSUME Powers, NumberFacts, NEW y \in Number!Number
  PROVE  /\ Prefix(y, 0) = 0 /\ Prefix(y, Words) = Number!Val(y)
         /\ \A k \in 0 .. Words : Prefix(y, k) \in Int
         /\ \A k \in Number!Index : Prefix(y, k + 1) = Prefix(y, k) + Number!Base^k * y[k]
<1> DEFINE s == Suffix(y)
           v == Number!Val(y)
<1>1. Words \in Nat /\ Number!Base \in Nat \ {0} /\ Number!Index = 0 .. (Words - 1)
      /\ Number!MaxVal = Number!Base - 1
  BY DEF NumberFacts, Number!Index
<1>2. /\ s \in [0 .. Words -> Nat] /\ v = s[0] /\ s[Words] = 0
      /\ \A i \in Number!Index : s[i] = y[i] + Number!Base * s[i + 1]
  <2>1. y \in WideNumber
    BY ValRange
  <2> QED
    BY <2>1, SuffixIs
<1> HIDE DEF s, v
<1>3. v \in Int
  BY <1>1, <1>2
<1>4. ASSUME NEW k \in 0 .. Words
      PROVE  Number!Base^k \in Nat /\ Number!Base^k * s[k] \in Int /\ s[k] \in Nat
  <2>1. Number!Base^k \in Nat
    BY <1>1 DEF Powers
  <2>2. s[k] \in Nat
    BY <1>2
  <2> QED
    BY <2>1, <2>2
<1>5. v - Number!Base^0 * s[0] = 0
  <2>1. Number!Base^0 = 1 /\ 1 * s[0] = s[0]
    BY <1>1, <1>2, <1>3 DEF Powers
  <2> QED
    BY <1>2, <1>3, <2>1
<1>6. v - Number!Base^Words * s[Words] = v
  <2>1. Number!Base^Words * 0 = 0
    BY <1>1, <1>4
  <2> QED
    BY <1>2, <1>3, <2>1
<1>7. ASSUME NEW k \in 0 .. Words PROVE v - Number!Base^k * s[k] \in Int
  BY <1>3, <1>4
<1>8. ASSUME NEW k \in Number!Index
      PROVE  v - Number!Base^(k + 1) * s[k + 1] = (v - Number!Base^k * s[k]) + Number!Base^k * y[k]
  <2> DEFINE b == Number!Base^k
             t == s[k + 1]
             w == y[k]
  <2>1. k \in Nat /\ k \in 0 .. Words /\ k + 1 \in 0 .. Words
    BY <1>1
  <2>2. Number!Base^(k + 1) = b * Number!Base
    <3>1. Number!Base^(k + 1) = b * Number!Base^1 /\ Number!Base^1 = Number!Base
      BY <1>1, <2>1, SMTT(30) DEF Powers
    <3> QED
      BY <3>1
  <2>3. b \in Nat /\ t \in Nat /\ w \in Nat
    <3>1. w \in 0 .. Number!MaxVal
      BY DEF Number!Number
    <3> QED
      BY <1>1, <1>4, <2>1, <3>1
  <2>4. s[k] = w + Number!Base * t
    BY <1>2
  <2> HIDE DEF b, t, w
  <2>5. b * (w + Number!Base * t) = b * w + (b * Number!Base) * t /\ b * w \in Int
        /\ (b * Number!Base) * t \in Int
    BY <1>1, <2>3
  <2>6. v - (b * Number!Base) * t = (v - b * (w + Number!Base * t)) + b * w
    BY <1>3, <2>5
  <2> QED
    BY <2>2, <2>4, <2>6 DEF b, t, w
<1> QED
  BY <1>5, <1>6, <1>7, <1>8 DEF Prefix, s, v

-----------------------------------------------------------------------------
\* What the first k parts of a row add up to.
RowMeans(x, y, i, k) == Same(Number!Val(Row(x, y, i)[k]), (Number!Base^i * x[i]) * Prefix(y, k))

LEMMA RowStep ==
  ASSUME Powers, NumberFacts, NEW x \in Number!Number, NEW y \in Number!Number, NothingLost(x, y),
         NEW i \in Number!Index, NEW k \in Number!Index, RowMeans(x, y, i, k)
  PROVE  RowMeans(x, y, i, k + 1)
<1> DEFINE r == Row(x, y, i)[k]
           t == Row(x, y, i)[k + 1]
           w == Number!Base^i * x[i]
           m == Number!Base^k * y[k]
           a == Prefix(y, k)
           b == Prefix(y, k + 1)
<1>1. Words \in Nat /\ Number!Index = 0 .. (Words - 1) /\ Number!Base \in Nat \ {0}
      /\ Number!MaxVal = Number!Base - 1
  BY DEF NumberFacts, Number!Index
<1>2. k \in 0 .. Words /\ k + 1 \in 1 .. Words /\ (k + 1) - 1 = k /\ k \in Nat /\ i \in Nat
  BY <1>1
<1>3. r \in Number!Number /\ t = IF i + (k + 1) > Words THEN r ELSE Number!bignum_add(Part(x, y, i, k), r)
  <2> DEFINE j == k + 1
  <2>1. j \in 1 .. Words /\ j - 1 = k
    BY <1>2
  <2> HIDE DEF j
  <2>2. Row(x, y, i)[j] = IF i + j > Words THEN Row(x, y, i)[j - 1]
                          ELSE Number!bignum_add(Part(x, y, i, j - 1), Row(x, y, i)[j - 1])
    BY <2>1, RowIs
  <2>3. r \in Number!Number
    <3>1. Row(x, y, i) \in [0 .. Words -> Number!Number]
      BY RowIs
    <3> QED
      BY <1>2, <3>1
  <2> QED
    BY <2>1, <2>2, <2>3 DEF j
<1>4. a \in Int /\ b = a + m /\ b \in Int
  <2>1. k + 1 \in 0 .. Words
    BY <1>2
  <2> QED
    BY <1>2, <2>1, PrefixIs
<1>5. w \in Int /\ m \in Int
  <2>1. Number!Base^i \in Nat /\ Number!Base^k \in Nat
    BY <1>1, <1>2 DEF Powers
  <2>2. x[i] \in 0 .. Number!MaxVal /\ y[k] \in 0 .. Number!MaxVal
    BY DEF Number!Number
  <2> DEFINE e == x[i]
             f == y[k]
             g == Number!Base^i
             h == Number!Base^k
  <2>3. e \in Int /\ f \in Int /\ g \in Int /\ h \in Int
    BY <1>1, <2>1, <2>2
  <2> HIDE DEF e, f, g, h
  <2>4. g * e \in Int /\ h * f \in Int
    BY <2>3
  <2> QED
    BY <2>4 DEF e, f, g, h
<1>6. Same(Number!Val(r), w * a)
  BY DEF RowMeans
<1>7. Same(Number!Val(t), w * m + w * a)
  <2>1. CASE i + k \in Number!Index
    <3>1. ~(i + (k + 1) > Words) /\ k \in 0 .. (Words - i - 1)
      BY <1>1, <1>2, <2>1
    <3>2. t = Number!bignum_add(Part(x, y, i, k), r)
      BY <1>3, <3>1
    <3>3. ~Number!LosesCarry(Part(x, y, i, k), r)
      BY <3>1 DEF NothingLost
    <3>4. Part(x, y, i, k) \in Number!Number /\ Same(Number!Val(Part(x, y, i, k)), w * m)
      BY <2>1, PartIs
    <3> HIDE DEF r, t, w, m, a
    <3>5. Number!Val(t) = Number!Val(Part(x, y, i, k)) + Number!Val(r)
      BY <1>3, <3>2, <3>3, <3>4, AddIs
    <3>6. Same(Number!Val(Part(x, y, i, k)) + Number!Val(r), w * m + w * a)
      BY <1>6, <3>4, SameIs
    <3> QED
      BY <3>5, <3>6
  <2>2. CASE i + k \notin Number!Index
    <3>1. i + (k + 1) > Words
      BY <1>1, <1>2, <2>2
    <3>2. t = r
      BY <1>3, <3>1
    <3>3. Same(0, w * m)
      BY <2>2, PartBeyond
    <3> HIDE DEF r, t, w, m, a
    <3>4. Same(0 + Number!Val(r), w * m + w * a)
      BY <1>6, <3>3, SameIs
    <3>5. 0 + Number!Val(r) = Number!Val(r)
      BY <1>6 DEF Same
    <3> QED
      BY <3>2, <3>4, <3>5
  <2> QED
    BY <2>1, <2>2
<1>8. w * m + w * a = w * b
  <2> HIDE DEF r, t, w, m, a, b
  <2> QED
    BY <1>4, <1>5
<1>9. Same(Number!Val(t), w * b)
  BY <1>7, <1>8
<1> QED
  BY <1>9 DEF RowMeans

LEMMA RowMeansIs ==
  ASSUME Powers, NumberFacts, NEW x \in Number!Number, NEW y \in Number!Number, NothingLost(x, y),
         NEW i \in Number!Index
  PROVE  Same(Number!Val(Row(x, y, i)[Words]), (Number!Base^i * x[i]) * Number!Val(y))
<1> DEFINE S == {k \in 0 .. Words : RowMeans(x, y, i, k)}
           w == Number!Base^i * x[i]
<1>1. Words \in Nat /\ Number!Index = 0 .. (Words - 1) /\ Number!Base \in Nat \ {0}
      /\ Number!MaxVal = Number!Base - 1
  BY DEF NumberFacts, Number!Index
<1>2. w \in Int
  <2> DEFINE g == Number!Base^i
             e == x[i]
  <2>1. g \in Int /\ e \in Int
    <3>1. g \in Nat /\ e \in 0 .. Number!MaxVal
      BY <1>1 DEF Powers, Number!Number
    <3> QED
      BY <1>1, <3>1
  <2> HIDE DEF g, e
  <2>2. g * e \in Int
    BY <2>1
  <2> QED
    BY <2>2 DEF g, e
<1>3. 0 \in S
  <2>1. Row(x, y, i)[0] = Number!zero /\ Number!Val(Number!zero) = 0 /\ Prefix(y, 0) = 0
    BY RowIs, ZeroIs, PrefixIs
  <2>2. w * 0 = 0 /\ 0 \in Int
    BY <1>2
  <2>3. Same(0, 0)
    BY <2>2, SameIs
  <2>4. Same(Number!Val(Row(x, y, i)[0]), w * Prefix(y, 0))
    BY <2>1, <2>2, <2>3
  <2>5. 0 \in 0 .. Words
    BY <1>1
  <2> QED
    BY <2>4, <2>5 DEF RowMeans
<1>4. ASSUME NEW k \in 0 .. (Words - 1), k \in S PROVE k + 1 \in S
  <2>1. k \in Number!Index /\ k + 1 \in 0 .. Words /\ RowMeans(x, y, i, k)
    BY <1>1, <1>4
  <2>2. RowMeans(x, y, i, k + 1)
    BY <2>1, RowStep
  <2> QED
    BY <2>1, <2>2
<1>5. RowMeans(x, y, i, Words)
  <2>1. \A k \in 0 .. Words : k \in S
    <3> HIDE DEF S
    <3> QED
      BY <1>1, <1>3, <1>4, UpTo
  <2>2. Words \in 0 .. Words
    BY <1>1
  <2> QED
    BY <2>1, <2>2
<1>6. Prefix(y, Words) = Number!Val(y)
  BY PrefixIs
<1> QED
  BY <1>5, <1>6 DEF RowMeans

\* What the first rows add up to.
TotalMeans(x, y, i) == Same(Number!Val(Totals(x, y)[i]), Prefix(x, i) * Number!Val(y))

LEMMA TotalStep ==
  ASSUME Powers, NumberFacts, NEW x \in Number!Number, NEW y \in Number!Number, NothingLost(x, y),
         NEW i \in Number!Index, TotalMeans(x, y, i)
  PROVE  TotalMeans(x, y, i + 1)
<1> DEFINE r == Row(x, y, i)[Words]
           s == Totals(x, y)[i]
           t == Totals(x, y)[i + 1]
           w == Number!Base^i * x[i]
           a == Prefix(x, i)
           b == Prefix(x, i + 1)
           v == Number!Val(y)
<1>1. Words \in Nat /\ Number!Index = 0 .. (Words - 1) /\ Number!All \in Nat
  BY DEF NumberFacts, Number!Index
<1>2. i \in 0 .. Words /\ i + 1 \in 1 .. Words /\ i + 1 \in 0 .. Words /\ (i + 1) - 1 = i
      /\ Words \in 0 .. Words
  BY <1>1
<1>3. s \in Number!Number /\ r \in Number!Number /\ t = Number!bignum_add(s, r)
  <2> DEFINE j == i + 1
  <2>1. j \in 1 .. Words /\ j - 1 = i
    BY <1>2
  <2> HIDE DEF j
  <2>2. Totals(x, y)[j] = Number!bignum_add(Totals(x, y)[j - 1], Row(x, y, j - 1)[Words])
    BY <2>1, TotalsIs
  <2>3. s \in Number!Number /\ r \in Number!Number
    <3>1. Row(x, y, i) \in [0 .. Words -> Number!Number]
      BY RowIs
    <3>2. Totals(x, y) \in [0 .. Words -> Number!Number]
      BY TotalsIs
    <3> QED
      BY <1>2, <3>1, <3>2
  <2> QED
    BY <2>1, <2>2, <2>3 DEF j
<1>4. a \in Int /\ b = a + w /\ b \in Int
  BY <1>2, PrefixIs
<1>5. v \in Int
  BY <1>1, ValRange
<1>6. ~Number!LosesCarry(s, r)
  BY DEF NothingLost
<1>7. Same(Number!Val(r), w * v)
  BY RowMeansIs
<1>8. Same(Number!Val(s), a * v)
  BY DEF TotalMeans
<1>10. w \in Int
  <2> DEFINE g == Number!Base^i
             e == x[i]
  <2>1. g \in Int /\ e \in Int
    <3>1. g \in Nat /\ e \in 0 .. Number!MaxVal /\ Number!MaxVal \in Int
      BY <1>1 DEF Powers, Number!Number, NumberFacts
    <3> QED
      BY <3>1
  <2> HIDE DEF g, e
  <2>2. g * e \in Int
    BY <2>1
  <2> QED
    BY <2>2 DEF g, e
<1> HIDE DEF r, s, t, w, a, b, v
<1>11. Number!Val(t) = Number!Val(s) + Number!Val(r)
  BY <1>3, <1>6, AddIs
<1>12. Same(Number!Val(s) + Number!Val(r), a * v + w * v)
  BY <1>7, <1>8, SameIs
<1>13. a * v + w * v = b * v
  BY <1>4, <1>5, <1>10
<1>14. Same(Number!Val(t), b * v)
  BY <1>11, <1>12, <1>13
<1> QED
  BY <1>14 DEF TotalMeans, t, b, v

\* bignum_mul, as long as no word of its sums loses a carry.
LEMMA MulExact ==
  ASSUME Powers, NumberFacts, NEW x \in Number!Number, NEW y \in Number!Number,
         ~Number!bignum_mul(x, y).lost
  PROVE  /\ Number!bignum_mul(x, y).product \in Number!Number
         /\ Number!Val(Number!bignum_mul(x, y).product) = (Number!Val(x) * Number!Val(y)) % Number!All
<1> DEFINE S == {i \in 0 .. Words : TotalMeans(x, y, i)}
           z == Number!bignum_mul(x, y).product
<1>1. Words \in Nat /\ Number!Index = 0 .. (Words - 1) /\ Number!All \in Nat
  BY DEF NumberFacts, Number!Index
<1>2. NothingLost(x, y) /\ z = Totals(x, y)[Words]
  BY MulIs
<1>3. 0 \in S
  <2> DEFINE v == Number!Val(y)
  <2>1. Totals(x, y)[0] = Number!zero /\ Number!Val(Number!zero) = 0 /\ Prefix(x, 0) = 0 /\ v \in Int
    BY <1>1, TotalsIs, ZeroIs, PrefixIs, ValRange
  <2> HIDE DEF v
  <2>2. 0 * v = 0 /\ 0 \in Int
    BY <2>1
  <2>3. Same(0, 0)
    BY <2>2, SameIs
  <2>4. Same(Number!Val(Totals(x, y)[0]), Prefix(x, 0) * v)
    BY <2>1, <2>2, <2>3
  <2>5. 0 \in 0 .. Words
    BY <1>1
  <2> QED
    BY <2>4, <2>5 DEF TotalMeans, v
<1>4. ASSUME NEW i \in 0 .. (Words - 1), i \in S PROVE i + 1 \in S
  <2>1. i \in Number!Index /\ i + 1 \in 0 .. Words /\ TotalMeans(x, y, i)
    BY <1>1, <1>4
  <2>2. TotalMeans(x, y, i + 1)
    BY <1>2, <2>1, TotalStep
  <2> QED
    BY <2>1, <2>2
<1>5. TotalMeans(x, y, Words) /\ Words \in 0 .. Words
  <2>1. \A i \in 0 .. Words : i \in S
    <3> HIDE DEF S
    <3> QED
      BY <1>1, <1>3, <1>4, UpTo
  <2>2. Words \in 0 .. Words
    BY <1>1
  <2> QED
    BY <2>1, <2>2
<1> HIDE DEF z
<1>6. z \in Number!Number
  BY <1>2, <1>5, TotalsIs
<1>7. Same(Number!Val(z), Number!Val(x) * Number!Val(y))
  BY <1>2, <1>5, PrefixIs DEF TotalMeans
<1>8. Number!Val(z) \in 0 .. (Number!All - 1)
  BY <1>6, ValRange
<1>9. Number!Val(z) = (Number!Val(x) * Number!Val(y)) % Number!All
  BY <1>7, <1>8, SameIs
<1> QED
  BY <1>6, <1>9 DEF z

-----------------------------------------------------------------------------
(* The bit that bignum_div moves through current *)

\* x is bit r of word w and nothing else.
SingleBit(x, w, r) ==
  /\ w \in Number!Index /\ r \in 0 .. (Bits - 1)
  /\ x = [i \in Number!Index |-> IF i = w THEN 2^r ELSE 0]

\* The powers of two below a word.
LEMMA BitIs ==
  ASSUME Powers, NumberFacts, NEW r \in 0 .. (Bits - 1)
  PROVE  /\ 2^r \in Nat \ {0} /\ 2^(Bits - 1) \in Nat \ {0} /\ Number!Base = 2 * 2^(Bits - 1)
         /\ 2^0 = 1 /\ 2^1 = 2
         /\ 2^r <= 2^(Bits - 1) /\ 2^(r + 1) = 2 * 2^r
         /\ r < Bits - 1 => 2 * 2^r <= 2^(Bits - 1)
         /\ r > 0 => 2^(r - 1) \in Nat \ {0} /\ 2^r = 2 * 2^(r - 1)
         /\ \E q \in Nat \ {0} : Number!Base = 2^(r + 1) * q
<1>1. Bits \in Nat \ {0} /\ 2 \in Nat \ {0} /\ 1 \in Nat /\ r \in Nat
  BY DEF NumberFacts
<1>2. 2^0 = 1 /\ 2^1 = 2
  BY <1>1 DEF Powers
<1>3. \A k \in Nat : 2^k \in Nat \ {0}
  BY <1>1 DEF Powers
<1>4. \A j, k \in Nat : 2^(j + k) = 2^j * 2^k
  BY <1>1 DEF Powers
<1>5. \A k \in Nat : 2^(k + 1) = 2 * 2^k
  <2> TAKE k \in Nat
  <2>1. 2^(k + 1) = 2^k * 2^1 /\ 2^k \in Nat
    BY <1>1, <1>3, <1>4
  <2> QED
    BY <1>2, <2>1
<1>6. 2^(Bits - 1) \in Nat \ {0} /\ Number!Base = 2 * 2^(Bits - 1)
  <2>1. Bits - 1 \in Nat /\ (Bits - 1) + 1 = Bits
    BY <1>1
  <2>2. 2^((Bits - 1) + 1) = 2 * 2^(Bits - 1)
    BY <1>5, <2>1
  <2> QED
    BY <1>3, <2>1, <2>2 DEF Number!Base
<1>7. 2^r <= 2^(Bits - 1)
  <2> DEFINE e == (Bits - 1) - r
  <2>1. e \in Nat /\ r + e = Bits - 1
    BY <1>1
  <2> HIDE DEF e
  <2>2. 2^(r + e) = 2^r * 2^e /\ 2^e \in Nat \ {0} /\ 2^r \in Nat \ {0}
    BY <1>1, <1>3, <1>4, <2>1
  <2>3. 2^r * 2^e >= 2^r
    BY <2>2
  <2> QED
    BY <2>1, <2>2, <2>3
<1>8. ASSUME r < Bits - 1 PROVE 2 * 2^r <= 2^(Bits - 1)
  <2> DEFINE e == (Bits - 1) - (r + 1)
  <2>1. e \in Nat /\ (r + 1) + e = Bits - 1 /\ r + 1 \in Nat
    BY <1>1, <1>8
  <2> HIDE DEF e
  <2>2. 2^((r + 1) + e) = 2^(r + 1) * 2^e /\ 2^e \in Nat \ {0} /\ 2^(r + 1) \in Nat \ {0}
    BY <1>3, <1>4, <2>1
  <2>3. 2^(r + 1) * 2^e >= 2^(r + 1)
    BY <2>2
  <2>4. 2^(r + 1) = 2 * 2^r
    BY <1>1, <1>5
  <2> QED
    BY <2>1, <2>2, <2>3, <2>4
<1>9. ASSUME r > 0 PROVE 2^(r - 1) \in Nat \ {0} /\ 2^r = 2 * 2^(r - 1)
  <2>1. r - 1 \in Nat /\ (r - 1) + 1 = r
    BY <1>1, <1>9
  <2>2. 2^((r - 1) + 1) = 2 * 2^(r - 1)
    BY <1>5, <2>1
  <2> QED
    BY <1>3, <2>1, <2>2
<1>10. \E q \in Nat \ {0} : Number!Base = 2^(r + 1) * q
  <2> DEFINE e == Bits - (r + 1)
  <2>1. e \in Nat /\ (r + 1) + e = Bits /\ r + 1 \in Nat
    BY <1>1
  <2> HIDE DEF e
  <2>2. 2^((r + 1) + e) = 2^(r + 1) * 2^e /\ 2^e \in Nat \ {0}
    BY <1>3, <1>4, <2>1
  <2> QED
    BY <2>1, <2>2 DEF Number!Base
<1>11. 2^r \in Nat \ {0} /\ 2^(r + 1) = 2 * 2^r
  BY <1>1, <1>3, <1>5
<1> QED
  BY <1>2, <1>6, <1>7, <1>8, <1>9, <1>10, <1>11

LEMMA BitType ==
  ASSUME Powers, NumberFacts, NEW x, NEW w, NEW r, SingleBit(x, w, r)
  PROVE  x \in Number!Number
<1>1. r \in 0 .. (Bits - 1) /\ w \in Number!Index /\ x = [i \in Number!Index |-> IF i = w THEN 2^r ELSE 0]
  BY DEF SingleBit
<1>2. 2^r \in 0 .. Number!MaxVal /\ 0 \in 0 .. Number!MaxVal
  <2>1. 2^r \in Nat \ {0} /\ 2^(Bits - 1) \in Nat \ {0} /\ Number!Base = 2 * 2^(Bits - 1)
        /\ 2^r <= 2^(Bits - 1)
    BY <1>1, BitIs
  <2>2. Number!MaxVal = Number!Base - 1
    BY DEF NumberFacts
  <2> QED
    BY <2>1, <2>2
<1> QED
  BY <1>1, <1>2 DEF Number!Number

LEMMA OneIsBit ==
  ASSUME Powers, NumberFacts
  PROVE  SingleBit(Number!bignum_from_int(1), 0, 0) /\ Number!Val(Number!bignum_from_int(1)) = 1
<1>1. Number!Base \in Nat /\ Number!Base >= 2 /\ Words >= 2 /\ Number!Index = 0 .. (Words - 1)
      /\ Words \in Nat
      /\ Bits \in Nat \ {0}
  BY DEF NumberFacts, Number!Index
<1>2. 1 % Number!Base = 1
  <2>1. 1 \in 0 .. (2 * Number!Base - 1) /\ 1 < Number!Base
    BY <1>1
  <2> QED
    BY <2>1, WordIs
<1>3. 1 \div Number!Base = 0
  <2>1. 1 \in Int /\ Number!Base \in Nat \ {0} /\ 0 \in Int /\ Number!Base * 0 <= 1
        /\ 1 < Number!Base * (0 + 1)
    BY <1>1
  <2> QED
    BY <2>1, QuotientIs
<1>4. 0 % Number!Base = 0
  <2>1. 0 \in 0 .. (2 * Number!Base - 1) /\ 0 < Number!Base
    BY <1>1
  <2> QED
    BY <2>1, WordIs
<1>5. 2^0 = 1 /\ 0 \in 0 .. (Bits - 1) /\ 0 \in Number!Index
  <2>1. 0 \in 0 .. (Bits - 1) /\ 0 \in Number!Index
    BY <1>1
  <2> QED
    BY <2>1, BitIs
<1>6. Number!bignum_from_int(1) = [i \in Number!Index |-> IF i = 0 THEN 1 ELSE 0]
  <2>1. Number!bignum_from_int(1) = [[Number!zero EXCEPT ![0] = 1] EXCEPT ![1] = 0]
    BY <1>2, <1>3, <1>4 DEF Number!bignum_from_int
  <2> QED
    BY <1>1, <2>1 DEF Number!zero
<1>7. Number!Val(Number!bignum_from_int(1)) = 1
  <2>1. 1 \in Nat /\ 1 < Number!Base * Number!Base
    <3>1. Number!Base * Number!Base >= Number!Base * 1
      BY <1>1
    <3> QED
      BY <1>1, <3>1
  <2> QED
    BY <2>1, FromIntIs
<1> QED
  BY <1>5, <1>6, <1>7 DEF SingleBit

\* Doubling moves the bit, unless it is the highest.
LEMMA LeftBit ==
  ASSUME Powers, NumberFacts, NEW x, NEW w, NEW r, SingleBit(x, w, r)
  PROVE  \/ w = Number!Top /\ r = Bits - 1 /\ x[Number!Top] \div 2^(Bits - 1) = 1
         \/ /\ x[Number!Top] \div 2^(Bits - 1) = 0
            /\ \E v, s : SingleBit(Number!lshift_bits(x, 1), v, s)
<1> DEFINE z == Number!lshift_bits(x, 1)
           q == 2^(Bits - 1)
           b == 2^r
<1>1. /\ r \in 0 .. (Bits - 1) /\ w \in Number!Index
      /\ x = [i \in Number!Index |-> IF i = w THEN b ELSE 0]
  BY DEF SingleBit
<1>2. /\ Words \in Nat /\ Words >= 2 /\ Number!Base \in Nat \ {0} /\ Number!Index = 0 .. (Words - 1)
      /\ Number!Top = Words - 1
      /\ Bits \in Nat \ {0}
  BY DEF NumberFacts, Number!Index
<1>3. /\ b \in Nat \ {0} /\ q \in Nat \ {0} /\ Number!Base = 2 * q /\ 2^0 = 1 /\ 2^1 = 2
      /\ b <= q /\ 2^(r + 1) = 2 * b /\ (r < Bits - 1 => 2 * b <= q)
  BY <1>1, BitIs
<1>4. z = [i \in Number!Index |-> (x[i] * 2 + (IF i = 0 THEN 0 ELSE x[i - 1] \div q)) % Number!Base]
  BY <1>3 DEF Number!lshift_bits
<1> HIDE DEF z
<1>5. 0 \div q = 0 /\ (r < Bits - 1 => b \div q = 0) /\ q \div q = 1
  <2> HIDE DEF q, b
  <2>1. 0 \div q = 0
    <3>1. q * 0 <= 0 /\ 0 < q * (0 + 1) /\ 0 \in Int
      BY <1>3
    <3> QED
      BY <1>3, <3>1, QuotientIs
  <2>2. r < Bits - 1 => b \div q = 0
    <3> HAVE r < Bits - 1
    <3>1. q * 0 <= b /\ b < q * (0 + 1) /\ 0 \in Int /\ b \in Int
      BY <1>3
    <3> QED
      BY <1>3, <3>1, QuotientIs
  <2>3. q \div q = 1
    <3>1. q * 1 <= q /\ q < q * (1 + 1) /\ 1 \in Int /\ q \in Int
      BY <1>3
    <3> QED
      BY <1>3, <3>1, QuotientIs
  <2> QED
    BY <2>1, <2>2, <2>3
<1>6. 0 % Number!Base = 0 /\ 1 % Number!Base = 1
  <2>1. 0 \in 0 .. (2 * Number!Base - 1) /\ 0 < Number!Base /\ 1 \in 0 .. (2 * Number!Base - 1)
        /\ 1 < Number!Base
    <3>1. Number!Base >= 2
      BY DEF NumberFacts
    <3> QED
      BY <1>2, <3>1
  <2> QED
    BY <2>1, WordIs
<1> HIDE DEF q, b
<1>7. CASE r < Bits - 1
  <2>1. (2 * b) % Number!Base = 2 * b
    <3> DEFINE u == 2 * b
    <3>1. u \in 0 .. (2 * Number!Base - 1) /\ u < Number!Base
      BY <1>3, <1>7
    <3> HIDE DEF u
    <3>2. u % Number!Base = u
      BY <3>1, WordIs
    <3> QED
      BY <3>2 DEF u
  <2>2. ASSUME NEW i \in Number!Index PROVE z[i] = IF i = w THEN 2 * b ELSE 0
    <3>1. (IF i = 0 THEN 0 ELSE x[i - 1] \div q) = 0
      <4>1. i # 0 => i - 1 \in Number!Index
        BY <1>2
      <4> QED
        BY <1>1, <1>5, <1>7, <4>1
    <3>2. x[i] * 2 + 0 = IF i = w THEN 2 * b ELSE 0
      BY <1>1, <1>3
    <3>3. z[i] = (x[i] * 2 + 0) % Number!Base
      BY <1>4, <3>1
    <3> QED
      BY <1>6, <2>1, <3>2, <3>3
  <2>3. z = [i \in Number!Index |-> IF i = w THEN 2^(r + 1) ELSE 0]
    BY <1>3, <1>4, <2>2
  <2>4. r + 1 \in 0 .. (Bits - 1)
    BY <1>1, <1>2, <1>7
  <2>5. SingleBit(z, w, r + 1)
    BY <1>1, <2>3, <2>4 DEF SingleBit
  <2>6. x[Number!Top] \div q = 0
    <3>1. x[Number!Top] \in {0, b}
      BY <1>1 DEF NumberFacts
    <3> QED
      BY <1>5, <1>7, <3>1
  <2> QED
    BY <2>5, <2>6 DEF z, q
<1>8. CASE r = Bits - 1
  <2>0. b = q
    BY <1>8 DEF b, q
  <2>1. Number!Base % Number!Base = 0
    <3>1. Number!Base \in 0 .. (2 * Number!Base - 1) /\ ~(Number!Base < Number!Base)
          /\ Number!Base - Number!Base = 0
      BY <1>2
    <3> QED
      BY <3>1, WordIs
  <2>2. CASE w = Number!Top
    <3>1. x[Number!Top] = b
      BY <1>1, <2>2
    <3> QED
      BY <1>5, <1>8, <2>0, <2>2, <3>1 DEF q
  <2>3. CASE w # Number!Top
    <3>0. w + 1 \in Number!Index /\ 0 \in 0 .. (Bits - 1)
      BY <1>1, <1>2, <2>3
    <3>1. ASSUME NEW i \in Number!Index PROVE z[i] = IF i = w + 1 THEN 1 ELSE 0
      <4>1. (IF i = 0 THEN 0 ELSE x[i - 1] \div q) = IF i = w + 1 THEN 1 ELSE 0
        <5>1. i # 0 => i - 1 \in Number!Index
          BY <1>2
        <5>2. i - 1 = w <=> i = w + 1
          BY <1>1, <1>2
        <5>3. i = w + 1 => i # 0
          BY <1>1, <1>2
        <5> QED
          BY <1>1, <1>5, <2>0, <5>1, <5>2, <5>3
      <4>2. x[i] * 2 = IF i = w THEN Number!Base ELSE 0
        BY <1>1, <1>3, <2>0
      <4>3. z[i] = (x[i] * 2 + (IF i = 0 THEN 0 ELSE x[i - 1] \div q)) % Number!Base
        BY <1>4
      <4>4. x[i] * 2 + (IF i = 0 THEN 0 ELSE x[i - 1] \div q)
              = IF i = w THEN Number!Base ELSE IF i = w + 1 THEN 1 ELSE 0
        <5>1. i = w => i # w + 1
          BY <1>1, <1>2
        <5> QED
          BY <1>2, <4>1, <4>2, <5>1
      <4>5. i = w => i # w + 1
        BY <1>1, <1>2
      <4> QED
        BY <1>6, <2>1, <4>3, <4>4, <4>5
    <3>2. z = [i \in Number!Index |-> IF i = w + 1 THEN 2^0 ELSE 0]
      BY <1>3, <1>4, <3>1
    <3>3. SingleBit(z, w + 1, 0)
      BY <3>0, <3>2 DEF SingleBit
    <3>4. x[Number!Top] = 0
      BY <1>1, <2>3 DEF NumberFacts
    <3>5. x[Number!Top] \div q = 0
      BY <1>5, <3>4
    <3> QED
      BY <3>3, <3>5 DEF z, q
  <2> QED
    BY <2>2, <2>3
<1> QED
  BY <1>1, <1>2, <1>7, <1>8

\* Halving moves the bit back; from the lowest place it falls out.
LEMMA RightBit ==
  ASSUME Powers, NumberFacts, NEW x, NEW w, NEW r, SingleBit(x, w, r)
  PROVE  /\ r > 0 => SingleBit(Number!rshift_bits(x, 1), w, r - 1)
         /\ r = 0 /\ w > 0 => SingleBit(Number!rshift_bits(x, 1), w - 1, Bits - 1)
         /\ r = 0 /\ w = 0 => Number!rshift_bits(x, 1) = Number!zero
<1> DEFINE z == Number!rshift_bits(x, 1)
           q == 2^(Bits - 1)
           b == 2^r
<1>1. /\ r \in 0 .. (Bits - 1) /\ w \in Number!Index
      /\ x = [i \in Number!Index |-> IF i = w THEN b ELSE 0]
  BY DEF SingleBit
<1>2. /\ Words \in Nat /\ Words >= 2 /\ Number!Base \in Nat \ {0} /\ Number!Index = 0 .. (Words - 1)
      /\ Number!Top = Words - 1
      /\ Bits \in Nat \ {0}
  BY DEF NumberFacts, Number!Index
<1>3. /\ b \in Nat \ {0} /\ q \in Nat \ {0} /\ Number!Base = 2 * q /\ 2^0 = 1 /\ 2^1 = 2
      /\ b <= q
      /\ r > 0 => 2^(r - 1) \in Nat \ {0} /\ b = 2 * 2^(r - 1)
  BY <1>1, BitIs
<1>4. z = [i \in Number!Index |-> x[i] \div 2 + (IF i = Number!Top THEN 0 ELSE (x[i + 1] * q) % Number!Base)]
  BY <1>3 DEF Number!rshift_bits
<1> HIDE DEF z
<1>5. 0 % Number!Base = 0 /\ 0 * q = 0 /\ 0 \div 2 = 0
  <2>1. 0 \in 0 .. (2 * Number!Base - 1) /\ 0 < Number!Base
    BY <1>2
  <2>2. 0 % Number!Base = 0
    BY <2>1, WordIs
  <2>3. 0 * q = 0
    BY <1>3
  <2> QED
    BY <2>2, <2>3
<1>6. \A i \in Number!Index : i # Number!Top => i + 1 \in Number!Index
  BY <1>2
<1>7. CASE r > 0
  <2> DEFINE h == 2^(r - 1)
  <2>1. h \in Nat \ {0} /\ b = 2 * h
    BY <1>3, <1>7
  <2> HIDE DEF b, q, h
  <2>2. b \div 2 = h
    BY <2>1
  <2>3. (b * q) % Number!Base = 0
    <3> DEFINE u == b * q
    <3> DEFINE v == 0
    <3>1. u = Number!Base * h
      BY <1>3, <2>1
    <3>2. u \in Int /\ v = u - Number!Base * h /\ v \in 0 .. (Number!Base - 1) /\ h \in Int
          /\ Number!Base \in Nat \ {0}
      BY <1>2, <1>3, <2>1, <3>1
    <3> HIDE DEF u, v
    <3>3. v = u % Number!Base
      BY <3>2, Residue
    <3>4. v = 0
      BY DEF v
    <3> QED
      BY <3>3, <3>4 DEF u
  <2>4. ASSUME NEW i \in Number!Index PROVE z[i] = IF i = w THEN h ELSE 0
    <3>1. (IF i = Number!Top THEN 0 ELSE (x[i + 1] * q) % Number!Base) = 0
      BY <1>1, <1>5, <1>6, <2>3
    <3>2. x[i] \div 2 = IF i = w THEN h ELSE 0
      BY <1>1, <1>5, <2>2
    <3>3. z[i] = x[i] \div 2 + (IF i = Number!Top THEN 0 ELSE (x[i + 1] * q) % Number!Base)
      BY <1>4
    <3>4. h + 0 = h /\ 0 + 0 = 0
      BY <2>1
    <3> QED
      BY <3>1, <3>2, <3>3, <3>4
  <2>5. z = [i \in Number!Index |-> IF i = w THEN h ELSE 0]
    BY <1>4, <2>4
  <2>6. r - 1 \in 0 .. (Bits - 1)
    BY <1>1, <1>2, <1>7
  <2>7. SingleBit(z, w, r - 1)
    BY <1>1, <2>5, <2>6 DEF SingleBit, h
  <2> QED
    BY <1>7, <2>7 DEF z
<1>8. CASE r = 0
  <2>1. b = 1
    BY <1>3, <1>8
  <2> HIDE DEF b, q
  <2>2. 1 \div 2 = 0
    OBVIOUS
  <2>3. (1 * q) % Number!Base = q
    <3>1. q \in 0 .. (2 * Number!Base - 1) /\ q < Number!Base /\ 1 * q = q
      BY <1>3
    <3>2. q % Number!Base = q
      BY <3>1, WordIs
    <3> QED
      BY <3>1, <3>2
  <2>4. ASSUME NEW i \in Number!Index PROVE z[i] = IF i + 1 = w THEN q ELSE 0
    <3>1. (IF i = Number!Top THEN 0 ELSE (x[i + 1] * q) % Number!Base) = IF i + 1 = w THEN q ELSE 0
      <4>1. i = Number!Top => i + 1 # w
        BY <1>1, <1>2
      <4> QED
        BY <1>1, <1>5, <1>6, <2>1, <2>3, <4>1
    <3>2. x[i] \div 2 = 0
      BY <1>1, <1>5, <2>1, <2>2
    <3>3. z[i] = x[i] \div 2 + (IF i = Number!Top THEN 0 ELSE (x[i + 1] * q) % Number!Base)
      BY <1>4
    <3>4. 0 + q = q /\ 0 + 0 = 0
      BY <1>3
    <3> QED
      BY <3>1, <3>2, <3>3, <3>4
  <2>5. CASE w = 0
    <3>1. \A i \in Number!Index : i + 1 # w
      BY <1>2, <2>5
    <3>2. z = Number!zero
      BY <1>4, <2>4, <3>1 DEF Number!zero
    <3> QED
      BY <1>8, <2>5, <3>2 DEF z
  <2>6. CASE w > 0
    <3>1. w - 1 \in Number!Index /\ \A i \in Number!Index : i + 1 = w <=> i = w - 1
      BY <1>1, <1>2, <2>6
    <3>2. z = [i \in Number!Index |-> IF i = w - 1 THEN 2^(Bits - 1) ELSE 0]
      BY <1>4, <2>4, <3>1 DEF q
    <3>3. Bits - 1 \in 0 .. (Bits - 1)
      BY <1>2
    <3>4. SingleBit(z, w - 1, Bits - 1)
      BY <3>1, <3>2, <3>3 DEF SingleBit
    <3> QED
      BY <1>8, <2>6, <3>4 DEF z
  <2> QED
    BY <1>1, <1>2, <2>5, <2>6
<1> QED
  BY <1>1, <1>2, <1>7, <1>8

-----------------------------------------------------------------------------
\* What a halved bit stands for.
LEMMA HalfBit ==
  ASSUME Powers, NumberFacts, NEW x, NEW w, NEW r, SingleBit(x, w, r)
  PROVE  /\ Number!Val(x) \in Nat
         /\ r = 0 /\ w = 0 => Number!Val(x) = 1
         /\ ~(r = 0 /\ w = 0) => Number!Val(x) = 2 * Number!Val(Number!rshift_bits(x, 1))
<1> DEFINE F == Suffix(x)
           g == F[1]
           h == Number!Val(Number!rshift_bits(x, 1))
           q == 2^(Bits - 1)
<1>1. /\ r \in 0 .. (Bits - 1) /\ w \in Number!Index
      /\ x = [i \in Number!Index |-> IF i = w THEN 2^r ELSE 0]
  BY DEF SingleBit
<1>2. /\ Words \in Nat /\ Words >= 2 /\ Number!Base \in Nat \ {0} /\ Number!Index = 0 .. (Words - 1)
      /\ Bits \in Nat \ {0} /\ 0 \in Number!Index /\ 1 \in 0 .. Words /\ 1 \in 0 .. Bits
  BY DEF NumberFacts, Number!Index
<1>3. x \in Number!Number /\ x \in WideNumber /\ Number!Val(x) \in Nat
  <2>1. x \in Number!Number
    BY BitType
  <2> QED
    BY <2>1, ValRange
<1>4. g \in Nat /\ Number!Val(x) = x[0] + Number!Base * g
  <2>1. F \in [0 .. Words -> Nat] /\ Number!Val(x) = F[0] /\ F[0] = x[0] + Number!Base * F[0 + 1]
    BY <1>2, <1>3, SuffixIs
  <2> QED
    BY <1>2, <2>1
<1>5. /\ q \in Nat \ {0} /\ Number!Base = 2 * q /\ 2^0 = 1 /\ 2^1 = 2
      /\ r > 0 => 2^(r - 1) \in Nat \ {0} /\ 2^r = 2 * 2^(r - 1)
  BY <1>1, BitIs
<1>6. h = Number!Val(x) \div 2
  <2>1. h = Number!Val(x) \div 2^1
    BY <1>2, <1>3, RshiftBitsIs
  <2> QED
    BY <1>5, <2>1
<1>7. ASSUME r = 0, w = 0 PROVE Number!Val(x) = 1
  <2>1. x = Number!bignum_from_int(1)
    <3>1. SingleBit(Number!bignum_from_int(1), 0, 0)
      BY OneIsBit
    <3> QED
      BY <1>1, <1>7, <3>1 DEF SingleBit
  <2> QED
    BY <2>1, OneIsBit
<1>8. ASSUME ~(r = 0 /\ w = 0) PROVE Number!Val(x) = 2 * h
  <2>1. PICK k \in Nat : x[0] = 2 * k
    <3>1. CASE w = 0
      <4>1. x[0] = 2 * 2^(r - 1) /\ 2^(r - 1) \in Nat
        BY <1>1, <1>2, <1>5, <1>8, <3>1
      <4> QED
        BY <4>1
    <3>2. CASE w # 0
      <4>1. x[0] = 2 * 0
        BY <1>1, <1>2, <3>2
      <4> QED
        BY <4>1
    <3> QED
      BY <3>1, <3>2
  <2> HIDE DEF g, h, q
  <2>2. Number!Base * g = 2 * (q * g) /\ q * g \in Nat
    BY <1>4, <1>5
  <2> DEFINE u == q * g
  <2>3. u \in Nat /\ Number!Val(x) = 2 * (k + u)
    BY <1>4, <2>1, <2>2
  <2> HIDE DEF u
  <2>4. (2 * (k + u)) \div 2 = k + u
    BY <2>1, <2>3
  <2> QED
    BY <1>6, <2>3, <2>4
<1> QED
  BY <1>3, <1>7, <1>8

\* c has nothing at the bit of current, nor below.
Room(x, w, r) ==
  /\ \A j \in Number!Index : j < w => x[j] = 0
  /\ \E m \in Nat : x[w] = m * 2^(r + 1)

\* Then c plus current is a number, and the sum of both.
LEMMA RoomForBit ==
  ASSUME Powers, NumberFacts, NEW x, NEW w, NEW r, SingleBit(x, w, r),
         NEW y \in Number!Number, Room(y, w, r)
  PROVE  /\ [i \in Number!Index |-> y[i] + x[i]] \in Number!Number
         /\ Number!Val([i \in Number!Index |-> y[i] + x[i]]) = Number!Val(y) + Number!Val(x)
<1> DEFINE z == [i \in Number!Index |-> y[i] + x[i]]
<1>1. /\ r \in 0 .. (Bits - 1) /\ w \in Number!Index
      /\ x = [i \in Number!Index |-> IF i = w THEN 2^r ELSE 0]
  BY DEF SingleBit
<1>2. Number!MaxVal = Number!Base - 1 /\ Number!Base \in Nat \ {0}
  BY DEF NumberFacts
<1>3. x \in Number!Number /\ x \in WideNumber /\ y \in WideNumber
  BY BitType, ValRange
<1>4. Number!Val(z) = Number!Val(y) + Number!Val(x)
  BY <1>3, SumIs
<1>5. y[w] + 2^r \in 0 .. Number!MaxVal
  <2> DEFINE b == 2^r
             p == 2^(r + 1)
  <2>1. PICK m \in Nat : y[w] = m * p
    BY DEF Room
  <2>2. b \in Nat \ {0} /\ p = 2 * b /\ \E q \in Nat \ {0} : Number!Base = p * q
    BY <1>1, BitIs
  <2>3. PICK q \in Nat \ {0} : Number!Base = p * q
    BY <2>2
  <2>4. y[w] \in 0 .. Number!MaxVal
    BY <1>1 DEF Number!Number
  <2> HIDE DEF b, p
  <2>5. m < q
    <3> SUFFICES ASSUME m >= q PROVE FALSE
      BY <2>1, <2>3
    <3>1. m * p >= q * p
      BY <2>1, <2>2, <2>3
    <3>2. m * p < p * q
      BY <1>2, <2>1, <2>3, <2>4
    <3> QED
      BY <2>1, <2>2, <2>3, <3>1, <3>2
  <2>6. (m + 1) * p <= q * p
    BY <2>1, <2>2, <2>3, <2>5
  <2>7. m * p + p <= p * q
    BY <2>1, <2>2, <2>3, <2>6
  <2>8. y[w] + p <= Number!Base /\ p \in Nat
    BY <2>1, <2>2, <2>3, <2>7
  <2>9. y[w] + b \in 0 .. Number!MaxVal
    BY <1>2, <2>2, <2>4, <2>8
  <2> QED
    BY <2>9 DEF b
<1>6. z \in Number!Number
  <2>1. ASSUME NEW i \in Number!Index PROVE y[i] + x[i] \in 0 .. Number!MaxVal
    <3>1. CASE i = w
      BY <1>1, <1>5, <3>1
    <3>2. CASE i # w
      <4>1. y[i] \in 0 .. Number!MaxVal /\ x[i] = 0
        BY <1>1, <3>2 DEF Number!Number
      <4> QED
        BY <1>2, <4>1
    <3> QED
      BY <3>1, <3>2
  <2> QED
    BY <2>1 DEF Number!Number
<1> QED
  BY <1>4, <1>6

\* There is room for the next bit, whether this one was added or not.
LEMMA RoomBelow ==
  ASSUME Powers, NumberFacts, NEW x, NEW w, NEW r, SingleBit(x, w, r),
         NEW y \in Number!Number, Room(y, w, r), Number!rshift_bits(x, 1) # Number!zero
  PROVE  \E v, s : /\ SingleBit(Number!rshift_bits(x, 1), v, s)
                   /\ Room(y, v, s) /\ Room([i \in Number!Index |-> y[i] + x[i]], v, s)
<1> DEFINE z == [i \in Number!Index |-> y[i] + x[i]]
           b == 2^r
<1>1. /\ r \in 0 .. (Bits - 1) /\ w \in Number!Index
      /\ x = [i \in Number!Index |-> IF i = w THEN b ELSE 0]
  BY DEF SingleBit
<1>2. Words \in Nat /\ Bits \in Nat \ {0} /\ Number!Index = 0 .. (Words - 1)
  BY DEF NumberFacts, Number!Index
<1>3. PICK m \in Nat : y[w] = m * 2^(r + 1)
  BY DEF Room
<1>4. b \in Nat \ {0} /\ 2^(r + 1) = 2 * b
  BY <1>1, BitIs
<1>5. \A j \in Number!Index : j < w => y[j] = 0 /\ z[j] = 0
  <2> SUFFICES ASSUME NEW j \in Number!Index, j < w PROVE y[j] = 0 /\ z[j] = 0
    OBVIOUS
  <2>1. y[j] = 0
    BY DEF Room
  <2>2. x[j] = 0
    BY <1>1, <1>2
  <2> QED
    BY <2>1, <2>2
<1>6. y[w] = (2 * m) * b /\ z[w] = (2 * m + 1) * b
  <2>1. z[w] = y[w] + b
    BY <1>1
  <2> HIDE DEF z, b
  <2>2. y[w] = (2 * m) * b
    BY <1>3, <1>4
  <2>3. (2 * m + 1) * b = (2 * m) * b + b
    BY <1>3, <1>4
  <2> QED
    BY <2>1, <2>2, <2>3
<1> HIDE DEF z
<1>7. CASE r > 0
  <2>1. (r - 1) + 1 = r
    BY <1>1, <1>2
  <2>2. Room(y, w, r - 1) /\ Room(z, w, r - 1)
    <3>1. 2 * m \in Nat /\ 2 * m + 1 \in Nat
      BY <1>3
    <3> QED
      BY <1>5, <1>6, <2>1, <3>1 DEF Room, b
  <2>3. SingleBit(Number!rshift_bits(x, 1), w, r - 1)
    BY <1>7, RightBit
  <2> QED
    BY <2>2, <2>3 DEF z
<1>8. CASE r = 0
  <2>1. w > 0
    <3> SUFFICES ASSUME w = 0 PROVE FALSE
      BY <1>1, <1>2
    <3> QED
      BY <1>8, RightBit
  <2>2. w - 1 \in Number!Index /\ w - 1 < w /\ \A j \in Number!Index : j < w - 1 => j < w
    BY <1>1, <1>2, <2>1
  <2>3. SingleBit(Number!rshift_bits(x, 1), w - 1, Bits - 1)
    BY <1>8, <2>1, RightBit
  <2>4. 0 = 0 * 2^((Bits - 1) + 1) /\ 0 \in Nat
    <3>1. (Bits - 1) + 1 = Bits /\ 2 \in Nat \ {0}
      BY <1>2
    <3>2. 2^Bits \in Nat
      BY <1>2, <3>1 DEF Powers
    <3> QED
      BY <3>1, <3>2
  <2>5. Room(y, w - 1, Bits - 1) /\ Room(z, w - 1, Bits - 1)
    BY <1>5, <2>2, <2>4 DEF Room
  <2> QED
    BY <2>3, <2>5 DEF z
<1> QED
  BY <1>1, <1>2, <1>7, <1>8

\* An empty number has room for any bit.
LEMMA RoomInZero ==
  ASSUME Powers, NumberFacts, NEW x, NEW w, NEW r, SingleBit(x, w, r)
  PROVE  Room(Number!zero, w, r)
<1>1. r \in 0 .. (Bits - 1) /\ w \in Number!Index
  BY DEF SingleBit
<1>2. 2^(r + 1) = 2 * 2^r /\ 2^r \in Nat
  BY <1>1, BitIs
<1>3. 0 = 0 * 2^(r + 1) /\ 0 \in Nat
  BY <1>2
<1> QED
  BY <1>1, <1>3 DEF Room, Number!zero

-----------------------------------------------------------------------------
(* What a call of bignum_div knows between its steps *)

\* A shift by one place, when the highest bit is clear, and when it is set.
LEMMA DoubledIs ==
  ASSUME Powers, NumberFacts, NEW x \in Number!Number
  PROVE  /\ Number!lshift_bits(x, 1) \in Number!Number
         /\ x[Number!Top] < 1 + Number!MaxVal \div 2 =>
              x[Number!Top] \div 2^(Bits - 1) = 0
              /\ Number!Val(Number!lshift_bits(x, 1)) = 2 * Number!Val(x)
         /\ ~(x[Number!Top] < 1 + Number!MaxVal \div 2) => 2 * Number!Val(x) >= Number!All
<1> DEFINE q == 2^(Bits - 1)
           t == x[Number!Top]
           e == t \div q
           z == Number!lshift_bits(x, 1)
           v == Number!Val(x)
           u == Number!Val(z)
<1>1. /\ Number!MaxVal = Number!Base - 1 /\ Number!All \in Nat /\ Number!All >= 1
      /\ t \in 0 .. Number!MaxVal /\ 0 \in 0 .. (Bits - 1)
      /\ 1 \in 0 .. Bits
  BY DEF NumberFacts, Number!Number
<1>2. q \in Nat \ {0} /\ Number!Base = 2 * q /\ 2^1 = 2
  BY <1>1, BitIs
<1>3. z \in Number!Number /\ u = 2 * v - Number!All * e
  BY <1>1, <1>2, LshiftBitsIs
<1>4. v \in Nat /\ u \in Nat
  BY <1>1, <1>3, ValRange
<1> HIDE DEF q, t, z, u, v
<1>5. Number!MaxVal \div 2 = q - 1
  <2>1. Number!MaxVal = 2 * q - 1
    BY <1>1, <1>2
  <2> QED
    BY <1>2, <2>1
<1>6. ASSUME t < q PROVE e = 0
  <2>1. q * 0 <= t /\ t < q * (0 + 1) /\ 0 \in Int /\ t \in Int
    BY <1>1, <1>2, <1>6
  <2> QED
    BY <1>2, <2>1, QuotientIs
<1>7. ASSUME ~(t < q) PROVE e = 1
  <2>1. q * 1 <= t /\ t < q * (1 + 1) /\ 1 \in Int /\ t \in Int
    BY <1>1, <1>2, <1>7
  <2> QED
    BY <1>2, <2>1, QuotientIs
<1> HIDE DEF e
<1>8. t < 1 + Number!MaxVal \div 2 <=> t < q
  <2> DEFINE h == Number!MaxVal \div 2
  <2>1. h = q - 1
    BY <1>5
  <2> HIDE DEF h
  <2>2. t < 1 + h <=> t < q
    BY <1>1, <1>2, <2>1
  <2> QED
    BY <2>2 DEF h
<1>9. ASSUME t < q PROVE e = 0 /\ u = 2 * v
  BY <1>1, <1>3, <1>4, <1>6, <1>9
<1>10. ASSUME ~(t < q) PROVE 2 * v >= Number!All
  BY <1>1, <1>3, <1>4, <1>7, <1>10
<1> QED
  BY <1>3, <1>8, <1>9, <1>10 DEF q, t, e, z, u, v

\* What a shift to the right by one place gives.
HalvedType(x) == Number!rshift_bits(x, 1) \in Number!Number
  /\ Number!Val(Number!rshift_bits(x, 1)) = Number!Val(x) \div 2

LEMMA HalvedIs ==
  ASSUME Powers, NumberFacts, NEW x \in Number!Number
  PROVE  HalvedType(x)
<1>1. 0 \in 0 .. (Bits - 1) /\ 1 \in 0 .. Bits
  BY DEF NumberFacts
<1>2. 2^1 = 2
  BY <1>1, BitIs
<1> QED
  BY <1>1, <1>2, RshiftBitsIs DEF HalvedType

IsBit(x) == \E w, r : SingleBit(x, w, r)

\* Between doublings: denom is current times the divisor.
Doubling(a, b, t, x, d) ==
  /\ a \in Number!Number /\ b \in Number!Number /\ t = a /\ x \in Number!Number /\ d \in Number!Number
  /\ Number!Val(b) = 0 => Number!Val(d) = 0
  /\ Number!Val(b) > 0 => IsBit(x) /\ Number!Val(d) = Number!Val(b) * Number!Val(x)

\* Between subtractions: what is left, and the quotient so far.
Reducing(a, b, t, x, d, k) ==
  /\ a \in Number!Number /\ b \in Number!Number /\ t \in Number!Number /\ x \in Number!Number
  /\ d \in Number!Number /\ k \in Number!Number
  /\ Number!Val(b) > 0 /\ Number!Val(t) + Number!Val(k) * Number!Val(b) = Number!Val(a)
  /\ \/ x = Number!zero /\ Number!Val(t) < Number!Val(b)
     \/ /\ Number!Val(d) = Number!Val(b) * Number!Val(x) /\ Number!Val(t) < 2 * Number!Val(d)
        /\ \E w, r : SingleBit(x, w, r) /\ Room(k, w, r)

\* A doubling that does not overflow.
LEMMA DoubleStep ==
  ASSUME Powers, NumberFacts, NEW a, NEW b, NEW t, NEW x, NEW d, Doubling(a, b, t, x, d),
         d[Number!Top] < 1 + Number!MaxVal \div 2
  PROVE  Doubling(a, b, t, Number!lshift_bits(x, 1), Number!lshift_bits(d, 1))
<1> DEFINE y == Number!lshift_bits(x, 1)
           e == Number!lshift_bits(d, 1)
<1>1. /\ a \in Number!Number /\ b \in Number!Number /\ t = a /\ x \in Number!Number /\ d \in Number!Number
      /\ Number!Val(b) = 0 => Number!Val(d) = 0
      /\ Number!Val(b) > 0 => IsBit(x) /\ Number!Val(d) = Number!Val(b) * Number!Val(x)
  BY DEF Doubling
<1>2. e \in Number!Number /\ y \in Number!Number /\ Number!Val(e) = 2 * Number!Val(d)
  BY <1>1, DoubledIs
<1>3. Number!Val(a) \in Nat /\ Number!Val(b) \in Nat /\ Number!Val(x) \in Nat /\ Number!Val(d) \in Nat
      /\ Number!Val(y) \in Nat
  BY <1>1, <1>2, ValRange
<1>4. Number!Val(e) < Number!All /\ Number!All \in Nat
  <2>1. Number!Val(e) \in 0 .. (Number!All - 1) /\ Number!All \in Nat
    BY <1>2, ValRange DEF NumberFacts
  <2> QED
    BY <2>1
<1> HIDE DEF y, e
<1>5. Number!Val(b) = 0 => Number!Val(e) = 0
  BY <1>1, <1>2
<1>6. ASSUME Number!Val(b) > 0 PROVE IsBit(y) /\ Number!Val(e) = Number!Val(b) * Number!Val(y)
  <2>1. PICK w, r : SingleBit(x, w, r)
    BY <1>1, <1>6 DEF IsBit
  <2> DEFINE f == x[Number!Top] \div 2^(Bits - 1)
  <2>2. Number!Val(y) = 2 * Number!Val(x) - Number!All * f
    <3>1. 1 \in 0 .. Bits /\ 0 \in 0 .. (Bits - 1)
      BY DEF NumberFacts
    <3>2. 2^1 = 2
      BY <3>1, BitIs
    <3> QED
      BY <1>1, <3>1, <3>2, LshiftBitsIs DEF y
  <2>3. f = 0 /\ IsBit(y)
    <3>1. CASE f = 1
      <4> HIDE DEF f
      <4>1. 2 * Number!Val(x) >= Number!All
        BY <1>3, <1>4, <2>2, <3>1
      <4>2. Number!Val(b) * Number!Val(x) >= Number!Val(x)
        BY <1>3, <1>6
      <4>3. Number!Val(d) >= Number!Val(x)
        BY <1>1, <1>6, <4>2
      <4>4. 2 * Number!Val(d) < Number!All
        BY <1>2, <1>4
      <4> QED
        BY <1>3, <1>4, <4>1, <4>3, <4>4
    <3>2. CASE f = 0 /\ \E v, s : SingleBit(y, v, s)
      BY <3>2 DEF IsBit
    <3> QED
      BY <2>1, <3>1, <3>2, LeftBit DEF y
  <2> HIDE DEF f
  <2>4. Number!Val(y) = 2 * Number!Val(x)
    BY <1>3, <1>4, <2>2, <2>3
  <2> DEFINE p == Number!Val(b)
             q == Number!Val(x)
  <2>5. Number!Val(e) = 2 * (p * q) /\ p \in Nat /\ q \in Nat /\ Number!Val(y) = 2 * q
    BY <1>1, <1>2, <1>3, <1>6, <2>4
  <2> HIDE DEF p, q
  <2>6. Number!Val(e) = p * (2 * q)
    BY <2>5
  <2> QED
    BY <2>3, <2>5, <2>6 DEF p
<1>7. Doubling(a, b, t, y, e)
  BY <1>1, <1>2, <1>5, <1>6 DEF Doubling
<1> QED
  BY <1>7 DEF y, e

\* From the last doubling, done or undone, to the first subtraction.
LEMMA OverflowStep ==
  ASSUME Powers, NumberFacts, NEW a, NEW b, NEW t, NEW x, NEW d, Doubling(a, b, t, x, d),
         ~(d[Number!Top] < 1 + Number!MaxVal \div 2)
  PROVE  Reducing(a, b, t, x, d, Number!zero)
<1>1. /\ a \in Number!Number /\ b \in Number!Number /\ t = a /\ x \in Number!Number /\ d \in Number!Number
      /\ Number!Val(b) = 0 => Number!Val(d) = 0
      /\ Number!Val(b) > 0 => IsBit(x) /\ Number!Val(d) = Number!Val(b) * Number!Val(x)
  BY DEF Doubling
<1>2. 2 * Number!Val(d) >= Number!All
  BY <1>1, DoubledIs
<1>3. Number!Val(a) \in 0 .. (Number!All - 1) /\ Number!Val(b) \in 0 .. (Number!All - 1)
      /\ Number!Val(d) \in 0 .. (Number!All - 1)
      /\ Number!All \in Nat /\ Number!All >= 1
  BY <1>1, ValRange DEF NumberFacts
<1>4. Number!Val(b) > 0
  BY <1>1, <1>2, <1>3
<1>5. Number!zero \in Number!Number /\ Number!Val(Number!zero) = 0
  BY ZeroIs
<1>6. PICK w, r : SingleBit(x, w, r)
  BY <1>1, <1>4 DEF IsBit
<1>7. Room(Number!zero, w, r)
  BY <1>6, RoomInZero
<1>8. Number!Val(t) < 2 * Number!Val(d)
  BY <1>1, <1>2, <1>3
<1>9. Number!Val(t) + Number!Val(Number!zero) * Number!Val(b) = Number!Val(a)
  BY <1>1, <1>3, <1>5
<1> QED
  BY <1>1, <1>4, <1>5, <1>6, <1>7, <1>8, <1>9 DEF Reducing

\* Half of a bit and of the divisor at its place.
LEMMA HalfDivisor ==
  ASSUME Powers, NumberFacts, NEW x, NEW w, NEW r, SingleBit(x, w, r),
         NEW b \in Number!Number, NEW d \in Number!Number, Number!Val(d) = Number!Val(b) * Number!Val(x)
  PROVE  /\ Number!rshift_bits(x, 1) \in Number!Number /\ Number!rshift_bits(d, 1) \in Number!Number
         /\ \/ Number!rshift_bits(x, 1) = Number!zero /\ Number!Val(d) = Number!Val(b)
            \/ /\ IsBit(Number!rshift_bits(x, 1)) /\ Number!rshift_bits(x, 1) # Number!zero
               /\ Number!Val(Number!rshift_bits(d, 1))
                    = Number!Val(b) * Number!Val(Number!rshift_bits(x, 1))
               /\ Number!Val(d) = 2 * Number!Val(Number!rshift_bits(d, 1))
<1> DEFINE y == Number!rshift_bits(x, 1)
           e == Number!rshift_bits(d, 1)
<1>1. x \in Number!Number
  BY BitType
<1>2. y \in Number!Number /\ e \in Number!Number /\ Number!Val(e) = Number!Val(d) \div 2
  BY <1>1, HalvedIs DEF HalvedType
<1>3. Number!Val(b) \in Nat /\ Number!Val(d) \in Nat /\ Number!Val(x) \in Nat /\ Number!Val(y) \in Nat
      /\ Number!Val(e) \in Nat
  BY <1>1, <1>2, ValRange
<1>4. CASE r = 0 /\ w = 0
  <2>1. y = Number!zero /\ Number!Val(x) = 1
    BY <1>4, RightBit, HalfBit
  <2> HIDE DEF y, e
  <2>2. Number!Val(d) = Number!Val(b)
    BY <1>3, <2>1
  <2> QED
    BY <1>2, <2>1, <2>2 DEF y, e
<1>5. CASE ~(r = 0 /\ w = 0)
  <2>1. Number!Val(x) = 2 * Number!Val(y)
    BY <1>5, HalfBit
  <2>2. /\ r \in Nat /\ w \in Nat
    BY DEF SingleBit, NumberFacts, Number!Index
  <2>3. IsBit(y)
    <3>1. CASE r > 0
      <4>1. SingleBit(y, w, r - 1)
        BY <3>1, RightBit
      <4> QED
        BY <4>1 DEF IsBit
    <3>2. CASE r = 0 /\ w > 0
      <4>1. SingleBit(y, w - 1, Bits - 1)
        BY <3>2, RightBit
      <4> QED
        BY <4>1 DEF IsBit
    <3> QED
      BY <1>5, <2>2, <3>1, <3>2
  <2>4. y # Number!zero
    <3> SUFFICES ASSUME y = Number!zero PROVE FALSE
      OBVIOUS
    <3>1. PICK v, s : SingleBit(y, v, s)
      BY <2>3 DEF IsBit
    <3>2. v \in Number!Index /\ s \in 0 .. (Bits - 1) /\ y[v] = 2^s
      BY <3>1 DEF SingleBit
    <3>3. 2^s \in Nat \ {0}
      BY <3>2, BitIs
    <3> QED
      BY <3>2, <3>3 DEF Number!zero
  <2> DEFINE p == Number!Val(b)
             q == Number!Val(y)
             u == Number!Val(d)
             z == Number!Val(e)
  <2>5. p \in Nat /\ q \in Nat /\ u \in Nat /\ z \in Nat /\ z = u \div 2 /\ u = p * (2 * q)
    BY <1>2, <1>3, <2>1
  <2> HIDE DEF p, q, u, z, y, e
  <2>6. z = p * q /\ u = 2 * z
    <3> DEFINE k == p * q
    <3>1. k \in Nat /\ u = 2 * k
      BY <2>5
    <3> HIDE DEF k
    <3>2. z = k
      BY <2>5, <3>1
    <3> QED
      BY <3>1, <3>2 DEF k
  <2> QED
    BY <1>2, <2>3, <2>4, <2>6 DEF p, q, u, z, y, e
<1> QED
  BY <1>4, <1>5

-----------------------------------------------------------------------------
\* The last doubling is undone: the divisor at that place was too large.
LEMMA HalveStep ==
  ASSUME Powers, NumberFacts, NEW a, NEW b, NEW t, NEW x, NEW d, Doubling(a, b, t, x, d),
         Number!bignum_cmp(d, a) = 1
  PROVE  Reducing(a, b, t, Number!rshift_bits(x, 1), Number!rshift_bits(d, 1), Number!zero)
<1> DEFINE y == Number!rshift_bits(x, 1)
           e == Number!rshift_bits(d, 1)
<1>1. /\ a \in Number!Number /\ b \in Number!Number /\ t = a /\ x \in Number!Number /\ d \in Number!Number
      /\ Number!Val(b) = 0 => Number!Val(d) = 0
      /\ Number!Val(b) > 0 => IsBit(x) /\ Number!Val(d) = Number!Val(b) * Number!Val(x)
  BY DEF Doubling
<1>2. Number!Val(d) > Number!Val(a)
  BY <1>1, CmpIs
<1>3. Number!Val(a) \in Nat /\ Number!Val(b) \in Nat /\ Number!Val(d) \in Nat /\ Number!Val(x) \in Nat
  BY <1>1, ValRange
<1>4. Number!Val(b) > 0
  BY <1>1, <1>2, <1>3
<1>5. PICK w, r : SingleBit(x, w, r)
  BY <1>1, <1>4 DEF IsBit
<1>6. /\ y \in Number!Number /\ e \in Number!Number
      /\ \/ y = Number!zero /\ Number!Val(d) = Number!Val(b)
         \/ IsBit(y) /\ y # Number!zero /\ Number!Val(e) = Number!Val(b) * Number!Val(y)
            /\ Number!Val(d) = 2 * Number!Val(e)
  BY <1>1, <1>4, <1>5, HalfDivisor
<1>7. Number!zero \in Number!Number /\ Number!Val(Number!zero) = 0
  BY ZeroIs
<1> HIDE DEF y, e
<1>8. Number!Val(t) + Number!Val(Number!zero) * Number!Val(b) = Number!Val(a)
  BY <1>1, <1>3, <1>7
<1>9. CASE y = Number!zero /\ Number!Val(d) = Number!Val(b)
  <2>1. Number!Val(t) < Number!Val(b)
    BY <1>1, <1>2, <1>3, <1>9
  <2>2. Reducing(a, b, t, y, e, Number!zero)
    BY <1>1, <1>4, <1>6, <1>7, <1>8, <1>9, <2>1 DEF Reducing
  <2> QED
    BY <2>2 DEF y, e
<1>10. CASE IsBit(y) /\ y # Number!zero /\ Number!Val(e) = Number!Val(b) * Number!Val(y)
            /\ Number!Val(d) = 2 * Number!Val(e)
  <2>1. Number!Val(t) < 2 * Number!Val(e)
    BY <1>1, <1>2, <1>3, <1>10
  <2>2. \E v, s : SingleBit(y, v, s) /\ Room(Number!zero, v, s)
    BY <1>10, RoomInZero DEF IsBit
  <2>3. Reducing(a, b, t, y, e, Number!zero)
    BY <1>1, <1>4, <1>6, <1>7, <1>8, <1>10, <2>1, <2>2 DEF Reducing
  <2> QED
    BY <2>3 DEF y, e
<1> QED
  BY <1>6, <1>9, <1>10

\* A subtraction, or none, and on to the next bit.
LEMMA ReduceStep ==
  ASSUME Powers, NumberFacts, NEW a, NEW b, NEW t, NEW x, NEW d, NEW k, Reducing(a, b, t, x, d, k),
         x # Number!zero, NEW fits \in BOOLEAN, fits <=> Number!bignum_cmp(t, d) # -1
  PROVE  Reducing(a, b, IF fits THEN Number!bignum_sub(t, d) ELSE t, Number!rshift_bits(x, 1), Number!rshift_bits(d, 1),
                  IF fits THEN [i \in Number!Index |-> k[i] + x[i]] ELSE k)
<1> DEFINE y == Number!rshift_bits(x, 1)
           e == Number!rshift_bits(d, 1)
           l == [i \in Number!Index |-> k[i] + x[i]]
           s == Number!bignum_sub(t, d)
           u == IF fits THEN s ELSE t
           m == IF fits THEN l ELSE k
<1>1. /\ a \in Number!Number /\ b \in Number!Number /\ t \in Number!Number /\ x \in Number!Number
      /\ d \in Number!Number /\ k \in Number!Number
      /\ Number!Val(b) > 0 /\ Number!Val(t) + Number!Val(k) * Number!Val(b) = Number!Val(a)
      /\ Number!Val(d) = Number!Val(b) * Number!Val(x) /\ Number!Val(t) < 2 * Number!Val(d)
      /\ \E w, r : SingleBit(x, w, r) /\ Room(k, w, r)
  BY DEF Reducing
<1>2. PICK w, r : SingleBit(x, w, r) /\ Room(k, w, r)
  BY <1>1
<1>3. l \in Number!Number /\ Number!Val(l) = Number!Val(k) + Number!Val(x)
  BY <1>1, <1>2, RoomForBit
<1>4. /\ y \in Number!Number /\ e \in Number!Number
      /\ \/ y = Number!zero /\ Number!Val(d) = Number!Val(b)
         \/ IsBit(y) /\ y # Number!zero /\ Number!Val(e) = Number!Val(b) * Number!Val(y)
            /\ Number!Val(d) = 2 * Number!Val(e)
  BY <1>1, <1>2, HalfDivisor
<1>5. y # Number!zero => \E v, g : SingleBit(y, v, g) /\ Room(k, v, g) /\ Room(l, v, g)
  BY <1>1, <1>2, RoomBelow
<1>6. /\ Number!Val(a) \in 0 .. (Number!All - 1) /\ Number!Val(b) \in 0 .. (Number!All - 1)
      /\ Number!Val(d) \in 0 .. (Number!All - 1)
      /\ Number!Val(x) \in 0 .. (Number!All - 1) /\ Number!Val(t) \in 0 .. (Number!All - 1)
      /\ Number!Val(k) \in 0 .. (Number!All - 1)
      /\ Number!All \in Nat \ {0}
  BY <1>1, ValRange DEF NumberFacts
<1>7. s \in Number!Number /\ Number!Val(s) = (Number!Val(t) - Number!Val(d)) % Number!All
  BY <1>1, SubIs
<1>8. fits <=> Number!Val(t) >= Number!Val(d)
  <2>1. fits <=> ~(Number!Val(t) < Number!Val(d))
    BY <1>1, CmpIs
  <2> QED
    BY <1>6, <2>1
<1> HIDE DEF y, e, l, s
<1>9. fits => Number!Val(s) = Number!Val(t) - Number!Val(d)
  <2> HAVE fits
  <2> DEFINE v == Number!Val(t) - Number!Val(d)
  <2>1. v \in 0 .. (Number!All - 1) /\ v \in Int /\ 0 \in Int /\ v = v - Number!All * 0
    BY <1>6, <1>8
  <2> HIDE DEF v
  <2>2. v = v % Number!All
    BY <1>6, <2>1, Residue
  <2> QED
    BY <1>7, <2>2 DEF v
<1>10. u \in Number!Number /\ m \in Number!Number
  BY <1>1, <1>3, <1>7
<1>11. Number!Val(u) + Number!Val(m) * Number!Val(b) = Number!Val(a) /\ Number!Val(u) < Number!Val(d)
  <2>1. CASE fits
    <3> DEFINE p == Number!Val(b)
               q == Number!Val(x)
               n == Number!Val(k)
               h == Number!Val(t)
    <3>1. p \in Nat /\ q \in Nat /\ n \in Nat /\ h \in Nat /\ Number!Val(d) = p * q
          /\ h + n * p = Number!Val(a)
          /\ h < 2 * Number!Val(d) /\ Number!Val(u) = h - Number!Val(d) /\ Number!Val(m) = n + q
      BY <1>1, <1>3, <1>6, <1>9, <2>1
    <3> HIDE DEF p, q, n, h, u, m
    <3>2. (n + q) * p = n * p + p * q /\ n * p \in Int /\ p * q \in Int
      BY <3>1
    <3>3. Number!Val(m) * p = n * p + Number!Val(d)
      BY <3>1, <3>2
    <3>4. Number!Val(u) + Number!Val(m) * p = Number!Val(a)
      BY <3>1, <3>2, <3>3
    <3>5. Number!Val(u) < Number!Val(d)
      BY <3>1, <3>2
    <3> QED
      BY <3>4, <3>5 DEF p
  <2>2. CASE ~fits
    BY <1>1, <1>6, <1>8, <2>2
  <2> QED
    BY <2>1, <2>2
<1>12. Number!Val(u) \in Nat
  BY <1>10, ValRange
<1> HIDE DEF u
<1>13. CASE y = Number!zero /\ Number!Val(d) = Number!Val(b)
  <2>1. Reducing(a, b, u, y, e, m)
    BY <1>1, <1>4, <1>10, <1>11, <1>13 DEF Reducing
  <2> QED
    BY <2>1 DEF u, y, e, l, s
<1>14. CASE IsBit(y) /\ y # Number!zero /\ Number!Val(e) = Number!Val(b) * Number!Val(y)
            /\ Number!Val(d) = 2 * Number!Val(e)
  <2>1. \E v, g : SingleBit(y, v, g) /\ Room(m, v, g)
    BY <1>5, <1>14
  <2>2. Number!Val(u) < 2 * Number!Val(e)
    BY <1>11, <1>14
  <2>3. Reducing(a, b, u, y, e, m)
    BY <1>1, <1>4, <1>10, <1>11, <1>14, <2>1, <2>2 DEF Reducing
  <2> QED
    BY <2>3 DEF u, y, e, l, s
<1> QED
  BY <1>4, <1>13, <1>14

\* When current is zero: quotient and remainder.
LEMMA DividedIs ==
  ASSUME Powers, NumberFacts, NEW a, NEW b, NEW t, NEW d, NEW k, Reducing(a, b, t, Number!zero, d, k)
  PROVE  /\ k \in Number!Number /\ Number!Val(k) = Number!Val(a) \div Number!Val(b)
         /\ ~Number!bignum_mul(k, b).lost =>
              Number!Val(Number!bignum_sub(a, Number!bignum_mul(k, b).product))
                = Number!Val(a) % Number!Val(b)
<1>1. /\ a \in Number!Number /\ b \in Number!Number /\ t \in Number!Number /\ k \in Number!Number
      /\ Number!Val(b) > 0 /\ Number!Val(t) + Number!Val(k) * Number!Val(b) = Number!Val(a)
  BY DEF Reducing
<1>2. Number!Val(t) < Number!Val(b)
  <2> SUFFICES ASSUME NEW w, NEW r, SingleBit(Number!zero, w, r) PROVE FALSE
    BY DEF Reducing
  <2>1. w \in Number!Index /\ r \in 0 .. (Bits - 1) /\ Number!zero[w] = 2^r
    BY DEF SingleBit
  <2>2. 2^r \in Nat \ {0}
    BY <2>1, BitIs
  <2> QED
    BY <2>1, <2>2 DEF Number!zero
<1> DEFINE p == Number!Val(a)
           q == Number!Val(b)
           n == Number!Val(k)
           h == Number!Val(t)
           m == Number!bignum_mul(k, b).product
           o == Number!Val(m)
<1>3. /\ p \in 0 .. (Number!All - 1) /\ q \in 0 .. (Number!All - 1) /\ n \in 0 .. (Number!All - 1)
      /\ h \in 0 .. (Number!All - 1)
      /\ Number!All \in Nat \ {0}
  BY <1>1, ValRange DEF NumberFacts
<1>4. p \in Nat /\ q \in Nat \ {0} /\ n \in Nat /\ h \in Nat /\ h < q /\ h + n * q = p
  BY <1>1, <1>2, <1>3
<1>5. ASSUME ~Number!bignum_mul(k, b).lost
      PROVE  m \in Number!Number /\ o = (n * q) % Number!All
             /\ Number!Val(Number!bignum_sub(a, m)) = (p - o) % Number!All
  BY <1>1, <1>5, MulExact, SubIs
<1> HIDE DEF p, q, n, h, m, o
<1>6. n * q = q * n /\ q * (n + 1) = q * n + q /\ q * n \in Int
  BY <1>4
<1>7. n = p \div q
  <2>1. q * n <= p /\ p < q * (n + 1) /\ n \in Int /\ p \in Int
    BY <1>4, <1>6
  <2> QED
    BY <1>4, <2>1, QuotientIs
<1>8. h = p % q
  <2>1. h \in 0 .. (q - 1) /\ p \in Int /\ n \in Int /\ h = p - q * n
    BY <1>4, <1>6
  <2> QED
    BY <1>4, <2>1, Residue, ZenonT(30)
<1>9. ASSUME ~Number!bignum_mul(k, b).lost PROVE Number!Val(Number!bignum_sub(a, m)) = h
  <2> DEFINE f == n * q
  <2>1. f \in 0 .. (Number!All - 1) /\ f \in Int /\ 0 \in Int /\ f = f - Number!All * 0 /\ f = p - h
    BY <1>3, <1>4, <1>6
  <2>2. h \in 0 .. (Number!All - 1) /\ h \in Int /\ h = h - Number!All * 0
    BY <1>3
  <2>3. o = f % Number!All /\ Number!Val(Number!bignum_sub(a, m)) = (p - o) % Number!All
    BY <1>5, <1>9
  <2> HIDE DEF f
  <2>4. f = f % Number!All
    BY <1>3, <2>1, Residue
  <2>5. p - o = h
    BY <1>4, <2>1, <2>3, <2>4
  <2>6. h = h % Number!All
    BY <1>3, <2>1, <2>2, Residue
  <2> QED
    BY <2>3, <2>5, <2>6
<1> QED
  BY <1>1, <1>7, <1>8, <1>9 DEF p, q, n, h, m

-----------------------------------------------------------------------------
(* Every function, and bignum_div and bignum_mod step by step *)

\* What the call k of a function should compute.
MeaningOf(k) ==
  LET a == Number!Val(k.a)
      b == Number!Val(k.b)
  IN  CASE k.op = "add" -> (a + b) % Number!All
        [] k.op = "sub" -> (a - b) % Number!All
        [] k.op = "mul" -> (a * b) % Number!All
        [] k.op = "div" -> a \div b
        [] k.op = "mod" -> a % b
        [] k.op = "inc" -> (a + 1) % Number!All
        [] k.op = "dec" -> (a - 1) % Number!All
        [] k.op = "lshift" -> (a * 2^k.n) % Number!All
        [] k.op = "rshift" -> a \div 2^k.n

\* The result z of the call k is right, unless l says that a carry was lost.
ExactAt(k, z, l) == ~l /\ (k.op = "rshift" => k.n < Bits) => Number!Val(z) = MeaningOf(k)

\* The inductive invariant of ExactUnlessCarryLost.
NumberInv ==
  /\ pc \in {"idle", "double", "reduce", "done"}
  /\ pc \in {"double", "reduce"} => call.op \in {"div", "mod"}
  /\ pc = "double" => Doubling(call.a, call.b, tmp, current, denom)
  /\ pc = "reduce" => Reducing(call.a, call.b, tmp, current, denom, c)
  /\ pc = "done" => ExactAt(call, c, lost)

LEMMA MeaningIs ==
  ASSUME NEW k
  PROVE  /\ k.op = "add" => MeaningOf(k) = (Number!Val(k.a) + Number!Val(k.b)) % Number!All
         /\ k.op = "sub" => MeaningOf(k) = (Number!Val(k.a) - Number!Val(k.b)) % Number!All
         /\ k.op = "mul" => MeaningOf(k) = (Number!Val(k.a) * Number!Val(k.b)) % Number!All
         /\ k.op = "div" => MeaningOf(k) = Number!Val(k.a) \div Number!Val(k.b)
         /\ k.op = "mod" => MeaningOf(k) = Number!Val(k.a) % Number!Val(k.b)
         /\ k.op = "inc" => MeaningOf(k) = (Number!Val(k.a) + 1) % Number!All
         /\ k.op = "dec" => MeaningOf(k) = (Number!Val(k.a) - 1) % Number!All
         /\ k.op = "lshift" => MeaningOf(k) = (Number!Val(k.a) * 2^k.n) % Number!All
         /\ k.op = "rshift" => MeaningOf(k) = Number!Val(k.a) \div 2^k.n
BY DEF MeaningOf

\* The functions of one step.
LEMMA AddCall ==
  ASSUME Powers, NumberFacts, NEW x \in Number!Number, NEW y \in Number!Number, NEW n
  PROVE  /\ ExactAt([op |-> "add", a |-> x, b |-> y, n |-> n], Number!bignum_add(x, y), Number!LosesCarry(x, y))
         /\ ExactAt([op |-> "sub", a |-> x, b |-> y, n |-> n], Number!bignum_sub(x, y), FALSE)
         /\ ExactAt([op |-> "mul", a |-> x, b |-> y, n |-> n],
                    Number!bignum_mul(x, y).product, Number!bignum_mul(x, y).lost)
         /\ ExactAt([op |-> "inc", a |-> x, b |-> y, n |-> n], Number!bignum_inc(x), FALSE)
         /\ ExactAt([op |-> "dec", a |-> x, b |-> y, n |-> n], Number!bignum_dec(x), FALSE)
<1>1. ~Number!LosesCarry(x, y)
        => Number!Val(Number!bignum_add(x, y)) = (Number!Val(x) + Number!Val(y)) % Number!All
  <2> HAVE ~Number!LosesCarry(x, y)
  <2> DEFINE s == Number!Val(x) + Number!Val(y)
  <2>1. Number!bignum_add(x, y) \in Number!Number /\ Number!Val(Number!bignum_add(x, y)) = s
    BY AddIs
  <2>2. s \in 0 .. (Number!All - 1) /\ Number!All \in Nat \ {0}
    BY <2>1, ValRange DEF NumberFacts
  <2> HIDE DEF s
  <2>3. s \in Int /\ 0 \in Int /\ s = s - Number!All * 0
    BY <2>2
  <2>4. s = s % Number!All
    BY <2>2, <2>3, Residue
  <2> QED
    BY <2>1, <2>4 DEF s
<1>2. Number!Val(Number!bignum_sub(x, y)) = (Number!Val(x) - Number!Val(y)) % Number!All
  BY SubIs
<1>3. ~Number!bignum_mul(x, y).lost
        => Number!Val(Number!bignum_mul(x, y).product) = (Number!Val(x) * Number!Val(y)) % Number!All
  BY MulExact
<1>4. Number!Val(Number!bignum_inc(x)) = (Number!Val(x) + 1) % Number!All
  BY IncIs
<1>5. Number!Val(Number!bignum_dec(x)) = (Number!Val(x) - 1) % Number!All
  BY DecIs
<1>6. ExactAt([op |-> "add", a |-> x, b |-> y, n |-> n], Number!bignum_add(x, y), Number!LosesCarry(x, y))
  <2> DEFINE k == [op |-> "add", a |-> x, b |-> y, n |-> n]
  <2>1. k.op = "add" /\ k.a = x /\ k.b = y
    OBVIOUS
  <2> HIDE DEF k
  <2>2. MeaningOf(k) = (Number!Val(x) + Number!Val(y)) % Number!All
    BY <2>1, MeaningIs
  <2>3. ExactAt(k, Number!bignum_add(x, y), Number!LosesCarry(x, y))
    BY <1>1, <2>2 DEF ExactAt
  <2> QED
    BY <2>3 DEF k
<1>7. ExactAt([op |-> "sub", a |-> x, b |-> y, n |-> n], Number!bignum_sub(x, y), FALSE)
  <2> DEFINE k == [op |-> "sub", a |-> x, b |-> y, n |-> n]
  <2>1. k.op = "sub" /\ k.a = x /\ k.b = y
    OBVIOUS
  <2> HIDE DEF k
  <2>2. MeaningOf(k) = (Number!Val(x) - Number!Val(y)) % Number!All
    BY <2>1, MeaningIs
  <2>3. ExactAt(k, Number!bignum_sub(x, y), FALSE)
    BY <1>2, <2>2 DEF ExactAt
  <2> QED
    BY <2>3 DEF k
<1>8. ExactAt([op |-> "mul", a |-> x, b |-> y, n |-> n],
              Number!bignum_mul(x, y).product, Number!bignum_mul(x, y).lost)
  <2> DEFINE k == [op |-> "mul", a |-> x, b |-> y, n |-> n]
  <2>1. k.op = "mul" /\ k.a = x /\ k.b = y
    OBVIOUS
  <2> HIDE DEF k
  <2>2. MeaningOf(k) = (Number!Val(x) * Number!Val(y)) % Number!All
    BY <2>1, MeaningIs
  <2>3. ExactAt(k, Number!bignum_mul(x, y).product, Number!bignum_mul(x, y).lost)
    BY <1>3, <2>2 DEF ExactAt
  <2> QED
    BY <2>3 DEF k
<1>9. ExactAt([op |-> "inc", a |-> x, b |-> y, n |-> n], Number!bignum_inc(x), FALSE)
  <2> DEFINE k == [op |-> "inc", a |-> x, b |-> y, n |-> n]
  <2>1. k.op = "inc" /\ k.a = x
    OBVIOUS
  <2> HIDE DEF k
  <2>2. MeaningOf(k) = (Number!Val(x) + 1) % Number!All
    BY <2>1, MeaningIs
  <2>3. ExactAt(k, Number!bignum_inc(x), FALSE)
    BY <1>4, <2>2 DEF ExactAt
  <2> QED
    BY <2>3 DEF k
<1>10. ExactAt([op |-> "dec", a |-> x, b |-> y, n |-> n], Number!bignum_dec(x), FALSE)
  <2> DEFINE k == [op |-> "dec", a |-> x, b |-> y, n |-> n]
  <2>1. k.op = "dec" /\ k.a = x
    OBVIOUS
  <2> HIDE DEF k
  <2>2. MeaningOf(k) = (Number!Val(x) - 1) % Number!All
    BY <2>1, MeaningIs
  <2>3. ExactAt(k, Number!bignum_dec(x), FALSE)
    BY <1>5, <2>2 DEF ExactAt
  <2> QED
    BY <2>3 DEF k
<1> QED
  BY <1>6, <1>7, <1>8, <1>9, <1>10

LEMMA ShiftCall ==
  ASSUME Powers, NumberFacts, NEW x \in Number!Number, NEW y, NEW n \in 0 .. (Bits * Words - 1)
  PROVE  /\ ExactAt([op |-> "lshift", a |-> x, b |-> y, n |-> n], Number!bignum_lshift(x, n), FALSE)
         /\ ExactAt([op |-> "rshift", a |-> x, b |-> y, n |-> n], Number!bignum_rshift(x, n), FALSE)
<1>1. ExactAt([op |-> "lshift", a |-> x, b |-> y, n |-> n], Number!bignum_lshift(x, n), FALSE)
  <2> DEFINE k == [op |-> "lshift", a |-> x, b |-> y, n |-> n]
  <2>1. k.op = "lshift" /\ k.a = x /\ k.n = n
    OBVIOUS
  <2> HIDE DEF k
  <2>2. MeaningOf(k) = (Number!Val(x) * 2^n) % Number!All
    BY <2>1, MeaningIs
  <2>3. Number!Val(Number!bignum_lshift(x, n)) = (Number!Val(x) * 2^n) % Number!All
    BY LshiftIs
  <2>4. ExactAt(k, Number!bignum_lshift(x, n), FALSE)
    BY <2>2, <2>3 DEF ExactAt
  <2> QED
    BY <2>4 DEF k
<1>2. ExactAt([op |-> "rshift", a |-> x, b |-> y, n |-> n], Number!bignum_rshift(x, n), FALSE)
  <2> DEFINE k == [op |-> "rshift", a |-> x, b |-> y, n |-> n]
  <2>1. k.op = "rshift" /\ k.a = x /\ k.n = n
    OBVIOUS
  <2> HIDE DEF k
  <2>2. MeaningOf(k) = Number!Val(x) \div 2^n
    BY <2>1, MeaningIs
  <2>3. ASSUME n < Bits PROVE Number!Val(Number!bignum_rshift(x, n)) = Number!Val(x) \div 2^n
    <3>1. Bits \in Nat \ {0} /\ n \in Int /\ n >= 0 /\ n \in 0 .. Bits /\ n \in 0 .. (Bits - 1)
      BY <2>3 DEF NumberFacts
    <3>2. n \div Bits = 0
      <4>1. Bits * 0 <= n /\ n < Bits * (0 + 1) /\ 0 \in Int
        BY <2>3, <3>1
      <4> QED
        BY <3>1, <4>1, QuotientIs
    <3>3. n % Bits = n
      <4>1. 0 \in Int /\ n = n - Bits * 0
        BY <3>1
      <4> QED
        BY <3>1, <4>1, Residue
    <3>4. Number!bignum_rshift(x, n) = Number!rshift_bits(x, n)
      BY <3>2, <3>3 DEF Number!bignum_rshift
    <3> QED
      BY <3>1, <3>4, RshiftBitsIs
  <2>4. ExactAt(k, Number!bignum_rshift(x, n), FALSE)
    BY <2>1, <2>2, <2>3 DEF ExactAt
  <2> QED
    BY <2>4 DEF k
<1> QED
  BY <1>1, <1>2

\* The end of bignum_div and of bignum_mod, and the beginning.
LEMMA DivideCall ==
  ASSUME Powers, NumberFacts, NEW k, NEW t, NEW d, NEW z, k.op \in {"div", "mod"},
         Reducing(k.a, k.b, t, Number!zero, d, z)
  PROVE  ExactAt(k, IF k.op = "div" THEN z ELSE Number!bignum_sub(k.a, Number!bignum_mul(z, k.b).product),
                 k.op = "mod" /\ Number!bignum_mul(z, k.b).lost)
<1> DEFINE r == Number!bignum_sub(k.a, Number!bignum_mul(z, k.b).product)
           l == Number!bignum_mul(z, k.b).lost
<1>1. Number!Val(z) = Number!Val(k.a) \div Number!Val(k.b)
      /\ (~l => Number!Val(r) = Number!Val(k.a) % Number!Val(k.b))
  BY DividedIs
<1> HIDE DEF r, l
<1>2. CASE k.op = "div"
  <2>1. MeaningOf(k) = Number!Val(k.a) \div Number!Val(k.b)
    BY <1>2, MeaningIs
  <2> QED
    BY <1>1, <1>2, <2>1 DEF ExactAt
<1>3. CASE k.op = "mod"
  <2>1. MeaningOf(k) = Number!Val(k.a) % Number!Val(k.b)
    BY <1>3, MeaningIs
  <2>2. ExactAt(k, r, l)
    BY <1>1, <2>1 DEF ExactAt
  <2>3. (k.op = "mod" /\ l) <=> l
    BY <1>3
  <2>4. ExactAt(k, r, k.op = "mod" /\ l)
    BY <2>2, <2>3 DEF ExactAt
  <2> QED
    BY <1>3, <2>4 DEF r, l
<1> QED
  BY <1>2, <1>3

LEMMA DivideStart ==
  ASSUME Powers, NumberFacts, NEW x \in Number!Number, NEW y \in Number!Number
  PROVE  Doubling(x, y, x, Number!bignum_from_int(1), y)
<1>1. SingleBit(Number!bignum_from_int(1), 0, 0) /\ Number!Val(Number!bignum_from_int(1)) = 1
  BY OneIsBit
<1>2. Number!bignum_from_int(1) \in Number!Number /\ IsBit(Number!bignum_from_int(1))
  BY <1>1, BitType DEF IsBit
<1>3. Number!Val(y) \in Nat
  BY ValRange
<1>4. Number!Val(y) = Number!Val(y) * Number!Val(Number!bignum_from_int(1))
  BY <1>1, <1>3
<1> QED
  BY <1>2, <1>4 DEF Doubling

\* Each step keeps the invariant.
LEMMA NumberStep ==
  ASSUME Powers, NumberFacts, NumberInv, Number!Next
  PROVE  NumberInv'
<1>1. CASE pc = "idle" /\ (Number!Add \/ Number!Sub \/ Number!Mul \/ Number!Inc \/ Number!Dec)
  <2>1. Number!zero \in Number!Number
    BY ZeroIs
  <2>2. pc' = "done" /\ ExactAt(call', c', lost')
    BY <1>1, <2>1, AddCall DEF Number!Add, Number!Sub, Number!Mul, Number!Inc, Number!Dec,
       Number!Compute, Number!Start
  <2> QED
    BY <2>2 DEF NumberInv
<1>2. CASE pc = "idle" /\ (Number!Lshift \/ Number!Rshift)
  <2>2. pc' = "done" /\ ExactAt(call', c', lost')
    BY <1>2, ShiftCall DEF Number!Lshift, Number!Rshift, Number!Compute, Number!Start
  <2> QED
    BY <2>2 DEF NumberInv
<1>3. CASE Number!Divide
  <2>1. PICK op \in {"div", "mod"}, x, y \in Number!Number :
           /\ call' = [op |-> op, a |-> x, b |-> y, n |-> 0]
           /\ current' = Number!bignum_from_int(1) /\ denom' = y /\ tmp' = x
    BY <1>3 DEF Number!Divide, Number!Start
  <2>2. pc' = "double" /\ call'.op \in {"div", "mod"} /\ call'.a = x /\ call'.b = y
    BY <1>3, <2>1 DEF Number!Divide
  <2>3. Doubling(call'.a, call'.b, tmp', current', denom')
    BY <2>1, <2>2, DivideStart
  <2> QED
    BY <2>2, <2>3 DEF NumberInv
<1>4. CASE Number!Double
  <2>1. Doubling(call.a, call.b, tmp, Number!lshift_bits(current, 1), Number!lshift_bits(denom, 1))
    BY <1>4, DoubleStep DEF Number!Double, NumberInv
  <2>2. pc' = "double" /\ call' = call /\ tmp' = tmp /\ current' = Number!lshift_bits(current, 1)
        /\ denom' = Number!lshift_bits(denom, 1) /\ call.op \in {"div", "mod"}
    BY <1>4 DEF Number!Double, NumberInv
  <2> QED
    BY <2>1, <2>2 DEF NumberInv
<1>5. CASE Number!Overflow
  <2>1. ~(denom[Number!Top] < 1 + Number!MaxVal \div 2) /\ Doubling(call.a, call.b, tmp, current, denom)
    <3> DEFINE h == 1 + Number!MaxVal \div 2
    <3>1. denom[Number!Top] >= h /\ Doubling(call.a, call.b, tmp, current, denom)
      BY <1>5 DEF Number!Overflow, NumberInv
    <3>2. h \in Int /\ denom[Number!Top] \in Int
      BY <3>1 DEF Doubling, Number!Number, NumberFacts
    <3> HIDE DEF h
    <3>3. ~(denom[Number!Top] < h)
      BY <3>1, <3>2
    <3> QED
      BY <3>1, <3>3 DEF h
  <2>2. Reducing(call.a, call.b, tmp, current, denom, Number!zero)
    BY <2>1, OverflowStep
  <2>3. pc' = "reduce" /\ call' = call /\ tmp' = tmp /\ current' = current /\ denom' = denom
        /\ c' = Number!zero /\ call.op \in {"div", "mod"}
    BY <1>5 DEF Number!Overflow, NumberInv, Number!divVars
  <2> QED
    BY <2>2, <2>3 DEF NumberInv
<1>6. CASE Number!Halve
  <2>1. Reducing(call.a, call.b, tmp, Number!rshift_bits(current, 1), Number!rshift_bits(denom, 1), Number!zero)
    BY <1>6, HalveStep DEF Number!Halve, NumberInv
  <2>2. pc' = "reduce" /\ call' = call /\ tmp' = tmp /\ current' = Number!rshift_bits(current, 1)
        /\ denom' = Number!rshift_bits(denom, 1) /\ c' = Number!zero /\ call.op \in {"div", "mod"}
    BY <1>6 DEF Number!Halve, NumberInv
  <2> QED
    BY <2>1, <2>2 DEF NumberInv
<1>7. CASE Number!Reduce
  <2> DEFINE fits == Number!bignum_cmp(tmp, denom) # -1
             t == IF fits THEN Number!bignum_sub(tmp, denom) ELSE tmp
             k == IF fits THEN [i \in Number!Index |-> c[i] + current[i]] ELSE c
  <2>1. Reducing(call.a, call.b, tmp, current, denom, c) /\ current # Number!zero /\ fits \in BOOLEAN
        /\ call.op \in {"div", "mod"}
    BY <1>7 DEF Number!Reduce, NumberInv
  <2>2. pc' = "reduce" /\ call' = call /\ tmp' = t /\ current' = Number!rshift_bits(current, 1)
        /\ denom' = Number!rshift_bits(denom, 1) /\ c' = k
    BY <1>7 DEF Number!Reduce
  <2>3. Reducing(call.a, call.b, t, Number!rshift_bits(current, 1), Number!rshift_bits(denom, 1), k)
    BY <2>1, ReduceStep
  <2> HIDE DEF t, k
  <2> QED
    BY <2>1, <2>2, <2>3 DEF NumberInv
<1>8. CASE Number!EndDivide
  <2>1. Reducing(call.a, call.b, tmp, Number!zero, denom, c) /\ call.op \in {"div", "mod"}
    BY <1>8 DEF Number!EndDivide, NumberInv
  <2>2. ExactAt(call, IF call.op = "div" THEN c ELSE Number!bignum_sub(call.a, Number!bignum_mul(c, call.b).product),
                call.op = "mod" /\ Number!bignum_mul(c, call.b).lost)
    BY <2>1, DivideCall
  <2>3. pc' = "done" /\ ExactAt(call', c', lost')
    BY <1>8, <2>2 DEF Number!EndDivide
  <2> QED
    BY <2>3 DEF NumberInv
<1>9. CASE Number!Return
  BY <1>9 DEF Number!Return, NumberInv
<1> QED
  BY <1>1, <1>2, <1>3, <1>4, <1>5, <1>6, <1>7, <1>8, <1>9 DEF Number!Next

\* For words and numbers of any size: unless a bignum_add in it loses a
\* carry, every function of bn.c computes what bn.h says, and the two loops
\* of bignum_div find the quotient; a bignum_rshift by a word or more does not.
THEOREM BigNumbersAreExact ==
  ASSUME Powers PROVE Spec => []ExactUnlessCarryLost
<1>1. NumberFacts
  BY RoutinesAssumption, Facts
<1>2. Init => NumberInv
  BY DEF Init, Number!Init, NumberInv
<1>3. NumberInv /\ [Next]_vars => NumberInv'
  <2> SUFFICES ASSUME NumberInv, [Next]_vars PROVE NumberInv'
    OBVIOUS
  <2>1. CASE UseNumber
    BY <1>1, <2>1, NumberStep DEF UseNumber
  <2>2. CASE UNCHANGED numberVars
    BY <2>2 DEF numberVars, NumberInv
  <2>3. UseQueue \/ UseCounter \/ UseMap \/ UseText \/ UseReward \/ UNCHANGED vars
          => UNCHANGED numberVars
    BY DEF UseQueue, UseCounter, UseMap, UseText, UseReward, vars
  <2> QED
    BY <2>1, <2>2, <2>3 DEF Next
<1>4. NumberInv => ExactUnlessCarryLost
  <2>1. MeaningOf(call) = Number!Meaning
    BY DEF MeaningOf, Number!Meaning
  <2> QED
    BY <2>1 DEF NumberInv, ExactAt, ExactUnlessCarryLost, Number!ExactUnlessCarryLost
<1> QED
  BY <1>2, <1>3, <1>4, PTL DEF Spec
=============================================================================
