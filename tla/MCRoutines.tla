----------------------------- MODULE MCRoutines -----------------------------
(***************************************************************************)
(* The routines the node is built from, each on its own: the queue of the  *)
(* pool and its counter, the map, the big numbers, base32 and the reward   *)
(* schedule.  They share no state; a behaviour is one of a single routine, *)
(* chosen at the start, while the others rest.                             *)
(***************************************************************************)
EXTENDS Integers

CONSTANTS
  Item, Address, NULL, MaxOffers, Key, Value, Bits, Words, Byte, Size, Width,
  Word, TargetTime, MaxHash, StartReward, FloorReward, Era, LastHeight

VARIABLES
  routine,  \* the one that is used
  head, tail, item, next, live, queuePc, node, other, got,
  offered, taken, pollers, clashed, damaged,
  pooled, poolSize, sizePc, read, fresh, raced, offers,
  first, size, key, value, succ, used, answer,
  pc, call, c, current, denom, tmp, lost,
  place, data, text, buffer, bitsLeft, char, payto, count, copied, asked, due, torn,
  height, reward

Queue == INSTANCE TxQueue WITH pc <- queuePc
Counter == INSTANCE PoolSize WITH pc <- sizePc, size <- poolSize
Map == INSTANCE SortedMap WITH head <- first, next <- succ, live <- used
Number == INSTANCE BigNum
Text == INSTANCE Base32 WITH next <- char
Reward == INSTANCE Emission

ASSUME RoutinesAssumption ==
  /\ Queue!TxQueueAssumption /\ Counter!PoolSizeAssumption /\ Map!SortedMapAssumption
  /\ Number!BigNumAssumption /\ Text!Base32Assumption
  /\ StartReward \in Nat /\ FloorReward \in 0 .. StartReward /\ Era \in Nat \ {0}

queueVars == <<head, tail, item, next, live, queuePc, node, other, got,
               offered, taken, pollers, clashed, damaged>>
counterVars == <<pooled, poolSize, sizePc, read, fresh, raced, offers>>
mapVars == <<first, size, key, value, succ, used, answer>>
numberVars == <<pc, call, c, current, denom, tmp, lost>>
textVars == <<place, data, text, buffer, bitsLeft, char, payto, count, copied, asked, due, torn>>
rewardVars == <<height, reward>>

Init ==
  /\ routine \in {"queue", "counter", "map", "number", "text", "reward"}
  /\ Queue!Init /\ Counter!Init /\ Map!Init /\ Number!Init /\ Text!Init /\ Reward!Init

UseQueue ==
  /\ routine = "queue" /\ Queue!Next
  /\ UNCHANGED <<routine, counterVars, mapVars, numberVars, textVars, rewardVars>>

UseCounter ==
  /\ routine = "counter" /\ Counter!Next
  /\ UNCHANGED <<routine, queueVars, mapVars, numberVars, textVars, rewardVars>>

UseMap ==
  /\ routine = "map" /\ Map!Next
  /\ UNCHANGED <<routine, queueVars, counterVars, numberVars, textVars, rewardVars>>

UseNumber ==
  /\ routine = "number" /\ Number!Next
  /\ UNCHANGED <<routine, queueVars, counterVars, mapVars, textVars, rewardVars>>

UseText ==
  /\ routine = "text" /\ Text!Next
  /\ UNCHANGED <<routine, queueVars, counterVars, mapVars, numberVars, rewardVars>>

UseReward ==
  /\ routine = "reward" /\ Reward!Grow
  /\ UNCHANGED <<routine, queueVars, counterVars, mapVars, numberVars, textVars>>

Next == UseQueue \/ UseCounter \/ UseMap \/ UseNumber \/ UseText \/ UseReward

vars == <<routine, queueVars, counterVars, mapVars, numberVars, textVars, rewardVars>>

Spec == Init /\ [][Next]_vars /\ Number!Fairness
-----------------------------------------------------------------------------
\* TxQueue: two threads lose or double nothing until they meet at a node.
OnlyClashesHurt == Queue!OnlyClashesHurt

\* TxQueue: a single poller takes no transfer twice.
TakenOnce == Queue!TakenOnce

\* TxQueue: until two threads meet, llqueue_offer and llqueue_poll are a queue's.
ImplementsFifo == Queue!ImplementsFifo

\* PoolSize: txpool_size_ is right until two updates of it overlap.
SizeIsRightUntilRace == Counter!SizeIsRightUntilRace

\* SortedMap: map_get, map_set, map_del and map_size are those of a finite function.
ImplementsKeyValue == Map!ImplementsKeyValue

\* BigNum: the functions of bn.c compute what bn.h says, with two exceptions.
ExactUnlessCarryLost == Number!ExactUnlessCarryLost

\* BigNum: bignum_div returns for every divisor but 0.
DivisionEnds == Number!DivisionEnds

\* Base32: a block pays the address that was asked for, with two exceptions.
PaysWhatWasAsked == Text!PaysWhatWasAsked

\* Emission: the reward rises only to the floor.
RisesOnlyToFloor == Reward!RisesOnlyToFloor
=============================================================================
