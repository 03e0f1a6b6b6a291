------------------------------ MODULE PoolSize ------------------------------
(***************************************************************************)
(* The counter txpool_size_ of txpool.c, which /status reports.  The RPC   *)
(* thread and the miner change it without a lock, and not in the same step *)
(* as the queue it counts.  An offer and a poll are one step each here, as *)
(* module TxQueue looks into them.                                         *)
(***************************************************************************)
EXTENDS Integers

CONSTANT MaxOffers   \* bound: transfers offered in a behaviour

PoolSizeAssumption == MaxOffers \in Nat

Thread == {"rpc", "miner"}

VARIABLES
  pooled,   \* items in transaction_pool
  size,     \* txpool_size_
  pc, read, \* where a thread is; what it read from the counter
  fresh,    \* history: nobody wrote since the thread read
  raced,    \* history: a thread wrote what it had made of an old reading
  offers

vars == <<pooled, size, pc, read, fresh, raced, offers>>

Goto(t, label) == pc' = [pc EXCEPT ![t] = label]

Load(t) == read' = [read EXCEPT ![t] = size] /\ fresh' = [fresh EXCEPT ![t] = TRUE]

Save(t, value) ==
  /\ size' = value
  /\ fresh' = [u \in Thread |-> fresh[u] /\ u = t]
  /\ raced' = (raced \/ ~fresh[t])
-----------------------------------------------------------------------------
\* txpool_add: txpool_size_++, then llqueue_offer.
ReadUp ==
  /\ pc["rpc"] = "idle" /\ offers < MaxOffers
  /\ offers' = offers + 1
  /\ Load("rpc") /\ Goto("rpc", "up")
  /\ UNCHANGED <<pooled, size, raced>>

WriteUp ==
  /\ pc["rpc"] = "up"
  /\ Save("rpc", read["rpc"] + 1) /\ Goto("rpc", "offer")
  /\ UNCHANGED <<pooled, read, offers>>

Offer ==
  /\ pc["rpc"] = "offer"
  /\ pooled' = pooled + 1
  /\ Goto("rpc", "idle")
  /\ UNCHANGED <<size, read, fresh, raced, offers>>

\* Mutant: what an empty pool gives is counted too.
Poll_CountNull(t) ==
  /\ pc[t] = "idle"
  /\ pooled' = IF pooled = 0 THEN 0 ELSE pooled - 1
  /\ Goto(t, "polled")
  /\ UNCHANGED <<size, read, fresh, raced, offers>>

\* txpool_get: llqueue_poll, then txpool_size_-- if there was an item.
Poll(t) ==
  /\ pc[t] = "idle" /\ pooled > 0
  /\ pooled' = pooled - 1
  /\ Goto(t, "polled")
  /\ UNCHANGED <<size, read, fresh, raced, offers>>

ReadDown(t) ==
  /\ pc[t] = "polled"
  /\ Load(t) /\ Goto(t, "down")
  /\ UNCHANGED <<pooled, size, raced, offers>>

WriteDown(t) ==
  /\ pc[t] = "down"
  /\ Save(t, read[t] - 1) /\ Goto(t, "idle")
  /\ UNCHANGED <<pooled, read, offers>>

Init ==
  /\ pooled = 0 /\ size = 0 /\ offers = 0 /\ raced = FALSE
  /\ pc = [t \in Thread |-> "idle"] /\ read = [t \in Thread |-> 0]
  /\ fresh = [t \in Thread |-> FALSE]

Next ==
  \/ ReadUp \/ WriteUp \/ Offer
  \/ \E t \in Thread : Poll(t) \/ ReadDown(t) \/ WriteDown(t)

Spec == Init /\ [][Next]_vars
-----------------------------------------------------------------------------
\* Items the counter has, rightly, apart from those in the queue: an offer
\* is counted before it is made, a poll after.
OnTheWay ==
  (IF pc["rpc"] = "offer" THEN 1 ELSE 0)
    + (IF pc["rpc"] \in {"polled", "down"} THEN 1 ELSE 0)
    + (IF pc["miner"] \in {"polled", "down"} THEN 1 ELSE 0)

Error == size - pooled - OnTheWay

\* The size /status reports is right until two updates overlap, and then
\* counts each transfer from the moment before its offer to the moment after
\* its poll; without an overlap it is never negative.
SizeIsRightUntilRace == ~raced => Error = 0
=============================================================================
