------------------------------- MODULE Height -------------------------------
(***************************************************************************)
(* get_height in small steps.  It puts the length it queried into the      *)
(* global _mainchain_length, runs a second query and then returns the      *)
(* global, which every other thread may have set in the meantime to the    *)
(* result of an older query of its own.  Modules above this one take the   *)
(* call as one step; this one says when that is right, and what the miner, *)
(* whose round calls it three times, does to the chain when it is not.     *)
(***************************************************************************)
EXTENDS Integers, Sequences, FiniteSetsExt

CONSTANTS
  Caller,   \* the threads that call get_height, besides "miner"
  MaxRows   \* bound: rows of the main chain

ASSUME HeightAssumption == "miner" \notin Caller /\ MaxRows \in Nat \ {0}

VARIABLES
  rows,       \* the main chain's rows: id, and the row the block builds on
  mainlen,    \* _mainchain_length
  pc, len,    \* where a call is, and what its query found
  got,        \* what it returned
  stage, tip, \* what the miner's round does with it; the row it builds on
  overtaken,  \* another call stored its length behind this one's
  stale       \* the miner was once given less than its own query found

calls == <<mainlen, pc, len, got, overtaken, stale>>
round == <<rows, stage, tip>>
vars == <<calls, round>>

Thread == Caller \cup {"miner"}
Ids == {rows[i].id : i \in DOMAIN rows}

\* get_blockchain_length(1)
MainLength == Max(Ids) + 1

\* read_block: of two rows with one id, the callback sees the newer one last.
RowAt(id) == Max({i \in DOMAIN rows : rows[i].id = id})
-----------------------------------------------------------------------------
(* get_height *)

Query(t) ==
  /\ pc[t] = "idle"
  /\ len' = [len EXCEPT ![t] = MainLength]
  /\ overtaken' = [overtaken EXCEPT ![t] = FALSE]
  /\ pc' = [pc EXCEPT ![t] = "store"]
  /\ UNCHANGED <<mainlen, got, stale, round>>

\* Mutant: the length of the empty alternate chain ends up in the global.
Store_Swapped(t) ==
  /\ pc[t] = "store"
  /\ mainlen' = 1
  /\ overtaken' = [u \in Thread |-> overtaken[u] \/ (u # t /\ pc[u] = "alt")]
  /\ pc' = [pc EXCEPT ![t] = "alt"]
  /\ UNCHANGED <<len, got, stale, round>>

Store(t) ==
  /\ pc[t] = "store"
  /\ mainlen' = len[t]
  /\ overtaken' = [u \in Thread |-> overtaken[u] \/ (u # t /\ pc[u] = "alt")]
  /\ pc' = [pc EXCEPT ![t] = "alt"]
  /\ UNCHANGED <<len, got, stale, round>>

\* The alternate chain has been queried; the global is read again.
Return(t) ==
  /\ pc[t] = "alt"
  /\ got' = [got EXCEPT ![t] = mainlen]
  /\ stale' = (stale \/ (t = "miner" /\ mainlen < len[t]))
  /\ pc' = [pc EXCEPT ![t] = IF t = "miner" THEN "use" ELSE "idle"]
  /\ UNCHANGED <<mainlen, len, overtaken, round>>
-----------------------------------------------------------------------------
(* The miner's round *)

Resume(next) == pc' = [pc EXCEPT !["miner"] = "idle"] /\ stage' = next

At(place) == pc["miner"] = "use" /\ stage = place

\* Mutant: the block below the tip.
ReadTip_Below ==
  /\ At("tip") /\ Resume("verify")
  /\ tip' = RowAt(Max({got["miner"] - 2, 0}))
  /\ UNCHANGED <<rows, mainlen, len, got, overtaken, stale>>

\* get_block_template
ReadTip ==
  /\ At("tip") /\ Resume("verify")
  /\ tip' = RowAt(got["miner"] - 1)
  /\ UNCHANGED <<rows, mainlen, len, got, overtaken, stale>>

\* verify_block looks for the tip again.
Verify ==
  /\ At("verify")
  /\ Resume(IF RowAt(got["miner"] - 1) = tip THEN "id" ELSE "tip")
  /\ UNCHANGED <<rows, tip, mainlen, len, got, overtaken, stale>>

\* Mutant: the id of the tip.
Insert_AtTip ==
  /\ At("id") /\ Resume("tip")
  /\ Len(rows) < MaxRows
  /\ rows' = Append(rows, [id |-> got["miner"] - 1, on |-> tip])
  /\ UNCHANGED <<tip, mainlen, len, got, overtaken, stale>>

\* Mutant: an id is left out.
Insert_Skip ==
  /\ At("id") /\ Resume("tip")
  /\ Len(rows) < MaxRows
  /\ rows' = Append(rows, [id |-> got["miner"] + 1, on |-> tip])
  /\ UNCHANGED <<tip, mainlen, len, got, overtaken, stale>>

\* write_block(1, get_height(), &b)
Insert ==
  /\ At("id") /\ Resume("tip")
  /\ Len(rows) < MaxRows
  /\ rows' = Append(rows, [id |-> got["miner"], on |-> tip])
  /\ UNCHANGED <<tip, mainlen, len, got, overtaken, stale>>

\* The node has just loaded a chain that is genesis only.
Init ==
  /\ rows = <<[id |-> 0, on |-> 0]>> /\ mainlen = 1
  /\ pc = [t \in Thread |-> "idle"] /\ stage = "tip" /\ tip = 1
  /\ len = [t \in Thread |-> 1] /\ got = [t \in Thread |-> 1]
  /\ overtaken = [t \in Thread |-> FALSE] /\ stale = FALSE

Next == (\E t \in Thread : Query(t) \/ Store(t) \/ Return(t))
          \/ ReadTip \/ Verify \/ Insert

Spec == Init /\ [][Next]_vars
-----------------------------------------------------------------------------
TypeOK ==
  /\ rows \in Seq([id : Nat, on : Nat]) /\ rows # <<>>
  /\ mainlen \in Nat \ {0} /\ tip \in DOMAIN rows
  /\ pc \in [Thread -> {"idle", "store", "alt", "use"}]
  /\ len \in [Thread -> Nat \ {0}] /\ got \in [Thread -> Nat \ {0}]
  /\ stage \in {"tip", "verify", "id"}
  /\ overtaken \in [Thread -> BOOLEAN] /\ stale \in BOOLEAN

\* However the calls overlap, no thread is told of a block that is not there:
\* read_block always finds the row below the height.
NeverAhead == mainlen <= MainLength /\ \A t \in Thread : got[t] <= MainLength

\* A call returns less than it queried only if another thread's store came
\* in between its own store and its return.
StaleOnlyIfOvertaken ==
  \A t \in Thread : pc[t] = "alt" /\ mainlen < len[t] => overtaken[t]

\* What get_height returns: never too much, and too little only then.
HeightIsRecent == NeverAhead /\ StaleOnlyIfOvertaken

\* With duplicates or without, the ids of the main chain have no gap.
NoGaps == Ids = 0 .. Max(Ids)

\* Every block has the next id and builds on the block before it, unless the
\* miner was given a stale height: then ids repeat and links break.
GoodUnlessStale ==
  stale \/ \A i \in DOMAIN rows : rows[i].id = i - 1 /\ rows[i].on = i - 1

\* The miner throws a block away (mining.c:19) only after a stale height.
RejectsOnlyIfStale == [][stage = "verify" /\ stage' = "tip" => stale]_vars
=============================================================================
