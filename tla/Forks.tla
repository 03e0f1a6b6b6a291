------------------------------- MODULE Forks -------------------------------
(***************************************************************************)
(* The rows of table blocks that are not on chain 1, and the thread that   *)
(* deletes them (chain.c).  Nothing in the program writes such a row yet:  *)
(* the caller that gives write_block a chain other than 1 is external.     *)
(* Times count in units of the two minutes cleanup_thread sleeps.          *)
(***************************************************************************)
EXTENDS Integers, FiniteSetsExt

CONSTANTS
  OrphanAge, ChainAge,  \* 120 and 600 seconds
  Span,                 \* number of values of a uint64_t (2^64)
  Garbage,              \* what an uninitialised length may hold
  LastWrite, LastTime,  \* bounds: callers write until then, the clock runs until then
  MaxRows, MaxChain     \* bounds: rows at a time, the greatest number of a chain

ForksAssumption ==
  /\ OrphanAge \in Nat /\ ChainAge \in Nat /\ OrphanAge < ChainAge
  /\ LastWrite \in Nat /\ LastTime \in Nat /\ MaxRows \in Nat /\ MaxChain \in Nat
  /\ Span \in Nat /\ Span > 2 * (ChainAge + LastTime)
  /\ Garbage \subseteq Nat

VARIABLES
  rows,     \* rows of table blocks not on chain 1: [chain, id, time]
  now,      \* time(NULL)
  todo,     \* _internal_chains from entry i on
  place,    \* where cleanup_thread is: "sleep", "next", "orphan", "purge"
  entry,    \* all_chains[i] and lastblocktime[i]
  base,     \* the result of get_blockchain_base
  isorphan,
  young     \* history: chains started since the list was made

vars == <<rows, now, todo, place, entry, base, isorphan, young>>

RowsOf(k) == {r \in rows : r.chain = k}
Alternate == {r.chain : r \in rows}

\* The difference of two uint64_t: a block stamped in the future is old.
Age(time) == (now - time) % Span

\* Chain 1 is never empty.
new_chain_id == Max({1} \cup Alternate) + 1

\* A caller of write_block (external) starts a chain, or extends one.
Write(k, id) ==
  /\ now <= LastWrite /\ Cardinality(rows) < MaxRows
  /\ \E time \in 0 .. (now + 1) :
       rows' = rows \cup {[chain |-> k, id |-> id, time |-> time]}

NewChain ==
  /\ new_chain_id <= MaxChain
  /\ Write(new_chain_id, 1)
  /\ young' = young \cup {new_chain_id}
  /\ UNCHANGED <<now, todo, place, entry, base, isorphan>>

Extend ==
  /\ \E k \in Alternate : Write(k, Max({r.id : r \in RowsOf(k)}) + 1)
  /\ UNCHANGED <<now, todo, place, entry, base, isorphan, young>>

Tick ==
  /\ now < LastTime
  /\ now' = now + 1
  /\ UNCHANGED <<rows, todo, place, entry, base, isorphan, young>>
-----------------------------------------------------------------------------
(* periodic_cleanup, by cleanup_thread *)

NoEntry == [chain |-> 0, time |-> 0]

\* One entry for each distinct pair of a chain and a time, in the order the
\* database likes.
List ==
  /\ place = "sleep"
  /\ todo' = {[chain |-> r.chain, time |-> r.time] : r \in rows}
  /\ place' = "next"
  /\ young' = {}
  /\ UNCHANGED <<rows, now, entry, base, isorphan>>

\* get_blockchain_base leaves its result unset when the chain has no row.
ReadBase ==
  /\ place = "next"
  /\ \E e \in todo :
       /\ entry' = e
       /\ todo' = todo \ {e}
       /\ base' \in IF RowsOf(e.chain) = {} THEN Garbage
                    ELSE {Min({r.id : r \in RowsOf(e.chain)})}
  /\ place' = "orphan"
  /\ UNCHANGED <<rows, now, isorphan, young>>

\* chain_is_orphan finds the second block of the chain.
IsOrphan ==
  /\ place = "orphan"
  /\ isorphan' = \E r \in RowsOf(entry.chain) : r.id = base + 1
  /\ place' = "purge"
  /\ UNCHANGED <<rows, now, todo, entry, base, young>>

\* Mutant: an orphan is the only thing that is ever deleted.
Purge_OrphansOnly ==
  /\ place = "purge"
  /\ rows' = IF isorphan /\ Age(entry.time) > OrphanAge
             THEN rows \ RowsOf(entry.chain) ELSE rows
  /\ place' = "next"
  /\ UNCHANGED <<now, todo, entry, base, isorphan, young>>

\* Mutant: an orphan is deleted without a look at its age.
Purge_Ageless ==
  /\ place = "purge"
  /\ rows' = IF isorphan \/ Age(entry.time) > ChainAge
             THEN rows \ RowsOf(entry.chain) ELSE rows
  /\ place' = "next"
  /\ UNCHANGED <<now, todo, entry, base, isorphan, young>>

Purge ==
  /\ place = "purge"
  /\ rows' = IF (isorphan /\ Age(entry.time) > OrphanAge) \/ Age(entry.time) > ChainAge
             THEN rows \ RowsOf(entry.chain) ELSE rows
  /\ place' = "next"
  /\ UNCHANGED <<now, todo, entry, base, isorphan, young>>

Sleep ==
  /\ place = "next" /\ todo = {}
  /\ place' = "sleep"
  /\ entry' = NoEntry /\ base' = 0 /\ isorphan' = FALSE
  /\ UNCHANGED <<rows, now, todo, young>>

Cleanup == List \/ ReadBase \/ IsOrphan \/ Purge \/ Sleep

Init ==
  /\ rows = {} /\ now = 0 /\ todo = {} /\ young = {}
  /\ place = "sleep" /\ entry = NoEntry /\ base = 0 /\ isorphan = FALSE

Next == NewChain \/ Extend \/ Tick \/ Cleanup

Spec == Init /\ [][Next]_vars
-----------------------------------------------------------------------------
Deleted(k) == RowsOf(k) # {} /\ rows' = rows \ RowsOf(k)

\* A chain of which no block is two minutes old is deleted only when its
\* number is that of a chain the same round had listed, and deleted, before
\* it was started: new_chain_id gives numbers again.
YoungChainsStay ==
  [][\A k \in Alternate :
       Deleted(k) /\ (\A r \in RowsOf(k) : Age(r.time) <= OrphanAge) => k \in young]_vars

\* Every alternate chain goes in the end, however often it is extended: one
\* of its rows is always the oldest.
ChainsGo ==
  \A k \in 2 .. MaxChain : k \in Alternate ~> k \notin Alternate

\* chain.c:173, "delete alternate chains older than 10 minutes": a chain
\* that is not an orphan, having a second block, stays as long as all its
\* blocks are younger.
AlternateChainsStayTenMinutes ==
  [][\A k \in Alternate :
       Deleted(k) /\ Cardinality({r.id : r \in RowsOf(k)}) > 1 =>
         \E r \in RowsOf(k) : now - r.time \notin 0 .. ChainAge]_vars
=============================================================================
