-------------------------------- MODULE Coin --------------------------------
(***************************************************************************)
(* What a node promises, without threads, tables or difficulty: a chain    *)
(* that only grows at its end, and one fate for each transfer.  A transfer *)
(* is accepted at most once, leaves the pool at most once, and ends in one *)
(* block or nowhere.  Module Node implements this specification.           *)
(***************************************************************************)
EXTENDS Integers, Sequences

CONSTANTS
  Tx,          \* transfers
  BlockHash,   \* hashes a block can have
  GenesisHash, \* the one of block 0
  Capacity     \* transfers that fit into a block beside the coinbase

ASSUME CoinAssumption == GenesisHash \in BlockHash /\ Capacity \in Nat

VARIABLES
  chain,   \* the blocks in order: [hash, lasthash, txs]
  life     \* how far each transfer has come

vars == <<chain, life>>

Fate == {"new", "checking", "pooled", "taken", "mined", "dropped"}

In(state) == {x \in Tx : life[x] = state}

Move(S, state) == life' = [x \in Tx |-> IF x \in S THEN state ELSE life[x]]

\* The orders in which the transfers of a block can come.
Listings(S) ==
  {s \in UNION {[1 .. n -> S] : n \in 0 .. Capacity} :
     \A i, j \in DOMAIN s : s[i] = s[j] => i = j}

RangeOf(s) == {s[i] : i \in DOMAIN s}

Tip == chain[Len(chain)]
-----------------------------------------------------------------------------
\* The genesis block.
Found ==
  /\ chain = <<>>
  /\ chain' = <<[hash |-> GenesisHash, lasthash |-> GenesisHash, txs |-> <<>>]>>
  /\ UNCHANGED life

\* A new block goes on top of the newest one, with transfers nobody else has.
Extend(h, txs) ==
  /\ chain # <<>>
  /\ \A i \in DOMAIN chain : chain[i].hash # h
  /\ chain' = Append(chain, [hash |-> h, lasthash |-> Tip.hash, txs |-> txs])
  /\ Move(RangeOf(txs), "mined")

Submit(x) == life[x] = "new" /\ Move({x}, "checking") /\ UNCHANGED chain

Accept(x) == life[x] = "checking" /\ Move({x}, "pooled") /\ UNCHANGED chain

\* Mutant: a transfer can come back out of a block.
Take_Again(x) == life[x] \in {"pooled", "mined"} /\ Move({x}, "taken") /\ UNCHANGED chain

Take(x) == life[x] = "pooled" /\ Move({x}, "taken") /\ UNCHANGED chain

\* Refused for want of balance, polled for a block that never came to be, or
\* in memory when the process died.
Drop(S) ==
  /\ S # {} /\ S \subseteq In("checking") \cup In("pooled") \cup In("taken")
  /\ Move(S, "dropped")
  /\ UNCHANGED chain

Init == chain = <<>> /\ life = [x \in Tx |-> "new"]

Next ==
  \/ Found
  \/ \E h \in BlockHash, txs \in Listings(In("taken")) : Extend(h, txs)
  \/ \E x \in Tx : Submit(x) \/ Accept(x) \/ Take(x)
  \/ \E S \in SUBSET Tx : Drop(S)

Spec == Init /\ [][Next]_vars
-----------------------------------------------------------------------------
CoinTypeOK ==
  /\ chain \in Seq([hash : BlockHash, lasthash : BlockHash, txs : Seq(Tx)])
  /\ life \in [Tx -> Fate]

\* No transfer is in two blocks of the chain, nor twice in one: what keeps
\* a transfer from being spent twice, as write_block itself never looks.
EachMinedOnce ==
  \A i, j \in DOMAIN chain : \A k \in DOMAIN chain[i].txs, l \in DOMAIN chain[j].txs :
    chain[i].txs[k] = chain[j].txs[l] => i = j /\ k = l

\* Exactly the transfers in blocks are settled, so a transfer dropped from
\* memory is never found in the chain.
MinedMeansInChain ==
  \A x \in Tx : life[x] = "mined" <=> \E i \in DOMAIN chain : x \in RangeOf(chain[i].txs)
=============================================================================
