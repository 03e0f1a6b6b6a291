----------------------------- MODULE CoinProof -----------------------------
(***************************************************************************)
(* Coin keeps its promise for any set of transfers, hashes and capacity:   *)
(* no transfer is mined twice.  Each invariant leans on the other: a block *)
(* takes transfers that are only "taken", and MinedMeansInChain says those *)
(* are in no block yet.                                                    *)
(***************************************************************************)
EXTENDS Coin, TLAPS

CoinInv == CoinTypeOK /\ MinedMeansInChain /\ EachMinedOnce

\* What a block of new transfers looks like.
LEMMA ListingsAreDuplicateFree ==
  ASSUME NEW S, S \subseteq Tx, NEW txs \in Listings(S)
  PROVE  /\ txs \in Seq(Tx)
         /\ RangeOf(txs) \subseteq S
         /\ \A i, j \in DOMAIN txs : txs[i] = txs[j] => i = j
<1>1. PICK n \in 0 .. Capacity : txs \in [1 .. n -> S]
  BY DEF Listings
<1>2. n \in Nat
  BY CoinAssumption DEF CoinAssumption
<1>3. txs \in Seq(Tx)
  BY <1>1, <1>2
<1> QED
  BY <1>1, <1>3 DEF Listings, RangeOf

LEMMA CoinInitInv == Init => CoinInv
  BY DEF Init, CoinInv, CoinTypeOK, MinedMeansInChain, EachMinedOnce, Fate

\* Steps that leave the chain alone keep the invariant, as long as they move
\* no transfer into or out of "mined".
LEMMA FatesOnly ==
  ASSUME CoinInv, UNCHANGED chain,
         NEW S \in SUBSET Tx, S \cap In("mined") = {},
         NEW state \in Fate \ {"mined"}, Move(S, state)
  PROVE  CoinInv'
<1>1. CoinTypeOK'
  BY DEF CoinInv, CoinTypeOK, Move
<1>2. \A x \in Tx : life'[x] = "mined" <=> life[x] = "mined"
  BY DEF Move, In
<1>3. MinedMeansInChain'
  BY <1>2 DEF CoinInv, MinedMeansInChain, RangeOf
<1>4. EachMinedOnce'
  BY DEF CoinInv, EachMinedOnce
<1> QED
  BY <1>1, <1>3, <1>4 DEF CoinInv

\* A block on top keeps it: its transfers are in no block yet.
LEMMA ExtendInv ==
  ASSUME CoinInv, NEW h \in BlockHash, NEW txs \in Listings(In("taken")), Extend(h, txs)
  PROVE  CoinInv'
<1> DEFINE b == [hash |-> h, lasthash |-> Tip.hash, txs |-> txs]
           n == Len(chain)
<1>1. /\ txs \in Seq(Tx)
      /\ RangeOf(txs) \subseteq In("taken")
      /\ \A i, j \in DOMAIN txs : txs[i] = txs[j] => i = j
  BY ListingsAreDuplicateFree DEF In
<1>2. /\ chain \in Seq([hash : BlockHash, lasthash : BlockHash, txs : Seq(Tx)])
      /\ n \in Nat \ {0}
      /\ DOMAIN chain = 1 .. n
  BY DEF Extend, CoinInv, CoinTypeOK
<1>3. Tip \in [hash : BlockHash, lasthash : BlockHash, txs : Seq(Tx)]
  <2> DEFINE B == [hash : BlockHash, lasthash : BlockHash, txs : Seq(Tx)]
  <2> SUFFICES chain[n] \in B
    BY DEF Tip
  <2>1. chain \in Seq(B) /\ n \in 1 .. Len(chain)
    BY <1>2
  <2> HIDE DEF B
  <2> QED
    BY <2>1
<1>4. b \in [hash : BlockHash, lasthash : BlockHash, txs : Seq(Tx)]
  BY <1>1, <1>3
<1>5. /\ DOMAIN chain' = 1 .. n + 1
      /\ chain'[n + 1] = b
      /\ chain'[n + 1].txs = txs
      /\ \A i \in 1 .. n : chain'[i] = chain[i]
  <2>1. chain' = Append(chain, b)
    BY DEF Extend
  <2>2. b.txs = txs
    OBVIOUS
  <2> HIDE DEF b
  <2> QED
    BY <1>2, <1>4, <2>1, <2>2
<1>6. life' = [x \in Tx |-> IF x \in RangeOf(txs) THEN "mined" ELSE life[x]]
  BY DEF Extend, Move
<1>7. CoinTypeOK'
  <2>1. chain' = Append(chain, b)
    BY DEF Extend
  <2> HIDE DEF b
  <2> QED
    BY <1>2, <1>4, <1>6, <2>1 DEF CoinInv, CoinTypeOK, Fate
<1>8. \A i \in 1 .. n : \A k \in DOMAIN chain[i].txs : chain[i].txs[k] \notin RangeOf(txs)
  <2> SUFFICES ASSUME NEW i \in 1 .. n, NEW k \in DOMAIN chain[i].txs,
                      chain[i].txs[k] \in RangeOf(txs)
               PROVE  FALSE
    OBVIOUS
  <2>1. chain[i].txs[k] \in Tx /\ chain[i].txs[k] \in RangeOf(chain[i].txs)
    BY <1>1 DEF RangeOf, In
  <2>2. life[chain[i].txs[k]] = "mined"
    BY <1>2, <2>1 DEF CoinInv, MinedMeansInChain
  <2>3. life[chain[i].txs[k]] = "taken"
    BY <1>1 DEF In
  <2> QED
    BY <2>2, <2>3
<1>9. MinedMeansInChain'
  <2> SUFFICES ASSUME NEW x \in Tx
               PROVE  life'[x] = "mined" <=> \E i \in DOMAIN chain' : x \in RangeOf(chain'[i].txs)
    BY DEF MinedMeansInChain, RangeOf
  <2>1. life[x] = "mined" <=> \E i \in 1 .. n : x \in RangeOf(chain[i].txs)
    BY <1>2 DEF CoinInv, MinedMeansInChain
  <2>2. life'[x] = "mined" <=> x \in RangeOf(txs) \/ life[x] = "mined"
    BY <1>6
  <2>3. (\E i \in 1 .. n + 1 : x \in RangeOf(chain'[i].txs))
          <=> x \in RangeOf(txs) \/ \E i \in 1 .. n : x \in RangeOf(chain[i].txs)
    <3>1. \A i \in 1 .. n : RangeOf(chain'[i].txs) = RangeOf(chain[i].txs)
      BY <1>5
    <3>2. RangeOf(chain'[n + 1].txs) = RangeOf(txs)
      BY <1>5
    <3>3. \A i \in 1 .. n + 1 : i \in 1 .. n \/ i = n + 1
      BY <1>2
    <3>4. 1 .. n \subseteq 1 .. n + 1 /\ n + 1 \in 1 .. n + 1
      BY <1>2
    <3> QED
      BY <3>1, <3>2, <3>3, <3>4
  <2> QED
    BY <1>5, <2>1, <2>2, <2>3
<1>10. EachMinedOnce'
  <2> SUFFICES ASSUME NEW i \in 1 .. n + 1, NEW j \in 1 .. n + 1,
                      NEW k \in DOMAIN chain'[i].txs, NEW l \in DOMAIN chain'[j].txs,
                      chain'[i].txs[k] = chain'[j].txs[l]
               PROVE  i = j /\ k = l
    BY <1>5 DEF EachMinedOnce
  <2>1. CASE i \in 1 .. n /\ j \in 1 .. n
    <3>1. i \in DOMAIN chain /\ j \in DOMAIN chain
      BY <1>2, <2>1
    <3>2. chain'[i] = chain[i] /\ chain'[j] = chain[j]
      BY <1>5, <2>1
    <3> QED
      BY <3>1, <3>2 DEF CoinInv, EachMinedOnce
  <2>2. CASE i = n + 1 /\ j = n + 1
    BY <1>1, <1>5, <2>2
  <2>3. CASE i \in 1 .. n /\ j = n + 1
    BY <1>5, <1>8, <2>3 DEF RangeOf
  <2>4. CASE i = n + 1 /\ j \in 1 .. n
    BY <1>5, <1>8, <2>4 DEF RangeOf
  <2> QED
    BY <1>2, <2>1, <2>2, <2>3, <2>4
<1> QED
  BY <1>7, <1>9, <1>10 DEF CoinInv

LEMMA FoundInv == ASSUME CoinInv, Found PROVE CoinInv'
<1>1. CoinTypeOK'
  BY CoinAssumption DEF Found, CoinInv, CoinTypeOK, CoinAssumption
<1>2. \A i \in DOMAIN chain' : RangeOf(chain'[i].txs) = {} /\ DOMAIN chain'[i].txs = {}
  BY DEF Found, RangeOf
<1>3. MinedMeansInChain'
  BY <1>2 DEF Found, CoinInv, MinedMeansInChain, RangeOf
<1>4. EachMinedOnce'
  BY <1>2 DEF EachMinedOnce
<1> QED
  BY <1>1, <1>3, <1>4 DEF CoinInv

LEMMA CoinStepInv == CoinInv /\ [Next]_vars => CoinInv'
<1> SUFFICES ASSUME CoinInv, [Next]_vars PROVE CoinInv'
  OBVIOUS
<1>1. CASE Found
  BY <1>1, FoundInv
<1>2. ASSUME NEW h \in BlockHash, NEW txs \in Listings(In("taken")), Extend(h, txs)
      PROVE  CoinInv'
  BY <1>2, ExtendInv
<1>3. ASSUME NEW x \in Tx, Submit(x) PROVE CoinInv'
  BY <1>3, FatesOnly DEF Submit, In, Fate
<1>4. ASSUME NEW x \in Tx, Accept(x) PROVE CoinInv'
  BY <1>4, FatesOnly DEF Accept, In, Fate
<1>5. ASSUME NEW x \in Tx, Take(x) PROVE CoinInv'
  BY <1>5, FatesOnly DEF Take, In, Fate
<1>6. ASSUME NEW S \in SUBSET Tx, Drop(S) PROVE CoinInv'
  BY <1>6, FatesOnly DEF Drop, In, Fate
<1>7. CASE UNCHANGED vars
  BY <1>7 DEF vars, CoinInv, CoinTypeOK, MinedMeansInChain, EachMinedOnce, RangeOf
<1> QED
  BY <1>1, <1>2, <1>3, <1>4, <1>5, <1>6, <1>7 DEF Next

\* No transfer is ever in two blocks, nor twice in one, whatever the sets of
\* transfers and hashes: a node that implements Coin never spends one twice.
THEOREM MinedAtMostOnce == Spec => [](EachMinedOnce /\ MinedMeansInChain)
<1>1. CoinInv => EachMinedOnce /\ MinedMeansInChain
  BY DEF CoinInv
<1> QED
  BY CoinInitInv, CoinStepInv, <1>1, PTL DEF Spec
=============================================================================
