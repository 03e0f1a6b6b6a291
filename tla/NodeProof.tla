----------------------------- MODULE NodeProof -----------------------------
(***************************************************************************)
(* First what the statements of chain.c return and preserve on a database  *)
(* whose rows are one chain on genesis, and that the retarget of pow.c     *)
(* yields a usable difficulty for every input and every width of the       *)
(* integers: verify_work divides by it, and bignum_div does not return     *)
(* when it divides by zero.  Then the threads of a node, with crashes and  *)
(* restarts: they keep the database a good chain, and the miner never      *)
(* solves a block it then refuses, for any number of hashes, transfers,    *)
(* restarts and any integer width.                                         *)
(***************************************************************************)
EXTENDS Node, TLAPS


LEMMA HalfIsNat == Half \in Nat /\ Half > 1 /\ Word = 2 * Half
  BY RulesAssumption DEF RulesAssumption, Half

LEMMA ModuloRange == \A x \in Int, w \in Nat \ {0} : x % w \in 0 .. (w - 1)
  OBVIOUS

\* An int32_t holds what an int32_t can hold.
LEMMA ToInt32Range == \A x \in Int : ToInt32(x) \in -Half .. (Half - 1)
<1> TAKE x \in Int
<1>1. Word \in Nat \ {0} /\ x + Half \in Int
  BY HalfIsNat, RulesAssumption DEF RulesAssumption
<1>2. (x + Half) % Word \in 0 .. (Word - 1)
  BY <1>1, ModuloRange
<1> HIDE DEF Half
<1> QED
  BY <1>2, HalfIsNat DEF ToInt32

\* calc_target returns a positive int32_t, however the sum wraps.
THEOREM TargetIsPositive ==
  ASSUME NEW last_target \in Int, NEW time_a \in Int, NEW time_b \in Int
  PROVE  CalcTarget(last_target, time_a, time_b) \in Target
<1> DEFINE difference == ToInt32(time_a - time_b)
           ret == ToInt32(last_target + (TargetTime * 10 - difference * 10))
<1>1. difference \in Int
  BY ToInt32Range, HalfIsNat
<1>2. last_target + (TargetTime * 10 - difference * 10) \in Int
  BY <1>1, RulesAssumption DEF RulesAssumption
<1>3. ret \in -Half .. (Half - 1)
  BY <1>2, ToInt32Range
<1>4. 1 \in Target /\ (ret > 0 => ret \in Target)
  BY <1>3, HalfIsNat DEF Target
<1>5. CalcTarget(last_target, time_a, time_b) \in {1, ret}
      /\ (ret <= 0 => CalcTarget(last_target, time_a, time_b) = 1)
  BY DEF CalcTarget
<1>6. ret > 0 \/ ret <= 0
  BY <1>3, HalfIsNat
<1> QED
  BY <1>4, <1>5, <1>6
-----------------------------------------------------------------------------
(* The chain *)

\* The genesis row is written and is row 0; the rows have a greatest id.
Founded ==
  /\ GenesisHash \in DOMAIN blocks
  /\ blocks[GenesisHash] = [id |-> 0, blk |-> genesis_block]
  /\ get_height \in Nat \ {0}

\* A database the node can run on.
GoodChain == DbTypeOK /\ ChainLinked /\ Founded

LEMMA MaxOfInterval == ASSUME NEW n \in Nat PROVE Max(0 .. n) = n
<1>1. n \in 0 .. n /\ \A m \in 0 .. n : n >= m
  OBVIOUS
<1>2. \A k \in 0 .. n : (\A m \in 0 .. n : k >= m) => k = n
  <2> TAKE k \in 0 .. n
  <2> HAVE \A m \in 0 .. n : k >= m
  <2> QED BY <1>1
<1> QED
  BY <1>1, <1>2 DEF Max

\* The ids of the chain run from 0 to the height, which is not one of them.
LEMMA IdsOfChain ==
  ASSUME GoodChain
  PROVE  /\ Ids = 0 .. (get_height - 1)
         /\ get_height \in Nat \ {0}
         /\ get_height - 1 \in Ids
         /\ \A h \in DOMAIN blocks : blocks[h].id \in 0 .. (get_height - 1)
  BY DEF GoodChain, ChainLinked, Founded, Ids

LEMMA HeightFromIds == ASSUME NEW n \in Nat, Ids = 0 .. n PROVE get_height = n + 1
  BY MaxOfInterval DEF get_height

\* read_block returns the block of the one row with that id.
LEMMA ReadBlockReturnsRow ==
  ASSUME GoodChain, NEW h \in DOMAIN blocks
  PROVE  /\ read_block(blocks[h].id) = blocks[h].blk
         /\ read_block(blocks[h].id) \in Block
         /\ read_block(blocks[h].id).hash = h
<1> DEFINE g == CHOOSE k \in DOMAIN blocks : blocks[k].id = blocks[h].id
<1>1. g \in DOMAIN blocks /\ blocks[g].id = blocks[h].id
  OBVIOUS
<1>2. g = h
  BY <1>1 DEF GoodChain, ChainLinked
<1>3. read_block(blocks[h].id) = blocks[h].blk
  BY <1>2 DEF read_block
<1>4. blocks[h] \in [id : Nat, blk : Block]
  BY DEF GoodChain, DbTypeOK
<1> QED
  BY <1>3, <1>4 DEF GoodChain, ChainLinked

LEMMA ReadBlockOfId ==
  ASSUME GoodChain, NEW i \in Ids
  PROVE  \E h \in DOMAIN blocks :
           blocks[h].id = i /\ read_block(i) = blocks[h].blk
           /\ read_block(i) \in Block /\ read_block(i).hash = h
  BY ReadBlockReturnsRow DEF Ids

\* The difficulty of a node on a good chain is a positive int32_t.
LEMMA DifficultyIsTarget ==
  ASSUME GoodChain, NEW last \in Int
  PROVE  DifficultyOf(last) \in Target
<1>1. CASE get_height < 3
  BY <1>1, TargetIsPositive DEF DifficultyOf
<1>2. CASE ~(get_height < 3)
  <2>1. get_height - 1 \in Ids /\ get_height - 2 \in Ids
    BY <1>2, IdsOfChain
  <2>2. \A i \in Ids : read_block(i) \in Block
    BY ReadBlockOfId
  <2>3. \A b : b \in Block => b.time \in Int
    BY DEF Block
  <2> QED
    BY <1>2, <2>1, <2>2, <2>3, TargetIsPositive DEF DifficultyOf
<1> QED
  BY <1>1, <1>2

LEMMA RewardNow == ASSUME GoodChain PROVE CalcReward(get_height) \in Reward
<1>1. get_height - 1 \in Ids /\ get_height = (get_height - 1) + 1
  BY IdsOfChain
<1> QED
  BY <1>1 DEF Reward

\* write_block for a new hash on top of a good chain leaves a good chain,
\* one row higher, with every old row in place.
LEMMA InsertOnTop ==
  ASSUME GoodChain, NEW b \in Block, b.hash \in Hash \ DOMAIN blocks,
         b.lasthash = read_block(get_height - 1).hash,
         InsertBlock(get_height, b)
  PROVE  /\ GoodChain'
         /\ get_height' = get_height + 1
         /\ DOMAIN blocks' = DOMAIN blocks \cup {b.hash}
         /\ blocks'[b.hash] = [id |-> get_height, blk |-> b]
         /\ \A h \in DOMAIN blocks : blocks'[h] = blocks[h]
         /\ Reward \subseteq Reward'
<1> DEFINE entry == [id |-> get_height, blk |-> b]
           n == get_height
<1>1. /\ DOMAIN blocks' = DOMAIN blocks \cup {b.hash}
      /\ blocks'[b.hash] = entry
      /\ \A h \in DOMAIN blocks : blocks'[h] = blocks[h]
      /\ UNCHANGED <<txcache, difficulty>>
  BY DEF InsertBlock, InsertOrReplace
<1>2. /\ Ids = 0 .. (n - 1) /\ n \in Nat \ {0}
      /\ \A h \in DOMAIN blocks : blocks[h].id \in 0 .. (n - 1)
  BY IdsOfChain
<1>3. Ids' = 0 .. n
  <2>1. Ids' = {blocks'[h].id : h \in DOMAIN blocks'}
    BY DEF Ids
  <2>2. Ids' = Ids \cup {n}
    BY <1>1, <2>1 DEF Ids
  <2> QED
    BY <1>2, <2>2
<1>4. get_height' = n + 1
  <2>1. Max(Ids') = n
    BY <1>2, <1>3, MaxOfInterval
  <2> QED
    BY <2>1 DEF get_height
<1>5. Reward \subseteq Reward'
  <2>1. Ids \subseteq Ids'
    BY <1>2, <1>3
  <2> QED
    BY <2>1 DEF Reward
<1>6. Block \subseteq Block'
  BY <1>5 DEF Block
<1>7. DbTypeOK'
  <2>1. DOMAIN blocks' \subseteq Hash \cup {GenesisHash}
    BY <1>1 DEF GoodChain, DbTypeOK
  <2>2. \A h \in DOMAIN blocks' : blocks'[h] \in [id : Nat, blk : Block]'
    <3> SUFFICES ASSUME NEW h \in DOMAIN blocks' PROVE blocks'[h] \in [id : Nat, blk : Block']
      OBVIOUS
    <3>1. CASE h \in DOMAIN blocks
      <4>1. blocks[h] \in [id : Nat, blk : Block]
        BY <3>1 DEF GoodChain, DbTypeOK
      <4> QED
        BY <1>1, <1>6, <3>1, <4>1
    <3>2. CASE h = b.hash
      <4>1. b \in Block'
        BY <1>6
      <4> QED
        BY <1>1, <1>2, <3>2, <4>1
    <3> QED
      BY <1>1, <3>1, <3>2
  <2>3. \A s \in DOMAIN txcache' : txcache'[s] \in TxRow'
    <3>1. TxRow \subseteq TxRow'
      BY <1>5 DEF TxRow
    <3>2. \A s \in DOMAIN txcache : txcache[s] \in TxRow
      BY DEF GoodChain, DbTypeOK
    <3> QED
      BY <1>1, <3>1, <3>2
  <2> QED
    BY <1>1, <2>1, <2>2, <2>3 DEF GoodChain, DbTypeOK
<1>8. ChainLinked'
  <2>1. DOMAIN blocks' # {} => Ids' = 0 .. (get_height' - 1)
    BY <1>2, <1>3, <1>4
  <2>2. ASSUME NEW g \in DOMAIN blocks', NEW h \in DOMAIN blocks'
        PROVE  /\ blocks'[h].blk.hash = h
               /\ blocks'[g].id = blocks'[h].id => g = h
               /\ blocks'[h].id = blocks'[g].id + 1 => blocks'[h].blk.lasthash = g
    <3>1. CASE g \in DOMAIN blocks /\ h \in DOMAIN blocks
      BY <1>1, <3>1 DEF GoodChain, ChainLinked
    <3>2. CASE g = b.hash /\ h = b.hash
      BY <1>1, <1>2, <3>2
    <3>3. CASE g = b.hash /\ h \in DOMAIN blocks
      <4>1. blocks[h].blk.hash = h
        BY <3>3 DEF GoodChain, ChainLinked
      <4>2. blocks'[g].id = n /\ blocks'[h] = blocks[h] /\ blocks[h].id \in 0 .. (n - 1)
        BY <1>1, <1>2, <3>3
      <4> QED
        BY <1>2, <4>1, <4>2
    <3>4. CASE g \in DOMAIN blocks /\ h = b.hash
      <4>1. blocks'[h].id = n /\ blocks'[h].blk = b /\ blocks'[g] = blocks[g]
            /\ blocks[g].id \in 0 .. (n - 1)
        BY <1>1, <1>2, <3>4
      <4>2. read_block(blocks[g].id).hash = g
        BY <3>4, ReadBlockReturnsRow
      <4> QED
        BY <1>2, <3>4, <4>1, <4>2
    <3> QED
      BY <1>1, <3>1, <3>2, <3>3, <3>4
  <2> QED
    BY <2>1, <2>2 DEF ChainLinked
<1>9. Founded'
  BY <1>1, <1>2, <1>4 DEF GoodChain, Founded
<1> QED
  BY <1>1, <1>4, <1>5, <1>7, <1>8, <1>9 DEF GoodChain

\* Statements that leave table blocks alone.
LEMMA SameBlocks ==
  ASSUME UNCHANGED blocks
  PROVE  /\ Ids' = Ids /\ get_height' = get_height
         /\ Reward' = Reward /\ Block' = Block /\ TxRow' = TxRow
         /\ ChainLinked' = ChainLinked /\ Founded' = Founded
         /\ \A i : read_block(i)' = read_block(i)
         /\ \A d : DifficultyOf(d)' = DifficultyOf(d)
<1>1. Ids' = Ids
  BY DEF Ids
<1>2. get_height' = get_height
  BY <1>1 DEF get_height
<1>3. Reward' = Reward
  BY <1>1 DEF Reward
<1>4. \A i : read_block(i)' = read_block(i)
  BY DEF read_block
<1>5. \A d : DifficultyOf(d)' = DifficultyOf(d)
  BY <1>2, <1>4 DEF DifficultyOf
<1> QED
  BY <1>1, <1>2, <1>3, <1>4, <1>5 DEF Block, TxRow, ChainLinked, Founded

LEMMA GenesisIsBlock == genesis_block \in Block
  BY LedgerAssumption, RulesAssumption
  DEF genesis_block, Block, Reward, GenesisHash, LedgerAssumption, RulesAssumption

\* Writing genesis founds an empty database, and changes nothing in one
\* that has it.
LEMMA InsertGenesis ==
  ASSUME DbTypeOK, ChainLinked, DOMAIN blocks # {} => Founded, InsertBlock(0, genesis_block)
  PROVE  /\ GoodChain'
         /\ \A h \in DOMAIN blocks : h \in DOMAIN blocks' /\ blocks'[h] = blocks[h]
         /\ DOMAIN blocks # {} => DOMAIN blocks' = DOMAIN blocks
         /\ DOMAIN blocks = {} => DOMAIN blocks' = {GenesisHash}
<1> DEFINE entry == [id |-> 0, blk |-> genesis_block]
<1>0. genesis_block.hash = GenesisHash
  BY DEF genesis_block
<1>1. /\ DOMAIN blocks' = DOMAIN blocks \cup {GenesisHash}
      /\ blocks'[GenesisHash] = entry
      /\ \A h \in DOMAIN blocks \ {GenesisHash} : blocks'[h] = blocks[h]
      /\ UNCHANGED <<txcache, difficulty>>
  BY <1>0 DEF InsertBlock, InsertOrReplace
<1>2. CASE DOMAIN blocks = {}
  <2>1. DOMAIN blocks' = {GenesisHash}
    BY <1>1, <1>2
  <2>2. Ids' = {0} /\ Ids = {}
    BY <1>1, <1>2, <2>1 DEF Ids
  <2>3. Ids' = 0 .. 0
    BY <2>2
  <2>4. Max(Ids') = 0
    BY <2>3, MaxOfInterval
  <2>5. get_height' = 1
    BY <2>4 DEF get_height
  <2>6. Reward \subseteq Reward'
    BY <2>2 DEF Reward
  <2>7. genesis_block \in Block'
    BY <2>6, GenesisIsBlock DEF Block
  <2>8. \A s \in DOMAIN txcache' : txcache'[s] \in TxRow'
    BY <1>1, <2>6 DEF DbTypeOK, TxRow
  <2>9. DbTypeOK'
    <3>1. DOMAIN blocks' \subseteq Hash \cup {GenesisHash}
      BY <2>1
    <3>2. \A h \in DOMAIN blocks' : blocks'[h] \in [id : Nat, blk : Block']
      BY <1>1, <2>1, <2>7
    <3> QED
      BY <1>1, <2>8, <3>1, <3>2 DEF DbTypeOK
  <2>10. Founded'
    BY <1>1, <2>1, <2>5 DEF Founded
  <2>11. ChainLinked'
    <3>1. \A h \in DOMAIN blocks' : h = GenesisHash /\ blocks'[h] = entry
      BY <1>1, <2>1
    <3>2. entry.id = 0 /\ entry.blk.hash = GenesisHash
      BY <1>0
    <3>3. Ids' = 0 .. (get_height' - 1)
      BY <2>3, <2>5
    <3> HIDE DEF entry
    <3> QED
      BY <3>1, <3>2, <3>3 DEF ChainLinked
  <2> QED
    BY <1>2, <2>1, <2>9, <2>10, <2>11 DEF GoodChain
<1>3. CASE DOMAIN blocks # {}
  <2>1. GenesisHash \in DOMAIN blocks /\ blocks[GenesisHash] = entry
    BY <1>3 DEF Founded
  <2>2. DOMAIN blocks' = DOMAIN blocks /\ \A h \in DOMAIN blocks : blocks'[h] = blocks[h]
    BY <1>1, <2>1
  <2>3. Ids' = Ids
    BY <2>2 DEF Ids
  <2>4. get_height' = get_height
    BY <2>3 DEF get_height
  <2>5. Reward' = Reward
    BY <2>3 DEF Reward
  <2>6. Block' = Block /\ TxRow' = TxRow
    BY <2>5 DEF Block, TxRow
  <2>7. DbTypeOK'
    BY <1>1, <2>2, <2>6 DEF DbTypeOK
  <2>8. ChainLinked'
    BY <2>2, <2>3, <2>4 DEF ChainLinked
  <2>9. Founded'
    BY <1>3, <2>2, <2>4 DEF Founded
  <2> QED
    BY <1>3, <2>2, <2>7, <2>8, <2>9 DEF GoodChain
<1> QED
  BY <1>2, <1>3

\* A row of the transaction table is well formed if num_tx counts no
\* transfer the block does not hold.
LEMMA InsertTxTyped ==
  ASSUME DbTypeOK, NEW n \in Nat, NEW b \in Block, NEW i \in Nat,
         i < b.num_tx, b.num_tx <= 1 + Len(b.txs), InsertTx(n, b, i)
  PROVE  DbTypeOK'
<1> DEFINE key == IF i = 0 THEN CoinbaseSig ELSE b.txs[i]
<1>1. UNCHANGED <<blocks, difficulty>>
  BY DEF InsertTx
<1>2. TxRow' = TxRow /\ Block' = Block
  BY <1>1, SameBlocks
<1>3. i # 0 => b.txs[i] \in Tx
  <2>1. b.txs \in Seq(Tx) /\ b.num_tx \in Int
    BY LedgerAssumption DEF Block, LedgerAssumption
  <2>2. i # 0 => i \in 1 .. Len(b.txs)
    BY <2>1
  <2> QED
    BY <2>1, <2>2
<1>4. PICK r \in TxRow : txcache' = InsertOrReplace(txcache, key, r)
  <2>1. b.payee \in Addr /\ b.reward \in Reward /\ ZeroAddr \in Addr
    BY LedgerAssumption DEF Block, LedgerAssumption
  <2>2. i = 0 => [blockid |-> n, from |-> ZeroAddr, to |-> b.payee, amount |-> b.reward] \in TxRow
    BY <2>1 DEF TxRow
  <2>3. i # 0 => [blockid |-> n, from |-> Sender[b.txs[i]], to |-> Receiver[b.txs[i]],
                  amount |-> Amount[b.txs[i]]] \in TxRow
    BY <1>3, LedgerAssumption DEF TxRow, LedgerAssumption
  <2> QED
    BY <2>2, <2>3 DEF InsertTx
<1>5. key \in Tx \cup {CoinbaseSig}
  BY <1>3
<1>6. DOMAIN txcache' \subseteq Tx \cup {CoinbaseSig}
  BY <1>4, <1>5 DEF InsertOrReplace, DbTypeOK
<1>7. \A s \in DOMAIN txcache' : txcache'[s] \in TxRow
  BY <1>4 DEF InsertOrReplace, DbTypeOK
<1> QED
  BY <1>1, <1>2, <1>6, <1>7 DEF DbTypeOK

\* The difficulty row never holds anything but a target.
LEMMA DifficultyRowTyped ==
  ASSUME DbTypeOK, NEW d \in Target \cup {NoRow}, difficulty' = d, UNCHANGED <<blocks, txcache>>
  PROVE  DbTypeOK'
  BY SameBlocks DEF DbTypeOK

LEMMA LoadedDifficultyIsTarget == ASSUME DbTypeOK PROVE get_blockchain_difficulty \in Target
<1>1. 1 \in Target
  BY HalfIsNat DEF Target
<1> QED
  BY <1>1 DEF DbTypeOK, get_blockchain_difficulty
-----------------------------------------------------------------------------
(* The node: its inductive invariant *)


\* Which threads run in which phase of the process.
Phases ==
  /\ main \in {"genesis_tx", "load", "up"} => Founded
  /\ DOMAIN blocks # {} => Founded
  /\ main # "up" => pc["rpc"] = "off" /\ pc["miner"] = "off" /\ monitor = "off"

\* The inductive invariant.  RoundIsCurrent makes the block the miner writes
\* fit the chain (InsertOnTop); Phases keeps start-up and the miner apart.
NodeInv == TypeOK /\ ChainLinked /\ Phases /\ RoundIsCurrent /\ RewardsFollowSchedule

LEMMA NodeConstants ==
  /\ Hash \subseteq 1 .. (MaxHash - 1) /\ Times \subseteq Nat
  /\ ZeroAddr \in Addr /\ MixedAddr \in Addr /\ Payee \subseteq Addr
  /\ NumTxMod \in Nat \ {0} /\ TxPerBlock \in Nat \ {0} /\ NumTxMod <= TxPerBlock
  /\ MaxHash \in Nat \ {0} /\ MaxCrashes \in Nat
  /\ 1 \in Target /\ Target \subseteq Nat
  BY RulesAssumption, LedgerAssumption, NodeAssumption, HalfIsNat
  DEF RulesAssumption, LedgerAssumption, NodeAssumption, Target

LEMMA ModuloAtMost == \A x \in Nat, w \in Nat \ {0} : x % w <= x
  OBVIOUS

LEMMA NoBlockIsBlock ==
  NoBlock \in Block /\ Len(NoBlock.txs) <= TxPerBlock /\ NoBlock.num_tx <= 1 + Len(NoBlock.txs)
  BY NodeConstants DEF NoBlock, Block, Reward

LEMMA RunningIsGood == ASSUME NodeInv, main = "up" PROVE GoodChain
  BY DEF NodeInv, TypeOK, Phases, GoodChain

LEMMA NodeInitInv == Init => NodeInv
<1> SUFFICES ASSUME Init PROVE NodeInv
  OBVIOUS
<1> USE DEF Init, Fresh
<1>1. TypeOK
  <2>1. DbTypeOK
    BY DEF DbInit, DbTypeOK
  <2>2. GlobalsTypeOK
    BY NodeConstants DEF GlobalsTypeOK
  <2>3. ThreadsTypeOK
    <3>1. pc = [t \in Thread |-> "off"] /\ blk = [t \in Thread |-> NoBlock]
          /\ target = [t \in Thread |-> 1]
      OBVIOUS
    <3> QED
      BY <3>1, NoBlockIsBlock, NodeConstants DEF ThreadsTypeOK, Thread, RpcPlace, MinerPlace
  <2> QED
    BY <2>1, <2>2, <2>3 DEF TypeOK
<1>2. DOMAIN blocks = {}
  BY DEF DbInit
<1>3. pc["miner"] = "off" /\ pc["rpc"] = "off"
  BY DEF Thread
<1> QED
  BY <1>1, <1>2, <1>3 DEF NodeInv, ChainLinked, Phases, RoundIsCurrent, RewardsFollowSchedule,
     AfterSolve, AfterTarget, AfterCoinbase, AfterTip
-----------------------------------------------------------------------------
(* Frames *)

\* Steps that touch neither the chain nor the difficulty the process loaded.
LEMMA ChainFrame ==
  ASSUME NodeInv, UNCHANGED blocks
  PROVE  ChainLinked' /\ RewardsFollowSchedule' /\ Founded' = Founded
  BY SameBlocks DEF NodeInv, RewardsFollowSchedule

LEMMA PhasesFrame ==
  ASSUME NodeInv, UNCHANGED <<blocks, main>>, main = "up"
  PROVE  Phases'
  BY SameBlocks DEF NodeInv, Phases

\* Steps of other threads leave the miner's round as it is.
LEMMA RoundFrame ==
  ASSUME NodeInv, UNCHANGED <<blocks, last_difficulty, id>>,
         blk'["miner"] = blk["miner"], pc'["miner"] = pc["miner"],
         target'["miner"] = target["miner"], mine_skip' = mine_skip \/ mine_skip' = TRUE
  PROVE  RoundIsCurrent'
<1>1. /\ get_height' = get_height
      /\ \A i : read_block(i)' = read_block(i)
      /\ \A d : DifficultyOf(d)' = DifficultyOf(d)
  BY SameBlocks
<1>2. read_block(get_height - 1)' = read_block(get_height - 1)
  BY <1>1 DEF read_block, get_height, Ids
<1>3. DifficultyOf(last_difficulty)' = DifficultyOf(last_difficulty)
  BY <1>1, <1>2 DEF DifficultyOf, read_block, get_height, Ids
<1> QED
  BY <1>1, <1>2, <1>3 DEF NodeInv, RoundIsCurrent

\* Only thread t moves.
Moves(t) ==
  /\ pc' = [pc EXCEPT ![t] = pc'[t]]
  /\ blk' = [blk EXCEPT ![t] = blk'[t]]
  /\ target' = [target EXCEPT ![t] = target'[t]]

\* It stays well typed if it moves to a place of its own with a well-formed
\* block and target, and the other thread notices nothing.
LEMMA ThreadFrame ==
  ASSUME NodeInv, UNCHANGED blocks, NEW t \in Thread, Moves(t),
         pc'[t] \in IF t = "rpc" THEN RpcPlace ELSE MinerPlace,
         blk'[t] \in Block, Len(blk'[t].txs) <= TxPerBlock,
         blk'[t].num_tx <= 1 + Len(blk'[t].txs),
         target'[t] \in Target
  PROVE  /\ ThreadsTypeOK'
         /\ \A u \in Thread \ {t} : pc'[u] = pc[u] /\ blk'[u] = blk[u] /\ target'[u] = target[u]
<1>1. Block' = Block
  BY SameBlocks
<1>2. ThreadsTypeOK
  BY DEF NodeInv, TypeOK
<1>3. \A u \in Thread \ {t} : pc'[u] = pc[u] /\ blk'[u] = blk[u] /\ target'[u] = target[u]
  BY <1>2 DEF ThreadsTypeOK, Moves
<1>4. pc' \in [Thread -> RpcPlace \cup MinerPlace] /\ pc'["rpc"] \in RpcPlace
      /\ pc'["miner"] \in MinerPlace
  BY <1>2 DEF ThreadsTypeOK, Thread, Moves
<1>5. blk' \in [Thread -> Block] /\ target' \in [Thread -> Target]
  BY <1>2 DEF ThreadsTypeOK, Moves
<1>6. \A u \in Thread :
        Len(blk'[u].txs) <= TxPerBlock /\ blk'[u].num_tx <= 1 + Len(blk'[u].txs)
  BY <1>2, <1>3 DEF ThreadsTypeOK
<1> QED
  BY <1>1, <1>3, <1>4, <1>5, <1>6 DEF ThreadsTypeOK

\* What a thread starts a step with, and what an assignment to its place in
\* pc, blk or target does.
LEMMA Locals ==
  ASSUME NodeInv, NEW t \in Thread
  PROVE  /\ blk[t] \in Block /\ Len(blk[t].txs) <= TxPerBlock
         /\ blk[t].num_tx <= 1 + Len(blk[t].txs)
         /\ target[t] \in Target
         /\ pc[t] \in IF t = "rpc" THEN RpcPlace ELSE MinerPlace
         /\ \A v : pc' = [pc EXCEPT ![t] = v] => pc'[t] = v /\ pc' = [pc EXCEPT ![t] = pc'[t]]
         /\ \A v : blk' = [blk EXCEPT ![t] = v] => blk'[t] = v /\ blk' = [blk EXCEPT ![t] = blk'[t]]
         /\ \A v : target' = [target EXCEPT ![t] = v] =>
              target'[t] = v /\ target' = [target EXCEPT ![t] = target'[t]]
         /\ pc' = pc => pc' = [pc EXCEPT ![t] = pc'[t]]
         /\ blk' = blk => blk' = [blk EXCEPT ![t] = blk'[t]]
         /\ target' = target => target' = [target EXCEPT ![t] = target'[t]]
<1>1. ThreadsTypeOK
  BY DEF NodeInv, TypeOK
<1> QED
  BY <1>1 DEF ThreadsTypeOK, Thread

\* A thread that is somewhere runs in a process that is up.
LEMMA RunningMeansUp ==
  ASSUME NodeInv
  PROVE  /\ \A t \in Thread : pc[t] # "off" => main = "up"
         /\ monitor # "off" => main = "up"
  BY DEF NodeInv, Phases, Thread

LEMMA DbFrame == ASSUME NodeInv, UNCHANGED dbVars PROVE DbTypeOK' /\ UNCHANGED blocks
  BY SameBlocks DEF NodeInv, TypeOK, DbTypeOK, dbVars

\* The tip, the reward and the difficulty of this moment, while no row of
\* table blocks is written.
LEMMA NowFrame ==
  ASSUME UNCHANGED <<blocks, last_difficulty>>
  PROVE  /\ read_block(get_height - 1)' = read_block(get_height - 1)
         /\ CalcReward(get_height)' = CalcReward(get_height)
         /\ DifficultyOf(last_difficulty)' = DifficultyOf(last_difficulty)
         /\ get_height' = get_height
  BY DEF read_block, get_height, Ids, DifficultyOf

\* A step of the RPC thread that writes no block.
LEMMA RpcFrame ==
  ASSUME NodeInv, pc["rpc"] # "off", Moves("rpc"),
         UNCHANGED <<blocks, main, last_difficulty, id, mine_skip>>,
         pc'["rpc"] \in RpcPlace, blk'["rpc"] \in Block,
         Len(blk'["rpc"].txs) <= TxPerBlock, blk'["rpc"].num_tx <= 1 + Len(blk'["rpc"].txs),
         target'["rpc"] \in Target, DbTypeOK', GlobalsTypeOK'
  PROVE  NodeInv'
<1>1. ThreadsTypeOK' /\ \A u \in Thread \ {"rpc"} :
        pc'[u] = pc[u] /\ blk'[u] = blk[u] /\ target'[u] = target[u]
  BY ThreadFrame DEF Thread
<1>2. pc'["miner"] = pc["miner"] /\ blk'["miner"] = blk["miner"] /\ target'["miner"] = target["miner"]
  BY <1>1 DEF Thread
<1>3. RoundIsCurrent'
  BY <1>2, RoundFrame
<1>4. main = "up"
  BY RunningMeansUp DEF Thread
<1> QED
  BY <1>1, <1>3, <1>4, ChainFrame, PhasesFrame DEF NodeInv, TypeOK

\* A step of the miner that writes no block: what is left to show is that
\* its round is still current.
LEMMA MinerFrame ==
  ASSUME NodeInv, pc["miner"] # "off", Moves("miner"), UNCHANGED <<blocks, main>>,
         pc'["miner"] \in MinerPlace, blk'["miner"] \in Block,
         Len(blk'["miner"].txs) <= TxPerBlock,
         blk'["miner"].num_tx <= 1 + Len(blk'["miner"].txs),
         target'["miner"] \in Target, DbTypeOK', GlobalsTypeOK', RoundIsCurrent'
  PROVE  NodeInv'
<1>1. ThreadsTypeOK'
  BY ThreadFrame DEF Thread
<1>2. main = "up"
  BY RunningMeansUp DEF Thread
<1> QED
  BY <1>1, <1>2, ChainFrame, PhasesFrame DEF NodeInv, TypeOK
-----------------------------------------------------------------------------
(* Assignments to the fields of a block *)

LEMMA SetReward ==
  ASSUME NEW b \in Block, NEW r \in Reward,
         NEW c, c = [b EXCEPT !.reward = r]
  PROVE  c \in Block /\ c.reward = r
         /\ c.hash = b.hash /\ c.lasthash = b.lasthash /\ c.time = b.time /\ c.payee = b.payee /\ c.txs = b.txs /\ c.num_tx = b.num_tx
  BY DEF Block

LEMMA SetTxs ==
  ASSUME NEW b \in Block, NEW s \in Seq(Tx),
         NEW c, c = [b EXCEPT !.txs = s]
  PROVE  c \in Block /\ c.txs = s
         /\ c.hash = b.hash /\ c.lasthash = b.lasthash /\ c.time = b.time /\ c.payee = b.payee /\ c.reward = b.reward /\ c.num_tx = b.num_tx
  BY DEF Block

LEMMA SetPayeeField ==
  ASSUME NEW b \in Block, NEW a \in Addr,
         NEW c, c = [b EXCEPT !.payee = a]
  PROVE  c \in Block /\ c.payee = a
         /\ c.hash = b.hash /\ c.lasthash = b.lasthash /\ c.time = b.time /\ c.reward = b.reward /\ c.txs = b.txs /\ c.num_tx = b.num_tx
  BY DEF Block

-----------------------------------------------------------------------------
(* Templates *)

LEMMA ReadTipInv == ASSUME NodeInv, NEW t \in Thread, ReadTip(t) PROVE NodeInv'
<1>1. PICK now, b :
        /\ now \in Times
        /\ b = [NoBlock EXCEPT !.lasthash = read_block(get_height - 1).hash,
                               !.time = now, !.num_tx = 1 % NumTxMod]
        /\ blk' = [blk EXCEPT ![t] = b]
  BY DEF ReadTip
<1>2. main = "up" /\ GoodChain
  BY RunningMeansUp, RunningIsGood DEF ReadTip
<1>3. read_block(get_height - 1) \in Block
  BY <1>2, IdsOfChain, ReadBlockOfId
<1>4. b \in Block /\ Len(b.txs) <= TxPerBlock /\ b.num_tx <= 1 + Len(b.txs)
  <2>1. read_block(get_height - 1).hash \in 0 .. MaxHash
    BY <1>3 DEF Block
  <2>2. now \in Nat /\ 1 % NumTxMod \in 0 .. (NumTxMod - 1)
    BY <1>1, NodeConstants, ModuloRange
  <2>3. 1 % NumTxMod <= 1
    BY NodeConstants
  <2>4. b = [hash |-> 0, lasthash |-> read_block(get_height - 1).hash, time |-> now,
             payee |-> ZeroAddr, reward |-> 0, txs |-> <<>>, num_tx |-> 1 % NumTxMod]
    BY <1>1 DEF NoBlock
  <2> QED
    BY <2>1, <2>2, <2>3, <2>4, NodeConstants DEF Block, Reward
<1>5. b.lasthash = read_block(get_height - 1).hash
  BY <1>1 DEF NoBlock
<1>6. /\ Moves(t) /\ pc'[t] = "coinbase" /\ blk'[t] = b /\ target' = target
      /\ UNCHANGED blocks
  BY <1>1, Locals DEF ReadTip, Goto, dbVars, Moves
<1>7. ThreadsTypeOK' /\ \A u \in Thread \ {t} : pc'[u] = pc[u] /\ blk'[u] = blk[u]
  <2>1. "coinbase" \in RpcPlace \cap MinerPlace /\ target'[t] \in Target
    BY <1>6, Locals DEF RpcPlace, MinerPlace
  <2> QED
    BY <1>4, <1>6, <2>1, ThreadFrame
<1>8. TypeOK'
  BY <1>7, SameBlocks DEF NodeInv, TypeOK, ReadTip, dbVars, globals, writer,
     DbTypeOK, GlobalsTypeOK
<1>9. RoundIsCurrent'
  <2>1. CASE t = "rpc"
    BY <1>6, <1>7, <2>1, RoundFrame DEF ReadTip, dbVars, globals, writer, Thread
  <2>2. CASE t = "miner"
    <3>1. read_block(get_height - 1)' = read_block(get_height - 1)
      BY DEF ReadTip, dbVars, read_block, get_height, Ids
    <3> QED
      BY <1>5, <1>6, <2>2, <3>1 DEF RoundIsCurrent, AfterSolve, AfterTarget, AfterCoinbase, AfterTip
  <2> QED
    BY <2>1, <2>2 DEF Thread
<1> QED
  BY <1>2, <1>8, <1>9, ChainFrame, PhasesFrame DEF ReadTip, dbVars, NodeInv

LEMMA MakeCoinbaseInv == ASSUME NodeInv, NEW t \in Thread, MakeCoinbase(t) PROVE NodeInv'
<1>1. main = "up" /\ GoodChain
  BY RunningMeansUp, RunningIsGood DEF MakeCoinbase
<1>2. PICK b : b = [blk[t] EXCEPT !.reward = CalcReward(get_height)]
                /\ blk' = [blk EXCEPT ![t] = b]
  BY Locals DEF MakeCoinbase
<1>3. b \in Block /\ Len(b.txs) <= TxPerBlock /\ b.num_tx <= 1 + Len(b.txs)
      /\ b.reward = CalcReward(get_height) /\ b.lasthash = blk[t].lasthash
  <2>1. blk[t] \in Block /\ CalcReward(get_height) \in Reward
    BY <1>1, RewardNow, Locals
  <2>2. /\ b \in Block /\ b.reward = CalcReward(get_height) /\ b.lasthash = blk[t].lasthash
        /\ b.txs = blk[t].txs /\ b.num_tx = blk[t].num_tx
    BY <1>2, <2>1, SetReward
  <2> QED
    BY <2>2, Locals
<1>4. /\ Moves(t) /\ pc'[t] = "poll" /\ blk'[t] = b /\ target' = target
      /\ pc[t] = "coinbase" /\ UNCHANGED <<blocks, main, last_difficulty, id, mine_skip>>
  BY <1>2, Locals DEF MakeCoinbase, Goto, dbVars, globals, writer, Moves
<1>5. target'[t] \in Target /\ "poll" \in RpcPlace \cap MinerPlace
  BY <1>4, Locals DEF RpcPlace, MinerPlace
<1>6. DbTypeOK' /\ GlobalsTypeOK'
  BY DbFrame DEF MakeCoinbase, NodeInv, TypeOK, GlobalsTypeOK, globals, writer
<1>7. CASE t = "rpc"
  BY <1>3, <1>4, <1>5, <1>6, <1>7, RpcFrame
<1>8. CASE t = "miner"
  <2>1. RoundIsCurrent'
    BY <1>3, <1>4, <1>8, NowFrame
    DEF NodeInv, RoundIsCurrent, AfterSolve, AfterTarget, AfterCoinbase, AfterTip
  <2> QED
    BY <1>3, <1>4, <1>5, <1>6, <1>8, <2>1, MinerFrame
<1> QED
  BY <1>7, <1>8 DEF Thread

LEMMA PollTxInv == ASSUME NodeInv, NEW t \in Thread, PollTx(t) PROVE NodeInv'
<1>1. PICK s, b : /\ s = Append(blk[t].txs, Head(pool))
                   /\ b = [blk[t] EXCEPT !.txs = s]
                   /\ blk' = [blk EXCEPT ![t] = b]
  BY Locals DEF PollTx
<1>2. pool \in Seq(Tx) /\ pool # <<>> /\ blk[t].txs \in Seq(Tx) /\ Len(blk[t].txs) < TxPerBlock
  BY Locals DEF PollTx, NodeInv, TypeOK, GlobalsTypeOK, Block
<1>3. /\ Head(pool) \in Tx /\ Tail(pool) \in Seq(Tx)
      /\ s \in Seq(Tx) /\ Len(s) = Len(blk[t].txs) + 1
  BY <1>1, <1>2
<1>4. /\ b \in Block /\ b.txs = s
      /\ b.num_tx = blk[t].num_tx /\ b.reward = blk[t].reward /\ b.lasthash = blk[t].lasthash
  <2>1. blk[t] \in Block
    BY Locals
  <2>2. b = [blk[t] EXCEPT !.txs = s] /\ s \in Seq(Tx)
    BY <1>1, <1>3
  <2> QED
    BY <2>1, <2>2, SetTxs
<1>5. Len(b.txs) <= TxPerBlock /\ b.num_tx <= 1 + Len(b.txs)
  <2>1. blk[t].num_tx \in Int /\ Len(blk[t].txs) \in Nat
    BY <1>2, Locals, LedgerAssumption DEF Block, LedgerAssumption
  <2> QED
    BY <1>2, <1>3, <1>4, <2>1, Locals, NodeConstants
<1>6. /\ Moves(t) /\ pc' = pc /\ blk'[t] = b /\ target' = target
      /\ pc[t] = "poll" /\ UNCHANGED <<blocks, main, last_difficulty, id, mine_skip>>
  <2>1. pc' = pc /\ target' = target /\ pc[t] = "poll"
        /\ UNCHANGED <<blocks, main, last_difficulty, id, mine_skip>>
    BY DEF PollTx, dbVars, globals, writer
  <2> QED
    BY <1>1, <2>1, Locals DEF Moves
<1>7. target'[t] \in Target /\ "poll" \in RpcPlace \cap MinerPlace
  BY <1>6, Locals DEF RpcPlace, MinerPlace
<1>8. DbTypeOK' /\ GlobalsTypeOK'
  BY <1>3, DbFrame DEF PollTx, NodeInv, TypeOK, GlobalsTypeOK, globals, writer
<1>9. CASE t = "rpc"
  BY <1>4, <1>5, <1>6, <1>7, <1>8, <1>9, RpcFrame
<1>10. CASE t = "miner"
  <2>1. RoundIsCurrent'
    BY <1>4, <1>6, <1>10, NowFrame
    DEF NodeInv, RoundIsCurrent, AfterSolve, AfterTarget, AfterCoinbase, AfterTip
  <2> QED
    BY <1>4, <1>5, <1>6, <1>7, <1>8, <1>10, <2>1, MinerFrame
<1> QED
  BY <1>9, <1>10 DEF Thread

\* num_tx may wrap, but then it counts fewer transfers than the block holds.
LEMMA EndTemplateInv == ASSUME NodeInv, NEW t \in Thread, EndTemplate(t) PROVE NodeInv'
<1> DEFINE n == Len(blk[t].txs)
           k == IF n < TxPerBlock THEN n ELSE TxPerBlock - 1
<1>1. PICK s, c, b :
        /\ s = SubSeq(blk[t].txs, 1, k) /\ c = (1 + n) % NumTxMod
        /\ b = IF t = "miner" THEN [blk[t] EXCEPT !.txs = s, !.num_tx = c] ELSE NoBlock
        /\ blk' = [blk EXCEPT ![t] = b]
  BY Locals DEF EndTemplate
<1>2. blk[t].txs \in Seq(Tx) /\ n \in Nat /\ n <= TxPerBlock
  BY Locals DEF Block
<1>3. k \in Nat /\ k <= n /\ k < TxPerBlock
  BY <1>2, NodeConstants
<1>4. s \in Seq(Tx) /\ Len(s) = k
  BY <1>1, <1>2, <1>3
<1>5. c \in 0 .. (NumTxMod - 1) /\ c <= 1 + k
  <2>0. c = (1 + n) % NumTxMod /\ 1 + n \in Nat /\ 1 + n \in Int /\ NumTxMod \in Nat \ {0}
    BY <1>1, <1>2, NodeConstants
  <2> HIDE DEF n, k
  <2>1. c \in 0 .. (NumTxMod - 1)
    BY <2>0, ModuloRange
  <2>2. c <= 1 + n
    BY <2>0, ModuloAtMost
  <2>3. NumTxMod - 1 <= TxPerBlock - 1
    BY NodeConstants
  <2>4. c <= TxPerBlock - 1 /\ c \in Nat
    BY <2>1, <2>3, NodeConstants
  <2>5. k = n \/ k = TxPerBlock - 1
    BY DEF k
  <2> QED
    BY <1>2, <2>1, <2>2, <2>4, <2>5, NodeConstants
<1>6. b \in Block /\ Len(b.txs) <= TxPerBlock /\ b.num_tx <= 1 + Len(b.txs)
      /\ (t = "miner" => b.lasthash = blk[t].lasthash /\ b.reward = blk[t].reward)
  <2>1. CASE t = "miner"
    <3>1. b = [blk[t] EXCEPT !.txs = s, !.num_tx = c] /\ blk[t] \in Block
      BY <1>1, <2>1, Locals
    <3> HIDE DEF n, k
    <3>2. /\ b \in Block /\ b.txs = s /\ b.num_tx = c
          /\ b.lasthash = blk[t].lasthash /\ b.reward = blk[t].reward
      <4>1. s \in Seq(Tx) /\ c \in 0 .. (NumTxMod - 1)
        BY <1>4, <1>5
      <4> QED
        BY <3>1, <4>1 DEF Block
    <3> QED
      BY <1>3, <1>4, <1>5, <3>2, NodeConstants
  <2>2. CASE t = "rpc"
    BY <1>1, <2>2, NoBlockIsBlock
  <2> QED
    BY <2>1, <2>2 DEF Thread
<1>7. /\ Moves(t) /\ blk'[t] = b /\ target' = target /\ pc[t] = "poll"
      /\ pc'[t] = (IF t = "miner" THEN "payto" ELSE "idle")
      /\ UNCHANGED <<blocks, main, last_difficulty, id, mine_skip>>
  <2>1. target' = target /\ pc[t] = "poll"
        /\ pc' = [pc EXCEPT ![t] = IF t = "miner" THEN "payto" ELSE "idle"]
        /\ UNCHANGED <<blocks, main, last_difficulty, id, mine_skip>>
    BY DEF EndTemplate, Goto, dbVars, globals, writer
  <2>2. blk' = [blk EXCEPT ![t] = b]
    BY <1>1
  <2> QED
    BY <2>1, <2>2, Locals DEF Moves
<1>8. target'[t] \in Target /\ "payto" \in MinerPlace /\ "idle" \in RpcPlace
  BY <1>7, Locals DEF RpcPlace, MinerPlace
<1>9. DbTypeOK' /\ GlobalsTypeOK'
  <2>1. pool \in Seq(Tx) /\ (pool # <<>> => Tail(pool) \in Seq(Tx))
    BY DEF NodeInv, TypeOK, GlobalsTypeOK
  <2>2. pool' \in Seq(Tx)
    BY <2>1 DEF EndTemplate
  <2> QED
    BY <2>2, DbFrame DEF EndTemplate, NodeInv, TypeOK, GlobalsTypeOK, globals, writer
<1>10. CASE t = "rpc"
  BY <1>6, <1>7, <1>8, <1>9, <1>10, RpcFrame
<1>11. CASE t = "miner"
  <2>1. RoundIsCurrent'
    BY <1>6, <1>7, <1>11, NowFrame
    DEF NodeInv, RoundIsCurrent, AfterSolve, AfterTarget, AfterCoinbase, AfterTip
  <2> QED
    BY <1>6, <1>7, <1>8, <1>9, <1>11, <2>1, MinerFrame
<1> QED
  BY <1>10, <1>11 DEF Thread
-----------------------------------------------------------------------------
(* Difficulty *)

LEMMA QueryDifficultyInv == ASSUME NodeInv, NEW t \in Thread, QueryDifficulty(t) PROVE NodeInv'
<1> DEFINE now == DifficultyOf(last_difficulty)
           place == IF pc[t] = "difficulty" THEN "store" ELSE "restore"
<1>1. main = "up" /\ GoodChain
  BY RunningMeansUp, RunningIsGood DEF QueryDifficulty
<1>2. now \in Target
  <2>1. last_difficulty \in Int
    BY NodeConstants DEF NodeInv, TypeOK, GlobalsTypeOK
  <2> QED
    BY <1>1, <2>1, DifficultyIsTarget
<1>3. /\ Moves(t) /\ pc'[t] = place /\ target'[t] = now /\ blk' = blk
      /\ pc[t] \in {"difficulty", "reverify"}
      /\ UNCHANGED <<blocks, main, last_difficulty, id, mine_skip>>
  <2>1. /\ blk' = blk /\ pc' = [pc EXCEPT ![t] = place]
        /\ target' = [target EXCEPT ![t] = now]
        /\ pc[t] \in {"difficulty", "reverify"}
        /\ UNCHANGED <<blocks, main, last_difficulty, id, mine_skip>>
    BY DEF QueryDifficulty, Goto, dbVars, globals, writer
  <2> HIDE DEF now, place
  <2> QED
    BY <2>1, Locals DEF Moves
<1>4. DbTypeOK' /\ GlobalsTypeOK'
  BY DbFrame DEF QueryDifficulty, NodeInv, TypeOK, GlobalsTypeOK, globals, writer
<1>5. CASE t = "rpc"
  <2>1. place \in RpcPlace
    BY <1>3, <1>5, Locals DEF RpcPlace, Thread
  <2> QED
    BY <1>2, <1>3, <1>4, <1>5, <2>1, Locals, RpcFrame
<1>6. CASE t = "miner"
  <2>1. RoundIsCurrent'
    BY <1>3, <1>6, NowFrame
    DEF NodeInv, RoundIsCurrent, AfterSolve, AfterTarget, AfterCoinbase, AfterTip
  <2>2. place \in MinerPlace
    BY DEF MinerPlace
  <2> QED
    BY <1>2, <1>3, <1>4, <1>6, <2>1, <2>2, Locals, MinerFrame
<1> QED
  BY <1>5, <1>6 DEF Thread

LEMMA StoreDifficultyInv == ASSUME NodeInv, NEW t \in Thread, StoreDifficulty(t) PROVE NodeInv'
<1> DEFINE place == IF t = "rpc" THEN "idle" ELSE IF pc[t] = "store" THEN "pow" ELSE "verify"
           d == IF t = "rpc" THEN 1 ELSE target[t]
<1>1. /\ Moves(t) /\ pc'[t] = place /\ target'[t] = d /\ blk' = blk
      /\ pc[t] \in {"store", "restore"}
      /\ UNCHANGED <<blocks, txcache, main, last_difficulty, id, mine_skip>>
  <2>1. /\ blk' = blk /\ pc' = [pc EXCEPT ![t] = place]
        /\ target' = IF t = "rpc" THEN [target EXCEPT ![t] = 1] ELSE target
        /\ pc[t] \in {"store", "restore"}
        /\ UNCHANGED <<blocks, txcache, main, last_difficulty, id, mine_skip>>
    BY DEF StoreDifficulty, UpdateDifficulty, Goto, globals, writer
  <2>2. target' = [target EXCEPT ![t] = target'[t]] /\ target'[t] = d
    <3>1. CASE t = "rpc"
      <4>1. target' = [target EXCEPT ![t] = 1]
        BY <2>1, <3>1
      <4> QED
        BY <3>1, <4>1, Locals
    <3>2. CASE t # "rpc"
      BY <2>1, <3>2, Locals
    <3> QED
      BY <3>1, <3>2
  <2> HIDE DEF place, d
  <2> QED
    BY <2>1, <2>2, Locals DEF Moves
<1>2. d \in Target
  BY Locals, NodeConstants
<1>3. DbTypeOK' /\ GlobalsTypeOK'
  <2>1. difficulty' = target[t] /\ target[t] \in Target
    BY Locals DEF StoreDifficulty, UpdateDifficulty
  <2>2. DbTypeOK'
    BY <1>1, <2>1, DifficultyRowTyped DEF NodeInv, TypeOK
  <2> QED
    BY <2>2 DEF StoreDifficulty, NodeInv, TypeOK, GlobalsTypeOK, globals, writer
<1>4. CASE t = "rpc"
  <2>1. place \in RpcPlace
    BY <1>4 DEF RpcPlace
  <2> QED
    BY <1>1, <1>2, <1>3, <1>4, <2>1, Locals, RpcFrame
<1>5. CASE t = "miner"
  <2>1. RoundIsCurrent'
    BY <1>1, <1>5, NowFrame
    DEF NodeInv, RoundIsCurrent, AfterSolve, AfterTarget, AfterCoinbase, AfterTip
  <2>2. place \in MinerPlace
    BY <1>5 DEF MinerPlace
  <2> QED
    BY <1>1, <1>2, <1>3, <1>5, <2>1, <2>2, Locals, MinerFrame
<1> QED
  BY <1>4, <1>5 DEF Thread
-----------------------------------------------------------------------------
(* The miner *)

LEMMA MinerIsThread == "miner" \in Thread
  BY DEF Thread

LEMMA StartRoundInv == ASSUME NodeInv, StartRound PROVE NodeInv'
<1>1. /\ Moves("miner") /\ pc'["miner"] = "tip" /\ target'["miner"] = 1 /\ blk' = blk
      /\ pc["miner"] = "loop" /\ UNCHANGED <<blocks, main>>
  <2>1. /\ blk' = blk /\ pc' = [pc EXCEPT !["miner"] = "tip"]
        /\ target' = [target EXCEPT !["miner"] = 1]
        /\ pc["miner"] = "loop" /\ UNCHANGED <<blocks, main>>
    BY DEF StartRound, Goto, dbVars
  <2> QED
    BY <2>1, Locals, MinerIsThread DEF Moves
<1>2. DbTypeOK' /\ GlobalsTypeOK'
  BY DbFrame DEF StartRound, NodeInv, TypeOK, GlobalsTypeOK, writer
<1>3. RoundIsCurrent'
  BY <1>1 DEF RoundIsCurrent, AfterSolve, AfterTarget, AfterCoinbase, AfterTip
<1>4. "tip" \in MinerPlace
  BY DEF MinerPlace
<1> QED
  BY <1>1, <1>2, <1>3, <1>4, Locals, MinerIsThread, NodeConstants, MinerFrame

LEMMA SetPayeeInv == ASSUME NodeInv, SetPayee PROVE NodeInv'
<1>1. PICK b : b = [blk["miner"] EXCEPT !.payee = payto] /\ blk' = [blk EXCEPT !["miner"] = b]
  BY Locals, MinerIsThread DEF SetPayee
<1>2. /\ b \in Block /\ b.txs = blk["miner"].txs /\ b.num_tx = blk["miner"].num_tx
      /\ b.lasthash = blk["miner"].lasthash /\ b.reward = blk["miner"].reward
  <2>1. blk["miner"] \in Block /\ payto \in Addr
    BY Locals, MinerIsThread DEF NodeInv, TypeOK, GlobalsTypeOK
  <2>2. b = [blk["miner"] EXCEPT !.payee = payto]
    BY <1>1
  <2> QED
    BY <2>1, <2>2, SetPayeeField
<1>3. /\ Moves("miner") /\ pc'["miner"] = "difficulty" /\ target' = target
      /\ blk'["miner"] = b /\ pc["miner"] = "payto" /\ UNCHANGED <<blocks, main, last_difficulty>>
  <2>1. /\ target' = target /\ pc' = [pc EXCEPT !["miner"] = "difficulty"]
        /\ pc["miner"] = "payto" /\ UNCHANGED <<blocks, main, last_difficulty>>
    BY DEF SetPayee, Goto, dbVars, globals
  <2>2. blk' = [blk EXCEPT !["miner"] = b]
    BY <1>1
  <2> QED
    BY <2>1, <2>2, Locals, MinerIsThread DEF Moves
<1>4. DbTypeOK' /\ GlobalsTypeOK'
  BY DbFrame DEF SetPayee, NodeInv, TypeOK, GlobalsTypeOK, globals, writer
<1>5. RoundIsCurrent'
  BY <1>2, <1>3, NowFrame
  DEF NodeInv, RoundIsCurrent, AfterSolve, AfterTarget, AfterCoinbase, AfterTip
<1>6. "difficulty" \in MinerPlace
  BY DEF MinerPlace
<1> QED
  BY <1>2, <1>3, <1>4, <1>5, <1>6, Locals, MinerIsThread, MinerFrame

LEMMA SolveInv == ASSUME NodeInv, Solve PROVE NodeInv'
<1>1. PICK h, later, b :
        /\ h \in Hash \ DOMAIN blocks /\ later \in Times
        /\ VerifyWork(h, target["miner"])
        /\ b = [blk["miner"] EXCEPT !.hash = h, !.time = later]
        /\ blk' = [blk EXCEPT !["miner"] = b]
  BY DEF Solve
<1>2. h \in 0 .. MaxHash /\ later \in Nat
  BY <1>1, NodeConstants
<1>3. /\ b \in Block /\ b.hash = h
      /\ Len(b.txs) <= TxPerBlock /\ b.num_tx <= 1 + Len(b.txs)
      /\ b.lasthash = blk["miner"].lasthash /\ b.reward = blk["miner"].reward
  <2>1. blk["miner"] \in Block
    BY Locals, MinerIsThread
  <2>2. b = [blk["miner"] EXCEPT !.hash = h, !.time = later]
    BY <1>1
  <2>3. /\ b \in Block /\ b.hash = h /\ b.txs = blk["miner"].txs
        /\ b.num_tx = blk["miner"].num_tx
        /\ b.lasthash = blk["miner"].lasthash /\ b.reward = blk["miner"].reward
    BY <1>2, <2>1, <2>2 DEF Block
  <2> QED
    BY <2>3, Locals, MinerIsThread
<1>4. /\ Moves("miner") /\ pc'["miner"] = "check" /\ target' = target
      /\ blk'["miner"] = b /\ pc["miner"] = "pow"
      /\ UNCHANGED <<blocks, main, last_difficulty>>
  <2>1. /\ target' = target /\ pc' = [pc EXCEPT !["miner"] = "check"]
        /\ pc["miner"] = "pow" /\ UNCHANGED <<blocks, main, last_difficulty>>
    BY DEF Solve, Goto, dbVars, globals
  <2>2. blk' = [blk EXCEPT !["miner"] = b]
    BY <1>1
  <2> QED
    BY <2>1, <2>2, Locals, MinerIsThread DEF Moves
<1>5. DbTypeOK' /\ GlobalsTypeOK'
  BY DbFrame DEF Solve, NodeInv, TypeOK, GlobalsTypeOK, globals, writer
<1>6. RoundIsCurrent'
  BY <1>1, <1>3, <1>4, NowFrame
  DEF NodeInv, RoundIsCurrent, AfterSolve, AfterTarget, AfterCoinbase, AfterTip
<1>7. "check" \in MinerPlace
  BY DEF MinerPlace
<1> QED
  BY <1>3, <1>4, <1>5, <1>6, <1>7, Locals, MinerIsThread, MinerFrame

\* The hash a cancelled round leaves is arbitrary, but mine_skip is up.
LEMMA CancelledInv == ASSUME NodeInv, Cancelled PROVE NodeInv'
<1>1. PICK h, b :
        /\ h \in Hash \cup {MaxHash}
        /\ b = [blk["miner"] EXCEPT !.hash = h]
        /\ blk' = [blk EXCEPT !["miner"] = b]
  BY Locals, MinerIsThread DEF Cancelled
<1>2. h \in 0 .. MaxHash
  BY <1>1, NodeConstants
<1>3. /\ b \in Block
      /\ Len(b.txs) <= TxPerBlock /\ b.num_tx <= 1 + Len(b.txs)
      /\ b.lasthash = blk["miner"].lasthash /\ b.reward = blk["miner"].reward
  <2>1. blk["miner"] \in Block
    BY Locals, MinerIsThread
  <2>2. b = [blk["miner"] EXCEPT !.hash = h]
    BY <1>1
  <2>3. /\ b \in Block /\ b.txs = blk["miner"].txs /\ b.num_tx = blk["miner"].num_tx
        /\ b.lasthash = blk["miner"].lasthash /\ b.reward = blk["miner"].reward
    BY <1>2, <2>1, <2>2 DEF Block
  <2> QED
    BY <2>3, Locals, MinerIsThread
<1>4. /\ Moves("miner") /\ pc'["miner"] = "check" /\ target' = target
      /\ blk'["miner"] = b /\ pc["miner"] = "pow" /\ mine_skip' /\ mine_skip
      /\ UNCHANGED <<blocks, main, last_difficulty>>
  <2>1. /\ target' = target /\ pc' = [pc EXCEPT !["miner"] = "check"] /\ mine_skip' /\ mine_skip
        /\ pc["miner"] = "pow" /\ UNCHANGED <<blocks, main, last_difficulty>>
    BY DEF Cancelled, Goto, dbVars, globals
  <2>2. blk' = [blk EXCEPT !["miner"] = b]
    BY <1>1
  <2> QED
    BY <2>1, <2>2, Locals, MinerIsThread DEF Moves
<1>5. DbTypeOK' /\ GlobalsTypeOK'
  BY DbFrame DEF Cancelled, NodeInv, TypeOK, GlobalsTypeOK, globals, writer
<1>6. RoundIsCurrent'
  BY <1>3, <1>4, NowFrame
  DEF NodeInv, RoundIsCurrent, AfterSolve, AfterTarget, AfterCoinbase, AfterTip
<1>7. "check" \in MinerPlace
  BY DEF MinerPlace
<1> QED
  BY <1>3, <1>4, <1>5, <1>6, <1>7, Locals, MinerIsThread, MinerFrame

\* The two ends of a round that keep its block or forget it.
LEMMA CheckSkipInv == ASSUME NodeInv, CheckSkip PROVE NodeInv'
<1> DEFINE place == IF mine_skip THEN "loop" ELSE "reverify"
           b == IF mine_skip THEN NoBlock ELSE blk["miner"]
<1>1. b \in Block /\ Len(b.txs) <= TxPerBlock /\ b.num_tx <= 1 + Len(b.txs)
  BY NoBlockIsBlock, Locals, MinerIsThread
<1>2. /\ Moves("miner") /\ pc'["miner"] = place /\ target' = target /\ blk'["miner"] = b
      /\ pc["miner"] = "check" /\ UNCHANGED <<blocks, main, last_difficulty>>
  <2>1. /\ target' = target /\ pc' = [pc EXCEPT !["miner"] = place]
        /\ blk' = IF mine_skip THEN [blk EXCEPT !["miner"] = NoBlock] ELSE blk
        /\ pc["miner"] = "check" /\ UNCHANGED <<blocks, main, last_difficulty>>
    BY DEF CheckSkip, Goto, dbVars, globals
  <2>2. blk'["miner"] = b /\ blk' = [blk EXCEPT !["miner"] = blk'["miner"]]
    <3>1. CASE mine_skip
      <4>1. blk' = [blk EXCEPT !["miner"] = NoBlock]
        BY <2>1, <3>1
      <4>2. blk'["miner"] = NoBlock /\ blk' = [blk EXCEPT !["miner"] = blk'["miner"]]
        BY <4>1, Locals, MinerIsThread
      <4> QED
        BY <3>1, <4>2
    <3>2. CASE ~mine_skip
      BY <2>1, <3>2, Locals, MinerIsThread
    <3> QED
      BY <3>1, <3>2
  <2> HIDE DEF place
  <2> QED
    BY <2>1, <2>2, Locals, MinerIsThread DEF Moves
<1>3. DbTypeOK' /\ GlobalsTypeOK'
  BY DbFrame DEF CheckSkip, NodeInv, TypeOK, GlobalsTypeOK, globals, writer
<1>4. RoundIsCurrent'
  <2>1. CASE mine_skip
    BY <1>2, <2>1 DEF RoundIsCurrent, AfterSolve, AfterTarget, AfterCoinbase, AfterTip
  <2>2. CASE ~mine_skip
    BY <1>2, <2>2, NowFrame
    DEF NodeInv, RoundIsCurrent, AfterSolve, AfterTarget, AfterCoinbase, AfterTip
  <2> QED
    BY <2>1, <2>2
<1>5. place \in MinerPlace
  BY DEF MinerPlace
<1> QED
  BY <1>1, <1>2, <1>3, <1>4, <1>5, Locals, MinerIsThread, MinerFrame

LEMMA VerifyInv == ASSUME NodeInv, Verify PROVE NodeInv'
<1> DEFINE ok == verify_block(blk["miner"], target["miner"])
           place == IF ok THEN "height" ELSE "loop"
           b == IF ok THEN blk["miner"] ELSE NoBlock
<1>1. b \in Block /\ Len(b.txs) <= TxPerBlock /\ b.num_tx <= 1 + Len(b.txs)
  BY NoBlockIsBlock, Locals, MinerIsThread
<1>2. /\ Moves("miner") /\ pc'["miner"] = place /\ target' = target /\ blk'["miner"] = b
      /\ pc["miner"] = "verify" /\ UNCHANGED <<blocks, main, last_difficulty>>
  <2>1. /\ target' = target /\ pc' = [pc EXCEPT !["miner"] = place]
        /\ blk' = IF ok THEN blk ELSE [blk EXCEPT !["miner"] = NoBlock]
        /\ pc["miner"] = "verify" /\ UNCHANGED <<blocks, main, last_difficulty>>
    BY DEF Verify, Goto, dbVars, globals
  <2> HIDE DEF place, ok
  <2>2. blk'["miner"] = b /\ blk' = [blk EXCEPT !["miner"] = blk'["miner"]]
    <3>1. CASE ~ok
      <4>1. blk' = [blk EXCEPT !["miner"] = NoBlock]
        BY <2>1, <3>1
      <4>2. blk'["miner"] = NoBlock /\ blk' = [blk EXCEPT !["miner"] = blk'["miner"]]
        BY <4>1, Locals, MinerIsThread
      <4> QED
        BY <3>1, <4>2
    <3>2. CASE ok
      BY <2>1, <3>2, Locals, MinerIsThread
    <3> QED
      BY <3>1, <3>2
  <2> QED
    BY <2>1, <2>2, Locals, MinerIsThread DEF Moves
<1>3. DbTypeOK' /\ GlobalsTypeOK'
  BY DbFrame DEF Verify, NodeInv, TypeOK, GlobalsTypeOK, globals, writer
<1> HIDE DEF ok
<1>4. RoundIsCurrent'
  <2>1. CASE ~ok
    BY <1>2, <2>1 DEF RoundIsCurrent, AfterSolve, AfterTarget, AfterCoinbase, AfterTip
  <2>2. CASE ok
    BY <1>2, <2>2, NowFrame
    DEF NodeInv, RoundIsCurrent, AfterSolve, AfterTarget, AfterCoinbase, AfterTip
  <2> QED
    BY <2>1, <2>2
<1>5. place \in MinerPlace
  BY DEF MinerPlace
<1> QED
  BY <1>1, <1>2, <1>3, <1>4, <1>5, Locals, MinerIsThread, MinerFrame

LEMMA TakeIdInv == ASSUME NodeInv, TakeId PROVE NodeInv'
<1>1. /\ Moves("miner") /\ pc'["miner"] = "insert" /\ UNCHANGED <<target, blk>>
      /\ pc["miner"] = "height" /\ UNCHANGED <<blocks, main, last_difficulty>>
      /\ id' = get_height
  <2>1. /\ UNCHANGED <<target, blk>> /\ pc' = [pc EXCEPT !["miner"] = "insert"]
        /\ pc["miner"] = "height" /\ UNCHANGED <<blocks, main, last_difficulty>>
        /\ id' = get_height
    BY DEF TakeId, Goto, dbVars, globals
  <2> QED
    BY <2>1, Locals, MinerIsThread DEF Moves
<1>2. get_height \in Nat
  BY <1>1, RunningMeansUp, RunningIsGood, IdsOfChain, MinerIsThread
<1>3. DbTypeOK' /\ GlobalsTypeOK'
  BY <1>2, DbFrame DEF TakeId, NodeInv, TypeOK, GlobalsTypeOK, globals
<1>4. RoundIsCurrent'
  BY <1>1, NowFrame
  DEF NodeInv, RoundIsCurrent, AfterSolve, AfterTarget, AfterCoinbase, AfterTip
<1>5. "insert" \in MinerPlace
  BY DEF MinerPlace
<1> QED
  BY <1>1, <1>3, <1>4, <1>5, Locals, MinerIsThread, MinerFrame

\* The step that makes the chain grow.
LEMMA WriteBlockInv ==
  ASSUME NodeInv, WriteBlock
  PROVE  NodeInv' /\ \A h \in DOMAIN blocks : h \in DOMAIN blocks' /\ blocks'[h] = blocks[h]
<1> DEFINE b == blk["miner"]
<1>1. pc["miner"] = "insert" /\ main = "up" /\ GoodChain
  BY RunningMeansUp, RunningIsGood, MinerIsThread DEF WriteBlock
<1>2. /\ b \in Block /\ b.hash \in Hash \ DOMAIN blocks
      /\ b.lasthash = read_block(get_height - 1).hash
      /\ b.reward = CalcReward(get_height) /\ id = get_height
  BY <1>1, Locals, MinerIsThread
  DEF NodeInv, RoundIsCurrent, AfterSolve, AfterTarget, AfterCoinbase, AfterTip
<1> HIDE DEF b
<1>3. InsertBlock(get_height, b)
  BY <1>2 DEF WriteBlock, b
<1>4. /\ GoodChain'
      /\ DOMAIN blocks' = DOMAIN blocks \cup {b.hash}
      /\ blocks'[b.hash] = [id |-> get_height, blk |-> b]
      /\ \A h \in DOMAIN blocks : blocks'[h] = blocks[h]
      /\ Reward \subseteq Reward'
  BY <1>1, <1>2, <1>3, InsertOnTop
<1>5. Block \subseteq Block'
  BY <1>4 DEF Block
<1>6. ThreadsTypeOK'
  <2>1. /\ UNCHANGED <<blk, target>> /\ pc' = [pc EXCEPT !["miner"] = "rows"]
        /\ "rows" \in MinerPlace
    BY DEF WriteBlock, Goto, MinerPlace
  <2>2. blk' \in [Thread -> Block']
    BY <1>5, <2>1 DEF NodeInv, TypeOK, ThreadsTypeOK
  <2>3. pc' \in [Thread -> RpcPlace \cup MinerPlace] /\ pc'["rpc"] \in RpcPlace
        /\ pc'["miner"] \in MinerPlace
    BY <2>1 DEF NodeInv, TypeOK, ThreadsTypeOK, Thread
  <2> QED
    BY <2>1, <2>2, <2>3 DEF NodeInv, TypeOK, ThreadsTypeOK
<1>7. pc'["miner"] = "rows"
  BY Locals, MinerIsThread DEF WriteBlock, Goto
<1>8. GlobalsTypeOK'
  BY NodeConstants DEF WriteBlock, NodeInv, TypeOK, GlobalsTypeOK, globals
<1>9. RewardsFollowSchedule'
  BY <1>2, <1>4 DEF NodeInv, RewardsFollowSchedule
<1>10. Phases'
  BY <1>1, <1>4 DEF WriteBlock, Phases, GoodChain
<1>11. RoundIsCurrent'
  BY <1>7 DEF RoundIsCurrent, AfterSolve, AfterTarget, AfterCoinbase, AfterTip
<1> QED
  BY <1>4, <1>6, <1>8, <1>9, <1>10, <1>11 DEF NodeInv, TypeOK, GoodChain

LEMMA WriteTxInv == ASSUME NodeInv, WriteTx PROVE NodeInv'
<1>1. /\ UNCHANGED <<pc, blk, target, blocks, main, last_difficulty, id, mine_skip>>
      /\ pc["miner"] = "rows" /\ row < blk["miner"].num_tx /\ row' = row + 1
      /\ InsertTx(id, blk["miner"], row)
  BY DEF WriteTx, InsertTx, globals, locals
<1>2. /\ row \in Nat /\ id \in Nat /\ blk["miner"] \in Block
      /\ blk["miner"].num_tx <= 1 + Len(blk["miner"].txs)
  BY Locals, MinerIsThread, NodeConstants DEF NodeInv, TypeOK, GlobalsTypeOK
<1>3. DbTypeOK'
  BY <1>1, <1>2, InsertTxTyped DEF NodeInv, TypeOK
<1>4. row' \in 0 .. NumTxMod
  <2>1. blk["miner"].num_tx \in 0 .. (NumTxMod - 1)
    BY <1>2 DEF Block
  <2> QED
    BY <1>1, <1>2, <2>1, NodeConstants
<1>5. GlobalsTypeOK'
  BY <1>4 DEF WriteTx, NodeInv, TypeOK, GlobalsTypeOK, globals
<1>6. RoundIsCurrent'
  BY <1>1 DEF RoundIsCurrent, AfterSolve, AfterTarget, AfterCoinbase, AfterTip
<1>7. Moves("miner")
  BY <1>1, Locals, MinerIsThread DEF Moves
<1> QED
  BY <1>1, <1>3, <1>5, <1>6, <1>7, Locals, MinerIsThread, MinerFrame

LEMMA EndWriteInv == ASSUME NodeInv, EndWrite PROVE NodeInv'
<1>1. /\ Moves("miner") /\ pc'["miner"] = "loop" /\ target' = target
      /\ blk'["miner"] = NoBlock /\ pc["miner"] = "rows" /\ UNCHANGED <<blocks, main>>
  <2>1. /\ target' = target /\ pc' = [pc EXCEPT !["miner"] = "loop"]
        /\ blk' = [blk EXCEPT !["miner"] = NoBlock]
        /\ pc["miner"] = "rows" /\ UNCHANGED <<blocks, main>>
    BY DEF EndWrite, Goto, dbVars
  <2> QED
    BY <2>1, Locals, MinerIsThread DEF Moves
<1>2. DbTypeOK' /\ GlobalsTypeOK'
  BY DbFrame, NodeConstants DEF EndWrite, NodeInv, TypeOK, GlobalsTypeOK, globals
<1>3. RoundIsCurrent'
  BY <1>1 DEF RoundIsCurrent, AfterSolve, AfterTarget, AfterCoinbase, AfterTip
<1>4. "loop" \in MinerPlace
  BY DEF MinerPlace
<1> QED
  BY <1>1, <1>2, <1>3, <1>4, NoBlockIsBlock, Locals, MinerIsThread, MinerFrame
-----------------------------------------------------------------------------
(* The monitor *)

\* A step that moves neither thread nor chain; raising mine_skip is allowed.
LEMMA StillFrame ==
  ASSUME NodeInv, main = "up", UNCHANGED <<dbVars, locals, main, last_difficulty, id>>,
         mine_skip' = mine_skip \/ mine_skip' = TRUE, GlobalsTypeOK'
  PROVE  NodeInv'
<1>1. DbTypeOK' /\ UNCHANGED blocks
  BY DbFrame
<1>2. ThreadsTypeOK'
  BY <1>1, SameBlocks DEF NodeInv, TypeOK, ThreadsTypeOK, locals
<1>3. RoundIsCurrent'
  BY <1>1, RoundFrame DEF locals
<1> QED
  BY <1>1, <1>2, <1>3, ChainFrame, PhasesFrame DEF NodeInv, TypeOK

LEMMA MonitorStartInv == ASSUME NodeInv, MonitorStart PROVE NodeInv'
<1>1. main = "up" /\ GoodChain
  BY RunningMeansUp, RunningIsGood DEF MonitorStart
<1>2. get_height \in Nat
  BY <1>1, IdsOfChain
<1>3. /\ Moves("miner") /\ pc'["miner"] = "loop" /\ UNCHANGED <<blk, target>>
      /\ UNCHANGED <<blocks, main>>
  <2>1. /\ UNCHANGED <<blk, target, blocks, main>> /\ pc' = [pc EXCEPT !["miner"] = "loop"]
    BY DEF MonitorStart, Goto, dbVars
  <2> QED
    BY <2>1, Locals, MinerIsThread DEF Moves
<1>4. DbTypeOK' /\ GlobalsTypeOK'
  BY <1>2, DbFrame DEF MonitorStart, NodeInv, TypeOK, GlobalsTypeOK, writer
<1>5. ThreadsTypeOK'
  BY <1>3, Locals, MinerIsThread, ThreadFrame DEF MinerPlace
<1>6. RoundIsCurrent'
  BY <1>3 DEF RoundIsCurrent, AfterSolve, AfterTarget, AfterCoinbase, AfterTip
<1> QED
  BY <1>1, <1>3, <1>4, <1>5, <1>6, ChainFrame, PhasesFrame DEF NodeInv, TypeOK

LEMMA MonitorSeeInv == ASSUME NodeInv, MonitorSee PROVE NodeInv'
<1>1. main = "up"
  BY RunningMeansUp DEF MonitorSee
<1>2. GlobalsTypeOK'
  BY DEF MonitorSee, NodeInv, TypeOK, GlobalsTypeOK, globals, writer
<1> QED
  BY <1>1, <1>2, StillFrame DEF MonitorSee, globals, writer

LEMMA MonitorSkipInv == ASSUME NodeInv, MonitorSkip PROVE NodeInv'
<1>1. main = "up"
  BY RunningMeansUp DEF MonitorSkip
<1>2. GlobalsTypeOK'
  BY DEF MonitorSkip, NodeInv, TypeOK, GlobalsTypeOK, writer
<1> QED
  BY <1>1, <1>2, StillFrame DEF MonitorSkip, writer

LEMMA MonitorNoteInv == ASSUME NodeInv, MonitorNote PROVE NodeInv'
<1>1. main = "up"
  BY RunningMeansUp DEF MonitorNote
<1>2. get_height \in Nat
  BY <1>1, RunningIsGood, IdsOfChain
<1>3. GlobalsTypeOK'
  BY <1>2 DEF MonitorNote, NodeInv, TypeOK, GlobalsTypeOK, writer
<1> QED
  BY <1>1, <1>3, StillFrame DEF MonitorNote, writer
-----------------------------------------------------------------------------
(* The RPC thread *)

\* A step that changes nothing of the thread but its place.
LEMMA RpcGoto ==
  ASSUME NodeInv, pc["rpc"] # "off", NEW place \in RpcPlace, Goto("rpc", place),
         UNCHANGED <<dbVars, blk, target, main, last_difficulty, id, mine_skip>>, GlobalsTypeOK'
  PROVE  NodeInv'
<1>1. "rpc" \in Thread
  BY DEF Thread
<1>2. Moves("rpc") /\ pc'["rpc"] = place
  BY <1>1, Locals DEF Moves, Goto
<1> QED
  BY <1>1, <1>2, Locals, DbFrame, RpcFrame

LEMMA SendInv == ASSUME NodeInv, NEW x \in Tx, Send(x) PROVE NodeInv'
<1>1. GlobalsTypeOK'
  BY DEF Send, NodeInv, TypeOK, GlobalsTypeOK, globals, writer
<1> QED
  BY <1>1, RpcGoto DEF Send, RpcPlace, globals, writer

LEMMA VerifyTransactionInv == ASSUME NodeInv, VerifyTransaction PROVE NodeInv'
<1>1. Goto("rpc", "idle") \/ Goto("rpc", "offer")
  BY DEF VerifyTransaction
<1>2. GlobalsTypeOK'
  BY DEF VerifyTransaction, NodeInv, TypeOK, GlobalsTypeOK, globals, writer
<1> QED
  BY <1>1, <1>2, RpcGoto DEF VerifyTransaction, RpcPlace, globals, writer

LEMMA OfferInv == ASSUME NodeInv, Offer PROVE NodeInv'
<1>1. pool' \in Seq(Tx)
  <2>1. PICK x \in req : pool' = Append(pool, x)
    BY DEF Offer
  <2>2. pool \in Seq(Tx) /\ x \in Tx
    BY DEF NodeInv, TypeOK, GlobalsTypeOK
  <2> QED
    BY <2>1, <2>2
<1>2. GlobalsTypeOK'
  BY <1>1 DEF Offer, NodeInv, TypeOK, GlobalsTypeOK, globals, writer
<1> QED
  BY <1>2, RpcGoto DEF Offer, RpcPlace, globals, writer

LEMMA RequestInv == ASSUME NodeInv, Request PROVE NodeInv'
<1>1. Goto("rpc", "tip") \/ Goto("rpc", "difficulty")
  BY DEF Request
<1>2. GlobalsTypeOK'
  BY DEF Request, NodeInv, TypeOK, GlobalsTypeOK, globals, writer
<1> QED
  BY <1>1, <1>2, RpcGoto DEF Request, RpcPlace, globals, writer

LEMMA RequestMiningInv == ASSUME NodeInv, RequestMining PROVE NodeInv'
<1>1. GlobalsTypeOK'
  BY NodeConstants DEF RequestMining, NodeInv, TypeOK, GlobalsTypeOK, writer
<1> QED
  BY <1>1, RpcGoto DEF RequestMining, RpcPlace, writer

LEMMA DecodePayeeInv == ASSUME NodeInv, DecodePayee PROVE NodeInv'
<1>1. GlobalsTypeOK'
  BY NodeConstants DEF DecodePayee, NodeInv, TypeOK, GlobalsTypeOK, writer
<1> QED
  BY <1>1, RpcGoto DEF DecodePayee, RpcPlace, writer

LEMMA StartMiningInv == ASSUME NodeInv, StartMining PROVE NodeInv'
<1>1. get_height \in Nat
  BY RunningMeansUp, RunningIsGood, IdsOfChain DEF StartMining, Thread
<1>2. GlobalsTypeOK'
  BY <1>1 DEF StartMining, NodeInv, TypeOK, GlobalsTypeOK, writer
<1> QED
  BY <1>2, RpcGoto DEF StartMining, RpcPlace, writer

\* A thread that hangs in read_block ends its round or request for good.
LEMMA SpinInv == ASSUME NodeInv, NEW t \in Thread, Spin(t) PROVE NodeInv'
<1>1. /\ Moves(t) /\ pc'[t] = "spin" /\ blk' = blk /\ target' = target
      /\ pc[t] # "off" /\ UNCHANGED <<blocks, main, last_difficulty, id, mine_skip>>
  <2>1. /\ blk' = blk /\ target' = target /\ pc' = [pc EXCEPT ![t] = "spin"]
        /\ pc[t] # "off" /\ UNCHANGED <<blocks, main, last_difficulty, id, mine_skip>>
    BY DEF Spin, Goto, Reading, dbVars, globals, writer
  <2> QED
    BY <2>1, Locals DEF Moves
<1>2. DbTypeOK' /\ GlobalsTypeOK'
  BY DbFrame DEF Spin, NodeInv, TypeOK, GlobalsTypeOK, globals, writer
<1>3. "spin" \in RpcPlace \cap MinerPlace
  BY DEF RpcPlace, MinerPlace
<1>4. CASE t = "rpc"
  BY <1>1, <1>2, <1>3, <1>4, Locals, RpcFrame
<1>5. CASE t = "miner"
  <2>1. RoundIsCurrent'
    BY <1>1, <1>5 DEF RoundIsCurrent, AfterSolve, AfterTarget, AfterCoinbase, AfterTip
  <2> QED
    BY <1>1, <1>2, <1>3, <1>5, <2>1, Locals, MinerFrame
<1> QED
  BY <1>4, <1>5 DEF Thread
-----------------------------------------------------------------------------
(* Start-up and crashes *)

\* While no thread runs, nothing is claimed of a round.
LEMMA NoRound ==
  ASSUME pc'["miner"] = "off"
  PROVE  RoundIsCurrent'
  BY DEF RoundIsCurrent, AfterSolve, AfterTarget, AfterCoinbase, AfterTip

LEMMA BootInv == ASSUME NodeInv, Boot PROVE NodeInv'
<1>1. DbTypeOK' /\ UNCHANGED blocks
  BY DbFrame DEF Boot
<1>2. GlobalsTypeOK'
  BY DEF Boot, NodeInv, TypeOK, GlobalsTypeOK, globals, writer
<1>3. ThreadsTypeOK'
  BY <1>1, SameBlocks DEF Boot, NodeInv, TypeOK, ThreadsTypeOK, locals
<1>4. Phases' /\ pc'["miner"] = "off"
  BY <1>1, ChainFrame DEF Boot, NodeInv, Phases, locals
<1> QED
  BY <1>1, <1>2, <1>3, <1>4, NoRound, ChainFrame DEF NodeInv, TypeOK

\* Writing genesis again changes nothing of a chain that has it.
LEMMA BootBlockInv ==
  ASSUME NodeInv, BootBlock
  PROVE  NodeInv' /\ \A h \in DOMAIN blocks : h \in DOMAIN blocks' /\ blocks'[h] = blocks[h]
<1>1. /\ GoodChain'
      /\ \A h \in DOMAIN blocks : h \in DOMAIN blocks' /\ blocks'[h] = blocks[h]
      /\ DOMAIN blocks # {} => DOMAIN blocks' = DOMAIN blocks
      /\ DOMAIN blocks = {} => DOMAIN blocks' = {GenesisHash}
  BY InsertGenesis DEF BootBlock, NodeInv, TypeOK, Phases
<1>2. pc["rpc"] = "off" /\ pc["miner"] = "off" /\ monitor = "off" /\ UNCHANGED <<pc, blk, target, monitor>>
  BY DEF BootBlock, NodeInv, Phases, locals
<1>3. GlobalsTypeOK'
  BY DEF BootBlock, NodeInv, TypeOK, GlobalsTypeOK, globals, writer
<1>4. ThreadsTypeOK'
  <2>1. Ids \subseteq Ids'
    BY <1>1 DEF Ids
  <2>2. Reward \subseteq Reward'
    BY <2>1 DEF Reward
  <2>3. Block \subseteq Block'
    BY <2>2 DEF Block
  <2>4. blk' \in [Thread -> Block']
    BY <1>2, <2>3 DEF NodeInv, TypeOK, ThreadsTypeOK
  <2> QED
    BY <1>2, <2>4 DEF NodeInv, TypeOK, ThreadsTypeOK
<1>5. RewardsFollowSchedule'
  BY <1>1 DEF NodeInv, RewardsFollowSchedule
<1>6. Phases'
  BY <1>1, <1>2 DEF Phases, GoodChain
<1> QED
  BY <1>1, <1>2, <1>3, <1>4, <1>5, <1>6, NoRound DEF NodeInv, TypeOK, GoodChain

LEMMA BootTxInv == ASSUME NodeInv, BootTx PROVE NodeInv'
<1>1. UNCHANGED <<blocks, pc, blk, target, monitor>> /\ pc["miner"] = "off"
  BY DEF BootTx, InsertTx, NodeInv, Phases, locals
<1>2. DbTypeOK'
  <2>1. 1 % NumTxMod = 1
    BY LedgerAssumption DEF LedgerAssumption
  <2>2. genesis_block.num_tx = 1 /\ Len(genesis_block.txs) = 0
    BY <2>1 DEF genesis_block
  <2> QED
    BY <2>2, GenesisIsBlock, InsertTxTyped DEF BootTx, NodeInv, TypeOK
<1>3. GlobalsTypeOK'
  BY DEF BootTx, NodeInv, TypeOK, GlobalsTypeOK, globals, writer
<1>4. ThreadsTypeOK'
  BY <1>1, SameBlocks DEF NodeInv, TypeOK, ThreadsTypeOK
<1>5. Phases'
  BY <1>1, ChainFrame DEF BootTx, NodeInv, Phases
<1> QED
  BY <1>1, <1>2, <1>3, <1>4, <1>5, NoRound, ChainFrame DEF NodeInv, TypeOK

LEMMA BootLoadInv == ASSUME NodeInv, BootLoad PROVE NodeInv'
<1>1. DbTypeOK' /\ UNCHANGED blocks
  BY DbFrame DEF BootLoad
<1>2. GlobalsTypeOK'
  BY LoadedDifficultyIsTarget DEF BootLoad, NodeInv, TypeOK, GlobalsTypeOK, writer
<1>3. "rpc" \in Thread /\ "idle" \in RpcPlace
  BY DEF Thread, RpcPlace
<1>4. Moves("rpc") /\ pc'["rpc"] = "idle" /\ UNCHANGED <<blk, target>>
  <2>1. UNCHANGED <<blk, target>> /\ pc' = [pc EXCEPT !["rpc"] = "idle"]
    BY DEF BootLoad, Goto
  <2> QED
    BY <1>3, <2>1, Locals DEF Moves
<1>5. ThreadsTypeOK' /\ pc'["miner"] = pc["miner"]
  BY <1>1, <1>3, <1>4, Locals, ThreadFrame DEF Thread
<1>6. main' = "up" /\ pc["miner"] = "off"
  BY DEF BootLoad, NodeInv, Phases
<1>7. Phases'
  BY <1>1, <1>6, ChainFrame DEF BootLoad, NodeInv, Phases
<1> QED
  BY <1>1, <1>2, <1>5, <1>6, <1>7, NoRound, ChainFrame DEF NodeInv, TypeOK

\* A crash at any moment: what is left is a good chain to start from.
LEMMA CrashInv == ASSUME NodeInv, Crash PROVE NodeInv'
<1>1. UNCHANGED <<blocks, txcache>> /\ difficulty' \in Target \cup {NoRow}
  BY DEF Crash, NodeInv, TypeOK, DbTypeOK
<1>2. DbTypeOK'
  BY <1>1, DifficultyRowTyped DEF NodeInv, TypeOK
<1>3. GlobalsTypeOK'
  BY NodeConstants DEF Crash, Fresh, NodeInv, TypeOK, GlobalsTypeOK
<1>4. pc' = [t \in Thread |-> "off"] /\ blk' = [t \in Thread |-> NoBlock]
      /\ target' = [t \in Thread |-> 1] /\ monitor' = "off" /\ main' = "down"
  BY DEF Crash, Fresh
<1>5. NoBlock \in Block'
  BY <1>1, NoBlockIsBlock, SameBlocks
<1>6. ThreadsTypeOK'
  BY <1>4, <1>5, NoBlockIsBlock, NodeConstants DEF ThreadsTypeOK, Thread, RpcPlace, MinerPlace
<1>7. pc'["miner"] = "off" /\ pc'["rpc"] = "off"
  BY <1>4 DEF Thread
<1>8. Phases'
  BY <1>1, <1>4, <1>7, ChainFrame DEF NodeInv, Phases
<1> QED
  BY <1>1, <1>2, <1>3, <1>6, <1>7, <1>8, NoRound, ChainFrame DEF NodeInv, TypeOK
-----------------------------------------------------------------------------
(* The theorems *)

LEMMA StutterInv == ASSUME NodeInv, UNCHANGED vars PROVE NodeInv'
<1>1. DbTypeOK' /\ UNCHANGED blocks
  BY DbFrame DEF vars
<1>2. GlobalsTypeOK'
  BY DEF vars, NodeInv, TypeOK, GlobalsTypeOK, globals, writer
<1>3. ThreadsTypeOK'
  BY <1>1, SameBlocks DEF vars, NodeInv, TypeOK, ThreadsTypeOK, locals
<1>4. RoundIsCurrent'
  BY <1>1, RoundFrame DEF vars, globals, locals, writer
<1>5. Phases'
  BY <1>1, ChainFrame DEF vars, NodeInv, Phases, locals
<1> QED
  BY <1>1, <1>2, <1>3, <1>4, <1>5, ChainFrame DEF NodeInv, TypeOK

LEMMA StartInv == ASSUME NodeInv, Start PROVE NodeInv'
  BY BootInv, BootBlockInv, BootTxInv, BootLoadInv DEF Start

LEMMA MinerInv == ASSUME NodeInv, Miner PROVE NodeInv'
  BY MinerIsThread, ReadTipInv, MakeCoinbaseInv, PollTxInv, EndTemplateInv, QueryDifficultyInv,
     StoreDifficultyInv, StartRoundInv, SetPayeeInv, SolveInv, CancelledInv, CheckSkipInv,
     VerifyInv, TakeIdInv, WriteBlockInv, WriteTxInv, EndWriteInv, StutterInv DEF Miner, TryHash

LEMMA MonitorInv == ASSUME NodeInv, Monitor PROVE NodeInv'
  BY MonitorStartInv, MonitorSeeInv, MonitorSkipInv, MonitorNoteInv DEF Monitor

LEMMA RpcInv == ASSUME NodeInv, Rpc PROVE NodeInv'
<1>1. "rpc" \in Thread
  BY DEF Thread
<1> QED
  BY <1>1, ReadTipInv, MakeCoinbaseInv, PollTxInv, EndTemplateInv, QueryDifficultyInv,
     StoreDifficultyInv, SendInv, VerifyTransactionInv, OfferInv, RequestInv,
     RequestMiningInv, DecodePayeeInv, StartMiningInv DEF Rpc, Serve

LEMMA NodeStepInv == NodeInv /\ [Next]_vars => NodeInv'
  BY StartInv, RpcInv, MinerInv, MonitorInv, SpinInv, CrashInv, StutterInv DEF Next

LEMMA NodeInvAlways == Spec => []NodeInv
  BY NodeInitInv, NodeStepInv, PTL DEF Spec

\* Every variable of a node keeps its type through any interleaving, crash
\* and restart.  In particular every difficulty is at least 1, so that
\* verify_work always returns.
THEOREM NodeTypeCorrect == Spec => []TypeOK
<1>1. NodeInv => TypeOK
  BY DEF NodeInv
<1> QED
  BY NodeInvAlways, <1>1, PTL

\* The blocks in the database are one chain of hashes without gap.
THEOREM ChainIsLinked == Spec => []ChainLinked
<1>1. NodeInv => ChainLinked
  BY DEF NodeInv
<1> QED
  BY NodeInvAlways, <1>1, PTL

\* What a mining round read stays true until its block is written.
THEOREM RoundsAreCurrent == Spec => []RoundIsCurrent
<1>1. NodeInv => RoundIsCurrent
  BY DEF NodeInv
<1> QED
  BY NodeInvAlways, <1>1, PTL

\* No mined block pays more, or less, than the schedule says for its height.
THEOREM RewardsAreScheduled == Spec => []RewardsFollowSchedule
<1>1. NodeInv => RewardsFollowSchedule
  BY DEF NodeInv
<1> QED
  BY NodeInvAlways, <1>1, PTL

LEMMA QuotientIsNat == \A x \in Nat, y \in Nat \ {0} : x \div y \in Nat
  OBVIOUS

\* The reward is a number.  That a power of two is positive takes an
\* induction the provers cannot do, so it is a hypothesis here.
LEMMA RewardIsNat ==
  ASSUME \A k \in Nat : 2^k \in Nat \ {0}, NEW height \in Nat
  PROVE  CalcReward(height) \in Nat
<1>1. FloorReward \in Nat /\ StartReward \in Nat /\ height \div Era \in Nat
  BY QuotientIsNat, RulesAssumption DEF RulesAssumption
<1>2. StartReward \div 2^(height \div Era) \in Nat
  BY <1>1, QuotientIsNat
<1> QED
  BY <1>1, <1>2 DEF CalcReward

\* What the round read is what verify_block reads again.
LEMMA RoundVerifies ==
  ASSUME \A k \in Nat : 2^k \in Nat \ {0}, NodeInv
  PROVE  MinedBlockVerifies
<1> SUFFICES ASSUME pc["miner"] = "verify"
             PROVE  verify_block(blk["miner"], target["miner"])
  BY DEF MinedBlockVerifies
<1>1. /\ blk["miner"].lasthash = read_block(get_height - 1).hash
      /\ blk["miner"].reward = CalcReward(get_height)
      /\ VerifyWork(blk["miner"].hash, target["miner"])
  BY DEF NodeInv, RoundIsCurrent, AfterSolve, AfterTarget, AfterCoinbase, AfterTip
<1>2. get_height \in Nat
  BY RunningMeansUp, RunningIsGood, IdsOfChain DEF Thread
<1>3. CalcReward(get_height) <= CalcReward(get_height)
  <2>1. CalcReward(get_height) \in Nat
    BY <1>2, RewardIsNat
  <2> QED
    BY <2>1
<1> QED
  BY <1>1, <1>3 DEF verify_block

\* The miner never refuses a block it solved: verify_block, called with the
\* chain as it is by then, finds the work, the tip and the reward right.
THEOREM MinedBlocksVerify ==
  ASSUME \A k \in Nat : 2^k \in Nat \ {0}
  PROVE  Spec => []MinedBlockVerifies
<1>1. NodeInv => MinedBlockVerifies
  BY RoundVerifies
<1> QED
  BY NodeInvAlways, <1>1, PTL
-----------------------------------------------------------------------------
(* What the threads leave alone *)

\* The RPC thread writes no table but misc and leaves the miner's place and
\* block alone; it starts the monitor in one place.
LEMMA RpcLeaves ==
  ASSUME NodeInv, Rpc \/ Spin("rpc")
  PROVE  /\ UNCHANGED <<blocks, txcache, main, crashes, id, row>>
         /\ pc'["miner"] = pc["miner"] /\ blk'["miner"] = blk["miner"]
         /\ StartMining \/ UNCHANGED <<monitor, mine_stop>>
<1>1. /\ \A t \in Thread : \A l : Goto(t, l) =>
            pc'[t] = l /\ (t # "miner" => pc'["miner"] = pc["miner"])
      /\ \A t \in Thread : \A b : blk' = [blk EXCEPT ![t] = b] =>
            (t # "miner" => blk'["miner"] = blk["miner"])
      /\ "rpc" \in Thread /\ "miner" \in Thread
  BY DEF Goto, NodeInv, TypeOK, ThreadsTypeOK, Thread
<1> USE DEF dbVars, globals, locals, writer
<1>3. CASE ReadTip("rpc")
  BY <1>1, <1>3 DEF ReadTip
<1>4. CASE MakeCoinbase("rpc")
  BY <1>1, <1>4 DEF MakeCoinbase
<1>5. CASE PollTx("rpc")
  BY <1>1, <1>5 DEF PollTx
<1>6. CASE EndTemplate("rpc")
  BY <1>1, <1>6 DEF EndTemplate
<1>7. CASE QueryDifficulty("rpc")
  BY <1>1, <1>7 DEF QueryDifficulty
<1>8. CASE StoreDifficulty("rpc")
  BY <1>1, <1>8 DEF StoreDifficulty, UpdateDifficulty
<1>9. CASE Spin("rpc")
  BY <1>1, <1>9 DEF Spin, Reading
<1>10. CASE VerifyTransaction
  BY <1>1, <1>10 DEF VerifyTransaction
<1>11. CASE Offer
  BY <1>1, <1>11 DEF Offer
<1>12. CASE DecodePayee
  BY <1>1, <1>12 DEF DecodePayee
<1>13. CASE StartMining
  BY <1>1, <1>13 DEF StartMining
<1>14. CASE \E x \in Tx : Send(x)
  BY <1>1, <1>14 DEF Send
<1>15. CASE Request
  BY <1>1, <1>15 DEF Request
<1>16. CASE RequestMining
  BY <1>1, <1>16 DEF RequestMining
<1> QED
  BY <1>3, <1>4, <1>5, <1>6, <1>7, <1>8, <1>9, <1>10, <1>11, <1>12, <1>13, <1>14, <1>15,
     <1>16 DEF Rpc, Serve

\* The miner does not start or stop itself, and has one way into the loop
\* over transactions and one out of it.
LEMMA MinerLeaves ==
  ASSUME NodeInv, Miner \/ Spin("miner")
  PROVE  /\ UNCHANGED <<main, crashes, monitor, mine_stop>>
         /\ pc["miner"] # "off" /\ pc'["miner"] # "off"
         /\ \/ WriteBlock \/ WriteTx \/ EndWrite
            \/ pc["miner"] # "rows" /\ pc'["miner"] # "rows" /\ UNCHANGED row
<1>1. /\ \A t \in Thread : \A l : Goto(t, l) =>
            pc'[t] = l /\ (t # "miner" => pc'["miner"] = pc["miner"])
      /\ \A t \in Thread : \A b : blk' = [blk EXCEPT ![t] = b] =>
            (t # "miner" => blk'["miner"] = blk["miner"])
      /\ "rpc" \in Thread /\ "miner" \in Thread
  BY DEF Goto, NodeInv, TypeOK, ThreadsTypeOK, Thread
<1> USE DEF dbVars, globals, locals, writer
<1>3. CASE ReadTip("miner")
  BY <1>1, <1>3 DEF ReadTip
<1>4. CASE MakeCoinbase("miner")
  BY <1>1, <1>4 DEF MakeCoinbase
<1>5. CASE PollTx("miner")
  BY <1>1, <1>5 DEF PollTx
<1>6. CASE EndTemplate("miner")
  BY <1>1, <1>6 DEF EndTemplate
<1>7. CASE QueryDifficulty("miner")
  BY <1>1, <1>7 DEF QueryDifficulty
<1>8. CASE StoreDifficulty("miner")
  BY <1>1, <1>8 DEF StoreDifficulty, UpdateDifficulty
<1>9. CASE Spin("miner")
  BY <1>1, <1>9 DEF Spin, Reading
<1>10. CASE StartRound
  BY <1>1, <1>10 DEF StartRound
<1>11. CASE SetPayee
  BY <1>1, <1>11 DEF SetPayee
<1>12. CASE Solve
  BY <1>1, <1>12 DEF Solve
<1>13. CASE TryHash
  BY <1>1, <1>13 DEF TryHash, vars
<1>14. CASE Cancelled
  BY <1>1, <1>14 DEF Cancelled
<1>15. CASE CheckSkip
  BY <1>1, <1>15 DEF CheckSkip
<1>16. CASE Verify
  BY <1>1, <1>16 DEF Verify
<1>17. CASE TakeId
  BY <1>1, <1>17 DEF TakeId
<1>18. CASE WriteBlock
  BY <1>1, <1>18 DEF WriteBlock, InsertBlock
<1>19. CASE WriteTx
  BY <1>1, <1>19 DEF WriteTx, InsertTx
<1>20. CASE EndWrite
  BY <1>1, <1>20 DEF EndWrite
<1> QED
  BY <1>3, <1>4, <1>5, <1>6, <1>7, <1>8, <1>9, <1>10, <1>11, <1>12, <1>13, <1>14, <1>15,
     <1>16, <1>17, <1>18, <1>19, <1>20 DEF Miner

LEMMA MonitorLeaves ==
  ASSUME Monitor
  PROVE  /\ UNCHANGED <<blocks, txcache, main, crashes, id, row, mine_stop, blk>>
         /\ monitor # "off" /\ monitor' \notin {"off", "start"}
         /\ MonitorStart \/ pc' = pc
  BY DEF Monitor, MonitorStart, MonitorSee, MonitorSkip, MonitorNote, dbVars, globals, locals, writer

LEMMA StutterLeaves ==
  ASSUME UNCHANGED vars
  PROVE  UNCHANGED <<blocks, txcache, main, crashes, id, row, mine_stop, monitor, pc, blk>>
  BY DEF vars, dbVars, globals, locals, writer

LEMMA SpinIsOfThread == (\E t \in Thread : Spin(t)) <=> Spin("rpc") \/ Spin("miner")
  BY DEF Thread

-----------------------------------------------------------------------------
(* Transactions *)

\* The steps that write neither a block nor a transaction.
LEMMA TablesFrame ==
  ASSUME [Next]_vars, ~BootBlock, ~BootTx, ~WriteBlock, ~WriteTx
  PROVE  UNCHANGED <<blocks, txcache>>
<1> USE DEF dbVars
<1>1. CASE \E t \in Thread : ReadTip(t)
  BY <1>1 DEF ReadTip
<1>2. CASE \E t \in Thread : MakeCoinbase(t)
  BY <1>2 DEF MakeCoinbase
<1>3. CASE \E t \in Thread : PollTx(t)
  BY <1>3 DEF PollTx
<1>4. CASE \E t \in Thread : EndTemplate(t)
  BY <1>4 DEF EndTemplate
<1>5. CASE \E t \in Thread : QueryDifficulty(t) \/ StoreDifficulty(t) \/ Spin(t)
  BY <1>5 DEF QueryDifficulty, StoreDifficulty, UpdateDifficulty, Spin
<1>6. CASE Boot \/ BootLoad \/ Crash \/ UNCHANGED vars
  BY <1>6 DEF Boot, BootLoad, Crash, vars
<1>7. CASE StartRound \/ SetPayee \/ TryHash
  BY <1>7 DEF StartRound, SetPayee, TryHash, vars
<1>8. CASE Solve
  BY <1>8 DEF Solve
<1>9. CASE Cancelled
  BY <1>9 DEF Cancelled
<1>10. CASE CheckSkip \/ Verify \/ TakeId \/ EndWrite
  BY <1>10 DEF CheckSkip, Verify, TakeId, EndWrite
<1>11. CASE Monitor
  BY <1>11 DEF Monitor, MonitorStart, MonitorSee, MonitorSkip, MonitorNote
<1>12. CASE VerifyTransaction \/ Offer \/ \E x \in Tx : Send(x)
  BY <1>12 DEF VerifyTransaction, Offer, Send
<1>13. CASE Request \/ RequestMining \/ DecodePayee \/ StartMining
  BY <1>13 DEF Request, RequestMining, DecodePayee, StartMining
<1> QED
  BY <1>1, <1>2, <1>3, <1>4, <1>5, <1>6, <1>7, <1>8, <1>9, <1>10, <1>11, <1>12, <1>13 DEF
     Next, Start, Rpc, Serve, Miner, Thread

\* No row of table blocks is replaced or lost.
LEMMA RowsKept ==
  ASSUME NodeInv, [Next]_vars
  PROVE  \A h \in DOMAIN blocks : h \in DOMAIN blocks' /\ blocks'[h] = blocks[h]
<1>1. CASE BootBlock
  BY <1>1, BootBlockInv
<1>2. CASE WriteBlock
  BY <1>2, WriteBlockInv
<1>3. CASE BootTx \/ WriteTx
  BY <1>3 DEF BootTx, WriteTx, InsertTx
<1>4. CASE ~BootBlock /\ ~BootTx /\ ~WriteBlock /\ ~WriteTx
  BY <1>4, TablesFrame
<1> QED
  BY <1>1, <1>2, <1>3, <1>4

\* No step, not even a start that writes genesis again, replaces or loses a
\* row of table blocks.
THEOREM RowsAreKept == Spec => BlocksAreKept
<1> DEFINE Kept == \A h \in DOMAIN blocks : h \in DOMAIN blocks' /\ blocks'[h] = blocks[h]
<1>1. NodeInv /\ [Next]_vars => [Kept]_blocks
  BY RowsKept
<1> QED
  BY NodeInvAlways, <1>1, PTL DEF Spec, BlocksAreKept

\* The row r of txcache, with key s, is a transaction of a stored block.
Backed(s, r) ==
  \E h \in DOMAIN blocks :
    /\ blocks[h].id = r.blockid
    /\ LET b == blocks[h].blk
       IN  IF s = CoinbaseSig
           THEN r.to = b.payee /\ r.amount = b.reward
           ELSE s \in Range(b.txs) /\ r.amount = Amount[s]

\* While the miner writes transactions, their block is stored.
BlockIsStored ==
  pc["miner"] = "rows" =>
    \E h \in DOMAIN blocks : blocks[h].id = id /\ blocks[h].blk = blk["miner"]

CacheInv == NodeInv /\ BlockIsStored /\ CacheMatchesChain

LEMMA CacheIsBacked ==
  CacheMatchesChain <=> \A s \in DOMAIN txcache : Backed(s, txcache[s])
  BY DEF CacheMatchesChain, Backed

\* What backs a row now still does after a step.
LEMMA BackedStays ==
  ASSUME NodeInv, [Next]_vars, NEW s, NEW r, Backed(s, r)
  PROVE  Backed(s, r)'
<1>1. \A h \in DOMAIN blocks : h \in DOMAIN blocks' /\ blocks'[h] = blocks[h]
  BY RowsKept
<1> QED
  BY <1>1 DEF Backed

\* A transaction of a stored block, written with the block's id.
LEMMA InsertTxBacked ==
  ASSUME CacheMatchesChain, DbTypeOK, NEW n \in Nat, NEW i \in Nat,
         NEW h \in DOMAIN blocks, blocks[h].id = n,
         i < blocks[h].blk.num_tx, blocks[h].blk.num_tx <= 1 + Len(blocks[h].blk.txs),
         InsertTx(n, blocks[h].blk, i)
  PROVE  CacheMatchesChain'
<1> DEFINE b == blocks[h].blk
           key == IF i = 0 THEN CoinbaseSig ELSE b.txs[i]
<1>1. UNCHANGED blocks
  BY DEF InsertTx
<1>2. b.txs \in Seq(Tx) /\ b.num_tx \in Int
  BY LedgerAssumption DEF DbTypeOK, Block, LedgerAssumption
<1>3. i # 0 => b.txs[i] \in Tx /\ b.txs[i] \in Range(b.txs)
  <2>1. i # 0 => i \in DOMAIN b.txs
    BY <1>2
  <2> QED
    BY <1>2, <2>1 DEF Range
<1>4. PICK r : /\ txcache' = InsertOrReplace(txcache, key, r)
               /\ r.blockid = n
               /\ i = 0 => r.to = b.payee /\ r.amount = b.reward
               /\ i # 0 => r.amount = Amount[b.txs[i]]
  BY DEF InsertTx
<1>5. Backed(key, r)
  BY <1>3, <1>4, LedgerAssumption DEF Backed, LedgerAssumption
<1>6. \A s \in DOMAIN txcache' : Backed(s, txcache'[s])
  BY <1>4, <1>5, CacheIsBacked DEF InsertOrReplace
<1> QED
  BY <1>1, <1>6 DEF Backed, CacheMatchesChain

LEMMA WriteTxCache == ASSUME CacheInv, WriteTx PROVE CacheMatchesChain'
<1>1. /\ pc["miner"] = "rows" /\ row < blk["miner"].num_tx
      /\ InsertTx(id, blk["miner"], row)
  BY DEF WriteTx
<1>2. PICK h \in DOMAIN blocks : blocks[h].id = id /\ blocks[h].blk = blk["miner"]
  BY <1>1 DEF CacheInv, BlockIsStored
<1>3. /\ row \in Nat /\ id \in Nat /\ DbTypeOK
      /\ blk["miner"].num_tx <= 1 + Len(blk["miner"].txs)
  BY Locals, MinerIsThread, NodeConstants DEF CacheInv, NodeInv, TypeOK, GlobalsTypeOK
<1> QED
  BY <1>1, <1>2, <1>3, InsertTxBacked DEF CacheInv

LEMMA BootTxCache == ASSUME CacheInv, BootTx PROVE CacheMatchesChain'
<1>1. Founded /\ DbTypeOK
  BY DEF BootTx, CacheInv, NodeInv, TypeOK, Phases
<1>2. 1 % NumTxMod = 1
  BY LedgerAssumption DEF LedgerAssumption
<1>3. genesis_block.num_tx = 1 /\ Len(genesis_block.txs) = 0
  BY <1>2 DEF genesis_block
<1>4. /\ GenesisHash \in DOMAIN blocks
      /\ blocks[GenesisHash].id = 0 /\ blocks[GenesisHash].blk = genesis_block
  BY <1>1 DEF Founded
<1> QED
  BY <1>1, <1>3, <1>4, InsertTxBacked DEF BootTx, CacheInv

\* The other steps leave the table alone.
LEMMA CacheStep == ASSUME CacheInv, [Next]_vars PROVE CacheMatchesChain'
<1>1. CASE WriteTx
  BY <1>1, WriteTxCache
<1>2. CASE BootTx
  BY <1>2, BootTxCache
<1>3. CASE ~WriteTx /\ ~BootTx
  <2>1. UNCHANGED txcache
    <3>1. CASE BootBlock \/ WriteBlock
      BY <3>1 DEF BootBlock, WriteBlock, InsertBlock
    <3> QED
      BY <1>3, <3>1, TablesFrame
  <2>2. \A s \in DOMAIN txcache : Backed(s, txcache[s])'
    <3> TAKE s \in DOMAIN txcache
    <3>1. \A r : Backed(s, r) => Backed(s, r)'
      BY BackedStays DEF CacheInv
    <3>2. \E r : r = txcache[s] /\ Backed(s, r)
      BY CacheIsBacked DEF CacheInv
    <3> QED
      BY <2>1, <3>1, <3>2 DEF Backed
  <2> QED
    BY <2>1, <2>2 DEF Backed, CacheMatchesChain
<1> QED
  BY <1>1, <1>2, <1>3

\* Only WriteBlock lets the miner begin to write transactions.
LEMMA RowsBegin ==
  ASSUME NodeInv, [Next]_vars, ~WriteBlock, pc'["miner"] = "rows"
  PROVE  pc["miner"] = "rows" /\ id' = id /\ blk'["miner"] = blk["miner"]
<1>1. CASE Start
  BY <1>1 DEF Start, Boot, BootBlock, BootTx, BootLoad, Goto, locals, NodeInv, Phases, TypeOK,
     ThreadsTypeOK, Thread
<1>2. CASE Crash
  BY <1>2 DEF Crash, Fresh, Thread
<1>3. CASE Monitor
  BY <1>3, MonitorLeaves, MinerIsThread DEF MonitorStart, Goto, NodeInv, TypeOK, ThreadsTypeOK
<1>4. CASE Miner \/ Spin("miner")
  BY <1>4, MinerLeaves, MinerIsThread DEF WriteTx, EndWrite, Goto, NodeInv, TypeOK, ThreadsTypeOK,
     locals
<1> QED
  BY <1>1, <1>2, <1>3, <1>4, RpcLeaves, StutterLeaves, SpinIsOfThread DEF Next

LEMMA StoredStep == ASSUME NodeInv, BlockIsStored, [Next]_vars PROVE BlockIsStored'
<1> SUFFICES ASSUME pc'["miner"] = "rows"
             PROVE  \E h \in DOMAIN blocks' : blocks'[h].id = id' /\ blocks'[h].blk = blk'["miner"]
  BY DEF BlockIsStored
<1>1. CASE WriteBlock
  <2>1. UNCHANGED <<id, blk>> /\ InsertBlock(id, blk["miner"])
    BY <1>1 DEF WriteBlock
  <2>2. /\ blk["miner"].hash \in DOMAIN blocks'
        /\ blocks'[blk["miner"].hash] = [id |-> id, blk |-> blk["miner"]]
    BY <2>1 DEF InsertBlock, InsertOrReplace
  <2> QED
    BY <2>1, <2>2
<1>2. CASE ~WriteBlock
  BY <1>2, RowsBegin, RowsKept DEF BlockIsStored
<1> QED
  BY <1>1, <1>2

\* The balances come from stored blocks only: every row of txcache is a
\* transaction of the block it names, wherever a crash falls.
THEOREM CacheIsOfChain == Spec => []CacheMatchesChain
<1>1. Init => CacheInv
  <2>1. ASSUME Init PROVE BlockIsStored /\ CacheMatchesChain
    BY <2>1 DEF Init, DbInit, Fresh, Thread, BlockIsStored, CacheMatchesChain
  <2> QED
    BY <2>1, NodeInitInv DEF CacheInv
<1>2. CacheInv /\ [Next]_vars => CacheInv'
  BY NodeStepInv, StoredStep, CacheStep DEF CacheInv
<1>3. CacheInv => CacheMatchesChain
  BY DEF CacheInv
<1> QED
  BY <1>1, <1>2, <1>3, PTL DEF Spec
-----------------------------------------------------------------------------
(* The one coinbase row *)

\* The ids of the blocks whose coinbase was to be recorded.
Counting == {blocks[h].id : h \in {g \in DOMAIN blocks : blocks[g].blk.num_tx > 0}}

IsTop(n, S) == n \in S /\ \A m \in S : n >= m

\* The row belongs to the newest block in S, or a restart brought back that
\* of genesis.
RowOfNewest(S) ==
  /\ CoinbaseSig \in DOMAIN txcache
  /\ \/ IsTop(txcache[CoinbaseSig].blockid, S)
     \/ crashes > 0 /\ txcache[CoinbaseSig].blockid = 0

\* While a block is being recorded the row is that of the block before it,
\* then, from its first transaction on, its own.
DuringWrite ==
  pc["miner"] = "rows" =>
    /\ \A h \in DOMAIN blocks : blocks[h].id <= id
    /\ row = 0 => RowOfNewest(Counting \ {id})
    /\ row > 0 => CoinbaseSig \in DOMAIN txcache /\ txcache[CoinbaseSig].blockid = id

\* During start-up it becomes that of genesis, the only block of a process
\* that never crashed.
DuringStart ==
  /\ main = "load" => CoinbaseSig \in DOMAIN txcache /\ txcache[CoinbaseSig].blockid = 0
  /\ crashes = 0 /\ main \in {"down", "genesis"} => DOMAIN blocks = {}
  /\ crashes = 0 /\ main \in {"genesis_tx", "load"} => DOMAIN blocks = {GenesisHash}

Resting == main = "up" /\ pc["miner"] # "rows" => RowOfNewest(Counting)

\* The miner is started once, so that no second one resets its place.
StartedOnce ==
  /\ mine_stop => monitor = "off"
  /\ monitor \in {"off", "start"} => pc["miner"] = "off"

NewestInv ==
  NodeInv /\ BlockIsStored /\ StartedOnce /\ DuringWrite /\ DuringStart /\ Resting

LEMMA StartedOnceStep == ASSUME NodeInv, StartedOnce, [Next]_vars PROVE StartedOnce'
<1>1. CASE Start
  BY <1>1 DEF Start, Boot, BootBlock, BootTx, BootLoad, Goto, globals, locals, NodeInv, TypeOK,
     ThreadsTypeOK, Thread, StartedOnce
<1>2. CASE Crash
  BY <1>2 DEF Crash, Fresh, Thread, StartedOnce
<1>3. CASE Monitor
  BY <1>3, MonitorLeaves DEF StartedOnce
<1>4. CASE Miner \/ Spin("miner")
  BY <1>4, MinerLeaves DEF StartedOnce
<1>5. CASE Rpc \/ Spin("rpc")
  <2>1. CASE StartMining
    <3>1. pc'["miner"] = pc["miner"]
      BY <1>5, RpcLeaves
    <3>2. CASE mine_stop
      <4>1. ~mine_stop' /\ monitor' = "start" /\ pc["miner"] = "off"
        BY <2>1, <3>2 DEF StartMining, StartedOnce
      <4> QED
        BY <3>1, <4>1 DEF StartedOnce
    <3>3. CASE ~mine_stop
      BY <2>1, <3>1, <3>3 DEF StartMining, StartedOnce
    <3> QED
      BY <3>2, <3>3
  <2> QED
    BY <1>5, <2>1, RpcLeaves DEF StartedOnce
<1>6. CASE UNCHANGED vars
  BY <1>6, StutterLeaves DEF StartedOnce
<1> QED
  BY <1>1, <1>2, <1>3, <1>4, <1>5, <1>6, SpinIsOfThread DEF Next

\* A step that has nothing to do with writing blocks or starting.
LEMMA QuietStep ==
  ASSUME NodeInv, StartedOnce, [Next]_vars, ~Start, ~Crash, ~WriteBlock, ~WriteTx, ~EndWrite
  PROVE  /\ UNCHANGED <<blocks, txcache, main, crashes>>
         /\ (pc'["miner"] = "rows") <=> (pc["miner"] = "rows")
         /\ pc["miner"] = "rows" => UNCHANGED <<id, row>>
<1>1. UNCHANGED <<blocks, txcache>>
  BY TablesFrame DEF Start
<1>2. CASE Monitor
  <2>1. MonitorStart => pc["miner"] = "off" /\ pc'["miner"] = "loop"
    BY MinerIsThread DEF MonitorStart, StartedOnce, Goto, NodeInv, TypeOK, ThreadsTypeOK
  <2> QED
    BY <1>2, <2>1, MonitorLeaves
<1>3. CASE Rpc \/ Spin("rpc")
  BY <1>3, RpcLeaves
<1>4. CASE Miner \/ Spin("miner")
  BY <1>1, <1>4, MinerLeaves
<1>5. CASE UNCHANGED vars
  BY <1>5, StutterLeaves
<1> QED
  BY <1>1, <1>2, <1>3, <1>4, <1>5, SpinIsOfThread DEF Next

LEMMA IdsOfBlocks ==
  ASSUME NodeInv
  PROVE  /\ \A h \in DOMAIN blocks : blocks[h].id \in Nat /\ blocks[h].blk.num_tx \in Nat
         /\ \A g, h \in DOMAIN blocks : blocks[g].id = blocks[h].id => g = h
         /\ Counting \subseteq Nat
<1>1. \A h \in DOMAIN blocks : blocks[h].id \in Nat /\ blocks[h].blk.num_tx \in Nat
  BY LedgerAssumption DEF NodeInv, TypeOK, DbTypeOK, Block, LedgerAssumption
<1> QED
  BY <1>1 DEF NodeInv, ChainLinked, Counting

LEMMA NewestQuiet ==
  ASSUME NewestInv, [Next]_vars, ~Start, ~Crash, ~WriteBlock, ~WriteTx, ~EndWrite
  PROVE  DuringWrite' /\ DuringStart' /\ Resting'
<1>1. /\ UNCHANGED <<blocks, txcache, main, crashes>>
      /\ (pc'["miner"] = "rows") <=> (pc["miner"] = "rows")
      /\ pc["miner"] = "rows" => UNCHANGED <<id, row>>
  BY QuietStep DEF NewestInv
<1>2. Counting' = Counting
  BY <1>1 DEF Counting
<1>3. \A S : RowOfNewest(S)' <=> RowOfNewest(S)
  BY <1>1 DEF RowOfNewest
<1> QED
  BY <1>1, <1>2, <1>3 DEF NewestInv, DuringWrite, DuringStart, Resting, RowOfNewest

LEMMA NewestWriteBlock ==
  ASSUME NewestInv, WriteBlock
  PROVE  DuringWrite' /\ DuringStart' /\ Resting'
<1> DEFINE b == blk["miner"]
<1>1. /\ pc["miner"] = "insert" /\ main = "up" /\ GoodChain
      /\ b.hash \in Hash \ DOMAIN blocks /\ id = get_height
  BY RunningMeansUp, RunningIsGood, MinerIsThread
  DEF WriteBlock, NewestInv, NodeInv, RoundIsCurrent, AfterSolve, AfterTarget, AfterCoinbase, AfterTip
<1>2. /\ UNCHANGED <<txcache, main, crashes, id>> /\ row' = 0 /\ pc'["miner"] = "rows"
      /\ InsertBlock(id, b)
  BY MinerIsThread, Locals DEF WriteBlock, InsertBlock, NewestInv, Goto
<1> HIDE DEF b
<1>3. /\ DOMAIN blocks' = DOMAIN blocks \cup {b.hash}
      /\ blocks'[b.hash].id = id
      /\ \A h \in DOMAIN blocks : blocks'[h] = blocks[h]
  BY <1>1, <1>2 DEF InsertBlock, InsertOrReplace
<1>4. id \in Nat /\ \A h \in DOMAIN blocks : blocks[h].id \in Nat /\ blocks[h].id < id
  <2>1. Ids = 0 .. (id - 1) /\ id \in Nat \ {0}
    BY <1>1, IdsOfChain DEF GoodChain, Founded
  <2>2. \A h \in DOMAIN blocks : blocks[h].id \in Ids
    BY DEF Ids
  <2> QED
    BY <2>1, <2>2
<1>5. Counting' \ {id} = Counting
  BY <1>3, <1>4 DEF Counting
<1>6. RowOfNewest(Counting)
  BY <1>1 DEF NewestInv, Resting
<1>7. RowOfNewest(Counting \ {id})'
  BY <1>2, <1>5, <1>6 DEF RowOfNewest
<1>8. \A h \in DOMAIN blocks' : blocks'[h].id <= id'
  BY <1>2, <1>3, <1>4
<1> QED
  BY <1>1, <1>2, <1>7, <1>8 DEF DuringWrite, DuringStart, Resting

LEMMA NewestWriteTx ==
  ASSUME NewestInv, WriteTx
  PROVE  DuringWrite' /\ DuringStart' /\ Resting'
<1>1. /\ pc["miner"] = "rows" /\ main = "up" /\ row \in Nat
      /\ blk["miner"].txs \in Seq(Tx)
      /\ row < blk["miner"].num_tx /\ blk["miner"].num_tx <= 1 + Len(blk["miner"].txs)
      /\ blk["miner"].num_tx \in Nat
  BY RunningMeansUp, MinerIsThread, NodeConstants, Locals, LedgerAssumption
  DEF WriteTx, NewestInv, NodeInv, TypeOK, GlobalsTypeOK, Block, LedgerAssumption
<1>2. /\ UNCHANGED <<blocks, pc, main, crashes, id>> /\ row' = row + 1
      /\ InsertTx(id, blk["miner"], row)
  BY DEF WriteTx, InsertTx, locals
<1>3. CoinbaseSig \in DOMAIN txcache' /\ txcache'[CoinbaseSig].blockid = id
  <2>1. CASE row = 0
    BY <1>2, <2>1 DEF InsertTx, InsertOrReplace
  <2>2. CASE row # 0
    <3>1. blk["miner"].txs[row] \in Tx
      BY <1>1, <2>2
    <3>2. blk["miner"].txs[row] # CoinbaseSig
      BY <3>1, LedgerAssumption DEF LedgerAssumption
    <3>3. CoinbaseSig \in DOMAIN txcache /\ txcache[CoinbaseSig].blockid = id
      BY <1>1, <2>2 DEF NewestInv, DuringWrite
    <3> QED
      BY <1>2, <2>2, <3>2, <3>3 DEF InsertTx, InsertOrReplace
  <2> QED
    BY <2>1, <2>2
<1> QED
  BY <1>1, <1>2, <1>3 DEF NewestInv, DuringWrite, DuringStart, Resting

LEMMA NewestEndWrite ==
  ASSUME NewestInv, EndWrite
  PROVE  DuringWrite' /\ DuringStart' /\ Resting'
<1>1. /\ pc["miner"] = "rows" /\ main = "up" /\ row = blk["miner"].num_tx
      /\ row \in Nat /\ id \in Nat
  BY RunningMeansUp, MinerIsThread, NodeConstants
  DEF EndWrite, NewestInv, NodeInv, TypeOK, GlobalsTypeOK
<1>2. UNCHANGED <<blocks, txcache, main, crashes>> /\ pc'["miner"] = "loop"
  BY MinerIsThread, Locals DEF EndWrite, NewestInv, Goto, dbVars
<1>3. PICK h \in DOMAIN blocks : blocks[h].id = id /\ blocks[h].blk.num_tx = row
  BY <1>1 DEF NewestInv, BlockIsStored
<1>4. RowOfNewest(Counting)
  <2>1. CASE row = 0
    <3>1. id \notin Counting
      BY <1>3, <2>1, IdsOfBlocks DEF Counting, NewestInv
    <3>2. Counting \ {id} = Counting
      BY <3>1
    <3> QED
      BY <1>1, <2>1, <3>2 DEF NewestInv, DuringWrite
  <2>2. CASE row > 0
    <3>1. id \in Counting /\ \A m \in Counting : id >= m
      BY <1>1, <1>3, <2>2, IdsOfBlocks DEF Counting, NewestInv, DuringWrite
    <3> QED
      BY <1>1, <2>2, <3>1 DEF NewestInv, DuringWrite, RowOfNewest, IsTop
  <2> QED
    BY <1>1, <2>1, <2>2
<1>5. RowOfNewest(Counting)'
  BY <1>2, <1>4 DEF RowOfNewest, Counting
<1> QED
  BY <1>1, <1>2, <1>5 DEF DuringWrite, DuringStart, Resting

LEMMA NewestStart ==
  ASSUME NewestInv, Start
  PROVE  DuringWrite' /\ DuringStart' /\ Resting'
<1>1. /\ main # "up" /\ pc["miner"] = "off" /\ pc'["miner"] = "off" /\ crashes' = crashes
      /\ crashes \in Nat
  BY NodeConstants DEF Start, Boot, BootBlock, BootTx, BootLoad, Goto, locals, NewestInv, NodeInv,
     Phases, TypeOK, ThreadsTypeOK, GlobalsTypeOK, Thread
<1>2. DuringWrite'
  BY <1>1 DEF DuringWrite
<1>3. CASE Boot
  BY <1>1, <1>2, <1>3 DEF Boot, NewestInv, DuringStart, Resting, dbVars
<1>4. CASE BootBlock
  <2>1. DOMAIN blocks = {} => DOMAIN blocks' = {GenesisHash}
    BY <1>4, BootBlockInv DEF BootBlock, InsertBlock, InsertOrReplace, genesis_block
  <2> QED
    BY <1>1, <1>2, <1>4, <2>1 DEF BootBlock, NewestInv, DuringStart, Resting
<1>5. CASE BootTx
  <2>1. CoinbaseSig \in DOMAIN txcache' /\ txcache'[CoinbaseSig].blockid = 0 /\ UNCHANGED blocks
    BY <1>5 DEF BootTx, InsertTx, InsertOrReplace
  <2> QED
    BY <1>1, <1>2, <1>5, <2>1 DEF BootTx, NewestInv, DuringStart, Resting
<1>6. CASE BootLoad
  <2>1. /\ UNCHANGED <<blocks, txcache>> /\ main' = "up"
        /\ CoinbaseSig \in DOMAIN txcache /\ txcache[CoinbaseSig].blockid = 0
        /\ crashes = 0 => DOMAIN blocks = {GenesisHash}
    BY <1>6 DEF BootLoad, NewestInv, DuringStart, dbVars
  <2>2. crashes = 0 => IsTop(0, Counting)
    <3> SUFFICES ASSUME crashes = 0 PROVE IsTop(0, Counting)
      OBVIOUS
    <3>1. 1 % NumTxMod = 1
      BY LedgerAssumption DEF LedgerAssumption
    <3>2. blocks[GenesisHash].id = 0 /\ blocks[GenesisHash].blk.num_tx = 1
      BY <1>6, <3>1 DEF BootLoad, NewestInv, NodeInv, Phases, Founded, genesis_block
    <3>3. Counting = {0}
      BY <2>1, <3>2 DEF Counting
    <3> QED
      BY <3>3 DEF IsTop
  <2>3. RowOfNewest(Counting)'
    BY <1>1, <2>1, <2>2 DEF RowOfNewest, Counting
  <2> QED
    BY <1>2, <2>1, <2>3 DEF DuringStart, Resting
<1> QED
  BY <1>3, <1>4, <1>5, <1>6 DEF Start

LEMMA NewestCrash ==
  ASSUME NewestInv, Crash
  PROVE  DuringWrite' /\ DuringStart' /\ Resting'
<1>1. crashes \in Nat
  BY NodeConstants DEF NewestInv, NodeInv, TypeOK, GlobalsTypeOK
<1> QED
  BY <1>1 DEF Crash, Fresh, Thread, DuringWrite, DuringStart, Resting

LEMMA NewestStep == NewestInv /\ [Next]_vars => NewestInv'
<1> SUFFICES ASSUME NewestInv, [Next]_vars PROVE NewestInv'
  OBVIOUS
<1>1. DuringWrite' /\ DuringStart' /\ Resting'
  BY NewestQuiet, NewestWriteBlock, NewestWriteTx, NewestEndWrite, NewestStart, NewestCrash
<1> QED
  BY <1>1, NodeStepInv, StoredStep, StartedOnceStep DEF NewestInv

\* The transaction table holds one coinbase, that of the newest block, or
\* after a restart that of genesis: all others, and what they paid, are gone.
THEOREM CoinbaseIsNewest == Spec => []CoinbaseRowIsNewest
<1>1. Init => NewestInv
  <2>1. ASSUME Init PROVE BlockIsStored /\ StartedOnce /\ DuringWrite /\ DuringStart /\ Resting
    BY <2>1 DEF Init, DbInit, Fresh, Thread, BlockIsStored, StartedOnce, DuringWrite, DuringStart,
       Resting
  <2> QED
    BY <2>1, NodeInitInv DEF NewestInv
<1>2. NewestInv => CoinbaseRowIsNewest
  <2> SUFFICES ASSUME NewestInv, main = "up", pc["miner"] # "rows"
               PROVE  /\ CoinbaseSig \in DOMAIN txcache
                      /\ \/ txcache[CoinbaseSig].blockid = Max(Counting)
                         \/ crashes > 0 /\ txcache[CoinbaseSig].blockid = 0
    BY DEF CoinbaseRowIsNewest, Counting
  <2>1. RowOfNewest(Counting) /\ Counting \subseteq Nat
    BY IdsOfBlocks DEF NewestInv, Resting
  <2>2. \A n : IsTop(n, Counting) => Max(Counting) = n
    <3> TAKE n
    <3> HAVE IsTop(n, Counting)
    <3>1. \A k \in Counting : (\A m \in Counting : k >= m) => k = n
      BY <2>1 DEF IsTop
    <3> QED
      BY <3>1 DEF IsTop, Max
  <2> QED
    BY <2>1, <2>2 DEF RowOfNewest
<1> QED
  BY <1>1, <1>2, NewestStep, PTL DEF Spec
-----------------------------------------------------------------------------
(* Solved blocks *)

\* The miner's own steps: only verify_block could send it back, and does not.
LEMMA MinerStores ==
  ASSUME \A k \in Nat : 2^k \in Nat \ {0}, NodeInv, Miner \/ Spin("miner")
  PROVE  StaysOrStores
<1> SUFFICES ASSUME pc["miner"] \in AfterSolve PROVE StaysOrStores
  BY DEF StaysOrStores
<1>1. \A l : Goto("miner", l) => pc'["miner"] = l
  BY DEF Goto, NodeInv, TypeOK, ThreadsTypeOK, Thread
<1>2. CASE QueryDifficulty("miner") \/ StoreDifficulty("miner") \/ TakeId
  BY <1>1, <1>2 DEF QueryDifficulty, StoreDifficulty, TakeId, AfterSolve, StaysOrStores
<1>3. CASE Verify
  BY <1>1, <1>3, RoundVerifies DEF Verify, MinedBlockVerifies, AfterSolve, StaysOrStores
<1>4. CASE WriteBlock
  <2>1. blk["miner"].hash \notin DOMAIN blocks /\ pc'["miner"] = "rows"
    BY <1>1, <1>4
    DEF WriteBlock, NodeInv, RoundIsCurrent, AfterSolve
  <2>2. /\ blk["miner"].hash \in DOMAIN blocks'
        /\ blocks'[blk["miner"].hash].blk = blk["miner"]
    BY <1>4 DEF WriteBlock, InsertBlock, InsertOrReplace
  <2> QED
    BY <2>1, <2>2 DEF StaysOrStores
<1>5. CASE Spin("miner")
  BY <1>1, <1>5 DEF Spin, StaysOrStores
<1>6. CASE TryHash
  BY <1>6 DEF TryHash, AfterSolve
<1>7. /\ ~ReadTip("miner") /\ ~MakeCoinbase("miner") /\ ~PollTx("miner") /\ ~EndTemplate("miner")
      /\ ~StartRound /\ ~SetPayee /\ ~Solve /\ ~Cancelled /\ ~CheckSkip /\ ~WriteTx /\ ~EndWrite
  <2>1. pc["miner"] \notin {"tip", "coinbase", "poll", "loop", "payto", "pow", "check", "rows"}
    BY DEF AfterSolve
  <2>2. ~ReadTip("miner") /\ ~MakeCoinbase("miner")
    BY <2>1, Zenon DEF ReadTip, MakeCoinbase
  <2>3. ~PollTx("miner") /\ ~EndTemplate("miner")
    BY <2>1 DEF PollTx, EndTemplate
  <2>4. ~StartRound /\ ~SetPayee /\ ~Solve /\ ~Cancelled
    BY <2>1, Zenon DEF StartRound, SetPayee, Solve, Cancelled
  <2>5. ~CheckSkip /\ ~WriteTx /\ ~EndWrite
    BY <2>1 DEF CheckSkip, WriteTx, EndWrite
  <2> QED
    BY <2>2, <2>3, <2>4, <2>5
<1> QED
  BY <1>2, <1>3, <1>4, <1>5, <1>6, <1>7 DEF Miner

LEMMA StoresStep ==
  ASSUME \A k \in Nat : 2^k \in Nat \ {0}, NodeInv, StartedOnce, [Next]_vars
  PROVE  StaysOrStores
<1>1. CASE Start
  BY <1>1 DEF Start, Boot, BootBlock, BootTx, BootLoad, NodeInv, Phases, AfterSolve, StaysOrStores
<1>2. CASE Crash
  BY <1>2 DEF Crash, Fresh, Thread, StaysOrStores
<1>3. CASE Monitor
  BY <1>3, MonitorLeaves DEF MonitorStart, StartedOnce, AfterSolve, StaysOrStores
<1>4. CASE Miner \/ Spin("miner")
  BY <1>4, MinerStores
<1>5. CASE Rpc \/ Spin("rpc") \/ UNCHANGED vars
  BY <1>5, RpcLeaves, StutterLeaves DEF StaysOrStores
<1> QED
  BY <1>1, <1>2, <1>3, <1>4, <1>5, SpinIsOfThread DEF Next

\* A block past the test of skip_flag (mining.c:14) is stored as it was
\* solved, whatever the monitor, the RPC thread and start-up do, unless the
\* process dies or the miner is lost in read_block.
THEOREM SolvedBlocksAreStored ==
  ASSUME \A k \in Nat : 2^k \in Nat \ {0}
  PROVE  Spec => SolvedBlockIsStored
<1> DEFINE Inv == NodeInv /\ StartedOnce
<1>1. Init => Inv
  BY NodeInitInv DEF Init, Fresh, Thread, StartedOnce
<1>2. Inv /\ [Next]_vars => Inv'
  BY NodeStepInv, StartedOnceStep
<1>3. Inv /\ [Next]_vars => [StaysOrStores]_vars
  BY StoresStep
<1> HIDE DEF Inv
<1>4. Spec => [][StaysOrStores]_vars
  BY <1>1, <1>2, <1>3, PTL DEF Spec
<1> QED
  BY <1>4 DEF SolvedBlockIsStored
=============================================================================
