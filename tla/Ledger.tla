------------------------------- MODULE Ledger -------------------------------
(***************************************************************************)
(* The SQLite database behind chain.c: the tables blocks, txcache and the  *)
(* difficulty row of misc, with the statements the rest of the program     *)
(* executes on them.  SQLite serialises the statements of all threads, so  *)
(* each statement is one atomic step of the module that uses it.           *)
(*                                                                         *)
(* A table with a UNIQUE index is a function from the indexed column to    *)
(* the rest of the row.  Every row is on chain 1: the two callers of       *)
(* write_block (init_blockchain and start_mining) pass is_main_chain = 1.  *)
(***************************************************************************)
EXTENDS Rules, Sequences, FiniteSetsExt

CONSTANTS
  Hash,          \* the hashes a mined block can get; finite in a TLC run
  Tx,            \* signed transfers, each one identified by its signature
  Sender, Receiver, Amount,  \* functions on Tx
  Addr,          \* public keys
  ZeroAddr,      \* the all-zero key that coinbase and genesis are paid from
  Times,         \* what time(NULL) may return
  GenesisTime, GenesisAddr, GenesisAmount,   \* genesis_block
  CoinbaseSig,   \* the all-zero signature of every coinbase transaction
  Coin,          \* number of values of a uint64_t amount (2^64)
  NumTxMod,      \* number of values of num_tx, a uint8_t (2^8)
  NoRow          \* absence of the difficulty row

\* genesis_block.hash is never set: 64 zero bytes.
GenesisHash == 0

ASSUME LedgerAssumption ==
  /\ Hash \subseteq 1 .. (MaxHash - 1)
  /\ Sender \in [Tx -> Addr] /\ Receiver \in [Tx -> Addr]
  /\ Amount \in [Tx -> Nat]
  /\ ZeroAddr \in Addr /\ GenesisAddr \in Addr
  /\ Times \subseteq Nat /\ GenesisTime \in Nat
  /\ GenesisAmount \in Nat
  /\ CoinbaseSig \notin Tx
  /\ Coin \in Nat \ {0}
  /\ NumTxMod \in Nat \ {0, 1}
  /\ NoRow \notin Target

VARIABLES
  blocks,      \* hash |-> [id, blk], unique by index idx_blockhash
  txcache,     \* signature |-> row, unique by index idx_txsig
  difficulty   \* valueint of the misc row 'difficulty1', or NoRow

dbVars == <<blocks, txcache, difficulty>>

\* The ids in table blocks; get_blockchain_length(1) is the greatest plus one.
Ids == {blocks[h].id : h \in DOMAIN blocks}

get_height == Max(Ids) + 1

\* Amounts a coinbase can have: none yet, the premine, or the reward of a
\* height just above a row of the chain.
Reward == {0, GenesisAmount} \cup {CalcReward(i + 1) : i \in Ids}

\* struct block, without the fields no decision depends on (version,
\* nonce, reserved).  txs are transactions[1 ..], payee and reward are the
\* to and amount of transactions[0], the coinbase.
Block == [hash : 0 .. MaxHash, lasthash : 0 .. MaxHash, time : Nat,
          payee : Addr, reward : Reward, txs : Seq(Tx), num_tx : 0 .. (NumTxMod - 1)]

TxRow == [blockid : Nat, from : Addr, to : Addr, amount : Reward \cup {Amount[x] : x \in Tx}]

genesis_block ==
  [hash |-> GenesisHash, lasthash |-> GenesisHash, time |-> GenesisTime,
   payee |-> GenesisAddr, reward |-> GenesisAmount, txs |-> <<>>,
   num_tx |-> 1 % NumTxMod]

\* "insert or replace" into a table with a unique index.
InsertOrReplace(table, key, row) ==
  [k \in DOMAIN table \cup {key} |-> IF k = key THEN row ELSE table[k]]
-----------------------------------------------------------------------------
\* read_block(1, id).
read_block(id) ==
  blocks[CHOOSE h \in DOMAIN blocks : blocks[h].id = id].blk

\* get_balance_for_address: a row counts against its sender even when the
\* sender is the receiver too; the sum is a uint64_t.
get_balance(addr) ==
  LET effect(s) == IF txcache[s].from = addr THEN -txcache[s].amount
                   ELSE IF txcache[s].to = addr THEN txcache[s].amount
                   ELSE 0
  IN  MapThenSumSet(effect, DOMAIN txcache) % Coin

\* Mutant: no default for a database without the row.
get_blockchain_difficulty_NoDefault == difficulty

\* get_blockchain_difficulty(1): 1 when there is no row.
get_blockchain_difficulty == IF difficulty = NoRow THEN 1 ELSE difficulty

\* __get_difficulty(1) and verify_block use the value of last_difficulty
\* that init_blockchain loaded: last is that global.
DifficultyOf(last) ==
  IF get_height < 3 THEN CalcTarget(0, 0, 0)
  ELSE CalcTarget(last, read_block(get_height - 1).time,
                        read_block(get_height - 2).time)
-----------------------------------------------------------------------------
\* write_block, first statement: the row of the block itself.
InsertBlock(id, b) ==
  /\ blocks' = InsertOrReplace(blocks, b.hash, [id |-> id, blk |-> b])
  /\ UNCHANGED <<txcache, difficulty>>

\* write_block, one iteration of the loop over transactions[i], i < num_tx.
InsertTx(id, b, i) ==
  /\ txcache' =
       IF i = 0
       THEN InsertOrReplace(txcache, CoinbaseSig,
              [blockid |-> id, from |-> ZeroAddr, to |-> b.payee, amount |-> b.reward])
       ELSE InsertOrReplace(txcache, b.txs[i],
              [blockid |-> id, from |-> Sender[b.txs[i]],
               to |-> Receiver[b.txs[i]], amount |-> Amount[b.txs[i]]])
  /\ UNCHANGED <<blocks, difficulty>>

\* update_blockchain_difficulty(1, d): delete and insert in one sqlite3_exec.
UpdateDifficulty(d) ==
  /\ difficulty' = d
  /\ UNCHANGED <<blocks, txcache>>
-----------------------------------------------------------------------------
DbInit == blocks = <<>> /\ txcache = <<>> /\ difficulty = NoRow

DbTypeOK ==
  /\ DOMAIN blocks \subseteq Hash \cup {GenesisHash}
  /\ \A h \in DOMAIN blocks : blocks[h] \in [id : Nat, blk : Block]
  /\ DOMAIN txcache \subseteq Tx \cup {CoinbaseSig}
  /\ \A s \in DOMAIN txcache : txcache[s] \in TxRow
  /\ difficulty \in Target \cup {NoRow}

\* The rows of table blocks are one chain: ids without a gap or a
\* duplicate, each row's lasthash the hash of the row below.  write_block
\* checks none of this, and replaces rows with the same hash.
ChainLinked ==
  /\ DOMAIN blocks # {} => Ids = 0 .. (get_height - 1)
  /\ \A g, h \in DOMAIN blocks :
       /\ blocks[h].blk.hash = h
       /\ blocks[g].id = blocks[h].id => g = h
       /\ blocks[h].id = blocks[g].id + 1 => blocks[h].blk.lasthash = g
=============================================================================
