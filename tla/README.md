# A TLA+ model of rcoind

`rcoind` (RCoinX 2) is a single node of a proof-of-work currency: it keeps a
chain of blocks and a table of transactions in SQLite, takes transfers over an
HTTP interface, mines blocks with one thread, and has no peer-to-peer layer yet
(`mining.c:17`). These modules model the node from its C source. Paths below
are relative to `src/src/`.

## The system

| Part | Code | State | Operations |
|---|---|---|---|
| Consensus arithmetic | `pow.c`, `block.h`, `main.h` | none | `calc_target`, `verify_work`, `calc_reward` |
| Block store | `chain.c` | tables `blocks`, `txcache`, `misc`; `_mainchain_length` | `read_block`, `write_block`, `get_height`, `get_balance_for_address`, `update_blockchain_difficulty` |
| Miner | `mining.c`, `pow.c`, `rpc.c:26-42` | a block on its stack | `start_mining`, `get_block_template`, `proof_of_work`, `verify_block` |
| Monitor | `rpc.c:120-130` | `mining_height`, `mine_skip` | cancels the round when the chain has grown |
| RPC server | `rpc.c` | `payto`, `mine_stop`, `mining_height` | `/status`, `/getblocktemplate`, `/wallet/tx`, `/mining/start`; read-only requests |
| HTTP server | `yhs.c` (vendored) | the listening socket, one connection | accept, read, route, answer, close |
| Pool | `txpool.c`, `queue.c`, `tx.c` | `transaction_pool`, `txpool_size_` | `txpool_add`, `txpool_get`, `verify_transaction` |
| Start-up | `main.c`, `chain.c:203-221` | the data directory, the file, `last_difficulty` | open or create the database, write genesis, start the RPC thread, make the pool |
| Alternative chains | `chain.c:138-202` | rows with `mainchain <> 1` | `periodic_cleanup` every 120 s; `switch_chains` (never called) |
| Helpers | `bn.c`, `base32.c`, `map.c` | none, or not used | big numbers, text encoding, a sorted map |
| Vendored | `sqlite3.h`, `miniz.c`, `tinycthread.c`, `../crypto` | | |

**Interaction.** Five threads run: main, which only starts the others; the RPC
thread, which serves one request at a time; the cleanup thread; and, from the
first `/mining/start` on, the monitor and the miner it creates. They share the
database, the pool, and the globals `mine_stop`, `mine_skip`, `mining_height`,
`payto`, `last_difficulty`. SQLite serialises single statements. Nothing else
is locked: no lock or transaction spans two statements.

**What is hard.** A round of the miner reads the tip, the reward, the pool, the
payee, the difficulty and the height in separate steps and writes block and
transactions in as many statements; clients and the monitor act between any two
of them; the process can die between any two of them, and what it finds at the
next start is whatever was written. `PROJECT.json` lists these places under
`hazards`, each at its line.

**What makes it correct.** The chain: rows linked by hash, no gaps, never
replaced, each paying the reward of its height, each with the work its
difficulty asks for. The ledger: balances come from transactions of stored
blocks only, and a transfer is in at most one block. The threads: a round's
readings are still true when its block is written; requests return; the monitor
does not stop the miner for ever.

## Modules

* `Rules` - `calc_target` with its `int32_t` conversions (`% Word`), the
  quotient test of `verify_work`, `calc_reward`. Pure operators.
* `Ledger` - the three tables as functions (a table with a UNIQUE index maps
  the indexed column to the row, so `insert or replace` is an update of the
  function), and each SQL statement of the running program as a state query or
  an action. `ChainLinked` and `DbTypeOK` are stated here.
* `Coin` - the abstract specification. Its state is the chain as a sequence
  and the fate of each transfer: new, checking, pooled, taken, mined or
  dropped. It says: blocks are only added on top, and a transfer is taken from
  the pool at most once and mined at most once.
* `Node` - the process over `Ledger`. The correspondence of its state:

  | Variable | Code |
  |---|---|
  | `blocks`, `txcache`, `difficulty` | the tables; the `misc` row `difficulty1` |
  | `pool` | `transaction_pool` |
  | `last_difficulty`, `mine_stop`, `mine_skip`, `mining_height`, `payto` | the globals |
  | `pc`, `blk`, `target` | where the RPC thread and the miner are; the block and the difficulty on their stacks |
  | `req` | the transfer `rpc_walletsend` is working on |
  | `monitor` | where the monitor is |
  | `id`, `row` | the argument `id` and the loop counter `i` of `write_block` |
  | `main` | where start-up is |
  | `sent`, `crashes` | history: transfers that were submitted; crashes so far |

  A step is one SQL statement or one access to shared memory.
  `get_block_template` and `get_difficulty` are called by both threads and are
  actions with the thread as parameter. `Crash` resets everything but the tables
  (and, inside `update_blockchain_difficulty`, may leave the row deleted).
  `ImplementsCoin` is the refinement of `Coin`: the chain is `blocks` in the
  order of ids, and the fate of a transfer is where it can be found (`Life`).
* `Funds` - `Node` with two history variables, to say when an address can spend
  more than it has. It adds no behaviour: every step is a step of `Node`.
* `Height` - `get_height` in its four accesses to `_mainchain_length` and the
  tables, and the miner's round as far as it depends on the result. `Node` takes
  the call as one step; `GoodUnlessStale` says what happens when that is not so.
* `ReadLock` - the `static int locked` of `read_block` in the optimised build, the
  mutex of the database connection, and the static buffer both protect.
* `Startup` - what comes before `Node`: data directory, file, four tables, genesis,
  the RPC thread and then the pool, with a death possible at every step.
* `Forks` - rows of chains other than 1, and `cleanup_thread`. Who writes such a row
  is external, since no code does yet.
* `HttpServer` - the thread of `yhs.c` from `accept` to the second `close`, and the
  table of file descriptors it shares with the miner's database journal.
* `TxQueue` - the pool's linked list in memory, one access of `llqueue_offer` or
  `llqueue_poll` per step, on a heap that reuses freed addresses; both threads
  poll, the RPC thread offers. The use of a freed node ends a behaviour with
  `damaged`, since C promises nothing from there on. `Fifo` is the queue it is
  meant to be. `Node` takes an offer and a poll as one step each;
  `OnlyClashesHurt` and `ImplementsFifo` say when that is justified.
* `PoolSize` - the loads and stores of `txpool_size_` by the two threads.
* `SortedMap` - the sorted list of `map.c`; `KeyValue` is the finite function it is
  meant to be.
* `BigNum` - `bn.c` on words of `Bits` bits, call by call, and the two loops of
  `bignum_div` turn by turn.
* `Base32` - both loops of `base32.c`, turn by turn, and `payto`, which a request
  decodes into while the miner copies it.
* `Emission` - the reward from height to height.
* `MCNode`, `MCFunds`, `MCCoin`, `MCChain`, `MCRoutines` - small instances for TLC.
  `MCChain` holds `ReadLock` and `Forks`, and `MCRoutines` the six modules before this
  entry. The modules they hold use no common state: a behaviour chooses one of them and
  the others rest, so that the states are the sum of theirs.
* `NodeProof` (about `Rules`, `Ledger` and `Node`), `NodeCoinProof` (about `Node` over
  `Coin`, and `Funds`), `CoinProof`, `RoutinesProof` (about `MCRoutines` and the six
  modules in it), `ChainProof` (about `MCChain`: `ReadLock` and `Forks`), `HeightProof`,
  `StartupProof`, `HttpServerProof` - theorems and proofs.

Next to an operation stand the mutants of it (`EndWrite_Early` before
`EndWrite`): the same action with a plausible bug, for showing that a property
would notice it. They are not part of any specification.

### Abstractions

* A transfer is a model value, identified by its signature; a hash is a number.
  `Solve` picks a hash that no stored block has: SHA-512 does not collide here.
  It may pick any hash the target allows.
* A height query followed by `read_block` of a row below it is one step. This is
  sound because rows are never replaced (`BlocksAreKept`) and heights only grow,
  so the pair can be moved to the moment of the query. The same holds for the
  queries within `get_difficulty` and within `verify_block`.
* `calc_target` computes in unbounded integers and wraps once at the end. Where
  the C expression `difference * 10` overflows an `int`, which C leaves
  undefined, this is what the compiler's two's complement arithmetic gives.
* A cancelled `proof_of_work` copies its last try, or an uninitialised buffer,
  into the block: `Cancelled` chooses any hash.
* `payto` while `base32_decode` overwrites it, and after one that failed, is the one
  value `MixedAddr`; `Base32` has the bytes.
* The write to `transactions[363]` behind the array is modelled as lost. In the
  build it lands in stack memory behind the local block, and what that memory is
  used for is up to the compiler.
* In `Node`, `llqueue_poll`, `llqueue_offer` and `get_height` are atomic,
  `transaction_pool` exists before the first request, and the tables exist before
  the first start. All of these are optimistic, and each has a module that
  drops it: `TxQueue`, `Height` and `Startup` show under which condition they hold
  and what breaks otherwise. `Node` does lose a thread for good where two meet in
  `read_block` (`Spin`); `ReadLock` shows why that is what the lock does.
* `TxQueue` reads `qu->tail` and `qu->head` once where the C text reads them twice
  without a store in between, as the optimised build does.
* `BigNum` has words of 2 bits instead of 32, and three of them instead of 16. The
  C code adds two words in a word, so its carry test is never true; nothing in it
  depends on the width, and `BigNumbersAreExact` is about any.
* `Forks` counts time in units of 120 s, and ages modulo `Span`, as `uint64_t`
  differences are. A block's time is what its sender wrote: any up to one unit in
  the future.
* `HttpServer` takes the parsing of a header or a form as a choice of its outcome:
  which handler, how much content, or an error. A byte that does not come for ten
  seconds may fail at any time. `send` has no timeout: a response longer than the
  kernel's buffers may stall until the client reads on or hangs up. A handler returns, or
  hangs in `read_block`; when it does the latter is the matter of `ReadLock`.
* In `SortedMap` a call is one step, as no two threads share a map; `malloc` may
  fail, and may return the address of a freed node.

## Runs

The runs of `Node` use small widths: `Word` 65536, `MaxHash` 1000, and hashes 1 and
2, which are good for every difficulty reached (hash 3 of `NodeRounds` is not good for the
301 of its third round). `Era` is 2, `StartReward` 9 and
`FloorReward` 2, so the reward halves within three blocks. A block has
`TxPerBlock` = 3 slots (two in `NodeLive` and `NodeRounds`) and `num_tx` counts modulo `NumTxMod` = 3: two transfers
beside the coinbase fill a block, and the counter wraps there, as 256 does below
363. Time stands still (`Times` = {1030}, 30 s after genesis); the retarget still
moves the difficulty from 1 to 301 at height 3, and its arithmetic is proved for all
times (`TargetIsPositive`). In `NodeCrash` `Word` is 1000: a restart loads the 301,
the next retarget gives 601, and that wraps below 0 and is cut to 1. The payee makes
no difference to what `NodeCrash`, `NodeLive` and `NodeRounds` ask, and the rows of
different coinbases differ in their reward: there `MixedAddr`, the value of a half
overwritten `payto`, is the payee itself.

| Run | Instance | Shows |
|---|---|---|
| `NodeCrash` | 2 hashes, 1 transfer, 2 crashes at any step and the restarts; status, wallet and mining requests | `TypeOK`, `CacheMatchesChain`, `TransfersRecorded`, `CoinbaseRowIsNewest`, `RoundIsCurrent`, `ChainLinked`, `RewardsFollowSchedule`, `BlocksAreKept`, `ImplementsCoin` |
| `NodeLive` | 1 hash, 3 transfers, blocks of two slots, all four requests, fairness | `RpcReturns`; `ImplementsCoin` where blocks are full and templates drop transfers |
| `NodeRounds` | 3 hashes, 1 transfer, blocks of two slots; status, wallet and mining requests; fairness | `PoolIsDrained`, `ChainGrows`, `SolvedBlockIsStored` |
| `NodeFunds` (`MCFunds`) | 2 hashes, 3 transfers: one of the miner's to bob, two of bob's that exceed it together | `NoOverdraft` |
| `NodeNumTx` | 2 transfers that fill a block | finding: `num_tx` does not count the transactions |
| `MCCoin` | 3 transfers, 2 blocks above genesis | `EachMinedOnce` of the abstract specification |
| `Startup` | 3 deaths | `DeathsExplained`, `HalfBuiltStaysHalfBuilt`, `StartsServing` |
| `Height` | 3 threads, 4 rows | `HeightIsRecent`, `NoGaps`, `GoodUnlessStale`, `RejectsOnlyIfStale` |
| `MCChain` | lock: 3 threads, 2 rows; chains: 2 alternative ones, 2 rows, 6 units of time | `ReadsOwnRow`, `OneIsLeft`, `InsideComesOut`; `YoungChainsStay`, `ChainsGo` |
| `ForksOrphan` | the same chains | finding: which chains go after two minutes |
| `HttpServer` | 2 clients, 3 descriptors, requests of up to 2 + 2 bytes | `DescriptorsAreOwn`, `NobodyIsForgotten`, `EverybodyGetsATurn` |
| `MCRoutines` | queue: 3 items, 3 addresses, 5 offers; counter: 5 offers; map: 3 keys; numbers: 3 words of 2 bits; addresses of 2 bytes; eras of 5 blocks up to height 120 | `OnlyClashesHurt`, `TakenOnce`, `ImplementsFifo`; `SizeIsRightUntilRace`; `ImplementsKeyValue`; `ExactUnlessCarryLost`, `DivisionEnds`; `PaysWhatWasAsked`; `RisesOnlyToFloor` |

**Why the bounds are enough.** Hashes bound the number of blocks: when they are
used up, `Solve` is disabled and the miner goes round by `Cancelled` only. Two
are needed for a second round on top of a mined block, and three in `NodeRounds`:
the monitor raises `mine_skip` only after a block, so that with three
it can do so twice while a hash is left, each time as late as behind the cancel test
of the next round. Transfers bound the submissions and `MaxCrashes` the crashes. A crash
resets everything but the tables; with two, the second one meets the tables that the
first one and a restart left. The theorems cover any number. In `NodeLive` a block holds the coinbase
and one transfer, so that with three transfers one is polled beyond a full block
while another stays in the pool. Three deaths let `Startup` die during set-up, on
what that left, and once more. Three threads in `Height` and `ReadLock` let one
overtake another while a third goes on. Three descriptors are the listener's, one
connection's and the journal's. Three addresses are enough for a list with a first,
a middle and a last node, and a node freed by a poll is used again by the next offer;
each of the three items is offered once, and `RoutinesProof` covers any number of items and
addresses. Three words let a carry or a borrow pass a middle word, and every pair of numbers is tried.
Base32 uses two bytes and an accumulator of `Width` 13 bits, which overflows
within an address as the `int` of the code does. The schedule is run with the code's rewards and
eras of 5 blocks instead of 3153600: height 120 is three times beyond the floor.

**Conditions.** Several properties say "unless", because without the condition they
are false, and the condition is the exact place where the code is exposed:
`OnlyClashesHurt` (two threads that rely on one list node at the same time; with a
nearly empty pool, which is the usual one, that is easily reached),
`SizeIsRightUntilRace`, `GoodUnlessStale`, `NoOverdraft`, `DescriptorsAreOwn`,
`PaysWhatWasAsked`, `ExactUnlessCarryLost`. The mutants show that each still catches a
bug.

**Deadlock.** `MCCoin` switches the check off: a chain with no hashes left and all
transfers settled is the end. So does `Startup`, which rests when the process is
down and has used up its deaths or cannot be started, and `MCRoutines`, whose
queue rests when every item was offered and taken, or was damaged, and whose
schedule ends at `LastHeight`. Everywhere else the check is on.

**Fairness.** `FairSpec` of `Node` adds weak fairness of each thread: `Serve` (the RPC
thread once a request has come in; clients need not ask), `Miner` and `Monitor`.
The threads are preemptively scheduled and none of their loops waits for another
thread's progress except `read_block`'s, which `Spin` gives up for good. That
`Solve` happens in the end is part of `WF_vars(Miner)`: nonce and timestamp keep
changing until a hash fits. `OutOfHashes` excludes the states in which the model,
not the code, has no hash left. `Miner` as a whole is the unit of fairness, so
nothing forces a round to be solved rather than cancelled. Since the monitor cancels
one round after each block, the miner still gets on: `ChainGrows` says that hashes are
found while there are any, `PoolIsDrained` that transfers do not stay in the pool, and
`SolvedBlockIsStored`, an action property, that a late cancel does not cost a block past the test
of `mining.c:14`. `HttpServer` has weak fairness of the server thread and of the closing of a
journal; no client ever has to do anything. A handler may still hang: `Hang` is
what `Spin` of `Node` and `ReadLock` look like from `yhs.c`, and `EverybodyGetsATurn`
names it, and a client that does not read its response, as what keeps the others
waiting for ever. The other
modules follow the same rule: `Startup` has weak fairness of the main thread, `MCChain` of
the cleanup thread and the clock and of each thread inside `read_block`, `BigNum` of the loops of `bignum_div`.

**Findings.**

1. `num_tx` is a `uint8_t` while a block has 363 slots and the poll loop
   adds up to 363 to it. `print_block` calls it "Num. TXs (including coinbase)"
   (`block.h:22`). With 255 or more transfers in the pool it wraps, and
   `write_block` records only `num_tx` of the block's transactions: none at all,
   not even the coinbase, for exactly 255 transfers (`NodeNumTx`). `TransfersRecorded`
   and `TypeOK` say what does hold: the rows are always a prefix of the
   block's transfers, and the count never runs past the slots filled.
2. `chain.c:173` says that orphans go after two minutes and alternative chains
   after ten. `chain_is_orphan` is 1 for a chain that has a second block, so it is
   the longer chains that go after two minutes and single blocks that stay for ten
   (`ForksOrphan`).

Two more places where `bn.c` does not do what `bn.h` says are exceptions that
`ExactUnlessCarryLost` names: `bignum_add` never carries (`bn.c:215`), and
`bignum_rshift` by a word or more moves words to the wrong place (`bn.c:547`).
`verify_work` reaches neither: it only divides and compares.

## Proofs

All theorems hold for every value of the constants that satisfies the named
assumptions of the modules they are about: `RulesAssumption`, `LedgerAssumption`,
`NodeAssumption`, `CoinAssumption`, `StartupAssumption`, `HeightAssumption`,
`ChainAssumption`, `RoutinesAssumption`, `HttpAssumption`. TLC evaluates each of them in a
run.

* `NodeProof` - first `TargetIsPositive`: `calc_target` never returns 0, for all inputs
  and word widths; `bignum_div` would not return for 0. Then lemmas about a good
  chain: its ids are `0 .. height-1`, `read_block` returns the one row with an id,
  and a block with a new hash, the tip's hash and the next id keeps the chain good
  (`InsertOnTop`). Then the inductive invariant of `Node`,

      NodeInv == TypeOK /\ ChainLinked /\ Phases /\ RoundIsCurrent /\ RewardsFollowSchedule

  with one lemma per action. The argument: only the miner adds rows
  once start-up is over, and start-up runs while no other thread does (`Phases`),
  so nothing moves the tip during a round, and `last_difficulty`
  is constant while the process lives, so neither does the difficulty; hence what
  the round read is still true when it writes (`RoundIsCurrent`). That in turn is
  what makes the row it inserts fit the chain: without it `ChainLinked` and
  `RewardsFollowSchedule` are not inductive, as `write_block` checks nothing. A
  restart re-inserts the genesis row, which by `ChainLinked` and
  `Phases` is already there unchanged.

  Direct consequences: `NodeTypeCorrect`, `RoundsAreCurrent`, `ChainIsLinked`,
  `RewardsAreScheduled`, `RowsAreKept`, and `MinedBlocksVerify` (`verify_block` accepts
  what the miner solved), which is in no run. `SolvedBlocksAreStored` (`SolvedBlockIsStored`)
  follows from it: of the steps behind the cancel test only `verify_block` could send the
  miner back, and the monitor's start, which resets the miner's place, happens once
  (`StartedOnce`). Both theorems have the hypothesis that powers of two
  are positive natural numbers, a fact that needs an induction the installed provers
  cannot do.

  `CacheIsOfChain` needs one fact more: while `write_block` records transactions, the
  block with that id and those transactions is in the table (`BlockIsStored`).
  `CoinbaseIsNewest` says which coinbase row the table holds at each stage:
  while a block is recorded (`DuringWrite`), during start-up (`DuringStart`) and
  otherwise (`Resting`); it also needs that the miner is started only once
  (`StartedOnce`), since a second one would leave a block half recorded.
* `NodeCoinProof` - `NodeImplementsCoin`: the whole of `Node`, with its crashes and
  restarts, implements `Coin`. The invariant behind it says that a transfer is in one
  place - the request, the pool, one thread's template or one stored block - and there
  once (`OneCopy`, `OnePlace`), and that it was submitted (`OnlySent`). With it
  five steps (`Send`, `Offer`, `PollTx`, `BootBlock`, `WriteBlock`) are steps of `Coin`
  that move a transfer or add a block; every other step only forgets transfers, which
  is `Coin`'s `Drop`, or changes nothing that `Coin` sees (`StepForgets`).
  `TransfersAreRecorded`: the rows of a block are written in order, so a block that is
  not being written lacks some only if a crash ended its writing; each crash
  adds at most one such block (`Recording`).

  `NobodyOverdraws` (`NoOverdraft` of `Funds`): an address owes more than it has only
  after one of the two exceptions. The invariant (`FundsInv`) says that an address with
  neither has a balance that is not negative, at most one transfer that
  was accepted and not yet recorded, and enough for that one (`Covered`); and that a row
  of `txcache` says what its transaction says (`RowsAreTrue`). Without the second part
  of `Covered` the first is not inductive: two transfers, each covered by the balance
  that was tested, need not be covered together. Acceptance puts a transfer under way
  against the balance of that moment, and the balance does not fall before its row is
  written, because the only rows that lower it are the address's own transfers and the
  replacement of its coinbase. The balance is a sum over a table of any size. Its lemmas
  (`SumsExist`, `SumsAgree`, `SumsAny`, `TotalAfter`) need induction over finite sets and
  get it from least counterexamples: the strict subsets of a finite set are
  well-founded. `TotalAfter` is the one the rest uses: a row written adds its effect and
  takes back that of the row it replaces. This theorem has the same hypothesis about
  powers of two as `MinedBlocksVerify`, for the rewards in the coinbase rows.
* `CoinProof!MinedAtMostOnce` - no transfer is in two blocks of the abstract
  node, nor twice in one; with `NodeImplementsCoin` this is a statement about the
  program.
* `StartupProof` - `StartupInv` ties the tables that exist to where the main thread
  is and why the process died. `StartupSafe`: it ends itself only without a data
  directory or on a half-made database, and uses a NULL pool only before it is ready.
  `NoRepair`: an interrupted set-up is never completed.
* `HeightProof` - for any number of threads, heights never run ahead of the chain and
  the ids have no gap; a chain that is not linked, or a rejected block, has one
  cause, a stale height (`HeightSafe`, `RejectsAreStale`). The argument (`HeightInv`):
  only the miner adds rows, so what its own query returned is the height until it
  inserts; what makes it wrong is another thread's store to `_mainchain_length`
  between the miner's store and its return.
* `RoutinesProof` - the pool's list for any number of items and addresses, with every
  interleaving of the accesses of an offer and of the polls. `Good(ns)` says that `ns` is
  the sequence of nodes the list consists of, which of them each thread relies on at its
  place in the code, and that what was offered is what was taken, followed by the list
  and the node being added (`InOrder`). Until two threads work on the same node
  (`QueueInv`) some `ns` is `Good`, and a step leaves it, appends a node or removes the
  first (`NodesStep`). `NothingLostBeforeClash` (`OnlyClashesHurt`) and
  `QueueImplementsFifo` (`ImplementsFifo`) follow: `Listed`, what the pointers lead to,
  is determined by `ns` (a list is reached from its head in one way only), and the step
  that changes `ns` is the step of `Fifo`. `OnePollerTakesOnce` (`TakenOnce`) holds beyond
  the first clash and needs an invariant of its own (`OnceInv`): the items of live nodes
  were offered, are distinct and were not taken, whatever the links between the nodes.
  `SizeIsRight` is the counter's: a thread between its load and its store holds the
  current value unless another one stored meanwhile (`CountInv`).

  `MapImplementsKeyValue`: `SortedMap` implements `KeyValue`, for any keys and any heap. The
  invariant (`MapInv`) says that the nodes in use are the list, in the strict order of
  their keys, and that `size` is its length. The order is what it takes: `map_find`
  stops at the first key that is not smaller, so in an unsorted list it would miss an entry and
  `map_set` would add the key again. `FindIs` says where it stops, `InsertStep` and
  `DeleteStep` what becomes of the sequence of nodes, `ContentsIs` that it stands for the
  function.

  `BlocksPayWhatWasAsked` (`PaysWhatWasAsked`): `TextInv` says that the digits made so far are those
  of the address (`Digit`, by the byte and the bit where a digit begins), that the bits in use of
  either loop's buffer are those of the byte they came from or belong to (`Encoding`,
  `DecodedBefore`), wherever a dash was put (`Typed`), and what is known of `payto` and
  of the bytes copied (`Paying`). The accumulator is an `int` that overflows after a few
  digits; never more than 12 of its bits are in use, and `WrapKeepsLow` is where the
  proof needs an `int` to have 13.

  `RewardRisesOnlyToFloor` (`RisesOnlyToFloor`): the next height is in the same era or the next
  (`EraOfNext`), and the shift of the next era halves that of this one. It needs a floor
  that is not above the start reward, as in `block.h:43`. This theorem and the one before have
  the hypothesis `PowersOfTwo`, that 2^0 is 1, 2^1 is 2, and powers are positive and multiply as
  they should; the provers know nothing of `^`.

  `BigNumbersAreExact` (`ExactUnlessCarryLost`), for words and numbers of any size. A number
  stands for a sum over its words (`SuffixIs`), and one induction (`ValIs`) serves every
  function: it is enough to name what each suffix of the result stands for and
  what runs over at the end. `AddIs`, `SubIs`, `IncIs`, `DecIs`, `LshiftIs`,
  `RshiftBitsIs`, `CmpIs` and `MulExact` say so function by function, `MulExact` from the
  rows of the double loop (`RowMeansIs`). `bignum_div` has the invariant `NumberInv`:
  while it doubles, `denom` is `current` times the divisor (`Doubling`); while it
  subtracts, the remainder and the quotient so far make up the dividend, the remainder is
  below twice `denom`, and the quotient has no bit at `current` or below (`Reducing`,
  `Room`), which is why the `bignum_or` adds. The doubling stops in time: it does not
  shift when `denom` has its highest bit, and `current` is not above `denom`. The
  hypothesis is `Powers`, the laws of `PowersOfTwo` for every positive base and
  (b^j)^k = b^(jk), since `Base` is a power of two and `All` one of `Base`.
* `ChainProof` - `YoungChainsAreKept` (`YoungChainsStay` of `Forks`), for any number of
  chains and rows: an entry of the list that the cleanup works through tells the age of
  a row its chain still has, unless that chain was deleted in this round, so that only
  a chain started since can bear its number (`ForkInv`). `ReadLockSafe`: every reader returns its own row, though
  `locked` excludes nobody, because the database mutex keeps two apart where the
  static buffer is filled (`OneInSqlite`); and one thread is always left.
  `HangsOnlyInMeeting`: a thread is lost only when it meets another one inside.
* `HttpServerProof!HttpSafe` - for any number of clients and descriptors, each thread
  works on its own descriptor and nobody is forgotten, until a number is closed twice
  around the opening of a journal. `HttpInv` adds what holds at each place of the
  server loop (`Phases`), and that after the first close the number is free
  (`FirstCloseHolds`).

**Model-checked only.** All liveness properties (`RpcReturns`,
`PoolIsDrained`, `ChainGrows`, `StartsServing`, `InsideComesOut`, `ChainsGo`,
`EverybodyGetsATurn`, `DivisionEnds`), which are beyond this prover. Every safety and
action property of the runs is a theorem.

## Hazards without a property

`chain.h:12` (a stored block is cut off at 65536 bytes) and `yhs.c:796` (a node without a
port): nothing in the program depends on the first, and no document says what should
happen in the second. `PROJECT.json` has the
details.

## Not modelled

The largest files are outside of what a model can state anything about, so the
modules stand for a small part of the lines and for nearly all of the program's own
logic:

* `sqlite3.h` (a third of all lines) has declarations and comments only; the library
  is linked from elsewhere. What `Node` and `ReadLock` use of it is that it
  serialises single statements.
* `miniz.c`, `tinycthread.c`, `../crypto` are vendored and, as far as the node calls
  them, functions without state: compression, thread start, SHA-512, AES, Ed25519. That
  hashes differ and that compression is lossless are abstractions named above; that
  the tables of the field arithmetic are right is number theory.
* `znet.h` is included nowhere; `win32` is a port layer.
* `yhs.c` beyond the life of a connection: the text of headers and forms, websockets,
  images, deferred responses, serving files. The node registers none of the latter.
* Code nobody calls: `switch_chains`, `txpool_remove` with the removal functions of
  `queue.c`, `save_wallet`, `load_wallet`, and of `bn.c` the bitwise operations, `pow` and
  the conversions to and from text.
* `wallet.c`: key generation and signatures. A transfer's signature is made and tested in
  the same request, so the test always succeeds.
* Options, logging, JSON and the hash rate: wording and formatting. That `log_fatal` and
  `log_assert` end the process is in `Startup` and in `Crash`.

## Plan

Done, in the order of what the rest depends on: `Rules`, `Ledger`, `Coin`, `Node` with
their proofs; then one module for each optimistic abstraction of `Node` (`TxQueue`,
`Height`, `ReadLock`, `Startup`, `Funds`); then the parts beside it (`Forks`, `HttpServer`,
and the small routines of `MCRoutines`); then the refinement proof, and the proofs about the
modules beside `Node`.

Left:

1. `Node` over `Height` instead of over an atomic `get_height`: one run whose miner may
   go on with a stale height.
2. When the program writes alternative chains, the writer in `Forks` replaces the
   external one, and `switch_chains` gets its action.
