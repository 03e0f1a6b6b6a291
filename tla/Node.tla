-------------------------------- MODULE Node --------------------------------
(***************************************************************************)
(* One rcoind process over its database, across crashes and restarts: the  *)
(* thread that serves RPC requests (rpc.c), the miner (mining.c, pow.c),   *)
(* the monitor that cancels the miner's round when the chain grows         *)
(* (rpc.c), and the start-up of main.c and init_blockchain that writes the *)
(* genesis block again.                                                    *)
(*                                                                         *)
(* A step is one database statement, or one access to a variable another   *)
(* thread uses.  Rows of the chain never change (BlocksAreKept), so a      *)
(* query for the height and the read of a row below it are one step.       *)
(* llqueue operations are atomic here.                                     *)
(***************************************************************************)
EXTENDS Ledger

CONSTANTS
  TxPerBlock,   \* TX_PER_BLOCK, slots of a block, the coinbase's included
  Payee,        \* addresses /mining/start is called with
  MixedAddr,    \* payto half overwritten by base32_decode
  Requests,     \* the requests clients make, of those that change state
  MaxCrashes    \* bound: crashes in a behaviour

ASSUME NodeAssumption ==
  /\ TxPerBlock \in Nat \ {0}
  /\ NumTxMod <= TxPerBlock
  /\ Payee \subseteq Addr /\ MixedAddr \in Addr
  /\ Requests \subseteq {"getblocktemplate", "status", "mining/start", "wallet/tx"}
  /\ MaxCrashes \in Nat

VARIABLES
  main,             \* what the main thread is doing
  pool, sent,       \* transaction_pool; transfers clients have submitted
  last_difficulty, mine_stop, mine_skip, mining_height, payto,  \* globals
  pc, blk, target,  \* where the threads "rpc" and "miner" are, and their locals
  req,              \* the transfer rpc_walletsend is handling
  monitor,          \* where mining_monitor_thread is
  id, row,          \* arguments and loop counter of write_block
  crashes

globals == <<last_difficulty, mine_stop, mine_skip, mining_height, payto>>
locals == <<pc, blk, target>>
writer == <<id, row>>
vars == <<dbVars, main, pool, sent, globals, locals, req, monitor, writer, crashes>>

Thread == {"rpc", "miner"}

\* memset(&b, 0, sizeof(struct block)), and a local that is not in use.
NoBlock == [hash |-> 0, lasthash |-> 0, time |-> 0, payee |-> ZeroAddr,
            reward |-> 0, txs |-> <<>>, num_tx |-> 0]

RpcPlace == {"off", "idle", "tip", "coinbase", "poll", "difficulty", "store",
             "balance", "offer", "payto", "start", "spin"}

MinerPlace == {"off", "loop", "tip", "coinbase", "poll", "payto", "difficulty",
               "store", "pow", "check", "reverify", "restore", "verify",
               "height", "insert", "rows", "spin"}

\* The places from which a thread calls read_block.
Reading == {"tip", "difficulty", "reverify", "verify"}

Goto(t, label) == pc' = [pc EXCEPT ![t] = label]
-----------------------------------------------------------------------------
(* read_block's lock *)

\* A thread that enters read_block while the other one is in it finds
\* `locked` set.  The optimised build tests the plain int once and then
\* spins for ever (module ReadLock).
Spin(t) ==
  /\ pc[t] \in Reading
  /\ \E u \in Thread \ {t} : pc[u] \in Reading
  /\ Goto(t, "spin")
  /\ UNCHANGED <<dbVars, main, pool, sent, globals, blk, target, req, monitor, writer, crashes>>
-----------------------------------------------------------------------------
(* get_block_template, called by the miner and by rpc_gettemplate *)

ReadTip(t) ==
  /\ pc[t] = "tip"
  /\ \E now \in Times :
       blk' = [blk EXCEPT ![t] =
                [NoBlock EXCEPT !.lasthash = read_block(get_height - 1).hash,
                                !.time = now, !.num_tx = 1 % NumTxMod]]
  /\ Goto(t, "coinbase")
  /\ UNCHANGED <<dbVars, main, pool, sent, globals, target, req, monitor, writer, crashes>>

\* Mutant: the height is counted one too far.
MakeCoinbase_NextReward(t) ==
  /\ pc[t] = "coinbase"
  /\ blk' = [blk EXCEPT ![t].reward = CalcReward(get_height + 1)]
  /\ Goto(t, "poll")
  /\ UNCHANGED <<dbVars, main, pool, sent, globals, target, req, monitor, writer, crashes>>

\* COINBASE_TX pays the reward of the height at this moment.
MakeCoinbase(t) ==
  /\ pc[t] = "coinbase"
  /\ blk' = [blk EXCEPT ![t].reward = CalcReward(get_height)]
  /\ Goto(t, "poll")
  /\ UNCHANGED <<dbVars, main, pool, sent, globals, target, req, monitor, writer, crashes>>

\* txpool_get returned a transfer and a slot is left for it.
PollTx(t) ==
  /\ pc[t] = "poll"
  /\ pool # <<>>
  /\ Len(blk[t].txs) < TxPerBlock
  /\ blk' = [blk EXCEPT ![t].txs = Append(@, Head(pool))]
  /\ pool' = Tail(pool)
  /\ UNCHANGED <<dbVars, main, sent, globals, pc, target, req, monitor, writer, crashes>>

\* Mutant: the transfer that does not fit is offered to the pool again.
EndTemplate_PutBack(t) ==
  /\ pc[t] = "poll"
  /\ pool = <<>> \/ Len(blk[t].txs) = TxPerBlock
  /\ LET n == Len(blk[t].txs)
     IN  /\ pool' = IF n < TxPerBlock THEN pool ELSE Append(pool, blk[t].txs[n])
         /\ blk' = [blk EXCEPT ![t] =
              IF t = "miner"
              THEN [@ EXCEPT !.txs = IF n < TxPerBlock THEN @ ELSE SubSeq(@, 1, n - 1),
                             !.num_tx = (1 + n) % NumTxMod]
              ELSE NoBlock]
  /\ Goto(t, IF t = "miner" THEN "payto" ELSE "idle")
  /\ UNCHANGED <<dbVars, main, sent, globals, target, req, monitor, writer, crashes>>

\* The loop ends on an empty pool, or on a full block after one transfer
\* more was polled.  The last slot the loop fills lies behind the array and
\* is not copied; num_tx is a uint8_t.  The miner goes on with its copy,
\* the RPC thread sends it and forgets it.
EndTemplate(t) ==
  /\ pc[t] = "poll"
  /\ pool = <<>> \/ Len(blk[t].txs) = TxPerBlock
  /\ pool' = IF pool = <<>> THEN pool ELSE Tail(pool)
  /\ LET n == Len(blk[t].txs)
         kept == SubSeq(blk[t].txs, 1, IF n < TxPerBlock THEN n ELSE TxPerBlock - 1)
     IN  blk' = [blk EXCEPT ![t] =
           IF t = "miner" THEN [@ EXCEPT !.txs = kept, !.num_tx = (1 + n) % NumTxMod]
                          ELSE NoBlock]
  /\ Goto(t, IF t = "miner" THEN "payto" ELSE "idle")
  /\ UNCHANGED <<dbVars, main, sent, globals, target, req, monitor, writer, crashes>>
-----------------------------------------------------------------------------
(* get_difficulty(1), called by rpc_status, by the miner and by verify_block *)

QueryDifficulty(t) ==
  /\ pc[t] \in {"difficulty", "reverify"}
  /\ target' = [target EXCEPT ![t] = DifficultyOf(last_difficulty)]
  /\ Goto(t, IF pc[t] = "difficulty" THEN "store" ELSE "restore")
  /\ UNCHANGED <<dbVars, main, pool, sent, globals, blk, req, monitor, writer, crashes>>

\* Mutant: last_difficulty follows the row.
StoreDifficulty_Follow(t) ==
  /\ pc[t] \in {"store", "restore"}
  /\ UpdateDifficulty(target[t])
  /\ last_difficulty' = target[t]
  /\ Goto(t, IF t = "rpc" THEN "idle" ELSE IF pc[t] = "store" THEN "pow" ELSE "verify")
  /\ target' = IF t = "rpc" THEN [target EXCEPT ![t] = 1] ELSE target
  /\ UNCHANGED <<main, pool, sent, mine_stop, mine_skip, mining_height, payto, blk, req,
                 monitor, writer, crashes>>

StoreDifficulty(t) ==
  /\ pc[t] \in {"store", "restore"}
  /\ UpdateDifficulty(target[t])
  /\ Goto(t, IF t = "rpc" THEN "idle" ELSE IF pc[t] = "store" THEN "pow" ELSE "verify")
  /\ target' = IF t = "rpc" THEN [target EXCEPT ![t] = 1] ELSE target
  /\ UNCHANGED <<main, pool, sent, globals, blk, req, monitor, writer, crashes>>
-----------------------------------------------------------------------------
(* The miner: start_mining *)

\* Mutant: the stop flag tested the wrong way round.
StartRound_Inverted ==
  /\ pc["miner"] = "loop"
  /\ mine_stop
  /\ mine_skip' = FALSE
  /\ Goto("miner", "tip")
  /\ UNCHANGED <<dbVars, main, pool, sent, last_difficulty, mine_stop, mining_height,
                 payto, blk, target, req, monitor, writer, crashes>>

StartRound ==
  /\ pc["miner"] = "loop"
  /\ ~mine_stop
  /\ mine_skip' = FALSE
  /\ target' = [target EXCEPT !["miner"] = 1]
  /\ Goto("miner", "tip")
  /\ UNCHANGED <<dbVars, main, pool, sent, last_difficulty, mine_stop, mining_height,
                 payto, blk, req, monitor, writer, crashes>>

SetPayee ==
  /\ pc["miner"] = "payto"
  /\ blk' = [blk EXCEPT !["miner"].payee = payto]
  /\ Goto("miner", "difficulty")
  /\ UNCHANGED <<dbVars, main, pool, sent, globals, target, req, monitor, writer, crashes>>

\* proof_of_work finds a hash.  No two blocks ever hash alike.  The
\* timestamp moves on each time the nonce wraps.
Solve ==
  /\ pc["miner"] = "pow"
  /\ \E h \in Hash \ DOMAIN blocks, later \in Times :
       /\ VerifyWork(h, target["miner"])
       /\ later >= blk["miner"].time
       /\ blk' = [blk EXCEPT !["miner"] = [@ EXCEPT !.hash = h, !.time = later]]
  /\ Goto("miner", "check")
  /\ UNCHANGED <<dbVars, main, pool, sent, globals, target, req, monitor, writer, crashes>>

\* A hash that does not fit the target: on to the next nonce.
TryHash == pc["miner"] = "pow" /\ UNCHANGED vars

\* proof_of_work sees *cancel_flag and returns the hash of its last try, or
\* an uninitialised one.
Cancelled ==
  /\ pc["miner"] = "pow"
  /\ mine_skip
  /\ \E junk \in Hash \cup {MaxHash} : blk' = [blk EXCEPT !["miner"].hash = junk]
  /\ Goto("miner", "check")
  /\ UNCHANGED <<dbVars, main, pool, sent, globals, target, req, monitor, writer, crashes>>

CheckSkip ==
  /\ pc["miner"] = "check"
  /\ Goto("miner", IF mine_skip THEN "loop" ELSE "reverify")
  /\ blk' = IF mine_skip THEN [blk EXCEPT !["miner"] = NoBlock] ELSE blk
  /\ UNCHANGED <<dbVars, main, pool, sent, globals, target, req, monitor, writer, crashes>>

\* verify_block, once it has its difficulty.
verify_block(b, difficulty_now) ==
  /\ VerifyWork(b.hash, difficulty_now)
  /\ b.lasthash = read_block(get_height - 1).hash
  /\ b.reward <= CalcReward(get_height)

\* Mutant: the flag is tested once more, after verify_block.
Verify_TestSkip ==
  /\ pc["miner"] = "verify"
  /\ LET ok == verify_block(blk["miner"], target["miner"]) /\ ~mine_skip
     IN  /\ Goto("miner", IF ok THEN "height" ELSE "loop")
         /\ blk' = IF ok THEN blk ELSE [blk EXCEPT !["miner"] = NoBlock]
  /\ UNCHANGED <<dbVars, main, pool, sent, globals, target, req, monitor, writer, crashes>>

Verify ==
  /\ pc["miner"] = "verify"
  /\ LET ok == verify_block(blk["miner"], target["miner"])
     IN  /\ Goto("miner", IF ok THEN "height" ELSE "loop")
         /\ blk' = IF ok THEN blk ELSE [blk EXCEPT !["miner"] = NoBlock]
  /\ UNCHANGED <<dbVars, main, pool, sent, globals, target, req, monitor, writer, crashes>>

\* Mutant: the id of the tip.
TakeId_Tip ==
  /\ pc["miner"] = "height"
  /\ id' = get_height - 1
  /\ Goto("miner", "insert")
  /\ UNCHANGED <<dbVars, main, pool, sent, globals, blk, target, req, monitor, row, crashes>>

\* The second argument of write_block(1, get_height(), &b).
TakeId ==
  /\ pc["miner"] = "height"
  /\ id' = get_height
  /\ Goto("miner", "insert")
  /\ UNCHANGED <<dbVars, main, pool, sent, globals, blk, target, req, monitor, row, crashes>>

\* Mutant: an error of the insert is ignored.
WriteBlock_IgnoreError ==
  /\ pc["miner"] = "insert"
  /\ row' = 0
  /\ Goto("miner", "rows")
  /\ UNCHANGED <<dbVars, main, pool, sent, globals, blk, target, req, monitor, id, crashes>>

\* Mutant: the loop over the transactions starts behind the coinbase.
WriteBlock_SkipCoinbase ==
  /\ pc["miner"] = "insert"
  /\ InsertBlock(id, blk["miner"])
  /\ row' = 1
  /\ Goto("miner", "rows")
  /\ UNCHANGED <<main, pool, sent, globals, blk, target, req, monitor, id, crashes>>

WriteBlock ==
  /\ pc["miner"] = "insert"
  /\ InsertBlock(id, blk["miner"])
  /\ row' = 0
  /\ Goto("miner", "rows")
  /\ UNCHANGED <<main, pool, sent, globals, blk, target, req, monitor, id, crashes>>

WriteTx ==
  /\ pc["miner"] = "rows"
  /\ row < blk["miner"].num_tx
  /\ InsertTx(id, blk["miner"], row)
  /\ row' = row + 1
  /\ UNCHANGED <<main, pool, sent, globals, locals, req, monitor, id, crashes>>

\* Mutant: the loop ends one transaction early.
EndWrite_Early ==
  /\ pc["miner"] = "rows"
  /\ row + 1 >= blk["miner"].num_tx
  /\ row' = 0 /\ id' = 0
  /\ blk' = [blk EXCEPT !["miner"] = NoBlock]
  /\ Goto("miner", "loop")
  /\ UNCHANGED <<dbVars, main, pool, sent, globals, target, req, monitor, crashes>>

EndWrite ==
  /\ pc["miner"] = "rows"
  /\ row = blk["miner"].num_tx
  /\ row' = 0 /\ id' = 0
  /\ blk' = [blk EXCEPT !["miner"] = NoBlock]
  /\ Goto("miner", "loop")
  /\ UNCHANGED <<dbVars, main, pool, sent, globals, target, req, monitor, crashes>>

Miner ==
  \/ ReadTip("miner") \/ MakeCoinbase("miner") \/ PollTx("miner") \/ EndTemplate("miner")
  \/ QueryDifficulty("miner") \/ StoreDifficulty("miner")
  \/ StartRound \/ SetPayee \/ Solve \/ TryHash \/ Cancelled \/ CheckSkip \/ Verify
  \/ TakeId \/ WriteBlock \/ WriteTx \/ EndWrite
-----------------------------------------------------------------------------
(* mining_monitor_thread *)

MonitorStart ==
  /\ monitor = "start"
  /\ mining_height' = get_height
  /\ monitor' = "watch"
  /\ Goto("miner", "loop")
  /\ UNCHANGED <<dbVars, main, pool, sent, last_difficulty, mine_stop, mine_skip, payto,
                 blk, target, req, writer, crashes>>

MonitorSee ==
  /\ monitor = "watch"
  /\ ~mine_stop
  /\ get_height > mining_height
  /\ monitor' = "raise"
  /\ UNCHANGED <<dbVars, main, pool, sent, globals, locals, req, writer, crashes>>

MonitorSkip ==
  /\ monitor = "raise"
  /\ mine_skip' = TRUE
  /\ monitor' = "note"
  /\ UNCHANGED <<dbVars, main, pool, sent, last_difficulty, mine_stop, mining_height,
                 payto, locals, req, writer, crashes>>

\* Mutant: the new height is not remembered.
MonitorNote_Forget ==
  /\ monitor = "note"
  /\ monitor' = "watch"
  /\ UNCHANGED <<dbVars, main, pool, sent, globals, locals, req, writer, crashes>>

MonitorNote ==
  /\ monitor = "note"
  /\ mining_height' = get_height
  /\ monitor' = "watch"
  /\ UNCHANGED <<dbVars, main, pool, sent, last_difficulty, mine_stop, mine_skip, payto,
                 locals, req, writer, crashes>>

Monitor == MonitorStart \/ MonitorSee \/ MonitorSkip \/ MonitorNote
-----------------------------------------------------------------------------
(* The RPC thread *)

\* rpc_walletsend builds and signs a transfer; a client never builds the
\* same one twice (the nonce and the time are part of what is signed).
Send(x) ==
  /\ pc["rpc"] = "idle" /\ "wallet/tx" \in Requests
  /\ x \notin sent
  /\ sent' = sent \cup {x}
  /\ req' = {x}
  /\ Goto("rpc", "balance")
  /\ UNCHANGED <<dbVars, main, pool, globals, blk, target, monitor, writer, crashes>>

\* Mutant: no answer for a transfer that is not covered.
VerifyTransaction_Silent ==
  /\ pc["rpc"] = "balance"
  /\ \E x \in req : get_balance(Sender[x]) >= Amount[x]
  /\ Goto("rpc", "offer")
  /\ UNCHANGED <<dbVars, main, pool, sent, globals, blk, target, req, monitor, writer, crashes>>

\* Mutant: the balance is not compared.
VerifyTransaction_Unchecked ==
  /\ pc["rpc"] = "balance"
  /\ Goto("rpc", "offer")
  /\ UNCHANGED <<dbVars, main, pool, sent, globals, blk, target, req, monitor, writer, crashes>>

\* verify_transaction; the signature was just made and is good.
VerifyTransaction ==
  /\ pc["rpc"] = "balance"
  /\ \E x \in req :
       IF get_balance(Sender[x]) < Amount[x]
       THEN Goto("rpc", "idle") /\ req' = {}
       ELSE Goto("rpc", "offer") /\ req' = req
  /\ UNCHANGED <<dbVars, main, pool, sent, globals, blk, target, monitor, writer, crashes>>

\* Mutant: the transfer is broadcast twice.
Offer_Twice ==
  /\ pc["rpc"] = "offer"
  /\ \E x \in req : pool' = pool \o <<x, x>>
  /\ req' = {}
  /\ Goto("rpc", "idle")
  /\ UNCHANGED <<dbVars, main, sent, globals, blk, target, monitor, writer, crashes>>

Offer ==
  /\ pc["rpc"] = "offer"
  /\ \E x \in req : pool' = Append(pool, x)
  /\ req' = {}
  /\ Goto("rpc", "idle")
  /\ UNCHANGED <<dbVars, main, sent, globals, blk, target, monitor, writer, crashes>>

\* rpc_gettemplate begins, or rpc_status does.
Request ==
  /\ pc["rpc"] = "idle"
  /\ \/ "getblocktemplate" \in Requests /\ Goto("rpc", "tip")
     \/ "status" \in Requests /\ Goto("rpc", "difficulty")
  /\ UNCHANGED <<dbVars, main, pool, sent, globals, blk, target, req, monitor, writer, crashes>>

RequestMining ==
  /\ pc["rpc"] = "idle" /\ "mining/start" \in Requests
  /\ payto' = MixedAddr
  /\ Goto("rpc", "payto")
  /\ UNCHANGED <<dbVars, main, pool, sent, last_difficulty, mine_stop, mine_skip,
                 mining_height, blk, target, req, monitor, writer, crashes>>

\* base32_decode ends.  It may have stopped at a bad character, with payto
\* half overwritten: its result is ignored, and mining starts all the same.
DecodePayee ==
  /\ pc["rpc"] = "payto"
  /\ payto' \in Payee \cup {MixedAddr}
  /\ Goto("rpc", "start")
  /\ UNCHANGED <<dbVars, main, pool, sent, last_difficulty, mine_stop, mine_skip,
                 mining_height, blk, target, req, monitor, writer, crashes>>

StartMining ==
  /\ pc["rpc"] = "start"
  /\ Goto("rpc", "idle")
  /\ IF mine_stop
     THEN mining_height' = get_height /\ mine_stop' = FALSE /\ monitor' = "start"
     ELSE UNCHANGED <<mining_height, mine_stop, monitor>>
  /\ UNCHANGED <<dbVars, main, pool, sent, last_difficulty, mine_skip, payto,
                 blk, target, req, writer, crashes>>

\* What the thread does without waiting for a client.
Serve ==
  \/ ReadTip("rpc") \/ MakeCoinbase("rpc") \/ PollTx("rpc") \/ EndTemplate("rpc")
  \/ QueryDifficulty("rpc") \/ StoreDifficulty("rpc")
  \/ VerifyTransaction \/ Offer \/ DecodePayee \/ StartMining

Rpc == Serve \/ (\E x \in Tx : Send(x)) \/ Request \/ RequestMining
-----------------------------------------------------------------------------
(* The main thread: start-up *)

Boot ==
  /\ main = "down"
  /\ main' = "genesis"
  /\ UNCHANGED <<dbVars, pool, sent, globals, locals, req, monitor, writer, crashes>>

\* Mutant: genesis is written on top of the chain.
BootBlock_OnTop ==
  /\ main = "genesis"
  /\ InsertBlock(IF blocks = <<>> THEN 0 ELSE get_height, genesis_block)
  /\ main' = "genesis_tx"
  /\ UNCHANGED <<pool, sent, globals, locals, req, monitor, writer, crashes>>

\* write_block(1, 0, &genesis_block), at every start.
BootBlock ==
  /\ main = "genesis"
  /\ InsertBlock(0, genesis_block)
  /\ main' = "genesis_tx"
  /\ UNCHANGED <<pool, sent, globals, locals, req, monitor, writer, crashes>>

BootTx ==
  /\ main = "genesis_tx"
  /\ InsertTx(0, genesis_block, 0)
  /\ main' = "load"
  /\ UNCHANGED <<pool, sent, globals, locals, req, monitor, writer, crashes>>

BootLoad ==
  /\ main = "load"
  /\ last_difficulty' = get_blockchain_difficulty
  /\ main' = "up"
  /\ Goto("rpc", "idle")
  /\ UNCHANGED <<dbVars, pool, sent, mine_stop, mine_skip, mining_height, payto,
                 blk, target, req, monitor, writer, crashes>>

Start == Boot \/ BootBlock \/ BootTx \/ BootLoad

\* The values the process starts with; nothing of them survives a crash.
Fresh ==
  [pool |-> <<>>, last_difficulty |-> 0, mine_stop |-> TRUE, mine_skip |-> FALSE,
   mining_height |-> 0, payto |-> ZeroAddr, pc |-> [t \in Thread |-> "off"],
   blk |-> [t \in Thread |-> NoBlock], target |-> [t \in Thread |-> 1],
   req |-> {}, monitor |-> "off", id |-> 0, row |-> 0]

\* A kill, a power cut or log_fatal's abort.  A crash inside
\* update_blockchain_difficulty may fall between its delete and its insert.
Crash ==
  /\ main # "down" /\ crashes < MaxCrashes
  /\ main' = "down" /\ crashes' = crashes + 1
  /\ difficulty' \in {difficulty} \cup
       {NoRow : t \in {u \in Thread : pc[u] \in {"store", "restore"}}}
  /\ pool' = Fresh.pool /\ last_difficulty' = Fresh.last_difficulty
  /\ mine_stop' = Fresh.mine_stop /\ mine_skip' = Fresh.mine_skip
  /\ mining_height' = Fresh.mining_height /\ payto' = Fresh.payto
  /\ pc' = Fresh.pc /\ blk' = Fresh.blk /\ target' = Fresh.target
  /\ req' = Fresh.req /\ monitor' = Fresh.monitor
  /\ id' = Fresh.id /\ row' = Fresh.row
  /\ UNCHANGED <<blocks, txcache, sent>>
-----------------------------------------------------------------------------
Init ==
  /\ DbInit
  /\ main = "down" /\ crashes = 0 /\ sent = {}
  /\ pool = Fresh.pool /\ last_difficulty = Fresh.last_difficulty
  /\ mine_stop = Fresh.mine_stop /\ mine_skip = Fresh.mine_skip
  /\ mining_height = Fresh.mining_height /\ payto = Fresh.payto
  /\ pc = Fresh.pc /\ blk = Fresh.blk /\ target = Fresh.target
  /\ req = Fresh.req /\ monitor = Fresh.monitor
  /\ id = Fresh.id /\ row = Fresh.row

Next == Start \/ Rpc \/ Miner \/ Monitor \/ (\E t \in Thread : Spin(t)) \/ Crash

Spec == Init /\ [][Next]_vars

\* The operating system schedules all three threads, and none of their loops
\* waits for another but read_block's, which Spin may end for good.  Solve
\* belongs to Miner: a hash that is left is found in the end, since nonces
\* and timestamps keep coming.
FairSpec == Spec /\ WF_vars(Serve) /\ WF_vars(Miner) /\ WF_vars(Monitor)
-----------------------------------------------------------------------------
(* Invariants *)

GlobalsTypeOK ==
  /\ main \in {"down", "genesis", "genesis_tx", "load", "up"}
  /\ pool \in Seq(Tx) /\ sent \subseteq Tx /\ req \subseteq sent
  /\ last_difficulty \in Target \cup {0}
  /\ mine_stop \in BOOLEAN /\ mine_skip \in BOOLEAN
  /\ mining_height \in Nat /\ payto \in Addr
  /\ monitor \in {"off", "start", "watch", "raise", "note"}
  /\ id \in Nat /\ row \in 0 .. NumTxMod
  /\ crashes \in 0 .. MaxCrashes

ThreadsTypeOK ==
  /\ pc \in [Thread -> RpcPlace \cup MinerPlace]
  /\ pc["rpc"] \in RpcPlace /\ pc["miner"] \in MinerPlace
  /\ blk \in [Thread -> Block]
  /\ \A t \in Thread :
       Len(blk[t].txs) <= TxPerBlock /\ blk[t].num_tx <= 1 + Len(blk[t].txs)
  /\ target \in [Thread -> Target]

\* Every variable holds what its C type, or the protocol between the
\* threads, allows.  Not obvious: a difficulty is never 0 (bignum_div would
\* not return), every reward is one calc_reward gives, and num_tx never
\* counts a transfer the template does not hold.
TypeOK == DbTypeOK /\ GlobalsTypeOK /\ ThreadsTypeOK

\* The places of a mining round behind the one named.
AfterSolve == {"reverify", "restore", "verify", "height", "insert"}
AfterTarget == {"store", "pow", "check", "reverify", "restore", "verify"}
AfterCoinbase == {"poll", "payto", "difficulty", "store", "pow", "check"} \cup AfterSolve
AfterTip == {"coinbase"} \cup AfterCoinbase

\* What a mining round read at its start stays true until it writes its
\* block, although nothing is locked: the tip it builds on, the reward, the
\* difficulty it solved, and that its hash is new.  The monitor therefore
\* never has a stale round to cancel: every round it does cancel is a good one.
RoundIsCurrent ==
  LET b == blk["miner"]
      at == pc["miner"]
      now == DifficultyOf(last_difficulty)
  IN  /\ at \in AfterTip => b.lasthash = read_block(get_height - 1).hash
      /\ at \in AfterCoinbase => b.reward = CalcReward(get_height)
      /\ at \in AfterTarget => target["miner"] = now
      /\ at \in AfterSolve \/ (at = "check" /\ ~mine_skip) =>
           b.hash \in Hash \ DOMAIN blocks /\ VerifyWork(b.hash, now)
      /\ at = "insert" => id = get_height

\* A block the miner solved passes verify_block: between the template and
\* the check neither the tip, nor the reward, nor the difficulty moved, and
\* mining.c:19 ("Mined an invalid block(?!?!)") is never reached.
MinedBlockVerifies ==
  pc["miner"] = "verify" => verify_block(blk["miner"], target["miner"])

\* Every mined block pays the reward of its own height, although the reward
\* is computed at the start of a round and the height read at its end.
RewardsFollowSchedule ==
  \A h \in DOMAIN blocks \ {GenesisHash} :
    blocks[h].blk.reward = CalcReward(blocks[h].id)

\* A row of txcache, the table balances are computed from, is a transaction
\* of the stored block it names: never of a block that was not written.
CacheMatchesChain ==
  \A s \in DOMAIN txcache : \E h \in DOMAIN blocks :
    /\ blocks[h].id = txcache[s].blockid
    /\ LET b == blocks[h].blk
       IN  IF s = CoinbaseSig
           THEN txcache[s].to = b.payee /\ txcache[s].amount = b.reward
           ELSE s \in Range(b.txs) /\ txcache[s].amount = Amount[s]

\* The transfers of a stored block that have a row in txcache.
Recorded(h) ==
  {i \in DOMAIN blocks[h].blk.txs :
     /\ blocks[h].blk.txs[i] \in DOMAIN txcache
     /\ txcache[blocks[h].blk.txs[i]].blockid = blocks[h].id}

\* The transfers of a block are recorded from the first on.  Only a block
\* being written lacks one that num_tx counts, and the block a crash found
\* half written: nothing ever completes it.
TransfersRecorded ==
  /\ \A h \in DOMAIN blocks : \E k \in 0 .. Len(blocks[h].blk.txs) : Recorded(h) = 1 .. k
  /\ Cardinality({h \in DOMAIN blocks :
                    Recorded(h) # 1 .. (blocks[h].blk.num_tx - 1)})
       <= crashes + (IF pc["miner"] = "rows" THEN 1 ELSE 0)

\* Every coinbase has the same all-zero signature, so txcache holds one of
\* them: that of the newest block whose num_tx did not wrap to 0.  Only a
\* restart brings another one back, that of genesis, and with it the premine.
CoinbaseRowIsNewest ==
  main = "up" /\ pc["miner"] # "rows" =>
    /\ CoinbaseSig \in DOMAIN txcache
    /\ \/ txcache[CoinbaseSig].blockid =
            Max({blocks[h].id : h \in {g \in DOMAIN blocks : blocks[g].blk.num_tx > 0}})
       \/ crashes > 0 /\ txcache[CoinbaseSig].blockid = 0

\* num_tx is the number of transactions of a stored block, coinbase
\* included, as the label of print_block says (block.h:22).
NumTxCountsTransactions ==
  \A h \in DOMAIN blocks : blocks[h].blk.num_tx = 1 + Len(blocks[h].blk.txs)
-----------------------------------------------------------------------------
(* Action properties and refinement *)

\* No row of table blocks is ever replaced by another, or lost, although
\* every write is an "insert or replace" and every start writes genesis.
BlocksAreKept ==
  [][\A h \in DOMAIN blocks : h \in DOMAIN blocks' /\ blocks'[h] = blocks[h]]_blocks

\* The miner keeps the block it solved, or stores it in a row of its own.
StaysOrStores ==
  pc["miner"] \in AfterSolve =>
    \/ pc'["miner"] \in AfterSolve /\ blk'["miner"] = blk["miner"]
    \/ LET h == blk["miner"].hash
       IN  /\ pc'["miner"] = "rows" /\ h \notin DOMAIN blocks
           /\ h \in DOMAIN blocks' /\ blocks'[h].blk = blk["miner"]
    \/ pc'["miner"] \in {"spin", "off"}

\* A block that got past the test of skip_flag reaches table blocks as it
\* was solved: no cancel the monitor raises from then on, and no difficulty a
\* status request read at a lower height and stores now, sends the miner
\* into another round first.  Only a crash, or a request it meets in
\* read_block, stops it.
SolvedBlockIsStored == [][StaysOrStores]_vars

\* The transfers mined, or on their way into a block.
Mined == UNION {Range(blocks[h].blk.txs) : h \in DOMAIN blocks}
Held == UNION {Range(blk[t].txs) : t \in Thread}

Life(x) == IF x \in Mined THEN "mined"
           ELSE IF x \in Range(pool) THEN "pooled"
           ELSE IF x \in Held THEN "taken"
           ELSE IF x \in req THEN "checking"
           ELSE IF x \in sent THEN "dropped"
           ELSE "new"

ChainRows ==
  [i \in 1 .. Cardinality(DOMAIN blocks) |->
     LET h == CHOOSE h \in DOMAIN blocks : blocks[h].id = i - 1
     IN  [hash |-> h, lasthash |-> blocks[h].blk.lasthash, txs |-> blocks[h].blk.txs]]

Promise == INSTANCE Coin WITH
  BlockHash <- Hash \cup {GenesisHash},
  Capacity <- TxPerBlock,
  chain <- ChainRows,
  life <- [x \in Tx |-> Life(x)]

\* The threads, the tables and the restarts implement module Coin: one
\* growing chain, and no transfer in two blocks.
ImplementsCoin == Promise!Spec
-----------------------------------------------------------------------------
(* Liveness, under FairSpec *)

\* Every request is answered, unless the process dies or the thread met the
\* miner in read_block; a spinning miner does not hold it up.
RpcReturns == pc["rpc"] # "idle" ~> pc["rpc"] \in {"idle", "off", "spin"}

\* The miner is out of hashes: the bound of the model, not of the code.
OutOfHashes ==
  /\ pc["miner"] = "pow"
  /\ \A h \in Hash \ DOMAIN blocks : ~VerifyWork(h, target["miner"])

\* The monitor cancels a good round after each block, but it never stops the
\* miner: it notes every height in the end, and blocks are found for as long
\* as a hash is left that fits the difficulty, whether or not the RPC thread
\* is lost.
ChainGrows ==
  pc["miner"] # "off" ~> main # "up" \/ pc["miner"] = "spin" \/ OutOfHashes

\* While the miner goes round, a transfer does not stay in the pool for
\* ever, although rounds are cancelled, and whether or not the RPC thread is
\* lost.
PoolIsDrained ==
  \A x \in Tx :
    x \in Range(pool) /\ pc["miner"] # "off" ~>
      x \notin Range(pool) \/ pc["miner"] \in {"off", "spin"} \/ OutOfHashes
=============================================================================
