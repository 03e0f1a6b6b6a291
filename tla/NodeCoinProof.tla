--------------------------- MODULE NodeCoinProof ---------------------------
(***************************************************************************)
(* Module Node implements module Coin, for every value of the constants.   *)
(* The invariant behind it: a transfer is in one place only - a request,   *)
(* the pool, a template or a block - and there once.  Then most steps do   *)
(* nothing that Coin sees but forget transfers (Drop), and five move one   *)
(* or add a block.  The same invariant, with the rows of txcache, gives    *)
(* what a crash can leave unrecorded; and, with the balances those rows    *)
(* add up to, that nobody overdraws (module Funds).                        *)
(***************************************************************************)
EXTENDS NodeProof, Funds, FiniteSetTheorems, SequenceTheorems, WellFoundedInduction

Txs(t) == Range(blk[t].txs)
Stored(h) == Range(blocks[h].blk.txs)

\* No transfer is in one of the lists twice.
OneCopy ==
  /\ IsInjective(pool)
  /\ \A t \in Thread : IsInjective(blk[t].txs)
  /\ \A h \in DOMAIN blocks : IsInjective(blocks[h].blk.txs)

\* None is in two lists; but the miner still holds the block it is recording.
OnePlace ==
  /\ Range(pool) \cap (Held \cup Mined \cup req) = {}
  /\ req \cap (Held \cup Mined) = {}
  /\ Txs("rpc") \cap (Txs("miner") \cup Mined) = {}
  /\ pc["miner"] # "rows" => Txs("miner") \cap Mined = {}
  /\ \A g, h \in DOMAIN blocks : g # h => Stored(g) \cap Stored(h) = {}

OnlySent == Range(pool) \cup Held \cup Mined \subseteq sent

\* A request is about one transfer.
OneRequest ==
  /\ pc["rpc"] \notin {"balance", "offer"} => req = {}
  /\ \A x, y \in req : x = y

\* The rows can be counted.
Counted ==
  /\ IsFiniteSet(DOMAIN blocks)
  /\ DOMAIN blocks # {} => Cardinality(DOMAIN blocks) = get_height

CoinInv ==
  NodeInv /\ StartedOnce /\ OneCopy /\ OnePlace /\ OnlySent /\ OneRequest /\ Counted
-----------------------------------------------------------------------------
(* Sequences without duplicates *)

LEMMA HeadAndTail ==
  ASSUME NEW s \in Seq(Tx), s # <<>>
  PROVE  /\ Head(s) \in Range(s) /\ Tail(s) \in Seq(Tx)
         /\ Range(s) = Range(Tail(s)) \cup {Head(s)}
         /\ IsInjective(s) => IsInjective(Tail(s)) /\ Head(s) \notin Range(Tail(s))
<1> DEFINE n == Len(s)
           u == Tail(s)
<1>1. /\ n \in Nat \ {0} /\ DOMAIN s = 1 .. n /\ u \in Seq(Tx)
      /\ DOMAIN u = 1 .. (n - 1) /\ Head(s) = s[1]
      /\ \A i \in 1 .. (n - 1) : u[i] = s[i + 1]
  OBVIOUS
<1> HIDE DEF n, u
<1>2. \A i \in 1 .. n : i = 1 \/ (i - 1 \in 1 .. (n - 1) /\ s[i] = u[i - 1])
  BY <1>1
<1>3. Range(s) = Range(u) \cup {Head(s)}
  <2>1. \A x \in Range(s) : x \in Range(u) \cup {Head(s)}
    <3> TAKE x \in Range(s)
    <3>1. PICK i \in 1 .. n : x = s[i]
      BY <1>1 DEF Range
    <3>2. CASE i = 1
      BY <1>1, <3>1, <3>2
    <3>3. CASE i # 1
      BY <1>1, <1>2, <3>1, <3>3 DEF Range
    <3> QED
      BY <3>2, <3>3
  <2>2. \A i \in 1 .. (n - 1) : i + 1 \in 1 .. n
    BY <1>1
  <2>3. 1 \in 1 .. n
    BY <1>1
  <2>4. Range(u) \cup {Head(s)} \subseteq Range(s)
    BY <1>1, <2>2, <2>3 DEF Range
  <2> QED
    BY <2>1, <2>4
<1>4. ASSUME IsInjective(s) PROVE IsInjective(u) /\ Head(s) \notin Range(u)
  <2>1. \A i, j \in 1 .. n : s[i] = s[j] => i = j
    BY <1>1, <1>4 DEF IsInjective
  <2>2. \A i, j \in 1 .. (n - 1) : u[i] = u[j] => i = j
    BY <1>1, <2>1
  <2>3. \A i \in 1 .. (n - 1) : u[i] # s[1]
    BY <1>1, <2>1
  <2> QED
    BY <1>1, <2>2, <2>3 DEF IsInjective, Range
<1> QED
  BY <1>1, <1>3, <1>4 DEF u

LEMMA AppendNew ==
  ASSUME NEW s \in Seq(Tx), NEW x \in Tx
  PROVE  /\ Append(s, x) \in Seq(Tx) /\ Range(Append(s, x)) = Range(s) \cup {x}
         /\ IsInjective(s) /\ x \notin Range(s) => IsInjective(Append(s, x))
<1> DEFINE n == Len(s)
           u == Append(s, x)
<1>1. /\ n \in Nat /\ DOMAIN s = 1 .. n /\ u \in Seq(Tx)
      /\ DOMAIN u = 1 .. (n + 1) /\ u[n + 1] = x
      /\ \A i \in 1 .. n : u[i] = s[i]
  OBVIOUS
<1> HIDE DEF n, u
<1>2. \A i \in 1 .. (n + 1) : i = n + 1 \/ i \in 1 .. n
  BY <1>1
<1>3. n + 1 \in 1 .. (n + 1) /\ 1 .. n \subseteq 1 .. (n + 1)
  BY <1>1
<1>4. Range(u) = Range(s) \cup {x}
  BY <1>1, <1>2, <1>3 DEF Range
<1>5. IsInjective(s) /\ x \notin Range(s) => IsInjective(u)
  BY <1>1, <1>2 DEF IsInjective, Range
<1> QED
  BY <1>1, <1>4, <1>5 DEF u

LEMMA Beginning ==
  ASSUME NEW s \in Seq(Tx), NEW k \in 0 .. Len(s)
  PROVE  /\ SubSeq(s, 1, k) \in Seq(Tx) /\ Range(SubSeq(s, 1, k)) \subseteq Range(s)
         /\ IsInjective(s) => IsInjective(SubSeq(s, 1, k))
<1> DEFINE u == SubSeq(s, 1, k)
<1>1. /\ DOMAIN s = 1 .. Len(s) /\ Len(s) \in Nat /\ u \in Seq(Tx) /\ DOMAIN u = 1 .. k
      /\ \A i \in 1 .. k : u[i] = s[i] /\ i \in 1 .. Len(s)
  OBVIOUS
<1> HIDE DEF u
<1>2. Range(u) \subseteq Range(s)
  BY <1>1 DEF Range
<1>3. IsInjective(s) => IsInjective(u)
  BY <1>1 DEF IsInjective
<1> QED
  BY <1>1, <1>2, <1>3 DEF u

LEMMA NothingListed == Range(<<>>) = {} /\ IsInjective(<<>>)
  BY DEF Range, IsInjective
-----------------------------------------------------------------------------
(* Steps that only forget *)

\* Nothing is added to a list.
Forgets ==
  /\ UNCHANGED <<blocks, sent>> /\ req' \subseteq req
  /\ Range(pool') \subseteq Range(pool) /\ (IsInjective(pool) => IsInjective(pool'))
  /\ \A t \in Thread :
       /\ Range(blk'[t].txs) \subseteq Range(blk[t].txs)
       /\ IsInjective(blk[t].txs) => IsInjective(blk'[t].txs)

\* Thread t starts over, or changes other fields of its block.
LEMMA SameList ==
  ASSUME NodeInv, NEW t \in Thread, NEW b, blk' = [blk EXCEPT ![t] = b],
         b.txs = <<>> \/ b.txs = blk[t].txs, UNCHANGED <<blocks, sent, pool>>, req' \subseteq req
  PROVE  Forgets
<1>1. blk'[t] = b /\ \A u \in Thread \ {t} : blk'[u] = blk[u]
  BY DEF NodeInv, TypeOK, ThreadsTypeOK
<1>2. \A u \in Thread : blk'[u].txs = <<>> \/ blk'[u].txs = blk[u].txs
  BY <1>1
<1> QED
  BY <1>2, NothingListed DEF Forgets

LEMMA SameLists ==
  ASSUME UNCHANGED <<blocks, sent, pool, blk>>, req' \subseteq req
  PROVE  Forgets
  BY DEF Forgets

LEMMA EndTemplateForgets == ASSUME NodeInv, NEW t \in Thread, EndTemplate(t) PROVE Forgets
<1> DEFINE n == Len(blk[t].txs)
           k == IF n < TxPerBlock THEN n ELSE TxPerBlock - 1
<1>1. PICK b : /\ b.txs = SubSeq(blk[t].txs, 1, k) \/ b.txs = <<>>
               /\ blk' = [blk EXCEPT ![t] = b]
  <2>1. blk[t] \in Block
    BY Locals
  <2> DEFINE b == IF t = "miner" THEN [blk[t] EXCEPT !.txs = SubSeq(blk[t].txs, 1, k),
                                                    !.num_tx = (1 + n) % NumTxMod]
                  ELSE NoBlock
  <2>2. blk' = [blk EXCEPT ![t] = b]
    BY DEF EndTemplate
  <2>3. b.txs = SubSeq(blk[t].txs, 1, k) \/ b.txs = <<>>
    BY <2>1 DEF Block, NoBlock
  <2> QED
    BY <2>2, <2>3
<1>2. blk[t].txs \in Seq(Tx) /\ k \in 0 .. n
  BY Locals, NodeConstants DEF Block
<1>3. Range(b.txs) \subseteq Range(blk[t].txs) /\ (IsInjective(blk[t].txs) => IsInjective(b.txs))
  <2> HIDE DEF k, n
  <2>1. CASE b.txs = <<>>
    BY <2>1, NothingListed
  <2>2. CASE b.txs = SubSeq(blk[t].txs, 1, k)
    BY <1>2, <2>2, Beginning DEF n
  <2> QED
    BY <1>1, <2>1, <2>2
<1>4. Range(pool') \subseteq Range(pool) /\ (IsInjective(pool) => IsInjective(pool'))
  <2>1. pool \in Seq(Tx)
    BY DEF NodeInv, TypeOK, GlobalsTypeOK
  <2>2. pool' = pool \/ (pool # <<>> /\ pool' = Tail(pool))
    BY DEF EndTemplate
  <2>3. CASE pool' = pool
    BY <2>3
  <2>4. CASE pool # <<>> /\ pool' = Tail(pool)
    <3>1. Range(pool) = Range(Tail(pool)) \cup {Head(pool)}
          /\ (IsInjective(pool) => IsInjective(Tail(pool)))
      BY <2>1, <2>4, HeadAndTail
    <3> QED
      BY <2>4, <3>1
  <2> QED
    BY <2>2, <2>3, <2>4
<1>5. blk'[t] = b /\ \A u \in Thread \ {t} : blk'[u] = blk[u]
  BY <1>1 DEF NodeInv, TypeOK, ThreadsTypeOK
<1> QED
  BY <1>3, <1>4, <1>5 DEF Forgets, EndTemplate, dbVars

LEMMA ReadTipForgets == ASSUME NodeInv, NEW t \in Thread, ReadTip(t) PROVE Forgets
<1>1. PICK now, b :
        /\ now \in Times
        /\ b = [NoBlock EXCEPT !.lasthash = read_block(get_height - 1).hash,
                               !.time = now, !.num_tx = 1 % NumTxMod]
        /\ blk' = [blk EXCEPT ![t] = b]
  BY Zenon DEF ReadTip
<1>2. b.txs = <<>>
  BY <1>1 DEF NoBlock
<1>3. UNCHANGED <<blocks, sent, pool, req>>
  BY DEF ReadTip, dbVars
<1> QED
  BY <1>1, <1>2, <1>3, SameList

LEMMA MakeCoinbaseForgets == ASSUME NodeInv, NEW t \in Thread, MakeCoinbase(t) PROVE Forgets
<1> DEFINE b == [blk[t] EXCEPT !.reward = CalcReward(get_height)]
<1>1. blk' = [blk EXCEPT ![t] = b]
  BY DEF MakeCoinbase
<1>2. b.txs = blk[t].txs
  BY Locals DEF Block
<1> QED
  BY <1>1, <1>2, SameList DEF MakeCoinbase, dbVars

LEMMA SetPayeeForgets == ASSUME NodeInv, SetPayee PROVE Forgets
<1> DEFINE b == [blk["miner"] EXCEPT !.payee = payto]
<1>1. blk' = [blk EXCEPT !["miner"] = b]
  BY DEF SetPayee
<1>2. b.txs = blk["miner"].txs
  BY Locals, MinerIsThread DEF Block
<1> QED
  BY <1>1, <1>2, MinerIsThread, SameList DEF SetPayee, dbVars

LEMMA SolveForgets == ASSUME NodeInv, Solve PROVE Forgets
<1>1. PICK h, later, b :
        /\ h \in Hash \ DOMAIN blocks /\ later \in Times
        /\ VerifyWork(h, target["miner"])
        /\ b = [blk["miner"] EXCEPT !.hash = h, !.time = later]
        /\ blk' = [blk EXCEPT !["miner"] = b]
  BY Zenon DEF Solve
<1>2. b.txs = blk["miner"].txs
  BY <1>1, Locals, MinerIsThread DEF Block
<1>3. UNCHANGED <<blocks, sent, pool, req>>
  BY DEF Solve, dbVars
<1> QED
  BY <1>1, <1>2, <1>3, MinerIsThread, SameList

LEMMA CancelledForgets == ASSUME NodeInv, Cancelled PROVE Forgets
<1>1. PICK h, b : /\ h \in Hash \cup {MaxHash}
                  /\ b = [blk["miner"] EXCEPT !.hash = h]
                  /\ blk' = [blk EXCEPT !["miner"] = b]
  BY Locals, MinerIsThread DEF Cancelled
<1>2. b.txs = blk["miner"].txs
  BY <1>1, Locals, MinerIsThread DEF Block
<1> QED
  BY <1>1, <1>2, MinerIsThread, SameList DEF Cancelled, dbVars

LEMMA RoundEndForgets == ASSUME NodeInv, CheckSkip \/ Verify \/ EndWrite PROVE Forgets
<1>1. UNCHANGED blk \/ blk' = [blk EXCEPT !["miner"] = NoBlock]
  BY DEF CheckSkip, Verify, EndWrite
<1>2. UNCHANGED <<blocks, sent, pool, req>>
  BY DEF CheckSkip, Verify, EndWrite, dbVars
<1>3. NoBlock.txs = <<>>
  BY DEF NoBlock
<1> QED
  BY <1>1, <1>2, <1>3, MinerIsThread, SameList, SameLists

LEMMA CrashForgets == ASSUME NodeInv, Crash PROVE Forgets
<1>1. /\ UNCHANGED <<blocks, sent>> /\ req' = {} /\ pool' = <<>>
      /\ \A t \in Thread : blk'[t].txs = <<>>
  BY DEF Crash, Fresh, NoBlock
<1> QED
  BY <1>1, NothingListed DEF Forgets

\* The steps that touch no list, or only empty req.
LEMMA IdleForgets ==
  ASSUME \/ UNCHANGED vars \/ Monitor \/ Boot \/ BootTx \/ BootLoad
         \/ \E t \in Thread : QueryDifficulty(t) \/ StoreDifficulty(t) \/ Spin(t)
         \/ StartRound \/ TryHash \/ TakeId \/ WriteTx
         \/ VerifyTransaction \/ DecodePayee \/ StartMining \/ Request \/ RequestMining
  PROVE  Forgets
<1>1. CASE UNCHANGED vars \/ TryHash
  BY <1>1, SameLists DEF vars, TryHash, dbVars, locals
<1>2. CASE Monitor
  BY <1>2, SameLists DEF Monitor, MonitorStart, MonitorSee, MonitorSkip, MonitorNote, dbVars, locals
<1>3. CASE Boot \/ BootTx \/ BootLoad
  BY <1>3, SameLists DEF Boot, BootTx, BootLoad, InsertTx, dbVars, locals
<1>4. CASE \E t \in Thread : QueryDifficulty(t) \/ StoreDifficulty(t) \/ Spin(t)
  BY <1>4, SameLists DEF QueryDifficulty, StoreDifficulty, Spin, UpdateDifficulty, dbVars
<1>5. CASE StartRound \/ TakeId \/ WriteTx
  BY <1>5, SameLists DEF StartRound, TakeId, WriteTx, InsertTx, dbVars, locals
<1>6. CASE VerifyTransaction \/ DecodePayee \/ StartMining \/ Request \/ RequestMining
  BY <1>6, SameLists
  DEF VerifyTransaction, DecodePayee, StartMining, Request, RequestMining, dbVars
<1> QED
  BY <1>1, <1>2, <1>3, <1>4, <1>5, <1>6

\* The five steps that do more.
Moving ==
  \/ BootBlock \/ WriteBlock \/ Offer
  \/ \E x \in Tx : Send(x)
  \/ \E t \in Thread : PollTx(t)

LEMMA StepForgets == ASSUME NodeInv, [Next]_vars, ~Moving PROVE Forgets
<1> USE DEF Moving
<1>1. CASE Start
  BY <1>1, IdleForgets DEF Start
<1>2. CASE Rpc
  <2>1. "rpc" \in Thread
    BY DEF Thread
  <2> QED
    BY <1>2, <2>1, ReadTipForgets, MakeCoinbaseForgets, EndTemplateForgets, IdleForgets
    DEF Rpc, Serve
<1>3. CASE Miner
  BY <1>3, MinerIsThread, ReadTipForgets, MakeCoinbaseForgets, EndTemplateForgets, SetPayeeForgets,
     SolveForgets, CancelledForgets, RoundEndForgets, IdleForgets DEF Miner
<1>4. CASE Monitor \/ (\E t \in Thread : Spin(t)) \/ UNCHANGED vars
  BY <1>4, IdleForgets
<1> QED
  BY <1>1, <1>2, <1>3, <1>4, CrashForgets DEF Next
-----------------------------------------------------------------------------
(* The invariant is kept *)

LEMMA HeldIs ==
  /\ Held = Txs("rpc") \cup Txs("miner")
  /\ Held' = Txs("rpc")' \cup Txs("miner")'
  BY DEF Held, Txs, Thread

LEMMA MinedIs == \A x : x \in Mined <=> \E h \in DOMAIN blocks : x \in Stored(h)
  BY DEF Mined, Stored

\* The miner lets go of the block it recorded.
LEMMA RowsEnd ==
  ASSUME NodeInv, StartedOnce, [Next]_vars, pc["miner"] = "rows", pc'["miner"] # "rows"
  PROVE  blk'["miner"].txs = <<>>
<1>1. ~Start
  BY RunningMeansUp, MinerIsThread DEF Start, Boot, BootBlock, BootTx, BootLoad
<1>2. ~WriteBlock /\ ~WriteTx
  BY DEF WriteBlock, WriteTx, locals
<1>3. Crash \/ EndWrite
  BY <1>1, <1>2, QuietStep
<1>4. Crash => blk'["miner"] = NoBlock
  BY DEF Crash, Fresh, Thread
<1>5. EndWrite => blk'["miner"] = NoBlock
  BY MinerIsThread, Locals DEF EndWrite
<1> QED
  BY <1>3, <1>4, <1>5 DEF NoBlock

LEMMA ForgetLists ==
  ASSUME CoinInv, Forgets,
         pc["miner"] = "rows" /\ pc'["miner"] # "rows" => blk'["miner"].txs = <<>>
  PROVE  OneCopy' /\ OnePlace' /\ OnlySent'
<1>1. OneCopy'
  BY DEF CoinInv, OneCopy, Forgets
<1>2. /\ Mined' = Mined /\ Txs("rpc")' \subseteq Txs("rpc") /\ Txs("miner")' \subseteq Txs("miner")
      /\ Range(pool') \subseteq Range(pool) /\ req' \subseteq req /\ sent' = sent
  BY DEF Forgets, Mined, Txs, Thread
<1>3. Held' \subseteq Held /\ Held' = Txs("rpc")' \cup Txs("miner")'
  BY <1>2, HeldIs
<1>4. \A g, h \in DOMAIN blocks' : g # h => Stored(g)' \cap Stored(h)' = {}
  BY DEF CoinInv, OnePlace, Stored, Forgets
<1>5. pc'["miner"] # "rows" => Txs("miner")' \cap Mined' = {}
  BY <1>2, NothingListed DEF CoinInv, OnePlace, Txs
<1>6. OnePlace'
  BY <1>2, <1>3, <1>4, <1>5 DEF CoinInv, OnePlace
<1>7. OnlySent'
  BY <1>2, <1>3 DEF CoinInv, OnlySent
<1> QED
  BY <1>1, <1>6, <1>7

LEMMA SendLists ==
  ASSUME CoinInv, NEW x \in Tx, Send(x)
  PROVE  OneCopy' /\ OnePlace' /\ OnlySent'
<1>1. /\ UNCHANGED <<blocks, blk, pool>> /\ pc'["miner"] = pc["miner"]
      /\ x \notin sent /\ sent' = sent \cup {x} /\ req' = {x}
  BY DEF Send, dbVars, Goto, CoinInv, NodeInv, TypeOK, ThreadsTypeOK
<1>2. UNCHANGED <<Mined, Held, Txs("rpc"), Txs("miner")>> /\ \A h : Stored(h)' = Stored(h)
  BY <1>1 DEF Mined, Held, Txs, Stored
<1>3. x \notin Range(pool) \cup Held \cup Mined
  BY <1>1 DEF CoinInv, OnlySent
<1>4. OneCopy'
  BY <1>1 DEF CoinInv, OneCopy
<1>5. OnePlace'
  BY <1>1, <1>2, <1>3 DEF CoinInv, OnePlace
<1>6. OnlySent'
  BY <1>1, <1>2 DEF CoinInv, OnlySent
<1> QED
  BY <1>4, <1>5, <1>6

LEMMA OfferLists ==
  ASSUME CoinInv, Offer
  PROVE  OneCopy' /\ OnePlace' /\ OnlySent'
<1>1. PICK x \in req : pool' = Append(pool, x)
  BY DEF Offer
<1>2. /\ UNCHANGED <<blocks, blk, sent>> /\ pc'["miner"] = pc["miner"] /\ req' = {}
  BY DEF Offer, dbVars, Goto, CoinInv, NodeInv, TypeOK, ThreadsTypeOK
<1>3. UNCHANGED <<Mined, Held, Txs("rpc"), Txs("miner")>> /\ \A h : Stored(h)' = Stored(h)
  BY <1>2 DEF Mined, Held, Txs, Stored
<1>4. /\ x \in Tx /\ x \in sent /\ pool \in Seq(Tx)
      /\ x \notin Range(pool) \cup Held \cup Mined
  BY DEF CoinInv, OnePlace, NodeInv, TypeOK, GlobalsTypeOK
<1>5. Range(pool') = Range(pool) \cup {x} /\ (IsInjective(pool) => IsInjective(pool'))
  BY <1>1, <1>4, AppendNew
<1>6. OneCopy'
  BY <1>2, <1>5 DEF CoinInv, OneCopy
<1>7. OnePlace'
  BY <1>2, <1>3, <1>4, <1>5 DEF CoinInv, OnePlace
<1>8. OnlySent'
  BY <1>2, <1>3, <1>4, <1>5 DEF CoinInv, OnlySent
<1> QED
  BY <1>6, <1>7, <1>8

\* What one poll does to the lists.
LEMMA PollMoves ==
  ASSUME CoinInv, NEW t \in Thread, PollTx(t)
  PROVE  \E x \in Range(pool) :
           /\ UNCHANGED <<blocks, sent, req, pc>>
           /\ Range(pool') = Range(pool) \ {x} /\ IsInjective(pool')
           /\ Txs(t)' = Txs(t) \cup {x} /\ IsInjective(blk'[t].txs)
           /\ \A u \in Thread \ {t} : blk'[u] = blk[u]
<1> DEFINE x == Head(pool)
           b == [blk[t] EXCEPT !.txs = Append(blk[t].txs, x)]
<1>1. /\ UNCHANGED <<blocks, sent, req, pc>> /\ pool # <<>> /\ pool' = Tail(pool)
      /\ blk' = [blk EXCEPT ![t] = b]
  BY DEF PollTx, dbVars
<1>2. /\ pool \in Seq(Tx) /\ blk[t] \in Block /\ blk[t].txs \in Seq(Tx)
  BY Locals DEF CoinInv, NodeInv, TypeOK, GlobalsTypeOK, Block
<1>3. /\ x \in Range(pool) /\ Range(pool) = Range(pool') \cup {x}
      /\ IsInjective(pool') /\ x \notin Range(pool')
  BY <1>1, <1>2, HeadAndTail DEF CoinInv, OneCopy
<1>4. x \in Tx
  BY <1>1, <1>2
<1>5. b.txs = Append(blk[t].txs, x) /\ blk'[t] = b /\ \A u \in Thread \ {t} : blk'[u] = blk[u]
  BY <1>1, <1>2 DEF CoinInv, NodeInv, TypeOK, ThreadsTypeOK, Block
<1>6. x \notin Range(blk[t].txs) /\ IsInjective(blk[t].txs)
  BY <1>3 DEF CoinInv, OneCopy, OnePlace, Held
<1> HIDE DEF x, b
<1>7. Txs(t)' = Txs(t) \cup {x} /\ IsInjective(blk'[t].txs)
  BY <1>2, <1>4, <1>5, <1>6, AppendNew DEF Txs
<1> QED
  BY <1>1, <1>3, <1>5, <1>7

LEMMA PollLists ==
  ASSUME CoinInv, NEW t \in Thread, PollTx(t)
  PROVE  OneCopy' /\ OnePlace' /\ OnlySent'
<1>1. PICK x \in Range(pool) :
        /\ UNCHANGED <<blocks, sent, req, pc>>
        /\ Range(pool') = Range(pool) \ {x} /\ IsInjective(pool')
        /\ Txs(t)' = Txs(t) \cup {x} /\ IsInjective(blk'[t].txs)
        /\ \A u \in Thread \ {t} : blk'[u] = blk[u]
  BY PollMoves
<1>2. x \notin Held \cup Mined \cup req /\ x \in sent
  BY <1>1 DEF CoinInv, OnePlace, OnlySent
<1>3. /\ Mined' = Mined /\ \A h : Stored(h)' = Stored(h)
      /\ \A u \in Thread \ {t} : Txs(u)' = Txs(u)
  BY <1>1 DEF Mined, Txs, Stored
<1>4. Held' = Held \cup {x} /\ Held' = Txs("rpc")' \cup Txs("miner")'
  BY <1>1, <1>3, HeldIs DEF Thread
<1>5. OneCopy'
  BY <1>1 DEF CoinInv, OneCopy
<1>6. OnePlace'
  BY <1>1, <1>2, <1>3, <1>4, HeldIs DEF CoinInv, OnePlace, Thread
<1>7. OnlySent'
  BY <1>1, <1>2, <1>3, <1>4 DEF CoinInv, OnlySent
<1> QED
  BY <1>5, <1>6, <1>7

\* A block that is new with transfers nobody else has, or no block at all.
LEMMA StoreLists ==
  ASSUME CoinInv, NEW h, NEW r,
         DOMAIN blocks' = DOMAIN blocks \cup {h}, blocks'[h] = r, h \notin DOMAIN blocks,
         \A g \in DOMAIN blocks : blocks'[g] = blocks[g],
         UNCHANGED <<pool, sent, blk, req>>,
         IsInjective(r.blk.txs), Range(r.blk.txs) \subseteq Txs("miner"),
         Range(r.blk.txs) \cap Mined = {},
         pc'["miner"] # "rows" => pc["miner"] # "rows" /\ Range(r.blk.txs) = {}
  PROVE  /\ OneCopy' /\ OnePlace' /\ OnlySent'
         /\ Mined' = Mined \cup Range(r.blk.txs)
<1>1. /\ Stored(h)' = Range(r.blk.txs)
      /\ \A g \in DOMAIN blocks : Stored(g)' = Stored(g) /\ Stored(g) \subseteq Mined
  BY DEF Stored, Mined
<1>2. Mined' = Mined \cup Range(r.blk.txs)
  BY <1>1 DEF Mined, Stored
<1>3. UNCHANGED <<Held, Txs("rpc"), Txs("miner")>> /\ Range(pool') = Range(pool)
  BY DEF Held, Txs
<1>4. OneCopy'
  BY DEF CoinInv, OneCopy
<1>5. \A f, g \in DOMAIN blocks' : f # g => Stored(f)' \cap Stored(g)' = {}
  BY <1>1 DEF CoinInv, OnePlace
<1>6. OnePlace'
  BY <1>2, <1>3, <1>5, HeldIs DEF CoinInv, OnePlace
<1>7. OnlySent'
  BY <1>2, <1>3, HeldIs DEF CoinInv, OnlySent
<1> QED
  BY <1>2, <1>4, <1>6, <1>7

LEMMA HeightAfter == ASSUME NEW n \in Nat, Ids' = 0 .. n PROVE get_height' = n + 1
  BY MaxOfInterval DEF get_height

LEMMA FiniteRows ==
  ASSUME CoinInv, NEW h, DOMAIN blocks' = DOMAIN blocks \cup {h}, h \notin DOMAIN blocks,
         DOMAIN blocks = {} => get_height' = 1,
         DOMAIN blocks # {} => get_height' = get_height + 1
  PROVE  Counted'
<1>1. IsFiniteSet(DOMAIN blocks)
  BY DEF CoinInv, Counted
<1>2. IsFiniteSet(DOMAIN blocks') /\ Cardinality(DOMAIN blocks') = Cardinality(DOMAIN blocks) + 1
  BY <1>1, FS_AddElement
<1>3. DOMAIN blocks = {} => Cardinality(DOMAIN blocks) = 0
  BY FS_EmptySet
<1>4. Cardinality(DOMAIN blocks') = get_height'
  <2>1. CASE DOMAIN blocks = {}
    BY <1>2, <1>3, <2>1
  <2>2. CASE DOMAIN blocks # {}
    BY <1>2, <2>2 DEF CoinInv, Counted
  <2> QED
    BY <2>1, <2>2
<1> QED
  BY <1>2, <1>4 DEF Counted

LEMMA WriteBlockMoves ==
  ASSUME CoinInv, WriteBlock
  PROVE  LET b == blk["miner"]
         IN  /\ GoodChain /\ GoodChain' /\ b \in Block
             /\ b.hash \in Hash \ DOMAIN blocks
             /\ b.lasthash = read_block(get_height - 1).hash
             /\ DOMAIN blocks' = DOMAIN blocks \cup {b.hash}
             /\ blocks'[b.hash] = [id |-> get_height, blk |-> b]
             /\ \A g \in DOMAIN blocks : blocks'[g] = blocks[g]
             /\ get_height' = get_height + 1
             /\ Mined' = Mined \cup Txs("miner") /\ Txs("miner") \cap Mined = {}
             /\ UNCHANGED <<pool, sent, blk, req>>
             /\ OneCopy' /\ OnePlace' /\ OnlySent' /\ Counted'
<1> DEFINE b == blk["miner"]
<1>1. /\ pc["miner"] = "insert" /\ main = "up" /\ GoodChain /\ b \in Block
      /\ b.hash \in Hash \ DOMAIN blocks /\ id = get_height
      /\ b.lasthash = read_block(get_height - 1).hash
  BY RunningMeansUp, RunningIsGood, MinerIsThread, Locals
  DEF WriteBlock, CoinInv, NodeInv, RoundIsCurrent, AfterSolve, AfterTarget, AfterCoinbase, AfterTip
<1>2. /\ UNCHANGED <<pool, sent, blk, req>> /\ pc'["miner"] = "rows" /\ InsertBlock(id, b)
  BY MinerIsThread, Locals DEF WriteBlock, CoinInv, Goto
<1>3. IsInjective(b.txs) /\ Range(b.txs) = Txs("miner") /\ Txs("miner") \cap Mined = {}
  BY <1>1, MinerIsThread DEF CoinInv, OneCopy, OnePlace, Txs
<1> HIDE DEF b
<1>4. /\ GoodChain' /\ get_height' = get_height + 1
      /\ DOMAIN blocks' = DOMAIN blocks \cup {b.hash}
      /\ blocks'[b.hash] = [id |-> get_height, blk |-> b]
      /\ \A g \in DOMAIN blocks : blocks'[g] = blocks[g]
  BY <1>1, <1>2, InsertOnTop
<1>5. OneCopy' /\ OnePlace' /\ OnlySent' /\ Mined' = Mined \cup Txs("miner")
  BY <1>1, <1>2, <1>3, <1>4, StoreLists
<1>6. Counted'
  BY <1>1, <1>4, FiniteRows DEF GoodChain, Founded
<1> QED
  BY <1>1, <1>2, <1>3, <1>4, <1>5, <1>6 DEF b

\* Writing genesis over itself.
LEMMA SameRows ==
  ASSUME CoinInv, DOMAIN blocks' = DOMAIN blocks, \A h \in DOMAIN blocks : blocks'[h] = blocks[h],
         UNCHANGED <<pool, sent, blk, req, pc>>
  PROVE  Mined' = Mined /\ OneCopy' /\ OnePlace' /\ OnlySent' /\ Counted'
<1>1. \A h \in DOMAIN blocks : Stored(h)' = Stored(h)
  BY DEF Stored
<1>2. Mined' = Mined
  BY DEF Mined
<1>3. UNCHANGED <<Held, Txs("rpc"), Txs("miner")>>
  BY DEF Held, Txs
<1>4. OneCopy'
  BY DEF CoinInv, OneCopy
<1>5. OnePlace'
  BY <1>1, <1>2, <1>3 DEF CoinInv, OnePlace
<1>6. OnlySent'
  BY <1>2, <1>3 DEF CoinInv, OnlySent
<1>7. get_height' = get_height
  BY DEF get_height, Ids
<1>8. Counted'
  BY <1>7 DEF CoinInv, Counted
<1> QED
  BY <1>2, <1>4, <1>5, <1>6, <1>8

LEMMA BootBlockMoves ==
  ASSUME CoinInv, BootBlock
  PROVE  /\ UNCHANGED <<pool, sent, blk, req>> /\ Mined' = Mined /\ GoodChain'
         /\ \/ /\ GoodChain /\ DOMAIN blocks' = DOMAIN blocks
               /\ \A h \in DOMAIN blocks : blocks'[h] = blocks[h]
            \/ /\ DOMAIN blocks = {} /\ DOMAIN blocks' = {GenesisHash}
               /\ blocks'[GenesisHash] = [id |-> 0, blk |-> genesis_block]
         /\ OneCopy' /\ OnePlace' /\ OnlySent' /\ Counted'
<1>1. /\ UNCHANGED <<pool, sent, blk, req, pc>> /\ pc["miner"] = "off"
      /\ InsertBlock(0, genesis_block) /\ DbTypeOK /\ ChainLinked
      /\ DOMAIN blocks # {} => Founded
  BY DEF BootBlock, locals, CoinInv, NodeInv, TypeOK, Phases
<1>2. /\ GoodChain'
      /\ DOMAIN blocks # {} => DOMAIN blocks' = DOMAIN blocks
      /\ DOMAIN blocks = {} => DOMAIN blocks' = {GenesisHash}
      /\ \A h \in DOMAIN blocks : h \in DOMAIN blocks' /\ blocks'[h] = blocks[h]
  BY <1>1, InsertGenesis
<1>3. CASE DOMAIN blocks # {}
  <2>1. GoodChain
    BY <1>1, <1>3 DEF GoodChain
  <2>2. DOMAIN blocks' = DOMAIN blocks /\ \A h \in DOMAIN blocks : blocks'[h] = blocks[h]
    BY <1>2, <1>3
  <2>3. Mined' = Mined /\ OneCopy' /\ OnePlace' /\ OnlySent' /\ Counted'
    BY <1>1, <2>2, SameRows
  <2> QED
    BY <1>1, <1>2, <2>1, <2>2, <2>3
<1>4. CASE DOMAIN blocks = {}
  <2>1. blocks'[GenesisHash] = [id |-> 0, blk |-> genesis_block]
    BY <1>1 DEF InsertBlock, InsertOrReplace, genesis_block
  <2>2. genesis_block.txs = <<>>
    BY DEF genesis_block
  <2> DEFINE r == [id |-> 0, blk |-> genesis_block]
  <2>3. r.blk.txs = <<>> /\ r.id = 0
    BY <2>2
  <2> HIDE DEF r
  <2>4. Mined' = Mined /\ OneCopy' /\ OnePlace' /\ OnlySent'
    <3>1. DOMAIN blocks' = DOMAIN blocks \cup {GenesisHash} /\ GenesisHash \notin DOMAIN blocks
          /\ blocks'[GenesisHash] = r
      BY <1>2, <1>4, <2>1 DEF r
    <3>2. IsInjective(r.blk.txs) /\ Range(r.blk.txs) = {}
      BY <2>3, NothingListed
    <3>3. \A g \in DOMAIN blocks : blocks'[g] = blocks[g]
      BY <1>4
    <3>4. pc["miner"] # "rows"
      BY <1>1
    <3>5. OneCopy' /\ OnePlace' /\ OnlySent' /\ Mined' = Mined \cup Range(r.blk.txs)
      BY <1>1, <3>1, <3>2, <3>3, <3>4, StoreLists
    <3> QED
      BY <3>2, <3>5
  <2>5. get_height' = 1
    <3>1. Ids' = 0 .. 0
      BY <1>2, <1>4, <2>1 DEF Ids
    <3> QED
      BY <3>1, HeightAfter
  <2>6. Counted'
    BY <1>2, <1>4, <2>5, FiniteRows
  <2> QED
    BY <1>1, <1>2, <1>4, <2>1, <2>4, <2>6
<1> QED
  BY <1>3, <1>4

LEMMA OthersKeepRequest ==
  ASSUME NodeInv, Miner \/ Monitor \/ Spin("miner") \/ UNCHANGED vars
  PROVE  pc'["rpc"] = pc["rpc"] /\ req' = req
<1>1. \A l : pc' = [pc EXCEPT !["miner"] = l] => pc'["rpc"] = pc["rpc"]
  BY DEF NodeInv, TypeOK, ThreadsTypeOK, Thread
<1>2. CASE Monitor \/ UNCHANGED vars
  BY <1>1, <1>2 DEF Monitor, MonitorStart, MonitorSee, MonitorSkip, MonitorNote, Goto, vars, locals
<1>3. CASE ReadTip("miner") \/ MakeCoinbase("miner") \/ PollTx("miner") \/ EndTemplate("miner")
  <2>1. ReadTip("miner") => (\E l : pc' = [pc EXCEPT !["miner"] = l]) /\ req' = req
    BY Zenon DEF ReadTip, Goto
  <2> QED
    BY <1>1, <1>3, <2>1 DEF MakeCoinbase, PollTx, EndTemplate, Goto
<1>4. CASE QueryDifficulty("miner") \/ StoreDifficulty("miner") \/ Spin("miner")
  BY <1>1, <1>4 DEF QueryDifficulty, StoreDifficulty, Spin, Goto
<1>5. CASE StartRound \/ SetPayee \/ Solve \/ TryHash \/ Cancelled
  <2>1. Solve => (\E l : pc' = [pc EXCEPT !["miner"] = l]) /\ req' = req
    BY Zenon DEF Solve, Goto
  <2> QED
    BY <1>1, <1>5, <2>1 DEF StartRound, SetPayee, TryHash, Cancelled, Goto, vars, locals
<1>6. CASE CheckSkip \/ Verify \/ TakeId \/ WriteBlock \/ WriteTx \/ EndWrite
  BY <1>1, <1>6 DEF CheckSkip, Verify, TakeId, WriteBlock, WriteTx, EndWrite, Goto, locals
<1> QED
  BY <1>2, <1>3, <1>4, <1>5, <1>6 DEF Miner

LEMMA RequestStep == ASSUME CoinInv, [Next]_vars PROVE OneRequest'
<1>1. \A l : pc' = [pc EXCEPT !["rpc"] = l] => pc'["rpc"] = l
  BY DEF CoinInv, NodeInv, TypeOK, ThreadsTypeOK, Thread
<1>2. OneRequest /\ NodeInv
  BY DEF CoinInv
<1>3. CASE Start
  <2>1. req = {}
    BY <1>2, <1>3 DEF Start, Boot, BootBlock, BootTx, BootLoad, OneRequest, NodeInv, Phases
  <2>2. req' = req
    BY <1>3 DEF Start, Boot, BootBlock, BootTx, BootLoad
  <2> QED
    BY <2>1, <2>2 DEF OneRequest
<1>4. CASE Crash
  BY <1>4 DEF Crash, Fresh, OneRequest
<1>5. CASE Miner \/ Monitor \/ Spin("miner") \/ UNCHANGED vars
  BY <1>2, <1>5, OthersKeepRequest DEF OneRequest
<1>6. CASE \E x \in Tx : Send(x)
  BY <1>1, <1>6 DEF Send, Goto, OneRequest
<1>7. CASE VerifyTransaction
  BY <1>1, <1>2, <1>7 DEF VerifyTransaction, Goto, OneRequest
<1>8. CASE Offer
  BY <1>1, <1>8 DEF Offer, Goto, OneRequest
<1>9. CASE \/ DecodePayee \/ StartMining \/ Request \/ RequestMining \/ Spin("rpc")
           \/ QueryDifficulty("rpc") \/ StoreDifficulty("rpc")
  <2>1. pc["rpc"] \notin {"balance", "offer"} /\ req' = req
    BY <1>9 DEF DecodePayee, StartMining, Request, RequestMining, Spin, Reading,
       QueryDifficulty, StoreDifficulty
  <2> QED
    BY <1>2, <2>1 DEF OneRequest
<1>10. CASE ReadTip("rpc") \/ MakeCoinbase("rpc") \/ PollTx("rpc") \/ EndTemplate("rpc")
  <2>1. pc["rpc"] \notin {"balance", "offer"} /\ req' = req
    <3>1. ReadTip("rpc") => pc["rpc"] = "tip" /\ req' = req
      BY Zenon DEF ReadTip
    <3> QED
      BY <1>10, <3>1 DEF MakeCoinbase, PollTx, EndTemplate
  <2> QED
    BY <1>2, <2>1 DEF OneRequest
<1>11. Rpc => \/ DecodePayee \/ StartMining \/ Request \/ RequestMining
              \/ QueryDifficulty("rpc") \/ StoreDifficulty("rpc")
              \/ ReadTip("rpc") \/ MakeCoinbase("rpc") \/ PollTx("rpc") \/ EndTemplate("rpc")
              \/ VerifyTransaction \/ Offer \/ (\E x \in Tx : Send(x))
  BY DEF Rpc, Serve
<1> QED
  BY <1>3, <1>4, <1>5, <1>6, <1>7, <1>8, <1>9, <1>10, <1>11, SpinIsOfThread DEF Next

LEMMA ListsStep == ASSUME CoinInv, [Next]_vars PROVE OneCopy' /\ OnePlace' /\ OnlySent' /\ Counted'
<1>1. CASE BootBlock
  BY <1>1, BootBlockMoves
<1>2. CASE WriteBlock
  BY <1>2, WriteBlockMoves
<1>3. CASE ~BootBlock /\ ~WriteBlock
  <2>1. UNCHANGED blocks
    <3>1. BootTx \/ WriteTx => UNCHANGED blocks
      BY DEF BootTx, WriteTx, InsertTx
    <3> QED
      BY <1>3, <3>1, TablesFrame
  <2>2. Counted'
    BY <2>1, SameBlocks DEF CoinInv, Counted
  <2>3. ~Moving => OneCopy' /\ OnePlace' /\ OnlySent'
    BY StepForgets, RowsEnd, ForgetLists DEF CoinInv
  <2> QED
    BY <1>3, <2>2, <2>3, SendLists, OfferLists, PollLists DEF Moving
<1> QED
  BY <1>1, <1>2, <1>3

LEMMA CoinInit == Init => CoinInv
<1> SUFFICES ASSUME Init PROVE CoinInv
  OBVIOUS
<1>1. /\ DOMAIN blocks = {} /\ pool = <<>> /\ req = {} /\ sent = {}
      /\ \A t \in Thread : blk[t].txs = <<>>
      /\ mine_stop /\ monitor = "off" /\ pc["miner"] = "off"
  BY DEF Init, DbInit, Fresh, NoBlock, Thread
<1>2. Mined = {} /\ Held = {} /\ Txs("rpc") = {} /\ Txs("miner") = {}
  BY <1>1, NothingListed DEF Mined, Held, Txs, Thread
<1>3. OneCopy /\ OnePlace /\ OnlySent /\ OneRequest
  BY <1>1, <1>2, NothingListed DEF OneCopy, OnePlace, OnlySent, OneRequest
<1>4. Counted
  BY <1>1, FS_EmptySet DEF Counted
<1> QED
  BY <1>1, <1>3, <1>4, NodeInitInv DEF CoinInv, StartedOnce

LEMMA CoinStep == CoinInv /\ [Next]_vars => CoinInv'
  BY ListsStep, RequestStep, NodeStepInv, StartedOnceStep DEF CoinInv

LEMMA CoinInvAlways == Spec => []CoinInv
  BY CoinInit, CoinStep, PTL DEF Spec
-----------------------------------------------------------------------------
(* The chain the tables hold *)

Entry(f, h) == [hash |-> h, lasthash |-> f[h].blk.lasthash, txs |-> f[h].blk.txs]

\* ChainRows of a table f with n rows.
RowsOf(f, n) == [i \in 1 .. n |-> Entry(f, CHOOSE h \in DOMAIN f : f[h].id = i - 1)]

Numbered(f, n) ==
  /\ \A g, h \in DOMAIN f : f[g].id = f[h].id => g = h
  /\ \A i \in 1 .. n : \E h \in DOMAIN f : f[h].id = i - 1

LEMMA RowsOfTable ==
  ASSUME NEW f, NEW n \in Nat, Numbered(f, n), NEW h \in DOMAIN f, NEW i \in 1 .. n,
         f[h].id = i - 1
  PROVE  RowsOf(f, n)[i] = Entry(f, h)
<1>1. (CHOOSE g \in DOMAIN f : f[g].id = i - 1) = h
  BY DEF Numbered
<1> QED
  BY <1>1 DEF RowsOf

LEMMA RowsAreEntries ==
  ASSUME NEW f, NEW n \in Nat, Numbered(f, n)
  PROVE  /\ DOMAIN RowsOf(f, n) = 1 .. n
         /\ RowsOf(f, n) \in Seq({Entry(f, h) : h \in DOMAIN f})
         /\ Len(RowsOf(f, n)) = n
<1>1. \A i \in 1 .. n : \E h \in DOMAIN f : RowsOf(f, n)[i] = Entry(f, h)
  BY RowsOfTable DEF Numbered
<1>2. RowsOf(f, n) \in [1 .. n -> {Entry(f, h) : h \in DOMAIN f}]
  BY <1>1 DEF RowsOf
<1> QED
  BY <1>2

LEMMA SameTable ==
  ASSUME NEW f, NEW g, NEW n \in Nat, Numbered(f, n), DOMAIN g = DOMAIN f,
         \A h \in DOMAIN f : g[h] = f[h]
  PROVE  RowsOf(g, n) = RowsOf(f, n)
<1>1. Numbered(g, n)
  BY DEF Numbered
<1>2. \A i \in 1 .. n : RowsOf(g, n)[i] = RowsOf(f, n)[i]
  <2> TAKE i \in 1 .. n
  <2>1. PICK h \in DOMAIN f : f[h].id = i - 1
    BY DEF Numbered
  <2>2. RowsOf(g, n)[i] = Entry(g, h) /\ RowsOf(f, n)[i] = Entry(f, h)
    BY <1>1, <2>1, RowsOfTable
  <2> QED
    BY <2>2 DEF Entry
<1> QED
  BY <1>2 DEF RowsOf

LEMMA AppendIs ==
  ASSUME NEW S, NEW s \in Seq(S), NEW e \in S, NEW u \in Seq(S), Len(u) = Len(s) + 1,
         \A i \in 1 .. Len(s) : u[i] = s[i], u[Len(s) + 1] = e
  PROVE  u = Append(s, e)
<1>1. /\ Append(s, e) \in Seq(S) /\ Len(Append(s, e)) = Len(s) + 1
      /\ \A i \in 1 .. Len(s) : Append(s, e)[i] = s[i]
      /\ Append(s, e)[Len(s) + 1] = e
  BY AppendProperties
<1>2. \A i \in 1 .. (Len(s) + 1) : i \in 1 .. Len(s) \/ i = Len(s) + 1
  BY LenProperties
<1>3. \A i \in 1 .. Len(u) : u[i] = Append(s, e)[i]
  BY <1>1, <1>2
<1> QED
  BY <1>1, <1>3, SeqEqual

LEMMA TableGrows ==
  ASSUME NEW f, NEW g, NEW n \in Nat, NEW k, Numbered(f, n), Numbered(g, n + 1),
         DOMAIN g = DOMAIN f \cup {k}, \A h \in DOMAIN f : g[h] = f[h], g[k].id = n
  PROVE  RowsOf(g, n + 1) = Append(RowsOf(f, n), Entry(g, k))
<1> DEFINE s == RowsOf(f, n)
           u == RowsOf(g, n + 1)
           S == {Entry(g, h) : h \in DOMAIN g}
<1>1. s \in Seq(S) /\ Len(s) = n /\ u \in Seq(S) /\ Len(u) = n + 1
  <2>1. \A h \in DOMAIN f : Entry(f, h) = Entry(g, h)
    BY DEF Entry
  <2>2. {Entry(f, h) : h \in DOMAIN f} \subseteq S
    BY <2>1
  <2>3. n + 1 \in Nat
    OBVIOUS
  <2>4. s \in Seq({Entry(f, h) : h \in DOMAIN f}) /\ Len(s) = n
    BY RowsAreEntries
  <2>5. u \in Seq(S) /\ Len(u) = n + 1
    BY <2>3, RowsAreEntries
  <2> HIDE DEF s, u, S
  <2>6. Seq({Entry(f, h) : h \in DOMAIN f}) \subseteq Seq(S)
    BY <2>2, SeqMonotonic
  <2> QED
    BY <2>4, <2>5, <2>6
<1>2. \A i \in 1 .. n : u[i] = s[i]
  <2> TAKE i \in 1 .. n
  <2>1. PICK h \in DOMAIN f : f[h].id = i - 1
    BY DEF Numbered
  <2>2. s[i] = Entry(f, h)
    BY <2>1, RowsOfTable
  <2>3. h \in DOMAIN g /\ g[h].id = i - 1 /\ i \in 1 .. (n + 1)
    BY <2>1
  <2>4. u[i] = Entry(g, h)
    BY <2>3, RowsOfTable
  <2> QED
    BY <2>1, <2>2, <2>4 DEF Entry
<1>3. u[n + 1] = Entry(g, k)
  <2>1. n + 1 \in 1 .. (n + 1) /\ g[k].id = (n + 1) - 1 /\ n + 1 \in Nat
    OBVIOUS
  <2> QED
    BY <2>1, RowsOfTable
<1>4. Entry(g, k) \in S
  OBVIOUS
<1> HIDE DEF s, u, S
<1>5. u = Append(s, Entry(g, k))
  BY <1>1, <1>2, <1>3, <1>4, AppendIs
<1> QED
  BY <1>5 DEF s, u

LEMMA ChainRowsAre ==
  /\ ChainRows = RowsOf(blocks, Cardinality(DOMAIN blocks))
  /\ ChainRows' = RowsOf(blocks', Cardinality(DOMAIN blocks'))
  BY DEF ChainRows, RowsOf, Entry

LEMMA AddedIsNumbered ==
  ASSUME NEW f, NEW g, NEW n \in Nat, NEW k, Numbered(f, n), k \notin DOMAIN f,
         \A h \in DOMAIN f : f[h].id # n,
         DOMAIN g = DOMAIN f \cup {k}, \A h \in DOMAIN f : g[h] = f[h], g[k].id = n
  PROVE  Numbered(g, n + 1)
<1>1. \A i \in 1 .. (n + 1) : \E h \in DOMAIN g : g[h].id = i - 1
  <2> TAKE i \in 1 .. (n + 1)
  <2>1. CASE i = n + 1
    BY <2>1
  <2>2. CASE i \in 1 .. n
    BY <2>2 DEF Numbered
  <2> QED
    BY <2>1, <2>2
<1>2. \A h, j \in DOMAIN g : g[h].id = g[j].id => h = j
  BY DEF Numbered
<1> QED
  BY <1>1, <1>2 DEF Numbered

LEMMA ChainIsNumbered ==
  ASSUME GoodChain
  PROVE  Numbered(blocks, get_height) /\ get_height \in Nat
<1>1. Ids = 0 .. (get_height - 1) /\ get_height \in Nat \ {0}
  BY IdsOfChain
<1>2. \A i \in 1 .. get_height : i - 1 \in Ids
  BY <1>1
<1> QED
  BY <1>1, <1>2 DEF Numbered, GoodChain, ChainLinked, Ids
-----------------------------------------------------------------------------
(* Refinement *)

\* The functions substituted for the variables of Coin are what they seem.
LEMMA LifeIs ==
  /\ \A x \in Tx : [y \in Tx |-> Life(y)][x] = Life(x)
  /\ \A x \in Tx : [y \in Tx |-> Life(y)]'[x] = Life(x)'
  OBVIOUS

\* Life's alternatives exclude each other, but that the miner holds the
\* block it has just stored.
LEMMA LifeCases ==
  ASSUME CoinInv, NEW x \in Tx
  PROVE  /\ Life(x) = "mined" <=> x \in Mined
         /\ Life(x) = "pooled" <=> x \in Range(pool)
         /\ Life(x) = "taken" <=> x \in Held \ Mined
         /\ Life(x) = "checking" <=> x \in req
         /\ Life(x) = "new" <=> x \notin sent
<1>1. req \subseteq sent
  BY DEF CoinInv, NodeInv, TypeOK, GlobalsTypeOK
<1> QED
  BY <1>1 DEF Life, CoinInv, OnePlace, OnlySent

LEMMA ForgetsRefines ==
  ASSUME CoinInv, Forgets
  PROVE  [Promise!Next]_(Promise!vars)
<1> DEFINE S == {x \in Tx : Life(x)' # Life(x)}
<1>1. /\ Mined' = Mined /\ Held' \subseteq Held /\ Range(pool') \subseteq Range(pool)
      /\ req' \subseteq req /\ sent' = sent
  BY DEF Forgets, Mined, Held
<1>2. \A x \in S : Life(x) \in {"checking", "pooled", "taken"} /\ Life(x)' = "dropped"
  BY <1>1 DEF Life, CoinInv, OnePlace, OnlySent, NodeInv, TypeOK, GlobalsTypeOK
<1>3. ChainRows' = ChainRows
  BY ChainRowsAre DEF Forgets
<1>4. CASE S = {}
  <2>1. \A x \in Tx : Life(x)' = Life(x)
    BY <1>4
  <2> QED
    BY <1>3, <2>1 DEF Promise!vars
<1>5. CASE S # {}
  <2>1. [x \in Tx |-> Life(x)]' =
          [x \in Tx |-> IF x \in S THEN "dropped" ELSE [y \in Tx |-> Life(y)][x]]
    BY <1>2
  <2>2. S \subseteq Promise!In("checking") \cup Promise!In("pooled") \cup Promise!In("taken")
    BY <1>2 DEF Promise!In
  <2> HIDE DEF S
  <2>3. Promise!Drop(S)
    BY <1>3, <1>5, <2>1, <2>2 DEF Promise!Drop, Promise!Move
  <2>4. S \in SUBSET Tx
    BY DEF S
  <2> QED
    BY <2>3, <2>4 DEF Promise!Next
<1> QED
  BY <1>4, <1>5

\* A step after which one set of transfers has come further.
LEMMA LivesMove ==
  ASSUME NEW S, NEW state, \A x \in Tx : Life(x)' = IF x \in S THEN state ELSE Life(x)
  PROVE  Promise!Move(S, state)
<1>1. [x \in Tx |-> Life(x)]' =
        [x \in Tx |-> IF x \in S THEN state ELSE [y \in Tx |-> Life(y)][x]]
  OBVIOUS
<1> QED
  BY <1>1 DEF Promise!Move

LEMMA SendRefines == ASSUME CoinInv, NEW x \in Tx, Send(x) PROVE Promise!Submit(x)
<1>1. /\ UNCHANGED <<blocks, blk, pool>> /\ x \notin sent /\ sent' = sent \cup {x}
      /\ req' = {x} /\ req = {}
  BY DEF Send, dbVars, CoinInv, OneRequest
<1>2. Mined' = Mined /\ Held' = Held
  BY <1>1 DEF Mined, Held
<1>3. x \notin Range(pool) \cup Held \cup Mined
  BY <1>1 DEF CoinInv, OnlySent
<1>4. \A y \in Tx : Life(y)' = IF y \in {x} THEN "checking" ELSE Life(y)
  BY <1>1, <1>2, <1>3 DEF Life
<1>5. Life(x) = "new" /\ ChainRows' = ChainRows
  BY <1>1, <1>3, ChainRowsAre DEF Life
<1> QED
  BY <1>4, <1>5, LivesMove DEF Promise!Submit

LEMMA OfferRefines == ASSUME CoinInv, Offer PROVE \E x \in Tx : Promise!Accept(x)
<1>1. PICK x \in req : pool' = Append(pool, x)
  BY DEF Offer
<1>2. UNCHANGED <<blocks, blk, sent>> /\ req' = {} /\ req = {x}
  BY DEF Offer, dbVars, CoinInv, OneRequest
<1>3. Mined' = Mined /\ Held' = Held
  BY <1>2 DEF Mined, Held
<1>4. x \in Tx /\ x \notin Range(pool) \cup Held \cup Mined /\ pool \in Seq(Tx)
  BY DEF CoinInv, OnePlace, NodeInv, TypeOK, GlobalsTypeOK
<1>5. Range(pool') = Range(pool) \cup {x}
  BY <1>1, <1>4, AppendNew
<1>6. \A y \in Tx : Life(y)' = IF y \in {x} THEN "pooled" ELSE Life(y)
  BY <1>2, <1>3, <1>4, <1>5 DEF Life
<1>7. Life(x) = "checking" /\ ChainRows' = ChainRows
  BY <1>2, <1>4, ChainRowsAre DEF Life
<1> QED
  BY <1>4, <1>6, <1>7, LivesMove DEF Promise!Accept

LEMMA PollRefines ==
  ASSUME CoinInv, NEW t \in Thread, PollTx(t)
  PROVE  \E x \in Tx : Promise!Take(x)
<1>1. PICK x \in Range(pool) :
        /\ UNCHANGED <<blocks, sent, req, pc>>
        /\ Range(pool') = Range(pool) \ {x} /\ IsInjective(pool')
        /\ Txs(t)' = Txs(t) \cup {x} /\ IsInjective(blk'[t].txs)
        /\ \A u \in Thread \ {t} : blk'[u] = blk[u]
  BY PollMoves
<1>2. x \notin Held \cup Mined \cup req /\ x \in sent /\ x \in Tx
  BY <1>1 DEF CoinInv, OnePlace, OnlySent, NodeInv, TypeOK, GlobalsTypeOK
<1>3. Mined' = Mined /\ \A u \in Thread \ {t} : Txs(u)' = Txs(u)
  BY <1>1 DEF Mined, Txs
<1>4. Held' = Held \cup {x}
  BY <1>1, <1>3, HeldIs DEF Thread
<1>5. \A y \in Tx : Life(y)' = IF y \in {x} THEN "taken" ELSE Life(y)
  BY <1>1, <1>2, <1>3, <1>4 DEF Life
<1>6. Life(x) = "pooled" /\ ChainRows' = ChainRows
  BY <1>1, <1>2, ChainRowsAre DEF Life
<1> QED
  BY <1>2, <1>5, <1>6, LivesMove DEF Promise!Take

LEMMA WriteBlockRefines ==
  ASSUME CoinInv, WriteBlock
  PROVE  \E h \in Hash \cup {GenesisHash}, txs \in Promise!Listings(Promise!In("taken")) :
           Promise!Extend(h, txs)
<1> DEFINE b == blk["miner"]
           n == get_height
<1>1. /\ GoodChain /\ GoodChain' /\ b \in Block /\ b.hash \in Hash \ DOMAIN blocks
      /\ b.lasthash = read_block(n - 1).hash
      /\ DOMAIN blocks' = DOMAIN blocks \cup {b.hash}
      /\ blocks'[b.hash] = [id |-> n, blk |-> b]
      /\ \A g \in DOMAIN blocks : blocks'[g] = blocks[g]
      /\ get_height' = n + 1
      /\ Mined' = Mined \cup Txs("miner") /\ Txs("miner") \cap Mined = {}
      /\ UNCHANGED <<pool, sent, blk, req>> /\ Counted'
  BY WriteBlockMoves
<1>2. Txs("miner") = Range(b.txs) /\ b.txs \in Seq(Tx) /\ IsInjective(b.txs)
      /\ Len(b.txs) <= TxPerBlock
  BY <1>1, MinerIsThread, Locals DEF Txs, Block, CoinInv, OneCopy
<1> HIDE DEF b, n
<1>3. /\ Numbered(blocks, n) /\ n \in Nat /\ Numbered(blocks', n + 1)
      /\ ChainRows = RowsOf(blocks, n) /\ ChainRows' = RowsOf(blocks', n + 1)
  <2>1. Numbered(blocks, n) /\ n \in Nat /\ Cardinality(DOMAIN blocks) = n
    BY <1>1, ChainIsNumbered DEF n, GoodChain, Founded, CoinInv, Counted
  <2>2. Cardinality(DOMAIN blocks') = n + 1
    BY <1>1 DEF Counted
  <2>3. Numbered(blocks', n + 1)
    <3>1. \A h \in DOMAIN blocks : blocks[h].id # n
      BY <1>1, <2>1, IdsOfChain DEF n
    <3>2. blocks'[b.hash].id = n
      BY <1>1
    <3> QED
      BY <1>1, <2>1, <3>1, <3>2, AddedIsNumbered
  <2> QED
    BY <2>1, <2>2, <2>3, ChainRowsAre
<1>4. /\ DOMAIN ChainRows = 1 .. n /\ Len(ChainRows) = n /\ n > 0
      /\ \A i \in 1 .. n : \E h \in DOMAIN blocks :
           blocks[h].id = i - 1 /\ ChainRows[i] = Entry(blocks, h)
  <2>1. n > 0
    BY <1>1, IdsOfChain DEF n
  <2>2. DOMAIN ChainRows = 1 .. n /\ Len(ChainRows) = n
    BY <1>3, RowsAreEntries
  <2>3. \A i \in 1 .. n : \E h \in DOMAIN blocks :
          blocks[h].id = i - 1 /\ ChainRows[i] = Entry(blocks, h)
    <3> TAKE i \in 1 .. n
    <3>1. PICK h \in DOMAIN blocks : blocks[h].id = i - 1
      BY <1>3 DEF Numbered
    <3> QED
      BY <1>3, <3>1, RowsOfTable
  <2> QED
    BY <2>1, <2>2, <2>3
<1>5. \A i \in DOMAIN ChainRows : ChainRows[i].hash # b.hash
  BY <1>1, <1>4 DEF Entry
<1>6. Promise!Tip.hash = b.lasthash
  <2>1. PICK h \in DOMAIN blocks : blocks[h].id = n - 1 /\ ChainRows[n] = Entry(blocks, h)
    BY <1>3, <1>4
  <2>2. read_block(n - 1).hash = h
    BY <1>1, <2>1, ReadBlockReturnsRow
  <2> QED
    BY <1>1, <1>4, <2>1, <2>2 DEF Promise!Tip, Entry
<1>7. ChainRows' =
        Append(ChainRows, [hash |-> b.hash, lasthash |-> Promise!Tip.hash, txs |-> b.txs])
  <2>1. blocks'[b.hash].id = n /\ blocks'[b.hash].blk = b
    BY <1>1
  <2>2. ChainRows' = Append(ChainRows, Entry(blocks', b.hash))
    BY <1>1, <1>3, <2>1, TableGrows
  <2> QED
    BY <1>6, <2>1, <2>2 DEF Entry
<1>8. Promise!Move(Promise!RangeOf(b.txs), "mined")
  <2>1. Held' = Held
    BY <1>1 DEF Held
  <2>2. Promise!RangeOf(b.txs) = Range(b.txs)
    BY DEF Promise!RangeOf, Range
  <2>3. \A y \in Tx : Life(y)' = IF y \in Range(b.txs) THEN "mined" ELSE Life(y)
    BY <1>1, <1>2, <2>1 DEF Life
  <2> QED
    BY <2>2, <2>3, LivesMove
<1>9. b.txs \in Promise!Listings(Promise!In("taken"))
  <2>1. \A x \in Range(b.txs) : x \in Tx /\ Life(x) = "taken"
    <3>1. Range(b.txs) \subseteq Held \ Mined
      BY <1>1, <1>2, HeldIs
    <3>2. Range(b.txs) \subseteq Tx
      BY <1>2 DEF Range
    <3> QED
      BY <3>1, <3>2 DEF Life, CoinInv, OnePlace
  <2>2. Range(b.txs) \subseteq Promise!In("taken")
    BY <2>1 DEF Promise!In
  <2>3. /\ Len(b.txs) \in 0 .. TxPerBlock /\ DOMAIN b.txs = 1 .. Len(b.txs)
        /\ b.txs \in [1 .. Len(b.txs) -> Promise!In("taken")]
    BY <1>2, <2>2, NodeConstants DEF Range
  <2> QED
    BY <1>2, <2>3 DEF Promise!Listings, IsInjective
<1>10. ChainRows # <<>>
  BY <1>4
<1>11. Promise!Extend(b.hash, b.txs)
  BY <1>5, <1>7, <1>8, <1>10 DEF Promise!Extend
<1> QED
  BY <1>1, <1>9, <1>11

LEMMA BootBlockRefines == ASSUME CoinInv, BootBlock PROVE [Promise!Next]_(Promise!vars)
<1>1. /\ UNCHANGED <<pool, sent, blk, req>> /\ Mined' = Mined /\ GoodChain' /\ Counted'
      /\ \/ /\ GoodChain /\ DOMAIN blocks' = DOMAIN blocks
            /\ \A h \in DOMAIN blocks : blocks'[h] = blocks[h]
         \/ /\ DOMAIN blocks = {} /\ DOMAIN blocks' = {GenesisHash}
            /\ blocks'[GenesisHash] = [id |-> 0, blk |-> genesis_block]
  BY BootBlockMoves
<1>2. \A x \in Tx : Life(x)' = Life(x)
  <2>1. Held' = Held
    BY <1>1 DEF Held
  <2> QED
    BY <1>1, <2>1 DEF Life
<1>3. [x \in Tx |-> Life(x)]' = [x \in Tx |-> Life(x)]
  BY <1>2
<1>4. CASE /\ GoodChain /\ DOMAIN blocks' = DOMAIN blocks
           /\ \A h \in DOMAIN blocks : blocks'[h] = blocks[h]
  <2>1. /\ Numbered(blocks, get_height) /\ get_height \in Nat
        /\ Cardinality(DOMAIN blocks) = get_height
    BY <1>4, ChainIsNumbered DEF GoodChain, Founded, CoinInv, Counted
  <2>2. ChainRows' = ChainRows
    BY <1>4, <2>1, SameTable, ChainRowsAre
  <2> QED
    BY <1>3, <2>2 DEF Promise!vars
<1>5. CASE /\ DOMAIN blocks = {} /\ DOMAIN blocks' = {GenesisHash}
           /\ blocks'[GenesisHash] = [id |-> 0, blk |-> genesis_block]
  <2>1. ChainRows = <<>>
    BY <1>5, FS_EmptySet DEF ChainRows
  <2>2. Cardinality(DOMAIN blocks') = 1
    BY <1>5, FS_Singleton
  <2>3. Entry(blocks', GenesisHash) = [hash |-> GenesisHash, lasthash |-> GenesisHash, txs |-> <<>>]
    BY <1>5 DEF Entry, genesis_block
  <2>4. Numbered(blocks', 1)
    BY <1>5 DEF Numbered
  <2>5. RowsOf(blocks', 1) = <<Entry(blocks', GenesisHash)>>
    <3>1. RowsOf(blocks', 1)[1] = Entry(blocks', GenesisHash)
      BY <1>5, <2>4, RowsOfTable
    <3>2. RowsOf(blocks', 1) = [i \in 1 .. 1 |-> RowsOf(blocks', 1)[i]]
      BY DEF RowsOf
    <3> QED
      BY <3>1, <3>2
  <2>6. Promise!Found
    BY <1>3, <2>1, <2>2, <2>3, <2>5, ChainRowsAre DEF Promise!Found
  <2> QED
    BY <2>6 DEF Promise!Next
<1> QED
  BY <1>1, <1>4, <1>5

\* The whole program - three threads, two tables, crashes and restarts -
\* implements module Coin: the chain only grows at its end, and a transfer
\* accepted once is mined at most once.
THEOREM NodeImplementsCoin == Spec => ImplementsCoin
<1>1. Init => Promise!Init
  <2> SUFFICES ASSUME Init PROVE Promise!Init
    OBVIOUS
  <2>1. /\ DOMAIN blocks = {} /\ pool = <<>> /\ req = {} /\ sent = {}
        /\ \A t \in Thread : blk[t].txs = <<>>
    BY DEF Init, DbInit, Fresh, NoBlock
  <2>2. Mined = {} /\ Held = {}
    BY <2>1, NothingListed DEF Mined, Held
  <2>3. \A x \in Tx : Life(x) = "new"
    BY <2>1, <2>2, NothingListed DEF Life
  <2>4. ChainRows = <<>>
    BY <2>1, FS_EmptySet DEF ChainRows
  <2> QED
    BY <2>3, <2>4 DEF Promise!Init
<1>2. CoinInv /\ [Next]_vars => [Promise!Next]_(Promise!vars)
  <2> SUFFICES ASSUME CoinInv, [Next]_vars PROVE [Promise!Next]_(Promise!vars)
    OBVIOUS
  <2>1. ~Moving => [Promise!Next]_(Promise!vars)
    BY StepForgets, ForgetsRefines DEF CoinInv
  <2>2. WriteBlock => Promise!Next
    BY WriteBlockRefines DEF Promise!Next
  <2>3. Offer \/ (\E x \in Tx : Send(x)) \/ (\E t \in Thread : PollTx(t)) => Promise!Next
    BY OfferRefines, SendRefines, PollRefines DEF Promise!Next
  <2> QED
    BY <2>1, <2>2, <2>3, BootBlockRefines DEF Moving
<1> QED
  BY <1>1, <1>2, CoinInvAlways, PTL DEF Spec, ImplementsCoin, Promise!Spec
-----------------------------------------------------------------------------
(* What a crash leaves unrecorded *)

\* The block whose transactions the miner is recording.
Current == {h \in DOMAIN blocks : pc["miner"] = "rows" /\ blocks[h].id = id}

Complete(h) == Recorded(h) = 1 .. (blocks[h].blk.num_tx - 1)

Broken == {h \in DOMAIN blocks \ Current : ~Complete(h)}

Recording ==
  /\ \A h \in DOMAIN blocks : \E k \in 0 .. Len(blocks[h].blk.txs) : Recorded(h) = 1 .. k
  /\ \A h \in Current : Recorded(h) = 1 .. (row - 1)
  /\ Cardinality(Broken) <= crashes

RecordInv == CoinInv /\ BlockIsStored /\ CacheMatchesChain /\ Recording

\* A row of txcache for another transfer, or the coinbase, changes nothing.
LEMMA RecordedFrame ==
  ASSUME NodeInv, NEW h \in DOMAIN blocks, h \in DOMAIN blocks', blocks'[h] = blocks[h],
         \A x \in Range(blocks[h].blk.txs) :
           /\ x \in DOMAIN txcache' <=> x \in DOMAIN txcache
           /\ x \in DOMAIN txcache => txcache'[x] = txcache[x]
  PROVE  Recorded(h)' = Recorded(h) /\ (Complete(h)' <=> Complete(h))
<1>1. \A i \in DOMAIN blocks[h].blk.txs : blocks[h].blk.txs[i] \in Range(blocks[h].blk.txs)
  BY DEF Range
<1>2. Recorded(h)' = Recorded(h)
  BY <1>1 DEF Recorded
<1> QED
  BY <1>2 DEF Complete

LEMMA BrokenIsFinite ==
  ASSUME CoinInv
  PROVE  IsFiniteSet(Broken) /\ Cardinality(Broken) \in Nat
<1>1. IsFiniteSet(DOMAIN blocks)
  BY DEF CoinInv, Counted
<1>2. IsFiniteSet(Broken)
  BY <1>1, FS_Subset DEF Broken
<1> QED
  BY <1>2, FS_CardinalityType

LEMMA OneMore ==
  ASSUME CoinInv, NEW T, T \subseteq Broken \cup Current
  PROVE  Cardinality(T) \in Nat /\ Cardinality(T) <= Cardinality(Broken) + 1
<1>1. IsFiniteSet(Broken) /\ Cardinality(Broken) \in Nat
  BY BrokenIsFinite
<1>2. \A g, h \in Current : g = h
  BY IdsOfBlocks DEF CoinInv, Current
<1>3. PICK x : T \subseteq Broken \cup {x}
  BY <1>2
<1>4. /\ IsFiniteSet(Broken \cup {x})
      /\ Cardinality(Broken \cup {x}) <= Cardinality(Broken) + 1
  BY <1>1, FS_AddElement
<1>5. IsFiniteSet(T) /\ Cardinality(T) <= Cardinality(Broken \cup {x})
  BY <1>3, <1>4, FS_Subset
<1>6. Cardinality(T) \in Nat /\ Cardinality(Broken \cup {x}) \in Nat
  BY <1>4, <1>5, FS_CardinalityType
<1> QED
  BY <1>1, <1>4, <1>5, <1>6

\* Steps that touch neither table, nor which block is being recorded.
LEMMA RecordQuiet ==
  ASSUME RecordInv, UNCHANGED <<blocks, txcache, crashes>>,
         (pc'["miner"] = "rows") <=> (pc["miner"] = "rows"),
         pc["miner"] = "rows" => UNCHANGED <<id, row>>
  PROVE  Recording'
<1>1. Current' = Current
  BY DEF Current
<1>2. \A h : Recorded(h)' = Recorded(h) /\ (Complete(h)' <=> Complete(h))
  BY DEF Recorded, Complete
<1>3. Broken' = Broken
  BY <1>1, <1>2 DEF Broken
<1>4. Current # {} => row' = row
  BY DEF Current
<1> QED
  BY <1>1, <1>2, <1>3, <1>4 DEF RecordInv, Recording

LEMMA RecordCrash == ASSUME RecordInv, Crash PROVE Recording'
<1>1. UNCHANGED <<blocks, txcache>> /\ crashes' = crashes + 1 /\ pc'["miner"] = "off"
      /\ crashes \in Nat
  BY NodeConstants DEF Crash, Fresh, Thread, RecordInv, CoinInv, NodeInv, TypeOK, GlobalsTypeOK
<1>2. Current' = {} /\ \A h : Recorded(h)' = Recorded(h) /\ (Complete(h)' <=> Complete(h))
  BY <1>1 DEF Current, Recorded, Complete
<1>3. Broken' \subseteq Broken \cup Current
  BY <1>1, <1>2 DEF Broken
<1>4. Cardinality(Broken') \in Nat /\ Cardinality(Broken') <= Cardinality(Broken) + 1
  BY <1>3, OneMore DEF RecordInv
<1>5. Cardinality(Broken) \in Nat /\ Cardinality(Broken) <= crashes
  BY BrokenIsFinite DEF RecordInv, Recording
<1>6. \A h \in DOMAIN blocks' : \E k \in 0 .. Len(blocks'[h].blk.txs) : Recorded(h)' = 1 .. k
  BY <1>1, <1>2 DEF RecordInv, Recording
<1>7. Cardinality(Broken') <= crashes'
  BY <1>1, <1>4, <1>5
<1> QED
  BY <1>2, <1>6, <1>7 DEF Recording

LEMMA RecordStart == ASSUME RecordInv, Start PROVE Recording'
<1>1. /\ pc["miner"] = "off" /\ pc'["miner"] = "off" /\ crashes' = crashes
  BY DEF Start, Boot, BootBlock, BootTx, BootLoad, Goto, locals, RecordInv, CoinInv, NodeInv,
     Phases, TypeOK, ThreadsTypeOK, Thread
<1>2. CASE Boot \/ BootLoad
  <2>1. UNCHANGED <<blocks, txcache>>
    BY <1>2 DEF Boot, BootLoad, dbVars
  <2> QED
    BY <1>1, <2>1, RecordQuiet
<1>3. CASE ~Boot /\ ~BootLoad
  <2>1. Current = {} /\ Current' = {}
    BY <1>1 DEF Current
  <2>2. \A s \in Tx :
          /\ s \in DOMAIN txcache' <=> s \in DOMAIN txcache
          /\ s \in DOMAIN txcache => txcache'[s] = txcache[s]
    <3>1. CASE BootBlock
      BY <3>1 DEF BootBlock, InsertBlock
    <3>2. CASE BootTx
      BY <3>2, LedgerAssumption DEF BootTx, InsertTx, InsertOrReplace, LedgerAssumption
    <3> QED
      BY <1>3, <3>1, <3>2 DEF Start
  <2>3. \A h \in DOMAIN blocks : Range(blocks[h].blk.txs) \subseteq Tx
    BY DEF RecordInv, CoinInv, NodeInv, TypeOK, DbTypeOK, Block, Range
  <2>4. \A h \in DOMAIN blocks' :
          \/ h \in DOMAIN blocks /\ blocks'[h] = blocks[h]
          \/ blocks'[h] = [id |-> 0, blk |-> genesis_block]
    <3>1. CASE BootBlock
      BY <3>1, BootBlockMoves DEF RecordInv
    <3>2. CASE BootTx
      BY <3>2 DEF BootTx, InsertTx
    <3> QED
      BY <1>3, <3>1, <3>2 DEF Start
  <2>5. \A h \in DOMAIN blocks \cap DOMAIN blocks' : blocks'[h] = blocks[h] =>
          Recorded(h)' = Recorded(h) /\ (Complete(h)' <=> Complete(h))
    <3> TAKE h \in DOMAIN blocks \cap DOMAIN blocks'
    <3> HAVE blocks'[h] = blocks[h]
    <3>1. \A s \in Range(blocks[h].blk.txs) :
            /\ s \in DOMAIN txcache' <=> s \in DOMAIN txcache
            /\ s \in DOMAIN txcache => txcache'[s] = txcache[s]
      BY <2>2, <2>3
    <3> QED
      BY <3>1, RecordedFrame DEF RecordInv, CoinInv
  <2>6. \A h \in DOMAIN blocks' : blocks'[h] = [id |-> 0, blk |-> genesis_block] =>
          Len(blocks'[h].blk.txs) = 0 /\ Recorded(h)' = 1 .. 0 /\ Complete(h)'
    <3> TAKE h \in DOMAIN blocks'
    <3> HAVE blocks'[h] = [id |-> 0, blk |-> genesis_block]
    <3>1. blocks'[h].blk.txs = <<>> /\ blocks'[h].blk.num_tx = 1 % NumTxMod
      BY DEF genesis_block
    <3>2. 1 % NumTxMod = 1
      BY LedgerAssumption DEF LedgerAssumption
    <3>3. Recorded(h)' = {}
      BY <3>1 DEF Recorded
    <3> QED
      BY <3>1, <3>2, <3>3 DEF Complete
  <2>7. \A h \in DOMAIN blocks' : \E k \in 0 .. Len(blocks'[h].blk.txs) : Recorded(h)' = 1 .. k
    <3> TAKE h \in DOMAIN blocks'
    <3>1. CASE h \in DOMAIN blocks /\ blocks'[h] = blocks[h]
      BY <2>5, <3>1 DEF RecordInv, Recording
    <3>2. CASE blocks'[h] = [id |-> 0, blk |-> genesis_block]
      <4>1. Len(blocks'[h].blk.txs) = 0 /\ Recorded(h)' = 1 .. 0
        BY <2>6, <3>2
      <4> QED
        BY <4>1
    <3> QED
      BY <2>4, <3>1, <3>2
  <2>8. Broken' \subseteq Broken
    BY <2>1, <2>4, <2>5, <2>6 DEF Broken
  <2>9. Cardinality(Broken') <= crashes'
    <3>1. Cardinality(Broken') <= Cardinality(Broken) /\ Cardinality(Broken') \in Nat
      BY <2>8, BrokenIsFinite, FS_Subset, FS_CardinalityType DEF RecordInv
    <3>2. crashes \in Nat /\ Cardinality(Broken) \in Nat /\ Cardinality(Broken) <= crashes
      BY BrokenIsFinite, NodeConstants
      DEF RecordInv, Recording, CoinInv, NodeInv, TypeOK, GlobalsTypeOK
    <3> QED
      BY <1>1, <3>1, <3>2
  <2> QED
    BY <2>1, <2>7, <2>9 DEF Recording
<1> QED
  BY <1>2, <1>3

LEMMA RecordWriteBlock == ASSUME RecordInv, WriteBlock PROVE Recording'
<1>0. PICK b, k : b = blk["miner"] /\ k = b.hash
  OBVIOUS
<1>1. /\ b \in Block /\ k \notin DOMAIN blocks
      /\ DOMAIN blocks' = DOMAIN blocks \cup {k}
      /\ blocks'[k] = [id |-> get_height, blk |-> b]
      /\ \A g \in DOMAIN blocks : blocks'[g] = blocks[g]
      /\ Txs("miner") \cap Mined = {}
  BY <1>0, WriteBlockMoves DEF RecordInv
<1>2. /\ UNCHANGED <<txcache, crashes, id>> /\ row' = 0 /\ pc'["miner"] = "rows"
      /\ pc["miner"] = "insert"
  BY MinerIsThread, Locals DEF WriteBlock, InsertBlock, RecordInv, CoinInv, Goto
<1>3. id = get_height
  BY <1>2 DEF RecordInv, CoinInv, NodeInv, RoundIsCurrent
<1>4. b.txs \in Seq(Tx) /\ Range(b.txs) \cap Mined = {}
  BY <1>0, <1>1 DEF Txs, Block
<1>5. \A i \in DOMAIN b.txs : b.txs[i] \notin DOMAIN txcache
  <2> TAKE i \in DOMAIN b.txs
  <2>1. b.txs[i] \in Tx /\ b.txs[i] \notin Mined
    BY <1>4 DEF Range
  <2>2. \A s \in DOMAIN txcache : s # CoinbaseSig => s \in Mined
    BY DEF RecordInv, CacheMatchesChain, Mined
  <2> QED
    BY <2>1, <2>2, LedgerAssumption DEF LedgerAssumption
<1>6. Recorded(k)' = {}
  <2>1. blocks'[k].blk = b
    BY <1>1
  <2> QED
    BY <1>2, <1>5, <2>1 DEF Recorded
<1>7. \A h \in DOMAIN blocks : Recorded(h)' = Recorded(h) /\ (Complete(h)' <=> Complete(h))
  BY <1>1, <1>2 DEF Recorded, Complete
<1>8. Current' = {k} /\ Current = {}
  <2>1. GoodChain
    BY WriteBlockMoves DEF RecordInv
  <2>2. \A h \in DOMAIN blocks : blocks[h].id # get_height
    BY <2>1, IdsOfChain
  <2> QED
    BY <1>1, <1>2, <1>3, <2>2 DEF Current
<1>9. \A h \in DOMAIN blocks' : \E n \in 0 .. Len(blocks'[h].blk.txs) : Recorded(h)' = 1 .. n
  <2>1. \E n \in 0 .. Len(blocks'[k].blk.txs) : Recorded(k)' = 1 .. n
    <3>1. blocks'[k].blk = b /\ Len(b.txs) \in Nat
      BY <1>1, <1>4
    <3> QED
      BY <1>6, <3>1
  <2>2. \A h \in DOMAIN blocks : \E n \in 0 .. Len(blocks'[h].blk.txs) : Recorded(h)' = 1 .. n
    BY <1>1, <1>7 DEF RecordInv, Recording
  <2> QED
    BY <1>1, <2>1, <2>2
<1>10. \A h \in Current' : Recorded(h)' = 1 .. (row' - 1)
  BY <1>2, <1>6, <1>8
<1>11. Broken' = Broken
  BY <1>1, <1>7, <1>8 DEF Broken
<1> QED
  BY <1>2, <1>9, <1>10, <1>11 DEF RecordInv, Recording

LEMMA RecordWriteTx == ASSUME RecordInv, WriteTx PROVE Recording'
<1> DEFINE b == blk["miner"]
<1>1. /\ pc["miner"] = "rows" /\ row \in Nat /\ b.txs \in Seq(Tx)
      /\ row < b.num_tx /\ b.num_tx <= 1 + Len(b.txs) /\ b.num_tx \in Nat
  BY MinerIsThread, NodeConstants, Locals, LedgerAssumption
  DEF WriteTx, RecordInv, CoinInv, NodeInv, TypeOK, GlobalsTypeOK, Block, LedgerAssumption
<1>2. /\ UNCHANGED <<blocks, pc, crashes, id>> /\ row' = row + 1 /\ InsertTx(id, b, row)
  BY DEF WriteTx, InsertTx, locals
<1>3. PICK c \in DOMAIN blocks : blocks[c].id = id /\ blocks[c].blk = b
  BY <1>1 DEF RecordInv, BlockIsStored
<1> HIDE DEF b
<1>4. Current = {c} /\ Current' = Current
  BY <1>1, <1>2, <1>3, IdsOfBlocks DEF Current, RecordInv, CoinInv
<1>5. Recorded(c) = 1 .. (row - 1)
  BY <1>4 DEF RecordInv, Recording
<1>6. \A h \in DOMAIN blocks \ {c} : Recorded(h)' = Recorded(h) /\ (Complete(h)' <=> Complete(h))
  <2> TAKE h \in DOMAIN blocks \ {c}
  <2>1. \A s : s \notin Range(b.txs) \cup {CoinbaseSig} =>
          /\ s \in DOMAIN txcache' <=> s \in DOMAIN txcache
          /\ s \in DOMAIN txcache => txcache'[s] = txcache[s]
    <3>1. row = 0 \/ b.txs[row] \in Range(b.txs)
      BY <1>1 DEF Range
    <3> QED
      BY <1>2, <3>1 DEF InsertTx, InsertOrReplace
  <2>2. Stored(h) \cap Stored(c) = {} /\ Stored(c) = Range(b.txs)
    BY <1>3 DEF RecordInv, CoinInv, OnePlace, Stored
  <2>3. CoinbaseSig \notin Stored(h)
    BY LedgerAssumption
    DEF LedgerAssumption, Stored, Range, RecordInv, CoinInv, NodeInv, TypeOK, DbTypeOK, Block
  <2>4. \A s \in Range(blocks[h].blk.txs) :
          /\ s \in DOMAIN txcache' <=> s \in DOMAIN txcache
          /\ s \in DOMAIN txcache => txcache'[s] = txcache[s]
    BY <2>1, <2>2, <2>3 DEF Stored
  <2> QED
    BY <1>2, <2>4, RecordedFrame DEF RecordInv, CoinInv
<1>7. Recorded(c)' = 1 .. row
  <2>1. \A i, j \in DOMAIN b.txs : b.txs[i] = b.txs[j] => i = j
    BY <1>3 DEF RecordInv, CoinInv, OneCopy, IsInjective
  <2>2. DOMAIN b.txs = 1 .. Len(b.txs) /\ \A i \in DOMAIN b.txs : b.txs[i] # CoinbaseSig
    BY <1>1, LedgerAssumption DEF LedgerAssumption
  <2>3. \A i \in DOMAIN b.txs : i # row =>
          /\ b.txs[i] \in DOMAIN txcache' <=> b.txs[i] \in DOMAIN txcache
          /\ b.txs[i] \in DOMAIN txcache => txcache'[b.txs[i]] = txcache[b.txs[i]]
    <3>1. row # 0 => row \in DOMAIN b.txs
      BY <1>1
    <3> QED
      BY <1>2, <2>1, <2>2, <3>1 DEF InsertTx, InsertOrReplace
  <2>4. row # 0 => /\ row \in DOMAIN b.txs /\ b.txs[row] \in DOMAIN txcache'
                   /\ txcache'[b.txs[row]].blockid = id
    BY <1>1, <1>2 DEF InsertTx, InsertOrReplace
  <2>5. \A i : i \in Recorded(c) <=>
          i \in DOMAIN b.txs /\ b.txs[i] \in DOMAIN txcache /\ txcache[b.txs[i]].blockid = id
    BY <1>3 DEF Recorded
  <2>6. \A i : i \in Recorded(c)' <=>
          i \in DOMAIN b.txs /\ b.txs[i] \in DOMAIN txcache' /\ txcache'[b.txs[i]].blockid = id
    BY <1>2, <1>3 DEF Recorded
  <2>7. \A i : i \in Recorded(c)' <=> i \in Recorded(c) \/ (row # 0 /\ i = row)
    BY <2>2, <2>3, <2>4, <2>5, <2>6, <1>1
  <2>8. \A i : i \in 1 .. row <=> i \in 1 .. (row - 1) \/ (row # 0 /\ i = row)
    BY <1>1
  <2>9. \A i : i \in Recorded(c)' <=> i \in 1 .. row
    BY <1>5, <2>7, <2>8
  <2>10. Recorded(c)' \subseteq DOMAIN blocks'[c].blk.txs
    BY DEF Recorded
  <2> QED
    BY <2>9, <2>10
<1>8. \A h \in DOMAIN blocks' : \E n \in 0 .. Len(blocks'[h].blk.txs) : Recorded(h)' = 1 .. n
  <2>1. row \in 0 .. Len(blocks'[c].blk.txs)
    BY <1>1, <1>2, <1>3
  <2> QED
    BY <1>2, <1>6, <1>7, <2>1 DEF RecordInv, Recording
<1>9. \A h \in Current' : Recorded(h)' = 1 .. (row' - 1)
  BY <1>1, <1>2, <1>4, <1>7
<1>10. Broken' = Broken
  BY <1>2, <1>4, <1>6 DEF Broken
<1> QED
  BY <1>2, <1>8, <1>9, <1>10 DEF RecordInv, Recording

LEMMA RecordEndWrite == ASSUME RecordInv, EndWrite PROVE Recording'
<1>1. /\ pc["miner"] = "rows" /\ row = blk["miner"].num_tx
      /\ UNCHANGED <<blocks, txcache, crashes>> /\ pc'["miner"] = "loop"
  BY MinerIsThread, Locals DEF EndWrite, RecordInv, CoinInv, Goto, dbVars
<1>2. PICK c \in DOMAIN blocks : blocks[c].id = id /\ blocks[c].blk.num_tx = row
  BY <1>1 DEF RecordInv, BlockIsStored
<1>3. Current = {c} /\ Current' = {}
  BY <1>1, <1>2, IdsOfBlocks DEF Current, RecordInv, CoinInv
<1>4. \A h : Recorded(h)' = Recorded(h) /\ (Complete(h)' <=> Complete(h))
  BY <1>1 DEF Recorded, Complete
<1>5. Complete(c)
  BY <1>2, <1>3 DEF Complete, RecordInv, Recording
<1>6. Broken' = Broken
  BY <1>1, <1>3, <1>4, <1>5 DEF Broken
<1> QED
  BY <1>1, <1>3, <1>4, <1>6 DEF RecordInv, Recording

LEMMA RecordStep == ASSUME RecordInv, [Next]_vars PROVE Recording'
<1>1. CASE ~Start /\ ~Crash /\ ~WriteBlock /\ ~WriteTx /\ ~EndWrite
  <2>1. /\ UNCHANGED <<blocks, txcache, crashes>>
        /\ (pc'["miner"] = "rows") <=> (pc["miner"] = "rows")
        /\ pc["miner"] = "rows" => UNCHANGED <<id, row>>
    BY <1>1, QuietStep DEF RecordInv, CoinInv
  <2> QED
    BY <2>1, RecordQuiet
<1> QED
  BY <1>1, RecordStart, RecordCrash, RecordWriteBlock, RecordWriteTx, RecordEndWrite

\* Only a block being written, and at most one block for each crash, lacks
\* transfers in txcache; and what a block lacks is its last ones.
THEOREM TransfersAreRecorded == Spec => []TransfersRecorded
<1>1. Spec => []RecordInv
  <2>1. Init => BlockIsStored /\ CacheMatchesChain /\ Recording
    <3> SUFFICES ASSUME Init PROVE BlockIsStored /\ CacheMatchesChain /\ Recording
      OBVIOUS
    <3>1. DOMAIN blocks = {} /\ crashes = 0
      BY DEF Init, DbInit
    <3>2. Broken = {} /\ Current = {}
      BY <3>1 DEF Broken, Current
    <3>3. Recording
      BY <3>1, <3>2, FS_EmptySet DEF Recording
    <3> QED
      BY <3>3 DEF Init, DbInit, Fresh, Thread, BlockIsStored, CacheMatchesChain
  <2>2. RecordInv /\ [Next]_vars => BlockIsStored' /\ CacheMatchesChain' /\ Recording'
    BY RecordStep, StoredStep, CacheStep DEF RecordInv, CoinInv, CacheInv
  <2> QED
    BY <2>1, <2>2, CoinInvAlways, PTL DEF Spec, RecordInv
<1>2. RecordInv => TransfersRecorded
  <2> SUFFICES ASSUME RecordInv PROVE TransfersRecorded
    OBVIOUS
  <2> DEFINE T == {h \in DOMAIN blocks : Recorded(h) # 1 .. (blocks[h].blk.num_tx - 1)}
  <2>1. T \subseteq Broken \cup Current
    BY DEF Broken, Complete
  <2>2. Current = {} \/ pc["miner"] = "rows"
    BY DEF Current
  <2>3. /\ crashes \in Nat /\ IsFiniteSet(Broken) /\ Cardinality(Broken) \in Nat
        /\ Cardinality(Broken) <= crashes
    BY BrokenIsFinite, NodeConstants
    DEF RecordInv, Recording, CoinInv, NodeInv, TypeOK, GlobalsTypeOK
  <2>4. Cardinality(T) <= crashes + (IF pc["miner"] = "rows" THEN 1 ELSE 0)
    <3> HIDE DEF T
    <3>1. CASE pc["miner"] = "rows"
      BY <2>1, <2>3, <3>1, OneMore DEF RecordInv
    <3>2. CASE pc["miner"] # "rows"
      <4>1. T \subseteq Broken
        BY <2>1, <2>2, <3>2
      <4>2. Cardinality(T) <= Cardinality(Broken) /\ Cardinality(T) \in Nat
        BY <2>3, <4>1, FS_Subset, FS_CardinalityType
      <4> QED
        BY <2>3, <3>2, <4>2
    <3> QED
      BY <3>1, <3>2
  <2> QED
    BY <2>4 DEF TransfersRecorded, RecordInv, Recording
<1> QED
  BY <1>1, <1>2, PTL
-----------------------------------------------------------------------------
(* The sum over a finite set *)

First(s) == CHOOSE x \in s : TRUE

\* The equation MapThenSumSet solves: f sums g over each subset of D.
Sums(f, g, D) ==
  f = [s \in SUBSET D |-> IF s = {} THEN 0 ELSE g[First(s)] + f[s \ {First(s)}]]

LEMMA FirstIn == \A s : s # {} => First(s) \in s
  BY DEF First

LEMMA SumsAt ==
  ASSUME NEW f, NEW g, NEW D, Sums(f, g, D), NEW s \in SUBSET D
  PROVE  /\ s = {} => f[s] = 0
         /\ s # {} => f[s] = g[First(s)] + f[s \ {First(s)}]
  BY DEF Sums

\* A family of subsets of a finite set has a least member, if it has any.
LEMMA LeastSubset ==
  ASSUME NEW D, IsFiniteSet(D), NEW B \in SUBSET SUBSET D, B # {}
  PROVE  \E m \in B : \A s \in SUBSET m : s # m => s \notin B
<1>1. IsWellFoundedOn(StrictSubsetOrdering(D), SUBSET D)
  BY FS_StrictSubsetOrderingWellFounded, FS_FiniteSubsetsOfFinite
<1>2. PICK m \in B : \A s \in B : <<s, m>> \notin StrictSubsetOrdering(D)
  BY <1>1, WFMin
<1>3. \A s \in SUBSET m : s # m => s \notin B
  BY <1>2 DEF StrictSubsetOrdering
<1> QED
  BY <1>3

LEMMA SumsAgree ==
  ASSUME NEW f, NEW g, NEW C, Sums(f, g, C), NEW h, NEW k, NEW D, Sums(h, k, D),
         NEW S \in SUBSET C, S \in SUBSET D, IsFiniteSet(S), \A x \in S : g[x] = k[x]
  PROVE  f[S] = h[S]
<1> DEFINE B == {s \in SUBSET S : f[s] # h[s]}
<1>1. SUFFICES ASSUME B # {} PROVE FALSE
  OBVIOUS
<1>2. PICK m \in B : \A s \in SUBSET m : s # m => s \notin B
  <2>1. B \in SUBSET SUBSET S
    OBVIOUS
  <2> HIDE DEF B
  <2> QED
    BY <1>1, <2>1, LeastSubset
<1>3. m \in SUBSET S /\ m \in SUBSET C /\ m \in SUBSET D /\ f[m] # h[m]
  OBVIOUS
<1> HIDE DEF B
<1>4. /\ m = {} => f[m] = 0
      /\ m # {} => f[m] = g[First(m)] + f[m \ {First(m)}]
  BY <1>3, SumsAt
<1>5. /\ m = {} => h[m] = 0
      /\ m # {} => h[m] = k[First(m)] + h[m \ {First(m)}]
  BY <1>3 DEF Sums
<1>6. m # {} /\ First(m) \in m
  BY <1>3, <1>4, <1>5, FirstIn
<1>7. m \ {First(m)} \in SUBSET S /\ f[m \ {First(m)}] = h[m \ {First(m)}]
  BY <1>2, <1>3, <1>6 DEF B
<1> QED
  BY <1>3, <1>4, <1>5, <1>6, <1>7

LEMMA SumsExist == ASSUME NEW g, NEW D, IsFiniteSet(D) PROVE \E f : Sums(f, g, D)
<1> DEFINE B == {s \in SUBSET D : ~ \E f : Sums(f, g, s)}
<1>1. SUFFICES ASSUME B # {} PROVE FALSE
  OBVIOUS
<1>2. PICK m \in B : \A s \in SUBSET m : s # m => s \notin B
  <2>1. B \in SUBSET SUBSET D
    OBVIOUS
  <2> HIDE DEF B
  <2> QED
    BY <1>1, <2>1, LeastSubset
<1>3. m \in SUBSET D /\ \A s \in SUBSET m : s # m => \E f : Sums(f, g, s)
  BY <1>2
<1> DEFINE Part(s) == CHOOSE f : Sums(f, g, s)
           t == [s \in SUBSET m |->
                   IF s = {} THEN 0 ELSE g[First(s)] + Part(s \ {First(s)})[s \ {First(s)}]]
<1>4. \A s \in SUBSET m : s # m => Sums(Part(s), g, s)
  BY <1>3
<1> HIDE DEF Part
<1>5. \A u \in SUBSET m : u # m => t[u] = Part(u)[u]
  <2> SUFFICES ASSUME NEW u \in SUBSET m, u # m PROVE t[u] = Part(u)[u]
    OBVIOUS
  <2>1. Sums(Part(u), g, u)
    BY <1>4
  <2>2. CASE u = {}
    BY <2>1, <2>2, SumsAt
  <2>3. CASE u # {}
    <3> DEFINE v == u \ {First(u)}
    <3>1. First(u) \in u /\ v \in SUBSET u /\ v \in SUBSET m /\ v # m
      BY <2>3, FirstIn
    <3>2. Part(u)[u] = g[First(u)] + Part(u)[v]
      BY <2>1, <2>3, SumsAt
    <3>3. t[u] = g[First(u)] + Part(v)[v]
      BY <2>3
    <3>4. Sums(Part(v), g, v)
      BY <1>4, <3>1
    <3>5. IsFiniteSet(v)
      BY <1>3, <3>1, FS_Subset
    <3> HIDE DEF v
    <3>6. Part(u)[v] = Part(v)[v]
      BY <2>1, <3>1, <3>4, <3>5, SumsAgree
    <3> QED
      BY <3>2, <3>3, <3>6
  <2> QED
    BY <2>2, <2>3
<1>6. \A s \in SUBSET m : s # {} => t[s \ {First(s)}] = Part(s \ {First(s)})[s \ {First(s)}]
  BY <1>5, FirstIn
<1>7. Sums(t, g, m)
  BY <1>6 DEF Sums
<1> QED
  BY <1>2, <1>7

\* Any element may be added last.
AnyLast(f, g, D) ==
  \A S \in SUBSET D : f[S] \in Int /\ \A x \in S : f[S] = g[x] + f[S \ {x}]

LEMMA SumsAny ==
  ASSUME NEW g, NEW D, IsFiniteSet(D), \A x \in D : g[x] \in Int, NEW f, Sums(f, g, D)
  PROVE  AnyLast(f, g, D)
<1> USE DEF AnyLast
<1> DEFINE P(S) == f[S] \in Int /\ \A x \in S : f[S] = g[x] + f[S \ {x}]
           B == {s \in SUBSET D : ~P(s)}
<1>1. SUFFICES ASSUME B # {} PROVE FALSE
  OBVIOUS
<1>2. PICK m \in B : \A s \in SUBSET m : s # m => s \notin B
  <2>1. B \in SUBSET SUBSET D
    OBVIOUS
  <2> HIDE DEF B
  <2> QED
    BY <1>1, <2>1, LeastSubset
<1>3. m \in SUBSET D /\ ~P(m) /\ \A s \in SUBSET m : s # m => P(s)
  BY <1>2
<1>4. m # {}
  <2>1. m = {} => f[m] = 0
    BY <1>3, SumsAt
  <2> QED
    BY <1>3, <2>1
<1> DEFINE c == First(m)
<1>5. c \in m /\ f[m] = g[c] + f[m \ {c}]
  BY <1>3, <1>4, FirstIn, SumsAt
<1> HIDE DEF c
<1>6. \A x \in m : m \ {x} \in SUBSET m /\ m \ {x} # m
  OBVIOUS
<1>7. \A x \in m : P(m \ {x})
  BY <1>3, <1>6
<1>8. f[m] \in Int
  BY <1>3, <1>5, <1>7
<1>9. ASSUME NEW x \in m PROVE f[m] = g[x] + f[m \ {x}]
  <2>1. CASE x = c
    BY <1>5, <2>1
  <2>2. CASE x # c
    <3>1. f[m \ {c}] = g[x] + f[(m \ {c}) \ {x}]
      BY <1>5, <1>7, <2>2
    <3>2. f[m \ {x}] = g[c] + f[(m \ {x}) \ {c}]
      BY <1>5, <1>7, <2>2
    <3>3. (m \ {c}) \ {x} = (m \ {x}) \ {c}
      OBVIOUS
    <3>4. f[m \ {x}] \in Int /\ f[m \ {c}] \in Int /\ g[c] \in Int /\ g[x] \in Int
      BY <1>3, <1>5, <1>7
    <3>5. f[(m \ {c}) \ {x}] \in Int
      <4>1. (m \ {c}) \ {x} \in SUBSET m /\ (m \ {c}) \ {x} # m
        BY <1>5
      <4> QED
        BY <1>3, <4>1
    <3>6. PICK a, b, u, v, w :
            /\ a = g[c] /\ b = g[x] /\ u = f[m \ {c}] /\ v = f[m \ {x}]
            /\ w = f[(m \ {c}) \ {x}]
      OBVIOUS
    <3>7. f[m] = a + u /\ u = b + w /\ v = a + w
      BY <1>5, <3>1, <3>2, <3>3, <3>6
    <3>8. a \in Int /\ b \in Int /\ w \in Int
      BY <3>4, <3>5, <3>6
    <3>9. f[m] = b + v
      BY ONLY <3>7, <3>8
    <3> QED
      BY <3>6, <3>9
  <2> QED
    BY <2>1, <2>2
<1> QED
  BY <1>3, <1>8, <1>9

LEMMA TakeOut ==
  ASSUME NEW g, NEW D, IsFiniteSet(D), \A x \in D : g[x] \in Int, NEW f, Sums(f, g, D),
         NEW x \in D
  PROVE  f[D] = g[x] + f[D \ {x}] /\ f[D \ {x}] \in Int
<1>1. AnyLast(f, g, D)
  BY SumsAny
<1>2. D \ {x} \in SUBSET D /\ D \in SUBSET D
  OBVIOUS
<1> QED
  BY <1>1, <1>2 DEF AnyLast
-----------------------------------------------------------------------------
(* Balances *)

\* What a row of txcache means for the balance of an address.
Effect(r, a) == IF r.from = a THEN -r.amount ELSE IF r.to = a THEN r.amount ELSE 0

\* Balance of a table T.
Total(T, a) ==
  LET effect(s) == IF T[s].from = a THEN -T[s].amount
                   ELSE IF T[s].to = a THEN T[s].amount ELSE 0
  IN  MapThenSumSet(effect, DOMAIN T)

Effects(T, a) == [s \in DOMAIN T |-> Effect(T[s], a)]

LEMMA TotalIsSum ==
  ASSUME NEW T, NEW a, IsFiniteSet(DOMAIN T)
  PROVE  \E f : Sums(f, Effects(T, a), DOMAIN T) /\ Total(T, a) = f[DOMAIN T]
<1> DEFINE D == DOMAIN T
           effect(s) == IF T[s].from = a THEN -T[s].amount
                        ELSE IF T[s].to = a THEN T[s].amount ELSE 0
<1>1. PICK f : Sums(f, Effects(T, a), D)
  BY SumsExist
<1>2. \A s \in SUBSET D : s # {} => Effects(T, a)[First(s)] = effect(First(s))
  BY FirstIn DEF Effects, Effect
<1> HIDE DEF effect, D
<1>3. f = [s \in SUBSET D |-> IF s = {} THEN 0
             ELSE effect(CHOOSE x \in s : TRUE) + f[s \ {CHOOSE x \in s : TRUE}]]
  BY <1>1, <1>2 DEF Sums, First
<1>4. PICK h : /\ h = [s \in SUBSET D |-> IF s = {} THEN 0
                        ELSE effect(CHOOSE x \in s : TRUE) + h[s \ {CHOOSE x \in s : TRUE}]]
               /\ MapThenSumSet(effect, D) = h[D]
  BY <1>3 DEF MapThenSumSet, MapThenFoldSet
<1>5. Sums(h, Effects(T, a), D)
  BY <1>2, <1>4 DEF Sums, First
<1>6. Total(T, a) = MapThenSumSet(effect, D)
  BY DEF Total, effect, D
<1> QED
  BY <1>4, <1>5, <1>6 DEF D

\* A row that is written adds its effect, and takes back the effect of the
\* row it replaces.
LEMMA TotalAfter ==
  ASSUME NEW T, NEW k, NEW r, NEW a, IsFiniteSet(DOMAIN T),
         \A s \in DOMAIN T : Effect(T[s], a) \in Int, Effect(r, a) \in Int
  PROVE  LET U == InsertOrReplace(T, k, r)
         IN  /\ IsFiniteSet(DOMAIN U) /\ Total(T, a) \in Int /\ Total(U, a) \in Int
             /\ k \in DOMAIN T => Total(U, a) = Total(T, a) + Effect(r, a) - Effect(T[k], a)
             /\ k \notin DOMAIN T => Total(U, a) = Total(T, a) + Effect(r, a)
<1> DEFINE U == InsertOrReplace(T, k, r)
           C == DOMAIN T
           D == DOMAIN U
           S == C \ {k}
           g == Effects(T, a)
           e == Effects(U, a)
<1>1. /\ D = C \cup {k} /\ D \ {k} = S /\ k \in D
      /\ \A s \in S : e[s] = g[s]
      /\ \A s \in C : g[s] = Effect(T[s], a) /\ g[s] \in Int
      /\ e[k] = Effect(r, a)
  BY DEF InsertOrReplace, Effects
<1>2. IsFiniteSet(D) /\ IsFiniteSet(C) /\ IsFiniteSet(S)
  BY <1>1, FS_AddElement, FS_Subset
<1>3. \A s \in D : e[s] \in Int
  BY <1>1
<1>4. PICK f : Sums(f, g, C) /\ Total(T, a) = f[C]
  BY <1>2, TotalIsSum
<1>5. PICK h : Sums(h, e, D) /\ Total(U, a) = h[D]
  BY <1>2, TotalIsSum
<1> HIDE DEF U, C, D, S, g, e
<1>6. k \in C => f[C] = g[k] + f[S]
  <2>1. \A s \in C : g[s] \in Int
    BY <1>1
  <2> QED
    BY <1>2, <1>4, <2>1, TakeOut DEF S
<1>7. h[D] = e[k] + h[S] /\ h[S] \in Int
  BY <1>1, <1>2, <1>3, <1>5, TakeOut
<1>8. h[D] \in Int /\ e[k] \in Int
  BY <1>1, <1>3, <1>7
<1>9. f[S] = h[S]
  <2>1. S \in SUBSET C /\ S \in SUBSET D /\ \A s \in S : g[s] = e[s]
    BY <1>1 DEF S
  <2> QED
    BY <1>2, <1>4, <1>5, <2>1, SumsAgree
<1>10. CASE k \in C
  <2>1. g[k] \in Int /\ g[k] = Effect(T[k], a) /\ e[k] = Effect(r, a)
    BY <1>1, <1>10
  <2>2. f[C] \in Int /\ h[D] = f[C] + e[k] - g[k]
    BY <1>6, <1>7, <1>8, <1>9, <1>10, <2>1
  <2> QED
    BY <1>2, <1>4, <1>5, <1>8, <1>10, <2>1, <2>2 DEF U, C, D
<1>11. CASE k \notin C
  <2>1. C = S
    BY <1>11 DEF S
  <2>2. f[C] \in Int /\ h[D] = f[C] + e[k] /\ e[k] = Effect(r, a)
    BY <1>1, <1>7, <1>8, <1>9, <2>1
  <2> QED
    BY <1>2, <1>4, <1>5, <1>8, <1>11, <2>2 DEF U, C, D
<1> QED
  BY <1>10, <1>11
-----------------------------------------------------------------------------
(* No overdraft *)

\* A row of txcache says what its transaction says.
RowsAreTrue ==
  /\ IsFiniteSet(DOMAIN txcache)
  /\ \A s \in DOMAIN txcache : LET r == txcache[s] IN
       IF s = CoinbaseSig THEN r.from = ZeroAddr /\ r.amount \in Nat
       ELSE s \in Tx /\ r.from = Sender[s] /\ r.to = Receiver[s] /\ r.amount = Amount[s]

\* Accepted or about to be, and not yet counted.
Going == UnderWay \cup (IF pc["rpc"] = "offer" THEN req ELSE {})

\* The transfers of a that still have to be paid, those of a race left out.
Due(a) == {x \in Going \ rivals : Sender[x] = a}

\* None of the two exceptions of NoOverdraft is about a.
Regular(a) == a \notin lost /\ \A x \in rivals \cap DOMAIN txcache : Sender[x] # a

\* A regular address has at most one transfer to pay, and can pay it.
Covered ==
  \A a \in Addr \ {ZeroAddr} : Regular(a) =>
    /\ Balance(a) >= 0
    /\ \A x \in Due(a) : Amount[x] <= Balance(a) /\ \A y \in Due(a) : x = y

FundsInv == CoinInv /\ RowsAreTrue /\ Covered

LEMMA BalanceIsTotal ==
  ASSUME NEW a
  PROVE  Balance(a) = Total(txcache, a) /\ get_balance(a) = Total(txcache, a) % Coin
  BY DEF Balance, Total, get_balance

LEMMA BalanceIsTotalAfter ==
  ASSUME NEW a, NEW T
  PROVE  (txcache = T => Balance(a) = Total(T, a))'
<1>1. txcache = T => Balance(a) = Total(T, a)
  BY BalanceIsTotal
<1> QED
  BY <1>1, PTL

LEMMA AmountsOfRows ==
  ASSUME RowsAreTrue, NEW a, NEW s \in DOMAIN txcache
  PROVE  Effect(txcache[s], a) \in Int
<1>1. txcache[s].amount \in Int
  BY LedgerAssumption DEF RowsAreTrue, LedgerAssumption
<1> QED
  BY <1>1 DEF Effect

LEMMA BalanceIsInt == ASSUME RowsAreTrue, NEW a PROVE Balance(a) \in Int
<1>1. /\ IsFiniteSet(DOMAIN txcache) /\ \A s \in DOMAIN txcache : Effect(txcache[s], a) \in Int
  BY AmountsOfRows DEF RowsAreTrue
<1>2. PICK r : r = [from |-> a, amount |-> 0]
  OBVIOUS
<1>3. Effect(r, a) \in Int
  BY <1>2 DEF Effect
<1>4. Total(txcache, a) \in Int
  BY <1>1, <1>3, TotalAfter
<1> QED
  BY <1>4, BalanceIsTotal

\* The history variables only grow.
LEMMA HistoryGrows ==
  ASSUME [FundsNext]_fundsVars
  PROVE  /\ [Next]_vars /\ rivals \subseteq rivals' /\ lost \subseteq lost'
         /\ UNCHANGED vars \/ Record
  BY DEF FundsNext, fundsVars, Record

LEMMA ReplacedFrame == ASSUME UNCHANGED txcache PROVE \A a : Balance(a)' = Balance(a)
  BY BalanceIsTotal, BalanceIsTotalAfter

LEMMA RegularBefore ==
  ASSUME [FundsNext]_fundsVars, DOMAIN txcache \subseteq DOMAIN txcache'
  PROVE  \A a : Regular(a)' => Regular(a)
  BY HistoryGrows DEF Regular

\* Steps that do not write txcache and accept nothing.
LEMMA CoveredFrame ==
  ASSUME FundsInv, [FundsNext]_fundsVars, UNCHANGED txcache, Going' \subseteq Going
  PROVE  Covered'
<1> SUFFICES ASSUME NEW a \in Addr \ {ZeroAddr}, Regular(a)'
             PROVE  /\ Balance(a)' >= 0
                    /\ \A x \in Due(a)' : Amount[x] <= Balance(a)' /\ \A y \in Due(a)' : x = y
  BY DEF Covered
<1>1. Regular(a) /\ Balance(a)' = Balance(a)
  BY RegularBefore, ReplacedFrame
<1>2. Due(a)' \subseteq Due(a)
  BY HistoryGrows DEF Due
<1> QED
  BY <1>1, <1>2 DEF FundsInv, Covered

\* Where the RPC thread comes from when it is about to offer a transfer.
LEMMA OfferFrom ==
  ASSUME CoinInv, [Next]_vars, ~VerifyTransaction, pc'["rpc"] = "offer"
  PROVE  pc["rpc"] = "offer" /\ req' = req
<1>1. \A l : pc' = [pc EXCEPT !["rpc"] = l] => pc'["rpc"] = l
  BY DEF CoinInv, NodeInv, TypeOK, ThreadsTypeOK, Thread
<1>2. NodeInv
  BY DEF CoinInv
<1>3. CASE Start
  <2>1. BootLoad => pc'["rpc"] = "idle"
    BY <1>1 DEF BootLoad, Goto
  <2> QED
    BY <1>3, <2>1 DEF Start, Boot, BootBlock, BootTx, locals
<1>4. CASE Crash
  BY <1>4 DEF Crash, Fresh, Thread
<1>5. CASE Miner \/ Monitor \/ Spin("miner") \/ UNCHANGED vars
  BY <1>2, <1>5, OthersKeepRequest
<1>6. CASE \E x \in Tx : Send(x)
  BY <1>1, <1>6 DEF Send, Goto
<1>7. CASE Offer
  BY <1>1, <1>7 DEF Offer, Goto
<1>8. CASE \/ DecodePayee \/ StartMining \/ Request \/ RequestMining \/ Spin("rpc")
           \/ QueryDifficulty("rpc") \/ StoreDifficulty("rpc")
  BY <1>1, <1>8 DEF DecodePayee, StartMining, Request, RequestMining, Spin,
     QueryDifficulty, StoreDifficulty, Goto
<1>9. CASE ReadTip("rpc") \/ MakeCoinbase("rpc") \/ PollTx("rpc") \/ EndTemplate("rpc")
  <2>1. ReadTip("rpc") => Goto("rpc", "coinbase")
    BY Zenon DEF ReadTip
  <2> QED
    BY <1>1, <1>9, <2>1 DEF MakeCoinbase, PollTx, EndTemplate, Goto
<1>10. Rpc => \/ DecodePayee \/ StartMining \/ Request \/ RequestMining
              \/ QueryDifficulty("rpc") \/ StoreDifficulty("rpc")
              \/ ReadTip("rpc") \/ MakeCoinbase("rpc") \/ PollTx("rpc") \/ EndTemplate("rpc")
              \/ VerifyTransaction \/ Offer \/ (\E x \in Tx : Send(x))
  BY DEF Rpc, Serve
<1> QED
  BY <1>3, <1>4, <1>5, <1>6, <1>7, <1>8, <1>9, <1>10, SpinIsOfThread DEF Next

LEMMA OfferedFrame ==
  ASSUME CoinInv, [Next]_vars, ~VerifyTransaction, UNCHANGED txcache,
         (Range(pool) \cup Held \cup Mined)' \subseteq Range(pool) \cup Held \cup Mined
  PROVE  Going' \subseteq Going
<1>1. UnderWay' \subseteq UnderWay
  BY DEF UnderWay
<1>2. pc'["rpc"] = "offer" => pc["rpc"] = "offer" /\ req' = req
  BY OfferFrom
<1> QED
  BY <1>1, <1>2 DEF Going

\* Every other step but a row of txcache and a positive verify_transaction.
LEMMA GoingStays ==
  ASSUME CoinInv, [Next]_vars, ~VerifyTransaction, ~BootTx, ~WriteTx
  PROVE  UNCHANGED txcache /\ Going' \subseteq Going
<1>1. UNCHANGED txcache
  BY TablesFrame DEF BootBlock, WriteBlock, InsertBlock
<1> DEFINE Listed == Range(pool) \cup Held \cup Mined
<1>2. CASE ~Moving
  <2>1. Forgets
    BY <1>2, StepForgets DEF CoinInv
  <2>2. Mined' = Mined /\ Held' \subseteq Held /\ Range(pool') \subseteq Range(pool)
    BY <2>1, HeldIs DEF Forgets, Mined, Txs, Thread
  <2> QED
    BY <1>1, <2>2, OfferedFrame
<1>3. CASE BootBlock
  <2>1. UNCHANGED <<pool, blk>> /\ Mined' = Mined
    BY <1>3, BootBlockMoves
  <2> QED
    BY <1>1, <2>1, OfferedFrame DEF Held
<1>4. CASE WriteBlock
  <2>1. UNCHANGED <<pool, blk>> /\ Mined' = Mined \cup Txs("miner")
    BY <1>4, WriteBlockMoves
  <2>2. Held' = Held /\ Txs("miner") \subseteq Held
    BY <2>1, HeldIs DEF Held
  <2> QED
    BY <1>1, <2>1, <2>2, OfferedFrame
<1>5. CASE \E t \in Thread : PollTx(t)
  <2>1. PICK t \in Thread : PollTx(t)
    BY <1>5
  <2>2. PICK x \in Range(pool) :
          /\ blocks' = blocks /\ Range(pool') \subseteq Range(pool)
          /\ Txs(t)' = Txs(t) \cup {x} /\ \A u \in Thread \ {t} : blk'[u] = blk[u]
    BY <2>1, PollMoves
  <2>3. Mined' = Mined /\ Held' \subseteq Held \cup {x}
    BY <2>2, HeldIs DEF Mined, Txs, Thread
  <2> QED
    BY <1>1, <2>2, <2>3, OfferedFrame
<1>6. CASE \E x \in Tx : Send(x)
  <2>1. UNCHANGED <<blocks, pool, blk>>
    BY <1>6 DEF Send, dbVars
  <2> QED
    BY <1>1, <2>1, OfferedFrame DEF Held, Mined
<1>7. CASE Offer
  <2>1. PICK x \in req : pool' = Append(pool, x)
    BY <1>7 DEF Offer
  <2>2. /\ UNCHANGED <<blocks, blk>> /\ pc["rpc"] = "offer" /\ pc'["rpc"] = "idle" /\ req' = {}
    BY <1>7, Locals DEF Offer, dbVars, Goto, CoinInv, Thread
  <2>3. Range(pool') = Range(pool) \cup {x}
    BY <2>1, AppendNew DEF CoinInv, NodeInv, TypeOK, GlobalsTypeOK
  <2>4. Mined' = Mined /\ Held' = Held
    BY <2>2 DEF Mined, Held
  <2> QED
    BY <1>1, <2>1, <2>2, <2>3, <2>4 DEF Going, UnderWay
<1> QED
  BY <1>2, <1>3, <1>4, <1>5, <1>6, <1>7 DEF Moving

LEMMA QuietFunds ==
  ASSUME FundsInv, [FundsNext]_fundsVars, ~VerifyTransaction, ~BootTx, ~WriteTx
  PROVE  RowsAreTrue' /\ Covered'
<1>1. UNCHANGED txcache /\ Going' \subseteq Going
  BY GoingStays, HistoryGrows DEF FundsInv
<1> QED
  BY <1>1, CoveredFrame DEF FundsInv, RowsAreTrue

\* verify_transaction: what it accepts is covered by the balance, and is the
\* only one of its sender or a rival.
LEMMA VerifyFunds ==
  ASSUME FundsInv, [FundsNext]_fundsVars, VerifyTransaction
  PROVE  RowsAreTrue' /\ Covered'
<1>1. PICK x \in req :
        IF get_balance(Sender[x]) < Amount[x]
        THEN Goto("rpc", "idle") /\ req' = {}
        ELSE Goto("rpc", "offer") /\ req' = req
  BY DEF VerifyTransaction
<1>2. /\ UNCHANGED <<blocks, txcache, pool, blk>> /\ pc["rpc"] = "balance"
      /\ req = {x} /\ x \in Tx /\ Sender[x] \in Addr /\ Amount[x] \in Nat
  BY LedgerAssumption DEF VerifyTransaction, dbVars, FundsInv, CoinInv, OneRequest, NodeInv,
     TypeOK, GlobalsTypeOK, LedgerAssumption
<1>3. RowsAreTrue' /\ RowsAreTrue
  BY <1>2 DEF FundsInv, RowsAreTrue
<1>4. UnderWay' = UnderWay /\ Going = UnderWay
  BY <1>2 DEF UnderWay, Going, Held, Mined
<1>5. \A l : Goto("rpc", l) => pc'["rpc"] = l
  BY Locals DEF Goto, Thread, FundsInv, CoinInv
<1>6. CASE get_balance(Sender[x]) < Amount[x]
  <2>1. pc'["rpc"] = "idle"
    BY <1>1, <1>5, <1>6
  <2>2. Going' \subseteq Going
    BY <1>4, <2>1 DEF Going
  <2> QED
    BY <1>2, <1>3, <2>2, CoveredFrame
<1>7. CASE ~(get_balance(Sender[x]) < Amount[x])
  <2>1. pc'["rpc"] = "offer" /\ req' = {x}
    BY <1>1, <1>2, <1>5, <1>7
  <2>2. Record
    BY <1>2, <2>1, HistoryGrows DEF vars, locals
  <2>3. x \notin rivals' => \A y \in UnderWay : Sender[y] # Sender[x]
    BY <1>2, <2>1, <2>2 DEF Record, Accepted
  <2>4. Going' = UnderWay \cup {x}
    BY <1>4, <2>1 DEF Going
  <2>5. SUFFICES ASSUME NEW a \in Addr \ {ZeroAddr}, Regular(a)'
                 PROVE  /\ Balance(a)' >= 0
                        /\ \A y \in Due(a)' : /\ Amount[y] <= Balance(a)'
                                              /\ \A z \in Due(a)' : y = z
    BY <1>3 DEF Covered
  <2>6. Regular(a) /\ Balance(a)' = Balance(a) /\ Balance(a) >= 0 /\ Balance(a) \in Int
    <3>1. Regular(a) /\ Balance(a)' = Balance(a)
      <4>1. UNCHANGED txcache
        BY <1>2
      <4>2. Regular(a)
        BY <2>5, <4>1, RegularBefore
      <4>3. Balance(a)' = Balance(a)
        BY <4>1, ReplacedFrame
      <4> QED
        BY <4>2, <4>3
    <3>2. Balance(a) \in Int
      BY <1>3, BalanceIsInt
    <3> QED
      BY <3>1, <3>2 DEF FundsInv, Covered
  <2>7. CASE x \in Due(a)'
    <3>1. Sender[x] = a /\ x \notin rivals'
      BY <2>7 DEF Due
    <3>2. Due(a)' = {x}
      BY <2>3, <2>4, <2>7, <3>1 DEF Due
    <3>3. get_balance(a) <= Balance(a) /\ get_balance(a) \in Int
      <4>1. get_balance(a) = Balance(a) % Coin
        BY BalanceIsTotal
      <4>2. Balance(a) \in Nat /\ Coin \in Nat \ {0}
        BY <2>6, LedgerAssumption DEF LedgerAssumption
      <4> HIDE DEF get_balance, Balance
      <4> QED
        BY <4>1, <4>2, ModuloAtMost
    <3>4. Amount[x] <= get_balance(a)
      BY <1>2, <1>7, <3>1, <3>3
    <3>5. Amount[x] <= Balance(a)
      BY <1>2, <2>6, <3>3, <3>4
    <3> QED
      BY <2>6, <3>2, <3>5
  <2>8. CASE x \notin Due(a)'
    <3>1. Due(a)' \subseteq Due(a)
      BY <1>4, <2>4, <2>8, HistoryGrows DEF Due
    <3> QED
      BY <2>6, <3>1 DEF FundsInv, Covered
  <2> QED
    BY <2>7, <2>8
<1> QED
  BY <1>6, <1>7

\* A row of txcache written for key k.
LEMMA RowWritten ==
  ASSUME RowsAreTrue, NEW k, NEW r, txcache' = InsertOrReplace(txcache, k, r)
  PROVE  /\ IsFiniteSet(DOMAIN txcache') /\ DOMAIN txcache' = DOMAIN txcache \cup {k}
         /\ txcache'[k] = r
         /\ \A s \in DOMAIN txcache : s # k => txcache'[s] = txcache[s]
  BY FS_AddElement DEF RowsAreTrue, InsertOrReplace

LEMMA BalanceMoves ==
  ASSUME RowsAreTrue, NEW k, NEW r, NEW a,
         txcache' = InsertOrReplace(txcache, k, r), r.amount \in Int
  PROVE  /\ Balance(a) \in Int /\ Balance(a)' \in Int
         /\ k \in DOMAIN txcache =>
              Balance(a)' = Balance(a) + Effect(r, a) - Effect(txcache[k], a)
         /\ k \notin DOMAIN txcache => Balance(a)' = Balance(a) + Effect(r, a)
<1>1. PICK T, U : T = txcache /\ U = txcache'
  OBVIOUS
<1>2. /\ IsFiniteSet(DOMAIN T) /\ \A s \in DOMAIN T : Effect(T[s], a) \in Int
  BY <1>1, AmountsOfRows DEF RowsAreTrue
<1>3. Effect(r, a) \in Int
  BY DEF Effect
<1>4. U = InsertOrReplace(T, k, r)
  BY <1>1
<1>5. Balance(a) = Total(T, a)
  BY <1>1, BalanceIsTotal
<1>6. Balance(a)' = Total(U, a)
  BY <1>1, BalanceIsTotalAfter
<1>7. /\ Total(T, a) \in Int /\ Total(U, a) \in Int
      /\ k \in DOMAIN T => Total(U, a) = Total(T, a) + Effect(r, a) - Effect(T[k], a)
      /\ k \notin DOMAIN T => Total(U, a) = Total(T, a) + Effect(r, a)
  BY <1>2, <1>3, <1>4, TotalAfter
<1> QED
  BY <1>1, <1>5, <1>6, <1>7

\* The coinbase's row: an address whose coinbase it replaces is lost.
LEMMA CoinbaseFunds ==
  ASSUME FundsInv, [FundsNext]_fundsVars, NEW r, r.from = ZeroAddr, r.amount \in Nat,
         txcache' = InsertOrReplace(txcache, CoinbaseSig, r),
         UNCHANGED <<blocks, pool, blk, pc, req>>
  PROVE  RowsAreTrue' /\ Covered'
<1>1. RowsAreTrue /\ r.amount \in Int
  BY DEF FundsInv
<1>2. /\ IsFiniteSet(DOMAIN txcache') /\ DOMAIN txcache' = DOMAIN txcache \cup {CoinbaseSig}
      /\ txcache'[CoinbaseSig] = r
      /\ \A s \in DOMAIN txcache : s # CoinbaseSig => txcache'[s] = txcache[s]
  BY <1>1, RowWritten
<1>3. RowsAreTrue'
  BY <1>1, <1>2 DEF RowsAreTrue
<1>4. Going' \subseteq Going
  BY <1>2 DEF Going, UnderWay, Held, Mined
<1>5. CoinbaseSig \in DOMAIN txcache =>
        txcache[CoinbaseSig] = r \/ txcache[CoinbaseSig].to \in lost'
  <2>1. UNCHANGED vars => txcache' = txcache
    BY DEF vars, dbVars
  <2> QED
    BY <1>2, <2>1, HistoryGrows DEF Record, Replaced
<1>6. SUFFICES ASSUME NEW a \in Addr \ {ZeroAddr}, Regular(a)'
               PROVE  /\ Balance(a)' >= 0
                      /\ \A x \in Due(a)' : /\ Amount[x] <= Balance(a)'
                                            /\ \A y \in Due(a)' : x = y
  BY <1>3 DEF Covered
<1>7. Regular(a) /\ a \notin lost'
  <2>1. DOMAIN txcache \subseteq DOMAIN txcache'
    BY <1>2
  <2>2. Regular(a)
    BY <1>6, <2>1, RegularBefore
  <2> QED
    BY <1>6, <2>2 DEF Regular
<1>8. Due(a)' \subseteq Due(a)
  BY <1>4, HistoryGrows DEF Due
<1>9. Balance(a) \in Int /\ Balance(a)' \in Int /\ Balance(a)' >= Balance(a)
  <2>1. Effect(r, a) \in Nat
    BY DEF Effect
  <2>2. CoinbaseSig \in DOMAIN txcache =>
          Effect(txcache[CoinbaseSig], a) = 0 \/ Effect(txcache[CoinbaseSig], a) = Effect(r, a)
    BY <1>1, <1>5, <1>7 DEF RowsAreTrue, Effect
  <2>3. /\ Balance(a) \in Int /\ Balance(a)' \in Int
        /\ CoinbaseSig \in DOMAIN txcache =>
             Balance(a)' = Balance(a) + Effect(r, a) - Effect(txcache[CoinbaseSig], a)
        /\ CoinbaseSig \notin DOMAIN txcache => Balance(a)' = Balance(a) + Effect(r, a)
    BY <1>1, BalanceMoves
  <2> QED
    BY <2>1, <2>2, <2>3
<1>10. Balance(a) >= 0 /\ \A x \in Due(a) : Amount[x] <= Balance(a) /\ \A y \in Due(a) : x = y
  BY <1>7 DEF FundsInv, Covered
<1>11. \A x \in Due(a) : Amount[x] \in Int
  BY LedgerAssumption DEF LedgerAssumption, Due, Going, UnderWay, FundsInv, CoinInv, OnlySent,
     NodeInv, TypeOK, GlobalsTypeOK
<1> QED
  BY <1>8, <1>9, <1>10, <1>11

\* The row of a transfer the miner holds: the one its sender had to pay.
LEMMA TransferFunds ==
  ASSUME FundsInv, [FundsNext]_fundsVars, NEW y \in Tx, y \in Held, NEW r,
         r.from = Sender[y], r.to = Receiver[y], r.amount = Amount[y],
         txcache' = InsertOrReplace(txcache, y, r),
         UNCHANGED <<blocks, pool, blk, pc, req>>
  PROVE  RowsAreTrue' /\ Covered'
<1>1. RowsAreTrue /\ r.amount \in Nat /\ y # CoinbaseSig
  BY LedgerAssumption DEF FundsInv, LedgerAssumption
<1>2. /\ IsFiniteSet(DOMAIN txcache') /\ DOMAIN txcache' = DOMAIN txcache \cup {y}
      /\ txcache'[y] = r
      /\ \A s \in DOMAIN txcache : s # y => txcache'[s] = txcache[s]
  BY <1>1, RowWritten
<1>3. RowsAreTrue'
  BY <1>1, <1>2 DEF RowsAreTrue
<1>4. Going' = Going \ {y}
  <2>1. y \notin req
    BY DEF FundsInv, CoinInv, OnePlace
  <2> QED
    BY <1>2, <2>1 DEF Going, UnderWay, Held, Mined
<1>5. SUFFICES ASSUME NEW a \in Addr \ {ZeroAddr}, Regular(a)'
               PROVE  /\ Balance(a)' >= 0
                      /\ \A x \in Due(a)' : /\ Amount[x] <= Balance(a)'
                                            /\ \A z \in Due(a)' : x = z
  BY <1>3 DEF Covered
<1>6. Regular(a) /\ (Sender[y] = a => y \notin rivals')
  <2>1. DOMAIN txcache \subseteq DOMAIN txcache' /\ y \in DOMAIN txcache'
    BY <1>2
  <2>2. Regular(a)
    BY <1>5, <2>1, RegularBefore
  <2> QED
    BY <1>5, <2>1, <2>2 DEF Regular
<1>7. Due(a)' \subseteq Due(a) \ {y}
  BY <1>4, HistoryGrows DEF Due
<1>8. Balance(a) >= 0 /\ \A x \in Due(a) : Amount[x] <= Balance(a) /\ \A z \in Due(a) : x = z
  BY <1>6 DEF FundsInv, Covered
<1>9. \A x \in Due(a) : Amount[x] \in Int
  BY LedgerAssumption DEF LedgerAssumption, Due, Going, UnderWay, FundsInv, CoinInv, OnlySent,
     NodeInv, TypeOK, GlobalsTypeOK
<1>10. /\ Balance(a) \in Int /\ Balance(a)' \in Int
       /\ y \in DOMAIN txcache => Balance(a)' = Balance(a) + Effect(r, a) - Effect(txcache[y], a)
       /\ y \notin DOMAIN txcache => Balance(a)' = Balance(a) + Effect(r, a)
  <2>1. r.amount \in Int
    BY <1>1
  <2> QED
    BY <1>1, <2>1, BalanceMoves
<1>11. CASE y \in DOMAIN txcache
  <2>1. Effect(txcache[y], a) = Effect(r, a) /\ Effect(r, a) \in Int
    BY <1>1, <1>11 DEF RowsAreTrue, Effect
  <2>2. Balance(a)' = Balance(a)
    BY <1>10, <1>11, <2>1
  <2> QED
    BY <1>7, <1>8, <2>2
<1>12. CASE y \notin DOMAIN txcache /\ Sender[y] # a
  <2>1. Effect(r, a) \in Nat
    BY <1>1, <1>12 DEF Effect
  <2>2. Balance(a)' >= Balance(a)
    BY <1>10, <1>12, <2>1
  <2> QED
    BY <1>7, <1>8, <1>9, <1>10, <2>2
<1>13. CASE y \notin DOMAIN txcache /\ Sender[y] = a
  <2>1. y \in Due(a)
    BY <1>6, <1>13, HistoryGrows DEF Due, Going, UnderWay
  <2>2. Due(a)' = {}
    BY <1>7, <1>8, <2>1
  <2>3. Effect(r, a) = -Amount[y] /\ Amount[y] \in Nat /\ Amount[y] <= Balance(a)
    BY <1>1, <1>8, <1>13, <2>1 DEF Effect
  <2>4. Balance(a)' >= 0
    BY <1>10, <1>13, <2>3
  <2> QED
    BY <2>2, <2>4
<1> QED
  BY <1>11, <1>12, <1>13

LEMMA RewardIsANumber ==
  ASSUME \A k \in Nat : 2^k \in Nat \ {0}, CoinInv
  PROVE  Reward \subseteq Nat
<1>1. \A i \in Ids : i + 1 \in Nat
  BY DEF CoinInv, NodeInv, TypeOK, DbTypeOK, Ids
<1>2. \A i \in Ids : CalcReward(i + 1) \in Nat
  BY <1>1, RewardIsNat
<1> QED
  BY <1>2, LedgerAssumption DEF Reward, LedgerAssumption

LEMMA WriteTxFunds ==
  ASSUME \A k \in Nat : 2^k \in Nat \ {0}, FundsInv, [FundsNext]_fundsVars, WriteTx
  PROVE  RowsAreTrue' /\ Covered'
<1>1. /\ InsertTx(id, blk["miner"], row) /\ UNCHANGED <<blocks, pool, blk, pc, req>>
      /\ row < blk["miner"].num_tx
  BY DEF WriteTx, InsertTx, locals
<1>2. /\ blk["miner"] \in Block /\ blk["miner"].num_tx <= 1 + Len(blk["miner"].txs)
      /\ row \in Nat /\ blk["miner"].num_tx \in Nat
  BY MinerIsThread, Locals, LedgerAssumption
  DEF FundsInv, CoinInv, NodeInv, TypeOK, GlobalsTypeOK, Block, LedgerAssumption
<1>3. CASE row = 0
  <2>1. PICK r : r = [blockid |-> id, from |-> ZeroAddr, to |-> blk["miner"].payee,
                      amount |-> blk["miner"].reward]
    OBVIOUS
  <2>2. txcache' = InsertOrReplace(txcache, CoinbaseSig, r)
    BY <1>1, <1>3, <2>1 DEF InsertTx
  <2>3. r.from = ZeroAddr /\ r.amount \in Nat
    BY <1>2, <2>1, RewardIsANumber DEF FundsInv, CoinInv, Block
  <2> QED
    BY <1>1, <2>2, <2>3, CoinbaseFunds
<1>4. CASE row # 0
  <2>1. PICK y, r : /\ y = blk["miner"].txs[row]
                    /\ r = [blockid |-> id, from |-> Sender[y], to |-> Receiver[y],
                            amount |-> Amount[y]]
    OBVIOUS
  <2>2. y \in Tx /\ y \in Txs("miner")
    BY <1>1, <1>2, <1>4, <2>1 DEF Block, Txs, Range
  <2>3. y \in Held
    BY <2>2, HeldIs
  <2>4. txcache' = InsertOrReplace(txcache, y, r)
    BY <1>1, <1>4, <2>1 DEF InsertTx
  <2>5. r.from = Sender[y] /\ r.to = Receiver[y] /\ r.amount = Amount[y]
    BY <2>1
  <2> QED
    BY <1>1, <2>2, <2>3, <2>4, <2>5, TransferFunds
<1> QED
  BY <1>3, <1>4

LEMMA BootTxFunds ==
  ASSUME FundsInv, [FundsNext]_fundsVars, BootTx
  PROVE  RowsAreTrue' /\ Covered'
<1>1. InsertTx(0, genesis_block, 0) /\ UNCHANGED <<blocks, pool, blk, pc, req>>
  BY DEF BootTx, InsertTx, locals
<1>2. PICK r : r = [blockid |-> 0, from |-> ZeroAddr, to |-> genesis_block.payee,
                    amount |-> genesis_block.reward]
  OBVIOUS
<1>3. txcache' = InsertOrReplace(txcache, CoinbaseSig, r)
  BY <1>1, <1>2 DEF InsertTx
<1>4. r.from = ZeroAddr /\ r.amount \in Nat
  BY <1>2, LedgerAssumption DEF genesis_block, LedgerAssumption
<1> QED
  BY <1>1, <1>3, <1>4, CoinbaseFunds

\* No address spends more than it has, but for the two exceptions.
THEOREM NobodyOverdraws ==
  ASSUME \A k \in Nat : 2^k \in Nat \ {0}
  PROVE  FundsSpec => []NoOverdraft
<1>1. FundsInit => FundsInv
  <2> SUFFICES ASSUME FundsInit PROVE FundsInv
    OBVIOUS
  <2>1. Init /\ DOMAIN txcache = {} /\ blocks = <<>> /\ pool = <<>> /\ req = {}
        /\ \A t \in Thread : blk[t].txs = <<>>
    BY DEF FundsInit, Init, DbInit, Fresh, NoBlock
  <2>2. CoinInv
    BY <2>1, CoinInit
  <2>3. RowsAreTrue
    BY <2>1, FS_EmptySet DEF RowsAreTrue
  <2>4. Going = {}
    BY <2>1, NothingListed DEF Going, UnderWay, Held, Mined, Thread
  <2>5. \A a : Balance(a) = 0
    <3> TAKE a
    <3>1. PICK T : T = txcache
      OBVIOUS
    <3>2. PICK f : Sums(f, Effects(T, a), DOMAIN T) /\ Total(T, a) = f[DOMAIN T]
      BY <2>1, <3>1, FS_EmptySet, TotalIsSum
    <3>3. f[DOMAIN T] = 0
      BY <2>1, <3>1, <3>2, SumsAt
    <3> QED
      BY <3>1, <3>2, <3>3, BalanceIsTotal
  <2>6. Covered
    BY <2>4, <2>5 DEF Covered, Due
  <2> QED
    BY <2>2, <2>3, <2>6 DEF FundsInv
<1>2. FundsInv /\ [FundsNext]_fundsVars => FundsInv'
  <2> SUFFICES ASSUME FundsInv, [FundsNext]_fundsVars PROVE FundsInv'
    OBVIOUS
  <2>1. CoinInv'
    BY CoinStep, HistoryGrows DEF FundsInv
  <2>2. RowsAreTrue' /\ Covered'
    BY QuietFunds, VerifyFunds, WriteTxFunds, BootTxFunds
  <2> QED
    BY <2>1, <2>2 DEF FundsInv
<1>3. FundsInv => NoOverdraft
  <2>1. ASSUME FundsInv, NEW a \in Addr \ {ZeroAddr}, Balance(a) < 0
        PROVE  a \in lost \/ \E x \in rivals \cap DOMAIN txcache : Sender[x] = a
    <3>1. Balance(a) \in Int /\ (Regular(a) => Balance(a) >= 0)
      BY <2>1, BalanceIsInt DEF FundsInv, Covered
    <3>2. ~Regular(a)
      BY <2>1, <3>1
    <3> QED
      BY <3>2 DEF Regular
  <2> QED
    BY <2>1 DEF NoOverdraft
<1> QED
  BY <1>1, <1>2, <1>3, PTL DEF FundsSpec
=============================================================================
