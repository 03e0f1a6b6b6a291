------------------------------ MODULE Startup ------------------------------
(***************************************************************************)
(* The start of the process, before module Node begins: finding or         *)
(* creating the database file, creating its four tables one statement at a *)
(* time, writing genesis, and the RPC thread that is started before the    *)
(* transaction pool exists.  The process may be killed between any two     *)
(* steps and is then started again on whatever it left behind.             *)
(***************************************************************************)
EXTENDS Integers, Sequences

CONSTANT MaxDeaths    \* bound: deaths in a behaviour

ASSUME StartupAssumption == MaxDeaths \in Nat

VARIABLES
  dir,     \* the data directory exists
  custom,  \* it was named by --datadir, so mkdir() makes another one
  file,    \* blockchain.db exists
  made,    \* how many of Tables exist, in the order they are created
  index,   \* index idx_blockhash exists
  main,    \* where the main thread is
  todo,    \* the table setup_blockchain creates next
  pool,    \* transaction_pool is not NULL
  rpc,     \* the RPC thread runs
  served,  \* it has answered a /status since the process started
  death,   \* how the process last ended, and where main was then
  deaths

disk == <<dir, custom, file, made, index>>
memory == <<main, todo, pool, rpc, served>>
vars == <<disk, memory, death, deaths>>

Tables == <<"blocks", "balances", "txcache", "misc">>
Complete == Len(Tables)
Has(table) == \E i \in 1 .. made : Tables[i] = table

\* The end of the process: by a signal from outside, by abort(), or by the
\* use of a NULL pool.
Die(cause) ==
  /\ main # "down" /\ deaths < MaxDeaths
  /\ death' = [cause |-> cause, at |-> main] /\ deaths' = deaths + 1
  /\ main' = "down" /\ todo' = 1
  /\ pool' = FALSE /\ rpc' = FALSE /\ served' = FALSE
  /\ UNCHANGED disk

At(place) == main = place
Then(place) == main' = place /\ UNCHANGED <<death, deaths>>
-----------------------------------------------------------------------------
\* main() calls mkdir() for the default directory, whatever --datadir says;
\* the parent of the default directory is taken to exist.
Mkdir ==
  /\ At("down") /\ Then("open")
  /\ dir' = (dir \/ ~custom)
  /\ UNCHANGED <<custom, file, made, index, todo, pool, rpc, served>>

\* Mutant: an unfinished set-up is taken up again.
Open_Resume ==
  /\ At("open") /\ dir
  /\ file' = TRUE /\ todo' = made + 1
  /\ Then(IF made < Complete THEN "setup" ELSE "block")
  /\ UNCHANGED <<dir, custom, made, index, pool, rpc, served>>

\* sqlite3_open_v2, first without and then with SQLITE_OPEN_CREATE:
\* first_time is a matter of the file alone, not of what is in it.
Open ==
  /\ At("open") /\ dir
  /\ file' = TRUE
  /\ Then(IF file THEN "block" ELSE "setup")
  /\ UNCHANGED <<dir, custom, made, index, todo, pool, rpc, served>>

OpenFails == At("open") /\ ~dir /\ Die("fatal")

CreateTable ==
  /\ At("setup")
  /\ made' = made + 1 /\ todo' = todo + 1
  /\ Then(IF todo = Complete THEN "block" ELSE "setup")
  /\ UNCHANGED <<dir, custom, file, index, pool, rpc, served>>

\* Mutant: an index that is already there is an error.
WriteBlock_Strict ==
  /\ At("block") /\ Has("blocks") /\ ~index
  /\ index' = TRUE
  /\ Then("tx")
  /\ UNCHANGED <<dir, custom, file, made, todo, pool, rpc, served>>

\* write_block of genesis: creating the index again fails, which is ignored.
WriteBlock ==
  /\ At("block") /\ Has("blocks")
  /\ index' = TRUE
  /\ Then("tx")
  /\ UNCHANGED <<dir, custom, file, made, todo, pool, rpc, served>>

WriteTx ==
  /\ At("tx") /\ Has("txcache")
  /\ Then("load")
  /\ UNCHANGED <<disk, todo, pool, rpc, served>>

WriteFails ==
  /\ \/ At("block") /\ ~Has("blocks")
     \/ At("tx") /\ ~Has("txcache")
  /\ Die("fatal")

\* The rest of init_blockchain: get_blockchain_difficulty ignores that
\* table misc may be missing.
Load ==
  /\ At("load") /\ Then("thread")
  /\ UNCHANGED <<disk, todo, pool, rpc, served>>

StartRpc ==
  /\ At("thread") /\ rpc' = TRUE
  /\ Then("pool")
  /\ UNCHANGED <<disk, todo, pool, served>>

\* Mutant: txpool_init is forgotten.
MakePool_Skip ==
  /\ At("pool")
  /\ Then("up")
  /\ UNCHANGED <<disk, todo, pool, rpc, served>>

MakePool ==
  /\ At("pool") /\ pool' = TRUE
  /\ Then("up")
  /\ UNCHANGED <<disk, todo, rpc, served>>
-----------------------------------------------------------------------------
\* /getblocktemplate or /wallet/tx: llqueue_poll or _offer on the pool.
UsePool ==
  /\ rpc
  /\ IF pool THEN UNCHANGED vars ELSE Die("null")

\* /status, or a round of the miner: update_blockchain_difficulty is fatal
\* without table misc.
Status ==
  /\ rpc
  /\ IF Has("misc")
     THEN served' = TRUE /\ UNCHANGED <<disk, main, todo, pool, rpc, death, deaths>>
     ELSE Die("fatal")

Killed == Die("killed")
-----------------------------------------------------------------------------
\* A machine on which the node never ran.
Init ==
  /\ dir \in BOOLEAN /\ custom \in BOOLEAN
  /\ file = FALSE /\ made = 0 /\ index = FALSE
  /\ main = "down" /\ todo = 1 /\ pool = FALSE /\ rpc = FALSE /\ served = FALSE
  /\ death = [cause |-> "none", at |-> "down"] /\ deaths = 0

Main == Mkdir \/ Open \/ OpenFails \/ CreateTable \/ WriteBlock \/ WriteTx \/ WriteFails
          \/ Load \/ StartRpc \/ MakePool

Next == Main \/ UsePool \/ Status \/ Killed

Spec == Init /\ [][Next]_vars

\* The main thread waits for nothing until it is up.
FairSpec == Spec /\ WF_vars(Main)
-----------------------------------------------------------------------------
Place == {"down", "open", "setup", "block", "tx", "load", "thread", "pool", "up"}

Death == [cause : {"none", "killed", "fatal", "null"}, at : Place]

TypeOK ==
  /\ dir \in BOOLEAN /\ custom \in BOOLEAN /\ file \in BOOLEAN /\ index \in BOOLEAN
  /\ made \in 0 .. Complete /\ todo \in 1 .. Complete + 1
  /\ main \in Place /\ pool \in BOOLEAN /\ rpc \in BOOLEAN /\ served \in BOOLEAN
  /\ death \in Death
  /\ deaths \in Nat

\* The process ends itself only for a reason that lies outside this run of
\* it: there is no data directory, or an earlier run was killed in the
\* middle of setup_blockchain.  No start damages a good database.
FatalOnlyIfBroken == death.cause = "fatal" => made < Complete \/ ~dir

\* When the node is ready no request meets a NULL pool; while it starts one
\* can, for the RPC thread runs first.
NullPoolOnlyBeforeReady == death.cause = "null" => death.at = "pool"

\* A process that ends by itself does so for one of these two reasons.
DeathsExplained == FatalOnlyIfBroken /\ NullPoolOnlyBeforeReady

\* A request that needs the difficulty row is never answered from a database
\* that lacks its table.
AnsweredOnlyIfComplete == served => made = Complete

\* What an interrupted set-up leaves is final: no restart creates the
\* missing tables, as the file by itself makes the database count as there.
HalfBuiltStaysHalfBuilt ==
  [](main = "down" /\ file /\ made < Complete => [](made < Complete))

\* On a complete database every start ends ready, unless it is killed.
StartsServing == main = "open" /\ made = Complete ~> main \in {"up", "down"}
=============================================================================
