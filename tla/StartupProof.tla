---------------------------- MODULE StartupProof ----------------------------
(***************************************************************************)
(* What start-up promises, for any number of deaths.                       *)
(***************************************************************************)
EXTENDS Startup, TLAPS

\* The two lasting reasons for which the process ends itself.
Broken == (file /\ made < Complete) \/ (custom /\ ~dir)

Past == {"block", "tx", "load", "thread", "pool", "up"}

\* Which tables exist, and what a death for lack of one implies for good.
StartupInv ==
  /\ TypeOK
  /\ made > 0 \/ main \in Past => file
  /\ main = "setup" => file /\ todo = made + 1 /\ made < Complete /\ death.cause # "fatal"
  /\ main = "open" => dir \/ custom
  /\ main # "setup" => todo = 1 \/ main \in Past
  /\ rpc => main \in {"pool", "up"}
  /\ pool <=> main = "up"
  /\ served => made = Complete
  /\ death.cause = "fatal" => Broken
  /\ NullPoolOnlyBeforeReady

\* setup_blockchain creates four tables, misc last and txcache before it.
LEMMA FourTables == Complete = 4
  BY DEF Complete, Tables

\* Which tables a count of created tables stands for.
LEMMA TableOrder ==
  ASSUME TypeOK
  PROVE  /\ ~Has("blocks") \/ ~Has("txcache") => made < Complete
         /\ Has("misc") <=> made = Complete
<1>1. made \in 0 .. 4
  BY FourTables DEF TypeOK
<1>2. /\ Tables[1] = "blocks" /\ Tables[2] = "balances"
      /\ Tables[3] = "txcache" /\ Tables[4] = "misc"
  BY DEF Tables
<1>3. made = 4 => 1 \in 1 .. made /\ 3 \in 1 .. made /\ 4 \in 1 .. made
  OBVIOUS
<1>4. \A i \in 1 .. made : Tables[i] = "misc" => made = 4
  <2> TAKE i \in 1 .. made
  <2>1. i \in {1, 2, 3, 4}
    BY <1>1
  <2>2. QED BY <1>1, <1>2, <2>1
<1>5. QED
  BY <1>1, <1>2, <1>3, <1>4, FourTables DEF Has

\* The initial states: nothing exists and nothing runs.
LEMMA StartupInit == Init => StartupInv
<1> SUFFICES ASSUME Init PROVE StartupInv
  OBVIOUS
<1>1. death \in Death
  BY DEF Init, Place, Death
<1>2. TypeOK
  <2>1. /\ dir \in BOOLEAN /\ custom \in BOOLEAN /\ file \in BOOLEAN /\ index \in BOOLEAN
        /\ pool \in BOOLEAN /\ rpc \in BOOLEAN /\ served \in BOOLEAN
    BY DEF Init
  <2>2. made \in 0 .. Complete /\ todo \in 1 .. Complete + 1 /\ main \in Place /\ deaths \in Nat
    BY FourTables DEF Init, Place
  <2>3. QED BY <1>1, <2>1, <2>2 DEF TypeOK
<1>3. QED
  BY <1>2, FourTables DEF Init, StartupInv, Past, Broken, NullPoolOnlyBeforeReady

\* A death leaves the disk as it is, so it only has to justify its cause.
LEMMA DieStep ==
  ASSUME StartupInv, NEW cause \in {"killed", "fatal", "null"}, Die(cause),
         cause = "fatal" => Broken,
         cause = "null" => main = "pool"
  PROVE  StartupInv'
<1>1. death' \in Death
  BY DEF Die, StartupInv, TypeOK, Death
<1>2. death'.cause = cause /\ death'.at = main
  BY DEF Die
<1>3. TypeOK'
  <2>1. /\ dir' \in BOOLEAN /\ custom' \in BOOLEAN /\ file' \in BOOLEAN /\ index' \in BOOLEAN
        /\ pool' \in BOOLEAN /\ rpc' \in BOOLEAN /\ served' \in BOOLEAN
    BY DEF StartupInv, TypeOK, Die, disk
  <2>2. made' \in 0 .. Complete /\ todo' \in 1 .. Complete + 1 /\ main' \in Place /\ deaths' \in Nat
    BY FourTables DEF StartupInv, TypeOK, Die, disk, Place
  <2>3. QED BY <1>1, <2>1, <2>2 DEF TypeOK
<1>4. QED
  BY <1>2, <1>3 DEF StartupInv, Broken, Die, disk, Past, NullPoolOnlyBeforeReady, TypeOK

\* The main thread's steps.
LEMMA MainStep ==
  ASSUME StartupInv, Main
  PROVE  StartupInv'
<1> USE DEF At, Then, disk
<1>1. CASE Mkdir
  BY <1>1, FourTables DEF Mkdir, StartupInv, TypeOK, Place, Past, Broken, NullPoolOnlyBeforeReady
<1>2. CASE Open
  BY <1>2, FourTables DEF Open, StartupInv, TypeOK, Place, Past, Broken, NullPoolOnlyBeforeReady
<1>3. CASE OpenFails
  BY <1>3, DieStep DEF OpenFails, StartupInv, Broken
<1>4. CASE CreateTable
  BY <1>4, FourTables DEF CreateTable, StartupInv, TypeOK, Place, Past, Broken, NullPoolOnlyBeforeReady
<1>5. CASE WriteBlock
  BY <1>5, FourTables DEF WriteBlock, StartupInv, TypeOK, Place, Past, Broken, NullPoolOnlyBeforeReady
<1>6. CASE WriteTx
  BY <1>6, FourTables DEF WriteTx, StartupInv, TypeOK, Place, Past, Broken, NullPoolOnlyBeforeReady
<1>7. CASE WriteFails
  <2>1. made < Complete
    BY <1>7, TableOrder DEF WriteFails, StartupInv
  <2>2. file
    BY <1>7, FourTables DEF WriteFails, StartupInv, Past
  <2>3. Broken
    BY <2>1, <2>2, Zenon DEF Broken
  <2>4. Die("fatal")
    BY <1>7 DEF WriteFails
  <2>5. QED BY <2>3, <2>4, DieStep
<1>8. CASE Load
  BY <1>8, FourTables DEF Load, StartupInv, TypeOK, Place, Past, Broken, NullPoolOnlyBeforeReady
<1>9. CASE StartRpc
  BY <1>9, FourTables DEF StartRpc, StartupInv, TypeOK, Place, Past, Broken, NullPoolOnlyBeforeReady
<1>10. CASE MakePool
  BY <1>10, FourTables DEF MakePool, StartupInv, TypeOK, Place, Past, Broken, NullPoolOnlyBeforeReady
<1>11. QED
  BY <1>1, <1>2, <1>3, <1>4, <1>5, <1>6, <1>7, <1>8, <1>9, <1>10 DEF Main

\* Every step.
LEMMA StartupNext == StartupInv /\ [Next]_vars => StartupInv'
<1> SUFFICES ASSUME StartupInv, [Next]_vars PROVE StartupInv'
  OBVIOUS
<1>1. CASE UNCHANGED vars
  <2>1. TypeOK'
    BY <1>1 DEF vars, disk, memory, StartupInv, TypeOK
  <2>2. QED
    BY <1>1, <2>1 DEF vars, disk, memory, StartupInv, Broken, NullPoolOnlyBeforeReady
<1>2. CASE Main
  BY <1>2, MainStep
<1>3. CASE UsePool
  BY <1>1, <1>3, DieStep DEF UsePool, StartupInv
<1>4. CASE Status
  <2>1. CASE Has("misc")
    <3>1. made = Complete
      BY <2>1, TableOrder DEF StartupInv
    <3>2. QED
      BY <1>4, <2>1, <3>1 DEF Status, disk, StartupInv, TypeOK, Place, Past, Broken,
                              NullPoolOnlyBeforeReady
  <2>2. CASE ~Has("misc")
    <3>1. made < Complete
      BY <2>2, TableOrder, FourTables DEF StartupInv, TypeOK
    <3>2. file
      BY <1>4, FourTables DEF Status, StartupInv, Past
    <3>3. Broken
      BY <3>1, <3>2, Zenon DEF Broken
    <3>4. Die("fatal")
      BY <1>4, <2>2 DEF Status
    <3>5. QED BY <3>3, <3>4, DieStep
  <2>3. QED BY <2>1, <2>2
<1>5. CASE Killed
  BY <1>5, DieStep DEF Killed
<1>6. QED
  BY <1>1, <1>2, <1>3, <1>4, <1>5 DEF Next

\* The strengthened invariant holds in every reachable state.
THEOREM StartupCorrect == Spec => []StartupInv
  BY StartupInit, StartupNext, PTL DEF Spec

\* The process ends itself only on a database an earlier run left half
\* built, or without a data directory; a NULL pool is met only by a request
\* that comes before txpool_init; and no /status is answered from a database
\* without its difficulty table.
THEOREM StartupSafe ==
  Spec => [](TypeOK /\ DeathsExplained /\ AnsweredOnlyIfComplete)
<1>1. StartupInv => TypeOK /\ DeathsExplained /\ AnsweredOnlyIfComplete
  BY DEF StartupInv, Broken, DeathsExplained, FatalOnlyIfBroken, AnsweredOnlyIfComplete
<1>2. QED BY <1>1, StartupCorrect, PTL

\* The file exists, tables are missing and nobody is creating them.
Stuck == file /\ made < Complete /\ main # "setup"

\* No restart ever completes a database whose set-up was interrupted.
THEOREM NoRepair == Spec => HalfBuiltStaysHalfBuilt
<1>1. Stuck /\ [Next]_vars => Stuck'
  BY FourTables DEF Stuck, Next, vars, disk, memory, Main, At, Then, Die, Mkdir, Open,
         OpenFails, CreateTable, WriteBlock, WriteTx, WriteFails, Load, StartRpc, MakePool,
         UsePool, Status, Killed
<1>2. main = "down" /\ file /\ made < Complete => Stuck
  BY DEF Stuck
<1>3. Stuck => made < Complete
  BY DEF Stuck
<1>4. QED
  BY <1>1, <1>2, <1>3, PTL DEF Spec, HalfBuiltStaysHalfBuilt
=============================================================================
