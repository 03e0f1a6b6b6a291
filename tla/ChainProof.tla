----------------------------- MODULE ChainProof -----------------------------
(***************************************************************************)
(* Two parts of chain.c that the node's own steps do not show: the lock of *)
(* read_block, for any number of threads and rows, and the thread that     *)
(* deletes alternate chains, for any ages, clock and number of chains.     *)
(***************************************************************************)
EXTENDS MCChain, TLAPS

Place == {"idle", "test", "spin"} \cup Lock!Inside

\* SQLite admits one thread, and what it decodes stays until it is copied.
OneInSqlite ==
  /\ \A t \in Reader : t \in mutex <=> pc[t] \in {"decode", "inflate"}
  /\ \A t, u \in mutex : t = u
  /\ \A t \in Reader : pc[t] = "inflate" => compbuf = want[t]

LockInv == Lock!TypeOK /\ OneInSqlite /\ Lock!ReadsOwnRow /\ Lock!SetMeansInside /\ Lock!OneIsLeft

\* Nobody has called read_block yet.
LEMMA LockInit == Lock!Init => LockInv
  BY ChainAssumption
     DEF Lock!Init, LockInv, Lock!TypeOK, OneInSqlite, Lock!ReadsOwnRow,
        Lock!SetMeansInside,
         Lock!OneIsLeft, Lock!Inside, Lock!ReadLockAssumption

\* The types, step by step.
LEMMA LockTypes == ASSUME Lock!TypeOK, [Lock!Next]_(Lock!vars) PROVE Lock!TypeOK'
<1>1. CASE UNCHANGED Lock!vars
  BY <1>1 DEF Lock!TypeOK, Lock!vars
<1>2. CASE \E t \in Reader : Lock!Call(t)
  BY <1>2 DEF Lock!TypeOK, Lock!Call, Lock!Goto
<1>3. CASE \E t \in Reader : Lock!Test(t) \/ Lock!Set(t) \/ Lock!Unlock(t)
  BY <1>3 DEF Lock!TypeOK, Lock!Test, Lock!Set, Lock!Unlock, Lock!Goto, Lock!Inside
<1>4. CASE \E t \in Reader : Lock!Exec(t) \/ Lock!Decode(t) \/ Lock!Inflate(t)
  BY <1>4 DEF Lock!TypeOK, Lock!Exec, Lock!Decode, Lock!Inflate, Lock!Goto, Lock!Inside
<1>5. QED
  BY <1>1, <1>2, <1>3, <1>4 DEF Lock!Next, Lock!Read

\* Where one thread goes, the others stay.
LEMMA OthersStay ==
  ASSUME Lock!TypeOK, NEW t \in Reader, NEW label, Lock!Goto(t, label)
  PROVE  pc'[t] = label /\ \A u \in Reader \ {t} : pc'[u] = pc[u]
  BY DEF Lock!TypeOK, Lock!Goto

\* One step of the thread t.
LEMMA LockStep ==
  ASSUME LockInv, NEW t \in Reader, Lock!Call(t) \/ Lock!Read(t), Lock!TypeOK'
  PROVE  LockInv'
<1> USE DEF LockInv
<1>1. CASE Lock!Call(t)
  <2>1. pc'[t] = "test" /\ \A u \in Reader \ {t} : pc'[u] = pc[u] /\ want'[u] = want[u]
    BY <1>1, OthersStay DEF Lock!Call, Lock!TypeOK
  <2>2. QED
    BY <1>1, <2>1 DEF Lock!Call, OneInSqlite, Lock!ReadsOwnRow, Lock!SetMeansInside,
       Lock!OneIsLeft, Lock!Inside
<1>2. CASE Lock!Test(t)
  <2>1. /\ pc'[t] = IF locked THEN "spin" ELSE "set"
        /\ \A u \in Reader \ {t} : pc'[u] = pc[u]
    BY <1>2, OthersStay DEF Lock!Test
  <2>2. Lock!OneIsLeft'
    BY <1>2, <2>1 DEF Lock!Test, Lock!SetMeansInside, Lock!OneIsLeft, Lock!Inside
  <2>3. QED
    BY <1>2, <2>1, <2>2 DEF Lock!Test, OneInSqlite, Lock!ReadsOwnRow,
       Lock!SetMeansInside, Lock!Inside
<1>3. CASE Lock!Set(t)
  <2>1. pc'[t] = "exec" /\ \A u \in Reader \ {t} : pc'[u] = pc[u]
    BY <1>3, OthersStay DEF Lock!Set
  <2>2. QED
    BY <1>3, <2>1 DEF Lock!Set, OneInSqlite, Lock!ReadsOwnRow, Lock!SetMeansInside,
       Lock!OneIsLeft, Lock!Inside
<1>4. CASE Lock!Exec(t)
  <2>1. pc'[t] = "decode" /\ \A u \in Reader \ {t} : pc'[u] = pc[u]
    BY <1>4, OthersStay DEF Lock!Exec
  <2>2. OneInSqlite'
    BY <1>4, <2>1 DEF Lock!Exec, OneInSqlite, Lock!TypeOK
  <2>3. QED
    BY <1>4, <2>1, <2>2 DEF Lock!Exec, Lock!ReadsOwnRow, Lock!SetMeansInside,
       Lock!OneIsLeft, Lock!Inside
<1>5. CASE Lock!Decode(t)
  <2>1. pc'[t] = "inflate" /\ \A u \in Reader \ {t} : pc'[u] = pc[u]
    BY <1>5, OthersStay DEF Lock!Decode
  <2>2. OneInSqlite'
    BY <1>5, <2>1 DEF Lock!Decode, OneInSqlite, Lock!TypeOK
  <2>3. QED
    BY <1>5, <2>1, <2>2 DEF Lock!Decode, Lock!ReadsOwnRow, Lock!SetMeansInside,
       Lock!OneIsLeft, Lock!Inside
<1>6. CASE Lock!Inflate(t)
  <2>1. pc'[t] = "unlock" /\ \A u \in Reader \ {t} : pc'[u] = pc[u] /\ block'[u] = block[u]
    BY <1>6, OthersStay DEF Lock!Inflate, Lock!TypeOK
  <2>2. OneInSqlite'
    BY <1>6, <2>1 DEF Lock!Inflate, OneInSqlite, Lock!TypeOK
  <2>3. block'[t] = want[t]
    BY <1>6 DEF Lock!Inflate, OneInSqlite, Lock!TypeOK
  <2>4. QED
    BY <1>6, <2>1, <2>2, <2>3 DEF Lock!Inflate, Lock!ReadsOwnRow, Lock!SetMeansInside,
       Lock!OneIsLeft, Lock!Inside
<1>7. CASE Lock!Unlock(t)
  <2>1. pc'[t] = "idle" /\ \A u \in Reader \ {t} : pc'[u] = pc[u]
    BY <1>7, OthersStay DEF Lock!Unlock
  <2>2. QED
    BY <1>7, <2>1 DEF Lock!Unlock, OneInSqlite, Lock!ReadsOwnRow, Lock!SetMeansInside,
       Lock!OneIsLeft, Lock!Inside
<1>8. QED
  BY <1>1, <1>2, <1>3, <1>4, <1>5, <1>6, <1>7 DEF Lock!Read

\* The invariant survives every step.
LEMMA LockNext == LockInv /\ [Lock!Next]_(Lock!vars) => LockInv'
<1>1. ASSUME LockInv, UNCHANGED Lock!vars PROVE LockInv'
  BY <1>1 DEF LockInv, Lock!vars, Lock!TypeOK, OneInSqlite, Lock!ReadsOwnRow,
     Lock!SetMeansInside, Lock!OneIsLeft
<1>2. QED
  BY <1>1, LockTypes, LockStep DEF Lock!Next, LockInv

\* What moves in a behaviour is either part, and its own step.
LEMMA PartsInit == Init => Lock!Init /\ Fork!Init
  BY DEF Init

LEMMA PartsStep == [Next]_vars => [Lock!Next]_(Lock!vars) /\ [Fork!Next]_(Fork!vars)
<1>1. Call => Lock!Next /\ UNCHANGED Fork!vars
  BY DEF Call, Lock!Next, forkVars, Fork!vars
<1>2. (\E t \in Reader : Read(t)) => Lock!Next /\ UNCHANGED Fork!vars
  BY DEF Read, Lock!Next, forkVars, Fork!vars
<1>3. Write \/ Tick \/ Cleanup => Fork!Next /\ UNCHANGED Lock!vars
  BY DEF Write, Tick, Cleanup, Fork!Next, lockVars, Lock!vars
<1>4. UNCHANGED vars => UNCHANGED Lock!vars /\ UNCHANGED Fork!vars
  BY DEF vars, lockVars, forkVars, Lock!vars, Fork!vars
<1> QED
  BY <1>1, <1>2, <1>3, <1>4 DEF Next

\* Every caller of read_block gets the row it asked for although the lock
\* does not exclude anybody, and however many threads hang in it, one is left.
THEOREM ReadLockSafe == Spec => [](ReadsOwnRow /\ Lock!SetMeansInside /\ OneIsLeft)
<1>1. LockInv => ReadsOwnRow /\ Lock!SetMeansInside /\ OneIsLeft
  BY DEF LockInv, ReadsOwnRow, OneIsLeft
<1>2. QED
  BY <1>1, PartsInit, PartsStep, LockInit, LockNext, PTL DEF Spec

\* A thread hangs in read_block only if it meets another one there.
THEOREM HangsOnlyInMeeting == Spec => Lock!LostOnlyInMeeting
<1> DEFINE Meeting == \A t \in Reader : pc[t] # "spin" /\ pc'[t] = "spin" =>
                        \E u \in Reader \ {t} : pc[u] \in Lock!Inside
<1>1. ASSUME LockInv, [Lock!Next]_(Lock!vars) PROVE Meeting
  <2> SUFFICES ASSUME NEW t \in Reader, pc[t] # "spin", pc'[t] = "spin"
               PROVE  \E u \in Reader \ {t} : pc[u] \in Lock!Inside
    OBVIOUS
  <2>1. Lock!Test(t) /\ locked
    BY <1>1
       DEF LockInv, Lock!TypeOK, Lock!Next, Lock!Read, Lock!vars, Lock!Call, Lock!Test,
          Lock!Set,
           Lock!Exec, Lock!Decode, Lock!Inflate, Lock!Unlock, Lock!Goto
  <2>2. QED
    BY <1>1, <2>1 DEF LockInv, Lock!SetMeansInside, Lock!Test, Lock!Inside
<1>2. LockInv /\ [Lock!Next]_(Lock!vars) => [Meeting]_pc
  BY <1>1
<1>3. QED
  BY <1>2, PartsInit, PartsStep, LockInit, LockNext, PTL DEF Spec, Lock!LostOnlyInMeeting
-----------------------------------------------------------------------------
(* The deletion of alternate chains *)

\* The entries of the list that are still to be judged.
Pending == todo \cup IF place \in {"orphan", "purge"} THEN {entry} ELSE {}

\* An entry tells the time of one of the rows of its chain, unless these were
\* deleted in this round; then only a new chain can bear their number.
ForkInv ==
  /\ now \in Int /\ \A r \in rows : r.time \in Int
  /\ \A e \in Pending : e.chain \in Fork!Alternate \ young =>
       \E r \in rows : r.chain = e.chain /\ r.time = e.time

LEMMA ForkInit == Fork!Init => ForkInv
  BY DEF Fork!Init, ForkInv, Pending

LEMMA ForkStep ==
  ASSUME Fork!ForksAssumption
  PROVE  ForkInv /\ [Fork!Next]_(Fork!vars) => ForkInv'
<1> SUFFICES ASSUME ForkInv, [Fork!Next]_(Fork!vars) PROVE ForkInv'
  OBVIOUS
<1>1. ASSUME NEW k, NEW id, Fork!Write(k, id)
      PROVE  /\ \A r \in rows' : r.time \in Int
             /\ rows \subseteq rows' /\ (Fork!Alternate)' \subseteq Fork!Alternate \cup {k}
  BY <1>1 DEF ForkInv, Fork!Write, Fork!Alternate
<1>2. CASE Fork!NewChain
  <2> DEFINE k == Fork!new_chain_id
  <2>1. Fork!Write(k, 1) /\ young' = young \cup {k} /\ UNCHANGED <<now, todo, place, entry>>
    BY <1>2 DEF Fork!NewChain
  <2> HIDE DEF k
  <2>2. /\ \A r \in rows' : r.time \in Int
        /\ rows \subseteq rows' /\ (Fork!Alternate)' \subseteq Fork!Alternate \cup {k}
    BY <2>1, <1>1
  <2> QED
    BY <2>1, <2>2 DEF ForkInv, Pending
<1>3. CASE Fork!Extend
  <2>1. UNCHANGED <<now, todo, place, entry, young>>
    BY <1>3 DEF Fork!Extend
  <2>2. PICK k \in Fork!Alternate : \E id : Fork!Write(k, id)
    BY <1>3 DEF Fork!Extend
  <2>3. /\ \A r \in rows' : r.time \in Int
        /\ rows \subseteq rows' /\ (Fork!Alternate)' \subseteq Fork!Alternate
    BY <2>2, <1>1
  <2> QED
    BY <2>1, <2>3 DEF ForkInv, Pending
<1>4. CASE Fork!Tick
  BY <1>4 DEF ForkInv, Pending, Fork!Tick, Fork!Alternate
<1>5. CASE Fork!List
  BY <1>5 DEF ForkInv, Pending, Fork!List, Fork!Alternate
<1>6. CASE Fork!ReadBase
  BY <1>6 DEF ForkInv, Pending, Fork!ReadBase, Fork!Alternate
<1>7. CASE Fork!IsOrphan
  BY <1>7 DEF ForkInv, Pending, Fork!IsOrphan, Fork!Alternate
<1>8. CASE Fork!Purge
  <2>1. /\ rows' = rows \/ rows' = {r \in rows : r.chain # entry.chain}
        /\ UNCHANGED <<now, todo, young>> /\ place = "purge" /\ place' = "next"
    BY <1>8 DEF Fork!Purge, Fork!RowsOf
  <2> QED
    BY <2>1 DEF ForkInv, Pending, Fork!Alternate
<1>9. CASE Fork!Sleep
  BY <1>9 DEF ForkInv, Pending, Fork!Sleep, Fork!Alternate
<1>10. CASE UNCHANGED Fork!vars
  BY <1>10 DEF ForkInv, Pending, Fork!vars, Fork!Alternate
<1> QED
  BY <1>2, <1>3, <1>4, <1>5, <1>6, <1>7, <1>8, <1>9, <1>10 DEF Fork!Next, Fork!Cleanup

LEMMA DeletedIsOld ==
  ASSUME Fork!ForksAssumption, ForkInv, [Fork!Next]_(Fork!vars),
         NEW k \in Fork!Alternate, Fork!Deleted(k), k \notin young
  PROVE  \E r \in Fork!RowsOf(k) : ~(Fork!Age(r.time) <= OrphanAge)
<1>1. PICK r \in rows : r.chain = k /\ r \notin rows'
  BY DEF Fork!Deleted, Fork!RowsOf
<1>2. Fork!Purge
  BY <1>1 DEF Fork!Next, Fork!Cleanup, Fork!NewChain, Fork!Extend, Fork!Write, Fork!Tick,
              Fork!List, Fork!ReadBase, Fork!IsOrphan, Fork!Sleep, Fork!vars
<1>3. /\ entry.chain = k /\ place = "purge"
      /\ Fork!Age(entry.time) > OrphanAge \/ Fork!Age(entry.time) > ChainAge
  BY <1>1, <1>2 DEF Fork!Purge, Fork!RowsOf
<1>4. PICK q \in rows : q.chain = k /\ q.time = entry.time
  BY <1>3 DEF ForkInv, Pending
<1>5. Fork!Age(q.time) \in Int
  BY <1>4 DEF ForkInv, Fork!Age, Fork!ForksAssumption
<1>6. ~(Fork!Age(q.time) <= OrphanAge)
  BY <1>3, <1>4, <1>5 DEF Fork!ForksAssumption
<1> QED
  BY <1>4, <1>6 DEF Fork!RowsOf

\* However long a round takes and whatever callers write meanwhile, a chain of
\* which no block is two minutes old goes only if its number was given anew
\* after the round had deleted another chain of that number.
THEOREM YoungChainsAreKept == Spec => YoungChainsStay
<1> DEFINE Kept == \A k \in Fork!Alternate :
                     Fork!Deleted(k)
                         /\ (\A r \in Fork!RowsOf(k) : Fork!Age(r.time) <= OrphanAge)
                       => k \in young
<1>1. Fork!ForksAssumption
  BY ChainAssumption
<1>2. ForkInv /\ [Fork!Next]_(Fork!vars) => ForkInv'
  BY <1>1, ForkStep
<1>3. ForkInv /\ [Fork!Next]_(Fork!vars) => Kept
  BY <1>1, DeletedIsOld
<1> QED
  BY <1>2, <1>3, ForkInit, PartsInit, PartsStep, PTL
     DEF Spec, YoungChainsStay, Fork!YoungChainsStay
=============================================================================
