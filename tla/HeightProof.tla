---------------------------- MODULE HeightProof ----------------------------
(***************************************************************************)
(* What get_height's race can and cannot do, for any number of threads and *)
(* rows.  RowAt and MainLength are maxima, so the proof starts with their  *)
(* existence, from the well-foundedness of the natural numbers.            *)
(***************************************************************************)
EXTENDS Height, WellFoundedInduction, TLAPS

\* Every set of natural numbers that has an element has a least one.
LEMMA LeastNat ==
  ASSUME NEW T, T \subseteq Nat, T # {}
  PROVE  \E x \in T : \A y \in T : x <= y
<1> DEFINE R == OpToRel(<, Nat)
<1>1. IsWellFoundedOn(R, Nat)
  BY NatLessThanWellFounded
<1>2. \A x, y \in Nat : <<y, x>> \in R <=> y < x
  BY DEF OpToRel
<1> HIDE DEF R
<1>3. PICK x \in T : \A y \in T : ~ (<<y, x>> \in R)
  BY <1>1, WFMin
<1>4. \A y \in T : x <= y
  <2> TAKE y \in T
  <2>1. x \in Nat /\ y \in Nat
    OBVIOUS
  <2>2. ~ (y < x)
    BY <2>1, <1>2, <1>3
  <2> QED
    BY <2>1, <2>2
<1> QED
  BY <1>4

\* A set of numbers up to n that has an element has a maximum.
LEMMA MaxOf ==
  ASSUME NEW n \in Nat, NEW S, S \subseteq 0 .. n, S # {}
  PROVE  Max(S) \in S /\ \A y \in S : Max(S) >= y
<1> DEFINE T == {n - i : i \in S}
<1>1. T \subseteq Nat
  OBVIOUS
<1>2. T # {}
  OBVIOUS
<1>3. PICK m \in T : \A y \in T : m <= y
  <2> HIDE DEF T
  <2> QED
    BY <1>1, <1>2, LeastNat
<1>4. PICK x \in S : m = n - x
  OBVIOUS
<1>5. \A y \in S : n - y \in T
  OBVIOUS
<1>6. \A y \in S : x >= y
  <2> TAKE y \in S
  <2>1. m <= n - y
    BY <1>3, <1>5
  <2> QED
    BY <1>4, <2>1
<1> QED
  BY <1>6 DEF Max

LEMMA MaxIs == ASSUME NEW m \in Nat, NEW S, S = 0 .. m PROVE Max(S) = m
<1>1. S \subseteq 0 .. m /\ S # {} /\ m \in S /\ \A y \in S : y <= m /\ y \in Nat
  OBVIOUS
<1>2. Max(S) \in S /\ \A y \in S : Max(S) >= y
  BY <1>1, MaxOf
<1>3. Max(S) >= m /\ Max(S) <= m /\ Max(S) \in Nat
  BY <1>1, <1>2
<1> QED
  BY <1>3

Linked == \A i \in DOMAIN rows : rows[i].id = i - 1 /\ rows[i].on = i - 1

\* The miner is the only one to add rows: what its own query found stays
\* the height until it is done with it.
HeightInv ==
  /\ TypeOK
  /\ \E m \in Nat : Ids = 0 .. m
  /\ mainlen <= MainLength
  /\ \A t \in Thread : got[t] <= MainLength /\ len[t] <= MainLength
  /\ StaleOnlyIfOvertaken
  /\ pc["miner"] # "idle" => len["miner"] = MainLength
  /\ pc["miner"] = "use" /\ ~stale => got["miner"] = MainLength
  /\ ~stale => Linked
  /\ ~stale /\ stage # "tip" => tip = Len(rows)

\* The height when the ids are 0 .. m.
LEMMA HeightIs ==
  ASSUME NEW m \in Nat, Ids = 0 .. m
  PROVE  MainLength = m + 1
  BY MaxIs DEF MainLength

LEMMA HeightIsNat == ASSUME HeightInv PROVE MainLength \in Nat \ {0} /\ Ids = 0 .. (MainLength - 1)
<1>1. PICK m \in Nat : Ids = 0 .. m
  BY DEF HeightInv
<1> QED
  BY <1>1, HeightIs

\* read_block finds a row for every height a call can return.
LEMMA RowIsThere ==
  ASSUME HeightInv, NEW h \in Nat \ {0}, h <= MainLength
  PROVE  RowAt(h - 1) \in DOMAIN rows
<1> DEFINE S == {i \in DOMAIN rows : rows[i].id = h - 1}
<1>1. DOMAIN rows = 1 .. Len(rows) /\ Len(rows) \in Nat
  BY DEF HeightInv, TypeOK
<1>2. h - 1 \in Ids
  BY HeightIsNat
<1>3. S \subseteq 0 .. Len(rows) /\ S # {}
  BY <1>1, <1>2 DEF Ids
<1>4. Max(S) \in S
  <2> HIDE DEF S
  <2> QED
    BY <1>1, <1>3, MaxOf
<1> QED
  BY <1>4 DEF RowAt

\* On a linked chain the height is the number of rows, and the tip the last.
LEMMA LinkedTop ==
  ASSUME HeightInv, Linked
  PROVE  MainLength = Len(rows) /\ RowAt(MainLength - 1) = Len(rows)
<1>1. DOMAIN rows = 1 .. Len(rows) /\ Len(rows) \in Nat \ {0}
  BY DEF HeightInv, TypeOK
<1>2. Ids = 0 .. (Len(rows) - 1)
  <2>1. \A i \in 0 .. (Len(rows) - 1) : i + 1 \in DOMAIN rows /\ rows[i + 1].id = i
    BY <1>1 DEF Linked
  <2>2. \A i \in DOMAIN rows : rows[i].id \in 0 .. (Len(rows) - 1)
    BY <1>1 DEF Linked
  <2> QED
    BY <2>1, <2>2 DEF Ids
<1>3. MainLength = Len(rows)
  <2>1. Len(rows) - 1 \in Nat
    BY <1>1
  <2>2. MainLength = (Len(rows) - 1) + 1
    BY <1>2, <2>1, HeightIs
  <2> QED
    BY <1>1, <2>2
<1>4. RowAt(MainLength - 1) \in {i \in DOMAIN rows : rows[i].id = MainLength - 1}
  <2>1. {i \in DOMAIN rows : rows[i].id = MainLength - 1} # {}
    BY <1>1, <1>3 DEF Linked
  <2>2. {i \in DOMAIN rows : rows[i].id = MainLength - 1} \subseteq 0 .. Len(rows)
    BY <1>1
  <2> QED
    BY <1>1, <2>1, <2>2, MaxOf DEF RowAt
<1>5. PICK r \in DOMAIN rows : r = RowAt(MainLength - 1) /\ rows[r].id = MainLength - 1
  BY <1>4
<1>6. r - 1 = Len(rows) - 1 /\ r \in Nat
  BY <1>1, <1>3, <1>5 DEF Linked
<1> QED
  BY <1>1, <1>3, <1>5, <1>6

\* The chain is genesis only and no call is under way.
LEMMA HeightInit == Init => HeightInv
<1> SUFFICES ASSUME Init PROVE HeightInv
  OBVIOUS
<1>1. DOMAIN rows = {1} /\ Len(rows) = 1 /\ rows[1] = [id |-> 0, on |-> 0]
      /\ rows \in Seq([id : Nat, on : Nat])
  BY DEF Init
<1>2. Ids = 0 .. 0
  BY <1>1 DEF Ids
<1>3. MainLength = 1
  BY <1>2, HeightIs
<1>4. TypeOK
  <2>1. /\ pc \in [Thread -> {"idle", "store", "alt", "use"}]
        /\ overtaken \in [Thread -> BOOLEAN] /\ stale \in BOOLEAN
        /\ stage \in {"tip", "verify", "id"}
    BY DEF Init
  <2>2. len \in [Thread -> Nat \ {0}] /\ got \in [Thread -> Nat \ {0}] /\ mainlen \in Nat \ {0}
    BY DEF Init
  <2>3. tip \in DOMAIN rows /\ rows # <<>>
    BY <1>1 DEF Init
  <2> QED
    BY <1>1, <2>1, <2>2, <2>3 DEF TypeOK
<1> QED
  BY <1>1, <1>2, <1>3, <1>4 DEF Init, HeightInv, StaleOnlyIfOvertaken, Linked, Thread

LEMMA SameRows == rows' = rows => MainLength' = MainLength /\ Ids' = Ids /\ Linked' = Linked
  BY DEF MainLength, Ids, Linked

LEMMA MinerIsThread == "miner" \in Thread
  BY DEF Thread

LEMMA QueryStep == ASSUME HeightInv, NEW t \in Thread, Query(t) PROVE HeightInv'
<1>1. rows' = rows /\ MainLength' = MainLength
  BY SameRows DEF Query, round
<1>2. TypeOK'
  BY HeightIsNat DEF Query, HeightInv, TypeOK, round
<1>3. len'[t] = MainLength /\ pc'[t] = "store"
      /\ \A u \in Thread \ {t} : len'[u] = len[u] /\ pc'[u] = pc[u] /\ overtaken'[u] = overtaken[u]
  BY DEF Query, HeightInv, TypeOK
<1> QED
  BY <1>1, <1>2, <1>3, SameRows, HeightIsNat, MinerIsThread
  DEF Query, HeightInv, StaleOnlyIfOvertaken, round

LEMMA StoreStep == ASSUME HeightInv, NEW t \in Thread, Store(t) PROVE HeightInv'
<1>1. rows' = rows /\ MainLength' = MainLength
  BY SameRows DEF Store, round
<1>2. TypeOK'
  BY DEF Store, HeightInv, TypeOK, round
<1>3. pc'[t] = "alt" /\ \A u \in Thread \ {t} : pc'[u] = pc[u]
  BY DEF Store, HeightInv, TypeOK
<1>4. \A u \in Thread : overtaken'[u] = (overtaken[u] \/ (u # t /\ pc[u] = "alt"))
  BY DEF Store
<1>5. mainlen' = len[t] /\ len' = len /\ got' = got /\ stale' = stale /\ stage' = stage /\ tip' = tip
      /\ pc[t] = "store"
  BY DEF Store, round
<1>6. StaleOnlyIfOvertaken'
  <2> SUFFICES ASSUME NEW u \in Thread, pc'[u] = "alt", mainlen' < len'[u] PROVE overtaken'[u]
    BY DEF StaleOnlyIfOvertaken
  <2>1. u # t
    <3>1. len[t] \in Nat
      BY DEF HeightInv, TypeOK
    <3> QED
      BY <1>5, <3>1
  <2> QED
    BY <1>3, <1>4, <2>1
<1> QED
  BY <1>1, <1>2, <1>3, <1>5, <1>6, SameRows, MinerIsThread DEF HeightInv

LEMMA ReturnStep == ASSUME HeightInv, NEW t \in Thread, Return(t) PROVE HeightInv'
<1>1. rows' = rows /\ MainLength' = MainLength
  BY SameRows DEF Return, round
<1>2. /\ mainlen' = mainlen /\ len' = len /\ overtaken' = overtaken /\ stage' = stage /\ tip' = tip
      /\ pc[t] = "alt"
  BY DEF Return, round
<1>3. /\ pc'[t] = (IF t = "miner" THEN "use" ELSE "idle") /\ got'[t] = mainlen
      /\ \A u \in Thread \ {t} : pc'[u] = pc[u] /\ got'[u] = got[u]
  BY DEF Return, HeightInv, TypeOK
<1>4. stale' = (stale \/ (t = "miner" /\ mainlen < len[t]))
  BY DEF Return
<1>5. TypeOK'
  <2>1. stale' \in BOOLEAN
    BY <1>4
  <2>2. pc' \in [Thread -> {"idle", "store", "alt", "use"}] /\ got' \in [Thread -> Nat \ {0}]
    BY DEF Return, HeightInv, TypeOK
  <2> QED
    BY <1>1, <1>2, <2>1, <2>2 DEF HeightInv, TypeOK
<1>6. StaleOnlyIfOvertaken'
  BY <1>2, <1>3 DEF HeightInv, StaleOnlyIfOvertaken
<1>7. pc'["miner"] = "use" /\ ~stale' => got'["miner"] = MainLength
  <2>1. CASE t = "miner"
    <3>1. ~stale' => ~(mainlen < len["miner"])
      BY <1>4, <2>1
    <3>2. len["miner"] = MainLength /\ mainlen <= MainLength /\ mainlen \in Nat /\ MainLength \in Nat
      BY <1>2, <2>1, HeightIsNat DEF HeightInv, TypeOK
    <3> QED
      BY <1>3, <2>1, <3>1, <3>2
  <2>2. CASE t # "miner"
    BY <1>3, <1>4, <2>2, MinerIsThread DEF HeightInv
  <2> QED
    BY <2>1, <2>2
<1>8. \A u \in Thread : got'[u] <= MainLength /\ len'[u] <= MainLength
  BY <1>2, <1>3 DEF HeightInv
<1>9. pc'["miner"] # "idle" => len'["miner"] = MainLength
  BY <1>2, <1>3, MinerIsThread DEF HeightInv
<1>10. ~stale' => ~stale
  BY <1>4
<1> QED
  BY <1>1, <1>2, <1>5, <1>6, <1>7, <1>8, <1>9, <1>10, SameRows DEF HeightInv
-----------------------------------------------------------------------------
\* The miner uses what it was given and calls again.
LEMMA Resumed ==
  ASSUME HeightInv, NEW next, Resume(next), pc["miner"] = "use"
  PROVE  /\ pc'["miner"] = "idle" /\ \A u \in Thread \ {"miner"} : pc'[u] = pc[u]
         /\ pc' \in [Thread -> {"idle", "store", "alt", "use"}]
         /\ got["miner"] \in Nat \ {0} /\ got["miner"] <= MainLength
  BY MinerIsThread DEF Resume, HeightInv, TypeOK

LEMMA ReadTipStep == ASSUME HeightInv, ReadTip PROVE HeightInv'
<1>1. rows' = rows /\ stage' = "verify" /\ tip' = RowAt(got["miner"] - 1)
      /\ UNCHANGED <<mainlen, len, got, overtaken, stale>> /\ pc["miner"] = "use"
  BY DEF ReadTip, Resume, At
<1>2. /\ pc'["miner"] = "idle" /\ \A u \in Thread \ {"miner"} : pc'[u] = pc[u]
      /\ pc' \in [Thread -> {"idle", "store", "alt", "use"}]
      /\ got["miner"] \in Nat \ {0} /\ got["miner"] <= MainLength
  BY Resumed DEF ReadTip, At
<1>3. tip' \in DOMAIN rows
  BY <1>1, <1>2, RowIsThere
<1>4. TypeOK'
  BY <1>1, <1>2, <1>3 DEF HeightInv, TypeOK
<1>5. ~stale => tip' = Len(rows)
  <2> SUFFICES ASSUME ~stale PROVE tip' = Len(rows)
    OBVIOUS
  <2>1. Linked /\ got["miner"] = MainLength
    BY <1>1 DEF HeightInv
  <2> QED
    BY <1>1, <2>1, LinkedTop
<1>6. StaleOnlyIfOvertaken'
  BY <1>1, <1>2 DEF HeightInv, StaleOnlyIfOvertaken
<1> QED
  BY <1>1, <1>2, <1>4, <1>5, <1>6, SameRows DEF HeightInv

\* verify_block finds the tip it was built on, unless a height was stale.
LEMMA VerifyStep ==
  ASSUME HeightInv, Verify
  PROVE  HeightInv' /\ (~stale => stage' # "tip")
<1>1. rows' = rows /\ tip' = tip /\ stage' = (IF RowAt(got["miner"] - 1) = tip THEN "id" ELSE "tip")
      /\ UNCHANGED <<mainlen, len, got, overtaken, stale>> /\ pc["miner"] = "use" /\ stage = "verify"
  BY DEF Verify, Resume, At
<1>2. /\ pc'["miner"] = "idle" /\ \A u \in Thread \ {"miner"} : pc'[u] = pc[u]
      /\ pc' \in [Thread -> {"idle", "store", "alt", "use"}]
  BY Resumed DEF Verify, At
<1>3. TypeOK'
  BY <1>1, <1>2 DEF HeightInv, TypeOK
<1>4. ~stale => stage' # "tip"
  <2> SUFFICES ASSUME ~stale PROVE RowAt(got["miner"] - 1) = tip
    BY <1>1
  <2>1. Linked /\ got["miner"] = MainLength /\ tip = Len(rows)
    BY <1>1 DEF HeightInv
  <2> QED
    BY <2>1, LinkedTop
<1>5. StaleOnlyIfOvertaken'
  BY <1>1, <1>2 DEF HeightInv, StaleOnlyIfOvertaken
<1> QED
  BY <1>1, <1>2, <1>3, <1>4, <1>5, SameRows DEF HeightInv

LEMMA InsertStep == ASSUME HeightInv, Insert PROVE HeightInv'
<1> DEFINE row == [id |-> got["miner"], on |-> tip]
           m == MainLength - 1
<1>1. rows' = Append(rows, row) /\ stage' = "tip" /\ tip' = tip
      /\ UNCHANGED <<mainlen, len, got, overtaken, stale>> /\ pc["miner"] = "use" /\ stage = "id"
  BY DEF Insert, Resume, At
<1>2. /\ pc'["miner"] = "idle" /\ \A u \in Thread \ {"miner"} : pc'[u] = pc[u]
      /\ pc' \in [Thread -> {"idle", "store", "alt", "use"}]
      /\ got["miner"] \in Nat \ {0} /\ got["miner"] <= MainLength
  BY Resumed DEF Insert, At
<1>3. m \in Nat /\ Ids = 0 .. m /\ MainLength = m + 1
  BY HeightIsNat
<1>4. rows \in Seq([id : Nat, on : Nat]) /\ tip \in DOMAIN rows /\ Len(rows) \in Nat
      /\ DOMAIN rows = 1 .. Len(rows)
  BY DEF HeightInv, TypeOK
<1>5. row \in [id : Nat, on : Nat]
  BY <1>2, <1>4
<1>6. /\ rows' \in Seq([id : Nat, on : Nat]) /\ Len(rows') = Len(rows) + 1
      /\ DOMAIN rows' = 1 .. (Len(rows) + 1)
      /\ rows'[Len(rows) + 1] = row /\ \A i \in DOMAIN rows : rows'[i] = rows[i]
  <2> HIDE DEF row
  <2> QED
    BY <1>1, <1>4, <1>5
<1>7. TypeOK'
  <2>1. tip' \in DOMAIN rows' /\ rows' # <<>>
    BY <1>1, <1>4, <1>6
  <2> QED
    BY <1>1, <1>2, <1>6, <2>1 DEF HeightInv, TypeOK
<1>8. Ids' = Ids \cup {got["miner"]}
  <2>1. DOMAIN rows' = DOMAIN rows \cup {Len(rows) + 1} /\ rows'[Len(rows) + 1].id = got["miner"]
    BY <1>4, <1>6
  <2> QED
    BY <1>6, <2>1 DEF Ids
<1>9. PICK n \in Nat : Ids' = 0 .. n /\ m <= n
  <2>1. CASE got["miner"] = m + 1
    <3>1. Ids' = 0 .. (m + 1)
      BY <1>3, <1>8, <2>1
    <3> QED
      BY <1>3, <3>1
  <2>2. CASE got["miner"] <= m
    <3>1. Ids' = 0 .. m
      BY <1>2, <1>3, <1>8, <2>2
    <3> QED
      BY <1>3, <3>1
  <2> QED
    BY <1>2, <1>3, <2>1, <2>2
<1>10. MainLength' = n + 1
  <2>1. Max(Ids') = n
    BY <1>9, MaxIs
  <2> QED
    BY <2>1 DEF MainLength
<1>11. MainLength <= MainLength'
  BY <1>3, <1>9, <1>10
<1>12. mainlen' <= MainLength' /\ \A t \in Thread : got'[t] <= MainLength' /\ len'[t] <= MainLength'
  <2> SUFFICES ASSUME NEW t \in Thread
               PROVE  mainlen <= MainLength' /\ got[t] <= MainLength' /\ len[t] <= MainLength'
    BY <1>1, MinerIsThread
  <2>1. mainlen \in Nat /\ got[t] \in Nat /\ len[t] \in Nat
        /\ mainlen <= MainLength /\ got[t] <= MainLength /\ len[t] <= MainLength
    BY DEF HeightInv, TypeOK
  <2> QED
    BY <1>3, <1>9, <1>10, <2>1
<1>13. StaleOnlyIfOvertaken'
  BY <1>1, <1>2 DEF HeightInv, StaleOnlyIfOvertaken
<1>14. ~stale' => Linked'
  <2> SUFFICES ASSUME ~stale PROVE Linked'
    BY <1>1
  <2>1. Linked /\ got["miner"] = MainLength /\ tip = Len(rows)
    BY <1>1 DEF HeightInv
  <2>2. got["miner"] = Len(rows)
    BY <2>1, LinkedTop
  <2>3. \A i \in DOMAIN rows : rows'[i].id = i - 1 /\ rows'[i].on = i - 1
    BY <1>6, <2>1 DEF Linked
  <2>4. rows'[Len(rows) + 1].id = Len(rows) /\ rows'[Len(rows) + 1].on = Len(rows)
    BY <1>6, <2>1, <2>2
  <2>5. \A i \in DOMAIN rows' : i \in DOMAIN rows \/ i = Len(rows) + 1
    BY <1>4, <1>6
  <2> QED
    BY <1>4, <2>3, <2>4, <2>5 DEF Linked
<1> QED
  BY <1>1, <1>2, <1>7, <1>9, <1>12, <1>13, <1>14 DEF HeightInv

\* Every step keeps the invariant, and rejects a block only after a stale
\* height.
LEMMA HeightStep ==
  ASSUME HeightInv, [Next]_vars
  PROVE  HeightInv' /\ (stage = "verify" /\ stage' = "tip" => stale)
<1>1. CASE \E t \in Thread : Query(t) \/ Store(t) \/ Return(t)
  BY <1>1, QueryStep, StoreStep, ReturnStep DEF Query, Store, Return, round
<1>2. CASE ReadTip
  BY <1>2, ReadTipStep DEF ReadTip, At
<1>3. CASE Verify
  BY <1>3, VerifyStep
<1>4. CASE Insert
  BY <1>4, InsertStep DEF Insert, At
<1>5. CASE UNCHANGED vars
  BY <1>5, SameRows DEF vars, calls, round, HeightInv, TypeOK, StaleOnlyIfOvertaken
<1> QED
  BY <1>1, <1>2, <1>3, <1>4, <1>5 DEF Next

LEMMA HeightAlways == Spec => []HeightInv
<1>1. HeightInv /\ [Next]_vars => HeightInv'
  BY HeightStep
<1> QED
  BY <1>1, HeightInit, PTL DEF Spec

\* The race of get_height never invents a block or leaves a gap in the ids,
\* and a stale result has one cause; without one the chain is linked.
THEOREM HeightSafe ==
  Spec => [](HeightIsRecent /\ NoGaps /\ GoodUnlessStale)
<1>1. HeightInv => HeightIsRecent /\ NoGaps /\ GoodUnlessStale
  <2> SUFFICES ASSUME HeightInv
               PROVE  HeightIsRecent /\ NoGaps /\ GoodUnlessStale
    OBVIOUS
  <2>1. Max(Ids) = MainLength - 1
    <3>1. PICK m \in Nat : Ids = 0 .. m
      BY DEF HeightInv
    <3> QED
      BY <3>1, MaxIs DEF MainLength
  <2>2. NoGaps
    BY <2>1, HeightIsNat DEF NoGaps
  <2> QED
    BY <2>2 DEF HeightInv, HeightIsRecent, NeverAhead, GoodUnlessStale, Linked
<1> QED
  BY <1>1, HeightAlways, PTL

\* A mined block is thrown away only after a stale height.
THEOREM RejectsAreStale == Spec => RejectsOnlyIfStale
<1>1. HeightInv /\ [Next]_vars => [stage = "verify" /\ stage' = "tip" => stale]_vars
  BY HeightStep
<1> QED
  BY <1>1, HeightAlways, PTL DEF Spec, RejectsOnlyIfStale
=============================================================================
