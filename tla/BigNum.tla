------------------------------- MODULE BigNum -------------------------------
(***************************************************************************)
(* bn.c: unsigned numbers of BN_ARRAY_SIZE words, on which verify_work     *)
(* divides the largest hash by the difficulty.  A behaviour is a sequence  *)
(* of calls; the two loops of bignum_div are steps of their own, the other *)
(* functions are one step each.                                            *)
(***************************************************************************)
EXTENDS Integers, FiniteSetsExt

CONSTANTS
  Bits,    \* 8 * WORD_SIZE (32)
  Words    \* BN_ARRAY_SIZE (16)

BigNumAssumption == Bits \in Nat \ {0} /\ Words \in Nat /\ Words >= 2

Base == 2^Bits
MaxVal == Base - 1
Index == 0 .. (Words - 1)
Top == Words - 1
Number == [Index -> 0 .. MaxVal]

\* What an array stands for.
Val(x) ==
  LET from[i \in 0 .. Words] == IF i = Words THEN 0 ELSE x[i] + Base * from[i + 1]
  IN  from[0]

VARIABLES
  pc,                   \* "idle", "double" and "reduce" (loops of bignum_div), "done"
  call,                 \* the function called and its arguments
  c,                    \* the result
  current, denom, tmp,  \* locals of bignum_div
  lost                  \* history: a word of a bignum_add did not fit

vars == <<pc, call, c, current, denom, tmp, lost>>
divVars == <<current, denom, tmp>>

zero == [i \in Index |-> 0]
bignum_from_int(k) == [zero EXCEPT ![0] = k % Base, ![1] = (k \div Base) % Base]

bignum_cmp(x, y) ==
  IF x = y THEN 0
  ELSE LET i == Max({j \in Index : x[j] # y[j]}) IN IF x[i] > y[i] THEN 1 ELSE -1

\* A word is added in a DTYPE, before it is assigned to the wider tmp: what
\* is compared with MAX_VAL has lost its carry, and carry is always 0.
bignum_add(x, y) == [i \in Index |-> (x[i] + y[i]) % Base]

LosesCarry(x, y) == \E i \in Index : x[i] + y[i] > MaxVal

\* Mutant: no borrow.
bignum_sub_NoBorrow(x, y) == [i \in Index |-> (x[i] + Base - y[i]) % Base]

bignum_sub(x, y) ==
  LET res[i \in Index] ==
        x[i] + Base - (y[i] + (IF i > 0 /\ res[i - 1] <= MaxVal THEN 1 ELSE 0))
  IN  [i \in Index |-> res[i] % Base]

bignum_inc(x) ==
  [i \in Index |-> IF \A j \in 0 .. (i - 1) : x[j] = MaxVal THEN (x[i] + 1) % Base ELSE x[i]]

bignum_dec(x) ==
  [i \in Index |-> IF \A j \in 0 .. (i - 1) : x[j] = 0 THEN (x[i] - 1) % Base ELSE x[i]]

lshift_word(x, n) == [i \in Index |-> IF i >= n THEN x[i - n] ELSE 0]

\* Word i + 1 is copied to word i below n, and the rest cleared.
rshift_word(x, n) == [i \in Index |-> IF i < n THEN x[i + 1] ELSE 0]

\* The part of a shift that is below a word.
lshift_bits(x, n) ==
  [i \in Index |-> (x[i] * 2^n + (IF i = 0 THEN 0 ELSE x[i - 1] \div 2^(Bits - n))) % Base]

rshift_bits(x, n) ==
  [i \in Index |->
     x[i] \div 2^n + (IF i = Top THEN 0 ELSE (x[i + 1] * 2^(Bits - n)) % Base)]

bignum_lshift(x, n) == lshift_bits(lshift_word(x, n \div Bits), n % Bits)

bignum_rshift(x, n) ==
  rshift_bits(IF n \div Bits = 0 THEN x ELSE rshift_word(x, n \div Bits), n % Bits)

\* The products of single words, added up row by row, with the same word
\* sums as bignum_add.
bignum_mul(x, y) ==
  LET part(i, j) == lshift_word(bignum_from_int(x[i] * y[j]), i + j)
      row(i) ==
        LET upTo[k \in 0 .. Words] ==
              IF k = 0 THEN zero
              ELSE IF i + k > Words THEN upTo[k - 1]
              ELSE bignum_add(part(i, k - 1), upTo[k - 1])
        IN  upTo
      sum[i \in 0 .. Words] ==
        IF i = 0 THEN zero ELSE bignum_add(sum[i - 1], row(i - 1)[Words])
  IN  [product |-> sum[Words],
       lost |-> \E i \in Index :
                  \/ LosesCarry(sum[i], row(i)[Words])
                  \/ \E k \in 0 .. (Words - i - 1) : LosesCarry(part(i, k), row(i)[k])]
-----------------------------------------------------------------------------
NoCall == [op |-> "none", a |-> zero, b |-> zero, n |-> 0]

Start(op, x, y, n) == call' = [op |-> op, a |-> x, b |-> y, n |-> n]

\* A function without a loop of its own.
Compute(op, x, y, n, result, carry) ==
  /\ Start(op, x, y, n)
  /\ c' = result
  /\ lost' = carry
  /\ pc' = "done"
  /\ UNCHANGED divVars

Add == \E x, y \in Number : Compute("add", x, y, 0, bignum_add(x, y), LosesCarry(x, y))
Sub == \E x, y \in Number : Compute("sub", x, y, 0, bignum_sub(x, y), FALSE)
Mul == \E x, y \in Number :
         Compute("mul", x, y, 0, bignum_mul(x, y).product, bignum_mul(x, y).lost)
Inc == \E x \in Number : Compute("inc", x, zero, 0, bignum_inc(x), FALSE)
Dec == \E x \in Number : Compute("dec", x, zero, 0, bignum_dec(x), FALSE)
Lshift == \E x \in Number, n \in 0 .. (Bits * Words - 1) :
            Compute("lshift", x, zero, n, bignum_lshift(x, n), FALSE)
Rshift == \E x \in Number, n \in 0 .. (Bits * Words - 1) :
            Compute("rshift", x, zero, n, bignum_rshift(x, n), FALSE)

\* bignum_div, and bignum_mod, which begins with it.
Divide ==
  /\ pc = "idle"
  /\ \E op \in {"div", "mod"}, x, y \in Number :
       /\ Start(op, x, y, 0)
       /\ current' = bignum_from_int(1)
       /\ denom' = y
       /\ tmp' = x
  /\ pc' = "double"
  /\ UNCHANGED <<c, lost>>

\* Mutant: the loop does not look at the highest bit.
Double_Blind ==
  /\ pc = "double"
  /\ bignum_cmp(denom, call.a) # 1
  /\ current' = lshift_bits(current, 1)
  /\ denom' = lshift_bits(denom, 1)
  /\ UNCHANGED <<pc, call, c, tmp, lost>>

Double ==
  /\ pc = "double"
  /\ bignum_cmp(denom, call.a) # 1
  /\ denom[Top] < 1 + MaxVal \div 2
  /\ current' = lshift_bits(current, 1)
  /\ denom' = lshift_bits(denom, 1)
  /\ UNCHANGED <<pc, call, c, tmp, lost>>

\* The next doubling would overflow: the loop ends, and nothing is undone.
Overflow ==
  /\ pc = "double"
  /\ bignum_cmp(denom, call.a) # 1
  /\ denom[Top] >= 1 + MaxVal \div 2
  /\ c' = zero
  /\ pc' = "reduce"
  /\ UNCHANGED <<call, divVars, lost>>

\* One doubling too many.
Halve ==
  /\ pc = "double"
  /\ bignum_cmp(denom, call.a) = 1
  /\ current' = rshift_bits(current, 1)
  /\ denom' = rshift_bits(denom, 1)
  /\ c' = zero
  /\ pc' = "reduce"
  /\ UNCHANGED <<call, tmp, lost>>

\* current is a single bit that c does not have: bignum_or adds it.
Reduce ==
  /\ pc = "reduce" /\ current # zero
  /\ LET fits == bignum_cmp(tmp, denom) # -1
     IN  /\ tmp' = IF fits THEN bignum_sub(tmp, denom) ELSE tmp
         /\ c' = IF fits THEN [i \in Index |-> c[i] + current[i]] ELSE c
  /\ current' = rshift_bits(current, 1)
  /\ denom' = rshift_bits(denom, 1)
  /\ UNCHANGED <<pc, call, lost>>

\* bignum_mod goes on with a - (a / b) * b.
EndDivide ==
  /\ pc = "reduce" /\ current = zero
  /\ c' = IF call.op = "div" THEN c
          ELSE bignum_sub(call.a, bignum_mul(c, call.b).product)
  /\ lost' = (call.op = "mod" /\ bignum_mul(c, call.b).lost)
  /\ pc' = "done"
  /\ UNCHANGED <<call, divVars>>

Return ==
  /\ pc = "done"
  /\ pc' = "idle" /\ call' = NoCall /\ lost' = FALSE
  /\ c' = zero /\ current' = zero /\ denom' = zero /\ tmp' = zero

Init ==
  /\ pc = "idle" /\ call = NoCall /\ lost = FALSE
  /\ c = zero /\ current = zero /\ denom = zero /\ tmp = zero

Next ==
  \/ pc = "idle" /\ (Add \/ Sub \/ Mul \/ Inc \/ Dec \/ Lshift \/ Rshift)
  \/ Divide \/ Double \/ Overflow \/ Halve \/ Reduce \/ EndDivide \/ Return

Spec == Init /\ [][Next]_vars

\* A function that was called goes on; nothing makes a caller call.
Fairness == WF_vars(Double \/ Overflow \/ Halve \/ Reduce \/ EndDivide)
-----------------------------------------------------------------------------
All == Base^Words

\* What bn.h:97-108 says of each function, modulo the size of a number.
Meaning ==
  LET a == Val(call.a)
      b == Val(call.b)
  IN  CASE call.op = "add" -> (a + b) % All
        [] call.op = "sub" -> (a - b) % All
        [] call.op = "mul" -> (a * b) % All
        [] call.op = "div" -> a \div b
        [] call.op = "mod" -> a % b
        [] call.op = "inc" -> (a + 1) % All
        [] call.op = "dec" -> (a - 1) % All
        [] call.op = "lshift" -> (a * 2^call.n) % All
        [] call.op = "rshift" -> a \div 2^call.n

\* Every function computes what bn.h says as long as no bignum_add in it
\* lost a carry and no bignum_rshift moves whole words.
ExactUnlessCarryLost ==
  pc = "done" /\ ~lost /\ (call.op = "rshift" => call.n < Bits) => Val(c) = Meaning

\* bignum_div returns for every divisor but 0: verify_work relies on a
\* target of at least 1.
DivisionEnds == pc = "double" /\ call.b # zero ~> pc = "done"
=============================================================================
