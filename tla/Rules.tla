------------------------------- MODULE Rules -------------------------------
(***************************************************************************)
(* The consensus arithmetic of rcoind: the proof-of-work test and the      *)
(* difficulty retarget of pow.c and the block reward of block.h.  Pure     *)
(* operators; the integer widths of the C code are parameters, so that TLC *)
(* can exercise the wrap-around with small words.                          *)
(***************************************************************************)
EXTENDS Integers

CONSTANTS
  Word,         \* number of values of an int32_t / uint32_t (2^32)
  TargetTime,   \* TARGET_TIME_SEC (30)
  MaxHash,      \* the 512-bit number with all bits set (2^512 - 1)
  StartReward,  \* first block reward, in 1/100000 coin (250 * 100000)
  FloorReward,  \* reward below which halving stops (100000)
  Era           \* blocks between two halvings (3153600)

ASSUME RulesAssumption ==
  /\ Word \in Nat /\ Word > 2 /\ Word % 2 = 0
  /\ TargetTime \in Nat
  /\ MaxHash \in Nat \ {0}
  /\ StartReward \in Nat
  /\ FloorReward \in Nat
  /\ Era \in Nat \ {0}

Half == Word \div 2

\* What is left of an integer stored in an int32_t: two's complement wrap.
ToInt32(x) == ((x + Half) % Word) - Half

\* abs(): the most negative int32_t has no positive counterpart and stays.
Abs32(x) == IF x >= 0 THEN x ELSE ToInt32(-x)

\* Every difficulty the code computes or stores fits a positive int32_t.
Target == 1 .. (Half - 1)

\* calc_target: ten points of difficulty per second the last block came
\* before (or after) TargetTime, never below 1.
CalcTarget(last_target, time_a, time_b) ==
  LET difference == ToInt32(time_a - time_b)
      ret == ToInt32(last_target + (TargetTime * 10 - difference * 10))
  IN  IF \/ time_a = 0 \/ time_b = 0
         \/ Abs32(difference) > TargetTime /\ last_target = 0
         \/ ret <= 0
      THEN 1
      ELSE ret

\* verify_work: the quotient of the largest hash by the target must exceed
\* the hash.  bignum_div does not terminate for target = 0.
VerifyWork(hash, target) == (MaxHash \div target) > hash

\* Mutant: the floor is looked for one era late.
CalcReward_Late(height) ==
  LET k == height \div Era
  IN  IF k > 1 /\ StartReward \div 2^(k - 2) < FloorReward
      THEN FloorReward
      ELSE StartReward \div 2^k

\* calc_reward: halved once per era; the first halving that starts below
\* the floor returns the floor instead.
CalcReward(height) ==
  LET k == height \div Era
  IN  IF k > 0 /\ StartReward \div 2^(k - 1) < FloorReward
      THEN FloorReward
      ELSE StartReward \div 2^k
=============================================================================
