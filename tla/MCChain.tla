------------------------------ MODULE MCChain ------------------------------
(***************************************************************************)
(* Two parts of chain.c that share no state: the lock of read_block and    *)
(* the alternate chains with the thread that deletes them.  A behaviour is *)
(* one of a single part, chosen at the start, while the other rests.       *)
(***************************************************************************)
EXTENDS Integers

CONSTANTS
  Reader, Row, NoRow, OrphanAge, ChainAge, Span, Garbage, LastWrite, LastTime,
  MaxRows, MaxChain

VARIABLES
  part,  \* the one that moves
  locked, mutex, compbuf, pc, want, block,
  rows, now, todo, place, entry, base, isorphan, young

Lock == INSTANCE ReadLock
Fork == INSTANCE Forks

ASSUME ChainAssumption == Lock!ReadLockAssumption /\ Fork!ForksAssumption

lockVars == <<locked, mutex, compbuf, pc, want, block>>
forkVars == <<rows, now, todo, place, entry, base, isorphan, young>>
vars == <<part, lockVars, forkVars>>

Init == part \in {"lock", "forks"} /\ Lock!Init /\ Fork!Init

Call == part = "lock" /\ (\E t \in Reader : Lock!Call(t)) /\ UNCHANGED <<part, forkVars>>
Read(t) == part = "lock" /\ Lock!Read(t) /\ UNCHANGED <<part, forkVars>>

Write == part = "forks" /\ (Fork!NewChain \/ Fork!Extend) /\ UNCHANGED <<part, lockVars>>
Tick == part = "forks" /\ Fork!Tick /\ UNCHANGED <<part, lockVars>>
Cleanup == part = "forks" /\ Fork!Cleanup /\ UNCHANGED <<part, lockVars>>

Next == Call \/ (\E t \in Reader : Read(t)) \/ Write \/ Tick \/ Cleanup

Spec == Init /\ [][Next]_vars

\* The threads of read_block are scheduled, and call as often as they like;
\* cleanup_thread is never blocked and the clock never stops; the callers of
\* write_block owe nothing.
FairSpec ==
  Spec /\ (\A t \in Reader : WF_vars(Read(t))) /\ WF_vars(Cleanup) /\ WF_vars(Tick)
-----------------------------------------------------------------------------
\* ReadLock: a caller of read_block gets the row it asked for.
ReadsOwnRow == Lock!ReadsOwnRow

\* ReadLock: however many threads hang in the lock, one is left.
OneIsLeft == Lock!OneIsLeft

\* ReadLock: someone who is inside read_block comes out again.
InsideComesOut == Lock!InsideComesOut

\* Forks: a chain goes young only if it bears the number of one that went.
YoungChainsStay == Fork!YoungChainsStay

\* Forks: every alternate chain goes in the end.
ChainsGo == Fork!ChainsGo
=============================================================================
