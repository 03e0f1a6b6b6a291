------------------------------ MODULE ReadLock ------------------------------
(***************************************************************************)
(* The lock of read_block in the optimised build: `locked` is a plain      *)
(* static int, so the compiler loads it once before the loop; a thread     *)
(* that finds it set spins for ever.  Testing and setting are two steps,   *)
(* so two threads may also both pass.  What then still protects the static *)
(* buffer compbuf is SQLite, which holds the connection's mutex during the *)
(* whole of sqlite3_exec, callbacks included.                              *)
(***************************************************************************)
EXTENDS Integers, FiniteSets

CONSTANTS
  Reader,  \* the threads that call read_block
  Row,     \* rows to be read
  NoRow    \* what a buffer holds before the first

ReadLockAssumption == Reader # {} /\ NoRow \notin Row

VARIABLES
  locked,   \* the static int
  mutex,    \* the threads inside sqlite3_exec: SQLite admits one
  compbuf,  \* the static buffer the callback decodes into
  pc, want, \* where a thread is, and the row it asked for
  block     \* what it has in *block

vars == <<locked, mutex, compbuf, pc, want, block>>
Inside == {"set", "exec", "decode", "inflate", "unlock"}
Goto(t, label) == pc' = [pc EXCEPT ![t] = label]
-----------------------------------------------------------------------------
Call(t) ==
  /\ pc[t] = "idle"
  /\ \E r \in Row : want' = [want EXCEPT ![t] = r]
  /\ Goto(t, "test")
  /\ UNCHANGED <<locked, mutex, compbuf, block>>

\* while (locked); with the load moved out of the loop.
Test(t) ==
  /\ pc[t] = "test"
  /\ Goto(t, IF locked THEN "spin" ELSE "set")
  /\ UNCHANGED <<locked, mutex, compbuf, want, block>>

Set(t) ==
  /\ pc[t] = "set"
  /\ locked' = TRUE
  /\ Goto(t, "exec")
  /\ UNCHANGED <<mutex, compbuf, want, block>>

\* Mutant: a connection opened without a mutex.
Exec_NoMutex(t) ==
  /\ pc[t] = "exec"
  /\ mutex' = mutex \cup {t}
  /\ Goto(t, "decode")
  /\ UNCHANGED <<locked, compbuf, want, block>>

\* sqlite3_exec takes the mutex and finds the row.
Exec(t) ==
  /\ pc[t] = "exec" /\ mutex = {}
  /\ mutex' = mutex \cup {t}
  /\ Goto(t, "decode")
  /\ UNCHANGED <<locked, compbuf, want, block>>

\* The callback: base32_decode into compbuf, then block_decompress from it.
Decode(t) ==
  /\ pc[t] = "decode"
  /\ compbuf' = want[t]
  /\ Goto(t, "inflate")
  /\ UNCHANGED <<locked, mutex, want, block>>

\* Mutant: the row is read again instead of being returned.
Inflate_Retry(t) ==
  /\ pc[t] = "inflate"
  /\ block' = [block EXCEPT ![t] = compbuf]
  /\ mutex' = mutex \ {t}
  /\ Goto(t, "exec")
  /\ UNCHANGED <<locked, compbuf, want>>

Inflate(t) ==
  /\ pc[t] = "inflate"
  /\ block' = [block EXCEPT ![t] = compbuf]
  /\ mutex' = mutex \ {t}
  /\ Goto(t, "unlock")
  /\ UNCHANGED <<locked, compbuf, want>>

\* Mutant: the lock is not given back.
Unlock_Forget(t) ==
  /\ pc[t] = "unlock"
  /\ Goto(t, "idle")
  /\ UNCHANGED <<locked, mutex, compbuf, want, block>>

Unlock(t) ==
  /\ pc[t] = "unlock"
  /\ locked' = FALSE
  /\ Goto(t, "idle")
  /\ UNCHANGED <<mutex, compbuf, want, block>>

Init ==
  /\ locked = FALSE /\ mutex = {} /\ compbuf = NoRow
  /\ pc = [t \in Reader |-> "idle"]
  /\ want = [t \in Reader |-> NoRow] /\ block = [t \in Reader |-> NoRow]

Read(t) == Test(t) \/ Set(t) \/ Exec(t) \/ Decode(t) \/ Inflate(t) \/ Unlock(t)

Next == \E t \in Reader : Call(t) \/ Read(t)

Spec == Init /\ [][Next]_vars
-----------------------------------------------------------------------------
TypeOK ==
  /\ locked \in BOOLEAN /\ mutex \in SUBSET Reader
  /\ compbuf \in Row \cup {NoRow}
  /\ pc \in [Reader -> {"idle", "test", "spin"} \cup Inside]
  /\ want \in [Reader -> Row \cup {NoRow}] /\ block \in [Reader -> Row \cup {NoRow}]

\* A caller gets the row it asked for, although two callers may pass the
\* lock together and decode into one buffer.
ReadsOwnRow == \A t \in Reader : pc[t] = "unlock" => block[t] = want[t]

\* The flag is only ever set while some thread is on its way to clear it.
SetMeansInside == locked => \E t \in Reader : pc[t] \in Inside \ {"set"}

\* A thread is lost only when it meets another one inside, which is what
\* module Node lets happen to its two readers.
LostOnlyInMeeting ==
  [][\A t \in Reader : pc[t] # "spin" /\ pc'[t] = "spin" =>
       \E u \in Reader \ {t} : pc[u] \in Inside]_pc

\* However many threads are lost, one is left.
OneIsLeft == \E t \in Reader : pc[t] # "spin"

\* Someone who is inside comes out again: a lost thread holds nothing up.
InsideComesOut == (\E t \in Reader : pc[t] \in Inside) ~> (\E t \in Reader : pc[t] = "unlock")
=============================================================================
