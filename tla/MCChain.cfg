\* Three threads and two rows; two rows at a time on two alternate chains,
\* and a clock of twelve minutes.
SPECIFICATION FairSpec
CONSTANTS
  Reader = {rpc, miner, other}
  Row = {r1, r2}
  NoRow = norow
  OrphanAge = 1
  ChainAge = 2
  Span = 32
  Garbage = {0, 1}
  LastWrite = 2
  LastTime = 6
  MaxRows = 2
  MaxChain = 3
INVARIANTS
  ReadsOwnRow
  OneIsLeft
PROPERTIES
  InsideComesOut
  YoungChainsStay
  ChainsGo
