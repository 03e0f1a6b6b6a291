\* The RPC thread and the monitor call get_height while the miner adds blocks.
SPECIFICATION Spec
CONSTANTS
  Caller = {"rpc", "monitor"}
  MaxRows = 4
INVARIANTS
  HeightIsRecent
  NoGaps
  GoodUnlessStale
PROPERTY RejectsOnlyIfStale
