\* Three transfers in three nodes, three keys, numbers of six bits, addresses
\* of two bytes, eras of five blocks.
SPECIFICATION Spec
CONSTANTS
  Item = {x, y, z}
  Address = {a1, a2, a3}
  NULL = NULL
  MaxOffers = 5
  Key = {1, 2, 3}
  Value = {7, 8}
  Bits = 2
  Words = 3
  Byte = {0, 165}
  Size = 2
  Width = 13
  Word = 65536
  TargetTime = 30
  MaxHash = 1000
  StartReward = 25000000
  FloorReward = 100000
  Era = 5
  LastHeight = 120
INVARIANTS
  OnlyClashesHurt
  TakenOnce
  SizeIsRightUntilRace
  ExactUnlessCarryLost
  PaysWhatWasAsked
PROPERTIES
  ImplementsFifo
  ImplementsKeyValue
  DivisionEnds
  RisesOnlyToFloor
CHECK_DEADLOCK FALSE
