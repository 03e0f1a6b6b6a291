SPECIFICATION Spec
CONSTANTS
  OrphanAge = 1
  ChainAge = 2
  Span = 32
  Garbage = {0, 1}
  LastWrite = 2
  LastTime = 6
  MaxRows = 2
  MaxChain = 3
PROPERTY AlternateChainsStayTenMinutes
