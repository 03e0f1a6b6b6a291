SPECIFICATION FairSpec
CONSTANTS
  Client = {c1, c2}
  Fd = {3, 4, 5}
  MaxRequest = 2
  MaxContent = 2
  NoClient = none
  Journal = journal
  Listener = listener
INVARIANTS DescriptorsAreOwn NobodyIsForgotten
PROPERTY EverybodyGetsATurn
