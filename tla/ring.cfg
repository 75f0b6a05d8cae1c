SPECIFICATION FairSpec
CONSTANTS
  a = a
  b = b
  NoItem = NoItem
  Item <- MCItem
  Size = 3
  Words = 2
  Spins = TRUE
INVARIANTS TypeOK NoSharedSlot
PROPERTIES ImplementsFifo PushReturns AllReceived
