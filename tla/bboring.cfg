SPECIFICATION ProducerFairSpec
CONSTANTS
  a = a
  b = b
  NoItem = NoItem
  Item <- MCItem
  Size = 3
  Words = 2
  Spins = FALSE
PROPERTIES ImplementsFifo PushReturns
