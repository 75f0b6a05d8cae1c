SPECIFICATION Spec
CONSTANTS
  o1 = o1
  o2 = o2
  o3 = o3
  o4 = o4
  bid = bid
  ask = ask
  null = null
  none = none
  Order <- MCOrder
  Level <- MCLevel
INVARIANTS PointersMatchQueues SweepInOrder
