SPECIFICATION GatewaySpec
SYMMETRY SymmetricIds
CONSTANTS
  i1 = i1
  i2 = i2
  i3 = i3
  OrderId <- MCOrderId
  Price <- MCPrice
  MaxPrice = 6
  Quantity <- MCQuantity
  QtyMod = 5
  PoolSize = 3
  MaxOrders = 3
  ReuseIds = FALSE
  maxOrderQty = 3
  maxNotional = 3
  collarBps = 1
  maxMsgsPerWindow = 2
  windowDuration = 2
  BasisPoints = 2
  HalfWord = 7
  MsgPrice <- MCPrice
  MsgQty <- MCMsgQty
  MaxNow = 4
  MaxCount = 3
INVARIANTS RestingWithinLimits LessThanTwice
PROPERTIES TradesInsideCollar
