SPECIFICATION FeedFairSpec
CONSTANTS
  i1 = i1
  OrderId <- MCOrderId
  Price <- MCPrice
  MaxPrice = 2
  Quantity <- MCQuantity
  QtyMod = 4
  PoolSize = 2
  MaxOrders = 2
  ReuseIds = TRUE
  Slots = 2
INVARIANTS CaughtUp
PROPERTIES LastTopArrives
