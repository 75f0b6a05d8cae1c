SPECIFICATION MakerSpec
CONSTANTS
  OrderId <- MCOrderId
  Price <- MCPrice
  MaxPrice = 22
  Quantity <- MCQuantity
  QtyMod = 64
  PoolSize = 12
  MaxOrders = 12
  ReuseIds = FALSE
  halfSpread = 1
  quoteSize = 2
  maxPosition = 2
  skewPerUnit = 1
  maxLoss = 1
  startingId = 20
  seedDepthLevels = 2
  seedQtyPerLevel = 1
  seedTickSize = 1
  startPrice = 5
  numTicks = 4
  SimPrice <- MCSimPrice
  SimQuantity <- MCQuantity
INVARIANTS HardCap
