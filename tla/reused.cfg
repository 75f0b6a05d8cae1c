SPECIFICATION Spec
SYMMETRY SymmetricIds
CONSTANTS
  i1 = i1
  i2 = i2
  i3 = i3
  OrderId <- MCOrderId2
  Price <- MCPrice
  MaxPrice = 2
  Quantity <- MCQuantity
  QtyMod = 4
  PoolSize = 2
  MaxOrders = 3
  ReuseIds = TRUE
INVARIANTS RestingIndexed
