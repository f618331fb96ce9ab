SPECIFICATION Spec

CONSTANTS
  Clients = {c1, c2}
  Mesas = {}
  Balcoes = {b1}
  MaxOrders = 2
  MaxQty = 1
  MaxAlloc = 2
  MaxPieces = 2
  i1 = i1
  i2 = i2
  NoTable = NoTable
  Items <- TwoRows
  Products <- OneProduct
  ProductOf <- RowsOfOneProduct
  UnitPrice <- RowsAtOne

PROPERTIES
  OnlyOpenOrdersAreCancelled
