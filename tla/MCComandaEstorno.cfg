SPECIFICATION Spec

CONSTANTS
  Clients = {c1}
  Mesas = {m1}
  Balcoes = {}
  MaxOrders = 1
  MaxQty = 2
  MaxAlloc = 4
  MaxPieces = 4
  i1 = i1
  i2 = i2
  NoTable = NoTable
  Items <- TwoRows
  Products <- CanAndPack
  ProductOf <- RowOfEach
  UnitPrice <- PriceOfEach

INVARIANTS
  EstornoReturnsAllStock
