\* Two people opening comandas on two tables and at the counter, two rows to sell.
SPECIFICATION Spec

CONSTANTS
  Clients = {c1, c2}
  Mesas = {m1, m2}
  Balcoes = {b1}
  MaxOrders = 2
  MaxQty = 2
  MaxAlloc = 2
  MaxPieces = 2
  i1 = i1
  i2 = i2
  NoTable = NoTable
  Items <- TwoRows
  Products <- CanAndPack
  ProductOf <- RowOfEach
  UnitPrice <- PriceOfEach

INVARIANTS
  TypeOK
  PaidWithinTotal
  LinesNeverOverpaid
  PaidLinesCovered
  StoredSumsMatchRows
  OpenLinesHoldStock
  NoLineReturnsMoreThanItTook
  CancelledOrdersKeepNoMoney

PROPERTIES
  CloseSettles
  TerminalOrdersFrozen
  UndoReturnsTheRest

SYMMETRY SymmetricMesas
