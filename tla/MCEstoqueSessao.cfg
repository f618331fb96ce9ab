SPECIFICATION Spec

CONSTANTS
  Tx = {t1, t2, t3, t4}
  NoTx = NoTx
  Products <- CanWaterPack
  PhysicalOf <- PackOfCans
  PackSize <- PackOfTwo
  InitialStock <- ThreeCansOneWater
  Requests <- SessionRequests

INVARIANTS
  StockMatchesHistory

PROPERTIES
  ImplementsShelf

SYMMETRY SymmetricTx
