SPECIFICATION FairSpec

CONSTANTS
  Tx = {t1, t2, t3}
  NoTx = NoTx
  Products <- CanWaterPack
  PhysicalOf <- PackOfCans
  PackSize <- PackOfTwo
  InitialStock <- ThreeCansOneWater
  Requests <- MixedRequests

INVARIANTS
  TypeOK
  StockNeverNegative
  LockedReadsAreCurrent

PROPERTIES
  EveryRequestEnds
