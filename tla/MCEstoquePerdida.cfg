SPECIFICATION Spec

CONSTANTS
  Tx = {t1, t2}
  NoTx = NoTx
  Products <- CanWaterPack
  PhysicalOf <- PackOfCans
  PackSize <- PackOfTwo
  InitialStock <- ThreeCansOneWater
  Requests <- MixedRequests

PROPERTIES
  ConsumptionSubtracts
