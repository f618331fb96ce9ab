\* One sale of any kind, with either charge and both methods, over two sessions.
SPECIFICATION Spec
CONSTANTS
  comanda = comanda
  convertida = convertida
  direto = direto
  Orders = {comanda, convertida}
  Direct = {direto}
  Price = 5
  Cost = 2
  ServicePct = 10
  Tip = 1
  Charges = {"taxa", "gorjeta"}
  FeePct <- FeesOfTwo
  PartialAmounts = {6}
  Installments = {5, 6}
  ItemRefundable = {comanda}
  Convertible = {convertida}
  MaxPieces = 2
  MaxPartials = 2
  MaxSessions = 2
  MaxSales = 1
INVARIANTS
  TypeOK
  RefundsWithinPayments
  FiadoBalance
  ScreensAgree
  RevenueIsProductReceived
  CashPositionIsTheLedger
  UndoneSalesLeaveNothing
CHECK_DEADLOCK FALSE
