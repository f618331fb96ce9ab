\* A ticket, three requests of any kind, and a product that runs low.
SPECIFICATION FairSpec
CONSTANTS
  pedido = pedido
  r1 = r1
  r2 = r2
  r3 = r3
  cerveja = cerveja
  NoProc = NoProc
  Tickets = {pedido}
  Req = {r1, r2, r3}
  Products = {cerveja}
INVARIANTS
  OneUnreadAlert
PROPERTIES
  TicketsArePrintedOrAnnounced
CHECK_DEADLOCK FALSE
