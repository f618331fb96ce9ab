\* Two broadcasts at once over three screens that come and go.
SPECIFICATION FairSpec
CONSTANTS
  venda = venda
  pedido = pedido
  Senders = {venda, pedido}
  MaxConnections = 3
INVARIANTS
  NobodyHearsTwice
  MissedOnlyWhenSomeoneLeft
PROPERTIES
  EveryBroadcastEnds
CHECK_DEADLOCK FALSE
