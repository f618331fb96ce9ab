SPECIFICATION FairSpec
CONSTANTS
  r1 = r1
  r2 = r2
  r3 = r3
  r4 = r4
  agendador = agendador
  NoProc = NoProc
  Req = {r1, r2}
  Scheduler = agendador
  Requests <- Everything
  Fee = 1
  Day = 2
  OpenMinute = 1
  CloseMinute = 0
  UserSeeded = TRUE
  MaxMinutes = 2
INVARIANTS
  InsertNeverCollides
  PositionShowsEachSessionOnce
  AutomaticCloseBalances
  DrawerIsHandedOver
PROPERTIES
  ClosedSessionsStay
  OnlyDailiesAreLate
  EveryoneEnds
CHECK_DEADLOCK FALSE
