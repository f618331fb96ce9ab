SPECIFICATION Spec
CONSTANTS
  r1 = r1
  r2 = r2
  r3 = r3
  r4 = r4
  agendador = agendador
  NoProc = NoProc
  Req = {r1, r2, r3}
  Scheduler = agendador
  Requests <- OpenAndClose
  Fee = 1
  Day = 4
  OpenMinute = 3
  CloseMinute = 1
  UserSeeded = FALSE
  MaxMinutes = 2
INVARIANTS
  SessionsEnterThePositionOnce
CHECK_DEADLOCK FALSE
