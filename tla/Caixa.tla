-------------------------------- MODULE Caixa --------------------------------
(***************************************************************************)
(* The cash register: opening and closing of sessions by people and by the *)
(* scheduler, beside the requests that record something on a session.      *)
(*                                                                         *)
(* Each request is a PostgreSQL transaction at READ COMMITTED.  A handler  *)
(* selects the open session FOR UPDATE: the statement sees the session     *)
(* that is open at that moment, waits for whoever holds its row, and       *)
(* returns nothing if the row is no longer open by then.  pay_daily and    *)
(* open_order select it without the lock.  Openers first take an advisory  *)
(* lock.  The scheduler is one process (uvicorn runs one worker) that      *)
(* tries to open and then to close once a minute, and only in the minutes  *)
(* of the settings; a minute that finds it busy is skipped.                *)
(*                                                                         *)
(* created_at and opened_at are now() of the transaction, the moment its   *)
(* first statement (the user of the token) ran, and closed_at is the clock *)
(* at the close: "now" orders them.  Role and form checks, e-mails and     *)
(* notifications (module Avisos) are left out, and so are the movements    *)
(* of the cash position that people write and delete by hand.              *)
(***************************************************************************)
EXTENDS Integers, Sequences, Somas

CONSTANTS
  Req,          \* requests; each runs once
  Scheduler,    \* the process of the scheduler
  NoProc,       \* the holder of a free lock
  Requests,     \* what a request may ask: [kind, amount]
  Fee,          \* fee of a receipt by card
  Day,          \* minutes of a day
  OpenMinute, CloseMinute,  \* settings auto_open_time, auto_close_time
  UserSeeded,   \* whether the user "sistema" is already there
  MaxMinutes    \* bound of the clock

Proc == Req \cup {Scheduler}

Kind == {"abrir", "fechar", "dinheiro", "cartao", "encerrar", "estorno",
         "sangria", "suprimento", "diaria", "comanda", "auto_abrir", "auto_fechar"}
Operation == [kind : Kind, amount : Nat]

ASSUME Caixa_Processes ==
  IsFiniteSet(Req) /\ Scheduler \notin Req /\ NoProc \notin Req \cup {Scheduler}
ASSUME Caixa_Requests ==
  /\ Requests \subseteq Operation
  /\ \A q \in Requests : q.kind \notin {"auto_abrir", "auto_fechar"}
  /\ \A q \in Requests : q.kind \notin {"abrir", "fechar"} => q.amount > 0
ASSUME Caixa_Settings ==
  /\ Fee \in Nat /\ Day \in Nat \ {0} /\ MaxMinutes \in Nat
  /\ OpenMinute \in Nat /\ CloseMinute \in Nat /\ UserSeeded \in BOOLEAN

VARIABLES
  sessions,    \* cash_register_sessions
  position,    \* the "Fechamento de caixa" and "Taxa de cartão" movements
  openOrders,  \* number of open comandas
  userThere,   \* whether the user "sistema" exists
  openLock,    \* advisory lock cash_register_open
  rowHolder,   \* who holds the row of each session
  step,        \* where each process is
  op,          \* what it was asked
  born,        \* when its transaction began
  target,      \* the session its SELECT saw
  counted,     \* movements the scheduler loaded with the session
  row,         \* the row each request left in the tables of the session
  now, minute

tables == <<sessions, position, openOrders, userThere, row>>
locks == <<openLock, rowHolder>>
local == <<step, op, born, target, counted>>
vars == <<tables, locks, local, now, minute>>

Steps == {"ocioso", "fila", "procura", "espera", "dentro", "fecha",
          "abertura", "fechamento", "fim"}
Idle == [kind |-> "diaria", amount |-> 0]
NoRow == [session |-> 0, kind |-> "diaria", amount |-> 0, created_at |-> 0]
Ids == DOMAIN sessions

Session == [open : BOOLEAN, initial : Int, final : Int, opened_at : Nat,
            closed_at : Nat, by : Proc, closed_by : Proc \cup {NoProc}]
PositionMovement == [title : {"fechamento", "taxa"}, session : Nat, amount : Nat]
RecordedRow == [session : Nat, kind : Kind, amount : Nat, created_at : Nat]

TypeOK ==
  /\ sessions \in Seq(Session)
  /\ position \in Seq(PositionMovement)
  /\ openOrders \in Nat
  /\ userThere \in BOOLEAN
  /\ openLock \in Proc \cup {NoProc}
  /\ rowHolder \in Seq(Proc \cup {NoProc}) /\ Len(rowHolder) = Len(sessions)
  /\ step \in [Proc -> Steps]
  /\ op \in [Proc -> Operation]
  /\ born \in [Proc -> Nat]
  /\ target \in [Proc -> Nat]
  /\ counted \in Int
  /\ row \in [Req -> RecordedRow]
  /\ now \in Nat /\ minute \in Nat

Init ==
  /\ sessions = <<>> /\ position = <<>>
  /\ openOrders = 0
  /\ userThere = UserSeeded
  /\ openLock = NoProc /\ rowHolder = <<>>
  /\ step = [p \in Proc |-> "ocioso"]
  /\ op = [p \in Proc |-> Idle]
  /\ born = [p \in Proc |-> 0]
  /\ target = [p \in Proc |-> 0]
  /\ counted = 0
  /\ row = [r \in Req |-> NoRow]
  /\ now = 0 /\ minute = 0

-----------------------------------------------------------------------------
(* The open sessions, and the one a SELECT returns (0: none).              *)
OpenIds == {s \in Ids : sessions[s].open}
OpenSession == IF OpenIds = {} THEN 0 ELSE CHOOSE s \in OpenIds : TRUE

Opens(p) == op[p].kind \in {"abrir", "auto_abrir"}

(* Who selects the session FOR UPDATE.  Mutant: a movement reads it only.  *)
AllButMovements(p) == op[p].kind \notin {"diaria", "comanda", "sangria", "suprimento"}
Locks(p) == op[p].kind \notin {"diaria", "comanda"}

(* The sum of the rows of kind K of session s, and of those that count     *)
(* from its opening on.                                                    *)
Of(s, K) == {r \in Req : row[r].session = s /\ row[r].kind \in K}
Amounts == [r \in Req |-> row[r].amount]
Recorded(s, K) == SumF(Where(Amounts, Of(s, K)))
SinceOpening(s, K) ==
  SumF(Where(Amounts, {r \in Of(s, K) : row[r].created_at >= sessions[s].opened_at}))

(* compute_cash_inflows.                                                   *)
CashInflows(s) == SinceOpening(s, {"dinheiro", "encerrar"}) - SinceOpening(s, {"estorno"})
Movements(s) == Recorded(s, {"suprimento"}) - Recorded(s, {"sangria"})
Expected(s) == sessions[s].initial + CashInflows(s) + Movements(s)

(* compute_session_close_metrics.                                          *)
Gross(s) == Recorded(s, {"dinheiro", "cartao", "encerrar"})
CardFees(s) == SumF([r \in Of(s, {"cartao"}) |-> Fee])

(* _get_last_closed_session.                                               *)
ClosedIds == {s \in Ids : ~sessions[s].open}
LastClosed ==
  CHOOSE s \in ClosedIds : \A t \in ClosedIds : sessions[t].closed_at <= sessions[s].closed_at

(* initial_cash of a new session.  Mutant: the scheduler opens an empty    *)
(* drawer.                                                                 *)
EmptyDrawer(p) == op[p].amount
InitialCash(p) ==
  IF op[p].kind = "abrir" THEN op[p].amount
  ELSE IF ClosedIds = {} THEN 0 ELSE sessions[LastClosed].final

(* The end of a transaction frees its locks and what it had loaded; the    *)
(* scheduler goes from the opening to the closing.  Mutant: the queue of   *)
(* the openers is not left.                                                *)
NextStep(p) ==
  IF p # Scheduler THEN "fim"
  ELSE IF op[p].kind = "auto_abrir" THEN "fechamento" ELSE "ocioso"
Unlocked(p) == [s \in DOMAIN rowHolder |-> IF rowHolder[s] = p THEN NoProc ELSE rowHolder[s]]
StillQueued(p) == openLock
Released(p) == IF openLock = p THEN NoProc ELSE openLock
Forgets(p) ==
  /\ step' = [step EXCEPT ![p] = NextStep(p)]
  /\ op' = [op EXCEPT ![p] = Idle]
  /\ born' = [born EXCEPT ![p] = 0]
  /\ target' = [target EXCEPT ![p] = 0]
  /\ counted' = IF p = Scheduler THEN 0 ELSE counted
Ends(p) ==
  /\ Forgets(p)
  /\ openLock' = Released(p)
  /\ rowHolder' = Unlocked(p)

Moves(p, to) == step' = [step EXCEPT ![p] = to]

-----------------------------------------------------------------------------
(* A request arrives: its transaction begins.                              *)
Arrive(r) ==
  /\ step[r] = "ocioso"
  /\ \E q \in Requests :
       /\ op' = [op EXCEPT ![r] = q]
       /\ Moves(r, IF q.kind = "abrir" THEN "fila" ELSE "procura")
  /\ born' = [born EXCEPT ![r] = now + 1]
  /\ now' = now + 1
  /\ UNCHANGED <<tables, locks, target, counted, minute>>

(* pg_advisory_xact_lock.  Mutant: openers do not queue.                   *)
NobodyQueues(p) == TRUE
MayOpen(p) == openLock = NoProc
Queue(p) ==
  /\ step[p] = "fila" /\ MayOpen(p)
  /\ openLock' = p
  /\ Moves(p, "procura")
  /\ UNCHANGED <<tables, rowHolder, op, born, target, counted, now, minute>>

(* SELECT ... WHERE status = 'open'.                                       *)
NeedsSession(p) == ~Opens(p) /\ op[p].kind # "diaria"
Seek(p) ==
  /\ step[p] = "procura"
  /\ OpenSession = 0 => ~NeedsSession(p)
  /\ target' = [target EXCEPT ![p] = OpenSession]
  /\ Moves(p, IF OpenSession # 0 /\ Locks(p) THEN "espera" ELSE "dentro")
  /\ UNCHANGED <<tables, locks, op, born, counted, now, minute>>

RegisterClosed(p) ==
  /\ step[p] = "procura" /\ OpenSession = 0 /\ NeedsSession(p)
  /\ Ends(p)
  /\ UNCHANGED <<tables, now, minute>>

(* FOR UPDATE evaluates the WHERE again on the row it waited for.  Mutant: *)
(* what the statement saw first is trusted.                                *)
Free(p) == rowHolder[target[p]] = NoProc
AsSeen(p) == target[p] # 0
StillOpen(p) == sessions[target[p]].open

(* An opener that finds an open session refuses; the others go on with it. *)
Enter(p) ==
  /\ step[p] = "espera" /\ Free(p) /\ StillOpen(p) /\ ~Opens(p)
  /\ rowHolder' = [rowHolder EXCEPT ![target[p]] = p]
  /\ counted' = IF p = Scheduler THEN Movements(target[p]) ELSE counted
  /\ Moves(p, "dentro")
  /\ UNCHANGED <<tables, openLock, op, born, target, now, minute>>

TooLate(p) ==
  /\ step[p] = "espera" /\ Free(p) /\ ~StillOpen(p)
  /\ IF Opens(p)
     THEN Moves(p, "dentro") /\ UNCHANGED <<locks, op, born, target, counted>>
     ELSE Ends(p)
  /\ UNCHANGED <<tables, now, minute>>

AlreadyOpen(p) ==
  /\ step[p] = "espera" /\ Free(p) /\ StillOpen(p) /\ Opens(p)
  /\ Ends(p)
  /\ UNCHANGED <<tables, now, minute>>

-----------------------------------------------------------------------------
(* The partial unique index uq_cash_register_single_open.                  *)
Collides == OpenIds # {}

Insert(p) ==
  /\ step[p] = "dentro" /\ Opens(p)
  /\ IF Collides
     THEN UNCHANGED sessions /\ rowHolder' = Unlocked(p)  \* the IntegrityError
     ELSE /\ sessions' = Append(sessions,
               [open |-> TRUE, initial |-> InitialCash(p), final |-> 0,
                opened_at |-> born[p], closed_at |-> 0, by |-> p, closed_by |-> NoProc])
          /\ rowHolder' = Append(Unlocked(p), NoProc)
  /\ Forgets(p)
  /\ openLock' = Released(p)
  /\ UNCHANGED <<position, openOrders, userThere, row, now, minute>>

(* The count of open comandas before a close.                              *)
Closes(p) == op[p].kind \in {"fechar", "auto_fechar"}

CloseRefused(p) ==
  /\ step[p] = "dentro" /\ Closes(p) /\ openOrders > 0
  /\ Ends(p)
  /\ UNCHANGED <<tables, now, minute>>

(* _ensure_system_user commits when it creates the user: the transaction,  *)
(* with its locks, ends there, and the close goes on with the session it   *)
(* loaded.                                                                 *)
NobodyOpen(p) ==
  /\ step[p] = "dentro" /\ Closes(p) /\ openOrders = 0
  /\ Moves(p, "fecha")
  /\ IF p = Scheduler /\ ~userThere
     THEN rowHolder' = Unlocked(p) /\ userThere' = TRUE
     ELSE UNCHANGED <<rowHolder, userThere>>
  /\ UNCHANGED <<sessions, position, openOrders, row, openLock, op, born, target, counted,
                 now, minute>>

(* final_cash of a close.                                                  *)
FinalCash(p) ==
  IF p = Scheduler
  THEN sessions[target[p]].initial + CashInflows(target[p]) + counted
  ELSE op[p].amount

(* finalize_cash_session and the commit; the UPDATE waits for the row.     *)
Movement(title, s, amount) ==
  IF amount > 0 THEN <<[title |-> title, session |-> s, amount |-> amount]>> ELSE <<>>
ClosingMovements(s) == Movement("fechamento", s, Gross(s)) \o Movement("taxa", s, CardFees(s))

Finalize(p) ==
  /\ step[p] = "fecha" /\ rowHolder[target[p]] \in {NoProc, p}
  /\ sessions' = [sessions EXCEPT ![target[p]] =
       [@ EXCEPT !.open = FALSE, !.final = FinalCash(p), !.closed_at = now + 1,
                 !.closed_by = p]]
  /\ position' = position \o ClosingMovements(target[p])
  /\ now' = now + 1
  /\ Ends(p)
  /\ UNCHANGED <<openOrders, userThere, row, minute>>

(* A row recorded on the session: receipts of fiados and of comandas,      *)
(* which they close, refunds, movements, and the daily of an employee.     *)
OrderThere(p) == op[p].kind = "encerrar" => openOrders > 0

Record(p) ==
  /\ step[p] = "dentro" /\ ~Opens(p) /\ ~Closes(p) /\ op[p].kind # "comanda"
  /\ OrderThere(p)
  /\ row' = [row EXCEPT ![p] = [session |-> target[p], kind |-> op[p].kind,
                               amount |-> op[p].amount, created_at |-> born[p]]]
  /\ openOrders' = IF op[p].kind = "encerrar" THEN openOrders - 1 ELSE openOrders
  /\ Ends(p)
  /\ UNCHANGED <<sessions, position, userThere, now, minute>>

NothingToClose(p) ==
  /\ step[p] = "dentro" /\ ~OrderThere(p)
  /\ Ends(p)
  /\ UNCHANGED <<tables, now, minute>>

OpenOrder(p) ==
  /\ step[p] = "dentro" /\ op[p].kind = "comanda"
  /\ openOrders' = openOrders + 1
  /\ Ends(p)
  /\ UNCHANGED <<sessions, position, userThere, row, now, minute>>

-----------------------------------------------------------------------------
(* A new minute: the tick of a scheduler that is still busy is skipped.    *)
Clock ==
  /\ minute < MaxMinutes
  /\ minute' = minute + 1
  /\ step' = [step EXCEPT ![Scheduler] = IF @ = "ocioso" THEN "abertura" ELSE @]
  /\ UNCHANGED <<tables, locks, op, born, target, counted, now>>

(* auto_open_cash_register up to the advisory lock.                        *)
TickOpen ==
  /\ step[Scheduler] = "abertura"
  /\ IF minute % Day = OpenMinute
     THEN /\ userThere' = TRUE
          /\ op' = [op EXCEPT ![Scheduler] = [kind |-> "auto_abrir", amount |-> 0]]
          /\ born' = [born EXCEPT ![Scheduler] = now + 1]
          /\ now' = now + 1
          /\ Moves(Scheduler, "fila")
     ELSE /\ Moves(Scheduler, "fechamento")
          /\ UNCHANGED <<userThere, op, born, now>>
  /\ UNCHANGED <<sessions, position, openOrders, row, locks, target, counted, minute>>

(* auto_close_cash_register up to the row lock.  Its own advisory lock is  *)
(* never contended: only the scheduler takes it.                           *)
TickClose ==
  /\ step[Scheduler] = "fechamento"
  /\ IF minute % Day = CloseMinute
     THEN /\ op' = [op EXCEPT ![Scheduler] = [kind |-> "auto_fechar", amount |-> 0]]
          /\ Moves(Scheduler, "procura")
     ELSE Moves(Scheduler, "ocioso") /\ UNCHANGED op
  /\ UNCHANGED <<tables, locks, born, target, counted, now, minute>>

(* The server stops and starts again: PostgreSQL rolls back whatever had   *)
(* not committed.                                                          *)
Running(p) == step[p] \notin {"ocioso", "fim"}
Restart ==
  /\ \E p \in Proc : Running(p)
  /\ step' = [p \in Proc |->
       IF ~Running(p) THEN step[p] ELSE IF p = Scheduler THEN "ocioso" ELSE "fim"]
  /\ op' = [p \in Proc |-> Idle]
  /\ born' = [p \in Proc |-> 0]
  /\ target' = [p \in Proc |-> 0]
  /\ counted' = 0
  /\ openLock' = NoProc
  /\ rowHolder' = [s \in Ids |-> NoProc]
  /\ UNCHANGED <<tables, now, minute>>

-----------------------------------------------------------------------------
(* Once it has begun, a process goes on by itself.                         *)
Proceed(p) ==
  \/ Queue(p) \/ Seek(p) \/ RegisterClosed(p)
  \/ Enter(p) \/ TooLate(p) \/ AlreadyOpen(p)
  \/ Insert(p)
  \/ CloseRefused(p) \/ NobodyOpen(p) \/ Finalize(p)
  \/ Record(p) \/ NothingToClose(p) \/ OpenOrder(p)

Tick == TickOpen \/ TickClose

Next ==
  \/ \E r \in Req : Arrive(r)
  \/ \E p \in Proc : Proceed(p)
  \/ Clock
  \/ Tick
  \/ Restart

Spec == Init /\ [][Next]_vars

(* The event loop resumes a handler when its query returns, and PostgreSQL *)
(* answers a query when the lock it waits for is free.                     *)
FairSpec == Spec /\ WF_vars(Tick) /\ \A p \in Proc : WF_vars(Proceed(p))

-----------------------------------------------------------------------------
(* Properties.                                                             *)

(* The openers of the register queue: none reaches its INSERT while a      *)
(* session is open, so the IntegrityError both handlers catch never comes. *)
InsertNeverCollides == \A p \in Proc : step[p] = "dentro" /\ Opens(p) => ~Collides

(* docs/FORMULAS.md, section 6: the cash position shows the receipts of a  *)
(* session once, when it closes, and never again.                          *)
Titled(title, s) == {i \in DOMAIN position : position[i].title = title /\ position[i].session = s}
Shows(title, s, amount) ==
  IF amount > 0
  THEN \E i \in DOMAIN position : Titled(title, s) = {i} /\ position[i].amount = amount
  ELSE Titled(title, s) = {}
PositionShowsEachSessionOnce ==
  \A s \in Ids :
    /\ Shows("fechamento", s, IF sessions[s].open THEN 0 ELSE Gross(s))
    /\ Shows("taxa", s, IF sessions[s].open THEN 0 ELSE CardFees(s))

(* docs/FLUXO_CAIXA.md: an automatic close leaves no difference between    *)
(* the counted and the expected cash, whenever the report is asked for.    *)
AutomaticCloseBalances ==
  \A s \in Ids :
    ~sessions[s].open /\ sessions[s].closed_by = Scheduler => sessions[s].final = Expected(s)

(* The money in the drawer is handed over: a session opened by the         *)
(* scheduler starts with what the session before it was closed with.       *)
DrawerIsHandedOver ==
  \A s \in Ids :
    s > 1 /\ sessions[s].by = Scheduler => sessions[s].initial = sessions[s - 1].final

(* At the moment it is written, a row goes to a session that is open,      *)
(* whatever closed since its request began.  Only pay_daily, which takes   *)
(* no lock, may find no session or reach one that closed meanwhile, and    *)
(* even it never reaches one that was over before it began.                *)
LateDaily(r) ==
  /\ row[r].kind = "diaria"
  /\ row[r].session = 0 \/ sessions[row[r].session].closed_at > row[r].created_at
OnlyDailiesAreLate ==
  [][\A r \in Req : row'[r] # row[r] => row'[r].session \in OpenIds \/ LateDaily(r)']_vars

(* What a closed session says of its drawer stays as it was closed.        *)
ClosedSessionsStay ==
  [][\A s \in Ids : ~sessions[s].open =>
       sessions'[s] = sessions[s] /\ Expected(s)' = Expected(s)]_vars

(* Every request is answered and every tick of the scheduler ends.         *)
EveryoneEnds ==
  /\ \A r \in Req : step[r] # "ocioso" ~> step[r] = "fim"
  /\ step[Scheduler] # "ocioso" ~> step[Scheduler] = "ocioso"

(* The same as PositionShowsEachSessionOnce, as docs/FORMULAS.md states    *)
(* it: a session enters the cash position once.                            *)
SessionsEnterThePositionOnce ==
  \A s \in Ids : \A i, j \in Titled("fechamento", s) : i = j

(* docs/FLUXO_CAIXA.md: cash_inflows is the sum of all the payments in     *)
(* cash of the session.                                                    *)
EveryCashPaymentIsExpected ==
  \A s \in Ids : CashInflows(s) = Recorded(s, {"dinheiro", "encerrar"}) - Recorded(s, {"estorno"})
=============================================================================
