------------------------------- MODULE Mesas -------------------------------
(***************************************************************************)
(* tables.status and tables.active next to the comandas of each table: the *)
(* requests that put a comanda on a table, take one off it or archive it,  *)
(* interleaved as PostgreSQL transactions at READ COMMITTED.               *)
(*                                                                         *)
(* Every request reads committed rows and the rows it wrote itself.  A     *)
(* SELECT ... FOR UPDATE waits for the holder of the row and then tests    *)
(* its WHERE on the new row.  The table is counted after the flush of the  *)
(* comanda's own change, its new status is written by the commit, and only *)
(* if it differs from the one the session has read.  close_order and       *)
(* cancel_order hold the open cash session as well; move_order and a       *)
(* cancellation with the register closed do not.  A conversion to fiado    *)
(* locks and counts as the cancellation of an unpaid comanda with the      *)
(* register open does, and is one here.                                    *)
(*                                                                         *)
(* Abstracted: the bills and the stock (modules Comanda and Estoque), the  *)
(* counter, which open_order treats in its own way (module Comanda) and    *)
(* which is neither moved to nor archived, and the wait for the cash       *)
(* session, before which a request has done nothing (module Caixa).        *)
(***************************************************************************)
EXTENDS Naturals, FiniteSets

CONSTANTS
  Requests,      \* concurrent callers, one request after another
  NoRequest,     \* the holder of a free row
  Mesas,         \* tables with is_balcao = FALSE
  NoTable,
  MaxOrders      \* bound: comandas ever opened

Orders == 1..MaxOrders
NoOrder == 0

ASSUME RequestsAssumption == NoRequest \notin Requests
ASSUME MesasAssumption == NoTable \notin Mesas

VARIABLES
  sessionOpen,    \* a cash_register_sessions row has status "open"
  sessionHolder,  \* who holds that row
  orderStatus,    \* "nenhuma" before the row exists, "aberta", then "encerrada"
  orderTable,     \* orders.table_id
  orderHolder,    \* who holds the row of each comanda
  status,         \* tables.status
  active,         \* tables.active
  tableHolder,    \* who holds the row of each table
  request,        \* what each caller is doing
  crossed,        \* history: tables two requests were leaving at once
  overtaken       \* history: tables a comanda reached behind a request's back

lockVars == <<sessionHolder, orderHolder, tableHolder>>
orderVars == <<orderStatus, orderTable>>
tableVars == <<status, active>>
historyVars == <<crossed, overtaken>>
vars == <<sessionOpen, lockVars, orderVars, tableVars, request, historyVars>>

Status == {"vazia", "ocupada"}
Step == {"ocioso",     \* no request
         "decidido",   \* abrir, arquivar: all is read, the commit is left
         "chamado",    \* on the way to the row of the comanda
         "trancada",   \* the comanda is locked and open, its table read
         "origem",     \* mover: the table of origin is locked too
         "destino",    \* mover: and the destination
         "contada"}    \* the table is counted, the commit is left
Op == {"nenhuma", "abrir", "fechar", "cancelar", "mover", "arquivar"}
Request == [op : Op, step : Step, order : Orders \cup {NoOrder},
            table : Mesas \cup {NoTable},   \* the table it leaves, opens or archives
            to : Mesas \cup {NoTable},      \* the table it moves to
            seen : Status,                  \* the status it read
            last : BOOLEAN,                 \* it found no other comanda there
            session : BOOLEAN]              \* it holds the cash session
Free == [op |-> "nenhuma", step |-> "ocioso", order |-> NoOrder, table |-> NoTable,
         to |-> NoTable, seen |-> "vazia", last |-> FALSE, session |-> FALSE]

TypeOK ==
  /\ sessionOpen \in BOOLEAN
  /\ sessionHolder \in Requests \cup {NoRequest}
  /\ orderStatus \in [Orders -> {"nenhuma", "aberta", "encerrada"}]
  /\ orderTable \in [Orders -> Mesas \cup {NoTable}]
  /\ orderHolder \in [Orders -> Requests \cup {NoRequest}]
  /\ status \in [Mesas -> Status]
  /\ active \in [Mesas -> BOOLEAN]
  /\ tableHolder \in [Mesas -> Requests \cup {NoRequest}]
  /\ request \in [Requests -> Request]
  /\ crossed \subseteq Mesas
  /\ overtaken \subseteq Mesas

Init ==
  /\ sessionOpen = FALSE
  /\ sessionHolder = NoRequest
  /\ orderStatus = [o \in Orders |-> "nenhuma"]
  /\ orderTable = [o \in Orders |-> NoTable]
  /\ orderHolder = [o \in Orders |-> NoRequest]
  /\ status = [t \in Mesas |-> "vazia"]
  /\ active = [t \in Mesas |-> TRUE]
  /\ tableHolder = [t \in Mesas |-> NoRequest]
  /\ request = [r \in Requests |-> Free]
  /\ crossed = {}
  /\ overtaken = {}

-----------------------------------------------------------------------------
OpenOn(t) == {o \in Orders : orderStatus[o] = "aberta" /\ orderTable[o] = t}

(* A request on its way off table t, its comanda locked.                   *)
Leaves(r, t) ==
  request[r].table = t /\ request[r].step \in {"trancada", "origem", "destino", "contada"}

(* Requests that have made up their mind that t has no (other) comanda.    *)
ThinksEmpty(r, t) ==
  /\ request[r].table = t
  /\ \/ request[r].step = "contada" /\ request[r].last
     \/ request[r].op = "arquivar"

(* Commit or rollback: every row the request held is free.  Mutant: the    *)
(* transaction is left open.                                               *)
LeaveOpen(holder, r) == holder
Release(holder, r) == [x \in DOMAIN holder |-> IF holder[x] = r THEN NoRequest ELSE holder[x]]
End(r) ==
  /\ request' = [request EXCEPT ![r] = Free]
  /\ sessionHolder' = IF sessionHolder = r THEN NoRequest ELSE sessionHolder
  /\ orderHolder' = Release(orderHolder, r)
  /\ tableHolder' = Release(tableHolder, r)

(* The tables reached out of turn, as long as a comanda is on them.        *)
Overtaking(tables) == overtaken' = {t \in overtaken \cup tables : OpenOn(t)' # {}}

-----------------------------------------------------------------------------
(* open_order.                                                             *)

(* Bound: the openings under way find a row each.                          *)
RowsLeft ==
  Cardinality({o \in Orders : orderStatus[o] = "nenhuma"})
    > Cardinality({q \in Requests : request[q].op = "abrir"})

(* The table and the session are read, neither of them locked.             *)
OpenRead(r, t) ==
  /\ request[r].step = "ocioso"
  /\ RowsLeft
  /\ active[t] /\ sessionOpen
  /\ request' = [request EXCEPT ![r] = [Free EXCEPT !.op = "abrir", !.step = "decidido",
                                                    !.table = t, !.seen = status[t]]]
  /\ UNCHANGED <<sessionOpen, lockVars, orderVars, tableVars, historyVars>>

(* INSERT (which waits for a move that holds the table, as its foreign key *)
(* does) and commit.                                                       *)
OpenCommit(r) ==
  LET t == request[r].table
  IN /\ request[r].op = "abrir"
     /\ tableHolder[t] = NoRequest
     /\ \E o \in Orders :
          /\ orderStatus[o] = "nenhuma"
          /\ \A d \in Orders : d < o => orderStatus[d] # "nenhuma"
          /\ orderStatus' = [orderStatus EXCEPT ![o] = "aberta"]
          /\ orderTable' = [orderTable EXCEPT ![o] = t]
     /\ status' = IF request[r].seen = "ocupada" THEN status
                  ELSE [status EXCEPT ![t] = "ocupada"]
     /\ End(r)
     /\ Overtaking(IF \/ request[r].seen # status[t] \/ ~active[t]
                      \/ \E q \in Requests : ThinksEmpty(q, t)
                   THEN {t} ELSE {})
     /\ crossed' = crossed \ {t}
     /\ UNCHANGED <<sessionOpen, active>>

-----------------------------------------------------------------------------
(* The requests that take a comanda off its table, up to its lock.         *)

Call(r, op, o, to, session) ==
  /\ request[r].step = "ocioso"
  /\ orderStatus[o] = "aberta"
  /\ request' = [request EXCEPT ![r] = [Free EXCEPT !.op = op, !.step = "chamado", !.order = o,
                                                    !.table = orderTable[o], !.to = to,
                                                    !.session = session]]
  /\ session => sessionHolder = NoRequest
  /\ sessionHolder' = IF session THEN r ELSE sessionHolder
  /\ UNCHANGED <<sessionOpen, orderHolder, tableHolder, orderVars, tableVars, historyVars>>

CloseCall(r, o) == sessionOpen /\ Call(r, "fechar", o, NoTable, TRUE)

(* cancel_order goes on without a session; a conversion does not.          *)
CancelCall(r, o) == Call(r, "cancelar", o, NoTable, sessionOpen)

MoveCall(r, o, to) == Call(r, "mover", o, to, FALSE)

(* What the SELECT of the comanda asks of its row.  close_order looks for  *)
(* it on the table of the page.                                            *)
StillThere(r) ==
  LET o == request[r].order
  IN /\ orderStatus[o] = "aberta"
     /\ request[r].op = "fechar" => orderTable[o] = request[r].table

(* The lock of the comanda.  Mutant: a plain SELECT.                       *)
NoRowLock(o) == TRUE
RowIsFree(o) == orderHolder[o] = NoRequest

(* The comanda is locked, found open, and the status of its table is read. *)
LockOrder(r) ==
  LET o == request[r].order
      t == orderTable[o]
  IN /\ request[r].step = "chamado"
     /\ RowIsFree(o) /\ StillThere(r)
     /\ orderHolder' = [orderHolder EXCEPT ![o] = r]
     /\ request' = [request EXCEPT ![r] = [@ EXCEPT !.step = "trancada", !.table = t,
                                                    !.seen = status[t]]]
     /\ crossed' = crossed \cup
          {u \in {t} : \E q \in Requests : Leaves(q, u) /\ ~(request[q].session /\ request[r].session)}
     /\ UNCHANGED <<sessionOpen, sessionHolder, tableHolder, orderVars, tableVars, overtaken>>

(* The comanda was settled or moved meanwhile: an error.                   *)
OrderGone(r) ==
  /\ request[r].step = "chamado"
  /\ RowIsFree(request[r].order) /\ ~StillThere(r)
  /\ End(r)
  /\ UNCHANGED <<sessionOpen, orderVars, tableVars, historyVars>>

-----------------------------------------------------------------------------
(* move_order: the rows of both tables.                                    *)

LockOrigin(r) ==
  LET t == request[r].table
  IN /\ request[r].op = "mover" /\ request[r].step = "trancada"
     /\ tableHolder[t] = NoRequest
     /\ t # request[r].to
     /\ tableHolder' = [tableHolder EXCEPT ![t] = r]
     /\ request' = [request EXCEPT ![r].step = "origem"]
     /\ UNCHANGED <<sessionOpen, sessionHolder, orderHolder, orderVars, tableVars, historyVars>>

LockDestination(r) ==
  LET t == request[r].to
  IN /\ request[r].step = "origem"
     /\ tableHolder[t] = NoRequest
     /\ active[t]
     /\ tableHolder' = [tableHolder EXCEPT ![t] = r]
     /\ request' = [request EXCEPT ![r].step = "destino"]
     /\ UNCHANGED <<sessionOpen, sessionHolder, orderHolder, orderVars, tableVars, historyVars>>

(* The comanda is on the destination already, or that table is archived.   *)
MoveRefused(r) ==
  /\ \/ /\ request[r].op = "mover" /\ request[r].step = "trancada"
        /\ tableHolder[request[r].table] = NoRequest
        /\ request[r].table = request[r].to
     \/ /\ request[r].step = "origem"
        /\ tableHolder[request[r].to] = NoRequest
        /\ ~active[request[r].to]
  /\ End(r)
  /\ UNCHANGED <<sessionOpen, orderVars, tableVars, historyVars>>

(* The table a move waits for, and whoever holds it.                       *)
WaitsFor(r) ==
  IF request[r].op = "mover" /\ request[r].step = "trancada" THEN tableHolder[request[r].table]
  ELSE IF request[r].step = "origem" THEN tableHolder[request[r].to]
  ELSE NoRequest

(* Moves that wait for each other: PostgreSQL rolls one of them back.      *)
DeadlockVictim(r) ==
  /\ \E circle \in SUBSET Requests : r \in circle /\ {WaitsFor(q) : q \in circle} = circle
  /\ End(r)
  /\ UNCHANGED <<sessionOpen, orderVars, tableVars, historyVars>>

-----------------------------------------------------------------------------
(* Counting the table and leaving it.                                      *)

NobodyElseOn(t, o) == OpenOn(t) \subseteq {o}

Count(r) ==
  /\ request[r].step = IF request[r].op = "mover" THEN "destino" ELSE "trancada"
  /\ LET empty == NobodyElseOn(request[r].table, request[r].order)
     IN request' = [request EXCEPT ![r] = [@ EXCEPT !.step = "contada", !.last = empty]]
  /\ UNCHANGED <<sessionOpen, lockVars, orderVars, tableVars, historyVars>>

(* cancel_order of a comanda with payments, refused without a session,     *)
(* frees the table whoever is on it.                                       *)
FreeUncounted(r) ==
  /\ request[r].op = "cancelar" /\ request[r].step = "trancada"
  /\ request[r].session
  /\ request' = [request EXCEPT ![r] = [@ EXCEPT !.step = "contada", !.last = TRUE]]
  /\ UNCHANGED <<sessionOpen, lockVars, orderVars, tableVars, historyVars>>

(* The write of "vazia" that the commit emits.  Mutant: a word that no     *)
(* page knows, in a column that takes any.                                 *)
Vacates(r) == request[r].last /\ request[r].seen = "ocupada"
VacatedMisspelt(r) == [status EXCEPT ![request[r].table] = IF Vacates(r) THEN "livre" ELSE @]
Vacated(r) == [status EXCEPT ![request[r].table] = IF Vacates(r) THEN "vazia" ELSE @]

(* Commit of close_order and of cancel_order.                              *)
Settle(r) ==
  LET t == request[r].table
  IN /\ request[r].op \in {"fechar", "cancelar"} /\ request[r].step = "contada"
     /\ Vacates(r) => tableHolder[t] = NoRequest
     /\ orderStatus' = [orderStatus EXCEPT ![request[r].order] = "encerrada"]
     /\ status' = Vacated(r)
     /\ End(r)
     /\ crossed' = IF status'[t] = "vazia" THEN crossed \ {t} ELSE crossed
     /\ UNCHANGED orderTable
     /\ Overtaking(IF Vacates(r) /\ ~NobodyElseOn(t, request[r].order) THEN {t} ELSE {})
     /\ UNCHANGED <<sessionOpen, active>>

(* Commit of move_order.                                                   *)
Move(r) ==
  LET t == request[r].table
      to == request[r].to
  IN /\ request[r].op = "mover" /\ request[r].step = "contada"
     /\ orderTable' = [orderTable EXCEPT ![request[r].order] = to]
     /\ status' = [Vacated(r) EXCEPT ![to] = "ocupada"]
     /\ End(r)
     /\ crossed' = {u \in crossed \ {to} : status'[u] = "ocupada"}
     /\ UNCHANGED orderStatus
     /\ Overtaking(IF \E q \in Requests : ThinksEmpty(q, to) THEN {to} ELSE {})
     /\ UNCHANGED <<sessionOpen, active>>

-----------------------------------------------------------------------------
(* Archiving, and the cash register.                                       *)

(* delete_table looks for comandas without a lock.                         *)
ArchiveRead(r, t) ==
  /\ request[r].step = "ocioso"
  /\ active[t] /\ OpenOn(t) = {}
  /\ request' = [request EXCEPT ![r] = [Free EXCEPT !.op = "arquivar", !.step = "decidido",
                                                    !.table = t]]
  /\ UNCHANGED <<sessionOpen, lockVars, orderVars, tableVars, historyVars>>

ArchiveCommit(r) ==
  LET t == request[r].table
  IN /\ request[r].op = "arquivar"
     /\ tableHolder[t] = NoRequest
     /\ active' = [active EXCEPT ![t] = FALSE]
     /\ End(r)
     /\ UNCHANGED <<sessionOpen, orderVars, status, historyVars>>

RestoreTable(t) ==
  /\ ~active[t] /\ tableHolder[t] = NoRequest
  /\ active' = [active EXCEPT ![t] = TRUE]
  /\ UNCHANGED <<sessionOpen, lockVars, orderVars, status, request, historyVars>>

OpenRegister ==
  /\ ~sessionOpen
  /\ sessionOpen' = TRUE
  /\ UNCHANGED <<lockVars, orderVars, tableVars, request, historyVars>>

(* Refused while a comanda is open.                                        *)
CloseRegister ==
  /\ sessionOpen /\ sessionHolder = NoRequest
  /\ \A t \in Mesas : OpenOn(t) = {}
  /\ sessionOpen' = FALSE
  /\ UNCHANGED <<lockVars, orderVars, tableVars, request, historyVars>>

-----------------------------------------------------------------------------
(* What a request under way does next.                                     *)
Proceed(r) ==
  \/ OpenCommit(r)
  \/ LockOrder(r)
  \/ OrderGone(r)
  \/ LockOrigin(r)
  \/ LockDestination(r)
  \/ MoveRefused(r)
  \/ DeadlockVictim(r)
  \/ Count(r)
  \/ FreeUncounted(r)
  \/ Settle(r)
  \/ Move(r)
  \/ ArchiveCommit(r)

Start(r) ==
  \/ \E t \in Mesas : OpenRead(r, t)
  \/ \E o \in Orders : CloseCall(r, o)
  \/ \E o \in Orders : CancelCall(r, o)
  \/ \E o \in Orders, to \in Mesas : MoveCall(r, o, to)
  \/ \E t \in Mesas : ArchiveRead(r, t)

Next ==
  \/ \E r \in Requests : Start(r)
  \/ \E r \in Requests : Proceed(r)
  \/ \E t \in Mesas : RestoreTable(t)
  \/ OpenRegister
  \/ CloseRegister

Spec == Init /\ [][Next]_vars

(* A request that has begun is driven to its end; the rows it waits for    *)
(* are granted in the order they were asked for, so one that keeps coming  *)
(* free is granted in the end.                                             *)
FairSpec == Spec /\ \A r \in Requests : SF_vars(Proceed(r))

-----------------------------------------------------------------------------

(* A request past its lock still finds its comanda open, on the table it   *)
(* is about to free, until it commits.                                     *)
SettledWhereFound ==
  \A r \in Requests : \A t \in Mesas :
    Leaves(r, t) => request[r].order \in OpenOn(t)

(* Opposite moves, closes that wait for a move, moves that wait for a      *)
(* close: every request gets an answer.                                    *)
EveryRequestEnds ==
  \A r \in Requests : request[r].step # "ocioso" ~> request[r].step = "ocioso"
=============================================================================
