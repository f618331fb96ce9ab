------------------------------ MODULE Comanda ------------------------------
(***************************************************************************)
(* The life of a comanda (an open bill): opening it on a table or at the   *)
(* counter, ordering, paying in parts, closing, refunding, cancelling and  *)
(* moving it, against the cash register session and the stock history.     *)
(*                                                                         *)
(* Granularity.  Every handler that sells, pays, closes or refunds first   *)
(* takes the row of the open cash session FOR UPDATE and keeps it until    *)
(* its commit, so two of them never overlap: each is one action.           *)
(* move_order, cancel_pending_order and a cancellation with the register   *)
(* closed hold the row of the comanda instead, which the others hold too:  *)
(* on what this module keeps of a comanda and of its rows, each is one     *)
(* action.  What they share with requests on OTHER comandas is not here:   *)
(* the tables (tables.status, tables.active) are module Mesas, the number  *)
(* in products.stock and the shortages are module Estoque.  This module    *)
(* counts the stock by stock_history, whose rows are only ever inserted.   *)
(* open_order reads the table, the session and the comandas of the counter *)
(* WITHOUT a lock and writes later: it is split into its steps, and        *)
(* everything else may run in between.  An error return leaves the         *)
(* transaction uncommitted, so a refused request is no step at all.        *)
(*                                                                         *)
(* Abstracted: the service charge (amounts here are the product portion),  *)
(* payment methods, waiters, customers, tickets and notifications.         *)
(***************************************************************************)
EXTENDS Integers, FiniteSets, Somas

CONSTANTS
  Clients,       \* concurrent callers of open_order
  Mesas,         \* tables with is_balcao = FALSE
  Balcoes,       \* tables with is_balcao = TRUE
  NoTable,       \* the table of an order or request that does not exist
  MaxOrders,     \* bound: comandas ever opened
  Items,         \* pool of order_items rows
  Products,
  ProductOf,     \* order_items.product_id of each row
  UnitPrice,     \* order_items.unit_price of each row
  MaxQty,        \* bound: quantity of one row
  MaxAlloc,      \* bound: pieces of one row ever marked as paid
  MaxPieces      \* bound: pieces on all the rows together

Tables == Mesas \cup Balcoes
Orders == 1..MaxOrders
NoOrder == 0
Idle == "ocioso"

ASSUME TablesAssumption == Mesas \cap Balcoes = {} /\ NoTable \notin Tables
ASSUME OrdersAssumption == MaxOrders \in Nat
ASSUME ItemsAssumption ==
  /\ IsFiniteSet(Items)
  /\ ProductOf \in [Items -> Products]
  /\ UnitPrice \in [Items -> Nat]
ASSUME QtyAssumption == MaxQty \in Nat /\ MaxAlloc \in Nat /\ MaxPieces \in Nat

VARIABLES
  sessionOpen,     \* a cash_register_sessions row has status "open"
  request,         \* the open_order call of each client
  orderStatus,     \* orders.status, "nenhuma" before the row exists
  orderTable,      \* orders.table_id
  total,           \* orders.total
  partialPayment,  \* orders.partial_payment
  netPaid,         \* order_net_paid: payments minus refunds
  isEstorno,       \* orders.is_estorno
  itemState,       \* free, pending, confirmed or deleted row
  itemOrder,       \* order_items.order_id
  quantity,        \* order_items.quantity
  allocQty,        \* sum of order_payment_allocations.quantity
  refundedQty,     \* sum of payment_refund_items.quantity
  outQty           \* net stock_history.source_quantity of the row

orderVars == <<orderStatus, orderTable, total, partialPayment, netPaid, isEstorno>>
lineVars == <<itemState, itemOrder, quantity>>
allocVars == <<allocQty, refundedQty>>
vars == <<sessionOpen, request, orderVars, lineVars, allocVars, outQty>>

OrderStatus == {"nenhuma", "aberta", "finalizada", "cancelada"}
ItemState == {"livre", "pendente", "confirmado", "apagado"}
Request == [step : {Idle, "verificada", "inserir", "descartar"},
            table : Tables \cup {NoTable},
            extras : SUBSET Orders,      \* duplicates found at the counter
            rows : [Items -> Nat]]       \* and the quantities of their rows
NothingFound == [i \in Items |-> 0]
NoRequest == [step |-> Idle, table |-> NoTable, extras |-> {}, rows |-> NothingFound]

TypeOK ==
  /\ sessionOpen \in BOOLEAN
  /\ request \in [Clients -> Request]
  /\ orderStatus \in [Orders -> OrderStatus]
  /\ orderTable \in [Orders -> Tables \cup {NoTable}]
  /\ total \in [Orders -> Nat]
  /\ partialPayment \in [Orders -> Int]
  /\ netPaid \in [Orders -> Int]
  /\ isEstorno \in [Orders -> BOOLEAN]
  /\ itemState \in [Items -> ItemState]
  /\ itemOrder \in [Items -> Orders \cup {NoOrder}]
  /\ quantity \in [Items -> Nat]
  /\ allocQty \in [Items -> Nat]
  /\ refundedQty \in [Items -> Nat]
  /\ outQty \in [Items -> Int]

Init ==
  /\ sessionOpen = FALSE
  /\ request = [c \in Clients |-> NoRequest]
  /\ orderStatus = [o \in Orders |-> "nenhuma"]
  /\ orderTable = [o \in Orders |-> NoTable]
  /\ total = [o \in Orders |-> 0]
  /\ partialPayment = [o \in Orders |-> 0]
  /\ netPaid = [o \in Orders |-> 0]
  /\ isEstorno = [o \in Orders |-> FALSE]
  /\ itemState = [i \in Items |-> "livre"]
  /\ itemOrder = [i \in Items |-> NoOrder]
  /\ quantity = [i \in Items |-> 0]
  /\ allocQty = [i \in Items |-> 0]
  /\ refundedQty = [i \in Items |-> 0]
  /\ outQty = [i \in Items |-> 0]

-----------------------------------------------------------------------------
(* State functions: the queries the handlers run.                          *)

OpenOn(t) == {o \in Orders : orderStatus[o] = "aberta" /\ orderTable[o] = t}
AnyOpen == \E o \in Orders : orderStatus[o] = "aberta"

PendingOf(o) == {i \in Items : itemState[i] = "pendente" /\ itemOrder[i] = o}
ConfirmedOf(o) == {i \in Items : itemState[i] = "confirmado" /\ itemOrder[i] = o}
LinesOf(o) == PendingOf(o) \cup ConfirmedOf(o)

(* item_net_paid_quantity: allocated minus refunded, never negative.       *)
PaidQty(i) == IF refundedQty[i] < allocQty[i] THEN allocQty[i] - refundedQty[i] ELSE 0

(* Money of k[i] pieces of every row i.                                    *)
Value(k) == SumF([i \in Items |-> UnitPrice[i] * k[i]])

(* SUM(unit_price * quantity) of the rows that are not pending.            *)
Sold(o) == Value(Where(quantity, ConfirmedOf(o)))

(* What is left to pay.  Mutant: the payments already made are forgotten.  *)
RemainingOfNothingPaid(o) == total[o]
Remaining(o) == IF netPaid[o] < total[o] THEN total[o] - netPaid[o] ELSE 0

(* What the refund of a whole sale gives back of each row: the quantity    *)
(* on the bill minus everything ever refunded of it.  Mutant: the rows     *)
(* still pending are forgotten.                                            *)
ConfirmedNotYetRefunded(o) ==
  Where([i \in Items |-> IF refundedQty[i] < quantity[i] THEN quantity[i] - refundedQty[i] ELSE 0],
        ConfirmedOf(o))
NotYetRefunded(o) ==
  Where([i \in Items |-> IF refundedQty[i] < quantity[i] THEN quantity[i] - refundedQty[i] ELSE 0],
        LinesOf(o))

(* _check_and_consume_stock over the requested rows, and the return paths: *)
(* a row of stock_history for each.                                        *)
Consume(k) ==
  /\ SumF([i \in Items |-> quantity[i] + k[i]]) <= MaxPieces
  /\ outQty' = [i \in Items |-> outQty[i] + k[i]]
Return(k) == outQty' = [i \in Items |-> outQty[i] - k[i]]

RecomputeTotal(o) == total' = [total EXCEPT ![o] = Sold(o)']

Delete(rows) ==
  /\ itemState' = [i \in Items |-> IF i \in rows THEN "apagado" ELSE itemState[i]]
  /\ quantity' = [i \in Items |-> IF i \in rows THEN 0 ELSE quantity[i]]
  /\ UNCHANGED itemOrder

-----------------------------------------------------------------------------
(* open_order, step by step.                                               *)

(* Bound: the insertions under way find a row each.                        *)
RowsLeft ==
  Cardinality({o \in Orders : orderStatus[o] = "nenhuma"})
    > Cardinality({c \in Clients : request[c].step = "inserir"})

(* The table and the open session are read, neither of them locked.        *)
OpenOrderCheck(c, t) ==
  /\ request[c].step = Idle
  /\ sessionOpen
  /\ t \in Balcoes \/ RowsLeft
  /\ request' = [request EXCEPT ![c] =
       [step |-> IF t \in Balcoes THEN "verificada" ELSE "inserir",
        table |-> t, extras |-> {}, rows |-> NothingFound]]
  /\ UNCHANGED <<sessionOpen, orderVars, lineVars, allocVars, outQty>>

(* The rows given back with duplicate comandas.  Mutant: the rows of the   *)
(* comanda that stays are taken too.                                       *)
RowsOfAnyone(extras) == UNION {LinesOf(o) : o \in Orders}
RowsOf(extras) == UNION {LinesOf(o) : o \in extras}

(* The open comandas of a counter but the newest.                          *)
Duplicates(t) == {o \in OpenOn(t) : \E newer \in OpenOn(t) : o < newer}

(* Counter with one open comanda: that is the answer.                      *)
OpenOrderReuse(c) ==
  /\ request[c].step = "verificada"
  /\ OpenOn(request[c].table) # {} /\ Duplicates(request[c].table) = {}
  /\ request' = [request EXCEPT ![c] = NoRequest]
  /\ UNCHANGED <<sessionOpen, orderVars, lineVars, allocVars, outQty>>

(* Counter with several: the comandas and their rows are read, no lock.    *)
OpenOrderFind(c) ==
  /\ request[c].step = "verificada"
  /\ LET extras == Duplicates(request[c].table)
     IN /\ extras # {}
        /\ request' = [request EXCEPT
             ![c] = [@ EXCEPT !.step = "descartar", !.extras = extras,
                              !.rows = Where(quantity, RowsOf(extras))]]
  /\ UNCHANGED <<sessionOpen, orderVars, lineVars, allocVars, outQty>>

(* Then they are cancelled and the rows that were read are given back,     *)
(* whatever was paid on them or has become of them.                        *)
OpenOrderDiscard(c) ==
  /\ request[c].step = "descartar"
  /\ orderStatus' = [o \in Orders |->
       IF o \in request[c].extras THEN "cancelada" ELSE orderStatus[o]]
  /\ Return(request[c].rows)
  /\ request' = [request EXCEPT ![c] = NoRequest]
  /\ UNCHANGED <<sessionOpen, orderTable, total, partialPayment, netPaid,
                 isEstorno, lineVars, allocVars>>

(* Counter without open comandas: go on to the insertion.                  *)
OpenOrderFresh(c) ==
  /\ request[c].step = "verificada"
  /\ OpenOn(request[c].table) = {}
  /\ RowsLeft
  /\ request' = [request EXCEPT ![c].step = "inserir"]
  /\ UNCHANGED <<sessionOpen, orderVars, lineVars, allocVars, outQty>>

(* INSERT and commit.                                                      *)
OpenOrderInsert(c) ==
  /\ request[c].step = "inserir"
  /\ \E o \in Orders :
       /\ orderStatus[o] = "nenhuma"
       /\ \A d \in Orders : d < o => orderStatus[d] # "nenhuma"
       /\ orderStatus' = [orderStatus EXCEPT ![o] = "aberta"]
       /\ orderTable' = [orderTable EXCEPT ![o] = request[c].table]
  /\ request' = [request EXCEPT ![c] = NoRequest]
  /\ UNCHANGED <<sessionOpen, total, partialPayment, netPaid, isEstorno,
                 lineVars, allocVars, outQty>>

-----------------------------------------------------------------------------
(* Ordering.  All of these hold the lock of the open session.              *)

(* create_pedido: one fresh confirmed row per entry, or none at all.       *)
CreatePedido(o, k) ==
  /\ sessionOpen /\ orderStatus[o] = "aberta"
  /\ LET rows == {i \in Items : k[i] > 0}
     IN /\ rows # {}
        /\ \A i \in rows : itemState[i] = "livre"
        /\ itemState' = [i \in Items |-> IF i \in rows THEN "confirmado" ELSE itemState[i]]
        /\ itemOrder' = [i \in Items |-> IF i \in rows THEN o ELSE itemOrder[i]]
  /\ quantity' = [i \in Items |-> quantity[i] + k[i]]
  /\ Consume(k)
  /\ RecomputeTotal(o)
  /\ UNCHANGED <<sessionOpen, request, orderStatus, orderTable, partialPayment,
                 netPaid, isEstorno, allocVars>>

(* add_order_item, quantity > 0: grows a row of the comanda, pending or    *)
(* not (the row is matched by product and round only), or inserts one.     *)
AddItem(o, i, n) ==
  /\ sessionOpen /\ orderStatus[o] = "aberta"
  /\ i \in LinesOf(o) \/ itemState[i] = "livre"
  /\ quantity[i] + n <= MaxQty
  /\ itemState' = [itemState EXCEPT ![i] = IF @ = "livre" THEN "confirmado" ELSE @]
  /\ itemOrder' = [itemOrder EXCEPT ![i] = o]
  /\ quantity' = [quantity EXCEPT ![i] = @ + n]
  /\ Consume(Only(Items, i, n))
  /\ RecomputeTotal(o)
  /\ UNCHANGED <<sessionOpen, request, orderStatus, orderTable, partialPayment,
                 netPaid, isEstorno, allocVars>>

(* A row shrinks by n and disappears at zero.                              *)
Shrink(i, n) ==
  /\ quantity' = [quantity EXCEPT ![i] = @ - n]
  /\ itemState' = [itemState EXCEPT ![i] = IF quantity[i] = n THEN "apagado" ELSE @]
  /\ UNCHANGED itemOrder

(* Two checks of a removal, and the mutants that drop them.                *)
PaidPiecesMayGo(i, n) == TRUE
PaidPiecesStay(i, n) == quantity[i] - n >= PaidQty(i)
PaidMoneyMayExceed(o, i, n) == TRUE
PaidMoneyStaysCovered(o, i, n) == total[o] - UnitPrice[i] * n >= netPaid[o]

(* add_order_item, quantity <= 0.                                          *)
RemoveItem(o, i, n) ==
  /\ sessionOpen /\ orderStatus[o] = "aberta"
  /\ i \in LinesOf(o) /\ n <= quantity[i]
  /\ PaidPiecesStay(i, n)
  /\ PaidMoneyStaysCovered(o, i, n)
  /\ Shrink(i, n)
  /\ Return(Only(Items, i, n))
  /\ RecomputeTotal(o)
  /\ UNCHANGED <<sessionOpen, request, orderStatus, orderTable, partialPayment,
                 netPaid, isEstorno, allocVars>>

(* add_pending_order_item, quantity > 0: one pending row per product; the  *)
(* stock is taken now, the total does not move.                            *)
AddPending(o, i, n) ==
  /\ sessionOpen /\ orderStatus[o] = "aberta"
  /\ \/ i \in PendingOf(o)
     \/ itemState[i] = "livre" /\ \A j \in PendingOf(o) : ProductOf[j] # ProductOf[i]
  /\ quantity[i] + n <= MaxQty
  /\ itemState' = [itemState EXCEPT ![i] = "pendente"]
  /\ itemOrder' = [itemOrder EXCEPT ![i] = o]
  /\ quantity' = [quantity EXCEPT ![i] = @ + n]
  /\ Consume(Only(Items, i, n))
  /\ UNCHANGED <<sessionOpen, request, orderVars, allocVars>>

(* qty_change = min(abs(req.quantity), existing_item.quantity).  Mutant:   *)
(* the minimum is not taken.                                               *)
AnyRemoval(o, i, n) == i \in PendingOf(o)
RemovablePending(o, i, n) == i \in PendingOf(o) /\ n <= quantity[i]

(* add_pending_order_item, quantity <= 0.                                  *)
RemovePending(o, i, n) ==
  /\ sessionOpen /\ orderStatus[o] = "aberta"
  /\ RemovablePending(o, i, n)
  /\ Shrink(i, n)
  /\ Return(Only(Items, i, n))
  /\ UNCHANGED <<sessionOpen, request, orderVars, allocVars>>

ConfirmPending(o) ==
  /\ sessionOpen /\ orderStatus[o] = "aberta"
  /\ PendingOf(o) # {}
  /\ itemState' = [i \in Items |-> IF i \in PendingOf(o) THEN "confirmado" ELSE itemState[i]]
  /\ UNCHANGED <<itemOrder, quantity>>
  /\ RecomputeTotal(o)
  /\ UNCHANGED <<sessionOpen, request, orderStatus, orderTable, partialPayment,
                 netPaid, isEstorno, allocVars, outQty>>

(* Mutant: the comanda is not required to be open.                         *)
CancelPendingOfAny(o) ==
  /\ PendingOf(o) # {}
  /\ Return(Where(quantity, PendingOf(o)))
  /\ Delete(PendingOf(o))
  /\ UNCHANGED <<sessionOpen, request, orderVars, allocVars>>

(* cancel_pending_order: does not look at the cash register.               *)
CancelPending(o) ==
  /\ orderStatus[o] = "aberta"
  /\ PendingOf(o) # {}
  /\ Return(Where(quantity, PendingOf(o)))
  /\ Delete(PendingOf(o))
  /\ UNCHANGED <<sessionOpen, request, orderVars, allocVars>>

-----------------------------------------------------------------------------
(* Paying and closing.                                                     *)

(* partial_payment of a free amount.                                       *)
PayAmount(o, amount) ==
  /\ sessionOpen /\ orderStatus[o] = "aberta"
  /\ 0 < amount /\ amount <= Remaining(o)
  /\ netPaid' = [netPaid EXCEPT ![o] = @ + amount]
  /\ partialPayment' = [partialPayment EXCEPT ![o] = @ + amount]
  /\ UNCHANGED <<sessionOpen, request, orderStatus, orderTable, total, isEstorno,
                 lineVars, allocVars, outQty>>

(* partial_payment of selected rows: k[i] pieces of each confirmed row.    *)
PayItems(o, k) ==
  /\ sessionOpen /\ orderStatus[o] = "aberta"
  /\ \A i \in Items : k[i] > 0 => i \in ConfirmedOf(o) /\ PaidQty(i) + k[i] <= quantity[i]
  /\ \A i \in Items : allocQty[i] + k[i] <= MaxAlloc
  /\ 0 < Value(k) /\ Value(k) <= Remaining(o)
  /\ netPaid' = [netPaid EXCEPT ![o] = @ + Value(k)]
  /\ partialPayment' = [partialPayment EXCEPT ![o] = @ + Value(k)]
  /\ allocQty' = [i \in Items |-> allocQty[i] + k[i]]
  /\ UNCHANGED <<sessionOpen, request, orderStatus, orderTable, total, isEstorno,
                 lineVars, refundedQty, outQty>>

(* close_order: the rest is paid and pending rows go back to stock.        *)
(* partial_payment keeps what had been paid before the final payment.      *)
CloseOrder(o) ==
  /\ sessionOpen /\ orderStatus[o] = "aberta"
  /\ netPaid' = [netPaid EXCEPT ![o] = @ + Remaining(o)]
  /\ partialPayment' = [partialPayment EXCEPT ![o] = netPaid[o]]
  /\ Return(Where(quantity, PendingOf(o)))
  /\ Delete(PendingOf(o))
  /\ orderStatus' = [orderStatus EXCEPT ![o] = "finalizada"]
  /\ UNCHANGED <<sessionOpen, request, orderTable, total, isEstorno, allocVars>>

-----------------------------------------------------------------------------
(* Refunding and cancelling.                                               *)

(* No more pieces than the net paid allocations of each row.  Mutant: no   *)
(* more than the row has.                                                  *)
OnTheBill(o, k) == \A i \in Items : k[i] > 0 => i \in LinesOf(o) /\ k[i] <= quantity[i]
Refundable(o, k) == \A i \in Items : k[i] > 0 => i \in LinesOf(o) /\ k[i] <= PaidQty(i)

(* The refund rows and the cached partial payment.  Mutant: the cache is   *)
(* not written.                                                            *)
GiveBackUncached(o, amount) ==
  /\ netPaid' = [netPaid EXCEPT ![o] = @ - amount]
  /\ UNCHANGED partialPayment
GiveBack(o, amount) ==
  /\ netPaid' = [netPaid EXCEPT ![o] = @ - amount]
  /\ partialPayment' = [partialPayment EXCEPT ![o] = netPaid[o] - amount]

(* The refunded pieces leave an open comanda.  Mutant: they stay on it.    *)
LeaveOn(k) == UNCHANGED lineVars
TakeOff(k) ==
  /\ quantity' = [i \in Items |-> quantity[i] - k[i]]
  /\ itemState' = [i \in Items |-> IF k[i] > 0 /\ k[i] = quantity[i]
                                   THEN "apagado" ELSE itemState[i]]
  /\ UNCHANGED itemOrder

(* refund_paid_items: k[i] pieces out of the net paid allocations of each  *)
(* row.  On an open comanda the row itself shrinks and the total with it.  *)
RefundItems(o, k) ==
  /\ sessionOpen
  /\ orderStatus[o] \in {"aberta", "finalizada"} /\ ~isEstorno[o]
  /\ \E i \in Items : k[i] > 0
  /\ Refundable(o, k)
  /\ refundedQty' = [i \in Items |-> refundedQty[i] + k[i]]
  /\ GiveBack(o, Value(k))
  /\ Return(k)
  /\ \/ /\ orderStatus[o] = "aberta"
        /\ TakeOff(k)
        /\ RecomputeTotal(o)
     \/ /\ orderStatus[o] = "finalizada"
        /\ UNCHANGED <<lineVars, total>>
  /\ UNCHANGED <<sessionOpen, request, orderStatus, orderTable, isEstorno, allocQty>>

(* refund_full_order: every payment is refunded in full and every row that *)
(* still has pieces not refunded goes back to stock.  Refund rows exist    *)
(* only when there was money to give back.                                 *)
RefundFull(o) ==
  /\ netPaid' = [netPaid EXCEPT ![o] = 0]
  /\ partialPayment' = [partialPayment EXCEPT ![o] = 0]
  /\ refundedQty' = IF netPaid[o] > 0
                    THEN [i \in Items |-> refundedQty[i] + NotYetRefunded(o)[i]]
                    ELSE refundedQty
  /\ Return(NotYetRefunded(o))
  /\ UNCHANGED <<sessionOpen, request, orderTable, lineVars, allocQty>>

(* estornar_venda: the refund of a closed sale.                            *)
EstornarVenda(o) ==
  /\ sessionOpen
  /\ orderStatus[o] = "finalizada" /\ ~isEstorno[o]
  /\ RefundFull(o)
  /\ isEstorno' = [isEstorno EXCEPT ![o] = TRUE]
  /\ UNCHANGED <<orderStatus, total>>

(* Mutant: a paid comanda passes for unpaid.                               *)
TakenAsUnpaid(o) == TRUE
Unpaid(o) == netPaid[o] <= 0

(* cancel_order of a comanda with money on it: refund everything.          *)
CancelPaid(o) ==
  /\ sessionOpen
  /\ orderStatus[o] = "aberta" /\ ~Unpaid(o)
  /\ RefundFull(o)
  /\ orderStatus' = [orderStatus EXCEPT ![o] = "cancelada"]
  /\ total' = [total EXCEPT ![o] = 0]
  /\ UNCHANGED isEstorno

(* cancel_order of an unpaid comanda, cash register open or not.           *)
CancelUnpaid(o) ==
  /\ orderStatus[o] = "aberta" /\ Unpaid(o)
  /\ Return(Where(quantity, LinesOf(o)))
  /\ orderStatus' = [orderStatus EXCEPT ![o] = "cancelada"]
  /\ UNCHANGED <<sessionOpen, request, orderTable, total, partialPayment, netPaid, isEstorno,
                 lineVars, allocVars>>

-----------------------------------------------------------------------------
(* Moving a comanda, and the cash register.                                *)

(* move_order: items, payments and totals stay.                            *)
MoveOrder(o, t) ==
  /\ orderStatus[o] = "aberta"
  /\ orderTable[o] \in Mesas /\ t \in Mesas
  /\ t # orderTable[o]
  /\ orderTable' = [orderTable EXCEPT ![o] = t]
  /\ UNCHANGED <<sessionOpen, request, orderStatus, total, partialPayment, netPaid, isEstorno,
                 lineVars, allocVars, outQty>>

OpenRegister ==
  /\ ~sessionOpen
  /\ sessionOpen' = TRUE
  /\ UNCHANGED <<request, orderVars, lineVars, allocVars, outQty>>

(* close_cash_register and auto_close_cash_register: refused while a       *)
(* comanda is open.                                                        *)
CloseRegister ==
  /\ sessionOpen /\ ~AnyOpen
  /\ sessionOpen' = FALSE
  /\ UNCHANGED <<request, orderVars, lineVars, allocVars, outQty>>

-----------------------------------------------------------------------------
Opening(c) ==
  \/ \E t \in Tables : OpenOrderCheck(c, t)
  \/ OpenOrderReuse(c)
  \/ OpenOrderFind(c)
  \/ OpenOrderDiscard(c)
  \/ OpenOrderFresh(c)
  \/ OpenOrderInsert(c)

Ordering(o) ==
  \/ \E k \in [Items -> 0..MaxQty] : CreatePedido(o, k)
  \/ \E i \in Items, n \in 1..MaxQty : AddItem(o, i, n)
  \/ \E i \in Items, n \in 1..MaxQty : RemoveItem(o, i, n)
  \/ \E i \in Items, n \in 1..MaxQty : AddPending(o, i, n)
  \/ \E i \in Items, n \in 1..MaxQty : RemovePending(o, i, n)
  \/ ConfirmPending(o)
  \/ CancelPending(o)

Settling(o) ==
  \/ \E amount \in 1..Remaining(o) : PayAmount(o, amount)
  \/ \E k \in [Items -> 0..MaxQty] : PayItems(o, k)
  \/ CloseOrder(o)
  \/ \E k \in [Items -> 0..MaxQty] : RefundItems(o, k)
  \/ EstornarVenda(o)
  \/ CancelPaid(o)
  \/ CancelUnpaid(o)

Administration ==
  \/ \E o \in Orders, t \in Tables : MoveOrder(o, t)
  \/ OpenRegister
  \/ CloseRegister

Next ==
  \/ \E c \in Clients : Opening(c)
  \/ \E o \in Orders : Ordering(o)
  \/ \E o \in Orders : Settling(o)
  \/ Administration

Spec == Init /\ [][Next]_vars

-----------------------------------------------------------------------------
(* Safety.                                                                 *)

(* Bills that still promise something: open, or closed and not refunded.   *)
Live(o) == orderStatus[o] = "aberta" \/ (orderStatus[o] = "finalizada" /\ ~isEstorno[o])

(* Comandas whose rows are given back at most once: all but the duplicates *)
(* of a counter, which two open_order calls may both have found and which  *)
(* may have been closed or cancelled in between.                           *)
GivenBackOnce(o) == orderTable[o] \in Mesas \/ orderStatus[o] # "cancelada"

(* The net payments of an open comanda never exceed what is on it, through *)
(* any mix of removals, refunds and partial payments: the check of each    *)
(* handler is against a total another handler wrote.                       *)
PaidWithinTotal ==
  \A o \in Orders : orderStatus[o] = "aberta" => netPaid[o] \in 0..total[o]

(* No piece is paid twice and no paid piece leaves the bill unrefunded:    *)
(* add_order_item, partial_payment and refund_paid_items agree on          *)
(* item_net_paid_quantity.                                                 *)
LinesNeverOverpaid ==
  \A o \in Orders : \A i \in Items :
    Live(o) /\ itemOrder[i] = o => PaidQty(i) <= quantity[i]

(* The pieces marked as paid are covered by money that is still held, so   *)
(* refunding them piece by piece can never give back more than was paid.   *)
PaidLinesCovered ==
  \A o \in Orders : Live(o) =>
    Value(Where([i \in Items |-> PaidQty(i)], {i \in Items : itemOrder[i] = o})) <= netPaid[o]

(* The stored sums of an open comanda follow their rows: orders.total,     *)
(* written by six handlers, is the value of the confirmed rows, and        *)
(* orders.partial_payment, shown to the customer and kept up to date by    *)
(* hand, is the ledger of payments and refunds.                            *)
StoredSumsMatchRows ==
  \A o \in Orders : orderStatus[o] = "aberta" =>
    total[o] = Sold(o) /\ partialPayment[o] = netPaid[o]

(* A row on an open comanda holds exactly its quantity of stock and a      *)
(* removed row holds none, pending and confirmed alike, also while         *)
(* duplicates of the counter come, go and are discarded.                   *)
OpenLinesHoldStock ==
  \A i \in Items : \A o \in Orders : itemOrder[i] = o =>
    /\ itemState[i] = "apagado" /\ GivenBackOnce(o) => outQty[i] = 0
    /\ orderStatus[o] = "aberta" => outQty[i] = quantity[i]

(* Whatever sequence of partial and full refunds is applied, a row never   *)
(* gives back more pieces than it took.                                    *)
NoLineReturnsMoreThanItTook ==
  \A i \in Items : \A o \in Orders :
    itemOrder[i] = o /\ GivenBackOnce(o) => outQty[i] >= 0

(* A cancelled comanda of a table keeps no money.                          *)
CancelledOrdersKeepNoMoney ==
  \A o \in Orders :
    orderStatus[o] = "cancelada" /\ orderTable[o] \in Mesas => netPaid[o] = 0

-----------------------------------------------------------------------------
(* Action properties.                                                      *)

(* The step that closes a comanda leaves it exactly paid, for a total no   *)
(* other step of the close moved, and without a pending row.               *)
CloseSettles ==
  [][\A o \in Orders :
       orderStatus[o] = "aberta" /\ orderStatus'[o] = "finalizada"
         => netPaid'[o] = total'[o] /\ total'[o] = Sold(o)' /\ PendingOf(o)' = {}]_vars

(* Money and rows of a cancelled comanda of a table, or of a sale refunded *)
(* in full, never move again, and it never goes back to open.              *)
TerminalOrdersFrozen ==
  [][\A o \in Orders :
       orderTable[o] \in Mesas /\ (orderStatus[o] = "cancelada" \/ isEstorno[o])
         => /\ orderStatus'[o] = orderStatus[o] /\ isEstorno'[o] = isEstorno[o]
            /\ netPaid'[o] = netPaid[o]
            /\ \A i \in Items : itemOrder[i] = o =>
                 /\ itemOrder'[i] = o
                 /\ <<quantity'[i], outQty'[i], refundedQty'[i]>>
                      = <<quantity[i], outQty[i], refundedQty[i]>>]_vars

(* Undoing a whole comanda of a table or its sale leaves out of a row at   *)
(* most what had been refunded of it before: a row never refunded comes    *)
(* back whole, pending or not, be it cancelled or estornada.               *)
UndoReturnsTheRest ==
  [][\A o \in Orders : \A i \in LinesOf(o) :
       orderTable[o] \in Mesas /\
       (\/ orderStatus[o] = "aberta" /\ orderStatus'[o] = "cancelada"
        \/ ~isEstorno[o] /\ isEstorno'[o])
       => outQty'[i] \in 0..refundedQty[i]]_vars

-----------------------------------------------------------------------------
(* Statements of the repository that the code does not keep.               *)

(* docs/FLUXO_CAIXA.md: with the register closed no comanda is opened or   *)
(* stays open.  open_order checks the session without holding it.          *)
NoOpenOrderWhileClosed == ~sessionOpen => ~AnyOpen

(* static/app.js, on the confirmation of an estorno: the stock of the sale *)
(* is returned.  Nothing of a refunded sale stays out.                     *)
EstornoReturnsAllStock ==
  \A o \in Orders : \A i \in Items : isEstorno[o] /\ i \in LinesOf(o) => outQty[i] = 0

(* routers/orders.py, cancel_order: only open comandas can be cancelled.   *)
(* A duplicate of the counter that was closed since it was found can too.  *)
OnlyOpenOrdersAreCancelled ==
  [][\A o \in Orders :
       orderStatus'[o] = "cancelada" => orderStatus[o] \in {"aberta", "cancelada"}]_vars
=============================================================================
