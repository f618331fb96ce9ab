--------------------------- MODULE ComandaProofs ---------------------------
(***************************************************************************)
(* Theorems about Comanda, for any number of clients, tables, comandas and *)
(* rows and any bounds.                                                    *)
(*                                                                         *)
(* The inductive invariant is LineInv: what each state of a row says about *)
(* its stock and its payments, given the status of its comanda.  Type      *)
(* correctness needs it (a refund subtracts from a row what was paid of    *)
(* it), and the properties of rows follow from it.                         *)
(***************************************************************************)
EXTENDS Comanda, SomasProofs

LineOK(i) ==
  /\ itemState[i] # "livre" /\ GivenBackOnce(itemOrder[i]) => outQty[i] >= 0
  /\ itemState[i] = "livre" =>
       /\ itemOrder[i] = NoOrder
       /\ quantity[i] = 0 /\ outQty[i] = 0 /\ allocQty[i] = 0 /\ refundedQty[i] = 0
  /\ itemState[i] # "livre" =>
       itemOrder[i] \in Orders /\ orderStatus[itemOrder[i]] # "nenhuma"
  /\ itemState[i] = "apagado" =>
       /\ quantity[i] = 0 /\ allocQty[i] = refundedQty[i]
       /\ GivenBackOnce(itemOrder[i]) => outQty[i] = 0
  /\ itemState[i] = "pendente" => orderStatus[itemOrder[i]] # "finalizada"
  /\ itemState[i] = "pendente" /\ orderStatus[itemOrder[i]] = "aberta" =>
       allocQty[i] = 0 /\ refundedQty[i] = 0
  /\ itemState[i] \in {"pendente", "confirmado"} /\ orderStatus[itemOrder[i]] = "aberta" =>
       /\ outQty[i] = quantity[i]
       /\ refundedQty[i] <= allocQty[i]
       /\ allocQty[i] - refundedQty[i] <= quantity[i]
  /\ itemState[i] = "confirmado" /\ orderStatus[itemOrder[i]] = "finalizada"
       /\ ~isEstorno[itemOrder[i]] =>
       /\ refundedQty[i] <= allocQty[i]
       /\ allocQty[i] - refundedQty[i] <= quantity[i]
       /\ allocQty[i] - refundedQty[i] <= outQty[i]
       /\ quantity[i] - refundedQty[i] <= outQty[i]

LineInv == \A i \in Items : LineOK(i)

(* What an open_order call has found stays on a counter, and so do the     *)
(* rows it is going to give back.                                          *)
FoundOK(c) ==
  /\ request[c].step = "verificada" => request[c].table \in Balcoes
  /\ request[c].step = "descartar" =>
       /\ \A o \in request[c].extras : orderStatus[o] # "nenhuma" /\ orderTable[o] \in Balcoes
       /\ \A i \in Items : request[c].rows[i] > 0 =>
            itemState[i] # "livre" /\ itemOrder[i] \in request[c].extras

FoundInv == \A c \in Clients : FoundOK(c)

-----------------------------------------------------------------------------
(* The sums the handlers compute.                                          *)

LEMMA ValueType ==
  ASSUME NEW k \in [Items -> Nat]
  PROVE  Value(k) \in Nat
<1> DEFINE f == [i \in Items |-> UnitPrice[i] * k[i]]
<1>1. f \in [Items -> Nat]
  BY ItemsAssumption
<1>2. SumF(f) \in Nat
  <2> HIDE DEF f
  <2> QED  BY <1>1, ItemsAssumption, SumType
<1> QED  BY <1>2 DEF Value

(* The tables of quantities the handlers move.                             *)
LEMMA TableTypes ==
  ASSUME TypeOK
  PROVE  /\ \A R : Where(quantity, R) \in [Items -> Nat]
         /\ \A i \in Items, n \in Nat : Only(Items, i, n) \in [Items -> Nat]
         /\ \A o \in Orders : NotYetRefunded(o) \in [Items -> Nat]
         /\ \A o \in Orders : Sold(o) \in Nat
<1>1. \A R : Where(quantity, R) \in [Items -> Nat]
  BY DEF TypeOK, Where
<1>2. \A i \in Items, n \in Nat : Only(Items, i, n) \in [Items -> Nat]
  BY DEF Only
<1>3. \A o \in Orders : NotYetRefunded(o) \in [Items -> Nat]
  BY DEF TypeOK, Where, NotYetRefunded
<1>4. \A o \in Orders : Sold(o) \in Nat
  BY <1>1, ValueType DEF Sold
<1> QED  BY <1>1, <1>2, <1>3, <1>4

LEMMA ConsumeType ==
  ASSUME TypeOK, NEW k \in [Items -> Nat], Consume(k)
  PROVE  outQty' \in [Items -> Int]
BY DEF TypeOK, Consume

LEMMA ReturnType ==
  ASSUME TypeOK, NEW k \in [Items -> Nat], Return(k)
  PROVE  outQty' \in [Items -> Int]
BY DEF TypeOK, Return

(* A recomputed total is a natural when the new rows are well typed.       *)
LEMMA RecomputeType ==
  ASSUME TypeOK, NEW o \in Orders, quantity' \in [Items -> Nat], RecomputeTotal(o)
  PROVE  total' \in [Orders -> Nat]
<1>1. Where(quantity', ConfirmedOf(o)') \in [Items -> Nat]
  BY DEF Where
<1>2. Sold(o)' \in Nat
  BY <1>1, ValueType DEF Sold, Value, Where
<1> QED  BY <1>2 DEF TypeOK, RecomputeTotal

-----------------------------------------------------------------------------
(* Every action keeps the types and the row invariant.                     *)

LEMMA StutterStep ==
  ASSUME TypeOK, LineInv, UNCHANGED vars
  PROVE  TypeOK' /\ LineInv'
BY DEF TypeOK, LineInv, LineOK, GivenBackOnce, vars, orderVars, lineVars, allocVars

(* Steps of open_order that touch neither rows nor the status of a comanda *)
(* that exists, and the one that discards the duplicates.                  *)
LEMMA OpeningStep ==
  ASSUME TypeOK, LineInv, FoundInv, NEW c \in Clients, Opening(c)
  PROVE  TypeOK' /\ LineInv'
<1> USE DEF orderVars, lineVars, allocVars, Idle
<1>1. ASSUME NEW t \in Tables, OpenOrderCheck(c, t) PROVE TypeOK' /\ LineInv'
  <2>1. PICK s \in {"verificada", "inserir"}, n \in [Items -> Nat] :
          request' = [request EXCEPT ![c] =
            [step |-> s, table |-> t, extras |-> {}, rows |-> n]]
    <3>1. NothingFound \in [Items -> Nat]
      BY DEF NothingFound
    <3> QED  BY <1>1, <3>1 DEF OpenOrderCheck
  <2>2. [step |-> s, table |-> t, extras |-> {}, rows |-> n] \in Request
    BY DEF Request
  <2>3. request' \in [Clients -> Request]
    BY <2>1, <2>2 DEF TypeOK
  <2>4. TypeOK'
    BY <1>1, <2>3 DEF OpenOrderCheck, TypeOK
  <2>5. LineInv'
    BY <1>1 DEF OpenOrderCheck, LineInv, LineOK, GivenBackOnce
  <2> QED  BY <2>4, <2>5
<1>2. CASE OpenOrderFresh(c)
  <2>1. [request[c] EXCEPT !.step = "inserir"] \in Request
    <3>1. request[c] \in Request
      BY DEF TypeOK
    <3> QED  BY <3>1 DEF Request
  <2>2. request' = [request EXCEPT ![c] = [request[c] EXCEPT !.step = "inserir"]]
    BY <1>2 DEF OpenOrderFresh
  <2>3. request' \in [Clients -> Request]
    BY <2>1, <2>2 DEF TypeOK
  <2>4. TypeOK'
    BY <1>2, <2>3 DEF OpenOrderFresh, TypeOK
  <2>5. LineInv'
    BY <1>2 DEF OpenOrderFresh, LineInv, LineOK, GivenBackOnce
  <2> QED  BY <2>4, <2>5
<1>3. CASE OpenOrderInsert(c)
  <2>1. TypeOK'
    BY <1>3 DEF OpenOrderInsert, TypeOK, Request, NoRequest, NothingFound, OrderStatus
  <2>2. ASSUME NEW j \in Items PROVE LineOK(j)'
    BY <1>3 DEF OpenOrderInsert, TypeOK, LineInv, LineOK, GivenBackOnce
  <2> QED  BY <2>1, <2>2 DEF LineInv
<1>4. CASE OpenOrderReuse(c)
  BY <1>4 DEF OpenOrderReuse, TypeOK, Request, NoRequest, NothingFound, LineInv, LineOK, GivenBackOnce
<1>5. CASE OpenOrderFind(c)
  <2>1. PICK extras \in SUBSET Orders :
          request' = [request EXCEPT
            ![c] = [@ EXCEPT !.step = "descartar", !.extras = extras,
                             !.rows = Where(quantity, RowsOf(extras))]]
    BY <1>5 DEF OpenOrderFind, Duplicates, OpenOn
  <2>2. PICK rows \in [Items -> Nat] : rows = Where(quantity, RowsOf(extras))
    BY TableTypes
  <2>3. [request[c] EXCEPT !.step = "descartar", !.extras = extras, !.rows = rows] \in Request
    <3>1. request[c] \in Request
      BY DEF TypeOK
    <3> QED  BY <3>1 DEF Request
  <2>4. request' \in [Clients -> Request]
    BY <2>1, <2>2, <2>3 DEF TypeOK
  <2>5. TypeOK'
    BY <1>5, <2>4 DEF OpenOrderFind, TypeOK
  <2>6. LineInv'
    BY <1>5 DEF OpenOrderFind, LineInv, LineOK, GivenBackOnce
  <2> QED  BY <2>5, <2>6
<1>6. CASE OpenOrderDiscard(c)
  <2> DEFINE extras == request[c].extras
             rows == request[c].rows
  <2>1. /\ orderStatus' = [o \in Orders |-> IF o \in extras THEN "cancelada" ELSE orderStatus[o]]
        /\ Return(rows)
        /\ request' = [request EXCEPT ![c] = NoRequest]
        /\ UNCHANGED <<sessionOpen, orderTable, total, partialPayment, netPaid,
                       isEstorno, lineVars, allocVars>>
    BY <1>6 DEF OpenOrderDiscard
  <2>2. extras \in SUBSET Orders /\ rows \in [Items -> Nat]
    BY DEF TypeOK, Request
  <2>3. /\ \A o \in extras : orderStatus[o] # "nenhuma" /\ orderTable[o] \notin Mesas
        /\ \A j \in Items : rows[j] > 0 => itemState[j] # "livre" /\ itemOrder[j] \in extras
    BY <1>6, TablesAssumption DEF OpenOrderDiscard, FoundInv, FoundOK
  <2> HIDE DEF extras, rows
  <2>4. TypeOK'
    <3>1. outQty' \in [Items -> Int]
      BY <2>1, <2>2, ReturnType
    <3>2. request' \in [Clients -> Request]
      BY <2>1 DEF TypeOK, Request, NoRequest, NothingFound
    <3> QED  BY <2>1, <3>1, <3>2 DEF TypeOK, OrderStatus
  <2>5. ASSUME NEW j \in Items PROVE LineOK(j)'
    <3>1. outQty'[j] = outQty[j] - rows[j] /\ rows[j] \in Nat /\ outQty[j] \in Int
      BY <2>1, <2>2 DEF Return, TypeOK
    <3>2. CASE itemState[j] # "livre" /\ itemOrder[j] \in extras
      BY <2>1, <2>2, <2>3, <3>1, <3>2 DEF TypeOK, LineInv, LineOK, GivenBackOnce
    <3>3. CASE ~(itemState[j] # "livre" /\ itemOrder[j] \in extras)
      <4>1. outQty'[j] = outQty[j]
        BY <2>3, <3>1, <3>3
      <4> QED  BY <2>1, <2>2, <3>3, <4>1 DEF TypeOK, LineInv, LineOK, GivenBackOnce
    <3> QED  BY <3>2, <3>3
  <2> QED  BY <2>4, <2>5 DEF LineInv
<1> QED  BY <1>1, <1>2, <1>3, <1>4, <1>5, <1>6 DEF Opening

LEMMA AdministrationStep ==
  ASSUME TypeOK, LineInv, Administration
  PROVE  TypeOK' /\ LineInv'
<1>1. ASSUME NEW o \in Orders, NEW t \in Tables, MoveOrder(o, t) PROVE TypeOK' /\ LineInv'
  BY <1>1 DEF MoveOrder, Tables, TypeOK, LineInv, LineOK, GivenBackOnce, orderVars, lineVars, allocVars
<1>2. CASE OpenRegister
  BY <1>2 DEF OpenRegister, TypeOK, LineInv, LineOK, GivenBackOnce, orderVars, lineVars, allocVars
<1>3. CASE CloseRegister
  BY <1>3 DEF CloseRegister, TypeOK, LineInv, LineOK, GivenBackOnce, orderVars, lineVars, allocVars
<1> QED  BY <1>1, <1>2, <1>3 DEF Administration

LEMMA CreatePedidoStep ==
  ASSUME TypeOK, LineInv, NEW o \in Orders, NEW k \in [Items -> 0..MaxQty], CreatePedido(o, k)
  PROVE  TypeOK' /\ LineInv'
<1>1. k \in [Items -> Nat]
  BY QtyAssumption
<1>2. TypeOK'
  <2>1. outQty' \in [Items -> Int]
    BY <1>1, ConsumeType DEF CreatePedido
  <2>2. quantity' \in [Items -> Nat]
    BY <1>1 DEF CreatePedido, TypeOK
  <2>3. total' \in [Orders -> Nat]
    BY <2>2, RecomputeType DEF CreatePedido
  <2> QED  BY <2>1, <2>2, <2>3 DEF CreatePedido, TypeOK, ItemState, allocVars
<1>3. ASSUME NEW j \in Items PROVE LineOK(j)'
  BY <1>1 DEF CreatePedido, Consume, TypeOK, LineInv, LineOK, GivenBackOnce, allocVars
<1> QED  BY <1>2, <1>3 DEF LineInv

LEMMA AddItemStep ==
  ASSUME TypeOK, LineInv, NEW o \in Orders, NEW i \in Items, NEW n \in 1..MaxQty,
         AddItem(o, i, n)
  PROVE  TypeOK' /\ LineInv'
<1>1. n \in Nat /\ Only(Items, i, n) \in [Items -> Nat]
  BY QtyAssumption, TableTypes
<1>2. TypeOK'
  <2>1. outQty' \in [Items -> Int]
    BY <1>1, ConsumeType DEF AddItem
  <2>2. quantity' \in [Items -> Nat]
    BY <1>1 DEF AddItem, TypeOK
  <2>3. total' \in [Orders -> Nat]
    BY <2>2, RecomputeType DEF AddItem
  <2> QED  BY <2>1, <2>2, <2>3 DEF AddItem, TypeOK, ItemState, allocVars
<1>3. ASSUME NEW j \in Items PROVE LineOK(j)'
  <2>1. outQty'[j] = outQty[j] + (IF j = i THEN n ELSE 0)
    BY DEF AddItem, Consume, Only
  <2> QED  BY <1>1, <2>1 DEF AddItem, LinesOf, PendingOf, ConfirmedOf, TypeOK, LineInv, LineOK, GivenBackOnce,
                               allocVars
<1> QED  BY <1>2, <1>3 DEF LineInv

LEMMA RemoveItemStep ==
  ASSUME TypeOK, LineInv, NEW o \in Orders, NEW i \in Items, NEW n \in 1..MaxQty,
         RemoveItem(o, i, n)
  PROVE  TypeOK' /\ LineInv'
<1>1. n \in Nat /\ Only(Items, i, n) \in [Items -> Nat]
  BY QtyAssumption, TableTypes
<1>2. TypeOK'
  <2>1. outQty' \in [Items -> Int]
    BY <1>1, ReturnType DEF RemoveItem
  <2>2. quantity' \in [Items -> Nat]
    BY <1>1 DEF RemoveItem, Shrink, TypeOK
  <2>3. total' \in [Orders -> Nat]
    BY <2>2, RecomputeType DEF RemoveItem
  <2> QED  BY <2>1, <2>2, <2>3 DEF RemoveItem, Shrink, TypeOK, ItemState, allocVars
<1>3. ASSUME NEW j \in Items PROVE LineOK(j)'
  <2>1. outQty'[j] = outQty[j] - (IF j = i THEN n ELSE 0)
    BY DEF RemoveItem, Return, Only
  <2> QED  BY <1>1, <2>1 DEF RemoveItem, Shrink, PaidPiecesStay, PaidQty, LinesOf, PendingOf,
                               ConfirmedOf, TypeOK, LineInv, LineOK, GivenBackOnce, allocVars
<1> QED  BY <1>2, <1>3 DEF LineInv

LEMMA AddPendingStep ==
  ASSUME TypeOK, LineInv, NEW o \in Orders, NEW i \in Items, NEW n \in 1..MaxQty,
         AddPending(o, i, n)
  PROVE  TypeOK' /\ LineInv'
<1>1. n \in Nat /\ Only(Items, i, n) \in [Items -> Nat]
  BY QtyAssumption, TableTypes
<1>2. TypeOK'
  <2>1. outQty' \in [Items -> Int]
    BY <1>1, ConsumeType DEF AddPending
  <2>2. quantity' \in [Items -> Nat]
    BY <1>1 DEF AddPending, TypeOK
  <2>3. itemState' \in [Items -> ItemState] /\ itemOrder' \in [Items -> Orders \cup {NoOrder}]
    BY DEF AddPending, TypeOK, ItemState
  <2> QED  BY <2>1, <2>2, <2>3 DEF AddPending, TypeOK, orderVars, allocVars
<1>3. ASSUME NEW j \in Items PROVE LineOK(j)'
  <2>1. outQty'[j] = outQty[j] + (IF j = i THEN n ELSE 0)
    BY DEF AddPending, Consume, Only
  <2> QED  BY <1>1, <2>1 DEF AddPending, PendingOf, TypeOK, LineInv, LineOK, GivenBackOnce, orderVars, allocVars
<1> QED  BY <1>2, <1>3 DEF LineInv

LEMMA RemovePendingStep ==
  ASSUME TypeOK, LineInv, NEW o \in Orders, NEW i \in Items, NEW n \in 1..MaxQty,
         RemovePending(o, i, n)
  PROVE  TypeOK' /\ LineInv'
<1>1. n \in Nat /\ Only(Items, i, n) \in [Items -> Nat]
  BY QtyAssumption, TableTypes
<1>2. TypeOK'
  <2>1. outQty' \in [Items -> Int]
    BY <1>1, ReturnType DEF RemovePending
  <2>2. quantity' \in [Items -> Nat]
    BY <1>1 DEF RemovePending, RemovablePending, Shrink, TypeOK
  <2>3. itemState' \in [Items -> ItemState]
    BY DEF RemovePending, Shrink, TypeOK, ItemState
  <2> QED  BY <2>1, <2>2, <2>3 DEF RemovePending, Shrink, TypeOK, orderVars, allocVars
<1>3. ASSUME NEW j \in Items PROVE LineOK(j)'
  <2>1. outQty'[j] = outQty[j] - (IF j = i THEN n ELSE 0)
    BY DEF RemovePending, Return, Only
  <2> QED  BY <1>1, <2>1 DEF RemovePending, RemovablePending, Shrink, PendingOf, TypeOK, LineInv,
                               LineOK, GivenBackOnce, orderVars, allocVars
<1> QED  BY <1>2, <1>3 DEF LineInv

LEMMA ConfirmPendingStep ==
  ASSUME TypeOK, LineInv, NEW o \in Orders, ConfirmPending(o)
  PROVE  TypeOK' /\ LineInv'
<1>1. TypeOK'
  <2>1. total' \in [Orders -> Nat]
    BY RecomputeType DEF ConfirmPending, TypeOK
  <2> QED  BY <2>1 DEF ConfirmPending, TypeOK, ItemState, allocVars
<1>2. ASSUME NEW j \in Items PROVE LineOK(j)'
  BY DEF ConfirmPending, PendingOf, TypeOK, LineInv, LineOK, GivenBackOnce, allocVars
<1> QED  BY <1>1, <1>2 DEF LineInv

(* The pending rows of an open comanda go back to stock and disappear.     *)
LEMMA DroppedRow ==
  ASSUME TypeOK, LineInv, NEW o \in Orders, orderStatus[o] = "aberta", NEW j \in Items,
         Return(Where(quantity, PendingOf(o))), Delete(PendingOf(o))
  PROVE  IF j \in PendingOf(o)
         THEN itemState'[j] = "apagado" /\ quantity'[j] = 0 /\ outQty'[j] = 0
         ELSE itemState'[j] = itemState[j] /\ quantity'[j] = quantity[j] /\ outQty'[j] = outQty[j]
<1>1. outQty'[j] = outQty[j] - (IF j \in PendingOf(o) THEN quantity[j] ELSE 0)
  BY DEF Return, Where, TypeOK
<1> QED  BY <1>1 DEF Delete, PendingOf, TypeOK, LineInv, LineOK, GivenBackOnce

LEMMA CancelPendingStep ==
  ASSUME TypeOK, LineInv, NEW o \in Orders, CancelPending(o)
  PROVE  TypeOK' /\ LineInv'
<1>1. TypeOK'
  <2>1. outQty' \in [Items -> Int]
    BY TableTypes, ReturnType DEF CancelPending
  <2> QED  BY <2>1 DEF CancelPending, Delete, TypeOK, ItemState, orderVars, allocVars
<1>2. ASSUME NEW j \in Items PROVE LineOK(j)'
  <2>1. IF j \in PendingOf(o)
        THEN itemState'[j] = "apagado" /\ quantity'[j] = 0 /\ outQty'[j] = 0
        ELSE itemState'[j] = itemState[j] /\ quantity'[j] = quantity[j] /\ outQty'[j] = outQty[j]
    BY DroppedRow DEF CancelPending
  <2> QED  BY <2>1 DEF CancelPending, Delete, PendingOf, TypeOK, LineInv, LineOK, GivenBackOnce, orderVars,
                         allocVars
<1> QED  BY <1>1, <1>2 DEF LineInv

LEMMA PayAmountStep ==
  ASSUME TypeOK, LineInv, NEW o \in Orders, NEW amount \in 1..Remaining(o), PayAmount(o, amount)
  PROVE  TypeOK' /\ LineInv'
<1>1. TypeOK'
  BY DEF PayAmount, TypeOK, lineVars, allocVars
<1>2. LineInv'
  BY DEF PayAmount, LineInv, LineOK, GivenBackOnce, lineVars, allocVars
<1> QED  BY <1>1, <1>2

LEMMA PayItemsStep ==
  ASSUME TypeOK, LineInv, NEW o \in Orders, NEW k \in [Items -> 0..MaxQty], PayItems(o, k)
  PROVE  TypeOK' /\ LineInv'
<1>1. k \in [Items -> Nat]
  BY QtyAssumption
<1>2. TypeOK'
  <2>1. Value(k) \in Nat
    BY <1>1, ValueType
  <2> QED  BY <1>1, <2>1 DEF PayItems, TypeOK, lineVars
<1>3. ASSUME NEW j \in Items PROVE LineOK(j)'
  <2>1. CASE k[j] = 0
    BY <1>1, <2>1 DEF PayItems, TypeOK, LineInv, LineOK, GivenBackOnce, lineVars
  <2>2. CASE k[j] > 0
    BY <1>1, <2>2 DEF PayItems, PaidQty, ConfirmedOf, TypeOK, LineInv, LineOK, GivenBackOnce, lineVars
  <2> QED  BY <1>1, <2>1, <2>2
<1> QED  BY <1>2, <1>3 DEF LineInv

LEMMA CloseOrderStep ==
  ASSUME TypeOK, LineInv, NEW o \in Orders, CloseOrder(o)
  PROVE  TypeOK' /\ LineInv'
<1>1. TypeOK'
  <2>1. outQty' \in [Items -> Int]
    BY TableTypes, ReturnType DEF CloseOrder
  <2>2. Remaining(o) \in Int
    BY DEF Remaining, TypeOK
  <2>3. netPaid' \in [Orders -> Int] /\ partialPayment' \in [Orders -> Int]
    BY <2>2 DEF CloseOrder, TypeOK
  <2>4. /\ itemState' \in [Items -> ItemState] /\ quantity' \in [Items -> Nat]
        /\ itemOrder' \in [Items -> Orders \cup {NoOrder}]
    BY DEF CloseOrder, Delete, TypeOK, ItemState
  <2>5. orderStatus' \in [Orders -> OrderStatus]
    BY DEF CloseOrder, TypeOK, OrderStatus
  <2> QED  BY <2>1, <2>3, <2>4, <2>5 DEF CloseOrder, TypeOK, allocVars
<1>2. ASSUME NEW j \in Items PROVE LineOK(j)'
  <2>1. IF j \in PendingOf(o)
        THEN itemState'[j] = "apagado" /\ quantity'[j] = 0 /\ outQty'[j] = 0
        ELSE itemState'[j] = itemState[j] /\ quantity'[j] = quantity[j] /\ outQty'[j] = outQty[j]
    BY DroppedRow DEF CloseOrder
  <2> QED  BY <2>1 DEF CloseOrder, Delete, PendingOf, TypeOK, LineInv, LineOK, GivenBackOnce, allocVars
<1> QED  BY <1>1, <1>2 DEF LineInv

LEMMA RefundItemsStep ==
  ASSUME TypeOK, LineInv, NEW o \in Orders, NEW k \in [Items -> 0..MaxQty], RefundItems(o, k)
  PROVE  TypeOK' /\ LineInv'
<1>1. k \in [Items -> Nat] /\ Value(k) \in Nat
  BY QtyAssumption, ValueType
<1>2. \A j \in Items : k[j] > 0 =>
        /\ itemOrder[j] = o /\ itemState[j] = "confirmado"
        /\ refundedQty[j] + k[j] <= allocQty[j] /\ k[j] <= quantity[j] /\ k[j] <= outQty[j]
  BY <1>1 DEF RefundItems, Refundable, PaidQty, LinesOf, PendingOf, ConfirmedOf, TypeOK, LineInv,
              LineOK, GivenBackOnce
<1>3. /\ outQty' \in [Items -> Int]
      /\ refundedQty' \in [Items -> Nat]
      /\ netPaid' \in [Orders -> Int] /\ partialPayment' \in [Orders -> Int]
  BY <1>1, ReturnType DEF RefundItems, GiveBack, TypeOK
<1>4. CASE orderStatus[o] = "aberta"
  <2>1. TakeOff(k) /\ RecomputeTotal(o)
    BY <1>4 DEF RefundItems
  <2>2. quantity' \in [Items -> Nat]
    BY <1>1, <1>2, <2>1 DEF TakeOff, TypeOK
  <2>3. total' \in [Orders -> Nat]
    BY <2>1, <2>2, RecomputeType
  <2>4. TypeOK'
    BY <1>3, <2>1, <2>2, <2>3 DEF RefundItems, TakeOff, TypeOK, ItemState
  <2>5. ASSUME NEW j \in Items PROVE LineOK(j)'
    <3>1. /\ orderStatus' = orderStatus /\ isEstorno' = isEstorno /\ itemOrder' = itemOrder
          /\ allocQty' = allocQty /\ orderTable' = orderTable
          /\ refundedQty'[j] = refundedQty[j] + k[j]
          /\ quantity'[j] = quantity[j] - k[j] /\ outQty'[j] = outQty[j] - k[j]
          /\ itemState'[j] = IF k[j] > 0 /\ k[j] = quantity[j] THEN "apagado" ELSE itemState[j]
      BY <2>1 DEF RefundItems, TakeOff, Return
    <3>2. CASE k[j] = 0
      BY <3>1, <3>2 DEF TypeOK, LineInv, LineOK, GivenBackOnce
    <3>3. CASE k[j] > 0
      <4>1. /\ itemOrder[j] = o /\ itemState[j] = "confirmado" /\ outQty[j] = quantity[j]
            /\ refundedQty[j] + k[j] <= allocQty[j] /\ k[j] <= quantity[j]
            /\ allocQty[j] - refundedQty[j] <= quantity[j]
        BY <1>2, <1>4, <3>3 DEF LineInv, LineOK, GivenBackOnce
      <4>2. /\ k[j] \in Nat /\ quantity[j] \in Nat /\ outQty[j] \in Int
            /\ refundedQty[j] \in Nat /\ allocQty[j] \in Nat
        BY <1>1 DEF TypeOK
      <4>3. /\ outQty'[j] >= 0 /\ outQty'[j] = quantity'[j]
            /\ refundedQty'[j] <= allocQty'[j]
            /\ allocQty'[j] - refundedQty'[j] <= quantity'[j]
        BY <3>1, <4>1, <4>2
      <4>4. k[j] = quantity[j] => quantity'[j] = 0 /\ allocQty'[j] = refundedQty'[j]
        BY <3>1, <4>1, <4>2
      <4> QED  BY <1>4, <3>1, <3>3, <4>1, <4>3, <4>4 DEF LineOK, GivenBackOnce
    <3> QED  BY <1>1, <3>2, <3>3
  <2> QED  BY <2>4, <2>5 DEF LineInv
<1>5. CASE orderStatus[o] = "finalizada"
  <2>1. UNCHANGED <<lineVars, total>>
    BY <1>5 DEF RefundItems
  <2>2. TypeOK'
    BY <1>3, <2>1 DEF RefundItems, TypeOK, lineVars
  <2>3. ASSUME NEW j \in Items PROVE LineOK(j)'
    BY <1>1, <1>2, <1>5, <2>1 DEF RefundItems, Return, TypeOK, LineInv, LineOK, GivenBackOnce, lineVars
  <2> QED  BY <2>2, <2>3 DEF LineInv
<1> QED  BY <1>4, <1>5 DEF RefundItems

(* A full refund of an open comanda or of a closed sale not refunded yet   *)
(* gives back of each of its rows no more than the row has out.            *)
LEMMA RefundFullEffect ==
  ASSUME TypeOK, LineInv, NEW o \in Orders, RefundFull(o),
         orderStatus[o] = "aberta" \/ (orderStatus[o] = "finalizada" /\ ~isEstorno[o])
  PROVE  /\ outQty' \in [Items -> Int]
         /\ refundedQty' \in [Items -> Nat]
         /\ \A j \in Items :
              /\ j \in LinesOf(o) => outQty'[j] >= 0
              /\ j \notin LinesOf(o) => outQty'[j] = outQty[j] /\ refundedQty'[j] = refundedQty[j]
<1>1. NotYetRefunded(o) \in [Items -> Nat]
  BY TableTypes
<1>2. outQty' \in [Items -> Int]
  BY <1>1, ReturnType DEF RefundFull
<1>3. refundedQty' \in [Items -> Nat]
  BY <1>1 DEF RefundFull, TypeOK
<1>4. ASSUME NEW j \in Items
      PROVE  /\ j \in LinesOf(o) => outQty'[j] >= 0
             /\ j \notin LinesOf(o) => outQty'[j] = outQty[j] /\ refundedQty'[j] = refundedQty[j]
  <2>1. outQty'[j] = outQty[j] - NotYetRefunded(o)[j]
    BY DEF RefundFull, Return
  <2>2. refundedQty'[j] = refundedQty[j] + NotYetRefunded(o)[j] \/ refundedQty'[j] = refundedQty[j]
    BY DEF RefundFull
  <2>3. NotYetRefunded(o)[j] = IF j \in LinesOf(o) /\ refundedQty[j] < quantity[j]
                               THEN quantity[j] - refundedQty[j] ELSE 0
    BY DEF NotYetRefunded, Where
  <2> QED  BY <2>1, <2>2, <2>3 DEF LinesOf, PendingOf, ConfirmedOf, TypeOK, LineInv, LineOK, GivenBackOnce
<1> QED  BY <1>2, <1>3, <1>4

LEMMA EstornarVendaStep ==
  ASSUME TypeOK, LineInv, NEW o \in Orders, EstornarVenda(o)
  PROVE  TypeOK' /\ LineInv'
<1>1. RefundFull(o) /\ orderStatus[o] = "finalizada" /\ ~isEstorno[o]
  BY DEF EstornarVenda
<1>2. /\ outQty' \in [Items -> Int]
      /\ refundedQty' \in [Items -> Nat]
      /\ \A j \in Items :
           /\ j \in LinesOf(o) => outQty'[j] >= 0
           /\ j \notin LinesOf(o) => outQty'[j] = outQty[j] /\ refundedQty'[j] = refundedQty[j]
  BY <1>1, RefundFullEffect
<1>3. TypeOK'
  BY <1>2 DEF EstornarVenda, RefundFull, TypeOK, lineVars
<1>4. ASSUME NEW j \in Items PROVE LineOK(j)'
  BY <1>1, <1>2 DEF EstornarVenda, RefundFull, LinesOf, PendingOf, ConfirmedOf, TypeOK, LineInv,
                    LineOK, GivenBackOnce, lineVars
<1> QED  BY <1>3, <1>4 DEF LineInv

LEMMA CancelPaidStep ==
  ASSUME TypeOK, LineInv, NEW o \in Orders, CancelPaid(o)
  PROVE  TypeOK' /\ LineInv'
<1>1. RefundFull(o) /\ orderStatus[o] = "aberta"
  BY DEF CancelPaid
<1>2. /\ outQty' \in [Items -> Int]
      /\ refundedQty' \in [Items -> Nat]
      /\ \A j \in Items :
           /\ j \in LinesOf(o) => outQty'[j] >= 0
           /\ j \notin LinesOf(o) => outQty'[j] = outQty[j] /\ refundedQty'[j] = refundedQty[j]
  BY <1>1, RefundFullEffect
<1>3. TypeOK'
  <2>1. /\ netPaid' \in [Orders -> Int] /\ partialPayment' \in [Orders -> Int]
        /\ total' \in [Orders -> Nat]
    BY DEF CancelPaid, RefundFull, TypeOK
  <2>2. orderStatus' \in [Orders -> OrderStatus]
    BY DEF CancelPaid, TypeOK, OrderStatus
  <2> QED  BY <1>2, <2>1, <2>2 DEF CancelPaid, RefundFull, TypeOK, lineVars
<1>4. ASSUME NEW j \in Items PROVE LineOK(j)'
  BY <1>1, <1>2 DEF CancelPaid, RefundFull, LinesOf, PendingOf, ConfirmedOf, TypeOK, LineInv,
                    LineOK, GivenBackOnce, lineVars
<1> QED  BY <1>3, <1>4 DEF LineInv

LEMMA CancelUnpaidStep ==
  ASSUME TypeOK, LineInv, NEW o \in Orders, CancelUnpaid(o)
  PROVE  TypeOK' /\ LineInv'
<1>1. TypeOK'
  <2>1. outQty' \in [Items -> Int]
    BY TableTypes, ReturnType DEF CancelUnpaid
  <2>2. orderStatus' \in [Orders -> OrderStatus]
    BY DEF CancelUnpaid, TypeOK, OrderStatus
  <2> QED  BY <2>1, <2>2 DEF CancelUnpaid, TypeOK, lineVars, allocVars
<1>2. ASSUME NEW j \in Items PROVE LineOK(j)'
  <2>1. outQty'[j] = outQty[j] - (IF j \in LinesOf(o) THEN quantity[j] ELSE 0)
    BY DEF CancelUnpaid, Return, Where, TypeOK
  <2> QED  BY <2>1 DEF CancelUnpaid, LinesOf, PendingOf, ConfirmedOf, TypeOK, LineInv, LineOK, GivenBackOnce,
                         lineVars, allocVars
<1> QED  BY <1>1, <1>2 DEF LineInv

-----------------------------------------------------------------------------
(* A row stays with its comanda, and a comanda of a counter on the counter,*)
(* whatever runs between the steps of an open_order call.                  *)
RowsStay ==
  /\ \A i \in Items : itemState[i] # "livre" =>
       itemState'[i] # "livre" /\ itemOrder'[i] = itemOrder[i]
  /\ \A o \in Orders : orderStatus[o] # "nenhuma" =>
       /\ orderStatus'[o] # "nenhuma"
       /\ orderTable[o] \in Balcoes => orderTable'[o] \in Balcoes

LEMMA RowsStayStep ==
  ASSUME TypeOK, LineInv, [Next]_vars
  PROVE  RowsStay
<1> USE DEF TypeOK, RowsStay, lineVars, orderVars
<1>1. ASSUME NEW c \in Clients, Opening(c) PROVE RowsStay
  BY <1>1 DEF Opening, OpenOrderCheck, OpenOrderReuse, OpenOrderFind, OpenOrderDiscard,
              OpenOrderFresh, OpenOrderInsert
<1>2. ASSUME NEW o \in Orders, Ordering(o) PROVE RowsStay
  <2>1. ASSUME NEW k \in [Items -> 0..MaxQty], CreatePedido(o, k) PROVE RowsStay
    BY <2>1 DEF CreatePedido
  <2>2. ASSUME NEW i \in Items, NEW n \in 1..MaxQty, AddItem(o, i, n) PROVE RowsStay
    BY <2>2 DEF AddItem, LinesOf, PendingOf, ConfirmedOf
  <2>3. ASSUME NEW i \in Items, NEW n \in 1..MaxQty, RemoveItem(o, i, n) PROVE RowsStay
    BY <2>3 DEF RemoveItem, Shrink
  <2>4. ASSUME NEW i \in Items, NEW n \in 1..MaxQty, AddPending(o, i, n) PROVE RowsStay
    BY <2>4 DEF AddPending, PendingOf
  <2>5. ASSUME NEW i \in Items, NEW n \in 1..MaxQty, RemovePending(o, i, n) PROVE RowsStay
    BY <2>5 DEF RemovePending, Shrink
  <2>6. CASE ConfirmPending(o)
    BY <2>6 DEF ConfirmPending
  <2>7. CASE CancelPending(o)
    BY <2>7 DEF CancelPending, Delete
  <2> QED  BY <1>2, <2>1, <2>2, <2>3, <2>4, <2>5, <2>6, <2>7 DEF Ordering
<1>3. ASSUME NEW o \in Orders, Settling(o) PROVE RowsStay
  <2>1. ASSUME NEW amount \in 1..Remaining(o), PayAmount(o, amount) PROVE RowsStay
    BY <2>1 DEF PayAmount
  <2>2. ASSUME NEW k \in [Items -> 0..MaxQty], PayItems(o, k) PROVE RowsStay
    BY <2>2 DEF PayItems
  <2>3. CASE CloseOrder(o)
    BY <2>3 DEF CloseOrder, Delete
  <2>4. ASSUME NEW k \in [Items -> 0..MaxQty], RefundItems(o, k) PROVE RowsStay
    BY <2>4 DEF RefundItems, TakeOff
  <2>5. CASE EstornarVenda(o)
    BY <2>5 DEF EstornarVenda, RefundFull
  <2>6. CASE CancelPaid(o)
    BY <2>6 DEF CancelPaid, RefundFull
  <2>7. CASE CancelUnpaid(o)
    BY <2>7 DEF CancelUnpaid
  <2> QED  BY <1>3, <2>1, <2>2, <2>3, <2>4, <2>5, <2>6, <2>7 DEF Settling
<1>4. CASE Administration
  BY <1>4, TablesAssumption DEF Administration, MoveOrder, OpenRegister,
                                CloseRegister
<1>5. CASE UNCHANGED vars
  BY <1>5 DEF vars
<1> QED  BY <1>1, <1>2, <1>3, <1>4, <1>5 DEF Next

LEMMA FoundStep ==
  ASSUME TypeOK, LineInv, FoundInv, [Next]_vars
  PROVE  FoundInv'
<1>1. RowsStay
  BY RowsStayStep
<1>2. ASSUME NEW c \in Clients, request'[c] = request[c] PROVE FoundOK(c)'
  BY <1>1, <1>2 DEF RowsStay, FoundInv, FoundOK, TypeOK, Request
<1>3. ASSUME NEW c \in Clients, Opening(c), NEW d \in Clients PROVE FoundOK(d)'
  <2>1. CASE d # c
    <3>1. request'[d] = request[d]
      BY <1>3, <2>1 DEF Opening, OpenOrderCheck, OpenOrderReuse, OpenOrderFind, OpenOrderDiscard,
                        OpenOrderFresh, OpenOrderInsert, TypeOK
    <3> QED  BY <1>2, <3>1
  <2>2. ASSUME d = c, request' = [request EXCEPT ![c] = NoRequest] PROVE FoundOK(d)'
    BY <2>2 DEF FoundOK, NoRequest, Idle, TypeOK
  <2>3. ASSUME d = c, NEW t \in Tables, OpenOrderCheck(c, t) PROVE FoundOK(d)'
    BY <2>3 DEF OpenOrderCheck, FoundOK, TypeOK
  <2>4. ASSUME d = c, OpenOrderFresh(c) PROVE FoundOK(d)'
    BY <2>4 DEF OpenOrderFresh, FoundOK, TypeOK, Request
  <2>5. ASSUME d = c, OpenOrderFind(c) PROVE FoundOK(d)'
    <3> DEFINE extras == Duplicates(request[c].table)
    <3>1. \A o \in extras : o \in Orders /\ orderStatus[o] = "aberta" /\ orderTable[o] \in Balcoes
      BY <2>5 DEF OpenOrderFind, Duplicates, OpenOn, FoundInv, FoundOK
    <3>2. \A i \in Items : Where(quantity, RowsOf(extras))[i] > 0 =>
            itemState[i] # "livre" /\ itemOrder[i] \in extras
      BY <3>1 DEF Where, RowsOf, LinesOf, PendingOf, ConfirmedOf, TypeOK
    <3>3. /\ request'[c] = [request[c] EXCEPT !.step = "descartar", !.extras = extras,
                                              !.rows = Where(quantity, RowsOf(extras))]
          /\ UNCHANGED <<orderVars, lineVars>>
      BY <2>5 DEF OpenOrderFind, TypeOK
    <3> HIDE DEF extras
    <3>4. /\ request'[c].step = "descartar" /\ request'[c].extras = extras
          /\ request'[c].rows = Where(quantity, RowsOf(extras))
      BY <3>3 DEF TypeOK, Request
    <3> QED  BY <2>5, <3>1, <3>2, <3>3, <3>4 DEF FoundOK, orderVars, lineVars
  <2> QED  BY <1>3, <2>1, <2>2, <2>3, <2>4, <2>5
             DEF Opening, OpenOrderReuse, OpenOrderDiscard, OpenOrderInsert
<1>4. CASE \E c \in Clients : Opening(c)
  BY <1>3, <1>4 DEF FoundInv
<1>5. CASE UNCHANGED request
  BY <1>2, <1>5 DEF FoundInv
<1>6. (\E c \in Clients : Opening(c)) \/ UNCHANGED request
  BY DEF Next, Ordering, Settling, Administration, CreatePedido, AddItem, RemoveItem, AddPending,
         RemovePending, ConfirmPending, CancelPending, PayAmount, PayItems, CloseOrder, RefundItems,
         EstornarVenda, CancelPaid, CancelUnpaid, RefundFull, MoveOrder, OpenRegister,
         CloseRegister, vars
<1> QED  BY <1>4, <1>5, <1>6

-----------------------------------------------------------------------------
(* Types and the row invariant hold in every reachable state.              *)
THEOREM RowsCorrect == Spec => [](TypeOK /\ LineInv /\ FoundInv)
<1>1. Init => TypeOK /\ LineInv /\ FoundInv
  <2>1. Init => TypeOK
    <3>1. Init => request \in [Clients -> Request]
      BY DEF Init, Request, NoRequest, NothingFound, Idle
    <3>2. Init => /\ orderStatus \in [Orders -> OrderStatus]
                  /\ orderTable \in [Orders -> Tables \cup {NoTable}]
      BY DEF Init, OrderStatus
    <3>3. Init => sessionOpen \in BOOLEAN
      BY DEF Init
    <3>4. Init => isEstorno \in [Orders -> BOOLEAN]
      BY DEF Init
    <3>5. Init => /\ total \in [Orders -> Nat]
                  /\ partialPayment \in [Orders -> Int]
                  /\ netPaid \in [Orders -> Int]
      BY DEF Init
    <3>6. Init => /\ itemState \in [Items -> ItemState]
                  /\ itemOrder \in [Items -> Orders \cup {NoOrder}]
                  /\ quantity \in [Items -> Nat]
                  /\ allocQty \in [Items -> Nat]
                  /\ refundedQty \in [Items -> Nat]
                  /\ outQty \in [Items -> Int]
      BY DEF Init, ItemState
    <3> QED  BY <3>1, <3>2, <3>3, <3>4, <3>5, <3>6 DEF TypeOK
  <2>2. Init => LineInv
    BY DEF Init, LineInv, LineOK, GivenBackOnce
  <2>3. Init => FoundInv
    BY DEF Init, NoRequest, FoundInv, FoundOK, Idle
  <2> QED  BY <2>1, <2>2, <2>3
<1>2. TypeOK /\ LineInv /\ FoundInv /\ [Next]_vars => TypeOK' /\ LineInv' /\ FoundInv'
  <2> SUFFICES ASSUME TypeOK, LineInv, FoundInv, [Next]_vars PROVE TypeOK' /\ LineInv'
    BY FoundStep
  <2>1. ASSUME NEW c \in Clients, Opening(c) PROVE TypeOK' /\ LineInv'
    BY <2>1, OpeningStep
  <2>2. ASSUME NEW o \in Orders, Ordering(o) PROVE TypeOK' /\ LineInv'
    BY <2>2, CreatePedidoStep, AddItemStep, RemoveItemStep, AddPendingStep, RemovePendingStep,
       ConfirmPendingStep, CancelPendingStep DEF Ordering
  <2>3. ASSUME NEW o \in Orders, Settling(o) PROVE TypeOK' /\ LineInv'
    BY <2>3, PayAmountStep, PayItemsStep, CloseOrderStep, RefundItemsStep, EstornarVendaStep,
       CancelPaidStep, CancelUnpaidStep DEF Settling
  <2>4. CASE Administration
    BY <2>4, AdministrationStep
  <2>5. CASE UNCHANGED vars
    BY <2>5, StutterStep
  <2> QED  BY <2>1, <2>2, <2>3, <2>4, <2>5 DEF Next
<1> QED  BY <1>1, <1>2, PTL DEF Spec

(* The type invariant of the runs.                                         *)
THEOREM TypeCorrect == Spec => []TypeOK
BY RowsCorrect, PTL

(* No piece is paid twice and no paid piece leaves a bill unrefunded.      *)
THEOREM NeverOverpaid == Spec => []LinesNeverOverpaid
<1>1. TypeOK /\ LineInv => LinesNeverOverpaid
  <2> SUFFICES ASSUME TypeOK, LineInv, NEW o \in Orders, NEW i \in Items,
                      Live(o), itemOrder[i] = o
               PROVE  PaidQty(i) <= quantity[i]
    BY DEF LinesNeverOverpaid
  <2>1. quantity[i] \in Nat /\ refundedQty[i] \in Nat /\ allocQty[i] \in Nat
    BY DEF TypeOK
  <2>2. allocQty[i] - refundedQty[i] <= quantity[i]
    <3>1. CASE itemState[i] \in {"livre", "apagado"}
      BY <2>1, <3>1 DEF LineInv, LineOK, GivenBackOnce
    <3>2. CASE itemState[i] \in {"pendente", "confirmado"}
      BY <2>1, <3>2 DEF Live, LineInv, LineOK, GivenBackOnce
    <3> QED  BY <3>1, <3>2 DEF TypeOK, ItemState
  <2> QED  BY <2>1, <2>2 DEF PaidQty
<1> QED  BY <1>1, RowsCorrect, PTL

(* A row of an open comanda holds exactly its quantity of stock.           *)
THEOREM OpenLinesHold == Spec => []OpenLinesHoldStock
<1>1. TypeOK /\ LineInv => OpenLinesHoldStock
  <2> SUFFICES ASSUME TypeOK, LineInv, NEW i \in Items, itemOrder[i] \in Orders
               PROVE  /\ itemState[i] = "apagado" /\ GivenBackOnce(itemOrder[i]) => outQty[i] = 0
                      /\ orderStatus[itemOrder[i]] = "aberta" => outQty[i] = quantity[i]
    BY DEF OpenLinesHoldStock
  <2>1. itemState[i] # "livre"
    BY OrdersAssumption DEF LineInv, LineOK, Orders, NoOrder
  <2>2. itemState[i] \in {"pendente", "confirmado", "apagado"}
    BY <2>1 DEF TypeOK, ItemState
  <2> QED  BY <2>1, <2>2 DEF LineInv, LineOK, GivenBackOnce
<1> QED  BY <1>1, RowsCorrect, PTL

(* No row ever gives back more pieces than it took.                        *)
THEOREM NeverReturnsTooMuch == Spec => []NoLineReturnsMoreThanItTook
<1>1. LineInv => NoLineReturnsMoreThanItTook
  BY OrdersAssumption DEF LineInv, LineOK, Orders, NoOrder, NoLineReturnsMoreThanItTook
<1> QED  BY <1>1, RowsCorrect, PTL

(***************************************************************************)
(* The sums of Comanda: the money of a comanda and what a step may do to a *)
(* bill.                                                                   *)
(*                                                                         *)
(* A step acts on one comanda at a time (on the duplicates it discards, in *)
(* open_order): every other comanda is Untouched, its row and its lines.   *)
(* What remains of each invariant is what an action does to the comanda it *)
(* is about, which is the laws of sums.  LineInv and FoundInv above say    *)
(* what the lines are.                                                     *)
(***************************************************************************)

(* The lines of a comanda that have been paid, and their value.            *)
RowsIn(o) == {i \in Items : itemOrder[i] = o}
PaidTable(o) == Where([i \in Items |-> PaidQty(i)], RowsIn(o))
SoldTable(o) == Where(quantity, ConfirmedOf(o))

(* What the stored sums of a comanda are in each of its states.            *)
MoneyOK(o) ==
  /\ orderStatus[o] = "nenhuma" =>
       total[o] = 0 /\ partialPayment[o] = 0 /\ netPaid[o] = 0 /\ ~isEstorno[o]
  /\ orderStatus[o] = "aberta" =>
       /\ total[o] = Sold(o) /\ partialPayment[o] = netPaid[o]
       /\ netPaid[o] >= 0 /\ netPaid[o] <= total[o]
       /\ ~isEstorno[o]
  /\ Live(o) => Value(PaidTable(o)) <= netPaid[o]
  /\ orderStatus[o] = "cancelada" /\ orderTable[o] \in Mesas => netPaid[o] = 0 /\ ~isEstorno[o]

MoneyInv == \A o \in Orders : MoneyOK(o)

-----------------------------------------------------------------------------
(* Laws of Value.                                                          *)

LEMMA ValueLaws ==
  ASSUME NEW k \in [Items -> Nat], NEW m \in [Items -> Nat]
  PROVE  /\ \A s \in [Items -> Nat] :
              (\A i \in Items : s[i] = k[i] + m[i]) => Value(s) = Value(k) + Value(m)
         /\ (\A i \in Items : k[i] <= m[i]) => Value(k) <= Value(m)
         /\ (\A i \in Items : k[i] = 0) => Value(k) = 0
<1> DEFINE F(t) == [i \in Items |-> UnitPrice[i] * t[i]]
<1>1. \A t \in [Items -> Nat] : F(t) \in [Items -> Nat] /\ Value(t) = SumF(F(t))
  BY ItemsAssumption DEF Value
<1>2. ASSUME NEW s \in [Items -> Nat], \A i \in Items : s[i] = k[i] + m[i]
      PROVE  Value(s) = Value(k) + Value(m)
  <2>1. F(s) = [i \in Items |-> F(k)[i] + F(m)[i]]
    <3>1. \A i \in Items : UnitPrice[i] * s[i] = UnitPrice[i] * k[i] + UnitPrice[i] * m[i]
      BY <1>2, ItemsAssumption
    <3> QED  BY <3>1
  <2> HIDE DEF F
  <2> QED  BY <1>1, <2>1, ItemsAssumption, SumAdditive
<1>3. ASSUME \A i \in Items : k[i] <= m[i] PROVE Value(k) <= Value(m)
  <2>1. \A i \in Items : F(k)[i] <= F(m)[i]
    <3>1. \A a, b, c \in Nat : b <= c => a * b <= a * c
      OBVIOUS
    <3> QED  BY <1>3, <3>1, ItemsAssumption
  <2> HIDE DEF F
  <2> QED  BY <1>1, <2>1, ItemsAssumption, SumMono
<1>4. ASSUME \A i \in Items : k[i] = 0 PROVE Value(k) = 0
  <2>1. \A i \in Items : F(k)[i] = 0
    BY <1>4, ItemsAssumption
  <2> HIDE DEF F
  <2> QED  BY <1>1, <2>1, SumZero
<1> QED  BY <1>2, <1>3, <1>4

LEMMA ValueOnly ==
  ASSUME NEW i \in Items, NEW n \in Nat
  PROVE  Value(Only(Items, i, n)) = UnitPrice[i] * n
<1>1. UnitPrice[i] * n \in Nat
  BY ItemsAssumption
<1>2. [j \in Items |-> UnitPrice[j] * Only(Items, i, n)[j]] = Only(Items, i, UnitPrice[i] * n)
  BY ItemsAssumption DEF Only
<1> QED  BY <1>1, <1>2, SumOnly DEF Value

LEMMA MoneyTypes ==
  ASSUME TypeOK, NEW o \in Orders
  PROVE  /\ SoldTable(o) \in [Items -> Nat] /\ PaidTable(o) \in [Items -> Nat]
         /\ Sold(o) = Value(SoldTable(o)) /\ Sold(o) \in Nat
         /\ Value(PaidTable(o)) \in Nat
         /\ Remaining(o) \in Nat
<1>1. SoldTable(o) \in [Items -> Nat]
  BY DEF SoldTable, Where, TypeOK
<1>2. PaidTable(o) \in [Items -> Nat]
  BY DEF PaidTable, PaidQty, Where, TypeOK
<1> QED  BY <1>1, <1>2, ValueType DEF Sold, SoldTable, Remaining, TypeOK

-----------------------------------------------------------------------------
(* The columns and lines of a comanda that a step leaves alone, and the    *)
(* steps that do not: every other step leaves it untouched.                *)
Untouched(o) ==
  /\ orderStatus'[o] = orderStatus[o] /\ orderTable'[o] = orderTable[o]
  /\ total'[o] = total[o] /\ partialPayment'[o] = partialPayment[o]
  /\ netPaid'[o] = netPaid[o] /\ isEstorno'[o] = isEstorno[o]
  /\ \A i \in Items : itemOrder[i] = o \/ itemOrder'[i] = o =>
       /\ itemOrder'[i] = itemOrder[i] /\ itemState'[i] = itemState[i]
       /\ quantity'[i] = quantity[i] /\ outQty'[i] = outQty[i]
       /\ allocQty'[i] = allocQty[i] /\ refundedQty'[i] = refundedQty[i]

Moves(o) == \E t \in Tables : MoveOrder(o, t)
Opens(o) ==
  \E c \in Clients : OpenOrderInsert(c) /\ orderStatus[o] = "nenhuma" /\ orderStatus'[o] = "aberta"
Discards(o) == \E c \in Clients : OpenOrderDiscard(c) /\ o \in request[c].extras
ActsOn(o) == Ordering(o) \/ Settling(o) \/ Moves(o) \/ Opens(o) \/ Discards(o)

LEMMA OrderingElsewhere ==
  ASSUME TypeOK, LineInv, NEW o \in Orders, NEW u \in Orders, u # o, Ordering(u)
  PROVE  Untouched(o)
<1> USE DEF TypeOK, Untouched, orderVars, lineVars, allocVars
<1>1. o # NoOrder
  BY OrdersAssumption DEF Orders, NoOrder
<1>2. ASSUME NEW k \in [Items -> 0..MaxQty], CreatePedido(u, k) PROVE Untouched(o)
  <2>1. \A i \in Items : k[i] \in Nat
    BY QtyAssumption
  <2>2. \A i \in Items : itemOrder[i] = o \/ itemOrder'[i] = o => k[i] = 0
    BY <1>1, <1>2, <2>1 DEF CreatePedido, LineInv, LineOK
  <2> QED  BY <1>2, <2>1, <2>2 DEF CreatePedido, Consume, RecomputeTotal
<1>3. ASSUME NEW i \in Items, NEW n \in 1..MaxQty, AddItem(u, i, n) PROVE Untouched(o)
  <2>1. itemOrder[i] # o /\ itemOrder'[i] = u
    BY <1>1, <1>3 DEF AddItem, LinesOf, PendingOf, ConfirmedOf, LineInv, LineOK
  <2> QED  BY <1>3, <2>1 DEF AddItem, Consume, Only, RecomputeTotal
<1>4. ASSUME NEW i \in Items, NEW n \in 1..MaxQty, RemoveItem(u, i, n) PROVE Untouched(o)
  BY <1>4 DEF RemoveItem, Shrink, Return, Only, RecomputeTotal, LinesOf, PendingOf, ConfirmedOf
<1>5. ASSUME NEW i \in Items, NEW n \in 1..MaxQty, AddPending(u, i, n) PROVE Untouched(o)
  <2>1. itemOrder[i] # o /\ itemOrder'[i] = u
    BY <1>1, <1>5 DEF AddPending, PendingOf, LineInv, LineOK
  <2> QED  BY <1>5, <2>1 DEF AddPending, Consume, Only
<1>6. ASSUME NEW i \in Items, NEW n \in 1..MaxQty, RemovePending(u, i, n) PROVE Untouched(o)
  BY <1>6 DEF RemovePending, RemovablePending, Shrink, Return, Only, PendingOf
<1>7. CASE ConfirmPending(u)
  BY <1>7 DEF ConfirmPending, RecomputeTotal, PendingOf
<1>8. CASE CancelPending(u)
  BY <1>8 DEF CancelPending, Return, Where, Delete, PendingOf
<1> QED  BY <1>2, <1>3, <1>4, <1>5, <1>6, <1>7, <1>8 DEF Ordering

LEMMA SettlingElsewhere ==
  ASSUME TypeOK, LineInv, NEW o \in Orders, NEW u \in Orders, u # o, Settling(u)
  PROVE  Untouched(o)
<1> USE DEF TypeOK, Untouched, orderVars, lineVars, allocVars
<1>1. ASSUME NEW amount \in 1..Remaining(u), PayAmount(u, amount) PROVE Untouched(o)
  BY <1>1 DEF PayAmount
<1>2. ASSUME NEW k \in [Items -> 0..MaxQty], PayItems(u, k) PROVE Untouched(o)
  <2>1. \A i \in Items : itemOrder[i] = o => k[i] = 0
    BY <1>2, QtyAssumption DEF PayItems, ConfirmedOf
  <2> QED  BY <1>2, <2>1 DEF PayItems
<1>3. CASE CloseOrder(u)
  BY <1>3 DEF CloseOrder, Return, Where, Delete, PendingOf
<1>4. ASSUME NEW k \in [Items -> 0..MaxQty], RefundItems(u, k) PROVE Untouched(o)
  <2>1. \A i \in Items : itemOrder[i] = o => k[i] = 0
    BY <1>4, QtyAssumption DEF RefundItems, Refundable, LinesOf, PendingOf, ConfirmedOf
  <2> QED  BY <1>4, <2>1 DEF RefundItems, GiveBack, Return, TakeOff, RecomputeTotal
<1>5. \A i \in Items : itemOrder[i] = o =>
        NotYetRefunded(u)[i] = 0 /\ Where(quantity, LinesOf(u))[i] = 0
  BY DEF NotYetRefunded, Where, LinesOf, PendingOf, ConfirmedOf
<1>6. CASE EstornarVenda(u)
  <2>1. RefundFull(u) /\ UNCHANGED <<orderStatus, total>>
        /\ isEstorno' = [isEstorno EXCEPT ![u] = TRUE]
    BY <1>6 DEF EstornarVenda
  <2>2. \A i \in Items : itemOrder[i] = o => refundedQty'[i] = refundedQty[i] /\ outQty'[i] = outQty[i]
    BY <1>5, <2>1 DEF RefundFull, Return
  <2> QED  BY <2>1, <2>2 DEF RefundFull
<1>7. CASE CancelPaid(u)
  BY <1>5, <1>7 DEF CancelPaid, RefundFull, Return
<1>8. CASE CancelUnpaid(u)
  BY <1>5, <1>8 DEF CancelUnpaid, Return
<1> QED  BY <1>1, <1>2, <1>3, <1>4, <1>6, <1>7, <1>8 DEF Settling

LEMMA OpeningElsewhere ==
  ASSUME TypeOK, LineInv, FoundInv, NEW o \in Orders, NEW c \in Clients, Opening(c),
         ~Opens(o), ~Discards(o)
  PROVE  Untouched(o)
<1> USE DEF TypeOK, Untouched, orderVars, lineVars, allocVars
<1>1. CASE OpenOrderInsert(c)
  <2>1. PICK u \in Orders : /\ orderStatus[u] = "nenhuma"
                            /\ orderStatus' = [orderStatus EXCEPT ![u] = "aberta"]
                            /\ orderTable' = [orderTable EXCEPT ![u] = request[c].table]
    BY <1>1 DEF OpenOrderInsert
  <2>2. u # o
    BY <1>1, <2>1 DEF Opens
  <2> QED  BY <1>1, <2>1, <2>2 DEF OpenOrderInsert
<1>2. CASE OpenOrderDiscard(c)
  <2>1. o \notin request[c].extras
    BY <1>2 DEF Discards
  <2>2. \A i \in Items : itemOrder[i] = o => request[c].rows[i] = 0
    <3>1. request[c].rows \in [Items -> Nat]
      BY DEF Request
    <3>2. \A i \in Items : request[c].rows[i] > 0 => itemOrder[i] \in request[c].extras
      BY <1>2 DEF OpenOrderDiscard, FoundInv, FoundOK
    <3> QED  BY <2>1, <3>1, <3>2
  <2> QED  BY <1>2, <2>1, <2>2 DEF OpenOrderDiscard, Return
<1>3. ASSUME UNCHANGED <<orderVars, lineVars, allocVars, outQty>> PROVE Untouched(o)
  BY <1>3
<1> QED  BY <1>1, <1>2, <1>3 DEF Opening, OpenOrderCheck, OpenOrderReuse, OpenOrderFind, OpenOrderFresh

LEMMA UntouchedElsewhere ==
  ASSUME TypeOK, LineInv, FoundInv, [Next]_vars, NEW o \in Orders, ~ActsOn(o)
  PROVE  Untouched(o)
<1>1. ASSUME NEW c \in Clients, Opening(c) PROVE Untouched(o)
  BY <1>1, OpeningElsewhere DEF ActsOn
<1>2. ASSUME NEW u \in Orders, Ordering(u) \/ Settling(u) PROVE Untouched(o)
  BY <1>2, OrderingElsewhere, SettlingElsewhere DEF ActsOn
<1>3. ASSUME NEW u \in Orders, NEW t \in Tables, MoveOrder(u, t) PROVE Untouched(o)
  <2>1. u # o
    BY <1>3 DEF ActsOn, Moves
  <2> QED  BY <1>3, <2>1 DEF MoveOrder, Untouched, TypeOK, lineVars, allocVars
<1>4. ASSUME UNCHANGED <<orderVars, lineVars, allocVars, outQty>> PROVE Untouched(o)
  BY <1>4 DEF Untouched, orderVars, lineVars, allocVars
<1> QED  BY <1>1, <1>2, <1>3, <1>4
         DEF Next, Administration, OpenRegister, CloseRegister, vars

-----------------------------------------------------------------------------
(* The money of a comanda.                                                 *)

(* A comanda whose lines are the same has the same sums.                   *)
LEMMA UntouchedMoney ==
  ASSUME TypeOK, TypeOK', NEW o \in Orders, MoneyOK(o), Untouched(o)
  PROVE  MoneyOK(o)'
<1>1. SoldTable(o)' = SoldTable(o)
  <2>1. \A i \in Items : SoldTable(o)'[i] = SoldTable(o)[i]
    BY DEF Untouched, SoldTable, Where, ConfirmedOf, TypeOK
  <2>2. DOMAIN quantity = Items /\ DOMAIN quantity' = Items
    BY DEF TypeOK
  <2> QED  BY <2>1, <2>2 DEF SoldTable, Where
<1>2. PaidTable(o)' = PaidTable(o)
  <2>1. \A i \in Items : PaidTable(o)'[i] = PaidTable(o)[i]
    BY DEF Untouched, PaidTable, Where, RowsIn, PaidQty, TypeOK
  <2> QED  BY <2>1 DEF PaidTable, Where
<1>3. Sold(o)' = Sold(o) /\ Value(PaidTable(o))' = Value(PaidTable(o))
  BY <1>1, <1>2 DEF Sold, SoldTable, Value
<1> QED  BY <1>3 DEF Untouched, MoneyOK, Live

(* What is sold and what is paid, line by line, for the steps below.       *)
LEMMA SoldGrows ==
  ASSUME TypeOK, TypeOK', NEW o \in Orders, NEW m \in [Items -> Nat],
         \A i \in Items : SoldTable(o)[i] <= SoldTable(o)'[i] + m[i]
  PROVE  Sold(o) <= Sold(o)' + Value(m)
<1> DEFINE before == SoldTable(o)
           after == SoldTable(o)'
           s == [i \in Items |-> after[i] + m[i]]
<1>1. before \in [Items -> Nat] /\ Sold(o) = Value(before)
  BY MoneyTypes
<1>2. after \in [Items -> Nat] /\ Sold(o)' = Value(after)
  BY DEF SoldTable, Sold, Where, TypeOK, Value
<1>3. \A i \in Items : before[i] <= after[i] + m[i]
  OBVIOUS
<1> HIDE DEF before, after
<1>4. s \in [Items -> Nat]
  BY <1>2
<1>5. Value(s) = Value(after) + Value(m)
  BY <1>2, <1>4, ValueLaws
<1>6. Value(before) <= Value(s)
  <2>1. \A i \in Items : before[i] <= s[i]
    BY <1>3
  <2> HIDE DEF s
  <2> QED  BY <1>1, <1>4, <2>1, ValueLaws
<1> QED  BY <1>1, <1>2, <1>5, <1>6

LEMMA SoldShrinks ==
  ASSUME TypeOK, TypeOK', NEW o \in Orders, NEW m \in [Items -> Nat],
         \A i \in Items : SoldTable(o)[i] = SoldTable(o)'[i] + m[i]
  PROVE  Sold(o) = Sold(o)' + Value(m)
<1> DEFINE before == SoldTable(o)
           after == SoldTable(o)'
<1>1. before \in [Items -> Nat] /\ Sold(o) = Value(before)
  BY MoneyTypes
<1>2. after \in [Items -> Nat] /\ Sold(o)' = Value(after)
  BY DEF SoldTable, Sold, Where, TypeOK, Value
<1>3. \A i \in Items : before[i] = after[i] + m[i]
  OBVIOUS
<1> HIDE DEF before, after
<1> QED  BY <1>1, <1>2, <1>3, ValueLaws

(* Pieces paid or refunded: both tables move by m.                         *)
LEMMA PaidMoves ==
  ASSUME TypeOK, TypeOK', NEW o \in Orders, NEW m \in [Items -> Nat]
  PROVE  /\ (\A i \in Items : PaidTable(o)'[i] = PaidTable(o)[i] + m[i]) =>
              Value(PaidTable(o))' = Value(PaidTable(o)) + Value(m)
         /\ (\A i \in Items : PaidTable(o)[i] = PaidTable(o)'[i] + m[i]) =>
              Value(PaidTable(o)) = Value(PaidTable(o))' + Value(m)
<1> DEFINE before == PaidTable(o)
           after == PaidTable(o)'
<1>1. before \in [Items -> Nat]
  BY MoneyTypes
<1>2. after \in [Items -> Nat] /\ Value(PaidTable(o))' = Value(after)
  BY DEF PaidTable, PaidQty, Where, TypeOK, Value
<1>3. /\ (\A i \in Items : after[i] = before[i] + m[i]) => Value(after) = Value(before) + Value(m)
      /\ (\A i \in Items : before[i] = after[i] + m[i]) => Value(before) = Value(after) + Value(m)
  <2> HIDE DEF before, after
  <2> QED  BY <1>1, <1>2, ValueLaws
<1> QED  BY <1>2, <1>3

(* Lines whose payments did not move keep the value paid.                  *)
LEMMA PaidStays ==
  ASSUME TypeOK, NEW o \in Orders,
         \A i \in Items : itemOrder[i] = o => itemOrder'[i] = o,
         \A i \in Items : itemOrder[i] = o \/ itemOrder'[i] = o => PaidQty(i)' = PaidQty(i),
         \A i \in Items : itemOrder'[i] = o => itemOrder[i] = o \/ PaidQty(i) = 0
  PROVE  Value(PaidTable(o))' = Value(PaidTable(o))
<1>1. \A i \in Items : PaidTable(o)'[i] = PaidTable(o)[i]
  <2> SUFFICES ASSUME NEW i \in Items PROVE PaidTable(o)'[i] = PaidTable(o)[i]
    OBVIOUS
  <2>1. PaidTable(o)[i] = IF itemOrder[i] = o THEN PaidQty(i) ELSE 0
    BY DEF PaidTable, Where, RowsIn
  <2>2. PaidTable(o)'[i] = IF itemOrder'[i] = o THEN PaidQty(i)' ELSE 0
    BY DEF PaidTable, Where, RowsIn
  <2> QED  BY <2>1, <2>2
<1>2. PaidTable(o)' = PaidTable(o)
  BY <1>1 DEF PaidTable, Where
<1> QED  BY <1>2 DEF Value

(* Orders and pending requests: the total is recomputed or the confirmed   *)
(* lines stand; what was paid stands.                                      *)
LEMMA OrderingMoney ==
  ASSUME TypeOK, TypeOK', LineInv, NEW o \in Orders, MoneyOK(o), Ordering(o)
  PROVE  MoneyOK(o)'
<1> DEFINE zero == [i \in Items |-> 0]
<1>1. zero \in [Items -> Nat] /\ Value(zero) = 0
  <2>1. zero \in [Items -> Nat] /\ \A i \in Items : zero[i] = 0
    OBVIOUS
  <2> HIDE DEF zero
  <2> QED  BY <2>1, ValueLaws
<1>2. o # NoOrder
  BY OrdersAssumption DEF Orders, NoOrder
<1>3. /\ orderStatus[o] = "aberta" /\ total[o] = Sold(o) /\ partialPayment[o] = netPaid[o]
      /\ netPaid[o] >= 0 /\ netPaid[o] <= total[o] /\ ~isEstorno[o]
      /\ Value(PaidTable(o)) <= netPaid[o]
  BY DEF Ordering, CreatePedido, AddItem, RemoveItem, AddPending, RemovePending, ConfirmPending,
         CancelPending, MoneyOK, Live
<1>4. /\ UNCHANGED <<orderStatus, orderTable, netPaid, partialPayment, isEstorno, allocVars>>
      /\ \A i \in Items : itemOrder[i] = o => itemOrder'[i] = o
      /\ \A i \in Items : itemOrder'[i] = o => itemOrder[i] = o \/ itemState[i] = "livre"
  BY DEF Ordering, CreatePedido, AddItem, RemoveItem, AddPending, RemovePending, ConfirmPending,
         CancelPending, Shrink, Delete, LinesOf, PendingOf, ConfirmedOf, TypeOK, orderVars, LineInv, LineOK
<1>5. Value(PaidTable(o))' = Value(PaidTable(o))
  <2>1. \A i \in Items : PaidQty(i)' = PaidQty(i)
    BY <1>4 DEF allocVars, PaidQty
  <2>2. \A i \in Items : itemState[i] = "livre" => PaidQty(i) = 0
    BY DEF LineInv, LineOK, PaidQty, TypeOK
  <2> QED  BY <1>4, <2>1, <2>2, PaidStays
<1>6. ASSUME NEW m \in [Items -> Nat], total'[o] = Sold(o)',
             \A i \in Items : SoldTable(o)[i] <= SoldTable(o)'[i] + m[i],
             netPaid[o] <= total[o] - Value(m)
      PROVE  MoneyOK(o)'
  <2>1. Sold(o) <= Sold(o)' + Value(m)
    BY <1>6, SoldGrows
  <2>2. /\ Sold(o) \in Int /\ Sold(o)' \in Int /\ Value(m) \in Int /\ netPaid[o] \in Int
    <3>1. Sold(o)' \in Int
      BY <1>6 DEF TypeOK
    <3> QED  BY <3>1, MoneyTypes, ValueType DEF TypeOK
  <2>3. netPaid[o] <= Sold(o)'
    BY <1>3, <1>6, <2>1, <2>2
  <2> QED  BY <1>3, <1>4, <1>5, <1>6, <2>3 DEF MoneyOK, Live
<1>7. ASSUME total'[o] = Sold(o)', \A i \in Items : SoldTable(o)[i] <= SoldTable(o)'[i]
      PROVE  MoneyOK(o)'
  <2>1. \A i \in Items : SoldTable(o)[i] <= SoldTable(o)'[i] + zero[i]
    <3>1. \A i \in Items : SoldTable(o)'[i] \in Nat
      BY DEF SoldTable, Where, TypeOK
    <3> QED  BY <1>7, <3>1
  <2> HIDE DEF zero
  <2>2. netPaid[o] <= total[o] - Value(zero)
    BY <1>1, <1>3 DEF TypeOK
  <2> QED  BY <1>1, <1>6, <1>7, <2>1, <2>2
<1>8. ASSUME total'[o] = total[o], \A i \in Items : SoldTable(o)'[i] = SoldTable(o)[i]
      PROVE  MoneyOK(o)'
  <2>1. Sold(o)' = Sold(o)
    <3>1. SoldTable(o)' = SoldTable(o)
      BY <1>8 DEF SoldTable, Where, TypeOK
    <3> QED  BY <3>1 DEF Sold, SoldTable, Value
  <2> QED  BY <1>3, <1>4, <1>5, <1>8, <2>1 DEF MoneyOK, Live
<1>9. \A i \in Items :
        /\ SoldTable(o)[i] = IF itemState[i] = "confirmado" /\ itemOrder[i] = o THEN quantity[i] ELSE 0
        /\ SoldTable(o)'[i] = IF itemState'[i] = "confirmado" /\ itemOrder'[i] = o
                              THEN quantity'[i] ELSE 0
  BY DEF SoldTable, Where, ConfirmedOf, TypeOK
<1>10. RecomputeTotal(o) => total'[o] = Sold(o)'
  BY DEF RecomputeTotal, TypeOK
<1> HIDE DEF zero
<1>11. ASSUME NEW k \in [Items -> 0..MaxQty], CreatePedido(o, k) PROVE MoneyOK(o)'
  <2>1. \A i \in Items : SoldTable(o)[i] <= SoldTable(o)'[i]
    BY <1>9, <1>11, QtyAssumption DEF CreatePedido, TypeOK
  <2> QED  BY <1>7, <1>10, <1>11, <2>1 DEF CreatePedido
<1>12. ASSUME NEW i \in Items, NEW n \in 1..MaxQty, AddItem(o, i, n) PROVE MoneyOK(o)'
  <2>1. \A j \in Items : SoldTable(o)[j] <= SoldTable(o)'[j]
    BY <1>9, <1>12, QtyAssumption DEF AddItem, TypeOK
  <2> QED  BY <1>7, <1>10, <1>12, <2>1 DEF AddItem
<1>13. ASSUME NEW i \in Items, NEW n \in 1..MaxQty, RemoveItem(o, i, n) PROVE MoneyOK(o)'
  <2>1. n \in Nat /\ Only(Items, i, n) \in [Items -> Nat] /\ Value(Only(Items, i, n)) = UnitPrice[i] * n
    BY QtyAssumption, TableTypes, ValueOnly
  <2>2. \A j \in Items : SoldTable(o)[j] <= SoldTable(o)'[j] + Only(Items, i, n)[j]
    BY <1>9, <1>13, <2>1 DEF RemoveItem, Shrink, Only, TypeOK
  <2>3. netPaid[o] <= total[o] - UnitPrice[i] * n
    <3>1. UnitPrice[i] * n \in Int
      BY <2>1, ItemsAssumption
    <3> QED  BY <1>13, <3>1 DEF RemoveItem, PaidMoneyStaysCovered, TypeOK
  <2> QED  BY <1>6, <1>10, <1>13, <2>1, <2>2, <2>3 DEF RemoveItem
<1>14. ASSUME NEW i \in Items, NEW n \in 1..MaxQty, AddPending(o, i, n) PROVE MoneyOK(o)'
  BY <1>8, <1>9, <1>14 DEF AddPending, PendingOf, TypeOK, orderVars
<1>15. ASSUME NEW i \in Items, NEW n \in 1..MaxQty, RemovePending(o, i, n) PROVE MoneyOK(o)'
  BY <1>8, <1>9, <1>15 DEF RemovePending, RemovablePending, Shrink, PendingOf, TypeOK, orderVars
<1>16. CASE ConfirmPending(o)
  <2>1. \A i \in Items : SoldTable(o)[i] <= SoldTable(o)'[i]
    BY <1>9, <1>16 DEF ConfirmPending, PendingOf, TypeOK
  <2> QED  BY <1>7, <1>10, <1>16, <2>1 DEF ConfirmPending
<1>17. CASE CancelPending(o)
  BY <1>8, <1>9, <1>17 DEF CancelPending, Delete, PendingOf, TypeOK, orderVars
<1> QED  BY <1>11, <1>12, <1>13, <1>14, <1>15, <1>16, <1>17 DEF Ordering

(* What a refund of k pieces of lines of an open or closed comanda does.   *)
LEMMA RefundedLines ==
  ASSUME TypeOK, LineInv, NEW o \in Orders, NEW k \in [Items -> 0..MaxQty], RefundItems(o, k)
  PROVE  /\ k \in [Items -> Nat] /\ Live(o)
         /\ \A i \in Items : k[i] > 0 =>
              /\ itemOrder[i] = o /\ itemState[i] = "confirmado"
              /\ refundedQty[i] + k[i] <= allocQty[i] /\ k[i] <= quantity[i]
<1>1. k \in [Items -> Nat]
  BY QtyAssumption
<1> QED
  BY <1>1 DEF RefundItems, Refundable, PaidQty, LinesOf, PendingOf, ConfirmedOf, TypeOK, LineInv, LineOK,
              Live

(* Payments, closes, refunds and cancellations.                            *)
LEMMA RefundMoney ==
  ASSUME TypeOK, TypeOK', LineInv, NEW o \in Orders, MoneyOK(o),
         NEW k \in [Items -> 0..MaxQty], RefundItems(o, k)
  PROVE  /\ MoneyOK(o)'
         /\ netPaid'[o] = netPaid[o] - Value(k)
         /\ orderStatus[o] = "aberta" => total'[o] = total[o] - Value(k)
<1>1. /\ k \in [Items -> Nat] /\ Live(o) /\ Value(k) \in Nat
      /\ \A i \in Items : k[i] > 0 =>
           /\ itemOrder[i] = o /\ itemState[i] = "confirmado"
           /\ refundedQty[i] + k[i] <= allocQty[i] /\ k[i] <= quantity[i]
  BY RefundedLines, ValueType
<1>2. /\ UNCHANGED <<orderStatus, orderTable, isEstorno, itemOrder, allocQty>>
      /\ refundedQty' = [i \in Items |-> refundedQty[i] + k[i]]
      /\ netPaid'[o] = netPaid[o] - Value(k) /\ partialPayment'[o] = netPaid[o] - Value(k)
  BY DEF RefundItems, GiveBack, TakeOff, TypeOK, lineVars
<1>3. Value(PaidTable(o)) = Value(PaidTable(o))' + Value(k)
  <2>1. \A i \in Items :
          /\ PaidTable(o)[i] = IF itemOrder[i] = o THEN PaidQty(i) ELSE 0
          /\ PaidTable(o)'[i] = IF itemOrder'[i] = o THEN PaidQty(i)' ELSE 0
    BY DEF PaidTable, Where, RowsIn
  <2>2. \A i \in Items : PaidTable(o)[i] = PaidTable(o)'[i] + k[i]
    <3> SUFFICES ASSUME NEW i \in Items PROVE PaidTable(o)[i] = PaidTable(o)'[i] + k[i]
      OBVIOUS
    <3>1. k[i] \in Nat /\ allocQty[i] \in Nat /\ refundedQty[i] \in Nat
      BY <1>1 DEF TypeOK
    <3>2. CASE k[i] = 0
      BY <1>2, <2>1, <3>1, <3>2 DEF PaidQty
    <3>3. CASE k[i] > 0
      BY <1>1, <1>2, <2>1, <3>1, <3>3 DEF PaidQty
    <3> QED  BY <3>1, <3>2, <3>3
  <2> QED  BY <1>1, <2>2, PaidMoves
<1>4. /\ Value(PaidTable(o)) \in Nat /\ Value(PaidTable(o))' \in Nat /\ netPaid[o] \in Int
      /\ Sold(o) \in Nat
  <2>1. PaidTable(o)' \in [Items -> Nat]
    BY DEF PaidTable, PaidQty, Where, TypeOK
  <2>2. Value(PaidTable(o))' \in Nat
    BY <2>1, ValueType DEF Value
  <2> QED  BY <2>2, MoneyTypes DEF TypeOK
<1>5. Value(PaidTable(o)) <= netPaid[o]
  BY <1>1 DEF MoneyOK
<1>6. Value(PaidTable(o))' <= netPaid'[o] /\ netPaid'[o] >= 0
  BY <1>1, <1>2, <1>3, <1>4, <1>5
<1>7. CASE orderStatus[o] = "aberta"
  <2>1. TakeOff(k) /\ RecomputeTotal(o)
    BY <1>7 DEF RefundItems
  <2>2. \A i \in Items : SoldTable(o)[i] = SoldTable(o)'[i] + k[i]
    <3> SUFFICES ASSUME NEW i \in Items PROVE SoldTable(o)[i] = SoldTable(o)'[i] + k[i]
      OBVIOUS
    <3>1. /\ SoldTable(o)[i] = IF itemState[i] = "confirmado" /\ itemOrder[i] = o THEN quantity[i] ELSE 0
          /\ SoldTable(o)'[i] = IF itemState'[i] = "confirmado" /\ itemOrder'[i] = o
                                THEN quantity'[i] ELSE 0
      BY DEF SoldTable, Where, ConfirmedOf, TypeOK
    <3>2. k[i] \in Nat /\ quantity[i] \in Nat
      BY <1>1 DEF TypeOK
    <3>3. CASE k[i] = 0
      BY <1>2, <2>1, <3>1, <3>2, <3>3 DEF TakeOff
    <3>4. CASE k[i] > 0
      BY <1>1, <1>2, <2>1, <3>1, <3>2, <3>4 DEF TakeOff
    <3> QED  BY <3>2, <3>3, <3>4
  <2>3. Sold(o) = Sold(o)' + Value(k)
    BY <1>1, <2>2, SoldShrinks
  <2>4. total'[o] = Sold(o)'
    BY <2>1 DEF RecomputeTotal, TypeOK
  <2>5. /\ total[o] = Sold(o) /\ netPaid[o] <= total[o] /\ ~isEstorno[o]
    BY <1>7 DEF MoneyOK
  <2>6. total'[o] \in Nat
    BY DEF TypeOK
  <2>7. total'[o] = total[o] - Value(k) /\ netPaid'[o] <= total'[o]
    BY <1>1, <1>2, <1>4, <2>3, <2>4, <2>5, <2>6
  <2> QED  BY <1>2, <1>6, <1>7, <2>4, <2>5, <2>7 DEF MoneyOK, Live
<1>8. CASE orderStatus[o] = "finalizada"
  BY <1>2, <1>6, <1>8 DEF MoneyOK, Live
<1> QED  BY <1>2, <1>7, <1>8 DEF RefundItems

LEMMA SettlingMoney ==
  ASSUME TypeOK, TypeOK', LineInv, NEW o \in Orders, MoneyOK(o), Settling(o)
  PROVE  MoneyOK(o)'
<1>1. /\ Value(PaidTable(o)) \in Nat /\ Remaining(o) \in Nat /\ Sold(o) \in Nat
      /\ netPaid[o] \in Int /\ total[o] \in Nat /\ partialPayment[o] \in Int
  BY MoneyTypes DEF TypeOK
<1>2. ASSUME NEW amount \in 1..Remaining(o), PayAmount(o, amount) PROVE MoneyOK(o)'
  <2>1. /\ UNCHANGED <<orderStatus, orderTable, total, isEstorno, itemState, itemOrder, quantity,
                       allocQty, refundedQty>>
        /\ netPaid'[o] = netPaid[o] + amount /\ partialPayment'[o] = partialPayment[o] + amount
        /\ orderStatus[o] = "aberta" /\ amount > 0 /\ amount <= Remaining(o)
    BY <1>2 DEF PayAmount, TypeOK, lineVars, allocVars
  <2>2. Sold(o)' = Sold(o) /\ Value(PaidTable(o))' = Value(PaidTable(o))
    BY <2>1 DEF Sold, PaidTable, PaidQty, RowsIn, ConfirmedOf, Where, Value
  <2>3. netPaid[o] + amount <= total[o]
    BY <1>1, <2>1 DEF Remaining, MoneyOK
  <2> QED  BY <1>1, <2>1, <2>2, <2>3 DEF MoneyOK, Live
<1>3. ASSUME NEW k \in [Items -> 0..MaxQty], PayItems(o, k) PROVE MoneyOK(o)'
  <2>1. k \in [Items -> Nat] /\ Value(k) \in Nat
    BY QtyAssumption, ValueType
  <2>2. /\ UNCHANGED <<orderStatus, orderTable, total, isEstorno, itemState, itemOrder, quantity,
                       refundedQty>>
        /\ netPaid'[o] = netPaid[o] + Value(k) /\ partialPayment'[o] = partialPayment[o] + Value(k)
        /\ allocQty' = [i \in Items |-> allocQty[i] + k[i]]
        /\ orderStatus[o] = "aberta" /\ Value(k) <= Remaining(o)
        /\ \A i \in Items : k[i] > 0 => i \in ConfirmedOf(o)
    BY <1>3 DEF PayItems, TypeOK, lineVars
  <2>3. Sold(o)' = Sold(o)
    BY <2>2 DEF Sold, ConfirmedOf, Where, Value
  <2>4. \A i \in Items : PaidTable(o)'[i] = PaidTable(o)[i] + k[i]
    <3> SUFFICES ASSUME NEW i \in Items PROVE PaidTable(o)'[i] = PaidTable(o)[i] + k[i]
      OBVIOUS
    <3>1. /\ PaidTable(o)[i] = IF itemOrder[i] = o THEN PaidQty(i) ELSE 0
          /\ PaidTable(o)'[i] = IF itemOrder'[i] = o THEN PaidQty(i)' ELSE 0
      BY DEF PaidTable, Where, RowsIn
    <3>2. k[i] \in Nat /\ allocQty[i] \in Nat /\ refundedQty[i] \in Nat
      BY <2>1 DEF TypeOK
    <3>3. CASE k[i] = 0
      BY <2>2, <3>1, <3>2, <3>3 DEF PaidQty
    <3>4. CASE k[i] > 0
      <4>1. itemOrder[i] = o /\ refundedQty[i] <= allocQty[i]
        BY <2>2, <3>4 DEF ConfirmedOf, LineInv, LineOK
      <4> QED  BY <2>2, <3>1, <3>2, <3>4, <4>1 DEF PaidQty
    <3> QED  BY <3>2, <3>3, <3>4
  <2>5. Value(PaidTable(o))' = Value(PaidTable(o)) + Value(k)
    BY <2>1, <2>4, PaidMoves
  <2>6. netPaid[o] + Value(k) <= total[o]
    BY <1>1, <2>1, <2>2 DEF Remaining, MoneyOK
  <2> QED  BY <1>1, <2>1, <2>2, <2>3, <2>5, <2>6 DEF MoneyOK, Live
<1>4. CASE CloseOrder(o)
  <2>1. /\ UNCHANGED <<itemOrder, allocQty, refundedQty, isEstorno>>
        /\ netPaid'[o] = netPaid[o] + Remaining(o)
        /\ orderStatus[o] = "aberta" /\ orderStatus'[o] = "finalizada"
    BY <1>4 DEF CloseOrder, Delete, TypeOK, allocVars
  <2>2. Value(PaidTable(o))' = Value(PaidTable(o))
    BY <2>1 DEF PaidTable, PaidQty, RowsIn, Where, Value
  <2> QED  BY <1>1, <2>1, <2>2 DEF MoneyOK, Live
<1>5. ASSUME NEW k \in [Items -> 0..MaxQty], RefundItems(o, k) PROVE MoneyOK(o)'
  BY <1>5, RefundMoney
<1>6. CASE EstornarVenda(o)
  <2>1. orderStatus'[o] = "finalizada" /\ isEstorno'[o]
    BY <1>6 DEF EstornarVenda, TypeOK
  <2> QED  BY <2>1 DEF MoneyOK, Live
<1>7. CASE CancelPaid(o)
  <2>1. orderStatus'[o] = "cancelada" /\ netPaid'[o] = 0 /\ ~isEstorno'[o]
    BY <1>7 DEF CancelPaid, RefundFull, TypeOK, MoneyOK
  <2> QED  BY <2>1 DEF MoneyOK, Live
<1>8. CASE CancelUnpaid(o)
  <2>1. orderStatus'[o] = "cancelada" /\ netPaid'[o] = 0 /\ ~isEstorno'[o]
    BY <1>1, <1>8 DEF CancelUnpaid, Unpaid, TypeOK, MoneyOK
  <2> QED  BY <2>1 DEF MoneyOK, Live
<1> QED  BY <1>2, <1>3, <1>4, <1>5, <1>6, <1>7, <1>8 DEF Settling

-----------------------------------------------------------------------------
(* Opening a comanda, moving it and discarding it keep its money as it was.*)
LEMMA OpensMoney ==
  ASSUME TypeOK, TypeOK', LineInv, NEW o \in Orders, MoneyOK(o), Opens(o)
  PROVE  MoneyOK(o)'
<1>1. PICK c \in Clients : OpenOrderInsert(c) /\ orderStatus[o] = "nenhuma" /\ orderStatus'[o] = "aberta"
  BY DEF Opens
<1>2. UNCHANGED <<total, partialPayment, netPaid, isEstorno, lineVars, allocVars>>
  BY <1>1 DEF OpenOrderInsert
<1>3. \A i \in Items : itemOrder[i] # o
  BY <1>1, OrdersAssumption DEF LineInv, LineOK, Orders, NoOrder
<1>4. \A i \in Items : SoldTable(o)'[i] = 0 /\ PaidTable(o)'[i] = 0
  BY <1>2, <1>3 DEF SoldTable, PaidTable, RowsIn, ConfirmedOf, Where, lineVars, TypeOK
<1>5. SoldTable(o)' \in [Items -> Nat] /\ PaidTable(o)' \in [Items -> Nat]
  BY DEF SoldTable, PaidTable, PaidQty, Where, TypeOK
<1>6. Sold(o)' = 0 /\ Value(PaidTable(o))' = 0
  <2> DEFINE sold == SoldTable(o)'
             paid == PaidTable(o)'
  <2>1. Value(sold) = 0 /\ Value(paid) = 0
    <3>1. sold \in [Items -> Nat] /\ paid \in [Items -> Nat]
          /\ \A i \in Items : sold[i] = 0 /\ paid[i] = 0
      BY <1>4, <1>5
    <3> HIDE DEF sold, paid
    <3> QED  BY <3>1, ValueLaws
  <2> QED  BY <2>1 DEF Sold, SoldTable, Value
<1> QED  BY <1>1, <1>2, <1>6 DEF MoneyOK, Live

LEMMA MovesMoney ==
  ASSUME TypeOK, NEW o \in Orders, MoneyOK(o), Moves(o)
  PROVE  MoneyOK(o)'
<1>1. /\ UNCHANGED <<orderStatus, total, partialPayment, netPaid, isEstorno, lineVars, allocVars>>
      /\ orderStatus[o] = "aberta"
  BY DEF Moves, MoveOrder
<1>2. Sold(o)' = Sold(o) /\ Value(PaidTable(o))' = Value(PaidTable(o))
  BY <1>1 DEF Sold, PaidTable, PaidQty, RowsIn, ConfirmedOf, Where, Value, lineVars, allocVars
<1> QED  BY <1>1, <1>2 DEF MoneyOK, Live

LEMMA DiscardsMoney ==
  ASSUME TypeOK, FoundInv, NEW o \in Orders, MoneyOK(o), Discards(o)
  PROVE  MoneyOK(o)'
<1>1. orderStatus'[o] = "cancelada" /\ orderTable'[o] \in Balcoes
  BY DEF Discards, OpenOrderDiscard, FoundInv, FoundOK
<1> QED  BY <1>1, TablesAssumption DEF MoneyOK, Live

LEMMA MoneyStep ==
  ASSUME TypeOK, TypeOK', LineInv, FoundInv, MoneyInv, [Next]_vars
  PROVE  MoneyInv'
<1> SUFFICES ASSUME NEW o \in Orders PROVE MoneyOK(o)'
  BY DEF MoneyInv
<1>1. MoneyOK(o)
  BY DEF MoneyInv
<1>2. CASE ~ActsOn(o)
  BY <1>1, <1>2, UntouchedElsewhere, UntouchedMoney
<1>3. CASE ActsOn(o)
  BY <1>1, <1>3, OrderingMoney, SettlingMoney, MovesMoney, OpensMoney, DiscardsMoney DEF ActsOn
<1> QED  BY <1>2, <1>3

-----------------------------------------------------------------------------
(* The stored sums of every comanda are what its state and its rows say.   *)
THEOREM SumsCorrect == Spec => []MoneyInv
<1> DEFINE Rows == TypeOK /\ LineInv /\ FoundInv
<1>1. Init => MoneyInv
  BY DEF Init, MoneyInv, MoneyOK, Live
<1>2. Rows /\ Rows' /\ MoneyInv /\ [Next]_vars => MoneyInv'
  BY MoneyStep
<1>3. Spec => []Rows
  BY RowsCorrect
<1> HIDE DEF Rows
<1> QED  BY <1>1, <1>2, <1>3, PTL DEF Spec

(* The net payments of an open comanda are between zero and its total.     *)
THEOREM NeverPaidBeyondTotal == Spec => []PaidWithinTotal
<1>1. TypeOK /\ MoneyInv => PaidWithinTotal
  BY DEF TypeOK, MoneyInv, MoneyOK, PaidWithinTotal
<1> QED  BY <1>1, SumsCorrect, RowsCorrect, PTL

(* orders.total and orders.partial_payment of an open comanda are the sums *)
(* of its lines and of its payments and refunds.                           *)
THEOREM StoredSumsCorrect == Spec => []StoredSumsMatchRows
<1>1. MoneyInv => StoredSumsMatchRows
  BY DEF MoneyInv, MoneyOK, StoredSumsMatchRows
<1> QED  BY <1>1, SumsCorrect, PTL

(* The money held covers the pieces marked as paid.                        *)
THEOREM PaidPiecesCovered == Spec => []PaidLinesCovered
<1>1. MoneyInv => PaidLinesCovered
  BY DEF MoneyInv, MoneyOK, PaidLinesCovered, PaidTable, RowsIn
<1> QED  BY <1>1, SumsCorrect, PTL

(* A cancelled comanda of a table keeps no money.                          *)
THEOREM CancelledHoldNothing == Spec => []CancelledOrdersKeepNoMoney
<1>1. MoneyInv => CancelledOrdersKeepNoMoney
  BY DEF MoneyInv, MoneyOK, CancelledOrdersKeepNoMoney
<1> QED  BY <1>1, SumsCorrect, PTL

-----------------------------------------------------------------------------
(* What a step may do to a comanda.                                        *)

(* A closed sale that was not undone has out at most what is on its lines. *)
OutOK(i) ==
  /\ itemState[i] = "confirmado" /\ orderStatus[itemOrder[i]] = "finalizada"
  /\ ~isEstorno[itemOrder[i]]
  => outQty[i] <= quantity[i]
OutInv == \A i \in Items : OutOK(i)

(* The steps that change the status of a comanda, or refund it.            *)
LEMMA StatusSteps ==
  ASSUME TypeOK, LineInv, FoundInv, [Next]_vars, NEW o \in Orders
  PROVE  /\ orderStatus'[o] = "finalizada" =>
              \/ orderStatus[o] = "finalizada" /\ Untouched(o)
              \/ orderStatus[o] = "aberta" /\ CloseOrder(o)
              \/ orderStatus[o] = "finalizada" /\ EstornarVenda(o)
              \/ /\ orderStatus[o] = "finalizada"
                 /\ \E k \in [Items -> 0..MaxQty] : RefundItems(o, k)
         /\ orderStatus[o] = "aberta" /\ orderStatus'[o] = "cancelada" =>
              CancelPaid(o) \/ CancelUnpaid(o) \/ Discards(o)
         /\ ~isEstorno[o] /\ isEstorno'[o] => EstornarVenda(o)
<1>1. CASE ~ActsOn(o)
  BY <1>1, UntouchedElsewhere DEF Untouched
<1>2. CASE Ordering(o)
  <2>1. orderStatus'[o] = "aberta" /\ orderStatus[o] = "aberta" /\ isEstorno'[o] = isEstorno[o]
    BY <1>2 DEF Ordering, CreatePedido, AddItem, RemoveItem, AddPending, RemovePending,
                ConfirmPending, CancelPending, orderVars
  <2> QED  BY <2>1
<1>3. CASE Settling(o)
  BY <1>3 DEF Settling, PayAmount, PayItems, CloseOrder, RefundItems, EstornarVenda, CancelPaid,
              CancelUnpaid, RefundFull, TypeOK
<1>4. CASE Moves(o)
  BY <1>4 DEF Moves, MoveOrder
<1>5. CASE Opens(o)
  BY <1>5 DEF Opens, OpenOrderInsert
<1>6. CASE Discards(o)
  BY <1>6 DEF Discards, OpenOrderDiscard
<1> QED  BY <1>1, <1>2, <1>3, <1>4, <1>5, <1>6 DEF ActsOn

LEMMA OutStep ==
  ASSUME TypeOK, TypeOK', LineInv, LineInv', FoundInv, OutInv, [Next]_vars
  PROVE  OutInv'
<1> SUFFICES ASSUME NEW i \in Items, itemState'[i] = "confirmado",
                    orderStatus'[itemOrder'[i]] = "finalizada", ~isEstorno'[itemOrder'[i]]
             PROVE  outQty'[i] <= quantity'[i]
  BY DEF OutInv, OutOK
<1> DEFINE o == itemOrder'[i]
<1>1. o \in Orders
  BY DEF LineInv, LineOK
<1> HIDE DEF o
<1>2. CASE orderStatus[o] = "finalizada" /\ Untouched(o)
  <2>1. /\ itemOrder[i] = o /\ itemState[i] = "confirmado" /\ ~isEstorno[o]
        /\ outQty'[i] = outQty[i] /\ quantity'[i] = quantity[i]
    BY <1>2 DEF Untouched, o
  <2> QED  BY <1>2, <2>1 DEF OutInv, OutOK
<1>3. CASE orderStatus[o] = "aberta" /\ CloseOrder(o)
  <2>1. Return(Where(quantity, PendingOf(o))) /\ Delete(PendingOf(o))
    BY <1>3 DEF CloseOrder
  <2>2. itemOrder[i] = o /\ i \notin PendingOf(o)
    BY <2>1 DEF Delete, o
  <2>3. itemState[i] = "confirmado" /\ outQty'[i] = outQty[i] /\ quantity'[i] = quantity[i]
    BY <1>1, <1>3, <2>1, <2>2, DroppedRow
  <2> QED  BY <1>3, <2>2, <2>3 DEF LineInv, LineOK, TypeOK
<1>4. CASE EstornarVenda(o)
  BY <1>1, <1>4 DEF EstornarVenda, TypeOK, o
<1>5. ASSUME NEW k \in [Items -> 0..MaxQty], RefundItems(o, k), orderStatus[o] = "finalizada"
      PROVE  outQty'[i] <= quantity'[i]
  <2>1. /\ UNCHANGED <<itemState, itemOrder, quantity, isEstorno>> /\ outQty'[i] = outQty[i] - k[i]
    BY <1>5 DEF RefundItems, Return, lineVars
  <2>2. outQty[i] <= quantity[i]
    BY <1>5, <2>1 DEF OutInv, OutOK, o
  <2>3. k[i] \in Nat /\ outQty[i] \in Int /\ quantity[i] \in Nat
    BY QtyAssumption DEF TypeOK
  <2> QED  BY <2>1, <2>2, <2>3
<1>6. orderStatus'[o] = "finalizada"
  BY DEF o
<1> QED  BY <1>1, <1>2, <1>3, <1>4, <1>5, <1>6, StatusSteps

(* No closed sale that stands has out of a line more than is written on it.*)
THEOREM OutCorrect == Spec => []OutInv
<1> DEFINE Rows == TypeOK /\ LineInv /\ FoundInv
<1>1. Init => OutInv
  BY DEF Init, OutInv, OutOK
<1>2. Rows /\ Rows' /\ OutInv /\ [Next]_vars => OutInv'
  BY OutStep
<1>3. Spec => []Rows
  BY RowsCorrect
<1> HIDE DEF Rows
<1> QED  BY <1>1, <1>2, <1>3, PTL DEF Spec

LEMMA CloseStep ==
  ASSUME TypeOK, TypeOK', LineInv, FoundInv, MoneyInv, [Next]_vars, NEW o \in Orders,
         orderStatus[o] = "aberta", orderStatus'[o] = "finalizada"
  PROVE  netPaid'[o] = total'[o] /\ total'[o] = Sold(o)' /\ PendingOf(o)' = {}
<1>1. CloseOrder(o)
  BY StatusSteps
<1>2. total[o] = Sold(o) /\ netPaid[o] <= total[o] /\ netPaid[o] \in Int /\ total[o] \in Nat
  BY DEF MoneyInv, MoneyOK, TypeOK
<1>3. netPaid'[o] = total[o] /\ total' = total
  BY <1>1, <1>2 DEF CloseOrder, Remaining, TypeOK
<1>4. Delete(PendingOf(o))
  BY <1>1 DEF CloseOrder
<1>5. PendingOf(o)' = {}
  BY <1>4 DEF Delete, PendingOf
<1>6. SoldTable(o)' = SoldTable(o)
  <2>1. \A i \in Items : SoldTable(o)'[i] = SoldTable(o)[i]
    BY <1>4 DEF SoldTable, Where, ConfirmedOf, PendingOf, Delete, TypeOK
  <2>2. DOMAIN quantity = Items /\ DOMAIN quantity' = Items
    BY DEF TypeOK
  <2> QED  BY <2>1, <2>2 DEF SoldTable, Where
<1> QED  BY <1>2, <1>3, <1>5, <1>6 DEF Sold, SoldTable, Value

(* Closing leaves a comanda exactly paid, for the value of its lines, with *)
(* nothing pending.                                                        *)
THEOREM ClosesSettled == Spec => CloseSettles
<1> DEFINE Inv == TypeOK /\ LineInv /\ FoundInv /\ MoneyInv
           Settled == \A o \in Orders :
             orderStatus[o] = "aberta" /\ orderStatus'[o] = "finalizada"
               => netPaid'[o] = total'[o] /\ total'[o] = Sold(o)' /\ PendingOf(o)' = {}
<1>1. Inv /\ Inv' /\ [Next]_vars => [Settled]_vars
  BY CloseStep
<1>2. Spec => []Inv
  BY RowsCorrect, SumsCorrect, PTL
<1>3. Spec => [][Next]_vars
  BY PTL DEF Spec
<1>4. [][Settled]_vars <=> CloseSettles
  BY DEF CloseSettles
<1> HIDE DEF Inv, Settled
<1>5. Spec => [][Settled]_vars
  BY <1>1, <1>2, <1>3, PTL
<1> QED  BY <1>4, <1>5, PTL

LEMMA FrozenStep ==
  ASSUME TypeOK, LineInv, FoundInv, MoneyInv, [Next]_vars, NEW o \in Orders,
         orderTable[o] \in Mesas, orderStatus[o] = "cancelada" \/ isEstorno[o]
  PROVE  Untouched(o)
<1>1. /\ isEstorno[o] => orderStatus[o] = "finalizada"
      /\ orderStatus[o] \in {"cancelada", "finalizada"}
  BY DEF MoneyInv, MoneyOK, TypeOK, OrderStatus
<1>2. ~Ordering(o)
  BY <1>1 DEF Ordering, CreatePedido, AddItem, RemoveItem, AddPending, RemovePending,
              ConfirmPending, CancelPending
<1>3. ~Settling(o)
  BY <1>1 DEF Settling, PayAmount, PayItems, CloseOrder, RefundItems, EstornarVenda, CancelPaid,
              CancelUnpaid
<1>4. ~Moves(o) /\ ~Opens(o) /\ ~Discards(o)
  BY <1>1, TablesAssumption DEF Moves, MoveOrder, Opens, Discards, OpenOrderDiscard, FoundInv, FoundOK
<1> QED  BY <1>2, <1>3, <1>4, UntouchedElsewhere DEF ActsOn

(* A comanda of a table that was cancelled or undone never moves again.    *)
THEOREM TerminalStayFrozen == Spec => TerminalOrdersFrozen
<1> DEFINE Inv == TypeOK /\ LineInv /\ FoundInv /\ MoneyInv
           Frozen == \A o \in Orders :
             orderTable[o] \in Mesas /\ (orderStatus[o] = "cancelada" \/ isEstorno[o])
               => /\ orderStatus'[o] = orderStatus[o] /\ isEstorno'[o] = isEstorno[o]
                  /\ netPaid'[o] = netPaid[o]
                  /\ \A i \in Items : itemOrder[i] = o =>
                       /\ itemOrder'[i] = o
                       /\ <<quantity'[i], outQty'[i], refundedQty'[i]>>
                            = <<quantity[i], outQty[i], refundedQty[i]>>
<1>1. Inv /\ [Next]_vars => [Frozen]_vars
  BY FrozenStep DEF Untouched
<1>2. Spec => []Inv
  BY RowsCorrect, SumsCorrect, PTL
<1>3. Spec => [][Next]_vars
  BY PTL DEF Spec
<1>4. [][Frozen]_vars <=> TerminalOrdersFrozen
  BY DEF TerminalOrdersFrozen
<1> HIDE DEF Inv, Frozen
<1>5. Spec => [][Frozen]_vars
  BY <1>1, <1>2, <1>3, PTL
<1> QED  BY <1>4, <1>5, PTL

LEMMA UndoStep ==
  ASSUME TypeOK, LineInv, FoundInv, OutInv, [Next]_vars, NEW o \in Orders, NEW i \in LinesOf(o),
         orderTable[o] \in Mesas,
         \/ orderStatus[o] = "aberta" /\ orderStatus'[o] = "cancelada"
         \/ ~isEstorno[o] /\ isEstorno'[o]
  PROVE  outQty'[i] \in 0..refundedQty[i]
<1>1. /\ i \in Items /\ itemOrder[i] = o /\ itemState[i] \in {"pendente", "confirmado"}
      /\ quantity[i] \in Nat /\ refundedQty[i] \in Nat /\ outQty[i] \in Int
  BY DEF LinesOf, PendingOf, ConfirmedOf, TypeOK
<1>2. ~Discards(o)
  BY TablesAssumption DEF Discards, OpenOrderDiscard, FoundInv, FoundOK
<1>3. ASSUME RefundFull(o), outQty[i] <= quantity[i],
             quantity[i] - refundedQty[i] <= outQty[i], outQty[i] >= 0
      PROVE  outQty'[i] \in 0..refundedQty[i]
  <2>1. outQty'[i] = outQty[i] - (IF refundedQty[i] < quantity[i] THEN quantity[i] - refundedQty[i] ELSE 0)
    BY <1>1, <1>3 DEF RefundFull, Return, NotYetRefunded, Where
  <2> QED  BY <1>1, <1>3, <2>1
<1>4. CASE CancelPaid(o)
  <2>1. RefundFull(o) /\ outQty[i] = quantity[i]
    BY <1>1, <1>4 DEF CancelPaid, LineInv, LineOK
  <2> QED  BY <1>1, <1>3, <2>1
<1>5. CASE CancelUnpaid(o)
  <2>1. outQty'[i] = outQty[i] - quantity[i] /\ outQty[i] = quantity[i]
    BY <1>1, <1>5 DEF CancelUnpaid, Return, Where, LineInv, LineOK, TypeOK
  <2> QED  BY <1>1, <2>1
<1>6. CASE EstornarVenda(o)
  <2>1. RefundFull(o) /\ orderStatus[o] = "finalizada" /\ ~isEstorno[o]
    BY <1>6 DEF EstornarVenda
  <2>2. itemState[i] = "confirmado"
    BY <1>1, <2>1 DEF LineInv, LineOK
  <2>3. /\ outQty[i] <= quantity[i] /\ quantity[i] - refundedQty[i] <= outQty[i]
        /\ outQty[i] >= 0
    BY <1>1, <2>1, <2>2 DEF OutInv, OutOK, LineInv, LineOK, GivenBackOnce
  <2> QED  BY <1>3, <2>1, <2>3
<1> QED  BY <1>2, <1>4, <1>5, <1>6, StatusSteps

(* Undoing a comanda of a table leaves out of a line at most what had been *)
(* refunded of it.                                                         *)
THEOREM UndoGivesBack == Spec => UndoReturnsTheRest
<1> DEFINE Inv == TypeOK /\ LineInv /\ FoundInv /\ OutInv
           Undone == \A o \in Orders : \A i \in LinesOf(o) :
             orderTable[o] \in Mesas /\
             (\/ orderStatus[o] = "aberta" /\ orderStatus'[o] = "cancelada"
              \/ ~isEstorno[o] /\ isEstorno'[o])
             => outQty'[i] \in 0..refundedQty[i]
<1>1. Inv /\ [Next]_vars => [Undone]_vars
  BY UndoStep
<1>2. Spec => []Inv
  BY RowsCorrect, OutCorrect, PTL
<1>3. Spec => [][Next]_vars
  BY PTL DEF Spec
<1>4. [][Undone]_vars <=> UndoReturnsTheRest
  BY DEF UndoReturnsTheRest
<1> HIDE DEF Inv, Undone
<1>5. Spec => [][Undone]_vars
  BY <1>1, <1>2, <1>3, PTL
<1> QED  BY <1>4, <1>5, PTL

=============================================================================
