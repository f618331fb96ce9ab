------------------------------- MODULE Livro -------------------------------
(***************************************************************************)
(* The money book of the restaurant: what comandas and fiados (consigned   *)
(* sales) receive, give back and owe, and the cash position.               *)
(*                                                                         *)
(* Tables: orders, order_payments with their allocations, consignment      *)
(* orders and their payments ("installments"), payment_refunds with their  *)
(* items, the open cash session, and the sum of cash_position_movements.   *)
(* Every handler below runs with the row of the open cash session locked,  *)
(* so each is one step; module Comanda interleaves the handlers that are   *)
(* not.                                                                    *)
(*                                                                         *)
(* Abstractions.  A comanda holds pieces of one product (the lines of a    *)
(* comanda are the subject of Comanda); a moment of time is the cash       *)
(* session it falls in, which is all a report of a session looks at.  A    *)
(* comanda cannot be open while a session closes, so the payments of a     *)
(* comanda are all of one session; fiados cross sessions freely.  Waiters, *)
(* tables, customers and stock are left out, and so are the requests the   *)
(* handlers answer as replays, which change nothing.                       *)
(***************************************************************************)
EXTENDS Dinheiro, Sequences, Somas

CONSTANTS
  Orders,            \* comandas
  Direct,            \* fiados written without a comanda
  Price, Cost,       \* of a piece, frozen on the line
  ServicePct,        \* setting service_charge_pct
  Tip,               \* the only custom service charge that is typed
  Charges,           \* service charges asked for: "sem", "taxa", "gorjeta"
  FeePct,            \* card fee of each payment method, per cent
  PartialAmounts,    \* amounts paid without choosing pieces
  Installments,      \* amounts paid off a fiado
  ItemRefundable,    \* comandas whose pieces are refunded one by one
  Convertible,       \* comandas that are converted to fiado
  MaxPieces, MaxPartials, MaxSessions, MaxSales  \* bounds of the instance

ASSUME Livro_Amounts ==
  /\ Price \in Nat /\ Cost \in Nat /\ ServicePct \in Nat /\ Tip \in Nat \ {0}
  /\ PartialAmounts \subseteq Nat \ {0} /\ Installments \subseteq Nat \ {0}
  /\ \A m \in DOMAIN FeePct : FeePct[m] \in Nat
  /\ Charges \subseteq {"sem", "taxa", "gorjeta"}
ASSUME Livro_Bounds ==
  MaxPieces \in Nat /\ MaxPartials \in Nat /\ MaxSessions \in Nat /\ MaxSales \in Nat
ASSUME Livro_Rows ==
  /\ IsFiniteSet(Orders) /\ IsFiniteSet(Direct) /\ Orders \cap Direct = {}
  /\ ItemRefundable \subseteq Orders /\ Convertible \subseteq Orders
ASSUME Livro_Methods == IsFiniteSet(DOMAIN FeePct)

Methods == DOMAIN FeePct
Accounts == Orders \cup Direct

VARIABLES
  session, sessionOpen,  \* the latest cash session and whether it is open
  order,        \* comandas
  payments,     \* order_payments of each comanda
  account,      \* the fiado of each comanda or direct sale
  installments, \* consignment_payments of each fiado
  refunds,      \* payment_refunds of each comanda or direct fiado
  position      \* sum of the movements of the cash position
vars == <<session, sessionOpen, order, payments, account, installments, refunds, position>>

NoOrder == [status |-> "nenhuma", pieces |-> 0, total |-> 0, fiado |-> FALSE,
            closedIn |-> 0, estorno |-> FALSE, refunded |-> 0]
NoAccount == [status |-> "nenhum", product |-> 0, service |-> 0, total |-> 0, paid |-> 0,
              balance |-> 0, pieces |-> 0, createdIn |-> 0]

Init ==
  /\ session = 0 /\ sessionOpen = FALSE
  /\ order = [o \in Orders |-> NoOrder]
  /\ payments = [o \in Orders |-> << >>]
  /\ account = [a \in Accounts |-> NoAccount]
  /\ installments = [a \in Accounts |-> << >>]
  /\ refunds = [a \in Accounts |-> << >>]
  /\ position = 0

----------------------------------------------------------------------------
(* Sums over the rows of a table.                                          *)

SumOf(rows, I, value(_)) == SumF([i \in I |-> value(rows[i])])
SumRows(rows, value(_)) == SumOf(rows, DOMAIN rows, value)
Product(row) == row.product
Service(row) == row.service
Gross(row) == row.product + row.service
Fee(row) == row.fee
Pieces(row) == row.pieces

Started == {o \in Orders : order[o].status # "nenhuma"}
           \cup {d \in Direct : account[d].status # "nenhum"}

(* order_net_paid and item_net_paid_quantity.                              *)
NetPaid(o, value(_)) == SumRows(payments[o], value) - SumRows(refunds[o], value)
Remaining(o) == NonNegative(order[o].total - NetPaid(o, Product))

(* The refunds of a payment of a comanda, and of an installment, and what  *)
(* they gave back.                                                         *)
OfPayment(a, p) == {i \in DOMAIN refunds[a] : refunds[a][i].payment = p}
OfInstallment(a, j) == {i \in DOMAIN refunds[a] : refunds[a][i].installment = j}
Returned(a, done, value(_)) == SumOf(refunds[a], done, value)

(* The service charge asked for on top of a product amount.                *)
Charge(base, charge) ==
  CASE charge = "sem" -> 0
    [] charge = "taxa" -> PercentOf(base, ServicePct)
    [] charge = "gorjeta" -> Tip

(* The product inside an amount typed by the waiter.                       *)
ProductWithin(amount, charge) ==
  CASE charge = "sem" -> amount
    [] charge = "taxa" -> WithoutPercent(amount, ServicePct)
    [] charge = "gorjeta" -> amount - Tip

(* create_order_payment: the fee is frozen on the gross amount.            *)
CardFee(product, service, m) == PercentOf(product + service, FeePct[m])
Paid(kind, product, service, m, pieces) ==
  [kind |-> kind, product |-> product, service |-> service, method |-> m,
   fee |-> CardFee(product, service, m), period |-> session, pieces |-> pieces]

(* _service_was_repassed: the session of the payment has closed.           *)
Repassed(period) == period < session

----------------------------------------------------------------------------
(* The rows of order_payments, consignment_payments and payment_refunds,   *)
(* each named by its sale and its number, and what a report reads of them. *)

OrderRows == UNION {{<<o, i>> : i \in DOMAIN payments[o]} : o \in Orders}
InstallmentRows == UNION {{<<a, i>> : i \in DOMAIN installments[a]} : a \in Accounts}
RefundRows == UNION {{<<a, i>> : i \in DOMAIN refunds[a]} : a \in Accounts}
PaymentAt(r) == payments[r[1]][r[2]]
InstallmentAt(r) == installments[r[1]][r[2]]
RefundAt(r) == refunds[r[1]][r[2]]

(* The payments of a comanda count until it becomes a fiado, whose         *)
(* installments carry them from then on.  Mutant: refunded sales drop out. *)
OnlyActiveSales(T) ==
  {r \in OrderRows : PaymentAt(r).period \in T /\ ~order[r[1]].fiado /\ ~order[r[1]].estorno}
DirectPayments(T) == {r \in OrderRows : PaymentAt(r).period \in T /\ ~order[r[1]].fiado}
InstallmentsIn(T) == {r \in InstallmentRows : InstallmentAt(r).period \in T}
RefundsIn(T) == {r \in RefundRows : RefundAt(r).period \in T}

(* compute_session_close_metrics: what the close adds to the position.     *)
GrossReceived(T) ==
  SumF([r \in DirectPayments(T) |-> Gross(PaymentAt(r))])
  + SumF([r \in InstallmentsIn(T) |-> Gross(InstallmentAt(r))])
CardFees(T) ==
  SumF([r \in DirectPayments(T) |-> Fee(PaymentAt(r))])
  + SumF([r \in InstallmentsIn(T) |-> Fee(InstallmentAt(r))])

----------------------------------------------------------------------------
(* The cash session.                                                       *)

OpenSession ==
  /\ ~sessionOpen /\ session < MaxSessions
  /\ session' = session + 1 /\ sessionOpen' = TRUE
  /\ UNCHANGED <<order, payments, account, installments, refunds, position>>

(* finalize_cash_session, refused while a comanda is open.                 *)
CloseSession ==
  /\ sessionOpen /\ \A o \in Orders : order[o].status # "aberta"
  /\ sessionOpen' = FALSE
  /\ position' = position + GrossReceived({session}) - CardFees({session})
  /\ UNCHANGED <<session, order, payments, account, installments, refunds>>

----------------------------------------------------------------------------
(* Comandas.                                                               *)

OpenOrder(o) ==
  /\ sessionOpen /\ order[o].status = "nenhuma" /\ Cardinality(Started) < MaxSales
  /\ order' = [order EXCEPT ![o].status = "aberta"]
  /\ UNCHANGED <<session, sessionOpen, payments, account, installments, refunds, position>>

AddPiece(o) ==
  /\ sessionOpen /\ order[o].status = "aberta" /\ order[o].pieces < MaxPieces
  /\ order' = [order EXCEPT ![o].pieces = @ + 1, ![o].total = @ + Price]
  /\ UNCHANGED <<session, sessionOpen, payments, account, installments, refunds, position>>

MayPayPart(o) ==
  sessionOpen /\ order[o].status = "aberta" /\ Len(payments[o]) < MaxPartials

Record(o, payment) == payments' = [payments EXCEPT ![o] = Append(@, payment)]

(* partial_payment of chosen pieces.                                       *)
PayPieces(o, n, charge, m) ==
  /\ MayPayPart(o)
  /\ NetPaid(o, Pieces) + n <= order[o].pieces
  /\ Price * n <= Remaining(o)
  /\ Record(o, Paid("partial", Price * n, Charge(Price * n, charge), m, n))
  /\ UNCHANGED <<session, sessionOpen, order, account, installments, refunds, position>>

(* partial_payment of an amount.                                           *)
PayAmount(o, amount, charge, m) ==
  /\ MayPayPart(o)
  /\ charge = "gorjeta" => Tip < amount
  /\ LET product == ProductWithin(amount, charge)
     IN /\ product <= Remaining(o)
        /\ Record(o, Paid("partial", product, amount - product, m, 0))
  /\ UNCHANGED <<session, sessionOpen, order, account, installments, refunds, position>>

(* close_order.                                                            *)
Close(o, charge, m) ==
  /\ sessionOpen /\ order[o].status = "aberta"
  /\ LET product == Remaining(o)
         service == Charge(product, charge)
     IN IF product + service > 0
        THEN Record(o, Paid("final", product, service, m, 0))
        ELSE payments' = payments
  /\ order' = [order EXCEPT ![o].status = "finalizada", ![o].closedIn = session]
  /\ UNCHANGED <<session, sessionOpen, account, installments, refunds, position>>

----------------------------------------------------------------------------
(* Refunds: immutable rows, each with a movement out of the position.      *)

Refund(p, i, product, service, m, sale, recognized, repassed, pieces) ==
  [payment |-> p, installment |-> i, product |-> product, service |-> service, method |-> m,
   period |-> session, saleRecognized |-> sale, serviceRecognized |-> recognized,
   repassed |-> repassed, pieces |-> pieces]

GiveBack(a, rows) ==
  /\ refunds' = [refunds EXCEPT ![a] = @ \o rows]
  /\ position' = position - SumRows(rows, Gross)

(* What is left of a payment, and the refund of all of it.  Mutant: an     *)
(* earlier refund is forgotten.                                            *)
WholePayment(row, a, done) == [product |-> row.product, service |-> row.service]
Left(row, a, done) ==
  [product |-> row.product - Returned(a, done, Product),
   service |-> row.service - Returned(a, done, Service)]

RefundOfPayment(o, p, sale) ==
  LET row == payments[o][p]
      left == Left(row, o, OfPayment(o, p))
  IN Refund(p, 0, left.product, left.service, row.method, sale, TRUE, Repassed(row.period), 0)

(* The pieces of a sale go back with its first refund, less those its line *)
(* has given back before; a line given back whole while the comanda was    *)
(* open is deleted and its refunds no longer count.                        *)
SomeMoney(rows) == Kept(rows, {i \in DOMAIN rows : Gross(rows[i]) > 0})
WithPieces(rows, n) ==
  IF rows = << >> THEN rows ELSE [rows EXCEPT ![1].pieces = NonNegative(n)]

WholeRefund(o, sale) ==
  WithPieces(SomeMoney([p \in DOMAIN payments[o] |-> RefundOfPayment(o, p, sale)]),
             order[o].pieces - order[o].refunded)

(* refund_full_order of a direct sale, from the list of sales.             *)
EstornarVenda(o) ==
  /\ sessionOpen /\ order[o].status = "finalizada" /\ ~order[o].estorno /\ ~order[o].fiado
  /\ GiveBack(o, WholeRefund(o, TRUE))
  /\ order' = [order EXCEPT ![o].estorno = TRUE]
  /\ UNCHANGED <<session, sessionOpen, payments, account, installments>>

(* cancel_order: with payments it refunds them all, without it only closes.*)
CancelOrder(o) ==
  /\ order[o].status = "aberta"
  /\ IF NetPaid(o, Gross) > 0
     THEN /\ sessionOpen
          /\ GiveBack(o, WholeRefund(o, FALSE))
          /\ order' = [order EXCEPT ![o].status = "cancelada", ![o].total = 0]
     ELSE /\ order' = [order EXCEPT ![o].status = "cancelada"]
          /\ UNCHANGED <<refunds, position>>
  /\ UNCHANGED <<session, sessionOpen, payments, account, installments>>

(* refund_paid_items: the pieces come out of the payments that chose them, *)
(* oldest first, each with its share of the service.                       *)
Available(o, p) == NonNegative(payments[o][p].pieces - Returned(o, OfPayment(o, p), Pieces))
Taken(o, n, p) ==
  AtMost(Available(o, p),
         NonNegative(n - SumF([q \in 1..(p - 1) |-> Available(o, q)])))

RefundOfPieces(o, p, take) ==
  LET row == payments[o][p]
      service == IF take = 0 THEN 0
                 ELSE ServiceBack(row.service, row.pieces, Returned(o, OfPayment(o, p), Service),
                                  Available(o, p), take)
  IN Refund(p, 0, Price * take, service, row.method, order[o].status = "finalizada",
            TRUE, Repassed(row.period), take)

SomePieces(rows) == Kept(rows, {i \in DOMAIN rows : Pieces(rows[i]) > 0})
RefundPieces(o, n) ==
  /\ o \in ItemRefundable
  /\ sessionOpen /\ order[o].status \in {"aberta", "finalizada"} /\ ~order[o].estorno
  /\ n <= SumF([p \in DOMAIN payments[o] |-> Available(o, p)])
  /\ GiveBack(o, SomePieces([p \in DOMAIN payments[o] |-> RefundOfPieces(o, p, Taken(o, n, p))]))
  /\ order' = IF order[o].status = "finalizada" THEN [order EXCEPT ![o].refunded = @ + n]
              ELSE [order EXCEPT ![o].pieces = @ - n, ![o].total = Price * (order[o].pieces - n),
                                 ![o].refunded = IF n = order[o].pieces THEN 0 ELSE @ + n]
  /\ UNCHANGED <<session, sessionOpen, payments, account, installments>>

----------------------------------------------------------------------------
(* Fiado.                                                                  *)

StatusFor(balance) == IF balance = 0 THEN "pago" ELSE "pendente"

(* The rows a conversion copies from the comanda.                          *)
Copied(o) ==
  [p \in DOMAIN payments[o] |->
     LET row == payments[o][p]
     IN [product |-> row.product, service |-> row.service, fee |-> row.fee,
         method |-> row.method, period |-> row.period, source |-> p]]

(* convert_order_to_consignment.                                           *)
Convert(o, charge) ==
  /\ o \in Convertible
  /\ sessionOpen /\ order[o].status = "aberta" /\ order[o].pieces > 0
  /\ LET service == NetPaid(o, Service) + Charge(Remaining(o), charge)
         total == order[o].total + service
         paid == NetPaid(o, Gross)
         balance == NonNegative(total - paid)
     IN account' = [account EXCEPT ![o] =
          [status |-> StatusFor(balance), product |-> order[o].total, service |-> service,
           total |-> total, paid |-> paid, balance |-> balance, pieces |-> order[o].pieces,
           createdIn |-> session]]
  /\ installments' = [installments EXCEPT ![o] = Copied(o)]
  /\ order' = [order EXCEPT ![o].status = "finalizada", ![o].fiado = TRUE, ![o].closedIn = session]
  /\ UNCHANGED <<session, sessionOpen, payments, refunds, position>>

(* create_consignment: pieces, no service charge.                          *)
CreateConsignment(d, n) ==
  /\ sessionOpen /\ account[d].status = "nenhum" /\ Cardinality(Started) < MaxSales
  /\ account' = [account EXCEPT ![d] =
       [status |-> "pendente", product |-> Price * n, service |-> 0, total |-> Price * n,
        paid |-> 0, balance |-> Price * n, pieces |-> n, createdIn |-> session]]
  /\ UNCHANGED <<session, sessionOpen, order, payments, installments, refunds, position>>

(* add_payment.                                                            *)
PayInstallment(a, amount, m) ==
  /\ sessionOpen /\ account[a].status \in {"pendente", "pago"} /\ amount <= account[a].balance
  /\ LET split == SplitInstallment(amount, account[a].product, SumRows(installments[a], Product))
         balance == NonNegative(account[a].total - (account[a].paid + amount))
     IN /\ installments' = [installments EXCEPT ![a] = Append(@,
             [product |-> split.product, service |-> split.service,
              fee |-> CardFee(split.product, split.service, m), method |-> m,
              period |-> session, source |-> 0])]
        /\ account' = [account EXCEPT ![a].paid = @ + amount, ![a].balance = balance,
                                      ![a].status = StatusFor(balance)]
  /\ UNCHANGED <<session, sessionOpen, order, payments, refunds, position>>

(* The installment that paid a fiado off, 0 if none has: the first whose   *)
(* running sum reaches the total.                                          *)
PaidUpTo(a, i) == SumOf(installments[a], 1..i, Gross)
Payoff(a) ==
  LET reached == {i \in DOMAIN installments[a] : PaidUpTo(a, i) >= account[a].total}
  IN IF reached = {} THEN 0 ELSE CHOOSE i \in reached : \A j \in reached : i <= j

(* _consignment_service_status: the tip of a fiado is recognized when it   *)
(* is paid off, and handed over when the session of that payment closes.   *)
TipRecognized(a) == account[a].status = "pago" /\ account[a].balance = 0 /\ Payoff(a) # 0
TipRepassed(a) == TipRecognized(a) /\ Repassed(installments[a][Payoff(a)].period)

RefundOfInstallment(a, i) ==
  LET row == installments[a][i]
      left == Left(row, a, OfInstallment(a, i))
  IN Refund(0, i, left.product, left.service, row.method, TRUE, TipRecognized(a), TipRepassed(a), 0)

(* A fiado that received nothing is undone by a refund of nothing.         *)
NothingReceived == Refund(0, 0, 0, 0, "fiado", TRUE, FALSE, FALSE, 0)

RefundOfFiado(a) ==
  LET rows == SomeMoney([i \in DOMAIN installments[a] |-> RefundOfInstallment(a, i)])
  IN WithPieces(IF rows = << >> THEN <<NothingReceived>> ELSE rows,
                account[a].pieces - SumRows(refunds[a], Pieces))

Cancelled(a) == [account EXCEPT ![a].status = "cancelado", ![a].balance = 0]

(* refund_full_order of a converted comanda, from the list of sales or     *)
(* from the fiado itself.                                                  *)
EstornarFiado(o) ==
  /\ sessionOpen /\ order[o].fiado /\ ~order[o].estorno
  /\ GiveBack(o, RefundOfFiado(o))
  /\ order' = [order EXCEPT ![o].estorno = TRUE]
  /\ account' = Cancelled(o)
  /\ UNCHANGED <<session, sessionOpen, payments, installments>>

(* refund_full_consignment.                                                *)
CancelConsignment(d) ==
  /\ sessionOpen /\ account[d].status \in {"pendente", "pago"}
  /\ GiveBack(d, RefundOfFiado(d))
  /\ account' = Cancelled(d)
  /\ UNCHANGED <<session, sessionOpen, order, payments, installments>>

----------------------------------------------------------------------------

Next ==
  \/ OpenSession \/ CloseSession
  \/ \E o \in Orders :
       \/ OpenOrder(o) \/ AddPiece(o) \/ CancelOrder(o) \/ EstornarVenda(o) \/ EstornarFiado(o)
       \/ \E n \in 1..MaxPieces : RefundPieces(o, n)
       \/ \E charge \in Charges : Convert(o, charge)
       \/ \E charge \in Charges, m \in Methods :
            \/ Close(o, charge, m)
            \/ \E n \in 1..MaxPieces : PayPieces(o, n, charge, m)
            \/ \E amount \in PartialAmounts : PayAmount(o, amount, charge, m)
  \/ \E d \in Direct :
       CancelConsignment(d) \/ \E n \in 1..MaxPieces : CreateConsignment(d, n)
  \/ \E a \in Accounts, amount \in Installments, m \in Methods : PayInstallment(a, amount, m)

Spec == Init /\ [][Next]_vars

----------------------------------------------------------------------------
(* Properties.                                                             *)

PaymentRow == [kind : {"partial", "final"}, product : Nat, service : Nat, method : Methods,
               fee : Nat, period : 1..session, pieces : 0..MaxPieces]
InstallmentRow == [product : Nat, service : Nat, fee : Nat, method : Methods,
                   period : 1..session, source : Nat]
RefundRow == [payment : Nat, installment : Nat, product : Nat, service : Nat,
              method : Methods \cup {"fiado"}, period : 1..session, saleRecognized : BOOLEAN,
              serviceRecognized : BOOLEAN, repassed : BOOLEAN, pieces : 0..MaxPieces]

(* Every table holds rows of its kind, dated no later than now; no amount  *)
(* is negative, the split of a payment or of a refund included.            *)
TypeOK ==
  /\ session \in 0..MaxSessions /\ sessionOpen \in BOOLEAN /\ position \in Int
  /\ order \in [Orders -> [status : {"nenhuma", "aberta", "finalizada", "cancelada"},
                           pieces : 0..MaxPieces, total : Nat, fiado : BOOLEAN,
                           closedIn : 0..session, estorno : BOOLEAN, refunded : Nat]]
  /\ account \in [Accounts -> [status : {"nenhum", "pendente", "pago", "cancelado"},
                               product : Nat, service : Nat, total : Nat, paid : Nat,
                               balance : Nat, pieces : 0..MaxPieces, createdIn : 0..session]]
  /\ payments \in [Orders -> Seq(PaymentRow)]
  /\ installments \in [Accounts -> Seq(InstallmentRow)]
  /\ refunds \in [Accounts -> Seq(RefundRow)]

(* No payment and no installment gives back more product or more service   *)
(* than it took, however many partial and whole refunds it meets: each of  *)
(* the four refunds computes what is left on its own.                      *)
RefundsWithinPayments ==
  /\ \A r \in OrderRows :
       LET done == OfPayment(r[1], r[2])
       IN /\ Returned(r[1], done, Product) <= PaymentAt(r).product
          /\ Returned(r[1], done, Service) <= PaymentAt(r).service
  /\ \A r \in InstallmentRows :
       LET done == OfInstallment(r[1], r[2])
       IN /\ Returned(r[1], done, Product) <= InstallmentAt(r).product
          /\ Returned(r[1], done, Service) <= InstallmentAt(r).service

(* The columns of a fiado agree with its installments: what was paid is    *)
(* their sum, paid and owed make the total, it is "pago" exactly when      *)
(* nothing is owed, and a fiado paid off has received its whole product    *)
(* and its whole service, whatever the conversion brought in.              *)
FiadoBalance ==
  \A a \in Accounts :
    account[a].status \in {"pendente", "pago"} =>
      /\ account[a].paid = SumRows(installments[a], Gross)
      /\ account[a].paid + account[a].balance = account[a].total
      /\ (account[a].status = "pago") = (account[a].balance = 0)
      /\ account[a].balance = 0 =>
           /\ SumRows(installments[a], Product) = account[a].product
           /\ SumRows(installments[a], Service) = account[a].service

(* The cash position, moved by each close and by each refund, is what was  *)
(* handed over: what comandas and fiados took in every closed session,     *)
(* less its fees, less everything given back.  No later refund, conversion *)
(* or cancellation rewrites a session already closed, and money counts     *)
(* once although a conversion moves the payments of a comanda to the       *)
(* installments of a fiado.                                                *)
TakenIn(T) ==
  SumF([r \in {r \in OrderRows : PaymentAt(r).period \in T} |-> Gross(PaymentAt(r))])
  + SumF([r \in {r \in InstallmentsIn(T) : InstallmentAt(r).source = 0} |-> Gross(InstallmentAt(r))])
CashPositionIsTheLedger ==
  LET closed == 1..(IF sessionOpen THEN session - 1 ELSE session)
  IN position = TakenIn(closed) - CardFees(closed)
                - SumF([r \in RefundRows |-> Gross(RefundAt(r))])
=============================================================================
