----------------------------- MODULE Relatorios -----------------------------
(***************************************************************************)
(* What the screens say about the book: the closing report of the cash     *)
(* session, the financial page, the manager's dashboards and the pages of  *)
(* a customer.  Each computes its totals from the tables with a query of   *)
(* its own, so each is an operator of its own here, over the set T of the  *)
(* cash sessions its period covers.                                        *)
(*                                                                         *)
(* Every comanda and every fiado is of a different table and a different   *)
(* customer, so "by table" and "by customer" are by sale.  Expenses and    *)
(* losses, which only subtract from a profit, and hours are left out.      *)
(***************************************************************************)
EXTENDS Livro

(* The sum of a column, and of amounts that may be negative: what comes in *)
(* less what goes out.                                                     *)
Sum(S, value(_)) == SumF([x \in S |-> value(x)])
Balance(S, value(_)) ==
  Sum(S, LAMBDA x : NonNegative(value(x))) - Sum(S, LAMBDA x : NonNegative(-value(x)))
Ever == 1..session

----------------------------------------------------------------------------
(* Which rows a report counts.                                             *)

(* A direct sale counts when it closes, and never if it was undone.        *)
(* Mutant: a comanda that became a fiado counts as well.                   *)
ClosedSales(T) ==
  {o \in Orders : order[o].status = "finalizada" /\ order[o].closedIn \in T /\ ~order[o].estorno}
DirectSales(T) ==
  {o \in Orders : /\ order[o].status = "finalizada" /\ order[o].closedIn \in T
                  /\ ~order[o].estorno /\ ~order[o].fiado}

(* A fiado counts when it is written, unless it was cancelled with no      *)
(* refund.                                                                 *)
Fiados(T) ==
  {a \in Accounts : /\ account[a].status # "nenhum" /\ account[a].createdIn \in T
                    /\ \/ account[a].status # "cancelado"
                       \/ a \in Orders /\ order[a].estorno
                       \/ refunds[a] # << >>}

(* _refund_reverses_active_sale, the predicate of the queries, and         *)
(* _refund_from_estornada_order, the test of the loops.  Mutant: the       *)
(* refunds of undone sales are subtracted as well.                         *)
AnyRefund(r) == TRUE
ReversesActiveSale(r) ==
  RefundAt(r).installment # 0 \/ r[1] \in Direct \/ ~order[r[1]].estorno
FromEstornadaOrder(r) ==
  r[1] \in Orders /\ RefundAt(r).installment = 0 /\ order[r[1]].estorno

SaleRefunds(T) == {r \in RefundsIn(T) : RefundAt(r).saleRecognized}

----------------------------------------------------------------------------
(* The closing report (_build_session_report, _build_daily_report).        *)

DirectTotal(T) == Sum(DirectSales(T), LAMBDA o : order[o].total)
InstallmentProduct(T) == Sum(InstallmentsIn(T), LAMBDA r : InstallmentAt(r).product)
LoopRefunds(T) == {r \in SaleRefunds(T) : ~FromEstornadaOrder(r)}

TotalSales(T) ==
  DirectTotal(T) + InstallmentProduct(T) - Sum(LoopRefunds(T), LAMBDA r : RefundAt(r).product)

(* _consignment_cogs_in_period: the cost of a fiado, whole, when written.  *)
FiadoCogs(T) == Sum(Fiados(T), LAMBDA a : Cost * account[a].pieces)
TotalCogs(T) ==
  Sum(DirectSales(T), LAMBDA o : Cost * order[o].pieces) + FiadoCogs(T)
  - Sum(LoopRefunds(T), LAMBDA r : Cost * RefundAt(r).pieces)

(* _consignment_tips_paid_in_period: the service of a fiado, whole, when   *)
(* an installment pays it off.                                             *)
TipsPaid(T) ==
  Sum({a \in Accounts : /\ account[a].total > 0 /\ Payoff(a) # 0
                        /\ installments[a][Payoff(a)].period \in T},
      LAMBDA a : account[a].service)
DirectService(T) == Sum(DirectPayments(T), LAMBDA r : PaymentAt(r).service)

(* Service given back: the waiter loses what was not handed over yet, the  *)
(* house the rest.  Mutant: both lose it.                                  *)
AnyRecognized(T) == Sum(RefundsIn(T), LAMBDA r : RefundAt(r).service)
RefundableService(T) ==
  Sum({r \in RefundsIn(T) : RefundAt(r).serviceRecognized /\ ~RefundAt(r).repassed},
      LAMBDA r : RefundAt(r).service)
RetainedLoss(T) ==
  Sum({r \in RefundsIn(T) : RefundAt(r).repassed}, LAMBDA r : RefundAt(r).service)

(* _net_service_in_period.                                                 *)
NetService(T) == DirectService(T) + TipsPaid(T) - RefundableService(T)

GivenBack(T) == Sum(RefundsIn(T), LAMBDA r : Gross(RefundAt(r)))
GrossTotal(T) == GrossReceived(T) - GivenBack(T)
NetProfit(T) == TotalSales(T) - TotalCogs(T) - CardFees(T) - RetainedLoss(T)

(* by_payment_method: money in less money out, and the fee of the money in.*)
ByMethod(T, m) ==
  LET direct == {r \in DirectPayments(T) : PaymentAt(r).method = m}
      fiado == {r \in InstallmentsIn(T) : InstallmentAt(r).method = m}
      back == {r \in RefundsIn(T) : RefundAt(r).method = m /\ Gross(RefundAt(r)) > 0}
      gross == Sum(direct, LAMBDA r : Gross(PaymentAt(r)))
               + Sum(fiado, LAMBDA r : Gross(InstallmentAt(r)))
               - Sum(back, LAMBDA r : Gross(RefundAt(r)))
      fee == Sum(direct, LAMBDA r : PaymentAt(r).fee)
             + Sum(fiado, LAMBDA r : InstallmentAt(r).fee)
  IN [gross |-> gross, fee |-> fee, net |-> gross - fee]

(* items_ranking: pieces sold and what they sold for.                      *)
ItemsRanking(T) ==
  LET sold == Sum(DirectSales(T), LAMBDA o : order[o].pieces)
              + Sum(Fiados(T), LAMBDA a : account[a].pieces)
              - Sum(LoopRefunds(T), LAMBDA r : RefundAt(r).pieces)
  IN [quantity |-> sold, total |-> Price * sold]

(* by_table.                                                               *)
ByTable(T, o) ==
  (IF o \in DirectSales(T) THEN order[o].total ELSE 0)
  - Sum({r \in LoopRefunds(T) : r[1] = o /\ RefundAt(r).payment # 0},
        LAMBDA r : Price * RefundAt(r).pieces)

(* by_waiter, were each sale of a waiter of its own: credited by payment   *)
(* for a direct sale, when written for a fiado, and taken back item by item.*)
ByWaiter(T, a) ==
  Sum({r \in DirectPayments(T) : r[1] = a}, LAMBDA r : PaymentAt(r).product)
  + (IF a \in Fiados(T) THEN account[a].product ELSE 0)
  - Sum({r \in SaleRefunds(T) : r[1] = a}, LAMBDA r : Price * RefundAt(r).pieces)

(* compute_cash_inflows: the cash the drawer of a session took.            *)
Cash == "dinheiro"
CashInflows(t) ==
  Sum({r \in DirectPayments({t}) : PaymentAt(r).method = Cash}, LAMBDA r : Gross(PaymentAt(r)))
  + Sum({r \in InstallmentsIn({t}) : InstallmentAt(r).method = Cash},
        LAMBDA r : Gross(InstallmentAt(r)))
  - Sum({r \in RefundsIn({t}) : RefundAt(r).method = Cash}, LAMBDA r : Gross(RefundAt(r)))

----------------------------------------------------------------------------
(* The financial page.                                                     *)

(* compute_period_profit.                                                  *)
QueryRefunds(T) == {r \in SaleRefunds(T) : ReversesActiveSale(r)}
PeriodProfit(T) ==
  LET sales == DirectTotal(T) + InstallmentProduct(T)
               - Sum(QueryRefunds(T), LAMBDA r : RefundAt(r).product)
      cogs == Sum(DirectSales(T), LAMBDA o : Cost * order[o].pieces) + FiadoCogs(T)
              - Sum(QueryRefunds(T), LAMBDA r : Cost * RefundAt(r).pieces)
  IN [total_sales |-> sales, total_cogs |-> cogs,
      net_profit |-> sales - cogs - CardFees(T) - RetainedLoss(T)]

(* list_sales with date_filter, and _period_totals: the sales and the      *)
(* service of a day, which may have seen one of the sessions or all.       *)
ListSales(T) ==
  [total_sales |-> DirectTotal(T) + InstallmentProduct(T)
                   - Sum(QueryRefunds(T), LAMBDA r : RefundAt(r).product),
   service |-> DirectService(T) + TipsPaid(T) - RefundableService(T)]

(* list_sales without date_filter: neither the installments of a fiado nor *)
(* its tip come in, and what was refunded of them goes out.                *)
ListAllSales ==
  [total_sales |-> DirectTotal(Ever)
                   - Sum(QueryRefunds(Ever), LAMBDA r : RefundAt(r).product),
   service |-> DirectService(Ever) - RefundableService(Ever)]

(* consignment_paid: installments received less installments given back.   *)
InstallmentRefunds(T) == {r \in RefundsIn(T) : RefundAt(r).installment # 0}
ConsignmentPaid(T) ==
  Sum(InstallmentsIn(T), LAMBDA r : Gross(InstallmentAt(r)))
  - Sum(InstallmentRefunds(T), LAMBDA r : Gross(RefundAt(r)))

----------------------------------------------------------------------------
(* The dashboards, and the pages of a customer.                            *)

(* compute_payment_breakdown: the payments of the period, then its refunds.*)
PaymentBreakdown(T, m) ==
  Sum({r \in DirectPayments(T) : PaymentAt(r).method = m}, LAMBDA r : Gross(PaymentAt(r)))
  + Sum({r \in InstallmentsIn(T) : InstallmentAt(r).method = m},
        LAMBDA r : Gross(InstallmentAt(r)))
  - Sum({r \in RefundsIn(T) : RefundAt(r).method = m}, LAMBDA r : Gross(RefundAt(r)))

(* dashboard_geral: the summary, and the pieces sold of a product.         *)
DashboardGeral(T) ==
  [total_sales |-> DirectTotal(T) + InstallmentProduct(T)
                   - Sum(LoopRefunds(T), LAMBDA r : RefundAt(r).product),
   service |-> DirectService(T) + TipsPaid(T) - RefundableService(T)]
TopProduct(T) ==
  Sum(DirectSales(T), LAMBDA o : order[o].pieces)
  + (Sum(Fiados(T), LAMBDA a : account[a].pieces)
     - Sum(LoopRefunds(T), LAMBDA r : RefundAt(r).pieces))

(* dashboard_vendas: each day merges the comandas closed, the installments *)
(* and the refunds of that day; a table loses a refund only in a period in *)
(* which it sold.                                                          *)
SalesByDay(t) ==
  DirectTotal({t}) + InstallmentProduct({t})
  - Sum(LoopRefunds({t}), LAMBDA r : RefundAt(r).product)
TableOfVendas(T, o) ==
  IF o \notin DirectSales(T) THEN 0
  ELSE order[o].total - Sum({r \in LoopRefunds(T) : r[1] = o /\ RefundAt(r).payment # 0},
                            LAMBDA r : RefundAt(r).product)

(* dashboard_gestao: the profit, the service and what the position holds.  *)
DashboardGestao(T) ==
  [net_profit |-> PeriodProfit(T).net_profit,
   billing_total |-> PeriodProfit(T).total_sales + NetService(T)]

(* What is still owed: _add_consignment_summary and dashboard_clientes.    *)
PendingBalance ==
  Sum({a \in Accounts : account[a].status # "cancelado" /\ account[a].balance > 0},
      LAMBDA a : account[a].balance)

(* customer_summary: what a customer consumed.                             *)
ItemRefunds(a) ==
  Sum({r \in SaleRefunds(Ever) : r[1] = a}, LAMBDA r : Price * RefundAt(r).pieces)
FiadoProduct(a) == IF a \in Fiados(Ever) THEN account[a].product ELSE 0
TotalSpent(a) ==
  (IF a \in Orders /\ order[a].status = "finalizada" /\ ~order[a].fiado
   THEN order[a].total ELSE 0)
  + FiadoProduct(a) - ItemRefunds(a)

(* customer_dashboard: the consumption of a year.                          *)
YearlyTotal(T, a) ==
  (IF /\ a \in Orders /\ order[a].status = "finalizada" /\ ~order[a].fiado
      /\ order[a].closedIn \in T
   THEN order[a].total ELSE 0)
  + (IF a \in Fiados(T) THEN account[a].product ELSE 0)
  - Sum({r \in SaleRefunds(T) : r[1] = a}, LAMBDA r : Price * RefundAt(r).pieces)

(* customer_item_ranking: the pieces a customer took.                      *)
ItemsOfCustomer(a) ==
  (IF a \in Orders /\ order[a].status = "finalizada" /\ ~order[a].fiado
   THEN order[a].pieces ELSE 0)
  + (IF a \in Fiados(Ever) THEN account[a].pieces ELSE 0)
  - Sum({r \in SaleRefunds(Ever) : r[1] = a}, LAMBDA r : RefundAt(r).pieces)

(* top_customers of dashboard_clientes.                                    *)
TopCustomer(a) ==
  (IF a \in DirectSales(Ever) THEN order[a].total ELSE 0) + FiadoProduct(a) - ItemRefunds(a)

----------------------------------------------------------------------------
(* Properties.                                                             *)

(* The screens compute the same totals from queries of their own: in every *)
(* session and over all of them they agree on sales, costs, profit,        *)
(* service, money by method and by table, the drawer and the products; the *)
(* methods add up to the total, the days and the years to the whole, and   *)
(* the pages of a customer agree on what was consumed.  One list does not  *)
(* agree: the sales of no particular day miss exactly the installments and *)
(* tips of every fiado.                                                    *)
ScreensAgree ==
  \A T \in {{t} : t \in Ever} \cup {Ever} :
    /\ PeriodProfit(T) = [total_sales |-> TotalSales(T), total_cogs |-> TotalCogs(T),
                          net_profit |-> NetProfit(T)]
    /\ ListSales(T) = [total_sales |-> TotalSales(T), service |-> NetService(T)]
    /\ ListAllSales.total_sales + InstallmentProduct(Ever) = TotalSales(Ever)
    /\ ListAllSales.service + TipsPaid(Ever) = NetService(Ever)
    /\ \A m \in Methods : PaymentBreakdown(T, m) = ByMethod(T, m).gross
    /\ GrossTotal(T) = Balance(Methods, LAMBDA m : ByMethod(T, m).gross)
    /\ CardFees(T) = Sum(Methods, LAMBDA m : ByMethod(T, m).fee)
    /\ DashboardGeral(T) = ListSales(T) /\ TopProduct(T) = ItemsRanking(T).quantity
    /\ DashboardGestao(T).billing_total = ListSales(T).total_sales + ListSales(T).service
    /\ \A o \in DirectSales(T) : TableOfVendas(T, o) = ByTable(T, o)
    /\ Balance(T, CashInflows) = ByMethod(T, Cash).gross
    /\ Balance(T, SalesByDay) = TotalSales(T)
    /\ \A a \in Accounts : /\ Balance(Ever, LAMBDA t : YearlyTotal({t}, a)) = TotalSpent(a)
                           /\ TotalSpent(a) = Price * ItemsOfCustomer(a)

(* Sales are recognized when a comanda closes, money when it is handed     *)
(* over; once no comanda is open the two meet: the sales of all sessions   *)
(* are the product received less the product given back.                   *)
RevenueIsProductReceived ==
  (\A o \in Orders : order[o].status # "aberta") =>
    TotalSales(Ever) =
      Sum(DirectPayments(Ever), LAMBDA r : PaymentAt(r).product) + InstallmentProduct(Ever)
      - Sum(RefundsIn(Ever), LAMBDA r : RefundAt(r).product)

(* Sales that were all undone, by whichever of the four refunds and in     *)
(* whichever session, leave no revenue, no money by any method, nothing in *)
(* the total of a table, of a customer or of a waiter (whose credit for a  *)
(* comanda refunded while open stays), and no piece in a ranking; the      *)
(* service that stays is exactly the one the house lost.  Two exceptions   *)
(* are findings: Short comandas, whose last refund misses pieces refunded  *)
(* while they were open (EstornoReturnsAllStock of MCComanda), and the     *)
(* pieces of UndoneUnpaid fiados (UndoneSalesCostNothing below).           *)
Short == {o \in Orders : /\ order[o].estorno /\ order[o].refunded > 0
                         /\ \E i \in DOMAIN refunds[o] : ~refunds[o][i].saleRecognized}
UndoneUnpaid == {o \in Orders : account[o].status = "cancelado" /\ installments[o] = << >>}
AllUndone ==
  /\ \A o \in Orders : order[o].status \in {"nenhuma", "cancelada"} \/ order[o].estorno
  /\ \A d \in Direct : account[d].status \in {"nenhum", "cancelado"}
UndoneSalesLeaveNothing ==
  AllUndone =>
    /\ TotalSales(Ever) = 0 /\ GrossTotal(Ever) = 0 /\ ConsignmentPaid(Ever) = 0
    /\ \A m \in Methods : PaymentBreakdown(Ever, m) = 0
    /\ ItemsRanking(Ever).quantity = Sum(UndoneUnpaid, LAMBDA o : account[o].pieces)
    /\ PendingBalance = 0
    /\ \A o \in Orders : ByTable(Ever, o) = 0
    /\ \A a \in Accounts \ Short : TotalSpent(a) = 0
    /\ \A a \in Accounts :
         (\A i \in DOMAIN refunds[a] : refunds[a][i].saleRecognized) => ByWaiter(Ever, a) = 0
    /\ NetService(Ever) = RetainedLoss(Ever)

(* FORMULAS.md:223-227 takes undone sales out of every total and does not  *)
(* subtract their refunds again, and two pages of the same customer show   *)
(* the same consumption.                                                   *)
TopCustomersAgree == \A a \in Accounts : TopCustomer(a) = TotalSpent(a)

(* FORMULAS.md:198: the cost of a fiado is recognized whole when written   *)
(* and a refund reverses it, so sales that were all undone cost nothing.   *)
UndoneSalesCostNothing == AllUndone => TotalCogs(Ever) = 0
=============================================================================
