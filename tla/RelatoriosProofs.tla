-------------------------- MODULE RelatoriosProofs --------------------------
(***************************************************************************)
(* Theorems about Relatorios: what the screens show of a sale, for any     *)
(* constants.                                                              *)
(*                                                                         *)
(* A report adds up rows of every sale made in a session, so each fact is  *)
(* proved of one sale first (SalesInv: the comanda, its payments, refunds  *)
(* and the fiado it became) and the sums of the rows are then regrouped,   *)
(* by method, by session and by sale.  A step writes the tables of one     *)
(* sale only, and SalesInv of the others carries over.                     *)
(***************************************************************************)
EXTENDS Relatorios, LivroProofs

(***************************************************************************)
(* The inductive invariant of the reports, over the tables of one sale.    *)

Early(refs) == {i \in DOMAIN refs : ~refs[i].saleRecognized}
Late(refs) == {i \in DOMAIN refs : refs[i].saleRecognized}
Tipped(refs) == {i \in DOMAIN refs : refs[i].serviceRecognized}

(* A refund names a payment or an installment and returns the money the    *)
(* way it came, or it returns nothing.                                     *)
OfSomePayment(r, pays) ==
  /\ r.payment \in DOMAIN pays /\ r.installment = 0
  /\ r.method = pays[r.payment].method /\ r.serviceRecognized
OfSomeInstallment(r, insts) ==
  /\ r.payment = 0 /\ r.installment \in DOMAIN insts
  /\ r.method = insts[r.installment].method
OfNothing(r) == r.payment = 0 /\ r.installment = 0 /\ r.product = 0 /\ r.service = 0
Named(pays, insts, refs) ==
  \A i \in DOMAIN refs :
    \/ OfSomePayment(refs[i], pays) \/ OfSomeInstallment(refs[i], insts) \/ OfNothing(refs[i])

(* What is sold costs its pieces, and so does what is refunded of it.      *)
Priced(ord, refs) ==
  /\ ord.status # "cancelada" => ord.total = Price * ord.pieces
  /\ ord.status = "finalizada" => ord.closedIn # 0
  /\ ord.estorno => ord.status = "finalizada"
  /\ Partly(ord) =>
       \A i \in DOMAIN refs : refs[i].payment # 0 => refs[i].product = Price * refs[i].pieces
PricedFiado(acc) ==
  /\ acc.status = "nenhum" => acc.balance = 0
  /\ acc.status # "nenhum" => acc.product = Price * acc.pieces /\ acc.createdIn # 0

(* A comanda that stays a comanda: before it closes nothing refunded of it *)
(* was a sale; from then on it has received its total and what was given   *)
(* back before.                                                            *)
OpenSale(ord, pays, refs) ==
  /\ ord.status \in {"nenhuma", "aberta"} /\ refs = << >> => ord.refunded = 0
  /\ ord.status = "aberta" =>
       Late(refs) = {} /\ SumRows(pays, Product) <= ord.total + SumRows(refs, Product)
ClosedSale(ord, pays, refs) ==
  ord.status = "finalizada" /\ ~ord.fiado =>
    /\ \A i \in DOMAIN refs : refs[i].payment # 0
    /\ SumRows(pays, Product) = ord.total + SumOf(refs, Early(refs), Product)
    /\ SumRows(pays, Pieces) <= ord.pieces + SumOf(refs, Early(refs), Pieces)
    /\ ~ord.estorno => /\ SumOf(refs, Late(refs), Pieces) <= ord.refunded
                       /\ Early(refs) = {} => ord.refunded = SumOf(refs, Late(refs), Pieces)
    /\ ord.estorno /\ (Early(refs) = {} \/ ord.refunded = 0) =>
         ord.total = Price * SumOf(refs, Late(refs), Pieces)
UndoneSale(ord, pays, refs) ==
  /\ ord.status = "cancelada" => Late(refs) = {} /\ \A i \in DOMAIN refs : refs[i].payment # 0
  /\ ~ord.fiado /\ (ord.status = "cancelada" \/ ord.estorno) =>
       \A p \in DOMAIN pays :
         /\ SumOf(refs, Marked(refs, p), Product) = pays[p].product
         /\ SumOf(refs, Marked(refs, p), Service) = pays[p].service

(* A fiado: nothing is given back until it is cancelled, and then all is.  *)
PaidInFull(acc, insts) ==
  acc.total > 0 /\ \E i \in DOMAIN insts : SumOf(insts, 1..i, Gross) >= acc.total
LiveFiado(acc, refs) == acc.status # "cancelado" => refs = << >>
UndoneFiado(acc, insts, refs) ==
  acc.status = "cancelado" =>
    /\ acc.balance = 0 /\ refs # << >> /\ SumRows(refs, Pieces) = acc.pieces
    /\ \A i \in DOMAIN refs :
         /\ refs[i].payment = 0 /\ refs[i].saleRecognized
         /\ refs[i].repassed => refs[i].serviceRecognized
    /\ \A j \in DOMAIN insts :
         /\ SumOf(refs, Settling(refs, j), Product) = insts[j].product
         /\ SumOf(refs, Settling(refs, j), Service) = insts[j].service
SomethingPaid(rows) == Price # 0 => \A i \in DOMAIN rows : rows[i].product + rows[i].service > 0
TipGivenBack(acc, insts, refs) ==
  acc.status = "cancelado" =>
    /\ insts # << >> => \A i \in DOMAIN refs : refs[i].installment # 0
    /\ SumOf(refs, Tipped(refs), Service) = IF PaidInFull(acc, insts) THEN acc.service ELSE 0

Apart == ItemRefundable \cap Convertible = {}
SaleFits(o, ord, pays, acc, insts, refs) ==
  /\ Named(pays, insts, refs) /\ Priced(ord, refs) /\ SomethingPaid(pays)
  /\ ord.fiado => /\ o \in Convertible /\ acc.status # "nenhum"
                  /\ ord.estorno <=> acc.status = "cancelado"
  /\ Apart =>
       /\ ord.status = "aberta" /\ o \in Convertible => refs = << >>
       /\ OpenSale(ord, pays, refs) /\ ClosedSale(ord, pays, refs) /\ UndoneSale(ord, pays, refs)
       /\ ord.fiado => LiveFiado(acc, refs)
FiadoFits(acc, insts, refs) ==
  /\ PricedFiado(acc) /\ SomethingPaid(insts)
  /\ Apart => UndoneFiado(acc, insts, refs) /\ (Price # 0 => TipGivenBack(acc, insts, refs))
SalesInv ==
  /\ \A o \in Orders :
       SaleFits(o, order[o], payments[o], account[o], installments[o], refunds[o])
  /\ \A d \in Direct : Named(<< >>, installments[d], refunds[d]) /\ LiveFiado(account[d], refunds[d])
  /\ \A a \in Accounts : FiadoFits(account[a], installments[a], refunds[a])


LEMMA SalesFrame ==
  ASSUME SalesInv, NEW s, Elsewhere(s),
         s \in Orders =>
           SaleFits(s, order'[s], payments'[s], account'[s], installments'[s], refunds'[s]),
         s \in Direct =>
           Named(<< >>, installments'[s], refunds'[s]) /\ LiveFiado(account'[s], refunds'[s]),
         s \in Accounts => FiadoFits(account'[s], installments'[s], refunds'[s])
  PROVE  SalesInv'
<1>1. \A o \in Orders :
        SaleFits(o, order'[o], payments'[o], account'[o], installments'[o], refunds'[o])
  BY DEF SalesInv, Elsewhere, Accounts
<1>2. \A d \in Direct :
        Named(<< >>, installments'[d], refunds'[d]) /\ LiveFiado(account'[d], refunds'[d])
  BY DEF SalesInv, Elsewhere, Accounts
<1>3. \A a \in Accounts : FiadoFits(account'[a], installments'[a], refunds'[a])
  BY DEF SalesInv, Elsewhere
<1> QED  BY <1>1, <1>2, <1>3 DEF SalesInv

(* The row of a comanda changes and nothing else does.                     *)
LEMMA OrderRowSells ==
  ASSUME LedgerInv, SalesInv, NEW o \in Orders, NEW ord, order' = [order EXCEPT ![o] = ord],
         UNCHANGED <<payments, account, installments, refunds>>,
         SaleFits(o, ord, payments[o], account[o], installments[o], refunds[o])
  PROVE  SalesInv'
<1>1. Elsewhere(o) /\ order'[o] = ord /\ o \in Accounts /\ o \notin Direct
  BY TableTypes, Livro_Rows DEF Elsewhere, Accounts
<1>2. FiadoFits(account[o], installments[o], refunds[o])
  BY <1>1 DEF SalesInv
<1> QED  BY <1>1, <1>2, SalesFrame

LEMMA SameSales ==
  ASSUME SalesInv, UNCHANGED <<order, payments, account, installments, refunds>>
  PROVE  SalesInv'
BY DEF SalesInv

LEMMA NoRefunds ==
  /\ Early(<< >>) = {} /\ Late(<< >>) = {} /\ Tipped(<< >>) = {}
  /\ SumRows(<< >>, Product) = 0 /\ SumRows(<< >>, Service) = 0 /\ SumRows(<< >>, Pieces) = 0
<1>1. Early(<< >>) = {} /\ Late(<< >>) = {} /\ Tipped(<< >>) = {}
  BY DEF Early, Late, Tipped
<1> QED  BY <1>1, EmptyTable

LEMMA OpenOrderSells ==
  ASSUME LedgerInv, SalesInv, NEW o \in Orders, OpenOrder(o)
  PROVE  SalesInv'
<1> DEFINE old == order[o]
           ord == [old EXCEPT !.status = "aberta"]
<1>1. /\ old.status = "nenhuma" /\ order' = [order EXCEPT ![o] = ord]
      /\ UNCHANGED <<payments, account, installments, refunds>>
  BY DEF OpenOrder
<1>2. old \in OrderRecord
      /\ StatusFits(old, payments[o], account[o], installments[o], refunds[o])
  BY SaleFacts DEF OrderFits
<1>3. payments[o] = << >> /\ refunds[o] = << >> /\ ~old.fiado
  BY <1>1, <1>2 DEF StatusFits
<1>4. SaleFits(o, old, payments[o], account[o], installments[o], refunds[o])
  BY DEF SalesInv
<1>5. /\ ord.status = "aberta" /\ ord.pieces = old.pieces /\ ord.total = old.total
      /\ ord.fiado = old.fiado /\ ord.estorno = old.estorno /\ ord.refunded = old.refunded
      /\ ord.total \in Nat
  BY <1>2 DEF OrderRecord
<1> HIDE DEF old, ord
<1>6. Priced(ord, << >>)
  BY <1>1, <1>3, <1>4, <1>5 DEF SaleFits, Priced
<1>7. Apart => old.refunded = 0
  BY <1>1, <1>3, <1>4 DEF SaleFits, OpenSale
<1>8. OpenSale(ord, << >>, << >>) \/ ~Apart
  BY <1>5, <1>7, NoRefunds DEF OpenSale
<1>9. ClosedSale(ord, << >>, << >>) /\ UndoneSale(ord, << >>, << >>)
  BY <1>1, <1>4, <1>5 DEF ClosedSale, UndoneSale, SaleFits, Priced
<1>10. SaleFits(o, ord, << >>, account[o], installments[o], << >>)
  BY <1>3, <1>4, <1>5, <1>6, <1>8, <1>9 DEF SaleFits
<1> QED  BY <1>1, <1>3, <1>10, OrderRowSells

LEMMA AddPieceSells ==
  ASSUME LedgerInv, SalesInv, NEW o \in Orders, AddPiece(o)
  PROVE  SalesInv'
<1> DEFINE old == order[o]
           ord == [old EXCEPT !.pieces = @ + 1, !.total = @ + Price]
           pays == payments[o]
           refs == refunds[o]
<1>1. /\ old.status = "aberta" /\ order' = [order EXCEPT ![o] = ord]
      /\ UNCHANGED <<payments, account, installments, refunds>>
  BY DEF AddPiece
<1>2. /\ old \in OrderRecord /\ pays \in Seq(PaymentRow) /\ refs \in Seq(RefundRow)
      /\ StatusFits(old, pays, account[o], installments[o], refs)
  BY SaleFacts DEF OrderFits
<1>3. ~old.fiado
  BY <1>1, <1>2 DEF StatusFits
<1>4. SaleFits(o, old, pays, account[o], installments[o], refs)
  BY DEF SalesInv
<1>5. /\ ord.status = "aberta" /\ ord.pieces = old.pieces + 1 /\ ord.total = old.total + Price
      /\ ord.fiado = old.fiado /\ ord.estorno = old.estorno /\ ord.refunded = old.refunded
      /\ old.total \in Nat /\ old.pieces \in Nat /\ Price \in Nat
  BY <1>1, <1>2, Livro_Amounts, Livro_Bounds DEF OrderRecord
<1>6. SumRows(pays, Product) \in Nat /\ SumRows(refs, Product) \in Nat
  BY <1>2, PaymentTotals, RefundSums
<1> HIDE DEF old, ord, pays, refs
<1>7. ord.total = Price * ord.pieces
  <2>1. old.total = Price * old.pieces
    BY <1>1, <1>4 DEF SaleFits, Priced
  <2>2. Price * (old.pieces + 1) = Price * old.pieces + Price
    BY <1>5
  <2> QED  BY <1>5, <2>1, <2>2
<1>8. Priced(ord, refs)
  BY <1>1, <1>4, <1>5, <1>7 DEF SaleFits, Priced, Partly
<1>9. OpenSale(ord, pays, refs) \/ ~Apart
  BY <1>1, <1>4, <1>5, <1>6 DEF OpenSale, SaleFits
<1>10. ClosedSale(ord, pays, refs) /\ UndoneSale(ord, pays, refs)
  BY <1>1, <1>4, <1>5 DEF ClosedSale, UndoneSale, SaleFits, Priced
<1>11. SaleFits(o, ord, pays, account[o], installments[o], refs)
  BY <1>1, <1>3, <1>4, <1>5, <1>8, <1>9, <1>10 DEF SaleFits
<1> QED  BY <1>1, <1>11, OrderRowSells DEF pays, refs


(* Payments of an open comanda.                                            *)
LEMMA AppendedRow ==
  ASSUME NEW A, NEW rows \in Seq(A), NEW row \in A
  PROVE  LET q == Append(rows, row)
         IN /\ DOMAIN q = 1..(Len(rows) + 1) /\ q[Len(rows) + 1] = row /\ q # << >>
            /\ \A i \in DOMAIN rows : i \in DOMAIN q /\ q[i] = rows[i]
            /\ \A i \in DOMAIN q : (i \in DOMAIN rows /\ q[i] = rows[i]) \/ q[i] = row
OBVIOUS

LEMMA PaidMore ==
  ASSUME NEW o, NEW ord \in OrderRecord, NEW pays \in Seq(PaymentRow), NEW acc, NEW insts,
         NEW refs \in Seq(RefundRow), SaleFits(o, ord, pays, acc, insts, refs),
         ord.status = "aberta", ~ord.fiado, NEW row \in PaymentRow,
         row.product <= NonNegative(ord.total - (SumRows(pays, Product) - SumRows(refs, Product))),
         Price # 0 => row.product + row.service > 0
  PROVE  SaleFits(o, ord, Append(pays, row), acc, insts, refs)
<1> DEFINE q == Append(pays, row)
           sp == SumRows(pays, Product)
           sr == SumRows(refs, Product)
<1>1. /\ \A i \in DOMAIN pays : i \in DOMAIN q /\ q[i] = pays[i]
      /\ \A i \in DOMAIN q : (i \in DOMAIN pays /\ q[i] = pays[i]) \/ q[i] = row
  BY AppendedRow
<1>2. row.product \in Nat /\ row.service \in Nat /\ sp \in Nat /\ sr \in Nat /\ ord.total \in Nat
  BY RowTypes, PaymentTotals, RefundSums, OrderFields
<1>3. SumRows(q, Product) = sp + row.product
  <2>1. Len(pays) \in Nat /\ MoneyRows(pays, Len(pays))
    BY PaymentTable
  <2> QED  BY <1>2, <2>1, AppendedSums
<1>4. row.product <= NonNegative(ord.total - (sp - sr))
  OBVIOUS
<1> HIDE DEF q, sp, sr
<1>5. Named(q, insts, refs)
  BY <1>1 DEF SaleFits, Named, OfSomePayment
<1>6. SomethingPaid(q)
  BY <1>1 DEF SaleFits, SomethingPaid
<1>7. Apart => OpenSale(ord, q, refs)
  <2> SUFFICES ASSUME Apart PROVE OpenSale(ord, q, refs)
    OBVIOUS
  <2>1. OpenSale(ord, pays, refs)
    BY DEF SaleFits
  <2>2. sp <= ord.total + sr
    BY <2>1 DEF OpenSale, sp, sr
  <2>3. sp + row.product <= ord.total + sr
    BY <1>2, <1>4, <2>2 DEF NonNegative
  <2> QED  BY <1>3, <2>1, <2>3 DEF OpenSale, sr
<1>8. ClosedSale(ord, q, refs) /\ UndoneSale(ord, q, refs)
  BY DEF ClosedSale, UndoneSale, SaleFits, Priced
<1> QED  BY <1>5, <1>6, <1>7, <1>8 DEF SaleFits, q

LEMMA PaymentSells ==
  ASSUME LedgerInv, SalesInv, NEW o \in Orders, order[o].status = "aberta", NEW row \in PaymentRow,
         row.product <= Remaining(o), Price # 0 => row.product + row.service > 0, Record(o, row),
         UNCHANGED <<order, account, installments, refunds>>
  PROVE  SalesInv'
<1> DEFINE q == Append(payments[o], row)
<1>1. payments' = [payments EXCEPT ![o] = q]
  BY DEF Record
<1>2. /\ o \in Accounts /\ order[o] \in OrderRecord /\ payments[o] \in Seq(PaymentRow)
      /\ refunds[o] \in Seq(RefundRow)
      /\ StatusFits(order[o], payments[o], account[o], installments[o], refunds[o])
  BY SaleFacts DEF OrderFits
<1>3. ~order[o].fiado
  BY <1>2 DEF StatusFits
<1>4. /\ SaleFits(o, order[o], payments[o], account[o], installments[o], refunds[o])
      /\ FiadoFits(account[o], installments[o], refunds[o])
  BY <1>2 DEF SalesInv
<1>5. row.product <= NonNegative(order[o].total
                                 - (SumRows(payments[o], Product) - SumRows(refunds[o], Product)))
  BY DEF Remaining, NetPaid
<1>6. SaleFits(o, order[o], q, account[o], installments[o], refunds[o])
  BY <1>2, <1>3, <1>4, <1>5, PaidMore
<1> HIDE DEF q
<1>7. Elsewhere(o) /\ payments'[o] = q /\ o \notin Direct
  BY <1>1, TableTypes, Livro_Rows DEF Elsewhere
<1> QED  BY <1>4, <1>6, <1>7, SalesFrame

LEMMA PayPiecesSells ==
  ASSUME LedgerInv, SalesInv, NEW o \in Orders, NEW n \in 1..MaxPieces, NEW charge \in Charges,
         NEW m \in Methods, PayPieces(o, n, charge, m)
  PROVE  SalesInv'
<1> DEFINE amount == Price * n
           tip == Charge(amount, charge)
           row == Paid("partial", amount, tip, m, n)
<1>1. /\ sessionOpen /\ order[o].status = "aberta" /\ amount <= Remaining(o)
      /\ Record(o, row) /\ UNCHANGED <<order, account, installments, refunds>>
  BY DEF PayPieces, MayPayPart
<1>2. amount \in Nat /\ (Price # 0 => amount > 0)
  BY Livro_Amounts, Livro_Bounds, NatProduct
<1>3. session \in 1..session /\ n \in 0..MaxPieces
  BY <1>1, DayFacts, Livro_Bounds
<1> HIDE DEF amount
<1>4. tip \in Nat
  BY <1>2, ChargeNat
<1> HIDE DEF tip
<1>5. row \in PaymentRow /\ row.product = amount /\ row.service = tip
  BY <1>2, <1>3, <1>4, PaidRow
<1> HIDE DEF row
<1>6. Price # 0 => row.product + row.service > 0
  BY <1>2, <1>4, <1>5
<1> QED  BY <1>1, <1>5, <1>6, PaymentSells

LEMMA PayAmountSells ==
  ASSUME LedgerInv, SalesInv, NEW o \in Orders, NEW amount \in PartialAmounts,
         NEW charge \in Charges, NEW m \in Methods, PayAmount(o, amount, charge, m)
  PROVE  SalesInv'
<1> DEFINE product == ProductWithin(amount, charge)
           row == Paid("partial", product, amount - product, m, 0)
<1>1. /\ sessionOpen /\ order[o].status = "aberta" /\ (charge = "gorjeta" => Tip < amount)
      /\ product <= Remaining(o) /\ Record(o, row)
      /\ UNCHANGED <<order, account, installments, refunds>>
  BY DEF PayAmount, MayPayPart
<1>2. amount \in Nat /\ amount > 0
  BY Livro_Amounts
<1>3. product \in 0..amount
  BY <1>1, <1>2, ProductInside
<1>4. product \in Nat /\ amount - product \in Nat
  BY <1>2, <1>3
<1>5. session \in 1..session /\ 0 \in 0..MaxPieces
  BY <1>1, DayFacts, Livro_Bounds
<1> HIDE DEF product
<1>6. row \in PaymentRow /\ row.product = product /\ row.service = amount - product
  BY <1>4, <1>5, PaidRow
<1> HIDE DEF row
<1>7. row.product + row.service > 0
  BY <1>2, <1>4, <1>6
<1> QED  BY <1>1, <1>6, <1>7, PaymentSells

(* A comanda that closes has received its total.                           *)
LEMMA AllEarly ==
  ASSUME NEW refs, Late(refs) = {}
  PROVE  /\ Early(refs) = DOMAIN refs
         /\ SumOf(refs, Early(refs), Product) = SumRows(refs, Product)
         /\ SumOf(refs, Early(refs), Pieces) = SumRows(refs, Pieces)
         /\ SumOf(refs, Late(refs), Pieces) = 0
<1>1. Early(refs) = DOMAIN refs
  BY DEF Early, Late
<1> QED  BY <1>1, NoRows DEF SumRows

LEMMA ClosedNow ==
  ASSUME NEW o, NEW ord \in OrderRecord, NEW pays \in Seq(PaymentRow), NEW acc, NEW insts,
         NEW refs \in Seq(RefundRow), SaleFits(o, ord, pays, acc, insts, refs),
         NamesFit(ord, pays, refs), PiecesFit(ord, pays, refs),
         ord.status = "aberta", ~ord.fiado, session \in 1..session,
         Apart => SumRows(pays, Product) = ord.total + SumRows(refs, Product)
  PROVE  SaleFits(o, [ord EXCEPT !.status = "finalizada", !.closedIn = session],
                  pays, acc, insts, refs)
<1> DEFINE new == [ord EXCEPT !.status = "finalizada", !.closedIn = session]
<1>1. /\ new.status = "finalizada" /\ new.closedIn = session /\ new.total = ord.total
      /\ new.pieces = ord.pieces /\ new.fiado = ord.fiado /\ new.estorno = ord.estorno
      /\ new.refunded = ord.refunded
  BY DEF OrderRecord
<1>2. ord.refunded \in Nat /\ ord.pieces \in Nat /\ session # 0
  BY OrderFields
<1>3. /\ SumRows(pays, Pieces) \in Nat /\ SumRows(refs, Pieces) \in Nat
      /\ SumRows(refs, Product) \in Nat
  BY PaymentTotals, RefundSums
<1> HIDE DEF new
<1>4. Priced(new, refs)
  BY <1>1, <1>2 DEF SaleFits, Priced, Partly
<1>5. Apart => ClosedSale(new, pays, refs)
  <2> SUFFICES ASSUME Apart PROVE ClosedSale(new, pays, refs)
    OBVIOUS
  <2>1. Late(refs) = {} /\ (refs = << >> => ord.refunded = 0)
    BY DEF SaleFits, OpenSale
  <2>2. /\ Early(refs) = DOMAIN refs
        /\ SumOf(refs, Early(refs), Product) = SumRows(refs, Product)
        /\ SumOf(refs, Early(refs), Pieces) = SumRows(refs, Pieces)
        /\ SumOf(refs, Late(refs), Pieces) = 0
    BY <2>1, AllEarly
  <2>3. SumRows(pays, Pieces) <= ord.pieces + SumRows(refs, Pieces)
    BY <1>2, <1>3 DEF PiecesFit
  <2>4. Early(refs) = {} => ord.refunded = 0
    <3>1. DOMAIN refs = {} => refs = << >>
      OBVIOUS
    <3> QED  BY <2>1, <2>2, <3>1
  <2>5. \A i \in DOMAIN refs : refs[i].payment # 0
    BY DEF NamesFit
  <2>6. ~new.estorno
    BY <1>1 DEF SaleFits, Priced
  <2> QED  BY <1>1, <1>2, <2>2, <2>3, <2>4, <2>5, <2>6 DEF ClosedSale
<1>6. Apart => OpenSale(new, pays, refs) /\ UndoneSale(new, pays, refs)
  BY <1>1 DEF OpenSale, UndoneSale, SaleFits, Priced
<1> QED  BY <1>1, <1>4, <1>5, <1>6 DEF SaleFits, new

LEMMA CloseSells ==
  ASSUME LedgerInv, SalesInv, NEW o \in Orders, NEW charge \in Charges, NEW m \in Methods,
         Close(o, charge, m)
  PROVE  SalesInv'
<1> DEFINE old == order[o]
           pays == payments[o]
           refs == refunds[o]
           rest == Remaining(o)
           tip == Charge(rest, charge)
           row == Paid("final", rest, tip, m, 0)
           q == IF rest + tip > 0 THEN Append(pays, row) ELSE pays
           ord == [old EXCEPT !.status = "finalizada", !.closedIn = session]
<1>1. /\ sessionOpen /\ old.status = "aberta" /\ order' = [order EXCEPT ![o] = ord]
      /\ UNCHANGED <<account, installments, refunds>>
  BY DEF Close
<1>2. payments' = [payments EXCEPT ![o] = q]
  <2>1. CASE rest + tip > 0
    BY <2>1 DEF Close, Record
  <2>2. CASE ~(rest + tip > 0)
    BY <2>2, Unchanged DEF Close
  <2> QED  BY <2>1, <2>2
<1>3. /\ o \in Accounts /\ old \in OrderRecord /\ pays \in Seq(PaymentRow)
      /\ refs \in Seq(RefundRow)
      /\ StatusFits(old, pays, account[o], installments[o], refs) /\ NamesFit(old, pays, refs)
      /\ PiecesFit(old, pays, refs) /\ PaymentsCover(pays, refs)
  BY SaleFacts DEF OrderFits
<1>4. ~old.fiado /\ ~old.estorno
  BY <1>1, <1>3 DEF StatusFits, SalesInv, SaleFits, Priced
<1>5. /\ SaleFits(o, old, pays, account[o], installments[o], refs)
      /\ FiadoFits(account[o], installments[o], refs)
  BY <1>3 DEF SalesInv
<1>6. session \in 1..session /\ 0 \in 0..MaxPieces
  BY <1>1, DayFacts, Livro_Bounds
<1>7. rest = NonNegative(old.total - (SumRows(pays, Product) - SumRows(refs, Product)))
  BY DEF Remaining, NetPaid
<1>8. rest \in Nat
  BY NetPaidFacts
<1>9. /\ SumRows(pays, Product) \in Nat /\ SumRows(refs, Product) \in Nat /\ old.total \in Nat
      /\ SumRows(pays, Pieces) \in Nat /\ SumRows(refs, Pieces) \in Nat /\ old.pieces \in Nat
  BY <1>3, PaymentTotals, RefundSums, OrderFields
<1> HIDE DEF rest
<1>10. tip \in Nat
  BY <1>8, ChargeNat
<1> HIDE DEF tip
<1>11. row \in PaymentRow /\ row.product = rest /\ row.service = tip /\ row.pieces = 0
  BY <1>6, <1>8, <1>10, PaidRow
<1> HIDE DEF row, old, pays, refs
<1>12. Apart => SumRows(pays, Product) + rest = old.total + SumRows(refs, Product)
  <2> SUFFICES ASSUME Apart PROVE SumRows(pays, Product) + rest = old.total + SumRows(refs, Product)
    OBVIOUS
  <2>1. SumRows(pays, Product) <= old.total + SumRows(refs, Product)
    BY <1>1, <1>5 DEF SaleFits, OpenSale
  <2> QED  BY <1>7, <1>9, <2>1 DEF NonNegative
<1>13. /\ q \in Seq(PaymentRow) /\ SaleFits(o, old, q, account[o], installments[o], refs)
       /\ NamesFit(old, q, refs) /\ PiecesFit(old, q, refs)
       /\ SumRows(q, Product) = SumRows(pays, Product) + rest
  <2>1. CASE rest + tip > 0
    <3>1. SaleFits(o, old, Append(pays, row), account[o], installments[o], refs)
      <4>1. row.product <= NonNegative(old.total - (SumRows(pays, Product) - SumRows(refs, Product)))
        BY <1>7, <1>8, <1>11
      <4>2. row.product + row.service > 0
        BY <1>11, <2>1
      <4> QED  BY <1>1, <1>3, <1>4, <1>5, <1>11, <4>1, <4>2, PaidMore
    <3>2. SumRows(pays, Pieces) - SumRows(refs, Pieces) + row.pieces <= old.pieces
      BY <1>1, <1>3, <1>9, <1>11 DEF PiecesFit
    <3>3. /\ Append(pays, row) \in Seq(PaymentRow) /\ NamesFit(old, Append(pays, row), refs)
          /\ PiecesFit(old, Append(pays, row), refs)
          /\ SumRows(Append(pays, row), Product) = SumRows(pays, Product) + row.product
      BY <1>1, <1>3, <1>11, <3>2, NewPayment
    <3> QED  BY <1>11, <2>1, <3>1, <3>3
  <2>2. CASE ~(rest + tip > 0)
    <3>1. rest = 0 /\ q = pays
      BY <1>8, <1>10, <2>2
    <3> QED  BY <1>3, <1>5, <1>9, <3>1
  <2> QED  BY <2>1, <2>2
<1> HIDE DEF q
<1>14. SaleFits(o, ord, q, account[o], installments[o], refs)
  BY <1>1, <1>3, <1>4, <1>6, <1>12, <1>13, ClosedNow
<1> HIDE DEF ord
<1>15. Elsewhere(o) /\ payments'[o] = q /\ order'[o] = ord /\ o \notin Direct
  BY <1>1, <1>2, TableTypes, Livro_Rows DEF Elsewhere
<1>16. refunds'[o] = refs /\ account'[o] = account[o] /\ installments'[o] = installments[o]
  BY <1>1 DEF refs
<1> QED  BY <1>5, <1>14, <1>15, <1>16, SalesFrame


(* Refunds of a sale appended to the refunds before it.                    *)
Sold(rows) == \A k \in DOMAIN rows : rows[k].saleRecognized
Unsold(rows) == \A k \in DOMAIN rows : ~rows[k].saleRecognized
RefundsGrow(refs, rows, q) ==
  /\ \A i \in DOMAIN q : (\E k \in DOMAIN refs : q[i] = refs[k]) \/ \E k \in DOMAIN rows : q[i] = rows[k]
  /\ q = << >> => refs = << >> /\ rows = << >>

LEMMA GrownRefunds ==
  ASSUME NEW refs \in Seq(RefundRow), NEW rows \in Seq(RefundRow)
  PROVE  RefundsGrow(refs, rows, refs \o rows)
<1>1. Joined(refs, Len(refs), rows, Len(rows), refs \o rows)
  BY JoinedSeqs
<1>2. /\ Len(refs) \in Nat /\ MoneyRows(refs, Len(refs)) /\ Len(rows) \in Nat
      /\ MoneyRows(rows, Len(rows))
  BY RefundTable
<1>3. \A k \in DOMAIN (refs \o rows) : (k \in DOMAIN refs /\ (refs \o rows)[k] = refs[k])
              \/ \E j \in DOMAIN rows : k = Len(refs) + j /\ (refs \o rows)[k] = rows[j]
  BY <1>1, <1>2, JoinedRows
<1>4. refs \o rows = << >> => refs = << >> /\ rows = << >>
  OBVIOUS
<1> QED  BY <1>3, <1>4 DEF RefundsGrow

LEMMA SoldRefunds ==
  ASSUME NEW refs \in Seq(RefundRow), NEW rows \in Seq(RefundRow), Sold(rows)
  PROVE  LET q == refs \o rows
         IN /\ Early(q) = {} <=> Early(refs) = {}
            /\ SumOf(q, Early(q), Product) = SumOf(refs, Early(refs), Product)
            /\ SumOf(q, Early(q), Pieces) = SumOf(refs, Early(refs), Pieces)
            /\ SumOf(q, Late(q), Pieces) = SumOf(refs, Late(refs), Pieces) + SumRows(rows, Pieces)
            /\ SumOf(q, Late(q), Product) = SumOf(refs, Late(refs), Product) + SumRows(rows, Product)
<1> DEFINE q == refs \o rows
           n == Len(refs)
           m == Len(rows)
<1>1. Joined(refs, n, rows, m, q)
  BY JoinedSeqs
<1>2. /\ n \in Nat /\ MoneyRows(refs, n) /\ PieceRows(refs) /\ DOMAIN refs = 1..n
      /\ m \in Nat /\ MoneyRows(rows, m) /\ PieceRows(rows) /\ DOMAIN rows = 1..m
  BY RefundTable
<1> HIDE DEF q, n, m
<1>3. /\ DOMAIN q = 1..(n + m) /\ \A i \in 1..n : q[i] = refs[i]
      /\ \A j \in 1..m : q[n + j].saleRecognized
  BY <1>1, <1>2 DEF Joined, Sold
<1>4. \A i \in 1..(n + m) : i \in 1..n \/ \E j \in 1..m : i = n + j
  <2> SUFFICES ASSUME NEW i \in 1..(n + m), i \notin 1..n PROVE \E j \in 1..m : i = n + j
    OBVIOUS
  <2>1. i - n \in 1..m /\ i = n + (i - n)
    BY <1>2
  <2> QED  BY <2>1
<1>5. Early(q) = Early(refs)
  <2>1. \A i \in 1..n : i \in 1..(n + m)
    BY <1>2
  <2> QED  BY <1>2, <1>3, <1>4, <2>1 DEF Early
<1>6. JoinedPlaces(Early(refs), n, {}, m, Early(q))
  <2>1. \A j \in 1..m : n + j \notin Early(q)
    BY <1>3 DEF Early
  <2>2. \A i \in 1..n : i \in 1..(n + m)
    BY <1>2
  <2> QED  BY <1>2, <1>3, <1>5, <2>1, <2>2 DEF JoinedPlaces, Places, Early
<1>7. JoinedPlaces(Late(refs), n, DOMAIN rows, m, Late(q))
  <2>1. \A j \in 1..m : n + j \in 1..(n + m)
    BY <1>2
  <2>2. \A i \in 1..n : i \in 1..(n + m)
    BY <1>2
  <2>3. \A i \in 1..n : i \in Late(q) <=> i \in Late(refs)
    BY <1>2, <1>3, <2>2 DEF Late
  <2>4. \A j \in 1..m : n + j \in Late(q)
    BY <1>3, <2>1 DEF Late
  <2> QED  BY <1>2, <1>3, <2>3, <2>4 DEF JoinedPlaces, Places, Late
<1>8. /\ SumOf(q, Early(q), Product) = SumOf(refs, Early(refs), Product)
      /\ SumOf(q, Early(q), Pieces) = SumOf(refs, Early(refs), Pieces)
  <2>1. /\ SumOf(q, Early(q), Product) = SumOf(refs, Early(refs), Product) + SumOf(rows, {}, Product)
        /\ SumOf(q, Early(q), Pieces) = SumOf(refs, Early(refs), Pieces) + SumOf(rows, {}, Pieces)
    BY <1>6, <1>1, <1>2, JoinedSums
  <2>2. SumOf(refs, Early(refs), Product) \in Nat /\ SumOf(refs, Early(refs), Pieces) \in Nat
    BY <1>2, <1>6, RowSums DEF JoinedPlaces
  <2> QED  BY <2>1, <2>2, NoRows
<1>9. /\ SumOf(q, Late(q), Pieces) = SumOf(refs, Late(refs), Pieces) + SumRows(rows, Pieces)
      /\ SumOf(q, Late(q), Product) = SumOf(refs, Late(refs), Product) + SumRows(rows, Product)
  BY <1>7, <1>1, <1>2, JoinedSums DEF SumRows
<1> QED  BY <1>5, <1>8, <1>9 DEF q


(* The columns a refund row keeps when it receives the pieces.             *)
LEMMA PiecesOnFirst ==
  ASSUME NEW rows \in Seq(RefundRow), NEW n \in Int, NonNegative(n) \in 0..MaxPieces,
         \A k \in DOMAIN rows : rows[k].pieces = 0
  PROVE  LET w == WithPieces(rows, n) IN
         /\ \A k \in DOMAIN rows :
              /\ w[k].method = rows[k].method /\ w[k].saleRecognized = rows[k].saleRecognized
              /\ w[k].serviceRecognized = rows[k].serviceRecognized
              /\ w[k].repassed = rows[k].repassed
         /\ rows # << >> => SumRows(w, Pieces) = NonNegative(n)
<1> DEFINE b == NonNegative(n)
           r == [rows[1] EXCEPT !.pieces = b]
           w == WithPieces(rows, n)
<1>1. CASE rows = << >>
  BY <1>1
<1>2. CASE rows # << >>
  <2>1. 1 \in DOMAIN rows /\ rows[1] \in RefundRow /\ b \in Nat
    BY <1>2, Livro_Bounds
  <2>2. /\ r.method = rows[1].method /\ r.saleRecognized = rows[1].saleRecognized
        /\ r.serviceRecognized = rows[1].serviceRecognized /\ r.repassed = rows[1].repassed
        /\ r.pieces = b
    BY <2>1 DEF RefundRow
  <2>3. w = [rows EXCEPT ![1] = r]
    BY <1>2 DEF WithPieces
  <2> HIDE DEF r, w, b
  <2>4. DOMAIN w = DOMAIN rows /\ \A k \in DOMAIN rows : w[k] = IF k = 1 THEN r ELSE rows[k]
    BY <2>1, <2>3
  <2>5. PiecesOf(w) = Only(DOMAIN rows, 1, b)
    <3>1. PiecesOf(w) = [k \in DOMAIN rows |-> w[k].pieces]
      BY <2>4 DEF PiecesOf
    <3>2. \A k \in DOMAIN rows : w[k].pieces = IF k = 1 THEN b ELSE 0
      BY <2>2, <2>4
    <3> QED  BY <3>1, <3>2 DEF Only
  <2>6. SumF(Only(DOMAIN rows, 1, b)) = b
    BY <2>1, SumOnly
  <2>7. SumRows(w, Pieces) = SumF(PiecesOf(w))
    BY DEF SumRows, SumOf, PiecesOf, Pieces
  <2> QED  BY <2>2, <2>4, <2>5, <2>6, <2>7 DEF w, b
<1> QED  BY <1>1, <1>2

LEMMA WholePaymentFields ==
  ASSUME NEW o \in Orders, NEW p \in DOMAIN payments[o], NEW sale \in BOOLEAN
  PROVE  LET r == RefundOfPayment(o, p, sale)
         IN /\ r.payment = p /\ r.installment = 0 /\ r.method = payments[o][p].method
            /\ r.saleRecognized = sale /\ r.serviceRecognized /\ r.pieces = 0
BY DEF RefundOfPayment, Refund

WholeRows(rows, pays, sale, n) ==
  /\ rows \in Seq(RefundRow)
  /\ \A k \in DOMAIN rows : OfSomePayment(rows[k], pays) /\ rows[k].payment # 0
  /\ \A k \in DOMAIN rows : rows[k].saleRecognized = sale
  /\ rows # << >> => SumRows(rows, Pieces) = n

LEMMA WholeRefundSale ==
  ASSUME LedgerInv, sessionOpen, NEW o \in Orders, NEW sale \in BOOLEAN
  PROVE  WholeRows(WholeRefund(o, sale), payments[o], sale,
                   NonNegative(order[o].pieces - order[o].refunded))
<1> DEFINE n == Len(payments[o])
           raw == [p \in DOMAIN payments[o] |-> RefundOfPayment(o, p, sale)]
           some == SomeMoney(raw)
           left == order[o].pieces - order[o].refunded
           rows == WholeRefund(o, sale)
<1>1. n \in Nat /\ DOMAIN payments[o] = 1..n
  BY SaleFacts, SeqFacts
<1>2. ASSUME NEW p \in 1..n
      PROVE  /\ raw[p] \in RefundRow /\ raw[p].payment = p /\ raw[p].installment = 0
             /\ raw[p].method = payments[o][p].method
             /\ raw[p].saleRecognized = sale /\ raw[p].serviceRecognized /\ raw[p].pieces = 0
  <2>1. p \in DOMAIN payments[o]
    BY <1>1
  <2>2. raw[p] = RefundOfPayment(o, p, sale)
    BY <2>1
  <2> HIDE DEF raw
  <2> QED  BY <2>1, <2>2, LeftOfPayment, WholePaymentFields
<1>3. raw \in [1..n -> RefundRow]
  <2>1. raw = [p \in 1..n |-> raw[p]]
    BY <1>1
  <2> HIDE DEF raw
  <2> QED  BY <1>2, <2>1
<1>4. rows = WithPieces(some, left)
  BY DEF WholeRefund
<1>5. left \in Int /\ NonNegative(left) \in 0..MaxPieces
  <2>1. order[o].pieces \in 0..MaxPieces /\ order[o].refunded \in Nat
    BY SaleFacts, OrderFields
  <2> QED  BY <2>1, Livro_Bounds DEF NonNegative
<1> HIDE DEF n, raw, left, rows
<1>6. some \in Seq(RefundRow) /\ \A k \in DOMAIN some : \E i \in 1..n : some[k] = raw[i]
  BY <1>1, <1>3, SomeMoneyRows
<1> HIDE DEF some
<1>7. \A k \in DOMAIN some :
        /\ some[k].payment \in 1..n /\ some[k].installment = 0
        /\ some[k].method = payments[o][some[k].payment].method
        /\ some[k].saleRecognized = sale /\ some[k].serviceRecognized /\ some[k].pieces = 0
  BY <1>2, <1>6
<1>8. /\ rows \in Seq(RefundRow) /\ DOMAIN rows = DOMAIN some
      /\ \A k \in DOMAIN some :
           rows[k].payment = some[k].payment /\ rows[k].installment = some[k].installment
  BY <1>4, <1>5, <1>6, WithPiecesRows
<1>9. /\ \A k \in DOMAIN some :
           /\ rows[k].method = some[k].method /\ rows[k].saleRecognized = some[k].saleRecognized
           /\ rows[k].serviceRecognized = some[k].serviceRecognized
      /\ some # << >> => SumRows(rows, Pieces) = NonNegative(left)
  BY <1>4, <1>5, <1>6, <1>7, PiecesOnFirst
<1>10. rows # << >> => some # << >>
  BY <1>6, <1>8
<1>11. 0 \notin 1..n
  BY <1>1
<1> QED  BY <1>1, <1>7, <1>8, <1>9, <1>10, <1>11 DEF WholeRows, OfSomePayment, rows, left


(* A sum of multiples.                                                     *)
Scaled(c, S, f) == [x \in S |-> c * f[x]]
LEMMA SumScaled ==
  ASSUME NEW S, IsFiniteSet(S), NEW f, f \in [S -> Nat], NEW c \in Nat
  PROVE  Scaled(c, S, f) \in [S -> Nat] /\ SumF(Scaled(c, S, f)) = c * SumF(f)
<1> DEFINE T == {d \in Nat : Scaled(d, S, f) \in [S -> Nat] /\ SumF(Scaled(d, S, f)) = d * SumF(f)}
<1>1. SumF(f) \in Nat /\ \A x \in S : f[x] \in Nat
  BY SumType
<1>2. 0 \in T
  <2>1. Scaled(0, S, f) \in [S -> Nat] /\ \A x \in S : Scaled(0, S, f)[x] = 0
    BY <1>1 DEF Scaled
  <2>2. SumF(Scaled(0, S, f)) = 0
    BY <2>1, SumZero
  <2>3. 0 * SumF(f) = 0
    BY <1>1
  <2> QED  BY <2>1, <2>2, <2>3
<1>3. ASSUME NEW d \in T PROVE d + 1 \in T
  <2>1. /\ d \in Nat /\ Scaled(d, S, f) \in [S -> Nat] /\ SumF(Scaled(d, S, f)) = d * SumF(f)
    OBVIOUS
  <2>2. SumF([x \in S |-> Scaled(d, S, f)[x] + f[x]]) = SumF(Scaled(d, S, f)) + SumF(f)
    BY <2>1, SumAdditive
  <2>3. \A x \in S : (d + 1) * f[x] = d * f[x] + f[x] /\ d * f[x] + f[x] \in Nat
    BY <1>1, <2>1, NatProduct
  <2>4. Scaled(d + 1, S, f) = [x \in S |-> Scaled(d, S, f)[x] + f[x]]
    BY <2>3 DEF Scaled
  <2>5. Scaled(d + 1, S, f) \in [S -> Nat]
    BY <2>3 DEF Scaled
  <2>6. (d + 1) * SumF(f) = d * SumF(f) + SumF(f)
    BY <1>1, <2>1
  <2> HIDE DEF T
  <2>7. d + 1 \in Nat /\ SumF(Scaled(d + 1, S, f)) = (d + 1) * SumF(f)
    BY <2>1, <2>2, <2>4, <2>6
  <2> QED  BY <2>5, <2>7 DEF T
<1>4. T \in SUBSET Nat
  OBVIOUS
<1> HIDE DEF T
<1>5. c \in T
  BY <1>2, <1>3, <1>4, AllNumbers
<1> QED  BY <1>5 DEF T

(* Refunds that return a price for each piece.                             *)
LEMMA PricedRows ==
  ASSUME NEW refs \in Seq(RefundRow), NEW I, I \subseteq DOMAIN refs,
         \A i \in I : refs[i].product = Price * refs[i].pieces
  PROVE  SumOf(refs, I, Product) = Price * SumOf(refs, I, Pieces)
<1> DEFINE f == [i \in I |-> refs[i].pieces]
           g == [i \in I |-> refs[i].product]
<1>1. Len(refs) \in Nat /\ DOMAIN refs = 1..Len(refs) /\ \A i \in DOMAIN refs : refs[i].pieces \in Nat
  BY RefundTable DEF PieceRows
<1>2. IsFiniteSet(I)
  BY <1>1, FiniteNumbers
<1>3. f \in [I -> Nat] /\ g = Scaled(Price, I, f)
  BY <1>1 DEF Scaled
<1>4. SumOf(refs, I, Product) = SumF(g) /\ SumOf(refs, I, Pieces) = SumF(f)
  BY DEF SumOf, Product, Pieces
<1> HIDE DEF f, g
<1>5. Price \in Nat
  BY Livro_Amounts
<1> QED  BY <1>2, <1>3, <1>4, <1>5, SumScaled

LEMMA SplitRefunds ==
  ASSUME NEW refs \in Seq(RefundRow)
  PROVE  /\ SumRows(refs, Product) = SumOf(refs, Early(refs), Product) + SumOf(refs, Late(refs), Product)
         /\ SumRows(refs, Pieces) = SumOf(refs, Early(refs), Pieces) + SumOf(refs, Late(refs), Pieces)
         /\ SumOf(refs, Early(refs), Product) \in Nat /\ SumOf(refs, Late(refs), Product) \in Nat
         /\ SumOf(refs, Early(refs), Pieces) \in Nat /\ SumOf(refs, Late(refs), Pieces) \in Nat
<1> DEFINE n == Len(refs)
           E == Early(refs)
           L == Late(refs)
<1>1. n \in Nat /\ MoneyRows(refs, n) /\ PieceRows(refs) /\ DOMAIN refs = 1..n
  BY RefundTable
<1>2. /\ Places(E, n) /\ Places(L, n) /\ E \subseteq 1..n /\ L \subseteq 1..n /\ E \cap L = {}
      /\ E \cup L = DOMAIN refs
  BY <1>1 DEF Early, Late, Places
<1>3. IsFiniteSet(E) /\ IsFiniteSet(L)
  BY <1>1, <1>2, FiniteNumbers
<1> HIDE DEF E, L, n
<1>4. /\ SumOf(refs, E, Product) = SumOn(ProductOf(refs), E)
      /\ SumOf(refs, E, Pieces) = SumOn(PiecesOf(refs), E)
      /\ SumOf(refs, L, Product) = SumOn(ProductOf(refs), L)
      /\ SumOf(refs, L, Pieces) = SumOn(PiecesOf(refs), L)
  BY <1>1, <1>2, ColumnSums
<1>5. /\ SumRows(refs, Product) = SumOn(ProductOf(refs), E \cup L)
      /\ SumRows(refs, Pieces) = SumOn(PiecesOf(refs), E \cup L)
  BY <1>2, ColumnTotals
<1>6. ProductOf(refs) \in [1..n -> Nat] /\ PiecesOf(refs) \in [1..n -> Nat]
  BY <1>1, ColumnTypes
<1>7. /\ SumOn(ProductOf(refs), E \cup L) = SumOn(ProductOf(refs), E) + SumOn(ProductOf(refs), L)
      /\ SumOn(PiecesOf(refs), E \cup L) = SumOn(PiecesOf(refs), E) + SumOn(PiecesOf(refs), L)
  <2> DEFINE D == 1..n
             a == ProductOf(refs)
             b == PiecesOf(refs)
  <2>1. E \in SUBSET D /\ L \in SUBSET D /\ a \in [D -> Nat] /\ b \in [D -> Nat]
    BY <1>2, <1>6
  <2>2. E \cap L = {}
    BY <1>2
  <2> HIDE DEF D, a, b
  <2>3. SumOn(a, E \cup L) = SumOn(a, E) + SumOn(a, L)
    BY ONLY <1>3, <2>1, <2>2, SumUnion
  <2>4. SumOn(b, E \cup L) = SumOn(b, E) + SumOn(b, L)
    BY ONLY <1>3, <2>1, <2>2, SumUnion
  <2> QED  BY <2>3, <2>4 DEF a, b
<1>8. /\ SumOf(refs, E, Product) \in Nat /\ SumOf(refs, L, Product) \in Nat
      /\ SumOf(refs, E, Pieces) \in Nat /\ SumOf(refs, L, Pieces) \in Nat
  BY <1>1, <1>2, RowSums
<1> QED  BY <1>4, <1>5, <1>7, <1>8 DEF E, L

(* What the payments of a sale give back together, when each is covered.   *)
LEMMA CoveredTotals ==
  ASSUME NEW pays \in Seq(PaymentRow), NEW refs \in Seq(RefundRow), NEW ord, Partly(ord),
         PiecesFit(ord, pays, refs), NamesFit(ord, pays, refs), \A i \in DOMAIN refs : refs[i].payment # 0
  PROVE  SumRows(refs, Pieces) <= SumRows(pays, Pieces)
<1> DEFINE n == Len(pays)
           g == Groups(refs, n, PiecesOf(refs))
           f == PiecesOf(pays)
<1>1. n \in Nat /\ MoneyRows(pays, n) /\ PieceRows(pays) /\ DOMAIN pays = 1..n
  BY PaymentTable
<1>2. \A i \in DOMAIN refs : refs[i].payment \in 1..n
  BY <1>1 DEF NamesFit
<1> HIDE DEF n
<1>3. /\ g \in [1..n -> Nat] /\ SumF(g) = SumRows(refs, Pieces)
      /\ \A p \in 1..n : g[p] = SumOf(refs, Marked(refs, p), Pieces)
  BY <1>1, <1>2, RefundGroups
<1>4. f \in [1..n -> Nat] /\ \A p \in 1..n : f[p] = pays[p].pieces
  BY <1>1, ColumnTypes
<1>5. \A p \in 1..n : g[p] <= f[p]
  BY <1>1, <1>3, <1>4 DEF PiecesFit
<1>6. SumRows(pays, Pieces) = SumF(f)
  BY DEF SumRows, SumOf, PiecesOf, Pieces
<1> HIDE DEF f, g
<1>7. IsFiniteSet(1..n)
  BY <1>1, FiniteNumbers
<1> QED  BY <1>3, <1>4, <1>5, <1>6, <1>7, SumMono

(* Payments that have all been given back add up to their refunds.         *)
AllGivenBack(pays, refs) ==
  \A p \in DOMAIN pays : /\ SumOf(refs, Marked(refs, p), Product) = pays[p].product
                         /\ SumOf(refs, Marked(refs, p), Service) = pays[p].service
LEMMA AllGivenTotals ==
  ASSUME NEW pays \in Seq(PaymentRow), NEW refs \in Seq(RefundRow),
         \A i \in DOMAIN refs : refs[i].payment \in 1..Len(pays), AllGivenBack(pays, refs)
  PROVE  /\ SumRows(refs, Product) = SumRows(pays, Product)
         /\ SumRows(refs, Service) = SumRows(pays, Service)
<1> DEFINE n == Len(pays)
           g == Groups(refs, n, ProductOf(refs))
           h == Groups(refs, n, ServiceOf(refs))
<1>1. n \in Nat /\ MoneyRows(pays, n) /\ DOMAIN pays = 1..n
  BY PaymentTable
<1> HIDE DEF n
<1>2. /\ g \in [1..n -> Nat] /\ SumF(g) = SumRows(refs, Product)
      /\ h \in [1..n -> Nat] /\ SumF(h) = SumRows(refs, Service)
      /\ \A p \in 1..n : /\ g[p] = SumOf(refs, Marked(refs, p), Product)
                         /\ h[p] = SumOf(refs, Marked(refs, p), Service)
  BY <1>1, RefundGroups DEF n
<1>3. /\ ProductOf(pays) \in [1..n -> Nat] /\ ServiceOf(pays) \in [1..n -> Nat]
      /\ \A p \in 1..n : ProductOf(pays)[p] = pays[p].product /\ ServiceOf(pays)[p] = pays[p].service
  BY <1>1, ColumnTypes
<1> HIDE DEF g, h
<1>4. g = ProductOf(pays) /\ h = ServiceOf(pays)
  <2>1. \A p \in 1..n : g[p] = ProductOf(pays)[p] /\ h[p] = ServiceOf(pays)[p]
    BY <1>1, <1>2, <1>3 DEF AllGivenBack
  <2> DEFINE D == 1..n
             a == ProductOf(pays)
             b == ServiceOf(pays)
  <2>2. /\ g \in [D -> Nat] /\ h \in [D -> Nat] /\ a \in [D -> Nat] /\ b \in [D -> Nat]
        /\ \A p \in D : g[p] = a[p] /\ h[p] = b[p]
    BY <1>2, <1>3, <2>1
  <2> HIDE DEF D, a, b
  <2>3. g = a /\ h = b
    BY ONLY <2>2
  <2> QED  BY <2>3 DEF a, b
<1>5. SumRows(pays, Product) = SumF(ProductOf(pays)) /\ SumRows(pays, Service) = SumF(ServiceOf(pays))
  BY DEF SumRows, SumOf, ProductOf, ServiceOf, Product, Service
<1> QED  BY <1>2, <1>4, <1>5


(* A comanda and the refund rows appended to it.                           *)
GivesTheRest(rows, pays, refs) ==
  \A p \in DOMAIN pays :
    /\ SumOf(rows, Marked(rows, p), Product) = pays[p].product - SumOf(refs, Marked(refs, p), Product)
    /\ SumOf(rows, Marked(rows, p), Service) = pays[p].service - SumOf(refs, Marked(refs, p), Service)

LEMMA RestGiven ==
  ASSUME NEW pays \in Seq(PaymentRow), NEW refs \in Seq(RefundRow), NEW rows \in Seq(RefundRow),
         GivesTheRest(rows, pays, refs)
  PROVE  AllGivenBack(pays, refs \o rows)
<1> DEFINE q == refs \o rows
<1> SUFFICES ASSUME NEW p \in DOMAIN pays
             PROVE  /\ SumOf(q, Marked(q, p), Product) = pays[p].product
                    /\ SumOf(q, Marked(q, p), Service) = pays[p].service
  BY DEF AllGivenBack
<1>1. AddedRefunds(refs, rows, q)
  BY JoinedRefunds
<1>2. /\ SumOf(refs, Marked(refs, p), Product) \in Nat /\ SumOf(refs, Marked(refs, p), Service) \in Nat
      /\ pays[p].product \in Nat /\ pays[p].service \in Nat
  BY RefundSums, PaymentTable DEF MoneyRows
<1> HIDE DEF q
<1>3. /\ SumOf(q, Marked(q, p), Product) =
           SumOf(refs, Marked(refs, p), Product) + SumOf(rows, Marked(rows, p), Product)
      /\ SumOf(q, Marked(q, p), Service) =
           SumOf(refs, Marked(refs, p), Service) + SumOf(rows, Marked(rows, p), Service)
  BY <1>1 DEF AddedRefunds
<1> QED  BY <1>2, <1>3 DEF GivesTheRest

LEMMA NamedGrows ==
  ASSUME NEW pays, NEW insts, NEW refs, NEW rows, NEW q, RefundsGrow(refs, rows, q),
         Named(pays, insts, refs), \A k \in DOMAIN rows : OfSomePayment(rows[k], pays)
  PROVE  Named(pays, insts, q)
BY DEF Named, RefundsGrow

(* The last refund of a direct sale takes the pieces that are left of it.  *)
LEMMA WholeSaleReturned ==
  ASSUME NEW ord \in OrderRecord, NEW pays \in Seq(PaymentRow), NEW refs \in Seq(RefundRow),
         NEW rows, NEW acc, NEW insts, NEW o, SaleFits(o, ord, pays, acc, insts, refs), Apart,
         NamesFit(ord, pays, refs), PiecesFit(ord, pays, refs),
         ord.status = "finalizada", ~ord.fiado, ~ord.estorno,
         WholeRows(rows, pays, TRUE, NonNegative(ord.pieces - ord.refunded)),
         GivesTheRest(rows, pays, refs), Early(refs) = {} \/ ord.refunded = 0
  PROVE  ord.total = Price * SumOf(refs \o rows, Late(refs \o rows), Pieces)
<1> DEFINE q == refs \o rows
           lp == SumOf(refs, Late(refs), Pieces)
<1>1. rows \in Seq(RefundRow) /\ Sold(rows)
  BY DEF WholeRows, Sold
<1>2. SumOf(q, Late(q), Pieces) = lp + SumRows(rows, Pieces)
  BY <1>1, SoldRefunds
<1>3. /\ ord.total = Price * ord.pieces
      /\ \A i \in DOMAIN refs : refs[i].payment # 0 /\ refs[i].product = Price * refs[i].pieces
  BY DEF SaleFits, Priced, Partly, ClosedSale
<1>4. /\ SumRows(pays, Product) = ord.total + SumOf(refs, Early(refs), Product)
      /\ SumRows(pays, Pieces) <= ord.pieces + SumOf(refs, Early(refs), Pieces)
      /\ lp <= ord.refunded
      /\ Early(refs) = {} => ord.refunded = lp
  BY DEF SaleFits, ClosedSale
<1>5. /\ ord.pieces \in Nat /\ ord.refunded \in Nat /\ ord.total \in Nat
      /\ SumRows(pays, Pieces) \in Nat /\ SumRows(refs, Pieces) \in Nat
  BY OrderFields, PaymentTotals, RefundSums
<1>6. /\ SumRows(refs, Product) = SumOf(refs, Early(refs), Product) + SumOf(refs, Late(refs), Product)
      /\ SumRows(refs, Pieces) = SumOf(refs, Early(refs), Pieces) + lp
      /\ SumOf(refs, Early(refs), Product) \in Nat /\ SumOf(refs, Late(refs), Product) \in Nat
      /\ SumOf(refs, Early(refs), Pieces) \in Nat /\ lp \in Nat
  BY SplitRefunds
<1> HIDE DEF lp
<1>7. CASE rows # << >>
  <2>1. lp = ord.refunded
    BY <1>4, <1>5, <1>6
  <2>2. ord.refunded <= ord.pieces
    <3>1. CASE Early(refs) = {}
      <4>1. SumOf(refs, Early(refs), Pieces) = 0
        BY <3>1, NoRows
      <4>2. SumRows(refs, Pieces) <= SumRows(pays, Pieces)
        <5>1. Partly(ord)
          BY DEF Partly
        <5> QED  BY <1>3, <5>1, CoveredTotals
      <4> QED  BY <1>4, <1>5, <1>6, <2>1, <4>1, <4>2
    <3>2. CASE ord.refunded = 0
      BY <1>5, <3>2
    <3> QED  BY <3>1, <3>2
  <2>3. SumRows(rows, Pieces) = ord.pieces - ord.refunded
    BY <1>5, <1>7, <2>2 DEF WholeRows, NonNegative
  <2>4. SumOf(q, Late(q), Pieces) = ord.pieces
    BY <1>2, <1>5, <2>1, <2>3
  <2> HIDE DEF q
  <2> QED  BY <1>3, <2>4 DEF q
<1>8. CASE rows = << >>
  <2>1. q = refs
    BY <1>8
  <2>2. AllGivenBack(pays, refs)
    BY <1>1, <2>1, RestGiven
  <2>3. \A i \in DOMAIN refs : refs[i].payment \in 1..Len(pays)
    <3>1. Len(pays) \in Nat
      BY PaymentTable
    <3> QED  BY <1>3, <3>1 DEF NamesFit
  <2>4. SumRows(refs, Product) = SumRows(pays, Product)
    BY <2>2, <2>3, AllGivenTotals
  <2>5. SumOf(refs, Late(refs), Product) = Price * SumOf(refs, Late(refs), Pieces)
    <3>1. Late(refs) \subseteq DOMAIN refs
      BY DEF Late
    <3> QED  BY <1>3, <3>1, PricedRows
  <2>6. ord.total = SumOf(refs, Late(refs), Product)
    BY <1>4, <1>5, <1>6, <2>4
  <2> QED  BY <2>1, <2>5, <2>6
<1> QED  BY <1>7, <1>8

LEMMA EstornoFits ==
  ASSUME NEW ord \in OrderRecord, NEW pays \in Seq(PaymentRow), NEW refs \in Seq(RefundRow),
         NEW rows, NEW acc, NEW insts, NEW o, SaleFits(o, ord, pays, acc, insts, refs),
         NamesFit(ord, pays, refs), PiecesFit(ord, pays, refs),
         ord.status = "finalizada", ~ord.fiado, ~ord.estorno,
         WholeRows(rows, pays, TRUE, NonNegative(ord.pieces - ord.refunded)),
         GivesTheRest(rows, pays, refs)
  PROVE  SaleFits(o, [ord EXCEPT !.estorno = TRUE], pays, acc, insts, refs \o rows)
<1> DEFINE q == refs \o rows
           new == [ord EXCEPT !.estorno = TRUE]
<1>1. rows \in Seq(RefundRow) /\ Sold(rows) /\ RefundsGrow(refs, rows, q)
  BY GrownRefunds DEF WholeRows, Sold
<1>2. /\ new.status = "finalizada" /\ ~new.fiado /\ new.estorno /\ new.total = ord.total
      /\ new.pieces = ord.pieces /\ new.refunded = ord.refunded /\ new.closedIn = ord.closedIn
  BY DEF OrderRecord
<1>3. AllGivenBack(pays, q)
  BY <1>1, RestGiven
<1>4. /\ Early(q) = {} <=> Early(refs) = {}
      /\ SumOf(q, Early(q), Product) = SumOf(refs, Early(refs), Product)
      /\ SumOf(q, Early(q), Pieces) = SumOf(refs, Early(refs), Pieces)
  BY <1>1, SoldRefunds
<1>5. Apart /\ (Early(refs) = {} \/ ord.refunded = 0) => ord.total = Price * SumOf(q, Late(q), Pieces)
  BY WholeSaleReturned
<1> HIDE DEF q, new
<1>6. Named(pays, insts, q)
  BY <1>1, NamedGrows DEF SaleFits, WholeRows
<1>7. Priced(new, q)
  BY <1>2 DEF SaleFits, Priced, Partly
<1>8. Apart => OpenSale(new, pays, q) /\ UndoneSale(new, pays, q)
  BY <1>2, <1>3 DEF OpenSale, UndoneSale, AllGivenBack
<1>9. Apart => ClosedSale(new, pays, q)
  <2> SUFFICES ASSUME Apart PROVE ClosedSale(new, pays, q)
    OBVIOUS
  <2>1. /\ \A i \in DOMAIN refs : refs[i].payment # 0
        /\ SumRows(pays, Product) = ord.total + SumOf(refs, Early(refs), Product)
        /\ SumRows(pays, Pieces) <= ord.pieces + SumOf(refs, Early(refs), Pieces)
    BY DEF SaleFits, ClosedSale
  <2>2. \A i \in DOMAIN q : q[i].payment # 0
    BY <1>1, <2>1 DEF RefundsGrow, WholeRows
  <2> QED  BY <1>2, <1>4, <1>5, <2>1, <2>2 DEF ClosedSale
<1> QED  BY <1>2, <1>6, <1>7, <1>8, <1>9 DEF SaleFits, q, new

LEMMA WholeGivesTheRest ==
  ASSUME LedgerInv, sessionOpen, NEW o \in Orders, NEW sale \in BOOLEAN
  PROVE  GivesTheRest(WholeRefund(o, sale), payments[o], refunds[o])
BY WholeRefundRows DEF GivesTheRest

(* A fiado account that is not there stays as it was.                      *)
LEMMA OtherFiado ==
  ASSUME LedgerInv, SalesInv, NEW o \in Orders, ~order[o].fiado, NEW refs
  PROVE  FiadoFits(account[o], installments[o], refs)
<1>1. o \in Accounts /\ account[o].status = "nenhum"
  BY SaleFacts DEF OrderFits, StatusFits
<1>2. FiadoFits(account[o], installments[o], refunds[o])
  BY <1>1 DEF SalesInv
<1> QED  BY <1>1, <1>2 DEF FiadoFits, UndoneFiado, TipGivenBack

LEMMA RefundedSale ==
  ASSUME LedgerInv, SalesInv, NEW o \in Orders, ~order[o].fiado, NEW ord, NEW rows,
         order' = [order EXCEPT ![o] = ord], GiveBack(o, rows),
         UNCHANGED <<payments, account, installments>>,
         SaleFits(o, ord, payments[o], account[o], installments[o], refunds[o] \o rows)
  PROVE  SalesInv'
<1> DEFINE q == refunds[o] \o rows
<1>1. refunds' = [refunds EXCEPT ![o] = q] /\ o \in Accounts /\ o \notin Direct
  BY SaleFacts, Livro_Rows DEF GiveBack
<1>2. FiadoFits(account[o], installments[o], q)
  BY OtherFiado
<1>3. SaleFits(o, ord, payments[o], account[o], installments[o], q)
  OBVIOUS
<1> HIDE DEF q
<1>4. Elsewhere(o) /\ order'[o] = ord /\ refunds'[o] = q
  BY <1>1, TableTypes DEF Elsewhere
<1> QED  BY <1>1, <1>2, <1>3, <1>4, SalesFrame

LEMMA EstornarVendaSells ==
  ASSUME LedgerInv, SalesInv, NEW o \in Orders, EstornarVenda(o)
  PROVE  SalesInv'
<1> DEFINE old == order[o]
           ord == [old EXCEPT !.estorno = TRUE]
           rows == WholeRefund(o, TRUE)
<1>1. /\ sessionOpen /\ old.status = "finalizada" /\ ~old.estorno /\ ~old.fiado
      /\ GiveBack(o, rows) /\ order' = [order EXCEPT ![o] = ord]
      /\ UNCHANGED <<payments, account, installments>>
  BY DEF EstornarVenda
<1>2. /\ old \in OrderRecord /\ payments[o] \in Seq(PaymentRow) /\ refunds[o] \in Seq(RefundRow)
      /\ NamesFit(old, payments[o], refunds[o]) /\ PiecesFit(old, payments[o], refunds[o])
  BY SaleFacts DEF OrderFits
<1>3. SaleFits(o, old, payments[o], account[o], installments[o], refunds[o])
  BY DEF SalesInv
<1>4. /\ WholeRows(rows, payments[o], TRUE, NonNegative(old.pieces - old.refunded))
      /\ GivesTheRest(rows, payments[o], refunds[o])
  BY <1>1, WholeRefundSale, WholeGivesTheRest
<1>5. SaleFits(o, ord, payments[o], account[o], installments[o], refunds[o] \o rows)
  BY <1>1, <1>2, <1>3, <1>4, EstornoFits
<1> HIDE DEF old, ord, rows
<1> QED  BY <1>1, <1>5, RefundedSale DEF old


(* Amounts that are never larger and add up to as much are the same.       *)
LEMMA MemberOfSum ==
  ASSUME NEW S, IsFiniteSet(S), NEW f, f \in [S -> Nat], NEW x \in S
  PROVE  f[x] <= SumF(f)
<1> DEFINE g == Only(S, x, f[x])
<1>1. f[x] \in Nat /\ g \in [S -> Nat] /\ \A y \in S : g[y] <= f[y]
  BY DEF Only
<1>2. SumF(g) = f[x]
  BY <1>1, SumOnly
<1> HIDE DEF g
<1>3. SumF(g) <= SumF(f)
  BY <1>1, SumMono
<1> QED  BY <1>2, <1>3

NeverLarger(S, f, g) == f \in [S -> Nat] /\ g \in [S -> Nat] /\ \A x \in S : f[x] <= g[x]
LEMMA SameSums ==
  ASSUME NEW S, IsFiniteSet(S), NEW f, NEW g, NeverLarger(S, f, g), SumF(g) <= SumF(f)
  PROVE  f = g
<1> DEFINE d == [x \in S |-> g[x] - f[x]]
           e == [x \in S |-> f[x] + d[x]]
<1>1. d \in [S -> Nat] /\ \A x \in S : d[x] = g[x] - f[x] /\ f[x] \in Nat /\ g[x] \in Nat
  BY DEF NeverLarger
<1>2. e = g
  BY <1>1 DEF NeverLarger
<1>3. SumF(e) = SumF(f) + SumF(d)
  <2> HIDE DEF d
  <2> QED  BY <1>1, SumAdditive DEF NeverLarger
<1> HIDE DEF d, e
<1>4. SumF(d) = 0
  <2>1. SumF(d) \in Nat /\ SumF(f) \in Nat
    BY <1>1, SumType DEF NeverLarger
  <2> QED  BY <1>2, <1>3, <2>1
<1>5. \A x \in S : d[x] = 0
  <2> TAKE x \in S
  <2>1. d[x] <= SumF(d) /\ d[x] \in Nat
    BY <1>1, MemberOfSum
  <2> QED  BY <1>4, <2>1
<1> QED  BY <1>1, <1>5 DEF NeverLarger

(* Nothing is left of payments that gave back as much as they took.        *)
LEMMA NothingLeft ==
  ASSUME NEW pays \in Seq(PaymentRow), NEW refs \in Seq(RefundRow), NEW ord, ord.status = "aberta",
         NamesFit(ord, pays, refs), PaymentsCover(pays, refs),
         SumRows(pays, Gross) <= SumRows(refs, Gross)
  PROVE  AllGivenBack(pays, refs)
<1> DEFINE n == Len(pays)
           g == Groups(refs, n, ProductOf(refs))
           h == Groups(refs, n, ServiceOf(refs))
           a == ProductOf(pays)
           b == ServiceOf(pays)
<1>1. n \in Nat /\ MoneyRows(pays, n) /\ DOMAIN pays = 1..n
  BY PaymentTable
<1>2. \A i \in DOMAIN refs : refs[i].payment \in 1..n
  BY <1>1 DEF NamesFit
<1> HIDE DEF n
<1>3. /\ g \in [1..n -> Nat] /\ SumF(g) = SumRows(refs, Product)
      /\ h \in [1..n -> Nat] /\ SumF(h) = SumRows(refs, Service)
      /\ \A p \in 1..n : /\ g[p] = SumOf(refs, Marked(refs, p), Product)
                         /\ h[p] = SumOf(refs, Marked(refs, p), Service)
  BY <1>1, <1>2, RefundGroups
<1>4. /\ a \in [1..n -> Nat] /\ b \in [1..n -> Nat]
      /\ \A p \in 1..n : a[p] = pays[p].product /\ b[p] = pays[p].service
  BY <1>1, ColumnTypes
<1>5. SumRows(pays, Product) = SumF(a) /\ SumRows(pays, Service) = SumF(b)
  BY DEF SumRows, SumOf, ProductOf, ServiceOf, Product, Service
<1>6. /\ SumRows(refs, Product) <= SumRows(pays, Product)
      /\ SumRows(refs, Service) <= SumRows(pays, Service)
  BY OpenCoversItsRefunds
<1>7. /\ SumRows(pays, Product) \in Nat /\ SumRows(pays, Service) \in Nat
      /\ SumRows(pays, Gross) = SumRows(pays, Product) + SumRows(pays, Service)
      /\ SumRows(refs, Product) \in Nat /\ SumRows(refs, Service) \in Nat
      /\ SumRows(refs, Gross) = SumRows(refs, Product) + SumRows(refs, Service)
  BY PaymentTotals, RefundSums
<1>8. SumF(a) <= SumF(g) /\ SumF(b) <= SumF(h)
  BY <1>3, <1>5, <1>6, <1>7
<1>9. \A p \in 1..n : g[p] <= a[p] /\ h[p] <= b[p]
  BY <1>1, <1>3, <1>4 DEF PaymentsCover
<1> HIDE DEF a, b, g, h
<1>10. IsFiniteSet(1..n)
  BY <1>1, FiniteNumbers
<1>11. \A p \in 1..n : g[p] = a[p] /\ h[p] = b[p]
  <2> DEFINE D == 1..n
  <2>1. IsFiniteSet(D) /\ NeverLarger(D, g, a) /\ NeverLarger(D, h, b)
    BY <1>3, <1>4, <1>9, <1>10 DEF NeverLarger
  <2> HIDE DEF D
  <2>2. g = a
    BY <1>8, <2>1, SameSums
  <2>3. h = b
    BY <1>8, <2>1, SameSums
  <2> QED  BY <2>2, <2>3
<1> QED  BY <1>1, <1>3, <1>4, <1>11 DEF AllGivenBack

(* A comanda is cancelled once everything received for it is given back.   *)
LEMMA CancelFits ==
  ASSUME NEW ord, NEW new, NEW pays, NEW refs, NEW rows, NEW q, NEW acc, NEW insts, NEW o,
         SaleFits(o, ord, pays, acc, insts, refs), NamesFit(ord, pays, refs),
         ord.status = "aberta", ~ord.fiado, new.status = "cancelada", new.fiado = ord.fiado,
         new.estorno = ord.estorno, RefundsGrow(refs, rows, q), AllGivenBack(pays, q),
         \A k \in DOMAIN rows : OfSomePayment(rows[k], pays) /\ rows[k].payment # 0,
         \A k \in DOMAIN rows : rows[k].saleRecognized = FALSE
  PROVE  SaleFits(o, new, pays, acc, insts, q)
<1>1. Named(pays, insts, q)
  BY NamedGrows DEF SaleFits
<1>2. ~new.estorno
  BY DEF SaleFits, Priced
<1>3. Priced(new, q)
  BY <1>2 DEF Priced, Partly
<1>4. Apart => UndoneSale(new, pays, q)
  <2> SUFFICES ASSUME Apart PROVE UndoneSale(new, pays, q)
    OBVIOUS
  <2>1. Late(refs) = {} /\ \A i \in DOMAIN refs : refs[i].payment # 0
    BY DEF SaleFits, OpenSale, NamesFit
  <2>2. \A i \in DOMAIN q : q[i].payment # 0 /\ ~q[i].saleRecognized
    <3>1. \A i \in DOMAIN refs : ~refs[i].saleRecognized
      BY <2>1 DEF Late
    <3> QED  BY <2>1, <3>1 DEF RefundsGrow
  <2>3. Late(q) = {}
    BY <2>2 DEF Late
  <2> QED  BY <1>2, <2>2, <2>3 DEF UndoneSale, AllGivenBack
<1>5. OpenSale(new, pays, q) /\ ClosedSale(new, pays, q)
  BY DEF OpenSale, ClosedSale
<1> QED  BY <1>1, <1>3, <1>4, <1>5 DEF SaleFits

LEMMA CancelOrderSells ==
  ASSUME LedgerInv, SalesInv, NEW o \in Orders, CancelOrder(o)
  PROVE  SalesInv'
<1> DEFINE old == order[o]
           pays == payments[o]
           refs == refunds[o]
<1>1. /\ o \in Accounts /\ old \in OrderRecord /\ pays \in Seq(PaymentRow) /\ refs \in Seq(RefundRow)
      /\ StatusFits(old, pays, account[o], installments[o], refs)
      /\ NamesFit(old, pays, refs) /\ PaymentsCover(pays, refs)
  BY SaleFacts DEF OrderFits
<1>2. old.status = "aberta" /\ UNCHANGED <<payments, account, installments>>
  BY DEF CancelOrder
<1>3. ~old.fiado
  BY <1>1, <1>2 DEF StatusFits
<1>4. SaleFits(o, old, pays, account[o], installments[o], refs)
  BY DEF SalesInv
<1>5. CASE NetPaid(o, Gross) > 0
  <2> DEFINE ord == [old EXCEPT !.status = "cancelada", !.total = 0]
             rows == WholeRefund(o, FALSE)
  <2>1. sessionOpen /\ GiveBack(o, rows) /\ order' = [order EXCEPT ![o] = ord]
    BY <1>5 DEF CancelOrder
  <2>2. ord.status = "cancelada" /\ ord.fiado = old.fiado /\ ord.estorno = old.estorno
    BY <1>1 DEF OrderRecord
  <2>3. /\ WholeRows(rows, pays, FALSE, NonNegative(old.pieces - old.refunded))
        /\ GivesTheRest(rows, pays, refs)
    BY <2>1, WholeRefundSale, WholeGivesTheRest
  <2>4. rows \in Seq(RefundRow)
    BY <2>3 DEF WholeRows
  <2> HIDE DEF ord, rows, pays, refs
  <2>5. RefundsGrow(refs, rows, refs \o rows) /\ AllGivenBack(pays, refs \o rows)
    BY <1>1, <2>3, <2>4, GrownRefunds, RestGiven
  <2>6. /\ \A k \in DOMAIN rows : OfSomePayment(rows[k], pays) /\ rows[k].payment # 0
        /\ \A k \in DOMAIN rows : rows[k].saleRecognized = FALSE
    BY <2>3 DEF WholeRows
  <2>7. SaleFits(o, ord, pays, account[o], installments[o], refs \o rows)
    BY <1>1, <1>2, <1>3, <1>4, <2>2, <2>5, <2>6, CancelFits
  <2> QED  BY <1>2, <1>3, <2>1, <2>7, RefundedSale DEF pays, refs
<1>6. CASE ~(NetPaid(o, Gross) > 0)
  <2> DEFINE ord == [old EXCEPT !.status = "cancelada"]
  <2>1. order' = [order EXCEPT ![o] = ord] /\ UNCHANGED refunds
    BY <1>6 DEF CancelOrder
  <2>2. ord.status = "cancelada" /\ ord.fiado = old.fiado /\ ord.estorno = old.estorno
    BY <1>1 DEF OrderRecord
  <2>3. NetPaid(o, Gross) = SumRows(pays, Gross) - SumRows(refs, Gross)
    BY DEF NetPaid
  <2> HIDE DEF ord, pays, refs
  <2>4. SumRows(pays, Gross) <= SumRows(refs, Gross)
    <3>1. SumRows(pays, Gross) \in Int /\ SumRows(refs, Gross) \in Int
      BY <1>1, PaymentTotals, RefundSums
    <3> QED  BY <1>6, <2>3, <3>1
  <2>5. AllGivenBack(pays, refs)
    BY <1>1, <1>2, <2>4, NothingLeft
  <2> DEFINE none == << >>
  <2>6. /\ RefundsGrow(refs, none, refs)
        /\ \A k \in DOMAIN none : OfSomePayment(none[k], pays) /\ none[k].payment # 0
        /\ \A k \in DOMAIN none : none[k].saleRecognized = FALSE
    BY DEF RefundsGrow
  <2> HIDE DEF none
  <2>7. SaleFits(o, ord, pays, account[o], installments[o], refs)
    BY <1>1, <1>2, <1>3, <1>4, <2>2, <2>5, <2>6, CancelFits
  <2> QED  BY <1>2, <2>1, <2>7, OrderRowSells DEF pays, refs
<1> QED  BY <1>5, <1>6


(* The refund rows of chosen pieces.                                       *)
LEMMA PieceFields ==
  ASSUME NEW o \in Orders, NEW p \in DOMAIN payments[o], NEW take
  PROVE  LET r == RefundOfPieces(o, p, take)
         IN /\ r.payment = p /\ r.installment = 0 /\ r.method = payments[o][p].method
            /\ r.saleRecognized = (order[o].status = "finalizada") /\ r.serviceRecognized
            /\ r.product = Price * take /\ r.pieces = take
BY DEF RefundOfPieces, Refund

PieceSaleRows(rows, pays, sale, n) ==
  /\ rows \in Seq(RefundRow)
  /\ \A k \in DOMAIN rows : OfSomePayment(rows[k], pays) /\ rows[k].payment # 0
  /\ \A k \in DOMAIN rows : rows[k].saleRecognized = sale
  /\ \A k \in DOMAIN rows : rows[k].product = Price * rows[k].pieces
  /\ SumRows(rows, Pieces) = n

LEMMA KeptFromTable ==
  ASSUME NEW n \in Nat, NEW raw, DOMAIN raw = 1..n, NEW S, Places(S, n)
  PROVE  \A k \in DOMAIN Kept(raw, S) : \E i \in 1..n : Kept(raw, S)[k] = raw[i]
<1>1. PICK e \in Bijection(1..Cardinality(S), S) :
        \A s : Kept(s, S) = [k \in 1..Cardinality(S) |-> s[e[k]]]
  BY KeptPlaces
<1>2. e \in [1..Cardinality(S) -> S]
  BY BijectionFacts
<1>3. Kept(raw, S) = [k \in 1..Cardinality(S) |-> raw[e[k]]]
  BY <1>1
<1>4. \A k \in 1..Cardinality(S) : e[k] \in 1..n
  BY <1>2 DEF Places
<1> QED  BY <1>3, <1>4

LEMMA PieceRefundSale ==
  ASSUME LedgerInv, sessionOpen, NEW o \in Orders, Partly(order[o]), NEW n \in Nat,
         n <= SumF([p \in DOMAIN payments[o] |-> Available(o, p)])
  PROVE  PieceSaleRows(SomePieces([p \in DOMAIN payments[o] |-> RefundOfPieces(o, p, Taken(o, n, p))]),
                       payments[o], order[o].status = "finalizada", n)
<1> DEFINE pays == payments[o]
           k == Len(pays)
           raw == [p \in DOMAIN pays |-> RefundOfPieces(o, p, Taken(o, n, p))]
           S == {i \in DOMAIN raw : Pieces(raw[i]) > 0}
           rows == SomePieces(raw)
<1>1. k \in Nat /\ DOMAIN pays = 1..k /\ DOMAIN raw = 1..k /\ 0 \notin 1..k
  BY SaleFacts, SeqFacts
<1>2. ASSUME NEW p \in 1..k
      PROVE  /\ raw[p].payment \in 1..k /\ OfSomePayment(raw[p], pays)
             /\ raw[p].saleRecognized = (order[o].status = "finalizada")
             /\ raw[p].product = Price * raw[p].pieces
  <2>1. p \in DOMAIN payments[o] /\ raw[p] = RefundOfPieces(o, p, Taken(o, n, p))
    BY <1>1
  <2>2. p \in DOMAIN pays /\ p \in 1..k
    BY <1>1
  <2> HIDE DEF raw, k
  <2>3. /\ raw[p].payment = p /\ raw[p].installment = 0 /\ raw[p].method = payments[o][p].method
        /\ raw[p].saleRecognized = (order[o].status = "finalizada") /\ raw[p].serviceRecognized
        /\ raw[p].product = Price * Taken(o, n, p) /\ raw[p].pieces = Taken(o, n, p)
    BY <2>1, PieceFields
  <2> QED  BY <2>2, <2>3 DEF OfSomePayment
<1>3. rows = Kept(raw, S) /\ Places(S, k)
  BY <1>1 DEF SomePieces, Places
<1>4. PieceRefunds(rows, n, pays, refunds[o])
  BY PieceRefundRows
<1> HIDE DEF raw, S, rows, pays, k
<1>5. \A j \in DOMAIN rows : \E i \in 1..k : rows[j] = raw[i]
  BY <1>1, <1>3, KeptFromTable
<1>6. \A j \in DOMAIN rows : OfSomePayment(rows[j], pays) /\ rows[j].payment # 0
  BY <1>1, <1>2, <1>5
<1>7. \A j \in DOMAIN rows : /\ rows[j].saleRecognized = (order[o].status = "finalizada")
                             /\ rows[j].product = Price * rows[j].pieces
  BY <1>2, <1>5
<1>8. PieceSaleRows(rows, pays, order[o].status = "finalizada", n)
  BY <1>4, <1>6, <1>7 DEF PieceSaleRows, PieceRefunds
<1> QED  BY <1>8 DEF rows, raw, pays

(* A comanda after some of its pieces went back.                           *)
Returning(ord, new, n) ==
  /\ new.status = ord.status /\ new.fiado = ord.fiado /\ new.estorno = ord.estorno
  /\ new.closedIn = ord.closedIn /\ new.refunded \in Nat
  /\ ord.status = "finalizada" =>
       new.pieces = ord.pieces /\ new.total = ord.total /\ new.refunded = ord.refunded + n
  /\ ord.status = "aberta" => new.pieces = ord.pieces - n /\ new.total = Price * new.pieces

LEMMA UnsoldRefunds ==
  ASSUME NEW refs, NEW rows, NEW q, RefundsGrow(refs, rows, q), Late(refs) = {}, Unsold(rows)
  PROVE  Late(q) = {}
<1>1. \A i \in DOMAIN refs : ~refs[i].saleRecognized
  BY DEF Late
<1>2. \A i \in DOMAIN q : ~q[i].saleRecognized
  BY <1>1 DEF RefundsGrow, Unsold
<1> QED  BY <1>2 DEF Late

LEMMA PiecesBackFit ==
  ASSUME NEW ord \in OrderRecord, NEW new, NEW pays \in Seq(PaymentRow), NEW refs \in Seq(RefundRow),
         NEW rows, NEW acc, NEW insts, NEW o \in ItemRefundable,
         SaleFits(o, ord, pays, acc, insts, refs), NEW n \in Nat \ {0},
         ord.status \in {"aberta", "finalizada"}, ~ord.estorno, Returning(ord, new, n),
         ord.status = "aberta" => ~ord.fiado /\ n <= ord.pieces,
         PieceSaleRows(rows, pays, ord.status = "finalizada", n)
  PROVE  SaleFits(o, new, pays, acc, insts, refs \o rows)
<1> DEFINE q == refs \o rows
<1>1. rows \in Seq(RefundRow) /\ RefundsGrow(refs, rows, q)
  BY GrownRefunds DEF PieceSaleRows
<1>2. AddedRefunds(refs, rows, q)
  BY <1>1, JoinedRefunds
<1>3. rows # << >>
  BY EmptyTable DEF PieceSaleRows
<1>4. q # << >>
  BY <1>1, <1>3 DEF RefundsGrow
<1>5. ord.pieces \in Nat /\ ord.total \in Nat /\ ord.refunded \in Nat /\ Price \in Nat
  BY OrderFields, Livro_Amounts
<1>6. /\ SumRows(rows, Pieces) = n /\ SumRows(rows, Product) = Price * n
      /\ SumRows(rows, Product) \in Nat
  <2>1. SumOf(rows, DOMAIN rows, Product) = Price * SumOf(rows, DOMAIN rows, Pieces)
    BY <1>1, PricedRows DEF PieceSaleRows
  <2> QED  BY <1>1, <2>1, RefundSums DEF PieceSaleRows, SumRows
<1>7. ord.status = "finalizada" =>
        /\ Early(q) = {} <=> Early(refs) = {}
        /\ SumOf(q, Early(q), Product) = SumOf(refs, Early(refs), Product)
        /\ SumOf(q, Early(q), Pieces) = SumOf(refs, Early(refs), Pieces)
        /\ SumOf(q, Late(q), Pieces) = SumOf(refs, Late(refs), Pieces) + n
  <2>1. ord.status = "finalizada" => Sold(rows)
    BY DEF PieceSaleRows, Sold
  <2> QED  BY <1>1, <1>6, <2>1, SoldRefunds
<1> HIDE DEF q
<1>8. Named(pays, insts, q)
  BY <1>1, NamedGrows DEF SaleFits, PieceSaleRows
<1>9. Priced(new, q)
  <2>1. \A i \in DOMAIN q : q[i].payment # 0 => q[i].product = Price * q[i].pieces
    <3>1. \A i \in DOMAIN refs : refs[i].payment # 0 => refs[i].product = Price * refs[i].pieces
      BY DEF SaleFits, Priced, Partly
    <3> QED  BY <1>1, <3>1 DEF RefundsGrow, PieceSaleRows
  <2>2. new.status # "cancelada" => new.total = Price * new.pieces
    BY DEF SaleFits, Priced, Returning
  <2>3. new.status = "finalizada" => new.closedIn # 0
    BY DEF SaleFits, Priced, Returning
  <2> QED  BY <2>1, <2>2, <2>3 DEF Priced, Returning
<1>10. Apart => OpenSale(new, pays, q)
  <2> SUFFICES ASSUME Apart, new.status = "aberta" PROVE OpenSale(new, pays, q)
    BY DEF OpenSale, Returning
  <2>1. ord.status = "aberta" /\ new.total = Price * (ord.pieces - n) /\ n <= ord.pieces
    BY DEF Returning
  <2>2. /\ Late(refs) = {} /\ SumRows(pays, Product) <= ord.total + SumRows(refs, Product)
        /\ ord.total = Price * ord.pieces
    BY <2>1 DEF SaleFits, OpenSale, Priced
  <2>3. Late(q) = {}
    <3>1. Unsold(rows)
      BY <2>1 DEF PieceSaleRows, Unsold
    <3> QED  BY <1>1, <2>2, <3>1, UnsoldRefunds
  <2>4. SumRows(q, Product) = SumRows(refs, Product) + SumRows(rows, Product)
    BY <1>2 DEF AddedRefunds
  <2>5. new.total = ord.total - Price * n
    <3>1. Price * (ord.pieces - n) = Price * ord.pieces - Price * n
      BY <1>5
    <3> QED  BY <2>1, <2>2, <3>1
  <2>6. SumRows(pays, Product) <= new.total + SumRows(q, Product)
    <3>1. /\ SumRows(pays, Product) \in Nat /\ SumRows(refs, Product) \in Nat /\ Price * n \in Nat
      BY <1>6, PaymentTotals, RefundSums
    <3> QED  BY <1>5, <1>6, <2>2, <2>4, <2>5, <3>1
  <2> QED  BY <1>4, <2>3, <2>6 DEF OpenSale
<1>11. Apart => ClosedSale(new, pays, q)
  <2> SUFFICES ASSUME Apart, new.status = "finalizada", ~new.fiado PROVE ClosedSale(new, pays, q)
    BY DEF ClosedSale
  <2>1. /\ ord.status = "finalizada" /\ ~ord.fiado /\ ~new.estorno /\ new.pieces = ord.pieces
        /\ new.total = ord.total /\ new.refunded = ord.refunded + n
    BY DEF Returning
  <2>2. /\ \A i \in DOMAIN refs : refs[i].payment # 0
        /\ SumRows(pays, Product) = ord.total + SumOf(refs, Early(refs), Product)
        /\ SumRows(pays, Pieces) <= ord.pieces + SumOf(refs, Early(refs), Pieces)
        /\ SumOf(refs, Late(refs), Pieces) <= ord.refunded
        /\ Early(refs) = {} => ord.refunded = SumOf(refs, Late(refs), Pieces)
    BY <2>1 DEF SaleFits, ClosedSale
  <2>3. SumOf(refs, Late(refs), Pieces) \in Nat
    BY SplitRefunds
  <2>4. \A i \in DOMAIN q : q[i].payment # 0
    BY <1>1, <2>2 DEF RefundsGrow, PieceSaleRows
  <2>5. SumOf(q, Late(q), Pieces) <= new.refunded
    BY <1>5, <1>7, <2>1, <2>2, <2>3
  <2>6. Early(q) = {} => new.refunded = SumOf(q, Late(q), Pieces)
    BY <1>7, <2>1, <2>2
  <2> QED  BY <1>7, <2>1, <2>2, <2>4, <2>5, <2>6 DEF ClosedSale
<1>12. Apart => UndoneSale(new, pays, q)
  BY DEF UndoneSale, Returning
<1>13. Apart => o \notin Convertible /\ ~new.fiado
  <2>1. Apart => o \notin Convertible
    BY DEF Apart
  <2> QED  BY <2>1 DEF SaleFits, Returning
<1>14. new.fiado => /\ o \in Convertible /\ acc.status # "nenhum"
                    /\ new.estorno <=> acc.status = "cancelado"
  BY DEF SaleFits, Returning
<1> QED  BY <1>8, <1>9, <1>10, <1>11, <1>12, <1>13, <1>14 DEF SaleFits, q

LEMMA RefundPiecesSells ==
  ASSUME LedgerInv, SalesInv, NEW o \in Orders, NEW n \in 1..MaxPieces, RefundPieces(o, n)
  PROVE  SalesInv'
<1> DEFINE old == order[o]
           pays == payments[o]
           refs == refunds[o]
           rows == SomePieces([p \in DOMAIN payments[o] |-> RefundOfPieces(o, p, Taken(o, n, p))])
           q == refs \o rows
           closed == [old EXCEPT !.refunded = @ + n]
           given == IF n = old.pieces THEN 0 ELSE old.refunded + n
           open == [old EXCEPT !.pieces = @ - n, !.total = Price * (old.pieces - n),
                               !.refunded = given]
           ord == IF old.status = "finalizada" THEN closed ELSE open
<1>1. /\ o \in Accounts /\ old \in OrderRecord /\ pays \in Seq(PaymentRow) /\ refs \in Seq(RefundRow)
      /\ StatusFits(old, pays, account[o], installments[o], refs) /\ o \notin Direct
  BY SaleFacts, Livro_Rows DEF OrderFits
<1>2. /\ o \in ItemRefundable /\ sessionOpen /\ old.status \in {"aberta", "finalizada"}
      /\ ~old.estorno /\ Partly(old) /\ n <= SumF([p \in DOMAIN payments[o] |-> Available(o, p)])
      /\ GiveBack(o, rows) /\ UNCHANGED <<payments, account, installments>>
  BY DEF RefundPieces, Partly
<1>3. order' = [order EXCEPT ![o] = ord]
  <2>1. CASE old.status = "finalizada"
    BY <2>1 DEF RefundPieces
  <2>2. CASE old.status # "finalizada"
    BY <2>2 DEF RefundPieces
  <2> QED  BY <2>1, <2>2
<1>4. n \in Nat \ {0} /\ n \in Nat /\ old.pieces \in Nat /\ old.refunded \in Nat /\ given \in Nat
  BY <1>1, OrderFields, Livro_Bounds
<1>5. PieceSaleRows(rows, pays, old.status = "finalizada", n)
  BY <1>2, <1>4, PieceRefundSale
<1>6. SaleFits(o, old, pays, account[o], installments[o], refs)
  BY DEF SalesInv
<1>7. old.status = "aberta" => ~old.fiado /\ n <= old.pieces
  <2> SUFFICES ASSUME old.status = "aberta" PROVE ~old.fiado /\ n <= old.pieces
    OBVIOUS
  <2>1. ~old.fiado
    BY <1>1 DEF StatusFits
  <2>2. SumF([p \in DOMAIN payments[o] |-> Available(o, p)]) <= old.pieces
    BY <1>2, OpenHoldsAvailable
  <2>3. SumF([p \in DOMAIN payments[o] |-> Available(o, p)]) \in Nat
    <3> DEFINE D == DOMAIN payments[o]  f == [p \in D |-> Available(o, p)]
    <3>1. \A p \in D : Available(o, p) \in Nat
      BY <1>2, AvailablePieces
    <3>2. Len(payments[o]) \in Nat /\ D = 1..Len(payments[o])
      BY <1>1, SeqFacts
    <3>3. IsFiniteSet(D)
      BY <3>2, FS_Interval
    <3>4. f \in [D -> Nat]
      BY <3>1
    <3>5. SumF(f) \in Nat
      <4> HIDE DEF D, f
      <4> QED  BY <3>3, <3>4, SumType
    <3> QED  BY <3>5
  <2> QED  BY <1>2, <1>4, <2>1, <2>2, <2>3
<1>8. Returning(old, ord, n)
  <2> HIDE DEF given
  <2>1. CASE old.status = "finalizada"
    <3>1. /\ closed.status = old.status /\ closed.fiado = old.fiado /\ closed.estorno = old.estorno
          /\ closed.closedIn = old.closedIn /\ closed.refunded = old.refunded + n
          /\ closed.pieces = old.pieces /\ closed.total = old.total
      BY <1>1 DEF OrderRecord
    <3>2. ord = closed
      BY <2>1
    <3> HIDE DEF ord, closed
    <3> QED  BY <1>4, <2>1, <3>1, <3>2 DEF Returning
  <2>2. CASE old.status = "aberta"
    <3>1. /\ open.status = old.status /\ open.fiado = old.fiado /\ open.estorno = old.estorno
          /\ open.closedIn = old.closedIn /\ open.refunded = given
          /\ open.pieces = old.pieces - n /\ open.total = Price * (old.pieces - n)
      BY <1>1 DEF OrderRecord
    <3>2. ord = open
      BY <2>2
    <3> HIDE DEF ord, open
    <3> QED  BY <1>4, <2>2, <3>1, <3>2 DEF Returning
  <2> QED  BY <1>2, <2>1, <2>2
<1> HIDE DEF ord, closed, open, given, rows
<1>9. SaleFits(o, ord, pays, account[o], installments[o], q)
  BY <1>1, <1>2, <1>4, <1>5, <1>6, <1>7, <1>8, PiecesBackFit
<1>10. FiadoFits(account[o], installments[o], q)
  <2>1. CASE ~old.fiado
    BY <2>1, OtherFiado
  <2>2. CASE old.fiado
    <3>1. ~Apart
      BY <1>2, <1>6, <2>2 DEF Apart, SaleFits
    <3>2. FiadoFits(account[o], installments[o], refunds[o])
      BY <1>1 DEF SalesInv
    <3> QED  BY <3>1, <3>2 DEF FiadoFits
  <2> QED  BY <2>1, <2>2
<1>11. refunds' = [refunds EXCEPT ![o] = q]
  BY <1>2 DEF GiveBack
<1> HIDE DEF q
<1>12. Elsewhere(o) /\ order'[o] = ord /\ refunds'[o] = q
  BY <1>1, <1>2, <1>3, <1>11, TableTypes DEF Elsewhere
<1>13. payments'[o] = pays /\ account'[o] = account[o] /\ installments'[o] = installments[o]
  BY <1>2
<1> HIDE DEF old, pays, refs
<1> QED  BY <1>1, <1>9, <1>10, <1>12, <1>13, SalesFrame


(* Fiados are written and paid.                                            *)
LEMMA CopiedFields ==
  ASSUME NEW o \in Orders
  PROVE  /\ DOMAIN Copied(o) = DOMAIN payments[o]
         /\ \A p \in DOMAIN payments[o] :
              /\ Copied(o)[p].product = payments[o][p].product
              /\ Copied(o)[p].service = payments[o][p].service
              /\ Copied(o)[p].method = payments[o][p].method
BY DEF Copied

LEMMA ConvertFits ==
  ASSUME NEW o \in Convertible, NEW ord, NEW new, NEW pays, NEW insts, NEW refs, NEW acc, NEW acc2,
         NEW insts2, SaleFits(o, ord, pays, acc, insts, refs), insts = << >>, ord.status = "aberta",
         new.status = "finalizada", new.fiado, new.estorno = ord.estorno, new.total = ord.total,
         new.pieces = ord.pieces, new.closedIn # 0, acc2.status \in {"pendente", "pago"}
  PROVE  SaleFits(o, new, pays, acc2, insts2, refs)
<1>1. ~new.estorno
  BY DEF SaleFits, Priced
<1>2. Named(pays, insts2, refs)
  <2> DEFINE none == << >>
  <2>1. Named(pays, none, refs) /\ DOMAIN none = {}
    BY DEF SaleFits
  <2> HIDE DEF none
  <2> QED  BY <2>1 DEF Named, OfSomeInstallment
<1>3. Priced(new, refs)
  BY <1>1 DEF SaleFits, Priced, Partly
<1>4. OpenSale(new, pays, refs) /\ ClosedSale(new, pays, refs) /\ UndoneSale(new, pays, refs)
  BY DEF OpenSale, ClosedSale, UndoneSale
<1>5. Apart => LiveFiado(acc2, refs)
  BY DEF SaleFits, LiveFiado
<1> QED  BY <1>1, <1>2, <1>3, <1>4, <1>5 DEF SaleFits

LEMMA ConvertSells ==
  ASSUME LedgerInv, SalesInv, NEW o \in Orders, NEW charge \in Charges, Convert(o, charge)
  PROVE  SalesInv'
<1> DEFINE old == order[o]
           ord == [old EXCEPT !.status = "finalizada", !.fiado = TRUE, !.closedIn = session]
           service == NetPaid(o, Service) + Charge(Remaining(o), charge)
           total == old.total + service
           paid == NetPaid(o, Gross)
           balance == NonNegative(total - paid)
           acc == [status |-> StatusFor(balance), product |-> old.total, service |-> service,
                   total |-> total, paid |-> paid, balance |-> balance, pieces |-> old.pieces,
                   createdIn |-> session]
           insts == Copied(o)
<1>1. /\ o \in Convertible /\ sessionOpen /\ old.status = "aberta"
      /\ account' = [account EXCEPT ![o] = acc] /\ installments' = [installments EXCEPT ![o] = insts]
      /\ order' = [order EXCEPT ![o] = ord] /\ UNCHANGED <<payments, refunds>>
  BY DEF Convert
<1>2. /\ o \in Accounts /\ o \notin Direct /\ old \in OrderRecord
      /\ StatusFits(old, payments[o], account[o], installments[o], refunds[o])
  BY SaleFacts, Livro_Rows DEF OrderFits
<1>3. ~old.fiado /\ installments[o] = << >>
  BY <1>1, <1>2 DEF StatusFits
<1>4. SaleFits(o, old, payments[o], account[o], installments[o], refunds[o])
  BY DEF SalesInv
<1>5. session # 0
  BY <1>1, DayFacts
<1>6. /\ ord.status = "finalizada" /\ ord.fiado /\ ord.estorno = old.estorno
      /\ ord.total = old.total /\ ord.pieces = old.pieces /\ ord.closedIn # 0
  BY <1>2, <1>5 DEF OrderRecord
<1>7. /\ acc.status \in {"pendente", "pago"} /\ acc.product = old.total /\ acc.pieces = old.pieces
      /\ acc.createdIn = session
  <2> HIDE DEF balance
  <2> QED  BY StatusForFiado
<1>8. SomethingPaid(insts)
  BY <1>4, CopiedFields DEF SaleFits, SomethingPaid
<1> HIDE DEF ord, acc, insts, old
<1>9. SaleFits(o, ord, payments[o], acc, insts, refunds[o])
  BY <1>1, <1>3, <1>4, <1>6, <1>7, ConvertFits
<1>10. FiadoFits(acc, insts, refunds[o])
  <2>1. PricedFiado(acc)
    BY <1>1, <1>4, <1>5, <1>7 DEF PricedFiado, SaleFits, Priced
  <2> QED  BY <1>7, <1>8, <2>1 DEF FiadoFits, UndoneFiado, TipGivenBack
<1>11. Elsewhere(o) /\ order'[o] = ord /\ account'[o] = acc /\ installments'[o] = insts
  BY <1>1, <1>2, TableTypes DEF Elsewhere
<1>12. payments'[o] = payments[o] /\ refunds'[o] = refunds[o]
  BY <1>1
<1> QED  BY <1>2, <1>9, <1>10, <1>11, <1>12, SalesFrame

LEMMA CreateConsignmentSells ==
  ASSUME LedgerInv, SalesInv, NEW d \in Direct, NEW n \in 1..MaxPieces, CreateConsignment(d, n)
  PROVE  SalesInv'
<1> DEFINE acc == [status |-> "pendente", product |-> Price * n, service |-> 0, total |-> Price * n,
                   paid |-> 0, balance |-> Price * n, pieces |-> n, createdIn |-> session]
<1>1. /\ sessionOpen /\ account[d].status = "nenhum" /\ account' = [account EXCEPT ![d] = acc]
      /\ UNCHANGED <<order, payments, installments, refunds>>
  BY DEF CreateConsignment
<1>2. d \in Accounts /\ d \notin Orders
  BY Livro_Rows DEF Accounts
<1>3. /\ Named(<< >>, installments[d], refunds[d]) /\ LiveFiado(account[d], refunds[d])
      /\ FiadoFits(account[d], installments[d], refunds[d])
  BY <1>2 DEF SalesInv
<1>4. session # 0
  BY <1>1, DayFacts
<1>5. /\ acc.status = "pendente" /\ acc.product = Price * acc.pieces /\ acc.createdIn # 0
  BY <1>4
<1> HIDE DEF acc
<1>6. LiveFiado(acc, refunds[d])
  BY <1>1, <1>3 DEF LiveFiado
<1>7. FiadoFits(acc, installments[d], refunds[d])
  BY <1>3, <1>5 DEF FiadoFits, PricedFiado, UndoneFiado, TipGivenBack
<1>8. Elsewhere(d) /\ account'[d] = acc
  BY <1>1, <1>2, TableTypes DEF Elsewhere
<1>9. installments'[d] = installments[d] /\ refunds'[d] = refunds[d]
  BY <1>1
<1> QED  BY <1>2, <1>3, <1>6, <1>7, <1>8, <1>9, SalesFrame

LEMMA NamedByMore ==
  ASSUME NEW pays, NEW insts \in Seq(InstallmentRow), NEW row \in InstallmentRow, NEW refs,
         Named(pays, insts, refs)
  PROVE  Named(pays, Append(insts, row), refs)
<1> DEFINE q == Append(insts, row)
<1>1. \A i \in DOMAIN insts : i \in DOMAIN q /\ q[i] = insts[i]
  BY AppendedRow
<1> HIDE DEF q
<1>2. Named(pays, q, refs)
  BY <1>1 DEF Named, OfSomeInstallment
<1> QED  BY <1>2 DEF q

LEMMA PayInstallmentSells ==
  ASSUME LedgerInv, SalesInv, NEW a \in Accounts, NEW amount \in Installments, NEW m \in Methods,
         PayInstallment(a, amount, m)
  PROVE  SalesInv'
<1> DEFINE split == SplitInstallment(amount, account[a].product, SumRows(installments[a], Product))
           balance == NonNegative(account[a].total - (account[a].paid + amount))
           row == [product |-> split.product, service |-> split.service,
                   fee |-> CardFee(split.product, split.service, m), method |-> m,
                   period |-> session, source |-> 0]
           old == account[a]
           acc == PaidOff(old, amount, balance)
           q == Append(installments[a], row)
<1>1. /\ sessionOpen /\ old.status \in {"pendente", "pago"}
      /\ installments' = [installments EXCEPT ![a] = q]
      /\ account' = [account EXCEPT ![a] = acc]
      /\ UNCHANGED <<order, payments, refunds>>
  BY DEF PayInstallment, PaidOff
<1>2. /\ old \in AccountRecord /\ installments[a] \in Seq(InstallmentRow)
  BY AccountFacts
<1>3. amount \in Nat /\ amount > 0 /\ session \in 1..session
  BY <1>1, Livro_Amounts, DayFacts
<1>4. split.product \in Nat /\ split.service \in Nat /\ split.product + split.service = amount
  <2>1. old.product \in Nat /\ SumRows(installments[a], Product) \in Nat
    BY <1>2, AccountColumns, InstallmentTotals
  <2> QED  BY <1>3, <2>1, InstallmentSplit
<1> HIDE DEF split
<1>5. row \in InstallmentRow /\ row.product + row.service > 0
  <2>1. CardFee(split.product, split.service, m) \in Nat /\ 0 \in Nat
    BY <1>4, FeeNat
  <2>2. row \in InstallmentRow
    BY <1>3, <1>4, <2>1, InstallmentFields
  <2>3. row.product + row.service = amount
    BY <1>4
  <2> QED  BY <1>3, <2>2, <2>3
<1>6. acc.status \in {"pendente", "pago"} /\ acc.product = old.product /\ acc.pieces = old.pieces
      /\ acc.createdIn = old.createdIn
  <2> HIDE DEF balance, old
  <2> QED  BY <1>2, StatusForFiado DEF PaidOff, AccountRecord
<1> HIDE DEF row, acc, balance
<1>7. FiadoFits(old, installments[a], refunds[a])
  BY DEF SalesInv
<1>8. FiadoFits(acc, q, refunds[a])
  <2>1. SomethingPaid(q)
    <3>1. \A i \in DOMAIN q : (i \in DOMAIN installments[a] /\ q[i] = installments[a][i]) \/ q[i] = row
      BY <1>2, <1>5, AppendedRow
    <3> QED  BY <1>5, <1>7, <3>1 DEF FiadoFits, SomethingPaid
  <2>2. PricedFiado(acc)
    BY <1>1, <1>6, <1>7 DEF FiadoFits, PricedFiado
  <2> QED  BY <1>6, <2>1, <2>2 DEF FiadoFits, UndoneFiado, TipGivenBack
<1>9. a \in Orders => SaleFits(a, order[a], payments[a], acc, q, refunds[a])
  <2> SUFFICES ASSUME a \in Orders PROVE SaleFits(a, order[a], payments[a], acc, q, refunds[a])
    OBVIOUS
  <2>1. SaleFits(a, order[a], payments[a], old, installments[a], refunds[a])
    BY DEF SalesInv
  <2>2. order[a].fiado
    BY <1>1, SaleFacts DEF OrderFits, StatusFits
  <2>3. Named(payments[a], q, refunds[a])
    BY <1>2, <1>5, <2>1, NamedByMore DEF SaleFits
  <2>4. Apart => LiveFiado(acc, refunds[a])
    BY <1>1, <2>1, <2>2 DEF SaleFits, LiveFiado
  <2> HIDE DEF q, old
  <2> QED  BY <1>1, <1>6, <2>1, <2>2, <2>3, <2>4 DEF SaleFits
<1>10. a \in Direct => Named(<< >>, q, refunds[a]) /\ LiveFiado(acc, refunds[a])
  <2> SUFFICES ASSUME a \in Direct PROVE Named(<< >>, q, refunds[a]) /\ LiveFiado(acc, refunds[a])
    OBVIOUS
  <2>1. Named(<< >>, installments[a], refunds[a]) /\ LiveFiado(old, refunds[a])
    BY DEF SalesInv
  <2>2. Named(<< >>, q, refunds[a])
    BY <1>2, <1>5, <2>1, NamedByMore
  <2> QED  BY <1>1, <2>1, <2>2 DEF LiveFiado
<1> HIDE DEF q, old
<1>11. Elsewhere(a) /\ account'[a] = acc /\ installments'[a] = q
  BY <1>1, TableTypes DEF Elsewhere
<1>12. a \in Orders => order'[a] = order[a] /\ payments'[a] = payments[a]
  BY <1>1
<1>13. refunds'[a] = refunds[a]
  BY <1>1
<1> QED  BY <1>8, <1>9, <1>10, <1>11, <1>12, <1>13, SalesFrame


(* The refund of a fiado.                                                  *)
LEMMA InstallmentRefundFields ==
  ASSUME NEW a \in Accounts, NEW j \in DOMAIN installments[a]
  PROVE  LET r == RefundOfInstallment(a, j)
         IN /\ r.method = installments[a][j].method /\ r.saleRecognized
            /\ r.serviceRecognized = TipRecognized(a) /\ r.repassed = TipRepassed(a) /\ r.pieces = 0
BY DEF RefundOfInstallment, Refund

Earned(insts) == \A i \in DOMAIN insts : insts[i].product + insts[i].service > 0
FiadoRow(r, insts, tip) ==
  /\ OfSomeInstallment(r, insts) \/ OfNothing(r)
  /\ r.payment = 0 /\ r.saleRecognized
  /\ r.repassed => r.serviceRecognized
  /\ r.serviceRecognized => tip
  /\ tip => r.serviceRecognized \/ r.service = 0
FiadoRows(rows, insts, refs, acc, tip) ==
  /\ rows \in Seq(RefundRow) /\ rows # << >>
  /\ \A k \in DOMAIN rows : FiadoRow(rows[k], insts, tip)
  /\ SumRows(rows, Pieces) = NonNegative(acc.pieces - SumRows(refs, Pieces))
  /\ refs = << >> => SumRows(rows, Service) = SumRows(insts, Service)
  /\ refs = << >> /\ insts # << >> /\ Earned(insts) => \A k \in DOMAIN rows : rows[k].installment # 0

LEMMA NothingFields ==
  ASSUME NEW insts, NEW tip \in BOOLEAN
  PROVE  FiadoRow(NothingReceived, insts, tip) /\ NothingReceived.pieces = 0
         /\ NothingReceived.service = 0 /\ NothingReceived.product = 0
BY DEF NothingReceived, Refund, FiadoRow, OfNothing

LEMMA FiadoRefundSale ==
  ASSUME LedgerInv, sessionOpen, NEW a \in Accounts
  PROVE  FiadoRows(RefundOfFiado(a), installments[a], refunds[a], account[a], TipRecognized(a))
<1> DEFINE n == Len(installments[a])
           insts == installments[a]
           refs == refunds[a]
           tip == TipRecognized(a)
           raw == [i \in DOMAIN installments[a] |-> RefundOfInstallment(a, i)]
           some == SomeMoney(raw)
           one == <<NothingReceived>>
           base == IF some = << >> THEN one ELSE some
           left == account[a].pieces - SumRows(refs, Pieces)
           rows == RefundOfFiado(a)
<1>1. /\ n \in Nat /\ DOMAIN insts = 1..n /\ DOMAIN raw = 1..n /\ tip \in BOOLEAN
      /\ insts # << >> => 1 \in 1..n
  BY AccountFacts, SeqFacts DEF TipRecognized
<1>2. ASSUME NEW p \in 1..n
      PROVE  /\ raw[p] \in RefundRow /\ raw[p].payment = 0 /\ raw[p].installment = p
             /\ raw[p].product = insts[p].product - SumOf(refs, Settling(refs, p), Product)
             /\ raw[p].service = insts[p].service - SumOf(refs, Settling(refs, p), Service)
             /\ raw[p].method = insts[p].method /\ raw[p].saleRecognized
             /\ raw[p].serviceRecognized = tip /\ raw[p].repassed = TipRepassed(a)
             /\ raw[p].pieces = 0
  <2>1. p \in DOMAIN installments[a] /\ raw[p] = RefundOfInstallment(a, p)
    BY <1>1
  <2> HIDE DEF raw
  <2> QED  BY <2>1, LeftOfInstallment, InstallmentRefundFields
<1>3. raw \in [1..n -> RefundRow]
  <2>1. raw = [p \in 1..n |-> raw[p]]
    BY <1>1
  <2> HIDE DEF raw
  <2> QED  BY <1>2, <2>1
<1>4. rows = WithPieces(base, left)
  BY DEF RefundOfFiado
<1>5. left \in Int /\ NonNegative(left) \in 0..MaxPieces
  <2>1. account[a].pieces \in 0..MaxPieces /\ SumRows(refs, Pieces) \in Nat
    BY AccountFacts, AccountColumns, RefundSums
  <2> QED  BY <2>1, Livro_Bounds DEF NonNegative
<1>6. TipRepassed(a) => tip
  BY DEF TipRepassed
<1>7. insts \in Seq(InstallmentRow)
  BY AccountFacts
<1>8. one \in Seq(RefundRow) /\ one # << >>
  BY DayFacts, NothingReceivedRow
<1> HIDE DEF n, insts, refs, tip, raw, left, rows
<1>9. /\ some \in Seq(RefundRow)
      /\ \A k \in DOMAIN some : \E i \in 1..n : some[k] = raw[i]
      /\ SumRows(some, Service) = SumRows(raw, Service)
      /\ (\A i \in 1..n : raw[i].installment = i) => \A p \in 1..n :
           /\ SumOf(some, Settling(some, p), Product) = raw[p].product
           /\ SumOf(some, Settling(some, p), Service) = raw[p].service
  BY <1>1, <1>3, SomeMoneyRows
<1>10. \A p \in 1..n : FiadoRow(raw[p], insts, tip) /\ raw[p].installment # 0
  <2> TAKE p \in 1..n
  <2>1. p # 0 /\ p \in DOMAIN insts
    BY <1>1
  <2>2. OfSomeInstallment(raw[p], insts)
    BY <1>2, <2>1 DEF OfSomeInstallment
  <2> QED  BY <1>2, <1>6, <2>1, <2>2 DEF FiadoRow
<1> HIDE DEF some
<1>11. \A k \in DOMAIN some : FiadoRow(some[k], insts, tip) /\ some[k].installment # 0 /\ some[k].pieces = 0
  BY <1>2, <1>9, <1>10
<1>12. \A k \in DOMAIN one : FiadoRow(one[k], insts, tip) /\ one[k].pieces = 0
  <2> DEFINE row == NothingReceived
  <2>1. FiadoRow(row, insts, tip) /\ row.pieces = 0
    BY <1>1, NothingFields
  <2> HIDE DEF row
  <2>2. one = <<row>>
    BY DEF row
  <2> HIDE DEF one
  <2> QED  BY <2>1, <2>2
<1>13. refs = << >> => SumRows(raw, Service) = SumRows(insts, Service)
  <2> SUFFICES ASSUME refs = << >> PROVE SumRows(raw, Service) = SumRows(insts, Service)
    OBVIOUS
  <2>1. \A p \in 1..n : raw[p].service = insts[p].service
    <3> TAKE p \in 1..n
    <3>1. SumOf(refs, Settling(refs, p), Service) = 0
      BY UnsettledTable
    <3>2. insts[p].service \in Nat
      BY <1>1, <1>7, InstallmentTable DEF MoneyRows
    <3> QED  BY <1>2, <3>1, <3>2
  <2>2. DOMAIN raw = 1..n
    BY <1>3
  <2>3. [i \in DOMAIN raw |-> Service(raw[i])] = [i \in DOMAIN insts |-> Service(insts[i])]
    BY <1>1, <2>1, <2>2 DEF Service
  <2> QED  BY <2>3 DEF SumRows, SumOf
<1>14. refs = << >> /\ insts # << >> /\ Earned(insts) => some # << >>
  <2> SUFFICES ASSUME refs = << >>, insts # << >>, Earned(insts), some = << >> PROVE FALSE
    OBVIOUS
  <2>1. 1 \in 1..n /\ 1 \in DOMAIN insts
    BY <1>1
  <2>2. SumOf(some, Settling(some, 1), Product) = 0 /\ SumOf(some, Settling(some, 1), Service) = 0
    BY UnsettledTable
  <2>3. raw[1].product = 0 /\ raw[1].service = 0
    BY <1>2, <1>9, <2>1, <2>2
  <2>4. SumOf(refs, Settling(refs, 1), Product) = 0 /\ SumOf(refs, Settling(refs, 1), Service) = 0
    BY UnsettledTable
  <2>5. insts[1].product \in Nat /\ insts[1].service \in Nat
    BY <1>1, <1>7, <2>1, InstallmentTable DEF MoneyRows
  <2>6. insts[1].product = 0 /\ insts[1].service = 0
    BY <1>2, <2>1, <2>3, <2>4, <2>5
  <2> QED  BY <2>1, <2>6 DEF Earned
<1>15. SumRows(one, Service) = 0 /\ SumRows(<< >>, Service) = 0
  <2> DEFINE row == NothingReceived
  <2>1. row.product \in Nat /\ row.service \in Nat /\ row.service = 0
    BY <1>1, NothingFields
  <2>2. one = <<row>>
    BY DEF row
  <2> HIDE DEF row, one
  <2> QED  BY <2>1, <2>2, OneRow, EmptyTable
<1> HIDE DEF one
<1>16. /\ base \in Seq(RefundRow) /\ base # << >>
       /\ \A k \in DOMAIN base : FiadoRow(base[k], insts, tip) /\ base[k].pieces = 0
       /\ refs = << >> => SumRows(base, Service) = SumRows(insts, Service)
       /\ refs = << >> /\ insts # << >> /\ Earned(insts) => \A k \in DOMAIN base : base[k].installment # 0
  <2>1. CASE some = << >>
    <3>1. base = one
      BY <2>1
    <3>2. SumRows(some, Service) = 0
      BY <1>15, <2>1
    <3> HIDE DEF base
    <3> QED  BY <1>8, <1>9, <1>12, <1>13, <1>14, <1>15, <2>1, <3>1, <3>2
  <2>2. CASE some # << >>
    <3>1. base = some
      BY <2>2
    <3> HIDE DEF base
    <3> QED  BY <1>9, <1>11, <1>13, <2>2, <3>1
  <2> QED  BY <2>1, <2>2
<1> HIDE DEF base
<1>17. /\ rows \in Seq(RefundRow) /\ DOMAIN rows = DOMAIN base
       /\ \A k \in DOMAIN base :
            /\ rows[k].payment = base[k].payment /\ rows[k].installment = base[k].installment
            /\ rows[k].product = base[k].product /\ rows[k].service = base[k].service
  BY <1>4, <1>5, <1>16, WithPiecesRows
<1>18. /\ \A k \in DOMAIN base :
            /\ rows[k].method = base[k].method /\ rows[k].saleRecognized = base[k].saleRecognized
            /\ rows[k].serviceRecognized = base[k].serviceRecognized
            /\ rows[k].repassed = base[k].repassed
       /\ SumRows(rows, Pieces) = NonNegative(left)
  BY <1>4, <1>5, <1>16, PiecesOnFirst
<1>19. SumRows(rows, Service) = SumRows(base, Service)
  BY <1>17, SameAmounts
<1>20. \A k \in DOMAIN rows : FiadoRow(rows[k], insts, tip)
  BY <1>16, <1>17, <1>18 DEF FiadoRow, OfSomeInstallment, OfNothing
<1>21. rows # << >>
  BY <1>16, <1>17
<1> QED  BY <1>16, <1>17, <1>18, <1>19, <1>20, <1>21 DEF FiadoRows, rows, insts, refs, tip, left


(* The whole refund of a fiado that gave nothing back before.              *)
LEMMA UndoneColumns ==
  ASSUME NEW acc \in AccountRecord
  PROVE  LET u == Undone(acc)
         IN /\ u.status = "cancelado" /\ u.balance = 0 /\ u.product = acc.product
            /\ u.service = acc.service /\ u.total = acc.total /\ u.pieces = acc.pieces
            /\ u.createdIn = acc.createdIn
BY DEF Undone, AccountRecord

LEMMA UndoneFiadoFits ==
  ASSUME NEW acc \in AccountRecord, NEW insts \in Seq(InstallmentRow), NEW rows, NEW tip,
         FiadoRows(rows, insts, << >>, acc, tip), SettlesAll(rows, insts, << >>)
  PROVE  UndoneFiado(Undone(acc), insts, rows)
<1> DEFINE u == Undone(acc)
           none == << >>
<1>1. u.balance = 0 /\ u.pieces = acc.pieces
  BY UndoneColumns
<1> HIDE DEF u
<1>2. SumRows(rows, Pieces) = acc.pieces
  <2>1. acc.pieces \in Nat
    BY AccountColumns, Livro_Bounds
  <2>2. SumRows(none, Pieces) = 0
    BY EmptyTable
  <2>3. SumRows(rows, Pieces) = NonNegative(acc.pieces - SumRows(none, Pieces))
    BY DEF FiadoRows
  <2> HIDE DEF none
  <2> QED  BY <2>1, <2>2, <2>3 DEF NonNegative
<1>3. \A i \in DOMAIN rows :
        /\ rows[i].payment = 0 /\ rows[i].saleRecognized
        /\ rows[i].repassed => rows[i].serviceRecognized
  BY DEF FiadoRows, FiadoRow
<1>4. \A j \in DOMAIN insts :
        /\ SumOf(rows, Settling(rows, j), Product) = insts[j].product - SumOf(none, Settling(none, j), Product)
        /\ SumOf(rows, Settling(rows, j), Service) = insts[j].service - SumOf(none, Settling(none, j), Service)
  BY DEF SettlesAll
<1>5. \A j \in DOMAIN insts :
        SumOf(none, Settling(none, j), Product) = 0 /\ SumOf(none, Settling(none, j), Service) = 0
  <2>1. DOMAIN none = {}
    OBVIOUS
  <2> HIDE DEF none
  <2> QED  BY <2>1, UnsettledTable
<1> HIDE DEF none
<1>6. rows # << >>
  BY DEF FiadoRows
<1>7. \A j \in DOMAIN insts : insts[j].product \in Nat /\ insts[j].service \in Nat
  BY InstallmentTable DEF MoneyRows
<1>8. \A j \in DOMAIN insts :
        /\ SumOf(rows, Settling(rows, j), Product) = insts[j].product
        /\ SumOf(rows, Settling(rows, j), Service) = insts[j].service
  BY <1>4, <1>5, <1>7
<1> QED  BY <1>1, <1>2, <1>3, <1>6, <1>8 DEF UndoneFiado, u

LEMMA PrefixOfSum ==
  ASSUME NEW n \in Nat, NEW g, g \in [1..n -> Nat], NEW i \in 1..n
  PROVE  UpTo(g, i) <= SumF(g)
<1> DEFINE D == 1..n
           P == 1..i
<1>1. IsFiniteSet(D) /\ P \in SUBSET D
  BY FS_Interval
<1>2. IsFiniteSet(P) /\ IsFiniteSet(D \ P)
  BY <1>1, FS_Subset, FS_Difference
<1>3. /\ [x \in P |-> g[x]] \in [P -> Nat] /\ [x \in D \ P |-> g[x]] \in [D \ P -> Nat]
  BY <1>1
<1> HIDE DEF D
<1>4. SumF(g) = SumF([x \in P |-> g[x]]) + SumF([x \in D \ P |-> g[x]])
  BY <1>1, SumSplit DEF D
<1>5. SumF([x \in P |-> g[x]]) \in Nat /\ SumF([x \in D \ P |-> g[x]]) \in Nat
  BY <1>2, <1>3, SumType
<1>6. UpTo(g, i) = SumF([x \in P |-> g[x]])
  BY DEF UpTo
<1> QED  BY <1>4, <1>5, <1>6

(* A fiado recognizes its tip exactly when its installments reach its      *)
(* total.                                                                  *)
LEMMA TipWhenPaid ==
  ASSUME LedgerInv, NEW a \in Accounts, account[a].status \in {"pendente", "pago"},
         Balanced(account[a], installments[a]), Earned(installments[a])
  PROVE  TipRecognized(a) <=> PaidInFull(account[a], installments[a])
<1> DEFINE acc == account[a]
           insts == installments[a]
           n == Len(insts)
           g == [i \in 1..n |-> Gross(insts[i])]
           reached == {i \in DOMAIN insts : PaidUpTo(a, i) >= acc.total}
<1>1. acc \in AccountRecord /\ insts \in Seq(InstallmentRow)
  BY AccountFacts
<1>2. acc.total \in Nat /\ acc.paid \in Nat /\ acc.balance \in Nat
  BY <1>1, AccountColumns
<1>3. n \in Nat /\ DOMAIN insts = 1..n /\ g \in [1..n -> Nat]
  BY <1>1, InstallmentTable DEF MoneyRows, Gross
<1>4. \A i \in 1..n : g[i] > 0
  BY <1>3 DEF Earned, Gross
<1>5. SumRows(insts, Gross) = SumF(g)
  <2>1. [i \in DOMAIN insts |-> Gross(insts[i])] = g
    BY <1>3
  <2> QED  BY <2>1 DEF SumRows, SumOf
<1>6. \A i \in 1..n : PaidUpTo(a, i) = UpTo(g, i)
  <2> TAKE i \in 1..n
  <2>1. [q \in 1..i |-> g[q]] = [q \in 1..i |-> Gross(insts[q])]
    BY <1>3
  <2> QED  BY <2>1 DEF PaidUpTo, SumOf, UpTo
<1>7. /\ acc.paid = SumF(g) /\ acc.paid + acc.balance = acc.total
      /\ (acc.status = "pago") <=> (acc.balance = 0)
  BY <1>5 DEF Balanced
<1>8. Payoff(a) = IF reached = {} THEN 0 ELSE CHOOSE i \in reached : \A j \in reached : i <= j
  BY DEF Payoff
<1> HIDE DEF acc, insts, n, g
<1>9. reached # {} => Payoff(a) # 0
  <2> SUFFICES ASSUME reached # {} PROVE Payoff(a) # 0
    OBVIOUS
  <2>1. reached \in SUBSET Nat /\ \A i \in reached : i # 0
    BY <1>3
  <2> HIDE DEF reached
  <2>2. \E x \in reached : \A y \in reached : x <= y
    BY <2>1, LeastNumber
  <2> QED  BY <1>8, <2>1, <2>2
<1>10. PaidInFull(acc, insts) <=> acc.total > 0 /\ reached # {}
  BY DEF PaidInFull, PaidUpTo, insts, acc
<1>11. \A i \in 1..n : g[i] <= SumF(g) /\ UpTo(g, i) <= SumF(g)
  <2> TAKE i \in 1..n
  <2>1. IsFiniteSet(1..n)
    BY <1>3, FS_Interval
  <2>2. g[i] <= SumF(g)
    BY <1>3, <2>1, MemberOfSum
  <2>3. UpTo(g, i) <= SumF(g)
    BY <1>3, <2>1, PrefixOfSum
  <2> QED  BY <2>2, <2>3
<1>12. ASSUME TipRecognized(a) PROVE acc.total > 0 /\ reached # {}
  <2>1. acc.balance = 0 /\ reached # {}
    BY <1>8, <1>12 DEF TipRecognized, acc
  <2>2. PICK i \in reached : TRUE
    BY <2>1
  <2>3. i \in 1..n
    BY <1>3, <2>2
  <2> HIDE DEF reached
  <2>4. g[i] \in Nat /\ g[i] > 0 /\ g[i] <= SumF(g)
    BY <1>3, <1>4, <1>11, <2>3
  <2> QED  BY <1>2, <1>7, <2>1, <2>4
<1>13. ASSUME acc.total > 0, reached # {} PROVE TipRecognized(a)
  <2>1. PICK i \in reached : TRUE
    BY <1>13
  <2>2. i \in 1..n /\ PaidUpTo(a, i) >= acc.total
    BY <1>3, <2>1
  <2> HIDE DEF reached
  <2>3. UpTo(g, i) >= acc.total /\ UpTo(g, i) <= SumF(g)
    BY <1>6, <1>11, <2>2
  <2>4. UpTo(g, i) \in Nat
    BY <1>3, <2>2, UpToLaws
  <2>5. acc.balance = 0
    BY <1>2, <1>7, <2>3, <2>4
  <2> QED  BY <1>7, <1>9, <1>13, <2>5 DEF TipRecognized, acc
<1> HIDE DEF reached
<1> QED  BY <1>10, <1>12, <1>13 DEF acc, insts

LEMMA TipSettled ==
  ASSUME LedgerInv, NEW a \in Accounts, account[a].status \in {"pendente", "pago"},
         Balanced(account[a], installments[a]), Earned(installments[a]), NEW rows,
         FiadoRows(rows, installments[a], << >>, account[a], TipRecognized(a))
  PROVE  TipGivenBack(Undone(account[a]), installments[a], rows)
<1> DEFINE old == account[a]
           acc == Undone(old)
           insts == installments[a]
           tip == TipRecognized(a)
           D == DOMAIN rows
           f == [i \in D |-> Service(rows[i])]
           R == Tipped(rows)
<1>1. old \in AccountRecord /\ insts \in Seq(InstallmentRow) /\ rows \in Seq(RefundRow)
  BY AccountFacts DEF FiadoRows
<1>2. acc.service = old.service /\ acc.total = old.total
  BY <1>1, UndoneColumns
<1>3. tip <=> PaidInFull(old, insts)
  BY TipWhenPaid
<1>4. SumRows(rows, Service) = SumRows(insts, Service)
  BY DEF FiadoRows
<1>5. insts # << >> => \A k \in DOMAIN rows : rows[k].installment # 0
  BY DEF FiadoRows
<1>6. /\ IsFiniteSet(D) /\ f \in [D -> Nat] /\ R \in SUBSET D
  <2>1. Len(rows) \in Nat /\ D = 1..Len(rows) /\ \A i \in 1..Len(rows) : rows[i].service \in Nat
    <3>1. MoneyRows(rows, Len(rows)) /\ Len(rows) \in Nat
      BY <1>1, RefundTable
    <3> QED  BY <3>1 DEF MoneyRows
  <2>2. IsFiniteSet(D)
    BY <2>1, FS_Interval
  <2>3. \A i \in D : Service(rows[i]) \in Nat
    BY <2>1 DEF Service
  <2>4. f \in [D -> Nat]
    BY <2>3
  <2> QED  BY <2>2, <2>4 DEF Tipped
<1>7. SumRows(rows, Service) = SumF(f) /\ SumOf(rows, R, Service) = SumF([i \in R |-> f[i]])
  <2>1. [i \in R |-> f[i]] = [i \in R |-> Service(rows[i])]
    BY <1>6
  <2> QED  BY <2>1 DEF SumRows, SumOf
<1>8. tip => SumRows(insts, Service) = old.service
  <2> SUFFICES ASSUME tip PROVE SumRows(insts, Service) = old.service
    OBVIOUS
  <2>1. old.balance = 0 /\ old.status = "pago"
    BY DEF TipRecognized
  <2>2. /\ old.total = old.product + old.service /\ old.paid = SumRows(insts, Gross)
        /\ old.paid + old.balance = old.total
        /\ SumRows(insts, Product) <= old.product /\ SumRows(insts, Service) <= old.service
    BY DEF Balanced
  <2>3. /\ SumRows(insts, Product) \in Nat /\ SumRows(insts, Service) \in Nat
        /\ SumRows(insts, Gross) = SumRows(insts, Product) + SumRows(insts, Service)
    BY <1>1, InstallmentTotals
  <2>4. old.product \in Nat /\ old.service \in Nat
    BY <1>1, AccountColumns
  <2> HIDE DEF old, insts, tip
  <2> QED  BY <2>1, <2>2, <2>3, <2>4
<1>9. /\ tip => \A i \in D \ R : f[i] = 0
      /\ ~tip => R = {}
  BY DEF FiadoRows, FiadoRow, Tipped, Service
<1>10. SumOf(rows, {}, Service) = 0
  BY NoRows
<1> HIDE DEF tip, f, R, D, old, insts
<1>11. tip => SumOf(rows, R, Service) = SumRows(rows, Service)
  BY <1>6, <1>7, <1>9, SumIgnore
<1>12. SumOf(rows, R, Service) = IF tip THEN old.service ELSE 0
  BY <1>4, <1>8, <1>9, <1>10, <1>11
<1>13. PaidInFull(acc, insts) <=> PaidInFull(old, insts)
  BY <1>2 DEF PaidInFull
<1> HIDE DEF acc
<1> QED  BY <1>2, <1>3, <1>5, <1>12, <1>13 DEF TipGivenBack, acc, old, insts, R


(* What the whole refund of a fiado leaves.                                *)
LEMMA FiadoUndone ==
  ASSUME LedgerInv, SalesInv, sessionOpen, NEW a \in Accounts,
         account[a].status \in {"pendente", "pago"}, Apart => refunds[a] = << >>,
         Apart /\ Price # 0 => FiadoInv
  PROVE  FiadoFits(Undone(account[a]), installments[a], refunds[a] \o RefundOfFiado(a))
<1> DEFINE old == account[a]
           acc == Undone(old)
           insts == installments[a]
           refs == refunds[a]
           rows == RefundOfFiado(a)
           q == refs \o rows
<1>1. old \in AccountRecord /\ insts \in Seq(InstallmentRow) /\ FiadoFits(old, insts, refs)
  BY AccountFacts DEF SalesInv
<1>2. PricedFiado(acc)
  BY <1>1, UndoneColumns DEF FiadoFits, PricedFiado
<1>3. /\ FiadoRows(rows, insts, refs, old, TipRecognized(a)) /\ SettlesAll(rows, insts, refs)
  BY FiadoRefundSale, FiadoRefundRows
<1>4. Apart => UndoneFiado(acc, insts, q)
  <2> SUFFICES ASSUME Apart PROVE UndoneFiado(acc, insts, q)
    OBVIOUS
  <2>1. refs = << >> /\ rows \in Seq(RefundRow)
    BY <1>3 DEF FiadoRows
  <2>2. q = rows
    BY <2>1
  <2> HIDE DEF q, rows, refs, acc, insts
  <2>3. UndoneFiado(acc, insts, rows)
    BY <1>1, <1>3, <2>1, UndoneFiadoFits DEF acc
  <2> QED  BY <2>2, <2>3
<1>5. Apart /\ Price # 0 => TipGivenBack(acc, insts, q)
  <2> SUFFICES ASSUME Apart, Price # 0 PROVE TipGivenBack(acc, insts, q)
    OBVIOUS
  <2>1. refs = << >> /\ rows \in Seq(RefundRow)
    BY <1>3 DEF FiadoRows
  <2>2. q = rows
    BY <2>1
  <2>3. Balanced(old, insts)
    BY DEF FiadoInv
  <2>4. Earned(insts)
    BY <1>1 DEF FiadoFits, SomethingPaid, Earned
  <2>5. FiadoRows(rows, insts, << >>, old, TipRecognized(a))
    BY <1>3, <2>1
  <2> HIDE DEF q, rows, refs
  <2>6. TipGivenBack(acc, insts, rows)
    BY <2>3, <2>4, <2>5, TipSettled
  <2> QED  BY <2>2, <2>6
<1> HIDE DEF old, acc, insts, refs, rows, q
<1>6. FiadoFits(acc, insts, q)
  BY <1>1, <1>2, <1>4, <1>5 DEF FiadoFits
<1> QED  BY <1>6 DEF old, acc, insts, refs, rows, q

LEMMA NamedFiado ==
  ASSUME LedgerInv, sessionOpen, NEW a \in Accounts, NEW pays,
         Named(pays, installments[a], refunds[a])
  PROVE  Named(pays, installments[a], refunds[a] \o RefundOfFiado(a))
<1> DEFINE insts == installments[a]
           refs == refunds[a]
           rows == RefundOfFiado(a)
           q == refs \o rows
<1>1. FiadoRows(rows, insts, refs, account[a], TipRecognized(a))
  BY FiadoRefundSale
<1>2. rows \in Seq(RefundRow) /\ refs \in Seq(RefundRow)
  BY <1>1, AccountFacts DEF FiadoRows
<1>3. \A k \in DOMAIN rows : OfSomeInstallment(rows[k], insts) \/ OfNothing(rows[k])
  BY <1>1 DEF FiadoRows, FiadoRow
<1>4. RefundsGrow(refs, rows, q)
  BY <1>2, GrownRefunds
<1> HIDE DEF insts, refs, rows, q
<1>5. Named(pays, insts, q)
  BY <1>3, <1>4 DEF Named, RefundsGrow, refs, insts
<1> QED  BY <1>5 DEF q, refs, rows, insts

LEMMA EstornarFiadoSells ==
  ASSUME LedgerInv, SalesInv, Apart /\ Price # 0 => FiadoInv, NEW o \in Orders, EstornarFiado(o)
  PROVE  SalesInv'
<1> DEFINE old == order[o]
           ord == [old EXCEPT !.estorno = TRUE]
           acc == Undone(account[o])
           insts == installments[o]
           refs == refunds[o]
           pays == payments[o]
           q == refs \o RefundOfFiado(o)
<1>1. /\ sessionOpen /\ old.fiado /\ ~old.estorno /\ GiveBack(o, RefundOfFiado(o))
      /\ order' = [order EXCEPT ![o] = ord] /\ account' = [account EXCEPT ![o] = acc]
      /\ UNCHANGED <<payments, installments>>
  BY DEF EstornarFiado, Cancelled, Undone
<1>2. /\ o \in Accounts /\ o \notin Direct /\ old \in OrderRecord /\ account[o] \in AccountRecord
      /\ StatusFits(old, pays, account[o], insts, refs)
  BY SaleFacts, Livro_Rows DEF OrderFits
<1>3. SaleFits(o, old, pays, account[o], insts, refs)
  BY DEF SalesInv
<1>4. account[o].status \in {"pendente", "pago"}
  BY <1>1, <1>2, <1>3 DEF SaleFits, AccountRecord
<1>5. Apart => refs = << >>
  BY <1>1, <1>3, <1>4 DEF SaleFits, LiveFiado
<1>6. FiadoFits(acc, insts, q)
  BY <1>1, <1>2, <1>4, <1>5, FiadoUndone
<1>7. Named(pays, insts, q)
  BY <1>1, <1>2, <1>3, NamedFiado DEF SaleFits
<1>8. /\ ord.estorno /\ ord.fiado /\ ord.status = old.status /\ ord.total = old.total
      /\ ord.pieces = old.pieces /\ ord.closedIn = old.closedIn /\ old.status = "finalizada"
  BY <1>1, <1>2 DEF StatusFits, OrderRecord
<1>9. acc.status = "cancelado"
  BY <1>2, UndoneColumns
<1> HIDE DEF acc, ord, old, q
<1>10. Priced(ord, q)
  BY <1>3, <1>8 DEF SaleFits, Priced, Partly
<1>11. SaleFits(o, ord, pays, acc, insts, q)
  BY <1>1, <1>3, <1>7, <1>8, <1>9, <1>10
     DEF SaleFits, OpenSale, ClosedSale, UndoneSale, LiveFiado
<1>12. Elsewhere(o) /\ order'[o] = ord /\ account'[o] = acc /\ refunds'[o] = q
  BY <1>1, <1>2, TableTypes DEF Elsewhere, GiveBack, q
<1>13. payments'[o] = pays /\ installments'[o] = insts
  BY <1>1
<1> HIDE DEF pays, insts
<1> QED  BY <1>2, <1>6, <1>11, <1>12, <1>13, SalesFrame

LEMMA CancelConsignmentSells ==
  ASSUME LedgerInv, SalesInv, Apart /\ Price # 0 => FiadoInv, NEW d \in Direct, CancelConsignment(d)
  PROVE  SalesInv'
<1> DEFINE acc == Undone(account[d])
           insts == installments[d]
           refs == refunds[d]
           q == refs \o RefundOfFiado(d)
<1>1. /\ sessionOpen /\ account[d].status \in {"pendente", "pago"} /\ GiveBack(d, RefundOfFiado(d))
      /\ account' = [account EXCEPT ![d] = acc]
      /\ UNCHANGED <<order, payments, installments>>
  BY DEF CancelConsignment, Cancelled, Undone
<1>2. d \in Accounts /\ d \notin Orders
  BY Livro_Rows DEF Accounts
<1>3. /\ Named(<< >>, insts, refs) /\ LiveFiado(account[d], refs)
  BY DEF SalesInv
<1>4. refs = << >> /\ account[d] \in AccountRecord
  BY <1>1, <1>2, <1>3, AccountFacts DEF LiveFiado
<1>5. FiadoFits(acc, insts, q)
  BY <1>1, <1>2, <1>4, FiadoUndone
<1>6. Named(<< >>, insts, q)
  BY <1>1, <1>2, <1>3, NamedFiado
<1>7. LiveFiado(acc, q)
  BY <1>4, UndoneColumns DEF LiveFiado
<1> HIDE DEF acc, q
<1>8. Elsewhere(d) /\ account'[d] = acc /\ refunds'[d] = q
  BY <1>1, <1>2, TableTypes DEF Elsewhere, GiveBack, q
<1>9. installments'[d] = insts
  BY <1>1
<1> HIDE DEF insts
<1> QED  BY <1>2, <1>5, <1>6, <1>7, <1>8, <1>9, SalesFrame


(* Before a sale opens there is nothing to be wrong about.                 *)
LEMMA SalesStart == Init => SalesInv
<1> SUFFICES ASSUME Init PROVE SalesInv
  OBVIOUS
<1> DEFINE none == << >>
<1>1. /\ \A o \in Orders : order[o] = NoOrder /\ payments[o] = none
      /\ \A a \in Accounts : account[a] = NoAccount /\ installments[a] = none /\ refunds[a] = none
      /\ Orders \subseteq Accounts /\ Direct \subseteq Accounts
  BY DEF Init, Accounts
<1>2. DOMAIN none = {} /\ Early(none) = {} /\ Late(none) = {}
  BY NoRefunds
<1>3. SumRows(none, Product) = 0
  BY NoRefunds
<1>4. /\ NoOrder.status = "nenhuma" /\ NoOrder.total = 0 /\ NoOrder.pieces = 0
      /\ NoOrder.refunded = 0 /\ ~NoOrder.fiado /\ ~NoOrder.estorno
      /\ NoAccount.status = "nenhum" /\ NoAccount.balance = 0
  BY DEF NoOrder, NoAccount
<1> HIDE DEF none
<1>5. Price * 0 = 0
  BY Livro_Amounts
<1>6. Named(none, none, none) /\ SomethingPaid(none) /\ LiveFiado(NoAccount, none)
  BY <1>2 DEF Named, SomethingPaid, LiveFiado
<1>7. \A o \in Orders : SaleFits(o, NoOrder, none, NoAccount, none, none)
  <2>1. Priced(NoOrder, none)
    BY <1>2, <1>4, <1>5 DEF Priced
  <2>2. OpenSale(NoOrder, none, none) /\ ClosedSale(NoOrder, none, none) /\ UndoneSale(NoOrder, none, none)
    BY <1>4 DEF OpenSale, ClosedSale, UndoneSale
  <2> QED  BY <1>4, <1>6, <2>1, <2>2 DEF SaleFits
<1>8. FiadoFits(NoAccount, none, none)
  BY <1>4, <1>6 DEF FiadoFits, PricedFiado, UndoneFiado, TipGivenBack
<1> QED  BY <1>1, <1>6, <1>7, <1>8 DEF SalesInv, none

(* No handler breaks the invariant of the sales.                           *)
LEMMA SalesSteps ==
  LedgerInv /\ (Apart /\ Price # 0 => FiadoInv) /\ SalesInv /\ [Next]_vars => SalesInv'
<1> SUFFICES ASSUME LedgerInv, Apart /\ Price # 0 => FiadoInv, SalesInv, [Next]_vars
             PROVE  SalesInv'
  OBVIOUS
<1>1. CASE OpenSession
  BY <1>1, SameSales DEF OpenSession
<1>2. CASE CloseSession
  BY <1>2, SameSales DEF CloseSession
<1>3. ASSUME NEW o \in Orders,
             \/ OpenOrder(o) \/ AddPiece(o) \/ CancelOrder(o) \/ EstornarVenda(o) \/ EstornarFiado(o)
             \/ \E n \in 1..MaxPieces : RefundPieces(o, n)
             \/ \E charge \in Charges : Convert(o, charge)
             \/ \E charge \in Charges, m \in Methods :
                  \/ Close(o, charge, m)
                  \/ \E n \in 1..MaxPieces : PayPieces(o, n, charge, m)
                  \/ \E amount \in PartialAmounts : PayAmount(o, amount, charge, m)
      PROVE  SalesInv'
  <2>1. CASE OpenOrder(o)
    BY <2>1, OpenOrderSells
  <2>2. CASE AddPiece(o)
    BY <2>2, AddPieceSells
  <2>3. CASE CancelOrder(o)
    BY <2>3, CancelOrderSells
  <2>4. CASE EstornarVenda(o)
    BY <2>4, EstornarVendaSells
  <2>5. CASE EstornarFiado(o)
    BY <2>5, EstornarFiadoSells
  <2>6. ASSUME NEW n \in 1..MaxPieces, RefundPieces(o, n) PROVE SalesInv'
    BY <2>6, RefundPiecesSells
  <2>7. ASSUME NEW charge \in Charges, Convert(o, charge) PROVE SalesInv'
    BY <2>7, ConvertSells
  <2>8. ASSUME NEW charge \in Charges, NEW m \in Methods, Close(o, charge, m) PROVE SalesInv'
    BY <2>8, CloseSells
  <2>9. ASSUME NEW charge \in Charges, NEW m \in Methods, NEW n \in 1..MaxPieces,
               PayPieces(o, n, charge, m)
        PROVE  SalesInv'
    BY <2>9, PayPiecesSells
  <2>10. ASSUME NEW charge \in Charges, NEW m \in Methods, NEW amount \in PartialAmounts,
                PayAmount(o, amount, charge, m)
         PROVE  SalesInv'
    BY <2>10, PayAmountSells
  <2> QED  BY <1>3, <2>1, <2>2, <2>3, <2>4, <2>5, <2>6, <2>7, <2>8, <2>9, <2>10
<1>4. ASSUME NEW d \in Direct, CancelConsignment(d) PROVE SalesInv'
  BY <1>4, CancelConsignmentSells
<1>5. ASSUME NEW d \in Direct, NEW n \in 1..MaxPieces, CreateConsignment(d, n) PROVE SalesInv'
  BY <1>5, CreateConsignmentSells
<1>6. ASSUME NEW a \in Accounts, NEW amount \in Installments, NEW m \in Methods,
             PayInstallment(a, amount, m)
      PROVE  SalesInv'
  BY <1>6, PayInstallmentSells
<1>7. CASE UNCHANGED vars
  BY <1>7, SameSales DEF vars
<1> QED  BY <1>1, <1>2, <1>3, <1>4, <1>5, <1>6, <1>7 DEF Next

(* Every sale fits its tables, whatever the handlers do.                   *)
THEOREM SalesFit == Spec => [](LedgerInv /\ (Apart /\ Price # 0 => FiadoInv) /\ SalesInv)
<1> DEFINE J == LedgerInv /\ (Apart /\ Price # 0 => FiadoInv) /\ SalesInv
<1>1. Init => J
  BY LedgerStarts, FiadoStarts, SalesStart
<1>2. J /\ [Next]_vars => J'
  <2> SUFFICES ASSUME J, [Next]_vars PROVE J'
    OBVIOUS
  <2>1. LedgerInv'
    BY LedgerSteps
  <2>2. SalesInv'
    BY SalesSteps
  <2>3. Apart /\ Price # 0 => FiadoInv'
    BY FiadoSteps DEF Apart
  <2>4. (Apart /\ Price # 0 => FiadoInv)' <=> (Apart /\ Price # 0 => FiadoInv')
    BY DEF Apart
  <2> QED  BY <2>1, <2>2, <2>3, <2>4
<1> QED  BY <1>1, <1>2, PTL DEF Spec


-----------------------------------------------------------------------------
(* What the reports add up.                                                *)

(* A sum of gains and losses is the gains less the losses.                 *)
Differences(S, f, g, h) ==
  /\ g \in [S -> Nat] /\ h \in [S -> Nat]
  /\ \A x \in S : f[x] = g[x] - h[x]

LEMMA BalanceLaw ==
  ASSUME NEW S, IsFiniteSet(S), NEW f, NEW g, NEW h, Differences(S, f, g, h)
  PROVE  SumF([x \in S |-> NonNegative(f[x])]) - SumF([x \in S |-> NonNegative(-f[x])])
           = SumF(g) - SumF(h)
<1> DEFINE p == [x \in S |-> NonNegative(f[x])]
           q == [x \in S |-> NonNegative(-f[x])]
<1>1. g \in [S -> Nat] /\ h \in [S -> Nat]
  BY DEF Differences
<1>2. ASSUME NEW x \in S
      PROVE  NonNegative(f[x]) \in Nat /\ NonNegative(-f[x]) \in Nat
             /\ NonNegative(f[x]) + h[x] = NonNegative(-f[x]) + g[x]
  <2>1. f[x] = g[x] - h[x] /\ g[x] \in Nat /\ h[x] \in Nat
    BY <1>1 DEF Differences
  <2> QED  BY <2>1 DEF NonNegative
<1>3. p \in [S -> Nat] /\ q \in [S -> Nat]
  BY <1>2
<1>4. \A x \in S : p[x] + h[x] = q[x] + g[x]
  BY <1>2
<1> HIDE DEF p, q
<1>5. [x \in S |-> p[x] + h[x]] = [x \in S |-> q[x] + g[x]]
  BY <1>4
<1>6. SumF(p) + SumF(h) = SumF(q) + SumF(g)
  <2>1. SumF([x \in S |-> p[x] + h[x]]) = SumF(p) + SumF(h)
    BY <1>1, <1>3, SumAdditive
  <2>2. SumF([x \in S |-> q[x] + g[x]]) = SumF(q) + SumF(g)
    BY <1>1, <1>3, SumAdditive
  <2> QED  BY <1>5, <2>1, <2>2
<1>7. SumF(p) \in Nat /\ SumF(q) \in Nat /\ SumF(g) \in Nat /\ SumF(h) \in Nat
  BY <1>1, <1>3, SumType
<1> QED  BY <1>6, <1>7 DEF p, q

(* A sum over rows is the sum, over the parts they fall in, of the rows of *)
(* each part: sessions, methods, sales.                                    *)
LEMMA InParts ==
  ASSUME NEW D, IsFiniteSet(D), NEW P, IsFiniteSet(P), NEW h, h \in [D -> P],
         NEW c, c \in [D -> Nat]
  PROVE  LET s == [p \in P |-> SumF([x \in {x \in D : h[x] = p} |-> c[x]])]
         IN s \in [P -> Nat] /\ SumF(s) = SumF(c)
<1>1. GroupSums(h, c, D, P) = [p \in P |-> SumF([x \in {x \in D : h[x] = p} |-> c[x]])]
  BY DEF GroupSums, GroupOf, SumOn
<1>2. GroupSums(h, c, D, P) \in [P -> Nat] /\ SumF(GroupSums(h, c, D, P)) = SumF(c)
  BY SumPartition
<1> QED  BY <1>1, <1>2

(* Of two columns of the same rows.                                        *)
LEMMA SumOfTwo ==
  ASSUME NEW S, IsFiniteSet(S), NEW f, f \in [S -> Nat], NEW g, g \in [S -> Nat],
         NEW k, \A x \in S : k[x] = f[x] + g[x], k = [x \in S |-> k[x]]
  PROVE  SumF(k) = SumF(f) + SumF(g)
<1>1. k = [x \in S |-> f[x] + g[x]]
  OBVIOUS
<1> QED  BY <1>1, SumAdditive

(* The rows of a report are finitely many, each of its kind.               *)
LEMMA ReportRows ==
  ASSUME LedgerInv, NEW T
  PROVE  /\ IsFiniteSet(DirectPayments(T)) /\ IsFiniteSet(InstallmentsIn(T))
         /\ IsFiniteSet(RefundsIn(T)) /\ IsFiniteSet(LoopRefunds(T))
         /\ IsFiniteSet(DirectSales(T)) /\ IsFiniteSet(Fiados(T))
         /\ \A r \in DirectPayments(T) :
              /\ r[1] \in Orders /\ r[2] \in DOMAIN payments[r[1]] /\ r = <<r[1], r[2]>>
              /\ PaymentAt(r) \in PaymentRow
         /\ \A r \in InstallmentsIn(T) :
              /\ r[1] \in Accounts /\ r[2] \in DOMAIN installments[r[1]] /\ r = <<r[1], r[2]>>
              /\ InstallmentAt(r) \in InstallmentRow
         /\ \A r \in RefundsIn(T) :
              /\ r[1] \in Accounts /\ r[2] \in DOMAIN refunds[r[1]] /\ r = <<r[1], r[2]>>
              /\ RefundAt(r) \in RefundRow
         /\ LoopRefunds(T) \subseteq RefundsIn(T)
<1>1. /\ IsFiniteSet(OrderRows) /\ IsFiniteSet(InstallmentRows) /\ IsFiniteSet(RefundRows)
      /\ IsFiniteSet(Orders) /\ IsFiniteSet(Accounts)
  BY AllRows, FiniteSales DEF LedgerInv
<1>2. /\ DirectPayments(T) \subseteq OrderRows /\ InstallmentsIn(T) \subseteq InstallmentRows
      /\ RefundsIn(T) \subseteq RefundRows /\ LoopRefunds(T) \subseteq RefundsIn(T)
      /\ DirectSales(T) \subseteq Orders /\ Fiados(T) \subseteq Accounts
  BY DEF DirectPayments, InstallmentsIn, RefundsIn, LoopRefunds, SaleRefunds, DirectSales, Fiados
<1>3. /\ IsFiniteSet(DirectPayments(T)) /\ IsFiniteSet(InstallmentsIn(T))
      /\ IsFiniteSet(RefundsIn(T)) /\ IsFiniteSet(LoopRefunds(T))
      /\ IsFiniteSet(DirectSales(T)) /\ IsFiniteSet(Fiados(T))
  BY <1>1, <1>2, FS_Subset
<1>4. /\ \A r \in OrderRows : /\ r[1] \in Orders /\ r[2] \in DOMAIN payments[r[1]]
                              /\ PaymentAt(r) \in PaymentRow /\ r = <<r[1], r[2]>>
      /\ \A r \in InstallmentRows : /\ r[1] \in Accounts /\ r[2] \in DOMAIN installments[r[1]]
                                    /\ InstallmentAt(r) \in InstallmentRow /\ r = <<r[1], r[2]>>
      /\ \A r \in RefundRows : /\ r[1] \in Accounts /\ r[2] \in DOMAIN refunds[r[1]]
                               /\ RefundAt(r) \in RefundRow /\ r = <<r[1], r[2]>>
  BY AllRows DEF LedgerInv
<1> QED  BY <1>2, <1>3, <1>4

(* The loops and the queries leave out the same refunds.                   *)
LEMMA LoopsAndQueries ==
  ASSUME LedgerInv, NEW T
  PROVE  LoopRefunds(T) = QueryRefunds(T)
<1>1. \A r \in SaleRefunds(T) : r[1] \in Accounts
  BY ReportRows DEF SaleRefunds
<1>2. \A r \in SaleRefunds(T) : ~FromEstornadaOrder(r) <=> ReversesActiveSale(r)
  BY <1>1, Livro_Rows DEF FromEstornadaOrder, ReversesActiveSale, Accounts
<1> QED  BY <1>2 DEF LoopRefunds, QueryRefunds

(* What a report adds up is a number.                                      *)
LEMMA ReportSums ==
  ASSUME LedgerInv, NEW T
  PROVE  /\ DirectTotal(T) \in Nat /\ InstallmentProduct(T) \in Nat /\ DirectService(T) \in Nat
         /\ Sum(LoopRefunds(T), LAMBDA r : RefundAt(r).product) \in Nat
         /\ Sum(LoopRefunds(T), LAMBDA r : RefundAt(r).pieces) \in Nat
         /\ Sum(DirectSales(T), LAMBDA o : order[o].pieces) \in Nat
         /\ Sum(Fiados(T), LAMBDA a : account[a].pieces) \in Nat
<1>1. \A r \in RefundsIn(T) : RefundAt(r).product \in Nat /\ RefundAt(r).pieces \in Nat
  BY ReportRows, RowTypes
<1>2. \A r \in LoopRefunds(T) : RefundAt(r).product \in Nat /\ RefundAt(r).pieces \in Nat
  BY <1>1, ReportRows
<1>3. \A r \in InstallmentsIn(T) : InstallmentAt(r).product \in Nat
  BY ReportRows, RowTypes
<1>4. \A r \in DirectPayments(T) : PaymentAt(r).service \in Nat
  BY ReportRows, RowTypes
<1>5. \A o \in DirectSales(T) : order[o].total \in Nat /\ order[o].pieces \in Nat
  BY SaleFacts, OrderFields DEF DirectSales
<1>6. \A a \in Fiados(T) : account[a].pieces \in Nat
  BY AccountFacts, AccountColumns, Livro_Bounds DEF Fiados
<1>7. /\ [o \in DirectSales(T) |-> order[o].total] \in [DirectSales(T) -> Nat]
      /\ [o \in DirectSales(T) |-> order[o].pieces] \in [DirectSales(T) -> Nat]
      /\ [a \in Fiados(T) |-> account[a].pieces] \in [Fiados(T) -> Nat]
      /\ [r \in InstallmentsIn(T) |-> InstallmentAt(r).product] \in [InstallmentsIn(T) -> Nat]
      /\ [r \in DirectPayments(T) |-> PaymentAt(r).service] \in [DirectPayments(T) -> Nat]
      /\ [r \in LoopRefunds(T) |-> RefundAt(r).product] \in [LoopRefunds(T) -> Nat]
      /\ [r \in LoopRefunds(T) |-> RefundAt(r).pieces] \in [LoopRefunds(T) -> Nat]
  BY <1>2, <1>3, <1>4, <1>5, <1>6
<1> QED  BY <1>7, ReportRows, SumType DEF DirectTotal, InstallmentProduct, DirectService, Sum


(* The money of a report by method, and by session.                        *)
PaidBy(T, m) == Sum({r \in DirectPayments(T) : PaymentAt(r).method = m},
                    LAMBDA r : Gross(PaymentAt(r)))
PaidOffBy(T, m) == Sum({r \in InstallmentsIn(T) : InstallmentAt(r).method = m},
                       LAMBDA r : Gross(InstallmentAt(r)))
BackBy(T, m) == Sum({r \in RefundsIn(T) : RefundAt(r).method = m /\ Gross(RefundAt(r)) > 0},
                    LAMBDA r : Gross(RefundAt(r)))
PaidFee(T, m) == Sum({r \in DirectPayments(T) : PaymentAt(r).method = m},
                     LAMBDA r : PaymentAt(r).fee)
PaidOffFee(T, m) == Sum({r \in InstallmentsIn(T) : InstallmentAt(r).method = m},
                        LAMBDA r : InstallmentAt(r).fee)

LEMMA MethodColumns ==
  ASSUME NEW T, NEW m
  PROVE  /\ ByMethod(T, m).gross = PaidBy(T, m) + PaidOffBy(T, m) - BackBy(T, m)
         /\ ByMethod(T, m).fee = PaidFee(T, m) + PaidOffFee(T, m)
BY DEF ByMethod, PaidBy, PaidOffBy, BackBy, PaidFee, PaidOffFee

(* The payments of a report, by method.                                    *)
LEMMA PaidByMethod ==
  ASSUME LedgerInv, NEW T
  PROVE  /\ [m \in Methods |-> PaidBy(T, m)] \in [Methods -> Nat]
         /\ SumF([m \in Methods |-> PaidBy(T, m)])
              = SumF([r \in DirectPayments(T) |-> Gross(PaymentAt(r))])
         /\ [m \in Methods |-> PaidFee(T, m)] \in [Methods -> Nat]
         /\ SumF([m \in Methods |-> PaidFee(T, m)])
              = SumF([r \in DirectPayments(T) |-> Fee(PaymentAt(r))])
<1> DEFINE D == DirectPayments(T)
           h == [r \in D |-> PaymentAt(r).method]
           c == [r \in D |-> Gross(PaymentAt(r))]
           k == [r \in D |-> Fee(PaymentAt(r))]
           s == [m \in Methods |-> SumF([r \in {r \in D : h[r] = m} |-> c[r]])]
           w == [m \in Methods |-> SumF([r \in {r \in D : h[r] = m} |-> k[r]])]
<1>1. /\ IsFiniteSet(D) /\ IsFiniteSet(Methods)
      /\ \A r \in D : PaymentAt(r) \in PaymentRow
  BY ReportRows, Livro_Methods DEF Methods
<1>2. \A r \in D : /\ PaymentAt(r).method \in Methods /\ Gross(PaymentAt(r)) \in Nat
                   /\ Fee(PaymentAt(r)) \in Nat
  BY <1>1, RowMoney DEF PaymentRow
<1>3. h \in [D -> Methods] /\ c \in [D -> Nat] /\ k \in [D -> Nat]
  BY <1>2
<1>4. [m \in Methods |-> PaidBy(T, m)] = s
  <2>1. ASSUME NEW m \in Methods
        PROVE  PaidBy(T, m) = SumF([r \in {r \in D : h[r] = m} |-> c[r]])
    <3>1. {r \in DirectPayments(T) : PaymentAt(r).method = m} = {r \in D : h[r] = m}
      OBVIOUS
    <3>2. [r \in {r \in D : h[r] = m} |-> Gross(PaymentAt(r))] = [r \in {r \in D : h[r] = m} |-> c[r]]
      OBVIOUS
    <3> QED  BY <3>1, <3>2 DEF PaidBy, Sum
  <2> HIDE DEF h, c
  <2> QED  BY <2>1
<1>5. [m \in Methods |-> PaidFee(T, m)] = w
  <2>1. ASSUME NEW m \in Methods
        PROVE  PaidFee(T, m) = SumF([r \in {r \in D : h[r] = m} |-> k[r]])
    <3>1. {r \in DirectPayments(T) : PaymentAt(r).method = m} = {r \in D : h[r] = m}
      OBVIOUS
    <3>2. [r \in {r \in D : h[r] = m} |-> PaymentAt(r).fee] = [r \in {r \in D : h[r] = m} |-> k[r]]
      BY DEF Fee
    <3> QED  BY <3>1, <3>2 DEF PaidFee, Sum
  <2> HIDE DEF h, k
  <2> QED  BY <2>1
<1> HIDE DEF h, c, k, D
<1>6. s \in [Methods -> Nat] /\ SumF(s) = SumF(c)
  BY <1>1, <1>3, InParts
<1>7. w \in [Methods -> Nat] /\ SumF(w) = SumF(k)
  BY <1>1, <1>3, InParts
<1> QED  BY <1>4, <1>5, <1>6, <1>7 DEF c, k, D

(* The installments of a report, by method.                                *)
LEMMA PaidOffByMethod ==
  ASSUME LedgerInv, NEW T
  PROVE  /\ [m \in Methods |-> PaidOffBy(T, m)] \in [Methods -> Nat]
         /\ SumF([m \in Methods |-> PaidOffBy(T, m)])
              = SumF([r \in InstallmentsIn(T) |-> Gross(InstallmentAt(r))])
         /\ [m \in Methods |-> PaidOffFee(T, m)] \in [Methods -> Nat]
         /\ SumF([m \in Methods |-> PaidOffFee(T, m)])
              = SumF([r \in InstallmentsIn(T) |-> Fee(InstallmentAt(r))])
<1> DEFINE D == InstallmentsIn(T)
           h == [r \in D |-> InstallmentAt(r).method]
           c == [r \in D |-> Gross(InstallmentAt(r))]
           k == [r \in D |-> Fee(InstallmentAt(r))]
           s == [m \in Methods |-> SumF([r \in {r \in D : h[r] = m} |-> c[r]])]
           w == [m \in Methods |-> SumF([r \in {r \in D : h[r] = m} |-> k[r]])]
<1>1. /\ IsFiniteSet(D) /\ IsFiniteSet(Methods)
      /\ \A r \in D : InstallmentAt(r) \in InstallmentRow
  BY ReportRows, Livro_Methods DEF Methods
<1>2. \A r \in D : /\ InstallmentAt(r).method \in Methods /\ Gross(InstallmentAt(r)) \in Nat
                   /\ Fee(InstallmentAt(r)) \in Nat
  BY <1>1, RowMoney DEF InstallmentRow
<1>3. h \in [D -> Methods] /\ c \in [D -> Nat] /\ k \in [D -> Nat]
  BY <1>2
<1>4. [m \in Methods |-> PaidOffBy(T, m)] = s
  <2>1. ASSUME NEW m \in Methods
        PROVE  PaidOffBy(T, m) = SumF([r \in {r \in D : h[r] = m} |-> c[r]])
    <3>1. {r \in InstallmentsIn(T) : InstallmentAt(r).method = m} = {r \in D : h[r] = m}
      OBVIOUS
    <3>2. [r \in {r \in D : h[r] = m} |-> Gross(InstallmentAt(r))]
            = [r \in {r \in D : h[r] = m} |-> c[r]]
      OBVIOUS
    <3> QED  BY <3>1, <3>2 DEF PaidOffBy, Sum
  <2> HIDE DEF h, c
  <2> QED  BY <2>1
<1>5. [m \in Methods |-> PaidOffFee(T, m)] = w
  <2>1. ASSUME NEW m \in Methods
        PROVE  PaidOffFee(T, m) = SumF([r \in {r \in D : h[r] = m} |-> k[r]])
    <3>1. {r \in InstallmentsIn(T) : InstallmentAt(r).method = m} = {r \in D : h[r] = m}
      OBVIOUS
    <3>2. [r \in {r \in D : h[r] = m} |-> InstallmentAt(r).fee]
            = [r \in {r \in D : h[r] = m} |-> k[r]]
      BY DEF Fee
    <3> QED  BY <3>1, <3>2 DEF PaidOffFee, Sum
  <2> HIDE DEF h, k
  <2> QED  BY <2>1
<1> HIDE DEF h, c, k, D
<1>6. s \in [Methods -> Nat] /\ SumF(s) = SumF(c)
  BY <1>1, <1>3, InParts
<1>7. w \in [Methods -> Nat] /\ SumF(w) = SumF(k)
  BY <1>1, <1>3, InParts
<1> QED  BY <1>4, <1>5, <1>6, <1>7 DEF c, k, D

(* A refund gives money back by a method of payment.                       *)
LEMMA RefundMethod ==
  ASSUME LedgerInv, SalesInv, NEW T, NEW r \in RefundsIn(T), Gross(RefundAt(r)) > 0
  PROVE  RefundAt(r).method \in Methods
<1> DEFINE a == r[1]
           row == RefundAt(r)
<1>1. /\ a \in Accounts /\ r[2] \in DOMAIN refunds[a] /\ row = refunds[a][r[2]]
  BY ReportRows DEF RefundAt
<1>2. a \in Orders \/ a \in Direct
  BY <1>1 DEF Accounts
<1>3. PICK pays : Named(pays, installments[a], refunds[a]) /\ (a \in Orders => pays = payments[a])
                  /\ (a \in Direct => pays = << >>)
  BY <1>2, Livro_Rows DEF SalesInv, SaleFits
<1>4. OfSomePayment(row, pays) \/ OfSomeInstallment(row, installments[a]) \/ OfNothing(row)
  BY <1>1, <1>3 DEF Named
<1>5. ~OfNothing(row)
  BY DEF OfNothing, Gross
<1>6. ASSUME OfSomePayment(row, pays) PROVE row.method \in Methods
  <2>1. row.payment \in DOMAIN pays /\ row.method = pays[row.payment].method
    BY <1>6 DEF OfSomePayment
  <2>2. a \in Orders
    BY <1>2, <1>3, <2>1
  <2>3. payments[a] \in Seq(PaymentRow) /\ pays = payments[a]
    BY <1>3, <2>2, SaleFacts
  <2>4. pays[row.payment] \in PaymentRow
    BY <2>1, <2>3, SeqFacts
  <2> QED  BY <2>1, <2>4 DEF PaymentRow
<1>7. ASSUME OfSomeInstallment(row, installments[a]) PROVE row.method \in Methods
  <2>1. /\ row.installment \in DOMAIN installments[a]
        /\ row.method = installments[a][row.installment].method
    BY <1>7 DEF OfSomeInstallment
  <2>2. installments[a] \in Seq(InstallmentRow)
    BY <1>1, AccountFacts
  <2>3. installments[a][row.installment] \in InstallmentRow
    BY <2>1, <2>2, SeqFacts
  <2> QED  BY <2>1, <2>3 DEF InstallmentRow
<1> QED  BY <1>4, <1>5, <1>6, <1>7

(* The refunds of a report, by method.                                     *)
LEMMA BackByMethod ==
  ASSUME LedgerInv, SalesInv, NEW T
  PROVE  /\ [m \in Methods |-> BackBy(T, m)] \in [Methods -> Nat]
         /\ SumF([m \in Methods |-> BackBy(T, m)]) = GivenBack(T)
<1> DEFINE S == RefundsIn(T)
           f == [r \in S |-> Gross(RefundAt(r))]
           D == {r \in S : Gross(RefundAt(r)) > 0}
           h == [r \in D |-> RefundAt(r).method]
           c == [r \in D |-> f[r]]
           s == [m \in Methods |-> SumF([r \in {r \in D : h[r] = m} |-> c[r]])]
<1>1. /\ IsFiniteSet(S) /\ IsFiniteSet(D) /\ D \in SUBSET S /\ IsFiniteSet(Methods)
      /\ \A r \in S : RefundAt(r) \in RefundRow
  BY ReportRows, Livro_Methods, FS_Subset DEF Methods
<1>2. \A r \in S : Gross(RefundAt(r)) \in Nat
  BY <1>1, RowMoney
<1>3. \A r \in D : RefundAt(r).method \in Methods
  BY RefundMethod
<1>4. f \in [S -> Nat] /\ h \in [D -> Methods] /\ c \in [D -> Nat]
  BY <1>2, <1>3
<1>5. \A r \in S \ D : f[r] = 0
  BY <1>2
<1>6. [m \in Methods |-> BackBy(T, m)] = s
  <2>1. ASSUME NEW m \in Methods
        PROVE  BackBy(T, m) = SumF([r \in {r \in D : h[r] = m} |-> c[r]])
    <3>1. {r \in RefundsIn(T) : RefundAt(r).method = m /\ Gross(RefundAt(r)) > 0}
            = {r \in D : h[r] = m}
      OBVIOUS
    <3>2. [r \in {r \in D : h[r] = m} |-> Gross(RefundAt(r))]
            = [r \in {r \in D : h[r] = m} |-> c[r]]
      OBVIOUS
    <3> QED  BY <3>1, <3>2 DEF BackBy, Sum
  <2> HIDE DEF h, c, f
  <2> QED  BY <2>1
<1>7. GivenBack(T) = SumF(f)
  BY DEF GivenBack, Sum
<1> HIDE DEF h, f, S, D
<1>8. SumF(f) = SumF(c)
  BY <1>1, <1>4, <1>5, SumIgnore
<1> HIDE DEF c
<1>9. IsFiniteSet(D) /\ IsFiniteSet(Methods) /\ h \in [D -> Methods] /\ c \in [D -> Nat]
  BY <1>1, <1>4
<1>10. s \in [Methods -> Nat] /\ SumF(s) = SumF(c)
  BY ONLY <1>9, InParts
<1> QED  BY <1>6, <1>7, <1>8, <1>10

(* Refunds of nothing change no method.                                    *)
LEMMA BreakdownIsByMethod ==
  ASSUME LedgerInv, NEW T, NEW m
  PROVE  /\ PaymentBreakdown(T, m) = ByMethod(T, m).gross
         /\ Sum({r \in RefundsIn(T) : RefundAt(r).method = m}, LAMBDA r : Gross(RefundAt(r)))
              = BackBy(T, m)
<1> DEFINE S == {r \in RefundsIn(T) : RefundAt(r).method = m}
           f == [r \in S |-> Gross(RefundAt(r))]
           D == {r \in RefundsIn(T) : RefundAt(r).method = m /\ Gross(RefundAt(r)) > 0}
<1>1. /\ IsFiniteSet(RefundsIn(T)) /\ \A r \in RefundsIn(T) : RefundAt(r) \in RefundRow
      /\ S \subseteq RefundsIn(T)
  BY ReportRows
<1>2. IsFiniteSet(S) /\ D \in SUBSET S
  BY <1>1, FS_Subset
<1>3. \A r \in S : Gross(RefundAt(r)) \in Nat
  BY <1>1, RowMoney
<1>4. f \in [S -> Nat] /\ \A r \in S \ D : f[r] = 0
  BY <1>3
<1>5. [r \in D |-> f[r]] = [r \in D |-> Gross(RefundAt(r))]
  OBVIOUS
<1>6. PaymentBreakdown(T, m) = PaidBy(T, m) + PaidOffBy(T, m) - SumF(f)
  BY DEF PaymentBreakdown, PaidBy, PaidOffBy, Sum
<1>7. BackBy(T, m) = SumF([r \in D |-> Gross(RefundAt(r))])
  BY DEF BackBy, Sum
<1>8. Sum({r \in RefundsIn(T) : RefundAt(r).method = m}, LAMBDA r : Gross(RefundAt(r))) = SumF(f)
  BY DEF Sum
<1> HIDE DEF S, f, D
<1>9. SumF(f) = SumF([r \in D |-> f[r]])
  BY <1>2, <1>4, SumIgnore
<1> QED  BY <1>5, <1>6, <1>7, <1>8, <1>9, MethodColumns


(* The methods of a report add up to its total, and to its fees.           *)
MethodsAgree(T) ==
  /\ GrossTotal(T) = Balance(Methods, LAMBDA m : ByMethod(T, m).gross)
  /\ CardFees(T) = Sum(Methods, LAMBDA m : ByMethod(T, m).fee)
LEMMA MethodsAddUp ==
  ASSUME LedgerInv, SalesInv, NEW T
  PROVE  MethodsAgree(T)
<1> DEFINE pay == [m \in Methods |-> PaidBy(T, m)]
           off == [m \in Methods |-> PaidOffBy(T, m)]
           back == [m \in Methods |-> BackBy(T, m)]
           both == [m \in Methods |-> PaidBy(T, m) + PaidOffBy(T, m)]
           feep == [m \in Methods |-> PaidFee(T, m)]
           feeo == [m \in Methods |-> PaidOffFee(T, m)]
           fees == [m \in Methods |-> PaidFee(T, m) + PaidOffFee(T, m)]
           f == [m \in Methods |-> ByMethod(T, m).gross]
<1>1. IsFiniteSet(Methods)
  BY Livro_Methods DEF Methods
<1>2. /\ pay \in [Methods -> Nat] /\ off \in [Methods -> Nat] /\ back \in [Methods -> Nat]
      /\ feep \in [Methods -> Nat] /\ feeo \in [Methods -> Nat]
  BY PaidByMethod, PaidOffByMethod, BackByMethod
<1>3. /\ \A m \in Methods : both[m] = pay[m] + off[m]
      /\ \A m \in Methods : fees[m] = feep[m] + feeo[m]
      /\ both = [m \in Methods |-> both[m]] /\ fees = [m \in Methods |-> fees[m]]
  OBVIOUS
<1>4. \A m \in Methods : f[m] = both[m] - back[m] /\ ByMethod(T, m).fee = fees[m]
                         /\ f[m] = ByMethod(T, m).gross
  <2> TAKE m \in Methods
  <2>1. /\ f[m] = ByMethod(T, m).gross /\ both[m] = PaidBy(T, m) + PaidOffBy(T, m)
        /\ back[m] = BackBy(T, m) /\ fees[m] = PaidFee(T, m) + PaidOffFee(T, m)
    OBVIOUS
  <2>2. PaidBy(T, m) \in Nat /\ PaidOffBy(T, m) \in Nat /\ BackBy(T, m) \in Nat
    BY <1>2
  <2> HIDE DEF pay, off, back, both, feep, feeo, fees, f
  <2>3. /\ ByMethod(T, m).gross = PaidBy(T, m) + PaidOffBy(T, m) - BackBy(T, m)
        /\ ByMethod(T, m).fee = PaidFee(T, m) + PaidOffFee(T, m)
    BY MethodColumns
  <2> QED  BY <2>1, <2>2, <2>3
<1>5. /\ SumF(pay) = SumF([r \in DirectPayments(T) |-> Gross(PaymentAt(r))])
      /\ SumF(off) = SumF([r \in InstallmentsIn(T) |-> Gross(InstallmentAt(r))])
      /\ SumF(back) = GivenBack(T)
      /\ SumF(feep) = SumF([r \in DirectPayments(T) |-> Fee(PaymentAt(r))])
      /\ SumF(feeo) = SumF([r \in InstallmentsIn(T) |-> Fee(InstallmentAt(r))])
  BY PaidByMethod, PaidOffByMethod, BackByMethod
<1> HIDE DEF pay, off, back, both, feep, feeo, fees, f
<1>6. both \in [Methods -> Nat]
  <2>1. \A m \in Methods : both[m] \in Nat
    BY <1>2, <1>3
  <2> QED  BY <1>3, <2>1
<1>7. SumF(both) = SumF(pay) + SumF(off)
  BY <1>1, <1>2, <1>3, SumOfTwo
<1>8. SumF(fees) = SumF(feep) + SumF(feeo)
  BY <1>1, <1>2, <1>3, SumOfTwo
<1>9. Differences(Methods, f, both, back)
  BY <1>2, <1>4, <1>6 DEF Differences
<1>10. SumF([m \in Methods |-> NonNegative(f[m])]) - SumF([m \in Methods |-> NonNegative(-f[m])])
         = SumF(both) - SumF(back)
  BY <1>1, <1>9, BalanceLaw
<1>11. Balance(Methods, LAMBDA m : ByMethod(T, m).gross)
         = SumF([m \in Methods |-> NonNegative(f[m])]) - SumF([m \in Methods |-> NonNegative(-f[m])])
  <2>1. /\ [m \in Methods |-> NonNegative(ByMethod(T, m).gross)] = [m \in Methods |-> NonNegative(f[m])]
        /\ [m \in Methods |-> NonNegative(-ByMethod(T, m).gross)] = [m \in Methods |-> NonNegative(-f[m])]
    BY <1>4
  <2> QED  BY <2>1 DEF Balance, Sum
<1>12. Sum(Methods, LAMBDA m : ByMethod(T, m).fee) = SumF(fees)
  <2>1. [m \in Methods |-> ByMethod(T, m).fee] = fees
    BY <1>3, <1>4
  <2> QED  BY <2>1 DEF Sum
<1>13. SumF(pay) \in Nat /\ SumF(off) \in Nat /\ SumF(back) \in Nat
  BY <1>1, <1>2, SumType
<1>14. GrossTotal(T) = SumF(pay) + SumF(off) - SumF(back)
  <2>1. GrossReceived(T) = SumF(pay) + SumF(off)
    BY <1>5 DEF GrossReceived
  <2>2. GrossTotal(T) = GrossReceived(T) - GivenBack(T)
    BY DEF GrossTotal
  <2> QED  BY <1>5, <1>13, <2>1, <2>2
<1>15. CardFees(T) = SumF(feep) + SumF(feeo)
  BY <1>5 DEF CardFees
<1>16. GrossTotal(T) = Balance(Methods, LAMBDA m : ByMethod(T, m).gross)
  <2>1. GrossTotal(T) = SumF(both) - SumF(back)
    BY <1>7, <1>14, <1>13
  <2> QED  BY <1>10, <1>11, <2>1
<1>17. CardFees(T) = Sum(Methods, LAMBDA m : ByMethod(T, m).fee)
  BY <1>8, <1>12, <1>15
<1> QED  BY <1>16, <1>17 DEF MethodsAgree

(* The rows of a report by the session they fall in.                       *)
Piece(D, h, c, t) == SumF([r \in {r \in D : h[r] = t} |-> c[r]])
Sliced(T, D, h, c, s) ==
  /\ h \in [D -> T] /\ c \in [D -> Nat]
  /\ \A t \in T : s[t] = Piece(D, h, c, t)
LEMMA ByPeriod ==
  ASSUME NEW T, IsFiniteSet(T), NEW D, IsFiniteSet(D), NEW h, NEW c, NEW s,
         s = [t \in T |-> s[t]], Sliced(T, D, h, c, s)
  PROVE  s \in [T -> Nat] /\ SumF(s) = SumF(c)
<1>1. s = [t \in T |-> SumF([r \in {r \in D : h[r] = t} |-> c[r]])]
  BY DEF Sliced, Piece
<1>2. h \in [D -> T] /\ c \in [D -> Nat]
  BY DEF Sliced
<1> DEFINE w == [t \in T |-> SumF([r \in {r \in D : h[r] = t} |-> c[r]])]
<1>3. w \in [T -> Nat] /\ SumF(w) = SumF(c)
  BY <1>2, InParts
<1>4. s = w
  BY <1>1
<1> HIDE DEF w
<1> QED  BY <1>3, <1>4

LEMMA PaidByPeriod ==
  ASSUME LedgerInv, NEW T, IsFiniteSet(T), NEW m
  PROVE  /\ [t \in T |-> PaidBy({t}, m)] \in [T -> Nat]
         /\ SumF([t \in T |-> PaidBy({t}, m)]) = PaidBy(T, m)
<1> DEFINE D == {r \in DirectPayments(T) : PaymentAt(r).method = m}
           h == [r \in D |-> PaymentAt(r).period]
           c == [r \in D |-> Gross(PaymentAt(r))]
           s == [t \in T |-> PaidBy({t}, m)]
<1>1. /\ IsFiniteSet(DirectPayments(T)) /\ \A r \in D : PaymentAt(r) \in PaymentRow
      /\ D \subseteq DirectPayments(T)
  BY ReportRows
<1>2. IsFiniteSet(D)
  BY <1>1, FS_Subset
<1>3. \A r \in D : PaymentAt(r).period \in T /\ Gross(PaymentAt(r)) \in Nat
  BY <1>1, RowMoney DEF DirectPayments
<1>4. ASSUME NEW t \in T PROVE s[t] = Piece(D, h, c, t)
  <2>1. {r \in DirectPayments({t}) : PaymentAt(r).method = m} = {r \in D : h[r] = t}
    BY DEF DirectPayments
  <2>2. [r \in {r \in D : h[r] = t} |-> Gross(PaymentAt(r))] = [r \in {r \in D : h[r] = t} |-> c[r]]
    OBVIOUS
  <2> QED  BY <2>1, <2>2 DEF PaidBy, Sum, Piece
<1>5. Sliced(T, D, h, c, s) /\ s = [t \in T |-> s[t]]
  BY <1>3, <1>4 DEF Sliced
<1>6. PaidBy(T, m) = SumF(c)
  BY DEF PaidBy, Sum
<1> HIDE DEF D, h, c, s
<1>7. s \in [T -> Nat] /\ SumF(s) = SumF(c)
  BY <1>2, <1>5, ByPeriod
<1> QED  BY <1>6, <1>7 DEF s

LEMMA PaidOffByPeriod ==
  ASSUME LedgerInv, NEW T, IsFiniteSet(T), NEW m
  PROVE  /\ [t \in T |-> PaidOffBy({t}, m)] \in [T -> Nat]
         /\ SumF([t \in T |-> PaidOffBy({t}, m)]) = PaidOffBy(T, m)
<1> DEFINE D == {r \in InstallmentsIn(T) : InstallmentAt(r).method = m}
           h == [r \in D |-> InstallmentAt(r).period]
           c == [r \in D |-> Gross(InstallmentAt(r))]
           s == [t \in T |-> PaidOffBy({t}, m)]
<1>1. /\ IsFiniteSet(InstallmentsIn(T)) /\ \A r \in D : InstallmentAt(r) \in InstallmentRow
      /\ D \subseteq InstallmentsIn(T)
  BY ReportRows
<1>2. IsFiniteSet(D)
  BY <1>1, FS_Subset
<1>3. \A r \in D : InstallmentAt(r).period \in T /\ Gross(InstallmentAt(r)) \in Nat
  BY <1>1, RowMoney DEF InstallmentsIn
<1>4. ASSUME NEW t \in T PROVE s[t] = Piece(D, h, c, t)
  <2>1. {r \in InstallmentsIn({t}) : InstallmentAt(r).method = m} = {r \in D : h[r] = t}
    BY DEF InstallmentsIn
  <2>2. [r \in {r \in D : h[r] = t} |-> Gross(InstallmentAt(r))]
          = [r \in {r \in D : h[r] = t} |-> c[r]]
    OBVIOUS
  <2> QED  BY <2>1, <2>2 DEF PaidOffBy, Sum, Piece
<1>5. Sliced(T, D, h, c, s) /\ s = [t \in T |-> s[t]]
  BY <1>3, <1>4 DEF Sliced
<1>6. PaidOffBy(T, m) = SumF(c)
  BY DEF PaidOffBy, Sum
<1> HIDE DEF D, h, c, s
<1>7. s \in [T -> Nat] /\ SumF(s) = SumF(c)
  BY <1>2, <1>5, ByPeriod
<1> QED  BY <1>6, <1>7 DEF s

LEMMA BackByPeriod ==
  ASSUME LedgerInv, NEW T, IsFiniteSet(T), NEW m
  PROVE  /\ [t \in T |-> BackBy({t}, m)] \in [T -> Nat]
         /\ SumF([t \in T |-> BackBy({t}, m)]) = BackBy(T, m)
<1> DEFINE D == {r \in RefundsIn(T) : RefundAt(r).method = m /\ Gross(RefundAt(r)) > 0}
           h == [r \in D |-> RefundAt(r).period]
           c == [r \in D |-> Gross(RefundAt(r))]
           s == [t \in T |-> BackBy({t}, m)]
<1>1. /\ IsFiniteSet(RefundsIn(T)) /\ \A r \in D : RefundAt(r) \in RefundRow
      /\ D \subseteq RefundsIn(T)
  BY ReportRows
<1>2. IsFiniteSet(D)
  BY <1>1, FS_Subset
<1>3. \A r \in D : RefundAt(r).period \in T /\ Gross(RefundAt(r)) \in Nat
  BY <1>1, RowMoney DEF RefundsIn
<1>4. ASSUME NEW t \in T PROVE s[t] = Piece(D, h, c, t)
  <2>1. {r \in RefundsIn({t}) : RefundAt(r).method = m /\ Gross(RefundAt(r)) > 0}
          = {r \in D : h[r] = t}
    BY DEF RefundsIn
  <2>2. [r \in {r \in D : h[r] = t} |-> Gross(RefundAt(r))] = [r \in {r \in D : h[r] = t} |-> c[r]]
    OBVIOUS
  <2> QED  BY <2>1, <2>2 DEF BackBy, Sum, Piece
<1>5. Sliced(T, D, h, c, s) /\ s = [t \in T |-> s[t]]
  BY <1>3, <1>4 DEF Sliced
<1>6. BackBy(T, m) = SumF(c)
  BY DEF BackBy, Sum
<1> HIDE DEF D, h, c, s
<1>7. s \in [T -> Nat] /\ SumF(s) = SumF(c)
  BY <1>2, <1>5, ByPeriod
<1> QED  BY <1>6, <1>7 DEF s


(* What a balance of two gains and a loss comes to.                        *)
GainsAndLoss(S, f, x, y, z) ==
  /\ x \in [S -> Nat] /\ y \in [S -> Nat] /\ z \in [S -> Nat]
  /\ \A t \in S : f[t] = x[t] + y[t] - z[t]
LEMMA BalanceOfThree ==
  ASSUME NEW S, IsFiniteSet(S), NEW f, NEW x, NEW y, NEW z, GainsAndLoss(S, f, x, y, z)
  PROVE  /\ SumF([t \in S |-> NonNegative(f[t])]) - SumF([t \in S |-> NonNegative(-f[t])])
              = SumF(x) + SumF(y) - SumF(z)
         /\ SumF(x) \in Nat /\ SumF(y) \in Nat /\ SumF(z) \in Nat
<1> DEFINE g == [t \in S |-> x[t] + y[t]]
<1>1. x \in [S -> Nat] /\ y \in [S -> Nat] /\ z \in [S -> Nat]
  BY DEF GainsAndLoss
<1>2. ASSUME NEW t \in S PROVE g[t] \in Nat /\ f[t] = g[t] - z[t]
  <2>1. f[t] = x[t] + y[t] - z[t] /\ x[t] \in Nat /\ y[t] \in Nat /\ z[t] \in Nat
    BY <1>1 DEF GainsAndLoss
  <2> QED  BY <2>1
<1>3. g \in [S -> Nat]
  BY <1>2
<1>4. SumF(g) = SumF(x) + SumF(y)
  BY <1>1, SumAdditive
<1>5. SumF(x) \in Nat /\ SumF(y) \in Nat /\ SumF(z) \in Nat
  BY <1>1, SumType
<1> HIDE DEF g
<1>6. Differences(S, f, g, z)
  BY <1>1, <1>2, <1>3 DEF Differences
<1>7. SumF([t \in S |-> NonNegative(f[t])]) - SumF([t \in S |-> NonNegative(-f[t])])
        = SumF(g) - SumF(z)
  BY <1>6, BalanceLaw
<1> QED  BY <1>4, <1>5, <1>7

(* The drawers of the sessions add up to the cash of the whole.            *)
LEMMA DrawersAddUp ==
  ASSUME LedgerInv, NEW T, IsFiniteSet(T)
  PROVE  Balance(T, CashInflows) = ByMethod(T, Cash).gross
<1> DEFINE x == [t \in T |-> PaidBy({t}, Cash)]
           y == [t \in T |-> PaidOffBy({t}, Cash)]
           z == [t \in T |-> BackBy({t}, Cash)]
           f == [t \in T |-> CashInflows(t)]
<1>1. /\ x \in [T -> Nat] /\ y \in [T -> Nat] /\ z \in [T -> Nat]
      /\ SumF(x) = PaidBy(T, Cash) /\ SumF(y) = PaidOffBy(T, Cash) /\ SumF(z) = BackBy(T, Cash)
  <2>1. x \in [T -> Nat] /\ SumF(x) = PaidBy(T, Cash)
    BY PaidByPeriod
  <2>2. y \in [T -> Nat] /\ SumF(y) = PaidOffBy(T, Cash)
    BY PaidOffByPeriod
  <2>3. z \in [T -> Nat] /\ SumF(z) = BackBy(T, Cash)
    BY BackByPeriod
  <2> QED  BY <2>1, <2>2, <2>3
<1>2. \A t \in T : f[t] = x[t] + y[t] - z[t] /\ CashInflows(t) = f[t]
  <2> TAKE t \in T
  <2>1. CashInflows(t) = PaidBy({t}, Cash) + PaidOffBy({t}, Cash)
          - Sum({r \in RefundsIn({t}) : RefundAt(r).method = Cash}, LAMBDA r : Gross(RefundAt(r)))
    BY DEF CashInflows, PaidBy, PaidOffBy
  <2>2. Sum({r \in RefundsIn({t}) : RefundAt(r).method = Cash}, LAMBDA r : Gross(RefundAt(r)))
          = BackBy({t}, Cash)
    BY BreakdownIsByMethod
  <2> QED  BY <2>1, <2>2
<1>3. /\ [t \in T |-> NonNegative(CashInflows(t))] = [t \in T |-> NonNegative(f[t])]
      /\ [t \in T |-> NonNegative(-CashInflows(t))] = [t \in T |-> NonNegative(-f[t])]
  BY <1>2
<1>4. Balance(T, CashInflows) = SumF([t \in T |-> NonNegative(f[t])]) - SumF([t \in T |-> NonNegative(-f[t])])
  BY <1>3 DEF Balance, Sum
<1> HIDE DEF x, y, z, f
<1>5. GainsAndLoss(T, f, x, y, z)
  BY <1>1, <1>2 DEF GainsAndLoss
<1>6. SumF([t \in T |-> NonNegative(f[t])]) - SumF([t \in T |-> NonNegative(-f[t])])
        = SumF(x) + SumF(y) - SumF(z)
  BY <1>5, BalanceOfThree
<1>7. ByMethod(T, Cash).gross = PaidBy(T, Cash) + PaidOffBy(T, Cash) - BackBy(T, Cash)
  BY MethodColumns
<1> QED  BY <1>1, <1>4, <1>6, <1>7

(* Sales by session.                                                       *)
LoopProduct(T) == Sum(LoopRefunds(T), LAMBDA r : RefundAt(r).product)
LEMMA SalesByPeriod ==
  ASSUME LedgerInv, NEW T, IsFiniteSet(T)
  PROVE  /\ [t \in T |-> DirectTotal({t})] \in [T -> Nat]
         /\ SumF([t \in T |-> DirectTotal({t})]) = DirectTotal(T)
<1> DEFINE D == DirectSales(T)
           h == [o \in D |-> order[o].closedIn]
           c == [o \in D |-> order[o].total]
           s == [t \in T |-> DirectTotal({t})]
<1>1. IsFiniteSet(D)
  BY ReportRows
<1>2. \A o \in D : order[o].closedIn \in T /\ order[o].total \in Nat
  BY SaleFacts, OrderFields DEF DirectSales
<1>3. ASSUME NEW t \in T PROVE s[t] = Piece(D, h, c, t)
  <2>1. DirectSales({t}) = {o \in D : h[o] = t}
    BY DEF DirectSales
  <2>2. [o \in {o \in D : h[o] = t} |-> order[o].total] = [o \in {o \in D : h[o] = t} |-> c[o]]
    OBVIOUS
  <2> QED  BY <2>1, <2>2 DEF DirectTotal, Sum, Piece
<1>4. Sliced(T, D, h, c, s) /\ s = [t \in T |-> s[t]]
  BY <1>2, <1>3 DEF Sliced
<1>5. DirectTotal(T) = SumF(c)
  BY DEF DirectTotal, Sum
<1> HIDE DEF D, h, c, s
<1>6. s \in [T -> Nat] /\ SumF(s) = SumF(c)
  BY <1>1, <1>4, ByPeriod
<1> QED  BY <1>5, <1>6 DEF s

LEMMA InstallmentsByPeriod ==
  ASSUME LedgerInv, NEW T, IsFiniteSet(T)
  PROVE  /\ [t \in T |-> InstallmentProduct({t})] \in [T -> Nat]
         /\ SumF([t \in T |-> InstallmentProduct({t})]) = InstallmentProduct(T)
<1> DEFINE D == InstallmentsIn(T)
           h == [r \in D |-> InstallmentAt(r).period]
           c == [r \in D |-> InstallmentAt(r).product]
           s == [t \in T |-> InstallmentProduct({t})]
<1>1. IsFiniteSet(D) /\ \A r \in D : InstallmentAt(r) \in InstallmentRow
  BY ReportRows
<1>2. \A r \in D : InstallmentAt(r).period \in T /\ InstallmentAt(r).product \in Nat
  BY <1>1, RowTypes DEF InstallmentsIn
<1>3. ASSUME NEW t \in T PROVE s[t] = Piece(D, h, c, t)
  <2>1. InstallmentsIn({t}) = {r \in D : h[r] = t}
    BY DEF InstallmentsIn
  <2>2. [r \in {r \in D : h[r] = t} |-> InstallmentAt(r).product]
          = [r \in {r \in D : h[r] = t} |-> c[r]]
    OBVIOUS
  <2> QED  BY <2>1, <2>2 DEF InstallmentProduct, Sum, Piece
<1>4. Sliced(T, D, h, c, s) /\ s = [t \in T |-> s[t]]
  BY <1>2, <1>3 DEF Sliced
<1>5. InstallmentProduct(T) = SumF(c)
  BY DEF InstallmentProduct, Sum
<1> HIDE DEF D, h, c, s
<1>6. s \in [T -> Nat] /\ SumF(s) = SumF(c)
  BY <1>1, <1>4, ByPeriod
<1> QED  BY <1>5, <1>6 DEF s

LEMMA LoopsByPeriod ==
  ASSUME LedgerInv, NEW T, IsFiniteSet(T)
  PROVE  /\ [t \in T |-> LoopProduct({t})] \in [T -> Nat]
         /\ SumF([t \in T |-> LoopProduct({t})]) = LoopProduct(T)
<1> DEFINE D == LoopRefunds(T)
           h == [r \in D |-> RefundAt(r).period]
           c == [r \in D |-> RefundAt(r).product]
           s == [t \in T |-> LoopProduct({t})]
<1>1. IsFiniteSet(D) /\ \A r \in D : r \in RefundsIn(T) /\ RefundAt(r) \in RefundRow
  BY ReportRows
<1>2. \A r \in D : RefundAt(r).period \in T /\ RefundAt(r).product \in Nat
  BY <1>1, RowTypes DEF RefundsIn
<1>3. ASSUME NEW t \in T PROVE s[t] = Piece(D, h, c, t)
  <2>1. LoopRefunds({t}) = {r \in D : h[r] = t}
    BY DEF LoopRefunds, SaleRefunds, RefundsIn
  <2>2. [r \in {r \in D : h[r] = t} |-> RefundAt(r).product]
          = [r \in {r \in D : h[r] = t} |-> c[r]]
    OBVIOUS
  <2> QED  BY <2>1, <2>2 DEF LoopProduct, Sum, Piece
<1>4. Sliced(T, D, h, c, s) /\ s = [t \in T |-> s[t]]
  BY <1>2, <1>3 DEF Sliced
<1>5. LoopProduct(T) = SumF(c)
  BY DEF LoopProduct, Sum
<1> HIDE DEF D, h, c, s
<1>6. s \in [T -> Nat] /\ SumF(s) = SumF(c)
  BY <1>1, <1>4, ByPeriod
<1> QED  BY <1>5, <1>6 DEF s

(* The days add up to the whole.                                           *)
LEMMA DaysAddUp ==
  ASSUME LedgerInv, NEW T, IsFiniteSet(T)
  PROVE  Balance(T, SalesByDay) = TotalSales(T)
<1> DEFINE x == [t \in T |-> DirectTotal({t})]
           y == [t \in T |-> InstallmentProduct({t})]
           z == [t \in T |-> LoopProduct({t})]
           f == [t \in T |-> SalesByDay(t)]
<1>1. /\ x \in [T -> Nat] /\ y \in [T -> Nat] /\ z \in [T -> Nat]
      /\ SumF(x) = DirectTotal(T) /\ SumF(y) = InstallmentProduct(T) /\ SumF(z) = LoopProduct(T)
  BY SalesByPeriod, InstallmentsByPeriod, LoopsByPeriod
<1>2. \A t \in T : f[t] = x[t] + y[t] - z[t] /\ SalesByDay(t) = f[t]
  BY DEF SalesByDay, LoopProduct
<1>3. /\ [t \in T |-> NonNegative(SalesByDay(t))] = [t \in T |-> NonNegative(f[t])]
      /\ [t \in T |-> NonNegative(-SalesByDay(t))] = [t \in T |-> NonNegative(-f[t])]
  BY <1>2
<1>4. Balance(T, SalesByDay) = SumF([t \in T |-> NonNegative(f[t])]) - SumF([t \in T |-> NonNegative(-f[t])])
  BY <1>3 DEF Balance, Sum
<1> HIDE DEF x, y, z, f
<1>5. GainsAndLoss(T, f, x, y, z)
  BY <1>1, <1>2 DEF GainsAndLoss
<1>6. SumF([t \in T |-> NonNegative(f[t])]) - SumF([t \in T |-> NonNegative(-f[t])])
        = SumF(x) + SumF(y) - SumF(z)
  BY <1>5, BalanceOfThree
<1>7. TotalSales(T) = DirectTotal(T) + InstallmentProduct(T) - LoopProduct(T)
  BY DEF TotalSales, LoopProduct
<1> QED  BY <1>1, <1>4, <1>6, <1>7


(* The pages of a customer.                                                *)
TakenBack(T, a) == Sum({r \in SaleRefunds(T) : r[1] = a}, LAMBDA r : Price * RefundAt(r).pieces)

LEMMA SaleRefundRows ==
  ASSUME LedgerInv, NEW T, NEW a
  PROVE  /\ IsFiniteSet({r \in SaleRefunds(T) : r[1] = a})
         /\ \A r \in SaleRefunds(T) :
              /\ RefundAt(r) \in RefundRow /\ RefundAt(r).period \in T
              /\ RefundAt(r).pieces \in Nat /\ Price * RefundAt(r).pieces \in Nat
<1> DEFINE D == {r \in SaleRefunds(T) : r[1] = a}
<1>1. /\ IsFiniteSet(RefundsIn(T)) /\ D \subseteq RefundsIn(T) /\ SaleRefunds(T) \subseteq RefundsIn(T)
  BY ReportRows DEF SaleRefunds
<1>2. \A r \in SaleRefunds(T) : RefundAt(r) \in RefundRow /\ RefundAt(r).period \in T
  BY ReportRows DEF SaleRefunds, RefundsIn
<1>3. \A r \in SaleRefunds(T) : RefundAt(r).pieces \in Nat
  BY <1>2, RowTypes
<1>4. \A r \in SaleRefunds(T) : Price * RefundAt(r).pieces \in Nat
  BY <1>3, NatProduct, Livro_Amounts
<1> QED  BY <1>1, <1>2, <1>3, <1>4, FS_Subset

LEMMA TakenBackByPeriod ==
  ASSUME LedgerInv, NEW T, IsFiniteSet(T), NEW a
  PROVE  /\ [t \in T |-> TakenBack({t}, a)] \in [T -> Nat]
         /\ SumF([t \in T |-> TakenBack({t}, a)]) = TakenBack(T, a)
<1> DEFINE D == {r \in SaleRefunds(T) : r[1] = a}
           h == [r \in D |-> RefundAt(r).period]
           c == [r \in D |-> Price * RefundAt(r).pieces]
           s == [t \in T |-> TakenBack({t}, a)]
<1>1. IsFiniteSet(D)
  BY SaleRefundRows
<1>2. \A r \in D : RefundAt(r).period \in T /\ Price * RefundAt(r).pieces \in Nat
  BY SaleRefundRows
<1>3. ASSUME NEW t \in T PROVE s[t] = Piece(D, h, c, t)
  <2>1. {r \in SaleRefunds({t}) : r[1] = a} = {r \in D : h[r] = t}
    BY DEF SaleRefunds, RefundsIn
  <2>2. [r \in {r \in D : h[r] = t} |-> Price * RefundAt(r).pieces]
          = [r \in {r \in D : h[r] = t} |-> c[r]]
    OBVIOUS
  <2> QED  BY <2>1, <2>2 DEF TakenBack, Sum, Piece
<1>4. Sliced(T, D, h, c, s) /\ s = [t \in T |-> s[t]]
  BY <1>2, <1>3 DEF Sliced
<1>5. TakenBack(T, a) = SumF(c)
  BY DEF TakenBack, Sum
<1> HIDE DEF D, h, c, s
<1>6. s \in [T -> Nat] /\ SumF(s) = SumF(c)
  BY <1>1, <1>4, ByPeriod
<1> QED  BY <1>5, <1>6 DEF s

(* Something that counts once, in the session it falls in.                 *)
LEMMA CountedOnce ==
  ASSUME NEW S, NEW d, NEW c \in BOOLEAN, NEW n \in Nat, c => d \in S
  PROVE  LET s == [t \in S |-> IF c /\ d = t THEN n ELSE 0]
         IN s \in [S -> Nat] /\ SumF(s) = IF c THEN n ELSE 0
<1> DEFINE s == [t \in S |-> IF c /\ d = t THEN n ELSE 0]
<1>1. s \in [S -> Nat]
  OBVIOUS
<1>2. c => SumF(s) = n
  <2> SUFFICES ASSUME c PROVE SumF(s) = n
    OBVIOUS
  <2>1. s = Only(S, d, n)
    BY DEF Only
  <2>2. SumF(Only(S, d, n)) = n
    BY SumOnly
  <2> HIDE DEF s
  <2> QED  BY <2>1, <2>2
<1>3. ~c => SumF(s) = 0
  <2> SUFFICES ASSUME ~c PROVE SumF(s) = 0
    OBVIOUS
  <2>1. \A t \in S : s[t] = 0
    OBVIOUS
  <2> HIDE DEF s
  <2> QED  BY <1>1, <2>1, SumZero
<1> HIDE DEF s
<1>4. SumF(s) = IF c THEN n ELSE 0
  BY <1>2, <1>3
<1> QED  BY <1>1, <1>4 DEF s

(* When a sale counts.                                                     *)
Sells(a) == a \in Orders /\ order[a].status = "finalizada" /\ ~order[a].fiado
LEMMA WhenItCounts ==
  ASSUME LedgerInv, SalesInv, NEW a \in Accounts
  PROVE  /\ Sells(a) \in BOOLEAN
         /\ a \in Orders /\ order[a].status = "finalizada" => order[a].closedIn \in Ever
         /\ account[a].status # "nenhum" => account[a].createdIn \in Ever
         /\ a \in Fiados(Ever) => account[a].createdIn \in Ever
         /\ \A t \in Ever : a \in Fiados({t}) <=> a \in Fiados(Ever) /\ account[a].createdIn = t
<1>1. session \in Nat
  BY DayFacts
<1>2. a \in Orders /\ order[a].status = "finalizada" => order[a].closedIn \in Ever
  <2> SUFFICES ASSUME a \in Orders, order[a].status = "finalizada" PROVE order[a].closedIn \in Ever
    OBVIOUS
  <2>1. order[a].closedIn \in 0..session
    BY SaleFacts DEF OrderRecord
  <2>2. order[a].closedIn # 0
    BY DEF SalesInv, SaleFits, Priced
  <2> QED  BY <1>1, <2>1, <2>2 DEF Ever
<1>3. account[a].status # "nenhum" => account[a].createdIn \in Ever
  <2> SUFFICES ASSUME account[a].status # "nenhum" PROVE account[a].createdIn \in Ever
    OBVIOUS
  <2>1. account[a].createdIn \in 0..session
    BY AccountFacts DEF AccountRecord
  <2>2. account[a].createdIn # 0
    BY DEF SalesInv, FiadoFits, PricedFiado
  <2> QED  BY <1>1, <2>1, <2>2 DEF Ever
<1>4. a \in Fiados(Ever) => account[a].status # "nenhum"
  BY DEF Fiados
<1>5. \A t \in Ever : a \in Fiados({t}) <=> a \in Fiados(Ever) /\ account[a].createdIn = t
  BY <1>3 DEF Fiados
<1> QED  BY <1>2, <1>3, <1>4, <1>5 DEF Sells

(* The years of a customer add up to the whole.                            *)
LEMMA YearsAddUp ==
  ASSUME LedgerInv, SalesInv, NEW a \in Accounts
  PROVE  Balance(Ever, LAMBDA t : YearlyTotal({t}, a)) = TotalSpent(a)
<1> DEFINE c == Sells(a)
           d == order[a].closedIn
           n == IF c THEN order[a].total ELSE 0
           e == a \in Fiados(Ever)
           k == account[a].createdIn
           p == account[a].product
           x == [t \in Ever |-> IF c /\ d = t THEN n ELSE 0]
           y == [t \in Ever |-> IF e /\ k = t THEN p ELSE 0]
           z == [t \in Ever |-> TakenBack({t}, a)]
           f == [t \in Ever |-> YearlyTotal({t}, a)]
<1>1. /\ c \in BOOLEAN /\ e \in BOOLEAN /\ (c => d \in Ever) /\ (e => k \in Ever)
      /\ n \in Nat /\ p \in Nat /\ IsFiniteSet(Ever)
  <2>1. c => order[a].total \in Nat
    BY SaleFacts, OrderFields DEF Sells
  <2>2. p \in Nat
    BY AccountFacts, AccountColumns
  <2>3. IsFiniteSet(Ever)
    BY DayFacts, FS_Interval DEF Ever
  <2> QED  BY <2>1, <2>2, <2>3, WhenItCounts DEF Sells
<1>2. z \in [Ever -> Nat] /\ SumF(z) = TakenBack(Ever, a)
  BY <1>1, TakenBackByPeriod
<1>3. \A t \in Ever : f[t] = x[t] + y[t] - z[t] /\ YearlyTotal({t}, a) = f[t]
  <2> TAKE t \in Ever
  <2>1. YearlyTotal({t}, a) = (IF c /\ d = t THEN order[a].total ELSE 0)
          + (IF a \in Fiados({t}) THEN p ELSE 0) - TakenBack({t}, a)
    BY DEF YearlyTotal, Sells, TakenBack
  <2>2. a \in Fiados({t}) <=> e /\ k = t
    BY WhenItCounts
  <2>3. x[t] = (IF c /\ d = t THEN order[a].total ELSE 0) /\ y[t] = (IF a \in Fiados({t}) THEN p ELSE 0)
        /\ z[t] = TakenBack({t}, a) /\ f[t] = YearlyTotal({t}, a)
    BY <2>2
  <2> HIDE DEF x, y, z, f
  <2> QED  BY <2>1, <2>3
<1>4. /\ [t \in Ever |-> NonNegative(YearlyTotal({t}, a))] = [t \in Ever |-> NonNegative(f[t])]
      /\ [t \in Ever |-> NonNegative(-YearlyTotal({t}, a))] = [t \in Ever |-> NonNegative(-f[t])]
  BY <1>3
<1>5. Balance(Ever, LAMBDA t : YearlyTotal({t}, a))
        = SumF([t \in Ever |-> NonNegative(f[t])]) - SumF([t \in Ever |-> NonNegative(-f[t])])
  BY <1>4 DEF Balance, Sum
<1>6. TotalSpent(a) = n + (IF e THEN p ELSE 0) - TakenBack(Ever, a)
  BY DEF TotalSpent, Sells, FiadoProduct, ItemRefunds, TakenBack
<1> HIDE DEF c, d, n, e, k, p
<1>7. x \in [Ever -> Nat] /\ SumF(x) = IF c THEN n ELSE 0
  BY <1>1, CountedOnce
<1>8. y \in [Ever -> Nat] /\ SumF(y) = IF e THEN p ELSE 0
  BY <1>1, CountedOnce
<1> HIDE DEF x, y, z, f
<1>9. GainsAndLoss(Ever, f, x, y, z)
  BY <1>2, <1>3, <1>7, <1>8 DEF GainsAndLoss
<1>10. SumF([t \in Ever |-> NonNegative(f[t])]) - SumF([t \in Ever |-> NonNegative(-f[t])])
         = SumF(x) + SumF(y) - SumF(z)
  BY <1>1, <1>9, BalanceOfThree
<1>11. (IF c THEN n ELSE 0) = n
  BY DEF n
<1> QED  BY <1>2, <1>5, <1>6, <1>7, <1>8, <1>10, <1>11

(* What a customer spent is the price of what was taken.                   *)
LEMMA SpentIsPriced ==
  ASSUME LedgerInv, SalesInv, NEW a \in Accounts
  PROVE  TotalSpent(a) = Price * ItemsOfCustomer(a)
<1> DEFINE D == {r \in SaleRefunds(Ever) : r[1] = a}
           g == [r \in D |-> RefundAt(r).pieces]
           n == IF Sells(a) THEN order[a].pieces ELSE 0
           p == IF a \in Fiados(Ever) THEN account[a].pieces ELSE 0
<1>1. IsFiniteSet(D) /\ \A r \in D : RefundAt(r).pieces \in Nat
  BY SaleRefundRows
<1>2. g \in [D -> Nat] /\ Price \in Nat
  BY <1>1, Livro_Amounts
<1>3. n \in Nat /\ p \in Nat
  BY SaleFacts, OrderFields, AccountFacts, AccountColumns, Livro_Bounds DEF Sells
<1>4. (IF Sells(a) THEN order[a].total ELSE 0) = Price * n
  <2>1. Sells(a) => order[a].total = Price * order[a].pieces
    BY DEF Sells, SalesInv, SaleFits, Priced
  <2> QED  BY <1>2, <2>1
<1>5. (IF a \in Fiados(Ever) THEN account[a].product ELSE 0) = Price * p
  <2>1. a \in Fiados(Ever) => account[a].product = Price * account[a].pieces
    BY DEF Fiados, SalesInv, FiadoFits, PricedFiado
  <2> QED  BY <1>2, <2>1
<1>6. TakenBack(Ever, a) = SumF(Scaled(Price, D, g))
  <2>1. [r \in D |-> Price * RefundAt(r).pieces] = Scaled(Price, D, g)
    BY DEF Scaled
  <2> QED  BY <2>1 DEF TakenBack, Sum
<1>7. ItemsOfCustomer(a) = n + p - SumF(g)
  BY DEF ItemsOfCustomer, Sells, Sum
<1>8. TotalSpent(a) = (IF Sells(a) THEN order[a].total ELSE 0)
                      + (IF a \in Fiados(Ever) THEN account[a].product ELSE 0) - TakenBack(Ever, a)
  BY DEF TotalSpent, Sells, FiadoProduct, ItemRefunds, TakenBack
<1> HIDE DEF D, g, n, p
<1>9. SumF(Scaled(Price, D, g)) = Price * SumF(g) /\ SumF(g) \in Nat
  BY <1>1, <1>2, SumScaled, SumType
<1>10. TotalSpent(a) = Price * n + Price * p - Price * SumF(g)
  BY <1>4, <1>5, <1>6, <1>8, <1>9
<1> QED  BY <1>2, <1>3, <1>7, <1>9, <1>10


(* A table loses what its pieces cost, piece by piece or by the amounts.   *)
LEMMA TablesAgree ==
  ASSUME LedgerInv, SalesInv, NEW T, NEW o \in DirectSales(T)
  PROVE  TableOfVendas(T, o) = ByTable(T, o)
<1> DEFINE D == {r \in LoopRefunds(T) : r[1] = o /\ RefundAt(r).payment # 0}
<1>1. o \in Orders /\ Partly(order[o])
  BY DEF DirectSales, Partly
<1>2. \A i \in DOMAIN refunds[o] :
        refunds[o][i].payment # 0 => refunds[o][i].product = Price * refunds[o][i].pieces
  BY <1>1 DEF SalesInv, SaleFits, Priced
<1>3. \A r \in D : RefundAt(r).product = Price * RefundAt(r).pieces
  <2> TAKE r \in D
  <2>1. r \in RefundsIn(T) /\ r[1] = o /\ RefundAt(r).payment # 0
    BY ReportRows
  <2>2. r[2] \in DOMAIN refunds[r[1]]
    BY <2>1, ReportRows
  <2> QED  BY <1>2, <2>1, <2>2 DEF RefundAt
<1>4. [r \in D |-> RefundAt(r).product] = [r \in D |-> Price * RefundAt(r).pieces]
  BY <1>3
<1>5. TableOfVendas(T, o) = order[o].total - SumF([r \in D |-> RefundAt(r).product])
  BY DEF TableOfVendas, Sum
<1>6. ByTable(T, o) = order[o].total - SumF([r \in D |-> Price * RefundAt(r).pieces])
  BY DEF ByTable, Sum
<1> QED  BY <1>4, <1>5, <1>6

(* The screens agree.                                                      *)
LEMMA SameTotals ==
  ASSUME LedgerInv, NEW T
  PROVE  /\ PeriodProfit(T) = [total_sales |-> TotalSales(T), total_cogs |-> TotalCogs(T),
                               net_profit |-> NetProfit(T)]
         /\ ListSales(T) = [total_sales |-> TotalSales(T), service |-> NetService(T)]
         /\ DashboardGeral(T) = ListSales(T) /\ TopProduct(T) = ItemsRanking(T).quantity
         /\ DashboardGestao(T).billing_total = ListSales(T).total_sales + ListSales(T).service
<1>1. QueryRefunds(T) = LoopRefunds(T)
  BY LoopsAndQueries
<1>2. PeriodProfit(T) = [total_sales |-> TotalSales(T), total_cogs |-> TotalCogs(T),
                         net_profit |-> NetProfit(T)]
  BY <1>1 DEF PeriodProfit, TotalSales, TotalCogs, NetProfit
<1>3. ListSales(T) = [total_sales |-> TotalSales(T), service |-> NetService(T)]
  BY <1>1 DEF ListSales, TotalSales, NetService
<1>4. DashboardGeral(T) = ListSales(T)
  BY <1>3 DEF DashboardGeral, TotalSales, NetService
<1>5. TopProduct(T) = ItemsRanking(T).quantity
  <2> DEFINE x == Sum(DirectSales(T), LAMBDA o : order[o].pieces)
             y == Sum(Fiados(T), LAMBDA a : account[a].pieces)
             z == Sum(LoopRefunds(T), LAMBDA r : RefundAt(r).pieces)
  <2>1. x \in Nat /\ y \in Nat /\ z \in Nat
    BY ReportSums
  <2>2. TopProduct(T) = x + (y - z) /\ ItemsRanking(T).quantity = x + y - z
    BY DEF TopProduct, ItemsRanking
  <2> HIDE DEF x, y, z
  <2> QED  BY <2>1, <2>2
<1>6. DashboardGestao(T).billing_total = ListSales(T).total_sales + ListSales(T).service
  BY <1>2, <1>3 DEF DashboardGestao
<1> QED  BY <1>2, <1>3, <1>4, <1>5, <1>6

(* The list of no particular day misses the installments and the tips.     *)
LEMMA ServiceSums ==
  ASSUME LedgerInv, NEW T
  PROVE  TipsPaid(T) \in Nat /\ RefundableService(T) \in Nat
<1> DEFINE S == {a \in Accounts : /\ account[a].total > 0 /\ Payoff(a) # 0
                                  /\ installments[a][Payoff(a)].period \in T}
           U == {r \in RefundsIn(T) : RefundAt(r).serviceRecognized /\ ~RefundAt(r).repassed}
<1>1. S \subseteq Accounts /\ IsFiniteSet(Accounts)
  BY FiniteSales
<1>2. \A a \in S : account[a].service \in Nat
  BY AccountFacts, AccountColumns
<1>3. U \subseteq RefundsIn(T) /\ IsFiniteSet(RefundsIn(T))
  BY ReportRows
<1>4. \A r \in U : RefundAt(r).service \in Nat
  BY ReportRows, RowTypes
<1> HIDE DEF S, U
<1>5. [a \in S |-> account[a].service] \in [S -> Nat] /\ IsFiniteSet(S)
  BY <1>1, <1>2, FS_Subset
<1>6. [r \in U |-> RefundAt(r).service] \in [U -> Nat] /\ IsFiniteSet(U)
  BY <1>3, <1>4, FS_Subset
<1>7. SumF([a \in S |-> account[a].service]) \in Nat
  BY <1>5, SumType
<1>8. SumF([r \in U |-> RefundAt(r).service]) \in Nat
  BY <1>6, SumType
<1> QED  BY <1>7, <1>8 DEF TipsPaid, RefundableService, Sum, S, U

LEMMA TheListOfNoDay ==
  ASSUME LedgerInv
  PROVE  /\ ListAllSales.total_sales + InstallmentProduct(Ever) = TotalSales(Ever)
         /\ ListAllSales.service + TipsPaid(Ever) = NetService(Ever)
<1> DEFINE x == DirectTotal(Ever)
           y == InstallmentProduct(Ever)
           z == Sum(LoopRefunds(Ever), LAMBDA r : RefundAt(r).product)
           s == DirectService(Ever)
           t == TipsPaid(Ever)
           u == RefundableService(Ever)
<1>1. QueryRefunds(Ever) = LoopRefunds(Ever)
  BY LoopsAndQueries
<1>2. x \in Nat /\ y \in Nat /\ z \in Nat /\ s \in Nat /\ t \in Nat /\ u \in Nat
  BY ReportSums, ServiceSums
<1>3. /\ ListAllSales.total_sales = x - z /\ TotalSales(Ever) = x + y - z
      /\ ListAllSales.service = s - u /\ NetService(Ever) = s + t - u
  BY <1>1 DEF ListAllSales, TotalSales, NetService
<1> HIDE DEF x, y, z, s, t, u
<1>4. x - z + y = x + y - z /\ s - u + t = s + t - u
  BY <1>2
<1> QED  BY <1>3, <1>4 DEF y, t

LEMMA SalesAgree ==
  ASSUME LedgerInv, SalesInv
  PROVE  ScreensAgree
<1> SUFFICES ASSUME NEW T \in {{t} : t \in Ever} \cup {Ever}
             PROVE  /\ PeriodProfit(T) = [total_sales |-> TotalSales(T), total_cogs |-> TotalCogs(T),
                                          net_profit |-> NetProfit(T)]
                    /\ ListSales(T) = [total_sales |-> TotalSales(T), service |-> NetService(T)]
                    /\ ListAllSales.total_sales + InstallmentProduct(Ever) = TotalSales(Ever)
                    /\ ListAllSales.service + TipsPaid(Ever) = NetService(Ever)
                    /\ \A m \in Methods : PaymentBreakdown(T, m) = ByMethod(T, m).gross
                    /\ GrossTotal(T) = Balance(Methods, LAMBDA m : ByMethod(T, m).gross)
                    /\ CardFees(T) = Sum(Methods, LAMBDA m : ByMethod(T, m).fee)
                    /\ DashboardGeral(T) = ListSales(T) /\ TopProduct(T) = ItemsRanking(T).quantity
                    /\ DashboardGestao(T).billing_total = ListSales(T).total_sales + ListSales(T).service
                    /\ \A o \in DirectSales(T) : TableOfVendas(T, o) = ByTable(T, o)
                    /\ Balance(T, CashInflows) = ByMethod(T, Cash).gross
                    /\ Balance(T, SalesByDay) = TotalSales(T)
                    /\ \A a \in Accounts :
                         /\ Balance(Ever, LAMBDA t : YearlyTotal({t}, a)) = TotalSpent(a)
                         /\ TotalSpent(a) = Price * ItemsOfCustomer(a)
  BY DEF ScreensAgree
<1>1. IsFiniteSet(T)
  <2>1. IsFiniteSet(Ever)
    BY DayFacts, FS_Interval DEF Ever
  <2> QED  BY <2>1, FS_Singleton
<1>2. \A m \in Methods : PaymentBreakdown(T, m) = ByMethod(T, m).gross
  BY BreakdownIsByMethod
<1>3. /\ GrossTotal(T) = Balance(Methods, LAMBDA m : ByMethod(T, m).gross)
      /\ CardFees(T) = Sum(Methods, LAMBDA m : ByMethod(T, m).fee)
  <2>1. MethodsAgree(T)
    BY MethodsAddUp
  <2> QED  BY <2>1, Zenon DEF MethodsAgree
<1>4. \A o \in DirectSales(T) : TableOfVendas(T, o) = ByTable(T, o)
  BY TablesAgree
<1>5. Balance(T, CashInflows) = ByMethod(T, Cash).gross
  BY <1>1, DrawersAddUp
<1>6. Balance(T, SalesByDay) = TotalSales(T)
  BY <1>1, DaysAddUp
<1>7. \A a \in Accounts : /\ Balance(Ever, LAMBDA t : YearlyTotal({t}, a)) = TotalSpent(a)
                          /\ TotalSpent(a) = Price * ItemsOfCustomer(a)
  BY YearsAddUp, SpentIsPriced
<1> QED  BY <1>2, <1>3, <1>4, <1>5, <1>6, <1>7, SameTotals, TheListOfNoDay

(* The screens that add up the same rows show the same money: the methods, *)
(* the drawers of the sessions, the days, the tables and the customers,    *)
(* whatever was sold, converted, refunded or undone; the list of sales of  *)
(* no particular day falls short by the installments and the tips.         *)
THEOREM ScreensAlwaysAgree == Spec => []ScreensAgree
<1>1. LedgerInv /\ (Apart /\ Price # 0 => FiadoInv) /\ SalesInv => ScreensAgree
  BY SalesAgree
<1> QED  BY <1>1, SalesFit, PTL


----------------------------------------------------------------------------
(* Sale by sale: the rows of R of each sale, by their numbers.             *)
NosOf(R, a) == {r[2] : r \in {r \in R : r[1] = a}}
PerSale(A, R, c, s) ==
  /\ \A r \in R : r[1] \in A /\ r = <<r[1], r[2]>>
  /\ c \in [R -> Nat] /\ s = [a \in A |-> s[a]]
  /\ \A a \in A : s[a] = SumF([i \in NosOf(R, a) |-> c[<<a, i>>]])

LEMMA BySale ==
  ASSUME NEW A, IsFiniteSet(A), NEW R, IsFiniteSet(R), NEW c, NEW s, PerSale(A, R, c, s)
  PROVE  s \in [A -> Nat] /\ SumF(s) = SumF(c)
<1> DEFINE h == [r \in R |-> r[1]]
           w == [a \in A |-> SumF([r \in {r \in R : h[r] = a} |-> c[r]])]
<1>1. h \in [R -> A] /\ c \in [R -> Nat]
  BY DEF PerSale
<1>2. ASSUME NEW a \in A PROVE s[a] = SumF([r \in {r \in R : h[r] = a} |-> c[r]])
  <2> DEFINE G == {r \in R : h[r] = a}
             e == [i \in NosOf(R, a) |-> <<a, i>>]
             f == [r \in G |-> c[r]]
  <2>1. \A i \in NosOf(R, a) : <<a, i>> \in G
    BY DEF PerSale, NosOf
  <2>2. \A r \in G : r[2] \in NosOf(R, a) /\ r = <<a, r[2]>>
    BY DEF PerSale, NosOf
  <2>3. e \in [NosOf(R, a) -> G] /\ \A i, j \in NosOf(R, a) : e[i] = e[j] => i = j
    BY <2>1
  <2>4. \A r \in G : \E i \in NosOf(R, a) : e[i] = r
    BY <2>2
  <2>5. e \in Bijection(NosOf(R, a), G)
    BY <2>3, <2>4, Fun_IsBij DEF Bijection, Injection, Surjection
  <2>6. IsFiniteSet(NosOf(R, a))
    <3>1. IsFiniteSet(G)
      BY FS_Subset
    <3>2. e \in Injection(NosOf(R, a), G)
      BY <2>5 DEF Bijection
    <3> HIDE DEF G, e
    <3> QED  BY <3>1, <3>2, FS_Injection
  <2>7. f \in [G -> Nat]
    BY <1>1
  <2>8. [i \in NosOf(R, a) |-> c[<<a, i>>]] = [i \in NosOf(R, a) |-> f[e[i]]]
    BY <2>1
  <2>9. s[a] = SumF([i \in NosOf(R, a) |-> c[<<a, i>>]])
    BY DEF PerSale
  <2> HIDE DEF G, e, f
  <2>10. SumF([i \in NosOf(R, a) |-> f[e[i]]]) = SumF(f)
    BY <2>5, <2>6, <2>7, SumReindex
  <2> QED  BY <2>8, <2>9, <2>10 DEF f, G
<1>3. s = w
  BY <1>2 DEF PerSale
<1>4. w \in [A -> Nat] /\ SumF(w) = SumF(c)
  <2> HIDE DEF h
  <2> QED  BY <1>1, InParts
<1> HIDE DEF w
<1> QED  BY <1>3, <1>4

(* The columns of the three tables, sale by sale.                          *)
OfSales(s, total) == s \in [Accounts -> Nat] /\ SumF(s) = total

LEMMA RefundsBySale ==
  ASSUME LedgerInv, NEW R, R \subseteq RefundRows
  PROVE  /\ OfSales([a \in Accounts |-> SumOf(refunds[a], NosOf(R, a), Product)],
                    Sum(R, LAMBDA r : RefundAt(r).product))
         /\ OfSales([a \in Accounts |-> SumOf(refunds[a], NosOf(R, a), Service)],
                    Sum(R, LAMBDA r : RefundAt(r).service))
         /\ OfSales([a \in Accounts |-> SumOf(refunds[a], NosOf(R, a), Gross)],
                    Sum(R, LAMBDA r : Gross(RefundAt(r))))
         /\ OfSales([a \in Accounts |-> SumOf(refunds[a], NosOf(R, a), Pieces)],
                    Sum(R, LAMBDA r : RefundAt(r).pieces))
<1>1. IsFiniteSet(R) /\ IsFiniteSet(Accounts)
  BY AllRows, FiniteSales, FS_Subset DEF LedgerInv
<1>2. \A r \in R : r[1] \in Accounts /\ r = <<r[1], r[2]>> /\ RefundAt(r) \in RefundRow
  BY AllRows DEF LedgerInv
<1>3. \A r \in R : /\ RefundAt(r).product \in Nat /\ RefundAt(r).service \in Nat
                   /\ Gross(RefundAt(r)) \in Nat /\ RefundAt(r).pieces \in Nat
  BY <1>2, RowTypes DEF Gross
<1>4. \A a \in Accounts : \A i \in NosOf(R, a) : <<a, i>> \in R /\ RefundAt(<<a, i>>) = refunds[a][i]
  BY <1>2 DEF NosOf, RefundAt
<1> DEFINE c1 == [r \in R |-> RefundAt(r).product]
           c2 == [r \in R |-> RefundAt(r).service]
           c3 == [r \in R |-> Gross(RefundAt(r))]
           c4 == [r \in R |-> RefundAt(r).pieces]
           s1 == [a \in Accounts |-> SumOf(refunds[a], NosOf(R, a), Product)]
           s2 == [a \in Accounts |-> SumOf(refunds[a], NosOf(R, a), Service)]
           s3 == [a \in Accounts |-> SumOf(refunds[a], NosOf(R, a), Gross)]
           s4 == [a \in Accounts |-> SumOf(refunds[a], NosOf(R, a), Pieces)]
<1>5. PerSale(Accounts, R, c1, s1)
  <2>1. \A a \in Accounts : [i \in NosOf(R, a) |-> refunds[a][i].product] = [i \in NosOf(R, a) |-> c1[<<a, i>>]]
    BY <1>4
  <2> QED  BY <1>2, <1>3, <2>1 DEF PerSale, SumOf, Product
<1>6. PerSale(Accounts, R, c2, s2)
  <2>1. \A a \in Accounts : [i \in NosOf(R, a) |-> refunds[a][i].service] = [i \in NosOf(R, a) |-> c2[<<a, i>>]]
    BY <1>4
  <2> QED  BY <1>2, <1>3, <2>1 DEF PerSale, SumOf, Service
<1>7. PerSale(Accounts, R, c3, s3)
  <2>1. \A a \in Accounts : [i \in NosOf(R, a) |-> Gross(refunds[a][i])] = [i \in NosOf(R, a) |-> c3[<<a, i>>]]
    BY <1>4
  <2> QED  BY <1>2, <1>3, <2>1 DEF PerSale, SumOf
<1>8. PerSale(Accounts, R, c4, s4)
  <2>1. \A a \in Accounts : [i \in NosOf(R, a) |-> refunds[a][i].pieces] = [i \in NosOf(R, a) |-> c4[<<a, i>>]]
    BY <1>4
  <2> QED  BY <1>2, <1>3, <2>1 DEF PerSale, SumOf, Pieces
<1>9. /\ Sum(R, LAMBDA r : RefundAt(r).product) = SumF(c1)
      /\ Sum(R, LAMBDA r : RefundAt(r).service) = SumF(c2)
      /\ Sum(R, LAMBDA r : Gross(RefundAt(r))) = SumF(c3)
      /\ Sum(R, LAMBDA r : RefundAt(r).pieces) = SumF(c4)
  BY DEF Sum
<1> HIDE DEF c1, c2, c3, c4, s1, s2, s3, s4
<1>10. OfSales(s1, SumF(c1)) /\ OfSales(s2, SumF(c2))
  BY <1>1, <1>5, <1>6, BySale DEF OfSales
<1>11. OfSales(s3, SumF(c3)) /\ OfSales(s4, SumF(c4))
  BY <1>1, <1>7, <1>8, BySale DEF OfSales
<1> QED  BY <1>9, <1>10, <1>11 DEF s1, s2, s3, s4

LEMMA PaymentsBySale ==
  ASSUME LedgerInv, NEW R, R \subseteq OrderRows
  PROVE  /\ OfSales([a \in Accounts |-> SumOf(payments[a], NosOf(R, a), Product)],
                    Sum(R, LAMBDA r : PaymentAt(r).product))
         /\ OfSales([a \in Accounts |-> SumOf(payments[a], NosOf(R, a), Service)],
                    Sum(R, LAMBDA r : PaymentAt(r).service))
         /\ OfSales([a \in Accounts |-> SumOf(payments[a], NosOf(R, a), Gross)],
                    Sum(R, LAMBDA r : Gross(PaymentAt(r))))
<1>1. IsFiniteSet(R) /\ IsFiniteSet(Accounts)
  BY AllRows, FiniteSales, FS_Subset DEF LedgerInv
<1>2. \A r \in R : r[1] \in Accounts /\ r = <<r[1], r[2]>> /\ PaymentAt(r) \in PaymentRow
  BY AllRows DEF LedgerInv, Accounts
<1>3. \A r \in R : /\ PaymentAt(r).product \in Nat /\ PaymentAt(r).service \in Nat
                   /\ Gross(PaymentAt(r)) \in Nat
  BY <1>2, RowTypes DEF Gross
<1>4. \A a \in Accounts : \A i \in NosOf(R, a) : <<a, i>> \in R /\ PaymentAt(<<a, i>>) = payments[a][i]
  BY <1>2 DEF NosOf, PaymentAt
<1> DEFINE c1 == [r \in R |-> PaymentAt(r).product]
           c2 == [r \in R |-> PaymentAt(r).service]
           c3 == [r \in R |-> Gross(PaymentAt(r))]
           s1 == [a \in Accounts |-> SumOf(payments[a], NosOf(R, a), Product)]
           s2 == [a \in Accounts |-> SumOf(payments[a], NosOf(R, a), Service)]
           s3 == [a \in Accounts |-> SumOf(payments[a], NosOf(R, a), Gross)]
<1>5. PerSale(Accounts, R, c1, s1)
  <2>1. \A a \in Accounts : [i \in NosOf(R, a) |-> payments[a][i].product] = [i \in NosOf(R, a) |-> c1[<<a, i>>]]
    BY <1>4
  <2> QED  BY <1>2, <1>3, <2>1 DEF PerSale, SumOf, Product
<1>6. PerSale(Accounts, R, c2, s2)
  <2>1. \A a \in Accounts : [i \in NosOf(R, a) |-> payments[a][i].service] = [i \in NosOf(R, a) |-> c2[<<a, i>>]]
    BY <1>4
  <2> QED  BY <1>2, <1>3, <2>1 DEF PerSale, SumOf, Service
<1>7. PerSale(Accounts, R, c3, s3)
  <2>1. \A a \in Accounts : [i \in NosOf(R, a) |-> Gross(payments[a][i])] = [i \in NosOf(R, a) |-> c3[<<a, i>>]]
    BY <1>4
  <2> QED  BY <1>2, <1>3, <2>1 DEF PerSale, SumOf
<1>9. /\ Sum(R, LAMBDA r : PaymentAt(r).product) = SumF(c1)
      /\ Sum(R, LAMBDA r : PaymentAt(r).service) = SumF(c2)
      /\ Sum(R, LAMBDA r : Gross(PaymentAt(r))) = SumF(c3)
  BY DEF Sum
<1> HIDE DEF c1, c2, c3, s1, s2, s3
<1>10. OfSales(s1, SumF(c1)) /\ OfSales(s2, SumF(c2))
  BY <1>1, <1>5, <1>6, BySale DEF OfSales
<1>11. OfSales(s3, SumF(c3))
  BY <1>1, <1>7, BySale DEF OfSales
<1> QED  BY <1>9, <1>10, <1>11 DEF s1, s2, s3

LEMMA InstallmentsBySale ==
  ASSUME LedgerInv, NEW R, R \subseteq InstallmentRows
  PROVE  /\ OfSales([a \in Accounts |-> SumOf(installments[a], NosOf(R, a), Product)],
                    Sum(R, LAMBDA r : InstallmentAt(r).product))
         /\ OfSales([a \in Accounts |-> SumOf(installments[a], NosOf(R, a), Gross)],
                    Sum(R, LAMBDA r : Gross(InstallmentAt(r))))
<1>1. IsFiniteSet(R) /\ IsFiniteSet(Accounts)
  BY AllRows, FiniteSales, FS_Subset DEF LedgerInv
<1>2. \A r \in R : r[1] \in Accounts /\ r = <<r[1], r[2]>> /\ InstallmentAt(r) \in InstallmentRow
  BY AllRows DEF LedgerInv
<1>3. \A r \in R : InstallmentAt(r).product \in Nat /\ Gross(InstallmentAt(r)) \in Nat
  BY <1>2, RowTypes DEF Gross
<1>4. \A a \in Accounts : \A i \in NosOf(R, a) :
        <<a, i>> \in R /\ InstallmentAt(<<a, i>>) = installments[a][i]
  BY <1>2 DEF NosOf, InstallmentAt
<1> DEFINE c1 == [r \in R |-> InstallmentAt(r).product]
           c3 == [r \in R |-> Gross(InstallmentAt(r))]
           s1 == [a \in Accounts |-> SumOf(installments[a], NosOf(R, a), Product)]
           s3 == [a \in Accounts |-> SumOf(installments[a], NosOf(R, a), Gross)]
<1>5. PerSale(Accounts, R, c1, s1)
  <2>1. \A a \in Accounts :
          [i \in NosOf(R, a) |-> installments[a][i].product] = [i \in NosOf(R, a) |-> c1[<<a, i>>]]
    BY <1>4
  <2> QED  BY <1>2, <1>3, <2>1 DEF PerSale, SumOf, Product
<1>7. PerSale(Accounts, R, c3, s3)
  <2>1. \A a \in Accounts :
          [i \in NosOf(R, a) |-> Gross(installments[a][i])] = [i \in NosOf(R, a) |-> c3[<<a, i>>]]
    BY <1>4
  <2> QED  BY <1>2, <1>3, <2>1 DEF PerSale, SumOf
<1>9. /\ Sum(R, LAMBDA r : InstallmentAt(r).product) = SumF(c1)
      /\ Sum(R, LAMBDA r : Gross(InstallmentAt(r))) = SumF(c3)
  BY DEF Sum
<1> HIDE DEF c1, c3, s1, s3
<1>11. OfSales(s1, SumF(c1)) /\ OfSales(s3, SumF(c3))
  BY <1>1, <1>5, <1>7, BySale DEF OfSales
<1> QED  BY <1>9, <1>11 DEF s1, s3


(* Over all sessions nothing is dated out of the period.                   *)
LEMMA EverRows ==
  ASSUME LedgerInv
  PROVE  /\ RefundsIn(Ever) = RefundRows /\ InstallmentsIn(Ever) = InstallmentRows
         /\ DirectPayments(Ever) = {r \in OrderRows : ~order[r[1]].fiado}
<1>1. /\ \A r \in OrderRows : PaymentAt(r).period \in Ever
      /\ \A r \in InstallmentRows : InstallmentAt(r).period \in Ever
      /\ \A r \in RefundRows : RefundAt(r).period \in Ever
  <2>1. /\ \A r \in OrderRows : PaymentAt(r) \in PaymentRow
        /\ \A r \in InstallmentRows : InstallmentAt(r) \in InstallmentRow
        /\ \A r \in RefundRows : RefundAt(r) \in RefundRow
    BY AllRows DEF LedgerInv
  <2> QED  BY <2>1 DEF PaymentRow, InstallmentRow, RefundRow, Ever
<1> QED  BY <1>1 DEF RefundsIn, InstallmentsIn, DirectPayments

NamesPlaces(R, a, I) ==
  (\A r \in R : r = <<r[1], r[2]>>) /\ (\A i : <<a, i>> \in R <=> i \in I)
LEMMA PlacesAt ==
  ASSUME NEW R, NEW a, NEW I, NamesPlaces(R, a, I)
  PROVE  NosOf(R, a) = I
<1> USE DEF NamesPlaces
<1>1. \A i \in NosOf(R, a) : i \in I
  BY DEF NosOf
<1>2. \A i \in I : i \in NosOf(R, a)
  <2> TAKE i \in I
  <2>1. <<a, i>> \in R /\ <<a, i>>[1] = a /\ <<a, i>>[2] = i
    OBVIOUS
  <2> QED  BY <2>1 DEF NosOf
<1> QED  BY <1>1, <1>2

LEMMA RowNames ==
  ASSUME LedgerInv
  PROVE  /\ \A a, i : <<a, i>> \in OrderRows <=> a \in Orders /\ i \in DOMAIN payments[a]
         /\ \A a, i : <<a, i>> \in InstallmentRows <=> a \in Accounts /\ i \in DOMAIN installments[a]
         /\ \A a, i : <<a, i>> \in RefundRows <=> a \in Accounts /\ i \in DOMAIN refunds[a]
         /\ \A r \in OrderRows : r = <<r[1], r[2]>>
         /\ \A r \in InstallmentRows : r = <<r[1], r[2]>>
         /\ \A r \in RefundRows : r = <<r[1], r[2]>>
<1>1. TypeOK
  BY DEF LedgerInv
<1>2. \A a, i : <<a, i>> \in OrderRows => a \in Orders /\ i \in DOMAIN payments[a]
  BY <1>1, AllRows
<1>3. \A a, i : <<a, i>> \in InstallmentRows => a \in Accounts /\ i \in DOMAIN installments[a]
  BY <1>1, AllRows
<1>4. \A a, i : <<a, i>> \in RefundRows => a \in Accounts /\ i \in DOMAIN refunds[a]
  BY <1>1, AllRows
<1> QED  BY <1>1, <1>2, <1>3, <1>4, AllRows

(* The refunds no total subtracts: of sales not recognized yet, or undone. *)
Uncounted(a) == {i \in DOMAIN refunds[a] :
                   ~refunds[a][i].saleRecognized
                   \/ (a \in Orders /\ refunds[a][i].installment = 0 /\ order[a].estorno)}
Counted(a) == DOMAIN refunds[a] \ Uncounted(a)
PaidDirectly(a) == IF a \in Orders /\ ~order[a].fiado THEN DOMAIN payments[a] ELSE {}
LEMMA EverAt ==
  ASSUME LedgerInv, NEW a \in Accounts
  PROVE  /\ NosOf(RefundsIn(Ever), a) = DOMAIN refunds[a]
         /\ NosOf(InstallmentsIn(Ever), a) = DOMAIN installments[a]
         /\ NosOf(RefundsIn(Ever) \ LoopRefunds(Ever), a) = Uncounted(a)
         /\ NosOf(LoopRefunds(Ever), a) = Counted(a)
         /\ NosOf(DirectPayments(Ever), a) = PaidDirectly(a)
<1>1. NosOf(RefundsIn(Ever), a) = DOMAIN refunds[a]
  BY EverRows, RowNames, PlacesAt DEF NamesPlaces
<1>2. NosOf(InstallmentsIn(Ever), a) = DOMAIN installments[a]
  BY EverRows, RowNames, PlacesAt DEF NamesPlaces
<1>3. LoopRefunds(Ever) = {r \in RefundRows : RefundAt(r).saleRecognized /\ ~FromEstornadaOrder(r)}
  BY EverRows DEF LoopRefunds, SaleRefunds
<1>4. \A i : <<a, i>> \in LoopRefunds(Ever) <=> i \in Counted(a)
  BY <1>3, RowNames DEF Counted, Uncounted, FromEstornadaOrder, RefundAt
<1>5. \A i : <<a, i>> \in RefundsIn(Ever) \ LoopRefunds(Ever) <=> i \in Uncounted(a)
  BY <1>4, EverRows, RowNames DEF Counted, Uncounted
<1>6. NosOf(LoopRefunds(Ever), a) = Counted(a)
  <2>1. NamesPlaces(LoopRefunds(Ever), a, Counted(a))
    BY <1>3, <1>4, RowNames DEF NamesPlaces
  <2> QED  BY <2>1, PlacesAt
<1>7. NosOf(RefundsIn(Ever) \ LoopRefunds(Ever), a) = Uncounted(a)
  <2>1. NamesPlaces(RefundsIn(Ever) \ LoopRefunds(Ever), a, Uncounted(a))
    BY <1>5, EverRows, RowNames DEF NamesPlaces
  <2> QED  BY <2>1, PlacesAt
<1>8. \A i : <<a, i>> \in DirectPayments(Ever) <=> i \in PaidDirectly(a)
  BY EverRows, RowNames DEF PaidDirectly
<1>9. NosOf(DirectPayments(Ever), a) = PaidDirectly(a)
  <2>1. NamesPlaces(DirectPayments(Ever), a, PaidDirectly(a))
    BY <1>8, EverRows, RowNames DEF NamesPlaces
  <2> QED  BY <2>1, PlacesAt
<1> QED  BY <1>1, <1>2, <1>6, <1>7, <1>9

(* A refund of an undone fiado that no total subtracts returned nothing.   *)
LEMMA NothingUncounted ==
  ASSUME LedgerInv, SalesInv, Apart, NEW a \in Accounts, a \in Orders => order[a].fiado
  PROVE  /\ \A i \in Uncounted(a) : OfNothing(refunds[a][i])
         /\ refunds[a] # << >> => account[a].status = "cancelado"
<1>1. account[a].status # "cancelado" => refunds[a] = << >>
  <2>1. CASE a \in Orders
    BY <2>1 DEF SalesInv, SaleFits, LiveFiado
  <2>2. CASE a \in Direct
    BY <2>2 DEF SalesInv, LiveFiado
  <2> QED  BY <2>1, <2>2 DEF Accounts
<1>2. ASSUME NEW i \in Uncounted(a) PROVE OfNothing(refunds[a][i])
  <2>1. i \in DOMAIN refunds[a]
    BY DEF Uncounted
  <2>2. account[a].status = "cancelado"
    BY <1>1, <2>1
  <2>3. refunds[a][i].payment = 0 /\ refunds[a][i].saleRecognized
    BY <2>1, <2>2 DEF SalesInv, FiadoFits, UndoneFiado
  <2>4. a \in Orders /\ refunds[a][i].installment = 0
    BY <2>3 DEF Uncounted
  <2>5. Named(payments[a], installments[a], refunds[a])
    BY <2>4 DEF SalesInv, SaleFits
  <2>6. 0 \notin DOMAIN payments[a] /\ 0 \notin DOMAIN installments[a]
    <3>1. payments[a] \in Seq(PaymentRow) /\ installments[a] \in Seq(InstallmentRow)
      BY <2>4, SaleFacts
    <3> QED  BY <3>1
  <2> QED  BY <2>1, <2>3, <2>4, <2>5, <2>6 DEF Named, OfSomePayment, OfSomeInstallment
<1> QED  BY <1>1, <1>2

LEMMA SumsToNothing ==
  ASSUME NEW rows, NEW I, \A i \in I : rows[i].product = 0
  PROVE  SumOf(rows, I, Product) = 0
<1> DEFINE c == [i \in I |-> rows[i].product]
<1>1. c \in [I -> Nat] /\ \A i \in I : c[i] = 0
  OBVIOUS
<1>2. SumOf(rows, I, Product) = SumF(c)
  BY DEF SumOf, Product
<1> HIDE DEF c
<1> QED  BY <1>1, <1>2, SumZero

(* Once it is not open, what a sale counts as is what it was paid, less    *)
(* what was given back before it counted.                                  *)
SaleTotal(a) == IF a \in DirectSales(Ever) THEN order[a].total ELSE 0
LEMMA SaleIsReceived ==
  ASSUME LedgerInv, SalesInv, Apart, NEW a \in Accounts, a \in Orders => order[a].status # "aberta"
  PROVE  SaleTotal(a) + SumOf(refunds[a], Uncounted(a), Product)
           = SumOf(payments[a], PaidDirectly(a), Product)
<1>1. CASE a \in Orders => order[a].fiado
  <2>1. SaleTotal(a) = 0 /\ PaidDirectly(a) = {}
    BY <1>1 DEF SaleTotal, DirectSales, PaidDirectly
  <2>2. SumOf(payments[a], {}, Product) = 0
    BY NoRows
  <2>3. \A i \in Uncounted(a) : refunds[a][i].product = 0
    BY <1>1, NothingUncounted DEF OfNothing
  <2>4. SumOf(refunds[a], Uncounted(a), Product) = 0
    BY <2>3, SumsToNothing
  <2> QED  BY <2>1, <2>2, <2>4
<1>2. CASE a \in Orders /\ ~order[a].fiado
  <2>1. PaidDirectly(a) = DOMAIN payments[a]
    BY <1>2 DEF PaidDirectly
  <2>2. /\ SaleFits(a, order[a], payments[a], account[a], installments[a], refunds[a])
        /\ payments[a] \in Seq(PaymentRow) /\ refunds[a] \in Seq(RefundRow)
        /\ order[a] \in OrderRecord
    BY <1>2, SaleFacts DEF SalesInv
  <2>3. /\ Named(payments[a], installments[a], refunds[a]) /\ Priced(order[a], refunds[a])
        /\ ClosedSale(order[a], payments[a], refunds[a])
        /\ UndoneSale(order[a], payments[a], refunds[a])
    BY <2>2 DEF SaleFits
  <2>4. SumOf(payments[a], PaidDirectly(a), Product) = SumRows(payments[a], Product)
    BY <2>1 DEF SumRows
  <2>5. CASE order[a].status = "finalizada" /\ ~order[a].estorno
    <3>1. SaleTotal(a) = order[a].total
      BY <1>2, <2>5, WhenItCounts DEF SaleTotal, DirectSales
    <3>2. Uncounted(a) = Early(refunds[a])
      BY <2>5 DEF Uncounted, Early
    <3> QED  BY <1>2, <2>3, <2>4, <2>5, <3>1, <3>2 DEF ClosedSale
  <2>6. CASE order[a].status = "cancelada" \/ order[a].estorno
    <3>1. SaleTotal(a) = 0
      BY <2>6 DEF SaleTotal, DirectSales
    <3>2. \A i \in DOMAIN refunds[a] : refunds[a][i].payment # 0
      BY <1>2, <2>3, <2>6 DEF ClosedSale, UndoneSale, Priced
    <3>3. \A i \in DOMAIN refunds[a] :
            refunds[a][i].payment \in DOMAIN payments[a] /\ refunds[a][i].installment = 0
      BY <2>3, <3>2 DEF Named, OfSomePayment, OfSomeInstallment, OfNothing
    <3>4. AllGivenBack(payments[a], refunds[a])
      BY <1>2, <2>3, <2>6 DEF UndoneSale, AllGivenBack
    <3>5. Uncounted(a) = DOMAIN refunds[a]
      <4>1. order[a].status = "cancelada" => Late(refunds[a]) = {}
        BY <2>3 DEF UndoneSale
      <4> QED  BY <1>2, <2>6, <3>3, <4>1 DEF Uncounted, Late
    <3>6. SumOf(refunds[a], Uncounted(a), Product) = SumRows(refunds[a], Product)
      BY <3>5 DEF SumRows
    <3>7. SumRows(refunds[a], Product) = SumRows(payments[a], Product)
      <4>1. DOMAIN payments[a] = 1..Len(payments[a])
        BY <2>2, SeqFacts
      <4> QED  BY <2>2, <3>3, <3>4, <4>1, AllGivenTotals
    <3>8. SumRows(refunds[a], Product) \in Nat
      BY <2>2, RefundSums
    <3> QED  BY <2>4, <3>1, <3>6, <3>7, <3>8
  <2>7. CASE order[a].status = "nenhuma"
    <3>1. payments[a] = << >> /\ refunds[a] = << >>
      BY <1>2, <2>7, SaleFacts DEF OrderFits, StatusFits
    <3>2. Uncounted(a) = {} /\ PaidDirectly(a) = {} /\ SaleTotal(a) = 0
      BY <2>1, <2>7, <3>1 DEF Uncounted, SaleTotal, DirectSales
    <3>3. SumOf(refunds[a], {}, Product) = 0 /\ SumOf(payments[a], {}, Product) = 0
      BY NoRows
    <3> QED  BY <3>2, <3>3
  <2> QED  BY <1>2, <2>2, <2>5, <2>6, <2>7, OrderFields
<1> QED  BY <1>1, <1>2

LEMMA RevenueAddsUp ==
  ASSUME LedgerInv, SalesInv, Apart
  PROVE  RevenueIsProductReceived
<1> SUFFICES ASSUME \A o \in Orders : order[o].status # "aberta"
             PROVE  TotalSales(Ever) =
                      Sum(DirectPayments(Ever), LAMBDA r : PaymentAt(r).product)
                      + InstallmentProduct(Ever)
                      - Sum(RefundsIn(Ever), LAMBDA r : RefundAt(r).product)
  BY DEF RevenueIsProductReceived
<1> DEFINE N == RefundsIn(Ever) \ LoopRefunds(Ever)
           t == [a \in Accounts |-> SaleTotal(a)]
           u == [a \in Accounts |-> SumOf(refunds[a], Uncounted(a), Product)]
           p == [a \in Accounts |-> SumOf(payments[a], PaidDirectly(a), Product)]
           X == Sum(DirectPayments(Ever), LAMBDA r : PaymentAt(r).product)
           L == Sum(LoopRefunds(Ever), LAMBDA r : RefundAt(r).product)
           M == Sum(N, LAMBDA r : RefundAt(r).product)
           Y == Sum(RefundsIn(Ever), LAMBDA r : RefundAt(r).product)
<1>1. IsFiniteSet(Accounts) /\ IsFiniteSet(RefundsIn(Ever)) /\ LoopRefunds(Ever) \subseteq RefundsIn(Ever)
  BY FiniteSales, ReportRows
<1>2. OfSales(u, M)
  <2>1. OfSales([a \in Accounts |-> SumOf(refunds[a], NosOf(N, a), Product)], M)
    <3>1. N \subseteq RefundRows
      BY EverRows
    <3> HIDE DEF N
    <3> QED  BY <3>1, RefundsBySale
  <2>2. u = [a \in Accounts |-> SumOf(refunds[a], NosOf(N, a), Product)]
    BY EverAt
  <2> HIDE DEF u, M, N
  <2> QED  BY <2>1, <2>2
<1>3. OfSales(p, X)
  <2>1. OfSales([a \in Accounts |-> SumOf(payments[a], NosOf(DirectPayments(Ever), a), Product)], X)
    <3>1. DirectPayments(Ever) \subseteq OrderRows
      BY EverRows
    <3> QED  BY <3>1, PaymentsBySale
  <2>2. p = [a \in Accounts |-> SumOf(payments[a], NosOf(DirectPayments(Ever), a), Product)]
    BY EverAt
  <2> HIDE DEF p, X
  <2> QED  BY <2>1, <2>2
<1>4. t \in [Accounts -> Nat] /\ SumF(t) = DirectTotal(Ever)
  <2> DEFINE S == DirectSales(Ever)
  <2>1. S \subseteq Accounts /\ \A o \in S : order[o].total \in Nat
    BY SaleFacts, OrderFields DEF DirectSales, Accounts
  <2>2. t \in [Accounts -> Nat]
    BY <2>1 DEF SaleTotal
  <2>3. /\ \A a \in Accounts \ S : t[a] = 0
        /\ [a \in S |-> t[a]] = [o \in S |-> order[o].total]
    BY <2>1 DEF SaleTotal
  <2> HIDE DEF t, S
  <2>4. SumF(t) = SumF([a \in S |-> t[a]])
    BY <1>1, <2>1, <2>2, <2>3, SumIgnore
  <2> QED  BY <2>2, <2>3, <2>4 DEF DirectTotal, Sum, S
<1>5. \A a \in Accounts : p[a] = t[a] + u[a]
  BY SaleIsReceived
<1>6. Y = L + M
  <2> DEFINE R == RefundsIn(Ever)
             c == [r \in R |-> RefundAt(r).product]
  <2>1. c \in [R -> Nat]
    BY ReportRows, RowTypes
  <2>2. /\ [r \in LoopRefunds(Ever) |-> c[r]] = [r \in LoopRefunds(Ever) |-> RefundAt(r).product]
        /\ [r \in R \ LoopRefunds(Ever) |-> c[r]] = [r \in N |-> RefundAt(r).product]
    BY <1>1
  <2>3. L = SumF([r \in LoopRefunds(Ever) |-> c[r]]) /\ M = SumF([r \in R \ LoopRefunds(Ever) |-> c[r]])
        /\ Y = SumF(c)
    BY <2>2 DEF Sum
  <2>4. IsFiniteSet(R) /\ LoopRefunds(Ever) \in SUBSET R
    BY <1>1
  <2> HIDE DEF c, R, L, M, Y
  <2>5. SumF(c) = SumF([r \in LoopRefunds(Ever) |-> c[r]]) + SumF([r \in R \ LoopRefunds(Ever) |-> c[r]])
    BY <2>1, <2>4, SumSplit
  <2> QED  BY <2>3, <2>5
<1>7. TotalSales(Ever) = DirectTotal(Ever) + InstallmentProduct(Ever) - L
  BY DEF TotalSales
<1>8. DirectTotal(Ever) \in Nat /\ InstallmentProduct(Ever) \in Nat /\ L \in Nat
  BY ReportSums
<1> HIDE DEF t, u, p, X, L, M, Y, N
<1>9. u \in [Accounts -> Nat] /\ p \in [Accounts -> Nat] /\ SumF(u) = M /\ SumF(p) = X
  BY <1>2, <1>3 DEF OfSales
<1>10. p = [a \in Accounts |-> p[a]]
  BY <1>9
<1>11. SumF(p) = SumF(t) + SumF(u)
  BY <1>1, <1>4, <1>5, <1>9, <1>10, SumOfTwo
<1>12. M \in Nat /\ X \in Nat
  BY <1>1, <1>9, SumType
<1>13. TotalSales(Ever) = X + InstallmentProduct(Ever) - Y
  BY <1>4, <1>6, <1>7, <1>8, <1>9, <1>11, <1>12
<1> QED  BY <1>13 DEF X, Y


----------------------------------------------------------------------------
(* Sales that were all undone.                                             *)

(* What was taken and what was given back, when each refund names the row  *)
(* it returns or returns nothing: any choice of rows adds up to the        *)
(* refunds of those rows.                                                  *)
ReturnsAll(c, m, g, n, h) ==
  /\ c \in [1..m -> Nat] /\ g \in [1..n -> Nat] /\ h \in [1..m -> 0..n]
  /\ \A p \in 1..n : SumOn(c, {i \in 1..m : h[i] = p}) = g[p]
  /\ \A i \in 1..m : h[i] = 0 => c[i] = 0
Follows(K, m, Q, n, h) ==
  /\ Places(K, m) /\ Places(Q, n)
  /\ \A i \in 1..m : h[i] # 0 => (i \in K <=> h[i] \in Q)

LEMMA ChosenBack ==
  ASSUME NEW m \in Nat, NEW n \in Nat, NEW c, NEW g, NEW h, ReturnsAll(c, m, g, n, h),
         NEW K, NEW Q, Follows(K, m, Q, n, h)
  PROVE  SumOn(c, K) = SumOn(g, Q)
<1> DEFINE D == 1..m
           P == 0..n
           u == [i \in D |-> IF i \in K THEN c[i] ELSE 0]
           v == [p \in P |-> IF p \in Q THEN g[p] ELSE 0]
           w == GroupSums(h, u, D, P)
<1>1. IsFiniteSet(D) /\ IsFiniteSet(P)
  BY FS_Interval
<1>2. /\ K \subseteq 1..m /\ Q \subseteq 1..n /\ c \in [1..m -> Nat] /\ g \in [1..n -> Nat]
      /\ h \in [1..m -> 0..n]
  BY DEF Follows, Places, ReturnsAll
<1>3. u \in [D -> Nat] /\ v \in [P -> Nat] /\ h \in [D -> P]
  BY <1>2
<1>4. w \in [P -> Nat] /\ SumF(w) = SumF(u)
  <2> HIDE DEF D, P, u
  <2> QED  BY <1>1, <1>3, SumPartition
<1>5. ASSUME NEW p \in P PROVE w[p] = v[p]
  <2> DEFINE G == {i \in D : h[i] = p}
  <2>1. w[p] = SumF([i \in G |-> u[i]])
    BY DEF GroupSums, GroupOf, SumOn
  <2>2. CASE p \in Q
    <3>1. p \in 1..n /\ v[p] = g[p] /\ \A i \in G : u[i] = c[i]
      BY <1>2, <2>2 DEF Follows
    <3>2. [i \in G |-> u[i]] = [i \in G |-> c[i]]
      BY <3>1
    <3>3. SumF([i \in G |-> c[i]]) = g[p]
      BY <3>1 DEF ReturnsAll, SumOn
    <3> QED  BY <2>1, <3>1, <3>2, <3>3
  <2>3. CASE p \notin Q
    <3>1. v[p] = 0 /\ \A i \in G : u[i] = 0
      <4>1. \A i \in G : p # 0 => i \notin K
        BY <2>3 DEF Follows
      <4>2. \A i \in G : p = 0 => c[i] = 0
        BY DEF ReturnsAll
      <4> QED  BY <2>3, <4>1, <4>2
    <3> DEFINE z == [i \in G |-> u[i]]
    <3>2. z \in [G -> Nat] /\ \A i \in G : z[i] = 0
      BY <3>1
    <3> HIDE DEF z, w, v
    <3>3. SumF(z) = 0
      BY <3>2, SumZero
    <3> QED  BY <2>1, <3>1, <3>3 DEF z
  <2> QED  BY <2>2, <2>3
<1>6. w = v
  <2> HIDE DEF w
  <2> QED  BY <1>3, <1>4, <1>5
<1>7. SumF(u) = SumF([i \in K |-> u[i]])
  <2>1. (\A i \in D \ K : u[i] = 0) /\ K \subseteq D
    BY <1>2
  <2> HIDE DEF u, D
  <2> QED  BY <1>1, <1>3, <2>1, SumIgnore
<1>8. SumF(v) = SumF([p \in Q |-> v[p]])
  <2>1. (\A p \in P \ Q : v[p] = 0) /\ Q \subseteq P
    BY <1>2
  <2> HIDE DEF v, P
  <2> QED  BY <1>1, <1>3, <2>1, SumIgnore
<1>9. [i \in K |-> u[i]] = [i \in K |-> c[i]] /\ [p \in Q |-> v[p]] = [p \in Q |-> g[p]]
  BY <1>2
<1> HIDE DEF u, v, w
<1> QED  BY <1>4, <1>6, <1>7, <1>8, <1>9 DEF SumOn

(* The same of the rows of two tables, for product, service and both.      *)
GivesBack(rows, n, refs, m, h) ==
  /\ MoneyRows(rows, n) /\ MoneyRows(refs, m) /\ h \in [1..m -> 0..n]
  /\ \A p \in 1..n :
       /\ SumOf(refs, {i \in 1..m : h[i] = p}, Product) = rows[p].product
       /\ SumOf(refs, {i \in 1..m : h[i] = p}, Service) = rows[p].service
  /\ \A i \in 1..m : h[i] = 0 => refs[i].product = 0 /\ refs[i].service = 0

LEMMA MoneyBack ==
  ASSUME NEW m \in Nat, NEW n \in Nat, NEW rows, NEW refs, NEW h, GivesBack(rows, n, refs, m, h),
         NEW K, NEW Q, Follows(K, m, Q, n, h)
  PROVE  /\ SumOf(refs, K, Product) = SumOf(rows, Q, Product)
         /\ SumOf(refs, K, Gross) = SumOf(rows, Q, Gross)
<1>1. MoneyRows(rows, n) /\ MoneyRows(refs, m)
  BY DEF GivesBack
<1>2. DOMAIN rows = 1..n /\ DOMAIN refs = 1..m
  BY <1>1 DEF MoneyRows
<1>3. Places(K, m) /\ Places(Q, n) /\ K \subseteq 1..m /\ Q \subseteq 1..n
  BY DEF Follows, Places
<1>4. /\ ProductOf(rows) \in [1..n -> Nat] /\ ServiceOf(rows) \in [1..n -> Nat]
      /\ \A i \in 1..n : ProductOf(rows)[i] = rows[i].product /\ ServiceOf(rows)[i] = rows[i].service
  BY <1>1, ColumnTypes
<1>5. /\ ProductOf(refs) \in [1..m -> Nat] /\ ServiceOf(refs) \in [1..m -> Nat]
      /\ \A i \in 1..m : ProductOf(refs)[i] = refs[i].product /\ ServiceOf(refs)[i] = refs[i].service
  BY <1>1, ColumnTypes
<1>6. \A p \in 1..n : /\ SumOn(ProductOf(refs), {i \in 1..m : h[i] = p}) = rows[p].product
                      /\ SumOn(ServiceOf(refs), {i \in 1..m : h[i] = p}) = rows[p].service
  <2> TAKE p \in 1..n
  <2> DEFINE G == {i \in 1..m : h[i] = p}
  <2>1. \A i \in G : i \in DOMAIN refs
    BY <1>2
  <2>2. SumOf(refs, G, Product) = rows[p].product /\ SumOf(refs, G, Service) = rows[p].service
    BY DEF GivesBack
  <2> HIDE DEF G
  <2>3. SumOf(refs, G, Product) = SumOn(ProductOf(refs), G) /\ SumOf(refs, G, Service) = SumOn(ServiceOf(refs), G)
    BY <2>1, ColumnSums
  <2> QED  BY <2>2, <2>3 DEF G
<1>7. ReturnsAll(ProductOf(refs), m, ProductOf(rows), n, h)
  BY <1>4, <1>5, <1>6 DEF ReturnsAll, GivesBack
<1>8. ReturnsAll(ServiceOf(refs), m, ServiceOf(rows), n, h)
  BY <1>4, <1>5, <1>6 DEF ReturnsAll, GivesBack
<1>9. SumOn(ProductOf(refs), K) = SumOn(ProductOf(rows), Q)
  BY <1>7, ChosenBack
<1>10. SumOn(ServiceOf(refs), K) = SumOn(ServiceOf(rows), Q)
  BY <1>8, ChosenBack
<1>11. /\ SumOf(refs, K, Product) = SumOn(ProductOf(refs), K) /\ SumOf(refs, K, Service) = SumOn(ServiceOf(refs), K)
       /\ SumOf(rows, Q, Product) = SumOn(ProductOf(rows), Q) /\ SumOf(rows, Q, Service) = SumOn(ServiceOf(rows), Q)
  <2>1. (\A i \in K : i \in DOMAIN refs) /\ (\A i \in Q : i \in DOMAIN rows)
    BY <1>2, <1>3
  <2> QED  BY <2>1, ColumnSums
<1>12. SumOf(refs, K, Gross) = SumOf(refs, K, Product) + SumOf(refs, K, Service)
  BY <1>1, <1>3, RowSums
<1>13. SumOf(rows, Q, Gross) = SumOf(rows, Q, Product) + SumOf(rows, Q, Service)
  BY <1>1, <1>3, RowSums
<1> QED  BY <1>9, <1>10, <1>11, <1>12, <1>13


(* The two kinds of an undone sale: paid as a comanda, or as a fiado.      *)
OfFiado(a) == a \in Orders => order[a].fiado
NamesPaid(refs) == [i \in 1..Len(refs) |-> refs[i].payment]
NamesPaidOff(refs) == [i \in 1..Len(refs) |-> refs[i].installment]

LEMMA UndoneComanda ==
  ASSUME LedgerInv, SalesInv, Apart, AllUndone, NEW a \in Orders, ~order[a].fiado
  PROVE  /\ order[a].status # "aberta" /\ account[a].status = "nenhum"
         /\ installments[a] = << >> /\ PaidDirectly(a) = DOMAIN payments[a]
         /\ \A i \in DOMAIN refunds[a] :
              /\ refunds[a][i].payment \in DOMAIN payments[a] /\ refunds[a][i].installment = 0
              /\ refunds[a][i].payment # 0 /\ refunds[a][i].serviceRecognized
              /\ refunds[a][i].method = payments[a][refunds[a][i].payment].method
         /\ AllGivenBack(payments[a], refunds[a])
         /\ order[a].estorno => order[a].status = "finalizada"
         /\ ~order[a].estorno => Late(refunds[a]) = {}
         /\ order[a].status # "cancelada" /\ ~order[a].estorno => payments[a] = << >> /\ refunds[a] = << >>
<1>1. SaleFits(a, order[a], payments[a], account[a], installments[a], refunds[a])
  BY DEF SalesInv
<1>2. /\ Named(payments[a], installments[a], refunds[a]) /\ Priced(order[a], refunds[a])
      /\ ClosedSale(order[a], payments[a], refunds[a]) /\ UndoneSale(order[a], payments[a], refunds[a])
  BY <1>1 DEF SaleFits
<1>3. /\ order[a].status \in {"nenhuma", "cancelada"} \/ order[a].estorno
      /\ order[a].estorno => order[a].status = "finalizada"
  BY <1>2 DEF AllUndone, Priced
<1>4. StatusFits(order[a], payments[a], account[a], installments[a], refunds[a])
  BY SaleFacts DEF OrderFits
<1>5. account[a].status = "nenhum" /\ installments[a] = << >>
  BY <1>4 DEF StatusFits
<1>6. PaidDirectly(a) = DOMAIN payments[a]
  BY DEF PaidDirectly
<1>7. CASE order[a].status = "nenhuma"
  <2>1. payments[a] = << >> /\ refunds[a] = << >>
    BY <1>4, <1>7 DEF StatusFits
  <2>2. Late(refunds[a]) = {} /\ AllGivenBack(payments[a], refunds[a])
    BY <2>1, NoRefunds DEF AllGivenBack
  <2> QED  BY <1>3, <1>5, <1>6, <1>7, <2>1, <2>2
<1>8. CASE order[a].status = "cancelada" \/ order[a].estorno
  <2>1. \A i \in DOMAIN refunds[a] : refunds[a][i].payment # 0
    BY <1>2, <1>3, <1>8 DEF ClosedSale, UndoneSale
  <2>2. \A i \in DOMAIN refunds[a] : OfSomePayment(refunds[a][i], payments[a])
    BY <1>2, <2>1 DEF Named, OfSomeInstallment, OfNothing
  <2>3. AllGivenBack(payments[a], refunds[a])
    BY <1>2, <1>8 DEF UndoneSale, AllGivenBack
  <2>4. ~order[a].estorno => Late(refunds[a]) = {}
    BY <1>2, <1>8 DEF UndoneSale
  <2> QED  BY <1>3, <1>5, <1>6, <1>8, <2>1, <2>2, <2>3, <2>4 DEF OfSomePayment
<1> QED  BY <1>3, <1>7, <1>8

LEMMA UndoneCredit ==
  ASSUME LedgerInv, SalesInv, FiadoInv, Apart, Price # 0, AllUndone, NEW a \in Accounts, OfFiado(a)
  PROVE  /\ PaidDirectly(a) = {} /\ account[a].status \in {"nenhum", "cancelado"}
         /\ a \in Orders => account[a].status = "cancelado" /\ order[a].estorno
         /\ account[a].status = "nenhum" => installments[a] = << >> /\ refunds[a] = << >>
         /\ UndoneFiado(account[a], installments[a], refunds[a])
         /\ TipGivenBack(account[a], installments[a], refunds[a])
         /\ \A i \in DOMAIN refunds[a] :
              \/ /\ refunds[a][i].installment \in DOMAIN installments[a]
                 /\ refunds[a][i].installment # 0
                 /\ refunds[a][i].method = installments[a][refunds[a][i].installment].method
              \/ OfNothing(refunds[a][i])
         /\ \A i \in DOMAIN refunds[a] :
              /\ refunds[a][i].payment = 0 /\ refunds[a][i].saleRecognized
              /\ refunds[a][i].repassed => refunds[a][i].serviceRecognized
<1>1. PaidDirectly(a) = {}
  BY DEF PaidDirectly, OfFiado
<1>2. a \in Orders => account[a].status = "cancelado" /\ order[a].estorno
  <2> SUFFICES ASSUME a \in Orders PROVE account[a].status = "cancelado" /\ order[a].estorno
    OBVIOUS
  <2>1. order[a].fiado
    BY DEF OfFiado
  <2>2. SaleFits(a, order[a], payments[a], account[a], installments[a], refunds[a])
    BY DEF SalesInv
  <2>3. order[a].status = "finalizada"
    BY <2>1, SaleFacts DEF OrderFits, StatusFits
  <2>4. order[a].estorno
    BY <2>3 DEF AllUndone
  <2> QED  BY <2>1, <2>2, <2>4 DEF SaleFits
<1>3. account[a].status \in {"nenhum", "cancelado"}
  BY <1>2 DEF AllUndone, Accounts
<1>4. account[a].status = "nenhum" => installments[a] = << >> /\ refunds[a] = << >>
  <2> SUFFICES ASSUME account[a].status = "nenhum"
               PROVE  installments[a] = << >> /\ refunds[a] = << >>
    OBVIOUS
  <2>1. a \in Direct
    BY <1>2 DEF Accounts
  <2>2. Balanced(account[a], installments[a])
    BY DEF FiadoInv
  <2> QED  BY <2>1, <2>2 DEF Balanced, SalesInv, LiveFiado
<1>5. FiadoFits(account[a], installments[a], refunds[a])
  BY DEF SalesInv
<1>6. /\ UndoneFiado(account[a], installments[a], refunds[a])
      /\ TipGivenBack(account[a], installments[a], refunds[a])
  BY <1>5 DEF FiadoFits
<1>7. DOMAIN << >> = {}
  OBVIOUS
<1>8. \A i \in DOMAIN refunds[a] :
        /\ refunds[a][i].payment = 0 /\ refunds[a][i].saleRecognized
        /\ refunds[a][i].repassed => refunds[a][i].serviceRecognized
  BY <1>3, <1>4, <1>6, <1>7 DEF UndoneFiado
<1>9. \A i \in DOMAIN refunds[a] :
        \/ /\ refunds[a][i].installment \in DOMAIN installments[a]
           /\ refunds[a][i].installment # 0
           /\ refunds[a][i].method = installments[a][refunds[a][i].installment].method
        \/ OfNothing(refunds[a][i])
  <2>1. PICK pays : Named(pays, installments[a], refunds[a]) /\ 0 \notin DOMAIN pays
    <3>1. CASE a \in Orders
      <4>1. payments[a] \in Seq(PaymentRow)
        BY <3>1, SaleFacts
      <4>2. 0 \notin DOMAIN payments[a]
        BY <4>1
      <4> QED  BY <3>1, <4>2 DEF SalesInv, SaleFits
    <3>2. CASE a \in Direct
      <4>1. 0 \notin DOMAIN << >>
        OBVIOUS
      <4> QED  BY <3>2, <4>1 DEF SalesInv
    <3> QED  BY <3>1, <3>2 DEF Accounts
  <2>2. 0 \notin DOMAIN installments[a]
    <3>1. installments[a] \in Seq(InstallmentRow)
      BY AccountFacts
    <3> QED  BY <3>1
  <2> QED  BY <1>8, <2>1, <2>2 DEF Named, OfSomePayment, OfSomeInstallment
<1> QED  BY <1>1, <1>2, <1>3, <1>4, <1>6, <1>8, <1>9

(* Either way the refunds give back the rows.                              *)
LEMMA ComandaGivesBack ==
  ASSUME LedgerInv, SalesInv, Apart, AllUndone, NEW a \in Orders, ~order[a].fiado
  PROVE  GivesBack(payments[a], Len(payments[a]), refunds[a], Len(refunds[a]), NamesPaid(refunds[a]))
<1> DEFINE n == Len(payments[a])
           m == Len(refunds[a])
           h == NamesPaid(refunds[a])
<1>1. payments[a] \in Seq(PaymentRow) /\ refunds[a] \in Seq(RefundRow)
  BY SaleFacts
<1>2. n \in Nat /\ MoneyRows(payments[a], n) /\ DOMAIN payments[a] = 1..n
  BY <1>1, PaymentTable
<1>3. m \in Nat /\ MoneyRows(refunds[a], m) /\ DOMAIN refunds[a] = 1..m
  BY <1>1, RefundTable
<1>4. \A i \in 1..m : refunds[a][i].payment \in 1..n /\ h[i] = refunds[a][i].payment
  BY <1>2, <1>3, UndoneComanda DEF NamesPaid
<1>5. h \in [1..m -> 0..n] /\ \A i \in 1..m : h[i] # 0
  <2>1. h = [i \in 1..m |-> refunds[a][i].payment]
    BY DEF NamesPaid
  <2> HIDE DEF n, m, h
  <2> QED  BY <1>2, <1>4, <2>1
<1>6. \A p \in 1..n : {i \in 1..m : h[i] = p} = Marked(refunds[a], p)
  BY <1>3, <1>4 DEF Marked
<1>7. AllGivenBack(payments[a], refunds[a])
  BY UndoneComanda
<1> HIDE DEF n, m, h
<1>8. \A p \in 1..n :
        /\ SumOf(refunds[a], {i \in 1..m : h[i] = p}, Product) = payments[a][p].product
        /\ SumOf(refunds[a], {i \in 1..m : h[i] = p}, Service) = payments[a][p].service
  BY <1>2, <1>6, <1>7 DEF AllGivenBack
<1>9. GivesBack(payments[a], n, refunds[a], m, h)
  BY <1>2, <1>3, <1>5, <1>8 DEF GivesBack
<1> QED  BY <1>9 DEF n, m, h

LEMMA FiadoGivesBack ==
  ASSUME LedgerInv, SalesInv, FiadoInv, Apart, Price # 0, AllUndone, NEW a \in Accounts, OfFiado(a)
  PROVE  GivesBack(installments[a], Len(installments[a]), refunds[a], Len(refunds[a]),
                   NamesPaidOff(refunds[a]))
<1> DEFINE n == Len(installments[a])
           m == Len(refunds[a])
           h == NamesPaidOff(refunds[a])
<1>1. installments[a] \in Seq(InstallmentRow) /\ refunds[a] \in Seq(RefundRow)
  BY AccountFacts
<1>2. n \in Nat /\ MoneyRows(installments[a], n) /\ DOMAIN installments[a] = 1..n
  BY <1>1, InstallmentTable
<1>3. m \in Nat /\ MoneyRows(refunds[a], m) /\ DOMAIN refunds[a] = 1..m
  BY <1>1, RefundTable
<1>4. \A i \in 1..m : /\ refunds[a][i].installment \in 0..n /\ h[i] = refunds[a][i].installment
                      /\ h[i] = 0 => refunds[a][i].product = 0 /\ refunds[a][i].service = 0
  <2>1. \A i \in 1..m : h[i] = refunds[a][i].installment
    BY DEF NamesPaidOff
  <2>2. \A i \in 1..m : \/ refunds[a][i].installment \in 1..n /\ refunds[a][i].installment # 0
                        \/ OfNothing(refunds[a][i])
    BY <1>2, <1>3, UndoneCredit
  <2> HIDE DEF h
  <2> QED  BY <1>2, <2>1, <2>2 DEF OfNothing
<1>5. h \in [1..m -> 0..n]
  <2>1. h = [i \in 1..m |-> refunds[a][i].installment]
    BY DEF NamesPaidOff
  <2> HIDE DEF h
  <2> QED  BY <1>4, <2>1
<1>6. \A p \in 1..n : {i \in 1..m : h[i] = p} = Settling(refunds[a], p)
  BY <1>3, <1>4 DEF Settling
<1>7. \A j \in DOMAIN installments[a] :
        /\ SumOf(refunds[a], Settling(refunds[a], j), Product) = installments[a][j].product
        /\ SumOf(refunds[a], Settling(refunds[a], j), Service) = installments[a][j].service
  <2>1. CASE account[a].status = "nenhum"
    <3>1. DOMAIN installments[a] = {}
      BY <2>1, UndoneCredit
    <3> QED  BY <3>1
  <2>2. CASE account[a].status = "cancelado"
    BY <2>2, UndoneCredit DEF UndoneFiado
  <2> QED  BY <2>1, <2>2, UndoneCredit
<1> HIDE DEF n, m, h
<1>8. \A p \in 1..n :
        /\ SumOf(refunds[a], {i \in 1..m : h[i] = p}, Product) = installments[a][p].product
        /\ SumOf(refunds[a], {i \in 1..m : h[i] = p}, Service) = installments[a][p].service
  BY <1>2, <1>6, <1>7
<1>9. GivesBack(installments[a], n, refunds[a], m, h)
  BY <1>2, <1>3, <1>4, <1>5, <1>8 DEF GivesBack
<1> QED  BY <1>9 DEF n, m, h


(* What one undone sale took by a method it gave back by that method, and  *)
(* what a fiado was paid, its installments' refunds returned.              *)
ByWay(rows, I, x) == {i \in I : rows[i].method = x}
OfAnInstallment(refs) == {i \in DOMAIN refs : refs[i].installment # 0}
MoneyUndone(a) ==
  /\ \A x : SumOf(payments[a], ByWay(payments[a], PaidDirectly(a), x), Gross)
            + SumOf(installments[a], ByWay(installments[a], DOMAIN installments[a], x), Gross)
              = SumOf(refunds[a], ByWay(refunds[a], DOMAIN refunds[a], x), Gross)
  /\ SumOf(payments[a], PaidDirectly(a), Product)
     + SumOf(installments[a], DOMAIN installments[a], Product)
       = SumOf(refunds[a], DOMAIN refunds[a], Product)
  /\ SumOf(installments[a], DOMAIN installments[a], Gross)
       = SumOf(refunds[a], OfAnInstallment(refunds[a]), Gross)

LEMMA ComandaMoneyUndone ==
  ASSUME LedgerInv, SalesInv, Apart, AllUndone, NEW a \in Orders, ~order[a].fiado
  PROVE  MoneyUndone(a)
<1> DEFINE n == Len(payments[a])
           m == Len(refunds[a])
           h == NamesPaid(refunds[a])
<1>1. payments[a] \in Seq(PaymentRow) /\ refunds[a] \in Seq(RefundRow)
  BY SaleFacts
<1>2. n \in Nat /\ MoneyRows(payments[a], n) /\ DOMAIN payments[a] = 1..n
  BY <1>1, PaymentTable
<1>3. m \in Nat /\ MoneyRows(refunds[a], m) /\ DOMAIN refunds[a] = 1..m
  BY <1>1, RefundTable
<1>4. GivesBack(payments[a], n, refunds[a], m, h)
  BY ComandaGivesBack
<1>5. /\ DOMAIN installments[a] = {} /\ PaidDirectly(a) = 1..n
      /\ OfAnInstallment(refunds[a]) = {}
  BY <1>2, UndoneComanda DEF OfAnInstallment
<1>6. \A i \in 1..m : h[i] = refunds[a][i].payment /\ h[i] \in 1..n
                      /\ refunds[a][i].method = payments[a][h[i]].method
  BY <1>2, <1>3, UndoneComanda DEF NamesPaid
<1> HIDE DEF n, m, h
<1>7. Follows(1..m, m, 1..n, n, h)
  BY <1>6 DEF Follows, Places
<1>8. \A x : Follows(ByWay(refunds[a], 1..m, x), m, ByWay(payments[a], 1..n, x), n, h)
  BY <1>6 DEF Follows, Places, ByWay
<1>9. \A x : SumOf(refunds[a], ByWay(refunds[a], 1..m, x), Gross)
               = SumOf(payments[a], ByWay(payments[a], 1..n, x), Gross)
  BY <1>2, <1>3, <1>4, <1>8, MoneyBack
<1>10. SumOf(refunds[a], 1..m, Product) = SumOf(payments[a], 1..n, Product)
  BY <1>2, <1>3, <1>4, <1>7, MoneyBack
<1>11. /\ SumOf(installments[a], {}, Gross) = 0 /\ SumOf(installments[a], {}, Product) = 0
       /\ SumOf(refunds[a], {}, Gross) = 0
  BY NoRows
<1>12. \A x : ByWay(installments[a], {}, x) = {}
  BY DEF ByWay
<1>13. \A x : SumOf(payments[a], ByWay(payments[a], 1..n, x), Gross) \in Nat
  <2> TAKE x
  <2>1. Places(ByWay(payments[a], 1..n, x), n)
    BY DEF ByWay, Places
  <2>2. /\ SumOf(payments[a], ByWay(payments[a], 1..n, x), Product) \in Nat
        /\ SumOf(payments[a], ByWay(payments[a], 1..n, x), Service) \in Nat
        /\ SumOf(payments[a], ByWay(payments[a], 1..n, x), Gross)
             = SumOf(payments[a], ByWay(payments[a], 1..n, x), Product)
               + SumOf(payments[a], ByWay(payments[a], 1..n, x), Service)
    BY <1>2, <2>1, RowSums
  <2> QED  BY <2>2
<1>14. SumOf(payments[a], 1..n, Product) \in Nat
  <2>1. Places(1..n, n)
    BY DEF Places
  <2> QED  BY <1>2, <2>1, RowSums
<1>15. \A x : SumOf(payments[a], ByWay(payments[a], PaidDirectly(a), x), Gross)
               + SumOf(installments[a], ByWay(installments[a], DOMAIN installments[a], x), Gross)
                 = SumOf(refunds[a], ByWay(refunds[a], DOMAIN refunds[a], x), Gross)
  <2> TAKE x
  <2> DEFINE X == SumOf(payments[a], ByWay(payments[a], 1..n, x), Gross)
             Z == SumOf(refunds[a], ByWay(refunds[a], 1..m, x), Gross)
  <2>1. SumOf(payments[a], ByWay(payments[a], PaidDirectly(a), x), Gross) = X
    BY <1>5
  <2>2. SumOf(refunds[a], ByWay(refunds[a], DOMAIN refunds[a], x), Gross) = Z
    BY <1>3
  <2>3. SumOf(installments[a], ByWay(installments[a], DOMAIN installments[a], x), Gross) = 0
    BY <1>5, <1>11, <1>12
  <2>4. X = Z /\ X \in Nat
    BY <1>9, <1>13
  <2> HIDE DEF X, Z
  <2> QED  BY <2>1, <2>2, <2>3, <2>4
<1>16. SumOf(payments[a], PaidDirectly(a), Product)
       + SumOf(installments[a], DOMAIN installments[a], Product)
         = SumOf(refunds[a], DOMAIN refunds[a], Product)
  BY <1>3, <1>5, <1>10, <1>11, <1>14
<1>17. SumOf(installments[a], DOMAIN installments[a], Gross)
         = SumOf(refunds[a], OfAnInstallment(refunds[a]), Gross)
  BY <1>5, <1>11
<1> QED  BY <1>15, <1>16, <1>17 DEF MoneyUndone

LEMMA FiadoMoneyUndone ==
  ASSUME LedgerInv, SalesInv, FiadoInv, Apart, Price # 0, AllUndone, NEW a \in Accounts, OfFiado(a)
  PROVE  MoneyUndone(a)
<1> DEFINE n == Len(installments[a])
           m == Len(refunds[a])
           h == NamesPaidOff(refunds[a])
<1>1. installments[a] \in Seq(InstallmentRow) /\ refunds[a] \in Seq(RefundRow)
  BY AccountFacts
<1>2. n \in Nat /\ MoneyRows(installments[a], n) /\ DOMAIN installments[a] = 1..n
  BY <1>1, InstallmentTable
<1>3. m \in Nat /\ MoneyRows(refunds[a], m) /\ DOMAIN refunds[a] = 1..m
  BY <1>1, RefundTable
<1>4. GivesBack(installments[a], n, refunds[a], m, h)
  BY FiadoGivesBack
<1>5. PaidDirectly(a) = {}
  BY UndoneCredit
<1>6. \A i \in 1..m : h[i] = refunds[a][i].installment
  BY DEF NamesPaidOff
<1>7. \A i \in 1..m : h[i] # 0 => h[i] \in 1..n /\ refunds[a][i].method = installments[a][h[i]].method
  BY <1>2, <1>3, <1>6, UndoneCredit DEF OfNothing
<1> HIDE DEF n, m, h
<1>8. Follows(1..m, m, 1..n, n, h)
  BY <1>7 DEF Follows, Places
<1>9. \A x : Follows(ByWay(refunds[a], 1..m, x), m, ByWay(installments[a], 1..n, x), n, h)
  BY <1>7 DEF Follows, Places, ByWay
<1>10. Follows(OfAnInstallment(refunds[a]), m, 1..n, n, h)
  BY <1>3, <1>6, <1>7 DEF Follows, Places, OfAnInstallment
<1>11. \A x : SumOf(refunds[a], ByWay(refunds[a], 1..m, x), Gross)
                = SumOf(installments[a], ByWay(installments[a], 1..n, x), Gross)
  BY <1>2, <1>3, <1>4, <1>9, MoneyBack
<1>12. SumOf(refunds[a], 1..m, Product) = SumOf(installments[a], 1..n, Product)
  BY <1>2, <1>3, <1>4, <1>8, MoneyBack
<1>13. SumOf(refunds[a], OfAnInstallment(refunds[a]), Gross) = SumOf(installments[a], 1..n, Gross)
  BY <1>2, <1>3, <1>4, <1>10, MoneyBack
<1>14. SumOf(payments[a], {}, Gross) = 0 /\ SumOf(payments[a], {}, Product) = 0
  BY NoRows
<1>15. \A x : ByWay(payments[a], {}, x) = {}
  BY DEF ByWay
<1>16. \A x : SumOf(installments[a], ByWay(installments[a], 1..n, x), Gross) \in Nat
  <2> TAKE x
  <2>1. Places(ByWay(installments[a], 1..n, x), n)
    BY DEF ByWay, Places
  <2>2. /\ SumOf(installments[a], ByWay(installments[a], 1..n, x), Product) \in Nat
        /\ SumOf(installments[a], ByWay(installments[a], 1..n, x), Service) \in Nat
        /\ SumOf(installments[a], ByWay(installments[a], 1..n, x), Gross)
             = SumOf(installments[a], ByWay(installments[a], 1..n, x), Product)
               + SumOf(installments[a], ByWay(installments[a], 1..n, x), Service)
    BY <1>2, <2>1, RowSums
  <2> QED  BY <2>2
<1>17. SumOf(installments[a], 1..n, Product) \in Nat
  <2>1. Places(1..n, n)
    BY DEF Places
  <2> QED  BY <1>2, <2>1, RowSums
<1>18. \A x : SumOf(payments[a], ByWay(payments[a], PaidDirectly(a), x), Gross)
               + SumOf(installments[a], ByWay(installments[a], DOMAIN installments[a], x), Gross)
                 = SumOf(refunds[a], ByWay(refunds[a], DOMAIN refunds[a], x), Gross)
  <2> TAKE x
  <2> DEFINE Y == SumOf(installments[a], ByWay(installments[a], 1..n, x), Gross)
             Z == SumOf(refunds[a], ByWay(refunds[a], 1..m, x), Gross)
  <2>1. SumOf(payments[a], ByWay(payments[a], PaidDirectly(a), x), Gross) = 0
    BY <1>5, <1>14, <1>15
  <2>2. SumOf(refunds[a], ByWay(refunds[a], DOMAIN refunds[a], x), Gross) = Z
    BY <1>3
  <2>3. SumOf(installments[a], ByWay(installments[a], DOMAIN installments[a], x), Gross) = Y
    BY <1>2
  <2>4. Y = Z /\ Y \in Nat
    BY <1>11, <1>16
  <2> HIDE DEF Y, Z
  <2> QED  BY <2>1, <2>2, <2>3, <2>4
<1>19. SumOf(payments[a], PaidDirectly(a), Product)
       + SumOf(installments[a], DOMAIN installments[a], Product)
         = SumOf(refunds[a], DOMAIN refunds[a], Product)
  BY <1>2, <1>3, <1>5, <1>12, <1>14, <1>17
<1>20. SumOf(installments[a], DOMAIN installments[a], Gross)
         = SumOf(refunds[a], OfAnInstallment(refunds[a]), Gross)
  BY <1>2, <1>13
<1> QED  BY <1>18, <1>19, <1>20 DEF MoneyUndone

AllMoneyUndone == \A a \in Accounts : MoneyUndone(a)
LEMMA EverySaleUndone ==
  ASSUME LedgerInv, SalesInv, FiadoInv, Apart, Price # 0, AllUndone
  PROVE  AllMoneyUndone
<1>1. ASSUME NEW a \in Accounts PROVE MoneyUndone(a)
  <2>1. CASE a \in Orders /\ ~order[a].fiado
    BY <2>1, ComandaMoneyUndone
  <2>2. CASE a \in Orders => order[a].fiado
    BY <2>2, FiadoMoneyUndone DEF OfFiado
  <2> QED  BY <2>1, <2>2
<1> QED  BY <1>1 DEF AllMoneyUndone

(* Three columns of the sales.                                             *)
BothBack(f, g, k, x, y, z) ==
  /\ OfSales(f, x) /\ OfSales(g, y) /\ OfSales(k, z)
  /\ \A a \in Accounts : f[a] + g[a] = k[a]
LEMMA BackInAll ==
  ASSUME LedgerInv, NEW f, NEW g, NEW k, NEW x, NEW y, NEW z, BothBack(f, g, k, x, y, z)
  PROVE  x + y = z /\ x \in Nat /\ y \in Nat /\ z \in Nat
<1>1. IsFiniteSet(Accounts)
  BY FiniteSales
<1>2. /\ f \in [Accounts -> Nat] /\ g \in [Accounts -> Nat] /\ k \in [Accounts -> Nat]
      /\ SumF(f) = x /\ SumF(g) = y /\ SumF(k) = z
  BY DEF BothBack, OfSales
<1>3. (\A a \in Accounts : k[a] = f[a] + g[a]) /\ k = [a \in Accounts |-> k[a]]
  BY <1>2 DEF BothBack
<1>4. SumF(k) = SumF(f) + SumF(g)
  BY <1>1, <1>2, <1>3, SumOfTwo
<1>5. SumF(f) \in Nat /\ SumF(g) \in Nat /\ SumF(k) \in Nat
  BY <1>1, <1>2, SumType
<1> QED  BY <1>2, <1>4, <1>5

LEMMA NoMethodKeeps ==
  ASSUME LedgerInv, AllMoneyUndone, NEW x
  PROVE  PaymentBreakdown(Ever, x) = 0
<1> DEFINE R1 == {r \in DirectPayments(Ever) : PaymentAt(r).method = x}
           R2 == {r \in InstallmentsIn(Ever) : InstallmentAt(r).method = x}
           R3 == {r \in RefundsIn(Ever) : RefundAt(r).method = x}
           X == Sum(R1, LAMBDA r : Gross(PaymentAt(r)))
           Y == Sum(R2, LAMBDA r : Gross(InstallmentAt(r)))
           Z == Sum(R3, LAMBDA r : Gross(RefundAt(r)))
           f == [a \in Accounts |-> SumOf(payments[a], NosOf(R1, a), Gross)]
           g == [a \in Accounts |-> SumOf(installments[a], NosOf(R2, a), Gross)]
           k == [a \in Accounts |-> SumOf(refunds[a], NosOf(R3, a), Gross)]
<1>1. R1 \subseteq OrderRows /\ R2 \subseteq InstallmentRows /\ R3 \subseteq RefundRows
  BY DEF DirectPayments, InstallmentsIn, RefundsIn
<1>2. ASSUME NEW a \in Accounts
      PROVE  /\ NosOf(R1, a) = ByWay(payments[a], PaidDirectly(a), x)
             /\ NosOf(R2, a) = ByWay(installments[a], DOMAIN installments[a], x)
             /\ NosOf(R3, a) = ByWay(refunds[a], DOMAIN refunds[a], x)
  <2>1. NamesPlaces(R1, a, ByWay(payments[a], PaidDirectly(a), x))
    BY EverRows, RowNames DEF NamesPlaces, ByWay, PaidDirectly, PaymentAt
  <2>2. NamesPlaces(R2, a, ByWay(installments[a], DOMAIN installments[a], x))
    BY EverRows, RowNames DEF NamesPlaces, ByWay, InstallmentAt
  <2>3. NamesPlaces(R3, a, ByWay(refunds[a], DOMAIN refunds[a], x))
    BY EverRows, RowNames DEF NamesPlaces, ByWay, RefundAt
  <2> HIDE DEF R1, R2, R3
  <2> QED  BY <2>1, <2>2, <2>3, PlacesAt
<1>3. PaymentBreakdown(Ever, x) = X + Y - Z
  BY DEF PaymentBreakdown
<1> HIDE DEF R1, R2, R3
<1>4. OfSales(f, X) /\ OfSales(g, Y) /\ OfSales(k, Z)
  BY <1>1, PaymentsBySale, InstallmentsBySale, RefundsBySale
<1>5. \A a \in Accounts : f[a] + g[a] = k[a]
  BY <1>2 DEF AllMoneyUndone, MoneyUndone
<1> HIDE DEF X, Y, Z, f, g, k
<1>6. BothBack(f, g, k, X, Y, Z)
  BY <1>4, <1>5 DEF BothBack
<1>7. X + Y = Z /\ X \in Nat /\ Y \in Nat /\ Z \in Nat
  BY <1>6, BackInAll
<1> QED  BY <1>3, <1>7

LEMMA NothingGained ==
  ASSUME LedgerInv, SalesInv, AllMoneyUndone
  PROVE  GrossTotal(Ever) = 0
<1> DEFINE p == [m \in Methods |-> NonNegative(ByMethod(Ever, m).gross)]
           q == [m \in Methods |-> NonNegative(-ByMethod(Ever, m).gross)]
<1>1. \A m \in Methods : ByMethod(Ever, m).gross = 0
  BY NoMethodKeeps, BreakdownIsByMethod
<1>2. \A m \in Methods : p[m] = 0 /\ q[m] = 0
  BY <1>1 DEF NonNegative
<1>3. p \in [Methods -> Nat] /\ q \in [Methods -> Nat]
  BY <1>2
<1>4. MethodsAgree(Ever)
  BY MethodsAddUp
<1>5. GrossTotal(Ever) = SumF(p) - SumF(q)
  BY <1>4, Zenon DEF MethodsAgree, Balance, Sum
<1> HIDE DEF p, q
<1>6. SumF(p) = 0 /\ SumF(q) = 0
  BY <1>2, <1>3, SumZero
<1> QED  BY <1>5, <1>6

LEMMA NothingSold ==
  ASSUME LedgerInv, SalesInv, Apart, AllUndone, AllMoneyUndone
  PROVE  TotalSales(Ever) = 0
<1> DEFINE X == Sum(DirectPayments(Ever), LAMBDA r : PaymentAt(r).product)
           Y == Sum(InstallmentsIn(Ever), LAMBDA r : InstallmentAt(r).product)
           Z == Sum(RefundsIn(Ever), LAMBDA r : RefundAt(r).product)
           f == [a \in Accounts |-> SumOf(payments[a], NosOf(DirectPayments(Ever), a), Product)]
           g == [a \in Accounts |-> SumOf(installments[a], NosOf(InstallmentsIn(Ever), a), Product)]
           k == [a \in Accounts |-> SumOf(refunds[a], NosOf(RefundsIn(Ever), a), Product)]
<1>1. /\ DirectPayments(Ever) \subseteq OrderRows /\ InstallmentsIn(Ever) \subseteq InstallmentRows
      /\ RefundsIn(Ever) \subseteq RefundRows
  BY DEF DirectPayments, InstallmentsIn, RefundsIn
<1>2. OfSales(f, X) /\ OfSales(g, Y) /\ OfSales(k, Z)
  BY <1>1, PaymentsBySale, InstallmentsBySale, RefundsBySale
<1>3. \A a \in Accounts : f[a] + g[a] = k[a]
  BY EverAt DEF AllMoneyUndone, MoneyUndone
<1>4. \A o \in Orders : order[o].status # "aberta"
  BY DEF AllUndone, SalesInv, SaleFits, Priced
<1>5. TotalSales(Ever) = X + InstallmentProduct(Ever) - Z
  BY <1>4, RevenueAddsUp, Zenon DEF RevenueIsProductReceived
<1>6. InstallmentProduct(Ever) = Y
  BY DEF InstallmentProduct
<1> HIDE DEF X, Y, Z, f, g, k
<1>7. BothBack(f, g, k, X, Y, Z)
  BY <1>2, <1>3 DEF BothBack
<1>8. X + Y = Z /\ X \in Nat /\ Y \in Nat /\ Z \in Nat
  BY <1>7, BackInAll
<1> QED  BY <1>5, <1>6, <1>8

LEMMA NothingPaidOff ==
  ASSUME LedgerInv, AllMoneyUndone
  PROVE  ConsignmentPaid(Ever) = 0
<1> DEFINE Y == Sum(InstallmentsIn(Ever), LAMBDA r : Gross(InstallmentAt(r)))
           Z == Sum(InstallmentRefunds(Ever), LAMBDA r : Gross(RefundAt(r)))
           g == [a \in Accounts |-> SumOf(installments[a], NosOf(InstallmentsIn(Ever), a), Gross)]
           k == [a \in Accounts |-> SumOf(refunds[a], NosOf(InstallmentRefunds(Ever), a), Gross)]
<1>1. InstallmentsIn(Ever) \subseteq InstallmentRows /\ InstallmentRefunds(Ever) \subseteq RefundRows
  BY DEF InstallmentsIn, InstallmentRefunds, RefundsIn
<1>2. OfSales(g, Y) /\ OfSales(k, Z)
  BY <1>1, InstallmentsBySale, RefundsBySale
<1>3. ASSUME NEW a \in Accounts PROVE NosOf(InstallmentRefunds(Ever), a) = OfAnInstallment(refunds[a])
  <2>1. NamesPlaces(InstallmentRefunds(Ever), a, OfAnInstallment(refunds[a]))
    BY EverRows, RowNames DEF NamesPlaces, InstallmentRefunds, OfAnInstallment, RefundAt
  <2> QED  BY <2>1, PlacesAt
<1>4. g = k
  BY <1>3, EverAt DEF AllMoneyUndone, MoneyUndone
<1>5. ConsignmentPaid(Ever) = Y - Z
  BY DEF ConsignmentPaid
<1> HIDE DEF Y, Z, g, k
<1>6. Y = Z
  BY <1>2, <1>4 DEF OfSales
<1>7. Y \in Nat
  BY <1>2, FiniteSales, SumType DEF OfSales
<1> QED  BY <1>5, <1>6, <1>7


(* Nothing is left in a ranking but the pieces of fiados nobody paid.      *)
LEMMA NoDirectSales ==
  ASSUME LedgerInv, SalesInv, AllUndone
  PROVE  DirectSales(Ever) = {}
BY DEF AllUndone, DirectSales

PiecesWritten(a) == IF a \in Fiados(Ever) THEN account[a].pieces ELSE 0
PiecesKept(a) == IF a \in UndoneUnpaid THEN account[a].pieces ELSE 0
LEMMA PiecesUndone ==
  ASSUME LedgerInv, SalesInv, FiadoInv, Apart, Price # 0, AllUndone, NEW a \in Accounts
  PROVE  PiecesKept(a) + SumOf(refunds[a], Counted(a), Pieces) = PiecesWritten(a)
<1>1. SumOf(refunds[a], {}, Pieces) = 0
  BY NoRows
<1>2. CASE a \in Orders /\ ~order[a].fiado
  <2>1. account[a].status = "nenhum"
    BY <1>2, UndoneComanda
  <2>2. PiecesKept(a) = 0 /\ PiecesWritten(a) = 0
    BY <2>1 DEF PiecesKept, PiecesWritten, UndoneUnpaid, Fiados
  <2>3. Counted(a) = {}
    BY <1>2, UndoneComanda DEF Counted, Uncounted, Late
  <2> QED  BY <1>1, <2>2, <2>3
<1>3. CASE a \in Orders => order[a].fiado
  <2>0. OfFiado(a)
    BY <1>3 DEF OfFiado
  <2>1. CASE account[a].status = "nenhum"
    <3>1. PiecesKept(a) = 0 /\ PiecesWritten(a) = 0
      BY <2>1 DEF PiecesKept, PiecesWritten, UndoneUnpaid, Fiados
    <3>2. DOMAIN refunds[a] = {}
      BY <2>0, <2>1, UndoneCredit
    <3>3. Counted(a) = {}
      BY <3>2 DEF Counted
    <3> QED  BY <1>1, <3>1, <3>3
  <2>2. CASE account[a].status = "cancelado"
    <3>1. refunds[a] # << >> /\ SumRows(refunds[a], Pieces) = account[a].pieces
      BY <2>0, <2>2, UndoneCredit DEF UndoneFiado
    <3>2. a \in Fiados(Ever)
      BY <2>2, <3>1, WhenItCounts DEF Fiados
    <3>3. PiecesWritten(a) = account[a].pieces
      BY <3>2 DEF PiecesWritten
    <3>4. account[a].pieces \in Nat
      BY AccountFacts, AccountColumns, Livro_Bounds
    <3>5. CASE a \in UndoneUnpaid
      <4>1. a \in Orders /\ installments[a] = << >>
        BY <3>5 DEF UndoneUnpaid
      <4>2. DOMAIN installments[a] = {}
        BY <4>1
      <4>3. \A i \in DOMAIN refunds[a] : refunds[a][i].installment = 0
        BY <2>0, <4>2, UndoneCredit DEF OfNothing
      <4>4. order[a].estorno
        BY <2>0, <4>1, UndoneCredit
      <4>5. Counted(a) = {}
        BY <4>1, <4>3, <4>4 DEF Counted, Uncounted
      <4> QED  BY <1>1, <3>3, <3>4, <3>5, <4>5 DEF PiecesKept
    <3>6. CASE a \notin UndoneUnpaid
      <4>1. a \in Orders => installments[a] # << >>
        BY <2>2, <3>6 DEF UndoneUnpaid
      <4>2. a \in Orders => \A i \in DOMAIN refunds[a] : refunds[a][i].installment # 0
        BY <2>0, <2>2, <4>1, UndoneCredit DEF TipGivenBack
      <4>3. \A i \in DOMAIN refunds[a] : refunds[a][i].saleRecognized
        BY <2>0, UndoneCredit
      <4>4. Counted(a) = DOMAIN refunds[a]
        BY <4>2, <4>3 DEF Counted, Uncounted
      <4>5. SumOf(refunds[a], Counted(a), Pieces) = account[a].pieces
        BY <3>1, <4>4 DEF SumRows
      <4> QED  BY <3>3, <3>4, <3>6, <4>5 DEF PiecesKept
    <3> QED  BY <3>5, <3>6
  <2> QED  BY <2>0, <2>1, <2>2, UndoneCredit
<1> QED  BY <1>2, <1>3

(* A column that is zero outside some sales adds up to those sales.        *)
LEMMA SomeSales ==
  ASSUME LedgerInv, NEW S, S \subseteq Accounts, NEW s, s \in [Accounts -> Nat],
         \A a \in Accounts \ S : s[a] = 0
  PROVE  OfSales(s, SumF([a \in S |-> s[a]]))
BY FiniteSales, SumIgnore DEF OfSales

LEMMA NoPieceRanked ==
  ASSUME LedgerInv, SalesInv, FiadoInv, Apart, Price # 0, AllUndone
  PROVE  ItemsRanking(Ever).quantity = Sum(UndoneUnpaid, LAMBDA o : account[o].pieces)
<1> DEFINE X == Sum(UndoneUnpaid, LAMBDA o : account[o].pieces)
           Y == Sum(LoopRefunds(Ever), LAMBDA r : RefundAt(r).pieces)
           Z == Sum(Fiados(Ever), LAMBDA a : account[a].pieces)
           W == Sum(DirectSales(Ever), LAMBDA o : order[o].pieces)
           f == [a \in Accounts |-> PiecesKept(a)]
           g == [a \in Accounts |-> SumOf(refunds[a], NosOf(LoopRefunds(Ever), a), Pieces)]
           k == [a \in Accounts |-> PiecesWritten(a)]
<1>1. \A a \in Accounts : account[a].pieces \in Nat
  BY AccountFacts, AccountColumns, Livro_Bounds
<1>2. OfSales(f, X)
  <2>1. UndoneUnpaid \subseteq Accounts
    BY DEF UndoneUnpaid, Accounts
  <2>2. f \in [Accounts -> Nat] /\ \A a \in Accounts \ UndoneUnpaid : f[a] = 0
    BY <1>1 DEF PiecesKept
  <2>3. [a \in UndoneUnpaid |-> f[a]] = [o \in UndoneUnpaid |-> account[o].pieces]
    BY <2>1 DEF PiecesKept
  <2>4. X = SumF([a \in UndoneUnpaid |-> f[a]])
    BY <2>3 DEF Sum
  <2> HIDE DEF f, X
  <2> QED  BY <2>1, <2>2, <2>4, SomeSales
<1>3. OfSales(k, Z)
  <2>1. Fiados(Ever) \subseteq Accounts
    BY DEF Fiados
  <2>2. k \in [Accounts -> Nat] /\ \A a \in Accounts \ Fiados(Ever) : k[a] = 0
    BY <1>1 DEF PiecesWritten
  <2>3. [a \in Fiados(Ever) |-> k[a]] = [a \in Fiados(Ever) |-> account[a].pieces]
    BY <2>1 DEF PiecesWritten
  <2>4. Z = SumF([a \in Fiados(Ever) |-> k[a]])
    BY <2>3 DEF Sum
  <2> HIDE DEF k, Z
  <2> QED  BY <2>1, <2>2, <2>4, SomeSales
<1>4. OfSales(g, Y)
  <2>1. LoopRefunds(Ever) \subseteq RefundRows
    BY DEF LoopRefunds, SaleRefunds, RefundsIn
  <2> QED  BY <2>1, RefundsBySale
<1>5. \A a \in Accounts : f[a] + g[a] = k[a]
  BY PiecesUndone, EverAt
<1>6. W = 0
  <2> DEFINE w == [o \in {} |-> order[o].pieces]
  <2>1. W = SumF(w)
    BY NoDirectSales DEF Sum
  <2>2. w \in [{} -> Nat] /\ \A o \in {} : w[o] = 0
    OBVIOUS
  <2> HIDE DEF w, W
  <2> QED  BY <2>1, <2>2, SumZero
<1>7. ItemsRanking(Ever).quantity = W + Z - Y
  BY DEF ItemsRanking
<1> HIDE DEF X, Y, Z, W, f, g, k
<1>8. BothBack(f, g, k, X, Y, Z)
  BY <1>2, <1>3, <1>4, <1>5 DEF BothBack
<1>9. X + Y = Z /\ X \in Nat /\ Y \in Nat /\ Z \in Nat
  BY <1>8, BackInAll
<1>10. ItemsRanking(Ever).quantity = X
  BY <1>6, <1>7, <1>9
<1> QED  BY <1>10 DEF X

(* Nothing is owed, and no table keeps or loses anything.                  *)
LEMMA NothingOwed ==
  ASSUME LedgerInv, SalesInv, FiadoInv, Apart, Price # 0, AllUndone
  PROVE  PendingBalance = 0
<1> DEFINE S == {a \in Accounts : account[a].status # "cancelado" /\ account[a].balance > 0}
           w == [a \in S |-> account[a].balance]
<1>1. ASSUME NEW a \in Accounts, account[a].status # "cancelado" PROVE account[a].balance = 0
  <2>1. account[a].status = "nenhum"
    <3>1. CASE a \in Orders /\ ~order[a].fiado
      BY <3>1, UndoneComanda
    <3>2. CASE a \in Orders => order[a].fiado
      BY <1>1, <3>2, UndoneCredit DEF OfFiado
    <3> QED  BY <3>1, <3>2
  <2> QED  BY <2>1 DEF SalesInv, FiadoFits, PricedFiado
<1>2. S = {}
  BY <1>1
<1>3. PendingBalance = SumF(w)
  BY DEF PendingBalance, Sum
<1>4. w \in [S -> Nat] /\ \A a \in S : w[a] = 0
  BY <1>2
<1> HIDE DEF w, S
<1> QED  BY <1>3, <1>4, SumZero

LEMMA NoTableKeeps ==
  ASSUME LedgerInv, SalesInv, FiadoInv, Apart, Price # 0, AllUndone, NEW o \in Orders
  PROVE  ByTable(Ever, o) = 0
<1> DEFINE S == {r \in LoopRefunds(Ever) : r[1] = o /\ RefundAt(r).payment # 0}
           w == [r \in S |-> Price * RefundAt(r).pieces]
<1>1. ASSUME NEW i \in Counted(o) PROVE refunds[o][i].payment = 0
  <2>1. CASE ~order[o].fiado
    <3>1. Counted(o) = {}
      BY <2>1, UndoneComanda DEF Counted, Uncounted, Late
    <3> QED  BY <1>1, <3>1
  <2>2. CASE order[o].fiado
    <3>1. OfFiado(o) /\ o \in Accounts
      BY <2>2 DEF OfFiado, Accounts
    <3>2. i \in DOMAIN refunds[o]
      BY DEF Counted
    <3> QED  BY <3>1, <3>2, UndoneCredit
  <2>3. order[o].fiado \in BOOLEAN
    BY SaleFacts, OrderFields
  <2> QED  BY <2>1, <2>2, <2>3
<1>2. S = {}
  <2> SUFFICES ASSUME NEW r \in LoopRefunds(Ever), r[1] = o PROVE RefundAt(r).payment = 0
    OBVIOUS
  <2>1. o \in Accounts
    BY DEF Accounts
  <2>2. r[2] \in NosOf(LoopRefunds(Ever), o)
    BY DEF NosOf
  <2>3. r[2] \in Counted(o)
    BY <2>1, <2>2, EverAt
  <2> QED  BY <1>1, <2>3 DEF RefundAt
<1>3. ByTable(Ever, o) = 0 - SumF(w)
  BY NoDirectSales DEF ByTable, Sum
<1>4. w \in [S -> Nat] /\ \A r \in S : w[r] = 0
  BY <1>2
<1> HIDE DEF w, S
<1>5. SumF(w) = 0
  BY <1>4, SumZero
<1> QED  BY <1>3, <1>5


(* The rows of one sale.                                                   *)
RowsOf(R, a, c) == c \in [R -> Nat] /\ \A r \in R : r[1] = a /\ r = <<r[1], r[2]>>
LEMMA OneSale ==
  ASSUME NEW R, IsFiniteSet(R), NEW a, NEW c, RowsOf(R, a, c)
  PROVE  SumF(c) = SumF([i \in NosOf(R, a) |-> c[<<a, i>>]])
<1> DEFINE s == [x \in {a} |-> SumF([i \in NosOf(R, x) |-> c[<<x, i>>]])]
           A == {a}
<1>1. PerSale(A, R, c, s) /\ IsFiniteSet(A)
  <2>1. IsFiniteSet({a})
    BY FS_Singleton
  <2>2. /\ \A r \in R : r[1] \in {a} /\ r = <<r[1], r[2]>>
        /\ c \in [R -> Nat] /\ s = [x \in {a} |-> s[x]]
        /\ \A x \in {a} : s[x] = SumF([i \in NosOf(R, x) |-> c[<<x, i>>]])
    BY DEF RowsOf
  <2> QED  BY <2>1, <2>2 DEF PerSale
<1>2. s[a] = SumF([i \in NosOf(R, a) |-> c[<<a, i>>]])
  OBVIOUS
<1> HIDE DEF s, A
<1>3. s \in [A -> Nat] /\ SumF(s) = SumF(c)
  BY <1>1, BySale
<1>4. SumF(s) = s[a]
  <2>1. s \in [{a} -> Nat]
    BY <1>3 DEF A
  <2> QED  BY <2>1, SumSingle
<1> QED  BY <1>2, <1>3, <1>4

LEMMA LatePieces ==
  ASSUME LedgerInv, NEW a \in Accounts
  PROVE  /\ Sum({r \in SaleRefunds(Ever) : r[1] = a}, LAMBDA r : RefundAt(r).pieces)
              = SumOf(refunds[a], Late(refunds[a]), Pieces)
         /\ TakenBack(Ever, a) = Price * SumOf(refunds[a], Late(refunds[a]), Pieces)
         /\ SumOf(refunds[a], Late(refunds[a]), Pieces) \in Nat
<1> DEFINE D == {r \in SaleRefunds(Ever) : r[1] = a}
           c == [r \in D |-> RefundAt(r).pieces]
           q == SumOf(refunds[a], Late(refunds[a]), Pieces)
<1>1. IsFiniteSet(D) /\ c \in [D -> Nat] /\ Price \in Nat
  <2>1. IsFiniteSet(D) /\ \A r \in SaleRefunds(Ever) : RefundAt(r).pieces \in Nat
    BY SaleRefundRows
  <2> QED  BY <2>1, Livro_Amounts
<1>2. /\ NamesPlaces(D, a, Late(refunds[a])) /\ \A r \in D : r[1] = a /\ r = <<r[1], r[2]>>
      /\ \A i \in Late(refunds[a]) : c[<<a, i>>] = refunds[a][i].pieces
  <2>1. SaleRefunds(Ever) = {r \in RefundRows : RefundAt(r).saleRecognized}
    BY EverRows DEF SaleRefunds
  <2>2. NamesPlaces(D, a, Late(refunds[a]))
    BY <2>1, RowNames DEF NamesPlaces, Late, RefundAt
  <2>3. \A r \in D : r[1] = a /\ r = <<r[1], r[2]>>
    BY <2>1, RowNames
  <2>4. \A i \in Late(refunds[a]) : <<a, i>> \in D
    BY <2>2 DEF NamesPlaces
  <2> QED  BY <2>2, <2>3, <2>4 DEF RefundAt
<1>3. Sum(D, LAMBDA r : RefundAt(r).pieces) = SumF(c)
  BY DEF Sum
<1>4. TakenBack(Ever, a) = SumF(Scaled(Price, D, c))
  <2>1. [r \in D |-> Price * RefundAt(r).pieces] = Scaled(Price, D, c)
    BY DEF Scaled
  <2> QED  BY <2>1 DEF TakenBack, Sum
<1>5. q = SumF([i \in Late(refunds[a]) |-> c[<<a, i>>]])
  <2>1. [i \in Late(refunds[a]) |-> refunds[a][i].pieces] = [i \in Late(refunds[a]) |-> c[<<a, i>>]]
    BY <1>2
  <2> QED  BY <2>1 DEF SumOf, Pieces
<1> HIDE DEF D, c, q
<1>6. NosOf(D, a) = Late(refunds[a])
  BY <1>2, PlacesAt
<1>7. RowsOf(D, a, c)
  BY <1>1, <1>2 DEF RowsOf
<1>8. SumF(c) = q
  BY <1>1, <1>5, <1>6, <1>7, OneSale
<1>9. SumF(Scaled(Price, D, c)) = Price * SumF(c) /\ SumF(c) \in Nat
  BY <1>1, SumScaled, SumType
<1>10. Sum(D, LAMBDA r : RefundAt(r).pieces) = q /\ TakenBack(Ever, a) = Price * q /\ q \in Nat
  BY <1>3, <1>4, <1>8, <1>9
<1> QED  BY <1>10 DEF D, q

LEMMA PaidOfSale ==
  ASSUME LedgerInv, NEW a \in Accounts
  PROVE  Sum({r \in DirectPayments(Ever) : r[1] = a}, LAMBDA r : PaymentAt(r).product)
           = SumOf(payments[a], PaidDirectly(a), Product)
<1> DEFINE D == {r \in DirectPayments(Ever) : r[1] = a}
           c == [r \in D |-> PaymentAt(r).product]
           q == SumOf(payments[a], PaidDirectly(a), Product)
<1>1. IsFiniteSet(D) /\ c \in [D -> Nat]
  <2>1. D \subseteq DirectPayments(Ever) /\ \A r \in D : PaymentAt(r) \in PaymentRow
    BY ReportRows
  <2>2. \A r \in D : PaymentAt(r).product \in Nat
    BY <2>1, RowTypes
  <2> QED  BY <2>1, <2>2, ReportRows, FS_Subset
<1>2. /\ NamesPlaces(D, a, PaidDirectly(a)) /\ \A r \in D : r[1] = a /\ r = <<r[1], r[2]>>
      /\ \A i \in PaidDirectly(a) : c[<<a, i>>] = payments[a][i].product
  <2>1. DirectPayments(Ever) = {r \in OrderRows : ~order[r[1]].fiado}
    BY EverRows
  <2>2. NamesPlaces(D, a, PaidDirectly(a))
    BY <2>1, RowNames DEF NamesPlaces, PaidDirectly
  <2>3. \A r \in D : r[1] = a /\ r = <<r[1], r[2]>>
    BY <2>1, RowNames
  <2>4. \A i \in PaidDirectly(a) : <<a, i>> \in D
    BY <2>2 DEF NamesPlaces
  <2> QED  BY <2>2, <2>3, <2>4 DEF PaymentAt
<1>3. Sum(D, LAMBDA r : PaymentAt(r).product) = SumF(c)
  BY DEF Sum
<1>5. q = SumF([i \in PaidDirectly(a) |-> c[<<a, i>>]])
  <2>1. [i \in PaidDirectly(a) |-> payments[a][i].product] = [i \in PaidDirectly(a) |-> c[<<a, i>>]]
    BY <1>2
  <2> QED  BY <2>1 DEF SumOf, Product
<1> HIDE DEF D, c, q
<1>6. NosOf(D, a) = PaidDirectly(a)
  BY <1>2, PlacesAt
<1>7. RowsOf(D, a, c)
  BY <1>1, <1>2 DEF RowsOf
<1>8. SumF(c) = q
  BY <1>1, <1>5, <1>6, <1>7, OneSale
<1>9. Sum(D, LAMBDA r : PaymentAt(r).product) = q
  BY <1>3, <1>8
<1> QED  BY <1>9 DEF D, q

(* What the sale of an undone comanda was worth is what its refunds took   *)
(* back of it, unless pieces came back while it was open and after.        *)
LEMMA UndoneWorth ==
  ASSUME LedgerInv, SalesInv, Apart, AllUndone, NEW a \in Orders, ~order[a].fiado
  PROVE  /\ ~order[a].estorno => Late(refunds[a]) = {} /\ ~Sells(a)
         /\ order[a].estorno /\ a \notin Short =>
              order[a].total = Price * SumOf(refunds[a], Late(refunds[a]), Pieces)
         /\ order[a].estorno => order[a].total = Price * order[a].pieces
<1>1. SaleFits(a, order[a], payments[a], account[a], installments[a], refunds[a])
  BY DEF SalesInv
<1>2. Priced(order[a], refunds[a]) /\ ClosedSale(order[a], payments[a], refunds[a])
  BY <1>1 DEF SaleFits
<1>3. ~order[a].estorno => Late(refunds[a]) = {} /\ ~Sells(a)
  BY UndoneComanda DEF Sells, AllUndone
<1>4. ASSUME order[a].estorno, a \notin Short
      PROVE  order[a].total = Price * SumOf(refunds[a], Late(refunds[a]), Pieces)
  <2>1. order[a].refunded \in Nat
    BY SaleFacts, OrderFields
  <2>2. Early(refunds[a]) = {} \/ order[a].refunded = 0
    BY <1>4, <2>1 DEF Short, Early
  <2>3. order[a].status = "finalizada"
    BY <1>4, UndoneComanda
  <2> QED  BY <1>2, <1>4, <2>2, <2>3 DEF ClosedSale
<1>5. order[a].estorno => order[a].total = Price * order[a].pieces
  BY <1>2, UndoneComanda DEF Priced
<1> QED  BY <1>3, <1>4, <1>5

(* What a fiado that was cancelled was worth its refunds took back.        *)
LEMMA UndoneFiadoWorth ==
  ASSUME LedgerInv, SalesInv, FiadoInv, Apart, Price # 0, AllUndone, NEW a \in Accounts, OfFiado(a)
  PROVE  /\ ~Sells(a) /\ account[a].product \in Nat
         /\ (IF a \in Fiados(Ever) THEN account[a].product ELSE 0)
              = Price * SumOf(refunds[a], Late(refunds[a]), Pieces)
<1>1. ~Sells(a)
  BY DEF Sells, OfFiado
<1>2. account[a].product \in Nat
  BY AccountFacts, AccountColumns
<1>3. SumOf(refunds[a], Late(refunds[a]), Pieces) = SumRows(refunds[a], Pieces)
  <2>1. Late(refunds[a]) = DOMAIN refunds[a]
    BY UndoneCredit DEF Late
  <2> QED  BY <2>1 DEF SumRows
<1>4. CASE account[a].status = "nenhum"
  <2>1. a \notin Fiados(Ever)
    BY <1>4 DEF Fiados
  <2>2. refunds[a] = << >>
    BY <1>4, UndoneCredit
  <2>3. SumRows(<< >>, Pieces) = 0
    BY EmptyTable
  <2>4. SumOf(refunds[a], Late(refunds[a]), Pieces) = 0
    BY <1>3, <2>2, <2>3
  <2> QED  BY <1>1, <1>2, <2>1, <2>4, Livro_Amounts
<1>5. CASE account[a].status = "cancelado"
  <2>1. refunds[a] # << >> /\ SumRows(refunds[a], Pieces) = account[a].pieces
    BY <1>5, UndoneCredit DEF UndoneFiado
  <2>2. a \in Fiados(Ever)
    BY <1>5, <2>1, WhenItCounts DEF Fiados
  <2>3. account[a].product = Price * account[a].pieces
    BY <1>5 DEF SalesInv, FiadoFits, PricedFiado
  <2> QED  BY <1>1, <1>2, <1>3, <2>1, <2>2, <2>3
<1> QED  BY <1>4, <1>5, UndoneCredit

LEMMA NothingSpent ==
  ASSUME LedgerInv, SalesInv, FiadoInv, Apart, Price # 0, AllUndone, NEW a \in Accounts \ Short
  PROVE  TotalSpent(a) = 0
<1> DEFINE q == SumOf(refunds[a], Late(refunds[a]), Pieces)
           d == IF Sells(a) THEN order[a].total ELSE 0
           p == IF a \in Fiados(Ever) THEN account[a].product ELSE 0
<1>1. TotalSpent(a) = d + p - TakenBack(Ever, a)
  BY DEF TotalSpent, Sells, FiadoProduct, ItemRefunds, TakenBack
<1>2. TakenBack(Ever, a) = Price * q /\ q \in Nat /\ Price \in Nat
  BY LatePieces, Livro_Amounts
<1>3. (d = 0 /\ p = Price * q) \/ (p = 0 /\ d = Price * q)
  <2>1. CASE a \in Orders => order[a].fiado
    BY <2>1, UndoneFiadoWorth DEF OfFiado
  <2>2. CASE a \in Orders /\ ~order[a].fiado
    <3>1. p = 0
      <4>1. account[a].status = "nenhum"
        BY <2>2, UndoneComanda
      <4> QED  BY <4>1 DEF Fiados
    <3>2. CASE order[a].estorno
      <4>1. Sells(a)
        BY <2>2, <3>2, UndoneComanda DEF Sells
      <4> QED  BY <2>2, <3>1, <3>2, <4>1, UndoneWorth
    <3>3. CASE ~order[a].estorno
      <4>1. Late(refunds[a]) = {} /\ ~Sells(a)
        BY <2>2, <3>3, UndoneWorth
      <4>2. q = 0
        BY <4>1, NoRows
      <4> QED  BY <1>2, <3>1, <4>1, <4>2
    <3> QED  BY <3>2, <3>3
  <2> QED  BY <2>1, <2>2
<1>4. Price * q \in Nat
  BY <1>2, NatProduct
<1> HIDE DEF q, d, p
<1> QED  BY <1>1, <1>2, <1>3, <1>4

(* A waiter keeps the credit of what was refunded while the comanda was    *)
(* open, and nothing else.                                                 *)
LEMMA NoWaiterKeeps ==
  ASSUME LedgerInv, SalesInv, FiadoInv, Apart, Price # 0, AllUndone, NEW a \in Accounts,
         Early(refunds[a]) = {}
  PROVE  ByWaiter(Ever, a) = 0
<1> DEFINE q == SumOf(refunds[a], Late(refunds[a]), Pieces)
           d == SumOf(payments[a], PaidDirectly(a), Product)
           p == IF a \in Fiados(Ever) THEN account[a].product ELSE 0
<1>1. ByWaiter(Ever, a) = d + p - TakenBack(Ever, a)
  BY PaidOfSale DEF ByWaiter, TakenBack
<1>2. TakenBack(Ever, a) = Price * q /\ q \in Nat /\ Price \in Nat
  BY LatePieces, Livro_Amounts
<1>3. (d = 0 /\ p = Price * q) \/ (p = 0 /\ d = Price * q)
  <2>1. CASE a \in Orders => order[a].fiado
    <3>1. OfFiado(a)
      BY <2>1 DEF OfFiado
    <3>2. PaidDirectly(a) = {}
      BY <3>1, UndoneCredit
    <3>3. d = 0
      BY <3>2, NoRows
    <3> QED  BY <3>1, <3>3, UndoneFiadoWorth
  <2>2. CASE a \in Orders /\ ~order[a].fiado
    <3>1. p = 0
      <4>1. account[a].status = "nenhum"
        BY <2>2, UndoneComanda
      <4> QED  BY <4>1 DEF Fiados
    <3>2. CASE order[a].estorno
      <4>1. a \notin Short
        BY DEF Short, Early
      <4>2. order[a].total = Price * q
        BY <2>2, <3>2, <4>1, UndoneWorth
      <4>3. ClosedSale(order[a], payments[a], refunds[a])
        BY <2>2 DEF SalesInv, SaleFits
      <4>4. SumRows(payments[a], Product) = order[a].total + SumOf(refunds[a], Early(refunds[a]), Product)
        BY <2>2, <3>2, <4>3, UndoneComanda DEF ClosedSale
      <4>5. SumOf(refunds[a], Early(refunds[a]), Product) = 0
        BY NoRows
      <4>6. d = SumRows(payments[a], Product)
        BY <2>2, UndoneComanda DEF SumRows
      <4>7. order[a].total \in Nat
        BY <2>2, SaleFacts, OrderFields
      <4> QED  BY <3>1, <4>2, <4>4, <4>5, <4>6, <4>7
    <3>3. CASE ~order[a].estorno
      <4>1. Late(refunds[a]) = {}
        BY <2>2, <3>3, UndoneWorth
      <4>2. q = 0
        BY <4>1, NoRows
      <4>3. payments[a] \in Seq(PaymentRow) /\ refunds[a] \in Seq(RefundRow)
        BY <2>2, SaleFacts
      <4>4. DOMAIN refunds[a] = {}
        BY <4>1 DEF Early, Late
      <4>5. AllGivenBack(payments[a], refunds[a])
        BY <2>2, UndoneComanda
      <4>6. SumRows(refunds[a], Product) = SumRows(payments[a], Product)
        BY <4>3, <4>4, <4>5, AllGivenTotals
      <4>7. SumRows(refunds[a], Product) = 0
        BY <4>4, NoRows DEF SumRows
      <4>8. d = SumRows(payments[a], Product)
        BY <2>2, UndoneComanda DEF SumRows
      <4>9. Price * 0 = 0
        BY <1>2
      <4>10. Price * q = 0 /\ d = 0
        BY <4>2, <4>6, <4>7, <4>8, <4>9
      <4> QED  BY <3>1, <4>10
    <3> QED  BY <3>2, <3>3
  <2> QED  BY <2>1, <2>2
<1>4. Price * q \in Nat
  BY <1>2, NatProduct
<1> HIDE DEF q, d, p
<1> QED  BY <1>1, <1>2, <1>3, <1>4


(* The service of a fiado counts exactly when its installments reached its *)
(* total.                                                                  *)
TipOf(a) == IF PaidInFull(account[a], installments[a]) THEN account[a].service ELSE 0
LEMMA TipsCounted ==
  ASSUME LedgerInv, NEW a \in Accounts
  PROVE  /\ (account[a].total > 0 /\ Payoff(a) # 0 /\ installments[a][Payoff(a)].period \in Ever)
              <=> PaidInFull(account[a], installments[a])
         /\ TipOf(a) \in Nat
<1> DEFINE reached == {i \in DOMAIN installments[a] : PaidUpTo(a, i) >= account[a].total}
           p == Payoff(a)
<1>1. p = IF reached = {} THEN 0 ELSE CHOOSE i \in reached : \A j \in reached : i <= j
  BY DEF Payoff
<1>2. installments[a] \in Seq(InstallmentRow) /\ account[a].service \in Nat
  BY AccountFacts, AccountColumns
<1>3. PaidInFull(account[a], installments[a]) <=> account[a].total > 0 /\ reached # {}
  BY DEF PaidInFull, PaidUpTo
<1>4. reached \in SUBSET Nat /\ \A i \in reached : i # 0 /\ installments[a][i].period \in Ever
  <2>1. /\ DOMAIN installments[a] = 1..Len(installments[a]) /\ Len(installments[a]) \in Nat
        /\ \A i \in 1..Len(installments[a]) : installments[a][i] \in InstallmentRow
    BY <1>2, SeqFacts
  <2> QED  BY <2>1 DEF InstallmentRow, Ever
<1>5. TipOf(a) \in Nat
  BY <1>2 DEF TipOf
<1> HIDE DEF reached, p
<1>6. reached # {} => p \in reached
  <2> SUFFICES ASSUME reached # {} PROVE p \in reached
    OBVIOUS
  <2>1. \E x \in reached : \A y \in reached : x <= y
    BY <1>4, LeastNumber
  <2> QED  BY <1>1, <2>1
<1>7. (account[a].total > 0 /\ p # 0 /\ installments[a][p].period \in Ever)
        <=> account[a].total > 0 /\ reached # {}
  BY <1>1, <1>4, <1>6
<1> QED  BY <1>3, <1>5, <1>7 DEF p

LEMMA SaleServiceUndone ==
  ASSUME LedgerInv, SalesInv, FiadoInv, Apart, Price # 0, AllUndone, NEW a \in Accounts
  PROVE  /\ SumOf(payments[a], PaidDirectly(a), Service) + TipOf(a)
              = SumOf(refunds[a], Tipped(refunds[a]), Service)
         /\ \A i \in DOMAIN refunds[a] : refunds[a][i].repassed => refunds[a][i].serviceRecognized
<1>1. TipOf(a) \in Nat
  BY TipsCounted
<1>2. CASE a \in Orders /\ ~order[a].fiado
  <2>1. /\ payments[a] \in Seq(PaymentRow) /\ refunds[a] \in Seq(RefundRow)
        /\ DOMAIN payments[a] = 1..Len(payments[a])
    BY <1>2, SaleFacts, PaymentTable
  <2>2. /\ installments[a] = << >> /\ PaidDirectly(a) = DOMAIN payments[a]
        /\ \A i \in DOMAIN refunds[a] : /\ refunds[a][i].payment \in DOMAIN payments[a]
                                        /\ refunds[a][i].serviceRecognized
        /\ AllGivenBack(payments[a], refunds[a])
    BY <1>2, UndoneComanda
  <2>3. DOMAIN << >> = {}
    OBVIOUS
  <2>4. TipOf(a) = 0
    BY <2>2, <2>3 DEF TipOf, PaidInFull
  <2>5. Tipped(refunds[a]) = DOMAIN refunds[a]
    BY <2>2 DEF Tipped
  <2>6. SumRows(refunds[a], Service) = SumRows(payments[a], Service)
    BY <2>1, <2>2, AllGivenTotals
  <2>7. SumRows(payments[a], Service) \in Nat
    BY <2>1, PaymentTotals
  <2>8. /\ SumOf(payments[a], PaidDirectly(a), Service) = SumRows(payments[a], Service)
        /\ SumOf(refunds[a], Tipped(refunds[a]), Service) = SumRows(refunds[a], Service)
    BY <2>2, <2>5 DEF SumRows
  <2>9. \A i \in DOMAIN refunds[a] : refunds[a][i].repassed => refunds[a][i].serviceRecognized
    BY <2>2
  <2> QED  BY <2>4, <2>6, <2>7, <2>8, <2>9
<1>3. CASE a \in Orders => order[a].fiado
  <2>1. OfFiado(a)
    BY <1>3 DEF OfFiado
  <2>2. SumOf(payments[a], PaidDirectly(a), Service) = 0
    <3>1. PaidDirectly(a) = {}
      BY <2>1, UndoneCredit
    <3> QED  BY <3>1, NoRows
  <2>3. \A i \in DOMAIN refunds[a] : refunds[a][i].repassed => refunds[a][i].serviceRecognized
    BY <2>1, UndoneCredit
  <2>4. SumOf(refunds[a], Tipped(refunds[a]), Service) = TipOf(a)
    <3>1. CASE account[a].status = "cancelado"
      BY <2>1, <3>1, UndoneCredit DEF TipGivenBack, TipOf
    <3>2. CASE account[a].status = "nenhum"
      <4>1. DOMAIN refunds[a] = {} /\ DOMAIN installments[a] = {}
        <5>1. refunds[a] = << >> /\ installments[a] = << >>
          BY <2>1, <3>2, UndoneCredit
        <5> QED  BY <5>1
      <4>2. TipOf(a) = 0 /\ Tipped(refunds[a]) = {}
        BY <4>1 DEF TipOf, PaidInFull, Tipped
      <4> QED  BY <4>2, NoRows
    <3> QED  BY <2>1, <3>1, <3>2, UndoneCredit
  <2> QED  BY <1>1, <2>2, <2>3, <2>4
<1> QED  BY <1>2, <1>3

LEMMA ServiceUndone ==
  ASSUME LedgerInv, SalesInv, FiadoInv, Apart, Price # 0, AllUndone
  PROVE  NetService(Ever) = RetainedLoss(Ever)
<1> DEFINE T == {r \in RefundsIn(Ever) : RefundAt(r).serviceRecognized}
           U == {r \in RefundsIn(Ever) : RefundAt(r).serviceRecognized /\ ~RefundAt(r).repassed}
           V == {r \in RefundsIn(Ever) : RefundAt(r).repassed}
           S == {a \in Accounts : /\ account[a].total > 0 /\ Payoff(a) # 0
                                  /\ installments[a][Payoff(a)].period \in Ever}
           X == DirectService(Ever)
           Y == TipsPaid(Ever)
           Z == Sum(T, LAMBDA r : RefundAt(r).service)
           c == [r \in T |-> RefundAt(r).service]
           f == [a \in Accounts |-> SumOf(payments[a], NosOf(DirectPayments(Ever), a), Service)]
           g == [a \in Accounts |-> TipOf(a)]
           k == [a \in Accounts |-> SumOf(refunds[a], NosOf(T, a), Service)]
<1>1. OfSales(f, X)
  <2>1. DirectPayments(Ever) \subseteq OrderRows
    BY DEF DirectPayments
  <2> QED  BY <2>1, PaymentsBySale DEF DirectService
<1>2. OfSales(g, Y)
  <2>1. S \subseteq Accounts /\ g \in [Accounts -> Nat]
    BY TipsCounted
  <2>2. \A a \in Accounts : a \in S <=> PaidInFull(account[a], installments[a])
    BY TipsCounted
  <2>3. (\A a \in Accounts \ S : g[a] = 0) /\ \A a \in S : g[a] = account[a].service
    <3> HIDE DEF S
    <3> QED  BY <2>1, <2>2 DEF TipOf
  <2>4. [a \in S |-> g[a]] = [a \in S |-> account[a].service]
    BY <2>3
  <2>5. Y = SumF([a \in S |-> g[a]])
    BY <2>4 DEF TipsPaid, Sum
  <2> HIDE DEF S, g, Y
  <2> QED  BY <2>1, <2>3, <2>5, SomeSales
<1>3. OfSales(k, Z)
  <2>1. T \subseteq RefundRows
    BY DEF RefundsIn
  <2> HIDE DEF T
  <2> QED  BY <2>1, RefundsBySale
<1>4. \A a \in Accounts : NosOf(T, a) = Tipped(refunds[a])
  <2> TAKE a \in Accounts
  <2>1. NamesPlaces(T, a, Tipped(refunds[a]))
    BY EverRows, RowNames DEF NamesPlaces, Tipped, RefundAt
  <2> HIDE DEF T
  <2> QED  BY <2>1, PlacesAt
<1>5. \A a \in Accounts : f[a] + g[a] = k[a]
  BY <1>4, SaleServiceUndone, EverAt
<1>6. V = T \ U /\ U \subseteq T
  <2>1. \A r \in RefundsIn(Ever) : RefundAt(r).repassed => RefundAt(r).serviceRecognized
    <3> TAKE r \in RefundsIn(Ever)
    <3>1. r[1] \in Accounts /\ r[2] \in DOMAIN refunds[r[1]]
      BY ReportRows
    <3> QED  BY <3>1, SaleServiceUndone DEF RefundAt
  <2> QED  BY <2>1
<1>7. IsFiniteSet(T) /\ c \in [T -> Nat]
  <2>1. IsFiniteSet(RefundsIn(Ever)) /\ \A r \in RefundsIn(Ever) : RefundAt(r) \in RefundRow
    BY ReportRows
  <2>2. \A r \in T : RefundAt(r).service \in Nat
    BY <2>1, RowTypes
  <2> QED  BY <2>1, <2>2, FS_Subset
<1>8. /\ RefundableService(Ever) = SumF([r \in U |-> c[r]])
      /\ RetainedLoss(Ever) = SumF([r \in T \ U |-> c[r]]) /\ Z = SumF(c)
  <2>1. /\ [r \in U |-> c[r]] = [r \in U |-> RefundAt(r).service]
        /\ [r \in T \ U |-> c[r]] = [r \in V |-> RefundAt(r).service]
    BY <1>6
  <2> QED  BY <2>1 DEF RefundableService, RetainedLoss, Sum
<1>9. NetService(Ever) = X + Y - RefundableService(Ever)
  BY DEF NetService
<1> HIDE DEF T, U, V, S, X, Y, Z, c, f, g, k
<1>10. SumF(c) = SumF([r \in U |-> c[r]]) + SumF([r \in T \ U |-> c[r]])
  BY <1>6, <1>7, SumSplit
<1>11. SumF([r \in U |-> c[r]]) \in Nat /\ SumF([r \in T \ U |-> c[r]]) \in Nat
  <2>1. /\ [r \in U |-> c[r]] \in [U -> Nat] /\ [r \in T \ U |-> c[r]] \in [T \ U -> Nat]
        /\ IsFiniteSet(U) /\ IsFiniteSet(T \ U)
    BY <1>6, <1>7, FS_Subset
  <2> QED  BY <2>1, SumType
<1>12. BothBack(f, g, k, X, Y, Z)
  BY <1>1, <1>2, <1>3, <1>5 DEF BothBack
<1>13. X + Y = Z /\ X \in Nat /\ Y \in Nat /\ Z \in Nat
  BY <1>12, BackInAll
<1> DEFINE N == NetService(Ever)
           B == RefundableService(Ever)
           L == RetainedLoss(Ever)
           b == SumF([r \in U |-> c[r]])
           l == SumF([r \in T \ U |-> c[r]])
<1>14. N = X + Y - B /\ B = b /\ L = l /\ Z = b + l /\ b \in Nat /\ l \in Nat
  BY <1>8, <1>9, <1>10, <1>11
<1> HIDE DEF N, B, L, b, l
<1>15. N = L
  BY <1>13, <1>14
<1> QED  BY <1>15 DEF N, L


LEMMA UndoneLeavesNothing ==
  ASSUME LedgerInv, SalesInv, FiadoInv, Apart, Price # 0
  PROVE  UndoneSalesLeaveNothing
<1> SUFFICES ASSUME AllUndone
             PROVE  /\ TotalSales(Ever) = 0 /\ GrossTotal(Ever) = 0 /\ ConsignmentPaid(Ever) = 0
                    /\ \A m \in Methods : PaymentBreakdown(Ever, m) = 0
                    /\ ItemsRanking(Ever).quantity = Sum(UndoneUnpaid, LAMBDA o : account[o].pieces)
                    /\ PendingBalance = 0
                    /\ \A o \in Orders : ByTable(Ever, o) = 0
                    /\ \A a \in Accounts \ Short : TotalSpent(a) = 0
                    /\ \A a \in Accounts : (\A i \in DOMAIN refunds[a] : refunds[a][i].saleRecognized)
                                             => ByWaiter(Ever, a) = 0
                    /\ NetService(Ever) = RetainedLoss(Ever)
  BY DEF UndoneSalesLeaveNothing
<1>1. AllMoneyUndone
  BY EverySaleUndone
<1>2. TotalSales(Ever) = 0 /\ GrossTotal(Ever) = 0 /\ ConsignmentPaid(Ever) = 0
  BY <1>1, NothingSold, NothingGained, NothingPaidOff
<1>3. \A m \in Methods : PaymentBreakdown(Ever, m) = 0
  BY <1>1, NoMethodKeeps
<1>4. ItemsRanking(Ever).quantity = Sum(UndoneUnpaid, LAMBDA o : account[o].pieces)
  BY NoPieceRanked
<1>5. PendingBalance = 0
  BY NothingOwed
<1>6. \A o \in Orders : ByTable(Ever, o) = 0
  BY NoTableKeeps
<1>7. \A a \in Accounts \ Short : TotalSpent(a) = 0
  BY NothingSpent
<1>8. \A a \in Accounts : (\A i \in DOMAIN refunds[a] : refunds[a][i].saleRecognized)
                            => ByWaiter(Ever, a) = 0
  <2> TAKE a \in Accounts
  <2> HAVE \A i \in DOMAIN refunds[a] : refunds[a][i].saleRecognized
  <2>1. Early(refunds[a]) = {}
    BY DEF Early
  <2> QED  BY <2>1, NoWaiterKeeps
<1>9. NetService(Ever) = RetainedLoss(Ever)
  BY ServiceUndone
<1> QED  BY <1>2, <1>3, <1>4, <1>5, <1>6, <1>7, <1>8, <1>9

(* Once no comanda is open, the sales of all sessions are the product      *)
(* received less the product given back, however pieces were refunded,     *)
(* fiados paid off and sales undone.  The hypothesis is that no comanda    *)
(* both refunds pieces one by one and becomes a fiado.                     *)
THEOREM RevenueIsReceived ==
  ASSUME ItemRefundable \cap Convertible = {}
  PROVE  Spec => []RevenueIsProductReceived
<1>1. LedgerInv /\ (Apart /\ Price # 0 => FiadoInv) /\ SalesInv => RevenueIsProductReceived
  BY RevenueAddsUp DEF Apart
<1> QED  BY <1>1, SalesFit, PTL

(* Sales that were all undone leave no revenue, no money by any method,    *)
(* nothing owed, nothing of a table, a customer or a waiter but the named  *)
(* exceptions, and no service but what the house lost.                     *)
THEOREM UndoneSalesLeaveNoTrace ==
  ASSUME ItemRefundable \cap Convertible = {}, Price # 0
  PROVE  Spec => []UndoneSalesLeaveNothing
<1>1. LedgerInv /\ (Apart /\ Price # 0 => FiadoInv) /\ SalesInv => UndoneSalesLeaveNothing
  BY UndoneLeavesNothing DEF Apart
<1> QED  BY <1>1, SalesFit, PTL

=============================================================================
