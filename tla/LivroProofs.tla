---------------------------- MODULE LivroProofs ----------------------------
(***************************************************************************)
(* Theorems about Livro, for any comandas, prices, charges, fees, amounts  *)
(* and bounds, and the laws of the arithmetic of amounts (Dinheiro).       *)
(*                                                                         *)
(* The sums of the handlers are sums of columns over sets of rows.  A      *)
(* handler appends rows to one sale, so a sum after it is the sum before   *)
(* plus the sum over the new rows; what those add up to is known because   *)
(* a whole refund writes one row for each payment, and a refund of pieces  *)
(* takes them greedily, oldest payment first (SumGreedy).                  *)
(***************************************************************************)
EXTENDS Livro, SomasProofs

-----------------------------------------------------------------------------
(* Laws of the arithmetic of amounts.                                      *)

(* What the provers need to know of a quotient.                            *)
LEMMA DivisionLaw ==
  ASSUME NEW a \in Int, NEW d \in Nat \ {0}
  PROVE  /\ a \div d \in Int
         /\ d * (a \div d) <= a /\ a < d * (a \div d) + d
OBVIOUS

(* money() and every quotient of the handlers: the rounded cent is at most *)
(* half a cent away, and a half goes up.                                   *)
THEOREM HalfUpNearest ==
  ASSUME NEW n \in Int, NEW d \in Nat \ {0}
  PROVE  /\ HalfUp(n, d) \in Int
         /\ 2 * n - d < 2 * d * HalfUp(n, d)
         /\ 2 * d * HalfUp(n, d) <= 2 * n + d
<1> DEFINE q == HalfUp(n, d)
<1>1. 2 * n + d \in Int /\ 2 * d \in Nat \ {0}
  OBVIOUS
<1>2. q = (2 * n + d) \div (2 * d)
  BY DEF HalfUp
<1>3. q \in Int /\ (2 * d) * q <= 2 * n + d /\ 2 * n + d < (2 * d) * q + 2 * d
  BY <1>1, <1>2, DivisionLaw
<1> QED  BY <1>3

LEMMA HalfUpNat ==
  ASSUME NEW n \in Nat, NEW d \in Nat \ {0}
  PROVE  HalfUp(n, d) \in Nat
<1> DEFINE q == HalfUp(n, d)
<1>1. q \in Int /\ 2 * n - d < 2 * d * q
  BY HalfUpNearest
<1>2. SUFFICES ASSUME q \in Int, q <= -1 PROVE FALSE
  BY <1>1
<1>3. d * q <= d * (-1)
  BY <1>2
<1> QED  BY <1>1, <1>2, <1>3

(* partial_payment of a typed amount: the product inside it is at most the *)
(* amount, so that the service charge it carries is never negative.        *)
THEOREM ProductWithinAmount ==
  ASSUME NEW gross \in Nat, NEW pct \in Nat
  PROVE  WithoutPercent(gross, pct) \in 0..gross
<1> DEFINE q == WithoutPercent(gross, pct)  d == 100 + pct
<1>1. gross * 100 \in Nat /\ d \in Nat \ {0} /\ q = HalfUp(gross * 100, d)
  BY DEF WithoutPercent
<1>2. q \in Nat /\ 2 * d * q <= 2 * (gross * 100) + d
  BY <1>1, HalfUpNat, HalfUpNearest
<1>3. SUFFICES ASSUME q >= gross + 1 PROVE FALSE
  BY <1>2
<1>4. d * q >= d * (gross + 1)
  BY <1>1, <1>2, <1>3
<1>5. d * (gross + 1) = gross * 100 + pct * gross + d
  OBVIOUS
<1>6. pct * gross \in Nat
  OBVIOUS
<1>7. 2 * d * q = 2 * (d * q)
  BY <1>1, <1>2
<1> HIDE DEF q, d
<1> QED  BY <1>1, <1>2, <1>4, <1>5, <1>6, <1>7

(* split_consignment_payment: the two parts of an installment add up to it,*)
(* the product is never paid beyond its total, and service is taken only   *)
(* when the product is settled.                                            *)
THEOREM InstallmentSplit ==
  ASSUME NEW amount \in Nat, NEW productTotal \in Nat, NEW paidProduct \in Nat
  PROVE  LET part == SplitInstallment(amount, productTotal, paidProduct)
         IN /\ part.product \in Nat /\ part.service \in Nat
            /\ part.product + part.service = amount
            /\ paidProduct <= productTotal => paidProduct + part.product <= productTotal
            /\ part.service > 0 => paidProduct + part.product >= productTotal
BY DEF SplitInstallment, AtMost, NonNegative

(* refund_paid_items: refunds piece by piece never give back more service  *)
(* than a payment took, and the last piece gives back exactly what is left.*)
THEOREM ServiceBackBounded ==
  ASSUME NEW service \in Nat, NEW already \in 0..service,
         NEW quantity \in Nat \ {0}, NEW available \in 1..quantity, NEW take \in 1..available
  PROVE  LET back == ServiceBack(service, quantity, already, available, take)
         IN /\ back \in Nat /\ already + back <= service
            /\ take = available => already + back = service
<1>1. service * take \in Nat
  OBVIOUS
<1>2. HalfUp(service * take, quantity) \in Nat
  BY <1>1, HalfUpNat
<1> QED  BY <1>2 DEF ServiceBack, AtMost

-----------------------------------------------------------------------------
(* Columns of a table, and their sums over sets of rows.                   *)

ProductOf(rows) == [i \in DOMAIN rows |-> rows[i].product]
ServiceOf(rows) == [i \in DOMAIN rows |-> rows[i].service]
GrossOf(rows) == [i \in DOMAIN rows |-> rows[i].product + rows[i].service]
PiecesOf(rows) == [i \in DOMAIN rows |-> rows[i].pieces]
FeeOf(rows) == [i \in DOMAIN rows |-> rows[i].fee]

LEMMA ColumnSums ==
  ASSUME NEW rows, NEW I, \A i \in I : i \in DOMAIN rows
  PROVE  /\ SumOf(rows, I, Product) = SumOn(ProductOf(rows), I)
         /\ SumOf(rows, I, Service) = SumOn(ServiceOf(rows), I)
         /\ SumOf(rows, I, Gross) = SumOn(GrossOf(rows), I)
         /\ SumOf(rows, I, Pieces) = SumOn(PiecesOf(rows), I)
         /\ SumOf(rows, I, Fee) = SumOn(FeeOf(rows), I)
<1>1. /\ [i \in I |-> Product(rows[i])] = [i \in I |-> ProductOf(rows)[i]]
      /\ [i \in I |-> Service(rows[i])] = [i \in I |-> ServiceOf(rows)[i]]
      /\ [i \in I |-> Gross(rows[i])] = [i \in I |-> GrossOf(rows)[i]]
      /\ [i \in I |-> Pieces(rows[i])] = [i \in I |-> PiecesOf(rows)[i]]
      /\ [i \in I |-> Fee(rows[i])] = [i \in I |-> FeeOf(rows)[i]]
  BY DEF Product, Service, Gross, Pieces, Fee, ProductOf, ServiceOf, GrossOf, PiecesOf, FeeOf
<1> QED  BY <1>1 DEF SumOf, SumOn

LEMMA ColumnTotals ==
  ASSUME NEW rows
  PROVE  /\ SumRows(rows, Product) = SumOn(ProductOf(rows), DOMAIN rows)
         /\ SumRows(rows, Service) = SumOn(ServiceOf(rows), DOMAIN rows)
         /\ SumRows(rows, Gross) = SumOn(GrossOf(rows), DOMAIN rows)
         /\ SumRows(rows, Pieces) = SumOn(PiecesOf(rows), DOMAIN rows)
         /\ SumRows(rows, Fee) = SumOn(FeeOf(rows), DOMAIN rows)
BY ColumnSums DEF SumRows

(* The sum of a column over some places is a natural, and of the whole     *)
(* column it is the sum of the column.                                     *)
LEMMA SumOnPlaces ==
  ASSUME NEW n \in Nat, NEW c, c \in [1..n -> Nat], NEW I, Places(I, n)
  PROVE  SumOn(c, I) \in Nat /\ IsFiniteSet(I)
<1>1. IsFiniteSet(I)
  BY KeptPlaces
<1>2. [x \in I |-> c[x]] \in [I -> Nat]
  BY DEF Places
<1> QED  BY <1>1, <1>2, SumType DEF SumOn

(* Column e of n rows is the sum of columns c and d.                       *)
Adds(c, d, e, n) ==
  c \in [1..n -> Nat] /\ d \in [1..n -> Nat] /\ \A i \in 1..n : e[i] = c[i] + d[i]

LEMMA SumOnAdds ==
  ASSUME NEW n \in Nat, NEW c, NEW d, NEW e, Adds(c, d, e, n), NEW I, Places(I, n)
  PROVE  SumOn(e, I) = SumOn(c, I) + SumOn(d, I)
<1> DEFINE f == [x \in I |-> c[x]]  g == [x \in I |-> d[x]]
<1>1. IsFiniteSet(I)
  BY KeptPlaces
<1>2. f \in [I -> Nat] /\ g \in [I -> Nat]
  BY DEF Places, Adds
<1>3. [x \in I |-> e[x]] = [x \in I |-> f[x] + g[x]]
  BY DEF Places, Adds
<1> HIDE DEF f, g
<1>4. SumF([x \in I |-> f[x] + g[x]]) = SumF(f) + SumF(g)
  BY <1>1, <1>2, SumAdditive
<1> QED  BY <1>3, <1>4 DEF SumOn, f, g

(* Equal columns, and columns of which one is a multiple of the other.     *)
LEMMA SumOnSame ==
  ASSUME NEW c, NEW d, NEW I, \A i \in I : c[i] = d[i]
  PROVE  SumOn(c, I) = SumOn(d, I)
<1>1. [x \in I |-> c[x]] = [x \in I |-> d[x]]
  OBVIOUS
<1> QED  BY <1>1 DEF SumOn

(* The sum over the rows of a list to which others were appended.          *)
JoinedColumns(f, n, g, m, h) ==
  /\ f \in [1..n -> Nat] /\ g \in [1..m -> Nat] /\ h \in [1..(n + m) -> Nat]
  /\ \A i \in 1..n : h[i] = f[i]
  /\ \A j \in 1..m : h[n + j] = g[j]
JoinedPlaces(D, n, E, m, F) ==
  /\ Places(D, n) /\ Places(E, m) /\ Places(F, n + m)
  /\ \A i \in 1..n : i \in F <=> i \in D
  /\ \A j \in 1..m : n + j \in F <=> j \in E

LEMMA JoinedSum ==
  ASSUME NEW n \in Nat, NEW m \in Nat, NEW f, NEW g, NEW h, JoinedColumns(f, n, g, m, h),
         NEW D, NEW E, NEW F, JoinedPlaces(D, n, E, m, F)
  PROVE  SumOn(h, F) = SumOn(f, D) + SumOn(g, E)
<1> DEFINE N == 1..n  M == 1..m  Z == 1..(n + m)
           w == Where(h, F)
<1> USE DEF JoinedColumns, JoinedPlaces
<1>1. w \in [Z -> Nat] /\ \A i \in Z : w[i] = IF i \in F THEN h[i] ELSE 0
  BY DEF Where
<1>2. SumF(w) = SumOn(h, F)
  <2>1. h \in [Z -> Nat] /\ F \in SUBSET Z
    BY DEF Places
  <2> QED  BY ONLY <2>1, SumWhere DEF SumOn, w
<1>3. SumF(w) = SumF([i \in N |-> w[i]]) + SumF([i \in M |-> w[n + i]])
  <2> HIDE DEF w
  <2> QED  BY <1>1, SumConcat
<1>4. [i \in N |-> w[i]] = Where(f, D)
  <2>1. \A i \in N : i \in Z
    OBVIOUS
  <2>2. \A i \in N : w[i] = IF i \in D THEN f[i] ELSE 0
    BY <1>1, <2>1
  <2> HIDE DEF w
  <2> QED  BY <2>2 DEF Where
<1>5. [j \in M |-> w[n + j]] = Where(g, E)
  <2>1. \A j \in M : n + j \in Z
    OBVIOUS
  <2>2. \A j \in M : w[n + j] = IF j \in E THEN g[j] ELSE 0
    BY <1>1, <2>1
  <2> HIDE DEF w
  <2> QED  BY <2>2 DEF Where
<1>6. SumF(Where(f, D)) = SumOn(f, D) /\ SumF(Where(g, E)) = SumOn(g, E)
  <2>1. f \in [N -> Nat] /\ D \in SUBSET N /\ g \in [M -> Nat] /\ E \in SUBSET M
    BY DEF Places
  <2>2. SumF(Where(f, D)) = SumOn(f, D)
    BY ONLY <2>1, SumWhere, ZenonT(40) DEF SumOn
  <2>3. SumF(Where(g, E)) = SumOn(g, E)
    BY ONLY <2>1, SumWhere, ZenonT(40) DEF SumOn
  <2> QED  BY ONLY <2>2, <2>3
<1> HIDE DEF w
<1> QED  BY <1>2, <1>3, <1>4, <1>5, <1>6

(* A filter that drops only rows with nothing in a column keeps its sum,   *)
(* row by row and in all.                                                  *)
Picked(c, e, D) == [k \in D |-> c[e[k]]]
PickedFrom(e, D, p) == {k \in D : e[k] = p}
KeepsSums(e, D, S, n) ==
  \A c \in [1..n -> Nat] : (\A i \in 1..n : i \notin S => c[i] = 0) =>
    /\ SumF(Picked(c, e, D)) = SumF(c)
    /\ \A p \in 1..n : SumF(Picked(c, e, PickedFrom(e, D, p))) = c[p]

LEMMA KeptColumns ==
  ASSUME NEW n \in Nat, NEW S, Places(S, n)
  PROVE  \E e \in Bijection(1..Cardinality(S), S) :
           /\ \A s : Kept(s, S) = Picked(s, e, 1..Cardinality(S))
           /\ Cardinality(S) \in Nat
           /\ KeepsSums(e, 1..Cardinality(S), S, n)
<1> DEFINE D == 1..Cardinality(S)  N == 1..n
<1>1. Cardinality(S) \in Nat /\ IsFiniteSet(S) /\ \A i \in S : i \in N
  BY KeptPlaces DEF Places
<1>2. PICK e \in Bijection(D, S) : \A s : Kept(s, S) = [k \in D |-> s[e[k]]]
  <2>1. \E e \in Bijection(1..Cardinality(S), S) :
          \A s : Kept(s, S) = [k \in 1..Cardinality(S) |-> s[e[k]]]
    BY KeptPlaces
  <2> QED  BY <2>1
<1>3. IsFiniteSet(D) /\ IsFiniteSet(N)
  BY <1>1, FS_Interval
<1> HIDE DEF D, N
<1>4. e \in [D -> S] /\ (\A a, b \in D : e[a] = e[b] => a = b) /\ \A i \in S : \E k \in D : e[k] = i
  BY <1>2, BijectionFacts
<1>5. ASSUME NEW c \in [N -> Nat], \A i \in N : i \notin S => c[i] = 0
      PROVE  SumF([k \in D |-> c[e[k]]]) = SumF(c)
  <2> DEFINE g == [i \in S |-> c[i]]
  <2>1. g \in [S -> Nat] /\ S \in SUBSET N
    BY <1>1
  <2>2. SumF(c) = SumF(g)
    BY <1>1, <1>3, <1>5, <2>1, SumIgnore
  <2>3. [k \in D |-> c[e[k]]] = [k \in D |-> g[e[k]]]
    BY <1>4
  <2> HIDE DEF g
  <2>4. SumF([k \in D |-> g[e[k]]]) = SumF(g)
    BY <1>2, <1>3, <2>1, SumReindex
  <2> QED  BY <2>2, <2>3, <2>4
<1>6. ASSUME NEW c \in [N -> Nat], \A i \in N : i \notin S => c[i] = 0, NEW p \in N
      PROVE  SumF([k \in {k \in D : e[k] = p} |-> c[e[k]]]) = c[p]
  <2> DEFINE K == {k \in D : e[k] = p}  g == [k \in K |-> c[e[k]]]
  <2>1. CASE p \in S
    <3>1. PICK k \in D : e[k] = p
      BY <1>4, <2>1
    <3>2. K = {k}
      BY <1>4, <3>1
    <3>3. g \in [{k} -> Nat] /\ g[k] = c[p]
      BY <3>1, <3>2
    <3> HIDE DEF g
    <3> QED  BY <3>3, SumSingle DEF g
  <2>2. CASE p \notin S
    <3>1. K = {}
      BY <1>4, <2>2
    <3>2. g \in [K -> Nat] /\ \A x \in K : g[x] = 0
      BY <3>1
    <3> HIDE DEF g, K
    <3>3. SumF(g) = 0
      BY <3>2, SumZero
    <3> QED  BY <1>6, <2>2, <3>3 DEF g, K
  <2> QED  BY <2>1, <2>2
<1>7. KeepsSums(e, D, S, n)
  BY <1>5, <1>6 DEF KeepsSums, Picked, PickedFrom, N
<1>8. \A s : Kept(s, S) = Picked(s, e, D)
  BY <1>2 DEF Picked
<1> QED  BY <1>1, <1>2, <1>7, <1>8 DEF D

-----------------------------------------------------------------------------
(* The columns of typed rows, and rows appended to a table.                *)

MoneyRows(rows, n) ==
  DOMAIN rows = 1..n /\ \A i \in 1..n : rows[i].product \in Nat /\ rows[i].service \in Nat
PieceRows(rows) == \A i \in DOMAIN rows : rows[i].pieces \in Nat
FeeRows(rows) == \A i \in DOMAIN rows : rows[i].fee \in Nat

LEMMA ColumnTypes ==
  ASSUME NEW n \in Nat, NEW rows, MoneyRows(rows, n)
  PROVE  /\ ProductOf(rows) \in [1..n -> Nat] /\ ServiceOf(rows) \in [1..n -> Nat]
         /\ GrossOf(rows) \in [1..n -> Nat]
         /\ \A i \in 1..n : GrossOf(rows)[i] = ProductOf(rows)[i] + ServiceOf(rows)[i]
         /\ \A i \in 1..n : /\ ProductOf(rows)[i] = rows[i].product
                            /\ ServiceOf(rows)[i] = rows[i].service
         /\ PieceRows(rows) => /\ PiecesOf(rows) \in [1..n -> Nat]
                               /\ \A i \in 1..n : PiecesOf(rows)[i] = rows[i].pieces
         /\ FeeRows(rows) => /\ FeeOf(rows) \in [1..n -> Nat]
                             /\ \A i \in 1..n : FeeOf(rows)[i] = rows[i].fee
<1>1. DOMAIN rows = 1..n /\ \A i \in 1..n : rows[i].product \in Nat /\ rows[i].service \in Nat
  BY DEF MoneyRows
<1> QED  BY <1>1 DEF ProductOf, ServiceOf, GrossOf, PiecesOf, FeeOf, PieceRows, FeeRows

(* Sums over places of a table: naturals, and gross is the other two.      *)
LEMMA RowSums ==
  ASSUME NEW n \in Nat, NEW rows, MoneyRows(rows, n), NEW I, Places(I, n)
  PROVE  /\ SumOf(rows, I, Product) \in Nat /\ SumOf(rows, I, Service) \in Nat
         /\ SumOf(rows, I, Gross) = SumOf(rows, I, Product) + SumOf(rows, I, Service)
         /\ PieceRows(rows) => SumOf(rows, I, Pieces) \in Nat
         /\ FeeRows(rows) => SumOf(rows, I, Fee) \in Nat
<1>1. \A i \in I : i \in DOMAIN rows
  BY DEF Places, MoneyRows
<1>2. /\ SumOn(ProductOf(rows), I) \in Nat /\ SumOn(ServiceOf(rows), I) \in Nat
      /\ PieceRows(rows) => SumOn(PiecesOf(rows), I) \in Nat
      /\ FeeRows(rows) => SumOn(FeeOf(rows), I) \in Nat
  BY ColumnTypes, SumOnPlaces
<1>3. SumOn(GrossOf(rows), I) = SumOn(ProductOf(rows), I) + SumOn(ServiceOf(rows), I)
  <2>1. Adds(ProductOf(rows), ServiceOf(rows), GrossOf(rows), n)
    BY ColumnTypes DEF Adds
  <2> QED  BY <2>1, SumOnAdds
<1> QED  BY <1>1, <1>2, <1>3, ColumnSums

LEMMA WholeTable ==
  ASSUME NEW n \in Nat, NEW rows, DOMAIN rows = 1..n
  PROVE  Places(DOMAIN rows, n)
BY DEF Places

LEMMA RowTotals ==
  ASSUME NEW n \in Nat, NEW rows, MoneyRows(rows, n)
  PROVE  /\ SumRows(rows, Product) \in Nat /\ SumRows(rows, Service) \in Nat
         /\ SumRows(rows, Gross) = SumRows(rows, Product) + SumRows(rows, Service)
         /\ PieceRows(rows) => SumRows(rows, Pieces) \in Nat
         /\ FeeRows(rows) => SumRows(rows, Fee) \in Nat
<1>1. Places(DOMAIN rows, n)
  BY WholeTable DEF MoneyRows
<1> QED  BY <1>1, RowSums DEF SumRows

(* Table q is table rows followed by table new.                            *)
Joined(rows, n, new, m, q) ==
  /\ DOMAIN rows = 1..n /\ DOMAIN new = 1..m /\ DOMAIN q = 1..(n + m)
  /\ \A i \in 1..n : q[i] = rows[i]
  /\ \A j \in 1..m : q[n + j] = new[j]

LEMMA JoinedRows ==
  ASSUME NEW n \in Nat, NEW m \in Nat, NEW rows, NEW new, NEW q, Joined(rows, n, new, m, q),
         MoneyRows(rows, n), MoneyRows(new, m)
  PROVE  /\ MoneyRows(q, n + m)
         /\ PieceRows(rows) /\ PieceRows(new) => PieceRows(q)
         /\ FeeRows(rows) /\ FeeRows(new) => FeeRows(q)
         /\ \A k \in DOMAIN q : (k \in DOMAIN rows /\ q[k] = rows[k])
              \/ \E j \in DOMAIN new : k = n + j /\ q[k] = new[j]
<1>1. /\ DOMAIN rows = 1..n /\ DOMAIN new = 1..m /\ DOMAIN q = 1..(n + m)
      /\ \A i \in 1..n : q[i] = rows[i]
      /\ \A j \in 1..m : q[n + j] = new[j]
  BY DEF Joined
<1>2. ASSUME NEW k \in 1..(n + m) PROVE k \in 1..n \/ \E j \in 1..m : k = n + j
  <2>1. CASE k <= n
    BY <2>1
  <2>2. CASE k > n
    <3>1. k - n \in 1..m /\ k = n + (k - n)
      BY <2>2
    <3> QED  BY <3>1
  <2> QED  BY <2>1, <2>2
<1>3. ASSUME NEW k \in DOMAIN q
      PROVE  (k \in DOMAIN rows /\ q[k] = rows[k]) \/ \E j \in DOMAIN new : k = n + j /\ q[k] = new[j]
  <2>1. CASE k \in 1..n
    BY <1>1, <2>1
  <2>2. ASSUME NEW j \in 1..m, k = n + j PROVE j \in DOMAIN new /\ q[k] = new[j]
    BY <1>1, <2>2
  <2>3. k \in 1..(n + m)
    BY <1>1
  <2> QED  BY <1>2, <2>1, <2>2, <2>3
<1>4. ASSUME NEW k \in 1..(n + m) PROVE q[k].product \in Nat /\ q[k].service \in Nat
  BY <1>1, <1>3 DEF MoneyRows
<1>5. MoneyRows(q, n + m)
  BY <1>1, <1>4 DEF MoneyRows
<1>6. ASSUME PieceRows(rows), PieceRows(new) PROVE PieceRows(q)
  BY <1>3, <1>6 DEF PieceRows
<1>7. ASSUME FeeRows(rows), FeeRows(new) PROVE FeeRows(q)
  BY <1>3, <1>7 DEF FeeRows
<1> QED  BY <1>3, <1>5, <1>6, <1>7

LEMMA JoinedSums ==
  ASSUME NEW n \in Nat, NEW m \in Nat, NEW rows, NEW new, NEW q, Joined(rows, n, new, m, q),
         MoneyRows(rows, n), MoneyRows(new, m),
         NEW D, NEW E, NEW F, JoinedPlaces(D, n, E, m, F)
  PROVE  /\ SumOf(q, F, Product) = SumOf(rows, D, Product) + SumOf(new, E, Product)
         /\ SumOf(q, F, Service) = SumOf(rows, D, Service) + SumOf(new, E, Service)
         /\ SumOf(q, F, Gross) = SumOf(rows, D, Gross) + SumOf(new, E, Gross)
         /\ PieceRows(rows) /\ PieceRows(new) =>
              SumOf(q, F, Pieces) = SumOf(rows, D, Pieces) + SumOf(new, E, Pieces)
         /\ FeeRows(rows) /\ FeeRows(new) =>
              SumOf(q, F, Fee) = SumOf(rows, D, Fee) + SumOf(new, E, Fee)
<1>1. /\ DOMAIN rows = 1..n /\ DOMAIN new = 1..m /\ DOMAIN q = 1..(n + m)
      /\ \A i \in 1..n : i \in DOMAIN q /\ q[i] = rows[i]
      /\ \A j \in 1..m : n + j \in DOMAIN q /\ q[n + j] = new[j]
  BY DEF Joined
<1>2. /\ \A i \in D : i \in DOMAIN rows
      /\ \A j \in E : j \in DOMAIN new
      /\ \A k \in F : k \in DOMAIN q
  BY <1>1 DEF Places, JoinedPlaces
<1>3. MoneyRows(q, n + m) /\ (PieceRows(rows) /\ PieceRows(new) => PieceRows(q))
      /\ (FeeRows(rows) /\ FeeRows(new) => FeeRows(q)) /\ n + m \in Nat
  BY JoinedRows
<1>4. SumOn(ProductOf(q), F) = SumOn(ProductOf(rows), D) + SumOn(ProductOf(new), E)
  <2>1. /\ \A i \in 1..n : ProductOf(q)[i] = ProductOf(rows)[i]
        /\ \A j \in 1..m : ProductOf(q)[n + j] = ProductOf(new)[j]
    BY <1>1 DEF ProductOf
  <2>2. /\ ProductOf(rows) \in [1..n -> Nat] /\ ProductOf(new) \in [1..m -> Nat]
        /\ ProductOf(q) \in [1..(n + m) -> Nat]
    BY <1>3, ColumnTypes
  <2>3. JoinedColumns(ProductOf(rows), n, ProductOf(new), m, ProductOf(q))
    BY <2>1, <2>2 DEF JoinedColumns
  <2> QED  BY <2>3, JoinedSum
<1>5. SumOn(ServiceOf(q), F) = SumOn(ServiceOf(rows), D) + SumOn(ServiceOf(new), E)
  <2>1. /\ \A i \in 1..n : ServiceOf(q)[i] = ServiceOf(rows)[i]
        /\ \A j \in 1..m : ServiceOf(q)[n + j] = ServiceOf(new)[j]
    BY <1>1 DEF ServiceOf
  <2>2. /\ ServiceOf(rows) \in [1..n -> Nat] /\ ServiceOf(new) \in [1..m -> Nat]
        /\ ServiceOf(q) \in [1..(n + m) -> Nat]
    BY <1>3, ColumnTypes
  <2>3. JoinedColumns(ServiceOf(rows), n, ServiceOf(new), m, ServiceOf(q))
    BY <2>1, <2>2 DEF JoinedColumns
  <2> QED  BY <2>3, JoinedSum
<1>6. SumOn(GrossOf(q), F) = SumOn(GrossOf(rows), D) + SumOn(GrossOf(new), E)
  <2>1. /\ \A i \in 1..n : GrossOf(q)[i] = GrossOf(rows)[i]
        /\ \A j \in 1..m : GrossOf(q)[n + j] = GrossOf(new)[j]
    BY <1>1 DEF GrossOf
  <2>2. /\ GrossOf(rows) \in [1..n -> Nat] /\ GrossOf(new) \in [1..m -> Nat]
        /\ GrossOf(q) \in [1..(n + m) -> Nat]
    BY <1>3, ColumnTypes
  <2>3. JoinedColumns(GrossOf(rows), n, GrossOf(new), m, GrossOf(q))
    BY <2>1, <2>2 DEF JoinedColumns
  <2> QED  BY <2>3, JoinedSum
<1>7. PieceRows(rows) /\ PieceRows(new) =>
        SumOn(PiecesOf(q), F) = SumOn(PiecesOf(rows), D) + SumOn(PiecesOf(new), E)
  <2>1. /\ \A i \in 1..n : PiecesOf(q)[i] = PiecesOf(rows)[i]
        /\ \A j \in 1..m : PiecesOf(q)[n + j] = PiecesOf(new)[j]
    BY <1>1 DEF PiecesOf
  <2>2. PieceRows(rows) /\ PieceRows(new) =>
          /\ PiecesOf(rows) \in [1..n -> Nat] /\ PiecesOf(new) \in [1..m -> Nat]
          /\ PiecesOf(q) \in [1..(n + m) -> Nat]
    BY <1>3, ColumnTypes
  <2>3. PieceRows(rows) /\ PieceRows(new) =>
          JoinedColumns(PiecesOf(rows), n, PiecesOf(new), m, PiecesOf(q))
    BY <2>1, <2>2 DEF JoinedColumns
  <2> QED  BY <2>3, JoinedSum
<1>8. FeeRows(rows) /\ FeeRows(new) =>
        SumOn(FeeOf(q), F) = SumOn(FeeOf(rows), D) + SumOn(FeeOf(new), E)
  <2>1. /\ \A i \in 1..n : FeeOf(q)[i] = FeeOf(rows)[i]
        /\ \A j \in 1..m : FeeOf(q)[n + j] = FeeOf(new)[j]
    BY <1>1 DEF FeeOf
  <2>2. FeeRows(rows) /\ FeeRows(new) =>
          /\ FeeOf(rows) \in [1..n -> Nat] /\ FeeOf(new) \in [1..m -> Nat]
          /\ FeeOf(q) \in [1..(n + m) -> Nat]
    BY <1>3, ColumnTypes
  <2>3. FeeRows(rows) /\ FeeRows(new) =>
          JoinedColumns(FeeOf(rows), n, FeeOf(new), m, FeeOf(q))
    BY <2>1, <2>2 DEF JoinedColumns
  <2> QED  BY <2>3, JoinedSum
<1> QED  BY <1>2, <1>4, <1>5, <1>6, <1>7, <1>8, ColumnSums

LEMMA JoinedTotals ==
  ASSUME NEW n \in Nat, NEW m \in Nat, NEW rows, NEW new, NEW q, Joined(rows, n, new, m, q),
         MoneyRows(rows, n), MoneyRows(new, m)
  PROVE  /\ SumRows(q, Product) = SumRows(rows, Product) + SumRows(new, Product)
         /\ SumRows(q, Service) = SumRows(rows, Service) + SumRows(new, Service)
         /\ SumRows(q, Gross) = SumRows(rows, Gross) + SumRows(new, Gross)
         /\ PieceRows(rows) /\ PieceRows(new) =>
              SumRows(q, Pieces) = SumRows(rows, Pieces) + SumRows(new, Pieces)
         /\ FeeRows(rows) /\ FeeRows(new) =>
              SumRows(q, Fee) = SumRows(rows, Fee) + SumRows(new, Fee)
<1>1. JoinedPlaces(DOMAIN rows, n, DOMAIN new, m, DOMAIN q)
  BY DEF Joined, Places, JoinedPlaces
<1> QED  BY <1>1, JoinedSums DEF SumRows

(* One row more.                                                           *)
LEMMA OneRow ==
  ASSUME NEW row, row.product \in Nat, row.service \in Nat
  PROVE  /\ MoneyRows(<<row>>, 1)
         /\ SumRows(<<row>>, Product) = row.product /\ SumRows(<<row>>, Service) = row.service
         /\ row.pieces \in Nat => PieceRows(<<row>>) /\ SumRows(<<row>>, Pieces) = row.pieces
         /\ row.fee \in Nat => FeeRows(<<row>>) /\ SumRows(<<row>>, Fee) = row.fee
<1> DEFINE rows == <<row>>
<1>1. DOMAIN rows = {1} /\ DOMAIN rows = 1..1 /\ rows[1] = row
  OBVIOUS
<1> HIDE DEF rows
<1>2. \A c : c \in [{1} -> Nat] => SumF(c) = c[1]
  BY SumSingle
<1>3. MoneyRows(rows, 1)
  BY <1>1 DEF MoneyRows
<1>4. SumRows(rows, Product) = row.product
  <2> DEFINE c == [i \in {1} |-> Product(rows[i])]
  <2>1. c \in [{1} -> Nat] /\ c[1] = row.product
    BY <1>1 DEF Product
  <2> HIDE DEF c
  <2>2. SumF(c) = row.product
    BY <1>2, <2>1
  <2> QED  BY <1>1, <2>2 DEF SumRows, SumOf, c
<1>5. SumRows(rows, Service) = row.service
  <2> DEFINE c == [i \in {1} |-> Service(rows[i])]
  <2>1. c \in [{1} -> Nat] /\ c[1] = row.service
    BY <1>1 DEF Service
  <2> HIDE DEF c
  <2>2. SumF(c) = row.service
    BY <1>2, <2>1
  <2> QED  BY <1>1, <2>2 DEF SumRows, SumOf, c
<1>6. ASSUME row.pieces \in Nat PROVE PieceRows(rows) /\ SumRows(rows, Pieces) = row.pieces
  <2> DEFINE c == [i \in {1} |-> Pieces(rows[i])]
  <2>1. c \in [{1} -> Nat] /\ c[1] = row.pieces
    BY <1>1, <1>6 DEF Pieces
  <2> HIDE DEF c
  <2>2. SumF(c) = row.pieces
    BY <1>2, <2>1
  <2> QED  BY <1>1, <1>6, <2>2 DEF SumRows, SumOf, c, PieceRows
<1>7. ASSUME row.fee \in Nat PROVE FeeRows(rows) /\ SumRows(rows, Fee) = row.fee
  <2> DEFINE c == [i \in {1} |-> Fee(rows[i])]
  <2>1. c \in [{1} -> Nat] /\ c[1] = row.fee
    BY <1>1, <1>7 DEF Fee
  <2> HIDE DEF c
  <2>2. SumF(c) = row.fee
    BY <1>2, <2>1
  <2> QED  BY <1>1, <1>7, <2>2 DEF SumRows, SumOf, c, FeeRows
<1> QED  BY <1>3, <1>4, <1>5, <1>6, <1>7 DEF rows

LEMMA JoinedSeqs ==
  ASSUME NEW A, NEW rows \in Seq(A), NEW new \in Seq(A)
  PROVE  Joined(rows, Len(rows), new, Len(new), rows \o new) /\ rows \o new \in Seq(A)
BY DEF Joined

LEMMA JoinedRow ==
  ASSUME NEW A, NEW rows \in Seq(A), NEW row \in A
  PROVE  Joined(rows, Len(rows), <<row>>, 1, Append(rows, row)) /\ Append(rows, row) \in Seq(A)
BY DEF Joined

-----------------------------------------------------------------------------
(* The refunds a handler writes.                                           *)

Marked(rows, p) == {i \in DOMAIN rows : rows[i].payment = p}
Settling(rows, j) == {i \in DOMAIN rows : rows[i].installment = j}

(* The rows that are left of one refund for each of n payments (or of n    *)
(* installments): the filters drop only rows that give nothing back.       *)
Filtered(raw, n, S) ==
  /\ raw \in [1..n -> RefundRow] /\ Places(S, n)
  /\ \A i \in 1..n : i \notin S => raw[i].product = 0 /\ raw[i].service = 0

LEMMA KeptRefunds ==
  ASSUME NEW n \in Nat, NEW raw, NEW S, Filtered(raw, n, S), MoneyRows(raw, n)
  PROVE  LET rows == Kept(raw, S) IN
         /\ rows \in Seq(RefundRow)
         /\ \A k \in DOMAIN rows : \E i \in 1..n : rows[k] = raw[i]
         /\ SumRows(rows, Product) = SumRows(raw, Product)
         /\ SumRows(rows, Service) = SumRows(raw, Service)
         /\ (PieceRows(raw) /\ \A i \in 1..n : i \notin S => raw[i].pieces = 0) =>
              SumRows(rows, Pieces) = SumRows(raw, Pieces)
         /\ (\A i \in 1..n : raw[i].payment = i) => \A p \in 1..n :
              /\ SumOf(rows, Marked(rows, p), Product) = raw[p].product
              /\ SumOf(rows, Marked(rows, p), Service) = raw[p].service
              /\ (PieceRows(raw) /\ \A i \in 1..n : i \notin S => raw[i].pieces = 0) =>
                   SumOf(rows, Marked(rows, p), Pieces) = raw[p].pieces
         /\ (\A i \in 1..n : raw[i].installment = i) => \A p \in 1..n :
              /\ SumOf(rows, Settling(rows, p), Product) = raw[p].product
              /\ SumOf(rows, Settling(rows, p), Service) = raw[p].service
<1> DEFINE rows == Kept(raw, S)
           D == 1..Cardinality(S)
           NoPieces == PieceRows(raw) /\ \A i \in 1..n : i \notin S => raw[i].pieces = 0
<1>0. /\ raw \in [1..n -> RefundRow] /\ Places(S, n)
      /\ \A i \in 1..n : i \notin S => raw[i].product = 0 /\ raw[i].service = 0
  BY DEF Filtered
<1>1. PICK e \in Bijection(D, S) :
        rows = Picked(raw, e, D) /\ Cardinality(S) \in Nat /\ KeepsSums(e, D, S, n)
  BY <1>0, KeptColumns
<1>2. \A k \in D : e[k] \in 1..n
  <2> HIDE DEF D
  <2>1. e \in [D -> S]
    BY <1>1, BijectionFacts
  <2> QED  BY <1>0, <2>1 DEF Places
<1>3. DOMAIN raw = 1..n /\ \A i \in 1..n : raw[i] \in RefundRow
  BY <1>0
<1>4. rows \in Seq(RefundRow) /\ \A k \in DOMAIN rows : \E i \in 1..n : rows[k] = raw[i]
  BY <1>1, <1>2, <1>3 DEF Picked
<1>5. DOMAIN rows = D /\ \A k \in D : rows[k] = raw[e[k]]
  BY <1>1 DEF Picked
<1> HIDE DEF rows, D, NoPieces
<1>6. ASSUME NEW c, c \in [1..n -> Nat], \A i \in 1..n : i \notin S => c[i] = 0
      PROVE  /\ SumF(Picked(c, e, D)) = SumF(c)
             /\ \A p \in 1..n : SumF(Picked(c, e, PickedFrom(e, D, p))) = c[p]
  BY <1>1, <1>6 DEF KeepsSums
<1>7. /\ SumF(Picked(ProductOf(raw), e, D)) = SumF(ProductOf(raw))
      /\ \A p \in 1..n : SumF(Picked(ProductOf(raw), e, PickedFrom(e, D, p))) = raw[p].product
  <2>1. ProductOf(raw) \in [1..n -> Nat] /\ \A i \in 1..n : ProductOf(raw)[i] = raw[i].product
    BY ColumnTypes
  <2>2. \A i \in 1..n : i \notin S => ProductOf(raw)[i] = 0
    BY <1>0, <2>1
  <2>3. /\ SumF(Picked(ProductOf(raw), e, D)) = SumF(ProductOf(raw))
        /\ \A p \in 1..n :
             SumF(Picked(ProductOf(raw), e, PickedFrom(e, D, p))) = ProductOf(raw)[p]
    BY <1>6, <2>1, <2>2
  <2> QED  BY <2>1, <2>3
<1>8. /\ SumF(Picked(ServiceOf(raw), e, D)) = SumF(ServiceOf(raw))
      /\ \A p \in 1..n : SumF(Picked(ServiceOf(raw), e, PickedFrom(e, D, p))) = raw[p].service
  <2>1. ServiceOf(raw) \in [1..n -> Nat] /\ \A i \in 1..n : ServiceOf(raw)[i] = raw[i].service
    BY ColumnTypes
  <2>2. \A i \in 1..n : i \notin S => ServiceOf(raw)[i] = 0
    BY <1>0, <2>1
  <2>3. /\ SumF(Picked(ServiceOf(raw), e, D)) = SumF(ServiceOf(raw))
        /\ \A p \in 1..n :
             SumF(Picked(ServiceOf(raw), e, PickedFrom(e, D, p))) = ServiceOf(raw)[p]
    BY <1>6, <2>1, <2>2
  <2> QED  BY <2>1, <2>3
<1>9. ASSUME NoPieces
      PROVE  /\ SumF(Picked(PiecesOf(raw), e, D)) = SumF(PiecesOf(raw))
             /\ \A p \in 1..n :
                  SumF(Picked(PiecesOf(raw), e, PickedFrom(e, D, p))) = raw[p].pieces
  <2>1. PiecesOf(raw) \in [1..n -> Nat] /\ \A i \in 1..n : PiecesOf(raw)[i] = raw[i].pieces
    BY <1>9, ColumnTypes DEF NoPieces
  <2>2. \A i \in 1..n : i \notin S => PiecesOf(raw)[i] = 0
    BY <1>9, <2>1 DEF NoPieces
  <2>3. /\ SumF(Picked(PiecesOf(raw), e, D)) = SumF(PiecesOf(raw))
        /\ \A p \in 1..n :
             SumF(Picked(PiecesOf(raw), e, PickedFrom(e, D, p))) = PiecesOf(raw)[p]
    BY <1>6, <2>1, <2>2
  <2> QED  BY <2>1, <2>3
<1>10. \A k \in D : /\ Product(rows[k]) = ProductOf(raw)[e[k]]
                    /\ Service(rows[k]) = ServiceOf(raw)[e[k]]
                    /\ Pieces(rows[k]) = PiecesOf(raw)[e[k]]
  BY <1>2, <1>3, <1>5 DEF Product, Service, Pieces, ProductOf, ServiceOf, PiecesOf
<1>11. /\ SumRows(rows, Product) = SumRows(raw, Product)
       /\ SumRows(rows, Service) = SumRows(raw, Service)
       /\ NoPieces => SumRows(rows, Pieces) = SumRows(raw, Pieces)
  <2>1. /\ [k \in DOMAIN rows |-> Product(rows[k])] = Picked(ProductOf(raw), e, D)
        /\ [k \in DOMAIN rows |-> Service(rows[k])] = Picked(ServiceOf(raw), e, D)
        /\ [k \in DOMAIN rows |-> Pieces(rows[k])] = Picked(PiecesOf(raw), e, D)
    BY <1>5, <1>10 DEF Picked
  <2>2. /\ [k \in DOMAIN raw |-> Product(raw[k])] = ProductOf(raw)
        /\ [k \in DOMAIN raw |-> Service(raw[k])] = ServiceOf(raw)
        /\ [k \in DOMAIN raw |-> Pieces(raw[k])] = PiecesOf(raw)
    BY DEF Product, Service, Pieces, ProductOf, ServiceOf, PiecesOf
  <2> QED  BY <1>7, <1>8, <1>9, <2>1, <2>2 DEF SumRows, SumOf
<1>12. ASSUME NEW K, \A k \in K : k \in D
       PROVE  /\ SumOf(rows, K, Product) = SumF(Picked(ProductOf(raw), e, K))
              /\ SumOf(rows, K, Service) = SumF(Picked(ServiceOf(raw), e, K))
              /\ SumOf(rows, K, Pieces) = SumF(Picked(PiecesOf(raw), e, K))
  <2>1. /\ [k \in K |-> Product(rows[k])] = Picked(ProductOf(raw), e, K)
        /\ [k \in K |-> Service(rows[k])] = Picked(ServiceOf(raw), e, K)
        /\ [k \in K |-> Pieces(rows[k])] = Picked(PiecesOf(raw), e, K)
    BY <1>10, <1>12 DEF Picked
  <2> QED  BY <2>1 DEF SumOf
<1>13. ASSUME NEW p \in 1..n, NEW K, K = PickedFrom(e, D, p)
       PROVE  /\ SumOf(rows, K, Product) = raw[p].product
              /\ SumOf(rows, K, Service) = raw[p].service
              /\ NoPieces => SumOf(rows, K, Pieces) = raw[p].pieces
  <2>1. \A k \in K : k \in D
    BY <1>13 DEF PickedFrom
  <2> QED  BY <1>7, <1>8, <1>9, <1>12, <1>13, <2>1
<1>14. ASSUME \A i \in 1..n : raw[i].payment = i, NEW p \in 1..n
       PROVE  Marked(rows, p) = PickedFrom(e, D, p)
  BY <1>2, <1>5, <1>14 DEF Marked, PickedFrom
<1>15. ASSUME \A i \in 1..n : raw[i].installment = i, NEW p \in 1..n
       PROVE  Settling(rows, p) = PickedFrom(e, D, p)
  BY <1>2, <1>5, <1>15 DEF Settling, PickedFrom
<1> QED  BY <1>4, <1>11, <1>13, <1>14, <1>15 DEF rows, NoPieces

(* What WithPieces leaves alone.                                           *)
LEMMA WithPiecesRows ==
  ASSUME NEW rows \in Seq(RefundRow), NEW n \in Int, NonNegative(n) \in 0..MaxPieces
  PROVE  LET w == WithPieces(rows, n) IN
         /\ w \in Seq(RefundRow) /\ DOMAIN w = DOMAIN rows
         /\ \A k \in DOMAIN rows :
              /\ w[k].payment = rows[k].payment /\ w[k].installment = rows[k].installment
              /\ w[k].product = rows[k].product /\ w[k].service = rows[k].service
<1> DEFINE r == [rows[1] EXCEPT !.pieces = NonNegative(n)]
           w == WithPieces(rows, n)
<1>1. CASE rows = << >>
  <2>1. w = rows
    BY <1>1 DEF WithPieces
  <2> QED  BY <2>1
<1>2. CASE rows # << >>
  <2>1. 1 \in DOMAIN rows /\ rows[1] \in RefundRow
    BY <1>2
  <2>2. /\ r \in RefundRow /\ r.payment = rows[1].payment /\ r.installment = rows[1].installment
        /\ r.product = rows[1].product /\ r.service = rows[1].service
    BY <2>1 DEF RefundRow
  <2>3. w = [rows EXCEPT ![1] = r]
    BY <1>2 DEF WithPieces
  <2> HIDE DEF r, w
  <2>4. w \in Seq(RefundRow) /\ DOMAIN w = DOMAIN rows
    BY <2>1, <2>2, <2>3
  <2>5. \A k \in DOMAIN rows : w[k] = IF k = 1 THEN r ELSE rows[k]
    BY <2>3
  <2> QED  BY <2>2, <2>4, <2>5 DEF w
<1> QED  BY <1>1, <1>2

(* Sums of two tables that agree on the amounts.                           *)
LEMMA SameAmounts ==
  ASSUME NEW rows, NEW w, DOMAIN w = DOMAIN rows,
         \A k \in DOMAIN rows :
           /\ w[k].payment = rows[k].payment /\ w[k].installment = rows[k].installment
           /\ w[k].product = rows[k].product /\ w[k].service = rows[k].service
  PROVE  /\ SumRows(w, Product) = SumRows(rows, Product)
         /\ SumRows(w, Service) = SumRows(rows, Service)
         /\ \A p : Marked(w, p) = Marked(rows, p) /\ Settling(w, p) = Settling(rows, p)
         /\ \A p : /\ SumOf(w, Marked(w, p), Product) = SumOf(rows, Marked(rows, p), Product)
                   /\ SumOf(w, Marked(w, p), Service) = SumOf(rows, Marked(rows, p), Service)
                   /\ SumOf(w, Settling(w, p), Product) = SumOf(rows, Settling(rows, p), Product)
                   /\ SumOf(w, Settling(w, p), Service) = SumOf(rows, Settling(rows, p), Service)
<1>1. ASSUME NEW I, \A i \in I : i \in DOMAIN rows
      PROVE  /\ SumOf(w, I, Product) = SumOf(rows, I, Product)
             /\ SumOf(w, I, Service) = SumOf(rows, I, Service)
  <2>1. /\ [i \in I |-> Product(w[i])] = [i \in I |-> Product(rows[i])]
        /\ [i \in I |-> Service(w[i])] = [i \in I |-> Service(rows[i])]
    BY <1>1 DEF Product, Service
  <2> QED  BY <2>1 DEF SumOf
<1>2. \A p : Marked(w, p) = Marked(rows, p) /\ Settling(w, p) = Settling(rows, p)
  BY DEF Marked, Settling
<1>3. \A p : \A i \in Marked(rows, p) : i \in DOMAIN rows
  BY DEF Marked
<1>4. \A p : \A i \in Settling(rows, p) : i \in DOMAIN rows
  BY DEF Settling
<1> QED  BY <1>1, <1>2, <1>3, <1>4 DEF SumRows

(* Refunds appended to those of a sale.                                    *)
AddedRefunds(rows, new, q) ==
  /\ q \in Seq(RefundRow)
  /\ SumRows(q, Product) = SumRows(rows, Product) + SumRows(new, Product)
  /\ SumRows(q, Service) = SumRows(rows, Service) + SumRows(new, Service)
  /\ SumRows(q, Gross) = SumRows(rows, Gross) + SumRows(new, Gross)
  /\ SumRows(q, Pieces) = SumRows(rows, Pieces) + SumRows(new, Pieces)
  /\ \A p : /\ SumOf(q, Marked(q, p), Product) =
                 SumOf(rows, Marked(rows, p), Product) + SumOf(new, Marked(new, p), Product)
            /\ SumOf(q, Marked(q, p), Service) =
                 SumOf(rows, Marked(rows, p), Service) + SumOf(new, Marked(new, p), Service)
            /\ SumOf(q, Marked(q, p), Pieces) =
                 SumOf(rows, Marked(rows, p), Pieces) + SumOf(new, Marked(new, p), Pieces)
            /\ SumOf(q, Settling(q, p), Product) =
                 SumOf(rows, Settling(rows, p), Product) + SumOf(new, Settling(new, p), Product)
            /\ SumOf(q, Settling(q, p), Service) =
                 SumOf(rows, Settling(rows, p), Service) + SumOf(new, Settling(new, p), Service)
  /\ \A k \in DOMAIN q : (\E i \in DOMAIN rows : q[k] = rows[i]) \/ (\E j \in DOMAIN new : q[k] = new[j])

LEMMA JoinedRefunds ==
  ASSUME NEW rows \in Seq(RefundRow), NEW new \in Seq(RefundRow)
  PROVE  AddedRefunds(rows, new, rows \o new)
<1> DEFINE n == Len(rows)  m == Len(new)  q == rows \o new
<1>1. q \in Seq(RefundRow) /\ Joined(rows, n, new, m, q) /\ n \in Nat /\ m \in Nat
  BY JoinedSeqs
<1>2. /\ MoneyRows(rows, n) /\ MoneyRows(new, m) /\ PieceRows(rows) /\ PieceRows(new)
  <2>1. \A r \in RefundRow : r.product \in Nat /\ r.service \in Nat /\ r.pieces \in Nat
    BY DEF RefundRow
  <2>2. /\ DOMAIN rows = 1..n /\ \A i \in 1..n : rows[i] \in RefundRow
        /\ DOMAIN new = 1..m /\ \A j \in 1..m : new[j] \in RefundRow
    OBVIOUS
  <2> QED  BY <2>1, <2>2 DEF MoneyRows, PieceRows
<1>3. DOMAIN rows = 1..n /\ DOMAIN new = 1..m /\ DOMAIN q = 1..(n + m)
      /\ (\A i \in 1..n : q[i] = rows[i]) /\ \A j \in 1..m : q[n + j] = new[j]
  BY <1>1 DEF Joined
<1> HIDE DEF n, m, q
<1>4. ASSUME NEW p
      PROVE  /\ JoinedPlaces(Marked(rows, p), n, Marked(new, p), m, Marked(q, p))
             /\ JoinedPlaces(Settling(rows, p), n, Settling(new, p), m, Settling(q, p))
  <2>1. (\A i \in 1..n : i \in DOMAIN q) /\ \A j \in 1..m : n + j \in DOMAIN q
    BY <1>1, <1>3
  <2> QED  BY <1>3, <2>1 DEF JoinedPlaces, Places, Marked, Settling
<1>5. \A k \in DOMAIN q : (\E i \in DOMAIN rows : q[k] = rows[i]) \/ (\E j \in DOMAIN new : q[k] = new[j])
  BY <1>1, <1>2, JoinedRows
<1>6. /\ SumRows(q, Product) = SumRows(rows, Product) + SumRows(new, Product)
      /\ SumRows(q, Service) = SumRows(rows, Service) + SumRows(new, Service)
      /\ SumRows(q, Gross) = SumRows(rows, Gross) + SumRows(new, Gross)
      /\ SumRows(q, Pieces) = SumRows(rows, Pieces) + SumRows(new, Pieces)
  BY <1>1, <1>2, JoinedTotals
<1>7. ASSUME NEW p
      PROVE  /\ SumOf(q, Marked(q, p), Product) =
                  SumOf(rows, Marked(rows, p), Product) + SumOf(new, Marked(new, p), Product)
             /\ SumOf(q, Marked(q, p), Service) =
                  SumOf(rows, Marked(rows, p), Service) + SumOf(new, Marked(new, p), Service)
             /\ SumOf(q, Marked(q, p), Pieces) =
                  SumOf(rows, Marked(rows, p), Pieces) + SumOf(new, Marked(new, p), Pieces)
  BY <1>1, <1>2, <1>4, JoinedSums
<1>8. ASSUME NEW p
      PROVE  /\ SumOf(q, Settling(q, p), Product) =
                  SumOf(rows, Settling(rows, p), Product) + SumOf(new, Settling(new, p), Product)
             /\ SumOf(q, Settling(q, p), Service) =
                  SumOf(rows, Settling(rows, p), Service) + SumOf(new, Settling(new, p), Service)
  BY <1>1, <1>2, <1>4, JoinedSums
<1> QED  BY <1>1, <1>5, <1>6, <1>7, <1>8 DEF q, AddedRefunds

-----------------------------------------------------------------------------
(* The inductive invariant, over the rows of one sale: its comanda (ord),  *)
(* its payments (pays), its fiado (acc), its installments (insts) and its  *)
(* refunds (refs).                                                         *)

OrderRecord == [status : {"nenhuma", "aberta", "finalizada", "cancelada"},
                pieces : 0..MaxPieces, total : Nat, fiado : BOOLEAN,
                closedIn : 0..session, estorno : BOOLEAN, refunded : Nat]
AccountRecord == [status : {"nenhum", "pendente", "pago", "cancelado"},
                  product : Nat, service : Nat, total : Nat, paid : Nat,
                  balance : Nat, pieces : 0..MaxPieces, createdIn : 0..session]

(* What the status of a comanda says of its tables.                        *)
StatusFits(ord, pays, acc, insts, refs) ==
  /\ ord.status = "nenhuma" => pays = << >> /\ refs = << >>
  /\ ord.fiado => ord.status = "finalizada"
  /\ ~ord.fiado => acc.status = "nenhum" /\ insts = << >>

(* Refunds name payments and installments that are there; while a comanda  *)
(* is open all of its refunds are of its payments.                         *)
NamesFit(ord, pays, refs) ==
  \A i \in DOMAIN refs :
    /\ refs[i].payment \in 0..Len(pays)
    /\ ord.status = "aberta" => refs[i].payment # 0
InstallmentNamesFit(insts, refs) ==
  \A i \in DOMAIN refs : refs[i].installment \in 0..Len(insts)

(* Until a sale is refunded as a whole, a payment that chose pieces took   *)
(* their price and gives it back with them; an open comanda holds the      *)
(* pieces that were paid and not given back.                               *)
Partly(ord) == ord.status \in {"aberta", "finalizada"} /\ ~ord.estorno
PiecesFit(ord, pays, refs) ==
  /\ \A p \in DOMAIN pays : pays[p].pieces > 0 => pays[p].product = Price * pays[p].pieces
  /\ Partly(ord) => \A p \in DOMAIN pays :
       /\ SumOf(refs, Marked(refs, p), Product) = Price * SumOf(refs, Marked(refs, p), Pieces)
       /\ SumOf(refs, Marked(refs, p), Pieces) <= pays[p].pieces
  /\ ord.status = "aberta" => SumRows(pays, Pieces) - SumRows(refs, Pieces) <= ord.pieces

(* RefundsWithinPayments, sale by sale.                                    *)
PaymentsCover(pays, refs) ==
  \A p \in DOMAIN pays :
    /\ SumOf(refs, Marked(refs, p), Product) <= pays[p].product
    /\ SumOf(refs, Marked(refs, p), Service) <= pays[p].service
InstallmentsCover(insts, refs) ==
  \A j \in DOMAIN insts :
    /\ SumOf(refs, Settling(refs, j), Product) <= insts[j].product
    /\ SumOf(refs, Settling(refs, j), Service) <= insts[j].service

OrderFits(ord, pays, acc, insts, refs) ==
  /\ StatusFits(ord, pays, acc, insts, refs) /\ NamesFit(ord, pays, refs)
  /\ PiecesFit(ord, pays, refs) /\ PaymentsCover(pays, refs)
AccountFits(insts, refs) == InstallmentNamesFit(insts, refs) /\ InstallmentsCover(insts, refs)

LedgerInv ==
  /\ TypeOK
  /\ sessionOpen => session >= 1
  /\ \A o \in Orders : OrderFits(order[o], payments[o], account[o], installments[o], refunds[o])
  /\ \A a \in Accounts : AccountFits(installments[a], refunds[a])

(* The rows of the three tables.                                           *)
LEMMA RowTypes ==
  /\ \A r \in PaymentRow : r.product \in Nat /\ r.service \in Nat /\ r.fee \in Nat /\ r.pieces \in Nat
  /\ \A r \in InstallmentRow : r.product \in Nat /\ r.service \in Nat /\ r.fee \in Nat
  /\ \A r \in RefundRow : r.product \in Nat /\ r.service \in Nat /\ r.pieces \in Nat
BY Livro_Bounds DEF PaymentRow, InstallmentRow, RefundRow

LEMMA SeqFacts ==
  ASSUME NEW A, NEW rows \in Seq(A)
  PROVE  Len(rows) \in Nat /\ DOMAIN rows = 1..Len(rows) /\ \A i \in 1..Len(rows) : rows[i] \in A
OBVIOUS

LEMMA PaymentTable ==
  ASSUME NEW rows \in Seq(PaymentRow)
  PROVE  /\ Len(rows) \in Nat /\ MoneyRows(rows, Len(rows)) /\ PieceRows(rows) /\ FeeRows(rows)
         /\ DOMAIN rows = 1..Len(rows)
<1>1. Len(rows) \in Nat /\ DOMAIN rows = 1..Len(rows) /\ \A i \in 1..Len(rows) : rows[i] \in PaymentRow
  BY SeqFacts
<1> QED  BY <1>1, RowTypes DEF MoneyRows, PieceRows, FeeRows

LEMMA InstallmentTable ==
  ASSUME NEW rows \in Seq(InstallmentRow)
  PROVE  /\ Len(rows) \in Nat /\ MoneyRows(rows, Len(rows)) /\ FeeRows(rows)
         /\ DOMAIN rows = 1..Len(rows)
<1>1. Len(rows) \in Nat /\ DOMAIN rows = 1..Len(rows) /\ \A i \in 1..Len(rows) : rows[i] \in InstallmentRow
  BY SeqFacts
<1> QED  BY <1>1, RowTypes DEF MoneyRows, FeeRows

LEMMA RefundTable ==
  ASSUME NEW rows \in Seq(RefundRow)
  PROVE  /\ Len(rows) \in Nat /\ MoneyRows(rows, Len(rows)) /\ PieceRows(rows)
         /\ DOMAIN rows = 1..Len(rows)
<1>1. Len(rows) \in Nat /\ DOMAIN rows = 1..Len(rows) /\ \A i \in 1..Len(rows) : rows[i] \in RefundRow
  BY SeqFacts
<1> QED  BY <1>1, RowTypes DEF MoneyRows, PieceRows

LEMMA MarkedPlaces ==
  ASSUME NEW rows, NEW n \in Nat, DOMAIN rows = 1..n, NEW p
  PROVE  Places(Marked(rows, p), n) /\ Places(Settling(rows, p), n)
BY DEF Places, Marked, Settling

(* What was given back of one payment, and of one installment.             *)
LEMMA RefundSums ==
  ASSUME NEW refs \in Seq(RefundRow), NEW p
  PROVE  /\ SumOf(refs, Marked(refs, p), Product) \in Nat
         /\ SumOf(refs, Marked(refs, p), Service) \in Nat
         /\ SumOf(refs, Marked(refs, p), Pieces) \in Nat
         /\ SumOf(refs, Settling(refs, p), Product) \in Nat
         /\ SumOf(refs, Settling(refs, p), Service) \in Nat
         /\ SumRows(refs, Product) \in Nat /\ SumRows(refs, Service) \in Nat
         /\ SumRows(refs, Pieces) \in Nat
         /\ SumRows(refs, Gross) = SumRows(refs, Product) + SumRows(refs, Service)
<1>1. /\ Len(refs) \in Nat /\ MoneyRows(refs, Len(refs)) /\ PieceRows(refs)
      /\ DOMAIN refs = 1..Len(refs)
  BY RefundTable
<1>2. Places(Marked(refs, p), Len(refs)) /\ Places(Settling(refs, p), Len(refs))
  BY <1>1, MarkedPlaces
<1> QED  BY <1>1, <1>2, RowSums, RowTotals

LEMMA PaymentTotals ==
  ASSUME NEW pays \in Seq(PaymentRow)
  PROVE  /\ SumRows(pays, Product) \in Nat /\ SumRows(pays, Service) \in Nat
         /\ SumRows(pays, Gross) = SumRows(pays, Product) + SumRows(pays, Service)
         /\ SumRows(pays, Pieces) \in Nat
BY PaymentTable, RowTotals

LEMMA InstallmentTotals ==
  ASSUME NEW insts \in Seq(InstallmentRow)
  PROVE  /\ SumRows(insts, Product) \in Nat /\ SumRows(insts, Service) \in Nat
         /\ SumRows(insts, Gross) = SumRows(insts, Product) + SumRows(insts, Service)
BY InstallmentTable, RowTotals

LEMMA NoRows ==
  ASSUME NEW rows
  PROVE  /\ SumOf(rows, {}, Product) = 0 /\ SumOf(rows, {}, Service) = 0
         /\ SumOf(rows, {}, Gross) = 0 /\ SumOf(rows, {}, Pieces) = 0 /\ SumOf(rows, {}, Fee) = 0
<1>1. \A f \in [{} -> Nat] : SumF(f) = 0
  BY SumZero
<1>2. /\ [i \in {} |-> Product(rows[i])] \in [{} -> Nat]
      /\ [i \in {} |-> Service(rows[i])] \in [{} -> Nat]
      /\ [i \in {} |-> Gross(rows[i])] \in [{} -> Nat]
      /\ [i \in {} |-> Pieces(rows[i])] \in [{} -> Nat]
      /\ [i \in {} |-> Fee(rows[i])] \in [{} -> Nat]
  OBVIOUS
<1> QED  BY <1>1, <1>2 DEF SumOf

LEMMA EmptyTable ==
  /\ SumRows(<< >>, Product) = 0 /\ SumRows(<< >>, Service) = 0
  /\ SumRows(<< >>, Gross) = 0 /\ SumRows(<< >>, Pieces) = 0
<1>1. DOMAIN << >> = {}
  OBVIOUS
<1> QED  BY <1>1, NoRows DEF SumRows

(* A step of one sale.                                                     *)
LEMMA SameRows ==
  ASSUME session' = session
  PROVE  /\ PaymentRow' = PaymentRow /\ InstallmentRow' = InstallmentRow
         /\ RefundRow' = RefundRow /\ OrderRecord' = OrderRecord /\ AccountRecord' = AccountRecord
BY DEF PaymentRow, InstallmentRow, RefundRow, OrderRecord, AccountRecord

LEMMA Tables ==
  TypeOK <=> /\ session \in 0..MaxSessions /\ sessionOpen \in BOOLEAN /\ position \in Int
             /\ order \in [Orders -> OrderRecord] /\ account \in [Accounts -> AccountRecord]
             /\ payments \in [Orders -> Seq(PaymentRow)]
             /\ installments \in [Accounts -> Seq(InstallmentRow)]
             /\ refunds \in [Accounts -> Seq(RefundRow)]
BY DEF TypeOK, OrderRecord, AccountRecord

OrderStep(s, ord, pays) ==
  order' = [order EXCEPT ![s] = ord] /\ payments' = [payments EXCEPT ![s] = pays]
AccountStep(s, acc, insts, refs) ==
  /\ account' = [account EXCEPT ![s] = acc]
  /\ installments' = [installments EXCEPT ![s] = insts]
  /\ refunds' = [refunds EXCEPT ![s] = refs]
StillDay == session' = session /\ sessionOpen' = sessionOpen /\ position' \in Int

LEMMA OrderSale ==
  ASSUME LedgerInv, StillDay, NEW s \in Orders, NEW ord, NEW pays, NEW acc, NEW insts, NEW refs,
         OrderStep(s, ord, pays), AccountStep(s, acc, insts, refs),
         ord \in OrderRecord, pays \in Seq(PaymentRow), acc \in AccountRecord,
         insts \in Seq(InstallmentRow), refs \in Seq(RefundRow),
         OrderFits(ord, pays, acc, insts, refs), AccountFits(insts, refs)
  PROVE  LedgerInv'
<1>1. s \in Accounts /\ \A o \in Orders : o \in Accounts
  BY DEF Accounts
<1>2. /\ session \in 0..MaxSessions /\ sessionOpen \in BOOLEAN
      /\ order \in [Orders -> OrderRecord] /\ account \in [Accounts -> AccountRecord]
      /\ payments \in [Orders -> Seq(PaymentRow)]
      /\ installments \in [Accounts -> Seq(InstallmentRow)]
      /\ refunds \in [Accounts -> Seq(RefundRow)]
  BY Tables DEF LedgerInv
<1>3. /\ order' \in [Orders -> OrderRecord'] /\ account' \in [Accounts -> AccountRecord']
      /\ payments' \in [Orders -> Seq(PaymentRow')]
      /\ installments' \in [Accounts -> Seq(InstallmentRow')]
      /\ refunds' \in [Accounts -> Seq(RefundRow')]
  BY <1>1, <1>2, SameRows DEF StillDay, OrderStep, AccountStep
<1>4. TypeOK'
  BY <1>2, <1>3, Tables DEF StillDay, TypeOK, OrderRecord, AccountRecord
<1>5. \A o \in Orders : OrderFits(order'[o], payments'[o], account'[o], installments'[o], refunds'[o])
  <2>1. \A o \in Orders : OrderFits(order[o], payments[o], account[o], installments[o], refunds[o])
    BY DEF LedgerInv
  <2>2. ASSUME NEW o \in Orders, o # s
        PROVE  /\ order'[o] = order[o] /\ payments'[o] = payments[o] /\ account'[o] = account[o]
               /\ installments'[o] = installments[o] /\ refunds'[o] = refunds[o]
    BY <1>1, <1>2, <2>2 DEF OrderStep, AccountStep
  <2>3. /\ order'[s] = ord /\ payments'[s] = pays /\ account'[s] = acc
        /\ installments'[s] = insts /\ refunds'[s] = refs
    BY <1>1, <1>2 DEF OrderStep, AccountStep
  <2> QED  BY <2>1, <2>2, <2>3
<1>6. \A a \in Accounts : AccountFits(installments'[a], refunds'[a])
  <2>1. \A a \in Accounts : AccountFits(installments[a], refunds[a])
    BY DEF LedgerInv
  <2>2. ASSUME NEW a \in Accounts, a # s
        PROVE  installments'[a] = installments[a] /\ refunds'[a] = refunds[a]
    BY <1>1, <1>2, <2>2 DEF AccountStep
  <2>3. installments'[s] = insts /\ refunds'[s] = refs
    BY <1>1, <1>2 DEF AccountStep
  <2> QED  BY <2>1, <2>2, <2>3
<1>7. (sessionOpen => session >= 1)'
  BY DEF LedgerInv, StillDay
<1> QED  BY <1>4, <1>5, <1>6, <1>7 DEF LedgerInv

LEMMA DirectSale ==
  ASSUME LedgerInv, StillDay, NEW s \in Direct, NEW acc, NEW insts, NEW refs,
         order' = order, payments' = payments, AccountStep(s, acc, insts, refs),
         acc \in AccountRecord, insts \in Seq(InstallmentRow), refs \in Seq(RefundRow),
         AccountFits(insts, refs)
  PROVE  LedgerInv'
<1>1. s \in Accounts /\ \A o \in Orders : o \in Accounts /\ o # s
  BY Livro_Rows DEF Accounts
<1>2. /\ session \in 0..MaxSessions /\ sessionOpen \in BOOLEAN
      /\ order \in [Orders -> OrderRecord] /\ account \in [Accounts -> AccountRecord]
      /\ payments \in [Orders -> Seq(PaymentRow)]
      /\ installments \in [Accounts -> Seq(InstallmentRow)]
      /\ refunds \in [Accounts -> Seq(RefundRow)]
  BY Tables DEF LedgerInv
<1>3. /\ order' \in [Orders -> OrderRecord'] /\ account' \in [Accounts -> AccountRecord']
      /\ payments' \in [Orders -> Seq(PaymentRow')]
      /\ installments' \in [Accounts -> Seq(InstallmentRow')]
      /\ refunds' \in [Accounts -> Seq(RefundRow')]
  BY <1>1, <1>2, SameRows DEF StillDay, AccountStep
<1>4. TypeOK'
  BY <1>2, <1>3, Tables DEF StillDay, TypeOK, OrderRecord, AccountRecord
<1>5. \A o \in Orders : OrderFits(order'[o], payments'[o], account'[o], installments'[o], refunds'[o])
  <2>1. \A o \in Orders : OrderFits(order[o], payments[o], account[o], installments[o], refunds[o])
    BY DEF LedgerInv
  <2>2. \A o \in Orders : /\ account'[o] = account[o]
                          /\ installments'[o] = installments[o] /\ refunds'[o] = refunds[o]
    BY <1>1, <1>2 DEF AccountStep
  <2> QED  BY <2>1, <2>2
<1>6. \A a \in Accounts : AccountFits(installments'[a], refunds'[a])
  <2>1. \A a \in Accounts : AccountFits(installments[a], refunds[a])
    BY DEF LedgerInv
  <2>2. ASSUME NEW a \in Accounts, a # s
        PROVE  installments'[a] = installments[a] /\ refunds'[a] = refunds[a]
    BY <1>1, <1>2, <2>2 DEF AccountStep
  <2>3. installments'[s] = insts /\ refunds'[s] = refs
    BY <1>1, <1>2 DEF AccountStep
  <2> QED  BY <2>1, <2>2, <2>3
<1>7. (sessionOpen => session >= 1)'
  BY DEF LedgerInv, StillDay
<1> QED  BY <1>4, <1>5, <1>6, <1>7 DEF LedgerInv

-----------------------------------------------------------------------------
(* The rows of all sales.                                                  *)

PairRows(A, t) == UNION {{<<a, i>> : i \in DOMAIN t[a]} : a \in A}

LEMMA FinitePairs ==
  ASSUME NEW A, IsFiniteSet(A), NEW t, \A a \in A : \E n \in Nat : DOMAIN t[a] = 1..n
  PROVE  /\ IsFiniteSet(PairRows(A, t))
         /\ \A r \in PairRows(A, t) :
              r[1] \in A /\ r[2] \in DOMAIN t[r[1]] /\ r = <<r[1], r[2]>>
         /\ \A a \in A : \A i \in DOMAIN t[a] : <<a, i>> \in PairRows(A, t)
<1> DEFINE Row(a) == {<<a, i>> : i \in DOMAIN t[a]}
           Rows == {Row(a) : a \in A}
           F == [a \in A |-> Row(a)]
<1>1. F \in Surjection(A, Rows)
  BY DEF Surjection
<1>2. IsFiniteSet(Rows)
  <2> HIDE DEF F, Rows
  <2> QED  BY <1>1, FS_Surjection
<1>3. ASSUME NEW R \in Rows PROVE IsFiniteSet(R)
  <2>1. PICK a \in A : R = Row(a)
    BY <1>3
  <2>2. PICK n \in Nat : DOMAIN t[a] = 1..n
    OBVIOUS
  <2>3. IsFiniteSet(1..n)
    BY FS_Interval
  <2> DEFINE B == [i \in 1..n |-> <<a, i>>]
  <2>4. B \in Surjection(1..n, R)
    BY <2>1, <2>2 DEF Surjection
  <2> HIDE DEF B
  <2> QED  BY <2>3, <2>4, FS_Surjection
<1>4. PairRows(A, t) = UNION Rows
  BY DEF PairRows
<1>5. IsFiniteSet(PairRows(A, t))
  <2> HIDE DEF Rows
  <2> QED  BY <1>2, <1>3, <1>4, FS_UNION
<1>6. \A r \in PairRows(A, t) : r[1] \in A /\ r[2] \in DOMAIN t[r[1]] /\ r = <<r[1], r[2]>>
  BY DEF PairRows
<1>7. \A a \in A : \A i \in DOMAIN t[a] : <<a, i>> \in PairRows(A, t)
  BY DEF PairRows
<1> QED  BY <1>5, <1>6, <1>7

LEMMA AllRows ==
  ASSUME TypeOK
  PROVE  /\ IsFiniteSet(OrderRows) /\ IsFiniteSet(InstallmentRows) /\ IsFiniteSet(RefundRows)
         /\ \A r \in OrderRows : /\ r[1] \in Orders /\ r[2] \in DOMAIN payments[r[1]]
                                 /\ PaymentAt(r) \in PaymentRow /\ r = <<r[1], r[2]>>
         /\ \A r \in InstallmentRows : /\ r[1] \in Accounts /\ r[2] \in DOMAIN installments[r[1]]
                                       /\ InstallmentAt(r) \in InstallmentRow /\ r = <<r[1], r[2]>>
         /\ \A r \in RefundRows : /\ r[1] \in Accounts /\ r[2] \in DOMAIN refunds[r[1]]
                                  /\ RefundAt(r) \in RefundRow /\ r = <<r[1], r[2]>>
         /\ \A o \in Orders : \A i \in DOMAIN payments[o] : <<o, i>> \in OrderRows
         /\ \A a \in Accounts : \A i \in DOMAIN installments[a] : <<a, i>> \in InstallmentRows
         /\ \A a \in Accounts : \A i \in DOMAIN refunds[a] : <<a, i>> \in RefundRows
<1>1. /\ OrderRows = PairRows(Orders, payments)
      /\ InstallmentRows = PairRows(Accounts, installments)
      /\ RefundRows = PairRows(Accounts, refunds)
  BY DEF OrderRows, InstallmentRows, RefundRows, PairRows
<1>2. IsFiniteSet(Orders) /\ IsFiniteSet(Accounts)
  BY Livro_Rows, FS_Union DEF Accounts
<1>3. /\ \A o \in Orders : payments[o] \in Seq(PaymentRow)
      /\ \A a \in Accounts : installments[a] \in Seq(InstallmentRow) /\ refunds[a] \in Seq(RefundRow)
  BY Tables
<1>4. /\ \A o \in Orders : \E n \in Nat : DOMAIN payments[o] = 1..n
      /\ \A a \in Accounts : \E n \in Nat : DOMAIN installments[a] = 1..n
      /\ \A a \in Accounts : \E n \in Nat : DOMAIN refunds[a] = 1..n
  BY <1>3, SeqFacts
<1>5. /\ \A o \in Orders : \A i \in DOMAIN payments[o] : payments[o][i] \in PaymentRow
      /\ \A a \in Accounts : \A i \in DOMAIN installments[a] : installments[a][i] \in InstallmentRow
      /\ \A a \in Accounts : \A i \in DOMAIN refunds[a] : refunds[a][i] \in RefundRow
  BY <1>3, SeqFacts
<1>6. /\ IsFiniteSet(OrderRows)
      /\ \A r \in OrderRows : r[1] \in Orders /\ r[2] \in DOMAIN payments[r[1]] /\ r = <<r[1], r[2]>>
      /\ \A o \in Orders : \A i \in DOMAIN payments[o] : <<o, i>> \in OrderRows
  BY <1>1, <1>2, <1>4, FinitePairs
<1>7. /\ IsFiniteSet(InstallmentRows)
      /\ \A r \in InstallmentRows :
           r[1] \in Accounts /\ r[2] \in DOMAIN installments[r[1]] /\ r = <<r[1], r[2]>>
      /\ \A a \in Accounts : \A i \in DOMAIN installments[a] : <<a, i>> \in InstallmentRows
  BY <1>1, <1>2, <1>4, FinitePairs
<1>8. /\ IsFiniteSet(RefundRows)
      /\ \A r \in RefundRows : r[1] \in Accounts /\ r[2] \in DOMAIN refunds[r[1]] /\ r = <<r[1], r[2]>>
      /\ \A a \in Accounts : \A i \in DOMAIN refunds[a] : <<a, i>> \in RefundRows
  BY <1>1, <1>2, <1>4, FinitePairs
<1> QED  BY <1>5, <1>6, <1>7, <1>8 DEF PaymentAt, InstallmentAt, RefundAt

(* What the close of a session adds to the position is a number.           *)
LEMMA ReceivedIsANumber ==
  ASSUME TypeOK, NEW T
  PROVE  GrossReceived(T) \in Nat /\ CardFees(T) \in Nat
<1> DEFINE D == DirectPayments(T)  I == InstallmentsIn(T)
<1>1. IsFiniteSet(D) /\ IsFiniteSet(I)
  <2>1. D \in SUBSET OrderRows /\ I \in SUBSET InstallmentRows
    BY DEF DirectPayments, InstallmentsIn
  <2> QED  BY <2>1, AllRows, FS_Subset
<1>2. /\ \A r \in D : PaymentAt(r) \in PaymentRow
      /\ \A r \in I : InstallmentAt(r) \in InstallmentRow
  BY AllRows DEF DirectPayments, InstallmentsIn
<1>3. /\ \A r \in D : Gross(PaymentAt(r)) \in Nat /\ Fee(PaymentAt(r)) \in Nat
      /\ \A r \in I : Gross(InstallmentAt(r)) \in Nat /\ Fee(InstallmentAt(r)) \in Nat
  BY <1>2, RowTypes DEF Gross, Fee
<1> HIDE DEF D, I
<1>4. /\ [r \in D |-> Gross(PaymentAt(r))] \in [D -> Nat] /\ [r \in D |-> Fee(PaymentAt(r))] \in [D -> Nat]
      /\ [r \in I |-> Gross(InstallmentAt(r))] \in [I -> Nat]
      /\ [r \in I |-> Fee(InstallmentAt(r))] \in [I -> Nat]
  BY <1>3
<1>5. /\ SumF([r \in D |-> Gross(PaymentAt(r))]) \in Nat /\ SumF([r \in D |-> Fee(PaymentAt(r))]) \in Nat
      /\ SumF([r \in I |-> Gross(InstallmentAt(r))]) \in Nat
      /\ SumF([r \in I |-> Fee(InstallmentAt(r))]) \in Nat
  BY <1>1, <1>4, SumType
<1> QED  BY <1>5 DEF GrossReceived, CardFees, D, I

LEMMA OpenSessionKeeps ==
  ASSUME LedgerInv, OpenSession
  PROVE  LedgerInv'
<1>1. /\ session' = session + 1 /\ session < MaxSessions /\ sessionOpen' = TRUE
      /\ UNCHANGED <<order, payments, account, installments, refunds, position>>
  BY DEF OpenSession
<1>2. /\ session \in 0..MaxSessions /\ position \in Int
      /\ order \in [Orders -> OrderRecord] /\ account \in [Accounts -> AccountRecord]
      /\ payments \in [Orders -> Seq(PaymentRow)]
      /\ installments \in [Accounts -> Seq(InstallmentRow)]
      /\ refunds \in [Accounts -> Seq(RefundRow)]
  BY Tables DEF LedgerInv
<1>3. MaxSessions \in Nat
  BY Livro_Bounds
<1>4. /\ \A r \in PaymentRow : r \in PaymentRow'
      /\ \A r \in InstallmentRow : r \in InstallmentRow'
      /\ \A r \in RefundRow : r \in RefundRow'
      /\ \A r \in OrderRecord : r \in OrderRecord'
      /\ \A r \in AccountRecord : r \in AccountRecord'
  BY <1>1, <1>2, <1>3 DEF PaymentRow, InstallmentRow, RefundRow, OrderRecord, AccountRecord
<1>5. /\ \A s \in Seq(PaymentRow) : s \in Seq(PaymentRow')
      /\ \A s \in Seq(InstallmentRow) : s \in Seq(InstallmentRow')
      /\ \A s \in Seq(RefundRow) : s \in Seq(RefundRow')
  <2>1. ASSUME NEW A, NEW B, \A r \in A : r \in B, NEW s \in Seq(A) PROVE s \in Seq(B)
    BY <2>1
  <2>2. ASSUME NEW s \in Seq(PaymentRow) PROVE s \in Seq(PaymentRow')
    BY <1>4, <2>1, <2>2
  <2>3. ASSUME NEW s \in Seq(InstallmentRow) PROVE s \in Seq(InstallmentRow')
    BY <1>4, <2>1, <2>3
  <2>4. ASSUME NEW s \in Seq(RefundRow) PROVE s \in Seq(RefundRow')
    BY <1>4, <2>1, <2>4
  <2> QED  BY <2>2, <2>3, <2>4
<1>6. /\ session' \in 0..MaxSessions /\ sessionOpen' \in BOOLEAN /\ position' \in Int
      /\ order' \in [Orders -> OrderRecord'] /\ account' \in [Accounts -> AccountRecord']
      /\ payments' \in [Orders -> Seq(PaymentRow')]
      /\ installments' \in [Accounts -> Seq(InstallmentRow')]
      /\ refunds' \in [Accounts -> Seq(RefundRow')]
  <2>1. session' \in 0..MaxSessions /\ sessionOpen' \in BOOLEAN /\ position' \in Int
    BY <1>1, <1>2, <1>3
  <2>2. order' \in [Orders -> OrderRecord'] /\ account' \in [Accounts -> AccountRecord']
    BY <1>1, <1>2, <1>4
  <2>3. /\ payments' \in [Orders -> Seq(PaymentRow')]
        /\ installments' \in [Accounts -> Seq(InstallmentRow')]
        /\ refunds' \in [Accounts -> Seq(RefundRow')]
    BY <1>1, <1>2, <1>5
  <2> QED  BY <2>1, <2>2, <2>3
<1>7. TypeOK'
  BY <1>6 DEF TypeOK, OrderRecord, AccountRecord
<1> QED  BY <1>1, <1>2, <1>7 DEF LedgerInv

LEMMA CloseSessionKeeps ==
  ASSUME LedgerInv, CloseSession
  PROVE  LedgerInv'
<1>1. /\ sessionOpen' = FALSE
      /\ position' = position + GrossReceived({session}) - CardFees({session})
      /\ UNCHANGED <<session, order, payments, account, installments, refunds>>
  BY DEF CloseSession
<1>2. /\ session \in 0..MaxSessions /\ position \in Int /\ TypeOK
      /\ order \in [Orders -> OrderRecord] /\ account \in [Accounts -> AccountRecord]
      /\ payments \in [Orders -> Seq(PaymentRow)]
      /\ installments \in [Accounts -> Seq(InstallmentRow)]
      /\ refunds \in [Accounts -> Seq(RefundRow)]
  BY Tables DEF LedgerInv
<1>3. position' \in Int
  BY <1>1, <1>2, ReceivedIsANumber
<1>4. TypeOK'
  <2>1. /\ session' \in 0..MaxSessions /\ sessionOpen' \in BOOLEAN /\ position' \in Int
        /\ order' \in [Orders -> OrderRecord'] /\ account' \in [Accounts -> AccountRecord']
        /\ payments' \in [Orders -> Seq(PaymentRow')]
        /\ installments' \in [Accounts -> Seq(InstallmentRow')]
        /\ refunds' \in [Accounts -> Seq(RefundRow')]
    BY <1>1, <1>2, <1>3, SameRows
  <2> QED  BY <2>1 DEF TypeOK, OrderRecord, AccountRecord
<1> QED  BY <1>1, <1>4 DEF LedgerInv

-----------------------------------------------------------------------------
(* Handlers that take money.                                               *)

LEMMA SaleFacts ==
  ASSUME LedgerInv, NEW o \in Orders
  PROVE  /\ o \in Accounts /\ order[o] \in OrderRecord /\ payments[o] \in Seq(PaymentRow)
         /\ account[o] \in AccountRecord /\ installments[o] \in Seq(InstallmentRow)
         /\ refunds[o] \in Seq(RefundRow)
         /\ OrderFits(order[o], payments[o], account[o], installments[o], refunds[o])
         /\ AccountFits(installments[o], refunds[o])
<1>1. o \in Accounts
  BY DEF Accounts
<1> QED  BY <1>1, Tables DEF LedgerInv

LEMMA AccountFacts ==
  ASSUME LedgerInv, NEW a \in Accounts
  PROVE  /\ account[a] \in AccountRecord /\ installments[a] \in Seq(InstallmentRow)
         /\ refunds[a] \in Seq(RefundRow) /\ AccountFits(installments[a], refunds[a])
BY Tables DEF LedgerInv

LEMMA DayFacts ==
  ASSUME LedgerInv
  PROVE  /\ session \in Nat /\ session \in 0..MaxSessions /\ position \in Int
         /\ sessionOpen => session >= 1 /\ session \in 1..session
<1>1. session \in 0..MaxSessions /\ position \in Int /\ (sessionOpen => session >= 1)
  BY Tables DEF LedgerInv
<1> QED  BY <1>1

(* What a handler leaves as it is.                                         *)
LEMMA Unchanged ==
  ASSUME LedgerInv
  PROVE  /\ \A o \in Orders :
              /\ order' = order => order' = [order EXCEPT ![o] = order[o]]
              /\ payments' = payments => payments' = [payments EXCEPT ![o] = payments[o]]
         /\ \A a \in Accounts :
              /\ account' = account => account' = [account EXCEPT ![a] = account[a]]
              /\ installments' = installments =>
                   installments' = [installments EXCEPT ![a] = installments[a]]
              /\ refunds' = refunds => refunds' = [refunds EXCEPT ![a] = refunds[a]]
<1>1. /\ order \in [Orders -> OrderRecord] /\ account \in [Accounts -> AccountRecord]
      /\ payments \in [Orders -> Seq(PaymentRow)]
      /\ installments \in [Accounts -> Seq(InstallmentRow)]
      /\ refunds \in [Accounts -> Seq(RefundRow)]
  BY Tables DEF LedgerInv
<1> QED  BY <1>1

LEMMA NatProduct ==
  ASSUME NEW a \in Nat, NEW b \in Nat
  PROVE  a * b \in Nat
OBVIOUS

(* The columns of a comanda, and what the handlers write in them.          *)
SameSale(u, r) == u.fiado = r.fiado /\ u.estorno = r.estorno
LEMMA OrderFields ==
  ASSUME NEW r \in OrderRecord
  PROVE  /\ r.pieces \in Nat /\ r.pieces \in 0..MaxPieces /\ r.total \in Nat /\ r.refunded \in Nat
         /\ r.status \in {"nenhuma", "aberta", "finalizada", "cancelada"}
         /\ r.fiado \in BOOLEAN /\ r.estorno \in BOOLEAN
BY Livro_Bounds DEF OrderRecord
LEMMA OrderUpdates ==
  ASSUME NEW r \in OrderRecord, session \in Nat
  PROVE  /\ LET u == [r EXCEPT !.status = "aberta"]
            IN u \in OrderRecord /\ SameSale(u, r) /\ u.status = "aberta" /\ u.pieces = r.pieces
         /\ r.pieces < MaxPieces =>
              LET u == [r EXCEPT !.pieces = @ + 1, !.total = @ + Price]
              IN /\ u \in OrderRecord /\ SameSale(u, r) /\ u.status = r.status
                 /\ u.pieces = r.pieces + 1 /\ u.total = r.total + Price
         /\ LET u == [r EXCEPT !.status = "finalizada", !.closedIn = session]
            IN u \in OrderRecord /\ SameSale(u, r) /\ u.status = "finalizada" /\ u.pieces = r.pieces
         /\ LET u == [r EXCEPT !.status = "finalizada", !.fiado = TRUE, !.closedIn = session]
            IN /\ u \in OrderRecord /\ u.estorno = r.estorno /\ u.fiado /\ u.status = "finalizada"
               /\ u.pieces = r.pieces
         /\ LET u == [r EXCEPT !.estorno = TRUE]
            IN u \in OrderRecord /\ u.estorno /\ u.fiado = r.fiado /\ u.status = r.status
         /\ LET u == [r EXCEPT !.status = "cancelada", !.total = 0]
            IN u \in OrderRecord /\ SameSale(u, r) /\ u.status = "cancelada"
         /\ LET u == [r EXCEPT !.status = "cancelada"]
            IN u \in OrderRecord /\ SameSale(u, r) /\ u.status = "cancelada"
<1>1. /\ Price \in Nat /\ MaxPieces \in Nat
  BY Livro_Amounts, Livro_Bounds
<1>12. /\ r.pieces < MaxPieces => r.pieces + 1 \in 0..MaxPieces
       /\ r.total + Price \in Nat /\ session \in 0..session
       /\ \A n \in Nat : r.refunded + n \in Nat
  BY <1>1, OrderFields
<1> USE <1>12 DEF SameSale, OrderRecord
<1>3. LET u == [r EXCEPT !.status = "aberta"]
      IN u \in OrderRecord /\ SameSale(u, r) /\ u.status = "aberta" /\ u.pieces = r.pieces
  OBVIOUS
<1>4. r.pieces < MaxPieces =>
        LET u == [r EXCEPT !.pieces = @ + 1, !.total = @ + Price]
        IN /\ u \in OrderRecord /\ SameSale(u, r) /\ u.status = r.status
           /\ u.pieces = r.pieces + 1 /\ u.total = r.total + Price
  BY <1>1
<1>5. LET u == [r EXCEPT !.status = "finalizada", !.closedIn = session]
      IN u \in OrderRecord /\ SameSale(u, r) /\ u.status = "finalizada" /\ u.pieces = r.pieces
  OBVIOUS
<1>6. LET u == [r EXCEPT !.status = "finalizada", !.fiado = TRUE, !.closedIn = session]
      IN /\ u \in OrderRecord /\ u.estorno = r.estorno /\ u.fiado /\ u.status = "finalizada"
         /\ u.pieces = r.pieces
  OBVIOUS
<1>7. LET u == [r EXCEPT !.estorno = TRUE]
      IN u \in OrderRecord /\ u.estorno /\ u.fiado = r.fiado /\ u.status = r.status
  OBVIOUS
<1>8. LET u == [r EXCEPT !.status = "cancelada", !.total = 0]
      IN u \in OrderRecord /\ SameSale(u, r) /\ u.status = "cancelada"
  OBVIOUS
<1>9. LET u == [r EXCEPT !.status = "cancelada"]
      IN u \in OrderRecord /\ SameSale(u, r) /\ u.status = "cancelada"
  OBVIOUS
<1> QED  BY <1>3, <1>4, <1>5, <1>6, <1>7, <1>8, <1>9

LEMMA PercentNat ==
  ASSUME NEW base \in Nat, NEW pct \in Nat
  PROVE  PercentOf(base, pct) \in Nat
BY NatProduct, HalfUpNat DEF PercentOf

LEMMA ChargeNat ==
  ASSUME NEW base \in Nat, NEW charge \in Charges
  PROVE  Charge(base, charge) \in Nat
<1>1. charge \in {"sem", "taxa", "gorjeta"} /\ Tip \in Nat /\ ServicePct \in Nat
  BY Livro_Amounts
<1>2. PercentOf(base, ServicePct) \in Nat
  BY <1>1, PercentNat
<1> QED  BY <1>1, <1>2 DEF Charge

LEMMA ProductInside ==
  ASSUME NEW amount \in Nat, NEW charge \in Charges, charge = "gorjeta" => Tip < amount
  PROVE  ProductWithin(amount, charge) \in 0..amount
<1>1. charge \in {"sem", "taxa", "gorjeta"} /\ Tip \in Nat /\ ServicePct \in Nat
  BY Livro_Amounts
<1>2. WithoutPercent(amount, ServicePct) \in 0..amount
  BY <1>1, ProductWithinAmount
<1> QED  BY <1>1, <1>2 DEF ProductWithin

LEMMA FeeNat ==
  ASSUME NEW product \in Nat, NEW service \in Nat, NEW m \in Methods
  PROVE  CardFee(product, service, m) \in Nat
<1>1. FeePct[m] \in Nat /\ product + service \in Nat
  BY Livro_Amounts DEF Methods
<1> QED  BY <1>1, PercentNat DEF CardFee

LEMMA PaidRow ==
  ASSUME NEW kind \in {"partial", "final"}, NEW product \in Nat, NEW service \in Nat,
         NEW m \in Methods, NEW n \in 0..MaxPieces, session \in 1..session
  PROVE  LET row == Paid(kind, product, service, m, n)
         IN /\ row \in PaymentRow /\ row.pieces = n /\ row.product = product
            /\ row.service = service
BY FeeNat DEF Paid, PaymentRow

LEMMA NewPayment ==
  ASSUME NEW pays \in Seq(PaymentRow), NEW refs \in Seq(RefundRow), NEW row \in PaymentRow,
         NEW ord, NEW ord2, ord.status = "aberta", ord2.status \in {"aberta", "finalizada"},
         ord2.estorno = ord.estorno,
         NamesFit(ord, pays, refs), PiecesFit(ord, pays, refs), PaymentsCover(pays, refs),
         row.pieces > 0 => row.product = Price * row.pieces,
         ord2.status = "aberta" =>
           SumRows(pays, Pieces) - SumRows(refs, Pieces) + row.pieces <= ord2.pieces
  PROVE  LET q == Append(pays, row)
         IN /\ q \in Seq(PaymentRow) /\ NamesFit(ord2, q, refs)
            /\ PiecesFit(ord2, q, refs) /\ PaymentsCover(q, refs)
            /\ SumRows(q, Product) = SumRows(pays, Product) + row.product
<1> DEFINE q == Append(pays, row)  n == Len(pays)
<1>1. /\ n \in Nat /\ MoneyRows(pays, n) /\ PieceRows(pays) /\ DOMAIN pays = 1..n
  BY PaymentTable
<1>2. q \in Seq(PaymentRow) /\ Joined(pays, n, <<row>>, 1, q)
  BY JoinedRow
<1>3. row.product \in Nat /\ row.service \in Nat /\ row.pieces \in Nat
  BY RowTypes
<1>4. MoneyRows(<<row>>, 1) /\ PieceRows(<<row>>) /\ SumRows(<<row>>, Pieces) = row.pieces
      /\ SumRows(<<row>>, Product) = row.product
  BY <1>3, OneRow
<1>5. Len(q) = n + 1 /\ DOMAIN q = 1..(n + 1) /\ q[n + 1] = row /\ \A p \in 1..n : q[p] = pays[p]
  OBVIOUS
<1> HIDE DEF q, n
<1>6. /\ SumRows(q, Pieces) = SumRows(pays, Pieces) + row.pieces
      /\ SumRows(q, Product) = SumRows(pays, Product) + row.product
  BY <1>1, <1>2, <1>4, JoinedTotals
<1>7. \A i \in DOMAIN refs : refs[i].payment \in 0..n /\ refs[i].payment # 0
  BY DEF NamesFit, n
<1>8. NamesFit(ord2, q, refs)
  BY <1>1, <1>5, <1>7 DEF NamesFit
<1>9. Marked(refs, n + 1) = {}
  BY <1>1, <1>7 DEF Marked
<1>10. /\ SumOf(refs, Marked(refs, n + 1), Product) = 0
       /\ SumOf(refs, Marked(refs, n + 1), Service) = 0
       /\ SumOf(refs, Marked(refs, n + 1), Pieces) = 0
  BY <1>9, NoRows
<1>11. \A p \in DOMAIN q : (p \in DOMAIN pays /\ q[p] = pays[p]) \/ (p = n + 1 /\ q[p] = row)
  BY <1>1, <1>5
<1>12. PaymentsCover(q, refs)
  BY <1>3, <1>10, <1>11 DEF PaymentsCover
<1>13. Price * 0 = 0
  BY Livro_Amounts
<1>14. Partly(ord2) => Partly(ord)
  BY DEF Partly
<1>15. PiecesFit(ord2, q, refs)
  <2>1. ASSUME NEW p \in DOMAIN q, q[p].pieces > 0 PROVE q[p].product = Price * q[p].pieces
    BY <1>11, <2>1 DEF PiecesFit
  <2>2. ASSUME Partly(ord2), NEW p \in DOMAIN q
        PROVE  /\ SumOf(refs, Marked(refs, p), Product) = Price * SumOf(refs, Marked(refs, p), Pieces)
               /\ SumOf(refs, Marked(refs, p), Pieces) <= q[p].pieces
    BY <1>3, <1>10, <1>11, <1>13, <1>14, <2>2 DEF PiecesFit
  <2>3. SumRows(pays, Pieces) \in Nat /\ SumRows(refs, Pieces) \in Nat
    BY PaymentTotals, RefundSums
  <2>4. ord2.status = "aberta" => SumRows(q, Pieces) - SumRows(refs, Pieces) <= ord2.pieces
    BY <1>3, <1>6, <2>3
  <2> QED  BY <2>1, <2>2, <2>4 DEF PiecesFit
<1> QED  BY <1>2, <1>6, <1>8, <1>12, <1>15 DEF q

LEMMA NetPaidFacts ==
  ASSUME LedgerInv, NEW o \in Orders
  PROVE  /\ NetPaid(o, Product) \in Int /\ NetPaid(o, Service) \in Int /\ NetPaid(o, Pieces) \in Int
         /\ NetPaid(o, Gross) = NetPaid(o, Product) + NetPaid(o, Service)
         /\ Remaining(o) \in Nat
<1>1. payments[o] \in Seq(PaymentRow) /\ refunds[o] \in Seq(RefundRow) /\ order[o].total \in Nat
  BY SaleFacts DEF OrderRecord
<1>2. /\ SumRows(payments[o], Product) \in Nat /\ SumRows(payments[o], Service) \in Nat
      /\ SumRows(payments[o], Gross) = SumRows(payments[o], Product) + SumRows(payments[o], Service)
      /\ SumRows(payments[o], Pieces) \in Nat
  BY <1>1, PaymentTotals
<1>3. /\ SumRows(refunds[o], Product) \in Nat /\ SumRows(refunds[o], Service) \in Nat
      /\ SumRows(refunds[o], Pieces) \in Nat
      /\ SumRows(refunds[o], Gross) = SumRows(refunds[o], Product) + SumRows(refunds[o], Service)
  BY <1>1, RefundSums
<1>4. /\ NetPaid(o, Product) = SumRows(payments[o], Product) - SumRows(refunds[o], Product)
      /\ NetPaid(o, Service) = SumRows(payments[o], Service) - SumRows(refunds[o], Service)
      /\ NetPaid(o, Gross) = SumRows(payments[o], Gross) - SumRows(refunds[o], Gross)
      /\ NetPaid(o, Pieces) = SumRows(payments[o], Pieces) - SumRows(refunds[o], Pieces)
  BY DEF NetPaid
<1>5. NetPaid(o, Product) \in Int
  BY <1>2, <1>3, <1>4
<1>6. Remaining(o) \in Nat
  BY <1>1, <1>5 DEF Remaining, NonNegative
<1> QED  BY <1>2, <1>3, <1>4, <1>5, <1>6

LEMMA OpenOrderKeeps ==
  ASSUME LedgerInv, NEW o \in Orders, OpenOrder(o)
  PROVE  LedgerInv'
<1> DEFINE ord == [order[o] EXCEPT !.status = "aberta"]
<1>1. /\ order[o].status = "nenhuma" /\ order' = [order EXCEPT ![o] = ord]
      /\ UNCHANGED <<session, sessionOpen, payments, account, installments, refunds, position>>
  BY DEF OpenOrder
<1>2. /\ o \in Accounts /\ order[o] \in OrderRecord /\ payments[o] \in Seq(PaymentRow)
      /\ account[o] \in AccountRecord /\ installments[o] \in Seq(InstallmentRow)
      /\ refunds[o] \in Seq(RefundRow)
      /\ OrderFits(order[o], payments[o], account[o], installments[o], refunds[o])
      /\ AccountFits(installments[o], refunds[o])
  BY SaleFacts
<1>3. ord \in OrderRecord /\ ord.status = "aberta" /\ ord.fiado = order[o].fiado /\ ord.pieces \in Nat
  <2>1. ord \in OrderRecord /\ SameSale(ord, order[o]) /\ ord.status = "aberta"
    BY <1>2, DayFacts, OrderUpdates
  <2> HIDE DEF ord
  <2> QED  BY <2>1, OrderFields DEF SameSale
<1> HIDE DEF ord
<1>4. payments[o] = << >> /\ refunds[o] = << >> /\ ~order[o].fiado
      /\ account[o].status = "nenhum" /\ installments[o] = << >>
  BY <1>1, <1>2 DEF OrderFits, StatusFits
<1>5. OrderFits(ord, << >>, account[o], installments[o], << >>)
  <2>1. StatusFits(ord, << >>, account[o], installments[o], << >>)
    BY <1>3, <1>4 DEF StatusFits
  <2>2. NamesFit(ord, << >>, << >>) /\ PaymentsCover(<< >>, << >>)
    BY DEF NamesFit, PaymentsCover
  <2>3. PiecesFit(ord, << >>, << >>)
    BY <1>3, EmptyTable DEF PiecesFit
  <2> QED  BY <2>1, <2>2, <2>3 DEF OrderFits
<1>6. StillDay /\ OrderStep(o, ord, payments[o]) /\ AccountStep(o, account[o], installments[o], refunds[o])
  BY <1>1, <1>2, Unchanged, DayFacts DEF StillDay, OrderStep, AccountStep
<1> QED  BY <1>2, <1>3, <1>4, <1>5, <1>6, OrderSale

LEMMA AddPieceKeeps ==
  ASSUME LedgerInv, NEW o \in Orders, AddPiece(o)
  PROVE  LedgerInv'
<1> DEFINE ord == [order[o] EXCEPT !.pieces = @ + 1, !.total = @ + Price]
<1>1. /\ order[o].status = "aberta" /\ order[o].pieces < MaxPieces
      /\ order' = [order EXCEPT ![o] = ord]
      /\ UNCHANGED <<session, sessionOpen, payments, account, installments, refunds, position>>
  BY DEF AddPiece
<1>2. /\ o \in Accounts /\ order[o] \in OrderRecord /\ payments[o] \in Seq(PaymentRow)
      /\ account[o] \in AccountRecord /\ installments[o] \in Seq(InstallmentRow)
      /\ refunds[o] \in Seq(RefundRow)
      /\ OrderFits(order[o], payments[o], account[o], installments[o], refunds[o])
      /\ AccountFits(installments[o], refunds[o])
  BY SaleFacts
<1>3. /\ ord \in OrderRecord /\ ord.status = order[o].status /\ ord.fiado = order[o].fiado
      /\ ord.estorno = order[o].estorno /\ ord.pieces = order[o].pieces + 1 /\ order[o].pieces \in Nat
  <2>1. /\ ord \in OrderRecord /\ SameSale(ord, order[o]) /\ ord.status = order[o].status
        /\ ord.pieces = order[o].pieces + 1
    BY <1>1, <1>2, DayFacts, OrderUpdates
  <2> HIDE DEF ord
  <2> QED  BY <1>2, <2>1, OrderFields DEF SameSale
<1> HIDE DEF ord
<1>4. OrderFits(ord, payments[o], account[o], installments[o], refunds[o])
  <2>1. StatusFits(ord, payments[o], account[o], installments[o], refunds[o])
    BY <1>2, <1>3 DEF OrderFits, StatusFits
  <2>2. NamesFit(ord, payments[o], refunds[o]) /\ PaymentsCover(payments[o], refunds[o])
    BY <1>2, <1>3 DEF OrderFits, NamesFit
  <2>3. SumRows(payments[o], Pieces) \in Nat /\ SumRows(refunds[o], Pieces) \in Nat
    BY <1>2, PaymentTotals, RefundSums
  <2>4. PiecesFit(order[o], payments[o], refunds[o])
    BY <1>2 DEF OrderFits
  <2>5. PiecesFit(ord, payments[o], refunds[o])
    BY <1>3, <2>3, <2>4 DEF PiecesFit, Partly
  <2> QED  BY <2>1, <2>2, <2>5 DEF OrderFits
<1>5. StillDay /\ OrderStep(o, ord, payments[o]) /\ AccountStep(o, account[o], installments[o], refunds[o])
  BY <1>1, <1>2, Unchanged, DayFacts DEF StillDay, OrderStep, AccountStep
<1> QED  BY <1>2, <1>3, <1>4, <1>5, OrderSale

(* A payment of an open comanda, which leaves it open or closes it.        *)
LEMMA PaymentKeeps ==
  ASSUME LedgerInv, NEW o \in Orders, NEW row \in PaymentRow, NEW ord \in OrderRecord,
         order[o].status = "aberta", ord.status \in {"aberta", "finalizada"},
         ord.estorno = order[o].estorno, ord.fiado = order[o].fiado, ord.pieces = order[o].pieces,
         row.pieces > 0 => row.product = Price * row.pieces,
         ord.status = "aberta" => NetPaid(o, Pieces) + row.pieces <= order[o].pieces,
         order' = [order EXCEPT ![o] = ord], payments' = [payments EXCEPT ![o] = Append(@, row)],
         UNCHANGED <<session, sessionOpen, account, installments, refunds, position>>
  PROVE  LedgerInv'
<1> DEFINE q == Append(payments[o], row)
<1>1. /\ o \in Accounts /\ order[o] \in OrderRecord /\ payments[o] \in Seq(PaymentRow)
      /\ account[o] \in AccountRecord /\ installments[o] \in Seq(InstallmentRow)
      /\ refunds[o] \in Seq(RefundRow)
      /\ OrderFits(order[o], payments[o], account[o], installments[o], refunds[o])
      /\ AccountFits(installments[o], refunds[o])
  BY SaleFacts
<1>2. q \in Seq(PaymentRow) /\ NamesFit(ord, q, refunds[o])
      /\ PiecesFit(ord, q, refunds[o]) /\ PaymentsCover(q, refunds[o])
  BY <1>1, NewPayment DEF OrderFits, NetPaid
<1>3. StatusFits(ord, q, account[o], installments[o], refunds[o])
  BY <1>1 DEF OrderFits, StatusFits
<1>4. OrderFits(ord, q, account[o], installments[o], refunds[o])
  BY <1>2, <1>3 DEF OrderFits
<1>5. StillDay /\ OrderStep(o, ord, q) /\ AccountStep(o, account[o], installments[o], refunds[o])
  BY <1>1, Unchanged, DayFacts DEF StillDay, OrderStep, AccountStep
<1> HIDE DEF q
<1> QED  BY <1>1, <1>2, <1>4, <1>5, OrderSale

LEMMA PayPiecesKeeps ==
  ASSUME LedgerInv, NEW o \in Orders, NEW n \in 1..MaxPieces, NEW charge \in Charges,
         NEW m \in Methods, PayPieces(o, n, charge, m)
  PROVE  LedgerInv'
<1> DEFINE row == Paid("partial", Price * n, Charge(Price * n, charge), m, n)
<1>1. /\ sessionOpen /\ order[o].status = "aberta" /\ NetPaid(o, Pieces) + n <= order[o].pieces
      /\ payments' = [payments EXCEPT ![o] = Append(@, row)]
      /\ UNCHANGED <<session, sessionOpen, order, account, installments, refunds, position>>
  BY DEF PayPieces, MayPayPart, Record
<1>2. Price * n \in Nat
  BY Livro_Amounts, Livro_Bounds, NatProduct
<1>3. session \in 1..session /\ n \in 0..MaxPieces
  BY <1>1, DayFacts, Livro_Bounds
<1>4. row \in PaymentRow /\ row.pieces = n /\ row.product = Price * n
  <2>1. Charge(Price * n, charge) \in Nat
    BY <1>2, ChargeNat
  <2> QED  BY <1>2, <1>3, <2>1, PaidRow
<1>5. order[o] \in OrderRecord
  BY SaleFacts
<1>6. order' = [order EXCEPT ![o] = order[o]]
  BY <1>1, Unchanged
<1> HIDE DEF row
<1> QED  BY <1>1, <1>4, <1>5, <1>6, PaymentKeeps

LEMMA PayAmountKeeps ==
  ASSUME LedgerInv, NEW o \in Orders, NEW amount \in PartialAmounts, NEW charge \in Charges,
         NEW m \in Methods, PayAmount(o, amount, charge, m)
  PROVE  LedgerInv'
<1> DEFINE product == ProductWithin(amount, charge)
           row == Paid("partial", product, amount - product, m, 0)
<1>1. /\ sessionOpen /\ order[o].status = "aberta" /\ (charge = "gorjeta" => Tip < amount)
      /\ payments' = [payments EXCEPT ![o] = Append(@, row)]
      /\ UNCHANGED <<session, sessionOpen, order, account, installments, refunds, position>>
  BY DEF PayAmount, MayPayPart, Record
<1>2. amount \in Nat /\ (charge = "gorjeta" => Tip < amount)
  BY <1>1, Livro_Amounts DEF PayAmount
<1>3. product \in Nat /\ amount - product \in Nat
  <2>1. product \in 0..amount
    BY <1>2, ProductInside
  <2> QED  BY <1>2, <2>1
<1>4. session \in 1..session /\ 0 \in 0..MaxPieces
  BY <1>1, DayFacts, Livro_Bounds
<1> HIDE DEF product
<1>5. row \in PaymentRow /\ row.pieces = 0
  BY <1>3, <1>4, PaidRow
<1>6. order[o] \in OrderRecord
  BY SaleFacts
<1>7. order' = [order EXCEPT ![o] = order[o]]
  BY <1>1, Unchanged
<1>8. NetPaid(o, Pieces) + 0 <= order[o].pieces
  <2>1. PiecesFit(order[o], payments[o], refunds[o])
    BY SaleFacts DEF OrderFits
  <2>2. NetPaid(o, Pieces) = SumRows(payments[o], Pieces) - SumRows(refunds[o], Pieces)
    BY DEF NetPaid
  <2>3. NetPaid(o, Pieces) <= order[o].pieces
    BY <1>1, <2>1, <2>2 DEF PiecesFit
  <2>4. NetPaid(o, Pieces) \in Int /\ order[o].pieces \in Nat
    BY <1>6, NetPaidFacts, OrderFields
  <2> QED  BY <2>3, <2>4
<1> HIDE DEF row
<1>9. ~(row.pieces > 0) /\ NetPaid(o, Pieces) + row.pieces <= order[o].pieces
  BY <1>5, <1>8
<1> QED  BY <1>1, <1>5, <1>6, <1>7, <1>9, PaymentKeeps

LEMMA CloseKeeps ==
  ASSUME LedgerInv, NEW o \in Orders, NEW charge \in Charges, NEW m \in Methods, Close(o, charge, m)
  PROVE  LedgerInv'
<1> DEFINE ord == [order[o] EXCEPT !.status = "finalizada", !.closedIn = session]
           product == Remaining(o)
           service == Charge(product, charge)
           row == Paid("final", product, service, m, 0)
<1>1. /\ sessionOpen /\ order[o].status = "aberta" /\ order' = [order EXCEPT ![o] = ord]
      /\ \/ payments' = [payments EXCEPT ![o] = Append(@, row)]
         \/ payments' = payments
      /\ UNCHANGED <<session, sessionOpen, account, installments, refunds, position>>
  BY DEF Close, Record
<1>2. /\ o \in Accounts /\ order[o] \in OrderRecord /\ payments[o] \in Seq(PaymentRow)
      /\ account[o] \in AccountRecord /\ installments[o] \in Seq(InstallmentRow)
      /\ refunds[o] \in Seq(RefundRow)
      /\ OrderFits(order[o], payments[o], account[o], installments[o], refunds[o])
      /\ AccountFits(installments[o], refunds[o])
  BY SaleFacts
<1>3. session \in 1..session /\ session \in Nat /\ 0 \in 0..MaxPieces
  BY <1>1, DayFacts, Livro_Bounds
<1>4. /\ ord \in OrderRecord /\ ord.status = "finalizada" /\ ord.fiado = order[o].fiado
      /\ ord.estorno = order[o].estorno /\ ord.pieces = order[o].pieces
  <2>1. /\ ord \in OrderRecord /\ SameSale(ord, order[o]) /\ ord.status = "finalizada"
        /\ ord.pieces = order[o].pieces
    BY <1>2, DayFacts, OrderUpdates
  <2> HIDE DEF ord
  <2> QED  BY <2>1 DEF SameSale
<1>5. product \in Nat /\ service \in Nat
  <2>1. product \in Nat
    BY NetPaidFacts
  <2> HIDE DEF product
  <2> QED  BY <2>1, ChargeNat
<1> HIDE DEF ord, product, service
<1>6. row \in PaymentRow /\ row.pieces = 0
  BY <1>3, <1>5, PaidRow
<1> HIDE DEF row
<1>7. CASE payments' = [payments EXCEPT ![o] = Append(@, row)]
  <2>1. order[o].status = "aberta" /\ order' = [order EXCEPT ![o] = ord]
        /\ UNCHANGED <<session, sessionOpen, account, installments, refunds, position>>
    BY <1>1
  <2>2. ~(ord.status = "aberta") /\ ~(row.pieces > 0)
    BY <1>4, <1>6
  <2> QED  BY <1>4, <1>6, <1>7, <2>1, <2>2, PaymentKeeps
<1>8. CASE payments' = payments
  <2>1. /\ StatusFits(ord, payments[o], account[o], installments[o], refunds[o])
        /\ NamesFit(ord, payments[o], refunds[o]) /\ PaymentsCover(payments[o], refunds[o])
    BY <1>1, <1>2, <1>4 DEF OrderFits, StatusFits, NamesFit
  <2>2. PiecesFit(ord, payments[o], refunds[o])
    BY <1>1, <1>2, <1>4 DEF OrderFits, PiecesFit, Partly
  <2>3. OrderFits(ord, payments[o], account[o], installments[o], refunds[o])
    BY <2>1, <2>2 DEF OrderFits
  <2>4. StillDay /\ OrderStep(o, ord, payments[o])
        /\ AccountStep(o, account[o], installments[o], refunds[o])
    BY <1>1, <1>2, <1>8, Unchanged, DayFacts DEF StillDay, OrderStep, AccountStep
  <2> QED  BY <1>2, <1>4, <2>3, <2>4, OrderSale
<1> QED  BY <1>1, <1>7, <1>8

-----------------------------------------------------------------------------
(* Fiado.                                                                  *)

(* Refunds grouped by the payment they name.                               *)
NamingRows(rows, m, n, c) ==
  /\ DOMAIN rows = 1..m /\ c \in [1..m -> Nat]
  /\ \A i \in 1..m : rows[i].payment \in 1..n
Groups(rows, n, c) == [p \in 1..n |-> SumOn(c, Marked(rows, p))]

LEMMA GroupedColumn ==
  ASSUME NEW m \in Nat, NEW n \in Nat, NEW rows, NEW c,
         NamingRows(rows, m, n, c)
  PROVE  /\ Groups(rows, n, c) \in [1..n -> Nat]
         /\ SumF(Groups(rows, n, c)) = SumOn(c, DOMAIN rows)
<1> DEFINE D == 1..m  P == 1..n  h == [i \in D |-> rows[i].payment]
<1>1. IsFiniteSet(D) /\ IsFiniteSet(P)
  BY FS_Interval
<1>2. h \in [D -> P]
  BY DEF NamingRows
<1>3. \A p \in P : Marked(rows, p) = GroupOf(h, D, p)
  BY DEF Marked, GroupOf, NamingRows
<1>4. c \in [D -> Nat]
  BY DEF NamingRows
<1> HIDE DEF D, P, h
<1>5. GroupSums(h, c, D, P) \in [P -> Nat] /\ SumF(GroupSums(h, c, D, P)) = SumF(c)
  BY <1>1, <1>2, <1>4, SumPartition
<1>6. Groups(rows, n, c) = GroupSums(h, c, D, P)
  BY <1>3 DEF Groups, GroupSums, P
<1>7. SumOn(c, DOMAIN rows) = SumF(c)
  BY <1>4, SumOnLaws DEF D, NamingRows
<1>8. Groups(rows, n, c) \in [1..n -> Nat]
  BY <1>5, <1>6 DEF P
<1> QED  BY <1>5, <1>6, <1>7, <1>8

LEMMA RefundGroups ==
  ASSUME NEW refs \in Seq(RefundRow), NEW n \in Nat, \A i \in DOMAIN refs : refs[i].payment \in 1..n
  PROVE  /\ Groups(refs, n, ProductOf(refs)) \in [1..n -> Nat]
         /\ Groups(refs, n, ServiceOf(refs)) \in [1..n -> Nat]
         /\ Groups(refs, n, PiecesOf(refs)) \in [1..n -> Nat]
         /\ SumF(Groups(refs, n, ProductOf(refs))) = SumRows(refs, Product)
         /\ SumF(Groups(refs, n, ServiceOf(refs))) = SumRows(refs, Service)
         /\ SumF(Groups(refs, n, PiecesOf(refs))) = SumRows(refs, Pieces)
         /\ \A p \in 1..n :
              /\ Groups(refs, n, ProductOf(refs))[p] = SumOf(refs, Marked(refs, p), Product)
              /\ Groups(refs, n, ServiceOf(refs))[p] = SumOf(refs, Marked(refs, p), Service)
              /\ Groups(refs, n, PiecesOf(refs))[p] = SumOf(refs, Marked(refs, p), Pieces)
<1> DEFINE m == Len(refs)
<1>1. m \in Nat /\ MoneyRows(refs, m) /\ PieceRows(refs) /\ DOMAIN refs = 1..m
  BY RefundTable
<1> HIDE DEF m
<1>2. /\ ProductOf(refs) \in [1..m -> Nat] /\ ServiceOf(refs) \in [1..m -> Nat]
      /\ PiecesOf(refs) \in [1..m -> Nat]
  BY <1>1, ColumnTypes
<1>3. /\ NamingRows(refs, m, n, ProductOf(refs)) /\ NamingRows(refs, m, n, ServiceOf(refs))
      /\ NamingRows(refs, m, n, PiecesOf(refs))
  BY <1>1, <1>2 DEF NamingRows
<1>4. /\ Groups(refs, n, ProductOf(refs)) \in [1..n -> Nat]
      /\ Groups(refs, n, ServiceOf(refs)) \in [1..n -> Nat]
      /\ Groups(refs, n, PiecesOf(refs)) \in [1..n -> Nat]
      /\ SumF(Groups(refs, n, ProductOf(refs))) = SumOn(ProductOf(refs), DOMAIN refs)
      /\ SumF(Groups(refs, n, ServiceOf(refs))) = SumOn(ServiceOf(refs), DOMAIN refs)
      /\ SumF(Groups(refs, n, PiecesOf(refs))) = SumOn(PiecesOf(refs), DOMAIN refs)
  <2>1. /\ Groups(refs, n, ProductOf(refs)) \in [1..n -> Nat]
        /\ SumF(Groups(refs, n, ProductOf(refs))) = SumOn(ProductOf(refs), DOMAIN refs)
    <3>1. NamingRows(refs, m, n, ProductOf(refs)) /\ m \in Nat
      BY <1>1, <1>3
    <3> QED  BY ONLY <3>1, n \in Nat, GroupedColumn
  <2>2. /\ Groups(refs, n, ServiceOf(refs)) \in [1..n -> Nat]
        /\ SumF(Groups(refs, n, ServiceOf(refs))) = SumOn(ServiceOf(refs), DOMAIN refs)
    <3>1. NamingRows(refs, m, n, ServiceOf(refs)) /\ m \in Nat
      BY <1>1, <1>3
    <3> QED  BY ONLY <3>1, n \in Nat, GroupedColumn
  <2>3. /\ Groups(refs, n, PiecesOf(refs)) \in [1..n -> Nat]
        /\ SumF(Groups(refs, n, PiecesOf(refs))) = SumOn(PiecesOf(refs), DOMAIN refs)
    <3>1. NamingRows(refs, m, n, PiecesOf(refs)) /\ m \in Nat
      BY <1>1, <1>3
    <3> QED  BY ONLY <3>1, n \in Nat, GroupedColumn
  <2> QED  BY <2>1, <2>2, <2>3
<1>5. \A p \in 1..n : \A i \in Marked(refs, p) : i \in DOMAIN refs
  BY DEF Marked
<1>6. \A p \in 1..n :
        /\ Groups(refs, n, ProductOf(refs))[p] = SumOf(refs, Marked(refs, p), Product)
        /\ Groups(refs, n, ServiceOf(refs))[p] = SumOf(refs, Marked(refs, p), Service)
        /\ Groups(refs, n, PiecesOf(refs))[p] = SumOf(refs, Marked(refs, p), Pieces)
  BY <1>5, ColumnSums DEF Groups
<1> QED  BY <1>4, <1>6, ColumnTotals

(* While a comanda is open it has given back no more than it took.         *)
LEMMA OpenCoversItsRefunds ==
  ASSUME NEW pays \in Seq(PaymentRow), NEW refs \in Seq(RefundRow), NEW ord,
         ord.status = "aberta", NamesFit(ord, pays, refs), PaymentsCover(pays, refs)
  PROVE  /\ SumRows(refs, Product) <= SumRows(pays, Product)
         /\ SumRows(refs, Service) <= SumRows(pays, Service)
<1> DEFINE n == Len(pays)
           gp == Groups(refs, n, ProductOf(refs))
           gs == Groups(refs, n, ServiceOf(refs))
<1>1. n \in Nat /\ MoneyRows(pays, n) /\ DOMAIN pays = 1..n
  BY PaymentTable
<1>2. \A i \in DOMAIN refs : refs[i].payment \in 1..n
  BY <1>1 DEF NamesFit
<1> HIDE DEF n
<1>3. /\ gp \in [1..n -> Nat] /\ gs \in [1..n -> Nat]
      /\ SumF(gp) = SumRows(refs, Product) /\ SumF(gs) = SumRows(refs, Service)
      /\ \A p \in 1..n : /\ gp[p] = SumOf(refs, Marked(refs, p), Product)
                         /\ gs[p] = SumOf(refs, Marked(refs, p), Service)
  BY <1>1, <1>2, RefundGroups
<1> HIDE DEF gp, gs
<1>4. /\ ProductOf(pays) \in [1..n -> Nat] /\ ServiceOf(pays) \in [1..n -> Nat]
      /\ \A p \in 1..n : ProductOf(pays)[p] = pays[p].product /\ ServiceOf(pays)[p] = pays[p].service
  BY <1>1, ColumnTypes
<1>5. \A p \in 1..n : gp[p] <= ProductOf(pays)[p] /\ gs[p] <= ServiceOf(pays)[p]
  BY <1>1, <1>3, <1>4 DEF PaymentsCover
<1>6. IsFiniteSet(1..n)
  BY <1>1, FS_Interval
<1>7. SumF(gp) <= SumF(ProductOf(pays)) /\ SumF(gs) <= SumF(ServiceOf(pays))
  <2> DEFINE N == 1..n
  <2>1. /\ IsFiniteSet(N) /\ gp \in [N -> Nat] /\ gs \in [N -> Nat]
        /\ ProductOf(pays) \in [N -> Nat] /\ ServiceOf(pays) \in [N -> Nat]
        /\ \A p \in N : gp[p] <= ProductOf(pays)[p] /\ gs[p] <= ServiceOf(pays)[p]
    BY <1>3, <1>4, <1>5, <1>6
  <2> HIDE DEF N
  <2> QED  BY <2>1, SumMono
<1>8. /\ SumRows(pays, Product) = SumF(ProductOf(pays))
      /\ SumRows(pays, Service) = SumF(ServiceOf(pays))
  BY <1>1, <1>4, ColumnTotals, SumOnLaws
<1> QED  BY <1>3, <1>7, <1>8

(* Installments for which there is no refund yet.                          *)
LEMMA UnsettledTable ==
  ASSUME NEW refs, NEW j, \A i \in DOMAIN refs : refs[i].installment # j
  PROVE  /\ SumOf(refs, Settling(refs, j), Product) = 0
         /\ SumOf(refs, Settling(refs, j), Service) = 0
<1>1. Settling(refs, j) = {}
  BY DEF Settling
<1> QED  BY <1>1, NoRows

LEMMA InstallmentFields ==
  ASSUME NEW product \in Nat, NEW service \in Nat, NEW fee \in Nat, NEW m \in Methods,
         NEW period \in 1..session, NEW source \in Nat
  PROVE  [product |-> product, service |-> service, fee |-> fee, method |-> m,
          period |-> period, source |-> source] \in InstallmentRow
BY DEF InstallmentRow

LEMMA CopiedRows ==
  ASSUME LedgerInv, NEW o \in Orders
  PROVE  Copied(o) \in Seq(InstallmentRow) /\ Len(Copied(o)) = Len(payments[o])
<1>1. payments[o] \in Seq(PaymentRow)
  BY SaleFacts
<1> DEFINE n == Len(payments[o])
<1>2. n \in Nat /\ DOMAIN payments[o] = 1..n /\ \A p \in 1..n : payments[o][p] \in PaymentRow
  BY <1>1, SeqFacts
<1> HIDE DEF n
<1>3. \A r \in PaymentRow : /\ r.product \in Nat /\ r.service \in Nat /\ r.fee \in Nat
                            /\ r.method \in Methods /\ r.period \in 1..session
  BY DEF PaymentRow
<1>4. ASSUME NEW p \in 1..n PROVE Copied(o)[p] \in InstallmentRow
  <2>1. payments[o][p] \in PaymentRow /\ p \in Nat
    BY <1>2
  <2>2. p \in DOMAIN payments[o]
    BY <1>2
  <2>3. Copied(o)[p] = [product |-> payments[o][p].product, service |-> payments[o][p].service,
                        fee |-> payments[o][p].fee, method |-> payments[o][p].method,
                        period |-> payments[o][p].period, source |-> p]
    BY <2>2 DEF Copied
  <2>4. /\ payments[o][p].product \in Nat /\ payments[o][p].service \in Nat
        /\ payments[o][p].fee \in Nat /\ payments[o][p].method \in Methods
        /\ payments[o][p].period \in 1..session
    BY <1>3, <2>1
  <2>5. p \in Nat
    BY <2>1
  <2> QED  BY ONLY <2>3, <2>4, <2>5 DEF InstallmentRow
<1>5. \E f : Copied(o) = [p \in 1..n |-> f[p]]
  <2>1. Copied(o) = [p \in 1..n |-> Copied(o)[p]]
    BY <1>2 DEF Copied
  <2> QED  BY <2>1
<1> QED  BY <1>2, <1>4, <1>5 DEF n

LEMMA AccountFields ==
  ASSUME NEW st \in {"nenhum", "pendente", "pago", "cancelado"}, NEW product \in Nat,
         NEW service \in Nat, NEW total \in Nat, NEW paid \in Nat, NEW balance \in Nat,
         NEW n \in 0..MaxPieces, NEW created \in 0..session
  PROVE  [status |-> st, product |-> product, service |-> service, total |-> total,
          paid |-> paid, balance |-> balance, pieces |-> n, createdIn |-> created] \in AccountRecord
BY DEF AccountRecord

LEMMA StatusForFiado ==
  ASSUME NEW balance
  PROVE  StatusFor(balance) \in {"pendente", "pago"}
BY DEF StatusFor

LEMMA ConvertKeeps ==
  ASSUME LedgerInv, NEW o \in Orders, NEW charge \in Charges, Convert(o, charge)
  PROVE  LedgerInv'
<1> DEFINE service == NetPaid(o, Service) + Charge(Remaining(o), charge)
           total == order[o].total + service
           paid == NetPaid(o, Gross)
           balance == NonNegative(total - paid)
           acc == [status |-> StatusFor(balance), product |-> order[o].total, service |-> service,
                   total |-> total, paid |-> paid, balance |-> balance, pieces |-> order[o].pieces,
                   createdIn |-> session]
           ord == [order[o] EXCEPT !.status = "finalizada", !.fiado = TRUE, !.closedIn = session]
<1>1. /\ order[o].status = "aberta" /\ sessionOpen
      /\ account' = [account EXCEPT ![o] = acc]
      /\ installments' = [installments EXCEPT ![o] = Copied(o)]
      /\ order' = [order EXCEPT ![o] = ord]
      /\ UNCHANGED <<session, sessionOpen, payments, refunds, position>>
  BY DEF Convert
<1>2. /\ o \in Accounts /\ order[o] \in OrderRecord /\ payments[o] \in Seq(PaymentRow)
      /\ refunds[o] \in Seq(RefundRow) /\ installments[o] \in Seq(InstallmentRow)
      /\ OrderFits(order[o], payments[o], account[o], installments[o], refunds[o])
      /\ AccountFits(installments[o], refunds[o])
  BY SaleFacts
<1>3. session \in Nat /\ session \in 0..session
  BY DayFacts
<1>4. NetPaid(o, Service) \in Nat /\ NetPaid(o, Gross) \in Nat
  <2>1. /\ SumRows(refunds[o], Product) <= SumRows(payments[o], Product)
        /\ SumRows(refunds[o], Service) <= SumRows(payments[o], Service)
    BY <1>1, <1>2, OpenCoversItsRefunds DEF OrderFits
  <2>2. /\ SumRows(refunds[o], Product) \in Nat /\ SumRows(payments[o], Product) \in Nat
        /\ SumRows(refunds[o], Service) \in Nat /\ SumRows(payments[o], Service) \in Nat
    BY <1>2, RefundSums, PaymentTotals
  <2>3. /\ NetPaid(o, Product) = SumRows(payments[o], Product) - SumRows(refunds[o], Product)
        /\ NetPaid(o, Service) = SumRows(payments[o], Service) - SumRows(refunds[o], Service)
    BY DEF NetPaid
  <2>4. NetPaid(o, Product) \in Nat /\ NetPaid(o, Service) \in Nat
    BY <2>1, <2>2, <2>3
  <2> QED  BY <2>4, NetPaidFacts
<1>5. Remaining(o) \in Nat /\ Charge(Remaining(o), charge) \in Nat
  BY NetPaidFacts, ChargeNat
<1>6. order[o].total \in Nat /\ order[o].pieces \in 0..MaxPieces
  BY <1>2, OrderFields
<1>7. service \in Nat /\ total \in Nat /\ paid \in Nat /\ balance \in Nat
  <2>1. service \in Nat
    BY <1>4, <1>5
  <2> HIDE DEF service
  <2>2. total \in Nat /\ paid \in Nat
    BY <1>4, <1>6, <2>1
  <2> HIDE DEF total, paid
  <2> QED  BY <2>1, <2>2 DEF NonNegative
<1>8. acc \in AccountRecord
  <2> HIDE DEF service, total, paid, balance
  <2>1. StatusFor(balance) \in {"nenhum", "pendente", "pago", "cancelado"}
    BY StatusForFiado
  <2> QED  BY <1>3, <1>6, <1>7, <2>1, AccountFields
<1>9. ord \in OrderRecord /\ ord.estorno = order[o].estorno /\ ord.fiado /\ ord.status = "finalizada"
  BY <1>2, <1>3, OrderUpdates
<1> HIDE DEF acc, ord
<1>10. Copied(o) \in Seq(InstallmentRow) /\ Len(Copied(o)) \in Nat /\ DOMAIN Copied(o) = 1..Len(Copied(o))
  <2>1. Copied(o) \in Seq(InstallmentRow)
    BY CopiedRows
  <2> QED  BY <2>1, SeqFacts
<1>11. \A i \in DOMAIN refunds[o] : refunds[o][i].installment = 0
  <2>1. ~order[o].fiado
    BY <1>1, <1>2 DEF OrderFits, StatusFits
  <2>2. installments[o] = << >>
    BY <1>2, <2>1 DEF OrderFits, StatusFits
  <2>3. Len(installments[o]) = 0
    BY <2>2
  <2> QED  BY <1>2, <2>3 DEF AccountFits, InstallmentNamesFit
<1>12. AccountFits(Copied(o), refunds[o])
  <2>1. \A i \in DOMAIN refunds[o] : refunds[o][i].installment \in 0..Len(Copied(o))
    BY <1>10, <1>11
  <2>2. ASSUME NEW j \in DOMAIN Copied(o)
        PROVE  /\ SumOf(refunds[o], Settling(refunds[o], j), Product) <= Copied(o)[j].product
               /\ SumOf(refunds[o], Settling(refunds[o], j), Service) <= Copied(o)[j].service
    <3>1. j # 0 /\ Copied(o)[j] \in InstallmentRow
      BY <1>10, SeqFacts
    <3>2. /\ SumOf(refunds[o], Settling(refunds[o], j), Product) = 0
          /\ SumOf(refunds[o], Settling(refunds[o], j), Service) = 0
      BY <1>11, <3>1, UnsettledTable
    <3>3. Copied(o)[j].product \in Nat /\ Copied(o)[j].service \in Nat
      BY <3>1, RowTypes
    <3> QED  BY <3>2, <3>3
  <2> QED  BY <2>1, <2>2 DEF AccountFits, InstallmentNamesFit, InstallmentsCover
<1>13. OrderFits(ord, payments[o], acc, Copied(o), refunds[o])
  <2>1. StatusFits(ord, payments[o], acc, Copied(o), refunds[o])
    BY <1>9 DEF StatusFits
  <2>2. NamesFit(ord, payments[o], refunds[o]) /\ PaymentsCover(payments[o], refunds[o])
    BY <1>2, <1>9 DEF OrderFits, NamesFit
  <2>3. PiecesFit(ord, payments[o], refunds[o])
    BY <1>1, <1>2, <1>9 DEF OrderFits, PiecesFit, Partly
  <2> QED  BY <2>1, <2>2, <2>3 DEF OrderFits
<1>14. StillDay /\ OrderStep(o, ord, payments[o]) /\ AccountStep(o, acc, Copied(o), refunds[o])
  BY <1>1, <1>2, Unchanged, DayFacts DEF StillDay, OrderStep, AccountStep
<1> QED  BY <1>2, <1>8, <1>9, <1>10, <1>12, <1>13, <1>14, OrderSale

LEMMA CreateConsignmentKeeps ==
  ASSUME LedgerInv, NEW d \in Direct, NEW n \in 1..MaxPieces, CreateConsignment(d, n)
  PROVE  LedgerInv'
<1> DEFINE acc == [status |-> "pendente", product |-> Price * n, service |-> 0, total |-> Price * n,
                   paid |-> 0, balance |-> Price * n, pieces |-> n, createdIn |-> session]
<1>1. /\ account' = [account EXCEPT ![d] = acc]
      /\ UNCHANGED <<session, sessionOpen, order, payments, installments, refunds, position>>
  BY DEF CreateConsignment
<1>2. d \in Accounts
  BY DEF Accounts
<1>3. /\ installments[d] \in Seq(InstallmentRow) /\ refunds[d] \in Seq(RefundRow)
      /\ AccountFits(installments[d], refunds[d])
  BY <1>2, AccountFacts
<1>4. Price * n \in Nat /\ n \in 0..MaxPieces /\ session \in 0..session
  BY Livro_Amounts, Livro_Bounds, NatProduct, DayFacts
<1>5. acc \in AccountRecord
  BY <1>4, AccountFields
<1> HIDE DEF acc
<1>6. StillDay /\ order' = order /\ payments' = payments /\ AccountStep(d, acc, installments[d], refunds[d])
  BY <1>1, <1>2, Unchanged, DayFacts DEF StillDay, AccountStep
<1> QED  BY <1>3, <1>5, <1>6, DirectSale

LEMMA NewInstallment ==
  ASSUME NEW insts \in Seq(InstallmentRow), NEW refs \in Seq(RefundRow), NEW row \in InstallmentRow,
         AccountFits(insts, refs)
  PROVE  LET q == Append(insts, row)
         IN q \in Seq(InstallmentRow) /\ AccountFits(q, refs)
<1> DEFINE q == Append(insts, row)  n == Len(insts)
<1>1. /\ n \in Nat /\ q \in Seq(InstallmentRow) /\ DOMAIN insts = 1..n
      /\ Len(q) = n + 1 /\ DOMAIN q = 1..(n + 1) /\ q[n + 1] = row /\ \A p \in 1..n : q[p] = insts[p]
  OBVIOUS
<1>2. row.product \in Nat /\ row.service \in Nat
  BY RowTypes
<1>3. \A i \in DOMAIN refs : refs[i].installment \in 0..n
  BY DEF AccountFits, InstallmentNamesFit
<1> HIDE DEF q, n
<1>4. \A i \in DOMAIN refs : refs[i].installment # n + 1
  BY <1>1, <1>3
<1>5. /\ SumOf(refs, Settling(refs, n + 1), Product) = 0
      /\ SumOf(refs, Settling(refs, n + 1), Service) = 0
  BY <1>4, UnsettledTable
<1>6. \A j \in DOMAIN q : (j \in DOMAIN insts /\ q[j] = insts[j]) \/ (j = n + 1 /\ q[j] = row)
  BY <1>1
<1>7. InstallmentsCover(q, refs)
  BY <1>2, <1>5, <1>6 DEF AccountFits, InstallmentsCover
<1>8. InstallmentNamesFit(q, refs)
  BY <1>1, <1>3 DEF InstallmentNamesFit
<1> QED  BY <1>1, <1>7, <1>8 DEF AccountFits, q

PaidOff(r, n, b) == [r EXCEPT !.paid = @ + n, !.balance = b, !.status = StatusFor(b)]
Undone(r) == [r EXCEPT !.status = "cancelado", !.balance = 0]

LEMMA AccountColumns ==
  ASSUME NEW r \in AccountRecord
  PROVE  /\ r.product \in Nat /\ r.service \in Nat /\ r.total \in Nat /\ r.paid \in Nat
         /\ r.balance \in Nat /\ r.pieces \in 0..MaxPieces
BY DEF AccountRecord

LEMMA AccountUndone ==
  ASSUME NEW r \in AccountRecord
  PROVE  Undone(r) \in AccountRecord /\ Undone(r).status = "cancelado"
BY DEF AccountRecord, Undone

LEMMA AccountPaid ==
  ASSUME NEW r \in AccountRecord, NEW n \in Nat, NEW b \in Nat
  PROVE  LET u == PaidOff(r, n, b)
         IN /\ u \in AccountRecord /\ u.status = StatusFor(b) /\ u.paid = r.paid + n
            /\ u.balance = b /\ u.total = r.total /\ u.product = r.product
            /\ u.service = r.service
<1>1. r.paid + n \in Nat
  BY AccountColumns
<1>2. StatusFor(b) \in {"nenhum", "pendente", "pago", "cancelado"}
  BY StatusForFiado
<1> QED  BY <1>1, <1>2 DEF AccountRecord, PaidOff

LEMMA PayInstallmentKeeps ==
  ASSUME LedgerInv, NEW a \in Accounts, NEW amount \in Installments, NEW m \in Methods,
         PayInstallment(a, amount, m)
  PROVE  LedgerInv'
<1> DEFINE split == SplitInstallment(amount, account[a].product, SumRows(installments[a], Product))
           balance == NonNegative(account[a].total - (account[a].paid + amount))
           row == [product |-> split.product, service |-> split.service,
                   fee |-> CardFee(split.product, split.service, m), method |-> m,
                   period |-> session, source |-> 0]
           acc == PaidOff(account[a], amount, balance)
           q == Append(installments[a], row)
<1>1. /\ sessionOpen /\ account[a].status \in {"pendente", "pago"}
      /\ installments' = [installments EXCEPT ![a] = q]
      /\ account' = [account EXCEPT ![a] = acc]
      /\ UNCHANGED <<session, sessionOpen, order, payments, refunds, position>>
  BY DEF PayInstallment, PaidOff
<1>2. /\ account[a] \in AccountRecord /\ installments[a] \in Seq(InstallmentRow)
      /\ refunds[a] \in Seq(RefundRow) /\ AccountFits(installments[a], refunds[a])
  BY AccountFacts
<1>3. amount \in Nat /\ session \in 1..session
  BY <1>1, Livro_Amounts, DayFacts
<1>4. split.product \in Nat /\ split.service \in Nat
  <2>1. account[a].product \in Nat /\ SumRows(installments[a], Product) \in Nat
    BY <1>2, AccountColumns, InstallmentTotals
  <2> QED  BY <1>3, <2>1, InstallmentSplit
<1> HIDE DEF split
<1>5. row \in InstallmentRow
  <2>1. CardFee(split.product, split.service, m) \in Nat /\ 0 \in Nat
    BY <1>4, FeeNat
  <2> QED  BY <1>3, <1>4, <2>1, InstallmentFields
<1>6. balance \in Nat
  <2>1. account[a].total \in Nat /\ account[a].paid \in Nat
    BY <1>2, AccountColumns
  <2> QED  BY <1>3, <2>1 DEF NonNegative
<1> HIDE DEF balance
<1>7. acc \in AccountRecord /\ acc.status \in {"pendente", "pago"}
  BY <1>2, <1>3, <1>6, AccountPaid, StatusForFiado
<1> HIDE DEF row, acc
<1>8. q \in Seq(InstallmentRow) /\ AccountFits(q, refunds[a])
  BY <1>2, <1>5, NewInstallment
<1> HIDE DEF q
<1>9. StillDay /\ AccountStep(a, acc, q, refunds[a]) /\ order' = order /\ payments' = payments
  BY <1>1, Unchanged, DayFacts DEF StillDay, AccountStep
<1>10. CASE a \in Orders
  <2>1. /\ order[a] \in OrderRecord /\ payments[a] \in Seq(PaymentRow)
        /\ OrderFits(order[a], payments[a], account[a], installments[a], refunds[a])
    BY <1>10, SaleFacts
  <2>2. order[a].fiado
    BY <1>1, <2>1 DEF OrderFits, StatusFits
  <2>3. OrderFits(order[a], payments[a], acc, q, refunds[a])
    BY <2>1, <2>2 DEF OrderFits, StatusFits
  <2>4. OrderStep(a, order[a], payments[a])
    BY <1>9, <1>10, Unchanged DEF OrderStep
  <2> QED  BY <1>2, <1>7, <1>8, <1>9, <1>10, <2>1, <2>3, <2>4, OrderSale
<1>11. CASE a \in Direct
  BY <1>2, <1>7, <1>8, <1>9, <1>11, DirectSale
<1> QED  BY <1>10, <1>11 DEF Accounts

-----------------------------------------------------------------------------
(* Refunds of a whole sale.                                                *)

(* Dropping the refunds of nothing.                                        *)
LEMMA SomeMoneyRows ==
  ASSUME NEW n \in Nat, NEW raw, raw \in [1..n -> RefundRow]
  PROVE  LET rows == SomeMoney(raw) IN
         /\ rows \in Seq(RefundRow)
         /\ \A k \in DOMAIN rows : \E i \in 1..n : rows[k] = raw[i]
         /\ SumRows(rows, Product) = SumRows(raw, Product)
         /\ SumRows(rows, Service) = SumRows(raw, Service)
         /\ (\A i \in 1..n : raw[i].payment = i) => \A p \in 1..n :
              /\ SumOf(rows, Marked(rows, p), Product) = raw[p].product
              /\ SumOf(rows, Marked(rows, p), Service) = raw[p].service
         /\ (\A i \in 1..n : raw[i].installment = i) => \A p \in 1..n :
              /\ SumOf(rows, Settling(rows, p), Product) = raw[p].product
              /\ SumOf(rows, Settling(rows, p), Service) = raw[p].service
<1> DEFINE S == {i \in DOMAIN raw : Gross(raw[i]) > 0}
<1>1. DOMAIN raw = 1..n /\ \A i \in 1..n : raw[i] \in RefundRow
  OBVIOUS
<1>2. \A i \in 1..n : raw[i].product \in Nat /\ raw[i].service \in Nat
  BY <1>1, RowTypes
<1>3. MoneyRows(raw, n) /\ Places(S, n)
  BY <1>1, <1>2 DEF MoneyRows, Places
<1>4. \A i \in 1..n : i \notin S => raw[i].product = 0 /\ raw[i].service = 0
  BY <1>1, <1>2 DEF Gross
<1>5. SomeMoney(raw) = Kept(raw, S)
  BY DEF SomeMoney
<1> HIDE DEF S
<1>6. Filtered(raw, n, S)
  BY <1>3, <1>4 DEF Filtered
<1> QED  BY <1>3, <1>5, <1>6, KeptRefunds

LEMMA LeftOfPayment ==
  ASSUME LedgerInv, sessionOpen, NEW o \in Orders, NEW p \in DOMAIN payments[o], NEW sale \in BOOLEAN
  PROVE  LET r == RefundOfPayment(o, p, sale)
             done == Marked(refunds[o], p)
         IN /\ r \in RefundRow /\ r.payment = p /\ r.installment = 0
            /\ r.product = payments[o][p].product - SumOf(refunds[o], done, Product)
            /\ r.service = payments[o][p].service - SumOf(refunds[o], done, Service)
<1> DEFINE row == payments[o][p]
           done == Marked(refunds[o], p)
           product == row.product - SumOf(refunds[o], done, Product)
           service == row.service - SumOf(refunds[o], done, Service)
<1>1. /\ payments[o] \in Seq(PaymentRow) /\ refunds[o] \in Seq(RefundRow)
      /\ PaymentsCover(payments[o], refunds[o])
  BY SaleFacts DEF OrderFits
<1>2. row \in PaymentRow /\ p \in Nat
  BY <1>1, SeqFacts
<1>3. row.product \in Nat /\ row.service \in Nat /\ row.method \in Methods /\ row.period \in Nat
  BY <1>2 DEF PaymentRow
<1>4. SumOf(refunds[o], done, Product) \in Nat /\ SumOf(refunds[o], done, Service) \in Nat
  BY <1>1, RefundSums
<1>5. product \in Nat /\ service \in Nat
  BY <1>1, <1>3, <1>4 DEF PaymentsCover
<1>6. session \in 1..session /\ Repassed(row.period) \in BOOLEAN /\ 0 \in 0..MaxPieces
  BY DayFacts, Livro_Bounds DEF Repassed
<1>7. RefundOfPayment(o, p, sale) =
        Refund(p, 0, product, service, row.method, sale, TRUE, Repassed(row.period), 0)
  BY DEF RefundOfPayment, Left, Returned, OfPayment, Marked
<1> HIDE DEF row, product, service
<1>8. LET r == Refund(p, 0, product, service, row.method, sale, TRUE, Repassed(row.period), 0)
      IN /\ r \in RefundRow /\ r.payment = p /\ r.installment = 0
         /\ r.product = product /\ r.service = service
  BY <1>2, <1>3, <1>5, <1>6 DEF Refund, RefundRow
<1> QED  BY <1>7, <1>8 DEF product, service, row

LEMMA WholeRefundRows ==
  ASSUME LedgerInv, sessionOpen, NEW o \in Orders, NEW sale \in BOOLEAN
  PROVE  LET rows == WholeRefund(o, sale) IN
         /\ rows \in Seq(RefundRow)
         /\ \A k \in DOMAIN rows :
              rows[k].payment \in 1..Len(payments[o]) /\ rows[k].installment = 0
         /\ \A p \in DOMAIN payments[o] :
              /\ SumOf(rows, Marked(rows, p), Product) =
                   payments[o][p].product - SumOf(refunds[o], Marked(refunds[o], p), Product)
              /\ SumOf(rows, Marked(rows, p), Service) =
                   payments[o][p].service - SumOf(refunds[o], Marked(refunds[o], p), Service)
<1> DEFINE n == Len(payments[o])
           raw == [p \in DOMAIN payments[o] |-> RefundOfPayment(o, p, sale)]
           some == SomeMoney(raw)
           left == order[o].pieces - order[o].refunded
           rows == WholeRefund(o, sale)
<1>1. n \in Nat /\ DOMAIN payments[o] = 1..n
  BY SaleFacts, SeqFacts
<1>2. ASSUME NEW p \in 1..n
      PROVE  /\ raw[p] \in RefundRow /\ raw[p].payment = p /\ raw[p].installment = 0
             /\ raw[p].product =
                  payments[o][p].product - SumOf(refunds[o], Marked(refunds[o], p), Product)
             /\ raw[p].service =
                  payments[o][p].service - SumOf(refunds[o], Marked(refunds[o], p), Service)
  <2>1. p \in DOMAIN payments[o]
    BY <1>1
  <2>2. raw[p] = RefundOfPayment(o, p, sale)
    BY <2>1
  <2> HIDE DEF raw
  <2> QED  BY <2>1, <2>2, LeftOfPayment
<1>3. raw \in [1..n -> RefundRow]
  <2>1. raw = [p \in 1..n |-> raw[p]]
    BY <1>1
  <2> HIDE DEF raw
  <2> QED  BY <1>2, <2>1
<1>4. rows = WithPieces(some, left)
  BY DEF WholeRefund
<1>5. left \in Int /\ NonNegative(left) \in 0..MaxPieces
  <2>1. order[o].pieces \in 0..MaxPieces /\ order[o].refunded \in Nat
    BY SaleFacts, OrderFields
  <2> QED  BY <2>1, Livro_Bounds DEF NonNegative
<1> HIDE DEF n, raw, left, rows
<1>6. /\ some \in Seq(RefundRow)
      /\ \A k \in DOMAIN some : \E i \in 1..n : some[k] = raw[i]
      /\ (\A i \in 1..n : raw[i].payment = i) => \A p \in 1..n :
           /\ SumOf(some, Marked(some, p), Product) = raw[p].product
           /\ SumOf(some, Marked(some, p), Service) = raw[p].service
  BY <1>1, <1>3, SomeMoneyRows
<1>7. \A k \in DOMAIN some : some[k].payment \in 1..n /\ some[k].installment = 0
  BY <1>2, <1>6
<1>8. \A p \in 1..n : /\ SumOf(some, Marked(some, p), Product) = raw[p].product
                      /\ SumOf(some, Marked(some, p), Service) = raw[p].service
  BY <1>2, <1>6
<1> HIDE DEF some
<1>9. /\ rows \in Seq(RefundRow) /\ DOMAIN rows = DOMAIN some
      /\ \A k \in DOMAIN some :
           /\ rows[k].payment = some[k].payment /\ rows[k].installment = some[k].installment
           /\ rows[k].product = some[k].product /\ rows[k].service = some[k].service
  BY <1>4, <1>5, <1>6, WithPiecesRows
<1>10. \A p : /\ SumOf(rows, Marked(rows, p), Product) = SumOf(some, Marked(some, p), Product)
              /\ SumOf(rows, Marked(rows, p), Service) = SumOf(some, Marked(some, p), Service)
  BY <1>9, SameAmounts
<1>11. \A k \in DOMAIN rows : rows[k].payment \in 1..n /\ rows[k].installment = 0
  BY <1>7, <1>9
<1>12. \A p \in 1..n :
         /\ SumOf(rows, Marked(rows, p), Product) =
              payments[o][p].product - SumOf(refunds[o], Marked(refunds[o], p), Product)
         /\ SumOf(rows, Marked(rows, p), Service) =
              payments[o][p].service - SumOf(refunds[o], Marked(refunds[o], p), Service)
  BY <1>2, <1>8, <1>10
<1> QED  BY <1>1, <1>9, <1>11, <1>12 DEF rows, n

(* After a whole refund of its payments a comanda takes no more part in    *)
(* partial ones: every payment has given back exactly what it took.        *)
LEMMA WholeRefundKeeps ==
  ASSUME LedgerInv, sessionOpen, NEW o \in Orders, NEW sale \in BOOLEAN, NEW ord \in OrderRecord,
         ~order[o].fiado, ~ord.fiado, ord.status # "nenhuma", ord.status # "aberta", ~Partly(ord),
         order' = [order EXCEPT ![o] = ord], GiveBack(o, WholeRefund(o, sale)),
         UNCHANGED <<session, sessionOpen, payments, account, installments>>
  PROVE  LedgerInv'
<1> DEFINE rows == WholeRefund(o, sale)
           pays == payments[o]
           refs == refunds[o]
           q == refs \o rows
<1>1. /\ o \in Accounts /\ order[o] \in OrderRecord /\ pays \in Seq(PaymentRow)
      /\ account[o] \in AccountRecord /\ installments[o] \in Seq(InstallmentRow)
      /\ refs \in Seq(RefundRow)
      /\ OrderFits(order[o], pays, account[o], installments[o], refs)
      /\ AccountFits(installments[o], refs)
  BY SaleFacts
<1>2. /\ rows \in Seq(RefundRow)
      /\ \A k \in DOMAIN rows : rows[k].payment \in 1..Len(pays) /\ rows[k].installment = 0
      /\ \A p \in DOMAIN pays :
           /\ SumOf(rows, Marked(rows, p), Product) =
                pays[p].product - SumOf(refs, Marked(refs, p), Product)
           /\ SumOf(rows, Marked(rows, p), Service) =
                pays[p].service - SumOf(refs, Marked(refs, p), Service)
  BY WholeRefundRows
<1>3. refunds' = [refunds EXCEPT ![o] = q] /\ position' = position - SumRows(rows, Gross)
  BY DEF GiveBack
<1> HIDE DEF rows
<1>4. position' \in Int
  BY <1>2, <1>3, DayFacts, RefundSums
<1>5. /\ q \in Seq(RefundRow)
      /\ \A p : /\ SumOf(q, Marked(q, p), Product) =
                     SumOf(refs, Marked(refs, p), Product) + SumOf(rows, Marked(rows, p), Product)
                /\ SumOf(q, Marked(q, p), Service) =
                     SumOf(refs, Marked(refs, p), Service) + SumOf(rows, Marked(rows, p), Service)
      /\ \A k \in DOMAIN q : (\E i \in DOMAIN refs : q[k] = refs[i]) \/ (\E j \in DOMAIN rows : q[k] = rows[j])
  <2>1. AddedRefunds(refs, rows, q)
    BY <1>1, <1>2, JoinedRefunds
  <2> QED  BY <2>1 DEF AddedRefunds
<1>6. Len(pays) \in Nat /\ DOMAIN pays = 1..Len(pays) /\ \A p \in DOMAIN pays : pays[p] \in PaymentRow
  BY <1>1, SeqFacts
<1> HIDE DEF q
<1>7. PaymentsCover(pays, q)
  <2> SUFFICES ASSUME NEW p \in DOMAIN pays
               PROVE  /\ SumOf(q, Marked(q, p), Product) <= pays[p].product
                      /\ SumOf(q, Marked(q, p), Service) <= pays[p].service
    BY DEF PaymentsCover
  <2>1. pays[p].product \in Nat /\ pays[p].service \in Nat
    BY <1>6, RowTypes
  <2>2. SumOf(refs, Marked(refs, p), Product) \in Nat /\ SumOf(refs, Marked(refs, p), Service) \in Nat
    BY <1>1, RefundSums
  <2> QED  BY <1>2, <1>5, <2>1, <2>2
<1>8. installments[o] = << >> /\ account[o].status = "nenhum"
  BY <1>1 DEF OrderFits, StatusFits
<1>9. NamesFit(ord, pays, q) /\ PiecesFit(ord, pays, q)
  <2>1. NamesFit(ord, pays, q)
    <3>1. \A i \in DOMAIN refs : refs[i].payment \in 0..Len(pays)
      BY <1>1 DEF OrderFits, NamesFit
    <3>2. \A i \in DOMAIN rows : rows[i].payment \in 0..Len(pays)
      BY <1>2, <1>6
    <3> QED  BY <1>5, <3>1, <3>2 DEF NamesFit
  <2>2. PiecesFit(ord, pays, q)
    BY <1>1 DEF OrderFits, PiecesFit
  <2> QED  BY <2>1, <2>2
<1>10. AccountFits(installments[o], q)
  <2>1. \A i \in DOMAIN refs : refs[i].installment \in 0..Len(installments[o])
    BY <1>1 DEF AccountFits, InstallmentNamesFit
  <2>2. Len(installments[o]) = 0 /\ DOMAIN installments[o] = {}
    BY <1>8
  <2>3. \A i \in DOMAIN rows : rows[i].installment \in 0..Len(installments[o])
    BY <1>2, <2>2
  <2> QED  BY <1>5, <2>1, <2>2, <2>3 DEF AccountFits, InstallmentNamesFit, InstallmentsCover
<1>11. OrderFits(ord, pays, account[o], installments[o], q)
  BY <1>7, <1>8, <1>9 DEF OrderFits, StatusFits
<1>12. StillDay /\ OrderStep(o, ord, pays) /\ AccountStep(o, account[o], installments[o], q)
  BY <1>1, <1>3, <1>4, Unchanged DEF StillDay, OrderStep, AccountStep
<1> HIDE DEF pays, refs
<1> QED  BY <1>1, <1>5, <1>10, <1>11, <1>12, OrderSale DEF pays, refs

LEMMA EstornarVendaKeeps ==
  ASSUME LedgerInv, NEW o \in Orders, EstornarVenda(o)
  PROVE  LedgerInv'
<1> DEFINE ord == [order[o] EXCEPT !.estorno = TRUE]
<1>1. /\ sessionOpen /\ order[o].status = "finalizada" /\ ~order[o].fiado
      /\ GiveBack(o, WholeRefund(o, TRUE)) /\ order' = [order EXCEPT ![o] = ord]
      /\ UNCHANGED <<session, sessionOpen, payments, account, installments>>
  BY DEF EstornarVenda
<1>2. ord \in OrderRecord /\ ord.estorno /\ ord.fiado = order[o].fiado /\ ord.status = order[o].status
  BY SaleFacts, DayFacts, OrderUpdates
<1> HIDE DEF ord
<1>3. ~ord.fiado /\ ord.status # "nenhuma" /\ ord.status # "aberta" /\ ~Partly(ord)
  BY <1>1, <1>2 DEF Partly
<1> QED  BY <1>1, <1>2, <1>3, WholeRefundKeeps

LEMMA CancelOrderKeeps ==
  ASSUME LedgerInv, NEW o \in Orders, CancelOrder(o)
  PROVE  LedgerInv'
<1> DEFINE none == [order[o] EXCEPT !.status = "cancelada", !.total = 0]
           ord == [order[o] EXCEPT !.status = "cancelada"]
<1>1. /\ order[o].status = "aberta"
      /\ \/ /\ sessionOpen /\ GiveBack(o, WholeRefund(o, FALSE))
            /\ order' = [order EXCEPT ![o] = none]
         \/ order' = [order EXCEPT ![o] = ord] /\ UNCHANGED <<refunds, position>>
      /\ UNCHANGED <<session, sessionOpen, payments, account, installments>>
  BY DEF CancelOrder
<1>2. /\ o \in Accounts /\ order[o] \in OrderRecord /\ payments[o] \in Seq(PaymentRow)
      /\ account[o] \in AccountRecord /\ installments[o] \in Seq(InstallmentRow)
      /\ refunds[o] \in Seq(RefundRow)
      /\ OrderFits(order[o], payments[o], account[o], installments[o], refunds[o])
      /\ AccountFits(installments[o], refunds[o])
  BY SaleFacts
<1>3. ~order[o].fiado
  BY <1>1, <1>2 DEF OrderFits, StatusFits
<1>4. none \in OrderRecord /\ SameSale(none, order[o]) /\ none.status = "cancelada"
  BY <1>2, DayFacts, OrderUpdates
<1>5. ord \in OrderRecord /\ SameSale(ord, order[o]) /\ ord.status = "cancelada"
  BY <1>2, DayFacts, OrderUpdates
<1> HIDE DEF none, ord
<1>6. CASE sessionOpen /\ GiveBack(o, WholeRefund(o, FALSE)) /\ order' = [order EXCEPT ![o] = none]
  <2>1. ~none.fiado /\ none.status # "nenhuma" /\ none.status # "aberta" /\ ~Partly(none)
    BY <1>3, <1>4 DEF SameSale, Partly
  <2>2. UNCHANGED <<session, sessionOpen, payments, account, installments>>
    BY <1>1
  <2> QED  BY <1>3, <1>4, <1>6, <2>1, <2>2, WholeRefundKeeps
<1>7. CASE order' = [order EXCEPT ![o] = ord] /\ UNCHANGED <<refunds, position>>
  <2>1. ~ord.fiado /\ ord.status # "nenhuma" /\ ord.status # "aberta" /\ ~Partly(ord)
    BY <1>3, <1>5 DEF SameSale, Partly
  <2>2. OrderFits(ord, payments[o], account[o], installments[o], refunds[o])
    <3>1. StatusFits(ord, payments[o], account[o], installments[o], refunds[o])
      BY <1>2, <1>3, <2>1 DEF OrderFits, StatusFits
    <3>2. NamesFit(ord, payments[o], refunds[o]) /\ PiecesFit(ord, payments[o], refunds[o])
      BY <1>2, <2>1 DEF OrderFits, NamesFit, PiecesFit
    <3> QED  BY <1>2, <3>1, <3>2 DEF OrderFits
  <2>3. StillDay /\ OrderStep(o, ord, payments[o])
        /\ AccountStep(o, account[o], installments[o], refunds[o])
    BY <1>1, <1>2, <1>7, Unchanged, DayFacts DEF StillDay, OrderStep, AccountStep
  <2> QED  BY <1>2, <1>5, <2>2, <2>3, OrderSale
<1> QED  BY <1>1, <1>6, <1>7

(* Refunds of a fiado: one for each installment.                           *)
LEMMA LeftOfInstallment ==
  ASSUME LedgerInv, sessionOpen, NEW a \in Accounts, NEW j \in DOMAIN installments[a]
  PROVE  LET r == RefundOfInstallment(a, j)
             done == Settling(refunds[a], j)
         IN /\ r \in RefundRow /\ r.payment = 0 /\ r.installment = j
            /\ r.product = installments[a][j].product - SumOf(refunds[a], done, Product)
            /\ r.service = installments[a][j].service - SumOf(refunds[a], done, Service)
<1> DEFINE row == installments[a][j]
           done == Settling(refunds[a], j)
           product == row.product - SumOf(refunds[a], done, Product)
           service == row.service - SumOf(refunds[a], done, Service)
<1>1. /\ installments[a] \in Seq(InstallmentRow) /\ refunds[a] \in Seq(RefundRow)
      /\ InstallmentsCover(installments[a], refunds[a])
  BY AccountFacts DEF AccountFits
<1>2. row \in InstallmentRow /\ j \in Nat
  BY <1>1, SeqFacts
<1>3. row.product \in Nat /\ row.service \in Nat /\ row.method \in Methods
  BY <1>2 DEF InstallmentRow
<1>4. SumOf(refunds[a], done, Product) \in Nat /\ SumOf(refunds[a], done, Service) \in Nat
  BY <1>1, RefundSums
<1>5. product \in Nat /\ service \in Nat
  BY <1>1, <1>3, <1>4 DEF InstallmentsCover
<1>6. session \in 1..session /\ 0 \in 0..MaxPieces
  BY DayFacts, Livro_Bounds
<1>7. TipRecognized(a) \in BOOLEAN /\ TipRepassed(a) \in BOOLEAN
  BY DEF TipRecognized, TipRepassed
<1>8. RefundOfInstallment(a, j) =
        Refund(0, j, product, service, row.method, TRUE, TipRecognized(a), TipRepassed(a), 0)
  BY DEF RefundOfInstallment, Left, Returned, OfInstallment, Settling
<1> HIDE DEF row, product, service
<1>9. LET r == Refund(0, j, product, service, row.method, TRUE, TipRecognized(a), TipRepassed(a), 0)
      IN /\ r \in RefundRow /\ r.payment = 0 /\ r.installment = j
         /\ r.product = product /\ r.service = service
  BY <1>2, <1>3, <1>5, <1>6, <1>7 DEF Refund, RefundRow
<1> QED  BY <1>8, <1>9 DEF product, service, row

(* The refunds of a fiado give back all that is left of each installment;  *)
(* a fiado with nothing to give back gets a refund of nothing.             *)
SettlesAll(rows, insts, refs) ==
  /\ rows \in Seq(RefundRow)
  /\ \A k \in DOMAIN rows :
       rows[k].payment = 0 /\ rows[k].installment \in 0..Len(insts)
  /\ \A j \in DOMAIN insts :
       /\ SumOf(rows, Settling(rows, j), Product) =
            insts[j].product - SumOf(refs, Settling(refs, j), Product)
       /\ SumOf(rows, Settling(rows, j), Service) =
            insts[j].service - SumOf(refs, Settling(refs, j), Service)

LEMMA NothingReceivedRow ==
  ASSUME session \in 1..session
  PROVE  /\ <<NothingReceived>> \in Seq(RefundRow)
         /\ \A k \in DOMAIN <<NothingReceived>> :
              /\ <<NothingReceived>>[k].payment = 0 /\ <<NothingReceived>>[k].installment = 0
<1>1. 0 \in 0..MaxPieces
  BY Livro_Bounds
<1>2. NothingReceived \in RefundRow /\ NothingReceived.payment = 0 /\ NothingReceived.installment = 0
  BY <1>1 DEF NothingReceived, Refund, RefundRow
<1> HIDE DEF NothingReceived
<1> QED  BY <1>2

LEMMA FiadoRefundRows ==
  ASSUME LedgerInv, sessionOpen, NEW a \in Accounts
  PROVE  SettlesAll(RefundOfFiado(a), installments[a], refunds[a])
<1> DEFINE n == Len(installments[a])
           raw == [i \in DOMAIN installments[a] |-> RefundOfInstallment(a, i)]
           some == SomeMoney(raw)
           base == IF some = << >> THEN <<NothingReceived>> ELSE some
           left == account[a].pieces - SumRows(refunds[a], Pieces)
           rows == RefundOfFiado(a)
           Due(j, v) == v - SumOf(refunds[a], Settling(refunds[a], j), Product)
<1>1. n \in Nat /\ DOMAIN installments[a] = 1..n
  BY AccountFacts, SeqFacts
<1>2. ASSUME NEW p \in 1..n
      PROVE  /\ raw[p] \in RefundRow /\ raw[p].payment = 0 /\ raw[p].installment = p
             /\ raw[p].product =
                  installments[a][p].product - SumOf(refunds[a], Settling(refunds[a], p), Product)
             /\ raw[p].service =
                  installments[a][p].service - SumOf(refunds[a], Settling(refunds[a], p), Service)
  <2>1. p \in DOMAIN installments[a]
    BY <1>1
  <2>2. raw[p] = RefundOfInstallment(a, p)
    BY <2>1
  <2> HIDE DEF raw
  <2> QED  BY <2>1, <2>2, LeftOfInstallment
<1>3. raw \in [1..n -> RefundRow]
  <2>1. raw = [p \in 1..n |-> raw[p]]
    BY <1>1
  <2> HIDE DEF raw
  <2> QED  BY <1>2, <2>1
<1>4. rows = WithPieces(base, left)
  BY DEF RefundOfFiado
<1>5. left \in Int /\ NonNegative(left) \in 0..MaxPieces
  <2>1. account[a].pieces \in 0..MaxPieces /\ SumRows(refunds[a], Pieces) \in Nat
    BY AccountFacts, AccountColumns, RefundSums
  <2> QED  BY <2>1, Livro_Bounds DEF NonNegative
<1> HIDE DEF n, raw, left, rows
<1>6. /\ some \in Seq(RefundRow)
      /\ \A k \in DOMAIN some : \E i \in 1..n : some[k] = raw[i]
      /\ (\A i \in 1..n : raw[i].installment = i) => \A p \in 1..n :
           /\ SumOf(some, Settling(some, p), Product) = raw[p].product
           /\ SumOf(some, Settling(some, p), Service) = raw[p].service
  BY <1>1, <1>3, SomeMoneyRows
<1>7. \A k \in DOMAIN some : some[k].payment = 0 /\ some[k].installment \in 0..n
  <2>1. \A i \in 1..n : raw[i].payment = 0 /\ raw[i].installment \in 0..n
    BY <1>1, <1>2
  <2> QED  BY <1>6, <2>1
<1>8. \A p \in 1..n : /\ SumOf(some, Settling(some, p), Product) = raw[p].product
                      /\ SumOf(some, Settling(some, p), Service) = raw[p].service
  BY <1>2, <1>6
<1> HIDE DEF some
<1>9. /\ base \in Seq(RefundRow)
      /\ \A k \in DOMAIN base : base[k].payment = 0 /\ base[k].installment \in 0..n
      /\ \A p \in 1..n : /\ SumOf(base, Settling(base, p), Product) = raw[p].product
                         /\ SumOf(base, Settling(base, p), Service) = raw[p].service
  <2>1. CASE some = << >>
    <3> DEFINE one == <<NothingReceived>>
    <3>1. /\ one \in Seq(RefundRow)
          /\ \A k \in DOMAIN one : one[k].payment = 0 /\ one[k].installment = 0
      BY DayFacts, NothingReceivedRow
    <3>2. base = one
      BY <2>1
    <3> HIDE DEF one, base
    <3>3. \A p \in 1..n : /\ SumOf(one, Settling(one, p), Product) = 0
                          /\ SumOf(one, Settling(one, p), Service) = 0
      <4> TAKE p \in 1..n
      <4>1. \A i \in DOMAIN one : one[i].installment # p
        BY <1>1, <3>1
      <4> QED  BY <4>1, UnsettledTable
    <3>4. \A p \in 1..n : /\ SumOf(some, Settling(some, p), Product) = 0
                          /\ SumOf(some, Settling(some, p), Service) = 0
      <4> TAKE p \in 1..n
      <4>1. \A i \in DOMAIN some : some[i].installment # p
        BY <2>1
      <4> QED  BY <4>1, UnsettledTable
    <3>5. \A k \in DOMAIN base : base[k].payment = 0 /\ base[k].installment \in 0..n
      BY <1>1, <3>1, <3>2
    <3> QED  BY <1>8, <3>1, <3>2, <3>3, <3>4, <3>5
  <2>2. CASE some # << >>
    <3>1. base = some
      BY <2>2
    <3> QED  BY <1>6, <1>7, <1>8, <3>1
  <2> QED  BY <2>1, <2>2
<1> HIDE DEF base
<1>10. /\ rows \in Seq(RefundRow) /\ DOMAIN rows = DOMAIN base
       /\ \A k \in DOMAIN base :
            /\ rows[k].payment = base[k].payment /\ rows[k].installment = base[k].installment
            /\ rows[k].product = base[k].product /\ rows[k].service = base[k].service
  BY <1>4, <1>5, <1>9, WithPiecesRows
<1>11. \A p : /\ SumOf(rows, Settling(rows, p), Product) = SumOf(base, Settling(base, p), Product)
              /\ SumOf(rows, Settling(rows, p), Service) = SumOf(base, Settling(base, p), Service)
  BY <1>10, SameAmounts
<1>12. \A k \in DOMAIN rows : rows[k].payment = 0 /\ rows[k].installment \in 0..n
  BY <1>9, <1>10
<1>13. \A p \in 1..n :
         /\ SumOf(rows, Settling(rows, p), Product) =
              installments[a][p].product - SumOf(refunds[a], Settling(refunds[a], p), Product)
         /\ SumOf(rows, Settling(rows, p), Service) =
              installments[a][p].service - SumOf(refunds[a], Settling(refunds[a], p), Service)
  BY <1>2, <1>9, <1>11
<1> QED  BY <1>1, <1>10, <1>12, <1>13 DEF SettlesAll, rows, n

LEMMA FiadoRefundFits ==
  ASSUME LedgerInv, sessionOpen, NEW a \in Accounts, GiveBack(a, RefundOfFiado(a))
  PROVE  LET q == refunds[a] \o RefundOfFiado(a)
         IN /\ refunds' = [refunds EXCEPT ![a] = q] /\ q \in Seq(RefundRow) /\ position' \in Int
            /\ AccountFits(installments[a], q)
            /\ \A k \in DOMAIN q : q[k].payment = 0 \/ \E i \in DOMAIN refunds[a] : q[k] = refunds[a][i]
            /\ \A p : p # 0 =>
                 /\ SumOf(q, Marked(q, p), Product) = SumOf(refunds[a], Marked(refunds[a], p), Product)
                 /\ SumOf(q, Marked(q, p), Service) = SumOf(refunds[a], Marked(refunds[a], p), Service)
<1> DEFINE rows == RefundOfFiado(a)
           insts == installments[a]
           refs == refunds[a]
           q == refs \o rows
<1>1. /\ insts \in Seq(InstallmentRow) /\ refs \in Seq(RefundRow) /\ AccountFits(insts, refs)
  BY AccountFacts
<1>2. SettlesAll(rows, insts, refs)
  BY FiadoRefundRows
<1>3. refunds' = [refunds EXCEPT ![a] = q] /\ position' = position - SumRows(rows, Gross)
  BY DEF GiveBack
<1> HIDE DEF rows, insts, refs
<1>4. /\ rows \in Seq(RefundRow)
      /\ \A k \in DOMAIN rows : rows[k].payment = 0 /\ rows[k].installment \in 0..Len(insts)
  BY <1>2 DEF SettlesAll
<1>5. position' \in Int
  BY <1>3, <1>4, DayFacts, RefundSums
<1>6. AddedRefunds(refs, rows, q)
  BY <1>1, <1>4, JoinedRefunds
<1> HIDE DEF q
<1>7. q \in Seq(RefundRow)
  BY <1>6 DEF AddedRefunds
<1>8. \A k \in DOMAIN q : (\E i \in DOMAIN refs : q[k] = refs[i]) \/ (\E j \in DOMAIN rows : q[k] = rows[j])
  BY <1>6 DEF AddedRefunds
<1>9. InstallmentsCover(insts, q)
  <2> SUFFICES ASSUME NEW j \in DOMAIN insts
               PROVE  /\ SumOf(q, Settling(q, j), Product) <= insts[j].product
                      /\ SumOf(q, Settling(q, j), Service) <= insts[j].service
    BY DEF InstallmentsCover
  <2>1. insts[j].product \in Nat /\ insts[j].service \in Nat
    BY <1>1, SeqFacts, RowTypes
  <2>2. SumOf(refs, Settling(refs, j), Product) \in Nat /\ SumOf(refs, Settling(refs, j), Service) \in Nat
    BY <1>1, RefundSums
  <2>3. /\ SumOf(q, Settling(q, j), Product) =
             SumOf(refs, Settling(refs, j), Product) + SumOf(rows, Settling(rows, j), Product)
        /\ SumOf(q, Settling(q, j), Service) =
             SumOf(refs, Settling(refs, j), Service) + SumOf(rows, Settling(rows, j), Service)
    BY <1>6 DEF AddedRefunds
  <2>4. /\ SumOf(rows, Settling(rows, j), Product) =
             insts[j].product - SumOf(refs, Settling(refs, j), Product)
        /\ SumOf(rows, Settling(rows, j), Service) =
             insts[j].service - SumOf(refs, Settling(refs, j), Service)
    BY <1>2 DEF SettlesAll
  <2> QED  BY <2>1, <2>2, <2>3, <2>4
<1>10. InstallmentNamesFit(insts, q)
  <2>1. \A i \in DOMAIN refs : refs[i].installment \in 0..Len(insts)
    BY <1>1 DEF AccountFits, InstallmentNamesFit
  <2> QED  BY <1>4, <1>8, <2>1 DEF InstallmentNamesFit
<1>11. \A k \in DOMAIN q : q[k].payment = 0 \/ \E i \in DOMAIN refs : q[k] = refs[i]
  BY <1>4, <1>8
<1>12. ASSUME NEW p, p # 0
       PROVE  /\ SumOf(q, Marked(q, p), Product) = SumOf(refs, Marked(refs, p), Product)
              /\ SumOf(q, Marked(q, p), Service) = SumOf(refs, Marked(refs, p), Service)
  <2>1. Marked(rows, p) = {}
    BY <1>4, <1>12 DEF Marked
  <2>2. SumOf(rows, Marked(rows, p), Product) = 0 /\ SumOf(rows, Marked(rows, p), Service) = 0
    BY <2>1, NoRows
  <2>3. /\ SumOf(q, Marked(q, p), Product) =
             SumOf(refs, Marked(refs, p), Product) + SumOf(rows, Marked(rows, p), Product)
        /\ SumOf(q, Marked(q, p), Service) =
             SumOf(refs, Marked(refs, p), Service) + SumOf(rows, Marked(rows, p), Service)
    BY <1>6 DEF AddedRefunds
  <2>4. SumOf(refs, Marked(refs, p), Product) \in Nat /\ SumOf(refs, Marked(refs, p), Service) \in Nat
    BY <1>1, RefundSums
  <2> QED  BY <2>2, <2>3, <2>4
<1>13. AccountFits(insts, q)
  BY <1>9, <1>10 DEF AccountFits
<1> QED  BY <1>3, <1>5, <1>7, <1>11, <1>12, <1>13 DEF q, rows, insts, refs

LEMMA EstornarFiadoKeeps ==
  ASSUME LedgerInv, NEW o \in Orders, EstornarFiado(o)
  PROVE  LedgerInv'
<1> DEFINE ord == [order[o] EXCEPT !.estorno = TRUE]
           acc == Undone(account[o])
           refs == refunds[o]
           pays == payments[o]
           q == refs \o RefundOfFiado(o)
<1>1. /\ sessionOpen /\ order[o].fiado /\ GiveBack(o, RefundOfFiado(o))
      /\ order' = [order EXCEPT ![o] = ord] /\ account' = [account EXCEPT ![o] = acc]
      /\ UNCHANGED <<session, sessionOpen, payments, installments>>
  BY DEF EstornarFiado, Cancelled, Undone
<1>2. /\ o \in Accounts /\ order[o] \in OrderRecord /\ pays \in Seq(PaymentRow)
      /\ account[o] \in AccountRecord /\ installments[o] \in Seq(InstallmentRow)
      /\ refs \in Seq(RefundRow)
      /\ OrderFits(order[o], pays, account[o], installments[o], refs)
  BY SaleFacts
<1>3. ord \in OrderRecord /\ ord.estorno /\ ord.fiado = order[o].fiado /\ ord.status = order[o].status
  BY SaleFacts, DayFacts, OrderUpdates
<1>4. acc \in AccountRecord
  BY <1>2, AccountUndone
<1> HIDE DEF ord, acc
<1>5. ord.status = "finalizada"
  BY <1>1, <1>2, <1>3 DEF OrderFits, StatusFits
<1>6. /\ refunds' = [refunds EXCEPT ![o] = q] /\ q \in Seq(RefundRow) /\ position' \in Int
      /\ AccountFits(installments[o], q)
      /\ \A k \in DOMAIN q : q[k].payment = 0 \/ \E i \in DOMAIN refs : q[k] = refs[i]
      /\ \A p : p # 0 =>
           /\ SumOf(q, Marked(q, p), Product) = SumOf(refs, Marked(refs, p), Product)
           /\ SumOf(q, Marked(q, p), Service) = SumOf(refs, Marked(refs, p), Service)
  BY <1>1, <1>2, FiadoRefundFits
<1> HIDE DEF q
<1>7. DOMAIN pays = 1..Len(pays) /\ Len(pays) \in Nat
  BY <1>2, SeqFacts
<1> HIDE DEF pays, refs
<1>8. PaymentsCover(pays, q)
  <2>1. \A p \in DOMAIN pays : p # 0
    BY <1>7
  <2>2. PaymentsCover(pays, refs)
    BY <1>2 DEF OrderFits
  <2> QED  BY <1>6, <2>1, <2>2 DEF PaymentsCover
<1>9. NamesFit(ord, pays, q)
  <2>1. \A i \in DOMAIN refs : refs[i].payment \in 0..Len(pays)
    BY <1>2 DEF OrderFits, NamesFit
  <2>2. \A k \in DOMAIN q : q[k].payment \in 0..Len(pays)
    BY <1>6, <1>7, <2>1
  <2> QED  BY <1>5, <2>2 DEF NamesFit
<1>10. PiecesFit(ord, pays, q)
  BY <1>2, <1>3, <1>5 DEF OrderFits, PiecesFit, Partly
<1>11. StatusFits(ord, pays, acc, installments[o], q)
  BY <1>1, <1>3, <1>5 DEF StatusFits
<1>12. OrderFits(ord, pays, acc, installments[o], q)
  BY <1>8, <1>9, <1>10, <1>11 DEF OrderFits
<1>13. StillDay /\ OrderStep(o, ord, pays) /\ AccountStep(o, acc, installments[o], q)
  BY <1>1, <1>2, <1>6, Unchanged DEF StillDay, OrderStep, AccountStep, pays
<1> QED  BY <1>2, <1>3, <1>4, <1>6, <1>12, <1>13, OrderSale

LEMMA CancelConsignmentKeeps ==
  ASSUME LedgerInv, NEW d \in Direct, CancelConsignment(d)
  PROVE  LedgerInv'
<1> DEFINE acc == Undone(account[d])
           q == refunds[d] \o RefundOfFiado(d)
<1>1. /\ sessionOpen /\ GiveBack(d, RefundOfFiado(d)) /\ account' = [account EXCEPT ![d] = acc]
      /\ UNCHANGED <<session, sessionOpen, order, payments, installments>>
  BY DEF CancelConsignment, Cancelled, Undone
<1>2. d \in Accounts
  BY DEF Accounts
<1>3. account[d] \in AccountRecord /\ installments[d] \in Seq(InstallmentRow)
  BY <1>2, AccountFacts
<1>4. acc \in AccountRecord
  BY <1>3, AccountUndone
<1>5. /\ refunds' = [refunds EXCEPT ![d] = q] /\ q \in Seq(RefundRow) /\ position' \in Int
      /\ AccountFits(installments[d], q)
  BY <1>1, <1>2, FiadoRefundFits
<1> HIDE DEF acc, q
<1>6. StillDay /\ order' = order /\ payments' = payments /\ AccountStep(d, acc, installments[d], q)
  BY <1>1, <1>2, <1>5, Unchanged DEF StillDay, AccountStep
<1> QED  BY <1>3, <1>4, <1>5, <1>6, DirectSale

-----------------------------------------------------------------------------
(* Refunds piece by piece.                                                 *)

(* The pieces of a payment that have not been given back.                  *)
LEMMA AvailablePieces ==
  ASSUME LedgerInv, NEW o \in Orders, Partly(order[o]), NEW p \in DOMAIN payments[o]
  PROVE  /\ Available(o, p) \in Nat /\ payments[o][p].pieces \in 0..MaxPieces
         /\ Available(o, p) = payments[o][p].pieces - SumOf(refunds[o], Marked(refunds[o], p), Pieces)
<1> DEFINE given == SumOf(refunds[o], Marked(refunds[o], p), Pieces)
<1>1. /\ payments[o] \in Seq(PaymentRow) /\ refunds[o] \in Seq(RefundRow)
      /\ PiecesFit(order[o], payments[o], refunds[o])
  BY SaleFacts DEF OrderFits
<1>2. payments[o][p].pieces \in 0..MaxPieces /\ payments[o][p].pieces \in Nat
  <2>1. payments[o][p] \in PaymentRow
    BY <1>1, SeqFacts
  <2> QED  BY <2>1, Livro_Bounds DEF PaymentRow
<1>3. given \in Nat /\ given <= payments[o][p].pieces
  BY <1>1, RefundSums DEF PiecesFit
<1>4. Available(o, p) = NonNegative(payments[o][p].pieces - given)
  BY DEF Available, Returned, OfPayment, Marked
<1> HIDE DEF given
<1>5. NonNegative(payments[o][p].pieces - given) = payments[o][p].pieces - given
      /\ payments[o][p].pieces - given \in Nat
  BY <1>2, <1>3 DEF NonNegative
<1> QED  BY <1>2, <1>4, <1>5 DEF given

(* The service of some pieces, at most what is left of the service of      *)
(* their payment.                                                          *)
LEMMA ServiceOfPieces ==
  ASSUME NEW service \in Nat, NEW quantity \in Nat, NEW already \in 0..service,
         NEW available \in 0..quantity, NEW take \in 0..available
  PROVE  LET back == IF take = 0 THEN 0 ELSE ServiceBack(service, quantity, already, available, take)
         IN back \in Nat /\ already + back <= service
<1>1. CASE take = 0
  BY <1>1
<1>2. CASE take # 0
  <2>1. quantity \in Nat \ {0} /\ available \in 1..quantity /\ take \in 1..available
    BY <1>2
  <2>2. LET back == ServiceBack(service, quantity, already, available, take)
        IN back \in Nat /\ already + back <= service
    BY <2>1, ServiceBackBounded
  <2> QED  BY <1>2, <2>2
<1> QED  BY <1>1, <1>2

(* The refund of `take` pieces of a payment.                               *)
PieceRefund(r, p, row, refs, take) ==
  /\ r \in RefundRow /\ r.payment = p /\ r.installment = 0
  /\ r.product = Price * take /\ r.pieces = take
  /\ take = 0 => r.product = 0 /\ r.service = 0
  /\ SumOf(refs, Marked(refs, p), Product) + r.product <= row.product
  /\ SumOf(refs, Marked(refs, p), Service) + r.service <= row.service
  /\ SumOf(refs, Marked(refs, p), Pieces) + r.pieces <= row.pieces
  /\ SumOf(refs, Marked(refs, p), Product) + r.product
       = Price * (SumOf(refs, Marked(refs, p), Pieces) + r.pieces)

LEMMA RefundOfSomePieces ==
  ASSUME LedgerInv, sessionOpen, NEW o \in Orders, Partly(order[o]), NEW p \in DOMAIN payments[o],
         NEW take \in Nat, take <= Available(o, p)
  PROVE  PieceRefund(RefundOfPieces(o, p, take), p, payments[o][p], refunds[o], take)
<1> DEFINE row == payments[o][p]
           done == Marked(refunds[o], p)
           product == SumOf(refunds[o], done, Product)
           already == SumOf(refunds[o], done, Service)
           given == SumOf(refunds[o], done, Pieces)
           av == Available(o, p)
           service == IF take = 0 THEN 0 ELSE ServiceBack(row.service, row.pieces, already, av, take)
           sale == order[o].status = "finalizada"
           r == RefundOfPieces(o, p, take)
<1>1. /\ payments[o] \in Seq(PaymentRow) /\ refunds[o] \in Seq(RefundRow)
      /\ PiecesFit(order[o], payments[o], refunds[o]) /\ PaymentsCover(payments[o], refunds[o])
  BY SaleFacts DEF OrderFits
<1>2. row \in PaymentRow /\ p \in Nat
  BY <1>1, SeqFacts
<1>3. /\ row.product \in Nat /\ row.service \in Nat /\ row.method \in Methods \cup {"fiado"}
      /\ row.period \in Nat /\ row.pieces \in Nat
  BY <1>2, RowTypes DEF PaymentRow
<1>4. av \in Nat /\ row.pieces \in 0..MaxPieces /\ av = row.pieces - given
  BY AvailablePieces
<1>5. product \in Nat /\ already \in Nat /\ given \in Nat
  BY <1>1, RefundSums
<1>6. /\ product = Price * given /\ given <= row.pieces /\ already <= row.service
      /\ row.pieces > 0 => row.product = Price * row.pieces
      /\ product <= row.product
  BY <1>1 DEF PiecesFit, PaymentsCover
<1>7. r = Refund(p, 0, Price * take, service, row.method, sale, TRUE, Repassed(row.period), take)
  BY DEF RefundOfPieces, Returned, OfPayment, Marked
<1>8. sale \in BOOLEAN /\ Repassed(row.period) \in BOOLEAN /\ session \in 1..session /\ Price \in Nat
  BY DayFacts, Livro_Amounts DEF Repassed
<1> HIDE DEF row, done, product, already, given, av, sale
<1>9. take \in 0..MaxPieces /\ Price * take \in Nat
  <2>1. take <= av /\ av <= row.pieces /\ row.pieces <= MaxPieces
    BY <1>3, <1>4, <1>5, Livro_Bounds DEF av
  <2> QED  BY <1>3, <1>4, <1>8, <2>1, NatProduct, Livro_Bounds
<1>10. service \in Nat /\ already + service <= row.service
  <2>1. already \in 0..row.service /\ av \in 0..row.pieces /\ take \in 0..av
    BY <1>3, <1>4, <1>5, <1>6 DEF av
  <2> QED  BY <1>3, <2>1, ServiceOfPieces
<1>11. take = 0 => service = 0 /\ Price * take = 0
  BY <1>8
<1> HIDE DEF service, r
<1>12. /\ r \in RefundRow /\ r.payment = p /\ r.installment = 0 /\ r.product = Price * take
       /\ r.pieces = take /\ r.service = service
  <2> DEFINE pp == Price * take
  <2>1. pp \in Nat /\ r = Refund(p, 0, pp, service, row.method, sale, TRUE, Repassed(row.period), take)
    BY <1>7, <1>9
  <2> HIDE DEF pp
  <2>2. /\ r \in RefundRow /\ r.payment = p /\ r.installment = 0 /\ r.product = pp
        /\ r.pieces = take /\ r.service = service
    BY <1>2, <1>3, <1>8, <1>9, <1>10, <2>1 DEF Refund, RefundRow
  <2> QED  BY <2>2 DEF pp
<1>13. given + take <= row.pieces
  BY <1>3, <1>4, <1>5 DEF av
<1>14. product + Price * take = Price * (given + take)
  BY <1>5, <1>6, <1>8
<1>15. product + Price * take <= row.product
  <2>1. CASE row.pieces = 0
    <3>1. take = 0
      BY <1>5, <1>13, <2>1
    <3> QED  BY <1>3, <1>5, <1>6, <1>11, <3>1
  <2>2. CASE row.pieces # 0
    <3>1. row.product = Price * row.pieces
      BY <1>3, <1>6, <2>2
    <3>2. Price * (given + take) <= Price * row.pieces
      <4> DEFINE a == given + take
      <4>1. a \in Nat /\ a <= row.pieces
        BY <1>5, <1>13
      <4> HIDE DEF a
      <4>2. row.pieces - a \in Nat /\ Price * (row.pieces - a) \in Nat
        BY <1>3, <1>8, <4>1, NatProduct
      <4>3. Price * row.pieces = Price * a + Price * (row.pieces - a)
        BY <1>3, <1>8, <4>1
      <4>4. Price * a \in Nat
        BY <1>8, <4>1, NatProduct
      <4> QED  BY <4>2, <4>3, <4>4 DEF a
    <3> QED  BY <1>14, <3>1, <3>2
  <2> QED  BY <2>1, <2>2
<1> QED  BY <1>10, <1>11, <1>12, <1>13, <1>14, <1>15
         DEF PieceRefund, product, already, given, done, row, r

(* The refunds of n pieces, oldest payment first: n pieces in all, of each *)
(* payment no more than it has left.                                       *)
PieceRefunds(rows, n, pays, refs) ==
  /\ rows \in Seq(RefundRow)
  /\ \A k \in DOMAIN rows : rows[k].payment \in 1..Len(pays) /\ rows[k].installment = 0
  /\ \A p \in DOMAIN pays :
       /\ SumOf(refs, Marked(refs, p), Product) + SumOf(rows, Marked(rows, p), Product)
            <= pays[p].product
       /\ SumOf(refs, Marked(refs, p), Service) + SumOf(rows, Marked(rows, p), Service)
            <= pays[p].service
       /\ SumOf(refs, Marked(refs, p), Pieces) + SumOf(rows, Marked(rows, p), Pieces)
            <= pays[p].pieces
       /\ SumOf(refs, Marked(refs, p), Product) + SumOf(rows, Marked(rows, p), Product)
            = Price * (SumOf(refs, Marked(refs, p), Pieces) + SumOf(rows, Marked(rows, p), Pieces))
  /\ SumRows(rows, Pieces) = n

LEMMA TakenPieces ==
  ASSUME LedgerInv, NEW o \in Orders, Partly(order[o]), NEW n \in Nat,
         n <= SumF([p \in DOMAIN payments[o] |-> Available(o, p)])
  PROVE  /\ \A p \in DOMAIN payments[o] : Taken(o, n, p) \in Nat /\ Taken(o, n, p) <= Available(o, p)
         /\ SumF([p \in DOMAIN payments[o] |-> Taken(o, n, p)]) = n
<1> DEFINE k == Len(payments[o])
           a == [p \in 1..k |-> Available(o, p)]
           t == [p \in 1..k |-> Taken(o, n, p)]
<1>1. k \in Nat /\ DOMAIN payments[o] = 1..k
  BY SaleFacts, SeqFacts
<1>2. \A p \in 1..k : Available(o, p) \in Nat
  BY <1>1, AvailablePieces
<1>3. a \in [1..k -> Nat] /\ \A p \in 1..k : a[p] = Available(o, p)
  BY <1>2
<1>4. n <= SumF(a)
  BY <1>1
<1>5. \A p \in 1..k : [q \in 1..(p - 1) |-> Available(o, q)] = [q \in 1..(p - 1) |-> a[q]]
  <2> TAKE p \in 1..k
  <2>1. \A q \in 1..(p - 1) : q \in 1..k
    BY <1>1
  <2> QED  BY <1>3, <2>1
<1>6. \A p \in 1..k : UpTo(a, p - 1) = SumF([q \in 1..(p - 1) |-> Available(o, q)])
  BY <1>5 DEF UpTo
<1>7. \A j \in 0..k : UpTo(a, j) \in Nat
  BY <1>1, <1>3, UpToLaws
<1> HIDE DEF a
<1>8. ASSUME NEW p \in 1..k
      PROVE  /\ Taken(o, n, p) = LET rest == IF n > UpTo(a, p - 1) THEN n - UpTo(a, p - 1) ELSE 0
                                 IN IF a[p] <= rest THEN a[p] ELSE rest
             /\ Taken(o, n, p) \in Nat /\ Taken(o, n, p) <= a[p]
  <2> DEFINE u == UpTo(a, p - 1)
  <2>1. u \in Nat
    BY <1>1, <1>7
  <2>2. Taken(o, n, p) = AtMost(a[p], NonNegative(n - u))
    BY <1>3, <1>6 DEF Taken
  <2>3. a[p] \in Nat
    BY <1>3
  <2> HIDE DEF u
  <2>4. n - u > 0 <=> n > u
    BY <2>1
  <2>5. Taken(o, n, p) = LET rest == IF n > u THEN n - u ELSE 0
                         IN IF a[p] <= rest THEN a[p] ELSE rest
    BY <2>2, <2>4 DEF AtMost, NonNegative
  <2>6. Taken(o, n, p) \in Nat /\ Taken(o, n, p) <= a[p]
    BY <2>1, <2>3, <2>5
  <2> QED  BY <2>5, <2>6 DEF u
<1>9. t \in [1..k -> Nat] /\ \A p \in 1..k : t[p] = Taken(o, n, p)
  BY <1>8
<1> HIDE DEF t, k
<1>10. \A p \in 1..k : t[p] = LET rest == IF n > UpTo(a, p - 1) THEN n - UpTo(a, p - 1) ELSE 0
                              IN IF a[p] <= rest THEN a[p] ELSE rest
  BY <1>8, <1>9
<1>11. SumF(t) = n
  BY <1>1, <1>3, <1>4, <1>9, <1>10, SumGreedy
<1> QED  BY <1>1, <1>3, <1>8, <1>11 DEF t

LEMMA PieceRefundRows ==
  ASSUME LedgerInv, sessionOpen, NEW o \in Orders, Partly(order[o]), NEW n \in Nat,
         n <= SumF([p \in DOMAIN payments[o] |-> Available(o, p)])
  PROVE  PieceRefunds(SomePieces([p \in DOMAIN payments[o] |-> RefundOfPieces(o, p, Taken(o, n, p))]),
                      n, payments[o], refunds[o])
<1> DEFINE pays == payments[o]
           refs == refunds[o]
           k == Len(pays)
           raw == [p \in DOMAIN pays |-> RefundOfPieces(o, p, Taken(o, n, p))]
           S == {i \in DOMAIN raw : Pieces(raw[i]) > 0}
           rows == SomePieces(raw)
<1>1. k \in Nat /\ DOMAIN pays = 1..k
  BY SaleFacts, SeqFacts
<1>2. \A p \in 1..k : PieceRefund(raw[p], p, pays[p], refs, Taken(o, n, p))
  <2> TAKE p \in 1..k
  <2>1. p \in DOMAIN payments[o]
    BY <1>1
  <2>2. Taken(o, n, p) \in Nat /\ Taken(o, n, p) <= Available(o, p)
    BY <2>1, TakenPieces
  <2>3. raw[p] = RefundOfPieces(o, p, Taken(o, n, p))
    BY <2>1
  <2> HIDE DEF raw
  <2> QED  BY <2>1, <2>2, <2>3, RefundOfSomePieces
<1>3. rows = Kept(raw, S)
  BY DEF SomePieces
<1>4. SumF([p \in DOMAIN pays |-> Taken(o, n, p)]) = n
  BY TakenPieces
<1>5. DOMAIN raw = 1..k
  BY <1>1
<1>6. raw = [p \in 1..k |-> raw[p]]
  BY <1>1
<1> HIDE DEF raw, pays, refs, k
<1>7. \A p \in 1..k : /\ raw[p] \in RefundRow /\ raw[p].payment = p /\ raw[p].installment = 0
                      /\ raw[p].pieces = Taken(o, n, p)
                      /\ raw[p].pieces = 0 => raw[p].product = 0 /\ raw[p].service = 0
  BY <1>2 DEF PieceRefund
<1>8. raw \in [1..k -> RefundRow]
  BY <1>6, <1>7
<1>9. \A p \in 1..k : raw[p].product \in Nat /\ raw[p].service \in Nat /\ raw[p].pieces \in Nat
  BY <1>7, RowTypes
<1>10. MoneyRows(raw, k) /\ PieceRows(raw)
  BY <1>5, <1>9 DEF MoneyRows, PieceRows
<1>11. Places(S, k) /\ \A i \in 1..k : i \notin S => raw[i].pieces = 0
  BY <1>5, <1>9 DEF Places, Pieces
<1> HIDE DEF S
<1>12. Filtered(raw, k, S)
  BY <1>7, <1>8, <1>11 DEF Filtered
<1>13. \A i \in 1..k : raw[i].payment = i
  BY <1>7
<1> HIDE DEF rows
<1>14. /\ rows \in Seq(RefundRow)
       /\ \A j \in DOMAIN rows : \E i \in 1..k : rows[j] = raw[i]
       /\ SumRows(rows, Pieces) = SumRows(raw, Pieces)
       /\ \A p \in 1..k : /\ SumOf(rows, Marked(rows, p), Product) = raw[p].product
                          /\ SumOf(rows, Marked(rows, p), Service) = raw[p].service
                          /\ SumOf(rows, Marked(rows, p), Pieces) = raw[p].pieces
  BY <1>1, <1>3, <1>10, <1>11, <1>12, <1>13, KeptRefunds
<1>15. SumRows(raw, Pieces) = n
  <2>1. [i \in DOMAIN raw |-> Pieces(raw[i])] = [p \in DOMAIN pays |-> Taken(o, n, p)]
    BY <1>1, <1>5, <1>7 DEF Pieces
  <2> QED  BY <1>4, <2>1 DEF SumRows, SumOf
<1>16. \A j \in DOMAIN rows : rows[j].payment \in 1..k /\ rows[j].installment = 0
  BY <1>7, <1>14
<1>17. \A p \in DOMAIN pays :
         /\ SumOf(refs, Marked(refs, p), Product) + SumOf(rows, Marked(rows, p), Product)
              <= pays[p].product
         /\ SumOf(refs, Marked(refs, p), Service) + SumOf(rows, Marked(rows, p), Service)
              <= pays[p].service
         /\ SumOf(refs, Marked(refs, p), Pieces) + SumOf(rows, Marked(rows, p), Pieces)
              <= pays[p].pieces
         /\ SumOf(refs, Marked(refs, p), Product) + SumOf(rows, Marked(rows, p), Product)
              = Price * (SumOf(refs, Marked(refs, p), Pieces) + SumOf(rows, Marked(rows, p), Pieces))
  <2> TAKE p \in DOMAIN pays
  <2>1. PieceRefund(raw[p], p, pays[p], refs, Taken(o, n, p))
    BY <1>1, <1>2
  <2>2. /\ SumOf(rows, Marked(rows, p), Product) = raw[p].product
        /\ SumOf(rows, Marked(rows, p), Service) = raw[p].service
        /\ SumOf(rows, Marked(rows, p), Pieces) = raw[p].pieces
    BY <1>1, <1>14
  <2> QED  BY <2>1, <2>2 DEF PieceRefund
<1>18. PieceRefunds(rows, n, pays, refs)
  BY <1>14, <1>15, <1>16, <1>17 DEF PieceRefunds, k
<1> QED  BY <1>18 DEF rows, raw, pays, refs

(* An open comanda holds the pieces that can still be given back.          *)
LEMMA OpenHoldsAvailable ==
  ASSUME LedgerInv, NEW o \in Orders, order[o].status = "aberta", Partly(order[o])
  PROVE  SumF([p \in DOMAIN payments[o] |-> Available(o, p)]) <= order[o].pieces
<1> DEFINE pays == payments[o]
           refs == refunds[o]
           k == Len(pays)
           N == 1..k
           a == [p \in N |-> Available(o, p)]
           g == Groups(refs, k, PiecesOf(refs))
           c == PiecesOf(pays)
<1>1. /\ pays \in Seq(PaymentRow) /\ refs \in Seq(RefundRow)
      /\ NamesFit(order[o], pays, refs) /\ PiecesFit(order[o], pays, refs)
  BY SaleFacts DEF OrderFits
<1>2. k \in Nat /\ DOMAIN pays = N /\ MoneyRows(pays, k) /\ PieceRows(pays)
  BY <1>1, PaymentTable
<1>3. \A i \in DOMAIN refs : refs[i].payment \in 1..k
  BY <1>1, <1>2 DEF NamesFit
<1>4. /\ g \in [N -> Nat] /\ SumF(g) = SumRows(refs, Pieces)
      /\ \A p \in N : g[p] = SumOf(refs, Marked(refs, p), Pieces)
  <2> HIDE DEF k, refs
  <2> QED  BY <1>1, <1>2, <1>3, RefundGroups
<1>5. c \in [N -> Nat] /\ \A p \in N : c[p] = pays[p].pieces
  <2> HIDE DEF k, pays
  <2> QED  BY <1>2, ColumnTypes
<1>6. \A p \in N : Available(o, p) \in Nat /\ Available(o, p) = pays[p].pieces - g[p]
  BY <1>2, <1>4, AvailablePieces
<1>7. a \in [N -> Nat] /\ \A p \in N : a[p] = Available(o, p)
  BY <1>6
<1>8. SumF(c) = SumRows(pays, Pieces)
  BY <1>2, <1>5, ColumnTotals, SumOnLaws
<1>9. IsFiniteSet(N)
  BY <1>2, FS_Interval
<1> HIDE DEF g, c, a, N
<1>10. \A p \in N : c[p] = a[p] + g[p]
  BY <1>4, <1>5, <1>6, <1>7
<1>11. SumF(c) = SumF(a) + SumF(g)
  <2>1. c = [p \in N |-> a[p] + g[p]]
    BY <1>5, <1>10
  <2> QED  BY <1>4, <1>7, <1>9, <2>1, SumAdditive
<1>12. SumF(a) \in Nat /\ SumF(g) \in Nat
  BY <1>4, <1>7, <1>9, SumType
<1>13. SumRows(pays, Pieces) - SumRows(refs, Pieces) <= order[o].pieces
  BY <1>1 DEF PiecesFit
<1>14. SumF(a) <= order[o].pieces
  <2>1. order[o].pieces \in Nat
    BY SaleFacts, OrderFields
  <2> QED  BY <1>4, <1>8, <1>11, <1>12, <1>13, <2>1
<1>15. a = [p \in DOMAIN payments[o] |-> Available(o, p)]
  BY <1>2 DEF a
<1> QED  BY ONLY <1>14, <1>15

(* What a refund of pieces writes in the comanda.                          *)
LEMMA GivenWhenClosed ==
  ASSUME NEW r \in OrderRecord, session \in Nat, NEW n \in Nat
  PROVE  LET u == [r EXCEPT !.refunded = @ + n]
         IN u \in OrderRecord /\ SameSale(u, r) /\ u.status = r.status
<1>1. r.refunded + n \in Nat
  BY OrderFields
<1> QED  BY <1>1 DEF SameSale, OrderRecord

LEMMA GivenWhenOpen ==
  ASSUME NEW r \in OrderRecord, session \in Nat, NEW n \in 0..r.pieces, NEW given \in Nat
  PROVE  LET u == [r EXCEPT !.pieces = @ - n, !.total = Price * (r.pieces - n), !.refunded = given]
         IN /\ u \in OrderRecord /\ SameSale(u, r) /\ u.status = r.status
            /\ u.pieces = r.pieces - n
<1>1. r.pieces - n \in Nat /\ r.pieces - n \in 0..MaxPieces /\ Price \in Nat
  BY OrderFields, Livro_Bounds, Livro_Amounts
<1>2. Price * (r.pieces - n) \in Nat
  BY <1>1, NatProduct
<1> QED  BY <1>1, <1>2 DEF SameSale, OrderRecord

LEMMA RefundPiecesKeeps ==
  ASSUME LedgerInv, NEW o \in Orders, NEW n \in 1..MaxPieces, RefundPieces(o, n)
  PROVE  LedgerInv'
<1> DEFINE pays == payments[o]
           refs == refunds[o]
           rows == SomePieces([p \in DOMAIN payments[o] |-> RefundOfPieces(o, p, Taken(o, n, p))])
           q == refs \o rows
           closed == [order[o] EXCEPT !.refunded = @ + n]
           given == IF n = order[o].pieces THEN 0 ELSE order[o].refunded + n
           open == [order[o] EXCEPT !.pieces = @ - n, !.total = Price * (order[o].pieces - n),
                                    !.refunded = given]
           ord == IF order[o].status = "finalizada" THEN closed ELSE open
<1>1. /\ o \in Accounts /\ order[o] \in OrderRecord /\ pays \in Seq(PaymentRow)
      /\ account[o] \in AccountRecord /\ installments[o] \in Seq(InstallmentRow)
      /\ refs \in Seq(RefundRow)
      /\ OrderFits(order[o], pays, account[o], installments[o], refs)
      /\ AccountFits(installments[o], refs)
  BY SaleFacts
<1>2. /\ sessionOpen /\ order[o].status \in {"aberta", "finalizada"} /\ Partly(order[o])
      /\ n <= SumF([p \in DOMAIN payments[o] |-> Available(o, p)])
      /\ GiveBack(o, rows)
      /\ UNCHANGED <<session, sessionOpen, payments, account, installments>>
  BY DEF RefundPieces, Partly
<1>3. order' = [order EXCEPT ![o] = ord]
  <2>1. CASE order[o].status = "finalizada"
    BY <2>1 DEF RefundPieces
  <2>2. CASE order[o].status # "finalizada"
    BY <2>2 DEF RefundPieces
  <2> QED  BY <2>1, <2>2
<1>4. n \in Nat /\ order[o].pieces \in Nat /\ order[o].refunded \in Nat /\ given \in Nat
  BY <1>1, OrderFields, Livro_Bounds
<1>5. PieceRefunds(rows, n, pays, refs)
  BY <1>2, <1>4, PieceRefundRows
<1>6. order[o].status = "aberta" => n <= order[o].pieces
  <2> SUFFICES ASSUME order[o].status = "aberta" PROVE n <= order[o].pieces
    OBVIOUS
  <2>1. SumF([p \in DOMAIN payments[o] |-> Available(o, p)]) <= order[o].pieces
    BY <1>2, OpenHoldsAvailable
  <2>2. SumF([p \in DOMAIN payments[o] |-> Available(o, p)]) \in Nat
    <3> DEFINE D == DOMAIN payments[o]  f == [p \in D |-> Available(o, p)]
    <3>1. \A p \in D : Available(o, p) \in Nat
      BY <1>2, AvailablePieces
    <3>2. Len(payments[o]) \in Nat /\ D = 1..Len(payments[o])
      BY <1>1, SeqFacts
    <3>3. IsFiniteSet(D)
      BY <3>2, FS_Interval
    <3>4. f \in [D -> Nat]
      BY <3>1
    <3>5. SumF(f) \in Nat
      <4> HIDE DEF D, f
      <4> QED  BY <3>3, <3>4, SumType
    <3> QED  BY <3>5
  <2> QED  BY <1>2, <1>4, <2>1, <2>2
<1>7. /\ ord \in OrderRecord /\ ord.fiado = order[o].fiado /\ ord.estorno = order[o].estorno
      /\ ord.status = order[o].status
      /\ order[o].status = "aberta" => ord.pieces = order[o].pieces - n
  <2>1. CASE order[o].status = "finalizada"
    <3>1. closed \in OrderRecord /\ SameSale(closed, order[o]) /\ closed.status = order[o].status
      BY <1>1, <1>4, DayFacts, GivenWhenClosed
    <3>2. ord = closed
      BY <2>1
    <3> HIDE DEF ord, closed
    <3> QED  BY <2>1, <3>1, <3>2 DEF SameSale
  <2>2. CASE order[o].status = "aberta"
    <3>1. n \in 0..order[o].pieces
      BY <1>4, <1>6, <2>2
    <3> HIDE DEF given
    <3>2. /\ open \in OrderRecord /\ SameSale(open, order[o]) /\ open.status = order[o].status
          /\ open.pieces = order[o].pieces - n
      BY <1>1, <1>4, <3>1, DayFacts, GivenWhenOpen
    <3>3. ord = open
      BY <2>2
    <3> HIDE DEF ord, open
    <3> QED  BY <3>2, <3>3 DEF SameSale
  <2> QED  BY <1>2, <2>1, <2>2
<1> HIDE DEF ord, closed, open, given, rows
<1>8. refunds' = [refunds EXCEPT ![o] = q] /\ position' = position - SumRows(rows, Gross)
  BY <1>2 DEF GiveBack
<1>9. AddedRefunds(refs, rows, q)
  BY <1>1, <1>5, JoinedRefunds DEF PieceRefunds
<1>10. position' \in Int
  BY <1>5, <1>8, DayFacts, RefundSums DEF PieceRefunds
<1>11. Len(pays) \in Nat /\ DOMAIN pays = 1..Len(pays)
  BY <1>1, SeqFacts
<1> HIDE DEF q
<1>12. /\ q \in Seq(RefundRow)
       /\ \A k \in DOMAIN q : (\E i \in DOMAIN refs : q[k] = refs[i]) \/ (\E j \in DOMAIN rows : q[k] = rows[j])
       /\ SumRows(q, Pieces) = SumRows(refs, Pieces) + n
  BY <1>5, <1>9 DEF AddedRefunds, PieceRefunds
<1>13. \A p \in DOMAIN pays :
         /\ SumOf(q, Marked(q, p), Product) <= pays[p].product
         /\ SumOf(q, Marked(q, p), Service) <= pays[p].service
         /\ SumOf(q, Marked(q, p), Pieces) <= pays[p].pieces
         /\ SumOf(q, Marked(q, p), Product) = Price * SumOf(q, Marked(q, p), Pieces)
  BY <1>5, <1>9 DEF AddedRefunds, PieceRefunds
<1>14. PaymentsCover(pays, q)
  BY <1>13 DEF PaymentsCover
<1>15. NamesFit(ord, pays, q)
  <2>1. \A i \in DOMAIN refs : /\ refs[i].payment \in 0..Len(pays)
                               /\ ord.status = "aberta" => refs[i].payment # 0
    BY <1>1, <1>7 DEF OrderFits, NamesFit
  <2>2. \A i \in DOMAIN rows : rows[i].payment \in 0..Len(pays) /\ rows[i].payment # 0
    BY <1>5, <1>11 DEF PieceRefunds
  <2> QED  BY <1>12, <2>1, <2>2 DEF NamesFit
<1>16. PiecesFit(ord, pays, q)
  <2>1. ASSUME ord.status = "aberta" PROVE SumRows(pays, Pieces) - SumRows(q, Pieces) <= ord.pieces
    <3>1. SumRows(pays, Pieces) - SumRows(refs, Pieces) <= order[o].pieces
      BY <1>1, <1>7, <2>1 DEF OrderFits, PiecesFit
    <3>2. SumRows(pays, Pieces) \in Nat /\ SumRows(refs, Pieces) \in Nat
      BY <1>1, PaymentTotals, RefundSums
    <3>3. ord.pieces = order[o].pieces - n
      BY <1>7, <2>1
    <3> QED  BY <1>4, <1>12, <3>1, <3>2, <3>3
  <2>2. \A p \in DOMAIN pays : pays[p].pieces > 0 => pays[p].product = Price * pays[p].pieces
    BY <1>1 DEF OrderFits, PiecesFit
  <2> QED  BY <1>13, <2>1, <2>2 DEF PiecesFit
<1>17. StatusFits(ord, pays, account[o], installments[o], q)
  <2>1. StatusFits(order[o], pays, account[o], installments[o], refs)
    BY <1>1 DEF OrderFits
  <2> QED  BY <1>2, <1>7, <2>1 DEF StatusFits
<1>18. OrderFits(ord, pays, account[o], installments[o], q)
  BY <1>14, <1>15, <1>16, <1>17 DEF OrderFits
<1>19. AccountFits(installments[o], q)
  <2>1. AccountFits(installments[o], refs)
    BY <1>1
  <2>2. \A j \in DOMAIN installments[o] : j # 0
    BY <1>1, SeqFacts
  <2>3. \A j : j # 0 => Settling(rows, j) = {}
    BY <1>5 DEF PieceRefunds, Settling
  <2>4. ASSUME NEW j \in DOMAIN installments[o]
        PROVE  /\ SumOf(q, Settling(q, j), Product) = SumOf(refs, Settling(refs, j), Product)
               /\ SumOf(q, Settling(q, j), Service) = SumOf(refs, Settling(refs, j), Service)
    <3>1. SumOf(rows, Settling(rows, j), Product) = 0 /\ SumOf(rows, Settling(rows, j), Service) = 0
      BY <2>2, <2>3, NoRows
    <3>2. /\ SumOf(q, Settling(q, j), Product) =
               SumOf(refs, Settling(refs, j), Product) + SumOf(rows, Settling(rows, j), Product)
          /\ SumOf(q, Settling(q, j), Service) =
               SumOf(refs, Settling(refs, j), Service) + SumOf(rows, Settling(rows, j), Service)
      BY <1>9 DEF AddedRefunds
    <3>3. SumOf(refs, Settling(refs, j), Product) \in Nat /\ SumOf(refs, Settling(refs, j), Service) \in Nat
      BY <1>1, RefundSums
    <3> QED  BY <3>1, <3>2, <3>3
  <2>5. InstallmentsCover(installments[o], q)
    BY <2>1, <2>4 DEF AccountFits, InstallmentsCover
  <2>6. InstallmentNamesFit(installments[o], q)
    <3>1. \A i \in DOMAIN refs : refs[i].installment \in 0..Len(installments[o])
      BY <2>1 DEF AccountFits, InstallmentNamesFit
    <3>2. \A i \in DOMAIN rows : rows[i].installment \in 0..Len(installments[o])
      <4>1. Len(installments[o]) \in Nat
        BY <1>1, SeqFacts
      <4> QED  BY <1>5, <4>1 DEF PieceRefunds
    <3> QED  BY <1>12, <3>1, <3>2 DEF InstallmentNamesFit
  <2> QED  BY <2>5, <2>6 DEF AccountFits
<1>20. StillDay /\ OrderStep(o, ord, pays) /\ AccountStep(o, account[o], installments[o], q)
  BY <1>1, <1>2, <1>3, <1>8, <1>10, Unchanged DEF StillDay, OrderStep, AccountStep
<1> HIDE DEF pays, refs
<1> QED  BY <1>1, <1>7, <1>12, <1>18, <1>19, <1>20, OrderSale

-----------------------------------------------------------------------------
(* The tables of the money book, always.                                   *)

LEMMA EmptySale ==
  /\ NoOrder \in [status : {"nenhuma", "aberta", "finalizada", "cancelada"},
                  pieces : 0..MaxPieces, total : Nat, fiado : BOOLEAN,
                  closedIn : 0..0, estorno : BOOLEAN, refunded : Nat]
  /\ NoAccount \in [status : {"nenhum", "pendente", "pago", "cancelado"},
                    product : Nat, service : Nat, total : Nat, paid : Nat,
                    balance : Nat, pieces : 0..MaxPieces, createdIn : 0..0]
  /\ NoOrder.status = "nenhuma" /\ ~NoOrder.fiado /\ NoAccount.status = "nenhum"
<1>1. 0 \in 0..MaxPieces /\ 0 \in 0..0
  BY Livro_Bounds
<1> QED  BY <1>1 DEF NoOrder, NoAccount

LEMMA LedgerStarts == Init => LedgerInv
<1> SUFFICES ASSUME Init PROVE LedgerInv
  OBVIOUS
<1> DEFINE e == << >>
<1>1. /\ session = 0 /\ sessionOpen = FALSE /\ position = 0
      /\ order = [o \in Orders |-> NoOrder] /\ payments = [o \in Orders |-> e]
      /\ account = [a \in Accounts |-> NoAccount] /\ installments = [a \in Accounts |-> e]
      /\ refunds = [a \in Accounts |-> e]
  BY DEF Init
<1>2. NoOrder \in OrderRecord /\ NoAccount \in AccountRecord
  BY <1>1, EmptySale DEF OrderRecord, AccountRecord
<1>3. e \in Seq(PaymentRow) /\ e \in Seq(InstallmentRow) /\ e \in Seq(RefundRow)
  OBVIOUS
<1>4. TypeOK
  <2>1. session \in 0..MaxSessions
    BY <1>1, Livro_Bounds
  <2>2. order \in [Orders -> OrderRecord] /\ account \in [Accounts -> AccountRecord]
    BY <1>1, <1>2
  <2> HIDE DEF e
  <2>3. /\ payments \in [Orders -> Seq(PaymentRow)]
        /\ installments \in [Accounts -> Seq(InstallmentRow)]
        /\ refunds \in [Accounts -> Seq(RefundRow)]
    BY <1>1, <1>3
  <2>4. sessionOpen \in BOOLEAN /\ position \in Int
    <3>1. sessionOpen \in BOOLEAN
      BY <1>1, Zenon
    <3>2. position = 0
      BY <1>1
    <3> QED  BY <3>1, <3>2
  <2>5. TypeOK <=> /\ session \in 0..MaxSessions /\ sessionOpen \in BOOLEAN /\ position \in Int
                  /\ order \in [Orders -> OrderRecord] /\ account \in [Accounts -> AccountRecord]
                  /\ payments \in [Orders -> Seq(PaymentRow)]
                  /\ installments \in [Accounts -> Seq(InstallmentRow)]
                  /\ refunds \in [Accounts -> Seq(RefundRow)]
    BY Tables, Zenon
  <2> QED  BY <2>1, <2>2, <2>3, <2>4, <2>5, Zenon
<1>5. \A o \in Orders : OrderFits(order[o], payments[o], account[o], installments[o], refunds[o])
  <2> TAKE o \in Orders
  <2>1. o \in Accounts
    BY DEF Accounts
  <2>2. /\ order[o] = NoOrder /\ payments[o] = << >> /\ account[o] = NoAccount
        /\ installments[o] = << >> /\ refunds[o] = << >>
    BY <1>1, <2>1
  <2>3. StatusFits(NoOrder, << >>, NoAccount, << >>, << >>)
    BY EmptySale DEF StatusFits
  <2>4. NamesFit(NoOrder, << >>, << >>) /\ PaymentsCover(<< >>, << >>)
    BY DEF NamesFit, PaymentsCover
  <2>5. PiecesFit(NoOrder, << >>, << >>)
    BY EmptySale DEF PiecesFit
  <2> QED  BY <2>2, <2>3, <2>4, <2>5 DEF OrderFits
<1>6. \A a \in Accounts : AccountFits(installments[a], refunds[a])
  BY <1>1 DEF AccountFits, InstallmentNamesFit, InstallmentsCover
<1> QED  BY <1>1, <1>4, <1>5, <1>6 DEF LedgerInv

LEMMA LedgerSteps == LedgerInv /\ [Next]_vars => LedgerInv'
<1> SUFFICES ASSUME LedgerInv, [Next]_vars PROVE LedgerInv'
  OBVIOUS
<1>1. CASE OpenSession
  BY <1>1, OpenSessionKeeps
<1>2. CASE CloseSession
  BY <1>2, CloseSessionKeeps
<1>3. ASSUME NEW o \in Orders, OpenOrder(o) PROVE LedgerInv'
  BY <1>3, OpenOrderKeeps
<1>4. ASSUME NEW o \in Orders, AddPiece(o) PROVE LedgerInv'
  BY <1>4, AddPieceKeeps
<1>5. ASSUME NEW o \in Orders, CancelOrder(o) PROVE LedgerInv'
  BY <1>5, CancelOrderKeeps
<1>6. ASSUME NEW o \in Orders, EstornarVenda(o) PROVE LedgerInv'
  BY <1>6, EstornarVendaKeeps
<1>7. ASSUME NEW o \in Orders, EstornarFiado(o) PROVE LedgerInv'
  BY <1>7, EstornarFiadoKeeps
<1>8. ASSUME NEW o \in Orders, NEW n \in 1..MaxPieces, RefundPieces(o, n) PROVE LedgerInv'
  BY <1>8, RefundPiecesKeeps
<1>9. ASSUME NEW o \in Orders, NEW charge \in Charges, Convert(o, charge) PROVE LedgerInv'
  BY <1>9, ConvertKeeps
<1>10. ASSUME NEW o \in Orders, NEW charge \in Charges, NEW m \in Methods, Close(o, charge, m)
       PROVE  LedgerInv'
  BY <1>10, CloseKeeps
<1>11. ASSUME NEW o \in Orders, NEW charge \in Charges, NEW m \in Methods, NEW n \in 1..MaxPieces,
              PayPieces(o, n, charge, m)
       PROVE  LedgerInv'
  BY <1>11, PayPiecesKeeps
<1>12. ASSUME NEW o \in Orders, NEW charge \in Charges, NEW m \in Methods,
              NEW amount \in PartialAmounts, PayAmount(o, amount, charge, m)
       PROVE  LedgerInv'
  BY <1>12, PayAmountKeeps
<1>13. ASSUME NEW d \in Direct, CancelConsignment(d) PROVE LedgerInv'
  BY <1>13, CancelConsignmentKeeps
<1>14. ASSUME NEW d \in Direct, NEW n \in 1..MaxPieces, CreateConsignment(d, n) PROVE LedgerInv'
  BY <1>14, CreateConsignmentKeeps
<1>15. ASSUME NEW a \in Accounts, NEW amount \in Installments, NEW m \in Methods,
              PayInstallment(a, amount, m)
       PROVE  LedgerInv'
  BY <1>15, PayInstallmentKeeps
<1>16. CASE UNCHANGED vars
  <2>1. /\ session' = session /\ sessionOpen' = sessionOpen /\ order' = order
        /\ payments' = payments /\ account' = account /\ installments' = installments
        /\ refunds' = refunds /\ position' = position
    BY <1>16 DEF vars
  <2>2. TypeOK'
    <3>1. TypeOK
      BY DEF LedgerInv
    <3> QED  BY <2>1, <3>1 DEF TypeOK, PaymentRow, InstallmentRow, RefundRow
  <2> QED  BY <2>1, <2>2 DEF LedgerInv
<1> QED
  BY <1>1, <1>2, <1>3, <1>4, <1>5, <1>6, <1>7, <1>8, <1>9, <1>10, <1>11, <1>12, <1>13, <1>14,
     <1>15, <1>16 DEF Next

(* The ledger is inductive: every row is of its kind, every sale agrees    *)
(* with its payments, its fiado and its refunds, and no payment or         *)
(* installment was given back more than it took.                           *)
THEOREM LedgerHolds == Spec => []LedgerInv
BY LedgerStarts, LedgerSteps, PTL DEF Spec

(* Every table of the book holds rows of its kind, and no amount, balance  *)
(* or share of a payment or of a refund is ever negative, for every price, *)
(* percentage, fee and number of comandas and fiados.                      *)
THEOREM LedgerTypes == Spec => []TypeOK
<1>1. LedgerInv => TypeOK
  BY DEF LedgerInv
<1> QED  BY <1>1, LedgerHolds, PTL

(* No payment and no installment gives back more product or service than   *)
(* it took, whatever the order of partial and whole refunds.               *)
THEOREM RefundsNeverExceedPayments == Spec => []RefundsWithinPayments
<1>1. LedgerInv => RefundsWithinPayments
  <2> SUFFICES ASSUME LedgerInv PROVE RefundsWithinPayments
    OBVIOUS
  <2>1. ASSUME NEW r \in OrderRows
        PROVE  /\ Returned(r[1], OfPayment(r[1], r[2]), Product) <= PaymentAt(r).product
               /\ Returned(r[1], OfPayment(r[1], r[2]), Service) <= PaymentAt(r).service
    <3>0. PICK o \in Orders : r \in {<<o, i>> : i \in DOMAIN payments[o]}
      BY DEF OrderRows
    <3>1. PICK p \in DOMAIN payments[o] : r = <<o, p>>
      BY <3>0
    <3>2. PaymentsCover(payments[o], refunds[o])
      BY SaleFacts DEF OrderFits
    <3>3. r[1] = o /\ r[2] = p
      BY <3>1
    <3> QED  BY <3>2, <3>3 DEF PaymentsCover, Returned, OfPayment, Marked, PaymentAt
  <2>2. ASSUME NEW r \in InstallmentRows
        PROVE  /\ Returned(r[1], OfInstallment(r[1], r[2]), Product) <= InstallmentAt(r).product
               /\ Returned(r[1], OfInstallment(r[1], r[2]), Service) <= InstallmentAt(r).service
    <3>0. PICK a \in Accounts : r \in {<<a, i>> : i \in DOMAIN installments[a]}
      BY DEF InstallmentRows
    <3>1. PICK j \in DOMAIN installments[a] : r = <<a, j>>
      BY <3>0
    <3>2. InstallmentsCover(installments[a], refunds[a])
      BY AccountFacts DEF AccountFits
    <3>3. r[1] = a /\ r[2] = j
      BY <3>1
    <3> QED  BY <3>2, <3>3 DEF InstallmentsCover, Returned, OfInstallment, Settling, InstallmentAt
  <2> QED  BY <2>1, <2>2 DEF RefundsWithinPayments
<1> QED  BY <1>1, LedgerHolds, PTL

-----------------------------------------------------------------------------
(* The balance of a fiado.                                                 *)

(* The columns of a fiado (acc) against its installments (insts).          *)
Balanced(acc, insts) ==
  /\ acc.status = "nenhum" => insts = << >>
  /\ acc.status \in {"pendente", "pago"} =>
       /\ acc.total = acc.product + acc.service
       /\ acc.paid = SumRows(insts, Gross)
       /\ acc.paid + acc.balance = acc.total
       /\ (acc.status = "pago") <=> (acc.balance = 0)
       /\ SumRows(insts, Product) <= acc.product
       /\ SumRows(insts, Service) <= acc.service

(* An open comanda that may become a fiado was never paid beyond its       *)
(* total, and has given nothing back.                                      *)
Owes(ord, pays, refs) ==
  ord.status = "aberta" => refs = << >> /\ SumRows(pays, Product) <= ord.total

FiadoInv ==
  /\ \A a \in Accounts : Balanced(account[a], installments[a])
  /\ \A o \in Convertible : Owes(order[o], payments[o], refunds[o])

(* A step that touches one sale only.                                      *)
Elsewhere(s) ==
  /\ \A a \in Accounts : a # s => /\ account'[a] = account[a]
                                  /\ installments'[a] = installments[a]
                                  /\ refunds'[a] = refunds[a]
  /\ \A o \in Orders : o # s => order'[o] = order[o] /\ payments'[o] = payments[o]

LEMMA FiadoFrame ==
  ASSUME FiadoInv, NEW s, Elsewhere(s),
         s \in Accounts => Balanced(account'[s], installments'[s]),
         s \in Convertible => Owes(order'[s], payments'[s], refunds'[s])
  PROVE  FiadoInv'
<1>1. \A o \in Convertible : o \in Orders /\ o \in Accounts
  BY Livro_Rows DEF Accounts
<1>2. \A a \in Accounts : Balanced(account'[a], installments'[a])
  BY DEF FiadoInv, Elsewhere
<1>3. \A o \in Convertible : Owes(order'[o], payments'[o], refunds'[o])
  BY <1>1 DEF FiadoInv, Elsewhere
<1> QED  BY <1>2, <1>3 DEF FiadoInv

LEMMA TableTypes ==
  ASSUME LedgerInv
  PROVE  /\ order \in [Orders -> OrderRecord] /\ account \in [Accounts -> AccountRecord]
         /\ payments \in [Orders -> Seq(PaymentRow)]
         /\ installments \in [Accounts -> Seq(InstallmentRow)]
         /\ refunds \in [Accounts -> Seq(RefundRow)]
BY Tables DEF LedgerInv

(* Handlers that leave every fiado as it is, and every open comanda that   *)
(* may become one.                                                         *)
LEMMA SameFiados ==
  ASSUME FiadoInv, UNCHANGED <<order, payments, account, installments, refunds>>
  PROVE  FiadoInv'
BY DEF FiadoInv

LEMMA OpenOrderOwes ==
  ASSUME LedgerInv, FiadoInv, NEW o \in Orders, OpenOrder(o)
  PROVE  FiadoInv'
<1> DEFINE ord == [order[o] EXCEPT !.status = "aberta"]
<1>1. /\ order[o].status = "nenhuma" /\ order' = [order EXCEPT ![o] = ord]
      /\ UNCHANGED <<payments, account, installments, refunds>>
  BY DEF OpenOrder
<1>2. o \in Accounts /\ order[o] \in OrderRecord
      /\ StatusFits(order[o], payments[o], account[o], installments[o], refunds[o])
  BY SaleFacts DEF OrderFits
<1>3. payments[o] = << >> /\ refunds[o] = << >>
  BY <1>1, <1>2 DEF StatusFits
<1>4. ord.total \in Nat
  BY <1>2 DEF OrderRecord
<1> HIDE DEF ord
<1>5. Elsewhere(o) /\ order'[o] = ord
  BY <1>1, TableTypes DEF Elsewhere
<1>6. Owes(ord, payments[o], refunds[o])
  BY <1>3, <1>4, EmptyTable DEF Owes
<1>7. Balanced(account[o], installments[o])
  BY <1>2 DEF FiadoInv
<1> QED  BY <1>1, <1>5, <1>6, <1>7, FiadoFrame

LEMMA AddPieceOwes ==
  ASSUME LedgerInv, FiadoInv, NEW o \in Orders, AddPiece(o)
  PROVE  FiadoInv'
<1> DEFINE ord == [order[o] EXCEPT !.pieces = @ + 1, !.total = @ + Price]
<1>1. /\ order[o].status = "aberta" /\ order' = [order EXCEPT ![o] = ord]
      /\ UNCHANGED <<payments, account, installments, refunds>>
  BY DEF AddPiece
<1>2. o \in Accounts /\ order[o] \in OrderRecord /\ payments[o] \in Seq(PaymentRow)
  BY SaleFacts
<1>3. ord.total = order[o].total + Price /\ order[o].total \in Nat /\ Price \in Nat
  BY <1>2, Livro_Amounts DEF OrderRecord
<1> HIDE DEF ord
<1>4. Elsewhere(o) /\ order'[o] = ord
  BY <1>1, TableTypes DEF Elsewhere
<1>5. SumRows(payments[o], Product) \in Nat
  BY <1>2, PaymentTotals
<1>6. o \in Convertible => Owes(ord, payments[o], refunds[o])
  BY <1>1, <1>3, <1>5 DEF Owes, FiadoInv
<1>7. Balanced(account[o], installments[o])
  BY <1>2 DEF FiadoInv
<1> QED  BY <1>1, <1>4, <1>6, <1>7, FiadoFrame

(* One payment, or one installment, more.                                  *)
LEMMA AppendedSums ==
  ASSUME NEW A, NEW rows \in Seq(A), NEW row \in A, NEW n \in Nat, n = Len(rows),
         MoneyRows(rows, n), row.product \in Nat, row.service \in Nat
  PROVE  LET q == Append(rows, row)
         IN /\ SumRows(q, Product) = SumRows(rows, Product) + row.product
            /\ SumRows(q, Service) = SumRows(rows, Service) + row.service
            /\ SumRows(q, Gross) = SumRows(rows, Gross) + (row.product + row.service)
<1> DEFINE q == Append(rows, row)
<1>1. Joined(rows, n, <<row>>, 1, q)
  BY JoinedRow
<1>2. /\ MoneyRows(<<row>>, 1)
      /\ SumRows(<<row>>, Product) = row.product /\ SumRows(<<row>>, Service) = row.service
  BY OneRow
<1>3. SumRows(<<row>>, Gross) = SumRows(<<row>>, Product) + SumRows(<<row>>, Service)
  BY <1>2, RowTotals
<1> HIDE DEF q
<1>4. /\ SumRows(q, Product) = SumRows(rows, Product) + SumRows(<<row>>, Product)
      /\ SumRows(q, Service) = SumRows(rows, Service) + SumRows(<<row>>, Service)
      /\ SumRows(q, Gross) = SumRows(rows, Gross) + SumRows(<<row>>, Gross)
  BY <1>1, <1>2, JoinedTotals
<1> QED  BY <1>2, <1>3, <1>4 DEF q

(* A payment of an open comanda is of no more than what remains.           *)
LEMMA PaymentOwes ==
  ASSUME LedgerInv, FiadoInv, NEW o \in Orders, order[o].status = "aberta",
         NEW row \in PaymentRow, row.product <= Remaining(o), Record(o, row),
         UNCHANGED <<order, account, installments, refunds>>
  PROVE  FiadoInv'
<1> DEFINE pays == payments[o]
           q == Append(pays, row)
<1>1. /\ payments' = [payments EXCEPT ![o] = q]
      /\ UNCHANGED <<order, account, installments, refunds>>
  BY DEF Record
<1>2. o \in Accounts /\ order[o] \in OrderRecord /\ pays \in Seq(PaymentRow)
  BY SaleFacts
<1>3. order[o].total \in Nat /\ row.product \in Nat
  BY <1>2, OrderFields, RowTypes
<1>4. SumRows(q, Product) = SumRows(pays, Product) + row.product
  <2>1. Len(pays) \in Nat /\ MoneyRows(pays, Len(pays))
    BY <1>2, PaymentTable
  <2>2. row.product \in Nat /\ row.service \in Nat
    BY RowTypes
  <2> HIDE DEF pays
  <2> QED  BY <1>2, <2>1, <2>2, AppendedSums
<1>5. SumRows(pays, Product) \in Nat
  BY <1>2, PaymentTotals
<1> HIDE DEF q
<1>6. Elsewhere(o) /\ payments'[o] = q
  BY <1>1, TableTypes DEF Elsewhere
<1>7. o \in Convertible => Owes(order[o], q, refunds[o])
  <2> SUFFICES ASSUME o \in Convertible PROVE Owes(order[o], q, refunds[o])
    OBVIOUS
  <2>1. refunds[o] = << >> /\ SumRows(pays, Product) <= order[o].total
    BY DEF FiadoInv, Owes
  <2>2. NetPaid(o, Product) = SumRows(pays, Product)
    <3>1. NetPaid(o, Product) = SumRows(payments[o], Product) - SumRows(refunds[o], Product)
      BY DEF NetPaid
    <3> QED  BY <1>5, <2>1, <3>1, EmptyTable
  <2>3. Remaining(o) = order[o].total - SumRows(pays, Product)
    BY <1>3, <1>5, <2>1, <2>2 DEF Remaining, NonNegative
  <2> QED  BY <1>3, <1>4, <1>5, <2>1, <2>3 DEF Owes
<1>8. Balanced(account[o], installments[o])
  BY <1>2 DEF FiadoInv
<1> QED  BY <1>6, <1>7, <1>8, FiadoFrame

(* A sale that is not an open comanda any more owes nothing.               *)
LEMMA NotOpenOwes ==
  ASSUME LedgerInv, FiadoInv, NEW o \in Orders, NEW ord, order' = [order EXCEPT ![o] = ord],
         ord.status # "aberta", Elsewhere(o), UNCHANGED <<account, installments>>
  PROVE  FiadoInv'
<1>1. o \in Accounts /\ order'[o] = ord
  BY SaleFacts, TableTypes
<1>2. Balanced(account[o], installments[o])
  BY <1>1 DEF FiadoInv
<1> QED  BY <1>1, <1>2, FiadoFrame DEF Owes

LEMMA PayPiecesOwes ==
  ASSUME LedgerInv, FiadoInv, NEW o \in Orders, NEW n \in 1..MaxPieces, NEW charge \in Charges,
         NEW m \in Methods, PayPieces(o, n, charge, m)
  PROVE  FiadoInv'
<1> DEFINE row == Paid("partial", Price * n, Charge(Price * n, charge), m, n)
<1>1. /\ sessionOpen /\ order[o].status = "aberta" /\ Price * n <= Remaining(o)
      /\ Record(o, row) /\ UNCHANGED <<order, account, installments, refunds>>
  BY DEF PayPieces, MayPayPart
<1>2. Price * n \in Nat
  BY Livro_Amounts, Livro_Bounds, NatProduct
<1>3. session \in 1..session /\ n \in 0..MaxPieces
  BY <1>1, DayFacts, Livro_Bounds
<1>4. row \in PaymentRow /\ row.product = Price * n
  <2>1. Charge(Price * n, charge) \in Nat
    BY <1>2, ChargeNat
  <2> QED  BY <1>2, <1>3, <2>1, PaidRow
<1> HIDE DEF row
<1> QED  BY <1>1, <1>4, PaymentOwes

LEMMA PayAmountOwes ==
  ASSUME LedgerInv, FiadoInv, NEW o \in Orders, NEW amount \in PartialAmounts,
         NEW charge \in Charges, NEW m \in Methods, PayAmount(o, amount, charge, m)
  PROVE  FiadoInv'
<1> DEFINE product == ProductWithin(amount, charge)
           row == Paid("partial", product, amount - product, m, 0)
<1>1. /\ sessionOpen /\ order[o].status = "aberta" /\ (charge = "gorjeta" => Tip < amount)
      /\ product <= Remaining(o) /\ Record(o, row)
      /\ UNCHANGED <<order, account, installments, refunds>>
  BY DEF PayAmount, MayPayPart
<1>2. amount \in Nat /\ (charge = "gorjeta" => Tip < amount)
  BY <1>1, Livro_Amounts
<1>3. product \in Nat /\ amount - product \in Nat
  <2>1. product \in 0..amount
    BY <1>2, ProductInside
  <2> QED  BY <1>2, <2>1
<1>4. session \in 1..session /\ 0 \in 0..MaxPieces
  BY <1>1, DayFacts, Livro_Bounds
<1> HIDE DEF product
<1>5. row \in PaymentRow /\ row.product = product
  BY <1>3, <1>4, PaidRow
<1> HIDE DEF row
<1> QED  BY <1>1, <1>5, PaymentOwes

LEMMA CloseOwes ==
  ASSUME LedgerInv, FiadoInv, NEW o \in Orders, NEW charge \in Charges, NEW m \in Methods,
         Close(o, charge, m)
  PROVE  FiadoInv'
<1> DEFINE ord == [order[o] EXCEPT !.status = "finalizada", !.closedIn = session]
           pays == Append(payments[o], Paid("final", Remaining(o), Charge(Remaining(o), charge), m, 0))
<1>1. /\ order' = [order EXCEPT ![o] = ord]
      /\ payments' = [payments EXCEPT ![o] = pays] \/ payments' = payments
      /\ UNCHANGED <<account, installments, refunds>>
  BY DEF Close, Record
<1>2. ord.status # "aberta"
  <2>1. order[o] \in OrderRecord
    BY SaleFacts
  <2> QED  BY <2>1 DEF OrderRecord
<1> HIDE DEF ord, pays
<1>3. Elsewhere(o)
  <2>1. \A x \in Orders : x # o => order'[x] = order[x]
    BY <1>1, TableTypes
  <2>2. \A x \in Orders : x # o => payments'[x] = payments[x]
    <3>1. CASE payments' = [payments EXCEPT ![o] = pays]
      BY <3>1, TableTypes
    <3>2. CASE payments' = payments
      BY <3>2
    <3> QED  BY <1>1, <3>1, <3>2
  <2> QED  BY <1>1, <2>1, <2>2 DEF Elsewhere
<1> QED  BY <1>1, <1>2, <1>3, NotOpenOwes

LEMMA EstornarVendaOwes ==
  ASSUME LedgerInv, FiadoInv, NEW o \in Orders, EstornarVenda(o)
  PROVE  FiadoInv'
<1> DEFINE ord == [order[o] EXCEPT !.estorno = TRUE]
           refs == refunds[o] \o WholeRefund(o, TRUE)
<1>1. /\ order[o].status = "finalizada" /\ order' = [order EXCEPT ![o] = ord]
      /\ refunds' = [refunds EXCEPT ![o] = refs]
      /\ UNCHANGED <<payments, account, installments>>
  BY DEF EstornarVenda, GiveBack
<1>2. ord.status = order[o].status
  <2>1. order[o] \in OrderRecord
    BY SaleFacts
  <2> QED  BY <2>1 DEF OrderRecord
<1> HIDE DEF ord, refs
<1>3. Elsewhere(o)
  BY <1>1, TableTypes DEF Elsewhere
<1> QED  BY <1>1, <1>2, <1>3, NotOpenOwes

LEMMA CancelOrderOwes ==
  ASSUME LedgerInv, FiadoInv, NEW o \in Orders, CancelOrder(o)
  PROVE  FiadoInv'
<1> DEFINE none == [order[o] EXCEPT !.status = "cancelada", !.total = 0]
           ord == [order[o] EXCEPT !.status = "cancelada"]
           refs == refunds[o] \o WholeRefund(o, FALSE)
<1>1. /\ \/ order' = [order EXCEPT ![o] = none] /\ refunds' = [refunds EXCEPT ![o] = refs]
         \/ order' = [order EXCEPT ![o] = ord] /\ refunds' = refunds
      /\ UNCHANGED <<payments, account, installments>>
  BY DEF CancelOrder, GiveBack
<1>2. none.status # "aberta" /\ ord.status # "aberta"
  <2>1. order[o] \in OrderRecord
    BY SaleFacts
  <2> QED  BY <2>1 DEF OrderRecord
<1> HIDE DEF none, ord, refs
<1>3. Elsewhere(o)
  BY <1>1, TableTypes DEF Elsewhere
<1> QED  BY <1>1, <1>2, <1>3, NotOpenOwes

(* The instance keeps refunds of pieces and conversions apart.             *)
LEMMA RefundPiecesOwes ==
  ASSUME LedgerInv, FiadoInv, ItemRefundable \cap Convertible = {},
         NEW o \in Orders, NEW n \in 1..MaxPieces, RefundPieces(o, n)
  PROVE  FiadoInv'
<1> DEFINE closed == [order[o] EXCEPT !.refunded = @ + n]
           open == [order[o] EXCEPT !.pieces = @ - n, !.total = Price * (order[o].pieces - n),
                                    !.refunded = IF n = order[o].pieces THEN 0 ELSE @ + n]
           refs == refunds[o] \o SomePieces([p \in DOMAIN payments[o] |->
                                               RefundOfPieces(o, p, Taken(o, n, p))])
<1>1. /\ o \in ItemRefundable
      /\ order' = [order EXCEPT ![o] = closed] \/ order' = [order EXCEPT ![o] = open]
      /\ refunds' = [refunds EXCEPT ![o] = refs]
      /\ UNCHANGED <<payments, account, installments>>
  BY DEF RefundPieces, GiveBack
<1>2. o \notin Convertible
  BY <1>1
<1> HIDE DEF closed, open, refs
<1>3. Elsewhere(o)
  <2>1. \A x \in Orders : x # o => order'[x] = order[x]
    <3>1. CASE order' = [order EXCEPT ![o] = closed]
      BY <3>1, TableTypes
    <3>2. CASE order' = [order EXCEPT ![o] = open]
      BY <3>2, TableTypes
    <3> QED  BY <1>1, <3>1, <3>2
  <2>2. \A x \in Accounts : x # o => refunds'[x] = refunds[x]
    BY <1>1, TableTypes
  <2> QED  BY <1>1, <2>1, <2>2 DEF Elsewhere
<1>4. o \in Accounts
  BY SaleFacts
<1>5. Balanced(account[o], installments[o])
  BY <1>4 DEF FiadoInv
<1> QED  BY <1>1, <1>2, <1>3, <1>5, FiadoFrame

(* Undoing a fiado.                                                        *)
LEMMA UndoneOwes ==
  ASSUME LedgerInv, FiadoInv, NEW a \in Accounts, account' = [account EXCEPT ![a] = Undone(account[a])],
         NEW refs, refunds' = [refunds EXCEPT ![a] = refs],
         UNCHANGED <<payments, installments>>,
         \/ order' = order /\ a \notin Convertible
         \/ \E ord : order' = [order EXCEPT ![a] = ord] /\ ord.status # "aberta"
  PROVE  FiadoInv'
<1>1. Undone(account[a]).status = "cancelado"
  BY AccountFacts, AccountUndone
<1>2. Elsewhere(a) /\ account'[a] = Undone(account[a])
  <2>1. \A x \in Orders : x # a => order'[x] = order[x]
    <3>1. PICK ord : order' = order \/ order' = [order EXCEPT ![a] = ord]
      OBVIOUS
    <3> QED  BY <3>1, TableTypes
  <2>2. \A x \in Accounts : x # a => account'[x] = account[x] /\ refunds'[x] = refunds[x]
    BY TableTypes
  <2>3. account'[a] = Undone(account[a])
    BY TableTypes
  <2> QED  BY <2>1, <2>2, <2>3 DEF Elsewhere
<1>3. Balanced(Undone(account[a]), installments[a])
  BY <1>1 DEF Balanced
<1>4. a \in Convertible => Owes(order'[a], payments'[a], refunds'[a])
  <2> SUFFICES ASSUME a \in Convertible PROVE Owes(order'[a], payments'[a], refunds'[a])
    OBVIOUS
  <2>1. PICK ord : order' = [order EXCEPT ![a] = ord] /\ ord.status # "aberta"
    OBVIOUS
  <2>2. a \in Orders
    BY Livro_Rows
  <2>3. order'[a] = ord
    BY <2>1, <2>2, TableTypes
  <2> QED  BY <2>1, <2>3 DEF Owes
<1> QED  BY <1>2, <1>3, <1>4, FiadoFrame

LEMMA EstornarFiadoOwes ==
  ASSUME LedgerInv, FiadoInv, NEW o \in Orders, EstornarFiado(o)
  PROVE  FiadoInv'
<1> DEFINE ord == [order[o] EXCEPT !.estorno = TRUE]
           refs == refunds[o] \o RefundOfFiado(o)
<1>1. /\ order[o].fiado /\ order' = [order EXCEPT ![o] = ord]
      /\ account' = [account EXCEPT ![o] = Undone(account[o])]
      /\ refunds' = [refunds EXCEPT ![o] = refs]
      /\ UNCHANGED <<payments, installments>>
  BY DEF EstornarFiado, GiveBack, Cancelled, Undone
<1>2. o \in Accounts /\ order[o] \in OrderRecord
      /\ StatusFits(order[o], payments[o], account[o], installments[o], refunds[o])
  BY SaleFacts DEF OrderFits
<1>3. ord.status = order[o].status
  BY <1>2 DEF OrderRecord
<1>4. ord.status # "aberta"
  BY <1>1, <1>2, <1>3 DEF StatusFits
<1> HIDE DEF ord, refs
<1> QED  BY <1>1, <1>2, <1>4, UndoneOwes

LEMMA CancelConsignmentOwes ==
  ASSUME LedgerInv, FiadoInv, NEW d \in Direct, CancelConsignment(d)
  PROVE  FiadoInv'
<1> DEFINE refs == refunds[d] \o RefundOfFiado(d)
<1>1. /\ account' = [account EXCEPT ![d] = Undone(account[d])]
      /\ refunds' = [refunds EXCEPT ![d] = refs]
      /\ UNCHANGED <<order, payments, installments>>
  BY DEF CancelConsignment, GiveBack, Cancelled, Undone
<1>2. d \in Accounts /\ d \notin Convertible
  BY Livro_Rows DEF Accounts
<1> HIDE DEF refs
<1> QED  BY <1>1, <1>2, UndoneOwes

(* The installments a conversion copies are the payments of the comanda.   *)
LEMMA CopiedSums ==
  ASSUME NEW o \in Orders
  PROVE  /\ SumRows(Copied(o), Product) = SumRows(payments[o], Product)
         /\ SumRows(Copied(o), Service) = SumRows(payments[o], Service)
         /\ SumRows(Copied(o), Gross) = SumRows(payments[o], Gross)
<1>1. /\ DOMAIN Copied(o) = DOMAIN payments[o]
      /\ \A i \in DOMAIN payments[o] : /\ Copied(o)[i].product = payments[o][i].product
                                       /\ Copied(o)[i].service = payments[o][i].service
  BY DEF Copied
<1>2. /\ [i \in DOMAIN Copied(o) |-> Product(Copied(o)[i])]
           = [i \in DOMAIN payments[o] |-> Product(payments[o][i])]
      /\ [i \in DOMAIN Copied(o) |-> Service(Copied(o)[i])]
           = [i \in DOMAIN payments[o] |-> Service(payments[o][i])]
      /\ [i \in DOMAIN Copied(o) |-> Gross(Copied(o)[i])]
           = [i \in DOMAIN payments[o] |-> Gross(payments[o][i])]
  BY <1>1 DEF Product, Service, Gross
<1> QED  BY <1>2 DEF SumRows, SumOf

LEMMA ConvertOwes ==
  ASSUME LedgerInv, FiadoInv, NEW o \in Orders, NEW charge \in Charges, Convert(o, charge)
  PROVE  FiadoInv'
<1> DEFINE service == NetPaid(o, Service) + Charge(Remaining(o), charge)
           total == order[o].total + service
           paid == NetPaid(o, Gross)
           balance == NonNegative(total - paid)
           acc == [status |-> StatusFor(balance), product |-> order[o].total, service |-> service,
                   total |-> total, paid |-> paid, balance |-> balance, pieces |-> order[o].pieces,
                   createdIn |-> session]
           ord == [order[o] EXCEPT !.status = "finalizada", !.fiado = TRUE, !.closedIn = session]
           extra == Charge(Remaining(o), charge)
           sp == SumRows(payments[o], Product)
           ss == SumRows(payments[o], Service)
<1>1. /\ order[o].status = "aberta" /\ o \in Convertible
      /\ account' = [account EXCEPT ![o] = acc]
      /\ installments' = [installments EXCEPT ![o] = Copied(o)]
      /\ order' = [order EXCEPT ![o] = ord]
      /\ UNCHANGED <<payments, refunds>>
  BY DEF Convert
<1>2. o \in Accounts /\ order[o] \in OrderRecord /\ payments[o] \in Seq(PaymentRow)
  BY SaleFacts
<1>3. refunds[o] = << >> /\ sp <= order[o].total
  BY <1>1 DEF FiadoInv, Owes
<1>4. /\ sp \in Nat /\ ss \in Nat /\ SumRows(payments[o], Gross) = sp + ss
  BY <1>2, PaymentTotals
<1>5. /\ NetPaid(o, Product) = sp /\ NetPaid(o, Service) = ss /\ paid = sp + ss
  <2>1. /\ NetPaid(o, Product) = sp - SumRows(<< >>, Product)
        /\ NetPaid(o, Service) = ss - SumRows(<< >>, Service)
        /\ paid = SumRows(payments[o], Gross) - SumRows(<< >>, Gross)
    BY <1>3 DEF NetPaid
  <2> HIDE DEF sp, ss, paid
  <2> QED  BY <1>4, <2>1, EmptyTable
<1>6. extra \in Nat /\ order[o].total \in Nat
  BY <1>2, NetPaidFacts, ChargeNat, OrderFields
<1>7. /\ SumRows(Copied(o), Product) = sp /\ SumRows(Copied(o), Service) = ss
      /\ SumRows(Copied(o), Gross) = sp + ss
  BY <1>4, CopiedSums
<1>8. service = ss + extra
  BY <1>5
<1>9. ord.status # "aberta"
  BY <1>2 DEF OrderRecord
<1>10. /\ acc.status = StatusFor(balance) /\ acc.product = order[o].total /\ acc.service = service
       /\ acc.total = total /\ acc.paid = paid /\ acc.balance = balance
  OBVIOUS
<1>11. total = order[o].total + service /\ balance = NonNegative(total - paid)
  OBVIOUS
<1> HIDE DEF acc, ord, balance, total, paid, service, extra, sp, ss
<1>12. total - paid \in Nat /\ balance = total - paid
  BY <1>3, <1>4, <1>5, <1>6, <1>8, <1>11 DEF NonNegative
<1>13. Balanced(acc, Copied(o))
  <2>1. acc.status \in {"pendente", "pago"} /\ (acc.status = "pago" <=> acc.balance = 0)
    BY <1>10 DEF StatusFor
  <2>2. acc.total = acc.product + acc.service /\ acc.paid = SumRows(Copied(o), Gross)
    BY <1>5, <1>7, <1>10, <1>11
  <2>3. acc.paid + acc.balance = acc.total
    BY <1>4, <1>5, <1>6, <1>8, <1>10, <1>11, <1>12
  <2>4. SumRows(Copied(o), Product) <= acc.product /\ SumRows(Copied(o), Service) <= acc.service
    BY <1>3, <1>4, <1>6, <1>7, <1>8, <1>10
  <2> QED  BY <2>1, <2>2, <2>3, <2>4 DEF Balanced
<1>14. Elsewhere(o) /\ account'[o] = acc /\ installments'[o] = Copied(o) /\ order'[o] = ord
  BY <1>1, <1>2, TableTypes DEF Elsewhere
<1> QED  BY <1>9, <1>13, <1>14, FiadoFrame DEF Owes

LEMMA CreateConsignmentOwes ==
  ASSUME LedgerInv, FiadoInv, Price # 0, NEW d \in Direct, NEW n \in 1..MaxPieces,
         CreateConsignment(d, n)
  PROVE  FiadoInv'
<1> DEFINE acc == [status |-> "pendente", product |-> Price * n, service |-> 0, total |-> Price * n,
                   paid |-> 0, balance |-> Price * n, pieces |-> n, createdIn |-> session]
           due == Price * n
<1>1. /\ account[d].status = "nenhum" /\ account' = [account EXCEPT ![d] = acc]
      /\ UNCHANGED <<order, payments, installments, refunds>>
  BY DEF CreateConsignment
<1>2. d \in Accounts /\ d \notin Convertible
  BY Livro_Rows DEF Accounts
<1>3. installments[d] = << >>
  BY <1>1, <1>2 DEF FiadoInv, Balanced
<1>4. due \in Nat /\ due # 0
  BY Livro_Amounts, Livro_Bounds
<1>5. /\ acc.status = "pendente" /\ acc.product = due /\ acc.service = 0 /\ acc.total = due
      /\ acc.paid = 0 /\ acc.balance = due
  OBVIOUS
<1> HIDE DEF acc, due
<1>6. Elsewhere(d) /\ account'[d] = acc
  BY <1>1, <1>2, TableTypes DEF Elsewhere
<1>7. Balanced(acc, << >>)
  BY <1>4, <1>5, EmptyTable DEF Balanced
<1> QED  BY <1>1, <1>2, <1>3, <1>6, <1>7, FiadoFrame

(* An installment of what is still owed, product before service.           *)
LEMMA SettledParts ==
  ASSUME NEW product \in Nat, NEW service \in Nat, NEW sp \in Nat, NEW ss \in Nat,
         sp <= product, ss <= service,
         NEW amount \in Nat, sp + ss + amount <= product + service,
         NEW a \in Nat, NEW b \in Nat, a + b = amount, sp + a <= product,
         b > 0 => sp + a >= product
  PROVE  ss + b <= service
OBVIOUS

LEMMA PayInstallmentOwes ==
  ASSUME LedgerInv, FiadoInv, NEW a \in Accounts, NEW amount \in Installments, NEW m \in Methods,
         PayInstallment(a, amount, m)
  PROVE  FiadoInv'
<1> DEFINE insts == installments[a]
           split == SplitInstallment(amount, account[a].product, SumRows(insts, Product))
           balance == NonNegative(account[a].total - (account[a].paid + amount))
           row == [product |-> split.product, service |-> split.service,
                   fee |-> CardFee(split.product, split.service, m), method |-> m,
                   period |-> session, source |-> 0]
           acc == PaidOff(account[a], amount, balance)
           q == Append(insts, row)
           n == Len(insts)
           sp == SumRows(insts, Product)
           ss == SumRows(insts, Service)
<1>1. /\ sessionOpen /\ account[a].status \in {"pendente", "pago"} /\ amount <= account[a].balance
      /\ installments' = [installments EXCEPT ![a] = q]
      /\ account' = [account EXCEPT ![a] = acc]
      /\ UNCHANGED <<order, payments, refunds>>
  BY DEF PayInstallment, PaidOff
<1>2. account[a] \in AccountRecord /\ insts \in Seq(InstallmentRow)
  BY AccountFacts
<1>3. /\ account[a].product \in Nat /\ account[a].service \in Nat /\ account[a].total \in Nat
      /\ account[a].paid \in Nat /\ account[a].balance \in Nat /\ amount \in Nat
  BY <1>2, AccountColumns, Livro_Amounts
<1>4. sp \in Nat /\ ss \in Nat /\ SumRows(insts, Gross) = sp + ss
  BY <1>2, InstallmentTotals
<1>5. /\ account[a].total = account[a].product + account[a].service
      /\ account[a].paid = sp + ss /\ account[a].paid + account[a].balance = account[a].total
      /\ sp <= account[a].product /\ ss <= account[a].service
  BY <1>1, <1>4 DEF FiadoInv, Balanced
<1>6. /\ split.product \in Nat /\ split.service \in Nat
      /\ split.product + split.service = amount
      /\ sp + split.product <= account[a].product
      /\ split.service > 0 => sp + split.product >= account[a].product
  <2> DEFINE pt == account[a].product
  <2>1. split = SplitInstallment(amount, pt, sp)
    OBVIOUS
  <2>2. pt \in Nat /\ sp \in Nat /\ amount \in Nat /\ sp <= pt
    BY <1>3, <1>4, <1>5
  <2> HIDE DEF sp, split, pt
  <2>3. LET part == SplitInstallment(amount, pt, sp)
        IN /\ part.product \in Nat /\ part.service \in Nat
           /\ part.product + part.service = amount
           /\ sp <= pt => sp + part.product <= pt
           /\ part.service > 0 => sp + part.product >= pt
    BY <2>2, InstallmentSplit
  <2> QED  BY <2>1, <2>2, <2>3 DEF pt
<1>7. row \in InstallmentRow /\ row.product = split.product /\ row.service = split.service
  <2> HIDE DEF split
  <2>1. CardFee(split.product, split.service, m) \in Nat /\ 0 \in Nat
    BY <1>6, FeeNat
  <2>2. session \in 1..session
    BY <1>1, DayFacts
  <2> QED  BY <1>6, <2>1, <2>2, InstallmentFields
<1> HIDE DEF row, split
<1>8. /\ SumRows(q, Product) = sp + split.product
      /\ SumRows(q, Service) = ss + split.service
      /\ SumRows(q, Gross) = SumRows(insts, Gross) + (split.product + split.service)
  <2>1. n \in Nat /\ MoneyRows(insts, n)
    BY <1>2, InstallmentTable
  <2> HIDE DEF n
  <2>2. n = Len(insts)
    BY DEF n
  <2> HIDE DEF insts
  <2> QED  BY <1>2, <1>6, <1>7, <2>1, <2>2, AppendedSums
<1>9. balance \in Nat /\ balance = account[a].total - (account[a].paid + amount)
  BY <1>1, <1>3, <1>5 DEF NonNegative
<1> HIDE DEF balance, insts, q, sp, ss, n
<1> DEFINE r == account[a]
<1>15. r \in AccountRecord /\ acc = PaidOff(r, amount, balance)
  BY <1>2
<1> HIDE DEF r, acc
<1>10. /\ acc.status = StatusFor(balance) /\ acc.paid = account[a].paid + amount
       /\ acc.balance = balance /\ acc.total = account[a].total
       /\ acc.product = account[a].product /\ acc.service = account[a].service
  <2>1. LET u == PaidOff(r, amount, balance)
        IN /\ u \in AccountRecord /\ u.status = StatusFor(balance) /\ u.paid = r.paid + amount
           /\ u.balance = balance /\ u.total = r.total /\ u.product = r.product
           /\ u.service = r.service
    <3>1. amount \in Nat /\ balance \in Nat /\ r \in AccountRecord
      BY <1>3, <1>9, <1>15
    <3> HIDE DEF PaidOff
    <3> QED  BY <3>1, AccountPaid
  <2>2. r = account[a]
    BY DEF r
  <2> QED  BY <1>15, <2>1, <2>2
<1>11. ss + split.service <= account[a].service
  <2>1. sp + ss + amount <= account[a].product + account[a].service
    BY <1>1, <1>3, <1>4, <1>5
  <2> QED  BY <1>3, <1>4, <1>5, <1>6, <2>1, SettledParts
<1>12. Balanced(acc, q)
  <2>1. acc.status \in {"pendente", "pago"} /\ (acc.status = "pago" <=> acc.balance = 0)
    BY <1>10 DEF StatusFor
  <2>2. acc.total = acc.product + acc.service
    BY <1>5, <1>10
  <2>3. acc.paid = SumRows(q, Gross)
    BY <1>4, <1>5, <1>6, <1>8, <1>10
  <2>4. acc.paid + acc.balance = acc.total
    BY <1>3, <1>9, <1>10
  <2>5. SumRows(q, Product) <= acc.product /\ SumRows(q, Service) <= acc.service
    BY <1>6, <1>8, <1>10, <1>11
  <2> QED  BY <2>1, <2>2, <2>3, <2>4, <2>5 DEF Balanced
<1>13. Elsewhere(a) /\ account'[a] = acc /\ installments'[a] = q
  BY <1>1, TableTypes DEF Elsewhere
<1>14. a \in Convertible => Owes(order'[a], payments'[a], refunds'[a])
  BY <1>1 DEF FiadoInv
<1> QED  BY <1>12, <1>13, <1>14, FiadoFrame

LEMMA FiadoStarts == Init => FiadoInv
<1> SUFFICES ASSUME Init PROVE FiadoInv
  OBVIOUS
<1>1. /\ \A a \in Accounts : account[a] = NoAccount /\ installments[a] = << >>
      /\ \A o \in Orders : order[o] = NoOrder
  BY DEF Init
<1>2. \A a \in Accounts : Balanced(account[a], installments[a])
  BY <1>1, EmptySale DEF Balanced
<1>3. \A o \in Convertible : Owes(order[o], payments[o], refunds[o])
  BY <1>1, EmptySale, Livro_Rows DEF Owes
<1> QED  BY <1>2, <1>3 DEF FiadoInv

LEMMA FiadoSteps ==
  ASSUME ItemRefundable \cap Convertible = {}, Price # 0
  PROVE  LedgerInv /\ FiadoInv /\ [Next]_vars => FiadoInv'
<1> SUFFICES ASSUME LedgerInv, FiadoInv, [Next]_vars PROVE FiadoInv'
  OBVIOUS
<1>1. CASE OpenSession \/ CloseSession \/ UNCHANGED vars
  BY <1>1, SameFiados DEF OpenSession, CloseSession, vars
<1>2. ASSUME NEW o \in Orders, OpenOrder(o) PROVE FiadoInv'
  BY <1>2, OpenOrderOwes
<1>3. ASSUME NEW o \in Orders, AddPiece(o) PROVE FiadoInv'
  BY <1>3, AddPieceOwes
<1>4. ASSUME NEW o \in Orders, CancelOrder(o) PROVE FiadoInv'
  BY <1>4, CancelOrderOwes
<1>5. ASSUME NEW o \in Orders, EstornarVenda(o) PROVE FiadoInv'
  BY <1>5, EstornarVendaOwes
<1>6. ASSUME NEW o \in Orders, EstornarFiado(o) PROVE FiadoInv'
  BY <1>6, EstornarFiadoOwes
<1>7. ASSUME NEW o \in Orders, NEW n \in 1..MaxPieces, RefundPieces(o, n) PROVE FiadoInv'
  BY <1>7, RefundPiecesOwes
<1>8. ASSUME NEW o \in Orders, NEW charge \in Charges, Convert(o, charge) PROVE FiadoInv'
  BY <1>8, ConvertOwes
<1>9. ASSUME NEW o \in Orders, NEW charge \in Charges, NEW m \in Methods, Close(o, charge, m)
      PROVE  FiadoInv'
  BY <1>9, CloseOwes
<1>10. ASSUME NEW o \in Orders, NEW charge \in Charges, NEW m \in Methods, NEW n \in 1..MaxPieces,
              PayPieces(o, n, charge, m)
       PROVE  FiadoInv'
  BY <1>10, PayPiecesOwes
<1>11. ASSUME NEW o \in Orders, NEW charge \in Charges, NEW m \in Methods,
              NEW amount \in PartialAmounts, PayAmount(o, amount, charge, m)
       PROVE  FiadoInv'
  BY <1>11, PayAmountOwes
<1>12. ASSUME NEW d \in Direct, CancelConsignment(d) PROVE FiadoInv'
  BY <1>12, CancelConsignmentOwes
<1>13. ASSUME NEW d \in Direct, NEW n \in 1..MaxPieces, CreateConsignment(d, n) PROVE FiadoInv'
  BY <1>13, CreateConsignmentOwes
<1>14. ASSUME NEW a \in Accounts, NEW amount \in Installments, NEW m \in Methods,
              PayInstallment(a, amount, m)
       PROVE  FiadoInv'
  BY <1>14, PayInstallmentOwes
<1> QED
  BY <1>1, <1>2, <1>3, <1>4, <1>5, <1>6, <1>7, <1>8, <1>9, <1>10, <1>11, <1>12, <1>13, <1>14
     DEF Next

(* The columns of a fiado always agree with its installments, and a fiado  *)
(* paid off has received its whole product and its whole service: for any  *)
(* price but zero (a fiado of free pieces is written as owing nothing and  *)
(* yet "pendente") and while no comanda both gives pieces back one by one  *)
(* and is converted (the conversion copies payments without what they gave *)
(* back).                                                                  *)
THEOREM FiadosBalance ==
  ASSUME ItemRefundable \cap Convertible = {}, Price # 0
  PROVE  Spec => []FiadoBalance
<1>1. Init => LedgerInv /\ FiadoInv
  BY LedgerStarts, FiadoStarts
<1>2. LedgerInv /\ FiadoInv /\ [Next]_vars => (LedgerInv /\ FiadoInv)'
  BY LedgerSteps, FiadoSteps
<1>3. LedgerInv /\ FiadoInv => FiadoBalance
  <2> SUFFICES ASSUME LedgerInv, FiadoInv, NEW a \in Accounts,
                      account[a].status \in {"pendente", "pago"}
               PROVE  /\ account[a].paid = SumRows(installments[a], Gross)
                      /\ account[a].paid + account[a].balance = account[a].total
                      /\ (account[a].status = "pago") = (account[a].balance = 0)
                      /\ account[a].balance = 0 =>
                           /\ SumRows(installments[a], Product) = account[a].product
                           /\ SumRows(installments[a], Service) = account[a].service
    BY DEF FiadoBalance
  <2>1. /\ account[a].total = account[a].product + account[a].service
        /\ account[a].paid = SumRows(installments[a], Gross)
        /\ account[a].paid + account[a].balance = account[a].total
        /\ (account[a].status = "pago") <=> (account[a].balance = 0)
        /\ SumRows(installments[a], Product) <= account[a].product
        /\ SumRows(installments[a], Service) <= account[a].service
    BY DEF FiadoInv, Balanced
  <2>2. account[a] \in AccountRecord /\ installments[a] \in Seq(InstallmentRow)
    BY AccountFacts
  <2>3. /\ account[a].product \in Nat /\ account[a].service \in Nat /\ account[a].paid \in Nat
        /\ account[a].balance \in Nat
    BY <2>2, AccountColumns
  <2>4. /\ SumRows(installments[a], Product) \in Nat /\ SumRows(installments[a], Service) \in Nat
        /\ SumRows(installments[a], Gross)
             = SumRows(installments[a], Product) + SumRows(installments[a], Service)
    BY <2>2, InstallmentTotals
  <2>5. (account[a].status = "pago") = (account[a].balance = 0)
    BY <2>1
  <2>6. account[a].balance = 0 =>
          /\ SumRows(installments[a], Product) = account[a].product
          /\ SumRows(installments[a], Service) = account[a].service
    BY <2>1, <2>3, <2>4
  <2> QED  BY <2>1, <2>5, <2>6
<1> QED  BY <1>1, <1>2, <1>3, PTL DEF Spec

-----------------------------------------------------------------------------
(* The rows of every sale, and the sums of their columns.  A table gives   *)
(* each sale its list of rows; a row is named by its sale and its number.  *)
At(t, r) == t[r[1]][r[2]]
GrossTable(A, t) == [r \in PairRows(A, t) |-> Gross(At(t, r))]
FeeTable(A, t) == [r \in PairRows(A, t) |-> Fee(At(t, r))]

MoneyTable(A, t) ==
  /\ IsFiniteSet(A)
  /\ \A a \in A : \E n \in Nat : DOMAIN t[a] = 1..n
  /\ \A a \in A : \A i \in DOMAIN t[a] : Gross(t[a][i]) \in Nat
WithFees(A, t) == \A a \in A : \A i \in DOMAIN t[a] : Fee(t[a][i]) \in Nat

LEMMA TableColumns ==
  ASSUME NEW A, NEW t, MoneyTable(A, t)
  PROVE  /\ IsFiniteSet(PairRows(A, t))
         /\ GrossTable(A, t) \in [PairRows(A, t) -> Nat]
         /\ WithFees(A, t) => FeeTable(A, t) \in [PairRows(A, t) -> Nat]
         /\ \A r \in PairRows(A, t) : /\ GrossTable(A, t)[r] = Gross(At(t, r))
                                      /\ FeeTable(A, t)[r] = Fee(At(t, r))
<1>1. /\ IsFiniteSet(PairRows(A, t))
      /\ \A r \in PairRows(A, t) : r[1] \in A /\ r[2] \in DOMAIN t[r[1]]
  BY FinitePairs DEF MoneyTable
<1>2. \A r \in PairRows(A, t) : Gross(At(t, r)) \in Nat
  BY <1>1 DEF MoneyTable, At
<1>3. WithFees(A, t) => \A r \in PairRows(A, t) : Fee(At(t, r)) \in Nat
  BY <1>1 DEF WithFees, At
<1> HIDE DEF Gross, Fee, At
<1> QED  BY <1>1, <1>2, <1>3 DEF GrossTable, FeeTable

(* A column over some of the rows, and over two disjoint sets of rows.     *)
LEMMA TableSums ==
  ASSUME NEW A, NEW t, MoneyTable(A, t), NEW R \in SUBSET PairRows(A, t)
  PROVE  /\ SumOn(GrossTable(A, t), R) \in Nat
         /\ WithFees(A, t) => SumOn(FeeTable(A, t), R) \in Nat
<1> DEFINE D == PairRows(A, t)  g == GrossTable(A, t)  f == FeeTable(A, t)
<1>1. IsFiniteSet(D) /\ g \in [D -> Nat] /\ (WithFees(A, t) => f \in [D -> Nat])
  BY TableColumns
<1>2. IsFiniteSet(R) /\ R \in SUBSET D
  BY <1>1, FS_Subset
<1> HIDE DEF D, g, f
<1>3. SumOn(g, R) \in Nat
  BY <1>1, <1>2, SumOnLaws
<1>4. ASSUME WithFees(A, t) PROVE SumOn(f, R) \in Nat
  BY <1>1, <1>2, <1>4, SumOnLaws
<1> QED  BY <1>3, <1>4 DEF f, g

LEMMA TableUnion ==
  ASSUME NEW A, NEW t, MoneyTable(A, t), NEW R \in SUBSET PairRows(A, t),
         NEW Q \in SUBSET PairRows(A, t), R \cap Q = {}
  PROVE  /\ SumOn(GrossTable(A, t), R \cup Q) = SumOn(GrossTable(A, t), R) + SumOn(GrossTable(A, t), Q)
         /\ WithFees(A, t) =>
              SumOn(FeeTable(A, t), R \cup Q) = SumOn(FeeTable(A, t), R) + SumOn(FeeTable(A, t), Q)
<1> DEFINE D == PairRows(A, t)  g == GrossTable(A, t)  f == FeeTable(A, t)
<1>1. IsFiniteSet(D) /\ g \in [D -> Nat] /\ (WithFees(A, t) => f \in [D -> Nat])
  BY TableColumns
<1>2. IsFiniteSet(R) /\ IsFiniteSet(Q) /\ R \in SUBSET D /\ Q \in SUBSET D
  BY <1>1, FS_Subset
<1> HIDE DEF D, g, f
<1>3. SumOn(g, R \cup Q) = SumOn(g, R) + SumOn(g, Q)
  BY <1>1, <1>2, SumUnion
<1>4. ASSUME WithFees(A, t) PROVE SumOn(f, R \cup Q) = SumOn(f, R) + SumOn(f, Q)
  BY <1>1, <1>2, <1>4, SumUnion
<1> QED  BY <1>3, <1>4 DEF f, g

(* Rows that are the same in two tables have the same sums.                *)
LEMMA TableSame ==
  ASSUME NEW A, NEW t, NEW u, NEW R \in SUBSET PairRows(A, t), R \in SUBSET PairRows(A, u),
         \A r \in R : At(t, r) = At(u, r)
  PROVE  /\ SumOn(GrossTable(A, t), R) = SumOn(GrossTable(A, u), R)
         /\ SumOn(FeeTable(A, t), R) = SumOn(FeeTable(A, u), R)
<1>1. /\ \A r \in R : GrossTable(A, t)[r] = GrossTable(A, u)[r]
      /\ \A r \in R : FeeTable(A, t)[r] = FeeTable(A, u)[r]
  BY DEF GrossTable, FeeTable
<1>2. SumOn(GrossTable(A, t), R) = SumOn(GrossTable(A, u), R)
  BY <1>1, SumOnSame
<1>3. SumOn(FeeTable(A, t), R) = SumOn(FeeTable(A, u), R)
  BY <1>1, SumOnSame
<1> QED  BY <1>2, <1>3

(* Rows appended to the list of one sale add their amounts to the sum.     *)
LEMMA TableGrows ==
  ASSUME NEW A, NEW t, MoneyTable(A, t), NEW u, MoneyTable(A, u), NEW s \in A,
         \A a \in A : a # s => u[a] = t[a],
         NEW n \in Nat, NEW m \in Nat, NEW new, Joined(t[s], n, new, m, u[s])
  PROVE  SumF(GrossTable(A, u)) = SumF(GrossTable(A, t)) + SumRows(new, Gross)
<1> DEFINE D == PairRows(A, t)  E == PairRows(A, u)  M == 1..m
           N == {<<s, n + j>> : j \in M}
           e == [j \in M |-> <<s, n + j>>]
           g == GrossTable(A, t)  h == GrossTable(A, u)
           f == [r \in N |-> h[r]]
           c == GrossOf(new)
<1>1. /\ DOMAIN t[s] = 1..n /\ DOMAIN new = M /\ DOMAIN u[s] = 1..(n + m)
      /\ \A i \in 1..n : u[s][i] = t[s][i]
      /\ \A j \in M : u[s][n + j] = new[j]
  BY DEF Joined
<1>2. /\ IsFiniteSet(D) /\ IsFiniteSet(E) /\ g \in [D -> Nat] /\ h \in [E -> Nat]
      /\ \A r \in D : g[r] = Gross(At(t, r))
      /\ \A r \in E : h[r] = Gross(At(u, r))
  BY TableColumns
<1>3. /\ \A r \in D : r[1] \in A /\ r[2] \in DOMAIN t[r[1]] /\ r = <<r[1], r[2]>>
      /\ \A r \in E : r[1] \in A /\ r[2] \in DOMAIN u[r[1]] /\ r = <<r[1], r[2]>>
      /\ \A a \in A : \A i \in DOMAIN t[a] : <<a, i>> \in D
      /\ \A a \in A : \A i \in DOMAIN u[a] : <<a, i>> \in E
  BY FinitePairs DEF MoneyTable
<1>4. ASSUME NEW r \in D PROVE r \in E /\ h[r] = g[r] /\ r \notin N
  <2>1. r[1] \in A /\ r[2] \in DOMAIN t[r[1]] /\ r = <<r[1], r[2]>>
    BY <1>3
  <2>2. r[2] \in DOMAIN u[r[1]] /\ u[r[1]][r[2]] = t[r[1]][r[2]]
    <3>1. CASE r[1] = s
      <4>1. r[2] \in 1..n
        BY <1>1, <2>1, <3>1
      <4>2. u[s][r[2]] = t[s][r[2]] /\ r[2] \in 1..(n + m)
        BY <1>1, <4>1
      <4> HIDE DEF D
      <4> QED  BY <1>1, <3>1, <4>2
    <3>2. CASE r[1] # s
      <4>1. u[r[1]] = t[r[1]]
        BY <2>1, <3>2
      <4> QED  BY <2>1, <4>1
    <3> QED  BY <3>1, <3>2
  <2>3. r \in E
    BY <1>3, <2>1, <2>2
  <2>4. At(u, r) = At(t, r)
    BY <2>2 DEF At
  <2>5. ASSUME NEW j \in M, r = <<s, n + j>> PROVE FALSE
    BY <1>1, <2>1, <2>5
  <2> HIDE DEF D, E, g, h
  <2> QED  BY <1>2, <2>3, <2>4, <2>5
<1>5. ASSUME NEW j \in M PROVE <<s, n + j>> \in E /\ h[<<s, n + j>>] = c[j]
  <2>1. n + j \in 1..(n + m)
    OBVIOUS
  <2>2. <<s, n + j>> \in E
    BY <1>1, <1>3, <2>1
  <2>3. At(u, <<s, n + j>>) = new[j]
    BY <1>1 DEF At
  <2>4. c[j] = Gross(new[j])
    BY <1>1 DEF GrossOf, Gross
  <2> HIDE DEF E, h, c
  <2> QED  BY <1>2, <2>2, <2>3, <2>4
<1>6. ASSUME NEW r \in E, r \notin D PROVE r \in N
  <2>1. r[1] \in A /\ r[2] \in DOMAIN u[r[1]] /\ r = <<r[1], r[2]>>
    BY <1>3
  <2>2. r[1] = s
    BY <1>3, <1>6, <2>1
  <2>3. r[2] \in 1..(n + m) /\ r[2] \notin 1..n
    BY <1>1, <1>3, <1>6, <2>1, <2>2
  <2>4. r[2] - n \in M /\ r[2] = n + (r[2] - n)
    BY <2>3
  <2> QED  BY <2>1, <2>2, <2>4
<1>7. N \in SUBSET E /\ E = D \cup N /\ D \cap N = {} /\ D \in SUBSET E
  BY <1>4, <1>5, <1>6
<1>8. e \in Bijection(M, N)
  <2>1. e \in [M -> N] /\ \A j \in M : e[j] = <<s, n + j>>
    OBVIOUS
  <2>2. ASSUME NEW i \in M, NEW j \in M, e[i] = e[j] PROVE i = j
    <3>1. <<s, n + i>>[2] = <<s, n + j>>[2]
      BY <2>1, <2>2
    <3>2. n + i = n + j /\ i \in Int /\ j \in Int
      BY <3>1
    <3> QED  BY <3>2
  <2>3. \A r \in N : \E j \in M : e[j] = r
    BY <2>1
  <2> HIDE DEF e, M, N
  <2> QED  BY <2>1, <2>2, <2>3, Fun_IsBij
<1>9. \A j \in M : e[j] = <<s, n + j>>
  OBVIOUS
<1>10. c \in [M -> Nat]
  <2>1. \A j \in M : <<s, n + j>> \in E /\ h[<<s, n + j>>] \in Nat
    <3> HIDE DEF E, h, M
    <3> QED  BY <1>2, <1>5
  <2>2. DOMAIN c = M /\ c = [j \in DOMAIN new |-> new[j].product + new[j].service]
    BY <1>1 DEF GrossOf
  <2> HIDE DEF c, M, h, E
  <2> QED  BY <1>1, <1>5, <2>1, <2>2
<1>11. IsFiniteSet(M)
  BY FS_Interval
<1> HIDE DEF D, E, M, N, e, g, h, c
<1>12. SumF(h) = SumOn(h, D) + SumOn(h, N)
  <2>1. IsFiniteSet(D) /\ IsFiniteSet(N)
    BY <1>2, <1>7, FS_Subset
  <2>2. SumOn(h, D \cup N) = SumOn(h, D) + SumOn(h, N)
    BY <1>2, <1>7, <2>1, SumUnion
  <2>3. SumOn(h, E) = SumF(h)
    BY <1>2, SumOnLaws
  <2> QED  BY <1>7, <2>2, <2>3
<1>13. SumOn(h, D) = SumF(g)
  <2>1. SumOn(h, D) = SumOn(g, D)
    BY <1>4, SumOnSame
  <2>2. SumOn(g, D) = SumF(g)
    BY <1>2, SumOnLaws
  <2> QED  BY <2>1, <2>2
<1>14. SumOn(h, N) = SumF(c)
  <2>1. f \in [N -> Nat]
    BY <1>2, <1>7
  <2>2. \A j \in M : f[e[j]] = c[j]
    <3>1. \A j \in M : e[j] \in N
      BY <1>9 DEF N
    <3> QED  BY <1>5, <1>9, <3>1
  <2>3. SumOn(h, N) = SumF(f)
    BY DEF SumOn
  <2> HIDE DEF f
  <2>4. SumF([j \in M |-> f[e[j]]]) = SumF(f)
    BY <1>8, <1>11, <2>1, SumReindex
  <2>5. [j \in M |-> f[e[j]]] = c
    BY <1>10, <2>2
  <2> QED  BY <2>3, <2>4, <2>5
<1>15. SumRows(new, Gross) = SumF(c)
  <2>1. SumRows(new, Gross) = SumOn(c, M)
    BY <1>1, ColumnTotals DEF c
  <2>2. SumOn(c, M) = SumF(c)
    BY <1>10, SumOnLaws
  <2> QED  BY <2>1, <2>2
<1> QED  BY <1>12, <1>13, <1>14, <1>15 DEF g, h

-----------------------------------------------------------------------------
(* The cash position, as a sum over the rows of every sale.                *)

PaysIn(ord, pays, T) ==
  {r \in PairRows(Orders, pays) : At(pays, r).period \in T /\ ~ord[r[1]].fiado}
InstsIn(insts, T) == {r \in PairRows(Accounts, insts) : At(insts, r).period \in T}

Received(ord, pays, insts, T) ==
  SumOn(GrossTable(Orders, pays), PaysIn(ord, pays, T))
  + SumOn(GrossTable(Accounts, insts), InstsIn(insts, T))
FeesOf(ord, pays, insts, T) ==
  SumOn(FeeTable(Orders, pays), PaysIn(ord, pays, T))
  + SumOn(FeeTable(Accounts, insts), InstsIn(insts, T))
Given(refs) == SumF(GrossTable(Accounts, refs))

LEMMA ColumnOfRows ==
  ASSUME NEW A, NEW t, NEW R \in SUBSET PairRows(A, t)
  PROVE  /\ SumF([r \in R |-> Gross(At(t, r))]) = SumOn(GrossTable(A, t), R)
         /\ SumF([r \in R |-> Fee(At(t, r))]) = SumOn(FeeTable(A, t), R)
<1>1. /\ [r \in R |-> Gross(At(t, r))] = [r \in R |-> GrossTable(A, t)[r]]
      /\ [r \in R |-> Fee(At(t, r))] = [r \in R |-> FeeTable(A, t)[r]]
  BY DEF GrossTable, FeeTable
<1> QED  BY <1>1 DEF SumOn

LEMMA BookRows ==
  /\ OrderRows = PairRows(Orders, payments) /\ InstallmentRows = PairRows(Accounts, installments)
  /\ RefundRows = PairRows(Accounts, refunds)
  /\ \A r : /\ PaymentAt(r) = At(payments, r) /\ InstallmentAt(r) = At(installments, r)
            /\ RefundAt(r) = At(refunds, r)
BY DEF OrderRows, InstallmentRows, RefundRows, PairRows, PaymentAt, InstallmentAt, RefundAt, At

(* The operators of the book are these sums of the tables.                 *)
LEMMA BookTerms ==
  ASSUME NEW T
  PROVE  /\ GrossReceived(T) = Received(order, payments, installments, T)
         /\ CardFees(T) = FeesOf(order, payments, installments, T)
         /\ SumF([r \in RefundRows |-> Gross(RefundAt(r))]) = Given(refunds)
<1> DEFINE D == PaysIn(order, payments, T)  I == InstsIn(installments, T)  R == PairRows(Accounts, refunds)
<1>1. DirectPayments(T) = D /\ InstallmentsIn(T) = I /\ RefundRows = R
  BY BookRows DEF DirectPayments, InstallmentsIn, PaysIn, InstsIn
<1>2. D \in SUBSET PairRows(Orders, payments) /\ I \in SUBSET PairRows(Accounts, installments)
  BY DEF PaysIn, InstsIn
<1>3. /\ \A r \in D : PaymentAt(r) = At(payments, r)
      /\ \A r \in I : InstallmentAt(r) = At(installments, r)
      /\ \A r \in R : RefundAt(r) = At(refunds, r)
  BY BookRows
<1> HIDE DEF D, I, R, Gross, Fee, At
<1>4. /\ [r \in D |-> Gross(PaymentAt(r))] = [r \in D |-> Gross(At(payments, r))]
      /\ [r \in D |-> Fee(PaymentAt(r))] = [r \in D |-> Fee(At(payments, r))]
      /\ [r \in I |-> Gross(InstallmentAt(r))] = [r \in I |-> Gross(At(installments, r))]
      /\ [r \in I |-> Fee(InstallmentAt(r))] = [r \in I |-> Fee(At(installments, r))]
      /\ [r \in R |-> Gross(RefundAt(r))] = [r \in R |-> Gross(At(refunds, r))]
  BY <1>3
<1>5. /\ SumF([r \in D |-> Gross(At(payments, r))]) = SumOn(GrossTable(Orders, payments), D)
      /\ SumF([r \in D |-> Fee(At(payments, r))]) = SumOn(FeeTable(Orders, payments), D)
      /\ SumF([r \in I |-> Gross(At(installments, r))]) = SumOn(GrossTable(Accounts, installments), I)
      /\ SumF([r \in I |-> Fee(At(installments, r))]) = SumOn(FeeTable(Accounts, installments), I)
  BY <1>2, ColumnOfRows
<1>6. SumF([r \in R |-> Gross(RefundAt(r))]) = Given(refunds)
  BY <1>4 DEF Given, GrossTable, R
<1>7. GrossReceived(T) = SumF([r \in D |-> Gross(PaymentAt(r))]) + SumF([r \in I |-> Gross(InstallmentAt(r))])
  BY <1>1 DEF GrossReceived
<1>8. CardFees(T) = SumF([r \in D |-> Fee(PaymentAt(r))]) + SumF([r \in I |-> Fee(InstallmentAt(r))])
  BY <1>1 DEF CardFees
<1>9. GrossReceived(T) = Received(order, payments, installments, T)
  BY <1>4, <1>5, <1>7 DEF Received, D, I
<1>10. CardFees(T) = FeesOf(order, payments, installments, T)
  BY <1>4, <1>5, <1>8 DEF FeesOf, D, I
<1> QED  BY <1>1, <1>6, <1>9, <1>10

(* What a session received adds up with what the sessions before did.      *)
Additive(ord, pays, insts, T, S, U) ==
  /\ Received(ord, pays, insts, U) =
       Received(ord, pays, insts, T) + Received(ord, pays, insts, S)
  /\ FeesOf(ord, pays, insts, U) =
       FeesOf(ord, pays, insts, T) + FeesOf(ord, pays, insts, S)
  /\ Received(ord, pays, insts, T) \in Nat /\ Received(ord, pays, insts, S) \in Nat
  /\ FeesOf(ord, pays, insts, T) \in Nat /\ FeesOf(ord, pays, insts, S) \in Nat

LEMMA SessionAdds ==
  ASSUME NEW ord, NEW pays, NEW insts, MoneyTable(Orders, pays), WithFees(Orders, pays),
         MoneyTable(Accounts, insts), WithFees(Accounts, insts), NEW T, NEW S, S \cap T = {},
         NEW U, U = T \cup S
  PROVE  Additive(ord, pays, insts, T, S, U)
<1> DEFINE DT == PaysIn(ord, pays, T)  DS == PaysIn(ord, pays, S)
           IT == InstsIn(insts, T)  IS == InstsIn(insts, S)
           g == GrossTable(Orders, pays)  h == GrossTable(Accounts, insts)
           f == FeeTable(Orders, pays)  k == FeeTable(Accounts, insts)
<1>1. /\ DT \in SUBSET PairRows(Orders, pays) /\ DS \in SUBSET PairRows(Orders, pays)
      /\ IT \in SUBSET PairRows(Accounts, insts) /\ IS \in SUBSET PairRows(Accounts, insts)
      /\ DT \cap DS = {} /\ IT \cap IS = {}
      /\ PaysIn(ord, pays, U) = DT \cup DS /\ InstsIn(insts, U) = IT \cup IS
  BY DEF PaysIn, InstsIn
<1>2. /\ SumOn(g, DT \cup DS) = SumOn(g, DT) + SumOn(g, DS)
      /\ SumOn(f, DT \cup DS) = SumOn(f, DT) + SumOn(f, DS)
      /\ SumOn(h, IT \cup IS) = SumOn(h, IT) + SumOn(h, IS)
      /\ SumOn(k, IT \cup IS) = SumOn(k, IT) + SumOn(k, IS)
  <2> HIDE DEF DT, DS, IT, IS
  <2> QED  BY <1>1, TableUnion
<1>3. /\ SumOn(g, DT) \in Nat /\ SumOn(g, DS) \in Nat /\ SumOn(f, DT) \in Nat /\ SumOn(f, DS) \in Nat
      /\ SumOn(h, IT) \in Nat /\ SumOn(h, IS) \in Nat /\ SumOn(k, IT) \in Nat /\ SumOn(k, IS) \in Nat
  <2> HIDE DEF DT, DS, IT, IS
  <2> QED  BY <1>1, TableSums
<1>4. /\ Received(ord, pays, insts, U) = SumOn(g, DT \cup DS) + SumOn(h, IT \cup IS)
      /\ FeesOf(ord, pays, insts, U) = SumOn(f, DT \cup DS) + SumOn(k, IT \cup IS)
      /\ Received(ord, pays, insts, T) = SumOn(g, DT) + SumOn(h, IT)
      /\ Received(ord, pays, insts, S) = SumOn(g, DS) + SumOn(h, IS)
      /\ FeesOf(ord, pays, insts, T) = SumOn(f, DT) + SumOn(k, IT)
      /\ FeesOf(ord, pays, insts, S) = SumOn(f, DS) + SumOn(k, IS)
  BY <1>1 DEF Received, FeesOf
<1> HIDE DEF g, h, f, k, DT, DS, IT, IS
<1> QED  BY <1>2, <1>3, <1>4 DEF Additive

(* The rows of a session that is over are not touched any more.            *)
Stays(old, new, T) ==
  /\ \A i \in DOMAIN old : i \in DOMAIN new /\ new[i] = old[i]
  /\ \A i \in DOMAIN new : i \notin DOMAIN old => new[i].period \notin T
Outside(rows, T) == \A i \in DOMAIN rows : rows[i].period \notin T

Settled(ord, pays, insts, ord2, pays2, insts2, T) ==
  /\ \A o \in Orders : /\ Stays(pays[o], pays2[o], T)
                       /\ (ord2[o].fiado <=> ord[o].fiado) \/ Outside(pays2[o], T)
  /\ \A a \in Accounts : Stays(insts[a], insts2[a], T)

LEMMA SettledStay ==
  ASSUME NEW T, NEW ord, NEW pays, NEW insts, NEW ord2, NEW pays2, NEW insts2,
         MoneyTable(Orders, pays), MoneyTable(Accounts, insts),
         MoneyTable(Orders, pays2), MoneyTable(Accounts, insts2),
         Settled(ord, pays, insts, ord2, pays2, insts2, T)
  PROVE  /\ Received(ord2, pays2, insts2, T) = Received(ord, pays, insts, T)
         /\ FeesOf(ord2, pays2, insts2, T) = FeesOf(ord, pays, insts, T)
<1> DEFINE D == PaysIn(ord, pays, T)  I == InstsIn(insts, T)
           P == PairRows(Orders, pays)  P2 == PairRows(Orders, pays2)
           Q == PairRows(Accounts, insts)  Q2 == PairRows(Accounts, insts2)
<1>1. /\ \A r \in P : r[1] \in Orders /\ r[2] \in DOMAIN pays[r[1]] /\ r = <<r[1], r[2]>>
      /\ \A r \in P2 : r[1] \in Orders /\ r[2] \in DOMAIN pays2[r[1]] /\ r = <<r[1], r[2]>>
      /\ \A o \in Orders : \A i \in DOMAIN pays[o] : <<o, i>> \in P
      /\ \A o \in Orders : \A i \in DOMAIN pays2[o] : <<o, i>> \in P2
  BY FinitePairs DEF MoneyTable
<1>2. /\ \A r \in Q : r[1] \in Accounts /\ r[2] \in DOMAIN insts[r[1]] /\ r = <<r[1], r[2]>>
      /\ \A r \in Q2 : r[1] \in Accounts /\ r[2] \in DOMAIN insts2[r[1]] /\ r = <<r[1], r[2]>>
      /\ \A a \in Accounts : \A i \in DOMAIN insts[a] : <<a, i>> \in Q
      /\ \A a \in Accounts : \A i \in DOMAIN insts2[a] : <<a, i>> \in Q2
  BY FinitePairs DEF MoneyTable
<1> HIDE DEF P, P2, Q, Q2
<1>3. ASSUME NEW r \in D PROVE r \in PaysIn(ord2, pays2, T) /\ At(pays, r) = At(pays2, r)
  <2>1. /\ r \in P /\ At(pays, r).period \in T /\ ~ord[r[1]].fiado
    BY DEF PaysIn, P
  <2>2. r[1] \in Orders /\ r[2] \in DOMAIN pays[r[1]] /\ r = <<r[1], r[2]>>
    BY <1>1, <2>1
  <2>3. r[2] \in DOMAIN pays2[r[1]] /\ pays2[r[1]][r[2]] = pays[r[1]][r[2]]
    BY <2>2 DEF Settled, Stays
  <2>4. At(pays, r) = At(pays2, r)
    BY <2>3 DEF At
  <2>5. ~ord2[r[1]].fiado
    BY <2>1, <2>2, <2>3 DEF Settled, Outside, At
  <2>6. r \in P2
    BY <1>1, <2>2, <2>3
  <2> QED  BY <2>1, <2>4, <2>5, <2>6 DEF PaysIn, P2
<1>4. ASSUME NEW r \in PaysIn(ord2, pays2, T) PROVE r \in D
  <2>1. /\ r \in P2 /\ At(pays2, r).period \in T /\ ~ord2[r[1]].fiado
    BY DEF PaysIn, P2
  <2>2. r[1] \in Orders /\ r[2] \in DOMAIN pays2[r[1]] /\ r = <<r[1], r[2]>>
    BY <1>1, <2>1
  <2>3. pays2[r[1]][r[2]].period \in T
    BY <2>1 DEF At
  <2>4. r[2] \in DOMAIN pays[r[1]] /\ pays2[r[1]][r[2]] = pays[r[1]][r[2]]
    BY <2>2, <2>3 DEF Settled, Stays
  <2>5. ~ord[r[1]].fiado
    BY <2>1, <2>2, <2>3 DEF Settled, Outside
  <2>6. r \in P
    BY <1>1, <2>2, <2>4
  <2> QED  BY <2>3, <2>4, <2>5, <2>6 DEF PaysIn, P, At
<1>5. ASSUME NEW r \in I PROVE r \in InstsIn(insts2, T) /\ At(insts, r) = At(insts2, r)
  <2>1. r \in Q /\ At(insts, r).period \in T
    BY DEF InstsIn, Q
  <2>2. r[1] \in Accounts /\ r[2] \in DOMAIN insts[r[1]] /\ r = <<r[1], r[2]>>
    BY <1>2, <2>1
  <2>3. r[2] \in DOMAIN insts2[r[1]] /\ insts2[r[1]][r[2]] = insts[r[1]][r[2]]
    BY <2>2 DEF Settled, Stays
  <2>4. At(insts, r) = At(insts2, r)
    BY <2>3 DEF At
  <2>5. r \in Q2
    BY <1>2, <2>2, <2>3
  <2> QED  BY <2>1, <2>4, <2>5 DEF InstsIn, Q2
<1>6. ASSUME NEW r \in InstsIn(insts2, T) PROVE r \in I
  <2>1. r \in Q2 /\ At(insts2, r).period \in T
    BY DEF InstsIn, Q2
  <2>2. r[1] \in Accounts /\ r[2] \in DOMAIN insts2[r[1]] /\ r = <<r[1], r[2]>>
    BY <1>2, <2>1
  <2>3. insts2[r[1]][r[2]].period \in T
    BY <2>1 DEF At
  <2>4. r[2] \in DOMAIN insts[r[1]] /\ insts2[r[1]][r[2]] = insts[r[1]][r[2]]
    BY <2>2, <2>3 DEF Settled, Stays
  <2>5. r \in Q
    BY <1>2, <2>2, <2>4
  <2> QED  BY <2>3, <2>4, <2>5 DEF InstsIn, Q, At
<1>7. /\ PaysIn(ord2, pays2, T) = D /\ InstsIn(insts2, T) = I
      /\ \A r \in D : At(pays, r) = At(pays2, r)
      /\ \A r \in I : At(insts, r) = At(insts2, r)
  BY <1>3, <1>4, <1>5, <1>6
<1>8. /\ D \in SUBSET PairRows(Orders, pays) /\ I \in SUBSET PairRows(Accounts, insts)
      /\ PaysIn(ord2, pays2, T) \in SUBSET PairRows(Orders, pays2)
      /\ InstsIn(insts2, T) \in SUBSET PairRows(Accounts, insts2)
  BY DEF PaysIn, InstsIn
<1> HIDE DEF D, I
<1>9. /\ SumOn(GrossTable(Orders, pays), D) = SumOn(GrossTable(Orders, pays2), D)
      /\ SumOn(FeeTable(Orders, pays), D) = SumOn(FeeTable(Orders, pays2), D)
      /\ SumOn(GrossTable(Accounts, insts), I) = SumOn(GrossTable(Accounts, insts2), I)
      /\ SumOn(FeeTable(Accounts, insts), I) = SumOn(FeeTable(Accounts, insts2), I)
  BY <1>7, <1>8, TableSame
<1> QED  BY <1>7, <1>9 DEF Received, FeesOf, D, I

(* The inductive invariant of the cash position.  A converted comanda is   *)
(* carried by its fiado, whose first installments copy its payments; the   *)
(* payments of an open comanda are all of the open session.                *)
CopiesFit(ord, pays, insts) ==
  ord.fiado =>
    /\ \A i \in DOMAIN pays :
         /\ i \in DOMAIN insts /\ insts[i].source # 0 /\ insts[i].period = pays[i].period
         /\ insts[i].product = pays[i].product /\ insts[i].service = pays[i].service
    /\ \A i \in DOMAIN insts : i \notin DOMAIN pays => insts[i].source = 0
OpenToday(ord, pays) ==
  ord.status = "aberta" => sessionOpen /\ \A i \in DOMAIN pays : pays[i].period = session
OwnMoney(insts) == \A i \in DOMAIN insts : insts[i].source = 0

Closed == 1..(IF sessionOpen THEN session - 1 ELSE session)
BookInv ==
  /\ \A o \in Orders : /\ CopiesFit(order[o], payments[o], installments[o])
                       /\ OpenToday(order[o], payments[o])
  /\ \A d \in Direct : OwnMoney(installments[d])
  /\ position = Received(order, payments, installments, Closed)
                - FeesOf(order, payments, installments, Closed) - Given(refunds)

LEMMA TypedTable ==
  ASSUME NEW A, IsFiniteSet(A), NEW R, NEW t, t \in [A -> Seq(R)], \A r \in R : Gross(r) \in Nat
  PROVE  MoneyTable(A, t) /\ ((\A r \in R : Fee(r) \in Nat) => WithFees(A, t))
<1>1. ASSUME NEW a \in A
      PROVE  /\ \E n \in Nat : DOMAIN t[a] = 1..n
             /\ \A i \in DOMAIN t[a] : t[a][i] \in R
  <2>1. t[a] \in Seq(R)
    OBVIOUS
  <2> QED  BY <2>1, SeqFacts
<1> HIDE DEF Gross, Fee
<1> QED  BY <1>1 DEF MoneyTable, WithFees

LEMMA RowMoney ==
  /\ \A r \in PaymentRow : Gross(r) \in Nat /\ Fee(r) \in Nat
  /\ \A r \in InstallmentRow : Gross(r) \in Nat /\ Fee(r) \in Nat
  /\ \A r \in RefundRow : Gross(r) \in Nat
BY RowTypes DEF Gross, Fee

LEMMA FiniteSales == IsFiniteSet(Orders) /\ IsFiniteSet(Accounts)
BY Livro_Rows, FS_Union DEF Accounts

LEMMA TypedTables ==
  ASSUME NEW pays, pays \in [Orders -> Seq(PaymentRow)],
         NEW insts, insts \in [Accounts -> Seq(InstallmentRow)],
         NEW refs, refs \in [Accounts -> Seq(RefundRow)]
  PROVE  /\ MoneyTable(Orders, pays) /\ WithFees(Orders, pays)
         /\ MoneyTable(Accounts, insts) /\ WithFees(Accounts, insts)
         /\ MoneyTable(Accounts, refs)
<1>1. MoneyTable(Orders, pays) /\ WithFees(Orders, pays)
  BY FiniteSales, RowMoney, TypedTable
<1>2. MoneyTable(Accounts, insts) /\ WithFees(Accounts, insts)
  BY FiniteSales, RowMoney, TypedTable
<1>3. MoneyTable(Accounts, refs)
  BY FiniteSales, RowMoney, TypedTable
<1> QED  BY <1>1, <1>2, <1>3

LEMMA BookTables ==
  ASSUME LedgerInv
  PROVE  /\ MoneyTable(Orders, payments) /\ WithFees(Orders, payments)
         /\ MoneyTable(Accounts, installments) /\ WithFees(Accounts, installments)
         /\ MoneyTable(Accounts, refunds)
BY TableTypes, TypedTables

LEMMA BookTablesNext ==
  ASSUME LedgerInv', session' = session
  PROVE  /\ payments' \in [Orders -> Seq(PaymentRow)]
         /\ installments' \in [Accounts -> Seq(InstallmentRow)]
         /\ refunds' \in [Accounts -> Seq(RefundRow)]
         /\ MoneyTable(Orders, payments') /\ MoneyTable(Accounts, installments')
         /\ MoneyTable(Accounts, refunds')
<1>1. /\ payments' \in [Orders -> Seq(PaymentRow')]
      /\ installments' \in [Accounts -> Seq(InstallmentRow')]
      /\ refunds' \in [Accounts -> Seq(RefundRow')]
  BY DEF LedgerInv, TypeOK
<1>2. /\ payments' \in [Orders -> Seq(PaymentRow)]
      /\ installments' \in [Accounts -> Seq(InstallmentRow)]
      /\ refunds' \in [Accounts -> Seq(RefundRow)]
  BY <1>1, SameRows
<1> QED  BY <1>2, TypedTables

LEMMA BookSums ==
  ASSUME LedgerInv, NEW T
  PROVE  /\ Received(order, payments, installments, T) \in Nat
         /\ FeesOf(order, payments, installments, T) \in Nat
         /\ Given(refunds) \in Nat
<1>1. /\ PaysIn(order, payments, T) \in SUBSET PairRows(Orders, payments)
      /\ InstsIn(installments, T) \in SUBSET PairRows(Accounts, installments)
  BY DEF PaysIn, InstsIn
<1>2. /\ SumOn(GrossTable(Orders, payments), PaysIn(order, payments, T)) \in Nat
      /\ SumOn(FeeTable(Orders, payments), PaysIn(order, payments, T)) \in Nat
      /\ SumOn(GrossTable(Accounts, installments), InstsIn(installments, T)) \in Nat
      /\ SumOn(FeeTable(Accounts, installments), InstsIn(installments, T)) \in Nat
  BY <1>1, BookTables, TableSums
<1>3. Given(refunds) \in Nat
  BY BookTables, TableColumns, SumType DEF Given
<1> QED  BY <1>2, <1>3 DEF Received, FeesOf

LEMMA NothingGiven ==
  ASSUME LedgerInv, position' = position, refunds' = refunds
  PROVE  0 \in Nat /\ position' = position - 0 /\ Given(refunds') = Given(refunds) + 0
<1> DEFINE g == Given(refunds)
<1>1. g \in Nat /\ position \in Int
  BY BookSums, DayFacts
<1>2. Given(refunds') = g
  OBVIOUS
<1> HIDE DEF g
<1>3. g = g + 0
  BY <1>1
<1> QED  BY <1>1, <1>2, <1>3 DEF g

(* While the cash is open, the session is not one of the closed ones.      *)
LEMMA TodayIsOpen ==
  ASSUME LedgerInv, sessionOpen
  PROVE  session \notin Closed
BY DayFacts DEF Closed

(* A step of one sale, within a session: what it gives back is what it     *)
(* takes out of the position, and its new rows are of the open session.    *)
SaleBooks(s) ==
  /\ Elsewhere(s) /\ session' = session /\ sessionOpen' = sessionOpen
  /\ s \in Orders =>
       /\ CopiesFit(order'[s], payments'[s], installments'[s])
       /\ OpenToday(order'[s], payments'[s])
       /\ Stays(payments[s], payments'[s], Closed)
       /\ (order'[s].fiado <=> order[s].fiado) \/ Outside(payments'[s], Closed)
  /\ s \in Direct => OwnMoney(installments'[s])
  /\ s \in Accounts => Stays(installments[s], installments'[s], Closed)

LEMMA BookFrame ==
  ASSUME LedgerInv, BookInv, LedgerInv', NEW s, SaleBooks(s),
         NEW paid \in Nat, position' = position - paid, Given(refunds') = Given(refunds) + paid
  PROVE  BookInv'
<1> USE DEF SaleBooks
<1>1. PICK T : T = Closed
  OBVIOUS
<1>2. Closed' = T
  BY <1>1 DEF Closed
<1>3. \A o \in Orders : /\ CopiesFit(order'[o], payments'[o], installments'[o])
                        /\ OpenToday(order'[o], payments'[o])
  <2>1. ASSUME NEW o \in Orders, o # s
        PROVE  /\ CopiesFit(order'[o], payments'[o], installments'[o])
               /\ OpenToday(order'[o], payments'[o])
    <3>1. o \in Accounts
      BY DEF Accounts
    <3>2. order'[o] = order[o] /\ payments'[o] = payments[o] /\ installments'[o] = installments[o]
      BY <2>1, <3>1 DEF Elsewhere
    <3> QED  BY <3>2 DEF BookInv
  <2> QED  BY <2>1
<1>4. \A o \in Orders : OpenToday(order[o], payments[o])' 
  BY <1>3 DEF OpenToday
<1>5. \A d \in Direct : OwnMoney(installments'[d])
  <2>1. ASSUME NEW d \in Direct, d # s PROVE OwnMoney(installments'[d])
    <3>1. installments'[d] = installments[d]
      BY <2>1 DEF Elsewhere, Accounts
    <3> QED  BY <3>1 DEF BookInv
  <2> QED  BY <2>1
<1>6. \A o \in Orders : /\ Stays(payments[o], payments'[o], T)
                        /\ (order'[o].fiado <=> order[o].fiado) \/ Outside(payments'[o], T)
  <2>1. ASSUME NEW o \in Orders, o # s
        PROVE  Stays(payments[o], payments'[o], T) /\ (order'[o].fiado <=> order[o].fiado)
    BY <2>1 DEF Elsewhere, Stays
  <2> QED  BY <1>1, <2>1
<1>7. \A a \in Accounts : Stays(installments[a], installments'[a], T)
  <2>1. ASSUME NEW a \in Accounts, a # s PROVE Stays(installments[a], installments'[a], T)
    BY <2>1 DEF Elsewhere, Stays
  <2> QED  BY <1>1, <2>1
<1>8. /\ Received(order', payments', installments', T) = Received(order, payments, installments, T)
      /\ FeesOf(order', payments', installments', T) = FeesOf(order, payments, installments, T)
  <2>1. Settled(order, payments, installments, order', payments', installments', T)
    BY <1>6, <1>7 DEF Settled
  <2> QED  BY <2>1, BookTables, BookTablesNext, SettledStay
<1>9. position = Received(order, payments, installments, T)
                 - FeesOf(order, payments, installments, T) - Given(refunds)
  BY <1>1 DEF BookInv
<1>10. position' = Received(order', payments', installments', T)
                   - FeesOf(order', payments', installments', T) - Given(refunds')
  <2>1. /\ Received(order, payments, installments, T) \in Nat
        /\ FeesOf(order, payments, installments, T) \in Nat
    BY <1>1, BookSums
  <2>2. Given(refunds) \in Nat /\ position \in Int
    BY BookSums, DayFacts
  <2> QED  BY <1>8, <1>9, <2>1, <2>2
<1> QED  BY <1>2, <1>3, <1>4, <1>5, <1>10 DEF BookInv

LEMMA StaysSame ==
  ASSUME NEW rows, NEW T
  PROVE  Stays(rows, rows, T)
BY DEF Stays

LEMMA StaysAppended ==
  ASSUME NEW A, NEW rows \in Seq(A), NEW row, NEW T, row.period \notin T
  PROVE  /\ Stays(rows, Append(rows, row), T)
         /\ \A i \in DOMAIN Append(rows, row) : i \notin DOMAIN rows => Append(rows, row)[i] = row
         /\ \A i \in DOMAIN rows : i \in DOMAIN Append(rows, row) /\ Append(rows, row)[i] = rows[i]
<1> DEFINE n == Len(rows)  q == Append(rows, row)
<1>1. /\ n \in Nat /\ DOMAIN rows = 1..n /\ DOMAIN q = 1..(n + 1)
      /\ \A i \in 1..n : q[i] = rows[i]
      /\ q[n + 1] = row
  OBVIOUS
<1>2. \A i \in DOMAIN q : i \notin DOMAIN rows => i = n + 1
  BY <1>1
<1> HIDE DEF n, q
<1>3. \A i \in DOMAIN q : i \notin DOMAIN rows => q[i] = row
  BY <1>1, <1>2
<1>4. \A i \in DOMAIN rows : i \in DOMAIN q /\ q[i] = rows[i]
  BY <1>1
<1>5. Stays(rows, q, T)
  BY <1>3, <1>4 DEF Stays
<1> QED  BY <1>3, <1>4, <1>5 DEF q

LEMMA OpenSessionBooks ==
  ASSUME LedgerInv, BookInv, OpenSession
  PROVE  BookInv'
<1>1. /\ ~sessionOpen /\ session' = session + 1 /\ sessionOpen' = TRUE
      /\ order' = order /\ payments' = payments /\ installments' = installments
      /\ refunds' = refunds /\ position' = position
  BY DEF OpenSession
<1>2. Closed' = Closed
  BY <1>1, DayFacts DEF Closed
<1>3. \A o \in Orders : order[o].status # "aberta"
  BY <1>1 DEF BookInv, OpenToday
<1>4. \A o \in Orders : CopiesFit(order'[o], payments'[o], installments'[o])
  BY <1>1 DEF BookInv
<1>5. \A o \in Orders : OpenToday(order[o], payments[o])'
  BY <1>1, <1>3 DEF OpenToday
<1>6. PICK T : T = Closed
  OBVIOUS
<1>7. position' = Received(order', payments', installments', T)
                  - FeesOf(order', payments', installments', T) - Given(refunds')
  BY <1>1, <1>6 DEF BookInv
<1>8. \A d \in Direct : OwnMoney(installments'[d])
  BY <1>1 DEF BookInv
<1> QED  BY <1>2, <1>4, <1>5, <1>6, <1>7, <1>8 DEF BookInv

LEMMA CloseSessionBooks ==
  ASSUME LedgerInv, BookInv, CloseSession
  PROVE  BookInv'
<1>1. /\ sessionOpen /\ sessionOpen' = FALSE /\ session' = session
      /\ \A o \in Orders : order[o].status # "aberta"
      /\ position' = position + GrossReceived({session}) - CardFees({session})
      /\ order' = order /\ payments' = payments /\ installments' = installments /\ refunds' = refunds
  BY DEF CloseSession
<1>2. PICK T : T = Closed
  OBVIOUS
<1>3. PICK s : s = session
  OBVIOUS
<1> DEFINE S == {s}  U == T \cup S
<1>4. Closed' = U /\ S \cap T = {}
  BY <1>1, <1>2, <1>3, DayFacts DEF Closed
<1>5. /\ GrossReceived(S) = Received(order, payments, installments, S)
      /\ CardFees(S) = FeesOf(order, payments, installments, S)
  BY BookTerms
<1>6. position' = position + Received(order, payments, installments, S)
                  - FeesOf(order, payments, installments, S)
  BY <1>1, <1>3, <1>5
<1>7. position = Received(order, payments, installments, T)
                 - FeesOf(order, payments, installments, T) - Given(refunds)
  BY <1>2 DEF BookInv
<1>8. /\ Received(order, payments, installments, U) =
           Received(order, payments, installments, T) + Received(order, payments, installments, S)
      /\ FeesOf(order, payments, installments, U) =
           FeesOf(order, payments, installments, T) + FeesOf(order, payments, installments, S)
      /\ Received(order, payments, installments, T) \in Nat
      /\ Received(order, payments, installments, S) \in Nat
      /\ FeesOf(order, payments, installments, T) \in Nat
      /\ FeesOf(order, payments, installments, S) \in Nat
  <2>1. /\ MoneyTable(Orders, payments) /\ WithFees(Orders, payments)
        /\ MoneyTable(Accounts, installments) /\ WithFees(Accounts, installments)
    BY BookTables
  <2>2. S \cap T = {} /\ U = T \cup S
    BY <1>4
  <2> HIDE DEF Accounts, S, U
  <2>3. Additive(order, payments, installments, T, S, U)
    BY <2>1, <2>2, SessionAdds
  <2> QED  BY <2>3 DEF Additive
<1>9. position' = Received(order, payments, installments, U)
                  - FeesOf(order, payments, installments, U) - Given(refunds)
  <2> DEFINE a == Received(order, payments, installments, T)
             b == Received(order, payments, installments, S)
             c == FeesOf(order, payments, installments, T)
             d == FeesOf(order, payments, installments, S)
             g == Given(refunds)
  <2>1. a \in Nat /\ b \in Nat /\ c \in Nat /\ d \in Nat /\ g \in Nat
    BY <1>8, BookSums
  <2>2. position' = position + b - d /\ position = a - c - g
    BY <1>6, <1>7
  <2> HIDE DEF a, b, c, d, g
  <2>3. position' = (a + b) - (c + d) - g
    BY <2>1, <2>2
  <2> QED  BY <1>8, <2>3 DEF a, b, c, d, g
<1>10. \A o \in Orders : CopiesFit(order'[o], payments'[o], installments'[o])
  BY <1>1 DEF BookInv
<1>11. \A o \in Orders : OpenToday(order[o], payments[o])'
  BY <1>1 DEF OpenToday
<1>12. \A d \in Direct : OwnMoney(installments'[d])
  BY <1>1 DEF BookInv
<1> QED  BY <1>1, <1>4, <1>9, <1>10, <1>11, <1>12 DEF BookInv

(* Handlers that write only the row of a comanda, or of a fiado.           *)
LEMMA OrderRowBooks ==
  ASSUME LedgerInv, BookInv, LedgerInv', NEW o \in Orders, NEW ord,
         order' = [order EXCEPT ![o] = ord], ord.fiado = order[o].fiado,
         ord.status = "aberta" => sessionOpen /\ (order[o].status = "aberta" \/ payments[o] = << >>),
         UNCHANGED <<session, sessionOpen, payments, account, installments, refunds, position>>
  PROVE  BookInv'
<1>1. /\ session' = session /\ sessionOpen' = sessionOpen /\ payments' = payments
      /\ installments' = installments /\ refunds' = refunds /\ position' = position
  OBVIOUS
<1>2. Elsewhere(o) /\ order'[o] = ord
  BY TableTypes DEF Elsewhere
<1>3. CopiesFit(order'[o], payments'[o], installments'[o])
  <2>1. CopiesFit(order[o], payments[o], installments[o])
    BY DEF BookInv
  <2> QED  BY <1>1, <1>2, <2>1 DEF CopiesFit
<1>4. OpenToday(order'[o], payments'[o])
  <2>1. OpenToday(order[o], payments[o])
    BY DEF BookInv
  <2>2. ASSUME payments[o] = << >> PROVE \A i \in DOMAIN payments[o] : payments[o][i].period = session
    <3>1. DOMAIN << >> = {}
      OBVIOUS
    <3> QED  BY <2>2, <3>1
  <2> QED  BY <1>1, <1>2, <2>1, <2>2 DEF OpenToday
<1>5. Stays(payments[o], payments'[o], Closed) /\ Stays(installments[o], installments'[o], Closed)
  BY <1>1, StaysSame
<1>6. o \notin Direct
  BY Livro_Rows
<1>7. 0 \in Nat /\ position' = position - 0 /\ Given(refunds') = Given(refunds) + 0
  BY <1>1, NothingGiven
<1> QED  BY <1>1, <1>2, <1>3, <1>4, <1>5, <1>6, <1>7, BookFrame DEF SaleBooks

LEMMA OpenOrderBooks ==
  ASSUME LedgerInv, BookInv, LedgerInv', NEW o \in Orders, OpenOrder(o)
  PROVE  BookInv'
<1> DEFINE ord == [order[o] EXCEPT !.status = "aberta"]
<1>1. /\ sessionOpen /\ order[o].status = "nenhuma" /\ order' = [order EXCEPT ![o] = ord]
      /\ UNCHANGED <<session, sessionOpen, payments, account, installments, refunds, position>>
  BY DEF OpenOrder
<1>2. order[o] \in OrderRecord
      /\ StatusFits(order[o], payments[o], account[o], installments[o], refunds[o])
  BY SaleFacts DEF OrderFits
<1>3. ord.fiado = order[o].fiado /\ payments[o] = << >>
  BY <1>1, <1>2 DEF OrderRecord, StatusFits
<1> HIDE DEF ord
<1> QED  BY <1>1, <1>3, OrderRowBooks

LEMMA AddPieceBooks ==
  ASSUME LedgerInv, BookInv, LedgerInv', NEW o \in Orders, AddPiece(o)
  PROVE  BookInv'
<1> DEFINE ord == [order[o] EXCEPT !.pieces = @ + 1, !.total = @ + Price]
<1>1. /\ sessionOpen /\ order[o].status = "aberta" /\ order' = [order EXCEPT ![o] = ord]
      /\ UNCHANGED <<session, sessionOpen, payments, account, installments, refunds, position>>
  BY DEF AddPiece
<1>2. order[o] \in OrderRecord
  BY SaleFacts
<1>3. ord.fiado = order[o].fiado
  BY <1>2 DEF OrderRecord
<1> HIDE DEF ord
<1> QED  BY <1>1, <1>3, OrderRowBooks

LEMMA CreateConsignmentBooks ==
  ASSUME LedgerInv, BookInv, LedgerInv', NEW d \in Direct, NEW n \in 1..MaxPieces,
         CreateConsignment(d, n)
  PROVE  BookInv'
<1>1. /\ session' = session /\ sessionOpen' = sessionOpen /\ order' = order
      /\ payments' = payments /\ installments' = installments /\ refunds' = refunds
      /\ position' = position
      /\ \E acc : account' = [account EXCEPT ![d] = acc]
  BY DEF CreateConsignment
<1>2. Elsewhere(d)
  BY <1>1, TableTypes DEF Elsewhere
<1>3. d \notin Orders
  BY Livro_Rows
<1>4. OwnMoney(installments'[d])
  BY <1>1 DEF BookInv
<1>5. Stays(installments[d], installments'[d], Closed)
  BY <1>1, StaysSame
<1>6. 0 \in Nat /\ position' = position - 0 /\ Given(refunds') = Given(refunds) + 0
  BY <1>1, NothingGiven
<1> QED  BY <1>1, <1>2, <1>3, <1>4, <1>5, <1>6, BookFrame DEF SaleBooks

(* A payment of an open comanda is of the open session.                    *)
LEMMA PaymentBooks ==
  ASSUME LedgerInv, BookInv, LedgerInv', NEW o \in Orders, sessionOpen,
         order[o].status = "aberta", NEW row, row.period = session,
         NEW ord, ord.fiado = order[o].fiado, order' = [order EXCEPT ![o] = ord],
         payments' = [payments EXCEPT ![o] = Append(@, row)],
         UNCHANGED <<session, sessionOpen, account, installments, refunds, position>>
  PROVE  BookInv'
<1> DEFINE rows == payments[o]  q == Append(rows, row)
<1>1. /\ session' = session /\ sessionOpen' = sessionOpen /\ payments' = [payments EXCEPT ![o] = q]
      /\ account' = account /\ installments' = installments /\ refunds' = refunds
      /\ position' = position
  OBVIOUS
<1>2. /\ rows \in Seq(PaymentRow) /\ ~order[o].fiado /\ OpenToday(order[o], rows)
  BY SaleFacts DEF OrderFits, StatusFits, BookInv
<1>3. PICK T : T = Closed
  OBVIOUS
<1>4. row.period \notin T
  BY <1>3, TodayIsOpen
<1>5. /\ Stays(rows, q, T)
      /\ \A i \in DOMAIN q : i \notin DOMAIN rows => q[i] = row
      /\ \A i \in DOMAIN rows : i \in DOMAIN q /\ q[i] = rows[i]
  <2> HIDE DEF rows
  <2> QED  BY <1>2, <1>4, StaysAppended
<1> HIDE DEF q
<1>6. Elsewhere(o) /\ order'[o] = ord /\ payments'[o] = q
  BY <1>1, TableTypes DEF Elsewhere
<1>7. CopiesFit(order'[o], payments'[o], installments'[o])
  BY <1>2, <1>6 DEF CopiesFit
<1>8. OpenToday(order'[o], payments'[o])
  <2>1. \A i \in DOMAIN q : q[i].period = session
    BY <1>2, <1>5 DEF OpenToday
  <2> QED  BY <1>1, <1>6, <2>1 DEF OpenToday
<1>9. Stays(payments[o], payments'[o], Closed) /\ Stays(installments[o], installments'[o], Closed)
  BY <1>1, <1>3, <1>5, <1>6, StaysSame
<1>10. o \notin Direct
  BY Livro_Rows
<1>11. SaleBooks(o)
  BY <1>1, <1>6, <1>7, <1>8, <1>9, <1>10 DEF SaleBooks
<1>12. 0 \in Nat /\ position' = position - 0 /\ Given(refunds') = Given(refunds) + 0
  BY <1>1, NothingGiven
<1> QED  BY <1>11, <1>12, BookFrame

LEMMA PayPiecesBooks ==
  ASSUME LedgerInv, BookInv, LedgerInv', NEW o \in Orders, NEW n \in 1..MaxPieces,
         NEW charge \in Charges, NEW m \in Methods, PayPieces(o, n, charge, m)
  PROVE  BookInv'
<1> DEFINE row == Paid("partial", Price * n, Charge(Price * n, charge), m, n)
<1>1. /\ sessionOpen /\ order[o].status = "aberta" /\ order' = order
      /\ payments' = [payments EXCEPT ![o] = Append(@, row)]
      /\ UNCHANGED <<session, sessionOpen, account, installments, refunds, position>>
  BY DEF PayPieces, MayPayPart, Record
<1>2. row.period = session
  BY DEF Paid
<1>3. order' = [order EXCEPT ![o] = order[o]]
  BY <1>1, Unchanged
<1> HIDE DEF row
<1> QED  BY <1>1, <1>2, <1>3, PaymentBooks

LEMMA PayAmountBooks ==
  ASSUME LedgerInv, BookInv, LedgerInv', NEW o \in Orders, NEW amount \in PartialAmounts,
         NEW charge \in Charges, NEW m \in Methods, PayAmount(o, amount, charge, m)
  PROVE  BookInv'
<1> DEFINE product == ProductWithin(amount, charge)
           row == Paid("partial", product, amount - product, m, 0)
<1>1. /\ sessionOpen /\ order[o].status = "aberta" /\ order' = order
      /\ payments' = [payments EXCEPT ![o] = Append(@, row)]
      /\ UNCHANGED <<session, sessionOpen, account, installments, refunds, position>>
  BY DEF PayAmount, MayPayPart, Record
<1>2. row.period = session
  BY DEF Paid
<1>3. order' = [order EXCEPT ![o] = order[o]]
  BY <1>1, Unchanged
<1> HIDE DEF row
<1> QED  BY <1>1, <1>2, <1>3, PaymentBooks

LEMMA CloseBooks ==
  ASSUME LedgerInv, BookInv, LedgerInv', NEW o \in Orders, NEW charge \in Charges,
         NEW m \in Methods, Close(o, charge, m)
  PROVE  BookInv'
<1> DEFINE ord == [order[o] EXCEPT !.status = "finalizada", !.closedIn = session]
           product == Remaining(o)
           service == Charge(product, charge)
           row == Paid("final", product, service, m, 0)
<1>1. /\ sessionOpen /\ order[o].status = "aberta" /\ order' = [order EXCEPT ![o] = ord]
      /\ \/ payments' = [payments EXCEPT ![o] = Append(@, row)]
         \/ payments' = payments
      /\ UNCHANGED <<session, sessionOpen, account, installments, refunds, position>>
  BY DEF Close, Record
<1>2. row.period = session
  BY DEF Paid
<1>3. order[o] \in OrderRecord
  BY SaleFacts
<1>4. ord.fiado = order[o].fiado /\ ord.status = "finalizada"
  BY <1>3 DEF OrderRecord
<1> HIDE DEF row, ord
<1>5. CASE payments' = [payments EXCEPT ![o] = Append(@, row)]
  BY <1>1, <1>2, <1>4, <1>5, PaymentBooks
<1>6. CASE payments' = payments
  BY <1>1, <1>4, <1>6, OrderRowBooks
<1> QED  BY <1>1, <1>5, <1>6

(* A conversion hands the payments of a comanda, all of them of the open   *)
(* session, over to the installments of its fiado.                         *)
LEMMA ConvertBooks ==
  ASSUME LedgerInv, BookInv, LedgerInv', NEW o \in Orders, NEW charge \in Charges,
         Convert(o, charge)
  PROVE  BookInv'
<1> DEFINE ord == [order[o] EXCEPT !.status = "finalizada", !.fiado = TRUE, !.closedIn = session]
           rows == payments[o]
           q == Copied(o)
<1>1. /\ sessionOpen /\ order[o].status = "aberta" /\ order' = [order EXCEPT ![o] = ord]
      /\ installments' = [installments EXCEPT ![o] = q]
      /\ session' = session /\ sessionOpen' = sessionOpen /\ payments' = payments
      /\ refunds' = refunds /\ position' = position
      /\ \E acc : account' = [account EXCEPT ![o] = acc]
  BY DEF Convert
<1>2. /\ o \in Accounts /\ order[o] \in OrderRecord /\ rows \in Seq(PaymentRow)
      /\ ~order[o].fiado /\ installments[o] = << >>
      /\ OpenToday(order[o], rows)
  BY <1>1, SaleFacts DEF OrderFits, StatusFits, BookInv
<1>3. ord.status = "finalizada" /\ ord.fiado
  BY <1>2 DEF OrderRecord
<1>4. /\ DOMAIN q = DOMAIN rows
      /\ \A i \in DOMAIN rows :
           /\ q[i].source = i /\ q[i].period = rows[i].period
           /\ q[i].product = rows[i].product /\ q[i].service = rows[i].service
  BY DEF Copied
<1>5. \A i \in DOMAIN rows : i # 0 /\ rows[i].period = session
  <2>1. DOMAIN rows = 1..Len(rows) /\ Len(rows) \in Nat
    BY <1>2, SeqFacts
  <2>2. \A i \in DOMAIN rows : rows[i].period = session
    BY <1>1, <1>2 DEF OpenToday
  <2> HIDE DEF rows
  <2> QED  BY <2>1, <2>2
<1> HIDE DEF q, ord
<1>6. /\ Elsewhere(o) /\ order'[o] = ord /\ payments'[o] = rows /\ installments'[o] = q
  BY <1>1, <1>2, TableTypes DEF Elsewhere
<1> HIDE DEF rows
<1>7. CopiesFit(order'[o], payments'[o], installments'[o])
  BY <1>4, <1>5, <1>6 DEF CopiesFit
<1>8. OpenToday(order'[o], payments'[o])
  BY <1>3, <1>6 DEF OpenToday
<1>9. PICK T : T = Closed
  OBVIOUS
<1>10. session \notin T
  BY <1>1, <1>9, TodayIsOpen
<1>11. Stays(payments[o], payments'[o], T)
  BY <1>1, StaysSame
<1>12. Stays(installments[o], installments'[o], T)
  <2>1. DOMAIN << >> = {}
    OBVIOUS
  <2>2. \A i \in DOMAIN q : q[i].period \notin T
    BY <1>4, <1>5, <1>10
  <2> QED  BY <1>2, <1>6, <2>1, <2>2 DEF Stays
<1>13. Outside(payments'[o], T)
  BY <1>5, <1>6, <1>10 DEF Outside
<1>14. o \notin Direct
  BY Livro_Rows
<1>15. SaleBooks(o)
  BY <1>1, <1>6, <1>7, <1>8, <1>9, <1>11, <1>12, <1>13, <1>14 DEF SaleBooks
<1>16. 0 \in Nat /\ position' = position - 0 /\ Given(refunds') = Given(refunds) + 0
  BY <1>1, NothingGiven
<1> QED  BY <1>15, <1>16, BookFrame

LEMMA PayInstallmentBooks ==
  ASSUME LedgerInv, BookInv, LedgerInv', NEW a \in Accounts, NEW amount \in Installments,
         NEW m \in Methods, PayInstallment(a, amount, m)
  PROVE  BookInv'
<1> DEFINE rows == installments[a]
           split == SplitInstallment(amount, account[a].product, SumRows(rows, Product))
           row == [product |-> split.product, service |-> split.service,
                   fee |-> CardFee(split.product, split.service, m), method |-> m,
                   period |-> session, source |-> 0]
           q == Append(rows, row)
<1>1. /\ sessionOpen /\ installments' = [installments EXCEPT ![a] = q]
      /\ session' = session /\ sessionOpen' = sessionOpen /\ order' = order
      /\ payments' = payments /\ refunds' = refunds /\ position' = position
      /\ account[a].status \in {"pendente", "pago"}
      /\ \E acc : account' = [account EXCEPT ![a] = acc]
  BY DEF PayInstallment
<1>2. row.period = session /\ row.source = 0
  OBVIOUS
<1>3. rows \in Seq(InstallmentRow)
  BY AccountFacts
<1> HIDE DEF row
<1>4. PICK T : T = Closed
  OBVIOUS
<1>5. row.period \notin T
  BY <1>1, <1>2, <1>4, TodayIsOpen
<1>6. /\ Stays(rows, q, T)
      /\ \A i \in DOMAIN q : i \notin DOMAIN rows => q[i] = row
      /\ \A i \in DOMAIN rows : i \in DOMAIN q /\ q[i] = rows[i]
  <2> HIDE DEF rows
  <2> QED  BY <1>3, <1>5, StaysAppended
<1> HIDE DEF q
<1>7. Elsewhere(a) /\ installments'[a] = q
  BY <1>1, TableTypes DEF Elsewhere
<1>8. ASSUME a \in Orders
      PROVE  /\ CopiesFit(order'[a], payments'[a], installments'[a])
             /\ OpenToday(order'[a], payments'[a])
             /\ Stays(payments[a], payments'[a], T)
  <2>1. CopiesFit(order[a], payments[a], rows) /\ OpenToday(order[a], payments[a])
    BY <1>8 DEF BookInv
  <2>2. CopiesFit(order[a], payments[a], q)
    BY <1>2, <1>6, <2>1 DEF CopiesFit
  <2>3. OpenToday(order'[a], payments'[a])
    BY <1>1, <2>1
  <2> QED  BY <1>1, <1>7, <2>2, <2>3, StaysSame
<1>9. ASSUME a \in Direct PROVE OwnMoney(installments'[a])
  <2>1. OwnMoney(rows)
    BY <1>9 DEF BookInv
  <2> QED  BY <1>2, <1>6, <1>7, <2>1 DEF OwnMoney
<1>10. SaleBooks(a)
  BY <1>1, <1>4, <1>6, <1>7, <1>8, <1>9 DEF SaleBooks
<1>11. 0 \in Nat /\ position' = position - 0 /\ Given(refunds') = Given(refunds) + 0
  BY <1>1, NothingGiven
<1> QED  BY <1>10, <1>11, BookFrame

LEMMA RefundGross ==
  ASSUME NEW rows \in Seq(RefundRow)
  PROVE  SumRows(rows, Gross) \in Nat
<1>1. Len(rows) \in Nat /\ DOMAIN rows = 1..Len(rows) /\ \A i \in 1..Len(rows) : rows[i] \in RefundRow
  BY SeqFacts
<1>2. MoneyRows(rows, Len(rows))
  BY <1>1, RowTypes DEF MoneyRows
<1>3. /\ SumRows(rows, Product) \in Nat /\ SumRows(rows, Service) \in Nat
      /\ SumRows(rows, Gross) = SumRows(rows, Product) + SumRows(rows, Service)
  BY <1>1, <1>2, RowTotals
<1> QED  BY <1>3

(* Refunds are written with a movement out of the position of their sum.   *)
LEMMA GiveBackBooks ==
  ASSUME LedgerInv, BookInv, LedgerInv', NEW a \in Accounts, NEW rows \in Seq(RefundRow),
         GiveBack(a, rows), Elsewhere(a),
         UNCHANGED <<session, sessionOpen, payments, installments>>,
         a \in Orders => /\ order'[a].fiado <=> order[a].fiado
                         /\ order'[a].status = "aberta" => order[a].status = "aberta"
  PROVE  BookInv'
<1> DEFINE old == refunds[a]  new == refunds'[a]  back == SumRows(rows, Gross)
<1>1. /\ session' = session /\ sessionOpen' = sessionOpen /\ payments' = payments
      /\ installments' = installments /\ position' = position - back
      /\ refunds' = [refunds EXCEPT ![a] = old \o rows]
  BY DEF GiveBack
<1>2. new = old \o rows /\ old \in Seq(RefundRow)
  BY <1>1, TableTypes, AccountFacts
<1>3. Joined(old, Len(old), rows, Len(rows), new) /\ Len(old) \in Nat /\ Len(rows) \in Nat
  BY <1>2, JoinedSeqs, SeqFacts
<1>4. \A s \in Accounts : s # a => refunds'[s] = refunds[s]
  BY DEF Elsewhere
<1>5. Given(refunds') = Given(refunds) + back
  <2>1. MoneyTable(Accounts, refunds) /\ MoneyTable(Accounts, refunds')
    BY <1>1, BookTables, BookTablesNext
  <2> HIDE DEF Accounts
  <2> QED  BY <1>3, <1>4, <2>1, TableGrows DEF Given
<1>6. back \in Nat
  BY RefundGross
<1>7. ASSUME a \in Orders
      PROVE  /\ CopiesFit(order'[a], payments'[a], installments'[a])
             /\ OpenToday(order'[a], payments'[a])
  <2>1. CopiesFit(order[a], payments[a], installments[a]) /\ OpenToday(order[a], payments[a])
    BY <1>7 DEF BookInv
  <2>2. CopiesFit(order'[a], payments[a], installments[a])
    BY <1>7, <2>1 DEF CopiesFit
  <2>3. OpenToday(order'[a], payments[a])
    BY <1>7, <2>1 DEF OpenToday
  <2> QED  BY <1>1, <2>2, <2>3
<1>8. Stays(payments[a], payments'[a], Closed) /\ Stays(installments[a], installments'[a], Closed)
  BY <1>1, StaysSame
<1>9. a \in Direct => OwnMoney(installments'[a])
  BY <1>1 DEF BookInv
<1>10. SaleBooks(a)
  BY <1>1, <1>7, <1>8, <1>9 DEF SaleBooks
<1> HIDE DEF back
<1> QED  BY <1>1, <1>5, <1>6, <1>10, BookFrame

(* A whole refund of a direct sale or of an open comanda.                  *)
LEMMA WholeRefundBooks ==
  ASSUME LedgerInv, BookInv, LedgerInv', sessionOpen, NEW o \in Orders, NEW sale \in BOOLEAN,
         GiveBack(o, WholeRefund(o, sale)), NEW ord, order' = [order EXCEPT ![o] = ord],
         ord.fiado = order[o].fiado, ord.status # "aberta",
         UNCHANGED <<session, sessionOpen, payments, account, installments>>
  PROVE  BookInv'
<1> DEFINE rows == WholeRefund(o, sale)
<1>1. rows \in Seq(RefundRow)
  BY WholeRefundRows
<1> HIDE DEF rows
<1>2. GiveBack(o, rows) /\ o \in Accounts
  BY SaleFacts DEF rows
<1>3. Elsewhere(o) /\ order'[o] = ord
  BY <1>2, TableTypes DEF Elsewhere, GiveBack
<1> QED  BY <1>1, <1>2, <1>3, GiveBackBooks

LEMMA EstornarVendaBooks ==
  ASSUME LedgerInv, BookInv, LedgerInv', NEW o \in Orders, EstornarVenda(o)
  PROVE  BookInv'
<1> DEFINE ord == [order[o] EXCEPT !.estorno = TRUE]
<1>1. /\ sessionOpen /\ order[o].status = "finalizada" /\ order' = [order EXCEPT ![o] = ord]
      /\ GiveBack(o, WholeRefund(o, TRUE))
      /\ UNCHANGED <<session, sessionOpen, payments, account, installments>>
  BY DEF EstornarVenda
<1>2. order[o] \in OrderRecord
  BY SaleFacts
<1>3. ord.fiado = order[o].fiado /\ ord.status # "aberta"
  BY <1>1, <1>2 DEF OrderRecord
<1>4. TRUE \in BOOLEAN
  OBVIOUS
<1> HIDE DEF ord
<1> QED  BY <1>1, <1>3, <1>4, WholeRefundBooks

LEMMA CancelOrderBooks ==
  ASSUME LedgerInv, BookInv, LedgerInv', NEW o \in Orders, CancelOrder(o)
  PROVE  BookInv'
<1> DEFINE none == [order[o] EXCEPT !.status = "cancelada", !.total = 0]
           ord == [order[o] EXCEPT !.status = "cancelada"]
<1>1. /\ \/ /\ sessionOpen /\ GiveBack(o, WholeRefund(o, FALSE))
            /\ order' = [order EXCEPT ![o] = none]
         \/ order' = [order EXCEPT ![o] = ord] /\ UNCHANGED <<refunds, position>>
      /\ UNCHANGED <<session, sessionOpen, payments, account, installments>>
  BY DEF CancelOrder
<1>2. order[o] \in OrderRecord
  BY SaleFacts
<1>3. /\ none.fiado = order[o].fiado /\ none.status # "aberta"
      /\ ord.fiado = order[o].fiado /\ ord.status # "aberta"
  BY <1>2 DEF OrderRecord
<1>4. FALSE \in BOOLEAN
  OBVIOUS
<1> HIDE DEF ord, none
<1>5. CASE sessionOpen /\ GiveBack(o, WholeRefund(o, FALSE)) /\ order' = [order EXCEPT ![o] = none]
  BY <1>1, <1>3, <1>4, <1>5, WholeRefundBooks
<1>6. CASE order' = [order EXCEPT ![o] = ord] /\ UNCHANGED <<refunds, position>>
  BY <1>1, <1>3, <1>6, OrderRowBooks
<1> QED  BY <1>1, <1>5, <1>6

LEMMA FiadoRefundBooks ==
  ASSUME LedgerInv, BookInv, LedgerInv', sessionOpen, NEW a \in Accounts,
         GiveBack(a, RefundOfFiado(a)), NEW acc, account' = [account EXCEPT ![a] = acc],
         UNCHANGED <<session, sessionOpen, payments, installments>>,
         \A o \in Orders : o # a => order'[o] = order[o],
         a \in Orders => /\ order'[a].fiado <=> order[a].fiado
                         /\ order'[a].status = "aberta" => order[a].status = "aberta"
  PROVE  BookInv'
<1> DEFINE rows == RefundOfFiado(a)
<1>1. rows \in Seq(RefundRow)
  BY FiadoRefundRows DEF SettlesAll
<1> HIDE DEF rows
<1>2. GiveBack(a, rows)
  BY DEF rows
<1>3. Elsewhere(a)
  BY <1>2, TableTypes DEF Elsewhere, GiveBack
<1> QED  BY <1>1, <1>2, <1>3, GiveBackBooks

LEMMA EstornarFiadoBooks ==
  ASSUME LedgerInv, BookInv, LedgerInv', NEW o \in Orders, EstornarFiado(o)
  PROVE  BookInv'
<1> DEFINE ord == [order[o] EXCEPT !.estorno = TRUE]
           acc == [account[o] EXCEPT !.status = "cancelado", !.balance = 0]
<1>1. /\ sessionOpen /\ order[o].fiado /\ order' = [order EXCEPT ![o] = ord]
      /\ GiveBack(o, RefundOfFiado(o)) /\ account' = [account EXCEPT ![o] = acc]
      /\ UNCHANGED <<session, sessionOpen, payments, installments>>
  BY DEF EstornarFiado, Cancelled
<1>2. order[o] \in OrderRecord /\ o \in Accounts
  BY SaleFacts
<1>3. ord.fiado = order[o].fiado /\ ord.status = order[o].status
  BY <1>2 DEF OrderRecord
<1> HIDE DEF ord, acc
<1>4. order'[o] = ord /\ \A x \in Orders : x # o => order'[x] = order[x]
  BY <1>1, TableTypes
<1> QED  BY <1>1, <1>2, <1>3, <1>4, FiadoRefundBooks

LEMMA CancelConsignmentBooks ==
  ASSUME LedgerInv, BookInv, LedgerInv', NEW d \in Direct, CancelConsignment(d)
  PROVE  BookInv'
<1> DEFINE acc == [account[d] EXCEPT !.status = "cancelado", !.balance = 0]
<1>1. /\ sessionOpen /\ order' = order
      /\ GiveBack(d, RefundOfFiado(d)) /\ account' = [account EXCEPT ![d] = acc]
      /\ UNCHANGED <<session, sessionOpen, payments, installments>>
  BY DEF CancelConsignment, Cancelled
<1>2. d \in Accounts /\ d \notin Orders
  BY Livro_Rows DEF Accounts
<1> HIDE DEF acc
<1>3. \A o \in Orders : o # d => order'[o] = order[o]
  BY <1>1
<1> QED  BY <1>1, <1>2, <1>3, FiadoRefundBooks

LEMMA RefundPiecesBooks ==
  ASSUME LedgerInv, BookInv, LedgerInv', NEW o \in Orders, NEW n \in 1..MaxPieces,
         RefundPieces(o, n)
  PROVE  BookInv'
<1> DEFINE rows == SomePieces([p \in DOMAIN payments[o] |-> RefundOfPieces(o, p, Taken(o, n, p))])
           closed == [order[o] EXCEPT !.refunded = @ + n]
           given == IF n = order[o].pieces THEN 0 ELSE order[o].refunded + n
           open == [order[o] EXCEPT !.pieces = @ - n, !.total = Price * (order[o].pieces - n),
                                    !.refunded = given]
           ord == IF order[o].status = "finalizada" THEN closed ELSE open
<1>1. /\ sessionOpen /\ order[o].status \in {"aberta", "finalizada"} /\ ~order[o].estorno
      /\ n <= SumF([p \in DOMAIN payments[o] |-> Available(o, p)])
      /\ GiveBack(o, rows) /\ order' = [order EXCEPT ![o] = ord]
      /\ UNCHANGED <<session, sessionOpen, payments, account, installments>>
  BY DEF RefundPieces
<1>2. order[o] \in OrderRecord /\ o \in Accounts
  BY SaleFacts
<1>3. ord.fiado = order[o].fiado /\ ord.status = order[o].status
  <2>1. /\ closed.fiado = order[o].fiado /\ closed.status = order[o].status
        /\ open.fiado = order[o].fiado /\ open.status = order[o].status
    BY <1>2 DEF OrderRecord
  <2> HIDE DEF closed, open
  <2> QED  BY <2>1
<1> HIDE DEF ord
<1>4. Partly(order[o]) /\ n \in Nat
  BY <1>1 DEF Partly
<1>5. rows \in Seq(RefundRow)
  BY <1>1, <1>4, PieceRefundRows DEF PieceRefunds
<1> HIDE DEF rows
<1>6. Elsewhere(o) /\ order'[o] = ord
  BY <1>1, <1>2, TableTypes DEF Elsewhere, GiveBack
<1> QED  BY <1>1, <1>2, <1>3, <1>5, <1>6, GiveBackBooks

(* What the comandas and fiados took, counted once: the payments of the    *)
(* converted comandas are the installments of their fiados that copy one.  *)
LEMMA TakenIsReceived ==
  ASSUME LedgerInv, BookInv, NEW T
  PROVE  TakenIn(T) = GrossReceived(T)
<1> DEFINE g == GrossTable(Orders, payments)  h == GrossTable(Accounts, installments)
           P == PairRows(Orders, payments)  Q == PairRows(Accounts, installments)
           D == PaysIn(order, payments, T)
           F == {r \in P : At(payments, r).period \in T /\ order[r[1]].fiado}
           All == {r \in OrderRows : PaymentAt(r).period \in T}
           I == InstsIn(installments, T)
           Own == {r \in InstallmentsIn(T) : InstallmentAt(r).source = 0}
<1>1. /\ OrderRows = P /\ InstallmentRows = Q
      /\ \A r : PaymentAt(r) = At(payments, r) /\ InstallmentAt(r) = At(installments, r)
  BY BookRows
<1>2. All = D \cup F /\ D \cap F = {} /\ D \in SUBSET P /\ F \in SUBSET P /\ All \in SUBSET P
  <2> HIDE DEF P
  <2>1. All = {r \in P : At(payments, r).period \in T}
    BY <1>1
  <2>2. D = {r \in P : At(payments, r).period \in T /\ ~order[r[1]].fiado}
    BY DEF PaysIn, P
  <2> QED  BY <2>1, <2>2
<1>3. InstallmentsIn(T) = I
  BY <1>1 DEF InstallmentsIn, InstsIn
<1>4. /\ \A r \in P : r[1] \in Orders /\ r[2] \in DOMAIN payments[r[1]] /\ r = <<r[1], r[2]>>
      /\ \A o \in Orders : \A i \in DOMAIN payments[o] : <<o, i>> \in P
      /\ \A r \in Q : r[1] \in Accounts /\ r[2] \in DOMAIN installments[r[1]] /\ r = <<r[1], r[2]>>
      /\ \A a \in Accounts : \A i \in DOMAIN installments[a] : <<a, i>> \in Q
  BY BookTables, FinitePairs DEF MoneyTable
<1> HIDE DEF P, Q
<1>5. ASSUME NEW r \in F
      PROVE  r \in I /\ r \notin Own /\ Gross(At(payments, r)) = Gross(At(installments, r))
  <2>1. /\ r[1] \in Orders /\ r[2] \in DOMAIN payments[r[1]] /\ r = <<r[1], r[2]>>
        /\ order[r[1]].fiado /\ At(payments, r).period \in T
    BY <1>4
  <2>2. r[1] \in Accounts /\ CopiesFit(order[r[1]], payments[r[1]], installments[r[1]])
    BY <2>1 DEF BookInv, Accounts
  <2>3. /\ r[2] \in DOMAIN installments[r[1]] /\ installments[r[1]][r[2]].source # 0
        /\ installments[r[1]][r[2]].period = payments[r[1]][r[2]].period
        /\ installments[r[1]][r[2]].product = payments[r[1]][r[2]].product
        /\ installments[r[1]][r[2]].service = payments[r[1]][r[2]].service
    BY <2>1, <2>2 DEF CopiesFit
  <2>4. r \in Q
    BY <1>4, <2>1, <2>2, <2>3
  <2>5. r \in I
    BY <2>1, <2>3, <2>4 DEF InstsIn, At, Q
  <2>6. InstallmentAt(r).source # 0
    BY <2>3 DEF InstallmentAt
  <2> QED  BY <2>3, <2>5, <2>6 DEF Gross, At
<1>6. ASSUME NEW r \in I, r \notin Own PROVE r \in F
  <2>1. r \in Q /\ At(installments, r).period \in T /\ InstallmentAt(r).source # 0
    BY <1>3, <1>6 DEF InstsIn, Q
  <2>2. r[1] \in Accounts /\ r[2] \in DOMAIN installments[r[1]] /\ r = <<r[1], r[2]>>
    BY <1>4, <2>1
  <2>3. installments[r[1]][r[2]].source # 0 /\ installments[r[1]][r[2]].period \in T
    BY <2>1 DEF InstallmentAt, At
  <2>4. r[1] \in Orders
    <3>1. ASSUME r[1] \in Direct PROVE FALSE
      BY <2>2, <2>3, <3>1 DEF BookInv, OwnMoney
    <3> QED  BY <2>2, <3>1 DEF Accounts
  <2>5. order[r[1]].fiado
    <3>1. StatusFits(order[r[1]], payments[r[1]], account[r[1]], installments[r[1]], refunds[r[1]])
      BY <2>4, SaleFacts DEF OrderFits
    <3>2. DOMAIN << >> = {}
      OBVIOUS
    <3> QED  BY <2>2, <3>1, <3>2 DEF StatusFits
  <2>6. CopiesFit(order[r[1]], payments[r[1]], installments[r[1]])
    BY <2>4 DEF BookInv
  <2>7. r[2] \in DOMAIN payments[r[1]] /\ payments[r[1]][r[2]].period \in T
    BY <2>2, <2>3, <2>5, <2>6 DEF CopiesFit
  <2>8. r \in P
    BY <1>4, <2>2, <2>4, <2>7
  <2> QED  BY <2>5, <2>7, <2>8 DEF At
<1>7. I = F \cup Own /\ F \cap Own = {} /\ Own \in SUBSET I
  BY <1>3, <1>5, <1>6
<1>8. I \in SUBSET Q /\ F \in SUBSET Q /\ Own \in SUBSET Q
  BY <1>7 DEF InstsIn, Q
<1>9. SumOn(g, F) = SumOn(h, F)
  <2>1. \A r \in F : g[r] = Gross(At(payments, r))
    BY <1>2 DEF GrossTable, P
  <2>2. \A r \in F : h[r] = Gross(At(installments, r))
    BY <1>8 DEF GrossTable, Q
  <2>3. \A r \in F : g[r] = h[r]
    BY <1>5, <2>1, <2>2
  <2> HIDE DEF g, h, F
  <2> QED  BY <2>3, SumOnSame
<1>10. SumF([r \in All |-> Gross(PaymentAt(r))]) = SumOn(g, All)
  <2>1. [r \in All |-> Gross(PaymentAt(r))] = [r \in All |-> Gross(At(payments, r))]
    BY <1>1
  <2>2. All \in SUBSET PairRows(Orders, payments)
    BY <1>2 DEF P
  <2> HIDE DEF All, g, Gross, At
  <2>3. SumF([r \in All |-> Gross(At(payments, r))]) = SumOn(GrossTable(Orders, payments), All)
    BY <2>2, ColumnOfRows
  <2> QED  BY <2>1, <2>3 DEF g
<1>11. SumF([r \in Own |-> Gross(InstallmentAt(r))]) = SumOn(h, Own)
  <2>1. [r \in Own |-> Gross(InstallmentAt(r))] = [r \in Own |-> Gross(At(installments, r))]
    BY <1>1
  <2>2. Own \in SUBSET PairRows(Accounts, installments)
    BY <1>8 DEF Q
  <2> HIDE DEF Own, h, Gross, At
  <2>3. SumF([r \in Own |-> Gross(At(installments, r))]) = SumOn(GrossTable(Accounts, installments), Own)
    BY <2>2, ColumnOfRows
  <2> QED  BY <2>1, <2>3 DEF h
<1>12. TakenIn(T) = SumOn(g, All) + SumOn(h, Own)
  BY <1>10, <1>11 DEF TakenIn
<1>13. GrossReceived(T) = SumOn(g, D) + SumOn(h, I)
  BY BookTerms DEF Received
<1> HIDE DEF D, F, All, I, Own
<1>14. SumOn(g, D \cup F) = SumOn(g, D) + SumOn(g, F)
  BY <1>2, BookTables, TableUnion DEF P
<1>15. SumOn(h, F \cup Own) = SumOn(h, F) + SumOn(h, Own)
  BY <1>7, <1>8, BookTables, TableUnion DEF Q
<1>16. SumOn(g, D) \in Nat /\ SumOn(g, F) \in Nat /\ SumOn(h, Own) \in Nat
  BY <1>2, <1>8, BookTables, TableSums DEF P, Q
<1> HIDE DEF g, h
<1> QED  BY <1>2, <1>7, <1>9, <1>12, <1>13, <1>14, <1>15, <1>16

LEMMA BookIsTheLedger ==
  ASSUME LedgerInv, BookInv
  PROVE  CashPositionIsTheLedger
<1>1. PICK T : T = Closed
  OBVIOUS
<1>2. position = Received(order, payments, installments, T)
                 - FeesOf(order, payments, installments, T) - Given(refunds)
  BY <1>1 DEF BookInv
<1>3. /\ TakenIn(T) = Received(order, payments, installments, T)
      /\ CardFees(T) = FeesOf(order, payments, installments, T)
      /\ SumF([r \in RefundRows |-> Gross(RefundAt(r))]) = Given(refunds)
  BY TakenIsReceived, BookTerms
<1>4. position = TakenIn(T) - CardFees(T) - SumF([r \in RefundRows |-> Gross(RefundAt(r))])
  BY <1>2, <1>3
<1> QED  BY <1>1, <1>4 DEF CashPositionIsTheLedger, Closed

LEMMA BookStarts == Init => BookInv
<1> SUFFICES ASSUME Init PROVE BookInv
  OBVIOUS
<1> DEFINE e == << >>
<1>1. /\ session = 0 /\ sessionOpen = FALSE /\ position = 0
      /\ order = [o \in Orders |-> NoOrder] /\ payments = [o \in Orders |-> e]
      /\ installments = [a \in Accounts |-> e] /\ refunds = [a \in Accounts |-> e]
  BY DEF Init
<1>2. DOMAIN e = {}
  OBVIOUS
<1> HIDE DEF e
<1>3. ASSUME NEW o \in Orders
      PROVE  CopiesFit(order[o], payments[o], installments[o]) /\ OpenToday(order[o], payments[o])
  <2>1. order[o] = NoOrder /\ payments[o] = e
    BY <1>1
  <2> QED  BY <2>1, EmptySale DEF CopiesFit, OpenToday
<1>4. \A d \in Direct : OwnMoney(installments[d])
  BY <1>1, <1>2 DEF OwnMoney, Accounts
<1>5. /\ PairRows(Orders, payments) = {} /\ PairRows(Accounts, installments) = {}
      /\ PairRows(Accounts, refunds) = {}
  BY <1>1, <1>2 DEF PairRows
<1>6. /\ PaysIn(order, payments, Closed) = {} /\ InstsIn(installments, Closed) = {}
  BY <1>5 DEF PaysIn, InstsIn
<1>7. /\ GrossTable(Orders, payments) \in [{} -> Nat] /\ FeeTable(Orders, payments) \in [{} -> Nat]
      /\ GrossTable(Accounts, installments) \in [{} -> Nat]
      /\ FeeTable(Accounts, installments) \in [{} -> Nat]
      /\ GrossTable(Accounts, refunds) \in [{} -> Nat]
  BY <1>5 DEF GrossTable, FeeTable
<1>8. /\ SumOn(GrossTable(Orders, payments), {}) = 0 /\ SumOn(FeeTable(Orders, payments), {}) = 0
      /\ SumOn(GrossTable(Accounts, installments), {}) = 0
      /\ SumOn(FeeTable(Accounts, installments), {}) = 0
  BY <1>7, SumOnLaws
<1>9. Given(refunds) = 0
  BY <1>7, SumZero DEF Given
<1>10. /\ Received(order, payments, installments, Closed) = 0
       /\ FeesOf(order, payments, installments, Closed) = 0
  BY <1>6, <1>8 DEF Received, FeesOf
<1> QED  BY <1>1, <1>3, <1>4, <1>9, <1>10 DEF BookInv

LEMMA BookSteps == LedgerInv /\ BookInv /\ [Next]_vars => BookInv'
<1> SUFFICES ASSUME LedgerInv, BookInv, [Next]_vars PROVE BookInv'
  OBVIOUS
<1> USE LedgerSteps
<1>1. LedgerInv'
  OBVIOUS
<1>2. CASE OpenSession
  BY <1>2, OpenSessionBooks
<1>3. CASE CloseSession
  BY <1>3, CloseSessionBooks
<1>4. ASSUME NEW o \in Orders, OpenOrder(o) PROVE BookInv'
  BY <1>1, <1>4, OpenOrderBooks
<1>5. ASSUME NEW o \in Orders, AddPiece(o) PROVE BookInv'
  BY <1>1, <1>5, AddPieceBooks
<1>6. ASSUME NEW o \in Orders, CancelOrder(o) PROVE BookInv'
  BY <1>1, <1>6, CancelOrderBooks
<1>7. ASSUME NEW o \in Orders, EstornarVenda(o) PROVE BookInv'
  BY <1>1, <1>7, EstornarVendaBooks
<1>8. ASSUME NEW o \in Orders, EstornarFiado(o) PROVE BookInv'
  BY <1>1, <1>8, EstornarFiadoBooks
<1>9. ASSUME NEW o \in Orders, NEW n \in 1..MaxPieces, RefundPieces(o, n) PROVE BookInv'
  BY <1>1, <1>9, RefundPiecesBooks
<1>10. ASSUME NEW o \in Orders, NEW charge \in Charges, Convert(o, charge) PROVE BookInv'
  BY <1>1, <1>10, ConvertBooks
<1>11. ASSUME NEW o \in Orders, NEW charge \in Charges, NEW m \in Methods, Close(o, charge, m)
       PROVE  BookInv'
  BY <1>1, <1>11, CloseBooks
<1>12. ASSUME NEW o \in Orders, NEW charge \in Charges, NEW m \in Methods, NEW n \in 1..MaxPieces,
              PayPieces(o, n, charge, m)
       PROVE  BookInv'
  BY <1>1, <1>12, PayPiecesBooks
<1>13. ASSUME NEW o \in Orders, NEW charge \in Charges, NEW m \in Methods,
              NEW amount \in PartialAmounts, PayAmount(o, amount, charge, m)
       PROVE  BookInv'
  BY <1>1, <1>13, PayAmountBooks
<1>14. ASSUME NEW d \in Direct, CancelConsignment(d) PROVE BookInv'
  BY <1>1, <1>14, CancelConsignmentBooks
<1>15. ASSUME NEW d \in Direct, NEW n \in 1..MaxPieces, CreateConsignment(d, n) PROVE BookInv'
  BY <1>1, <1>15, CreateConsignmentBooks
<1>16. ASSUME NEW a \in Accounts, NEW amount \in Installments, NEW m \in Methods,
              PayInstallment(a, amount, m)
       PROVE  BookInv'
  BY <1>1, <1>16, PayInstallmentBooks
<1>17. CASE UNCHANGED vars
  <2>1. /\ session' = session /\ sessionOpen' = sessionOpen /\ order' = order
        /\ payments' = payments /\ installments' = installments
        /\ refunds' = refunds /\ position' = position
    BY <1>17 DEF vars
  <2>2. PICK T : T = Closed
    OBVIOUS
  <2>3. Closed' = T
    BY <2>1, <2>2 DEF Closed
  <2>4. position' = Received(order', payments', installments', T)
                    - FeesOf(order', payments', installments', T) - Given(refunds')
    BY <2>1, <2>2 DEF BookInv
  <2>5. \A o \in Orders : OpenToday(order[o], payments[o])'
    BY <2>1 DEF BookInv, OpenToday
  <2>6. /\ \A o \in Orders : CopiesFit(order'[o], payments'[o], installments'[o])
        /\ \A d \in Direct : OwnMoney(installments'[d])
    BY <2>1 DEF BookInv
  <2> QED  BY <2>3, <2>4, <2>5, <2>6 DEF BookInv
<1> QED
  BY <1>2, <1>3, <1>4, <1>5, <1>6, <1>7, <1>8, <1>9, <1>10, <1>11, <1>12, <1>13, <1>14, <1>15,
     <1>16, <1>17 DEF Next

(* The cash position is what the closed sessions took, less their fees,    *)
(* less everything given back: no later refund, conversion, cancellation   *)
(* or installment rewrites a session already closed, and the payments a    *)
(* conversion copies are counted once.                                     *)
THEOREM CashPosition == Spec => []CashPositionIsTheLedger
<1>1. Init => LedgerInv /\ BookInv
  BY LedgerStarts, BookStarts
<1>2. LedgerInv /\ BookInv /\ [Next]_vars => (LedgerInv /\ BookInv)'
  BY LedgerSteps, BookSteps
<1>3. LedgerInv /\ BookInv => CashPositionIsTheLedger
  BY BookIsTheLedger
<1> QED  BY <1>1, <1>2, <1>3, PTL DEF Spec

=============================================================================
