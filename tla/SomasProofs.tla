---------------------------- MODULE SomasProofs ----------------------------
(***************************************************************************)
(* Laws of the sum of a finite table of naturals.  They are all the        *)
(* arithmetic the proofs about bills and stock need: a handler changes a   *)
(* table row by row, and the sum changes by the sum of the changes.        *)
(***************************************************************************)
EXTENDS Somas, Integers, Sequences, FiniteSetTheorems, FunctionTheorems,
        WellFoundedInduction, TLAPS

(* What a token of a table is.                                             *)
LEMMA TokenMembership ==
  ASSUME NEW S, NEW f \in [S -> Nat], NEW t
  PROVE  t \in Tokens(f) <=> \E x \in S : \E n \in 1..f[x] : t = <<x, n>>
BY DEF Tokens

(* A finite table has finitely many tokens, so its sum is a natural.       *)
LEMMA SumType ==
  ASSUME NEW S, IsFiniteSet(S), NEW f \in [S -> Nat]
  PROVE  IsFiniteSet(Tokens(f)) /\ SumF(f) \in Nat
<1> DEFINE Row(x) == {x} \X (1..f[x])
           Rows == {Row(x) : x \in S}
           F == [x \in S |-> Row(x)]
<1>1. F \in Surjection(S, Rows)
  BY DEF Surjection
<1>2. IsFiniteSet(Rows)
  <2> HIDE DEF F, Rows
  <2> QED  BY <1>1, FS_Surjection
<1>3. ASSUME NEW R \in Rows PROVE IsFiniteSet(R)
  <2>1. PICK x \in S : R = Row(x)
    BY <1>3
  <2>2. IsFiniteSet({x})
    BY FS_Singleton
  <2>3. f[x] \in Int /\ 1 \in Int
    OBVIOUS
  <2>4. IsFiniteSet(1..f[x])
    BY <2>3, FS_Interval
  <2> QED  BY <2>1, <2>2, <2>4, FS_Product
<1>4. Tokens(f) = UNION Rows
  BY DEF Tokens
<1>5. IsFiniteSet(Tokens(f))
  <2> HIDE DEF Rows
  <2> QED  BY <1>2, <1>3, <1>4, FS_UNION
<1> QED  BY <1>5, FS_CardinalityType DEF SumF

(* SUM(a + b) = SUM(a) + SUM(b): the tokens of b, shifted past those of a, *)
(* are exactly the tokens of a + b that a does not have.                   *)
LEMMA SumAdditive ==
  ASSUME NEW S, IsFiniteSet(S), NEW f \in [S -> Nat], NEW g \in [S -> Nat]
  PROVE  SumF([x \in S |-> f[x] + g[x]]) = SumF(f) + SumF(g)
<1> DEFINE h == [x \in S |-> f[x] + g[x]]
           Rest == {t \in Tokens(h) : t[2] > f[t[1]]}
           Shift == [t \in Tokens(g) |-> <<t[1], t[2] + f[t[1]]>>]
<1>1. h \in [S -> Nat]
  OBVIOUS
<1>2. \A t : t \in Rest <=> \E x \in S : \E n \in 1..g[x] : t = <<x, n + f[x]>>
  <2>1. ASSUME NEW t, t \in Rest
        PROVE  \E x \in S : \E n \in 1..g[x] : t = <<x, n + f[x]>>
    <3>1. PICK x \in S, m \in Nat : m \in 1..h[x] /\ t = <<x, m>>
      BY <1>1, <2>1, TokenMembership
    <3>2. m > f[x] /\ m <= f[x] + g[x] /\ m \in Nat
      BY <2>1, <3>1
    <3>3. m - f[x] \in 1..g[x] /\ t = <<x, (m - f[x]) + f[x]>>
      BY <3>1, <3>2
    <3> QED  BY <3>3
  <2>2. ASSUME NEW x \in S, NEW n \in 1..g[x]
        PROVE  <<x, n + f[x]>> \in Rest
    <3>1. n + f[x] \in 1..h[x] /\ n + f[x] > f[x]
      OBVIOUS
    <3>2. <<x, n + f[x]>> \in Tokens(h)
      BY <1>1, <3>1, TokenMembership
    <3> QED  BY <3>1, <3>2
  <2> QED  BY <2>1, <2>2
<1>3. Shift \in Bijection(Tokens(g), Rest)
  <2>1. \A t \in Tokens(g) : \E x \in S : \E n \in 1..g[x] :
           t = <<x, n>> /\ Shift[t] = <<x, n + f[x]>>
    BY TokenMembership
  <2>2. Shift \in [Tokens(g) -> Rest]
    BY <1>2, <2>1
  <2>3. ASSUME NEW a \in Tokens(g), NEW b \in Tokens(g), Shift[a] = Shift[b] PROVE a = b
    <3>1. PICK x \in S, n \in Nat : n \in 1..g[x] /\ a = <<x, n>> /\ Shift[a] = <<x, n + f[x]>>
      BY <2>1
    <3>2. PICK y \in S, m \in Nat : m \in 1..g[y] /\ b = <<y, m>> /\ Shift[b] = <<y, m + f[y]>>
      BY <2>1
    <3> HIDE DEF Shift
    <3>3. x = y /\ n + f[x] = m + f[x]
      BY <2>3, <3>1, <3>2
    <3>4. n \in Int /\ m \in Int /\ f[x] \in Int
      OBVIOUS
    <3>5. n = m
      BY <3>3, <3>4
    <3> QED  BY <3>1, <3>2, <3>3, <3>5
  <2>4. ASSUME NEW r \in Rest PROVE \E t \in Tokens(g) : Shift[t] = r
    <3>1. PICK x \in S, n \in Nat : n \in 1..g[x] /\ r = <<x, n + f[x]>>
      BY <1>2
    <3>2. <<x, n>> \in Tokens(g)
      BY <3>1, TokenMembership
    <3> QED  BY <3>1, <3>2
  <2> HIDE DEF Shift, Rest
  <2> QED  BY <2>2, <2>3, <2>4, Fun_IsBij
<1>4. /\ IsFiniteSet(Tokens(f)) /\ Cardinality(Tokens(f)) \in Nat
      /\ IsFiniteSet(Tokens(g)) /\ Cardinality(Tokens(g)) \in Nat
  BY SumType DEF SumF
<1>5. IsFiniteSet(Rest) /\ Cardinality(Rest) = Cardinality(Tokens(g))
  <2> HIDE DEF Shift, Rest
  <2>1. ExistsBijection(Tokens(g), Rest)
    BY <1>3 DEF ExistsBijection
  <2> QED  BY <1>4, <2>1, FS_Bijection
<1>6. Tokens(h) = Tokens(f) \cup Rest
  <2>1. ASSUME NEW t \in Tokens(h) PROVE t \in Tokens(f) \cup Rest
    <3>1. PICK x \in S, m \in Nat : m \in 1..h[x] /\ t = <<x, m>>
      BY <1>1, TokenMembership
    <3>2. CASE m <= f[x]
      BY <3>1, <3>2, TokenMembership
    <3>3. CASE ~(m <= f[x])
      <4>1. m > f[x]
        BY <3>3
      <4> QED  BY <3>1, <4>1
    <3> QED  BY <3>2, <3>3
  <2>2. ASSUME NEW t \in Tokens(f) PROVE t \in Tokens(h)
    <3>1. PICK x \in S, m \in Nat : m \in 1..f[x] /\ t = <<x, m>>
      BY TokenMembership
    <3>2. m \in 1..h[x]
      BY <3>1
    <3> QED  BY <1>1, <3>1, <3>2, TokenMembership
  <2> QED  BY <2>1, <2>2
<1>7. Tokens(f) \cap Rest = {}
  <2>1. ASSUME NEW t \in Tokens(f), t \in Rest PROVE FALSE
    <3>1. PICK x \in S, m \in Nat : m \in 1..f[x] /\ t = <<x, m>>
      BY TokenMembership
    <3>2. m > f[x]
      BY <2>1, <3>1
    <3> QED  BY <3>1, <3>2
  <2> QED  BY <2>1
<1>8. Cardinality(Tokens(h)) = Cardinality(Tokens(f)) + Cardinality(Tokens(g))
  <2> HIDE DEF h, Rest
  <2>1. Cardinality(Tokens(f) \cap Rest) = 0
    BY <1>7, FS_EmptySet
  <2>2. Cardinality(Tokens(f) \cup Rest)
          = Cardinality(Tokens(f)) + Cardinality(Rest) - Cardinality(Tokens(f) \cap Rest)
    BY <1>4, <1>5, FS_Union
  <2> QED  BY <1>4, <1>5, <1>6, <2>1, <2>2
<1> QED  BY <1>8 DEF SumF

(* A table that is smaller row by row has the smaller sum.                 *)
LEMMA SumMono ==
  ASSUME NEW S, IsFiniteSet(S), NEW f \in [S -> Nat], NEW g \in [S -> Nat],
         \A x \in S : f[x] <= g[x]
  PROVE  SumF(f) <= SumF(g)
<1>1. ASSUME NEW t \in Tokens(f) PROVE t \in Tokens(g)
  <2>1. PICK x \in S, m \in Nat : m \in 1..f[x] /\ t = <<x, m>>
    BY TokenMembership
  <2>2. m \in 1..g[x]
    BY <2>1, f[x] <= g[x]
  <2> QED  BY <2>1, <2>2, TokenMembership
<1>2. IsFiniteSet(Tokens(g))
  BY SumType
<1> QED  BY <1>1, <1>2, FS_Subset DEF SumF

(* The sum of a table of zeros.                                            *)
LEMMA SumZero ==
  ASSUME NEW S, NEW f \in [S -> Nat], \A x \in S : f[x] = 0
  PROVE  SumF(f) = 0
<1>1. ASSUME NEW t \in Tokens(f) PROVE FALSE
  <2>1. PICK x \in S, m \in Nat : m \in 1..f[x] /\ t = <<x, m>>
    BY TokenMembership
  <2>2. f[x] = 0 /\ m \in Int /\ 1 <= m /\ m <= f[x]
    BY <2>1
  <2> QED  BY <2>2
<1>2. Tokens(f) = {}
  BY <1>1
<1> QED  BY <1>2, FS_EmptySet DEF SumF

(* The sum of a table with a single row.                                   *)
LEMMA SumOnly ==
  ASSUME NEW S, NEW x \in S, NEW n \in Nat
  PROVE  SumF(Only(S, x, n)) = n
<1> DEFINE f == Only(S, x, n)
           B == [m \in 1..n |-> <<x, m>>]
<1>1. f \in [S -> Nat] /\ f[x] = n /\ \A y \in S : y # x => f[y] = 0
  BY DEF Only
<1>2. \A t : t \in Tokens(f) <=> \E m \in 1..n : t = <<x, m>>
  <2> HIDE DEF f
  <2>1. ASSUME NEW t, t \in Tokens(f) PROVE \E m \in 1..n : t = <<x, m>>
    <3>1. PICK y \in S : \E m \in 1..f[y] : t = <<y, m>>
      BY <1>1, <2>1, TokenMembership
    <3>2. y = x
      BY <1>1, <3>1
    <3> QED  BY <1>1, <3>1, <3>2
  <2>2. ASSUME NEW m \in 1..n PROVE <<x, m>> \in Tokens(f)
    BY <1>1, TokenMembership
  <2> QED  BY <2>1, <2>2
<1>3. B \in Bijection(1..n, Tokens(f))
  <2> HIDE DEF f
  <2>1. B \in [1..n -> Tokens(f)]
    BY <1>2
  <2>2. \A a, b \in 1..n : B[a] = B[b] => a = b
    OBVIOUS
  <2>3. \A t \in Tokens(f) : \E m \in 1..n : B[m] = t
    BY <1>2
  <2> HIDE DEF B
  <2> QED  BY <2>1, <2>2, <2>3, Fun_IsBij
<1>4. IsFiniteSet(1..n) /\ Cardinality(1..n) = n
  BY FS_Interval
<1>5. Cardinality(Tokens(f)) = n
  <2>1. ExistsBijection(1..n, Tokens(f))
    BY <1>3 DEF ExistsBijection
  <2> HIDE DEF f
  <2> QED  BY <1>4, <2>1, FS_Bijection
<1> QED  BY <1>5 DEF SumF

-----------------------------------------------------------------------------
(* Sums over other sets of rows.                                           *)

(* A WHERE is the sum over the rows it names.                              *)
LEMMA SumWhere ==
  ASSUME NEW S, NEW f \in [S -> Nat], NEW R \in SUBSET S
  PROVE  SumF(Where(f, R)) = SumF([x \in R |-> f[x]])
<1> DEFINE g == Where(f, R)  h == [x \in R |-> f[x]]
<1>1. g \in [S -> Nat] /\ h \in [R -> Nat]
  BY DEF Where
<1>2. \A x \in S : \A n : n \in 1..g[x] <=> x \in R /\ n \in 1..h[x]
  BY DEF Where
<1>3. \A t : t \in Tokens(g) <=> t \in Tokens(h)
  <2> HIDE DEF g, h
  <2> QED  BY <1>1, <1>2, TokenMembership
<1>4. Tokens(g) = Tokens(h)
  BY <1>3
<1> QED  BY <1>4 DEF SumF

(* The sum over a set of rows is the sum over a part and over the rest.    *)
LEMMA SumSplit ==
  ASSUME NEW S, IsFiniteSet(S), NEW f \in [S -> Nat], NEW R \in SUBSET S
  PROVE  SumF(f) = SumF([x \in R |-> f[x]]) + SumF([x \in S \ R |-> f[x]])
<1> DEFINE g == Where(f, R)  h == Where(f, S \ R)
<1>1. g \in [S -> Nat] /\ h \in [S -> Nat]
  BY DEF Where
<1>2. [x \in S |-> g[x] + h[x]] = f
  BY DEF Where
<1>3. SumF(f) = SumF(g) + SumF(h)
  <2> HIDE DEF g, h
  <2> QED  BY <1>1, <1>2, SumAdditive
<1>4. SumF(g) = SumF([x \in R |-> f[x]]) /\ SumF(h) = SumF([x \in S \ R |-> f[x]])
  BY SumWhere
<1> QED  BY <1>3, <1>4

(* Rows that weigh nothing may be left out.                                *)
LEMMA SumIgnore ==
  ASSUME NEW S, IsFiniteSet(S), NEW f \in [S -> Nat], NEW R \in SUBSET S,
         \A x \in S \ R : f[x] = 0
  PROVE  SumF(f) = SumF([x \in R |-> f[x]])
<1> DEFINE g == [x \in R |-> f[x]]  h == [x \in S \ R |-> f[x]]
<1>1. SumF(f) = SumF(g) + SumF(h)
  BY SumSplit
<1>2. SumF(h) = 0
  BY SumZero
<1>3. SumF(g) \in Nat
  BY SumType, FS_Subset
<1> QED  BY <1>1, <1>2, <1>3

(* A single row.                                                           *)
LEMMA SumSingle ==
  ASSUME NEW x, NEW f \in [{x} -> Nat]
  PROVE  SumF(f) = f[x]
<1>1. f = Only({x}, x, f[x])
  BY DEF Only
<1> QED  BY <1>1, SumOnly

(* One more row.                                                           *)
LEMMA SumInsert ==
  ASSUME NEW S, IsFiniteSet(S), NEW x, x \notin S, NEW f \in [S \cup {x} -> Nat]
  PROVE  SumF(f) = SumF([y \in S |-> f[y]]) + f[x]
<1>1. IsFiniteSet(S \cup {x})
  BY FS_AddElement
<1>2. (S \cup {x}) \ S = {x}
  OBVIOUS
<1>3. SumF(f) = SumF([y \in S |-> f[y]]) + SumF([y \in (S \cup {x}) \ S |-> f[y]])
  BY <1>1, SumSplit
<1>4. SumF([y \in {x} |-> f[y]]) = f[x]
  BY SumSingle
<1> QED  BY <1>2, <1>3, <1>4

(* The rows may be numbered anew.                                          *)
LEMMA SumReindex ==
  ASSUME NEW S, IsFiniteSet(S), NEW T, NEW e \in Bijection(S, T), NEW f \in [T -> Nat]
  PROVE  SumF([x \in S |-> f[e[x]]]) = SumF(f)
<1> DEFINE g == [x \in S |-> f[e[x]]]
           B == [t \in Tokens(g) |-> <<e[t[1]], t[2]>>]
<1>1. /\ e \in [S -> T] /\ \A a, b \in S : e[a] = e[b] => a = b
      /\ \A t \in T : \E s \in S : e[s] = t
  BY Fun_BijectionProperties
<1>2. g \in [S -> Nat] /\ \A x \in S : g[x] = f[e[x]]
  BY <1>1
<1>3. B \in Bijection(Tokens(g), Tokens(f))
  <2> HIDE DEF g
  <2>1. \A t \in Tokens(g) : \E x \in S : \E n \in 1..f[e[x]] : t = <<x, n>> /\ B[t] = <<e[x], n>>
    BY <1>2, TokenMembership
  <2>2. B \in [Tokens(g) -> Tokens(f)]
    <3>1. ASSUME NEW t \in Tokens(g) PROVE <<e[t[1]], t[2]>> \in Tokens(f)
      <4>1. PICK x \in S : \E n \in 1..f[e[x]] : t = <<x, n>>
        BY <2>1
      <4>2. e[x] \in T
        BY <1>1
      <4> QED  BY <4>1, <4>2, TokenMembership
    <3> QED  BY <3>1
  <2>3. ASSUME NEW a \in Tokens(g), NEW b \in Tokens(g), B[a] = B[b] PROVE a = b
    <3>1. PICK x \in S, n \in Nat : a = <<x, n>> /\ B[a] = <<e[x], n>>
      BY <2>1
    <3>2. PICK y \in S, m \in Nat : b = <<y, m>> /\ B[b] = <<e[y], m>>
      BY <2>1
    <3>3. e[x] = e[y] /\ n = m
      BY <2>3, <3>1, <3>2
    <3> QED  BY <1>1, <3>1, <3>2, <3>3
  <2>4. ASSUME NEW r \in Tokens(f) PROVE \E t \in Tokens(g) : B[t] = r
    <3>1. PICK y \in T, n \in Nat : n \in 1..f[y] /\ r = <<y, n>>
      BY TokenMembership
    <3>2. PICK x \in S : e[x] = y
      BY <1>1
    <3>3. <<x, n>> \in Tokens(g)
      BY <1>2, <3>1, <3>2, TokenMembership
    <3> QED  BY <3>1, <3>2, <3>3
  <2> HIDE DEF B
  <2> QED  BY <2>2, <2>3, <2>4, Fun_IsBij
<1>4. IsFiniteSet(Tokens(g))
  <2> HIDE DEF g
  <2> QED  BY <1>2, SumType
<1>5. Cardinality(Tokens(f)) = Cardinality(Tokens(g))
  <2> HIDE DEF g, B
  <2>1. ExistsBijection(Tokens(g), Tokens(f))
    BY <1>3 DEF ExistsBijection
  <2> QED  BY <1>4, <2>1, FS_Bijection
<1> QED  BY <1>5 DEF SumF

(* A list continued by another: the first n rows and then the m others.    *)
LEMMA SumConcat ==
  ASSUME NEW n \in Nat, NEW m \in Nat, NEW f \in [1..(n + m) -> Nat]
  PROVE  SumF(f) = SumF([i \in 1..n |-> f[i]]) + SumF([i \in 1..m |-> f[n + i]])
<1> DEFINE S == 1..(n + m)  R == 1..n  Q == (n + 1)..(n + m)
           g == [x \in Q |-> f[x]]
           e == [i \in 1..m |-> n + i]
<1>1. IsFiniteSet(S) /\ IsFiniteSet(1..m) /\ R \in SUBSET S /\ S \ R = Q
  <2>1. IsFiniteSet(1..(n + m)) /\ IsFiniteSet(1..m)
    BY FS_Interval
  <2> QED  BY <2>1
<1>2. SumF(f) = SumF([i \in R |-> f[i]]) + SumF([x \in S \ R |-> f[x]])
  <2> HIDE DEF R
  <2>1. IsFiniteSet(S) /\ f \in [S -> Nat] /\ R \in SUBSET S
    BY <1>1
  <2> HIDE DEF S
  <2> QED  BY ONLY <2>1, SumSplit, ZenonT(60)
<1>3. e \in Bijection(1..m, Q)
  <2>1. e \in [1..m -> Q]
    OBVIOUS
  <2>2. \A a, b \in 1..m : e[a] = e[b] => a = b
    OBVIOUS
  <2>3. ASSUME NEW q \in Q PROVE \E a \in 1..m : e[a] = q
    <3>1. q - n \in 1..m /\ n + (q - n) = q
      OBVIOUS
    <3> QED  BY <3>1
  <2> HIDE DEF e, Q
  <2> QED  BY <2>1, <2>2, <2>3, Fun_IsBij
<1>4. g \in [Q -> Nat]
  OBVIOUS
<1>5. SumF([i \in 1..m |-> g[e[i]]]) = SumF(g)
  <2>1. IsFiniteSet(1..m)
    BY <1>1
  <2> HIDE DEF e, Q, g, S, R
  <2> QED  BY <2>1, <1>3, <1>4, SumReindex
<1>6. [i \in 1..m |-> g[e[i]]] = [i \in 1..m |-> f[n + i]]
  OBVIOUS
<1> QED  BY <1>1, <1>2, <1>5, <1>6

(* One more row at the end of a list.                                      *)
LEMMA SumAppend ==
  ASSUME NEW n \in Nat, NEW f \in [1..(n + 1) -> Nat]
  PROVE  SumF(f) = SumF([i \in 1..n |-> f[i]]) + f[n + 1]
<1>1. IsFiniteSet(1..n)
  BY FS_Interval
<1>2. 1..(n + 1) = (1..n) \cup {n + 1} /\ n + 1 \notin 1..n
  OBVIOUS
<1>3. f \in [(1..n) \cup {n + 1} -> Nat]
  BY <1>2
<1> QED  BY <1>1, <1>2, <1>3, SumInsert

-----------------------------------------------------------------------------
(* Filters.                                                                *)

(* A set of numbers has a least one: this is how what a sum computes step  *)
(* by step is proved, from the first step at which it would not.           *)
LEMMA LeastNumber ==
  ASSUME NEW T \in SUBSET Nat, T # {}
  PROVE  \E x \in T : \A y \in T : x <= y
<1>1. PICK x \in T : \A y \in T : ~ (<<y, x>> \in OpToRel(<, Nat))
  BY NatLessThanWellFounded, WFMin
<1>2. \A y \in T : ~ (y < x)
  BY <1>1 DEF OpToRel
<1> QED  BY <1>2

(* Sets of places are finite, and no larger than the list.                 *)
LEMMA FiniteNumbers ==
  ASSUME NEW n \in Nat, NEW S \in SUBSET (1..n)
  PROVE  IsFiniteSet(S) /\ Cardinality(S) \in Nat /\ Cardinality(S) <= n
<1> DEFINE D == 1..n
<1>1. IsFiniteSet(D) /\ Cardinality(D) = n
  BY FS_Interval
<1>2. S \in SUBSET D
  OBVIOUS
<1> HIDE DEF D
<1> QED  BY <1>1, <1>2, FS_Subset, FS_CardinalityType

(* What a bijection is.                                                    *)
LEMMA BijectionFacts ==
  ASSUME NEW S, NEW T, NEW e \in Bijection(S, T)
  PROVE  /\ e \in [S -> T]
         /\ \A a, b \in S : e[a] = e[b] => a = b
         /\ \A t \in T : \E a \in S : e[a] = t
BY Fun_BijectionProperties

(* The ranks of the members of a set number them from the first.           *)
LEMMA RankBijection ==
  ASSUME NEW n \in Nat, NEW S \in SUBSET (1..n)
  PROVE  /\ IsFiniteSet(S) /\ Cardinality(S) \in Nat
         /\ [i \in S |-> Rank(S, i)] \in Bijection(S, 1..Cardinality(S))
         /\ \A i \in S : Rank(S, i) \in 1..i
         /\ \A i, j \in S : i < j => Rank(S, i) < Rank(S, j)
<1> DEFINE UpTo(i) == {j \in S : j <= i}
           r == [i \in S |-> Rank(S, i)]
           c == Cardinality(S)
<1>0. \A i \in S : i \in Nat /\ 1 <= i /\ i <= n
  OBVIOUS
<1> HIDE DEF r
<1>a. \A i, x \in S : x \in UpTo(i) <=> x <= i
  OBVIOUS
<1>b. \A i \in S : UpTo(i) \in SUBSET S /\ Rank(S, i) = Cardinality(UpTo(i))
  BY DEF Rank
<1> HIDE DEF UpTo, c
<1>1. IsFiniteSet(S) /\ c \in Nat
  BY FiniteNumbers DEF c
<1>2. \A i \in S : UpTo(i) \in SUBSET S /\ Rank(S, i) = Cardinality(UpTo(i))
  BY <1>b
<1>3. \A i \in S : IsFiniteSet(UpTo(i)) /\ Rank(S, i) \in Nat /\ Rank(S, i) <= c
  BY <1>1, <1>2, FS_Subset, FS_CardinalityType DEF c
<1>4. ASSUME NEW i \in S PROVE Rank(S, i) \in 1..i
  <2>1. UpTo(i) \in SUBSET (1..i) /\ i \in UpTo(i) /\ i \in Nat
    <3>1. ASSUME NEW x \in UpTo(i) PROVE x \in 1..i
      <4>1. x \in S /\ x <= i
        BY <1>a, <1>b
      <4> QED  BY <1>0, <4>1
    <3> QED  BY <1>0, <1>a, <3>1
  <2>3. Cardinality(UpTo(i)) <= i
    <3> HIDE DEF UpTo
    <3> QED  BY <2>1, FiniteNumbers
  <2>4. Cardinality(UpTo(i)) # 0
    BY <1>3, <2>1, FS_EmptySet
  <2> QED  BY <1>2, <1>3, <2>3, <2>4
<1>5. ASSUME NEW i \in S, NEW j \in S, i < j PROVE Rank(S, i) < Rank(S, j)
  <2>1. UpTo(i) \in SUBSET UpTo(j) /\ j \in UpTo(j) /\ j \notin UpTo(i)
    <3>1. ASSUME NEW x \in UpTo(i) PROVE x \in UpTo(j)
      <4>1. x \in S /\ x <= i /\ x \in Nat /\ i \in Nat /\ j \in Nat
        BY <1>0, <1>a, <1>b
      <4> QED  BY <1>5, <1>a, <4>1
    <3>2. j <= j /\ ~ (j <= i)
      BY <1>0, <1>5
    <3> QED  BY <1>a, <3>1, <3>2
  <2>2. UpTo(i) # UpTo(j)
    BY <2>1
  <2>3. Cardinality(UpTo(i)) <= Cardinality(UpTo(j)) /\ Cardinality(UpTo(i)) # Cardinality(UpTo(j))
    BY <1>3, <2>1, <2>2, FS_Subset
  <2> QED  BY <1>2, <1>3, <2>3
<1>6. r \in Injection(S, 1..c)
  <2>1. r \in [S -> 1..c]
    <3>1. \A i \in S : Rank(S, i) \in 1..c
      BY <1>0, <1>1, <1>3, <1>4
    <3> QED  BY <3>1 DEF r
  <2>2. \A i, j \in S : r[i] = r[j] => i = j
    <3>1. ASSUME NEW i \in S, NEW j \in S, r[i] = r[j] PROVE i = j
      <4>1. Rank(S, i) = Rank(S, j)
        BY <3>1 DEF r
      <4>2. ~ (i < j) /\ ~ (j < i)
        <5>1. i < j => Rank(S, i) < Rank(S, j)
          BY <1>5
        <5>2. j < i => Rank(S, j) < Rank(S, i)
          BY <1>5
        <5> QED  BY <1>3, <4>1, <5>1, <5>2
      <4> QED  BY <1>0, <4>2
    <3> QED  BY <3>1
  <2> QED  BY <2>1, <2>2, Fun_IsInj
<1>7. r \in Surjection(S, 1..c)
  <2>1. IsFiniteSet(1..c) /\ Cardinality(1..c) = c
    BY <1>1, FS_Interval
  <2> QED  BY <1>6, <2>1, FS_Injection DEF c
<1>8. r \in Bijection(S, 1..c)
  BY <1>6, <1>7 DEF Bijection
<1> QED  BY <1>1, <1>4, <1>5, <1>8 DEF r, c

(* A set of places of a list of n rows.                                    *)
Places(S, n) == S \in SUBSET (1..n)

(* The filter is the list read at the kept places, in their order, and no  *)
(* row moves up the list.                                                  *)
LEMMA KeptPlaces ==
  ASSUME NEW n \in Nat, NEW S, Places(S, n)
  PROVE  /\ IsFiniteSet(S) /\ Cardinality(S) \in Nat
         /\ \E e \in Bijection(1..Cardinality(S), S) :
              /\ \A s : Kept(s, S) = [k \in 1..Cardinality(S) |-> s[e[k]]]
              /\ \A k \in 1..Cardinality(S) : k <= e[k]
<1> DEFINE r == [i \in S |-> Rank(S, i)]
           c == Cardinality(S)
           e == [k \in 1..c |-> CHOOSE i \in S : Rank(S, i) = k]
<1>1. IsFiniteSet(S) /\ c \in Nat /\ r \in Bijection(S, 1..c) /\ \A i \in S : Rank(S, i) \in 1..i
  BY RankBijection DEF Places
<1>2. /\ \A i, j \in S : Rank(S, i) = Rank(S, j) => i = j
      /\ \A k \in 1..c : \E i \in S : Rank(S, i) = k
      /\ \A i \in S : Rank(S, i) \in 1..c
  <2>1. /\ \A i, j \in S : r[i] = r[j] => i = j
        /\ \A k \in 1..c : \E i \in S : r[i] = k
        /\ r \in [S -> 1..c]
    <3> DEFINE D == 1..c
    <3> HIDE DEF r, D, c, e
    <3>1. r \in Bijection(S, D)
      BY <1>1 DEF D, r
    <3>2. /\ \A i, j \in S : r[i] = r[j] => i = j
          /\ \A k \in D : \E i \in S : r[i] = k
          /\ r \in [S -> D]
      BY <3>1, BijectionFacts
    <3> QED  BY <3>2 DEF D, r
  <2>2. \A i \in S : r[i] = Rank(S, i)
    OBVIOUS
  <2> HIDE DEF r
  <2> QED  BY <2>1, <2>2
<1>3. \A k \in 1..c : e[k] \in S /\ Rank(S, e[k]) = k
  BY <1>2
<1>4. e \in Bijection(1..c, S)
  <2>1. e \in [1..c -> S]
    BY <1>3
  <2>2. \A k, l \in 1..c : e[k] = e[l] => k = l
    <3> HIDE DEF e
    <3> QED  BY <1>3
  <2>3. ASSUME NEW i \in S PROVE \E k \in 1..c : e[k] = i
    <3>1. Rank(S, i) \in 1..c
      BY <1>2
    <3> HIDE DEF e, c
    <3>2. e[Rank(S, i)] = i
      BY <1>2, <1>3, <3>1
    <3> QED  BY <3>1, <3>2
  <2> HIDE DEF e
  <2> QED  BY <2>1, <2>2, <2>3, Fun_IsBij
<1>5. \A k \in 1..c : k <= e[k]
  <2> HIDE DEF e
  <2>1. ASSUME NEW k \in 1..c PROVE k <= e[k]
    <3>1. e[k] \in S /\ Rank(S, e[k]) = k /\ k \in 1..e[k]
      BY <1>1, <1>3
    <3> QED  BY <3>1
  <2> QED  BY <2>1
<1>6. \A s : Kept(s, S) = [k \in 1..c |-> s[e[k]]]
  BY DEF Kept
<1> QED  BY <1>1, <1>4, <1>5, <1>6

(* Keeping every row changes nothing.                                      *)
LEMMA KeptAll ==
  ASSUME NEW A, NEW s \in Seq(A)
  PROVE  Kept(s, DOMAIN s) = s
<1> DEFINE n == Len(s)
<1>1. n \in Nat /\ DOMAIN s = 1..n /\ s \in [1..n -> A]
  OBVIOUS
<1>2. Cardinality(1..n) = n
  BY <1>1, FS_Interval
<1>3. ASSUME NEW i \in 1..n PROVE Rank(1..n, i) = i
  <2>1. {j \in 1..n : j <= i} = 1..i
    BY <1>1
  <2>2. i \in Nat /\ Cardinality(1..i) = i
    BY FS_Interval
  <2> QED  BY <2>1, <2>2 DEF Rank
<1> HIDE DEF n
<1>4. \A k \in 1..n : (CHOOSE i \in 1..n : Rank(1..n, i) = k) = k
  BY <1>3
<1>5. Kept(s, 1..n) = [k \in 1..n |-> s[CHOOSE i \in 1..n : Rank(1..n, i) = k]]
  BY <1>2 DEF Kept
<1>6. Kept(s, 1..n) = [k \in 1..n |-> s[k]]
  BY <1>4, <1>5
<1> QED  BY <1>1, <1>6

-----------------------------------------------------------------------------
(* Sums computed step by step.                                             *)

(* Induction, for a set of numbers.                                        *)
LEMMA AllNumbers ==
  ASSUME NEW T \in SUBSET Nat, 0 \in T, \A n \in T : n + 1 \in T
  PROVE  \A n \in Nat : n \in T
<1> SUFFICES ASSUME Nat \ T # {} PROVE FALSE
  OBVIOUS
<1>1. PICK x \in Nat \ T : \A y \in Nat \ T : x <= y
  BY LeastNumber
<1>2. x # 0 /\ x - 1 \in Nat
  BY <1>1
<1>3. x - 1 \in T
  BY <1>1, <1>2
<1>4. (x - 1) + 1 \in T
  BY <1>3
<1> QED  BY <1>1, <1>4

(* The sum of the rows of g that are in A.                                 *)
SumOn(g, A) == SumF([x \in A |-> g[x]])

LEMMA SumOnLaws ==
  ASSUME NEW D, NEW g \in [D -> Nat]
  PROVE  /\ SumOn(g, {}) = 0 /\ SumOn(g, D) = SumF(g)
         /\ \A x \in D : SumOn(g, {x}) = g[x]
         /\ \A A \in SUBSET D : IsFiniteSet(A) => SumOn(g, A) \in Nat
<1>1. \A A \in SUBSET D : [x \in A |-> g[x]] \in [A -> Nat]
  OBVIOUS
<1>2. SumOn(g, {}) = 0
  <2> DEFINE f == [x \in {} |-> g[x]]
  <2>1. f \in [{} -> Nat] /\ \A x \in {} : f[x] = 0
    OBVIOUS
  <2> HIDE DEF f
  <2>2. SumF(f) = 0
    BY <2>1, SumZero
  <2> QED  BY <2>2 DEF SumOn, f
<1>3. SumOn(g, D) = SumF(g)
  BY DEF SumOn
<1>4. ASSUME NEW x \in D PROVE SumOn(g, {x}) = g[x]
  <2> DEFINE f == [y \in {x} |-> g[y]]
  <2>1. f \in [{x} -> Nat] /\ f[x] = g[x]
    OBVIOUS
  <2> HIDE DEF f
  <2>2. SumF(f) = f[x]
    BY <2>1, SumSingle
  <2> QED  BY <2>1, <2>2 DEF SumOn, f
<1>5. \A A \in SUBSET D : IsFiniteSet(A) => SumOn(g, A) \in Nat
  BY <1>1, SumType DEF SumOn
<1> QED  BY <1>2, <1>3, <1>4, <1>5

(* Two sets of rows that have none in common.                              *)
LEMMA SumUnion ==
  ASSUME NEW D, NEW g \in [D -> Nat], NEW A \in SUBSET D, NEW B \in SUBSET D,
         IsFiniteSet(A), IsFiniteSet(B), A \cap B = {}
  PROVE  SumOn(g, A \cup B) = SumOn(g, A) + SumOn(g, B)
<1> DEFINE U == A \cup B  f == [x \in U |-> g[x]]
<1>1. IsFiniteSet(U) /\ f \in [U -> Nat] /\ A \in SUBSET U /\ U \ A = B
  BY FS_Union
<1>2. [x \in A |-> f[x]] = [x \in A |-> g[x]] /\ [x \in B |-> f[x]] = [x \in B |-> g[x]]
  OBVIOUS
<1> HIDE DEF U, f
<1>3. SumF(f) = SumF([x \in A |-> f[x]]) + SumF([x \in U \ A |-> f[x]])
  BY <1>1, SumSplit
<1> QED  BY <1>1, <1>2, <1>3 DEF f, U, SumOn

(* Rows grouped by what they belong to: the sum of the sums of the groups. *)
GroupOf(h, D, p) == {j \in D : h[j] = p}
GroupSums(h, g, D, P) == [p \in P |-> SumOn(g, GroupOf(h, D, p))]

LEMMA SumPartition ==
  ASSUME NEW D, IsFiniteSet(D), NEW P, IsFiniteSet(P),
         NEW h, h \in [D -> P], NEW g, g \in [D -> Nat]
  PROVE  GroupSums(h, g, D, P) \in [P -> Nat] /\ SumF(GroupSums(h, g, D, P)) = SumF(g)
<1> DEFINE Group(p) == {j \in D : h[j] = p}
           In(Q) == {j \in D : h[j] \in Q}
           Part(p) == SumOn(g, Group(p))
           F == [p \in P |-> Part(p)]
           Over(Q) == SumOn(g, In(Q))
           Total(Q) == SumOn(F, Q)
           Good == {n \in Nat : \A Q \in SUBSET P : Cardinality(Q) = n => Over(Q) = Total(Q)}
<1>1. \A Q \in SUBSET P : IsFiniteSet(Q) /\ IsFiniteSet(In(Q)) /\ In(Q) \in SUBSET D
  <2>1. \A Q : In(Q) \in SUBSET D
    OBVIOUS
  <2> HIDE DEF In
  <2> QED  BY <2>1, FS_Subset
<1>2. \A p \in P : IsFiniteSet(Group(p)) /\ Group(p) \in SUBSET D
  <2>1. \A p : Group(p) \in SUBSET D
    OBVIOUS
  <2> HIDE DEF Group
  <2> QED  BY <2>1, FS_Subset
<1>3. In({}) = {} /\ In(P) = D
  OBVIOUS
<1>4. ASSUME NEW R, NEW p, p \notin R
      PROVE  In(R \cup {p}) = In(R) \cup Group(p) /\ In(R) \cap Group(p) = {}
  BY <1>4
<1> HIDE DEF Group, In
<1>5. \A p \in P : Part(p) \in Nat
  BY <1>2, SumOnLaws
<1> HIDE DEF Part
<1>6. F \in [P -> Nat] /\ \A p \in P : F[p] = Part(p)
  BY <1>5
<1> HIDE DEF F
<1>7. Over({}) = 0 /\ Total({}) = 0
  BY <1>3, <1>6, SumOnLaws
<1>8. ASSUME NEW R \in SUBSET P, NEW p \in P, p \notin R, Over(R) = Total(R)
      PROVE  Over(R \cup {p}) = Total(R \cup {p})
  <2>1. IsFiniteSet(R) /\ IsFiniteSet(In(R)) /\ In(R) \in SUBSET D
    BY <1>1
  <2>2. IsFiniteSet(Group(p)) /\ Group(p) \in SUBSET D
    BY <1>2
  <2>3. Over(R \cup {p}) = Over(R) + Part(p)
    BY <1>4, <1>8, <2>1, <2>2, SumUnion DEF Part
  <2>4. IsFiniteSet({p}) /\ {p} \in SUBSET P /\ R \cap {p} = {}
    BY <1>8, FS_Singleton
  <2>5. SumOn(F, R \cup {p}) = SumOn(F, R) + SumOn(F, {p})
    BY <1>6, <2>1, <2>4, SumUnion
  <2>7. SumOn(F, {p}) = Part(p)
    BY <1>6, SumOnLaws
  <2> QED  BY <1>8, <2>3, <2>5, <2>7
<1> HIDE DEF Over, Total
<1>9. ASSUME NEW n \in Nat, \A Q \in SUBSET P : Cardinality(Q) = n => Over(Q) = Total(Q),
             NEW Q \in SUBSET P, Cardinality(Q) = n + 1
      PROVE  Over(Q) = Total(Q)
  <2>1. IsFiniteSet(Q)
    BY <1>1
  <2>2. Q # {}
    BY <1>9, FS_EmptySet
  <2>3. PICK p : p \in Q
    BY <2>2
  <2>4. Q \ {p} \in SUBSET P /\ p \in P /\ p \notin Q \ {p} /\ (Q \ {p}) \cup {p} = Q
    BY <2>3
  <2>5. Cardinality(Q \ {p}) = Cardinality(Q) - 1
    BY <2>1, <2>3, FS_RemoveElement
  <2>6. Over(Q \ {p}) = Total(Q \ {p})
    BY <1>9, <2>4, <2>5
  <2> QED  BY <1>8, <2>4, <2>6
<1>10. \A Q \in SUBSET P : Cardinality(Q) = 0 => Over(Q) = Total(Q)
  BY <1>1, <1>7, FS_EmptySet
<1>11. Good \in SUBSET Nat /\ 0 \in Good /\ \A n \in Good : n + 1 \in Good
  BY <1>9, <1>10
<1>12. Over(P) = Total(P)
  <2>1. Cardinality(P) \in Nat
    BY FS_CardinalityType
  <2>2. Cardinality(P) \in Good
    <3> HIDE DEF Good
    <3> QED  BY <1>11, <2>1, AllNumbers
  <2> QED  BY <2>2
<1>13. Over(P) = SumF(g) /\ Total(P) = SumF(F)
  BY <1>3, <1>6, SumOnLaws DEF Over, Total
<1>14. SumF(F) = SumF(g)
  BY <1>12, <1>13
<1>15. F = GroupSums(h, g, D, P)
  BY DEF F, Part, Group, GroupSums, GroupOf
<1> QED  BY <1>6, <1>14, <1>15

(* What the first j rows of a list add up to.                              *)
UpTo(a, j) == SumF([q \in 1..j |-> a[q]])

LEMMA UpToLaws ==
  ASSUME NEW k \in Nat, NEW a \in [1..k -> Nat]
  PROVE  /\ \A j \in 0..k : UpTo(a, j) \in Nat
         /\ UpTo(a, 0) = 0 /\ UpTo(a, k) = SumF(a)
         /\ \A j \in 1..k : UpTo(a, j) = UpTo(a, j - 1) + a[j]
<1>1. ASSUME NEW j \in 0..k PROVE IsFiniteSet(1..j)
  <2>1. j \in Int /\ 1 \in Int
    OBVIOUS
  <2> QED  BY <2>1, FS_Interval
<1>2. ASSUME NEW j \in 0..k PROVE UpTo(a, j) \in Nat
  <2> DEFINE f == [q \in 1..j |-> a[q]]
  <2>1. f \in [1..j -> Nat]
    OBVIOUS
  <2> HIDE DEF f
  <2>2. SumF(f) \in Nat
    BY <1>1, <2>1, SumType
  <2> QED  BY <2>2 DEF UpTo, f
<1>3. UpTo(a, 0) = 0
  <2> DEFINE S == 1..0  f == [q \in S |-> a[q]]
  <2>1. S = {}
    OBVIOUS
  <2> HIDE DEF S
  <2>2. f \in [S -> Nat] /\ \A q \in S : f[q] = 0
    BY <2>1
  <2> HIDE DEF f
  <2>3. SumF(f) = 0
    BY <2>2, SumZero
  <2> QED  BY <2>3 DEF UpTo, f, S
<1>4. UpTo(a, k) = SumF(a)
  BY DEF UpTo
<1>5. ASSUME NEW j \in 1..k PROVE UpTo(a, j) = UpTo(a, j - 1) + a[j]
  <2> DEFINE i == j - 1  f == [q \in 1..j |-> a[q]]
  <2>1. i \in Nat /\ i + 1 = j /\ f \in [1..(i + 1) -> Nat]
    OBVIOUS
  <2>2. [q \in 1..i |-> f[q]] = [q \in 1..i |-> a[q]] /\ f[i + 1] = a[j]
    OBVIOUS
  <2>3. SumF(f) = SumF([q \in 1..i |-> f[q]]) + f[i + 1]
    <3> HIDE DEF i, f
    <3> QED  BY <2>1, SumAppend
  <2> QED  BY <2>2, <2>3 DEF UpTo
<1> QED  BY <1>2, <1>3, <1>4, <1>5

(* A row of x after rows of u, of which at most n were taken.              *)
LEMMA GreedyStep ==
  ASSUME NEW n \in Nat, NEW u \in Nat, NEW x \in Nat
  PROVE  (IF u <= n THEN u ELSE n)
           + (LET rest == IF n > u THEN n - u ELSE 0 IN IF x <= rest THEN x ELSE rest)
         = IF u + x <= n THEN u + x ELSE n
OBVIOUS

(* Taking n from the rows of a list, from the first on and from each what  *)
(* it has, takes n in all when there is enough.                            *)
LEMMA SumGreedy ==
  ASSUME NEW k \in Nat, NEW a \in [1..k -> Nat], NEW n \in Nat, n <= SumF(a),
         NEW t \in [1..k -> Nat],
         \A p \in 1..k : t[p] = LET rest == IF n > UpTo(a, p - 1) THEN n - UpTo(a, p - 1) ELSE 0
                                IN IF a[p] <= rest THEN a[p] ELSE rest
  PROVE  SumF(t) = n
<1> DEFINE Good == {j \in Nat : j <= k =>
                      UpTo(t, j) = IF UpTo(a, j) <= n THEN UpTo(a, j) ELSE n}
<1>0. /\ \A j \in 0..k : UpTo(a, j) \in Nat
      /\ UpTo(a, 0) = 0 /\ UpTo(a, k) = SumF(a)
      /\ \A j \in 1..k : UpTo(a, j) = UpTo(a, j - 1) + a[j]
      /\ UpTo(t, 0) = 0 /\ UpTo(t, k) = SumF(t)
      /\ \A j \in 1..k : UpTo(t, j) = UpTo(t, j - 1) + t[j]
  <2> HIDE DEF Good
  <2>1. /\ UpTo(t, 0) = 0 /\ UpTo(t, k) = SumF(t)
        /\ \A j \in 1..k : UpTo(t, j) = UpTo(t, j - 1) + t[j]
    BY UpToLaws
  <2> QED  BY <2>1, UpToLaws
<1>1. 0 \in Good
  BY <1>0
<1>2. ASSUME NEW j \in Good PROVE j + 1 \in Good
  <2> SUFFICES ASSUME j + 1 <= k
               PROVE  UpTo(t, j + 1) = IF UpTo(a, j + 1) <= n THEN UpTo(a, j + 1) ELSE n
    OBVIOUS
  <2>1. j \in 0..k /\ j + 1 \in 1..k /\ (j + 1) - 1 = j
    OBVIOUS
  <2>2. UpTo(t, j) = IF UpTo(a, j) <= n THEN UpTo(a, j) ELSE n
    BY <2>1
  <2>3. /\ UpTo(t, j + 1) = UpTo(t, j) + t[j + 1]
        /\ UpTo(a, j + 1) = UpTo(a, j) + a[j + 1]
        /\ UpTo(a, j) \in Nat
    <3> HIDE DEF Good
    <3> QED  BY <1>0, <2>1
  <2>4. t[j + 1] = LET rest == IF n > UpTo(a, j) THEN n - UpTo(a, j) ELSE 0
                   IN IF a[j + 1] <= rest THEN a[j + 1] ELSE rest
    BY <2>1
  <2>5. a[j + 1] \in Nat
    BY <2>1
  <2> QED  BY ONLY <2>2, <2>3, <2>4, <2>5, n \in Nat, GreedyStep, SMTT(20)
<1>3. k \in Good
  <2>1. Good \in SUBSET Nat
    OBVIOUS
  <2> HIDE DEF Good
  <2> QED  BY <1>1, <1>2, <2>1, AllNumbers
<1> QED  BY <1>0, <1>3
=============================================================================
