----------------------------- MODULE MCComanda -----------------------------
(***************************************************************************)
(* Instances of Comanda for TLC: two rows, of two products at different    *)
(* prices where money is counted, of one product where it is not.          *)
(***************************************************************************)
EXTENDS Comanda, TLC, SequencesExt

CONSTANTS i1, i2

Lata == "lata"
Caixa == "caixa"
TwoRows == {i1, i2}

(* One product, two rows, all alike.                                       *)
OneProduct == {Lata}
RowsOfOneProduct == [i \in TwoRows |-> Lata]
RowsAtOne == [i \in TwoRows |-> 1]

(* A can (i1) and a case of cans (i2), which is a product of its own.      *)
CanAndPack == {Lata, Caixa}
RowOfEach == [i \in TwoRows |-> IF i = i1 THEN Lata ELSE Caixa]
PriceOfEach == [i \in TwoRows |-> IF i = i1 THEN 1 ELSE 2]

(* The token count of Somas is the usual sum, over every small table.      *)
ASSUME SumFIsTheSum ==
  \A f \in [{1, 2, 3} -> 0..3] :
    SumF(f) = MapThenFoldSet(LAMBDA a, b : a + b, 0, LAMBDA x : f[x],
                             LAMBDA S : CHOOSE x \in S : TRUE, DOMAIN f)

(* Kept is the filter of sequences, over every small list.                 *)
ASSUME KeptIsTheFilter ==
  \A s \in UNION {[1..n -> 1..3] : n \in 0..4} : \A S \in SUBSET (1..3) :
    Kept(s, {i \in DOMAIN s : s[i] \in S}) = SelectSeq(s, LAMBDA x : x \in S)

SymmetricMesas == Permutations(Mesas) \cup Permutations(Clients)
=============================================================================
