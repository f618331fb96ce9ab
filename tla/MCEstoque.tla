----------------------------- MODULE MCEstoque -----------------------------
(***************************************************************************)
(* Instances of Estoque for TLC: two physical products and the pack of two *)
(* of the first.                                                           *)
(***************************************************************************)
EXTENDS Estoque, TLC

Lata == "lata"
Agua == "agua"
Caixa == "caixa"

CanWaterPack == {Lata, Agua, Caixa}
PackOfCans == [p \in CanWaterPack |-> IF p = Caixa THEN Lata ELSE p]
PackOfTwo == [p \in CanWaterPack |-> IF p = Caixa THEN 2 ELSE 1]
ThreeCansOneWater == [p \in {Lata, Agua} |-> IF p = Lata THEN 3 ELSE 1]

E(p, n) == [product |-> p, quantity |-> n]
R(k, s) == [kind |-> k, entries |-> s]

(* Requests that hold the cash session: sales that succeed or fall short,  *)
(* in both orders of the products, and returns.                            *)
SessionRequests == {
  R("pedido", <<E(Lata, -1), E(Agua, -1)>>),
  R("pedido", <<E(Agua, -1), E(Caixa, -1)>>),
  R("item", <<E(Caixa, -1)>>),
  R("item", <<E(Lata, -2)>>),
  R("fechamento", <<E(Lata, 1), E(Caixa, 1)>>)}

(* The same next to the requests that do not.                              *)
MixedRequests == {
  R("pedido", <<E(Caixa, -1)>>),
  R("pedido", <<E(Agua, -1), E(Lata, -2)>>),
  R("pendentes", <<E(Caixa, 1)>>),
  R("carregamento", <<E(Lata, 1), E(Agua, 1)>>),
  R("carregamento", <<E(Lata, -3)>>),
  R("edicao", <<E(Lata, 2)>>),
  R("edicao", <<E(Agua, 0)>>)}

SymmetricTx == Permutations(Tx)
=============================================================================
