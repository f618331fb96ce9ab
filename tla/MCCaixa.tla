------------------------------ MODULE MCCaixa ------------------------------
(***************************************************************************)
(* Instances of Caixa: amounts that tell the rows apart.                   *)
(***************************************************************************)
EXTENDS Caixa, TLC

CONSTANTS r1, r2, r3, r4, agendador

R(k, n) == [kind |-> k, amount |-> n]

(* People open with 1 and count 3; receipts of 2, a refund of 1.           *)
Everything == {
  R("abrir", 1), R("fechar", 3), R("dinheiro", 2), R("cartao", 2),
  R("estorno", 1), R("sangria", 1), R("diaria", 1), R("comanda", 1), R("encerrar", 2)}

(* The requests that meet the double close.                                *)
OpenAndClose == {R("abrir", 1), R("fechar", 3), R("cartao", 2), R("suprimento", 1)}

SymmetricReq == Permutations(Req)
=============================================================================
