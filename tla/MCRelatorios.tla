----------------------------- MODULE MCRelatorios -----------------------------
(* Instances of Relatorios.                                                   *)
EXTENDS Relatorios

CONSTANTS comanda, convertida, direto

(* One method without a fee and one with: 20% of the small amounts below is   *)
(* a whole or a rounded cent.                                                 *)
FeesOfTwo == [dinheiro |-> 0, cartao |-> 20]
FeeOfOne == [cartao |-> 20]
=============================================================================
