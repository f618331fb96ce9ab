------------------------------ MODULE Dinheiro ------------------------------
(***************************************************************************)
(* The arithmetic of money_service.py and the two ways the handlers split  *)
(* an amount: between product and service charge, and between the product  *)
(* and the service of a debt.                                              *)
(*                                                                         *)
(* Amounts are whole cents, percentages whole points.  Every function of   *)
(* the code rounds half up to the cent (ROUND_HALF_UP) after each          *)
(* multiplication or division, and so do the operators below.              *)
(***************************************************************************)
EXTENDS Integers

(* money(): the integer nearest to n / d, halves upwards.                  *)
HalfUp(n, d) == (2 * n + d) \div (2 * d)

(* percentage_amount(base, percentage).                                    *)
PercentOf(base, pct) == HalfUp(base * pct, 100)

(* The product inside an amount that already includes the service charge.  *)
WithoutPercent(gross, pct) == HalfUp(gross * 100, 100 + pct)

(* max(ZERO, amount).                                                      *)
NonNegative(n) == IF n > 0 THEN n ELSE 0

AtMost(a, b) == IF a <= b THEN a ELSE b

(* split_consignment_payment: an installment settles product before        *)
(* service.  Mutants: the part of the service is taken first; the product  *)
(* left is not capped by the amount.                                       *)
ServiceFirst(amount, productTotal, paidProduct) ==
  [product |-> NonNegative(amount - 1), service |-> AtMost(amount, 1)]
AllProductLeft(amount, productTotal, paidProduct) ==
  LET product == NonNegative(productTotal - paidProduct)
  IN [product |-> product, service |-> amount - product]
SplitInstallment(amount, productTotal, paidProduct) ==
  LET product == AtMost(amount, NonNegative(productTotal - paidProduct))
  IN [product |-> product, service |-> amount - product]

(* The service given back with `take` of the `quantity` pieces of an       *)
(* allocation: all that is left of it with the last pieces, the rounded    *)
(* proportion otherwise.                                                   *)
ServiceBack(service, quantity, already, available, take) ==
  LET left == service - already
  IN IF take = available THEN left
     ELSE AtMost(left, HalfUp(service * take, quantity))
=============================================================================
