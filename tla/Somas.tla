------------------------------- MODULE Somas -------------------------------
(***************************************************************************)
(* The SQL the point of sale relies on, over finite tables: SUM(column) of *)
(* naturals, SUM(column) restricted to some rows, and the rows of a list   *)
(* that a filter keeps.                                                    *)
(*                                                                         *)
(* The sum counts unit "tokens": row x contributes the tokens              *)
(* <<x, 1>> .. <<x, f[x]>>.  Written this way it needs no recursion, so    *)
(* its laws (module SomasProofs) are consequences of the laws of           *)
(* cardinality.  The filter is written by rank for the same reason: row k  *)
(* of the result is the kept row with k kept rows up to it.  MCComanda     *)
(* compares both with the operators of the community modules.              *)
(***************************************************************************)
EXTENDS Naturals, FiniteSets

(* The tokens of a table f of naturals.                                    *)
Tokens(f) == UNION {{x} \X (1..f[x]) : x \in DOMAIN f}

(* func.coalesce(func.sum(column), 0)                                      *)
SumF(f) == Cardinality(Tokens(f))

(* The table that keeps f on the rows of R and is 0 elsewhere: a WHERE.    *)
Where(f, R) == [x \in DOMAIN f |-> IF x \in R THEN f[x] ELSE 0]

(* The table with n in row x and 0 elsewhere.                              *)
Only(S, x, n) == [y \in S |-> IF y = x THEN n ELSE 0]

(* How many members of S there are up to i.                                *)
Rank(S, i) == Cardinality({j \in S : j <= i})

(* The list s without the places that are not in S: [x for x in s if ...]. *)
Kept(s, S) == [k \in 1..Cardinality(S) |-> s[CHOOSE i \in S : Rank(S, i) = k]]
=============================================================================
