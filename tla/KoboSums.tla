------------------------------ MODULE KoboSums ------------------------------
(***************************************************************************)
(* Sums of amounts.  The services add up bigint kobo columns with SQL       *)
(* aggregates and Array.reduce; here the sum of the amounts f[s] over a     *)
(* finite set S is the number of single kobos in them.  The definition      *)
(* needs no recursion, so the proof system can reason about it with the     *)
(* library's theorems on cardinalities.                                     *)
(***************************************************************************)
EXTENDS Naturals, FiniteSets

\* Kobo k of the amount f[s] is the pair <<s, k>>.
Kobos(f, S) == UNION {{s} \X (1 .. f[s]) : s \in S}

Total(f, S) == Cardinality(Kobos(f, S))

Smaller(a, b) == IF a < b THEN a ELSE b
=============================================================================
