------------------------------- MODULE Totals -------------------------------
(***************************************************************************)
(* Sums over the values of a finite function into the natural numbers, and *)
(* the update operators the accounting modules build their states with.    *)
(*                                                                         *)
(* A sum is defined by counting: every entry x contributes f[x] units, and *)
(* the total is the number of units.  Its laws are then laws of finite     *)
(* cardinality, which TotalsProofs derives from FiniteSetTheorems.         *)
(***************************************************************************)
EXTENDS Integers, FiniteSets

Units(f) == UNION {{x} \X (1 .. f[x]) : x \in DOMAIN f}

\* sum(f[x] for x in f)
Total(f) == Cardinality(Units(f))

\* The function with no entry.
Empty == [x \in {} |-> 0]

\* f with k bound to v, k in the domain of f or not.
Put(f, k, v) == [x \in DOMAIN f \cup {k} |-> IF x = k THEN v ELSE f[x]]

\* f without the entry k.
Without(f, k) == [x \in DOMAIN f \ {k} |-> f[x]]

Smaller(a, b) == IF a <= b THEN a ELSE b
=============================================================================
