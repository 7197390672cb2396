------------------------------- MODULE Totals -------------------------------
(***************************************************************************)
(* Two things to ask of a sequence: the total of its numbers, and the      *)
(* elements found at some of its positions.  Both are stated without       *)
(* recursion, so that what appending or removing an element does to them   *)
(* can be proved from the theorems about finite sets (see TotalsTheorems). *)
(***************************************************************************)
EXTENDS Naturals, Sequences, FiniteSets

(* The total, as the cardinality of a set of tokens: position i of ns      *)
(* holds the ns[i] tokens <<i, 1>> .. <<i, ns[i]>>.                        *)
Tokens(ns) == UNION {{i} \X (1 .. ns[i]) : i \in DOMAIN ns}

Total(ns) == Cardinality(Tokens(ns))

(* The elements of s at the positions P, in their order: the k-th is the   *)
(* one at the position of P that has k positions of P up to it.            *)
Rank(P, i) == Cardinality(P \cap (1 .. i))

Picked(s, P) ==
  [k \in 1 .. Cardinality(P) |-> s[CHOOSE i \in P : Rank(P, i) = k]]

=============================================================================
