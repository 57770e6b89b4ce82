--------------------------------- MODULE Places ---------------------------------
(***************************************************************************)
(* Places in a sequence, counted from the first: what it takes to say      *)
(* "the n-th newline" or "the oldest node with this key" without           *)
(* recursion.  S is a finite set of places.                                *)
(***************************************************************************)
EXTENDS Naturals, FiniteSets

Upto(S, i) == {j \in S : j <= i}

\* How many places of S there are up to i, and the n-th of them.
Rank(S, i) == Cardinality(Upto(S, i))
Nth(S, n)  == CHOOSE i \in S : Rank(S, i) = n

=============================================================================
