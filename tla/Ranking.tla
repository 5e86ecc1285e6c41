------------------------------- MODULE Ranking -------------------------------
(***************************************************************************)
(* ORDER BY and LIMIT of a query, for rows whose keys differ: the rank of  *)
(* a row is the number of rows before it.                                  *)
(***************************************************************************)
EXTENDS Integers, FiniteSets

\* how many of S have a smaller key than x
Rank(key, S, x) == Cardinality({y \in S : key[y] < key[x]})

\* the n of S with the smallest keys, or all there are
Lowest(key, S, n) == {x \in S : Rank(key, S, x) < n}

\* S as a sequence, by key
Ranked(key, S) == [k \in 1..Cardinality(S) |-> CHOOSE x \in S : Rank(key, S, x) = k - 1]
=============================================================================
