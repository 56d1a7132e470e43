-------------------------------- MODULE Pages --------------------------------
(***************************************************************************)
(* LIMIT and OFFSET, upstream and in the table: what the lists of the      *)
(* service and the client of Open Library have in common.                  *)
(***************************************************************************)
EXTENDS Naturals, SequencesExt

\* At most n elements of s, after the first from.
Window(s, from, n) == SubSeq(s, from + 1, Min({from + n, Len(s)}))

\* The numbers in S that i is not below.
Rank(S, i) == Cardinality({j \in S : j <= i})

\* The numbers in S, in increasing order.
InOrder(S) == [n \in 1 .. Cardinality(S) |-> CHOOSE i \in S : Rank(S, i) = n]
=============================================================================
