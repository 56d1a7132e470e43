--------------------------- MODULE MCCachedSearch ---------------------------
(* Three callers of one page, one of them in the other container, and one *)
(* caller of the next page.                                               *)
EXTENDS CachedSearch, TLC

CONSTANTS c1, c2, c3, c4, rest, stream

FirstPage == [query |-> "q", offset |-> 0]
NextPage == [query |-> "q", offset |-> 1]
MCSearches == {FirstPage, NextPage}
MCSearchOf == [c \in Calls |-> IF c = c4 THEN NextPage ELSE FirstPage]
MCContainerOf == [c \in Calls |-> IF c = c3 THEN stream ELSE rest]
Interchangeable == Permutations({c1, c2})
=============================================================================
