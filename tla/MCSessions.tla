----------------------------- MODULE MCSessions -----------------------------
(* One account, two logins that are refreshed, two commands of alembic. *)
EXTENDS Sessions

CONSTANTS alice, l1, l2, m1, m2, manage_books, read_books

MCRights == {NoRights,
             [is_superuser |-> FALSE, permissions |-> {manage_books}],
             [is_superuser |-> TRUE, permissions |-> {read_books}]}

Interchangeable == Permutations(Logins) \cup Permutations(Migrators)
=============================================================================
