-------------------------- MODULE MCBookStorePool --------------------------
(* MCBookStore's requests on a pool with fewer connections. *)
EXTENDS MCBookStore, BookStorePool

\* Two PATCHes that deadlock, two uploads that wait for them and for each
\* other, and one that needs no connection.
PoolOps ==
    { Patching(b1, y, UNSET), Patching(b2, x, UNSET),
      Uploading(<<>>), Uploading(<<Text(x, x), Text(y, x)>>),
      Uploading(<<Text(y, x), Text(x, x)>>) }
============================================================================
