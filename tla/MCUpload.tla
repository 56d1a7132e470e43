------------------------------ MODULE MCUpload ------------------------------
(* Pages of two documents, queries of up to five. *)
EXTENDS Upload, TLC

CONSTANTS p, q, d1, d2, anonymous

MCKey == (d1 :> 1) @@ (d2 :> 2) @@ (anonymous :> 3)
MCUpstreams == {f \in [Queries -> SeqOf(Docs, 5)] : Len(f[q]) <= 1}
MCEvents == {<<>>, <<p>>, <<p, q>>, <<q, p>>, <<p, p>>}
=============================================================================
