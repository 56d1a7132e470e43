----------------------------- MODULE MCReducer -----------------------------
(* Four calls with two keys. *)
EXTENDS Reducer, TLC

CONSTANTS c1, c2, c3, c4, k1, k2, value, error

MCIdentOf == (c1 :> k1) @@ (c2 :> k1) @@ (c3 :> k1) @@ (c4 :> k2)
============================================================================
