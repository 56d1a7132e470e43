-------------------------- MODULE MCUploadDelivery --------------------------
(* One process that may be started again, two uploads that share a book.   *)
EXTENDS UploadDelivery, TLC

CONSTANTS p1, m1, m2, b1, b2

MCResults == (m1 :> {{b1}, {b1, b2}}) @@ (m2 :> {{b2}})
=============================================================================
