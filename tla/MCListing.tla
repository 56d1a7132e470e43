----------------------------- MODULE MCListing -----------------------------
(* Four rows in pages of two, and ids free before, between and after them. *)
EXTENDS Listing, TLC

MCIds == 1..6
MCInitial == {2, 3, 4, 5}
=============================================================================
