----------------------------- MODULE MCCTFFlags -----------------------------
(* Instances of CTFFlags for TLC. *)
EXTENDS CTFFlags
=============================================================================
