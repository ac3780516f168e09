----------------------------- MODULE MCCTFStats -----------------------------
(* Instances of CTFStats for TLC. *)
EXTENDS CTFStats
=============================================================================
