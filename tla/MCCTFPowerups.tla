--------------------------- MODULE MCCTFPowerups ---------------------------
(* An instance of CTFPowerups for TLC: two jump packs, the second is for   *)
(* team 1 only.                                                            *)
EXTENDS CTFPowerups

MCKindOf == [i \in Items |-> "LongJump"]
MCTeamNo == [i \in Items |-> IF i = 2 THEN 1 ELSE None]
=============================================================================
