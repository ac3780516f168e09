---------------------------- MODULE MCSoundList ----------------------------
(* Instances of SoundList for TLC. *)
EXTENDS SoundList
=============================================================================
