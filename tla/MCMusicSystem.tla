--------------------------- MODULE MCMusicSystem ---------------------------
(* Instances of MusicSystem for TLC. *)
EXTENDS MusicSystem
=============================================================================
