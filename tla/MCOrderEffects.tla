--------------------------- MODULE MCOrderEffects ---------------------------
(* Instances of OrderEffects small enough for TLC. *)
EXTENDS OrderEffects
=============================================================================
