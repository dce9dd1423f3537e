---------------------------- MODULE MCDispatch -----------------------------
(* Instances of Dispatch small enough for TLC. *)
EXTENDS Dispatch
=============================================================================
