----------------------------- MODULE MCEncoder ------------------------------
(* Encoder with small bounds, for TLC. *)
EXTENDS Encoder
=============================================================================
