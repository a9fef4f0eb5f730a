--------------------------- MODULE MCFrameBuffer ----------------------------
(* FrameBuffer on a small ring, for TLC. *)
EXTENDS FrameBuffer, TLC

Symmetry == Permutations(Threads) \cup Permutations(Ids)
              \cup Permutations(Blocks)
=============================================================================
