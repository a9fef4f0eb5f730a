-------------------------- MODULE MCUnifiedEncoder ---------------------------
(* UnifiedEncoder with a few encoders and addresses, for TLC. *)
EXTENDS UnifiedEncoder, TLC

(* CMakeLists.txt:158-174: NVENC and AMD always, VPL where it is found. *)
AllBuilds == {{"nvidia", "amd"}, {"intel", "nvidia", "amd"}}

(* Encoders and addresses are only compared. *)
Symmetry == Permutations(Encoders) \cup Permutations(Addresses)
=============================================================================
