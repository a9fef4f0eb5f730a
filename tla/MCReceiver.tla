----------------------------- MODULE MCReceiver -----------------------------
(* Receiver on small sets, for TLC. *)
EXTENDS ReceiverInv
=============================================================================
