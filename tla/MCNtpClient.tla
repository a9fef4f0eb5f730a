---------------------------- MODULE MCNtpClient ----------------------------
(* NtpClient with small numbers, for TLC: a second of three nanoseconds and *)
(* four fractions, so that both conversions round.                         *)
EXTENDS NtpClient
=============================================================================
