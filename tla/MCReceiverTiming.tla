-------------------------- MODULE MCReceiverTiming --------------------------
(* ReceiverTiming on a stream of three frames, whose PTS start again with  *)
(* the third, for TLC.                                                     *)
EXTENDS ReceiverTiming

MCFrames == 1 .. 3
MCPts   == <<1, 2, 1>>
MCStamp == <<6, 7, 10>>
MCSei   == <<"ours", "other", "ours">>

(* A decoder without a time base, and one with sixths of a second. *)
MCTimeBases == {[num |-> 0, den |-> 1], [num |-> 1, den |-> 6]}
=============================================================================
