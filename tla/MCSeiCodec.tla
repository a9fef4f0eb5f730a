----------------------------- MODULE MCSeiCodec -----------------------------
(***************************************************************************)
(* SeiCodec on the keyframes that tell its searches apart: with and        *)
(* without parameter sets, delimiter, several slices, and the user data of *)
(* another message before, between and after the parameter sets.           *)
(***************************************************************************)
EXTENDS SeiCodec

MCUuid == <<165, 179>>

MCShapes ==
    {<<"slice">>, <<"slice", "slice">>, <<"aud", "slice">>,
     <<"sps", "pps", "slice">>, <<"vps", "sps", "pps", "slice">>,
     <<"aud", "vps", "sps", "pps", "slice", "slice">>,
     <<"pps", "slice">>, <<"sei", "slice">>,
     <<"sps", "pps", "sei", "slice">>, <<"sei", "sps", "pps", "slice">>}
=============================================================================
