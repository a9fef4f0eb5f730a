---------------------------- MODULE ReceiverInv ----------------------------
(***************************************************************************)
(* The inductive invariant behind the safety properties of Receiver: what  *)
(* holds at each place of the two threads.                                 *)
(***************************************************************************)
EXTENDS Receiver

(* The callbacks in the middle of an update read the settings in req. *)
InUpdate ==
    \/ cpc \in {"set_url", "ntp", "ntp_init", "ntp_destroy", "hw", "hw_stop",
                "set_hw", "codec", "set_codec"}
    \/ cpc = "join" /\ ret # "free"
    \/ cpc \in {"sync", "record"} /\ ret = "hw"

(* Where each thread can be, given where the other one is: a callback that *)
(* has joined the thread, or not yet made one, has it to itself.           *)
Places ==
    /\ thread_active => tpc \notin {"off", "exit", "done"}
    /\ ~thread_active /\ cpc # "join" => tpc = "off"
    /\ cpc = "join" => /\ ~thread_active /\ tpc # "off"
                       /\ ret \in {"set_url", "set_hw", "set_codec", "free"}
    /\ cpc \in {"sync", "record"} => ret \in {"hw", "restart"}
    /\ cpc = "idle" => thread_active
    /\ cpc \in {"create", "set_url", "set_hw", "set_codec", "free",
                "destroyed"} => ~thread_active
    /\ InUpdate => req \in Settings

(* What the receive thread holds at each of its places. *)
Connection ==
    /\ fmt_ctx = NULL \/ tpc \in {"device", "decoder"}
    /\ tpc \in {"device", "decoder"} => fmt_ctx \in Inputs
    /\ tpc \in {"off", "connect", "sleep", "device", "decoder", "done"}
         => ~is_connected
    /\ tpc \in {"read", "sync"} => is_connected
    /\ is_connected => format_context \in Inputs
    /\ ~is_connected => /\ format_context = NULL
                        /\ codec_context = NULL
                        /\ ~audio_codec_context
                        /\ ~sws_ctx

(* A device in the context is of the configured type from the moment a     *)
(* connection may take a reference to it, or hardware decoding is off.     *)
Device ==
    /\ hw_decode_enabled => hw_decoder_type \in HwTypes
    /\ tpc = "decoder" \/ is_connected =>
         (hw_decode_enabled => hw_device_ctx \in {NULL, hw_decoder_type})

(* There is a client only while ntp_enabled is set, except while a         *)
(* callback is switching it off; whoever is exchanging packets in the      *)
(* receive thread has recorded it.                                         *)
NtpClient ==
    /\ ntp_client.is_initialized => ntp_enabled \/ cpc = "ntp_destroy"
    /\ cpc = "ntp_init" => ntp_enabled
    /\ tpc = "sync" => last_ntp_sync_time = 1

(* The inductive invariant. *)
IInv ==
    /\ TypeOK
    /\ Places
    /\ Connection
    /\ SettingsInEffect
    /\ Device
    /\ NtpClient
    /\ SyncedIsRefreshed

-----------------------------------------------------------------------------
(* The safety behind ControlReturns: how far a callback is from its end.   *)

(* The most steps the control thread has left after it came to a place. *)
StepsFrom(place) ==
    CASE place \in {"idle", "destroyed"} -> 0
      [] place \in {"restart", "free"}   -> 1
      [] place = "set_codec"             -> 2
      [] place = "create"                -> 4
      [] place = "codec"                 -> 4
      [] place = "set_hw"                -> 5
      [] place = "hw_stop"               -> 7
      [] place = "hw"                    -> 8
      [] place = "ntp_destroy"           -> 9
      [] place = "ntp_init"              -> 11
      [] place = "ntp"                   -> 12
      [] OTHER                           -> 13   \* set_url

(* A join, or an exchange and its record, comes before the place it        *)
(* returns to.                                                             *)
CallbackSteps == IF cpc = "sync" THEN StepsFrom(ret) + 2
                 ELSE IF cpc \in {"join", "record"} THEN StepsFrom(ret) + 1
                 ELSE StepsFrom(cpc)

(* The most steps a thread told to stop has left. *)
ThreadSteps ==
    CASE tpc \in {"off", "done"}   -> 0
      [] tpc = "exit"              -> 1
      [] tpc = "top"               -> 2
      [] tpc \in {"sync", "sleep"} -> 3
      [] tpc = "read"              -> 4
      [] tpc = "decoder"           -> 5
      [] tpc = "device"            -> 6
      [] OTHER                     -> 7   \* connect

(* A join waits for a thread that is there, and no callback goes back:     *)
(* each step of the control thread brings it nearer to its end, no step of *)
(* the receive thread takes it further off, and while the control thread   *)
(* joins, each step of the receive thread brings that one nearer to its    *)
(* return.  A callback is over after fourteen steps of its own, and each   *)
(* join after seven of the thread, provided that those steps are taken.    *)
JoinHasThread ==
    /\ CallbackSteps \in 0 .. 14 /\ ThreadSteps \in 0 .. 7
    /\ cpc = "join" => tpc # "off"

CallbackAdvances ==
    [][/\ ControlStep => CallbackSteps' < CallbackSteps
       /\ ThreadStep => CallbackSteps' = CallbackSteps
       /\ ThreadStep /\ cpc = "join" => ThreadSteps' < ThreadSteps]_vars
=============================================================================
