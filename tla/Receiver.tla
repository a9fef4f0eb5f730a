------------------------------ MODULE Receiver ------------------------------
(***************************************************************************)
(* The SEI receiver source (src/src/sei-receiver-source.c): one OBS        *)
(* control thread runs create, update and destroy; one background thread   *)
(* (srt_receive_thread) connects, reads, decodes and synchronises the NTP  *)
(* client.  The two share the fields of sei_receiver_source_t and meet     *)
(* only in stop_receiver, which clears thread_active and joins.            *)
(*                                                                         *)
(* A step is what runs between two points where the other thread can       *)
(* interfere: a blocking call (join, connect, read, NTP exchange, sleep)   *)
(* or the next access to a field both threads use.  OBS calls the          *)
(* callbacks of one source one at a time, so there is one control thread.  *)
(***************************************************************************)
EXTENDS Naturals

CONSTANTS
    Urls,       \* SRT addresses a user may configure
    Codecs,     \* codecs a stream may carry and a user may select
    HwTypes,    \* hardware decoder types: qsv, nvdec, amf
    Threshold,  \* decode_error_threshold
    MaxErrors,  \* cap on decode_error_count, which the code lets grow
    AutoCodec,  \* codec_format "auto"
    NoHw,       \* hw_decoder_type "none"
    NULL        \* a null pointer

ASSUME ConstantsAssumption ==
    /\ Threshold \in Nat \ {0}
    /\ MaxErrors \in Nat
    /\ MaxErrors >= Threshold
    /\ AutoCodec \notin Codecs
    /\ NoHw \notin HwTypes
    /\ NULL \notin Urls \cup HwTypes

VARIABLES
    \* the control thread
    cpc,                  \* where the callback in progress stands
    ret,                  \* where it goes after the join or NTP exchange
    req,                  \* the settings passed to update, NULL outside it
    settings_changed,     \* its local flag
    \* settings held in the context
    srt_url, codec_format, hw_decoder_type, hw_decode_enabled, ntp_enabled,
    \* the receive thread
    thread_active, tpc,
    fmt_ctx,              \* try_connect's local input, not yet published
    \* the connection
    is_connected, format_context, codec_context,
    audio_codec_context, sws_ctx,    \* TRUE when allocated
    hw_device_ctx,
    decode_error_count,
    \* the NTP client, shared by both threads
    ntp_client, last_ntp_sync_time   \* 0 until a sync is recorded, then 1

ctlVars  == <<cpc, ret, req, settings_changed>>
cfgVars  == <<srt_url, codec_format, hw_decoder_type>>
connVars == <<is_connected, format_context, codec_context,
              audio_codec_context, sws_ctx>>
ntpVars  == <<ntp_client, last_ntp_sync_time>>
hwVars   == <<hw_decode_enabled, hw_device_ctx>>

(* What only the control thread writes, and what only the receive thread   *)
(* writes before the context is freed.                                     *)
controlVars == <<ctlVars, cfgVars, ntp_enabled, thread_active>>
receiveVars == <<fmt_ctx, connVars, decode_error_count>>

vars == <<controlVars, tpc, receiveVars, hwVars, ntpVars>>

-----------------------------------------------------------------------------

(* The settings OBS passes to update. *)
Settings == [url : Urls, codec : Codecs \cup {AutoCodec},
             hw : HwTypes \cup {NoHw}, ntp : BOOLEAN]

(* An opened input: the address it was opened on and its video codec. *)
Inputs == [url : Urls, codec : Codecs]

(* A video decoder: what it decodes and the device it holds, if any. *)
Decoders == [codec : Codecs, device : HwTypes \cup {NULL}]

NtpClients == [is_initialized : BOOLEAN, is_synced : BOOLEAN]

(* ntp_client_destroy, and a context fresh from bzalloc: all zero. *)
ZeroClient == [is_initialized |-> FALSE, is_synced |-> FALSE]

(* ntp_client_init: the structure is zeroed, then marked initialized. *)
InitClient == [is_initialized |-> TRUE, is_synced |-> FALSE]

(* Faulty: the automatic setting is not told from a manual choice. *)
SelectedCodecNoAuto(input) == codec_format

(* ntp_client_sync, its exchange over (module NtpClient): the client, as   *)
(* it is now, gets the offset and is synchronised.                         *)
Answered(client) == [client EXCEPT !.is_synced = TRUE]

(* The codec try_connect decodes with: a manual choice comes first. *)
SelectedCodec(input) == IF codec_format = AutoCodec THEN input.codec
                                               ELSE codec_format

(* Faulty: a device left in the context is taken though hardware decoding  *)
(* is off.                                                                 *)
LeftoverDevice == hw_device_ctx

(* The device a decoder being configured takes a reference to. *)
AttachedDevice == IF hw_decode_enabled THEN hw_device_ctx ELSE NULL

(* The context as receiver_source_create has filled it from the settings,  *)
(* just before it initialises the NTP client.                              *)
Init ==
    /\ cpc = "create" /\ ret = "idle" /\ settings_changed = FALSE
    /\ req = NULL
    /\ srt_url \in Urls
    /\ codec_format \in Codecs \cup {AutoCodec}
    /\ hw_decoder_type \in HwTypes \cup {NoHw}
    /\ hw_decode_enabled = (hw_decoder_type # NoHw)
    /\ ntp_enabled \in BOOLEAN
    /\ thread_active = FALSE /\ tpc = "off" /\ fmt_ctx = NULL
    /\ is_connected = FALSE /\ format_context = NULL /\ codec_context = NULL
    /\ audio_codec_context = FALSE /\ sws_ctx = FALSE
    /\ hw_device_ctx = NULL
    /\ decode_error_count = 0
    /\ ntp_client = ZeroClient /\ last_ntp_sync_time = 0

-----------------------------------------------------------------------------
(* The control thread.                                                     *)

(* Faulty: the thread is told to stop and not waited for. *)
StopWithoutJoin(then) ==
    /\ cpc' = then
    /\ thread_active' = FALSE
    /\ UNCHANGED ret

(* stop_receiver: nothing when the flag is down, else lower it and join;   *)
(* `then` is where the caller continues.                                   *)
StopReceiver(then) ==
    IF thread_active
      THEN thread_active' = FALSE /\ cpc' = "join" /\ ret' = then
      ELSE cpc' = then /\ UNCHANGED <<thread_active, ret>>

(* start_receiver: nothing when the flag is up, else create the thread. *)
StartReceiver ==
    IF thread_active
      THEN UNCHANGED <<thread_active, tpc>>
      ELSE thread_active' = TRUE /\ tpc' = "top"

(* Faulty: the join does not wait. *)
JoinDoesNotWait == TRUE

(* pthread_join returns once the thread function has returned. *)
ThreadReturned == tpc = "done"

Join ==
    /\ cpc = "join"
    /\ ThreadReturned
    /\ tpc' = "off"
    /\ cpc' = ret /\ ret' = "idle"
    /\ UNCHANGED <<receiveVars, req, settings_changed, cfgVars,
                   ntp_enabled, thread_active, hwVars, ntpVars>>

(* create and update initialise the client: when ntp_client_init succeeds, *)
(* the first exchange begins and returns to `then`; when it fails (Windows *)
(* without sockets), the structure stays zeroed, nothing is exchanged, and *)
(* ntp_enabled is left as it was set.                                      *)
InitNtp(ok, then) ==
    /\ ntp_client' = IF ok THEN InitClient ELSE ZeroClient
    /\ IF ok THEN cpc' = "sync" /\ ret' = then
             ELSE cpc' = then /\ UNCHANGED ret

Create(ok) ==
    /\ cpc = "create"
    /\ IF ntp_enabled
         THEN InitNtp(ok, "restart")
         ELSE cpc' = "restart" /\ UNCHANGED <<ntp_client, ret>>
    /\ UNCHANGED <<receiveVars, req, settings_changed, cfgVars, ntp_enabled,
                   thread_active, tpc, hwVars, last_ntp_sync_time>>

(* Faulty: a successful exchange is not recorded. *)
ControlSyncedUnrecorded(ok) ==
    /\ cpc = "sync"
    /\ cpc' = ret /\ ret' = "idle"
    /\ ntp_client' = [ntp_client EXCEPT !.is_synced = ok \/ @]
    /\ UNCHANGED <<receiveVars, req, settings_changed, cfgVars, ntp_enabled,
                   thread_active, tpc, hwVars, last_ntp_sync_time>>

(* The control thread's ntp_client_sync returns. *)
ControlSynced(ok) ==
    /\ cpc = "sync"
    /\ IF ok THEN /\ ntp_client' = Answered(ntp_client)
                  /\ cpc' = "record" /\ UNCHANGED ret
             ELSE /\ UNCHANGED ntp_client
                  /\ cpc' = ret /\ ret' = "idle"
    /\ UNCHANGED <<receiveVars, req, settings_changed, cfgVars, ntp_enabled,
                   thread_active, tpc, hwVars, last_ntp_sync_time>>

(* create and update record the time of a successful exchange only, after  *)
(* the client has become synchronised.                                     *)
RecordSync ==
    /\ cpc = "record"
    /\ last_ntp_sync_time' = 1
    /\ cpc' = ret /\ ret' = "idle"
    /\ UNCHANGED <<receiveVars, req, settings_changed, cfgVars, ntp_enabled,
                   thread_active, tpc, hwVars, ntp_client>>

(* update, address: a new address stops the receiver first. *)
Update(r) ==
    /\ cpc = "idle"
    /\ req' = r
    /\ settings_changed' = FALSE
    /\ IF r.url # srt_url
         THEN StopReceiver("set_url")
         ELSE cpc' = "ntp" /\ UNCHANGED <<thread_active, ret>>
    /\ UNCHANGED <<receiveVars, cfgVars, ntp_enabled, tpc, hwVars, ntpVars>>

SetUrl ==
    /\ cpc = "set_url"
    /\ srt_url' = req.url
    /\ settings_changed' = TRUE
    /\ cpc' = "ntp"
    /\ UNCHANGED <<receiveVars, ret, req, codec_format, hw_decoder_type,
                   ntp_enabled, thread_active, tpc, hwVars, ntpVars>>

(* update, NTP: the flag is switched first, with the thread running. *)
SwitchNtp ==
    /\ cpc = "ntp"
    /\ ntp_enabled' = req.ntp
    /\ cpc' = IF req.ntp = ntp_enabled THEN "hw"
              ELSE IF req.ntp THEN "ntp_init" ELSE "ntp_destroy"
    /\ UNCHANGED <<receiveVars, ret, req, settings_changed, cfgVars,
                   thread_active, tpc, hwVars, ntpVars>>

EnableNtp(ok) ==
    /\ cpc = "ntp_init"
    /\ InitNtp(ok, "hw")
    /\ UNCHANGED <<receiveVars, req, settings_changed, cfgVars, ntp_enabled,
                   thread_active, tpc, hwVars, last_ntp_sync_time>>

(* Faulty: NTP is disabled and the client left as it is. *)
DisableNtpFlagOnly ==
    /\ cpc = "ntp_destroy"
    /\ cpc' = "hw"
    /\ UNCHANGED <<receiveVars, ret, req, settings_changed, cfgVars,
                   ntp_enabled, thread_active, tpc, hwVars, ntpVars>>

DisableNtp ==
    /\ cpc = "ntp_destroy"
    /\ ntp_client' = ZeroClient
    /\ cpc' = "hw"
    /\ UNCHANGED <<receiveVars, ret, req, settings_changed, cfgVars,
                   ntp_enabled, thread_active, tpc, hwVars, last_ntp_sync_time>>

(* update, hardware: the device is released while the thread still runs,   *)
(* then the receiver is stopped.                                           *)
ReleaseHw ==
    /\ cpc = "hw"
    /\ IF req.hw # hw_decoder_type
         THEN hw_device_ctx' = NULL /\ cpc' = "hw_stop"
         ELSE cpc' = "codec" /\ UNCHANGED hw_device_ctx
    /\ UNCHANGED <<receiveVars, ret, req, settings_changed, cfgVars,
                   ntp_enabled, thread_active, tpc, hw_decode_enabled, ntpVars>>

StopForHw ==
    /\ cpc = "hw_stop"
    /\ StopReceiver("set_hw")
    /\ UNCHANGED <<receiveVars, req, settings_changed, cfgVars, ntp_enabled,
                   tpc, hwVars, ntpVars>>

SetHw ==
    /\ cpc = "set_hw"
    /\ hw_decoder_type' = req.hw
    /\ hw_decode_enabled' = (req.hw # NoHw)
    /\ settings_changed' = TRUE
    /\ cpc' = "codec"
    /\ UNCHANGED <<receiveVars, ret, req, srt_url, codec_format, ntp_enabled,
                   thread_active, tpc, hw_device_ctx, ntpVars>>

(* Faulty: the codec is changed under a running receiver. *)
CodecWithoutStop ==
    /\ cpc = "codec"
    /\ cpc' = IF req.codec # codec_format THEN "set_codec" ELSE "restart"
    /\ UNCHANGED <<receiveVars, ret, req, settings_changed, cfgVars,
                   ntp_enabled, thread_active, tpc, hwVars, ntpVars>>

(* update, codec. *)
StopForCodec ==
    /\ cpc = "codec"
    /\ IF req.codec # codec_format
         THEN StopReceiver("set_codec")
         ELSE cpc' = "restart" /\ UNCHANGED <<thread_active, ret>>
    /\ UNCHANGED <<receiveVars, req, settings_changed, cfgVars, ntp_enabled,
                   tpc, hwVars, ntpVars>>

SetCodec ==
    /\ cpc = "set_codec"
    /\ codec_format' = req.codec
    /\ settings_changed' = TRUE
    /\ cpc' = "restart"
    /\ UNCHANGED <<receiveVars, ret, req, srt_url, hw_decoder_type,
                   ntp_enabled, thread_active, tpc, hwVars, ntpVars>>

(* The end of create and of update: the thread is started when a setting   *)
(* stopped it, or when there is no connection.  The callback returns and   *)
(* its local variables are gone.                                           *)
Restart ==
    /\ cpc = "restart"
    /\ IF settings_changed \/ ~is_connected
         THEN StartReceiver
         ELSE UNCHANGED <<thread_active, tpc>>
    /\ cpc' = "idle"
    /\ req' = NULL /\ settings_changed' = FALSE
    /\ UNCHANGED <<receiveVars, ret, cfgVars, ntp_enabled, hwVars, ntpVars>>

Destroy ==
    /\ cpc = "idle"
    /\ StopReceiver("free")
    /\ UNCHANGED <<receiveVars, req, settings_changed, cfgVars, ntp_enabled,
                   tpc, hwVars, ntpVars>>

(* destroy after the join: decoders, scaler and client; not the device. *)
Free ==
    /\ cpc = "free"
    /\ codec_context' = NULL
    /\ audio_codec_context' = FALSE
    /\ sws_ctx' = FALSE
    /\ ntp_client' = ZeroClient
    /\ cpc' = "destroyed"
    /\ UNCHANGED <<ret, req, settings_changed, cfgVars, ntp_enabled,
                   thread_active, tpc, fmt_ctx, is_connected,
                   format_context, hwVars, decode_error_count,
                   last_ntp_sync_time>>

-----------------------------------------------------------------------------
(* The receive thread.                                                     *)

(* Faulty: the scaler is forgotten. *)
CleanupKeepsScaler ==
    /\ format_context' = NULL
    /\ codec_context' = NULL
    /\ audio_codec_context' = FALSE
    /\ is_connected' = FALSE
    /\ UNCHANGED sws_ctx

(* Faulty: the connection still counts as one. *)
CleanupKeepsFlag ==
    /\ format_context' = NULL
    /\ codec_context' = NULL
    /\ sws_ctx' = FALSE
    /\ audio_codec_context' = FALSE
    /\ UNCHANGED is_connected

(* cleanup_connection. *)
CleanupConnection ==
    /\ format_context' = NULL
    /\ codec_context' = NULL
    /\ sws_ctx' = FALSE
    /\ audio_codec_context' = FALSE
    /\ is_connected' = FALSE

(* Faulty: a connected thread does not look at the flag. *)
LoopWhileConnected ==
    /\ tpc = "top"
    /\ tpc' = IF is_connected /\ format_context # NULL THEN "read"
              ELSE IF thread_active THEN "connect" ELSE "exit"
    /\ UNCHANGED <<controlVars, fmt_ctx, connVars, hwVars, decode_error_count,
                   ntpVars>>

(* The loop condition, then the branch on is_connected. *)
LoopTop ==
    /\ tpc = "top"
    /\ tpc' = IF ~thread_active THEN "exit"
              ELSE IF ~is_connected THEN "connect"
              ELSE IF format_context # NULL THEN "read" ELSE "top"
    /\ UNCHANGED <<controlVars, fmt_ctx, connVars, hwVars, decode_error_count,
                   ntpVars>>

(* try_connect, opening: the input is opened and holds a video stream. *)
OpenInput(codec) ==
    /\ tpc = "connect"
    /\ fmt_ctx' = [url |-> srt_url, codec |-> codec]
    /\ tpc' = "device"
    /\ UNCHANGED <<controlVars, connVars, hwVars, decode_error_count,
                   ntpVars>>

(* try_connect returns false: nothing opened is kept. *)
ConnectFails ==
    /\ tpc \in {"connect", "decoder"}
    /\ fmt_ctx' = NULL
    /\ tpc' = "sleep"
    /\ UNCHANGED <<controlVars, connVars, hwVars, decode_error_count,
                   ntpVars>>

(* The two second pause between attempts ends. *)
Wake ==
    /\ tpc = "sleep"
    /\ tpc' = "top"
    /\ UNCHANGED <<controlVars, fmt_ctx, connVars, hwVars, decode_error_count,
                   ntpVars>>

(* init_hw_device: a device replaces the one of the last connection; when  *)
(* none can be created, hardware decoding is switched off.                 *)
InitHwDevice(ok) ==
    /\ tpc = "device"
    /\ tpc' = "decoder"
    /\ IF ~hw_decode_enabled THEN UNCHANGED hwVars
       ELSE IF ok THEN /\ hw_device_ctx' = hw_decoder_type
                       /\ UNCHANGED hw_decode_enabled
       ELSE /\ hw_decode_enabled' = FALSE
            /\ UNCHANGED hw_device_ctx
    /\ UNCHANGED <<controlVars, fmt_ctx, connVars, decode_error_count,
                   ntpVars>>

(* try_connect, decoders: on success the connection is published and the   *)
(* loop goes on to read from it.  Audio is optional.                       *)
OpenDecoder(audio) ==
    /\ tpc = "decoder"
    /\ format_context' = fmt_ctx
    /\ codec_context' = [codec |-> SelectedCodec(fmt_ctx),
                         device |-> AttachedDevice]
    /\ audio_codec_context' = audio
    /\ is_connected' = TRUE
    /\ fmt_ctx' = NULL
    /\ tpc' = "read"
    /\ UNCHANGED <<controlVars, sws_ctx, hwVars, decode_error_count, ntpVars>>

(* av_read_frame fails: the connection is dropped, the loop will retry. *)
ReadFails ==
    /\ tpc = "read"
    /\ CleanupConnection
    /\ tpc' = "top"
    /\ UNCHANGED <<controlVars, fmt_ctx, hwVars, decode_error_count, ntpVars>>

(* A packet that changes no state: audio, an unknown stream, a video       *)
(* packet with no decoder open, refused by the decoder, or one the decoder *)
(* needs more input for.                                                   *)
SkipPacket ==
    /\ tpc = "read"
    /\ tpc' = "top"
    /\ UNCHANGED <<controlVars, fmt_ctx, connVars, hwVars, decode_error_count,
                   ntpVars>>

(* reset_decoder: the decoder is closed and one for the stream's own codec *)
(* is opened in its place; the count restarts only when that succeeds.     *)
ResetDecoder(errors, ok) ==
    IF ok
      THEN /\ codec_context' = [codec |-> format_context.codec,
                                device |-> AttachedDevice]
           /\ decode_error_count' = 0
      ELSE /\ codec_context' = NULL
           /\ decode_error_count' = errors

ThresholdReached(errors) == errors >= Threshold

(* avcodec_receive_frame fails: the error is counted. *)
DecodeFails(ok) ==
    /\ tpc = "read"
    /\ codec_context # NULL
    /\ decode_error_count < MaxErrors
    /\ LET errors == decode_error_count + 1
       IN  IF ThresholdReached(errors)
             THEN ResetDecoder(errors, ok)
             ELSE decode_error_count' = errors /\ UNCHANGED codec_context
    /\ tpc' = "top"
    /\ UNCHANGED <<controlVars, fmt_ctx, is_connected, format_context,
                   audio_codec_context, sws_ctx, hwVars, ntpVars>>

(* Faulty: both triggers need a synchronised clock. *)
SyncDueOnlyWhenSynced(keyframe, elapsed, drifted) ==
    /\ last_ntp_sync_time # 0
    /\ elapsed
    /\ ntp_client.is_synced
    /\ keyframe \/ drifted

(* The smart sync policy: both triggers are under the minimum interval,    *)
(* which never counts as elapsed before a first sync was recorded.         *)
SyncDue(keyframe, elapsed, drifted) ==
    /\ last_ntp_sync_time # 0
    /\ elapsed
    /\ keyframe \/ (ntp_client.is_synced /\ drifted)

(* A frame was decoded, but not scaled or (from the hardware) not copied:  *)
(* a scaler that could not be rebuilt is gone, another one is untouched.   *)
DropFrame(rescaled) ==
    /\ tpc = "read"
    /\ codec_context # NULL
    /\ decode_error_count' = 0
    /\ sws_ctx' = (sws_ctx /\ ~rescaled)
    /\ tpc' = "top"
    /\ UNCHANGED <<controlVars, fmt_ctx, is_connected, format_context,
                   codec_context, audio_codec_context, hwVars, ntpVars>>

(* A frame was decoded and converted; with an NTP SEI it may start an NTP  *)
(* exchange, whose time is recorded before it begins.  Otherwise the frame *)
(* goes to OBS.                                                            *)
DecodeFrame(sei, keyframe, elapsed, drifted) ==
    /\ tpc = "read"
    /\ codec_context # NULL
    /\ decode_error_count' = 0
    /\ sws_ctx' = TRUE
    /\ IF sei /\ ntp_enabled /\ SyncDue(keyframe, elapsed, drifted)
         THEN /\ last_ntp_sync_time' = 1
              /\ tpc' = IF ntp_client.is_initialized THEN "sync" ELSE "top"
         ELSE tpc' = "top" /\ UNCHANGED last_ntp_sync_time
    /\ UNCHANGED <<controlVars, fmt_ctx, is_connected, format_context,
                   codec_context, audio_codec_context, hwVars, ntp_client>>

(* The receive thread's ntp_client_sync returns: its result goes into the  *)
(* client as it is now, whatever the control thread did to it meanwhile.   *)
ThreadSynced(ok) ==
    /\ tpc = "sync"
    /\ ntp_client' = IF ok THEN Answered(ntp_client) ELSE ntp_client
    /\ tpc' = "top"
    /\ UNCHANGED <<controlVars, fmt_ctx, connVars, hwVars, decode_error_count,
                   last_ntp_sync_time>>

(* The thread leaves its loop, drops the connection and returns. *)
ThreadExit ==
    /\ tpc = "exit"
    /\ CleanupConnection
    /\ tpc' = "done"
    /\ UNCHANGED <<controlVars, fmt_ctx, hwVars, decode_error_count, ntpVars>>

-----------------------------------------------------------------------------

(* The callback in progress goes on; a new one begins only from "idle". *)
ControlStep ==
    \/ Join \/ RecordSync \/ SetUrl \/ SwitchNtp \/ DisableNtp
    \/ ReleaseHw \/ StopForHw \/ SetHw \/ StopForCodec \/ SetCodec
    \/ Restart \/ Free
    \/ \E ok \in BOOLEAN : \/ Create(ok) \/ EnableNtp(ok)
                           \/ ControlSynced(ok)

ThreadStep ==
    \/ LoopTop \/ ConnectFails \/ Wake \/ ReadFails \/ SkipPacket
    \/ ThreadExit
    \/ \E codec \in Codecs : OpenInput(codec)
    \/ \E ok \in BOOLEAN : \/ InitHwDevice(ok) \/ OpenDecoder(ok)
                           \/ DecodeFails(ok) \/ DropFrame(ok)
                           \/ ThreadSynced(ok)
    \/ \E sei, keyframe, elapsed, drifted \in BOOLEAN :
           DecodeFrame(sei, keyframe, elapsed, drifted)

(* After destroy the context is gone and nothing happens to it. *)
Destroyed == cpc = "destroyed" /\ UNCHANGED vars

Next ==
    \/ ControlStep
    \/ ThreadStep
    \/ \E r \in Settings : Update(r)
    \/ Destroy
    \/ Destroyed

Spec == Init /\ [][Next]_vars

-----------------------------------------------------------------------------
(* A definition marked Faulty above stands for a plausible mistake in the  *)
(* code it precedes; Next uses none of them.                               *)
(*                                                                         *)
(* Fairness.  Every blocking call of the code returns: av_read_frame and   *)
(* the connect carry a timeout, the NTP exchange a five second one, the    *)
(* pause ends, and both threads are scheduled.  Nothing obliges OBS to     *)
(* call update or destroy.  The strong conditions are the environment's: a *)
(* sender that is reachable again and again is reached in the end, and a   *)
(* stream with stamped keyframes keeps delivering them, spaced beyond the  *)
(* sync interval, to an NTP server that answers again and again.           *)
Fairness ==
    /\ WF_vars(ControlStep)
    /\ WF_vars(ThreadStep)
    /\ SF_vars(\E codec \in Codecs : OpenInput(codec))
    /\ SF_vars(\E audio \in BOOLEAN : OpenDecoder(audio))
    /\ SF_vars(\E drifted \in BOOLEAN :
                  DecodeFrame(TRUE, TRUE, TRUE, drifted))
    /\ SF_vars(ThreadSynced(TRUE))

FairSpec == Spec /\ Fairness

-----------------------------------------------------------------------------
(* Properties.                                                             *)

ControlTypeOK ==
    /\ cpc \in {"create", "idle", "join", "sync", "record", "set_url",
                "ntp", "ntp_init", "ntp_destroy", "hw", "hw_stop", "set_hw",
                "codec", "set_codec", "restart", "free", "destroyed"}
    /\ ret \in {"idle", "set_url", "set_hw", "set_codec", "hw", "restart",
                "free"}
    /\ req \in Settings \cup {NULL}
    /\ settings_changed \in BOOLEAN
    /\ srt_url \in Urls
    /\ codec_format \in Codecs \cup {AutoCodec}
    /\ hw_decoder_type \in HwTypes \cup {NoHw}
    /\ ntp_enabled \in BOOLEAN
    /\ thread_active \in BOOLEAN

ReceiveTypeOK ==
    /\ fmt_ctx \in Inputs \cup {NULL}
    /\ is_connected \in BOOLEAN
    /\ format_context \in Inputs \cup {NULL}
    /\ codec_context \in Decoders \cup {NULL}
    /\ audio_codec_context \in BOOLEAN
    /\ sws_ctx \in BOOLEAN
    /\ decode_error_count \in 0 .. MaxErrors

SharedTypeOK ==
    /\ tpc \in {"off", "top", "connect", "sleep", "device", "decoder",
                "read", "sync", "exit", "done"}
    /\ hw_decode_enabled \in BOOLEAN
    /\ hw_device_ctx \in HwTypes \cup {NULL}
    /\ ntp_client \in NtpClients
    /\ last_ntp_sync_time \in {0, 1}

(* The values the fields of the context, and the places the threads, take. *)
TypeOK == ControlTypeOK /\ ReceiveTypeOK /\ SharedTypeOK

(* What stop_receiver's callers rely on: once the thread has returned,     *)
(* nothing of its connection is left open, whatever it was doing when the  *)
(* flag was lowered.                                                       *)
JoinedMeansClean ==
    tpc \in {"off", "done"} =>
        /\ fmt_ctx = NULL
        /\ ~is_connected
        /\ format_context = NULL
        /\ codec_context = NULL
        /\ ~audio_codec_context
        /\ ~sws_ctx

(* thread_active, which start_receiver and stop_receiver trust, is right   *)
(* about the thread: when it is up a thread runs (else start_receiver      *)
(* would refuse to make one for ever), when it is down and nobody is       *)
(* joining there is none (else a second one could be made beside it), and  *)
(* between callbacks the receiver is always running.                       *)
FlagMatchesThread ==
    /\ thread_active => tpc \notin {"off", "done"}
    /\ ~thread_active /\ cpc # "join" => tpc = "off"
    /\ cpc = "idle" => thread_active

(* No connection outlives the settings it was made with: its address is    *)
(* the configured one, and its decoder runs on the configured hardware or  *)
(* on none, though the device of another type may still be in the context. *)
SettingsInEffect ==
    /\ fmt_ctx # NULL => fmt_ctx.url = srt_url
    /\ format_context # NULL => format_context.url = srt_url
    /\ codec_context # NULL => codec_context.device \in {NULL, hw_decoder_type}

(* Between callbacks there is a usable client only while NTP is enabled:   *)
(* whatever order the switches and the exchanges of the two threads come   *)
(* in, switching NTP off leaves none.  The converse is not so: after an    *)
(* ntp_client_init that failed, ntp_enabled stays set without a client.    *)
NoClientWhenOff ==
    cpc = "idle" /\ ntp_client.is_initialized => ntp_enabled

(* A client that reports a synchronised clock has a sync time on record,   *)
(* or the control thread is about to record it: the policy counts the      *)
(* interval from it, and without one it would never refresh the clock it   *)
(* keeps using.                                                            *)
SyncedIsRefreshed ==
    ntp_client.is_synced => last_ntp_sync_time # 0 \/ cpc = "record"

(* The setting strings, which the thread reads without a lock, are only    *)
(* written while no thread runs.                                           *)
ConfigOnlyWhileStopped == [][tpc = "off"]_cfgVars

(* The receiver as its user sees it: sessions opened on the configured     *)
(* address while it runs, closed before it stops or is configured anew.    *)
SessionView == INSTANCE Session
    WITH url     <- srt_url,
         running <- tpc # "off",
         session <- IF format_context = NULL THEN NULL ELSE format_context.url

SessionSpec == SessionView!Spec

(* Every callback returns: update and destroy, which join the thread and   *)
(* exchange NTP packets on OBS's own thread, never hang it.                *)
ControlReturns == cpc # "idle" ~> cpc \in {"idle", "destroyed"}

(* Auto-reconnect: a running receiver that lost, or never had, its         *)
(* connection gets one with a decoder, unless it is stopped first.         *)
Reconnects ==
    thread_active /\ format_context = NULL
    ~> codec_context # NULL \/ ~thread_active

(* A failed reset leaves a connection with no decoder, which only the next *)
(* read error ends.                                                        *)
DecoderLost == is_connected /\ codec_context = NULL

(* After a first recorded sync, a receiver whose NTP was switched off and  *)
(* on again recovers from a failed exchange by itself: the policy retries  *)
(* until the clock is synchronised, unless a callback intervenes or the    *)
(* decoder is lost.  A client whose ntp_client_init failed is not retried: *)
(* only switching NTP off and on again initialises it.                     *)
SyncRetried ==
    /\ cpc = "idle"
    /\ ntp_enabled
    /\ ntp_client.is_initialized
    /\ last_ntp_sync_time # 0
    ~> ntp_client.is_synced \/ cpc # "idle" \/ DecoderLost

=============================================================================
