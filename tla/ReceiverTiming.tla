---------------------------- MODULE ReceiverTiming ----------------------------
(***************************************************************************)
(* When the receiver source has its frames shown                           *)
(* (sei-receiver-source.c:402-757): which stamp a decoded frame is given,  *)
(* when the receive thread asks the NTP server for the time again, and the *)
(* timestamps its video and audio frames go to OBS with.                   *)
(*                                                                         *)
(* now is the Unix time on the NTP server, and Local the receiver's own    *)
(* os_gettime_ns.  Two threads share the client and ntp_enabled: the       *)
(* receive thread, at rpc, and the one OBS calls update on, at cpc.  An    *)
(* exchange is NtpClient's, seen from outside: what is left of it is the   *)
(* offset it sets, and whether an answer was behind it.                    *)
(***************************************************************************)
EXTENDS Integers

CONSTANTS
    Frames,       \* the frames of the stream, 1 .. n, in the order sent
    Pts,          \* their presentation times, in ticks of the stream
    Stamp,        \* the Unix time each was stamped at
    Sei,          \* their first unregistered message: "ours", and parsed,
                  \* "other", or "none"
    Second,       \* 1000000000: the nanoseconds in a second
    SampleRate,   \* samples in a second of the audio
    TimeBases,    \* the time bases the audio decoder may be left with
    Word,         \* 2^64: the values of the times recorded
    Delta,        \* NTP_TIMESTAMP_DELTA, in nanoseconds
    Theta,        \* the server's Unix time minus the local time
    MaxError,     \* how far an answered exchange is off (OffsetAccurate)
    Interval,     \* min_interval_ns
    Start, End,   \* bounds on now
    NULL

ASSUME ConstantsAssumption ==
    /\ Frames \subseteq Nat \ {0}
    /\ Pts \in [Frames -> Nat]
    /\ Stamp \in [Frames -> Nat]
    /\ Sei \in [Frames -> {"ours", "other", "none"}]
    /\ {Second, Word, Delta, Theta, MaxError, Interval, Start, End}
          \subseteq Nat
    /\ SampleRate \in Nat \ {0}
    /\ TimeBases \subseteq [num : Nat, den : Nat]
    /\ Interval # 0
    /\ Theta < Start
    /\ NULL \notin Frames

VARIABLES
    now,
    ntp_enabled,
    client,               \* the ntp_client_t
    last_ntp_sync_time,   \* 0 until a sync is recorded
    cpc,                  \* the place of update
    stored,               \* the time update is about to record
    rpc,                  \* the place of the receive thread
    clock,                \* the time the thread goes by in its sync policy
    hardware,             \* the decoder's frames are hardware frames
    next,                 \* the next packet of the stream
    decoder,              \* the frames the decoder keeps
    frame,                \* the frame in hand, and the one whose stamp it has
    pts_offset, has_pts_offset,
    shown,                \* the last video frame OBS was given
    audio,                \* the audio of its time, if any was given
    joined,               \* history: the first packet of the connection
    exchanged,            \* history: the time of the thread's last exchange
    updated               \* history: update has recorded a time since then

ntpVars == <<ntp_enabled, client, cpc, stored>>
syncVars == <<last_ntp_sync_time, clock, exchanged, updated>>
streamVars == <<hardware, next, decoder, joined>>
ptsVars == <<pts_offset, has_pts_offset>>
vars == <<now, ntpVars, syncVars, rpc, streamVars, frame, ptsVars, shown,
          audio>>

-----------------------------------------------------------------------------

(* os_gettime_ns. *)
Local == now - Theta

(* A client all zero; heard is history: the offset comes from an answer. *)
ZeroClient == [is_initialized |-> FALSE, is_synced |-> FALSE,
               time_offset_ns |-> 0, heard |-> FALSE]

InitialClient == [ZeroClient EXCEPT !.is_initialized = TRUE]

(* The / of C on a signed number: towards zero. *)
Half(n) == IF n >= 0 THEN n \div 2 ELSE -((-n) \div 2)

(* Client c after an exchange: answered, with some error; or over without  *)
(* an answer, yet taken for one (the packet still holds zero for T2 and    *)
(* the client's own T1 for T3).                                            *)
Answered(c, error) == [c EXCEPT !.is_synced = TRUE, !.heard = TRUE,
                                !.time_offset_ns = Theta + error]

Unanswered(c) == [c EXCEPT !.is_synced = TRUE, !.heard = FALSE,
                           !.time_offset_ns = Half(-Local)]

Synced(c) == {Answered(c, error) : error \in -MaxError .. MaxError}
               \cup {Unanswered(c)}

NoFrame == [id |-> NULL, stamp |-> NULL]

Nothing == [id |-> NULL, stamp |-> NULL, timestamp |-> 0, heard |-> FALSE]

(* create has initialised the client, if NTP is on, and tried a sync. *)
Init ==
    /\ now = Start
    /\ ntp_enabled \in BOOLEAN
    /\ \/ client = ZeroClient
       \/ ntp_enabled /\ client \in {InitialClient} \cup Synced(InitialClient)
    /\ last_ntp_sync_time = IF client.is_synced THEN Local ELSE 0
    /\ cpc = "idle" /\ rpc = "read"
    /\ stored = 0 /\ clock = 0
    /\ hardware \in BOOLEAN
    /\ next = 1 /\ decoder = {} /\ joined = 1
    /\ frame = NoFrame
    /\ pts_offset = 0 /\ has_pts_offset = FALSE
    /\ shown = Nothing /\ audio = NULL
    /\ exchanged = 0 /\ updated = FALSE

-----------------------------------------------------------------------------
(* update switches NTP on and off under the running thread.                *)

SwitchNtp ==
    /\ cpc = "idle"
    /\ ntp_enabled' = ~ntp_enabled
    /\ cpc' = IF ntp_enabled' THEN "init" ELSE "destroy"
    /\ UNCHANGED <<now, client, stored, syncVars, rpc, streamVars, frame,
                   ptsVars, shown, audio>>

InitClient ==
    /\ cpc = "init"
    /\ \/ client' = InitialClient /\ cpc' = "sync"
       \/ client' = ZeroClient /\ cpc' = "idle"
    /\ UNCHANGED <<now, ntp_enabled, stored, syncVars, rpc, streamVars,
                   frame, ptsVars, shown, audio>>

(* The exchange of update; only a successful one is recorded. *)
ControlSynced ==
    /\ cpc = "sync"
    /\ \/ client' \in Synced(client) /\ cpc' = "clock"
       \/ UNCHANGED client /\ cpc' = "idle"
    /\ UNCHANGED <<now, ntp_enabled, stored, syncVars, rpc, streamVars,
                   frame, ptsVars, shown, audio>>

(* last_ntp_sync_time = os_gettime_ns(): the clock is read, then the field *)
(* is written, with the receive thread running in between.                 *)
ReadControlClock ==
    /\ cpc = "clock"
    /\ stored' = Local
    /\ cpc' = "record"
    /\ UNCHANGED <<now, ntp_enabled, client, syncVars, rpc, streamVars,
                   frame, ptsVars, shown, audio>>

RecordSync ==
    /\ cpc = "record"
    /\ last_ntp_sync_time' = stored
    /\ updated' = TRUE
    /\ stored' = 0
    /\ cpc' = "idle"
    /\ UNCHANGED <<now, ntp_enabled, client, rpc, clock, exchanged,
                   streamVars, frame, ptsVars, shown, audio>>

DestroyClient ==
    /\ cpc = "destroy"
    /\ client' = ZeroClient
    /\ cpc' = "idle"
    /\ UNCHANGED <<now, ntp_enabled, stored, syncVars, rpc, streamVars,
                   frame, ptsVars, shown, audio>>

-----------------------------------------------------------------------------
(* decode_and_extract_sei, up to the search for the stamp.                 *)

(* The frames in the decoder once the next packet is in. *)
Sent == decoder \cup {next}

(* Faulty: a frame with no stamp of its own keeps the last one found. *)
StampOfLast(f) == IF Sei[f] = "ours" THEN f ELSE shown.stamp

(* The frame whose stamp f is given: its own from the side data, if that   *)
(* is ours; without side data, which the copy of a hardware frame never    *)
(* has, the one in the packet just sent.                                   *)
StampOf(f) ==
    LET sei_data == IF hardware THEN "none" ELSE Sei[f]
    IN  IF sei_data = "ours" THEN f
        ELSE IF sei_data = "none" /\ Sei[next] = "ours" THEN next
        ELSE NULL

(* The packet goes to the decoder, and frame f comes back. *)
DecodeFrame(f) ==
    /\ rpc = "read" /\ next \in Frames
    /\ f \in Sent
    /\ decoder' = Sent \ {f}
    /\ next' = next + 1
    /\ frame' = [id |-> f, stamp |-> StampOf(f)]
    /\ rpc' = "policy"
    /\ UNCHANGED <<now, ntpVars, syncVars, hardware, joined, ptsVars, shown,
                   audio>>

(* No frame to show: the decoder needs more packets, or refuses this one,  *)
(* or fails and loses frames, or a frame cannot be converted.              *)
DecodeNothing(lost) ==
    /\ rpc = "read" /\ next \in Frames
    /\ lost \subseteq Sent
    /\ decoder' = Sent \ lost
    /\ next' = next + 1
    /\ UNCHANGED <<now, ntpVars, syncVars, rpc, hardware, joined, frame,
                   ptsVars, shown, audio>>

(* The connection is lost, with the frames in its decoder; the next one    *)
(* joins the stream later, and may be decoded in another way.              *)
Reconnect(f) ==
    /\ rpc = "read"
    /\ f >= next
    /\ next' = f /\ joined' = f
    /\ decoder' = {}
    /\ hardware' \in BOOLEAN
    /\ UNCHANGED <<now, ntpVars, syncVars, rpc, frame, ptsVars, shown,
                   audio>>

-----------------------------------------------------------------------------
(* The sync policy of the receive thread.                                  *)

(* The clock is read for a frame with a stamp while NTP is on ... *)
ReadClock ==
    /\ rpc = "policy"
    /\ IF frame.stamp # NULL /\ ntp_enabled
         THEN rpc' = "elapsed" /\ clock' = Local
         ELSE rpc' = "check" /\ UNCHANGED clock
    /\ UNCHANGED <<now, ntpVars, last_ntp_sync_time, exchanged, updated,
                   streamVars, frame, ptsVars, shown, audio>>

(* ... and the time on record after it, which update may have written      *)
(* meanwhile: the difference is unsigned, and a later time wraps it round. *)
SinceSync ==
    IF last_ntp_sync_time = 0 THEN 0
    ELSE IF clock < last_ntp_sync_time THEN clock - last_ntp_sync_time + Word
    ELSE clock - last_ntp_sync_time

ShouldSync(keyframe, drifted) ==
    /\ SinceSync >= Interval
    /\ keyframe \/ (client.is_synced /\ drifted)

(* The thread is off to its exchange, if the client is initialised. *)
GoToExchange ==
    /\ rpc' = IF client.is_initialized THEN "exchange" ELSE "check"
    /\ exchanged' = clock
    /\ updated' = FALSE

(* Faulty: the time is recorded only if the exchange succeeds. *)
BeginSyncUnrecorded == GoToExchange /\ UNCHANGED last_ntp_sync_time

(* Faulty: the time the next exchange is due is recorded. *)
BeginSyncAhead == GoToExchange /\ last_ntp_sync_time' = clock + Interval

(* The time is recorded first, whatever comes of the exchange: the time    *)
(* the policy went by, over a later one of update's if there is one.       *)
BeginSync == GoToExchange /\ last_ntp_sync_time' = clock

SyncPolicy(keyframe, drifted) ==
    /\ rpc = "elapsed"
    /\ IF ShouldSync(keyframe, drifted)
         THEN BeginSync
         ELSE rpc' = "check" /\ UNCHANGED <<exchanged, updated,
                                           last_ntp_sync_time>>
    /\ clock' = 0
    /\ UNCHANGED <<now, ntpVars, streamVars, frame, ptsVars, shown, audio>>

ThreadSynced ==
    /\ rpc = "exchange"
    /\ client' \in Synced(client) \cup {client}
    /\ rpc' = "check"
    /\ UNCHANGED <<now, ntp_enabled, cpc, stored, syncVars, streamVars,
                   frame, ptsVars, shown, audio>>

-----------------------------------------------------------------------------
(* calculate_display_time, get_sync_timestamp and decode_audio.            *)

(* A frame with a stamp, while NTP is on, goes by the stamp. *)
GoByStamp ==
    /\ rpc = "check"
    /\ frame.stamp # NULL /\ ntp_enabled
    /\ rpc' = "place"
    /\ UNCHANGED <<now, ntpVars, syncVars, streamVars, frame, ptsVars,
                   shown, audio>>

(* The stamp counts from 1900. *)
StampTime(f) == Stamp[f] + Delta

(* Faulty: the offset is added, not subtracted. *)
DisplayTimeAhead(f) == StampTime(f) + client.time_offset_ns

(* Faulty: frames are placed by their age when they are decoded. *)
DisplayTimeByAge(f) == Local + (now - Stamp[f])

DisplayTime(f) == StampTime(f) - client.time_offset_ns

(* Faulty: the offset is set once. *)
FirstOffset(display_time) ==
    IF has_pts_offset THEN pts_offset ELSE display_time - Pts[frame.id]

(* The offset that brings the audio to the frame: in ticks, as its PTS is. *)
NewOffset(display_time) == display_time - Pts[frame.id]

PlaceByStamp ==
    /\ rpc = "place"
    /\ LET display_time == DisplayTime(frame.stamp)
       IN  /\ shown' = [id |-> frame.id, stamp |-> frame.stamp,
                        timestamp |-> display_time, heard |-> client.heard]
           /\ pts_offset' = NewOffset(display_time)
    /\ has_pts_offset' = TRUE
    /\ audio' = NULL
    /\ frame' = NoFrame
    /\ rpc' = "read"
    /\ UNCHANGED <<now, ntpVars, syncVars, streamVars>>

(* get_sync_timestamp: the offset in force, or one that starts now. *)
PtsOffset(pts) == IF has_pts_offset THEN pts_offset ELSE Local - pts

PlaceByPts ==
    /\ rpc = "check"
    /\ ~(frame.stamp # NULL /\ ntp_enabled)
    /\ LET pts == Pts[frame.id]
       IN  /\ shown' = [id |-> frame.id, stamp |-> NULL,
                        timestamp |-> pts + PtsOffset(pts), heard |-> FALSE]
           /\ pts_offset' = PtsOffset(pts)
    /\ has_pts_offset' = TRUE
    /\ audio' = NULL
    /\ frame' = NoFrame
    /\ rpc' = "read"
    /\ UNCHANGED <<now, ntpVars, syncVars, streamVars>>

(* What decode_audio takes a PTS to be, in nanoseconds: its ticks are the  *)
(* decoder's, or single samples when the decoder has no time base, and     *)
(* av_rescale_q rounds to the nearest.                                     *)
Nanoseconds(pts, time_base) ==
    LET tb == IF time_base.num = 0 \/ time_base.den = 0
                THEN [num |-> 1, den |-> SampleRate]
                ELSE time_base
    IN  (2 * pts * Second * tb.num + tb.den) \div (2 * tb.den)

(* Audio of the same presentation time as frame f: its PTS is in ticks of  *)
(* the stream as well, whatever it is converted by.                        *)
DecodeAudio(f, time_base) ==
    /\ rpc = "read"
    /\ LET pts == Nanoseconds(Pts[f], time_base)
       IN  /\ audio' = IF f = shown.id
                         THEN [pts |-> pts, timestamp |-> pts + PtsOffset(pts)]
                         ELSE audio
           /\ pts_offset' = PtsOffset(pts)
    /\ has_pts_offset' = TRUE
    /\ UNCHANGED <<now, ntpVars, syncVars, rpc, streamVars, frame, shown>>

(* Audio without a presentation time cancels the offset, and goes out with *)
(* the timestamp zero; before there is an offset, it makes one of now.     *)
DecodeAudioWithoutPts ==
    /\ rpc = "read"
    /\ LET pts == IF has_pts_offset THEN 0 - pts_offset ELSE 0
       IN  pts_offset' = PtsOffset(pts)
    /\ has_pts_offset' = TRUE
    /\ UNCHANGED <<now, ntpVars, syncVars, rpc, streamVars, frame, shown,
                   audio>>

Tick ==
    /\ now < End
    /\ now' = now + 1
    /\ UNCHANGED <<ntpVars, syncVars, rpc, streamVars, frame, ptsVars,
                   shown, audio>>

Next ==
    \/ SwitchNtp \/ InitClient \/ ControlSynced \/ DestroyClient
    \/ ReadControlClock \/ RecordSync
    \/ \E f \in Frames : DecodeFrame(f) \/ Reconnect(f)
    \/ \E f \in Frames, tb \in TimeBases : DecodeAudio(f, tb)
    \/ \E lost \in SUBSET Frames : DecodeNothing(lost)
    \/ ReadClock
    \/ \E keyframe, drifted \in BOOLEAN : SyncPolicy(keyframe, drifted)
    \/ ThreadSynced
    \/ GoByStamp \/ PlaceByStamp \/ PlaceByPts
    \/ DecodeAudioWithoutPts
    \/ Tick

Spec == Init /\ [][Next]_vars

-----------------------------------------------------------------------------
(* Properties.                                                             *)

Clients == [is_initialized : BOOLEAN, is_synced : BOOLEAN,
            time_offset_ns : Int, heard : BOOLEAN]

TypeOK ==
    /\ now \in Nat /\ now >= Start
    /\ ntp_enabled \in BOOLEAN
    /\ client \in Clients
    /\ last_ntp_sync_time \in 0 .. Local
    /\ cpc \in {"idle", "init", "sync", "clock", "record", "destroy"}
    /\ stored \in 0 .. Local
    /\ rpc \in {"read", "policy", "elapsed", "exchange", "check", "place"}
    /\ clock \in 0 .. Local
    /\ hardware \in BOOLEAN
    /\ next \in Nat \ {0}
    /\ decoder \in SUBSET Frames
    /\ frame \in [id : Frames \cup {NULL}, stamp : Frames \cup {NULL}]
    /\ pts_offset \in Int /\ has_pts_offset \in BOOLEAN
    /\ shown \in [id : Frames \cup {NULL}, stamp : Frames \cup {NULL},
                  timestamp : Int, heard : BOOLEAN]
    /\ audio \in [pts : Int, timestamp : Int] \cup {NULL}
    /\ joined \in Nat \ {0}
    /\ exchanged \in 0 .. Local
    /\ updated \in BOOLEAN

(* A frame placed by its stamp. *)
ByStamp(s) == s.stamp # NULL /\ s.heard

(* The time on the server when the receiver's clock reads t. *)
ServerTime(t) == t + Theta

(* How long after the time it was stamped at a frame is shown. *)
Lag(s) == ServerTime(s.timestamp) - Stamp[s.stamp]

(* Every receiver whose offset comes from an answer shows the frames of a  *)
(* stamp at the same moment, but for the error of its exchange: the era    *)
(* after the time stamped, whenever and however often it has synchronised, *)
(* and whatever update does to the client meanwhile.                       *)
AtOneMoment ==
    ByStamp(shown) => Lag(shown) \in Delta - MaxError .. Delta + MaxError

(* "Local_Render_Time = Frame_NTP - Offset" (sei-receiver-source.c:651):   *)
(* it is the moment the frame was stamped at.                              *)
AtStampedMoment ==
    ByStamp(shown) => Lag(shown) \in -MaxError .. MaxError

(* A frame never gets the stamp of an earlier one or of another            *)
(* connection, whatever the decoder keeps, reorders and loses.             *)
StampOwnOrLater ==
    /\ rpc # "read" /\ frame.stamp # NULL =>
          /\ joined <= frame.id /\ frame.id <= frame.stamp
          /\ frame.stamp < next /\ Sei[frame.stamp] = "ours"
    /\ shown.stamp # NULL => shown.id <= shown.stamp

(* A frame stamped clearly later is shown later, over any number of syncs. *)
ShownInOrder ==
    [][LET old == shown  new == shown'
       IN  ByStamp(old) /\ ByStamp(new)
             /\ Stamp[new.stamp] - Stamp[old.stamp] > 2 * MaxError
             => new.timestamp > old.timestamp]_vars

(* The receive thread waits for the server at most once in an interval,    *)
(* whether it answers or not: an exchange can block it for five seconds.   *)
(* Only a sync of update lets it go again early, and once: a time recorded *)
(* after the thread read the clock makes the difference wrap, and one read *)
(* before the thread's own replaces a later one.                           *)
SyncsSpaced ==
    [][rpc = "elapsed" /\ rpc' = "exchange" =>
          exchanged = 0 \/ updated \/ clock - exchanged >= Interval]_vars

(* Audio goes by the offset of the frame shown last, and of no other,      *)
(* whatever its PTS is converted by: what takes that frame's PTS to its    *)
(* timestamp takes the converted PTS of the audio to the audio's, over     *)
(* syncs, reconnects and changes of NTP.                                   *)
AudioByLastShown ==
    audio # NULL =>
        audio.timestamp - audio.pts = shown.timestamp - Pts[shown.id]

(* "VideoPTS + PTSOffset = VideoDisplayTime", for "the audio to follow the *)
(* video" (sei-receiver-source.c:662-665): audio and video of one          *)
(* presentation time have one timestamp.                                   *)
AudioFollowsVideo ==
    audio # NULL => audio.timestamp = shown.timestamp

-----------------------------------------------------------------------------
(* The inductive invariant behind them.                                    *)

(* An answered exchange is as good as OffsetAccurate says. *)
ClientInv == client.heard =>
                client.time_offset_ns - Theta \in -MaxError .. MaxError

(* The decoder keeps frames of this connection, and one is in hand while   *)
(* it is being placed.                                                     *)
StreamInv ==
    /\ joined <= next
    /\ \A f \in decoder : joined <= f /\ f < next
    /\ rpc # "read" => frame.id # NULL
    /\ rpc = "place" => frame.stamp # NULL
    /\ shown.id = NULL => shown.stamp = NULL

(* The last exchange of the thread is on record, unless update has written *)
(* since; and the time it goes by next is not before it.                   *)
SyncInv ==
    /\ exchanged # 0 /\ ~updated => last_ntp_sync_time = exchanged
    /\ rpc = "elapsed" => exchanged <= clock

(* The offset is the one of the frame shown last. *)
PtsInv ==
    /\ shown.id # NULL =>
          has_pts_offset /\ shown.timestamp = Pts[shown.id] + pts_offset
    /\ audio # NULL => shown.id # NULL

IInv ==
    /\ TypeOK
    /\ ClientInv
    /\ StreamInv
    /\ SyncInv
    /\ PtsInv
    /\ AtOneMoment
    /\ StampOwnOrLater
    /\ AudioByLastShown

=============================================================================
