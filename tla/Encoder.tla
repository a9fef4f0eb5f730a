------------------------------ MODULE Encoder -------------------------------
(***************************************************************************)
(* The encode callback of the unified encoder, over its two kinds of       *)
(* backend: FFmpeg's hardware encoders (nvenc-encoder.c, and amd-encoder.c *)
(* with the same code) and Intel's (qsv-encoder.c); and of the encoder     *)
(* that takes any encoder of FFmpeg's (sei-stamper-encoder.c), with its    *)
(* own policy of exchanges.  OBS gives it raw frames one at a time on one  *)
(* thread; the backend keeps some and returns packets in an order of its   *)
(* own; keyframes get a SEI message with a PTS and the time of the NTP     *)
(* client.                                                                 *)
(*                                                                         *)
(* A frame is its PTS, a count, and the time OBS handed it over; the bits  *)
(* of a packet are the set of frames whose encoding they hold.  The NTP    *)
(* client (module NtpClient) is the clock its last exchange set it to:     *)
(* none, the server's, or its own, when the lost answer of an exchange was *)
(* taken for one.  It lags behind that clock by what NtpClient's           *)
(* ClockLagBounded allows: the round trip of the exchange and a rounding.  *)
(***************************************************************************)
EXTENDS Integers, FiniteSets

CONSTANTS
    Backends,    \* those looked at, of "ffmpeg", "qsv" and "stamper"
    Depth,       \* frames a backend may keep; for QSV, its surfaces
    Interval,    \* ntp_sync_interval_ms, in units of now
    Rounding,    \* the most that rounding its timestamps adds to its lag
    MaxTime,     \* bound on now
    MaxFrames,   \* bound on the frames OBS hands over
    NULL

ASSUME ConstantsAssumption ==
    /\ Backends \subseteq {"ffmpeg", "qsv", "stamper"}
    /\ Depth \in Nat \ {0}
    /\ {Interval, MaxTime, MaxFrames} \subseteq Nat \ {0}
    /\ Rounding \in Nat

VARIABLES
    now,                  \* os_gettime_ns
    backend,              \* the encoder behind the unified one, or "stamper"
    ntp_enabled,          \* a setting of the stamper, else always on
    sei_codec,            \* the stamper's codec is not AV1, else TRUE
    sent,                 \* frames OBS has handed over
    held,                 \* the frames the backend keeps
    mfxBS,                \* QSV: frames with bits in the bitstream buffer
    extra_data_ready,     \* QSV: the parameter sets were found
    clock,                \* what the NTP client's time follows, and how
    last_ntp_sync_time,   \* 0 before the first exchange
    current_ntp_time,     \* the stamp, and the clock it was read from
    pc,                   \* where encode stands
    frame,                \* its input, NULL outside it
    ready,                \* the frame of the packet it got, NULL before
    packet,               \* the last packet given to OBS
    delivered,            \* history: the frames with bits in a packet
    asked                 \* history: when the last exchange began, 0 if none

settings  == <<backend, ntp_enabled, sei_codec>>
codecVars == <<sent, held, frame, ready>>
outVars   == <<mfxBS, extra_data_ready, packet, delivered>>
ntpVars   == <<clock, last_ntp_sync_time, asked, current_ntp_time>>
vars      == <<now, settings, pc, codecVars, outVars, ntpVars>>

-----------------------------------------------------------------------------

Times  == 1 .. MaxTime
Frames == [pts : 1 .. MaxFrames, at : Times]
Sources == {"none", "server", "self"}

(* The clock a time follows, how far it lags behind, and how long the      *)
(* exchange took that it was set by.                                       *)
Clocks == [of : Sources, lag : 0 .. MaxTime + Rounding, trip : 0 .. MaxTime]

NoClock == [of |-> "none", lag |-> 0, trip |-> 0]

(* What ntp_client_sync may set the client to after an exchange that took  *)
(* that long: it takes for the answer's arrival the time of its sending.   *)
SetClocks(trip) == [of : {"server", "self"}, lag : 0 .. trip + Rounding,
                    trip : {trip}]

(* A stamp is a time, the clock it is of and that clock's round trip. *)
Stamps == [clock : Sources, time : -Rounding .. MaxTime, trip : 0 .. MaxTime]

ZeroStamp == [clock |-> "none", time |-> 0, trip |-> 0]

(* The SEI message of a packet: a PTS and a stamp. *)
SeiMessages == [pts : 1 .. MaxFrames, ntp_time : Stamps]

Packets == [bits : SUBSET Frames, pts : 1 .. MaxFrames, keyframe : BOOLEAN,
            sei : SeiMessages \cup {NULL}]

ASSUME NullAssumption == NULL \notin Frames \cup SeiMessages \cup Packets

(* The encoder as its create leaves it, but for the exchange of the        *)
(* stamper's create.                                                       *)
Init ==
    /\ now = 1
    /\ backend \in Backends
    /\ ntp_enabled \in BOOLEAN /\ sei_codec \in BOOLEAN
    /\ backend # "stamper" => ntp_enabled /\ sei_codec
    /\ sent = 0 /\ held = {} /\ frame = NULL /\ ready = NULL
    /\ mfxBS = {} /\ extra_data_ready = FALSE
    /\ packet = NULL /\ delivered = {}
    /\ clock = NoClock
    /\ last_ntp_sync_time = 0
    /\ current_ntp_time = ZeroStamp
    /\ IF backend = "stamper" /\ ntp_enabled
         THEN pc = "create" /\ asked = now
         ELSE pc = "idle" /\ asked = 0

(* The stamper's create: when its client cannot be initialised, NTP is     *)
(* switched off; otherwise an exchange is made, of which no time is        *)
(* recorded, whether it succeeds or fails.                                 *)
Created ==
    /\ pc = "create"
    /\ pc' = "idle"
    /\ \/ ntp_enabled' = FALSE /\ asked' = 0 /\ UNCHANGED clock
       \/ /\ clock' \in {clock} \cup SetClocks(now - asked)
          /\ UNCHANGED <<ntp_enabled, asked>>
    /\ UNCHANGED <<now, backend, sei_codec, codecVars, outVars,
                   last_ntp_sync_time, current_ntp_time>>

-----------------------------------------------------------------------------
(* What the two backends have in common.                                   *)

(* The frame OBS hands over in this call. *)
Input == [pts |-> sent + 1, at |-> now]

(* The callback returns without a packet, leaving kept with the backend    *)
(* and bits in the bitstream buffer.                                       *)
ReturnWithout(kept, bits) ==
    /\ held' = kept
    /\ mfxBS' = bits
    /\ UNCHANGED <<pc, frame, ready>>

(* The backend gives the packet of one of its frames back. *)
GotPacket(f, bits) ==
    /\ held' = (held \cup {Input}) \ {f}
    /\ mfxBS' = bits
    /\ frame' = Input
    /\ ready' = f
    /\ pc' = "ntp"

(* One frame of OBS. *)
Call ==
    /\ pc = "idle"
    /\ sent < MaxFrames
    /\ sent' = sent + 1
    /\ UNCHANGED <<now, settings, extra_data_ready, packet, delivered, ntpVars>>

-----------------------------------------------------------------------------
(* NVENC, AMD and the stamper.                                             *)

(* avcodec_send_frame fails, or the stamper does not have the pixel        *)
(* format, and the frame is lost.                                          *)
FrameRefused ==
    /\ backend # "qsv"
    /\ Call
    /\ ReturnWithout(held, mfxBS)

(* avcodec_receive_packet has none yet, or fails. *)
NoPacketYet ==
    /\ backend # "qsv"
    /\ Cardinality(held) < Depth
    /\ Call
    /\ ReturnWithout(held \cup {Input}, mfxBS)

ReceivePacket ==
    /\ backend # "qsv"
    /\ Call
    /\ \E f \in held \cup {Input} : GotPacket(f, mfxBS)

-----------------------------------------------------------------------------
(* QSV.                                                                    *)

(* Faulty: one surface too many. *)
FreeSurfaceOffByOne == Cardinality(held) <= Depth

(* Each frame the hardware keeps locks the surface it was copied to. *)
FreeSurface == Cardinality(held) < Depth

NoFreeSurface ==
    /\ backend = "qsv"
    /\ ~FreeSurface
    /\ Call
    /\ ReturnWithout(held, mfxBS)

(* MFX_ERR_MORE_DATA: the hardware keeps the frame. *)
MoreData ==
    /\ backend = "qsv"
    /\ FreeSurface
    /\ Call
    /\ ReturnWithout(held \cup {Input}, mfxBS)

(* MFX_WRN_DEVICE_BUSY, reported to OBS as more data, or an error: the     *)
(* hardware did not take the frame.                                        *)
DeviceBusy ==
    /\ backend = "qsv"
    /\ FreeSurface
    /\ Call
    /\ ReturnWithout(held, mfxBS)

(* The sync operation fails or times out: the bits of the frame may be in  *)
(* the bitstream buffer, which stays as it is.                             *)
SyncOperationFails ==
    /\ backend = "qsv"
    /\ FreeSurface
    /\ Call
    /\ \E f \in held \cup {Input} : \E bits \in {mfxBS, mfxBS \cup {f}} :
          ReturnWithout((held \cup {Input}) \ {f}, bits)

EncodeFrameAsync ==
    /\ backend = "qsv"
    /\ FreeSurface
    /\ Call
    /\ \E f \in held \cup {Input} : GotPacket(f, mfxBS \cup {f})

-----------------------------------------------------------------------------
(* With a packet, they go on in the same way.                              *)

(* An exchange is due at the first packet and when the interval is over.   *)
Due ==
    /\ ntp_enabled
    /\ \/ last_ntp_sync_time = 0
       \/ now - last_ntp_sync_time > Interval

(* Faulty: the time of an exchange is not recorded before it. *)
UpdateNtpUnrecorded ==
    /\ pc = "ntp"
    /\ IF Due THEN asked' = now /\ pc' = "sync"
              ELSE pc' = "stamp" /\ UNCHANGED asked
    /\ UNCHANGED <<now, settings, codecVars, outVars, clock,
                   last_ntp_sync_time, current_ntp_time>>

(* The time of an exchange is recorded before it begins, but the stamper's *)
(* after it.                                                               *)
UpdateNtp ==
    /\ pc = "ntp"
    /\ IF Due
         THEN /\ asked' = now
              /\ last_ntp_sync_time' = IF backend = "stamper"
                                         THEN last_ntp_sync_time ELSE now
              /\ pc' = "sync"
         ELSE pc' = "stamp" /\ UNCHANGED <<last_ntp_sync_time, asked>>
    /\ UNCHANGED <<now, settings, codecVars, outVars, clock, current_ntp_time>>

(* ntp_client_sync has set the client; the stamper records when the        *)
(* exchange began.                                                         *)
Synced ==
    /\ pc = "sync"
    /\ clock' \in SetClocks(now - asked)
    /\ last_ntp_sync_time' = IF backend = "stamper"
                               THEN asked ELSE last_ntp_sync_time
    /\ pc' = "stamp"
    /\ UNCHANGED <<now, settings, codecVars, outVars, asked, current_ntp_time>>

(* It failed. *)
SyncFails ==
    /\ pc = "sync"
    /\ pc' = "stamp"
    /\ UNCHANGED <<now, settings, codecVars, outVars, ntpVars>>

(* The time of the client now. *)
ClockTime == [clock |-> clock.of, time |-> now - clock.lag,
              trip |-> clock.trip]

(* Faulty: the stamp is read once and kept. *)
GetTimeOnce ==
    IF clock.of = "none" \/ current_ntp_time # ZeroStamp
      THEN current_ntp_time
      ELSE ClockTime

(* ntp_client_get_time: an unsynchronised client leaves the stamp alone. *)
GetTime == IF clock.of = "none" THEN current_ntp_time ELSE ClockTime

(* Faulty: what is in the bitstream buffer stays there. *)
KeepBitstream == mfxBS

(* The bitstream buffer is emptied once its bits are in a packet. *)
ResetBitstream == {}

(* The bits of the packet: QSV's are all that is in the buffer. *)
Bits == IF backend = "qsv" THEN mfxBS ELSE {ready}

(* Faulty: the PTS of the frame encoded, in the order of encoding. *)
PtsOfReady == ready.pts

(* Its PTS: the encoded frame's; QSV's, and its DTS, that of the frame of  *)
(* this call.                                                              *)
Pts == IF backend = "qsv" THEN frame.pts ELSE ready.pts

(* The stamp is read and, on a keyframe, put into the packet with the PTS  *)
(* of the frame of this call; QSV looks for its parameter sets there.      *)
Stamp(keyframe, found) ==
    /\ pc = "stamp"
    /\ current_ntp_time' = GetTime
    /\ packet' = [bits |-> Bits, pts |-> Pts, keyframe |-> keyframe,
                  sei |-> IF keyframe /\ ntp_enabled /\ sei_codec
                            THEN [pts |-> frame.pts, ntp_time |-> GetTime]
                            ELSE NULL]
    /\ delivered' = delivered \cup Bits
    /\ mfxBS' = ResetBitstream
    /\ extra_data_ready' = \/ extra_data_ready
                           \/ (backend = "qsv" /\ keyframe /\ found)
    /\ frame' = NULL /\ ready' = NULL
    /\ pc' = "idle"
    /\ UNCHANGED <<now, settings, sent, held, clock, last_ntp_sync_time,
                   asked>>

Tick ==
    /\ pc # "destroyed"
    /\ now < MaxTime
    /\ now' = now + 1
    /\ UNCHANGED <<settings, pc, codecVars, outVars, ntpVars>>

(* destroy: what the backend still keeps is lost, OBS cannot flush it. *)
Destroy ==
    /\ pc = "idle"
    /\ held' = {}
    /\ mfxBS' = {}
    /\ clock' = NoClock
    /\ pc' = "destroyed"
    /\ UNCHANGED <<now, settings, sent, frame, ready, extra_data_ready, packet,
                   delivered, last_ntp_sync_time, asked, current_ntp_time>>

(* After destroy nothing happens. *)
Destroyed == pc = "destroyed" /\ UNCHANGED vars

Encode ==
    \/ FrameRefused \/ NoPacketYet \/ ReceivePacket
    \/ NoFreeSurface \/ MoreData \/ DeviceBusy
    \/ SyncOperationFails \/ EncodeFrameAsync
    \/ UpdateNtp \/ Synced \/ SyncFails
    \/ \E keyframe, found \in BOOLEAN : Stamp(keyframe, found)

Next == Created \/ Tick \/ Encode \/ Destroy \/ Destroyed

Spec == Init /\ [][Next]_vars

-----------------------------------------------------------------------------
(* Properties.                                                             *)

(* The values the variables take; the backend keeps Depth frames at most.  *)
TypeOK ==
    /\ now \in Times
    /\ backend \in Backends
    /\ ntp_enabled \in BOOLEAN /\ sei_codec \in BOOLEAN
    /\ sent \in 0 .. MaxFrames
    /\ held \in SUBSET Frames
    /\ Cardinality(held) <= Depth
    /\ frame \in Frames \cup {NULL}
    /\ ready \in Frames \cup {NULL}
    /\ mfxBS \in SUBSET Frames
    /\ extra_data_ready \in BOOLEAN
    /\ packet \in Packets \cup {NULL}
    /\ delivered \in SUBSET Frames
    /\ clock \in Clocks
    /\ last_ntp_sync_time \in 0 .. MaxTime
    /\ asked \in 0 .. MaxTime
    /\ current_ntp_time \in Stamps
    /\ pc \in {"create", "idle", "ntp", "sync", "stamp", "destroyed"}

(* The callback hands a packet to OBS. *)
Delivers == pc = "stamp" /\ pc' = "idle"

(* No frame is sent twice: whatever fails on the way, the bits of a frame  *)
(* are in one packet at most, though QSV's are collected in a buffer that  *)
(* outlives a call.                                                        *)
FrameInOnePacket == [][Delivers => packet'.bits \cap delivered = {}]_vars

(* How old a stamp may be.  However long the backend kept the pictures of  *)
(* a packet back, and whatever exchanges failed since, a stamp of the      *)
(* server's clock is older than the moment they were handed over by no     *)
(* more than the exchange took that the clock was set by, and the rounding *)
(* of its timestamps.                                                      *)
StampAgeBounded ==
    packet # NULL =>
        (packet.sei # NULL /\ packet.sei.ntp_time.clock = "server" =>
            \A f \in packet.bits :
                f.at <= packet.sei.ntp_time.time + packet.sei.ntp_time.trip
                          + Rounding)

(* "Always update last_sync_time to avoid retry storm on failure": the     *)
(* registered backends' exchanges, which block the video thread, begin     *)
(* more than the interval apart, whether they succeed or not.  The stamper *)
(* begins one sooner only after one whose time it did not record: one that *)
(* failed, or the one of its create.                                       *)
ExchangesSpaced ==
    [][pc' = "sync" /\ pc # "sync" =>
          \/ asked = 0 \/ now - asked > Interval
          \/ backend = "stamper" /\ last_ntp_sync_time # asked]_vars

(* QSV's packets go to OBS in the order of their DTS, which is their PTS,  *)
(* whatever order the hardware encodes in.                                 *)
DtsIncreases ==
    [][Delivers /\ backend = "qsv" /\ packet # NULL
          => packet'.pts > packet.pts]_vars

-----------------------------------------------------------------------------
(* The inductive invariant behind them.                                    *)

(* Where each frame is: with the backend, in the buffer or delivered, and  *)
(* in one place only; each was handed over by now.                         *)
FramesInv ==
    /\ IsFiniteSet(held)
    /\ \A f \in held \cup mfxBS \cup delivered : f.pts <= sent /\ f.at <= now
    /\ held \cap (mfxBS \cup delivered) = {}
    /\ mfxBS \cap delivered = {}

(* During a call: its frame is the last one, the packet's left the backend *)
(* and has not been delivered.                                             *)
CallInv ==
    pc \in {"ntp", "sync", "stamp"} =>
        /\ frame # NULL /\ ready # NULL
        /\ frame.pts = sent
        /\ ready.pts <= sent /\ ready.at <= now
        /\ ready \notin held \cup delivered

(* The packets so far are older than the call in progress. *)
PacketInv ==
    packet # NULL =>
        /\ backend = "qsv" => packet.pts <= sent
        /\ pc \in {"ntp", "sync", "stamp"} /\ backend = "qsv" =>
              packet.pts < sent

(* An unsynchronised client never gave a stamp; a synchronised one lags by *)
(* no more than its exchange took, which was over by now.                  *)
ClockInv ==
    /\ clock.of = "none" /\ pc # "destroyed" => current_ntp_time = ZeroStamp
    /\ clock.lag <= clock.trip + Rounding
    /\ clock.trip < now
    /\ asked <= now
    /\ pc \in {"create", "sync"} => asked >= 1
    /\ pc = "create" => backend = "stamper"

IInv ==
    /\ TypeOK
    /\ FramesInv
    /\ CallInv
    /\ PacketInv
    /\ ClockInv
    /\ StampAgeBounded
    /\ backend # "stamper" => asked = last_ntp_sync_time

=============================================================================
