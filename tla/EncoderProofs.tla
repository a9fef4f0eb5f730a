--------------------------- MODULE EncoderProofs ----------------------------
(***************************************************************************)
(* The safety properties of Encoder, for every backend, every depth and    *)
(* interval and any number of frames.  IInv says in which one place each   *)
(* frame is.  The steps that begin a call differ only in what they leave   *)
(* with the backend and in the bitstream buffer, so they are two lemmas.   *)
(***************************************************************************)
EXTENDS Encoder, FiniteSetTheorems, TLAPS

USE DEF settings

(* The frame OBS hands over is a new one. *)
LEMMA NewFrame ==
    ASSUME IInv, Call
    PROVE  /\ Input \in Frames
           /\ Input.pts = sent + 1 /\ Input.at = now
           /\ Input \notin held \cup mfxBS \cup delivered
<1>1. sent \in 0 .. MaxFrames /\ now \in Times /\ sent < MaxFrames
  BY DEF IInv, TypeOK, Call
<1>2. Input.pts = sent + 1 /\ Input.at = now
  BY DEF Input
<1>3. sent + 1 \in 1 .. MaxFrames
  BY <1>1, ConstantsAssumption
<1>4. Input \in Frames
  BY <1>1, <1>3 DEF Input, Frames
<1>5. Input \notin held \cup mfxBS \cup delivered
  BY <1>1, <1>2 DEF IInv, FramesInv
<1> QED
  BY <1>2, <1>4, <1>5

(* What both kinds of call keep of the type. *)
LEMMA CallType ==
    ASSUME IInv, Call
    PROVE  /\ now' \in Times /\ backend' \in Backends
           /\ ntp_enabled' \in BOOLEAN /\ sei_codec' \in BOOLEAN
           /\ sent' \in 0 .. MaxFrames /\ sent' = sent + 1
           /\ extra_data_ready' \in BOOLEAN
           /\ packet' \in Packets \cup {NULL}
           /\ delivered' \in SUBSET Frames
           /\ clock' \in Clocks
           /\ last_ntp_sync_time' \in 0 .. MaxTime
           /\ asked' \in 0 .. MaxTime
           /\ current_ntp_time' \in Stamps
BY ConstantsAssumption DEF IInv, TypeOK, Call, ntpVars

(* A call spreads the frames anew over the backend, the buffer and, when   *)
(* it gets a packet, nothing else.                                         *)
LEMMA CallFrames ==
    ASSUME IInv, Call, NEW kept, NEW bits,
           kept \subseteq held \cup {Input}, IsFiniteSet(kept),
           bits \subseteq mfxBS \cup held \cup {Input},
           kept \cap bits = {},
           held' = kept, mfxBS' = bits
    PROVE  FramesInv' /\ held' \in SUBSET Frames /\ mfxBS' \in SUBSET Frames
<1>1. now' = now /\ delivered' = delivered /\ sent' = sent + 1
  BY DEF Call
<1>2. sent \in Int /\ now \in Int /\ held \subseteq Frames
      /\ mfxBS \subseteq Frames /\ delivered \subseteq Frames
  BY DEF IInv, TypeOK, Times
<1>3. \A f \in held \cup mfxBS \cup delivered : f.pts <= sent + 1 /\ f.at <= now
  BY <1>2 DEF IInv, FramesInv, Frames, Times
<1>4. Input.pts <= sent + 1 /\ Input.at <= now
  BY <1>2, NewFrame
<1>5. \A f \in kept \cup bits \cup delivered : f.pts <= sent + 1 /\ f.at <= now
  BY <1>3, <1>4
<1>6. kept \cap (bits \cup delivered) = {} /\ bits \cap delivered = {}
  BY NewFrame DEF IInv, FramesInv
<1>7. kept \in SUBSET Frames /\ bits \in SUBSET Frames
  BY <1>2, NewFrame
<1> QED
  BY <1>1, <1>5, <1>6, <1>7 DEF FramesInv

(* A call that returns without a packet. *)
LEMMA Returns ==
    ASSUME IInv, Call, NEW kept, NEW bits,
           kept \subseteq held \cup {Input}, IsFiniteSet(kept),
           Cardinality(kept) <= Depth,
           bits \subseteq mfxBS \cup held \cup {Input},
           kept \cap bits = {},
           ReturnWithout(kept, bits)
    PROVE  IInv'
<1>1. held' = kept /\ mfxBS' = bits /\ pc' = pc /\ frame' = frame
      /\ ready' = ready
  BY DEF ReturnWithout
<1>2. FramesInv' /\ held' \in SUBSET Frames /\ mfxBS' \in SUBSET Frames
  BY <1>1, CallFrames
<1>3. pc = "idle" /\ packet' = packet /\ settings' = settings /\ now' = now
      /\ clock' = clock /\ current_ntp_time' = current_ntp_time
      /\ asked' = asked /\ last_ntp_sync_time' = last_ntp_sync_time
  BY DEF Call, ntpVars
<1>4. TypeOK'
  BY <1>1, <1>2, CallType DEF IInv, TypeOK
<1>5. CallInv' /\ ClockInv' /\ StampAgeBounded'
  BY <1>1, <1>3 DEF IInv, CallInv, ClockInv, StampAgeBounded
<1>6. PacketInv'
  <2>1. packet # NULL => packet.pts \in Int
    BY DEF IInv, TypeOK, Packets
  <2>2. sent \in Int /\ sent' = sent + 1
    BY CallType DEF IInv, TypeOK
  <2> QED
    BY <1>1, <1>3, <2>1, <2>2 DEF IInv, PacketInv
<1> QED
  BY <1>2, <1>3, <1>4, <1>5, <1>6 DEF IInv

(* A call that gets the packet of the frame f. *)
LEMMA Gets ==
    ASSUME IInv, Call, NEW f \in held \cup {Input}, NEW bits,
           bits \subseteq mfxBS \cup {f}, Cardinality(held) <= Depth,
           GotPacket(f, bits)
    PROVE  IInv'
<1> DEFINE kept == (held \cup {Input}) \ {f}
<1>1. held' = kept /\ mfxBS' = bits /\ pc' = "ntp" /\ frame' = Input
      /\ ready' = f
  BY DEF GotPacket
<1>2. IsFiniteSet(kept) /\ Cardinality(kept) <= Depth
  <2>1. IsFiniteSet(held) /\ Input \notin held
    BY NewFrame DEF IInv, FramesInv
  <2>2. /\ IsFiniteSet(held \cup {Input})
        /\ Cardinality(held \cup {Input}) = Cardinality(held) + 1
    BY <2>1, FS_AddElement
  <2>3. /\ IsFiniteSet(kept)
        /\ Cardinality(kept) = Cardinality(held \cup {Input}) - 1
    BY <2>2, FS_RemoveElement
  <2>4. Cardinality(held) \in Nat
    BY <2>1, FS_CardinalityType
  <2> QED
    BY <2>2, <2>3, <2>4, ConstantsAssumption
<1>3. kept \cap bits = {}
  BY NewFrame DEF IInv, FramesInv
<1>4. FramesInv' /\ held' \in SUBSET Frames /\ mfxBS' \in SUBSET Frames
  <2>1. kept \subseteq held \cup {Input}
        /\ bits \subseteq mfxBS \cup held \cup {Input}
    OBVIOUS
  <2> HIDE DEF kept
  <2> QED
    BY <1>1, <1>2, <1>3, <2>1, CallFrames
<1>5. packet' = packet /\ settings' = settings /\ pc = "idle" /\ now' = now
      /\ clock' = clock /\ current_ntp_time' = current_ntp_time
      /\ asked' = asked /\ last_ntp_sync_time' = last_ntp_sync_time
      /\ delivered' = delivered
  BY DEF Call, ntpVars
<1>6. f \in Frames /\ f \notin delivered /\ f.at <= now
      /\ f.pts <= sent + 1 /\ Input # NULL /\ f # NULL
  <2>1. f \in Frames
    BY NewFrame DEF IInv, TypeOK
  <2>2. now \in Int /\ sent \in Int /\ f.pts \in Int
    BY <2>1 DEF IInv, TypeOK, Times, Frames
  <2> QED
    BY <2>1, <2>2, NewFrame, NullAssumption DEF IInv, FramesInv
<1>7. TypeOK'
  BY <1>1, <1>2, <1>4, <1>6, NewFrame, CallType DEF TypeOK
<1>8. CallInv'
  BY <1>1, <1>5, <1>6, NewFrame, CallType DEF CallInv
<1>9. ClockInv' /\ StampAgeBounded'
  BY <1>1, <1>5 DEF IInv, ClockInv, StampAgeBounded
<1>10. PacketInv'
  <2>1. packet # NULL => packet.pts \in Int
    BY DEF IInv, TypeOK, Packets
  <2>2. sent \in Int /\ sent' = sent + 1
    BY CallType DEF IInv, TypeOK
  <2> QED
    BY <1>1, <1>5, <2>1, <2>2 DEF IInv, PacketInv
<1> QED
  BY <1>4, <1>5, <1>7, <1>8, <1>9, <1>10 DEF IInv

-----------------------------------------------------------------------------
(* The frame of a call that got a packet goes through two steps that       *)
(* change neither frames nor packets.                                      *)

LEMMA SyncIsNow ==
    ASSUME UpdateNtp, pc' = "sync"
    PROVE  asked' = now
BY DEF UpdateNtp

LEMMA UpdateNtpKeeps ==
    ASSUME IInv, UpdateNtp
    PROVE  IInv'
<1>1. /\ pc = "ntp" /\ pc' \in {"sync", "stamp"}
      /\ backend # "stamper" => asked' = last_ntp_sync_time'
      /\ last_ntp_sync_time' \in {now, last_ntp_sync_time}
      /\ asked' \in {now, asked}
      /\ UNCHANGED <<now, settings, sent, held, frame, ready, mfxBS,
                     extra_data_ready, packet, delivered, clock,
                     current_ntp_time>>
  BY DEF UpdateNtp, codecVars, outVars, IInv
<1>2. TypeOK'
  BY <1>1 DEF IInv, TypeOK, Times
<1>3. FramesInv' /\ CallInv' /\ PacketInv'
  BY <1>1 DEF IInv, FramesInv, CallInv, PacketInv
<1>4. ClockInv' /\ StampAgeBounded'
  <2>1. now \in 1 .. MaxTime
    BY DEF IInv, TypeOK, Times
  <2>2. asked' <= now' /\ (pc' = "sync" => asked' >= 1)
    BY <1>1, <2>1, SyncIsNow DEF IInv, ClockInv
  <2> QED
    BY <1>1, <2>2 DEF IInv, ClockInv, StampAgeBounded
<1> QED
  BY <1>1, <1>2, <1>3, <1>4 DEF IInv

(* The clock an exchange leaves the client with. *)
LEMMA ExchangeClocks ==
    ASSUME IInv, asked >= 1, NEW c \in SetClocks(now - asked)
    PROVE  /\ c \in Clocks
           /\ c.of # "none"
           /\ c.lag <= c.trip + Rounding
           /\ c.trip < now
<1>1. /\ now \in 1 .. MaxTime /\ asked \in 0 .. MaxTime /\ asked <= now
  BY DEF IInv, TypeOK, Times, ClockInv
<1> DEFINE trip == now - asked
<1>2. /\ c.of \in {"server", "self"} /\ c.lag \in 0 .. trip + Rounding
      /\ c.trip = trip
      /\ c = [of |-> c.of, lag |-> c.lag, trip |-> c.trip]
  BY DEF SetClocks
<1>3. trip \in 0 .. MaxTime /\ trip < now
  BY <1>1, ConstantsAssumption
<1> HIDE DEF trip
<1>4. c.lag \in 0 .. MaxTime + Rounding /\ c.lag <= trip + Rounding
  BY <1>2, <1>3, ConstantsAssumption
<1>5. c \in Clocks
  BY <1>2, <1>3, <1>4 DEF Clocks, Sources
<1> QED
  BY <1>2, <1>3, <1>4, <1>5

LEMMA SyncedKeeps ==
    ASSUME IInv, SyncFails \/ Synced
    PROVE  IInv'
<1>1. /\ pc = "sync" /\ pc' = "stamp"
      /\ clock' \in {clock} \cup SetClocks(now - asked)
      /\ last_ntp_sync_time' \in {asked, last_ntp_sync_time}
      /\ backend # "stamper" => last_ntp_sync_time' = last_ntp_sync_time
      /\ UNCHANGED <<now, settings, sent, held, frame, ready, mfxBS,
                     extra_data_ready, packet, delivered, asked,
                     current_ntp_time>>
  BY DEF Synced, SyncFails, codecVars, outVars, ntpVars, IInv
<1>c. /\ clock' \in Clocks
      /\ clock'.of = "none" => clock.of = "none"
      /\ clock'.lag <= clock'.trip + Rounding
      /\ clock'.trip < now
  BY <1>1, ExchangeClocks DEF IInv, TypeOK, ClockInv
<1>2. TypeOK'
  BY <1>1, <1>c DEF IInv, TypeOK
<1>3. FramesInv' /\ CallInv' /\ PacketInv'
  BY <1>1 DEF IInv, FramesInv, CallInv, PacketInv
<1>4. ClockInv' /\ StampAgeBounded'
  BY <1>1, <1>c DEF IInv, ClockInv, StampAgeBounded
<1> QED
  BY <1>1, <1>2, <1>3, <1>4 DEF IInv

(* The stamper's create: an exchange, or NTP switched off. *)
LEMMA CreatedKeeps ==
    ASSUME IInv, Created
    PROVE  IInv'
<1>1. /\ pc = "create" /\ pc' = "idle" /\ ntp_enabled' \in BOOLEAN
      /\ clock' \in {clock} \cup SetClocks(now - asked)
      /\ asked' \in {0, asked}
      /\ UNCHANGED <<now, backend, sei_codec, sent, held, frame, ready, mfxBS,
                     extra_data_ready, packet, delivered,
                     last_ntp_sync_time, current_ntp_time>>
  BY DEF Created, codecVars, outVars, IInv, TypeOK
<1>c. /\ clock' \in Clocks
      /\ clock'.of = "none" => clock.of = "none"
      /\ clock'.lag <= clock'.trip + Rounding
      /\ clock'.trip < now
  BY <1>1, ExchangeClocks DEF IInv, TypeOK, ClockInv
<1>2. TypeOK'
  BY <1>1, <1>c, ConstantsAssumption DEF IInv, TypeOK
<1>3. FramesInv' /\ CallInv' /\ PacketInv'
  BY <1>1 DEF IInv, FramesInv, CallInv, PacketInv
<1>4. ClockInv' /\ StampAgeBounded'
  BY <1>1, <1>c, ConstantsAssumption
     DEF IInv, TypeOK, Times, ClockInv, StampAgeBounded
<1>5. backend' # "stamper" => asked' = last_ntp_sync_time'
  BY <1>1 DEF IInv, ClockInv
<1> QED
  BY <1>2, <1>3, <1>4, <1>5 DEF IInv

(* The bits of the next packet are of frames that were never delivered and *)
(* have left the backend, and none is younger than the stamp.              *)
LEMMA NextBits ==
    ASSUME IInv, pc = "stamp"
    PROVE  /\ Bits \subseteq Frames
           /\ Bits \cap (held \cup delivered) = {}
           /\ \A f \in Bits : f.pts <= sent /\ f.at <= now
           /\ frame \in Frames /\ ready \in Frames
           /\ frame.pts = sent
           /\ Pts \in 1 .. MaxFrames
           /\ GetTime \in Stamps
           /\ GetTime.clock = "server" =>
                  now <= GetTime.time + GetTime.trip + Rounding
<1>1. frame \in Frames /\ ready \in Frames /\ frame.pts = sent
      /\ ready.at <= now /\ ready \notin held \cup delivered
  BY DEF IInv, TypeOK, CallInv
<1>2. Pts \in 1 .. MaxFrames
  BY <1>1 DEF Pts, Frames
<1>3. mfxBS \subseteq Frames /\ mfxBS \cap (held \cup delivered) = {}
      /\ \A f \in mfxBS : f.pts <= sent /\ f.at <= now
  BY DEF IInv, TypeOK, FramesInv
<1>4. /\ GetTime \in Stamps
      /\ GetTime.clock = "server" =>
            now <= GetTime.time + GetTime.trip + Rounding
  <2>1. CASE clock.of = "none"
    <3>1. GetTime = ZeroStamp /\ ZeroStamp \in Stamps
      BY <2>1 DEF GetTime, IInv, TypeOK, ClockInv
    <3> QED
      BY <3>1 DEF ZeroStamp
  <2>2. CASE clock.of # "none"
    <3>1. GetTime = ClockTime
      BY <2>2 DEF GetTime
    <3>2. /\ now \in 1 .. MaxTime /\ clock.trip \in 0 .. MaxTime
          /\ clock.lag \in 0 .. MaxTime + Rounding
          /\ clock.of \in Sources
          /\ clock.lag <= clock.trip + Rounding /\ clock.trip < now
      BY DEF IInv, TypeOK, ClockInv, Times, Clocks
    <3>3. now - clock.lag \in -Rounding .. MaxTime
      BY <3>2, ConstantsAssumption
    <3>4. ClockTime \in Stamps
      BY <3>2, <3>3 DEF ClockTime, Stamps
    <3>5. now <= (now - clock.lag) + clock.trip + Rounding
      BY <3>2, ConstantsAssumption
    <3> QED
      BY <3>1, <3>4, <3>5 DEF ClockTime
  <2> QED
    BY <2>1, <2>2
<1>5. ready.pts <= sent
  BY <1>1 DEF IInv, CallInv
<1> QED
  BY <1>1, <1>2, <1>3, <1>4, <1>5 DEF Bits

LEMMA StampKeeps ==
    ASSUME IInv, NEW keyframe \in BOOLEAN, NEW found \in BOOLEAN,
           Stamp(keyframe, found)
    PROVE  IInv'
<1> DEFINE message == [pts |-> frame.pts, ntp_time |-> GetTime]
<1>1. /\ pc = "stamp" /\ pc' = "idle"
      /\ current_ntp_time' = GetTime
      /\ packet' = [bits |-> Bits, pts |-> Pts, keyframe |-> keyframe,
                    sei |-> IF keyframe /\ ntp_enabled /\ sei_codec
                              THEN message ELSE NULL]
      /\ delivered' = delivered \cup Bits
      /\ mfxBS' = {} /\ frame' = NULL /\ ready' = NULL
      /\ extra_data_ready' \in BOOLEAN
      /\ UNCHANGED <<now, settings, sent, held, clock, last_ntp_sync_time,
                     asked>>
  BY DEF Stamp, ResetBitstream, IInv, TypeOK
<1>2. message \in SeiMessages
  BY <1>1, NextBits DEF Frames, SeiMessages
<1>3. packet' \in Packets
  BY <1>1, <1>2, NextBits DEF Packets
<1>4. TypeOK'
  BY <1>1, <1>3, NextBits DEF IInv, TypeOK
<1>5. FramesInv'
  BY <1>1, NextBits DEF IInv, FramesInv
<1>6. CallInv' /\ ClockInv'
  <2>1. clock'.of = "none" => current_ntp_time' = ZeroStamp
    BY <1>1 DEF ClockInv, GetTime, IInv
  <2> QED
    BY <1>1, <2>1 DEF CallInv, ClockInv, IInv
<1>7. PacketInv'
  BY <1>1, NextBits DEF PacketInv, Pts, IInv, TypeOK
<1>8. StampAgeBounded'
  <2>1. packet'.bits = Bits
        /\ packet'.sei \in {message, NULL}
    BY <1>1
  <2>2. SUFFICES ASSUME packet'.sei # NULL, NEW f \in Bits,
                        packet'.sei.ntp_time.clock = "server"
                 PROVE  f.at <= packet'.sei.ntp_time.time
                                  + packet'.sei.ntp_time.trip + Rounding
    BY <2>1 DEF StampAgeBounded
  <2> DEFINE stamp == packet'.sei.ntp_time
  <2>3. stamp = GetTime /\ stamp.clock = "server"
    BY <2>1, <2>2
  <2>4. now <= stamp.time + stamp.trip + Rounding
    BY <1>1, <2>3, NextBits
  <2>5. f.at <= now /\ f.at \in Int /\ now \in Int
    BY <1>1, NextBits DEF IInv, TypeOK, Frames, Times
  <2>6. stamp.time \in Int /\ stamp.trip \in Int
    BY <1>1, <2>3, NextBits DEF Stamps
  <2> HIDE DEF stamp
  <2>7. f.at <= stamp.time + stamp.trip + Rounding
    BY <2>4, <2>5, <2>6, ConstantsAssumption
  <2> QED
    BY <2>7 DEF stamp
<1> QED
  BY <1>1, <1>4, <1>5, <1>6, <1>7, <1>8 DEF IInv

LEMMA TickKeeps ==
    ASSUME IInv, Tick
    PROVE  IInv'
<1>1. /\ now' = now + 1 /\ now < MaxTime
      /\ UNCHANGED <<settings, pc, sent, held, frame, ready, mfxBS,
                     extra_data_ready, packet, delivered, clock, asked,
                     last_ntp_sync_time, current_ntp_time>>
  BY DEF Tick, codecVars, outVars, ntpVars
<1>2. now \in 1 .. MaxTime /\ now' \in 1 .. MaxTime
  BY <1>1, ConstantsAssumption DEF IInv, TypeOK, Times
<1>3. TypeOK'
  BY <1>1, <1>2 DEF IInv, TypeOK, Times
<1>4. FramesInv'
  <2>1. \A f \in held \cup mfxBS \cup delivered : f.at \in Int
    BY DEF IInv, TypeOK, Frames, Times
  <2>2. \A f \in held \cup mfxBS \cup delivered :
            f.pts <= sent /\ f.at <= now + 1
    BY <1>2, <2>1 DEF IInv, FramesInv
  <2> QED
    BY <1>1, <2>2 DEF IInv, FramesInv
<1>5. CallInv'
  <2>1. ready # NULL => ready.at \in Int
    BY DEF IInv, TypeOK, Frames, Times
  <2> QED
    BY <1>1, <1>2, <2>1 DEF IInv, CallInv
<1>6. PacketInv' /\ StampAgeBounded'
  BY <1>1 DEF IInv, PacketInv, StampAgeBounded
<1>7. ClockInv'
  <2>1. clock.trip \in Int /\ asked \in Int
    BY DEF IInv, TypeOK, Clocks
  <2> QED
    BY <1>1, <1>2, <2>1 DEF IInv, ClockInv
<1> QED
  BY <1>1, <1>3, <1>4, <1>5, <1>6, <1>7 DEF IInv

LEMMA DestroyKeeps ==
    ASSUME IInv, Destroy
    PROVE  IInv'
<1>1. /\ pc = "idle" /\ pc' = "destroyed"
      /\ held' = {} /\ mfxBS' = {} /\ clock' = NoClock
      /\ UNCHANGED <<now, settings, sent, frame, ready, extra_data_ready,
                     packet, delivered, asked, last_ntp_sync_time,
                     current_ntp_time>>
  BY DEF Destroy
<1>2. IsFiniteSet({}) /\ Cardinality({}) = 0
  BY FS_EmptySet
<1>c. NoClock \in Clocks
  BY ConstantsAssumption DEF NoClock, Clocks, Sources
<1>3. TypeOK'
  BY <1>1, <1>2, <1>c, ConstantsAssumption DEF IInv, TypeOK
<1>4. FramesInv' /\ CallInv' /\ PacketInv'
  BY <1>1, <1>2 DEF IInv, FramesInv, CallInv, PacketInv
<1>5. ClockInv' /\ StampAgeBounded'
  <2>1. NoClock.lag = 0 /\ NoClock.trip = 0 /\ now \in 1 .. MaxTime
    BY DEF NoClock, IInv, TypeOK, Times
  <2>2. clock'.lag <= clock'.trip + Rounding /\ clock'.trip < now
    BY <1>1, <2>1, ConstantsAssumption
  <2> QED
    BY <1>1, <2>2 DEF IInv, ClockInv, StampAgeBounded
<1> QED
  BY <1>1, <1>3, <1>4, <1>5 DEF IInv

LEMMA StutterKeeps ==
    ASSUME IInv, UNCHANGED vars
    PROVE  IInv'
<1>1. UNCHANGED <<now, settings, pc, sent, held, frame, ready, mfxBS,
                  extra_data_ready, packet, delivered, clock,
                  last_ntp_sync_time, asked, current_ntp_time>>
  BY DEF vars, codecVars, outVars, ntpVars
<1>2. TypeOK'
  BY <1>1 DEF IInv, TypeOK
<1>3. FramesInv' /\ CallInv' /\ PacketInv'
  BY <1>1 DEF IInv, FramesInv, CallInv, PacketInv
<1>4. ClockInv' /\ StampAgeBounded'
  BY <1>1 DEF IInv, ClockInv, StampAgeBounded
<1> QED
  BY <1>1, <1>2, <1>3, <1>4 DEF IInv

-----------------------------------------------------------------------------
(* The calls, each an instance of Returns or Gets. *)

LEMMA CallsKeep ==
    ASSUME IInv,
           \/ FrameRefused \/ NoPacketYet \/ ReceivePacket
           \/ NoFreeSurface \/ MoreData \/ DeviceBusy
           \/ SyncOperationFails \/ EncodeFrameAsync
    PROVE  IInv'
<1>1. IsFiniteSet(held) /\ Cardinality(held) <= Depth
      /\ held \cap mfxBS = {} /\ Cardinality(held) \in Nat
  BY FS_CardinalityType DEF IInv, TypeOK, FramesInv
<1>2. ASSUME Call, ReturnWithout(held, mfxBS)
      PROVE  IInv'
  BY <1>1, <1>2, Returns
<1>3. ASSUME Call, Cardinality(held) < Depth,
             ReturnWithout(held \cup {Input}, mfxBS)
      PROVE  IInv'
  <2>1. Input \notin held /\ Input \notin mfxBS
    BY <1>3, NewFrame
  <2>2. /\ IsFiniteSet(held \cup {Input})
        /\ Cardinality(held \cup {Input}) = Cardinality(held) + 1
    BY <1>1, <2>1, FS_AddElement
  <2>3. Cardinality(held \cup {Input}) <= Depth
    BY <1>1, <1>3, <2>2, ConstantsAssumption
  <2>4. (held \cup {Input}) \cap mfxBS = {}
    BY <1>1, <2>1
  <2> QED
    BY <1>3, <2>2, <2>3, <2>4, Returns
<1>4. ASSUME Call, NEW f \in held \cup {Input},
             NEW bits \in {mfxBS, mfxBS \cup {f}},
             ReturnWithout((held \cup {Input}) \ {f}, bits)
      PROVE  IInv'
  <2>1. Input \notin held /\ Input \notin mfxBS
    BY <1>4, NewFrame
  <2>2. /\ IsFiniteSet(held \cup {Input})
        /\ Cardinality(held \cup {Input}) = Cardinality(held) + 1
    BY <1>1, <2>1, FS_AddElement
  <2>3. /\ IsFiniteSet((held \cup {Input}) \ {f})
        /\ Cardinality((held \cup {Input}) \ {f})
             = Cardinality(held \cup {Input}) - 1
    BY <1>4, <2>2, FS_RemoveElement
  <2>4. Cardinality((held \cup {Input}) \ {f}) <= Depth
    BY <1>1, <2>2, <2>3, ConstantsAssumption
  <2>5. ((held \cup {Input}) \ {f}) \cap bits = {}
    BY <1>1, <2>1
  <2> QED
    BY <1>4, <2>3, <2>4, <2>5, Returns
<1>5. CASE FrameRefused
  BY <1>2, <1>5 DEF FrameRefused
<1>6. CASE NoPacketYet
  BY <1>3, <1>6 DEF NoPacketYet
<1>7. CASE ReceivePacket
  BY <1>1, <1>7, Gets DEF ReceivePacket
<1>8. CASE NoFreeSurface
  BY <1>2, <1>8 DEF NoFreeSurface
<1>9. CASE MoreData
  BY <1>3, <1>9 DEF MoreData, FreeSurface
<1>10. CASE DeviceBusy
  BY <1>2, <1>10 DEF DeviceBusy
<1>11. CASE SyncOperationFails
  BY <1>4, <1>11 DEF SyncOperationFails
<1>12. CASE EncodeFrameAsync
  BY <1>1, <1>12, Gets DEF EncodeFrameAsync
<1> QED
  BY <1>5, <1>6, <1>7, <1>8, <1>9, <1>10, <1>11, <1>12

LEMMA InitInvariant == Init => IInv
<1> SUFFICES ASSUME Init PROVE IInv
  OBVIOUS
<1>1. IsFiniteSet({}) /\ Cardinality({}) = 0
  BY FS_EmptySet
<1>2. ZeroStamp \in Stamps
  BY ConstantsAssumption DEF ZeroStamp, Stamps, Sources
<1>c. /\ NoClock \in Clocks /\ NoClock.of = "none"
      /\ NoClock.lag = 0 /\ NoClock.trip = 0
  BY ConstantsAssumption DEF NoClock, Clocks, Sources
<1>3. TypeOK
  <2>1. 1 \in Times /\ 0 \in 0 .. MaxTime /\ 0 \in 0 .. MaxFrames /\ 0 <= Depth
    BY ConstantsAssumption DEF Times
  <2>2. asked \in 0 .. MaxTime /\ pc \in {"create", "idle"}
    BY ConstantsAssumption DEF Init
  <2> QED
    BY <1>1, <1>2, <1>c, <2>1, <2>2 DEF Init, TypeOK
<1>4. FramesInv /\ CallInv /\ PacketInv /\ StampAgeBounded
  BY <1>1 DEF Init, FramesInv, CallInv, PacketInv, StampAgeBounded
<1>5. ClockInv
  BY <1>c, ConstantsAssumption DEF Init, ClockInv
<1> QED
  BY <1>3, <1>4, <1>5 DEF Init, IInv

LEMMA StepInvariant == IInv /\ [Next]_vars => IInv'
<1> SUFFICES ASSUME IInv, [Next]_vars PROVE IInv'
  OBVIOUS
<1>1. CASE Tick
  BY <1>1, TickKeeps
<1>2. CASE Encode
  BY <1>2, CallsKeep, UpdateNtpKeeps, SyncedKeeps, StampKeeps DEF Encode
<1>3. CASE Destroy
  BY <1>3, DestroyKeeps
<1>4. CASE Destroyed \/ UNCHANGED vars
  BY <1>4, StutterKeeps DEF Destroyed
<1>5. CASE Created
  BY <1>5, CreatedKeeps
<1> QED
  BY <1>1, <1>2, <1>3, <1>4, <1>5 DEF Next

(* Every state of the encoder satisfies the inductive invariant. *)
THEOREM Invariance == Spec => []IInv
BY InitInvariant, StepInvariant, PTL DEF Spec

(* The values of the variables; the backend keeps Depth frames at most, so *)
(* QSV's search for a surface fails only when the hardware has them all.   *)
THEOREM TypeCorrect == Spec => []TypeOK
<1>1. IInv => TypeOK
  BY DEF IInv
<1> QED
  BY <1>1, Invariance, PTL

(* A stamp of the server's clock is older than the moment the pictures of  *)
(* its packet were handed over by no more than the exchange took that the  *)
(* clock was set by and a rounding, whatever the backend keeps back and    *)
(* whatever exchanges fail.                                                *)
THEOREM StampsAge == Spec => []StampAgeBounded
<1>1. IInv => StampAgeBounded
  BY DEF IInv
<1> QED
  BY <1>1, Invariance, PTL

-----------------------------------------------------------------------------
(* Only Stamp delivers and only UpdateNtp begins an exchange. *)

LEMMA OnlyStampDelivers ==
    ASSUME IInv, [Next]_vars, Delivers
    PROVE  \E keyframe, found \in BOOLEAN : Stamp(keyframe, found)
BY DEF Next, Created, Encode, Delivers, Tick, Destroy, Destroyed, UpdateNtp, Synced,
       SyncFails,
       FrameRefused, NoPacketYet, ReceivePacket, NoFreeSurface, MoreData,
       DeviceBusy, SyncOperationFails, EncodeFrameAsync, Call, vars

LEMMA OnlyUpdateSyncs ==
    ASSUME IInv, [Next]_vars, pc' = "sync", pc # "sync"
    PROVE  UpdateNtp
BY DEF Next, Created, Encode, Tick, Destroy, Destroyed, Synced, SyncFails, Stamp,
       FrameRefused,
       NoPacketYet, ReceivePacket, NoFreeSurface, MoreData, DeviceBusy,
       SyncOperationFails, EncodeFrameAsync, Call, ReturnWithout, GotPacket,
       vars

(* The bits of a frame are in one packet at most, though a sync operation  *)
(* that fails may leave them in QSV's bitstream buffer for the next one.   *)
THEOREM FrameInOne == Spec => FrameInOnePacket
<1>1. IInv /\ [Next]_vars => (Delivers => packet'.bits \cap delivered = {})
  <2> SUFFICES ASSUME IInv, [Next]_vars, Delivers
               PROVE  packet'.bits \cap delivered = {}
    OBVIOUS
  <2>1. PICK keyframe, found \in BOOLEAN : Stamp(keyframe, found)
    BY OnlyStampDelivers
  <2>2. pc = "stamp" /\ packet'.bits = Bits
    BY <2>1 DEF Stamp
  <2> QED
    BY <2>2, NextBits
<1> QED
  BY <1>1, Invariance, PTL DEF Spec, FrameInOnePacket

(* The exchanges of the registered backends begin more than the interval   *)
(* apart, failed or not; the stamper's do after one whose time it recorded,*)
(* not after a failed one or the one of its create.                        *)
THEOREM Spaced == Spec => ExchangesSpaced
<1>1. IInv /\ [Next]_vars =>
        (pc' = "sync" /\ pc # "sync" =>
            \/ asked = 0 \/ now - asked > Interval
            \/ backend = "stamper" /\ last_ntp_sync_time # asked)
  <2> SUFFICES ASSUME IInv, [Next]_vars, pc' = "sync", pc # "sync"
               PROVE  \/ asked = 0 \/ now - asked > Interval
                      \/ backend = "stamper" /\ last_ntp_sync_time # asked
    OBVIOUS
  <2>1. UpdateNtp /\ (backend # "stamper" => asked = last_ntp_sync_time)
    BY OnlyUpdateSyncs DEF IInv
  <2> QED
    BY <2>1 DEF UpdateNtp, Due
<1> QED
  BY <1>1, Invariance, PTL DEF Spec, ExchangesSpaced

(* QSV's packets have increasing decoding times. *)
THEOREM DtsOrder == Spec => DtsIncreases
<1>1. IInv /\ [Next]_vars =>
        (Delivers /\ backend = "qsv" /\ packet # NULL
            => packet'.pts > packet.pts)
  <2> SUFFICES ASSUME IInv, [Next]_vars, Delivers, backend = "qsv",
                      packet # NULL
               PROVE  packet'.pts > packet.pts
    OBVIOUS
  <2>1. PICK keyframe, found \in BOOLEAN : Stamp(keyframe, found)
    BY OnlyStampDelivers
  <2>2. pc = "stamp" /\ packet'.pts = frame.pts
    BY <2>1 DEF Stamp, Pts
  <2>3. frame.pts = sent /\ packet.pts < sent
    BY <2>2 DEF IInv, CallInv, PacketInv
  <2>4. sent \in Int /\ packet.pts \in Int
    BY DEF IInv, TypeOK, Packets
  <2> QED
    BY <2>2, <2>3, <2>4
<1> QED
  BY <1>1, Invariance, PTL DEF Spec, DtsIncreases
=============================================================================
