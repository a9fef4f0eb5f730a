------------------------------ MODULE SeiCodec ------------------------------
(***************************************************************************)
(* The way of a stamp from an encoder to a receiver: the payload and the   *)
(* SEI NAL unit made of it (sei-handler.c), its place among the NAL units  *)
(* of a keyframe (nvenc-, amd-, qsv- and sei-stamper-encoder.c), and the   *)
(* search for it in the packet or in the side data FFmpeg's decoder makes  *)
(* of it (sei-receiver-source.c).                                          *)
(*                                                                         *)
(* Bytes are the code's.  The base numbers are written in and how many     *)
(* digits they have are parameters: TLC writes them in digits 0 .. 3, the  *)
(* four bytes emulation prevention tells apart, and in few of them.  So is *)
(* the UUID, of which only the first two bytes matter.  The start codes,   *)
(* headers and search are the code's; the NAL units of the encoder are     *)
(* shorter.                                                                *)
(***************************************************************************)
EXTENDS Integers, Sequences, FiniteSetsExt

CONSTANTS
    Base,        \* of the numbers in a payload, 256
    Uuid,        \* SEI_STAMPER_UUID, 16 bytes
    PtsDigits, SecondsDigits, FractionDigits,   \* 8, 4 and 4 bytes
    Limit,       \* the bytes parse_ntp_sei looks at, 2048
    Shapes,      \* sequences of kinds of NAL units of a keyframe
    NULL

Codecs   == {"h264", "h265"}
Backends == {"ffmpeg", "qsv", "stamper"}
Kinds    == {"aud", "vps", "sps", "pps", "sei", "slice"}

VARIABLES
    codec, backend,
    extra_data,   \* QSV: the parameter sets it kept, NULL before
    stage,        \* how far the current keyframe has come
    stamped,      \* what is in its stamp
    nal,          \* the SEI NAL unit
    units,        \* the encoder's NAL units
    packet,       \* the bytes OBS sends
    found         \* what the receiver reads, NULL if nothing

frameVars == <<stamped, nal, units, packet, found>>
vars      == <<codec, backend, extra_data, stage, frameVars>>

-----------------------------------------------------------------------------
(* Numbers, big-endian. *)

Pow[n \in Nat] == IF n = 0 THEN 1 ELSE Base * Pow[n - 1]

ToBytes(value, n) ==
    [i \in 1 .. n |-> (value \div Pow[n - i]) % Base]

(* The number the first k bytes make. *)
Values(bytes) ==
    LET value[k \in 0 .. Len(bytes)] ==
            IF k = 0 THEN 0 ELSE Base * value[k - 1] + bytes[k]
    IN  value

FromBytes(bytes) == Values(bytes)[Len(bytes)]

(* The PTS is signed. *)
Signed(value, n) == IF value >= Pow[n] \div 2 THEN value - Pow[n] ELSE value

PtsValues == -(Pow[PtsDigits] \div 2) .. (Pow[PtsDigits] \div 2) - 1

Stamps == [pts      : PtsValues,
           seconds  : 0 .. Pow[SecondsDigits] - 1,
           fraction : 0 .. Pow[FractionDigits] - 1]

PayloadSize == Len(Uuid) + PtsDigits + SecondsDigits + FractionDigits

(* A digit fits a byte; the UUID is told from another's by its second byte *)
(* at the latest.  The size of a payload fits one byte; what is parsed has *)
(* room for it behind the rest of another message, a start code and the    *)
(* headers, 11 bytes.                                                      *)
ASSUME ConstantsAssumption ==
    /\ Base \in 2 .. 256
    /\ Uuid \in Seq(0 .. 255) /\ Len(Uuid) >= 2
    /\ Uuid[1] = 165 /\ Uuid[2] = 179
    /\ {PtsDigits, SecondsDigits, FractionDigits} \subseteq Nat \ {0}
    /\ PayloadSize < 255
    /\ Limit \in Nat /\ Limit >= PayloadSize + 11

(* A keyframe has a slice. *)
ASSUME ShapesAssumption ==
    \A shape \in Shapes : /\ shape \in Seq(Kinds)
                           /\ \E i \in DOMAIN shape : shape[i] = "slice"

(* build_ntp_sei_payload. *)
Payload(s) ==
    Uuid \o ToBytes(s.pts, PtsDigits)
         \o ToBytes(s.seconds, SecondsDigits)
         \o ToBytes(s.fraction, FractionDigits)

-----------------------------------------------------------------------------
(* build_sei_nal_unit. *)

StartCode(n) == [i \in 1 .. n |-> IF i = n THEN 1 ELSE 0]

SeiHeader(c) == IF c = "h264" THEN <<6>> ELSE <<78, 1>>

(* Faulty: only what looks like a start code is escaped. *)
EscapeStartCodes(acc, b) ==
    IF acc.zeros >= 2 /\ b <= 1
      THEN [out |-> acc.out \o <<3, b>>, zeros |-> IF b = 0 THEN 1 ELSE 0]
      ELSE [out   |-> Append(acc.out, b),
            zeros |-> IF b = 0 THEN acc.zeros + 1 ELSE 0]

(* One byte of the payload: a 3 goes before a byte of at most 3 that       *)
(* follows two zeros.                                                      *)
EscapeByte(acc, b) ==
    IF acc.zeros >= 2 /\ b <= 3
      THEN [out |-> acc.out \o <<3, b>>, zeros |-> IF b = 0 THEN 1 ELSE 0]
      ELSE [out   |-> Append(acc.out, b),
            zeros |-> IF b = 0 THEN acc.zeros + 1 ELSE 0]

(* What there is after k bytes of the payload. *)
Escapes(payload) ==
    LET acc[k \in 0 .. Len(payload)] ==
            IF k = 0 THEN [out |-> <<>>, zeros |-> 0]
                     ELSE EscapeByte(acc[k - 1], payload[k])
    IN  acc

Escape(payload) == Escapes(payload)[Len(payload)].out

(* Type 5, user data without a registered owner, and the size unescaped;   *)
(* both are small enough for one byte.                                     *)
SeiNal(c, payload) ==
    StartCode(4) \o SeiHeader(c) \o <<5, Len(payload)>>
                 \o Escape(payload) \o <<128>>

(* Faulty: nothing for the escapes. *)
AllocatedExact(c) == 4 + Len(SeiHeader(c)) + 1 + 1 + PayloadSize + 1

(* The bytes allocated for it. *)
Allocated(c) ==
    4 + Len(SeiHeader(c)) + 1 + 1 + (PayloadSize + PayloadSize \div 2 + 4) + 1

-----------------------------------------------------------------------------
(* NAL units in a row of bytes.                                            *)

(* A unit of the hardware encoder: its kind, and the size of its start     *)
(* code.  "sei" is another one's user data; a slice is at least two bytes  *)
(* after its header.                                                       *)
Header(c, kind) ==
    IF c = "h264"
      THEN CASE kind = "aud" -> <<9>>   [] kind = "sps" -> <<103>>
             [] kind = "pps" -> <<104>> [] kind = "sei" -> <<6>>
             [] kind = "slice" -> <<101>>
      ELSE CASE kind = "aud" -> <<70, 1>> [] kind = "vps" -> <<64, 1>>
             [] kind = "sps" -> <<66, 1>> [] kind = "pps" -> <<68, 1>>
             [] kind = "sei" -> <<78, 1>> [] kind = "slice" -> <<38, 1>>

Content(kind) ==
    CASE kind = "sei"   -> <<5, 2, 165, 200, 128>>
      [] kind = "slice" -> <<0, 0, 3, 1, 184, 128>>
      [] OTHER          -> <<100, 0, 31, 128>>

Body(c, kind) == Header(c, kind) \o Content(kind)

(* The bytes of the first k units. *)
UnitPrefixes(c, us) ==
    LET bytes[k \in 0 .. Len(us)] ==
            IF k = 0 THEN <<>>
            ELSE bytes[k - 1] \o StartCode(us[k].start_code)
                              \o Body(c, us[k].kind)
    IN  bytes

UnitBytes(c, us) == UnitPrefixes(c, us)[Len(us)]

ParameterSets(c) ==
    IF c = "h264" THEN <<"sps", "pps">> ELSE <<"vps", "sps", "pps">>

NalType(c, b) == IF c = "h264" THEN b % 32 ELSE (b \div 2) % 64

ParameterSetTypes(c) == IF c = "h264" THEN {7, 8, 9} ELSE {32, 33, 34, 35}

(* find_nal_start_code: the size of the start code at i, 0 if none. *)
StartCodeSize(d, i) ==
    IF i + 2 > Len(d) \/ d[i] # 0 \/ d[i + 1] # 0 THEN 0
    ELSE IF d[i + 2] = 1 THEN 3
    ELSE IF i + 3 <= Len(d) /\ d[i + 2] = 0 /\ d[i + 3] = 1 THEN 4
    ELSE 0

StartCodes(d) == {i \in DOMAIN d : StartCodeSize(d, i) > 0}

(* Those found one after the other: three bytes that end a start code of   *)
(* four are no start code of their own.                                    *)
UnitStarts(d) ==
    {i \in StartCodes(d) : i = 1 \/ StartCodeSize(d, i - 1) # 4}

TypeAt(c, d, i) == NalType(c, d[i + StartCodeSize(d, i)])

(* Faulty: every unit is taken for the last. *)
PacketEnd(d, i) == Len(d) + 1

(* The index after the unit that starts at i. *)
UnitEnd(d, i) == Min({j \in UnitStarts(d) : j > i} \cup {Len(d) + 1})

-----------------------------------------------------------------------------
(* Insertion.                                                              *)

(* Faulty: the end of the first parameter set. *)
FirstParameterSetEnd(c, d) ==
    LET first == Min(UnitStarts(d))
    IN  IF TypeAt(c, d, first) \in ParameterSetTypes(c)
          THEN UnitEnd(d, first) - 1 ELSE 0

(* find_parameter_sets_end: the bytes before the first unit that is no     *)
(* parameter set or delimiter, 0 if that is the first.                     *)
ParameterSetsEnd(c, d) ==
    LET others == {i \in UnitStarts(d) :
                       TypeAt(c, d, i) \notin ParameterSetTypes(c)}
    IN  Min(others \cup {Len(d) + 1}) - 1

(* Faulty: the search starts behind the first byte. *)
FirstNalEndInside(d) ==
    LET ends == {pos \in 1 .. Len(d) - 4 : StartCodeSize(d, pos + 1) > 0}
    IN  IF ends = {} THEN 0 ELSE Min(ends)

(* QSV: the bytes before the second start code, 0 if there is none; the    *)
(* first four bytes are taken for the first.                               *)
FirstNalEnd(d) ==
    LET ends == {pos \in 4 .. Len(d) - 4 : StartCodeSize(d, pos + 1) > 0}
    IN  IF ends = {} THEN 0 ELSE Min(ends)

(* How many bytes of the encoder go before the SEI NAL unit: the parameter *)
(* sets; without any, or with nothing else but for the stamper, FFmpeg's   *)
(* backends begin with it, and QSV puts it after the first unit, or at the *)
(* end.                                                                    *)
InsertionPoint(c, b, d) ==
    LET end == ParameterSetsEnd(c, d)
    IN  IF end > 0 /\ (end < Len(d) \/ b = "stamper") THEN end
        ELSE IF b # "qsv" THEN 0
        ELSE IF FirstNalEnd(d) > 0 THEN FirstNalEnd(d)
        ELSE Len(d)

Insert(c, b, d, sei) ==
    LET n == InsertionPoint(c, b, d)
    IN  SubSeq(d, 1, n) \o sei \o SubSeq(d, n + 1, Len(d))

(* extract_h264_params, extract_h265_params: the first unit of each type,  *)
(* NULL if one is missing.  The extra data has the three in this order.    *)
ExtractParams(c, d) ==
    LET types == IF c = "h264" THEN <<7, 8>> ELSE <<32, 33, 34>>
        of(t) == {i \in UnitStarts(d) : TypeAt(c, d, i) = t}
        Unit(i) == SubSeq(d, i + StartCodeSize(d, i), UnitEnd(d, i) - 1)
    IN  IF \E k \in DOMAIN types : of(types[k]) = {}
          THEN NULL
          ELSE [k \in DOMAIN types |-> Unit(Min(of(types[k])))]

-----------------------------------------------------------------------------
(* The receiver.                                                           *)

(* The bytes of a SEI NAL unit's header for extract_sei_payload, which is  *)
(* not told the codec; 0 if it is none.                                    *)
SeiHeaderSize(b) ==
    IF b % 32 = 6 THEN 1 ELSE IF (b \div 2) % 64 \in {39, 40} THEN 2 ELSE 0

(* extract_sei_payload: from the first message of type 5 that fits to the  *)
(* end of the packet; <<>> if there is none.                               *)
ExtractSei(d) ==
    LET at(i) == i + StartCodeSize(d, i)
        message(i) == at(i) + SeiHeaderSize(d[at(i)])
        seis == {i \in StartCodes(d) :
                     /\ at(i) + 1 <= Len(d)
                     /\ SeiHeaderSize(d[at(i)]) > 0
                     /\ message(i) + 1 <= Len(d)
                     /\ d[message(i)] = 5
                     /\ message(i) + 1 + d[message(i) + 1] <= Len(d)}
    IN  IF seis = {} THEN <<>> ELSE SubSeq(d, message(Min(seis)) + 2, Len(d))

(* Faulty: a 3 is dropped after one zero. *)
DroppedAfterOne(d, i) == i >= 2 /\ d[i] = 3 /\ d[i - 1] = 0

(* A 3 after two zeros is dropped. *)
Dropped(d, i) == i >= 3 /\ d[i] = 3 /\ d[i - 1] = 0 /\ d[i - 2] = 0

(* What is left of the first i bytes. *)
Unescapes(d) ==
    LET out[i \in 0 .. Len(d)] ==
            IF i = 0 THEN <<>>
            ELSE IF Dropped(d, i) THEN out[i - 1]
            ELSE Append(out[i - 1], d[i])
    IN  out

Unescape(d) == Unescapes(d)[Len(d)]

(* parse_ntp_sei: what follows the first UUID in the first Limit bytes,    *)
(* unescaped; NULL if there is none.                                       *)
ParseNtpSei(d) ==
    LET all == Unescape(d)
        bytes == SubSeq(all, 1, Min({Len(all), Limit}))
        uuids == {i \in 1 .. Len(bytes) - PayloadSize + 1 :
                      SubSeq(bytes, i, i + Len(Uuid) - 1) = Uuid}
        pts == Min(uuids) + Len(Uuid)
        seconds == pts + PtsDigits
        fraction == seconds + SecondsDigits
        Number(i, n) == FromBytes(SubSeq(bytes, i, i + n - 1))
    IN  IF uuids = {}
          THEN NULL
          ELSE [pts      |-> Signed(Number(pts, PtsDigits), PtsDigits),
                seconds  |-> Number(seconds, SecondsDigits),
                fraction |-> Number(fraction, FractionDigits)]

-----------------------------------------------------------------------------
(* A keyframe on its way.                                                  *)

Init ==
    /\ codec \in Codecs /\ backend \in Backends
    /\ extra_data = NULL
    /\ stage = "idle"
    /\ stamped = NULL
    /\ nal = <<>> /\ units = <<>> /\ packet = <<>>
    /\ found = NULL

(* The encoder builds the SEI NAL unit. *)
BuildSei(s) ==
    /\ stage = "idle"
    /\ stamped' = s
    /\ nal' = SeiNal(codec, Payload(s))
    /\ stage' = "built"
    /\ UNCHANGED <<codec, backend, extra_data, units, packet, found>>

(* It puts it into the keyframe the hardware encoder made; QSV keeps the   *)
(* parameter sets of the first that has them.                              *)
InsertSei(us) ==
    /\ stage = "built"
    /\ units' = us
    /\ packet' = Insert(codec, backend, UnitBytes(codec, us), nal)
    /\ extra_data' = IF backend = "qsv" /\ extra_data = NULL
                       THEN ExtractParams(codec, UnitBytes(codec, us))
                       ELSE extra_data
    /\ stage' = "sent"
    /\ UNCHANGED <<codec, backend, stamped, nal, found>>

(* The decoder made no side data: the receiver searches the packet. *)
SearchPacket ==
    /\ stage = "sent"
    /\ found' = ParseNtpSei(ExtractSei(packet))
    /\ stage' = "searched"
    /\ UNCHANGED <<codec, backend, extra_data, stamped, nal, units, packet>>

(* The side data FFmpeg's decoder makes of a message is its payload, not   *)
(* escaped any more; that of the first message is what the receiver gets.  *)
SideData ==
    LET d == ExtractSei(packet)
    IN  IF Len(d) >= Len(Uuid) /\ SubSeq(d, 1, Len(Uuid)) = Uuid
          THEN Payload(stamped)
          ELSE SubSeq(Content("sei"), 3, 4)

SearchSideData ==
    /\ stage = "sent"
    /\ found' = ParseNtpSei(SideData)
    /\ stage' = "side_data"
    /\ UNCHANGED <<codec, backend, extra_data, stamped, nal, units, packet>>

(* The next keyframe. *)
NextKeyframe ==
    /\ stage \in {"searched", "side_data"}
    /\ stage' = "idle"
    /\ stamped' = NULL
    /\ nal' = <<>> /\ units' = <<>> /\ packet' = <<>>
    /\ found' = NULL
    /\ UNCHANGED <<codec, backend, extra_data>>

(* What a hardware encoder may emit: the units of a shape, the first with  *)
(* a start code of four bytes or of three, the others all with one size.   *)
Keyframes ==
    UNION {{[i \in DOMAIN shape |->
                [kind       |-> shape[i],
                 start_code |-> IF i = 1 THEN first ELSE others]] :
            first, others \in {3, 4}} : shape \in Shapes}

Encodes(c, us) ==
    \A i \in DOMAIN us : c = "h264" => us[i].kind # "vps"

Next ==
    \/ \E s \in Stamps : BuildSei(s)
    \/ \E us \in {k \in Keyframes : Encodes(codec, k)} : InsertSei(us)
    \/ SearchPacket
    \/ SearchSideData
    \/ NextKeyframe

Spec == Init /\ [][Next]_vars

-----------------------------------------------------------------------------
(* Properties.                                                             *)

(* The values of the variables.  The NAL unit fits the bytes allocated for *)
(* it, however many escapes the payload needs.                             *)
TypeOK ==
    /\ codec \in Codecs /\ backend \in Backends
    /\ stage \in {"idle", "built", "sent", "searched", "side_data"}
    /\ stamped \in Stamps \cup {NULL}
    /\ found \in Stamps \cup {NULL}
    /\ \A i \in DOMAIN nal : nal[i] \in 0 .. 255
    /\ \A i \in DOMAIN packet : packet[i] \in 0 .. 255
    /\ Len(nal) <= Allocated(codec)

(* The SEI NAL unit is one: behind its start code there is no other, and   *)
(* no bytes the standard forbids in a NAL unit, so that no decoder splits  *)
(* it, whatever time and PTS it carries.                                   *)
NoEmulation ==
    \A i \in 5 .. Len(nal) - 2 :
        ~(nal[i] = 0 /\ nal[i + 1] = 0 /\ nal[i + 2] <= 2)

(* What is stamped is what is found: searching the packet gives the        *)
(* receiver the PTS and time the encoder put in, wherever in the packet it *)
(* is, whatever precedes it and whichever the codec.                       *)
StampFound == stage = "searched" => found = stamped

(* The SEI NAL unit stands between the first n units of the encoder and    *)
(* the others, all of them whole.                                          *)
StandsAfter(n) ==
    packet = UnitBytes(codec, SubSeq(units, 1, n)) \o nal
               \o UnitBytes(codec, SubSeq(units, n + 1, Len(units)))

Delimits(unit) == unit.kind \in {"aud", "vps", "sps", "pps"}

(* No unit is cut: the receiver's decoder gets each unit of the encoder as *)
(* it was, for both sizes of start code and wherever the message goes.     *)
UnitsIntact == stage = "sent" => \E n \in 0 .. Len(units) : StandsAfter(n)

(* Parameter sets, SEI, slices: the message follows the parameter sets the *)
(* keyframe begins with and precedes the rest; all but QSV put it before   *)
(* every slice even when there are none.                                   *)
SeiBeforeSlices ==
    stage = "sent" =>
        (backend # "qsv" \/ Delimits(units[1]) =>
            \E n \in 0 .. Len(units) :
                /\ StandsAfter(n)
                /\ \A i \in 1 .. n : Delimits(units[i])
                /\ n > 0 \/ ~Delimits(units[1])
                /\ n < Len(units) => ~Delimits(units[n + 1]))

(* QSV's extra data has the parameter sets and nothing of their            *)
(* neighbours, whichever keyframe they were found in.                      *)
ExtraDataWhole ==
    extra_data # NULL =>
        extra_data = [k \in DOMAIN ParameterSets(codec) |->
                          Body(codec, ParameterSets(codec)[k])]

(* sei-handler.h:95, found and parsed: parse_ntp_sei reads the stamp in    *)
(* the side data of a frame with no other message, as it does in a packet. *)
SideDataParsed ==
    stage = "side_data" /\ (\A i \in DOMAIN units : units[i].kind # "sei") =>
        found = stamped
=============================================================================
