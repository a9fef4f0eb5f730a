# SEI Stamper in TLA+

SEI Stamper is an OBS Studio plugin. On the sending side it encodes video and
puts, into a SEI message of each keyframe, the time of an NTP server; on the
receiving side a source reads the stream over SRT, decodes it, finds the stamps
and shows each frame at the time they name, so that several receivers show the
same frame at once. This directory holds TLA+ modules translated from the C
code in `src/src/`, configurations that check them with TLC, and proofs that
TLAPS checks for every value of the constants. C files are named below without
their directory.

## 1. Inventory

| Component | State | Operations | Hard behaviour | What makes it correct |
|---|---|---|---|---|
| Receiver source, lifecycle and thread (`sei-receiver-source.c`) | `sei_receiver_source_t`: settings, `thread_active`, connection, decoders, hardware device, NTP client | `create`, `update`, `destroy`; the thread's connect, read, decode, reset, sync, exit | two threads on one structure with no lock, blocking calls, reconnects, failures at every step | one thread at most; nothing of a connection outlives it or its settings; every callback returns; it reconnects and resynchronises |
| NTP client (`ntp-client.c`) | `ntp_client_t`: flags, offset, the two times of the last sync | `init`, `sync`, `get_time`, `get_offset`, `destroy` | lost and delayed messages, rounding, an exchange interleaved with `init`, `destroy` and another exchange | offset within half the round trip; clock never ahead and boundedly behind; fields of one sync |
| Receiver timing (same file, 162-187, 610-757) | `pts_offset`, `has_pts_offset`, statistics | display time, PTS mapping, audio | stale offsets after a reconnect, units and epochs | two receivers show a stamped frame together; audio follows video |
| Frame buffer (same file, 41-151) | ring of 60 frames, two indices, a count, a semaphore | `push`, `pop`, `size`, `destroy` | full, empty, wrap, destruction | a bounded FIFO queue that leaks nothing. Exported; the plugin itself never calls it |
| SEI handler (`sei-handler.c`) | none | build payload, build NAL unit, parse, find the payload in a packet | emulation prevention, start codes of two lengths, ends of buffers | what is stamped is what is found |
| NVENC and AMD encoders | FFmpeg codec, NTP client, current stamp | `create`, `encode`, `destroy` | an encoder that returns packets late, synchronisation that fails | a stamp belongs to the frame it is on |
| QSV encoder | surface pool, bitstream buffer, extra data | the same, asynchronously | pool exhausted, device busy, failed sync operation | no frame's bits in another's packet |
| FFmpeg encoder (`sei-stamper-encoder.c`), "the stamper" below | as NVENC | the same; not registered by the plugin | every packet retries a failed sync | as NVENC |
| Unified encoder (`unified-encoder.c`) | the chosen backend | `create`, `encode`, `destroy` | backend that fails to open | each allocation has one owner |
| Plugin load (`sei-stamper-plugin.c`) | none | registration | none | |

How they interact. OBS calls a source's callbacks one at a time on its own
thread; `create` and `update` start the receive thread, `update` and `destroy`
stop it by lowering `thread_active` and joining. Both threads call
`ntp_client_sync` on the client inside the source. The thread hands each frame
to OBS, timed by the client's offset. Encoders call `ntp_client_sync` and
`ntp_client_get_time` from their `encode` callback and pass the result to the
SEI handler; the receiver's decode path passes packets to it.

The hazards of this code, each at its line and with the properties that cover it
or the reason none does yet, are listed in `PROJECT.json`.

## 2. Modules

| Module | Models | Role |
|---|---|---|
| `Session` | what a receiver promises its user | abstract specification |
| `Receiver` | the source's callbacks and its receive thread | detailed specification, properties |
| `ReceiverInv` | | inductive invariant of `Receiver` |
| `ReceiverProofs` | | theorems about `Receiver` |
| `MCReceiver` | | `Receiver` on small sets for TLC |
| `NtpClient` | `ntp-client.c` and the server it talks to | specification, properties, inductive invariant |
| `NtpClientProofs` | | theorems about `NtpClient` |
| `MCNtpClient` | | bounds for TLC |
| `ReceiverTiming` | which stamp a decoded frame gets, when the thread synchronises, when video and audio are shown | specification, properties, inductive invariant |
| `ReceiverTimingProofs` | | theorems about `ReceiverTiming` |
| `MCReceiverTiming` | | a stream for TLC |
| `BoundedQueue` | what the frame buffer promises its callers | abstract specification |
| `FrameBuffer` | the ring, its semaphore and the memory it exchanges with its callers | specification, properties, inductive invariant |
| `FrameBufferProofs` | | theorems about `FrameBuffer` |
| `MCFrameBuffer` | | a small ring for TLC |
| `Encoder` | the encode callback of the unified encoder over its FFmpeg and QSV backends, and of `sei-stamper-encoder.c` | specification, properties, inductive invariant |
| `EncoderProofs` | | theorems about `Encoder` |
| `MCEncoder` | | instance for TLC |
| `SeiCodec` | `sei-handler.c`, the insertion of its NAL unit by the encoders and the search for it by the receiver | operators, the path of a keyframe, properties |
| `SeiBytesProofs` | | what the byte codecs of `SeiCodec` compute, for every input |
| `SeiCodecProofs` | | theorems about `SeiCodec` |
| `MCSeiCodec` | | keyframes and a UUID for TLC |
| `UnifiedEncoder` | what `unified-encoder.c` and its backends allocate and free | specification, properties, inductive invariant |
| `UnifiedEncoderProofs` | | theorems about `UnifiedEncoder` |
| `MCUnifiedEncoder` | | encoders and addresses for TLC |

### Receiver

The variables are the fields of `sei_receiver_source_t` that control anything,
under their own names; `cpc` and `tpc` say where the control thread and the
receive thread stand; `req`, `ret` and `settings_changed` are locals of a
callback in progress; `fmt_ctx` is `try_connect`'s local. A pointer is `NULL`
or what it points to, as far as a property tells: an input is its address and
codec, a decoder its codec and device.

An action is the code between two points where the other thread can interfere:
a blocking call (join, connect, read, NTP exchange, sleep), or the next access
to a field both use. So `update` is a chain of steps: `Update`, `SetUrl`,
`SwitchNtp`, `EnableNtp` or `DisableNtp`, `ReleaseHw`, `StopForHw`, `SetHw`,
`StopForCodec`, `SetCodec`, `Restart`, with `Join` and `ControlSynced` where it
blocks, and `RecordSync` for the store after a successful exchange. `InitNtp` is
`ntp_client_init` in `create` and `update`, which may fail: then nothing is
exchanged, and `ntp_enabled` stays set with a client that is all zero. One iteration of the thread's loop is `LoopTop`, then `OpenInput`,
`InitHwDevice` and `OpenDecoder` (or `ConnectFails` and `Wake`), or one of
`ReadFails`, `SkipPacket`, `DecodeFails`, `DropFrame` and `DecodeFrame`, the
last followed by `ThreadSynced` when the policy asks for an exchange. What the
environment decides is a parameter: whether a call succeeds, whether a frame is
a keyframe, carries a stamp, comes after the interval or shows drift.

Abstractions: `last_ntp_sync_time` is 0 or 1, since the code asks first whether
it is zero and then how long ago it was, which is the parameter `elapsed`;
`decode_error_count` is capped by `MaxErrors`; the NTP client is its two flags,
its arithmetic being the business of `NtpClient`; audio is an allocated decoder
and no more.

`Session` is the receiver as a user sees it: an address configured while it is
stopped, sessions on that address, one at a time, closed before it stops.
`SessionView` maps `running` to "a thread exists" and `session` to the address
of the published input. It hides the decoders, the device, NTP, the failures
and both program counters.

### NtpClient

`now` is the local clock and the server's is `now + Theta`. `exchange[t]` is the
stack of `ntp_client_sync` on thread `t`: its place and T1 to T4. The server's
two actions are external to the repository. Messages may be delayed by any
amount or lost; `ReceiveNothing` is `recvfrom` returning -1, which the code
accepts, with the request still in the buffer, and `SyncFails` is the short
answer it refuses. The assignments at the end of the exchange are separate
steps, so two threads may interleave in them. `ns_to_ntp` and `ntp_to_ns` are
the code's arithmetic, the rounding, the seconds field that wraps and the branch
on `NTP_TIMESTAMP_DELTA` included, with `Second`, `Fraction`, `Era` and `Delta`
for 10^9, 2^32, 2^32 and 2208988800.

`heard` is a history variable: the exchange the offset was taken from.
`current_ntp_time` does not appear: `ntp_client_get_time` changes no field, so
it is the operator `CurrentTime`. The counters `sync_count` and `error_count`
are only logged.

### ReceiverTiming

This module follows a frame from the decoder to OBS. `now` is the Unix time on
the server and the receiver's own clock is `now - Theta`. The stream is given by
constants: the PTS of each frame, the time it was stamped at, and what its first
unregistered message is: `Sei` is "ours", "other" or "none". `DecodeFrame(f)`
puts the next packet into the decoder and takes any frame `f` out of it;
`StampOf` is the search for the stamp. A frame with side data has that of its
own packet; without, the packet just sent is searched, which may belong to a
later frame. The copy made of a hardware frame has no side data at all, so
there the fallback always applies. `ReadClock`, `SyncPolicy` and `ThreadSynced`
are the smart sync: the clock is read first (line 501) and the time on record
after it (509), where `update` may have stored a later one (1026, itself a read
of the clock, `ReadControlClock`, and a store, `RecordSync`); the difference of
the two is unsigned, modulo `Word`, and wraps then. `GoByStamp`, `PlaceByStamp` and `PlaceByPts` are
`calculate_display_time`, in two steps where `update` may switch NTP between
them; `DecodeAudio` and `DecodeAudioWithoutPts` are `decode_audio`. The PTS of
audio is in ticks of the stream, and `Nanoseconds` converts it as the code does,
by the time base the decoder happens to have or, if that is unset, by
1/`SampleRate`, which need not be the stream's. `SwitchNtp`
to `DestroyClient` are the part of `update` that touches the client. A lost
connection keeps `pts_offset`, as in the code.

An exchange is what `NtpClient` shows of it: an offset that is right but for
`MaxError`, or the one an unanswered exchange leaves, and `heard` tells them
apart. That a stamp is rounded is part of that error. `stored` and `clock`
are locals, `exchanged` and `updated` history: when the thread last went to the
server, and whether `update` has recorded a time since. Whether a frame is a
keyframe and whether its stamp shows drift are choices: for a hardware frame
the flag is that of a fresh copy. Video without a PTS is left out, as the
stream's muxer always writes one.

`AtOneMoment` is the purpose of the plugin: on every receiver whose offset comes
from an answer, a frame is shown at a fixed distance from the moment of its
stamp, within the error. Two receivers therefore differ by twice the error at
most (`SameMoment` in `ReceiverTimingProofs`). That the distance is 70 years is
`AtStampedMoment`'s finding.

### FrameBuffer

`frames`, `count`, `read_index`, `write_index` and `semaphore` are the struct.
Each thread's `call` says where in an operation it stands: waiting for the
semaphore, inside, between the two stores of a push (`StoreFrame`, `CopyData`,
`PushFrame`) or of a pop (`TakeFrame`, `PopFrame`), about to post. `memory` gives
each block the frame whose pixels it holds; callers free what they own when
they are back. A frame is an identity and a block. Frames with a pointer and a
size of zero, for which the code would keep the caller's pointer, are left out.
The plugin creates and destroys the buffer and calls nothing else of it, so the
callers are external: threads that do not call any more when it is destroyed.

`OnlyDestroyLoses` says that every block stays with a caller or in the ring
until `destroy`; that `destroy` then frees them all, as its comment says, is
`DestroyFreesAll`, which it does not (see `frame_buffer_destroy` below).

`BoundedQueue` is the buffer as its callers see it: each operation at one
instant, on a sequence. The mapping takes the slots from `read_index` on,
`count` of them, and the instant of an operation is its last store.

### Encoder

One call of `encode` is up to four steps: the frame goes to the backend and a
packet may come back (one action for each way this can end: `FrameRefused`,
`NoPacketYet` and `ReceivePacket` for FFmpeg's encoders, `NoFreeSurface`,
`MoreData`, `DeviceBusy`, `SyncOperationFails` and `EncodeFrameAsync` for QSV);
`UpdateNtp` decides on an exchange; `Synced` is its return; `Stamp` reads the
time and makes OBS's packet. There is one thread, but time passes between the
steps, and an exchange takes up to five seconds. NVENC and AMD share their code
line by line and are one backend, "ffmpeg". The encoder of
`sei-stamper-encoder.c` is a third, "stamper": it can have NTP off or a codec
that takes no message (AV1), its create makes an exchange (`Created`) and records
no time of it, and it records the time of a later exchange after it and only
when it succeeded.

A frame is its PTS, a count, and the time it was handed over, and the bits of a
packet are the set of frames they encode, which is what the properties tell
apart. The NTP client is the clock its time follows: "server", or "self" after
the lost answer of `ntp_lost_reply`, or "none". It lags behind that clock by
what `NtpClient`'s `ClockLagBounded` allows, any amount up to the time the
exchange took and `Rounding`, since the client takes the server's time for the
one at which the answer arrived; how long the exchange took goes with each
stamp. Which frame's
packet the hardware gives back is a choice, as is whether a keyframe's parameter
sets are found. `delivered` and `asked` are history variables: the frames OBS
has had bits of, and when the last exchange began.

FFmpeg's encoders keep `Depth` frames too: the codec's delay is bounded by its
configuration. Where in the packet the SEI message goes is left to `SeiCodec`.

### SeiCodec

The operators are the functions of `sei-handler.c` and of the encoders on rows
of bytes; the variables take one keyframe after the other through them:
`BuildSei`, `InsertSei`, and one of `SearchPacket` and `SearchSideData`, as the
receiver has side data or not. The three ways to choose the place of the SEI
message are `InsertionPoint`'s backends. Loops over start codes are sets of positions
and their minimum; escaping, unescaping and numbers are recursive functions, one
value for each byte a loop has been through. Bytes are the code's. The base
of the numbers, how many digits each has, and the UUID are constants: 256, 8,
4 and 4 bytes, and 16 bytes in the code. TLC has digits 0 to 3, four of them
altogether, and the first two bytes of the UUID: only the bytes up to 3 matter
to emulation prevention, and every row of four of them occurs, across the
fields too. The theorems hold for the code's values. The encoder's NAL units
are of every kind, with start codes of three and of four bytes, another
message's user data and escaped bytes of their own. FFmpeg's decoder, which
unescapes the message it makes side data of, is external. AV1, which has no NAL
units, is left out.

### UnifiedEncoder

The heap gives each address the parts allocated for the object there: the
struct, the strings, the codec context and so on. Each encoder has the
pointers `enc` (OBS's), `backend` (first the placeholder, then the object) and
`object`, a local of the backend's create. `Allocate`, `Place`,
`CreateInternal`, `Open` and `Succeed` are a create that goes well; `NoVideo`,
`NotBuilt`, `UnknownHardware`, `OpenFails` and `BuffersFail` its failures, with what each frees and
forgets. A free address may be allocated again, by another encoder too, so that
a stale pointer would be seen. Which backends are compiled in is a choice of
`Builds`. The pool of surfaces is one part: a QSV create that fails among the
surfaces leaves whatever it has. A setting is one of the three kinds of
hardware, a number too large, or a negative one: only the upper bound is
checked, so with `SignedEnums` (MSVC) a negative one stays and reaches the
default branch of `create`. `leaked` is a history variable: what QSV leaves
allocated besides whole objects. That is the session, which its destroy does
not close, the data of each packet, and the copy of a PPS that a search gives up
without its SPS.

## 3. Runs

| Run | Checks | Result |
|---|---|---|
| `receiver` | `TypeOK`, `JoinedMeansClean`, `FlagMatchesThread`, `SettingsInEffect`, `NoClientWhenOff`, `SyncedIsRefreshed`, `ConfigOnlyWhileStopped`, `SessionSpec`, `ControlReturns`, `Reconnects`, `SyncRetried` | holds, 260 thousand states |
| `ntp_client` | `TypeOK`, `OffsetAccurate`, `ClockNeverLeads`, `ClockLagBounded` | holds, 190 thousand states |
| `receiver_timing` | `TypeOK`, `AtOneMoment`, `StampOwnOrLater`, `AudioByLastShown`, `ShownInOrder`, `SyncsSpaced` | holds, 4.7 million states |
| `frame_buffer` | `TypeOK`, `PixelsIntact`, `OneOwner`, `OnlyDestroyLoses`, `QueueSpec` | holds, 107 thousand states, up to symmetry |
| `encoder` | `TypeOK`, `FrameInOnePacket`, `StampAgeBounded`, `ExchangesSpaced`, `DtsIncreases` | holds, 2.5 million states |
| `sei_codec` | `TypeOK`, `NoEmulation`, `StampFound`, `UnitsIntact`, `SeiBeforeSlices`, `ExtraDataWhole` | holds, 196 thousand states |
| `unified_encoder` | `TypeOK`, `Owned`, `LosesNothingElse` | holds, 16 thousand states, up to symmetry |
| `ntp_lost_reply` | `SyncedMeansAnswered` | violated |
| `sei_side_data` | `SideDataParsed` | violated |
| `receiver_audio` | `AudioFollowsVideo` | violated |
| `receiver_stamped_moment` | `AtStampedMoment` | violated |
| `frame_buffer_destroy` | `DestroyFreesAll` | violated |

What the violated ones show of the code:

* `ntp_lost_reply`: an `int` is compared with a `size_t`, so the -1 of a timeout
  passes for a whole answer. The client becomes synchronised with an offset
  made from zeros and its own request.
* `sei_side_data`: `parse_ntp_sei` unescapes side data that FFmpeg has unescaped
  already, so a stamp that happens to hold the bytes 0, 0, 3 loses one and is
  not found. A frame count from 768 to 1023 as PTS is enough.
* `receiver_audio`: `pts_offset` is the display time of a video frame minus its
  PTS in ticks, and is added to the PTS of audio in nanoseconds. The conversion
  the code makes (line 410) goes into a variable nothing reads. What does hold
  is `AudioByLastShown`: audio goes by the offset of the frame shown last.
  Whether the nanoseconds are right is another matter, as their time base is the
  decoder's and not the stream's.
* `receiver_stamped_moment`: the stamp counts from 1900 and the offset is the
  difference of two Unix-based times; subtracting one from the other leaves
  `NTP_TIMESTAMP_DELTA` in the timestamp OBS is given. As each receiver makes
  the same mistake, `AtOneMoment` holds all the same.
* `frame_buffer_destroy`: `destroy` frees the slots before `count`, not the
  `count` slots from `read_index` on. A push without pixels, one with, a pop and
  `destroy`: slot 0 is looked at, and the pixels in slot 1 stay.

Three places where a comment disagrees with the code and a property that holds
describes the code; each is listed under `findings` with that property:

* `ntp-client.h:92` documents the offset as local minus NTP time.
  `ntp_client_sync` computes, and the receiver uses, the opposite, as
  `OffsetAccurate` says.
* `sei-handler.h:27` and `:44` call the PTS of the message the frame's own. It is
  that of the frame just sent, and the packet may be of an earlier one
  (`Encoder!Stamp`). `StampAgeBounded` is about the stamp, whatever the PTS; the
  receiver uses the stamp only.
* `sei-receiver-source.c:503` promises a minimal interval between exchanges. A
  time that `update` records between the thread's reading of the clock and of
  the record makes the difference wrap, so that the thread exchanges again at
  once, and line 559 puts an older time over `update`'s. `SyncsSpaced` has an
  exception for it (`updated`).

Also seen while modelling, each visible in an action of a module:

* `reset_decoder` opens the stream's own codec, so a codec the user chose lasts
  until the decoder is reset (`Receiver!ResetDecoder`).
* A receiver whose `ntp_client_init` fails keeps `ntp_enabled` set: its frames go
  by offset 0 until NTP is switched off and on (`Receiver!InitNtp`).
* When the first exchange of a receiver fails, `last_ntp_sync_time` stays 0, the
  elapsed time the policy computes stays 0, and no keyframe or drift triggers
  another. Only switching NTP off and on does (`ReceiverTiming!SinceSync`).
* `update` releases the hardware device and then stops the thread, which may
  create one in between. It stays in the context though the setting is "none";
  it is not used, as `hw_decode_enabled` is down by then (`Receiver!ReleaseHw`).
* With two threads in `ntp_client_sync`, one's answer time can be kept with the
  other's server time (`NtpClient!SetLocalTime`). A receiver's display times use
  the offset only, which is one store.
* A decoder reset that fails leaves a connected source without a decoder until
  the next read error or callback (`Receiver!DecoderLost`).
* The stamper retries a failed exchange at each packet, and exchanges again at
  its first packet after the one of its create (`Encoder!Synced`, `Created`).
* With NVENC or AMD and AV1 the message is still built as an H.264 NAL unit and
  put at the start of the packet; the stamper skips AV1.
* The unified encoder's defaults name the interval `ntp_sync_interval_ms`, the
  backends read `ntp_sync_interval`, so it is always 60 seconds; they also read
  neither `ntp_enabled` nor `ntp_port`.
* Each successful create of the unified encoder loses the placeholder, a struct;
  a QSV create that fails after its session is open loses the object; QSV's
  destroy does not close the session, nobody frees the data of its packets, and
  a search for parameter sets can forget a PPS (`LosesNothingElse`).
* A negative hardware setting stays where enums are signed, and indexes
  `hardware_type_names` out of range before the default branch refuses it
  (`UnifiedEncoder!UnknownHardware`).
* Audio without a PTS goes out with the timestamp zero
  (`ReceiverTiming!DecodeAudioWithoutPts`).

Bounds. `receiver` has two addresses, one device type besides "none", and one
codec besides "auto": a setting can change to another value, and a device be
left in the context when the setting is none. The reset threshold is 1: the
first failed decode resets the decoder. Several types and a count below the
threshold are left to the theorems, which hold for any, and which state all of
the run's properties but the three of liveness. Each failure at each place of the
thread is reachable, and no constraint cuts the state space. The client's clock
in `ntp_client` is scaled
down: seconds of 3 units, fractions of 4 so that both conversions round, 12 time
units so that an exchange can take as long as several seconds and stamps cross
seconds. `Theta` is 5, so the server is more than a second ahead, and not a
whole number of seconds. `Era` is the smallest the assumption allows in effect,
and `MaxTime` is the only bound that stops anything: when `now` reaches it, time
stands still and everything else goes on. `receiver_timing`
has a stream of three frames, ours, another's and ours again (that one without a
message falls back to the packet is seen with hardware frames, which never have
one), whose PTS start again with the third; a decoder that may keep all of them, with
a time base or without; a receiver 5 units behind the server, an error of one
unit in either direction, and three instants, with an interval of one: two
exchanges of the thread fit, and those of `update` at any moment, a record
between the thread's two reads included. The times stay below `Word` but where
the difference wraps. An era of 40 units tells every mistake with `Delta` apart.
`frame_buffer` has two threads, as the header speaks of a producer and a
consumer, two frames and a ring of two, which wraps at once, with blocks for
every slot and caller. `encoder` has two frames kept back out
of three and an interval of one unit in a time of five: the pool fills and
empties, a failed sync operation's bits meet another frame's, packets are
reordered, three exchanges fit, failed or not, and one can take several units,
which is how much older than its frame a stamp may then be. OBS stops calling after
`MaxFrames`, when `Destroy` is still possible. `unified_encoder` has two
encoders and six addresses: three are in use by an encoder in the middle of its
create, so what one has lost is there while the other goes on.

`sei_codec` tries all 256 stamps on ten shapes of keyframe with four choices of
start codes, for both codecs and the three ways to insert; the `Limit` of the parser
is longer than what may precede the message and shorter than most packets.

Fairness, in `receiver` only. `WF_vars(ControlStep)` and
`WF_vars(ThreadStep)`: both threads are scheduled and each blocking call
returns; the connect and the read carry a timeout, the exchange one of five
seconds, and the pause two. Nothing obliges OBS to call `update` or `destroy`.
The strong conditions say of the environment that a sender reachable again and
again is reached in the end, that its stream goes on having stamped keyframes
beyond the interval, and that an NTP server is not unlucky for ever. The first
two are only about `Reconnects`, the last two only about `SyncRetried`;
`ControlReturns` needs neither. `CHECK_DEADLOCK` is left on where an action
stands for the end (`Destroyed`, after `destroy`). It is off in
`receiver_timing`, whose stream and time end, and in `unified_encoder`, where
the memory create loses uses up the addresses; neither has a thread that waits
for another.

Each property of a passing run is also run against a definition with a
plausible mistake, found beside the original and marked "Faulty"; TLC then finds
that property violated. Which goes with which is in `PROJECT.json`.

## 4. Proofs

`ReceiverProofs` proves `Spec => []IInv` for any sets of addresses, codecs and
device types and any threshold. The properties are not inductive alone. That
`FlagMatchesThread` holds after `Restart` needs to know at which places of
`update` a thread can exist, so `IInv` says which places of the control thread
go with which of the receive thread, and where a join may return to; that
`JoinedMeansClean` holds after the exit needs to know where in the loop each
part of a connection may be present; that `SettingsInEffect` holds needs to know
that hardware decoding is only on with a type set, and what the request asks
while it is carried out; that `NoClientWhenOff` holds needs to know what the
client is at each place of the switch, its initialisation having succeeded or
failed. From `IInv` follow, as theorems, the type
invariant, the five safety properties, `ConfigOnlyWhileStopped` as an action
property, and `ImplementsSession`: every step of `Receiver` is a step of
`Session` or leaves it as it is. The main step lemma has a case for each action
of `Next`.

Two more theorems are the safety in `ControlReturns`. `JoinsHaveThreads`: a join
never waits for a thread that is not there. `CallbacksAdvance`: `CallbackSteps`,
at most 14, falls with each step of the control thread and does not change with
one of the receive thread; and while the control thread joins, `ThreadSteps`, at
most 7, falls with each step of the receive thread, whichever way its connect,
read, decode or exchange ends. So `update` and `destroy` can only hang if a
thread stops taking steps, which `WF_vars(ControlStep)` and `WF_vars(ThreadStep)`
exclude and TLC's deadlock check confirms for its instances.

`NtpClientProofs` first proves, from integer arithmetic, what the two
conversions do for any `Second <= Fraction`: there and back is never later, and
earlier by at most one unit. Then, for a client used by one thread
(`Threads = {Owner}`, as an encoder's is), that `NtpClient!IInv` is inductive:
each timestamp of an answered exchange lies between the local times around it.
From it follow `OffsetAccurate`, `ClockNeverLeads` and `ClockLagBounded` with
bounds that do not depend on any constant. `TypeCorrect` needs no such
hypothesis. For two threads the three are not claimed: their assignments
interleave, as said above.

`ReceiverTimingProofs` proves `Spec => []IInv` for any stream, time bases, offset
of the clocks, error, interval, word size and era. `IInv` adds to the properties that an offset
with `heard` is within the error; that the decoder holds frames of this
connection only, all before the next packet; that the thread's last exchange
is on record unless `update` has recorded one since, and is not after the clock
the next policy goes by; and that the offset in force is the
one of the frame shown last, which is what carries `AudioByLastShown` over
reconnects, audio in between, and changes of NTP. `AtOneMoment`,
`StampOwnOrLater` and `AudioByLastShown` follow, and from them `ShownInOrder` and
`SyncsSpaced` as action properties.

`FrameBufferProofs` proves `Spec => []IInv` for any capacity, threads, frames and
blocks, and that `FrameBuffer` implements `BoundedQueue`. `IInv` says that one
thread is inside at a time, what a call holds at each of its places, that
`write_index` is `count` places after `read_index` round the ring, and that
outside the ring no slot points to a block but the one being written. The
refinement needs lemmas about `%` (a place moves by one when `read_index` does)
and about the sequence `Contents`, which a push appends to and a pop takes the
head of.

`UnifiedEncoderProofs` proves `Spec => []IInv` for any encoders, addresses and
builds, with enums signed or not. `IInv` says which pointers an encoder has at each stage, what is
allocated behind them, and that no two encoders reach one object; the last is
why a step of one leaves the others as they are. `Owned` is a consequence and
`LosesNothingElse` an action property: what `destroy` forgets would stay behind,
so it needs that a backend never holds a part its destroy does not free, but for
QSV's session.

`EncoderProofs` proves `Spec => []IInv` for any backends, depth, interval and
number of frames. `IInv` says where each frame is (with the backend, in the
bitstream buffer, in a packet, in one place only), that the frame whose packet
was received has left the backend and not been delivered, that packets are older
than the call in progress, that a client without a clock never gave a stamp, and
that another lags by at most the exchange it rests on and the rounding.
Why only the stamper may exchange sooner is its last part: for the others the
time on record is that of the last exchange. The calls differ in what they leave where,
so two lemmas, `Returns` and `Gets`, serve all eight. The five properties of the run follow, each as a theorem.

`SeiBytesProofs` is about the loops over bytes. What a recursive function
computes is proved by induction over a set of naturals: the least number outside
the set would contradict the step (`LeastNat`, from the library's well-founded
induction), and `IntervalRecursion` gives a recursion whose step is a function.
The results: `Values` reads what `ToBytes` wrote, in any base and with the sign
of a PTS (`FromToBytes`, `SignedFromToBytes`); escaped bytes have no two zeros
before a byte of at most 2 and are at most half as many again (`EscapeIs`); and
`Unescape` gives back what was escaped, whatever stands before and behind it
(`UnescapeEscape`). `CodecsInvert` states the two inversions by themselves.

`SeiCodecProofs` proves the properties of the run for any shapes of keyframes,
any base up to 256 and any number of digits, those of the code included. Its
inductive invariant is `Origin`: what is in the NAL unit, the units, the packet
and the extra data is what the functions of the codec make of the stamp and of
some keyframe. It is inductive as it stands; the work is in what those functions
make. A lemma finds the start codes: in the bytes of a row of units they are
where the units begin and nowhere else, with three bytes or four, and stay so
when the SEI message is put between two units. From it
follow where the parameter sets end (`UnitsIntact`, `SeiBeforeSlices`) and what
QSV extracts (`ExtraDataWhole`). `StampFound` has two cases. If the receiver's
search hits the SEI message first, the payload begins with the UUID. If it hits
another one's user data, at most eleven bytes are before the payload, in which
no UUID begins and nothing is dropped, and they and the payload are within the
bytes the parser looks at. The second case arises only where QSV, without
parameter sets at the front, puts the message right behind the first unit.

The assumptions are the named `ConstantsAssumption` of each module, which TLC
evaluates in each run. In `NtpClient` they say that the fraction is finer than
the clock, that OBS runs a second or more after boot, and that the server's
clock is between the second second of 1970 and the end of the NTP era in 2036.
In `ReceiverTiming` they say that the interval is not zero, which `create` sees
to, and that the receiver's clock reads more than zero. In `SeiCodec` they say
that the size of a payload fits a byte (it is 32), that the parser looks at
eleven bytes more than a payload has (it looks at 2048), that a digit is a byte,
and how the UUID begins; `ShapesAssumption` says that a keyframe has a slice.

Only model-checked: the three liveness properties, since TLAPS does not reason
about fairness and `ENABLED` (of `ControlReturns` all but that is proved), and
the violated properties, which are false.

## 5. Not modelled

* The receiver's statistics, which feed its log only (the detection rate can
  exceed 100% by a frame, and packets that gave no frame count as rendered).
* A create of the stamper that fails; it releases everything by its destroy.
* The layout of the extra data QSV builds, SEI in AV1, and other messages longer
  than what the parser looks at.
* `pthread_create` is taken to succeed (its result is ignored by the code), and
  memory to be available.
* References to a hardware device are not counted, so that a device is
  overwritten without release on reconnect is not visible.
* Torn reads of single machine words by the two threads: each field is read and
  written whole.
* Inside FFmpeg, SRT and OBS: modelled by what their calls may return.
* `ntp_client_needs_resync` and `merge_sei_data`, called nowhere; registration;
  build files; locale.

## 6. Plan

1. `Receiver`, `Session`: done, proved.
2. `NtpClient`: done, proved.
3. `Encoder`, for all three kinds of backend: done, proved.
4. `SeiCodec`: done, proved.
5. `ReceiverTiming`: done, proved.
6. `FrameBuffer`, `BoundedQueue`: done, proved with the refinement.
7. `UnifiedEncoder`: done, proved.
8. End to end: `Encoder`, `SeiCodec`'s contract and `ReceiverTiming` composed, two
   receivers showing a frame within the bound the two clocks allow.
