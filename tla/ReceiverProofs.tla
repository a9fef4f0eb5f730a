--------------------------- MODULE ReceiverProofs ---------------------------
(***************************************************************************)
(* The safety properties of Receiver, for every set of addresses, codecs   *)
(* and hardware types and every error threshold.  IInv is shown inductive  *)
(* one part at a time; the properties follow from it, and so does the      *)
(* implementation of Session.                                              *)
(***************************************************************************)
EXTENDS ReceiverInv, TLAPS

(* Every value the code gives the NTP client is one of its type. *)
LEMMA Clients ==
    /\ ZeroClient \in NtpClients
    /\ InitClient \in NtpClients
    /\ \A c \in NtpClients : Answered(c) \in NtpClients
BY DEF ZeroClient, InitClient, NtpClients, Answered

(* The fields of the settings OBS passes to update. *)
LEMMA SettingsFields ==
    \A r \in Settings : /\ r.url \in Urls
                        /\ r.codec \in Codecs \cup {AutoCodec}
                        /\ r.hw \in HwTypes \cup {NoHw}
                        /\ r.ntp \in BOOLEAN
BY DEF Settings

(* Inputs and decoders as try_connect and reset_decoder build them. *)
LEMMA RecordTypes ==
    /\ \A u \in Urls, c \in Codecs : [url |-> u, codec |-> c] \in Inputs
    /\ \A i \in Inputs : i.url \in Urls /\ i.codec \in Codecs
    /\ \A c \in Codecs, d \in HwTypes \cup {NULL} :
           [codec |-> c, device |-> d] \in Decoders
BY DEF Inputs, Decoders

(* The receive thread writes nothing the control thread owns. *)
LEMMA ThreadKeepsControl == ThreadStep => UNCHANGED controlVars
BY DEF ThreadStep, controlVars, LoopTop, ConnectFails, Wake, ReadFails,
       SkipPacket, ThreadExit, OpenInput, InitHwDevice, OpenDecoder,
       DecodeFails, DropFrame, ThreadSynced, DecodeFrame

(* The callbacks write no field of the connection before it is freed. *)
LEMMA ControlKeepsReceive ==
    ASSUME ControlStep \/ (\E r \in Settings : Update(r)) \/ Destroy
    PROVE  Free \/ UNCHANGED receiveVars
BY DEF ControlStep, receiveVars, Create, Join, SetUrl, SwitchNtp, EnableNtp,
       DisableNtp, ReleaseHw, StopForHw, SetHw, StopForCodec, SetCodec,
       Restart, ControlSynced, RecordSync, Update, Destroy

(* Every step keeps the types of the control thread's fields. *)
LEMMA ControlTypeStep ==
    ASSUME IInv, [Next]_vars
    PROVE  ControlTypeOK'
<1> USE DEF IInv, TypeOK, ControlTypeOK
<1>1. ASSUME NEW ok \in BOOLEAN, Create(ok) \/ EnableNtp(ok)
      PROVE  ControlTypeOK'
  BY <1>1 DEF Create, EnableNtp, InitNtp, cfgVars
<1>2. CASE Join
  BY <1>2 DEF Join, cfgVars
<1>3. CASE SetUrl
  BY <1>3, SettingsFields DEF SetUrl, Places, InUpdate
<1>4. CASE SwitchNtp
  BY <1>4, SettingsFields DEF SwitchNtp, Places, InUpdate, cfgVars
<1>5. CASE RecordSync
  BY <1>5 DEF RecordSync, cfgVars
<1>6. CASE DisableNtp
  BY <1>6 DEF DisableNtp, cfgVars
<1>7. CASE ReleaseHw
  BY <1>7 DEF ReleaseHw, cfgVars
<1>8. CASE StopForHw
  BY <1>8 DEF StopForHw, StopReceiver, cfgVars
<1>9. CASE SetHw
  BY <1>9, SettingsFields DEF SetHw, Places, InUpdate
<1>10. CASE StopForCodec
  BY <1>10 DEF StopForCodec, StopReceiver, cfgVars
<1>11. CASE SetCodec
  BY <1>11, SettingsFields DEF SetCodec, Places, InUpdate
<1>12. CASE Restart
  BY <1>12 DEF Restart, StartReceiver, cfgVars
<1>13. CASE Free
  BY <1>13 DEF Free, cfgVars
<1>14. ASSUME NEW ok \in BOOLEAN, ControlSynced(ok)
       PROVE  ControlTypeOK'
  BY <1>14 DEF ControlSynced, cfgVars
<1>15. ASSUME NEW r \in Settings, Update(r)
       PROVE  ControlTypeOK'
  BY <1>15 DEF Update, StopReceiver, cfgVars
<1>16. CASE Destroy
  BY <1>16 DEF Destroy, StopReceiver, cfgVars
<1>17. CASE UNCHANGED controlVars
  BY <1>17 DEF controlVars, ctlVars, cfgVars
<1>18. QED
  BY <1>1, <1>2, <1>3, <1>4, <1>5, <1>6, <1>7, <1>8, <1>9, <1>10, <1>11,
     <1>12, <1>13, <1>14, <1>15, <1>16, <1>17, ThreadKeepsControl
     DEF Next, ControlStep, Destroyed, vars

(* Every step keeps the types of the connection's fields. *)
LEMMA ReceiveTypeStep ==
    ASSUME IInv, [Next]_vars
    PROVE  ReceiveTypeOK'
<1> USE DEF IInv, TypeOK, ReceiveTypeOK
<1>1. CASE Free
  BY <1>1 DEF Free
<1>2. CASE LoopTop \/ Wake \/ SkipPacket
  BY <1>2 DEF LoopTop, Wake, SkipPacket, connVars
<1>3. CASE ConnectFails
  BY <1>3 DEF ConnectFails, connVars
<1>4. CASE ReadFails
  BY <1>4 DEF ReadFails, CleanupConnection
<1>5. CASE ThreadExit
  BY <1>5 DEF ThreadExit, CleanupConnection
<1>6. ASSUME NEW codec \in Codecs, OpenInput(codec)
      PROVE  ReceiveTypeOK'
  BY <1>6, RecordTypes DEF OpenInput, ControlTypeOK, connVars
<1>7. ASSUME NEW ok \in BOOLEAN, InitHwDevice(ok) \/ ThreadSynced(ok)
      PROVE  ReceiveTypeOK'
  BY <1>7 DEF InitHwDevice, ThreadSynced, connVars
<1>8. ASSUME NEW ok \in BOOLEAN, OpenDecoder(ok)
      PROVE  ReceiveTypeOK'
  <2>1. fmt_ctx \in Inputs
    BY <1>8 DEF OpenDecoder, Connection
  <2>2. SelectedCodec(fmt_ctx) \in Codecs
    BY <2>1, RecordTypes DEF SelectedCodec, ControlTypeOK
  <2>3. AttachedDevice \in HwTypes \cup {NULL}
    BY DEF AttachedDevice, SharedTypeOK
  <2>4. QED
    BY <1>8, <2>1, <2>2, <2>3, RecordTypes DEF OpenDecoder
<1>9. ASSUME NEW ok \in BOOLEAN, DecodeFails(ok)
      PROVE  ReceiveTypeOK'
  <2>1. format_context \in Inputs
    BY <1>9 DEF DecodeFails, Connection
  <2>2. format_context.codec \in Codecs
    BY <2>1, RecordTypes
  <2>3. AttachedDevice \in HwTypes \cup {NULL}
    BY DEF AttachedDevice, SharedTypeOK
  <2>4. decode_error_count + 1 \in 0 .. MaxErrors
    BY <1>9, ConstantsAssumption DEF DecodeFails
  <2>5. codec_context' \in Decoders \cup {NULL}
    BY <1>9, <2>2, <2>3, RecordTypes DEF DecodeFails, ResetDecoder
  <2>6. decode_error_count' \in 0 .. MaxErrors
    BY <1>9, <2>4, ConstantsAssumption DEF DecodeFails, ResetDecoder
  <2>7. QED
    BY <1>9, <2>5, <2>6 DEF DecodeFails
<1>10. ASSUME NEW ok \in BOOLEAN, DropFrame(ok)
       PROVE  ReceiveTypeOK'
  BY <1>10, ConstantsAssumption DEF DropFrame
<1>11. ASSUME NEW sei \in BOOLEAN, NEW keyframe \in BOOLEAN,
              NEW elapsed \in BOOLEAN, NEW drifted \in BOOLEAN,
              DecodeFrame(sei, keyframe, elapsed, drifted)
       PROVE  ReceiveTypeOK'
  BY <1>11, ConstantsAssumption DEF DecodeFrame
<1>12. CASE UNCHANGED receiveVars
  BY <1>12 DEF receiveVars, connVars
<1>13. QED
  BY <1>1, <1>2, <1>3, <1>4, <1>5, <1>6, <1>7, <1>8, <1>9, <1>10, <1>11,
     <1>12, ControlKeepsReceive DEF Next, ThreadStep, Destroyed, vars

(* Every step keeps the types of the fields both threads write. *)
LEMMA SharedTypeStep ==
    ASSUME IInv, [Next]_vars
    PROVE  SharedTypeOK'
<1> USE DEF IInv, TypeOK, SharedTypeOK, hwVars, ntpVars
<1>1. ASSUME NEW ok \in BOOLEAN,
             Create(ok) \/ EnableNtp(ok) \/ Free \/ DisableNtp
      PROVE  SharedTypeOK'
  BY <1>1, Clients DEF Create, InitNtp, Free, EnableNtp, DisableNtp
<1>2. CASE Join
  BY <1>2 DEF Join
<1>3. CASE SetUrl \/ SwitchNtp \/ SetCodec \/ Destroy \/ RecordSync
  BY <1>3 DEF SetUrl, SwitchNtp, SetCodec, Destroy, RecordSync
<1>4. CASE ReleaseHw \/ StopForHw \/ StopForCodec
  BY <1>4 DEF ReleaseHw, StopForHw, StopForCodec
<1>5. CASE SetHw
  BY <1>5 DEF SetHw
<1>6. CASE Restart
  BY <1>6 DEF Restart, StartReceiver
<1>7. ASSUME NEW ok \in BOOLEAN, ControlSynced(ok) \/ ThreadSynced(ok)
      PROVE  SharedTypeOK'
  BY <1>7, Clients DEF ControlSynced, ThreadSynced
<1>8. ASSUME NEW r \in Settings, Update(r)
      PROVE  SharedTypeOK'
  BY <1>8 DEF Update
<1>9. CASE LoopTop \/ ConnectFails \/ Wake \/ ReadFails \/ SkipPacket
           \/ ThreadExit
  BY <1>9 DEF LoopTop, ConnectFails, Wake, ReadFails, SkipPacket, ThreadExit
<1>10. ASSUME NEW codec \in Codecs, OpenInput(codec)
       PROVE  SharedTypeOK'
  BY <1>10 DEF OpenInput
<1>11. ASSUME NEW ok \in BOOLEAN, InitHwDevice(ok)
       PROVE  SharedTypeOK'
  BY <1>11 DEF InitHwDevice, Device
<1>12. ASSUME NEW ok \in BOOLEAN,
              OpenDecoder(ok) \/ DecodeFails(ok) \/ DropFrame(ok)
       PROVE  SharedTypeOK'
  BY <1>12 DEF OpenDecoder, DecodeFails, DropFrame
<1>13. ASSUME NEW sei \in BOOLEAN, NEW keyframe \in BOOLEAN,
              NEW elapsed \in BOOLEAN, NEW drifted \in BOOLEAN,
              DecodeFrame(sei, keyframe, elapsed, drifted)
       PROVE  SharedTypeOK'
  BY <1>13 DEF DecodeFrame
<1>14. CASE UNCHANGED vars
  BY <1>14 DEF vars
<1>15. QED
  BY <1>1, <1>2, <1>3, <1>4, <1>5, <1>6, <1>7, <1>8, <1>9, <1>10, <1>11,
     <1>12, <1>13, <1>14 DEF Next, ControlStep, ThreadStep, Destroyed

(* Every step keeps the two threads in places that go together. *)
LEMMA PlacesStep ==
    ASSUME IInv, [Next]_vars
    PROVE  Places'
<1> USE DEF IInv, TypeOK, ControlTypeOK, SharedTypeOK, Places, InUpdate
<1>1. CASE SetUrl \/ SwitchNtp \/ DisableNtp
  BY <1>1 DEF SetUrl, SwitchNtp, DisableNtp
<1>2. CASE Join
  BY <1>2 DEF Join, ThreadReturned
<1>3. CASE ReleaseHw \/ SetHw \/ SetCodec \/ Free
  BY <1>3 DEF ReleaseHw, SetHw, SetCodec, Free
<1>4. CASE StopForHw
  BY <1>4 DEF StopForHw, StopReceiver
<1>5. CASE StopForCodec
  BY <1>5 DEF StopForCodec, StopReceiver
<1>6. CASE Restart
  <2>1. ~thread_active => ~is_connected
    BY <1>6 DEF Restart, Connection
  <2>2. QED
    BY <1>6, <2>1 DEF Restart, StartReceiver
<1>7. ASSUME NEW ok \in BOOLEAN,
             \/ Create(ok) \/ EnableNtp(ok)
             \/ ControlSynced(ok) \/ RecordSync
      PROVE  Places'
  BY <1>7 DEF Create, EnableNtp, InitNtp, ControlSynced, RecordSync
<1>8. ASSUME NEW r \in Settings, Update(r)
      PROVE  Places'
  BY <1>8 DEF Update, StopReceiver
<1>9. CASE Destroy
  BY <1>9 DEF Destroy, StopReceiver
<1>10. ASSUME ThreadStep
       PROVE  Places'
  <2>1. UNCHANGED <<cpc, ret, req, thread_active>>
    BY <1>10, ThreadKeepsControl DEF controlVars, ctlVars
  <2>2. /\ tpc # "off" /\ tpc' # "off"
        /\ tpc' \in {"exit", "done"} => ~thread_active
    BY <1>10 DEF ThreadStep, LoopTop, ConnectFails, Wake, ReadFails,
       SkipPacket, ThreadExit, OpenInput, InitHwDevice, OpenDecoder,
       DecodeFails, DropFrame, ThreadSynced, DecodeFrame
  <2>3. QED
    BY <2>1, <2>2
<1>11. CASE UNCHANGED vars
  BY <1>11 DEF vars, controlVars, ctlVars
<1>12. QED
  BY <1>1, <1>2, <1>3, <1>4, <1>5, <1>6, <1>7, <1>8, <1>9, <1>10, <1>11
     DEF Next, ControlStep, Destroyed

(* Every step keeps what the receive thread holds at its place. *)
LEMMA ConnectionStep ==
    ASSUME IInv, [Next]_vars
    PROVE  Connection'
<1> USE DEF IInv, TypeOK, ReceiveTypeOK, SharedTypeOK, Connection
<1>1. CASE UNCHANGED receiveVars /\ UNCHANGED tpc
  BY <1>1 DEF receiveVars, connVars
<1>2. CASE Join
  BY <1>2 DEF Join, ThreadReturned, receiveVars, connVars
<1>3. CASE Restart
  BY <1>3 DEF Restart, StartReceiver, Places, receiveVars, connVars
<1>4. CASE Free
  BY <1>4 DEF Free, Places
<1>5. CASE \/ ControlStep /\ ~Join /\ ~Restart /\ ~Free
           \/ \E r \in Settings : Update(r)
           \/ Destroy
  <2>1. UNCHANGED receiveVars
    BY <1>5, ControlKeepsReceive DEF Free, Update, Destroy, StopReceiver
  <2>2. UNCHANGED tpc
    BY <1>5 DEF ControlStep, Create, SetUrl, SwitchNtp, EnableNtp,
       DisableNtp, ReleaseHw, StopForHw, SetHw, StopForCodec, SetCodec,
       ControlSynced, RecordSync, Update, Destroy
  <2>3. QED
    BY <2>1, <2>2, <1>1
<1>6. CASE LoopTop \/ Wake \/ SkipPacket
  BY <1>6 DEF LoopTop, Wake, SkipPacket, connVars
<1>7. CASE ConnectFails
  BY <1>7 DEF ConnectFails, connVars
<1>8. CASE ReadFails \/ ThreadExit
  BY <1>8 DEF ReadFails, ThreadExit, CleanupConnection
<1>9. ASSUME NEW codec \in Codecs, OpenInput(codec)
      PROVE  Connection'
  BY <1>9, RecordTypes DEF OpenInput, ControlTypeOK, connVars
<1>10. ASSUME NEW ok \in BOOLEAN, InitHwDevice(ok) \/ ThreadSynced(ok)
       PROVE  Connection'
  BY <1>10 DEF InitHwDevice, ThreadSynced, connVars
<1>11. ASSUME NEW ok \in BOOLEAN,
              OpenDecoder(ok) \/ DecodeFails(ok) \/ DropFrame(ok)
       PROVE  Connection'
  BY <1>11 DEF OpenDecoder, DecodeFails, DropFrame
<1>12. ASSUME NEW sei \in BOOLEAN, NEW keyframe \in BOOLEAN,
              NEW elapsed \in BOOLEAN, NEW drifted \in BOOLEAN,
             DecodeFrame(sei, keyframe, elapsed, drifted)
      PROVE  Connection'
  BY <1>12 DEF DecodeFrame
<1>13. QED
  BY <1>1, <1>2, <1>3, <1>4, <1>5, <1>6, <1>7, <1>8, <1>9, <1>10, <1>11,
     <1>12 DEF Next, ThreadStep, Destroyed, vars

(* Every step keeps the hardware device in line with its setting. *)
LEMMA DeviceStep ==
    ASSUME IInv, [Next]_vars
    PROVE  Device'
<1> USE DEF IInv, TypeOK, ControlTypeOK, SharedTypeOK, Device, cfgVars, hwVars
<1>1. CASE UNCHANGED <<hwVars, hw_decoder_type, tpc, is_connected>>
  BY <1>1
<1>2. CASE Join \/ Restart
  BY <1>2 DEF Join, Restart, StartReceiver, Places, receiveVars, connVars
<1>3. CASE ReleaseHw
  BY <1>3 DEF ReleaseHw, receiveVars, connVars
<1>4. CASE SetHw
  <2>1. req \in Settings /\ tpc = "off" /\ ~is_connected
    BY <1>4 DEF SetHw, Places, InUpdate, Connection
  <2>2. hw_decode_enabled' => hw_decoder_type' \in HwTypes
    BY <1>4, <2>1, SettingsFields DEF SetHw
  <2>3. tpc' # "decoder" /\ ~is_connected'
    BY <1>4, <2>1 DEF SetHw, receiveVars, connVars
  <2>4. QED
    BY <2>2, <2>3
<1>5. CASE \/ ControlStep /\ ~Join /\ ~Restart /\ ~ReleaseHw /\ ~SetHw
           \/ \E r \in Settings : Update(r)
           \/ Destroy
  BY <1>1, <1>5 DEF ControlStep, Create, SetUrl, SwitchNtp, EnableNtp,
     DisableNtp, StopForHw, StopForCodec, SetCodec, Free, ControlSynced, RecordSync,
     Update, Destroy, receiveVars, connVars
<1>6. ASSUME NEW ok \in BOOLEAN, InitHwDevice(ok)
      PROVE  Device'
  BY <1>6 DEF InitHwDevice, Connection, controlVars, connVars
<1>7. ASSUME ThreadStep, \A ok \in BOOLEAN : ~InitHwDevice(ok)
      PROVE  Device'
  <2>1. UNCHANGED <<hwVars, hw_decoder_type>>
    BY <1>7 DEF ThreadStep, LoopTop, ConnectFails, Wake, ReadFails,
       SkipPacket, ThreadExit, OpenInput, OpenDecoder, DecodeFails,
       DropFrame, ThreadSynced, DecodeFrame, controlVars
  <2>2. (tpc' = "decoder" \/ is_connected') => (tpc = "decoder" \/ is_connected)
    BY <1>7 DEF ThreadStep, LoopTop, ConnectFails, Wake, ReadFails,
       SkipPacket, ThreadExit, OpenInput, OpenDecoder, DecodeFails,
       DropFrame, ThreadSynced, DecodeFrame, CleanupConnection, connVars
  <2>3. QED
    BY <2>1, <2>2
<1>8. QED
  BY <1>1, <1>2, <1>3, <1>4, <1>5, <1>6, <1>7
     DEF Next, Destroyed, vars, controlVars, receiveVars, connVars

(* Every step keeps the connection in line with the settings. *)
LEMMA SettingsStep ==
    ASSUME IInv, [Next]_vars
    PROVE  SettingsInEffect'
<1> USE DEF IInv, TypeOK, ReceiveTypeOK, SettingsInEffect
<1>1. CASE UNCHANGED <<fmt_ctx, format_context, codec_context, srt_url,
                       hw_decoder_type>>
  BY <1>1
<1>2. CASE SetUrl \/ SetHw \/ Free
  <2>1. tpc = "off" /\ fmt_ctx = NULL /\ format_context = NULL
        /\ codec_context = NULL
    BY <1>2 DEF SetUrl, SetHw, Free, Places, Connection
  <2>2. fmt_ctx' = NULL /\ format_context' = NULL /\ codec_context' = NULL
    BY <1>2, <2>1 DEF SetUrl, SetHw, Free, receiveVars, connVars
  <2>3. QED
    BY <2>2
<1>3. CASE \/ ControlStep /\ ~SetUrl /\ ~SetHw /\ ~Free
           \/ \E r \in Settings : Update(r)
           \/ Destroy
  BY <1>1, <1>3 DEF ControlStep, Create, Join, SwitchNtp, EnableNtp,
     DisableNtp, ReleaseHw, StopForHw, StopForCodec, SetCodec, Restart,
     ControlSynced, RecordSync, Update, Destroy, cfgVars, receiveVars, connVars
<1>4. CASE LoopTop \/ Wake \/ SkipPacket
  BY <1>1, <1>4 DEF LoopTop, Wake, SkipPacket, controlVars, cfgVars, connVars
<1>5. CASE ConnectFails \/ ReadFails \/ ThreadExit
  BY <1>5 DEF ConnectFails, ReadFails, ThreadExit, CleanupConnection,
     controlVars, cfgVars, connVars
<1>6. ASSUME NEW codec \in Codecs, OpenInput(codec)
      PROVE  SettingsInEffect'
  BY <1>6 DEF OpenInput, controlVars, cfgVars, connVars
<1>7. ASSUME NEW ok \in BOOLEAN, OpenDecoder(ok)
      PROVE  SettingsInEffect'
  <2>1. AttachedDevice \in {NULL, hw_decoder_type}
    BY <1>7 DEF OpenDecoder, AttachedDevice, Device
  <2>2. QED
    BY <1>7, <2>1 DEF OpenDecoder, controlVars, cfgVars
<1>8. ASSUME NEW ok \in BOOLEAN, DecodeFails(ok)
      PROVE  SettingsInEffect'
  <2>1. AttachedDevice \in {NULL, hw_decoder_type}
    BY <1>8 DEF DecodeFails, AttachedDevice, Connection, Device
  <2>2. QED
    BY <1>8, <2>1 DEF DecodeFails, ResetDecoder, controlVars, cfgVars
<1>9. ASSUME NEW ok \in BOOLEAN,
             InitHwDevice(ok) \/ DropFrame(ok) \/ ThreadSynced(ok)
      PROVE  SettingsInEffect'
  BY <1>1, <1>9 DEF InitHwDevice, DropFrame, ThreadSynced, controlVars,
     cfgVars, connVars
<1>10. ASSUME NEW sei \in BOOLEAN, NEW keyframe \in BOOLEAN,
              NEW elapsed \in BOOLEAN, NEW drifted \in BOOLEAN,
             DecodeFrame(sei, keyframe, elapsed, drifted)
      PROVE  SettingsInEffect'
  BY <1>1, <1>10 DEF DecodeFrame, controlVars, cfgVars
<1>11. QED
  BY <1>1, <1>2, <1>3, <1>4, <1>5, <1>6, <1>7, <1>8, <1>9, <1>10
     DEF Next, ThreadStep, Destroyed, vars, controlVars, cfgVars, receiveVars,
     connVars

(* Every step keeps the NTP client in line with ntp_enabled. *)
LEMMA NtpStep ==
    ASSUME IInv, [Next]_vars
    PROVE  NtpClient' /\ SyncedIsRefreshed'
<1> USE DEF IInv, TypeOK, SharedTypeOK, NtpClient, SyncedIsRefreshed,
            NtpClients, InitClient, ZeroClient, Answered, ntpVars
<1>1. CASE DisableNtp \/ Free
  BY <1>1 DEF DisableNtp, Free, Places
<1>2. CASE SwitchNtp
  BY <1>2, SettingsFields DEF SwitchNtp, Places, InUpdate, ControlTypeOK
<1>3. ASSUME NEW ok \in BOOLEAN,
             \/ Create(ok) \/ EnableNtp(ok)
             \/ ControlSynced(ok) \/ RecordSync
      PROVE  NtpClient' /\ SyncedIsRefreshed'
  BY <1>3 DEF Create, EnableNtp, InitNtp, ControlSynced, RecordSync, Places
<1>4. CASE Join
  BY <1>4 DEF Join, Places
<1>5. CASE SetUrl \/ ReleaseHw \/ SetHw \/ SetCodec
  BY <1>5 DEF SetUrl, ReleaseHw, SetHw, SetCodec
<1>6. CASE Restart
  BY <1>6 DEF Restart, StartReceiver
<1>7. CASE StopForHw \/ StopForCodec \/ Destroy
  BY <1>7 DEF StopForHw, StopForCodec, Destroy, StopReceiver
<1>8. ASSUME NEW r \in Settings, Update(r)
      PROVE  NtpClient' /\ SyncedIsRefreshed'
  BY <1>8 DEF Update, StopReceiver
<1>9. ASSUME NEW ok \in BOOLEAN, ThreadSynced(ok)
      PROVE  NtpClient' /\ SyncedIsRefreshed'
  BY <1>9 DEF ThreadSynced, controlVars, ctlVars
<1>10. ASSUME NEW sei \in BOOLEAN, NEW keyframe \in BOOLEAN,
              NEW elapsed \in BOOLEAN, NEW drifted \in BOOLEAN,
             DecodeFrame(sei, keyframe, elapsed, drifted)
      PROVE  NtpClient' /\ SyncedIsRefreshed'
  BY <1>10 DEF DecodeFrame, controlVars, ctlVars
<1>11. CASE LoopTop \/ ConnectFails \/ Wake \/ ReadFails \/ SkipPacket
            \/ ThreadExit
  BY <1>11 DEF LoopTop, ConnectFails, Wake, ReadFails, SkipPacket,
     ThreadExit, controlVars, ctlVars
<1>12. ASSUME NEW codec \in Codecs, OpenInput(codec)
       PROVE  NtpClient' /\ SyncedIsRefreshed'
  BY <1>12 DEF OpenInput, controlVars, ctlVars
<1>13. ASSUME NEW ok \in BOOLEAN,
              \/ InitHwDevice(ok) \/ OpenDecoder(ok)
              \/ DecodeFails(ok) \/ DropFrame(ok)
       PROVE  NtpClient' /\ SyncedIsRefreshed'
  BY <1>13 DEF InitHwDevice, OpenDecoder, DecodeFails, DropFrame,
     controlVars, ctlVars
<1>14. CASE UNCHANGED vars
  BY <1>14 DEF vars, controlVars, ctlVars
<1>15. QED
  BY <1>1, <1>2, <1>3, <1>4, <1>5, <1>6, <1>7, <1>8, <1>9, <1>10, <1>11,
     <1>12, <1>13, <1>14 DEF Next, ControlStep, ThreadStep, Destroyed

(* A context fresh from create satisfies the invariant. *)
LEMMA InitInvariant == Init => IInv
<1> SUFFICES ASSUME Init
             PROVE  IInv
  OBVIOUS
<1> USE DEF Init
<1>1. TypeOK
  <2>1. ControlTypeOK
    <3>1. /\ cpc = "create" /\ ret = "idle" /\ req = NULL
          /\ settings_changed = FALSE /\ thread_active = FALSE
      OBVIOUS
    <3>2. /\ srt_url \in Urls
          /\ codec_format \in Codecs \cup {AutoCodec}
          /\ hw_decoder_type \in HwTypes \cup {NoHw}
          /\ ntp_enabled \in BOOLEAN
      OBVIOUS
    <3>3. QED
      BY ONLY <3>1, <3>2 DEF ControlTypeOK
  <2>2. ReceiveTypeOK
    <3>1. /\ fmt_ctx = NULL /\ is_connected = FALSE
          /\ format_context = NULL /\ codec_context = NULL
          /\ audio_codec_context = FALSE /\ sws_ctx = FALSE
          /\ decode_error_count = 0
      OBVIOUS
    <3>2. decode_error_count \in 0 .. MaxErrors
      BY ONLY <3>1, ConstantsAssumption
    <3>3. QED
      BY ONLY <3>1, <3>2 DEF ReceiveTypeOK
  <2>3. SharedTypeOK
    BY Clients DEF SharedTypeOK
  <2>4. QED
    BY <2>1, <2>2, <2>3 DEF TypeOK
<1>2. Places
  BY DEF Places, InUpdate
<1>3. Connection
  BY DEF Connection
<1>4. SettingsInEffect
  BY DEF SettingsInEffect
<1>5. Device
  BY DEF Device
<1>6. NtpClient /\ SyncedIsRefreshed
  BY DEF NtpClient, SyncedIsRefreshed, ZeroClient
<1>7. QED
  BY <1>1, <1>2, <1>3, <1>4, <1>5, <1>6 DEF IInv

(* The invariant is inductive. *)
LEMMA StepInvariant == IInv /\ [Next]_vars => IInv'
<1> SUFFICES ASSUME IInv, [Next]_vars
             PROVE  IInv'
  OBVIOUS
<1>1. TypeOK'
  BY ControlTypeStep, ReceiveTypeStep, SharedTypeStep DEF TypeOK
<1>2. QED
  BY <1>1, PlacesStep, ConnectionStep, SettingsStep, DeviceStep, NtpStep
     DEF IInv

(* IInv holds throughout every behaviour of the receiver. *)
THEOREM Invariance == Spec => []IInv
BY InitInvariant, StepInvariant, PTL DEF Spec

(* The fields of the context and the places of the threads keep their      *)
(* types.                                                                  *)
THEOREM TypeCorrect == Spec => []TypeOK
BY Invariance, PTL DEF IInv

(* Once the thread has returned, stop_receiver's callers find nothing of   *)
(* its connection open.                                                    *)
THEOREM JoinedClean == Spec => []JoinedMeansClean
<1>1. IInv => JoinedMeansClean
  BY DEF IInv, TypeOK, SharedTypeOK, Connection, JoinedMeansClean
<1>2. QED
  BY <1>1, Invariance, PTL

(* thread_active tells the truth about the thread to start_receiver and    *)
(* stop_receiver: there is never a second thread nor a dead receiver.      *)
THEOREM FlagTrue == Spec => []FlagMatchesThread
<1>1. IInv => FlagMatchesThread
  BY DEF IInv, Places, FlagMatchesThread
<1>2. QED
  BY <1>1, Invariance, PTL

(* No connection outlives the address or the hardware setting it was made  *)
(* with.  (Its codec may be another than the configured one: reset_decoder *)
(* takes the stream's.)                                                    *)
THEOREM SettingsHold == Spec => []SettingsInEffect
BY Invariance, PTL DEF IInv

(* Between callbacks there is an NTP client only while NTP is enabled.     *)
THEOREM NoClientLeft == Spec => []NoClientWhenOff
<1>1. IInv => NoClientWhenOff
  BY DEF IInv, NtpClient, NoClientWhenOff
<1>2. QED
  BY <1>1, Invariance, PTL

(* A synchronised client has a sync time on record.                        *)
THEOREM SyncedRecorded == Spec => []SyncedIsRefreshed
BY Invariance, PTL DEF IInv

(* The setting strings are written only while no thread runs.              *)
THEOREM ConfigStopped == Spec => ConfigOnlyWhileStopped
<1>1. IInv /\ [Next]_vars => [tpc = "off"]_cfgVars
  <2> SUFFICES ASSUME IInv, [Next]_vars, cfgVars' # cfgVars
               PROVE  tpc = "off"
    OBVIOUS
  <2>1. CASE SetUrl \/ SetHw \/ SetCodec
    BY <2>1 DEF SetUrl, SetHw, SetCodec, IInv, Places
  <2>2. CASE Next /\ ~SetUrl /\ ~SetHw /\ ~SetCodec
    <3>1. CASE ThreadStep
      BY <3>1, ThreadKeepsControl DEF controlVars
    <3>2. CASE ~ThreadStep
      BY <2>2, <3>2 DEF Next, ControlStep, Create, Join, SwitchNtp,
         EnableNtp, DisableNtp, ReleaseHw, StopForHw, StopForCodec, Restart,
         Free, ControlSynced, RecordSync, Update, Destroy, Destroyed, vars, controlVars
    <3>3. QED
      BY <3>1, <3>2
  <2>3. CASE UNCHANGED vars
    BY <2>3 DEF vars, controlVars
  <2>4. QED
    BY <2>1, <2>2, <2>3
<1>2. QED
  BY <1>1, Invariance, PTL DEF Spec, ConfigOnlyWhileStopped

(* A step of the control thread leaves it fewer steps to the end of its    *)
(* callback.                                                               *)
LEMMA ControlAdvances ==
    ASSUME IInv, ControlStep
    PROVE  CallbackSteps' < CallbackSteps
<1> USE DEF CallbackSteps, StepsFrom
<1>1. ASSUME NEW ok \in BOOLEAN, Create(ok) \/ EnableNtp(ok)
      PROVE  CallbackSteps' < CallbackSteps
  BY <1>1 DEF Create, EnableNtp, InitNtp
<1>2. CASE Join \/ RecordSync
  BY <1>2 DEF Join, RecordSync, IInv, Places
<1>3. CASE SetUrl \/ SwitchNtp \/ DisableNtp
  BY <1>3 DEF SetUrl, SwitchNtp, DisableNtp
<1>4. CASE ReleaseHw \/ SetHw \/ SetCodec \/ Restart \/ Free
  BY <1>4 DEF ReleaseHw, SetHw, SetCodec, Restart, Free
<1>5. CASE StopForHw
  BY <1>5 DEF StopForHw, StopReceiver
<1>6. CASE StopForCodec
  BY <1>6 DEF StopForCodec, StopReceiver
<1>7. ASSUME NEW ok \in BOOLEAN, ControlSynced(ok)
      PROVE  CallbackSteps' < CallbackSteps
  BY <1>7 DEF ControlSynced, IInv, Places
<1>8. QED
  BY <1>1, <1>2, <1>3, <1>4, <1>5, <1>6, <1>7 DEF ControlStep

(* A thread told to stop does not go round its loop again. *)
LEMMA StoppedThreadAdvances ==
    ASSUME IInv, ThreadStep, cpc = "join"
    PROVE  ThreadSteps' < ThreadSteps
<1>1. ~thread_active
  BY DEF IInv, Places
<1>2. \/ tpc = "top" /\ tpc' = "exit"
      \/ tpc = "exit" /\ tpc' = "done"
      \/ tpc = "connect" /\ tpc' \in {"device", "sleep"}
      \/ tpc = "device" /\ tpc' = "decoder"
      \/ tpc = "decoder" /\ tpc' \in {"read", "sleep"}
      \/ tpc = "read" /\ tpc' \in {"top", "sync"}
      \/ tpc \in {"sleep", "sync"} /\ tpc' = "top"
  BY <1>1 DEF ThreadStep, LoopTop, ConnectFails, Wake, ReadFails,
     SkipPacket, ThreadExit, OpenInput, InitHwDevice, OpenDecoder,
     DecodeFails, DropFrame, ThreadSynced, DecodeFrame
<1>3. QED
  BY <1>2 DEF ThreadSteps

(* A join never waits for a thread that is not there, and what callbacks   *)
(* and thread have left is bounded.                                        *)
THEOREM JoinsHaveThreads == Spec => []JoinHasThread
<1>1. IInv => JoinHasThread
  BY DEF IInv, TypeOK, ControlTypeOK, SharedTypeOK, Places, JoinHasThread,
     CallbackSteps, StepsFrom, ThreadSteps
<1>2. QED
  BY <1>1, Invariance, PTL

(* Each step of update, create or destroy brings it nearer to its end, and *)
(* while it joins, each step of the receive thread brings that nearer to   *)
(* its return: callbacks return if only both threads go on.                *)
THEOREM CallbacksAdvance == Spec => CallbackAdvances
<1>1. IInv /\ [Next]_vars =>
        [/\ ControlStep => CallbackSteps' < CallbackSteps
         /\ ThreadStep => CallbackSteps' = CallbackSteps
         /\ ThreadStep /\ cpc = "join" => ThreadSteps' < ThreadSteps]_vars
  <2>1. ThreadStep => CallbackSteps' = CallbackSteps
    BY ThreadKeepsControl DEF controlVars, ctlVars, CallbackSteps, StepsFrom
  <2>2. QED
    BY <2>1, ControlAdvances, StoppedThreadAdvances
<1>2. QED
  BY <1>1, Invariance, PTL DEF Spec, CallbackAdvances

(* The receiver implements the sessions its user was promised. *)
THEOREM ImplementsSession == Spec => SessionSpec
<1> DEFINE S == IF format_context = NULL THEN NULL ELSE format_context.url
           R == tpc # "off"
<1>1. Init => SessionView!Init
  BY DEF Init, SessionView!Init
<1>2. IInv /\ [Next]_vars => [SessionView!Next]_(SessionView!vars)
  <2> SUFFICES ASSUME IInv, [Next]_vars
               PROVE  \/ SessionView!Next
                      \/ srt_url' = srt_url /\ R' = R /\ S' = S
    BY DEF SessionView!vars
  <2> USE DEF IInv, TypeOK, ReceiveTypeOK, SharedTypeOK, SessionView!Next
  <2>1. CASE SetUrl
    <3>1. srt_url' \in Urls /\ UNCHANGED <<tpc, format_context>>
      BY <2>1, SettingsFields DEF SetUrl, Places, InUpdate, receiveVars,
         connVars
    <3>2. tpc = "off"
      BY <2>1 DEF SetUrl, Places
    <3>3. QED
      BY <3>1, <3>2 DEF SessionView!Configure
  <2>2. CASE Join
    <3>1. tpc = "done" /\ tpc' = "off" /\ format_context = NULL
      BY <2>2 DEF Join, ThreadReturned, Connection
    <3>2. UNCHANGED <<srt_url, format_context>>
      BY <2>2 DEF Join, cfgVars, receiveVars, connVars
    <3>3. QED
      BY <3>1, <3>2 DEF SessionView!Stop
  <2>3. CASE Restart
    BY <2>3 DEF Restart, StartReceiver, Places, cfgVars, receiveVars,
       connVars, SessionView!Start
  <2>4. ASSUME NEW ok \in BOOLEAN, OpenDecoder(ok)
        PROVE  SessionView!Next \/ UNCHANGED <<srt_url, R, S>>
    <3>1. /\ format_context = NULL /\ format_context' = fmt_ctx
          /\ fmt_ctx \in Inputs /\ tpc # "off" /\ tpc' # "off"
          /\ srt_url' = srt_url
      BY <2>4 DEF OpenDecoder, Connection, controlVars, cfgVars
    <3>2. fmt_ctx # NULL => fmt_ctx.url = srt_url
      BY DEF SettingsInEffect
    <3>3. QED
      BY <3>1, <3>2 DEF SessionView!Connect
  <2>5. CASE ReadFails \/ ThreadExit
    <3>1. /\ format_context' = NULL /\ srt_url' = srt_url
          /\ tpc # "off" /\ tpc' # "off"
      BY <2>5 DEF ReadFails, ThreadExit, CleanupConnection, controlVars,
         cfgVars
    <3>2. QED
      BY <3>1 DEF SessionView!Disconnect
  <2>6. ASSUME ThreadStep, ~ReadFails, ~ThreadExit,
               \A ok \in BOOLEAN : ~OpenDecoder(ok)
        PROVE  UNCHANGED <<srt_url, R, S>>
    BY <2>6 DEF ThreadStep, LoopTop, ConnectFails, Wake, SkipPacket,
       OpenInput, InitHwDevice, DecodeFails, DropFrame, ThreadSynced,
       DecodeFrame, controlVars, cfgVars, connVars
  <2>7. CASE \/ ControlStep /\ ~SetUrl /\ ~Join /\ ~Restart
             \/ \E r \in Settings : Update(r)
             \/ Destroy
    BY <2>7 DEF ControlStep, Create, SwitchNtp, EnableNtp, DisableNtp,
       ReleaseHw, StopForHw, SetHw, StopForCodec, SetCodec, Free,
       ControlSynced, RecordSync, Update, Destroy, cfgVars, receiveVars, connVars
  <2>8. CASE UNCHANGED vars
    BY <2>8 DEF vars, controlVars, cfgVars, receiveVars, connVars
  <2>9. QED
    BY <2>1, <2>2, <2>3, <2>4, <2>5, <2>6, <2>7, <2>8 DEF Next, Destroyed
<1>3. QED
  BY <1>1, <1>2, Invariance, PTL DEF Spec, SessionSpec, SessionView!Spec
=============================================================================
