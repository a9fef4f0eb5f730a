------------------------ MODULE ReceiverTimingProofs ------------------------
(***************************************************************************)
(* What a receiver shows when, for any stream, any clock and any error of  *)
(* the exchanges, over any number of syncs and reconnects.                 *)
(***************************************************************************)
EXTENDS ReceiverTiming, TLAPS

(* The types of the parameters, one by one. *)
LEMMA Parameters ==
    /\ \A f \in Frames : f \in Nat /\ Pts[f] \in Int /\ Stamp[f] \in Int
    /\ Delta \in Int /\ Theta \in Nat /\ MaxError \in Nat /\ Start \in Nat
  <1>1. \A f \in Frames : f \in Nat /\ Pts[f] \in Int /\ Stamp[f] \in Int
    BY ConstantsAssumption
  <1>2. Delta \in Int /\ Theta \in Nat /\ MaxError \in Nat /\ Start \in Nat
    BY ConstantsAssumption
  <1> QED BY <1>1, <1>2

(* A PTS is a number of nanoseconds, whatever time base it is taken in. *)
LEMMA Conversion ==
    ASSUME NEW f \in Frames, NEW tb \in TimeBases
    PROVE  Nanoseconds(Pts[f], tb) \in Int
  <1> DEFINE base == IF tb.num = 0 \/ tb.den = 0
                       THEN [num |-> 1, den |-> SampleRate]
                       ELSE tb
             n == 2 * Pts[f] * Second * base.num + base.den
             d == 2 * base.den
  <1>1. /\ base.num \in Nat /\ base.den \in Nat \ {0}
        /\ Pts[f] \in Nat /\ Second \in Nat
    <2>1. SampleRate \in Nat \ {0} /\ tb.num \in Nat /\ tb.den \in Nat
      BY ConstantsAssumption
    <2>2. 1 \in Nat OBVIOUS
    <2>3. base.num \in Nat /\ base.den \in Nat \ {0} BY <2>1, <2>2
    <2> QED BY <2>3, ConstantsAssumption
  <1> HIDE DEF base
  <1>2. n \in Int /\ d \in Nat \ {0} BY <1>1
  <1> HIDE DEF n, d
  <1>3. n \div d \in Int BY <1>2
  <1> QED BY <1>3 DEF Nanoseconds, base, n, d

(* The clients create and update start from. *)
LEMMA FreshClients ==
    /\ InitialClient \in Clients /\ ~InitialClient.heard
    /\ ZeroClient \in Clients /\ ~ZeroClient.heard
  <1>1. 0 \in Int OBVIOUS
  <1> QED BY <1>1 DEF InitialClient, ZeroClient, Clients

(* An exchange leaves a client that is well-typed, and accurate if it was  *)
(* answered.                                                               *)
LEMMA SyncedClient ==
    ASSUME Local \in Int, NEW c \in Clients, NEW d \in Synced(c)
    PROVE  /\ d \in Clients
           /\ d.heard => d.time_offset_ns - Theta \in -MaxError .. MaxError
  <1> USE ConstantsAssumption
  <1>1. ASSUME NEW error \in -MaxError .. MaxError, d = Answered(c, error)
        PROVE  /\ d \in Clients
               /\ d.heard => d.time_offset_ns - Theta \in -MaxError .. MaxError
    <2>1. /\ Theta + error \in Int
          /\ (Theta + error) - Theta \in -MaxError .. MaxError
      BY SMT
    <2>2. d \in Clients /\ d.time_offset_ns = Theta + error
      BY <1>1, <2>1 DEF Answered, Clients
    <2> QED BY <2>1, <2>2
  <1>2. ASSUME d = Unanswered(c)
        PROVE  /\ d \in Clients
               /\ d.heard => d.time_offset_ns - Theta \in -MaxError .. MaxError
    <2>1. Half(-Local) \in Int BY SMT DEF Half
    <2> QED BY <1>2, <2>1 DEF Unanswered, Clients
  <1> QED BY <1>1, <1>2 DEF Synced

LEMMA InitIInv == Init => IInv
  <1> SUFFICES ASSUME Init PROVE IInv OBVIOUS
  <1> USE ConstantsAssumption DEF Init
  <1>1. Local \in Nat /\ Local # 0 BY SMT DEF Local
  <1>4. client \in Clients /\ ClientInv
    <2>1. CASE client \in {ZeroClient, InitialClient}
      BY <2>1, FreshClients DEF ClientInv
    <2>2. CASE client \in Synced(InitialClient)
      <3>1. Local \in Int BY <1>1
      <3> QED BY <2>2, <3>1, FreshClients, SyncedClient DEF ClientInv
    <2> QED BY <2>1, <2>2
  <1>5. /\ last_ntp_sync_time \in 0 .. Local /\ exchanged \in 0 .. Local
        /\ stored \in 0 .. Local /\ clock \in 0 .. Local
    BY <1>1, SMT
  <1>6. TypeOK
    <2>1. now \in Nat /\ now >= Start BY Parameters
    <2>2. /\ frame \in [id : Frames \cup {NULL}, stamp : Frames \cup {NULL}]
          /\ shown \in [id : Frames \cup {NULL}, stamp : Frames \cup {NULL},
                        timestamp : Int, heard : BOOLEAN]
      BY DEF NoFrame, Nothing
    <2>3. next \in Nat \ {0} /\ joined \in Nat \ {0} BY SMT
    <2>4. /\ decoder \in SUBSET Frames /\ pts_offset \in Int
          /\ audio \in [pts : Int, timestamp : Int] \cup {NULL}
      OBVIOUS
    <2> QED BY <1>4, <1>5, <2>1, <2>2, <2>3, <2>4 DEF TypeOK
  <1>7. StreamInv /\ SyncInv /\ PtsInv
    <2>1. joined <= next BY SMT
    <2>2. exchanged = 0 OBVIOUS
    <2>3. decoder = {} /\ rpc = "read" /\ shown.stamp = NULL
          /\ shown.id = NULL /\ audio = NULL
      BY DEF Nothing
    <2> QED BY <2>1, <2>2, <2>3 DEF StreamInv, SyncInv, PtsInv
  <1>8. AtOneMoment /\ StampOwnOrLater /\ AudioByLastShown
    BY DEF AtOneMoment, ByStamp, StampOwnOrLater, AudioByLastShown, Nothing
  <1> QED BY <1>4, <1>6, <1>7, <1>8 DEF IInv

Places == {"read", "policy", "elapsed", "exchange", "check", "place"}
ControlPlaces == {"idle", "init", "sync", "clock", "record", "destroy"}

(* Steps of update and of the thread that place no frame. *)
LEMMA NtpPreserves ==
    ASSUME IInv,
           client' \in Clients, ClientInv',
           ntp_enabled' \in BOOLEAN,
           cpc' \in ControlPlaces,
           rpc' \in Places,
           rpc' # "read" => rpc # "read",
           rpc' = "place" => frame.stamp # NULL,
           last_ntp_sync_time' \in 0 .. Local,
           stored' \in 0 .. Local,
           clock' \in 0 .. Local,
           exchanged' \in 0 .. Local,
           updated' \in BOOLEAN,
           SyncInv',
           UNCHANGED <<now, streamVars, frame, ptsVars, shown, audio>>
    PROVE  IInv'
  <1> USE ConstantsAssumption DEF IInv, streamVars, ptsVars
  <1>1. Local' = Local BY DEF Local
  <1>2. TypeOK' BY <1>1 DEF TypeOK, Places, ControlPlaces
  <1>3. StreamInv' /\ PtsInv' BY DEF StreamInv, PtsInv
  <1>4. AtOneMoment' BY DEF AtOneMoment, ByStamp, Lag, ServerTime
  <1>5. StampOwnOrLater' BY DEF StampOwnOrLater
  <1>6. AudioByLastShown' BY DEF AudioByLastShown
  <1> QED BY <1>2, <1>3, <1>4, <1>5, <1>6

(* A packet goes to the decoder. *)
LEMMA DecodePreserves ==
    ASSUME IInv, NEW keep \in SUBSET Sent,
           rpc = "read", next \in Frames, next' = next + 1,
           decoder' = keep,
           \/ UNCHANGED <<rpc, frame>>
           \/ \E f \in Sent : /\ rpc' = "policy"
                              /\ frame' = [id |-> f, stamp |-> StampOf(f)],
           UNCHANGED <<now, ntpVars, syncVars, hardware, joined, ptsVars,
                       shown, audio>>
    PROVE  IInv'
  <1> USE ConstantsAssumption DEF IInv, ntpVars, syncVars, ptsVars
  <1>1. Local' = Local BY DEF Local
  <1>2. next \in Nat /\ joined \in Nat /\ joined <= next
    BY DEF TypeOK, StreamInv
  <1>3. Sent \subseteq Frames BY DEF Sent, TypeOK
  <1>4. \A f \in Sent : joined <= f /\ f <= next /\ f < next + 1
    <2>1. \A f \in decoder : f \in Nat /\ joined <= f /\ f < next
      BY DEF StreamInv, TypeOK
    <2> QED BY <2>1, <1>2, SMT DEF Sent
  <1>5. ASSUME NEW f \in Sent,
               frame' = [id |-> f, stamp |-> StampOf(f)]
        PROVE  /\ frame'.id = f /\ f \in Frames
               /\ frame'.stamp \in Frames \cup {NULL}
               /\ frame'.stamp # NULL =>
                     /\ f <= frame'.stamp /\ frame'.stamp < next + 1
                     /\ Sei[frame'.stamp] = "ours"
    <2>1. StampOf(f) \in {f, next, NULL} /\ f \in Frames
      BY <1>3 DEF StampOf
    <2>2. StampOf(f) # NULL => Sei[StampOf(f)] = "ours"
      BY DEF StampOf
    <2>3. StampOf(f) # NULL => f <= StampOf(f) /\ StampOf(f) < next + 1
      BY <2>1, <1>2, <1>4, SMT
    <2> QED BY <1>5, <2>1, <2>2, <2>3
  <1>6. TypeOK'
    <2>1. next' \in Nat \ {0} BY <1>2, SMT
    <2>2. frame' \in [id : Frames \cup {NULL}, stamp : Frames \cup {NULL}]
      BY <1>5 DEF TypeOK
    <2>3. rpc' \in {"read", "policy", "elapsed", "exchange", "check", "place"}
      BY DEF TypeOK
    <2>4. decoder' \in SUBSET Frames BY <1>3
    <2> QED BY <1>1, <2>1, <2>2, <2>3, <2>4 DEF TypeOK
  <1>7. StreamInv'
    <2>1. joined' <= next' BY <1>2, SMT
    <2>2. \A f \in decoder' : joined' <= f /\ f < next' BY <1>4
    <2>3. rpc' # "read" => frame'.id # NULL BY <1>5
    <2> QED BY <2>1, <2>2, <2>3 DEF StreamInv
  <1>8. SyncInv' /\ PtsInv' BY DEF SyncInv, PtsInv
  <1>9. AtOneMoment' BY DEF AtOneMoment, ByStamp, Lag, ServerTime
  <1>10. StampOwnOrLater'
    <2>1. rpc' # "read" /\ frame'.stamp # NULL =>
            /\ joined' <= frame'.id /\ frame'.id <= frame'.stamp
            /\ frame'.stamp < next' /\ Sei[frame'.stamp] = "ours"
      BY <1>4, <1>5
    <2> QED BY <2>1 DEF StampOwnOrLater
  <1>11. AudioByLastShown' BY DEF AudioByLastShown
  <1> QED BY <1>6, <1>7, <1>8, <1>9, <1>10, <1>11 DEF ClientInv

LEMMA ReconnectPreserves ==
    ASSUME IInv, NEW f \in Frames, Reconnect(f)
    PROVE  IInv'
  <1> USE ConstantsAssumption DEF IInv, Reconnect, ntpVars, syncVars, ptsVars
  <1>1. Local' = Local BY DEF Local
  <1>2. TypeOK' BY <1>1 DEF TypeOK
  <1>3. StreamInv' /\ SyncInv' /\ PtsInv'
    BY DEF StreamInv, SyncInv, PtsInv, TypeOK
  <1>4. AtOneMoment' BY DEF AtOneMoment, ByStamp, Lag, ServerTime
  <1>5. StampOwnOrLater' BY DEF StampOwnOrLater
  <1>6. AudioByLastShown' BY DEF AudioByLastShown
  <1> QED BY <1>2, <1>3, <1>4, <1>5, <1>6 DEF ClientInv

(* A frame is placed by its stamp: as accurately as the client is. *)
LEMMA PlaceByStampPreserves ==
    ASSUME IInv, PlaceByStamp
    PROVE  IInv'
  <1> USE ConstantsAssumption DEF IInv, ntpVars, syncVars, ptsVars, streamVars
  <1> DEFINE f == frame.id
             g == frame.stamp
             t == (Stamp[g] + Delta) - client.time_offset_ns
  <1>1. /\ shown' = [id |-> f, stamp |-> g, timestamp |-> t,
                     heard |-> client.heard]
        /\ pts_offset' = t - Pts[f]
        /\ has_pts_offset' = TRUE /\ audio' = NULL /\ frame' = NoFrame
        /\ rpc' = "read"
        /\ UNCHANGED <<now, ntpVars, syncVars, streamVars>>
    BY DEF PlaceByStamp, DisplayTime, StampTime, NewOffset
  <1>2. /\ f \in Frames /\ g \in Frames /\ f <= g
        /\ Stamp[g] \in Int /\ Pts[f] \in Int
        /\ client.time_offset_ns \in Int /\ t \in Int /\ Delta \in Int
    <2>1. rpc = "place" BY DEF PlaceByStamp
    <2>2. f \in Frames /\ g \in Frames /\ f <= g
      BY <2>1 DEF StreamInv, StampOwnOrLater, TypeOK
    <2>3. client.time_offset_ns \in Int BY DEF TypeOK, Clients
    <2>4. Stamp[g] \in Int /\ Pts[f] \in Int /\ Delta \in Int
      BY <2>2, Parameters
    <2>5. t \in Int BY <2>3, <2>4
    <2> QED BY <2>2, <2>3, <2>4, <2>5
  <1>3. Local' = Local BY <1>1 DEF Local
  <1>4. TypeOK'
    <2>1. pts_offset' \in Int BY <1>1, <1>2
    <2>2. client.heard \in BOOLEAN BY DEF TypeOK, Clients
    <2> HIDE DEF t
    <2> QED BY <1>1, <1>2, <1>3, <2>1, <2>2 DEF TypeOK, NoFrame
  <1>5. StreamInv'
    BY <1>1, <1>2 DEF StreamInv
  <1>6. ClientInv' /\ SyncInv' BY <1>1 DEF ClientInv, SyncInv
  <1>7. PtsInv'
    <2>1. t = Pts[f] + (t - Pts[f]) BY <1>2, SMT
    <2> HIDE DEF t
    <2> QED BY <1>1, <1>2, <2>1 DEF PtsInv
  <1>8. AtOneMoment'
    <2>1. client.heard =>
             (t + Theta) - Stamp[g] \in Delta - MaxError .. Delta + MaxError
      BY <1>2, SMT DEF ClientInv
    <2>2. Lag(shown') = (t + Theta) - Stamp[g]
      BY <1>1 DEF Lag, ServerTime
    <2> HIDE DEF t
    <2> QED BY <1>1, <2>1, <2>2 DEF AtOneMoment, ByStamp, Lag, ServerTime
  <1>9. StampOwnOrLater'
    <2> HIDE DEF t
    <2> QED BY <1>1, <1>2 DEF StampOwnOrLater
  <1>10. AudioByLastShown' BY <1>1 DEF AudioByLastShown
  <1> QED BY <1>4, <1>5, <1>6, <1>7, <1>8, <1>9, <1>10

(* A frame is placed by its PTS. *)
LEMMA PlaceByPtsPreserves ==
    ASSUME IInv, PlaceByPts
    PROVE  IInv'
  <1> USE ConstantsAssumption DEF IInv, ntpVars, syncVars, ptsVars, streamVars
  <1> DEFINE f == frame.id
             o == PtsOffset(Pts[f])
  <1>1. /\ shown' = [id |-> f, stamp |-> NULL, timestamp |-> Pts[f] + o,
                     heard |-> FALSE]
        /\ pts_offset' = o
        /\ has_pts_offset' = TRUE /\ audio' = NULL /\ frame' = NoFrame
        /\ rpc' = "read"
        /\ UNCHANGED <<now, ntpVars, syncVars, streamVars>>
    BY DEF PlaceByPts
  <1>2. /\ f \in Frames /\ Pts[f] \in Int /\ o \in Int
    <2>1. f \in Frames BY DEF PlaceByPts, StreamInv, TypeOK
    <2>2. Pts[f] \in Int BY <2>1, Parameters
    <2>3. Local \in Int BY Parameters DEF Local, TypeOK
    <2>4. o \in Int BY <2>2, <2>3 DEF PtsOffset, TypeOK
    <2> QED BY <2>1, <2>2, <2>4
  <1>3. Local' = Local BY <1>1 DEF Local
  <1> HIDE DEF o
  <1>4. TypeOK'
    <2>1. Pts[f] + o \in Int BY <1>2
    <2> QED BY <1>1, <1>2, <1>3, <2>1 DEF TypeOK, NoFrame
  <1>5. StreamInv' BY <1>1, <1>2 DEF StreamInv
  <1>6. ClientInv' /\ SyncInv' /\ PtsInv'
    BY <1>1, <1>2 DEF ClientInv, SyncInv, PtsInv
  <1>7. AtOneMoment' /\ StampOwnOrLater' /\ AudioByLastShown'
    BY <1>1 DEF AtOneMoment, ByStamp, StampOwnOrLater, AudioByLastShown
  <1> QED BY <1>4, <1>5, <1>6, <1>7

(* Audio starts the offset, if there is none, and follows it. *)
LEMMA AudioPreserves ==
    ASSUME IInv, NEW pts \in Int,
           pts_offset' = PtsOffset(pts), has_pts_offset' = TRUE,
           \/ audio' = audio
           \/ /\ shown.id # NULL
              /\ audio' = [pts |-> pts, timestamp |-> pts + PtsOffset(pts)],
           UNCHANGED <<now, ntpVars, syncVars, rpc, streamVars, frame, shown>>
    PROVE  IInv'
  <1> USE ConstantsAssumption DEF IInv, ntpVars, syncVars, streamVars
  <1>1. Local' = Local BY DEF Local
  <1>2. PtsOffset(pts) \in Int BY DEF PtsOffset, TypeOK, Local
  <1>3. has_pts_offset => PtsOffset(pts) = pts_offset BY DEF PtsOffset
  <1>4. TypeOK'
    <2>1. audio' \in [pts : Int, timestamp : Int] \cup {NULL}
      BY <1>2 DEF TypeOK
    <2> QED BY <1>1, <1>2, <2>1 DEF TypeOK
  <1>5. StreamInv' /\ ClientInv' /\ SyncInv'
    BY DEF StreamInv, ClientInv, SyncInv
  <1>6. PtsInv' BY <1>3 DEF PtsInv
  <1>7. AtOneMoment' BY DEF AtOneMoment, ByStamp, Lag, ServerTime
  <1>8. StampOwnOrLater' BY DEF StampOwnOrLater
  <1>9. AudioByLastShown'
    <2>1. CASE audio' = audio BY <2>1 DEF AudioByLastShown
    <2>2. CASE audio' # audio
      <3>1. /\ audio' = [pts |-> pts, timestamp |-> pts + pts_offset]
            /\ shown.id \in Frames
        BY <2>2, <1>3 DEF PtsInv, TypeOK
      <3>2. /\ shown.timestamp = Pts[shown.id] + pts_offset
            /\ Pts[shown.id] \in Int /\ pts_offset \in Int
        BY <3>1, Parameters DEF PtsInv, TypeOK
      <3>3. /\ (pts + pts_offset) - pts = pts_offset
            /\ (Pts[shown.id] + pts_offset) - Pts[shown.id] = pts_offset
        BY <3>2, SMT
      <3> QED BY <3>1, <3>2, <3>3 DEF AudioByLastShown
    <2> QED BY <2>1, <2>2
  <1> QED BY <1>4, <1>5, <1>6, <1>7, <1>8, <1>9

LEMMA TickPreserves == ASSUME IInv, Tick PROVE IInv'
  <1> USE ConstantsAssumption DEF IInv, Tick, ntpVars, syncVars, streamVars, ptsVars
  <1>1. \A x \in 0 .. Local : x \in 0 .. Local'
    BY SMT DEF TypeOK, Local
  <1>2. TypeOK' BY <1>1 DEF TypeOK
  <1>3. StreamInv' /\ ClientInv' /\ SyncInv' /\ PtsInv'
    BY DEF StreamInv, ClientInv, SyncInv, PtsInv
  <1>4. AtOneMoment' BY DEF AtOneMoment, ByStamp, Lag, ServerTime
  <1>5. StampOwnOrLater' BY DEF StampOwnOrLater
  <1>6. AudioByLastShown' BY DEF AudioByLastShown
  <1> QED BY <1>2, <1>3, <1>4, <1>5, <1>6

LEMMA NextPreserves == IInv /\ [Next]_vars => IInv'
  <1> SUFFICES ASSUME IInv, [Next]_vars PROVE IInv' OBVIOUS
  <1> USE ConstantsAssumption
  <1>a. TypeOK /\ ClientInv /\ SyncInv BY DEF IInv
  <1>b. Local \in Int /\ Local \in 0 .. Local
    BY <1>a, Parameters, SMT DEF TypeOK, Local
  <1>c. \A c \in Clients : ~c.heard /\ client' = c => ClientInv'
    BY DEF ClientInv
  <1>d. /\ exchanged \in 0 .. Local /\ last_ntp_sync_time \in 0 .. Local
        /\ stored \in 0 .. Local /\ clock \in 0 .. Local
        /\ 0 \in 0 .. Local /\ updated \in BOOLEAN
    BY <1>a, <1>b, SMT DEF TypeOK
  <1>e. client \in Clients BY <1>a DEF TypeOK
  <1>f. client' \in Synced(client) => client' \in Clients /\ ClientInv'
    BY <1>b, <1>e, SyncedClient DEF ClientInv
  <1>g. client' = client => client' \in Clients /\ ClientInv'
    BY <1>a, <1>e DEF ClientInv
  <1>t. /\ ntp_enabled \in BOOLEAN
        /\ cpc \in ControlPlaces
        /\ rpc \in Places
        /\ {"idle", "init", "sync", "clock", "record", "destroy"}
              \subseteq ControlPlaces
        /\ {"elapsed", "exchange", "check", "place"} \subseteq Places
    BY <1>a DEF TypeOK, Places, ControlPlaces
  <1>s. ASSUME UNCHANGED <<last_ntp_sync_time, exchanged, updated, clock>>,
               rpc' = "elapsed" => rpc = "elapsed"
        PROVE  SyncInv'
    BY <1>a, <1>s DEF SyncInv
  <1>p. rpc = "place" => frame.stamp # NULL BY DEF IInv, StreamInv
  <1>1. CASE SwitchNtp
    <2>1. SyncInv' BY <1>1, <1>s DEF SwitchNtp, syncVars
    <2> QED BY <1>1, <2>1, <1>d, <1>g, <1>t, <1>p, NtpPreserves
            DEF SwitchNtp, syncVars
  <1>2. CASE InitClient \/ DestroyClient
    <2>1. client' \in Clients /\ ClientInv'
      BY <1>2, <1>c, FreshClients DEF InitClient, DestroyClient
    <2>2. /\ cpc' \in ControlPlaces
          /\ UNCHANGED <<now, ntp_enabled, stored, syncVars, rpc, streamVars,
                         frame, ptsVars, shown, audio>>
      BY <1>2, <1>t DEF InitClient, DestroyClient
    <2>3. SyncInv' BY <2>2, <1>s DEF syncVars
    <2> QED BY <2>1, <2>2, <2>3, <1>d, <1>t, <1>p, NtpPreserves DEF syncVars
  <1>3. CASE ControlSynced \/ ReadControlClock
    <2>1. client' \in Clients /\ ClientInv'
      BY <1>3, <1>f, <1>g DEF ControlSynced, ReadControlClock
    <2>2. /\ stored' \in {Local, stored}
          /\ cpc' \in ControlPlaces
          /\ UNCHANGED <<now, ntp_enabled, syncVars, rpc, streamVars, frame,
                         ptsVars, shown, audio>>
      BY <1>3, <1>t DEF ControlSynced, ReadControlClock
    <2>3. SyncInv' BY <2>2, <1>s DEF syncVars
    <2> QED BY <2>1, <2>2, <2>3, <1>b, <1>d, <1>t, <1>p, NtpPreserves
            DEF syncVars
  <1>12. CASE RecordSync
    <2>1. SyncInv' BY <1>12, <1>a DEF RecordSync, SyncInv
    <2> QED BY <1>12, <2>1, <1>d, <1>g, <1>t, <1>p, NtpPreserves
            DEF RecordSync
  <1>13. CASE ReadClock
    <2>1. /\ rpc = "policy" /\ rpc' \in {"elapsed", "check"}
          /\ clock' \in {Local, clock} /\ (rpc' = "elapsed" => clock' = Local)
          /\ UNCHANGED <<now, ntpVars, last_ntp_sync_time, exchanged, updated,
                         streamVars, frame, ptsVars, shown, audio>>
      BY <1>13 DEF ReadClock
    <2>2. exchanged <= Local BY <1>b, <1>d, SMT
    <2>3. SyncInv' BY <2>1, <2>2, <1>a DEF SyncInv
    <2> QED BY <2>1, <2>3, <1>b, <1>d, <1>g, <1>t, NtpPreserves DEF ntpVars
  <1>4. ASSUME NEW keyframe \in BOOLEAN, NEW drifted \in BOOLEAN,
               SyncPolicy(keyframe, drifted)
        PROVE  IInv'
    <2>1. /\ rpc = "elapsed" /\ rpc' \in {"exchange", "check"}
          /\ \/ /\ last_ntp_sync_time' = clock /\ exchanged' = clock
                /\ updated' = FALSE
             \/ UNCHANGED <<exchanged, updated, last_ntp_sync_time>>
          /\ clock' = 0
          /\ UNCHANGED <<now, ntpVars, streamVars, frame, ptsVars, shown,
                         audio>>
      BY <1>4 DEF SyncPolicy, BeginSync, GoToExchange
    <2>2. SyncInv' BY <2>1, <1>a DEF SyncInv
    <2> QED BY <2>1, <2>2, <1>d, <1>g, <1>t, NtpPreserves DEF ntpVars
  <1>5. CASE ThreadSynced
    <2>1. client' \in Clients /\ ClientInv'
      BY <1>5, <1>f, <1>g DEF ThreadSynced
    <2>2. SyncInv' BY <1>5, <1>s DEF ThreadSynced, syncVars
    <2> QED BY <1>5, <2>1, <2>2, <1>d, <1>t, NtpPreserves
            DEF ThreadSynced, syncVars
  <1>6. CASE GoByStamp
    <2>1. SyncInv' BY <1>6, <1>s DEF GoByStamp, syncVars
    <2> QED BY <1>6, <2>1, <1>d, <1>g, <1>t, NtpPreserves
            DEF GoByStamp, ntpVars, syncVars
  <1>7. ASSUME NEW f \in Frames, DecodeFrame(f) PROVE IInv'
    <2>1. Sent \ {f} \in SUBSET Sent OBVIOUS
    <2> QED BY <1>7, <2>1, DecodePreserves DEF DecodeFrame
  <1>8. ASSUME NEW lost \in SUBSET Frames, DecodeNothing(lost) PROVE IInv'
    <2>1. Sent \ lost \in SUBSET Sent OBVIOUS
    <2> QED BY <1>8, <2>1, DecodePreserves DEF DecodeNothing
  <1>9. ASSUME NEW f \in Frames, NEW tb \in TimeBases, DecodeAudio(f, tb)
        PROVE  IInv'
    <2>1. Nanoseconds(Pts[f], tb) \in Int BY Conversion
    <2>2. f = shown.id => shown.id # NULL BY ConstantsAssumption
    <2> QED BY <1>9, <2>1, <2>2, AudioPreserves DEF DecodeAudio
  <1>10. CASE DecodeAudioWithoutPts
    <2>1. (IF has_pts_offset THEN 0 - pts_offset ELSE 0) \in Int
      BY <1>a DEF TypeOK
    <2> QED BY <1>10, <2>1, AudioPreserves DEF DecodeAudioWithoutPts
  <1>11. CASE UNCHANGED vars
    <2>1. SyncInv' BY <1>11, <1>s DEF vars, syncVars
    <2> QED BY <1>11, <2>1, <1>d, <1>g, <1>t, <1>p, NtpPreserves
            DEF vars, ntpVars, syncVars
  <1> QED BY <1>1, <1>2, <1>3, <1>4, <1>5, <1>6, <1>7, <1>8, <1>9, <1>10,
             <1>11, <1>12, <1>13, ReconnectPreserves, PlaceByStampPreserves,
             PlaceByPtsPreserves, TickPreserves
       DEF Next

(* The inductive invariant holds of every behaviour of the receiver. *)
THEOREM Invariant == Spec => []IInv
  BY InitIInv, NextPreserves, PTL DEF Spec

(* The variables keep their values; the times on record are in the past. *)
THEOREM Types == Spec => []TypeOK
  <1>1. IInv => TypeOK BY DEF IInv
  <1> QED BY <1>1, Invariant, PTL

(* A frame placed by its stamp is shown a fixed time after it was stamped, *)
(* to within the error of an exchange.                                     *)
THEOREM ShownAtOneMoment == Spec => []AtOneMoment
  <1>1. IInv => AtOneMoment BY DEF IInv
  <1> QED BY <1>1, Invariant, PTL

(* No frame gets the stamp of an earlier one. *)
THEOREM StampsForward == Spec => []StampOwnOrLater
  <1>1. IInv => StampOwnOrLater BY DEF IInv
  <1> QED BY <1>1, Invariant, PTL

(* Audio goes by the offset of the frame shown last. *)
THEOREM AudioByFrame == Spec => []AudioByLastShown
  <1>1. IInv => AudioByLastShown BY DEF IInv
  <1> QED BY <1>1, Invariant, PTL

(* Frames whose stamps are further apart than the errors are shown in the  *)
(* order of their stamps.                                                  *)
THEOREM OrderKept == Spec => ShownInOrder
  <1> DEFINE InOrder == ByStamp(shown) /\ ByStamp(shown')
                          /\ Stamp[shown'.stamp] - Stamp[shown.stamp]
                                > 2 * MaxError
                          => shown'.timestamp > shown.timestamp
  <1>1. ASSUME IInv, IInv' PROVE InOrder
    <2> SUFFICES ASSUME ByStamp(shown), ByStamp(shown'),
                        Stamp[shown'.stamp] - Stamp[shown.stamp]
                           > 2 * MaxError
                 PROVE  shown'.timestamp > shown.timestamp
      OBVIOUS
    <2>1. /\ shown.stamp \in Frames /\ shown'.stamp \in Frames
          /\ shown.timestamp \in Int /\ shown'.timestamp \in Int
      BY <1>1 DEF IInv, TypeOK, ByStamp
    <2>2. /\ Stamp[shown.stamp] \in Int /\ Stamp[shown'.stamp] \in Int
      BY <2>1, Parameters
    <2>3. /\ (shown.timestamp + Theta) - Stamp[shown.stamp]
                \in Delta - MaxError .. Delta + MaxError
          /\ (shown'.timestamp + Theta) - Stamp[shown'.stamp]
                \in Delta - MaxError .. Delta + MaxError
      BY <1>1 DEF IInv, AtOneMoment, Lag, ServerTime, ByStamp
    <2>4. \A s, t, x, y \in Int :
             /\ (s + Theta) - x \in Delta - MaxError .. Delta + MaxError
             /\ (t + Theta) - y \in Delta - MaxError .. Delta + MaxError
             /\ y - x > 2 * MaxError
             => t > s
      BY Parameters, SMT
    <2> QED BY <2>1, <2>2, <2>3, <2>4
  <1>2. IInv /\ IInv' /\ [Next]_vars => [InOrder]_vars BY <1>1
  <1> QED BY <1>2, Invariant, PTL DEF Spec, ShownInOrder

(* The receive thread waits for the server at most once in an interval,    *)
(* and once more for a sync that update records.                           *)
THEOREM ThreadSyncsSpaced == Spec => SyncsSpaced
  <1> DEFINE Spaced ==
        rpc = "elapsed" /\ rpc' = "exchange" =>
           exchanged = 0 \/ updated \/ clock - exchanged >= Interval
  <1>1. ASSUME IInv, [Next]_vars PROVE Spaced
    <2> SUFFICES ASSUME rpc = "elapsed", rpc' = "exchange",
                        exchanged # 0, ~updated
                 PROVE  clock - exchanged >= Interval
      OBVIOUS
    <2>1. PICK keyframe, drifted \in BOOLEAN : ShouldSync(keyframe, drifted)
      BY <1>1
      DEF Next, vars, ntpVars, syncVars, streamVars, SwitchNtp, InitClient,
          ControlSynced, ReadControlClock, RecordSync, DestroyClient,
          DecodeFrame, DecodeNothing, Reconnect, DecodeAudio, ReadClock,
          SyncPolicy, ThreadSynced, GoByStamp, PlaceByStamp, PlaceByPts,
          DecodeAudioWithoutPts, Tick
    <2>2. /\ exchanged \in Nat /\ last_ntp_sync_time = exchanged
          /\ clock \in Nat /\ exchanged <= clock
      BY <1>1 DEF IInv, TypeOK, SyncInv
    <2>3. SinceSync = clock - exchanged BY <2>2, SMT DEF SinceSync
    <2> QED BY <2>1, <2>3 DEF ShouldSync
  <1>2. IInv /\ [Next]_vars => [Spaced]_vars BY <1>1
  <1> QED BY <1>2, Invariant, PTL DEF Spec, SyncsSpaced

(* Two receivers, each with a clock of its own: their timestamps for the   *)
(* frames of one stamp are moments of the server's clock at most the two   *)
(* errors apart.                                                           *)
THEOREM SameMoment ==
    ASSUME NEW stamp \in Int,
           NEW ThetaA \in Int, NEW timestampA \in Int, NEW ErrorA \in Nat,
           NEW ThetaB \in Int, NEW timestampB \in Int, NEW ErrorB \in Nat,
           (timestampA + ThetaA) - stamp \in Delta - ErrorA .. Delta + ErrorA,
           (timestampB + ThetaB) - stamp \in Delta - ErrorB .. Delta + ErrorB
    PROVE  (timestampA + ThetaA) - (timestampB + ThetaB)
              \in -(ErrorA + ErrorB) .. ErrorA + ErrorB
  BY Parameters, SMT

=============================================================================
