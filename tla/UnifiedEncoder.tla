--------------------------- MODULE UnifiedEncoder ----------------------------
(***************************************************************************)
(* What the unified encoder owns (unified-encoder.c:95-352): create        *)
(* allocates the encoder OBS gets, a placeholder for the backend, and, in  *)
(* the backend's own create (nvenc-encoder.c, amd-encoder.c,               *)
(* qsv-encoder.c), the object that takes the placeholder's place, step by  *)
(* step and with a failure after each; encode adds buffers, destroy frees. *)
(* OBS calls one encoder from one thread, and several encoders at once.    *)
(*                                                                         *)
(* The heap gives each address the parts allocated for the object there;   *)
(* a pointer may outlive its object, and the address be allocated again.   *)
(***************************************************************************)
EXTENDS FiniteSets

CONSTANTS
    Encoders,     \* the encoders of OBS
    Addresses,    \* of the objects on the heap; bounds what can be leaked
    Builds,       \* the sets of backends a build can have compiled in
    SignedEnums,  \* an enum can be negative, as it can with MSVC
    NULL

Hardware == {"intel", "nvidia", "amd"}

ASSUME ConstantsAssumption ==
    /\ Builds \subseteq SUBSET Hardware
    /\ SignedEnums \in BOOLEAN
    /\ NULL \notin Addresses

VARIABLES
    built,            \* ENABLE_VPL, ENABLE_NVENC and ENABLE_AMD
    heap,             \* the parts of the object at each address, {} if free
    stage,            \* where each encoder stands
    hardware_type,    \* the backend it chose
    enc,              \* the unified encoder: a local of create, then OBS's
    backend,          \* its qsv_encoder, nvenc_encoder or amd_encoder
    object,           \* what the backend's create is making
    leaked            \* history: what backends left allocated, each with the
                      \* backend that did, besides whole objects on the heap

vars == <<built, heap, stage, hardware_type, enc, backend, object, leaked>>

-----------------------------------------------------------------------------

(* The struct itself, and what its fields own. *)
Parts == {"struct", "strings", "context", "frame", "packet", "extra_data",
          "packet_buffer", "loader", "session", "surfaces", "bitstream"}

(* What QSV's encode allocates for the packet only, and what it may leave  *)
(* of a search for parameter sets (qsv-encoder.c:203, 965).                *)
Blocks == {"packet_data", "pps"}

Stages == {"none", "allocated", "placed", "opening", "opened", "running"}

Pointers == Addresses \cup {NULL}

Init ==
    /\ built \in Builds
    /\ heap = [a \in Addresses |-> {}]
    /\ stage = [e \in Encoders |-> "none"]
    /\ hardware_type = [e \in Encoders |-> "intel"]
    /\ enc = [e \in Encoders |-> NULL]
    /\ backend = [e \in Encoders |-> NULL]
    /\ object = [e \in Encoders |-> NULL]
    /\ leaked = {}

-----------------------------------------------------------------------------
(* The heap.                                                               *)

Free(a) == heap[a] = {}

(* The object at a gets parts. *)
With(a, parts) == [heap EXCEPT ![a] = @ \cup parts]

(* The heap h without the structs at the addresses as. *)
Without(h, as) == [a \in Addresses |-> IF a \in as THEN h[a] \ {"struct"}
                                                   ELSE h[a]]

(* Faulty: the buffer encode makes is forgotten. *)
ReleasedWithoutBuffer(hw) ==
    IF hw = "intel"
      THEN {"struct", "strings", "loader", "surfaces", "bitstream",
            "extra_data"}
      ELSE {"struct", "strings", "context", "frame", "packet", "extra_data"}

(* What the destroy of a backend frees. *)
Released(hw) ==
    IF hw = "intel"
      THEN {"struct", "strings", "loader", "surfaces", "bitstream",
            "extra_data"}
      ELSE {"struct", "strings", "context", "frame", "packet", "extra_data",
            "packet_buffer"}

(* The backend of e destroys the object at a: its address is free after    *)
(* that, with or without the parts that destroy left.                      *)
Destroyed(a) == [heap EXCEPT ![a] = {}]

Left(e, a) == {hardware_type[e]} \X (heap[a] \ Released(hardware_type[e]))

-----------------------------------------------------------------------------
(* create.                                                                 *)

(* Faulty: the setting is taken as it is. *)
Unvalidated(setting) == setting

(* Only the upper bound is checked: a value too large is Intel's, and so   *)
(* is a negative one unless the enum is signed.                            *)
Validated(setting) ==
    IF setting \in Hardware \/ (setting = "negative" /\ SignedEnums)
      THEN setting ELSE "intel"

Allocate(e, setting) ==
    /\ stage[e] = "none"
    /\ \E a \in Addresses :
          /\ Free(a)
          /\ heap' = With(a, {"struct"})
          /\ enc' = [enc EXCEPT ![e] = a]
    /\ hardware_type' = [hardware_type EXCEPT ![e] = Validated(setting)]
    /\ stage' = [stage EXCEPT ![e] = "allocated"]
    /\ UNCHANGED <<backend, object, leaked>>

(* create returns NULL: of the heap h it frees the placeholder, if it has  *)
(* one, and the encoder.                                                   *)
CreateFails(e, h) ==
    /\ heap' = Without(h, {backend[e], enc[e]})
    /\ stage' = [stage EXCEPT ![e] = "none"]
    /\ enc' = [enc EXCEPT ![e] = NULL]
    /\ backend' = [backend EXCEPT ![e] = NULL]
    /\ object' = [object EXCEPT ![e] = NULL]
    /\ UNCHANGED hardware_type

NoVideo(e) ==
    /\ stage[e] = "allocated"
    /\ CreateFails(e, heap)
    /\ UNCHANGED leaked

NotBuilt(e) ==
    /\ stage[e] = "allocated"
    /\ hardware_type[e] \in Hardware \ built
    /\ CreateFails(e, heap)
    /\ UNCHANGED leaked

(* The default branch: a negative value. *)
UnknownHardware(e) ==
    /\ stage[e] = "allocated"
    /\ hardware_type[e] \notin Hardware
    /\ CreateFails(e, heap)
    /\ UNCHANGED leaked

(* The struct that only stands for the backend until there is one. *)
Place(e) ==
    /\ stage[e] = "allocated"
    /\ hardware_type[e] \in built
    /\ \E a \in Addresses :
          /\ Free(a)
          /\ heap' = With(a, {"struct"})
          /\ backend' = [backend EXCEPT ![e] = a]
    /\ stage' = [stage EXCEPT ![e] = "placed"]
    /\ UNCHANGED <<hardware_type, enc, object, leaked>>

(* The backend's create begins: FFmpeg's two copy the settings' strings.   *)
CreateInternal(e) ==
    /\ stage[e] = "placed"
    /\ \E a \in Addresses :
          /\ Free(a)
          /\ heap' = With(a, IF hardware_type[e] = "intel"
                               THEN {"struct"} ELSE {"struct", "strings"})
          /\ object' = [object EXCEPT ![e] = a]
    /\ stage' = [stage EXCEPT ![e] = "opening"]
    /\ UNCHANGED <<hardware_type, enc, backend, leaked>>

(* A codec context, or a loader and a session of VPL. *)
Open(e) ==
    /\ stage[e] = "opening"
    /\ heap' = With(object[e], IF hardware_type[e] = "intel"
                                 THEN {"loader", "session"}
                                 ELSE {"context"})
    /\ stage' = [stage EXCEPT ![e] = "opened"]
    /\ UNCHANGED <<hardware_type, enc, backend, object, leaked>>

(* No such codec, context, loader or session, or it does not open: the     *)
(* backend destroys the object.                                            *)
OpenFails(e) ==
    /\ stage[e] \in {"opening", "opened"}
    /\ CreateFails(e, Destroyed(object[e]))
    /\ leaked' = leaked \cup Left(e, object[e])

(* QSV has no surface or bitstream buffer, and leaves the object as it is. *)
BuffersFail(e) ==
    /\ stage[e] = "opened"
    /\ hardware_type[e] = "intel"
    /\ CreateFails(e, With(object[e], {"surfaces"}))
    /\ UNCHANGED leaked

(* What the object gets last; for FFmpeg some of it may be missing. *)
LastParts(hw) ==
    IF hw = "intel" THEN {{"surfaces", "bitstream"}}
                    ELSE SUBSET {"frame", "packet", "extra_data"}

(* Faulty: the placeholder stays in its place. *)
ReturnPlaceholder(e) ==
    /\ stage' = [stage EXCEPT ![e] = "running"]
    /\ object' = [object EXCEPT ![e] = NULL]
    /\ UNCHANGED backend

(* The object takes the place of the placeholder, which nobody frees, and  *)
(* OBS gets the encoder.                                                   *)
ReturnObject(e) ==
    /\ stage' = [stage EXCEPT ![e] = "running"]
    /\ backend' = [backend EXCEPT ![e] = object[e]]
    /\ object' = [object EXCEPT ![e] = NULL]

Succeed(e) ==
    /\ stage[e] = "opened"
    /\ \E parts \in LastParts(hardware_type[e]) :
          heap' = With(object[e], parts)
    /\ ReturnObject(e)
    /\ UNCHANGED <<hardware_type, enc, leaked>>

-----------------------------------------------------------------------------
(* encode, when it gives a packet.                                         *)

(* FFmpeg's two copy it to a buffer that they keep. *)
EncodeFFmpeg(e) ==
    /\ stage[e] = "running"
    /\ hardware_type[e] # "intel"
    /\ heap' = With(backend[e], {"packet_buffer"})
    /\ UNCHANGED <<stage, hardware_type, enc, backend, object, leaked>>

(* QSV makes extra data of the parameter sets of a keyframe, if it has     *)
(* none yet; a search that finds a PPS only forgets its copy of it.  The   *)
(* packet is a block of its own, which OBS copies and nobody frees.        *)
EncodeQsv(e, made, forgotten) ==
    /\ stage[e] = "running"
    /\ hardware_type[e] = "intel"
    /\ made \subseteq {"extra_data"}
    /\ forgotten \subseteq {"pps"}
    /\ forgotten # {} => "extra_data" \notin heap[backend[e]] /\ made = {}
    /\ heap' = With(backend[e], made)
    /\ leaked' = leaked \cup {"intel"} \X ({"packet_data"} \cup forgotten)
    /\ UNCHANGED <<stage, hardware_type, enc, backend, object>>

Destroy(e) ==
    /\ stage[e] = "running"
    /\ heap' = Without(Destroyed(backend[e]), {enc[e]})
    /\ leaked' = leaked \cup Left(e, backend[e])
    /\ stage' = [stage EXCEPT ![e] = "none"]
    /\ enc' = [enc EXCEPT ![e] = NULL]
    /\ backend' = [backend EXCEPT ![e] = NULL]
    /\ UNCHANGED <<hardware_type, object>>

Settings == Hardware \cup {"too large", "negative"}

Step(e) ==
    \/ \E setting \in Settings : Allocate(e, setting)
    \/ NoVideo(e) \/ NotBuilt(e) \/ UnknownHardware(e) \/ Place(e)
    \/ CreateInternal(e) \/ Open(e)
    \/ OpenFails(e) \/ BuffersFail(e) \/ Succeed(e)
    \/ EncodeFFmpeg(e)
    \/ \E made \in SUBSET {"extra_data"}, forgotten \in SUBSET {"pps"} :
          EncodeQsv(e, made, forgotten)
    \/ Destroy(e)

Next == UNCHANGED built /\ \E e \in Encoders : Step(e)

Spec == Init /\ [][Next]_vars

-----------------------------------------------------------------------------
(* Properties.                                                             *)

(* The values the variables take. *)
TypeOK ==
    /\ built \in Builds
    /\ heap \in [Addresses -> SUBSET Parts]
    /\ stage \in [Encoders -> Stages]
    /\ hardware_type \in [Encoders -> Hardware \cup {"negative"}]
    /\ enc \in [Encoders -> Pointers]
    /\ backend \in [Encoders -> Pointers]
    /\ object \in [Encoders -> Pointers]
    /\ leaked \subseteq Hardware \X (Parts \cup Blocks)

(* The objects an encoder can reach. *)
HeldBy(e) == {enc[e], backend[e], object[e]} \ {NULL}

(* What a backend cannot encode without. *)
Needed(hw) ==
    IF hw = "intel"
      THEN {"struct", "loader", "session", "surfaces", "bitstream"}
      ELSE {"struct", "strings", "context"}

(* Nothing is used or freed by one who does not own it: what an encoder    *)
(* can reach is allocated, each pointer to an object of its own, no other  *)
(* encoder reaches it, and the backend of a running encoder is whole and   *)
(* of a kind the build has, whichever creates failed before and whatever   *)
(* the setting was.                                                        *)
Owned ==
    /\ \A e \in Encoders :
          /\ \A a \in HeldBy(e) : "struct" \in heap[a]
          /\ enc[e] \in {NULL} \/ enc[e] \notin {backend[e], object[e]}
          /\ backend[e] = NULL \/ backend[e] # object[e]
          /\ stage[e] = "running" =>
                /\ enc[e] # NULL /\ backend[e] # NULL
                /\ hardware_type[e] \in built
                /\ Needed(hardware_type[e]) \subseteq heap[backend[e]]
    /\ \A e, f \in Encoders : e # f => HeldBy(e) \cap HeldBy(f) = {}

(* What is allocated and nobody can reach. *)
Lost == {a \in Addresses : ~Free(a) /\ \A e \in Encoders : a \notin HeldBy(e)}

(* Whole objects: the placeholder of a create that succeeds, and what a    *)
(* QSV create has made when it fails over the buffers.                     *)
Loses(e, a) ==
    \/ stage[e] = "opened" /\ stage'[e] = "running" /\ a = backend[e]
    \/ /\ stage[e] = "opened" /\ stage'[e] = "none"
       /\ hardware_type[e] = "intel"
       /\ a = object[e]

(* And of QSV's: the session, which its destroy does not close, and the    *)
(* blocks of encode.                                                       *)
Leaves(e, part) ==
    /\ hardware_type[e] = "intel"
    /\ \/ /\ part = "session"
          /\ stage[e] \in {"opened", "running"} /\ stage'[e] = "none"
       \/ /\ part \in Blocks
          /\ stage[e] = "running" /\ stage'[e] = "running"

(* The code loses what is listed above and nothing else: a create that     *)
(* fails otherwise, a destroy of FFmpeg's backends and their encode lose   *)
(* nothing, and what was lost is not touched again.                        *)
LosesNothingElse ==
    [][/\ \A a \in Lost : heap'[a] = heap[a] /\ a \in Lost'
       /\ \A a \in Lost' \ Lost : \E e \in Encoders : Loses(e, a)
       /\ \A l \in leaked' \ leaked :
             \E e \in Encoders : hardware_type[e] = l[1] /\ Leaves(e, l[2])]_vars

-----------------------------------------------------------------------------
(* The inductive invariant behind them.                                    *)

(* Which pointers an encoder has, by its stage. *)
PointersInv(e) ==
    /\ enc[e] # NULL <=> stage[e] # "none"
    /\ backend[e] # NULL <=> stage[e] \notin {"none", "allocated"}
    /\ object[e] # NULL <=> stage[e] \in {"opening", "opened"}
    /\ enc[e] # NULL => enc[e] \notin {backend[e], object[e]}
    /\ backend[e] # NULL => backend[e] # object[e]

(* What the destroy of a backend leaves of it. *)
Unclosed(hw) == IF hw = "intel" THEN {"session"} ELSE {}

(* What is allocated behind them: the encoder and the placeholder are      *)
(* structs, and a backend has nothing that its destroy does not free but   *)
(* the session.                                                            *)
PartsInv(e) ==
    /\ enc[e] # NULL => heap[enc[e]] = {"struct"}
    /\ stage[e] \in {"placed", "opening", "opened"} =>
          heap[backend[e]] = {"struct"}
    /\ object[e] # NULL =>
          /\ "struct" \in heap[object[e]]
          /\ hardware_type[e] # "intel" => "strings" \in heap[object[e]]
          /\ heap[object[e]] \subseteq
                Released(hardware_type[e]) \cup Unclosed(hardware_type[e])
    /\ stage[e] \notin {"none", "allocated"} => hardware_type[e] \in built
    /\ stage[e] = "opening" => "session" \notin heap[object[e]]
    /\ stage[e] = "opened" =>
          (IF hardware_type[e] = "intel" THEN {"loader", "session"}
                                         ELSE {"context"})
              \subseteq heap[object[e]]
    /\ stage[e] = "running" =>
          /\ Needed(hardware_type[e]) \subseteq heap[backend[e]]
          /\ heap[backend[e]] \subseteq
                Released(hardware_type[e]) \cup Unclosed(hardware_type[e])

IInv ==
    /\ TypeOK
    /\ \A e \in Encoders : PointersInv(e) /\ PartsInv(e)
    /\ \A e, f \in Encoders : e # f => HeldBy(e) \cap HeldBy(f) = {}

=============================================================================
