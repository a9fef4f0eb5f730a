------------------------ MODULE UnifiedEncoderProofs -------------------------
(***************************************************************************)
(* The unified encoder frees what it owns and nothing else, for any number *)
(* of encoders, addresses and builds.                                      *)
(***************************************************************************)
EXTENDS UnifiedEncoder, TLAPS

(* What a step may leave, and what it may lose: the body of                *)
(* LosesNothingElse.                                                       *)
LeftStep ==
    \A l \in leaked' \ leaked :
       \E e \in Encoders : hardware_type[e] = l[1] /\ Leaves(e, l[2])

LostStep ==
    /\ \A a \in Lost : heap'[a] = heap[a] /\ a \in Lost'
    /\ \A a \in Lost' \ Lost : \E e \in Encoders : Loses(e, a)
    /\ LeftStep

(* The initial state. *)
LEMMA InitIInv == Init => IInv
  <1> SUFFICES ASSUME Init PROVE IInv OBVIOUS
  <1>1. TypeOK BY DEF Init, TypeOK, Stages, Pointers, Parts, Hardware
  <1>2. \A e \in Encoders : PointersInv(e) /\ PartsInv(e)
    BY DEF Init, PointersInv, PartsInv
  <1>3. \A e \in Encoders : HeldBy(e) = {} BY DEF Init, HeldBy
  <1> QED BY <1>1, <1>2, <1>3 DEF IInv

(* What an encoder holds is an address, with a struct at it. *)
LEMMA HeldIsLive ==
    ASSUME IInv, NEW e \in Encoders, NEW a \in HeldBy(e)
    PROVE  a \in Addresses /\ "struct" \in heap[a]
  <1>1. a \in Addresses BY DEF IInv, TypeOK, Pointers, HeldBy
  <1>2. PointersInv(e) /\ PartsInv(e) /\ stage[e] \in Stages
    BY DEF IInv, TypeOK
  <1> SUFFICES "struct" \in heap[a] BY <1>1
  <1>3. CASE a = enc[e] BY <1>2, <1>3 DEF PartsInv, HeldBy
  <1>4. CASE a = object[e] BY <1>2, <1>4 DEF PartsInv, HeldBy
  <1>5. CASE a = backend[e]
    <2>1. stage[e] \in {"placed", "opening", "opened", "running"}
      BY <1>2, <1>5 DEF PointersInv, Stages, HeldBy
    <2>2. CASE stage[e] = "running"
      BY <1>2, <1>5, <2>2 DEF PartsInv, Needed
    <2> QED BY <1>2, <1>5, <2>1, <2>2 DEF PartsInv
  <1> QED BY <1>3, <1>4, <1>5 DEF HeldBy

(* A step of e that touches the memory at A only, which is its own or      *)
(* free, leaves the others alone, and loses what it lets go of.            *)
LEMMA OwnMemoryOnly ==
    ASSUME IInv, NEW e \in Encoders, NEW A,
           TypeOK', PointersInv(e)', PartsInv(e)', UNCHANGED built, LeftStep,
           \A f \in Encoders \ {e} :
              /\ enc'[f] = enc[f] /\ backend'[f] = backend[f]
              /\ object'[f] = object[f] /\ stage'[f] = stage[f]
              /\ hardware_type'[f] = hardware_type[f],
           \A a \in Addresses \ A : heap'[a] = heap[a],
           A \subseteq HeldBy(e) \cup {a \in Addresses : Free(a)},
           HeldBy(e)' \subseteq HeldBy(e) \cup A,
           \A a \in (HeldBy(e) \cup A) \ HeldBy(e)' :
              heap'[a] = {} \/ Loses(e, a)
    PROVE  IInv' /\ LostStep
  <1>1. \A f \in Encoders \ {e} : HeldBy(f)' = HeldBy(f)
    BY DEF HeldBy
  <1>2. \A f \in Encoders \ {e} : HeldBy(f) \cap (HeldBy(e) \cup A) = {}
    <2> SUFFICES ASSUME NEW f \in Encoders \ {e}, NEW a \in HeldBy(f),
                        a \in HeldBy(e) \cup A
                 PROVE  FALSE
      OBVIOUS
    <2>1. "struct" \in heap[a] BY HeldIsLive
    <2>2. ~Free(a) BY <2>1 DEF Free
    <2> QED BY <2>2 DEF IInv
  <1>3. \A f \in Encoders \ {e} : \A a \in HeldBy(f) : heap'[a] = heap[a]
    BY <1>2, HeldIsLive
  <1>4. ASSUME NEW f \in Encoders PROVE PointersInv(f)' /\ PartsInv(f)'
    <2>1. CASE f = e BY <2>1
    <2>2. CASE f # e
      <3>1. PointersInv(f) /\ PartsInv(f) BY DEF IInv
      <3>2. /\ enc'[f] = enc[f] /\ backend'[f] = backend[f]
            /\ object'[f] = object[f] /\ stage'[f] = stage[f]
            /\ hardware_type'[f] = hardware_type[f]
        BY <2>2
      <3>3. /\ enc[f] # NULL => heap'[enc[f]] = heap[enc[f]]
            /\ backend[f] # NULL => heap'[backend[f]] = heap[backend[f]]
            /\ object[f] # NULL => heap'[object[f]] = heap[object[f]]
        BY <1>3, <2>2 DEF HeldBy
      <3>4. PointersInv(f)' BY <3>1, <3>2 DEF PointersInv
      <3>5. stage[f] \in {"placed", "opening", "opened", "running"}
               => backend[f] # NULL
        BY <3>1 DEF PointersInv
      <3>6. stage[f] \in {"opening", "opened"} => object[f] # NULL
        BY <3>1 DEF PointersInv
      <3>7. PartsInv(f)' BY <3>1, <3>2, <3>3, <3>5, <3>6 DEF PartsInv
      <3> QED BY <3>4, <3>7
    <2> QED BY <2>1, <2>2
  <1>5. ASSUME NEW f \in Encoders, NEW g \in Encoders, f # g
        PROVE  HeldBy(f)' \cap HeldBy(g)' = {}
    <2>1. CASE f = e BY <2>1, <1>1, <1>2, <1>5
    <2>2. CASE g = e BY <2>2, <1>1, <1>2, <1>5
    <2>3. CASE f # e /\ g # e BY <2>3, <1>1, <1>5 DEF IInv
    <2> QED BY <2>1, <2>2, <2>3
  <1>6. ASSUME NEW a \in Lost PROVE heap'[a] = heap[a] /\ a \in Lost'
    <2>1. a \in Addresses /\ ~Free(a) /\ \A f \in Encoders : a \notin HeldBy(f)
      BY DEF Lost
    <2>2. a \notin A BY <2>1
    <2>3. heap'[a] = heap[a] BY <2>1, <2>2
    <2>4. \A f \in Encoders : a \notin HeldBy(f)'
      <3> TAKE f \in Encoders
      <3>1. CASE f = e BY <3>1, <2>1, <2>2
      <3>2. CASE f # e BY <3>2, <1>1, <2>1
      <3> QED BY <3>1, <3>2
    <2> QED BY <2>1, <2>3, <2>4 DEF Lost, Free
  <1>7. ASSUME NEW a \in Lost' \ Lost PROVE \E f \in Encoders : Loses(f, a)
    <2>1. /\ a \in Addresses /\ heap'[a] # {}
          /\ \A f \in Encoders : a \notin HeldBy(f)'
      BY DEF Lost, Free
    <2>2. a \in HeldBy(e) \cup A
      <3> SUFFICES ASSUME a \notin HeldBy(e), a \notin A PROVE FALSE
        OBVIOUS
      <3>1. ~Free(a) BY <2>1 DEF Free
      <3>2. \A f \in Encoders : a \notin HeldBy(f)
        <4> TAKE f \in Encoders
        <4>1. CASE f # e BY <4>1, <1>1, <2>1
        <4> QED BY <4>1
      <3> QED BY <2>1, <3>1, <3>2 DEF Lost
    <2> QED BY <2>1, <2>2
  <1> QED BY <1>4, <1>5, <1>6, <1>7 DEF IInv, LostStep

(* The pointers of an encoder, and its type, named. *)
LEMMA Own ==
    ASSUME IInv, NEW e \in Encoders
    PROVE  /\ PointersInv(e) /\ PartsInv(e)
           /\ heap \in [Addresses -> SUBSET Parts]
           /\ stage \in [Encoders -> Stages]
           /\ hardware_type \in [Encoders -> Hardware \cup {"negative"}]
           /\ leaked \subseteq Hardware \X (Parts \cup Blocks)
           /\ enc \in [Encoders -> Pointers]
           /\ backend \in [Encoders -> Pointers]
           /\ object \in [Encoders -> Pointers]
           /\ NULL \notin Addresses
  BY ConstantsAssumption DEF IInv, TypeOK

(* A new struct at a free address goes to a pointer of e that is NULL. *)
LEMMA AllocateKeeps ==
    ASSUME IInv, NEW e \in Encoders, UNCHANGED built,
           NEW setting \in Settings, Allocate(e, setting)
    PROVE  IInv' /\ LostStep
  <1> USE Own
  <1>1. PICK a \in Addresses : /\ Free(a)
                               /\ heap' = With(a, {"struct"})
                               /\ enc' = [enc EXCEPT ![e] = a]
    BY DEF Allocate
  <1>2. /\ stage[e] = "none"
        /\ hardware_type' = [hardware_type EXCEPT ![e] = Validated(setting)]
        /\ stage' = [stage EXCEPT ![e] = "allocated"]
        /\ backend' = backend /\ object' = object /\ leaked' = leaked
    BY DEF Allocate
  <1>3. enc[e] = NULL /\ backend[e] = NULL /\ object[e] = NULL
    BY <1>2 DEF PointersInv
  <1>4. heap'[a] = {"struct"} /\ \A b \in Addresses \ {a} : heap'[b] = heap[b]
    BY <1>1 DEF With, Free
  <1>5. TypeOK'
    BY <1>1, <1>2 DEF IInv, TypeOK, With, Parts, Stages, Pointers, Validated,
       Hardware
  <1>6. HeldBy(e) = {} /\ HeldBy(e)' = {a}
    BY <1>1, <1>2, <1>3 DEF HeldBy
  <1>l. LeftStep BY <1>2 DEF LeftStep
  <1>7. PointersInv(e)' BY <1>1, <1>2, <1>3 DEF PointersInv
  <1>8. PartsInv(e)' BY <1>1, <1>2, <1>3, <1>4 DEF PartsInv
  <1>9. \A f \in Encoders \ {e} :
           /\ enc'[f] = enc[f] /\ backend'[f] = backend[f]
           /\ object'[f] = object[f] /\ stage'[f] = stage[f]
           /\ hardware_type'[f] = hardware_type[f]
    BY <1>1, <1>2
  <1>m. /\ {a} \subseteq HeldBy(e) \cup {x \in Addresses : Free(x)}
        /\ HeldBy(e)' \subseteq HeldBy(e) \cup {a}
        /\ (HeldBy(e) \cup {a}) \ HeldBy(e)' = {}
    BY <1>1, <1>6
  <1> QED BY <1>1, <1>4, <1>5, <1>6, <1>7, <1>8, <1>9, <1>l, <1>m,
             OwnMemoryOnly

LEMMA PlaceKeeps ==
    ASSUME IInv, NEW e \in Encoders, UNCHANGED built, Place(e)
    PROVE  IInv' /\ LostStep
  <1> USE Own
  <1>1. PICK a \in Addresses : /\ Free(a)
                               /\ heap' = With(a, {"struct"})
                               /\ backend' = [backend EXCEPT ![e] = a]
    BY DEF Place
  <1>2. /\ stage[e] = "allocated"
        /\ stage' = [stage EXCEPT ![e] = "placed"]
        /\ hardware_type' = hardware_type /\ enc' = enc /\ object' = object
        /\ leaked' = leaked /\ hardware_type[e] \in built
    BY DEF Place
  <1>3. enc[e] # NULL /\ backend[e] = NULL /\ object[e] = NULL
    BY <1>2 DEF PointersInv
  <1>4. heap'[a] = {"struct"} /\ \A b \in Addresses \ {a} : heap'[b] = heap[b]
    BY <1>1 DEF With, Free
  <1>5. TypeOK'
    BY <1>1, <1>2 DEF IInv, TypeOK, With, Parts, Stages, Pointers
  <1>6. HeldBy(e) = {enc[e]} /\ HeldBy(e)' = {enc[e], a}
    BY <1>1, <1>2, <1>3 DEF HeldBy
  <1>l. LeftStep BY <1>2 DEF LeftStep
  <1>7. enc[e] # a /\ enc[e] \in Addresses
    BY <1>1, <1>3, <1>6, HeldIsLive DEF Free
  <1>8. PointersInv(e)' BY <1>1, <1>2, <1>3, <1>7 DEF PointersInv
  <1>9. PartsInv(e)' BY <1>1, <1>2, <1>3, <1>4, <1>7 DEF PartsInv
  <1>10. \A f \in Encoders \ {e} :
           /\ enc'[f] = enc[f] /\ backend'[f] = backend[f]
           /\ object'[f] = object[f] /\ stage'[f] = stage[f]
           /\ hardware_type'[f] = hardware_type[f]
    BY <1>1, <1>2
  <1>m. /\ {a} \subseteq HeldBy(e) \cup {x \in Addresses : Free(x)}
        /\ HeldBy(e)' \subseteq HeldBy(e) \cup {a}
        /\ (HeldBy(e) \cup {a}) \ HeldBy(e)' = {}
    BY <1>1, <1>6
  <1> QED BY <1>1, <1>4, <1>5, <1>6, <1>8, <1>9, <1>10, <1>l, <1>m,
             OwnMemoryOnly

LEMMA CreateInternalKeeps ==
    ASSUME IInv, NEW e \in Encoders, UNCHANGED built, CreateInternal(e)
    PROVE  IInv' /\ LostStep
  <1> USE Own
  <1> DEFINE made == IF hardware_type[e] = "intel"
                       THEN {"struct"} ELSE {"struct", "strings"}
  <1>1. PICK a \in Addresses : /\ Free(a)
                               /\ heap' = With(a, made)
                               /\ object' = [object EXCEPT ![e] = a]
    BY DEF CreateInternal
  <1>2. /\ stage[e] = "placed"
        /\ stage' = [stage EXCEPT ![e] = "opening"]
        /\ hardware_type' = hardware_type /\ enc' = enc
        /\ backend' = backend /\ leaked' = leaked
    BY DEF CreateInternal
  <1>3. enc[e] # NULL /\ backend[e] # NULL /\ object[e] = NULL
    BY <1>2 DEF PointersInv
  <1>4. heap'[a] = made /\ \A b \in Addresses \ {a} : heap'[b] = heap[b]
    BY <1>1 DEF With, Free
  <1>5. TypeOK'
    BY <1>1, <1>2 DEF IInv, TypeOK, With, Parts, Stages, Pointers
  <1>6. HeldBy(e) = {enc[e], backend[e]} /\ HeldBy(e)' = {enc[e], backend[e], a}
    BY <1>1, <1>2, <1>3 DEF HeldBy
  <1>l. LeftStep BY <1>2 DEF LeftStep
  <1>7. /\ enc[e] # a /\ enc[e] \in Addresses
        /\ backend[e] # a /\ backend[e] \in Addresses
    BY <1>1, <1>3, <1>6, HeldIsLive DEF Free
  <1>8. PointersInv(e)' BY <1>1, <1>2, <1>3, <1>7 DEF PointersInv
  <1>9. PartsInv(e)'
    <2>1. /\ heap'[enc[e]] = {"struct"} /\ heap'[backend[e]] = {"struct"}
          /\ enc'[e] = enc[e] /\ backend'[e] = backend[e] /\ object'[e] = a
          /\ stage'[e] = "opening" /\ hardware_type'[e] = hardware_type[e]
          /\ hardware_type[e] \in built /\ built' = built
      BY <1>1, <1>2, <1>3, <1>4, <1>7 DEF PartsInv
    <2>2. /\ "struct" \in made
          /\ hardware_type[e] # "intel" => "strings" \in made
          /\ made \subseteq Released(hardware_type[e])
      BY DEF Released
    <2> QED BY <2>1, <2>2, <1>4 DEF PartsInv
  <1>10. \A f \in Encoders \ {e} :
           /\ enc'[f] = enc[f] /\ backend'[f] = backend[f]
           /\ object'[f] = object[f] /\ stage'[f] = stage[f]
           /\ hardware_type'[f] = hardware_type[f]
    BY <1>1, <1>2
  <1> HIDE DEF made
  <1>m. /\ {a} \subseteq HeldBy(e) \cup {x \in Addresses : Free(x)}
        /\ HeldBy(e)' \subseteq HeldBy(e) \cup {a}
        /\ (HeldBy(e) \cup {a}) \ HeldBy(e)' = {}
    BY <1>1, <1>6
  <1> QED BY <1>1, <1>4, <1>5, <1>6, <1>8, <1>9, <1>10, <1>l, <1>m,
             OwnMemoryOnly

(* More parts for the object being made, or for the backend. *)
LEMMA OpenKeeps ==
    ASSUME IInv, NEW e \in Encoders, UNCHANGED built, Open(e)
    PROVE  IInv' /\ LostStep
  <1> USE Own
  <1> DEFINE more == IF hardware_type[e] = "intel"
                       THEN {"loader", "session"} ELSE {"context"}
  <1>1. /\ stage[e] = "opening"
        /\ heap' = With(object[e], more)
        /\ stage' = [stage EXCEPT ![e] = "opened"]
        /\ UNCHANGED <<hardware_type, enc, backend, object, leaked>>
    BY DEF Open
  <1>2. enc[e] # NULL /\ backend[e] # NULL /\ object[e] # NULL
    BY <1>1 DEF PointersInv
  <1>3. /\ object[e] \in Addresses
        /\ enc[e] # object[e] /\ backend[e] # object[e]
        /\ enc[e] \in Addresses /\ backend[e] \in Addresses
    BY <1>2, HeldIsLive DEF HeldBy, PointersInv
  <1>4. /\ heap'[object[e]] = heap[object[e]] \cup more
        /\ \A b \in Addresses \ {object[e]} : heap'[b] = heap[b]
    BY <1>1, <1>3 DEF With
  <1>5. TypeOK' BY <1>1, <1>3 DEF IInv, TypeOK, With, Parts, Stages
  <1>6. HeldBy(e)' = HeldBy(e) /\ object[e] \in HeldBy(e)
    BY <1>1, <1>2 DEF HeldBy
  <1>7. PointersInv(e)' BY <1>1, <1>2 DEF PointersInv
  <1>8. PartsInv(e)'
    <2>1. more \subseteq Released(hardware_type[e])
                           \cup Unclosed(hardware_type[e])
      BY DEF Released, Unclosed
    <2>2. /\ heap[enc[e]] = {"struct"} /\ heap[backend[e]] = {"struct"}
          /\ "struct" \in heap[object[e]]
          /\ hardware_type[e] # "intel" => "strings" \in heap[object[e]]
          /\ heap[object[e]] \subseteq Released(hardware_type[e])
                                      \cup Unclosed(hardware_type[e])
      BY <1>1, <1>2 DEF PartsInv
    <2>3. stage'[e] = "opened" /\ hardware_type[e] \in built
      BY <1>1 DEF PartsInv
    <2> QED BY <1>1, <1>3, <1>4, <2>1, <2>2, <2>3 DEF PartsInv
  <1>9. \A f \in Encoders \ {e} :
           /\ enc'[f] = enc[f] /\ backend'[f] = backend[f]
           /\ object'[f] = object[f] /\ stage'[f] = stage[f]
           /\ hardware_type'[f] = hardware_type[f]
    BY <1>1
  <1>l. LeftStep BY <1>1 DEF LeftStep
  <1>m. /\ {object[e]} \subseteq HeldBy(e) \cup {x \in Addresses : Free(x)}
        /\ HeldBy(e)' \subseteq HeldBy(e) \cup {object[e]}
        /\ (HeldBy(e) \cup {object[e]}) \ HeldBy(e)' = {}
    BY <1>6
  <1> QED BY <1>4, <1>5, <1>6, <1>7, <1>8, <1>9, <1>l, <1>m,
             OwnMemoryOnly

(* An encoder that stays running, its backend with more parts. *)
LEMMA EncodeKeeps ==
    ASSUME IInv, NEW e \in Encoders, UNCHANGED built, NEW more,
           stage[e] = "running",
           more \subseteq Parts \cap Released(hardware_type[e]),
           heap' = With(backend[e], more),
           leaked' \subseteq Hardware \X (Parts \cup Blocks), LeftStep,
           UNCHANGED <<stage, hardware_type, enc, backend, object>>
    PROVE  IInv' /\ LostStep
  <1> USE Own
  <1>2. enc[e] # NULL /\ backend[e] # NULL /\ object[e] = NULL
    BY DEF PointersInv
  <1>3. /\ enc[e] # backend[e]
        /\ enc[e] \in Addresses /\ backend[e] \in Addresses
    BY <1>2, HeldIsLive DEF HeldBy, PointersInv
  <1>4. /\ heap'[backend[e]] = heap[backend[e]] \cup more
        /\ \A b \in Addresses \ {backend[e]} : heap'[b] = heap[b]
    BY <1>3 DEF With
  <1>5. TypeOK'
    <2>1. heap' \in [Addresses -> SUBSET Parts] BY <1>3 DEF With
    <2> QED BY <2>1 DEF IInv, TypeOK
  <1>6. HeldBy(e)' = HeldBy(e) /\ backend[e] \in HeldBy(e)
    BY <1>2 DEF HeldBy
  <1>7. PointersInv(e)' BY <1>2 DEF PointersInv
  <1>8. PartsInv(e)' BY <1>2, <1>3, <1>4 DEF PartsInv
  <1>9. \A f \in Encoders \ {e} :
           /\ enc'[f] = enc[f] /\ backend'[f] = backend[f]
           /\ object'[f] = object[f] /\ stage'[f] = stage[f]
           /\ hardware_type'[f] = hardware_type[f]
    OBVIOUS
  <1>m. /\ {backend[e]} \subseteq HeldBy(e) \cup {x \in Addresses : Free(x)}
        /\ HeldBy(e)' \subseteq HeldBy(e) \cup {backend[e]}
        /\ (HeldBy(e) \cup {backend[e]}) \ HeldBy(e)' = {}
    BY <1>6
  <1> QED BY <1>4, <1>5, <1>6, <1>7, <1>8, <1>9, <1>m,
             OwnMemoryOnly

LEMMA EncodeFFmpegKeeps ==
    ASSUME IInv, NEW e \in Encoders, UNCHANGED built, EncodeFFmpeg(e)
    PROVE  IInv' /\ LostStep
  <1>1. {"packet_buffer"} \subseteq Parts \cap Released(hardware_type[e])
    BY DEF EncodeFFmpeg, Parts, Released
  <1>2. LeftStep BY DEF EncodeFFmpeg, LeftStep
  <1> QED BY <1>1, <1>2, Own, EncodeKeeps DEF EncodeFFmpeg

LEMMA EncodeQsvKeeps ==
    ASSUME IInv, NEW e \in Encoders, UNCHANGED built,
           NEW made \in SUBSET {"extra_data"},
           NEW forgotten \in SUBSET {"pps"}, EncodeQsv(e, made, forgotten)
    PROVE  IInv' /\ LostStep
  <1>1. made \subseteq Parts \cap Released(hardware_type[e])
    BY DEF EncodeQsv, Parts, Released
  <1>2. /\ leaked' \subseteq leaked \cup {"intel"} \X Blocks
        /\ hardware_type[e] = "intel"
        /\ stage[e] = "running" /\ stage'[e] = "running"
    BY DEF EncodeQsv, Blocks
  <1>3. leaked' \subseteq Hardware \X (Parts \cup Blocks)
    BY <1>2, Own DEF Hardware
  <1>4. LeftStep
    <2> SUFFICES ASSUME NEW l \in leaked' \ leaked
                 PROVE  hardware_type[e] = l[1] /\ Leaves(e, l[2])
      BY DEF LeftStep
    <2>1. l[1] = "intel" /\ l[2] \in Blocks BY <1>2
    <2> QED BY <1>2, <2>1 DEF Leaves
  <1> QED BY <1>1, <1>3, <1>4, Own, EncodeKeeps DEF EncodeQsv

(* The backend is whole, and the placeholder lost. *)
LEMMA SucceedKeeps ==
    ASSUME IInv, NEW e \in Encoders, UNCHANGED built, Succeed(e)
    PROVE  IInv' /\ LostStep
  <1> USE Own
  <1>1. PICK parts \in LastParts(hardware_type[e]) :
           heap' = With(object[e], parts)
    BY DEF Succeed
  <1>2. /\ stage[e] = "opened"
        /\ stage' = [stage EXCEPT ![e] = "running"]
        /\ backend' = [backend EXCEPT ![e] = object[e]]
        /\ object' = [object EXCEPT ![e] = NULL]
        /\ UNCHANGED <<hardware_type, enc, leaked>>
    BY DEF Succeed, ReturnObject
  <1>3. enc[e] # NULL /\ backend[e] # NULL /\ object[e] # NULL
    BY <1>2 DEF PointersInv
  <1>4. /\ object[e] \in Addresses
        /\ enc[e] # object[e] /\ backend[e] # object[e] /\ enc[e] # backend[e]
        /\ enc[e] \in Addresses /\ backend[e] \in Addresses
    BY <1>3, HeldIsLive DEF HeldBy, PointersInv
  <1>5. /\ heap'[object[e]] = heap[object[e]] \cup parts
        /\ \A b \in Addresses \ {object[e]} : heap'[b] = heap[b]
    BY <1>1, <1>4 DEF With
  <1>6. /\ parts \subseteq Released(hardware_type[e])
        /\ parts \subseteq Parts
        /\ hardware_type[e] = "intel" => parts = {"surfaces", "bitstream"}
    BY DEF LastParts, Released, Parts
  <1>7. TypeOK'
    BY <1>1, <1>2, <1>4, <1>6 DEF IInv, TypeOK, With, Stages, Pointers
  <1>8. HeldBy(e) = {enc[e], backend[e], object[e]}
    BY <1>3 DEF HeldBy
  <1>9. HeldBy(e)' = {enc[e], object[e]}
    BY <1>2, <1>3 DEF HeldBy
  <1>10. PointersInv(e)' BY <1>2, <1>3, <1>4 DEF PointersInv
  <1>11. PartsInv(e)'
    <2>1. /\ stage'[e] = "running" /\ enc'[e] = enc[e]
          /\ backend'[e] = object[e] /\ object'[e] = NULL
          /\ hardware_type'[e] = hardware_type[e]
      BY <1>2
    <2>2. /\ heap[enc[e]] = {"struct"}
          /\ "struct" \in heap[object[e]]
          /\ hardware_type[e] # "intel" =>
                 "strings" \in heap[object[e]] /\ "context" \in heap[object[e]]
          /\ hardware_type[e] = "intel" =>
                 "loader" \in heap[object[e]] /\ "session" \in heap[object[e]]
          /\ hardware_type[e] \in built /\ built' = built
          /\ heap[object[e]] \subseteq Released(hardware_type[e])
                                      \cup Unclosed(hardware_type[e])
      BY <1>2, <1>3 DEF PartsInv
    <2>3. Needed(hardware_type[e]) \subseteq heap'[object[e]]
      BY <1>5, <1>6, <2>2 DEF Needed
    <2>4. heap'[object[e]] \subseteq Released(hardware_type[e])
                                      \cup Unclosed(hardware_type[e])
      BY <1>5, <1>6, <2>2
    <2>5. heap'[enc[e]] = {"struct"} BY <1>4, <1>5, <2>2
    <2> QED BY <2>1, <2>2, <2>3, <2>4, <2>5 DEF PartsInv
  <1>12. Loses(e, backend[e]) /\ LeftStep BY <1>2 DEF Loses, LeftStep
  <1>13. \A f \in Encoders \ {e} :
           /\ enc'[f] = enc[f] /\ backend'[f] = backend[f]
           /\ object'[f] = object[f] /\ stage'[f] = stage[f]
           /\ hardware_type'[f] = hardware_type[f]
    BY <1>2
  <1>14. \A a \in (HeldBy(e) \cup {object[e]}) \ HeldBy(e)' :
            heap'[a] = {} \/ Loses(e, a)
    BY <1>8, <1>9, <1>12
  <1>15. /\ {object[e]} \subseteq HeldBy(e) \cup {a \in Addresses : Free(a)}
         /\ HeldBy(e)' \subseteq HeldBy(e) \cup {object[e]}
    BY <1>8, <1>9
  <1> QED BY <1>5, <1>7, <1>10, <1>11, <1>12, <1>13, <1>14, <1>15,
             OwnMemoryOnly

(* A create that fails: what is left of the object is freed, or lost. *)
LEMMA CreateFailsKeeps ==
    ASSUME IInv, NEW e \in Encoders, UNCHANGED built,
           NEW h \in [Addresses -> SUBSET Parts], CreateFails(e, h),
           stage[e] \in {"allocated", "placed", "opening", "opened"},
           \A a \in Addresses \ {object[e]} : h[a] = heap[a],
           object[e] # NULL => \/ h[object[e]] = {}
                              \/ Loses(e, object[e]),
           leaked' \subseteq Hardware \X (Parts \cup Blocks), LeftStep
    PROVE  IInv' /\ LostStep
  <1> USE Own
  <1>1. /\ heap' = Without(h, {backend[e], enc[e]})
        /\ stage' = [stage EXCEPT ![e] = "none"]
        /\ enc' = [enc EXCEPT ![e] = NULL]
        /\ backend' = [backend EXCEPT ![e] = NULL]
        /\ object' = [object EXCEPT ![e] = NULL]
        /\ UNCHANGED hardware_type
    BY DEF CreateFails
  <1>2. enc[e] # NULL /\ enc[e] # object[e] BY DEF PointersInv
  <1>3. backend[e] # NULL => /\ backend[e] # object[e]
                             /\ heap[backend[e]] = {"struct"}
    BY DEF PointersInv, PartsInv
  <1>4. heap[enc[e]] = {"struct"} BY <1>2 DEF PartsInv
  <1>5. \A a \in HeldBy(e) : a \in Addresses BY HeldIsLive
  <1>6. ASSUME NEW a \in HeldBy(e) PROVE heap'[a] = {} \/ Loses(e, a)
    <2>1. a \in Addresses BY <1>5
    <2>2. CASE a = object[e]
      <3>1. a \notin {backend[e], enc[e]}
        BY <1>2, <1>3, <2>1, <2>2
      <3> QED BY <1>1, <2>1, <2>2, <3>1 DEF Without
    <2>3. CASE a # object[e]
      <3>1. a \in {backend[e], enc[e]} /\ heap[a] = {"struct"}
        BY <1>3, <1>4, <2>1, <2>3 DEF HeldBy
      <3> QED BY <1>1, <2>1, <2>3, <3>1 DEF Without
    <2> QED BY <2>2, <2>3
  <1>7. \A a \in Addresses \ HeldBy(e) : heap'[a] = heap[a]
    BY <1>1 DEF Without, HeldBy
  <1>8. TypeOK'
    <2>1. heap' \in [Addresses -> SUBSET Parts] BY <1>1 DEF Without
    <2> QED BY <1>1, <2>1 DEF IInv, TypeOK, Stages, Pointers
  <1>9. HeldBy(e)' = {} BY <1>1 DEF HeldBy
  <1>10. PointersInv(e)' BY <1>1 DEF PointersInv
  <1>11. PartsInv(e)' BY <1>1 DEF PartsInv
  <1>12. \A f \in Encoders \ {e} :
           /\ enc'[f] = enc[f] /\ backend'[f] = backend[f]
           /\ object'[f] = object[f] /\ stage'[f] = stage[f]
           /\ hardware_type'[f] = hardware_type[f]
    BY <1>1
  <1> QED BY <1>6, <1>7, <1>8, <1>9, <1>10, <1>11, <1>12, OwnMemoryOnly

(* Before the backend's create there is nothing but the two structs. *)
LEMMA EarlyFailuresKeep ==
    ASSUME IInv, NEW e \in Encoders, UNCHANGED built,
           NoVideo(e) \/ NotBuilt(e) \/ UnknownHardware(e)
    PROVE  IInv' /\ LostStep
  <1>1. stage[e] = "allocated" /\ CreateFails(e, heap) /\ UNCHANGED leaked
    BY DEF NoVideo, NotBuilt, UnknownHardware
  <1>2. object[e] = NULL BY <1>1, Own DEF PointersInv
  <1>3. LeftStep BY <1>1 DEF LeftStep
  <1> QED BY <1>1, <1>2, <1>3, Own, CreateFailsKeeps

(* What the destroy of the backend at a leaves is the session.             *)
LEMMA DestroyLeaves ==
    ASSUME IInv, NEW e \in Encoders, NEW a \in {object[e], backend[e]},
           a # NULL, stage[e] \in {"opening", "opened", "running"},
           a = object[e] \/ stage[e] = "running",
           a = object[e] /\ stage[e] = "opening" => "session" \notin heap[a],
           stage'[e] = "none", leaked' = leaked \cup Left(e, a)
    PROVE  leaked' \subseteq Hardware \X (Parts \cup Blocks) /\ LeftStep
  <1>1. /\ heap[a] \subseteq Released(hardware_type[e])
                              \cup Unclosed(hardware_type[e])
        /\ hardware_type[e] \in built
    BY Own DEF PartsInv
  <1>2. hardware_type[e] \in Hardware
    BY <1>1, ConstantsAssumption DEF IInv, TypeOK
  <1>3. ASSUME NEW l \in leaked' \ leaked
        PROVE  /\ l \in Hardware \X (Parts \cup Blocks)
               /\ hardware_type[e] = l[1] /\ Leaves(e, l[2])
    <2>1. l \in {hardware_type[e]} \X (heap[a] \ Released(hardware_type[e]))
      BY DEF Left
    <2>2. l = <<l[1], l[2]>> /\ l[1] = hardware_type[e]
          /\ l[2] \in heap[a] /\ l[2] \in Unclosed(hardware_type[e])
      BY <1>1, <2>1
    <2>3. hardware_type[e] = "intel" /\ l[2] = "session"
      BY <2>2 DEF Unclosed
    <2>4. stage[e] \in {"opened", "running"} BY <2>2, <2>3, Own DEF PointersInv
    <2>5. l \in Hardware \X (Parts \cup Blocks)
      BY <1>2, <2>2, <2>3 DEF Parts
    <2> QED BY <2>2, <2>3, <2>4, <2>5 DEF Leaves
  <1> QED BY <1>3, Own DEF LeftStep

(* The backend destroys the object. *)
LEMMA OpenFailsKeeps ==
    ASSUME IInv, NEW e \in Encoders, UNCHANGED built, OpenFails(e)
    PROVE  IInv' /\ LostStep
  <1> DEFINE h == Destroyed(object[e])
  <1>1. /\ stage[e] \in {"opening", "opened"} /\ CreateFails(e, h)
        /\ leaked' = leaked \cup Left(e, object[e])
    BY DEF OpenFails
  <1>2. object[e] # NULL BY <1>1, Own DEF PointersInv
  <1>3. object[e] \in Addresses BY <1>2, HeldIsLive DEF HeldBy
  <1>4. stage[e] = "opening" => "session" \notin heap[object[e]]
    BY Own DEF PartsInv
  <1>5. h \in [Addresses -> SUBSET Parts] /\ h[object[e]] = {}
    BY <1>3, Own DEF Destroyed
  <1>6. stage'[e] = "none" BY <1>1, Own DEF CreateFails
  <1>7. \A a \in Addresses \ {object[e]} : h[a] = heap[a]
    BY Own DEF Destroyed
  <1> HIDE DEF h
  <1>8. leaked' \subseteq Hardware \X (Parts \cup Blocks) /\ LeftStep
    BY <1>1, <1>2, <1>4, <1>6, DestroyLeaves
  <1> QED BY <1>1, <1>5, <1>7, <1>8, CreateFailsKeeps

(* QSV leaves it. *)
LEMMA BuffersFailKeeps ==
    ASSUME IInv, NEW e \in Encoders, UNCHANGED built, BuffersFail(e)
    PROVE  IInv' /\ LostStep
  <1> DEFINE h == With(object[e], {"surfaces"})
  <1>1. /\ stage[e] = "opened" /\ hardware_type[e] = "intel"
        /\ CreateFails(e, h) /\ UNCHANGED leaked
    BY DEF BuffersFail
  <1>2. h \in [Addresses -> SUBSET Parts] BY Own DEF With, Parts
  <1>3. \A a \in Addresses \ {object[e]} : h[a] = heap[a]
    BY Own DEF With
  <1>4. Loses(e, object[e])
    BY <1>1, Own DEF Loses, CreateFails
  <1>5. LeftStep BY <1>1 DEF LeftStep
  <1> HIDE DEF h
  <1> QED BY <1>1, <1>2, <1>3, <1>4, <1>5, Own, CreateFailsKeeps

LEMMA DestroyKeeps ==
    ASSUME IInv, NEW e \in Encoders, UNCHANGED built, Destroy(e)
    PROVE  IInv' /\ LostStep
  <1> USE Own
  <1>1. /\ stage[e] = "running"
        /\ heap' = Without(Destroyed(backend[e]), {enc[e]})
        /\ stage' = [stage EXCEPT ![e] = "none"]
        /\ enc' = [enc EXCEPT ![e] = NULL]
        /\ backend' = [backend EXCEPT ![e] = NULL]
        /\ leaked' = leaked \cup Left(e, backend[e])
        /\ UNCHANGED <<hardware_type, object>>
    BY DEF Destroy
  <1>2. enc[e] # NULL /\ backend[e] # NULL /\ object[e] = NULL
    BY <1>1 DEF PointersInv
  <1>3. /\ enc[e] # backend[e]
        /\ enc[e] \in Addresses /\ backend[e] \in Addresses
    BY <1>2, HeldIsLive DEF HeldBy, PointersInv
  <1>4. heap[enc[e]] = {"struct"} BY <1>1, <1>2 DEF PartsInv
  <1>l. leaked' \subseteq Hardware \X (Parts \cup Blocks) /\ LeftStep
    BY <1>1, <1>2, DestroyLeaves
  <1> DEFINE h == Destroyed(backend[e])
  <1>5. /\ h \in [Addresses -> SUBSET Parts]
        /\ h[backend[e]] = {}
        /\ \A a \in Addresses \ {backend[e]} : h[a] = heap[a]
    BY <1>3, <1>4 DEF Destroyed
  <1>6. /\ heap' \in [Addresses -> SUBSET Parts]
        /\ heap'[enc[e]] = {} /\ heap'[backend[e]] = {}
        /\ \A a \in Addresses \ {enc[e], backend[e]} : heap'[a] = heap[a]
    <2> HIDE DEF h
    <2> QED BY <1>1, <1>3, <1>4, <1>5 DEF Without, h
  <1>7. TypeOK' BY <1>1, <1>6, <1>l DEF IInv, TypeOK, Stages, Pointers
  <1>8. HeldBy(e) = {enc[e], backend[e]} /\ HeldBy(e)' = {}
    BY <1>1, <1>2 DEF HeldBy
  <1>9. PointersInv(e)' BY <1>1, <1>2 DEF PointersInv
  <1>10. PartsInv(e)' BY <1>1, <1>2 DEF PartsInv
  <1>11. \A f \in Encoders \ {e} :
           /\ enc'[f] = enc[f] /\ backend'[f] = backend[f]
           /\ object'[f] = object[f] /\ stage'[f] = stage[f]
           /\ hardware_type'[f] = hardware_type[f]
    BY <1>1
  <1> QED BY <1>6, <1>7, <1>8, <1>9, <1>10, <1>11, <1>l,
             OwnMemoryOnly

-----------------------------------------------------------------------------

(* Every step keeps the invariant, and loses only what it may lose. *)
LEMMA StepKeeps == IInv /\ [Next]_vars => IInv' /\ (LostStep \/ UNCHANGED vars)
  <1> SUFFICES ASSUME IInv, [Next]_vars
               PROVE  IInv' /\ (LostStep \/ UNCHANGED vars)
    OBVIOUS
  <1>1. CASE UNCHANGED vars
    BY <1>1 DEF vars, IInv, TypeOK, PointersInv, PartsInv, HeldBy
  <1>2. ASSUME NEW e \in Encoders, UNCHANGED built, Step(e)
        PROVE  IInv' /\ LostStep
    BY <1>2, AllocateKeeps, EarlyFailuresKeep, PlaceKeeps, CreateInternalKeeps,
       OpenKeeps, OpenFailsKeeps, BuffersFailKeeps, SucceedKeeps,
       EncodeFFmpegKeeps, EncodeQsvKeeps, DestroyKeeps DEF Step
  <1> QED BY <1>1, <1>2 DEF Next

(* The inductive invariant. *)
THEOREM Invariant == Spec => []IInv
  <1>1. IInv /\ [Next]_vars => IInv' BY StepKeeps
  <1> QED BY InitIInv, <1>1, PTL DEF Spec

(* The variables keep their types: a setting too large does no harm, and a *)
(* negative one is the only other that stays.                              *)
THEOREM Types == Spec => []TypeOK
  <1>1. IInv => TypeOK BY DEF IInv
  <1> QED BY <1>1, Invariant, PTL

(* Each encoder owns what it can reach, and nobody else does. *)
THEOREM EachOwns == Spec => []Owned
  <1>1. IInv => Owned
    <2> SUFFICES ASSUME IInv PROVE Owned OBVIOUS
    <2>1. ASSUME NEW e \in Encoders, NEW a \in HeldBy(e)
          PROVE  "struct" \in heap[a]
      BY HeldIsLive
    <2>2. ASSUME NEW e \in Encoders
          PROVE  /\ enc[e] \in {NULL} \/ enc[e] \notin {backend[e], object[e]}
                 /\ backend[e] = NULL \/ backend[e] # object[e]
                 /\ stage[e] = "running" =>
                      /\ enc[e] # NULL /\ backend[e] # NULL
                      /\ hardware_type[e] \in built
                      /\ Needed(hardware_type[e]) \subseteq heap[backend[e]]
      BY Own DEF PointersInv, PartsInv
    <2> QED BY <2>1, <2>2 DEF Owned, IInv
  <1> QED BY <1>1, Invariant, PTL

(* The code loses placeholders, QSV's unfinished objects, its sessions and *)
(* the blocks of its encode, and no other memory.                          *)
THEOREM LostOnlyThere == Spec => LosesNothingElse
  <1>1. IInv /\ [Next]_vars => LostStep \/ UNCHANGED vars
    BY StepKeeps
  <1>2. IInv /\ [Next]_vars =>
          [/\ \A a \in Lost : heap'[a] = heap[a] /\ a \in Lost'
           /\ \A a \in Lost' \ Lost : \E e \in Encoders : Loses(e, a)
           /\ \A l \in leaked' \ leaked :
                 \E e \in Encoders :
                    hardware_type[e] = l[1] /\ Leaves(e, l[2])]_vars
    BY <1>1 DEF LostStep, LeftStep
  <1> QED BY <1>2, Invariant, PTL DEF Spec, LosesNothingElse

=============================================================================
