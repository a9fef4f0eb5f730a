--------------------------- MODULE SeiCodecProofs ---------------------------
(***************************************************************************)
(* The invariants of SeiCodec, for every shape of a keyframe and every     *)
(* size of the numbers: from what the codecs of SeiBytesProofs compute,    *)
(* and from where in a row of bytes the start codes of NAL units are.      *)
(***************************************************************************)
EXTENDS SeiBytesProofs

(* What a hardware encoder of a codec puts into a keyframe. *)
KindsOf(c) == IF c = "h264" THEN Kinds \ {"vps"} ELSE Kinds

Units(c) == [kind : KindsOf(c), start_code : {3, 4}]

DelimiterKinds == {"aud", "vps", "sps", "pps"}

(* No start code begins in these bytes, whatever follows them. *)
Clean(b) ==
    /\ Len(b) >= 1 /\ b[Len(b)] # 0
    /\ \A j \in 1 .. Len(b) - 2 : b[j] = 0 /\ b[j + 1] = 0 => b[j + 2] > 1

LEMMA StartCodeIs ==
    ASSUME NEW n \in {3, 4}
    PROVE  /\ StartCode(n) \in Seq(Byte) /\ Len(StartCode(n)) = n
           /\ StartCode(n)[n] = 1
           /\ \A i \in 1 .. n - 1 : StartCode(n)[i] = 0
  <1>1. StartCode(n) \in [1 .. n -> Byte]
    BY DEF StartCode, Byte
  <1>2. n \in Nat
    OBVIOUS
  <1> QED BY <1>1, <1>2 DEF StartCode

(* The header: its type is of a parameter set or delimiter, or tells the   *)
(* kind; another's user data alone can be read as a message of type 5.     *)
LEMMA HeaderIs ==
    ASSUME NEW c \in Codecs, NEW kind \in KindsOf(c)
    PROVE  LET h == Header(c, kind)
               t == NalType(c, h[1])
           IN  /\ h \in Seq(Byte)
               /\ Len(h) = IF c = "h264" THEN 1 ELSE 2
               /\ \A j \in 1 .. Len(h) : h[j] # 0
               /\ t \in ParameterSetTypes(c) <=> kind \in DelimiterKinds
               /\ c = "h264" => /\ t = 7 <=> kind = "sps"
                                /\ t = 8 <=> kind = "pps"
               /\ c = "h265" => /\ t = 32 <=> kind = "vps"
                                /\ t = 33 <=> kind = "sps"
                                /\ t = 34 <=> kind = "pps"
               /\ kind = "sei" => h = SeiHeader(c)
               /\ kind # "sei" => \/ SeiHeaderSize(h[1]) = 0
                                  \/ /\ SeiHeaderSize(h[1]) = 1
                                     /\ Len(h) = 2 /\ h[2] = 1
  <1> USE DEF Header, NalType, ParameterSetTypes, DelimiterKinds, SeiHeader,
              SeiHeaderSize, KindsOf, Kinds, Codecs
  <1>1. \A i \in {9, 103, 104, 6, 101, 70, 64, 66, 68, 78, 38, 1} : i \in Byte
    BY DEF Byte
  <1>2. CASE c = "h264"
    <2>1. CASE kind = "aud"
      BY <1>1, <1>2, <2>1
    <2>2. CASE kind = "sps"
      BY <1>1, <1>2, <2>2
    <2>3. CASE kind = "pps"
      BY <1>1, <1>2, <2>3
    <2>4. CASE kind = "sei"
      BY <1>1, <1>2, <2>4
    <2>5. CASE kind = "slice"
      BY <1>1, <1>2, <2>5
    <2> QED BY <1>2, <2>1, <2>2, <2>3, <2>4, <2>5
  <1>3. CASE c = "h265"
    <2>1. CASE kind = "aud"
      BY <1>1, <1>3, <2>1
    <2>2. CASE kind = "vps"
      BY <1>1, <1>3, <2>2
    <2>3. CASE kind = "sps"
      BY <1>1, <1>3, <2>3
    <2>4. CASE kind = "pps"
      BY <1>1, <1>3, <2>4
    <2>5. CASE kind = "sei"
      BY <1>1, <1>3, <2>5
    <2>6. CASE kind = "slice"
      BY <1>1, <1>3, <2>6
    <2> QED BY <1>3, <2>1, <2>2, <2>3, <2>4, <2>5, <2>6
  <1> QED BY <1>2, <1>3

LEMMA ContentIs ==
    ASSUME NEW kind \in Kinds
    PROVE  LET x == Content(kind)
           IN  /\ x \in Seq(Byte) /\ Len(x) \in 4 .. 6 /\ Clean(x)
               /\ kind # "slice" => x[1] # 0
               /\ kind = "sei" => x = <<5, 2, 165, 200, 128>>
  <1>1. \A i \in {0, 1, 2, 3, 5, 165, 200, 128, 184, 100, 31} : i \in Byte
    BY DEF Byte
  <1>2. CASE kind = "sei"
    BY <1>1, <1>2 DEF Content, Clean
  <1>3. CASE kind = "slice"
    BY <1>1, <1>3 DEF Content, Clean
  <1>4. CASE kind \notin {"sei", "slice"}
    BY <1>1, <1>4 DEF Content, Clean, Kinds
  <1> QED BY <1>2, <1>3, <1>4

LEMMA CleanConcat ==
    ASSUME NEW h \in Seq(Byte), NEW b \in Seq(Byte), Clean(b),
           \A j \in 1 .. Len(h) : h[j] # 0
    PROVE  Clean(h \o b) /\ h \o b \in Seq(Byte) /\ Len(h \o b) = Len(h) + Len(b)
  <1> DEFINE x == h \o b
             n == Len(h)
  <1>1. /\ n \in Nat /\ Len(b) \in Nat /\ x \in Seq(Byte) /\ Len(x) = n + Len(b)
        /\ \A i \in 1 .. n : x[i] = h[i]
        /\ \A i \in 1 .. Len(b) : x[n + i] = b[i]
    BY ByteSeq
  <1> HIDE DEF x, n
  <1>2. Len(b) >= 1 /\ x[Len(x)] # 0
    BY <1>1 DEF Clean
  <1>3. ASSUME NEW j \in 1 .. Len(x) - 2, x[j] = 0, x[j + 1] = 0 PROVE x[j + 2] > 1
    <2>1. j > n
      BY <1>1, <1>3 DEF n
    <2> DEFINE i == j - n
    <2>2. i \in 1 .. Len(b) - 2 /\ n + i = j /\ n + (i + 1) = j + 1 /\ n + (i + 2) = j + 2
          /\ i \in 1 .. Len(b) /\ i + 1 \in 1 .. Len(b) /\ i + 2 \in 1 .. Len(b)
      BY <1>1, <2>1
    <2> HIDE DEF i
    <2>3. b[i] = x[j] /\ b[i + 1] = x[j + 1] /\ b[i + 2] = x[j + 2]
      BY <1>1, <2>2
    <2> QED BY <1>3, <2>2, <2>3 DEF Clean
  <1> QED BY <1>1, <1>2, <1>3 DEF Clean, x, n

-----------------------------------------------------------------------------
(* Bytes within bytes.                                                     *)

LEMMA ConcatIs ==
    ASSUME NEW s \in Seq(Byte), NEW t \in Seq(Byte)
    PROVE  /\ s \o t \in Seq(Byte) /\ Len(s \o t) = Len(s) + Len(t)
           /\ StartsWith(s \o t, s)
           /\ Holds(s \o t, Len(s), t)
  BY DEF StartsWith, Holds

LEMMA HoldsAt ==
    ASSUME NEW d, NEW s, NEW p, NEW i \in 1 .. Len(s), NEW j, j = p + i,
           Holds(d, p, s)
    PROVE  d[j] = s[i]
  BY DEF Holds

LEMMA HoldsInPrefix ==
    ASSUME NEW d \in Seq(Byte), NEW t \in Seq(Byte), NEW s \in Seq(Byte),
           NEW p \in Nat, StartsWith(d, t), Holds(t, p, s)
    PROVE  Holds(d, p, s)
  <1>1. Len(d) \in Nat /\ Len(t) \in Nat /\ Len(s) \in Nat
    BY ByteSeq
  <1> QED BY <1>1 DEF StartsWith, Holds

LEMMA HoldsInHeld ==
    ASSUME NEW d \in Seq(Byte), NEW t \in Seq(Byte), NEW s \in Seq(Byte),
           NEW p \in Nat, NEW q \in Nat, Holds(d, p, t), Holds(t, q, s)
    PROVE  Holds(d, p + q, s)
  <1>1. Len(d) \in Nat /\ Len(t) \in Nat /\ Len(s) \in Nat
    BY ByteSeq
  <1>2. ASSUME NEW i \in 1 .. Len(s) PROVE d[p + q + i] = s[i]
    <2>1. q + i \in 1 .. Len(t) /\ p + q + i = p + (q + i)
      BY <1>1 DEF Holds
    <2> QED BY <2>1 DEF Holds
  <1> QED BY <1>1, <1>2 DEF Holds

LEMMA StartsWithTransitive ==
    ASSUME NEW d \in Seq(Byte), NEW t \in Seq(Byte), NEW s \in Seq(Byte),
           StartsWith(d, t), StartsWith(t, s)
    PROVE  StartsWith(d, s)
  <1>1. Len(d) \in Nat /\ Len(t) \in Nat /\ Len(s) \in Nat
    BY ByteSeq
  <1> QED BY <1>1 DEF StartsWith

(* What a row of bytes holds at p is cut out of it. *)
CutsOut(d, p, s) ==
    \A i, j : i = p + 1 /\ j = p + Len(s) => SubSeq(d, i, j) = s

LEMMA CutOut ==
    ASSUME NEW d \in Seq(Byte), NEW p \in Nat, NEW s \in Seq(Byte), Holds(d, p, s)
    PROVE  CutsOut(d, p, s)
  <1> SUFFICES ASSUME NEW m, NEW n, m = p + 1, n = p + Len(s)
               PROVE  SubSeq(d, m, n) = s
    BY DEF CutsOut
  <1>1. Len(d) \in Nat /\ Len(s) \in Nat
    BY ByteSeq
  <1>2. p + Len(s) <= Len(d)
    BY DEF Holds
  <1>3. /\ SubSeq(d, m, n) \in Seq(Byte) /\ Len(SubSeq(d, m, n)) = Len(s)
        /\ \A i \in 1 .. Len(s) : SubSeq(d, m, n)[i] = d[p + i]
    BY <1>1, <1>2
  <1>4. \A i \in 1 .. Len(s) : SubSeq(d, m, n)[i] = s[i]
    BY <1>3 DEF Holds
  <1> DEFINE t == SubSeq(d, m, n)
  <1> HIDE DEF t
  <1> QED BY <1>3, <1>4, SeqEqual DEF t

-----------------------------------------------------------------------------
(* The SEI NAL unit.                                                       *)

LEMMA PayloadIs ==
    ASSUME NEW s \in Stamps
    PROVE  LET w == Payload(s)
           IN  /\ w \in Seq(Byte) /\ Len(w) = PayloadSize
               /\ PayloadSize \in 1 .. 254
               /\ Holds(w, 0, Uuid)
               /\ Holds(w, Len(Uuid), ToBytes(s.pts, PtsDigits))
               /\ Holds(w, Len(Uuid) + PtsDigits, ToBytes(s.seconds, SecondsDigits))
               /\ Holds(w, Len(Uuid) + PtsDigits + SecondsDigits,
                        ToBytes(s.fraction, FractionDigits))
  <1> DEFINE a == ToBytes(s.pts, PtsDigits)
             b == ToBytes(s.seconds, SecondsDigits)
             e == ToBytes(s.fraction, FractionDigits)
             x == Uuid \o a
             y == x \o b
             w == y \o e
  <1>1. PtsDigits \in Nat \ {0} /\ SecondsDigits \in Nat \ {0}
        /\ FractionDigits \in Nat \ {0} /\ PayloadSize < 255
    BY ConstantsAssumption
  <1>2. Uuid \in Seq(Byte) /\ Len(Uuid) \in Nat /\ Len(Uuid) >= 2
    BY ConstantsAssumption DEF Byte
  <1>3. s.pts \in Int /\ s.seconds \in Int /\ s.fraction \in Int
    BY <1>1, PowIs DEF Stamps, PtsValues
  <1>4. /\ a \in Seq(Byte) /\ Len(a) = PtsDigits
        /\ b \in Seq(Byte) /\ Len(b) = SecondsDigits
        /\ e \in Seq(Byte) /\ Len(e) = FractionDigits
    BY <1>1, <1>3, ToBytesIs
  <1> HIDE DEF a, b, e
  <1>5. /\ x \in Seq(Byte) /\ Len(x) = Len(Uuid) + PtsDigits
        /\ StartsWith(x, Uuid) /\ Holds(x, Len(Uuid), a)
    <2>1. /\ x \in Seq(Byte) /\ Len(x) = Len(Uuid) + Len(a)
          /\ StartsWith(x, Uuid) /\ Holds(x, Len(Uuid), a)
      BY <1>2, <1>4, ConcatIs
    <2> HIDE DEF x
    <2> QED BY <1>2, <1>4, <2>1
  <1> HIDE DEF x
  <1>6. /\ y \in Seq(Byte) /\ Len(y) = Len(Uuid) + PtsDigits + SecondsDigits
        /\ StartsWith(y, x) /\ Holds(y, Len(Uuid) + PtsDigits, b)
    <2>1. /\ y \in Seq(Byte) /\ Len(y) = Len(x) + Len(b)
          /\ StartsWith(y, x) /\ Holds(y, Len(x), b)
      BY <1>4, <1>5, ConcatIs
    <2> HIDE DEF y
    <2> QED BY <1>4, <1>5, <2>1
  <1> HIDE DEF y
  <1>7. /\ w \in Seq(Byte) /\ Len(w) = Len(Uuid) + PtsDigits + SecondsDigits + FractionDigits
        /\ StartsWith(w, y) /\ Holds(w, Len(Uuid) + PtsDigits + SecondsDigits, e)
    <2>1. /\ w \in Seq(Byte) /\ Len(w) = Len(y) + Len(e)
          /\ StartsWith(w, y) /\ Holds(w, Len(y), e)
      BY <1>4, <1>6, ConcatIs
    <2> HIDE DEF w
    <2> QED BY <1>1, <1>4, <1>6, <2>1
  <1>8. w = Payload(s)
    BY DEF w, y, x, a, b, e, Payload
  <1> HIDE DEF w
  <1>9. StartsWith(w, x) /\ StartsWith(w, Uuid)
    BY <1>2, <1>5, <1>6, <1>7, StartsWithTransitive
  <1>10. Holds(w, 0, Uuid)
    BY <1>2, <1>9 DEF StartsWith, Holds
  <1>11. Len(Uuid) \in Nat /\ Len(Uuid) + PtsDigits \in Nat
    BY <1>1, <1>2
  <1>12. Holds(w, Len(Uuid), a) /\ Holds(w, Len(Uuid) + PtsDigits, b)
    BY <1>4, <1>5, <1>6, <1>7, <1>9, <1>11, HoldsInPrefix
  <1>13. PayloadSize = Len(Uuid) + PtsDigits + SecondsDigits + FractionDigits
    BY <1>2 DEF PayloadSize
  <1>14. PayloadSize \in 1 .. 254
    <2> DEFINE U == Len(Uuid)
    <2>1. U \in Nat /\ PayloadSize = U + PtsDigits + SecondsDigits + FractionDigits
      BY <1>2, <1>13
    <2> HIDE DEF U
    <2> QED BY <1>1, <2>1
  <1> QED BY <1>7, <1>8, <1>10, <1>12, <1>13, <1>14 DEF a, b, e

HeaderSize(c) == Len(SeiHeader(c))

LEMMA SeiHeaderIs ==
    ASSUME NEW c \in Codecs
    PROVE  /\ SeiHeader(c) \in Seq(Byte)
           /\ HeaderSize(c) = IF c = "h264" THEN 1 ELSE 2
           /\ \A j \in 1 .. HeaderSize(c) : SeiHeader(c)[j] # 0
           /\ SeiHeaderSize(SeiHeader(c)[1]) = HeaderSize(c)
  <1>1. 6 \in Byte /\ 78 \in Byte /\ 1 \in Byte
    BY DEF Byte
  <1>2. CASE c = "h264"
    BY <1>1, <1>2 DEF SeiHeader, HeaderSize, SeiHeaderSize
  <1>3. CASE c = "h265"
    BY <1>1, <1>3 DEF SeiHeader, HeaderSize, SeiHeaderSize
  <1> QED BY <1>2, <1>3 DEF Codecs

LEMMA SeiNalIs ==
    ASSUME NEW c \in Codecs, NEW w \in Seq(Byte), Len(w) \in 1 .. 254
    PROVE  LET d == SeiNal(c, w)
               h == HeaderSize(c)
           IN  /\ d \in Seq(Byte)
               /\ Len(d) = h + 7 + Len(Escape(w))
               /\ Holds(d, 0, StartCode(4))
               /\ Holds(d, 4, SeiHeader(c))
               /\ d[5 + h] = 5 /\ d[6 + h] = Len(w)
               /\ Holds(d, 6 + h, Escape(w))
               /\ d[Len(d)] = 128
  <1> DEFINE h == HeaderSize(c)
             H == SeiHeader(c)
             S == StartCode(4)
             L == Len(w)
             z == <<5, L>>
             E == Escape(w)
             u == <<128>>
             p == S \o H
             q == p \o z
             r == q \o E
             d == r \o u
  <1>1. S \in Seq(Byte) /\ Len(S) = 4
    BY StartCodeIs
  <1>2. H \in Seq(Byte) /\ Len(H) = h /\ h \in {1, 2}
    BY SeiHeaderIs DEF HeaderSize
  <1>3. z \in Seq(Byte) /\ Len(z) = 2 /\ z[1] = 5 /\ z[2] = L
    BY DEF Byte
  <1>4. E \in Seq(Byte) /\ Len(E) \in Nat
    BY EscapeIs, ByteSeq
  <1>5. u \in Seq(Byte) /\ Len(u) = 1 /\ u[1] = 128
    BY DEF Byte
  <1>6. d = SeiNal(c, w)
    BY DEF SeiNal
  <1> HIDE DEF H, S, z, E, u, h, L
  <1>7. /\ p \in Seq(Byte) /\ Len(p) = 4 + h
        /\ StartsWith(p, S) /\ Holds(p, 4, H)
    BY <1>1, <1>2, ConcatIs
  <1> HIDE DEF p
  <1>8. /\ q \in Seq(Byte) /\ Len(q) = 6 + h
        /\ StartsWith(q, p) /\ Holds(q, 4 + h, z)
    <2>1. /\ q \in Seq(Byte) /\ Len(q) = Len(p) + Len(z)
          /\ StartsWith(q, p) /\ Holds(q, Len(p), z)
      BY <1>3, <1>7, ConcatIs
    <2> HIDE DEF q
    <2> QED BY <1>2, <1>3, <1>7, <2>1
  <1> HIDE DEF q
  <1>9. /\ r \in Seq(Byte) /\ Len(r) = 6 + h + Len(E)
        /\ StartsWith(r, q) /\ Holds(r, 6 + h, E)
    BY <1>4, <1>8, ConcatIs
  <1> HIDE DEF r
  <1>10. /\ d \in Seq(Byte) /\ Len(d) = h + 7 + Len(E)
         /\ StartsWith(d, r) /\ Holds(d, 6 + h + Len(E), u)
    <2>1. /\ d \in Seq(Byte) /\ Len(d) = Len(r) + Len(u)
          /\ StartsWith(d, r) /\ Holds(d, Len(r), u)
      BY <1>5, <1>9, ConcatIs
    <2> HIDE DEF d
    <2> QED BY <1>2, <1>4, <1>5, <1>9, <2>1
  <1> HIDE DEF d
  <1>11. StartsWith(d, q) /\ StartsWith(d, p) /\ StartsWith(d, S)
    BY <1>1, <1>7, <1>8, <1>9, <1>10, StartsWithTransitive
  <1>12. 4 \in Nat /\ 4 + h \in Nat /\ 6 + h \in Nat
    <2>1. h \in {1, 2}
      BY <1>2
    <2> QED BY <2>1
  <1>13. Holds(d, 4, H) /\ Holds(d, 4 + h, z) /\ Holds(d, 6 + h, E)
    <2> DEFINE a == 4
               b == 4 + h
               e == 6 + h
    <2>1. a \in Nat /\ b \in Nat /\ e \in Nat
      BY <1>12
    <2>2. Holds(p, a, H) /\ Holds(q, b, z) /\ Holds(r, e, E)
      BY <1>7, <1>8, <1>9
    <2> HIDE DEF a, b, e
    <2>3. Holds(d, a, H)
      BY <1>2, <1>7, <1>10, <1>11, <2>1, <2>2, HoldsInPrefix
    <2>4. Holds(d, b, z)
      BY <1>3, <1>8, <1>10, <1>11, <2>1, <2>2, HoldsInPrefix
    <2>5. Holds(d, e, E)
      BY <1>4, <1>9, <1>10, <2>1, <2>2, HoldsInPrefix
    <2> QED BY <2>3, <2>4, <2>5 DEF a, b, e
  <1>14. Holds(d, 0, S)
    BY <1>1, <1>10, <1>11 DEF StartsWith, Holds
  <1>15. d[5 + h] = 5 /\ d[6 + h] = L
    <2>1. d[4 + h + 1] = z[1] /\ d[4 + h + 2] = z[2]
      BY <1>3, <1>13 DEF Holds
    <2>2. 4 + h + 1 = 5 + h /\ 4 + h + 2 = 6 + h
      BY <1>2
    <2> QED BY <1>3, <2>1, <2>2
  <1>16. d[Len(d)] = 128
    <2>1. d[6 + h + Len(E) + 1] = u[1]
      BY <1>5, <1>10 DEF Holds
    <2>2. 6 + h + Len(E) + 1 = Len(d)
      BY <1>2, <1>4, <1>10
    <2> QED BY <1>5, <2>1, <2>2
  <1> QED BY <1>6, <1>10, <1>13, <1>14, <1>15, <1>16 DEF H, S, E, h, L

(* What is forbidden in a NAL unit is not in the SEI NAL unit, and it fits *)
(* the bytes allocated for it.                                             *)
LEMMA SeiNalClean ==
    ASSUME NEW c \in Codecs, NEW w \in Seq(Byte), Len(w) \in 1 .. 254
    PROVE  LET d == SeiNal(c, w)
           IN  \A i \in 5 .. Len(d) - 2 :
                   ~(d[i] = 0 /\ d[i + 1] = 0 /\ d[i + 2] <= 2)
  <1> DEFINE d == SeiNal(c, w)
             h == HeaderSize(c)
             H == SeiHeader(c)
             E == Escape(w)
             m == Len(E)
             o == 6 + h
  <1>1. H \in Seq(Byte) /\ Len(H) = h /\ h \in {1, 2}
        /\ \A j \in 1 .. h : H[j] # 0
    BY SeiHeaderIs DEF HeaderSize
  <1>2. E \in Seq(Byte) /\ m \in Nat /\ o \in Nat
        /\ \A i \in 1 .. m : E[i] \in Nat
    BY <1>1, EscapeIs, ByteSeq, ByteIsNat
  <1>3. \A i \in 1 .. m - 2 : E[i] = 0 /\ E[i + 1] = 0 => E[i + 2] > 2
    BY EscapeIs
  <1>4. Len(d) = o + m + 1 /\ Holds(d, 4, H) /\ d[o - 1] = 5 /\ d[o] # 0
        /\ Holds(d, o, E) /\ d[o + m + 1] = 128
    <2>1. /\ Len(d) = h + 7 + m /\ Holds(d, 4, H) /\ d[5 + h] = 5
          /\ d[6 + h] = Len(w) /\ Holds(d, 6 + h, E) /\ d[Len(d)] = 128
      BY SeiNalIs
    <2> HIDE DEF h, m, d, E, H
    <2>2. h + 7 + m = o + m + 1 /\ 5 + h = o - 1
      BY <1>1, <1>2
    <2>3. Len(w) # 0
      <3>1. \A x \in 1 .. 254 : x # 0
        OBVIOUS
      <3> QED BY <3>1
    <2> QED BY <2>1, <2>2, <2>3
  <1> HIDE DEF d, H, E, m, h
  <1> SUFFICES ASSUME NEW i \in 5 .. Len(d) - 2,
                      d[i] = 0, d[i + 1] = 0, d[i + 2] <= 2
               PROVE  FALSE
    BY DEF d
  <1>5. i > o
    <2>1. \A j \in 5 .. o : d[j] # 0
      <3>1. ASSUME NEW j \in 5 .. 4 + h PROVE d[j] # 0
        <4>1. j - 4 \in 1 .. h /\ j = 4 + (j - 4)
          BY <1>1, <3>1
        <4> DEFINE k == j - 4
        <4> HIDE DEF k
        <4> DEFINE p == 4
        <4>2. k \in 1 .. Len(H) /\ j = p + k /\ Holds(d, p, H)
          BY <1>1, <1>4, <4>1 DEF k
        <4> HIDE DEF p
        <4>3. Holds(d, p, H) => d[p + k] = H[k]
          BY <4>2 DEF Holds
        <4>4. d[j] = H[k] /\ k \in 1 .. h
          BY <1>1, <4>2, <4>3
        <4> QED BY <1>1, <4>4
      <3>2. \A j \in 5 .. o : j \in 5 .. 4 + h \/ j = o - 1 \/ j = o
        BY <1>1
      <3> QED BY <1>4, <3>1, <3>2
    <2>2. i \in 5 .. o \/ i > o
      BY <1>1, <1>2, <1>4
    <2> QED BY <2>1, <2>2
  <1> DEFINE k == i - o
  <1>6. i + 2 <= o + m + 1 /\ i \in Int
    BY <1>2, <1>4
  <1>7. k \in 1 .. m - 1 /\ o + k = i /\ o + (k + 1) = i + 1
        /\ o + (k + 2) = i + 2
    <2>1. o \in Nat /\ m \in Nat
      BY <1>2
    <2> HIDE DEF o, m
    <2>2. k \in Int /\ k >= 1 /\ k <= m - 1
      BY <1>5, <1>6, <2>1
    <2>3. o + k = i /\ o + (k + 1) = i + 1 /\ o + (k + 2) = i + 2
      BY <1>6, <2>1
    <2> QED BY <2>1, <2>2, <2>3
  <1> HIDE DEF k, o
  <1>8. k \in 1 .. m /\ k + 1 \in 1 .. m
    BY <1>2, <1>7
  <1>9. E[k] = 0 /\ E[k + 1] = 0
    <2>1. /\ k \in 1 .. Len(E) /\ k + 1 \in 1 .. Len(E)
          /\ i = o + k /\ i + 1 = o + (k + 1)
      BY <1>7, <1>8 DEF m
    <2> DEFINE j == k + 1
               e == i + 1
    <2>2. j \in 1 .. Len(E) /\ e = o + j /\ E[j] = E[k + 1] /\ d[e] = 0
      BY <2>1
    <2> HIDE DEF j, e
    <2>3. d[i] = E[k] /\ d[e] = E[j]
      <3>1. Holds(d, o, E)
        BY <1>4
      <3>2. k \in 1 .. Len(E) /\ i = o + k
        BY <2>1
      <3>3. j \in 1 .. Len(E) /\ e = o + j
        BY <2>2
      <3>4. \A x \in 1 .. Len(E) : d[o + x] = E[x]
        BY <3>1 DEF Holds
      <3>5. d[o + k] = E[k] /\ d[o + j] = E[j]
        BY <3>2, <3>3, <3>4
      <3> QED BY <3>2, <3>3, <3>5
    <2>4. E[k] = 0 /\ E[j] = 0
      BY <2>2, <2>3
    <2> QED BY <2>2, <2>4
  <1>10. CASE k + 2 <= m
    <2>1. k + 2 \in 1 .. m /\ k \in 1 .. m - 2
      BY <1>2, <1>8, <1>10
    <2>2. E[k + 2] = d[i + 2]
      <3>1. k + 2 \in 1 .. Len(E) /\ i + 2 = o + (k + 2)
        BY <1>7, <2>1 DEF m
      <3> QED BY <1>4, <3>1, HoldsAt
    <2>3. E[k + 2] > 2 /\ E[k + 2] \in Nat
      BY <1>2, <1>3, <1>9, <2>1
    <2> QED BY <2>2, <2>3
  <1>11. CASE k + 2 > m
    <2>1. i + 2 = o + m + 1
      BY <1>2, <1>7, <1>8, <1>11
    <2> QED BY <1>4, <2>1
  <1> QED BY <1>2, <1>8, <1>10, <1>11

LEMMA SeiNalFits ==
    ASSUME NEW c \in Codecs, NEW s \in Stamps
    PROVE  Len(SeiNal(c, Payload(s))) <= Allocated(c)
  <1> DEFINE w == Payload(s)
             m == Len(Escape(w))
             h == HeaderSize(c)
             P == PayloadSize
  <1>1. w \in Seq(Byte) /\ Len(w) = P /\ P \in 1 .. 254
    BY PayloadIs
  <1>2. Len(SeiNal(c, w)) = h + 7 + m
    BY <1>1, SeiNalIs
  <1>3. m \in Nat /\ 2 * m <= 3 * P
    BY <1>1, EscapeIs, ByteSeq
  <1>4. h \in {1, 2}
    BY SeiHeaderIs
  <1>5. Allocated(c) = 4 + h + 1 + 1 + (P + P \div 2 + 4) + 1
    BY DEF Allocated, HeaderSize
  <1> HIDE DEF m, h, P
  <1>6. 2 * (P \div 2) >= P - 1 /\ P \div 2 \in Int
    BY <1>1
  <1>7. m <= P + P \div 2
    BY <1>1, <1>3, <1>6
  <1> QED BY <1>1, <1>2, <1>3, <1>4, <1>5, <1>6, <1>7

-----------------------------------------------------------------------------
(* The NAL units of a keyframe.                                            *)

LEMMA BodyIs ==
    ASSUME NEW c \in Codecs, NEW kind \in KindsOf(c)
    PROVE  LET b == Body(c, kind)
           IN  /\ b \in Seq(Byte) /\ Len(b) \in 5 .. 8 /\ Clean(b)
               /\ b[1] = Header(c, kind)[1]
               /\ Holds(b, 0, Header(c, kind))
               /\ Holds(b, Len(Header(c, kind)), Content(kind))
  <1> DEFINE h == Header(c, kind)
             x == Content(kind)
             b == Body(c, kind)
  <1>1. h \in Seq(Byte) /\ Len(h) \in {1, 2} /\ \A j \in 1 .. Len(h) : h[j] # 0
    BY HeaderIs
  <1>2. x \in Seq(Byte) /\ Len(x) \in 4 .. 6 /\ Clean(x)
    BY ContentIs DEF KindsOf
  <1>3. b = h \o x
    BY DEF Body
  <1> HIDE DEF h, x, b
  <1>4. Clean(b)
    BY <1>1, <1>2, <1>3, CleanConcat
  <1>5. /\ b \in Seq(Byte) /\ Len(b) = Len(h) + Len(x)
        /\ StartsWith(b, h) /\ Holds(b, Len(h), x)
    BY <1>1, <1>2, <1>3, ConcatIs
  <1>6. Holds(b, 0, h)
    BY <1>1, <1>5 DEF StartsWith, Holds
  <1>7. b[1] = h[1]
    BY <1>1, <1>5 DEF StartsWith
  <1>8. Len(b) \in 5 .. 8
    <2>1. \A i \in {1, 2}, j \in 4 .. 6 : i + j \in 5 .. 8
      OBVIOUS
    <2> QED BY <1>1, <1>2, <1>5, <2>1
  <1> QED BY <1>4, <1>5, <1>6, <1>7, <1>8 DEF h, x, b

LEMMA UnitPrefixesIs ==
    ASSUME NEW c \in Codecs, NEW us \in Seq(Units(c))
    PROVE  /\ UnitPrefixes(c, us) \in [0 .. Len(us) -> Seq(Byte)]
           /\ UnitPrefixes(c, us)[0] = <<>>
           /\ \A k \in 1 .. Len(us) :
                  UnitPrefixes(c, us)[k] =
                      UnitPrefixes(c, us)[k - 1] \o StartCode(us[k].start_code)
                                                \o Body(c, us[k].kind)
  <1> DEFINE n == Len(us)
             A == Seq(Byte)
             first == <<>>
             Step(k, a) == a \o StartCode(us[k].start_code) \o Body(c, us[k].kind)
             step == [p \in Nat \X A |->
                         IF p[1] \in 1 .. n THEN Step(p[1], p[2]) ELSE first]
             Rhs(f) == [k \in 0 .. n |->
                           IF k = 0 THEN first ELSE Step(k, f[k - 1])]
  <1>0. n \in Nat /\ first \in A
    BY LenProperties
  <1>1. ASSUME NEW k \in 1 .. n, NEW a \in A PROVE Step(k, a) \in A
    <2>1. us[k] \in Units(c)
      BY LenProperties
    <2>2. us[k].start_code \in {3, 4} /\ us[k].kind \in KindsOf(c)
      BY <2>1 DEF Units
    <2> DEFINE x == StartCode(us[k].start_code)
               y == Body(c, us[k].kind)
    <2>3. x \in Seq(Byte) /\ y \in Seq(Byte)
      BY <2>2, StartCodeIs, BodyIs
    <2> HIDE DEF x, y
    <2>4. a \o x \o y \in Seq(Byte)
      BY <2>3
    <2> QED BY <2>4 DEF x, y
  <1> HIDE DEF n, A, first, Step
  <1>2. step \in [Nat \X A -> A]
    BY <1>0, <1>1
  <1>3. \A k \in 1 .. n, a \in A : step[<<k, a>>] = Step(k, a)
    BY <1>0
  <1> HIDE DEF step
  <1>4. PICK f : IsRecursion(f, A, n, first, step)
    BY <1>0, <1>2, IntervalRecursion
  <1>5. f = Rhs(f)
    <2> DEFINE g == Rhs(f)
    <2>1. f \in [0 .. n -> A] /\ f[0] = first
      BY <1>4 DEF IsRecursion
    <2>2. ASSUME NEW k \in 0 .. n PROVE f[k] = g[k]
      <3>1. CASE k = 0
        BY <3>1, <2>1
      <3>2. CASE k \in 1 .. n
        <4>1. f[k] = step[<<k, f[k - 1]>>]
          BY <1>4, <3>2 DEF IsRecursion
        <4>2. k - 1 \in 0 .. n
          BY <3>2, <1>0
        <4>3. f[k - 1] \in A
          BY <2>1, <4>2
        <4> QED BY <4>1, <4>3, <1>3, <3>2
      <3> QED BY <3>1, <3>2, <1>0
    <2>3. g = [k \in 0 .. n |-> g[k]] /\ f = [k \in 0 .. n |-> f[k]]
      BY <2>1
    <2> HIDE DEF g
    <2>4. [k \in 0 .. n |-> f[k]] = [k \in 0 .. n |-> g[k]]
      BY <2>2
    <2>5. f = g
      BY <2>3, <2>4
    <2> QED BY <2>5 DEF g
  <1> DEFINE h == UnitPrefixes(c, us)
  <1>6. h = Rhs(h)
    BY <1>5 DEF UnitPrefixes, n, first, Step
  <1> HIDE DEF h
  <1>7. h[0] = first /\ \A k \in 1 .. n : h[k] = Step(k, h[k - 1])
    BY <1>6, <1>0
  <1>8. \A k \in 0 .. n : h[k] \in A
    BY <1>0, <1>1, <1>7, RecursionIn
  <1>9. h \in [0 .. n -> A]
    BY <1>6, <1>8
  <1> QED BY <1>7, <1>9 DEF h, n, A, first, Step

(* How many bytes precede the k-th unit. *)
Off(c, us, k) == Len(UnitPrefixes(c, us)[k - 1])

LEMMA UnitPrefixesGrow ==
    ASSUME NEW c \in Codecs, NEW us \in Seq(Units(c)),
           NEW j \in 0 .. Len(us), NEW k \in j .. Len(us)
    PROVE  StartsWith(UnitPrefixes(c, us)[k], UnitPrefixes(c, us)[j])
  <1> DEFINE n == Len(us)
             g == UnitPrefixes(c, us)
  <1>1. n \in Nat
    BY LenProperties
  <1>2. \A i \in 0 .. n : g[i] \in Seq(Byte)
    BY UnitPrefixesIs
  <1>3. ASSUME NEW i \in 1 .. n PROVE StartsWith(g[i], g[i - 1])
    <2> DEFINE x == StartCode(us[i].start_code)
               y == Body(c, us[i].kind)
    <2>1. us[i] \in Units(c)
      BY LenProperties
    <2>2. us[i].start_code \in {3, 4} /\ us[i].kind \in KindsOf(c)
      BY <2>1 DEF Units
    <2>3. x \in Seq(Byte) /\ y \in Seq(Byte)
      BY <2>2, StartCodeIs, BodyIs
    <2>4. g[i] = g[i - 1] \o x \o y
      BY UnitPrefixesIs
    <2>5. i - 1 \in 0 .. n
      BY <1>1
    <2>6. g[i - 1] \in Seq(Byte)
      BY <1>2, <2>5
    <2> HIDE DEF x, y, g
    <2> QED BY <2>3, <2>4, <2>6 DEF StartsWith
  <1> HIDE DEF g, n
  <1>4. \A i \in 0 .. n : \A m \in i .. n : StartsWith(g[m], g[i])
    BY <1>1, <1>2, <1>3, Growing
  <1> QED BY <1>4 DEF g, n

(* A unit, and the bytes of it behind its start code. *)
LEMMA UnitIs ==
    ASSUME NEW c \in Codecs, NEW us \in Seq(Units(c)), NEW k \in 1 .. Len(us)
    PROVE  /\ us[k] \in Units(c)
           /\ us[k].start_code \in {3, 4} /\ us[k].kind \in KindsOf(c)
           /\ StartCode(us[k].start_code) \in Seq(Byte)
           /\ Len(StartCode(us[k].start_code)) = us[k].start_code
           /\ Body(c, us[k].kind) \in Seq(Byte)
           /\ Len(Body(c, us[k].kind)) \in 5 .. 8
           /\ Len(Body(c, us[k].kind)) \in Nat /\ Len(Body(c, us[k].kind)) >= 5
  <1>1. us[k] \in Units(c)
    BY LenProperties
  <1>2. us[k].start_code \in {3, 4} /\ us[k].kind \in KindsOf(c)
    BY <1>1 DEF Units
  <1>3. \A x \in 5 .. 8 : x \in Nat /\ x >= 5
    OBVIOUS
  <1> QED BY <1>1, <1>2, <1>3, StartCodeIs, BodyIs

LEMMA UnitBytesIs ==
    ASSUME NEW c \in Codecs, NEW us \in Seq(Units(c))
    PROVE  /\ UnitBytes(c, us) \in Seq(Byte)
           /\ Off(c, us, 1) = 0
           /\ Off(c, us, Len(us) + 1) = Len(UnitBytes(c, us))
  <1>1. Len(us) \in Nat /\ 0 \in 0 .. Len(us) /\ Len(us) \in 0 .. Len(us)
        /\ 1 - 1 = 0 /\ Len(us) + 1 - 1 = Len(us)
    BY LenProperties
  <1>2. UnitPrefixes(c, us)[0] = <<>>
        /\ UnitPrefixes(c, us)[Len(us)] \in Seq(Byte)
    BY <1>1, UnitPrefixesIs
  <1> QED BY <1>1, <1>2 DEF UnitBytes, Off

(* Where a unit is. *)
LEMMA UnitAt ==
    ASSUME NEW c \in Codecs, NEW us \in Seq(Units(c)), NEW d \in Seq(Byte),
           StartsWith(d, UnitBytes(c, us)), NEW k \in 1 .. Len(us)
    PROVE  LET p == Off(c, us, k)
               m == us[k].start_code
               b == Body(c, us[k].kind)
           IN  /\ p \in Nat /\ p + m \in Nat
               /\ Off(c, us, k + 1) = p + m + Len(b)
               /\ Off(c, us, k + 1) <= Len(d)
               /\ Holds(d, p, StartCode(m))
               /\ Holds(d, p + m, b)
  <1> DEFINE n == Len(us)
             g == UnitPrefixes(c, us)
             m == us[k].start_code
             b == Body(c, us[k].kind)
             x == StartCode(m)
             s == g[k - 1]
             t == g[k]
             p == Len(s)
  <1>1. n \in Nat /\ k \in 0 .. n /\ k - 1 \in 0 .. n /\ n \in k .. n
        /\ k + 1 - 1 = k /\ k \in Nat
    BY LenProperties
  <1>2. m \in {3, 4} /\ x \in Seq(Byte) /\ Len(x) = m
        /\ b \in Seq(Byte) /\ Len(b) \in 5 .. 8
    BY UnitIs
  <1>3. t = s \o x \o b
    BY UnitPrefixesIs
  <1>4. s \in Seq(Byte) /\ t \in Seq(Byte) /\ UnitBytes(c, us) \in Seq(Byte)
    <2>1. s \in Seq(Byte) /\ t \in Seq(Byte)
      BY <1>1, UnitPrefixesIs
    <2> QED BY <2>1, UnitBytesIs
  <1>5. StartsWith(UnitBytes(c, us), t)
    BY <1>1, UnitPrefixesGrow DEF UnitBytes
  <1>6. StartsWith(d, t)
    BY <1>4, <1>5, StartsWithTransitive
  <1>7. Off(c, us, k) = p /\ Off(c, us, k + 1) = Len(t)
    BY <1>1 DEF Off
  <1>8. p \in Nat
    BY <1>4, ByteSeq
  <1> HIDE DEF m, b, x, s, t
  <1> DEFINE y == s \o x
  <1>9. /\ y \in Seq(Byte) /\ Len(y) = p + m /\ Holds(y, p, x)
    BY <1>2, <1>4, ConcatIs
  <1>10. t = y \o b
    BY <1>3
  <1> HIDE DEF y
  <1>11. /\ Len(t) = Len(y) + Len(b) /\ StartsWith(t, y) /\ Holds(t, Len(y), b)
    BY <1>2, <1>9, <1>10, ConcatIs
  <1>12. Holds(t, p, x)
    BY <1>2, <1>4, <1>8, <1>9, <1>11, HoldsInPrefix
  <1>13. Holds(d, p, x)
    BY <1>2, <1>4, <1>6, <1>8, <1>12, HoldsInPrefix
  <1>14. Len(y) \in Nat
    BY <1>9, ByteSeq
  <1>15. Holds(d, Len(y), b)
    BY <1>2, <1>4, <1>6, <1>11, <1>14, HoldsInPrefix
  <1>16. Len(t) <= Len(d)
    BY <1>6 DEF StartsWith
  <1> HIDE DEF p
  <1>17. /\ p + m \in Nat /\ Len(t) = p + m + Len(b) /\ Holds(d, p + m, b)
    BY <1>9, <1>11, <1>14, <1>15
  <1> QED BY <1>7, <1>8, <1>13, <1>16, <1>17 DEF m, b, x, s, t, p

(* Later units are further on. *)
LEMMA OffGrows ==
    ASSUME NEW c \in Codecs, NEW us \in Seq(Units(c)),
           NEW j \in 1 .. Len(us), NEW k \in j + 1 .. Len(us) + 1
    PROVE  /\ Off(c, us, j) \in Nat /\ Off(c, us, k) \in Nat
           /\ Off(c, us, j) + us[j].start_code + Len(Body(c, us[j].kind))
                  <= Off(c, us, k)
  <1> DEFINE n == Len(us)
             g == UnitPrefixes(c, us)
             d == UnitBytes(c, us)
  <1>1. n \in Nat /\ j \in 0 .. n /\ k - 1 \in j .. n /\ k - 1 \in 0 .. n
        /\ j + 1 - 1 = j
    BY LenProperties
  <1>2. d \in Seq(Byte)
    BY UnitBytesIs
  <1>3. StartsWith(d, d)
    BY <1>2, ByteSeq DEF StartsWith
  <1>4. Off(c, us, j) \in Nat
        /\ Off(c, us, j + 1) = Off(c, us, j) + us[j].start_code
                                             + Len(Body(c, us[j].kind))
    BY <1>2, <1>3, UnitAt
  <1>5. StartsWith(g[k - 1], g[j])
    BY <1>1, UnitPrefixesGrow
  <1>6. g[k - 1] \in Seq(Byte)
    BY <1>1, UnitPrefixesIs
  <1>7. Off(c, us, k) \in Nat
    BY <1>6, ByteSeq DEF Off
  <1>8. Off(c, us, j + 1) <= Off(c, us, k)
    BY <1>1, <1>5 DEF StartsWith, Off
  <1> QED BY <1>4, <1>7, <1>8

(* Every byte is one of a unit. *)
LEMMA UnitOf ==
    ASSUME NEW c \in Codecs, NEW us \in Seq(Units(c)),
           NEW i \in 1 .. Len(UnitBytes(c, us))
    PROVE  \E k \in 1 .. Len(us) : i \in Off(c, us, k) + 1 .. Off(c, us, k + 1)
  <1> DEFINE n == Len(us)
             off(k) == Off(c, us, k)
             T == {k \in 1 .. n + 1 : i > off(k)}
  <1>1. n \in Nat /\ UnitBytes(c, us) \in Seq(Byte)
        /\ off(1) = 0 /\ off(n + 1) = Len(UnitBytes(c, us))
    BY LenProperties, UnitBytesIs
  <1>2. i \in Nat /\ i > off(1) /\ ~(i > off(n + 1))
    BY <1>1, ByteSeq
  <1>3. \A k \in 1 .. n : off(k) \in Nat /\ off(k + 1) \in Nat
    <2>1. \A k \in 1 .. n : k + 1 \in k + 1 .. n + 1
      BY <1>1
    <2> QED BY <2>1, OffGrows
  <1> SUFFICES ASSUME \A k \in 1 .. n : i \notin off(k) + 1 .. off(k + 1)
               PROVE  FALSE
    OBVIOUS
  <1> HIDE DEF n, off
  <1>4. ASSUME NEW k \in 1 .. n, k \in T PROVE k + 1 \in T
    BY <1>1, <1>2, <1>3, <1>4
  <1>5. 1 \in T
    BY <1>1, <1>2
  <1>6. Inductive(T, 1, n + 1)
    <2> DEFINE e == n + 1
    <2>1. \A k \in 1 .. e - 1 : k \in 1 .. n
      BY <1>1
    <2> HIDE DEF T, e
    <2>2. Inductive(T, 1, e)
      BY <1>4, <1>5, <2>1 DEF Inductive
    <2> QED BY <2>2 DEF e
  <1> HIDE DEF T
  <1>7. n + 1 \in T
    <2>1. 1 \in Int /\ n + 1 \in Int /\ n + 1 \in 1 .. n + 1
      BY <1>1
    <2> QED BY <1>6, <2>1, IntervalInduction
  <1> QED BY <1>2, <1>7 DEF T

(* Where in a unit start codes begin; the one of four bytes has another of *)
(* three in it.                                                            *)
LEMMA StartCodesOfUnit ==
    ASSUME NEW d \in Seq(Byte), NEW p \in Nat, NEW m \in {3, 4},
           NEW b \in Seq(Byte), Clean(b),
           Holds(d, p, StartCode(m)), Holds(d, p + m, b),
           NEW j \in 1 .. m + Len(b)
    PROVE  StartCodeSize(d, p + j) =
               IF j = 1 THEN m ELSE IF j = 2 /\ m = 4 THEN 3 ELSE 0
  <1> DEFINE S == StartCode(m)
             n == Len(d)
             l == Len(b)
  <1>1. n \in Nat /\ l \in Nat /\ p + m + l <= n
        /\ \A i \in 1 .. l : b[i] \in Nat /\ d[p + m + i] = b[i]
    BY ByteSeq, ByteIsNat DEF Holds
  <1>2. l >= 1 /\ b[l] # 0
        /\ \A i \in 1 .. l - 2 : b[i] = 0 /\ b[i + 1] = 0 => b[i + 2] > 1
    BY DEF Clean
  <1>3. d[p + m] = 1 /\ \A i \in 1 .. m - 1 : d[p + i] = 0
    <2>1. /\ Len(S) = m /\ S[m] = 1 /\ \A i \in 1 .. m - 1 : S[i] = 0
      BY StartCodeIs
    <2> HIDE DEF S
    <2>2. m \in 1 .. Len(S) /\ \A i \in 1 .. m - 1 : i \in 1 .. Len(S)
      BY <2>1
    <2>3. \A i \in 1 .. Len(S) : d[p + i] = S[i]
      BY DEF Holds, S
    <2> QED BY <2>1, <2>2, <2>3
  <1> HIDE DEF n, l
  <1>4. p + j \in Nat /\ p + m <= n /\ p + m + 1 <= n
    BY <1>1, <1>2
  <1>5. CASE j <= m
    <2>1. CASE m = 3
      <3>1. d[p + 1] = 0 /\ d[p + 2] = 0 /\ d[p + 3] = 1
        BY <1>3, <2>1
      <3>2. j \in {1, 2, 3}
        BY <1>5, <2>1
      <3>3. p + 1 + 1 = p + 2 /\ p + 1 + 2 = p + 3 /\ p + 2 + 1 = p + 3
        OBVIOUS
      <3>4. p + 1 + 2 <= n
        BY <1>4, <2>1
      <3>5. ~(p + 1 + 2 > n)
        BY <1>1, <3>4
      <3>6. CASE j = 1
        BY <2>1, <3>1, <3>3, <3>5, <3>6 DEF StartCodeSize, n
      <3>7. CASE j = 2
        BY <2>1, <3>1, <3>3, <3>7 DEF StartCodeSize
      <3>8. CASE j = 3
        BY <2>1, <3>1, <3>8 DEF StartCodeSize
      <3> QED BY <3>2, <3>6, <3>7, <3>8
    <2>2. CASE m = 4
      <3>1. d[p + 1] = 0 /\ d[p + 2] = 0 /\ d[p + 3] = 0 /\ d[p + 4] = 1
        BY <1>3, <2>2
      <3>2. j \in {1, 2, 3, 4}
        BY <1>5, <2>2
      <3>3. /\ p + 1 + 1 = p + 2 /\ p + 1 + 2 = p + 3 /\ p + 1 + 3 = p + 4
            /\ p + 2 + 1 = p + 3 /\ p + 2 + 2 = p + 4 /\ p + 3 + 1 = p + 4
        OBVIOUS
      <3>4. p + 1 + 2 <= n /\ p + 1 + 3 <= n /\ p + 2 + 2 <= n
        BY <1>1, <1>4, <2>2
      <3>5. ~(p + 1 + 2 > n) /\ ~(p + 2 + 2 > n)
        BY <1>1, <3>4
      <3>6. CASE j = 1
        BY <2>2, <3>1, <3>3, <3>4, <3>5, <3>6 DEF StartCodeSize, n
      <3>7. CASE j = 2
        BY <2>2, <3>1, <3>3, <3>5, <3>7 DEF StartCodeSize, n
      <3>8. CASE j = 3
        BY <2>2, <3>1, <3>3, <3>8 DEF StartCodeSize
      <3>9. CASE j = 4
        BY <2>2, <3>1, <3>9 DEF StartCodeSize
      <3> QED BY <3>2, <3>6, <3>7, <3>8, <3>9
    <2> QED BY <2>1, <2>2
  <1>6. CASE j > m
    <2> DEFINE i == j - m
               q == p + m
    <2>1. i \in 1 .. l /\ p + j = q + i /\ j # 1 /\ j # 2
      BY <1>1, <1>6 DEF l
    <2>2. d[q + i] = b[i]
      BY <1>1, <2>1
    <2>3. CASE b[i] # 0
      BY <2>1, <2>2, <2>3 DEF StartCodeSize
    <2>4. CASE b[i] = 0
      <3>1. i + 1 \in 1 .. l
        BY <1>1, <1>2, <2>1, <2>4
      <3>2. d[q + i + 1] = b[i + 1]
        <4>1. q + i + 1 = q + (i + 1)
          BY <2>1
        <4> QED BY <1>1, <3>1, <4>1
      <3>3. CASE b[i + 1] # 0
        BY <2>1, <3>2, <3>3 DEF StartCodeSize
      <3>4. CASE b[i + 1] = 0
        <4>1. i + 2 \in 1 .. l /\ i \in 1 .. l - 2
          <5>1. i + 1 # l
            BY <1>2, <3>4
          <5>2. i \in Int /\ l \in Int /\ 1 <= i /\ i + 1 <= l
            BY <1>1, <2>1, <3>1
          <5> HIDE DEF i
          <5> QED BY <5>1, <5>2
        <4>2. d[q + i + 2] = b[i + 2]
          <5>1. q + i + 2 = q + (i + 2)
            BY <2>1
          <5> QED BY <1>1, <4>1, <5>1
        <4>3. b[i + 2] > 1 /\ b[i + 2] \in Nat
          BY <1>1, <1>2, <2>4, <3>4, <4>1
        <4>4. d[q + i + 2] # 1 /\ d[q + i + 2] # 0
          BY <4>2, <4>3
        <4> QED BY <2>1, <4>4 DEF StartCodeSize
      <3> QED BY <3>3, <3>4
    <2> QED BY <2>3, <2>4
  <1> QED BY <1>5, <1>6

LEMMA StartCodesAt ==
    ASSUME NEW c \in Codecs, NEW us \in Seq(Units(c)), NEW d \in Seq(Byte),
           StartsWith(d, UnitBytes(c, us)), NEW k \in 1 .. Len(us),
           NEW i \in Off(c, us, k) + 1 .. Off(c, us, k + 1)
    PROVE  StartCodeSize(d, i) =
               IF i = Off(c, us, k) + 1 THEN us[k].start_code
               ELSE IF i = Off(c, us, k) + 2 /\ us[k].start_code = 4 THEN 3
               ELSE 0
  <1> DEFINE p == Off(c, us, k)
             m == us[k].start_code
             b == Body(c, us[k].kind)
             j == i - p
  <1>1. m \in {3, 4} /\ b \in Seq(Byte) /\ us[k].kind \in KindsOf(c)
    BY UnitIs
  <1>2. Clean(b)
    BY <1>1, BodyIs
  <1>3. /\ p \in Nat /\ Off(c, us, k + 1) = p + m + Len(b)
        /\ Holds(d, p, StartCode(m)) /\ Holds(d, p + m, b)
    BY UnitAt
  <1> HIDE DEF p, m, b
  <1>4. Len(b) \in Nat /\ i \in p + 1 .. p + m + Len(b)
    BY <1>1, <1>3, ByteSeq DEF p
  <1>5. j \in 1 .. m + Len(b) /\ p + j = i
    BY <1>1, <1>3, <1>4
  <1>6. (j = 1 <=> i = p + 1) /\ (j = 2 <=> i = p + 2)
    BY <1>3, <1>4
  <1> HIDE DEF j
  <1>7. StartCodeSize(d, p + j) = IF j = 1 THEN m
                                  ELSE IF j = 2 /\ m = 4 THEN 3 ELSE 0
    BY <1>1, <1>2, <1>3, <1>5, StartCodesOfUnit
  <1> QED BY <1>5, <1>6, <1>7 DEF p, m

LEMMA StartOfUnit ==
    ASSUME NEW c \in Codecs, NEW us \in Seq(Units(c)), NEW d \in Seq(Byte),
           StartsWith(d, UnitBytes(c, us)), NEW k \in 1 .. Len(us)
    PROVE  LET i == Off(c, us, k) + 1
           IN  /\ i \in Nat \ {0} /\ i <= Len(d)
               /\ StartCodeSize(d, i) = us[k].start_code
               /\ us[k].start_code \in {3, 4}
               /\ TypeAt(c, d, i) = NalType(c, Header(c, us[k].kind)[1])
  <1> DEFINE p == Off(c, us, k)
             i == p + 1
             m == us[k].start_code
             b == Body(c, us[k].kind)
  <1>1. m \in {3, 4} /\ b \in Seq(Byte) /\ Len(b) \in Nat /\ Len(b) >= 5
        /\ us[k].kind \in KindsOf(c)
    BY UnitIs
  <1>2. /\ p \in Nat /\ Off(c, us, k + 1) = p + m + Len(b)
        /\ Off(c, us, k + 1) <= Len(d) /\ Holds(d, p + m, b)
    BY UnitAt
  <1>3. b[1] = Header(c, us[k].kind)[1]
    BY <1>1, BodyIs
  <1> HIDE DEF m, b
  <1>4. i \in p + 1 .. Off(c, us, k + 1) /\ i <= Len(d)
    <2>1. Len(d) \in Int
      BY ByteSeq
    <2> HIDE DEF p
    <2> QED BY <1>1, <1>2, <2>1
  <1>5. StartCodeSize(d, i) = m
    BY <1>4, StartCodesAt DEF m
  <1>6. d[i + m] = b[1]
    <2> DEFINE q == p + m
    <2>1. i + m = q + 1 /\ 1 \in 1 .. Len(b)
      BY <1>1, <1>2
    <2>2. Holds(d, q, b)
      BY <1>2
    <2> HIDE DEF q, p, i
    <2>3. d[q + 1] = b[1]
      BY <2>1, <2>2 DEF Holds
    <2> QED BY <2>1, <2>3
  <1>7. TypeAt(c, d, i) = NalType(c, b[1])
    BY <1>5, <1>6 DEF TypeAt
  <1>8. i \in Nat \ {0}
    BY <1>2
  <1> QED BY <1>1, <1>3, <1>4, <1>5, <1>7, <1>8 DEF m

(* The units found are those that are there. *)
LEMMA UnitStartsIs ==
    ASSUME NEW c \in Codecs, NEW us \in Seq(Units(c))
    PROVE  UnitStarts(UnitBytes(c, us)) = {Off(c, us, k) + 1 : k \in 1 .. Len(us)}
  <1> DEFINE d == UnitBytes(c, us)
             n == Len(us)
             off(k) == Off(c, us, k)
             size(i) == StartCodeSize(d, i)
  <1>1. d \in Seq(Byte) /\ StartsWith(d, d) /\ n \in Nat /\ Len(d) \in Nat
        /\ DOMAIN d = 1 .. Len(d)
    BY UnitBytesIs, ByteSeq, LenProperties DEF StartsWith
  <1>2. \A k \in 1 .. n : /\ off(k) \in Nat /\ us[k].start_code \in {3, 4}
                           /\ off(k + 1) \in Nat /\ off(k + 1) >= off(k) + 8
                           /\ off(k + 1) <= Len(d)
    <2> TAKE k \in 1 .. n
    <2> DEFINE m == us[k].start_code
               l == Len(Body(c, us[k].kind))
    <2>1. off(k) \in Nat /\ off(k + 1) = off(k) + m + l /\ off(k + 1) <= Len(d)
      BY <1>1, UnitAt
    <2>2. m \in {3, 4} /\ l \in Nat /\ l >= 5
      BY UnitIs
    <2> HIDE DEF off, m, l, d, n
    <2>3. off(k + 1) \in Nat /\ off(k + 1) >= off(k) + 8
      BY <2>1, <2>2
    <2> QED BY <2>1, <2>2, <2>3 DEF m
  <1>3. \A k \in 1 .. n : \A i \in off(k) + 1 .. off(k + 1) :
            size(i) = IF i = off(k) + 1 THEN us[k].start_code
                      ELSE IF i = off(k) + 2 /\ us[k].start_code = 4 THEN 3
                      ELSE 0
    BY <1>1, StartCodesAt
  <1>4. off(1) = 0
    BY UnitBytesIs
  <1>5. UnitStarts(d) = {i \in 1 .. Len(d) :
                            size(i) > 0 /\ (i = 1 \/ size(i - 1) # 4)}
    BY <1>1 DEF UnitStarts, StartCodes
  <1>6. \A i \in 1 .. Len(d) : \E k \in 1 .. n : i \in off(k) + 1 .. off(k + 1)
    BY UnitOf
  <1> HIDE DEF d, n, off, size
  <1>7. ASSUME NEW i \in UnitStarts(d) PROVE \E k \in 1 .. n : i = off(k) + 1
    <2>1. i \in 1 .. Len(d) /\ size(i) > 0 /\ (i = 1 \/ size(i - 1) # 4)
      BY <1>5
    <2>2. PICK k \in 1 .. n : i \in off(k) + 1 .. off(k + 1)
      BY <1>6, <2>1
    <2>3. CASE i = off(k) + 1
      BY <2>3
    <2>4. CASE i = off(k) + 2 /\ us[k].start_code = 4
      <3> DEFINE a == off(k)
                 b == off(k + 1)
      <3>1. i - 1 = a + 1 /\ i - 1 \in a + 1 .. b /\ i # 1
        <4>1. a \in Nat /\ b \in Nat
          BY <1>2
        <4>2. i = a + 2 /\ i \in a + 1 .. b
          BY <2>2, <2>4
        <4> HIDE DEF a, b
        <4> QED BY <4>1, <4>2
      <3>2. size(i - 1) = 4
        BY <1>3, <2>4, <3>1
      <3> QED BY <2>1, <3>1, <3>2
    <2> QED BY <1>3, <2>1, <2>2, <2>3, <2>4
  <1>8. ASSUME NEW k \in 1 .. n PROVE off(k) + 1 \in UnitStarts(d)
    <2> DEFINE i == off(k) + 1
    <2>1. i \in off(k) + 1 .. off(k + 1) /\ i \in 1 .. Len(d)
      BY <1>1, <1>2
    <2>2. size(i) = us[k].start_code /\ size(i) > 0
      BY <1>2, <1>3, <2>1
    <2>3. i = 1 \/ size(i - 1) # 4
      <3>1. CASE k = 1
        BY <1>4, <3>1
      <3>2. CASE k # 1
        <4> DEFINE j == k - 1
        <4>1. j \in 1 .. n /\ j + 1 = k
          BY <1>1, <3>2
        <4> HIDE DEF j
        <4>2. off(k) \in off(j) + 1 .. off(j + 1) /\ i - 1 = off(k)
              /\ off(k) # off(j) + 1 /\ off(k) # off(j) + 2
          BY <1>2, <4>1
        <4>3. size(off(k)) = 0
          BY <1>3, <4>1, <4>2
        <4> QED BY <4>2, <4>3
      <3> QED BY <3>1, <3>2
    <2> QED BY <1>5, <2>1, <2>2, <2>3
  <1>9. UnitStarts(d) = {off(k) + 1 : k \in 1 .. n}
    BY <1>7, <1>8
  <1> QED BY <1>9 DEF d, n, off

LEMMA OffIs ==
    ASSUME NEW c \in Codecs, NEW us \in Seq(Units(c))
    PROVE  /\ Len(us) \in Nat
           /\ \A k \in 1 .. Len(us) + 1 :
                  /\ Off(c, us, k) \in Nat
                  /\ \A j \in 1 .. Len(us) + 1 :
                         j < k => Off(c, us, j) + 8 <= Off(c, us, k)
  <1> DEFINE n == Len(us)
             off(k) == Off(c, us, k)
  <1>1. n \in Nat /\ off(1) = 0
    BY LenProperties, UnitBytesIs
  <1>2. ASSUME NEW j \in 1 .. n, NEW k \in j + 1 .. n + 1
        PROVE  off(j) \in Nat /\ off(k) \in Nat /\ off(j) + 8 <= off(k)
    <2> DEFINE m == us[j].start_code
               l == Len(Body(c, us[j].kind))
    <2>1. m \in {3, 4} /\ l \in Nat /\ l >= 5
      BY UnitIs
    <2>2. off(j) \in Nat /\ off(k) \in Nat /\ off(j) + m + l <= off(k)
      BY OffGrows
    <2> HIDE DEF off, m, l
    <2> QED BY <2>1, <2>2
  <1> HIDE DEF n, off
  <1>3. ASSUME NEW k \in 1 .. n + 1 PROVE off(k) \in Nat
    <2>1. k = 1 \/ (1 \in 1 .. n /\ k \in 1 + 1 .. n + 1)
      BY <1>1
    <2> QED BY <1>1, <1>2, <2>1
  <1>4. ASSUME NEW k \in 1 .. n + 1, NEW j \in 1 .. n + 1, j < k
        PROVE  off(j) + 8 <= off(k)
    <2>1. j \in 1 .. n /\ k \in j + 1 .. n + 1
      BY <1>1, <1>4
    <2> QED BY <1>2, <2>1
  <1> QED BY <1>1, <1>3, <1>4 DEF n, off

LEMMA UnitEndIs ==
    ASSUME NEW c \in Codecs, NEW us \in Seq(Units(c)), NEW k \in 1 .. Len(us)
    PROVE  UnitEnd(UnitBytes(c, us), Off(c, us, k) + 1) = Off(c, us, k + 1) + 1
  <1> DEFINE d == UnitBytes(c, us)
             n == Len(us)
             off(i) == Off(c, us, i)
             e == off(k + 1) + 1
             T == {j \in UnitStarts(d) : j > off(k) + 1} \cup {Len(d) + 1}
  <1>1. UnitStarts(d) = {off(i) + 1 : i \in 1 .. n}
    BY UnitStartsIs
  <1>2. /\ n \in Nat /\ \A i \in 1 .. n + 1 : off(i) \in Nat
        /\ \A i, j \in 1 .. n + 1 : j < i => off(j) + 8 <= off(i)
    BY OffIs
  <1>3. Len(d) = off(n + 1)
    BY UnitBytesIs
  <1>4. UnitEnd(d, off(k) + 1) = Min(T)
    BY DEF UnitEnd
  <1> HIDE DEF d, n, off
  <1>5. k \in 1 .. n /\ k \in 1 .. n + 1 /\ k + 1 \in 1 .. n + 1
        /\ n + 1 \in 1 .. n + 1
    BY <1>2 DEF n
  <1>6. e \in T
    <2>1. CASE k = n
      BY <1>3, <2>1
    <2>2. CASE k # n
      <3>1. k + 1 \in 1 .. n
        BY <1>2, <1>5, <2>2
      <3>2. off(k + 1) + 1 > off(k) + 1
        BY <1>2, <1>5
      <3> QED BY <1>1, <3>1, <3>2
    <2> QED BY <2>1, <2>2
  <1>7. T \subseteq Int
    <2>1. ASSUME NEW j \in UnitStarts(d) PROVE j \in Int
      <3>1. PICK i \in 1 .. n : j = off(i) + 1
        BY <1>1
      <3> QED BY <1>2, <3>1
    <2>2. Len(d) + 1 \in Int
      BY <1>2, <1>3, <1>5
    <2> QED BY <2>1, <2>2
  <1>8. ASSUME NEW j \in T PROVE e <= j
    <2>1. CASE j = Len(d) + 1
      <3>1. k + 1 < n + 1 \/ k + 1 = n + 1
        BY <1>2, <1>5
      <3>2. off(k + 1) <= off(n + 1)
        BY <1>2, <1>5, <3>1
      <3> QED BY <1>2, <1>3, <1>5, <2>1, <3>2
    <2>2. CASE j \in UnitStarts(d) /\ j > off(k) + 1
      <3>1. PICK i \in 1 .. n : j = off(i) + 1
        BY <1>1, <2>2
      <3>2. i \in 1 .. n + 1 /\ off(i) \in Nat /\ off(k) \in Nat /\ i \in Int
        BY <1>2, <1>5
      <3>3. off(i) > off(k)
        BY <2>2, <3>1, <3>2
      <3>4. ~(i < k) /\ i # k
        BY <1>2, <1>5, <3>2, <3>3
      <3>5. i = k + 1 \/ k + 1 < i
        BY <1>2, <1>5, <3>4
      <3>6. off(k + 1) <= off(i)
        BY <1>2, <1>5, <3>2, <3>5
      <3> QED BY <1>2, <1>5, <3>1, <3>2, <3>6
    <2> QED BY <2>1, <2>2
  <1> HIDE DEF T, e
  <1>9. Min(T) = e
    BY <1>6, <1>7, <1>8, MinIs
  <1> QED BY <1>4, <1>9 DEF d, off, e

(* The first m units are those before the first slice or message. *)
Lead(us, m) ==
    /\ m \in 0 .. Len(us)
    /\ \A i \in 1 .. m : us[i].kind \in DelimiterKinds
    /\ m < Len(us) => us[m + 1].kind \notin DelimiterKinds

LEMMA HasLead ==
    ASSUME NEW us, Len(us) \in Nat
    PROVE  \E m : Lead(us, m)
  <1> DEFINE n == Len(us)
             T == {i \in 0 .. n : i < n => us[i + 1].kind \notin DelimiterKinds}
  <1> HIDE DEF n
  <1>1. n \in Nat /\ n \in T /\ T \subseteq Nat
    BY DEF n
  <1>2. PICK m \in T : \A i \in T : m <= i
    BY <1>1, LeastNat
  <1>3. ASSUME NEW i \in 1 .. m PROVE us[i].kind \in DelimiterKinds
    <2> DEFINE j == i - 1
    <2>1. j \in 0 .. n /\ j < n /\ ~(m <= j) /\ j + 1 = i
      BY <1>1, <1>2
    <2> HIDE DEF j
    <2>2. j \notin T
      BY <1>2, <2>1
    <2> QED BY <2>1, <2>2
  <1> QED BY <1>1, <1>2, <1>3 DEF Lead, n

LEMMA ParameterSetsEndIs ==
    ASSUME NEW c \in Codecs, NEW us \in Seq(Units(c)), NEW m, Lead(us, m)
    PROVE  ParameterSetsEnd(c, UnitBytes(c, us)) = Off(c, us, m + 1)
  <1> DEFINE d == UnitBytes(c, us)
             n == Len(us)
             off(i) == Off(c, us, i)
             e == off(m + 1) + 1
             O == {i \in UnitStarts(d) : TypeAt(c, d, i) \notin ParameterSetTypes(c)}
             T == O \cup {Len(d) + 1}
  <1>1. UnitStarts(d) = {off(i) + 1 : i \in 1 .. n}
    BY UnitStartsIs
  <1>2. /\ n \in Nat /\ \A i \in 1 .. n + 1 : off(i) \in Nat
        /\ \A i, j \in 1 .. n + 1 : j < i => off(j) + 8 <= off(i)
    BY OffIs
  <1>3. Len(d) = off(n + 1)
    BY UnitBytesIs
  <1>4. ParameterSetsEnd(c, d) = Min(T) - 1
    BY DEF ParameterSetsEnd
  <1>5. ASSUME NEW i \in 1 .. n
        PROVE  TypeAt(c, d, off(i) + 1) \in ParameterSetTypes(c)
                   <=> us[i].kind \in DelimiterKinds
    <2>1. d \in Seq(Byte) /\ StartsWith(d, d)
      BY UnitBytesIs, ByteSeq DEF StartsWith
    <2>2. TypeAt(c, d, off(i) + 1) = NalType(c, Header(c, us[i].kind)[1])
      BY <2>1, StartOfUnit
    <2>3. us[i].kind \in KindsOf(c)
      BY UnitIs
    <2> QED BY <2>2, <2>3, HeaderIs
  <1>6. /\ m \in 0 .. n
        /\ \A i \in 1 .. m : us[i].kind \in DelimiterKinds
        /\ m < n => us[m + 1].kind \notin DelimiterKinds
    BY DEF Lead
  <1> HIDE DEF d, n, off
  <1>7. m + 1 \in 1 .. n + 1 /\ n + 1 \in 1 .. n + 1
    BY <1>2, <1>6
  <1>8. e \in T
    <2>1. CASE m = n
      BY <1>3, <2>1
    <2>2. CASE m # n
      <3>1. m + 1 \in 1 .. n /\ m < n
        BY <1>2, <1>6, <2>2
      <3>2. TypeAt(c, d, off(m + 1) + 1) \notin ParameterSetTypes(c)
        BY <1>5, <1>6, <3>1
      <3> QED BY <1>1, <3>1, <3>2
    <2> QED BY <2>1, <2>2
  <1>9. T \subseteq Int
    BY <1>1, <1>2, <1>3, <1>7
  <1>10. ASSUME NEW j \in T PROVE e <= j
    <2>1. CASE j = Len(d) + 1
      <3>1. m + 1 < n + 1 \/ m + 1 = n + 1
        BY <1>2, <1>6
      <3>2. off(m + 1) <= off(n + 1)
        BY <1>2, <1>7, <3>1
      <3> QED BY <1>2, <1>3, <1>7, <2>1, <3>2
    <2>2. CASE j \in O
      <3>1. PICK i \in 1 .. n : j = off(i) + 1
        BY <1>1, <2>2
      <3>2. i \in 1 .. n + 1 /\ off(i) \in Nat /\ i \in Int
        BY <1>2
      <3>3. i \notin 1 .. m
        BY <1>5, <1>6, <2>2, <3>1
      <3>4. i = m + 1 \/ m + 1 < i
        BY <1>2, <1>6, <3>2, <3>3
      <3>5. off(m + 1) <= off(i)
        BY <1>2, <1>7, <3>2, <3>4
      <3> QED BY <1>2, <1>7, <3>1, <3>2, <3>5
    <2> QED BY <2>1, <2>2
  <1> HIDE DEF T, e
  <1>11. Min(T) = e
    BY <1>8, <1>9, <1>10, MinIs
  <1>12. e - 1 = off(m + 1)
    BY <1>2, <1>7 DEF e
  <1> QED BY <1>4, <1>11, <1>12 DEF d, off

LEMMA FirstNalEndIs ==
    ASSUME NEW c \in Codecs, NEW us \in Seq(Units(c)), us # <<>>
    PROVE  FirstNalEnd(UnitBytes(c, us)) =
               IF Len(us) = 1 THEN 0 ELSE Off(c, us, 2)
  <1> DEFINE d == UnitBytes(c, us)
             n == Len(us)
             l == Len(d)
             off(i) == Off(c, us, i)
             size(i) == StartCodeSize(d, i)
             T == {pos \in 4 .. l - 4 : size(pos + 1) > 0}
  <1>1. d \in Seq(Byte) /\ StartsWith(d, d)
    BY UnitBytesIs, ByteSeq DEF StartsWith
  <1>2. /\ n \in Nat /\ \A i \in 1 .. n + 1 : off(i) \in Nat
        /\ \A i, j \in 1 .. n + 1 : j < i => off(j) + 8 <= off(i)
    BY OffIs
  <1>3. l = off(n + 1) /\ off(1) = 0
    BY UnitBytesIs
  <1>4. n >= 1
    BY <1>2, EmptySeq
  <1>5. FirstNalEnd(d) = IF T = {} THEN 0 ELSE Min(T)
    BY DEF FirstNalEnd
  <1>6. \A i \in off(1) + 1 .. off(2) :
            size(i) > 0 => i = off(1) + 1 \/ i = off(1) + 2
    <2>1. 1 \in 1 .. n /\ 1 + 1 = 2
      BY <1>2, <1>4
    <2> QED BY <1>1, <2>1, StartCodesAt
  <1>7. n >= 2 => size(off(2) + 1) > 0
    <2> SUFFICES ASSUME n >= 2 PROVE size(off(2) + 1) > 0
      OBVIOUS
    <2>1. 2 \in 1 .. n
      BY <1>2
    <2>2. size(off(2) + 1) \in {3, 4}
      BY <1>1, <2>1, StartOfUnit
    <2> HIDE DEF size
    <2> QED BY <2>2
  <1> HIDE DEF d, n, l, off, size
  <1>8. 1 \in 1 .. n + 1 /\ 2 \in 1 .. n + 1 /\ n + 1 \in 1 .. n + 1
    BY <1>2, <1>4
  <1>9. off(2) \in Nat /\ off(2) >= 8 /\ l \in Nat
    BY <1>2, <1>3, <1>8
  <1>10. ASSUME NEW i \in T PROVE i \in Int /\ i >= off(2)
    <2>1. i \in 4 .. l - 4 /\ size(i + 1) > 0
      OBVIOUS
    <2>2. i + 1 \notin off(1) + 1 .. off(2)
      BY <1>3, <1>6, <2>1
    <2> QED BY <1>3, <1>9, <2>1, <2>2
  <1>11. CASE n = 1
    <2>1. l = off(2)
      BY <1>3, <1>11
    <2>2. T = {}
      <3> SUFFICES ASSUME NEW i \in T PROVE FALSE
        OBVIOUS
      <3>1. i <= l - 4
        BY <1>9
      <3>2. i >= off(2) /\ i \in Int
        BY <1>10
      <3> QED BY <1>9, <2>1, <3>1, <3>2
    <2> HIDE DEF T
    <2> QED BY <1>5, <1>11, <2>2 DEF n, d
  <1>12. CASE n >= 2
    <2>1. off(2) + 8 <= l
      BY <1>2, <1>3, <1>8, <1>12
    <2>2. off(2) \in T
      BY <1>7, <1>9, <1>12, <2>1
    <2> HIDE DEF T
    <2>3. T \subseteq Int /\ \A i \in T : off(2) <= i
      BY <1>9, <1>10
    <2>4. Min(T) = off(2) /\ T # {}
      BY <2>2, <2>3, MinIs
    <2>5. n # 1
      BY <1>12
    <2> QED BY <1>5, <2>4, <2>5 DEF n, d, off
  <1> QED BY <1>2, <1>4, <1>11, <1>12

HasSlice(us) == \E i \in DOMAIN us : us[i].kind = "slice"

(* n units are before the message: the delimiters and parameter sets the   *)
(* keyframe begins with, or, without any, the first unit for QSV.          *)
Placed(us, b, n) ==
    \/ Lead(us, n)
    \/ b = "qsv" /\ n = 1 /\ Lead(us, 0)

LEMMA InsertionPointIs ==
    ASSUME NEW c \in Codecs, NEW b \in Backends, NEW us \in Seq(Units(c)),
           HasSlice(us)
    PROVE  \E n \in 0 .. Len(us) :
               /\ Placed(us, b, n)
               /\ InsertionPoint(c, b, UnitBytes(c, us)) = Off(c, us, n + 1)
  <1> DEFINE d == UnitBytes(c, us)
             N == Len(us)
             off(i) == Off(c, us, i)
  <1>1. /\ N \in Nat /\ \A i \in 1 .. N + 1 : off(i) \in Nat
        /\ \A i, j \in 1 .. N + 1 : j < i => off(j) + 8 <= off(i)
    BY OffIs
  <1>2. Len(d) = off(N + 1) /\ off(1) = 0
    BY UnitBytesIs
  <1>3. PICK m : Lead(us, m)
    BY <1>1, HasLead
  <1>4. /\ m \in 0 .. N
        /\ \A i \in 1 .. m : us[i].kind \in DelimiterKinds
    BY <1>3 DEF Lead
  <1>5. PICK i \in 1 .. N : us[i].kind = "slice"
    BY LenProperties DEF HasSlice
  <1>6. m < N
    <2>1. i \notin 1 .. m
      BY <1>4, <1>5 DEF DelimiterKinds
    <2> QED BY <1>1, <1>4, <2>1
  <1>7. ParameterSetsEnd(c, d) = off(m + 1)
    BY <1>3, ParameterSetsEndIs
  <1>8. FirstNalEnd(d) = IF N = 1 THEN 0 ELSE off(2)
    <2>1. us # <<>>
      BY <1>1, <1>4, <1>6, EmptySeq
    <2> QED BY <2>1, FirstNalEndIs
  <1>9. InsertionPoint(c, b, d) =
            IF off(m + 1) > 0 /\ (off(m + 1) < Len(d) \/ b = "stamper")
              THEN off(m + 1)
            ELSE IF b # "qsv" THEN 0
            ELSE IF FirstNalEnd(d) > 0 THEN FirstNalEnd(d)
            ELSE Len(d)
    BY <1>7 DEF InsertionPoint
  <1> HIDE DEF d, N, off
  <1>10. /\ m + 1 \in 1 .. N + 1 /\ 1 \in 1 .. N + 1 /\ 2 \in 1 .. N + 1
         /\ N + 1 \in 1 .. N + 1 /\ N >= 1
    BY <1>1, <1>4, <1>6
  <1>11. off(m + 1) \in Nat /\ off(m + 1) < Len(d)
    <2>1. off(m + 1) \in Nat /\ off(N + 1) \in Nat
      BY <1>1, <1>10
    <2>2. m + 1 < N + 1
      BY <1>1, <1>4, <1>6
    <2>3. off(m + 1) + 8 <= off(N + 1)
      BY <1>1, <1>10, <2>2
    <2> QED BY <1>2, <2>1, <2>3
  <1>12. CASE m > 0
    <2>1. off(m + 1) > 0
      BY <1>1, <1>2, <1>4, <1>10, <1>12
    <2>2. InsertionPoint(c, b, d) = off(m + 1)
      BY <1>9, <1>11, <2>1
    <2> QED BY <1>3, <1>4, <2>2 DEF Placed, d, N, off
  <1>13. CASE m = 0
    <2>1. off(m + 1) = 0
      BY <1>2, <1>13
    <2>2. CASE b # "qsv"
      <3>1. InsertionPoint(c, b, d) = off(m + 1)
        BY <1>9, <2>1, <2>2
      <3> QED BY <1>3, <1>4, <3>1 DEF Placed, d, N, off
    <2>3. CASE b = "qsv"
      <3>1. InsertionPoint(c, b, d) = IF FirstNalEnd(d) > 0 THEN FirstNalEnd(d)
                                                           ELSE Len(d)
        BY <1>9, <2>1, <2>3
      <3>2. InsertionPoint(c, b, d) = off(2)
        <4>1. CASE N = 1
          BY <1>2, <1>8, <3>1, <4>1
        <4>2. CASE N # 1
          <5>1. off(2) > 0
            BY <1>1, <1>2, <1>10
          <5> QED BY <1>8, <3>1, <4>2, <5>1
        <4> QED BY <4>1, <4>2
      <3>3. 1 \in 0 .. N /\ 1 + 1 = 2
        BY <1>1, <1>10
      <3>4. Placed(us, b, 1)
        BY <1>3, <1>13, <2>3 DEF Placed
      <3>5. InsertionPoint(c, b, d) = off(1 + 1)
        BY <3>2
      <3> QED BY <3>3, <3>4, <3>5 DEF d, N, off
    <2> QED BY <2>2, <2>3
  <1> QED BY <1>4, <1>12, <1>13

(* The units before a place, and those behind it. *)
LEMMA UnitsBefore ==
    ASSUME NEW c \in Codecs, NEW us \in Seq(Units(c)), NEW n \in 0 .. Len(us)
    PROVE  LET before == SubSeq(us, 1, n)
           IN  /\ before \in Seq(Units(c)) /\ Len(before) = n
               /\ UnitBytes(c, before) = UnitPrefixes(c, us)[n]
               /\ \A k \in 1 .. n + 1 : Off(c, before, k) = Off(c, us, k)
  <1> DEFINE v == SubSeq(us, 1, n)
             g == UnitPrefixes(c, us)
             h == UnitPrefixes(c, v)
             N == Len(us)
             T == {k \in 0 .. n : h[k] = g[k]}
  <1>1. N \in Nat /\ n \in Nat /\ n \in 0 .. N
    BY LenProperties
  <1>2. v \in Seq(Units(c)) /\ Len(v) = n /\ \A k \in 1 .. n : v[k] = us[k]
    <2> DEFINE U == Units(c)
    <2> HIDE DEF U
    <2>1. us \in Seq(U)
      BY DEF U
    <2> QED BY <1>1, <2>1 DEF U
  <1> HIDE DEF v
  <1>3. g[0] = <<>> /\ \A k \in 1 .. N :
            g[k] = g[k - 1] \o StartCode(us[k].start_code) \o Body(c, us[k].kind)
    BY UnitPrefixesIs
  <1>4. h[0] = <<>> /\ \A k \in 1 .. n :
            h[k] = h[k - 1] \o StartCode(v[k].start_code) \o Body(c, v[k].kind)
    BY <1>2, UnitPrefixesIs
  <1> HIDE DEF g, h, N
  <1>5. 0 \in T
    BY <1>1, <1>3, <1>4
  <1>6. ASSUME NEW k \in 0 .. n - 1, k \in T PROVE k + 1 \in T
    <2> DEFINE j == k + 1
    <2>1. j \in 1 .. n /\ j \in 1 .. N /\ j - 1 = k /\ j \in 0 .. n
      BY <1>1
    <2> HIDE DEF j
    <2>2. h[j] = g[j]
      BY <1>2, <1>3, <1>4, <1>6, <2>1
    <2> QED BY <2>1, <2>2 DEF j
  <1> HIDE DEF T
  <1>7. \A k \in 0 .. n : k \in T
    <2>1. Inductive(T, 0, n)
      BY <1>5, <1>6 DEF Inductive
    <2>2. 0 \in Int /\ n \in Int
      BY <1>1
    <2> QED BY <2>1, <2>2, IntervalInduction
  <1>8. \A k \in 0 .. n : h[k] = g[k]
    BY <1>7 DEF T
  <1>9. h[n] = g[n]
    BY <1>1, <1>8
  <1>10. \A k \in 1 .. n + 1 : Off(c, v, k) = Off(c, us, k)
    <2> TAKE k \in 1 .. n + 1
    <2>1. k - 1 \in 0 .. n
      BY <1>1
    <2> QED BY <1>8, <2>1 DEF Off, g, h
  <1> QED BY <1>2, <1>9, <1>10 DEF v, g, h, UnitBytes

Cat(s, t) == s \o t

LEMMA CatAssociative ==
    ASSUME NEW s \in Seq(Byte), NEW t \in Seq(Byte), NEW x \in Seq(Byte),
           NEW y \in Seq(Byte)
    PROVE  Cat(Cat(Cat(s, t), x), y) = Cat(s, Cat(Cat(t, x), y))
  <1>1. \A a, b, e \in Seq(Byte) :
            Cat(Cat(a, b), e) = Cat(a, Cat(b, e)) /\ Cat(a, b) \in Seq(Byte)
    <2>1. \A a, b, e \in Seq(Byte) :
              (a \o b) \o e = a \o (b \o e) /\ a \o b \in Seq(Byte)
      OBVIOUS
    <2> QED BY <2>1 DEF Cat
  <1>2. Cat(Cat(s, t), x) = Cat(s, Cat(t, x)) /\ Cat(t, x) \in Seq(Byte)
    BY <1>1
  <1>3. Cat(Cat(s, Cat(t, x)), y) = Cat(s, Cat(Cat(t, x), y))
    BY <1>1, <1>2
  <1> QED BY <1>2, <1>3

LEMMA BehindIs ==
    ASSUME NEW U, NEW us \in Seq(U), NEW n \in 0 .. Len(us)
    PROVE  LET v == SubSeq(us, n + 1, Len(us))
           IN  /\ v \in Seq(U) /\ Len(v) = Len(us) - n
               /\ \A k \in 1 .. Len(us) - n : v[k] = us[n + k]
  <1> DEFINE N == Len(us)
             a == n + 1
             v == SubSeq(us, a, N)
  <1>1. N \in Nat /\ n \in Nat /\ n <= N /\ a \in 1 .. N + 1
    BY LenProperties
  <1>2. v \in Seq(U) /\ Len(v) = N - a + 1
        /\ \A k \in 1 .. N - a + 1 : v[k] = us[a + k - 1]
    <2> HIDE DEF a
    <2> QED BY <1>1
  <1> HIDE DEF v, N
  <1>3. N - a + 1 = N - n /\ \A k \in 1 .. N - n : a + k - 1 = n + k
    BY <1>1
  <1> QED BY <1>2, <1>3 DEF v, N

LEMMA UnitsBehind ==
    ASSUME NEW c \in Codecs, NEW us \in Seq(Units(c)), NEW n \in 0 .. Len(us)
    PROVE  LET behind == SubSeq(us, n + 1, Len(us))
           IN  /\ behind \in Seq(Units(c)) /\ Len(behind) = Len(us) - n
               /\ UnitBytes(c, us) = UnitPrefixes(c, us)[n] \o UnitBytes(c, behind)
  <1> DEFINE N == Len(us)
             v == SubSeq(us, n + 1, N)
             g == UnitPrefixes(c, us)
             h == UnitPrefixes(c, v)
             m == N - n
             T == {k \in 0 .. m : g[n + k] = g[n] \o h[k]}
  <1>1. N \in Nat /\ n \in Nat /\ n \in 0 .. N /\ m \in Nat /\ n + m = N
    BY LenProperties
  <1>2. v \in Seq(Units(c)) /\ Len(v) = m /\ \A k \in 1 .. m : v[k] = us[n + k]
    BY BehindIs
  <1>3. g[0] = <<>> /\ \A k \in 1 .. N :
            g[k] = g[k - 1] \o StartCode(us[k].start_code) \o Body(c, us[k].kind)
    BY UnitPrefixesIs
  <1>4. h[0] = <<>> /\ \A k \in 1 .. Len(v) :
            h[k] = h[k - 1] \o StartCode(v[k].start_code) \o Body(c, v[k].kind)
    BY <1>2, UnitPrefixesIs
  <1>5. g[n] \in Seq(Byte) /\ \A k \in 0 .. Len(v) : h[k] \in Seq(Byte)
    BY <1>1, <1>2, UnitPrefixesIs
  <1>6. \A k \in 1 .. Len(v) : /\ StartCode(v[k].start_code) \in Seq(Byte)
                                /\ Body(c, v[k].kind) \in Seq(Byte)
    BY <1>2, UnitIs
  <1> HIDE DEF g, h, v, N, m
  <1>7. 0 \in T
    <2>1. g[n] \o <<>> = g[n]
      BY <1>5
    <2>2. n + 0 = n /\ 0 \in 0 .. m
      BY <1>1
    <2> QED BY <1>4, <2>1, <2>2
  <1>8. ASSUME NEW k \in 0 .. m - 1, k \in T PROVE k + 1 \in T
    <2> DEFINE j == k + 1
               i == n + j
    <2>1. j \in 1 .. m /\ i \in 1 .. N /\ j - 1 = k /\ j \in 0 .. m
          /\ i - 1 = n + k /\ k \in 0 .. m
      BY <1>1
    <2>2. v[j] = us[i]
      BY <1>2, <2>1
    <2> HIDE DEF j, i
    <2> DEFINE x == StartCode(v[j].start_code)
               y == Body(c, v[j].kind)
    <2>3. x \in Seq(Byte) /\ y \in Seq(Byte) /\ h[k] \in Seq(Byte)
      BY <1>2, <1>5, <1>6, <2>1
    <2>4. g[i] = g[n + k] \o x \o y
      BY <1>3, <2>1, <2>2
    <2>5. h[j] = h[k] \o x \o y
      BY <1>2, <1>4, <2>1
    <2> HIDE DEF x, y
    <2>6. g[n + k] = g[n] \o h[k]
      BY <1>8
    <2> DEFINE a == g[n]
               z == h[k]
    <2>7. a \in Seq(Byte) /\ z \in Seq(Byte)
      BY <1>5, <2>3
    <2>8. g[i] = (a \o z) \o x \o y /\ h[j] = z \o x \o y
      BY <2>4, <2>5, <2>6
    <2> HIDE DEF a, z
    <2>9. (a \o z) \o x \o y = a \o (z \o x \o y)
      <3>1. Cat(Cat(Cat(a, z), x), y) = Cat(a, Cat(Cat(z, x), y))
        BY <2>3, <2>7, CatAssociative
      <3> QED BY ONLY <3>1 DEF Cat
    <2>10. g[i] = g[n] \o h[j]
      BY <2>8, <2>9 DEF a
    <2> QED BY <2>1, <2>10 DEF j, i
  <1> HIDE DEF T
  <1>9. \A k \in 0 .. m : k \in T
    <2>1. Inductive(T, 0, m)
      BY <1>7, <1>8 DEF Inductive
    <2>2. 0 \in Int /\ m \in Int
      BY <1>1
    <2> QED BY <2>1, <2>2, IntervalInduction
  <1>10. g[N] = g[n] \o h[m]
    <2>1. m \in T
      BY <1>1, <1>9
    <2> QED BY <1>1, <2>1 DEF T
  <1> QED BY <1>2, <1>10 DEF v, g, h, m, N, UnitBytes

(* A unit more of them stays whole: the packet is the units up to a place, *)
(* the message, and the units behind it.                                   *)
LEMMA InsertIs ==
    ASSUME NEW c \in Codecs, NEW b \in Backends, NEW us \in Seq(Units(c)),
           HasSlice(us), NEW sei \in Seq(Byte)
    PROVE  \E n \in 0 .. Len(us) :
               /\ Placed(us, b, n)
               /\ Insert(c, b, UnitBytes(c, us), sei) =
                      UnitBytes(c, SubSeq(us, 1, n)) \o sei
                          \o UnitBytes(c, SubSeq(us, n + 1, Len(us)))
  <1>1. PICK n \in 0 .. Len(us) :
               /\ Placed(us, b, n)
               /\ InsertionPoint(c, b, UnitBytes(c, us)) = Off(c, us, n + 1)
    BY InsertionPointIs
  <1> DEFINE d == UnitBytes(c, us)
             x == UnitBytes(c, SubSeq(us, 1, n))
             y == UnitBytes(c, SubSeq(us, n + 1, Len(us)))
             p == Off(c, us, n + 1)
  <1>2. d = x \o y /\ x \in Seq(Byte) /\ y \in Seq(Byte)
    <2>1. SubSeq(us, 1, n) \in Seq(Units(c))
      BY UnitsBefore
    <2>2. SubSeq(us, n + 1, Len(us)) \in Seq(Units(c))
      BY UnitsBehind
    <2>3. x \in Seq(Byte) /\ y \in Seq(Byte)
      BY <2>1, <2>2, UnitBytesIs
    <2>4. x = UnitPrefixes(c, us)[n]
      BY UnitsBefore
    <2>5. d = UnitPrefixes(c, us)[n] \o y
      BY UnitsBehind
    <2> QED BY <2>3, <2>4, <2>5
  <1>3. p = Len(x)
    <2>1. n + 1 - 1 = n
      BY LenProperties
    <2> QED BY <2>1, UnitsBefore DEF Off
  <1>4. Insert(c, b, d, sei) = SubSeq(d, 1, p) \o sei \o SubSeq(d, p + 1, Len(d))
    BY <1>1 DEF Insert
  <1> HIDE DEF d, x, y, p
  <1>5. SubSeq(d, 1, p) = x /\ SubSeq(d, p + 1, Len(d)) = y
    BY <1>2, <1>3
  <1> QED BY <1>1, <1>4, <1>5 DEF d, x, y

LEMMA LeastOf ==
    ASSUME NEW T, T \subseteq Nat, T # {}
    PROVE  Min(T) \in T /\ \A i \in T : Min(T) <= i
  <1>1. PICK m \in T : \A i \in T : m <= i
    BY LeastNat
  <1>2. T \subseteq Int
    OBVIOUS
  <1>3. Min(T) = m
    BY <1>1, <1>2, MinIs
  <1> QED BY <1>1, <1>3

(* QSV's extra data: what is found of a type is the body of a unit of the  *)
(* kind, from behind its start code to its end.                            *)
LEMMA ExtractParamsIs ==
    ASSUME NEW c \in Codecs, NEW us \in Seq(Units(c)),
           ExtractParams(c, UnitBytes(c, us)) # NULL
    PROVE  ExtractParams(c, UnitBytes(c, us)) =
               [k \in DOMAIN ParameterSets(c) |-> Body(c, ParameterSets(c)[k])]
  <1> DEFINE d == UnitBytes(c, us)
             n == Len(us)
             off(i) == Off(c, us, i)
             types == IF c = "h264" THEN <<7, 8>> ELSE <<32, 33, 34>>
             of(t) == {i \in UnitStarts(d) : TypeAt(c, d, i) = t}
             Unit(i) == SubSeq(d, i + StartCodeSize(d, i), UnitEnd(d, i) - 1)
             ps == ParameterSets(c)
  <1>1. d \in Seq(Byte) /\ StartsWith(d, d)
    BY UnitBytesIs, ByteSeq DEF StartsWith
  <1>2. UnitStarts(d) = {off(i) + 1 : i \in 1 .. n}
    BY UnitStartsIs
  <1>3. ExtractParams(c, d) =
            IF \E k \in DOMAIN types : of(types[k]) = {}
              THEN NULL
              ELSE [k \in DOMAIN types |-> Unit(Min(of(types[k])))]
    BY DEF ExtractParams
  <1>4. DOMAIN types = DOMAIN ps
    BY DEF ParameterSets
  <1>5. ASSUME NEW i \in 1 .. n
        PROVE  /\ TypeAt(c, d, off(i) + 1) = NalType(c, Header(c, us[i].kind)[1])
               /\ Unit(off(i) + 1) = Body(c, us[i].kind)
    <2> DEFINE p == off(i)
               m == us[i].start_code
               b == Body(c, us[i].kind)
    <2>1. p \in Nat /\ p + m \in Nat /\ off(i + 1) = p + m + Len(b)
          /\ Holds(d, p + m, b)
      BY <1>1, UnitAt
    <2>2. StartCodeSize(d, p + 1) = m
          /\ TypeAt(c, d, p + 1) = NalType(c, Header(c, us[i].kind)[1])
      BY <1>1, StartOfUnit
    <2>3. UnitEnd(d, p + 1) = off(i + 1) + 1
      BY UnitEndIs
    <2>4. b \in Seq(Byte) /\ m \in {3, 4} /\ Len(b) \in Nat
      BY UnitIs
    <2> DEFINE x == p + 1
               e == off(i + 1) + 1
               q == p + m
    <2>5. Unit(x) = SubSeq(d, x + StartCodeSize(d, x), UnitEnd(d, x) - 1)
      OBVIOUS
    <2>6. StartCodeSize(d, x) = m /\ UnitEnd(d, x) = e
      BY <2>2, <2>3
    <2>7. q \in Nat /\ Holds(d, q, b)
      BY <2>1
    <2>8. x + m = q + 1 /\ e - 1 = q + Len(b)
      <3> HIDE DEF p, m, off, b
      <3> QED BY <2>1, <2>4
    <2> HIDE DEF d, off, m, b, Unit, x, e, q
    <2>9. SubSeq(d, x + m, e - 1) = b
      <3>1. CutsOut(d, q, b)
        BY <1>1, <2>4, <2>7, CutOut
      <3> QED BY <2>8, <3>1 DEF CutsOut
    <2>10. Unit(x) = b
      BY <2>5, <2>6, <2>9
    <2> QED BY <2>2, <2>10 DEF x, b
  <1>6. \A i \in 1 .. n : us[i].kind \in KindsOf(c) /\ off(i) \in Nat
    BY <1>1, UnitIs, UnitAt
  <1>7. ASSUME NEW k \in DOMAIN types, NEW kind \in KindsOf(c),
               NalType(c, Header(c, kind)[1]) = types[k]
        PROVE  kind = ps[k]
    <2>1. CASE c = "h264"
      <3>1. k \in {1, 2}
        BY <2>1
      <3>2. (types[k] = 7 /\ ps[k] = "sps") \/ (types[k] = 8 /\ ps[k] = "pps")
        BY <2>1, <3>1 DEF ParameterSets
      <3> QED BY <1>7, <2>1, <3>2, HeaderIs
    <2>2. CASE c = "h265"
      <3>1. k \in {1, 2, 3}
        BY <2>2
      <3>2. \/ types[k] = 32 /\ ps[k] = "vps"
            \/ types[k] = 33 /\ ps[k] = "sps"
            \/ types[k] = 34 /\ ps[k] = "pps"
        BY <2>2, <3>1 DEF ParameterSets
      <3> QED BY <1>7, <2>2, <3>2, HeaderIs
    <2> QED BY <2>1, <2>2 DEF Codecs
  <1>8. \A t : \A i \in of(t) : /\ i \in UnitStarts(d) /\ TypeAt(c, d, i) = t
    OBVIOUS
  <1> HIDE DEF d, n, off, types, of, Unit, ps
  <1>9. ASSUME NEW k \in DOMAIN types, of(types[k]) # {}
        PROVE  Unit(Min(of(types[k]))) = Body(c, ps[k])
    <2> DEFINE t == types[k]
               T == of(t)
    <2>1. T \subseteq Nat
      <3> SUFFICES ASSUME NEW x \in T PROVE x \in Nat
        OBVIOUS
      <3>1. PICK i \in 1 .. n : x = off(i) + 1
        BY <1>2, <1>8
      <3> QED BY <1>6, <3>1
    <2> HIDE DEF t
    <2>2. T # {}
      BY <1>9 DEF t
    <2>3. Min(T) \in T
      BY <2>1, <2>2, LeastOf
    <2>4. PICK i \in 1 .. n : Min(T) = off(i) + 1
      BY <1>2, <1>8, <2>3
    <2>5. TypeAt(c, d, off(i) + 1) = t
      BY <1>8, <2>3, <2>4
    <2>6. us[i].kind = ps[k]
      BY <1>5, <1>6, <1>7, <2>5 DEF t
    <2>7. Unit(Min(T)) = Body(c, ps[k])
      BY <1>5, <2>4, <2>6
    <2> QED BY <2>7 DEF t
  <1>10. \A k \in DOMAIN types : of(types[k]) # {}
    BY <1>3 DEF d
  <1>11. ExtractParams(c, d) = [k \in DOMAIN types |-> Unit(Min(of(types[k])))]
    BY <1>3, <1>10
  <1>12. ExtractParams(c, d) = [k \in DOMAIN ps |-> Body(c, ps[k])]
    BY <1>4, <1>9, <1>10, <1>11
  <1> QED BY <1>12 DEF d, ps

-----------------------------------------------------------------------------
(* The search for a stamp.                                                 *)

LEMMA SizesAre ==
    /\ PtsDigits \in Nat \ {0} /\ SecondsDigits \in Nat \ {0}
    /\ FractionDigits \in Nat \ {0}
    /\ PayloadSize = Len(Uuid) + PtsDigits + SecondsDigits + FractionDigits
    /\ PayloadSize \in Nat /\ PayloadSize >= 5 /\ PayloadSize <= 254
    /\ Limit \in Nat /\ Limit >= PayloadSize + 11
    /\ Uuid \in Seq(Byte) /\ Len(Uuid) \in Nat /\ Len(Uuid) >= 2
    /\ Uuid[1] = 165 /\ Uuid[2] = 179
  <1>1. PtsDigits \in Nat \ {0} /\ SecondsDigits \in Nat \ {0}
        /\ FractionDigits \in Nat \ {0} /\ PayloadSize < 255
        /\ Limit \in Nat /\ Limit >= PayloadSize + 11
    BY ConstantsAssumption
  <1>2. Uuid \in Seq(Byte) /\ Len(Uuid) \in Nat /\ Len(Uuid) >= 2
        /\ Uuid[1] = 165 /\ Uuid[2] = 179
    BY ConstantsAssumption DEF Byte
  <1>3. PayloadSize = Len(Uuid) + PtsDigits + SecondsDigits + FractionDigits
    BY <1>2 DEF PayloadSize
  <1> QED BY <1>1, <1>2, <1>3

(* The bytes the receiver looks at. *)
LookedAt(e, bytes) ==
    bytes = SubSeq(Unescape(e), 1, Min({Len(Unescape(e)), Limit}))

(* A payload that is where the first UUID is, is read. *)
LEMMA PayloadRead ==
    ASSUME NEW s \in Stamps, NEW e, NEW bytes \in Seq(Byte), NEW p \in Nat,
           LookedAt(e, bytes), Holds(bytes, p, Payload(s)),
           \A i \in 1 .. p : ~(bytes[i] = 165 /\ bytes[i + 1] = 179)
    PROVE  ParseNtpSei(e) = s
  <1> DEFINE w == Payload(s)
             U == Len(Uuid)
             N == Len(bytes)
             S == PayloadSize
             uuids == {i \in 1 .. N - S + 1 : SubSeq(bytes, i, i + U - 1) = Uuid}
             pts == Min(uuids) + U
             seconds == pts + PtsDigits
             fraction == seconds + SecondsDigits
             Number(i, n) == FromBytes(SubSeq(bytes, i, i + n - 1))
  <1>1. ParseNtpSei(e) =
            IF uuids = {}
              THEN NULL
              ELSE [pts      |-> Signed(Number(pts, PtsDigits), PtsDigits),
                    seconds  |-> Number(seconds, SecondsDigits),
                    fraction |-> Number(fraction, FractionDigits)]
    BY DEF ParseNtpSei, LookedAt
  <1>2. U \in Nat /\ U >= 2 /\ U <= S /\ N \in Nat /\ S \in Nat /\ S >= 5
    BY SizesAre, ByteSeq
  <1>3. w \in Seq(Byte) /\ Len(w) = S
    BY PayloadIs
  <1>4. p + S <= N
    BY <1>3 DEF Holds
  <1>5. p + 1 \in uuids
    <2>1. Holds(w, 0, Uuid) /\ Uuid \in Seq(Byte)
      BY PayloadIs, SizesAre
    <2> DEFINE zero == 0
               q == p + zero
    <2>2. zero \in Nat /\ Holds(w, zero, Uuid)
      BY <2>1
    <2> HIDE DEF zero
    <2>3. Holds(bytes, q, Uuid)
      BY <1>3, <2>1, <2>2, HoldsInHeld
    <2>4. q = p
      BY DEF zero
    <2> HIDE DEF q
    <2>5. p + 1 + U - 1 = p + Len(Uuid)
      BY <1>2
    <2> DEFINE i == p + 1
               j == p + 1 + U - 1
    <2>6. i = p + 1 /\ j = p + Len(Uuid) /\ Holds(bytes, p, Uuid)
      BY <2>3, <2>4, <2>5
    <2>7. i \in 1 .. N - S + 1 /\ j = i + U - 1
      <3> HIDE DEF U, N, S
      <3> QED BY <1>2, <1>4
    <2> HIDE DEF i, j
    <2>8. SubSeq(bytes, i, j) = Uuid
      <3>1. CutsOut(bytes, p, Uuid)
        BY <2>1, <2>6, CutOut
      <3> QED BY <2>6, <3>1 DEF CutsOut
    <2>9. i \in uuids
      BY <2>7, <2>8
    <2> QED BY <2>9 DEF i
  <1>6. ASSUME NEW i \in uuids PROVE i \in Int /\ p + 1 <= i
    <2>1. i \in 1 .. N - S + 1 /\ SubSeq(bytes, i, i + U - 1) = Uuid
      OBVIOUS
    <2> DEFINE j == i + U - 1
    <2>2. i \in Nat /\ i >= 1 /\ j \in Nat /\ j <= N /\ i + 1 <= j
      <3> HIDE DEF U, N, S
      <3> QED BY <1>2, <2>1
    <2> DEFINE x == SubSeq(bytes, i, j)
    <2>3. x = Uuid
      BY <2>1
    <2>4. x[1] = bytes[i] /\ x[2] = bytes[i + 1]
      <3> HIDE DEF j
      <3> QED BY <2>2
    <2>5. bytes[i] = 165 /\ bytes[i + 1] = 179
      <3> HIDE DEF x
      <3> QED BY <2>3, <2>4, SizesAre
    <2>6. i \notin 1 .. p
      BY <2>5
    <2> QED BY <2>2, <2>6
  <1> HIDE DEF uuids
  <1>7. Min(uuids) = p + 1 /\ uuids # {}
    <2> DEFINE m == p + 1
    <2>1. m \in uuids /\ uuids \subseteq Int /\ \A i \in uuids : m <= i
      BY <1>5, <1>6
    <2> HIDE DEF m
    <2>2. Min(uuids) = m
      BY <2>1, MinIs
    <2> QED BY <2>1, <2>2 DEF m
  <1>8. ASSUME NEW q \in Nat, NEW x \in Seq(Byte), Holds(w, q, x),
               NEW i, NEW n, i = p + q + 1 /\ n = Len(x)
        PROVE  Number(i, n) = FromBytes(x)
    <2> DEFINE r == p + q
               j == i + n - 1
    <2>1. Len(x) \in Nat /\ r \in Nat /\ Holds(bytes, r, x)
      BY <1>3, <1>8, ByteSeq, HoldsInHeld
    <2>2. i = r + 1 /\ j = r + Len(x)
      BY <1>8, <2>1
    <2> HIDE DEF r, j
    <2>3. CutsOut(bytes, r, x)
      BY <2>1, CutOut
    <2>4. SubSeq(bytes, i, j) = x
      BY <2>2, <2>3 DEF CutsOut
    <2> QED BY <2>4, Zenon DEF j
  <1> HIDE DEF Number, w
  <1>9. /\ PtsDigits \in Nat /\ SecondsDigits \in Nat /\ FractionDigits \in Nat
        /\ s.pts \in -(Pow[PtsDigits] \div 2) .. (Pow[PtsDigits] \div 2) - 1
        /\ s.seconds \in 0 .. Pow[SecondsDigits] - 1
        /\ s.fraction \in 0 .. Pow[FractionDigits] - 1
        /\ s = [pts |-> s.pts, seconds |-> s.seconds, fraction |-> s.fraction]
    BY SizesAre DEF Stamps, PtsValues
  <1>10. pts = p + U + 1 /\ seconds = p + U + 1 + PtsDigits
         /\ fraction = p + U + 1 + PtsDigits + SecondsDigits
    <2>1. pts = p + U + 1
      BY <1>2, <1>7
    <2> QED BY <2>1
  <1> HIDE DEF pts, seconds, fraction
  <1>11. Number(pts, PtsDigits) = FromBytes(ToBytes(s.pts, PtsDigits))
    <2> DEFINE x == ToBytes(s.pts, PtsDigits)
               q == U
    <2>1. x \in Seq(Byte) /\ Len(x) = PtsDigits
      <3>1. s.pts \in Int
        BY <1>9, PowIs
      <3> QED BY <1>9, <3>1, ToBytesIs
    <2>2. Holds(w, q, x)
      BY PayloadIs DEF w
    <2>3. pts = p + q + 1 /\ q \in Nat
      BY <1>2, <1>10
    <2> HIDE DEF x, q
    <2>4. Number(pts, PtsDigits) = FromBytes(x)
      BY <1>8, <2>1, <2>2, <2>3
    <2> QED BY <2>4 DEF x
  <1>12. Number(seconds, SecondsDigits) = FromBytes(ToBytes(s.seconds, SecondsDigits))
    <2> DEFINE x == ToBytes(s.seconds, SecondsDigits)
               q == U + PtsDigits
    <2>1. x \in Seq(Byte) /\ Len(x) = SecondsDigits
      <3>1. s.seconds \in Int
        BY <1>9, PowIs
      <3> QED BY <1>9, <3>1, ToBytesIs
    <2>2. Holds(w, q, x)
      BY PayloadIs DEF w
    <2>3. seconds = p + q + 1 /\ q \in Nat
      BY <1>2, <1>10, SizesAre
    <2> HIDE DEF x, q
    <2>4. Number(seconds, SecondsDigits) = FromBytes(x)
      BY <1>8, <2>1, <2>2, <2>3
    <2> QED BY <2>4 DEF x
  <1>13. Number(fraction, FractionDigits) = FromBytes(ToBytes(s.fraction, FractionDigits))
    <2> DEFINE x == ToBytes(s.fraction, FractionDigits)
               q == U + PtsDigits + SecondsDigits
    <2>1. x \in Seq(Byte) /\ Len(x) = FractionDigits
      <3>1. s.fraction \in Int
        BY <1>9, PowIs
      <3> QED BY <1>9, <3>1, ToBytesIs
    <2>2. Holds(w, q, x)
      BY PayloadIs DEF w
    <2>3. fraction = p + q + 1 /\ q \in Nat
      BY <1>2, <1>10, SizesAre
    <2> HIDE DEF x, q
    <2>4. Number(fraction, FractionDigits) = FromBytes(x)
      BY <1>8, <2>1, <2>2, <2>3
    <2> QED BY <2>4 DEF x
  <1>14. Signed(Number(pts, PtsDigits), PtsDigits) = s.pts
    BY <1>9, <1>11, SignedFromToBytes
  <1>15. Number(seconds, SecondsDigits) = s.seconds
         /\ Number(fraction, FractionDigits) = s.fraction
    BY <1>9, <1>12, <1>13, FromToBytes
  <1> QED BY <1>1, <1>7, <1>9, <1>14, <1>15

LEMMA LookedAtIs ==
    ASSUME NEW e \in Seq(Byte)
    PROVE  \E bytes \in Seq(Byte) :
               /\ LookedAt(e, bytes)
               /\ StartsWith(Unescape(e), bytes)
               /\ Len(bytes) = Len(Unescape(e)) \/ Len(bytes) = Limit
               /\ Len(bytes) \in Nat /\ Len(bytes) <= Len(Unescape(e))
  <1> DEFINE all == Unescape(e)
             n == Len(all)
             k == Min({n, Limit})
             bytes == SubSeq(all, 1, k)
  <1>1. all \in Seq(Byte)
    <2>1. Len(e) \in 0 .. Len(e)
      BY ByteSeq
    <2> QED BY <2>1, UnescapesIs DEF Unescape
  <1>2. n \in Nat /\ Limit \in Nat
    BY <1>1, ByteSeq, SizesAre
  <1>3. LookedAt(e, bytes)
    BY DEF LookedAt
  <1> HIDE DEF all, n
  <1>4. {n, Limit} \subseteq Nat /\ {n, Limit} # {}
    BY <1>2
  <1>5. k \in {n, Limit} /\ k <= n
    BY <1>4, LeastOf
  <1> HIDE DEF k
  <1>6. k \in Nat /\ k <= n
    BY <1>2, <1>5
  <1>7. bytes \in Seq(Byte) /\ Len(bytes) = k /\ \A i \in 1 .. k : bytes[i] = all[i]
    BY <1>1, <1>6 DEF n
  <1> HIDE DEF bytes
  <1>8. StartsWith(all, bytes)
    BY <1>6, <1>7 DEF StartsWith, n
  <1> QED BY <1>3, <1>5, <1>6, <1>7, <1>8 DEF all, n

(* A stamp is read that stands escaped behind a few bytes without a UUID   *)
(* or anything escaped.                                                    *)
LEMMA StampRead ==
    ASSUME NEW s \in Stamps, NEW e \in Seq(Byte), NEW p \in Nat, p <= 11,
           Holds(e, p, Escape(Payload(s))),
           p >= 1 => e[p] # 0,
           \A i \in 1 .. p : ~Dropped(e, i),
           \A i \in 1 .. p - 1 : ~(e[i] = 165 /\ e[i + 1] = 179)
    PROVE  ParseNtpSei(e) = s
  <1> DEFINE w == Payload(s)
             E == Escape(w)
             S == PayloadSize
             u == Unescapes(e)
             q == p + Len(E)
             all == Unescape(e)
             x == u[q]
             y == u[p]
  <1>1. w \in Seq(Byte) /\ Len(w) = S /\ Holds(w, 0, Uuid)
    BY PayloadIs
  <1>2. E \in Seq(Byte) /\ Len(E) \in Nat
    BY <1>1, EscapeIs, ByteSeq
  <1>3. Len(e) \in Nat /\ q \in 0 .. Len(e) /\ p \in 0 .. Len(e)
    BY <1>2, ByteSeq DEF Holds
  <1>4. x = y \o w
    BY <1>1, UnescapeEscape
  <1>5. y = SubSeq(e, 1, p)
    BY <1>3, UnescapesWhole
  <1>6. StartsWith(all, x)
    BY <1>3, UnescapesGrow
  <1>7. w[1] = 165
    <2>1. 1 \in 1 .. Len(Uuid) /\ Uuid[1] = 165
      BY SizesAre
    <2> HIDE DEF w
    <2>2. w[0 + 1] = Uuid[1]
      BY <1>1, <2>1 DEF Holds
    <2> QED BY <2>1, <2>2
  <1>8. S \in Nat /\ S >= 5 /\ Limit \in Nat /\ Limit >= S + 11
    BY SizesAre
  <1>9. PICK bytes \in Seq(Byte) :
            /\ LookedAt(e, bytes)
            /\ StartsWith(all, bytes)
            /\ Len(bytes) = Len(all) \/ Len(bytes) = Limit
            /\ Len(bytes) \in Nat /\ Len(bytes) <= Len(all)
    BY LookedAtIs
  <1> HIDE DEF E, u, q, all, x, w, S
  <1>10. y \in Seq(Byte) /\ Len(y) = p /\ \A i \in 1 .. p : y[i] = e[i]
    BY <1>3, <1>5
  <1> HIDE DEF y
  <1>11. x \in Seq(Byte) /\ Len(x) = p + S
         /\ (\A i \in 1 .. p : x[i] = y[i]) /\ (\A i \in 1 .. S : x[p + i] = w[i])
    <2>1. /\ y \o w \in Seq(Byte) /\ Len(y \o w) = Len(y) + Len(w)
          /\ \A i \in 1 .. Len(y) : (y \o w)[i] = y[i]
          /\ \A i \in 1 .. Len(w) : (y \o w)[Len(y) + i] = w[i]
      <3> DEFINE z == y \o w
      <3>1. /\ z \in Seq(Byte) /\ Len(z) = Len(y) + Len(w)
            /\ StartsWith(z, y) /\ Holds(z, Len(y), w)
        BY <1>1, <1>10, ConcatIs
      <3> HIDE DEF z
      <3>2. \A i \in 1 .. Len(y) : z[i] = y[i]
        BY <3>1 DEF StartsWith
      <3>3. \A i \in 1 .. Len(w) : z[Len(y) + i] = w[i]
        BY <3>1 DEF Holds
      <3> QED BY <3>1, <3>2, <3>3 DEF z
    <2> QED BY <1>1, <1>4, <1>10, <2>1
  <1>12. Len(bytes) >= p + S
    <2>1. (Len(all) >= p + S /\ Len(all) \in Int) \/ Len(bytes) = Limit
      BY <1>6, <1>9, <1>11 DEF StartsWith
    <2> QED BY <1>8, <1>9, <2>1
  <1>13. \A i \in 1 .. p + S : bytes[i] = x[i]
    <2>1. \A i \in 1 .. p + S : i \in 1 .. Len(bytes) /\ i \in 1 .. Len(x)
      BY <1>8, <1>9, <1>11, <1>12
    <2> QED BY <1>6, <1>9, <2>1 DEF StartsWith
  <1>14. Holds(bytes, p, w)
    <2>1. ASSUME NEW i \in 1 .. Len(w) PROVE bytes[p + i] = w[i]
      <3>1. p + i \in 1 .. p + S /\ i \in 1 .. S
        BY <1>1, <1>8, <2>1
      <3> QED BY <1>11, <1>13, <3>1
    <2> QED BY <1>1, <1>12, <2>1 DEF Holds
  <1>15. ASSUME NEW i \in 1 .. p PROVE ~(bytes[i] = 165 /\ bytes[i + 1] = 179)
    <2>1. CASE i = p
      <3>1. bytes[p + 1] = w[1]
        <4>1. 1 \in 1 .. S /\ p + 1 \in 1 .. p + S
          BY <1>8
        <4> QED BY <1>11, <1>13, <4>1
      <3> QED BY <1>7, <2>1, <3>1
    <2>2. CASE i # p
      <3> DEFINE j == i + 1
      <3>1. i \in 1 .. p - 1 /\ j \in 1 .. p /\ i \in 1 .. p + S /\ j \in 1 .. p + S
        BY <1>8, <2>2
      <3>2. bytes[i] = e[i] /\ bytes[j] = e[j]
        <4> HIDE DEF j
        <4> QED BY <1>10, <1>11, <1>13, <3>1
      <3> QED BY <3>1, <3>2
    <2> QED BY <2>1, <2>2
  <1> QED BY <1>9, <1>14, <1>15, PayloadRead DEF w

(* What is shorter than a payload is not read. *)
LEMMA ShortNotRead ==
    ASSUME NEW e \in Seq(Byte), Len(Unescape(e)) < PayloadSize
    PROVE  ParseNtpSei(e) = NULL
  <1>1. PICK bytes \in Seq(Byte) :
            /\ LookedAt(e, bytes)
            /\ Len(bytes) \in Nat /\ Len(bytes) <= Len(Unescape(e))
    BY LookedAtIs
  <1> DEFINE N == Len(bytes)
             S == PayloadSize
             uuids == {i \in 1 .. N - S + 1 :
                           SubSeq(bytes, i, i + Len(Uuid) - 1) = Uuid}
  <1>2. uuids = {} => ParseNtpSei(e) = NULL
    BY <1>1 DEF ParseNtpSei, LookedAt
  <1>3. Len(Unescape(e)) \in Nat /\ S \in Nat
    <2>1. Len(e) \in 0 .. Len(e)
      BY ByteSeq
    <2>2. Unescape(e) \in Seq(Byte)
      BY <2>1, UnescapesIs DEF Unescape
    <2> QED BY <2>2, ByteSeq, SizesAre
  <1>4. N \in Nat /\ N < S
    BY <1>1, <1>3
  <1>5. uuids = {}
    <2> HIDE DEF N, S
    <2> QED BY <1>3, <1>4
  <1> QED BY <1>2, <1>5

(* In side data, where nothing is escaped any more, a payload is read as   *)
(* it was written or, if bytes of it are taken for escapes, not at all.    *)
LEMMA SideDataRead ==
    ASSUME NEW s \in Stamps
    PROVE  ParseNtpSei(Payload(s)) \in {NULL, s}
  <1> DEFINE w == Payload(s)
             S == PayloadSize
             all == Unescape(w)
  <1>1. w \in Seq(Byte) /\ Len(w) = S /\ S \in Nat
    BY PayloadIs, SizesAre
  <1>2. /\ all \in Seq(Byte) /\ Len(all) <= S
        /\ Len(all) = S => all = SubSeq(w, 1, S)
    <2>1. S \in 0 .. Len(w)
      BY <1>1
    <2>2. all = Unescapes(w)[S]
      BY <1>1 DEF Unescape
    <2> HIDE DEF w, S, all
    <2> QED BY <1>1, <2>1, <2>2, UnescapesShort, UnescapesIs
  <1>3. Len(all) \in Nat
    BY <1>2, ByteSeq
  <1>4. CASE Len(all) < S
    BY <1>1, <1>4, ShortNotRead
  <1>5. CASE Len(all) = S
    <2>1. PICK bytes \in Seq(Byte) :
              /\ LookedAt(w, bytes)
              /\ StartsWith(all, bytes)
              /\ Len(bytes) = Len(all) \/ Len(bytes) = Limit
              /\ Len(bytes) \in Nat /\ Len(bytes) <= Len(all)
      BY <1>1, LookedAtIs
    <2>2. Limit >= S /\ Limit \in Nat
      BY SizesAre
    <2> HIDE DEF w, S, all
    <2>3. Len(bytes) = S
      BY <1>1, <1>5, <2>1, <2>2
    <2>4. \A i \in 1 .. S : all[i] = w[i]
      BY <1>1, <1>2, <1>5
    <2>5. \A i \in 1 .. S : bytes[i] = w[i]
      BY <2>1, <2>3, <2>4 DEF StartsWith
    <2> DEFINE zero == 0
    <2>6. Holds(bytes, zero, w)
      BY <1>1, <2>3, <2>5 DEF Holds
    <2>7. zero \in Nat /\ \A i \in 1 .. zero : ~(bytes[i] = 165 /\ bytes[i + 1] = 179)
      OBVIOUS
    <2> HIDE DEF zero
    <2>8. ParseNtpSei(w) = s
      BY <2>1, <2>6, <2>7, PayloadRead DEF w
    <2> QED BY <2>8 DEF w
  <1> QED BY <1>1, <1>2, <1>3, <1>4, <1>5

(* A message of type 5 that fits, in the unit with a start code at i. *)
NalAt(d, i) == i + StartCodeSize(d, i)

MessageAt(d, i) == NalAt(d, i) + SeiHeaderSize(d[NalAt(d, i)])

IsMessage(d, i) ==
    /\ i \in StartCodes(d)
    /\ NalAt(d, i) + 1 <= Len(d)
    /\ SeiHeaderSize(d[NalAt(d, i)]) > 0
    /\ MessageAt(d, i) + 1 <= Len(d)
    /\ d[MessageAt(d, i)] = 5
    /\ MessageAt(d, i) + 1 + d[MessageAt(d, i) + 1] <= Len(d)

LEMMA ExtractSeiIs ==
    ASSUME NEW d \in Seq(Byte), NEW first, IsMessage(d, first),
           \A i \in 1 .. Len(d) : IsMessage(d, i) => first <= i
    PROVE  ExtractSei(d) = SubSeq(d, MessageAt(d, first) + 2, Len(d))
  <1> DEFINE at(i) == i + StartCodeSize(d, i)
             message(i) == at(i) + SeiHeaderSize(d[at(i)])
             seis == {i \in StartCodes(d) :
                          /\ at(i) + 1 <= Len(d)
                          /\ SeiHeaderSize(d[at(i)]) > 0
                          /\ message(i) + 1 <= Len(d)
                          /\ d[message(i)] = 5
                          /\ message(i) + 1 + d[message(i) + 1] <= Len(d)}
  <1>1. ExtractSei(d) =
            IF seis = {} THEN <<>> ELSE SubSeq(d, message(Min(seis)) + 2, Len(d))
    BY DEF ExtractSei
  <1>2. \A i : i \in seis <=> IsMessage(d, i)
    BY DEF IsMessage, MessageAt, NalAt
  <1>3. message(first) = MessageAt(d, first)
    BY DEF MessageAt, NalAt
  <1>4. \A i \in seis : i \in 1 .. Len(d)
    BY ByteSeq DEF StartCodes
  <1> HIDE DEF seis, message
  <1>5. first \in seis /\ seis \subseteq Int /\ \A i \in seis : first <= i
    BY <1>2, <1>4
  <1>6. Min(seis) = first
    BY <1>5, MinIs
  <1> QED BY <1>1, <1>3, <1>5, <1>6

(* What is behind the first r bytes. *)
LEMMA HoldsBehind ==
    ASSUME NEW d \in Seq(Byte), NEW r \in Nat, NEW s \in Seq(Byte),
           NEW q \in Nat, NEW m, m = r + q, r <= Len(d), Holds(d, m, s)
    PROVE  Holds(SubSeq(d, r + 1, Len(d)), q, s)
  <1> DEFINE e == SubSeq(d, r + 1, Len(d))
             n == Len(d)
             l == Len(s)
  <1>1. n \in Nat /\ l \in Nat
    BY ByteSeq
  <1>2. e \in Seq(Byte) /\ Len(e) = n - r /\ \A i \in 1 .. n - r : e[i] = d[r + i]
    <2>1. r \in 0 .. Len(d)
      BY <1>1
    <2> QED BY <2>1, BehindIs
  <1> HIDE DEF e, n
  <1>3. r + q + l <= n
    BY <1>1 DEF Holds, n
  <1>4. ASSUME NEW i \in 1 .. l PROVE e[q + i] = s[i]
    <2>1. q + i \in 1 .. n - r /\ r + (q + i) = r + q + i
      BY <1>1, <1>3
    <2>2. e[q + i] = d[r + (q + i)]
      BY <1>2, <2>1
    <2> DEFINE k == r + q + i
    <2>3. k = m + i
      OBVIOUS
    <2>4. d[m + i] = s[i]
      BY DEF Holds
    <2> HIDE DEF l
    <2> QED BY <2>1, <2>2, <2>3, <2>4
  <1> QED BY <1>1, <1>2, <1>3, <1>4 DEF Holds, e, n

(* What is read in a unit of the encoder: only another's user data is a    *)
(* message.                                                                *)
LEMMA MessageOfUnit ==
    ASSUME NEW c \in Codecs, NEW v \in Seq(Units(c)), NEW d \in Seq(Byte),
           StartsWith(d, UnitBytes(c, v)), NEW k \in 1 .. Len(v),
           NEW i \in Off(c, v, k) + 1 .. Off(c, v, k + 1), IsMessage(d, i)
    PROVE  v[k].kind = "sei"
  <1> DEFINE o == Off(c, v, k)
             m == v[k].start_code
             kind == v[k].kind
             b == Body(c, kind)
             h == Header(c, kind)
             q == o + m
             a == q + 1
             size == StartCodeSize(d, i)
  <1>1. m \in {3, 4} /\ kind \in KindsOf(c) /\ b \in Seq(Byte)
        /\ Len(b) \in Nat /\ Len(b) >= 5
    BY UnitIs
  <1>2. o \in Nat /\ q \in Nat /\ Holds(d, q, b)
    BY UnitAt
  <1>3. Holds(b, 0, h) /\ b[1] = h[1]
    BY <1>1, BodyIs
  <1>4. size = IF i = o + 1 THEN m ELSE IF i = o + 2 /\ m = 4 THEN 3 ELSE 0
    BY StartCodesAt
  <1>5. size > 0 /\ SeiHeaderSize(d[NalAt(d, i)]) > 0 /\ d[MessageAt(d, i)] = 5
    BY DEF IsMessage, StartCodes
  <1>6. NalAt(d, i) = i + size
    BY DEF NalAt
  <1>7. MessageAt(d, i) = NalAt(d, i) + SeiHeaderSize(d[NalAt(d, i)])
    BY DEF MessageAt
  <1>8. /\ h \in Seq(Byte) /\ Len(h) \in {1, 2}
        /\ kind # "sei" => \/ SeiHeaderSize(h[1]) = 0
                           \/ /\ SeiHeaderSize(h[1]) = 1
                              /\ Len(h) = 2 /\ h[2] = 1
    BY <1>1, HeaderIs
  <1> HIDE DEF o, m, b, h, size, kind
  <1>9. NalAt(d, i) = a
    BY <1>1, <1>2, <1>4, <1>5, <1>6
  <1>10. d[a] = h[1]
    <2>1. 1 \in 1 .. Len(b)
      BY <1>1
    <2> HIDE DEF q
    <2>2. d[q + 1] = b[1]
      BY <1>2, <2>1 DEF Holds
    <2> QED BY <1>3, <2>2
  <1> SUFFICES ASSUME kind # "sei" PROVE FALSE
    BY DEF kind
  <1>11. SeiHeaderSize(h[1]) = 1 /\ Len(h) = 2 /\ h[2] = 1
    <2>1. SeiHeaderSize(h[1]) # 0
      BY <1>5, <1>9, <1>10
    <2> QED BY <1>8, <2>1
  <1>12. MessageAt(d, i) = a + 1
    BY <1>7, <1>9, <1>10, <1>11
  <1>13. d[a + 1] = b[2]
    <2>1. 2 \in 1 .. Len(b) /\ a + 1 = q + 2
      BY <1>1, <1>2
    <2> HIDE DEF q, a
    <2>2. d[q + 2] = b[2]
      BY <1>2, <2>1 DEF Holds
    <2> QED BY <2>1, <2>2
  <1>14. b[2] = h[2]
    <2>1. 2 \in 1 .. Len(h)
      BY <1>11
    <2>2. b[0 + 2] = h[2]
      BY <1>3, <2>1 DEF Holds
    <2> QED BY <2>2
  <1> QED BY <1>5, <1>11, <1>12, <1>13, <1>14

(* Of the SEI NAL unit all is read. *)
LEMMA OwnMessage ==
    ASSUME NEW c \in Codecs, NEW w \in Seq(Byte), Len(w) \in 1 .. 254,
           NEW d \in Seq(Byte), NEW o \in Nat, Holds(d, o, SeiNal(c, w))
    PROVE  /\ IsMessage(d, o + 1)
           /\ MessageAt(d, o + 1) = o + 5 + HeaderSize(c)
           /\ Holds(d, o + 6 + HeaderSize(c), Escape(w))
  <1> DEFINE t == SeiNal(c, w)
             h == HeaderSize(c)
             H == SeiHeader(c)
             S == StartCode(4)
             E == Escape(w)
             l == Len(E)
             n == Len(d)
             i == o + 1
  <1>1. /\ t \in Seq(Byte) /\ Len(t) = h + 7 + l
        /\ Holds(t, 0, S) /\ Holds(t, 4, H)
        /\ t[5 + h] = 5 /\ t[6 + h] = Len(w)
        /\ Holds(t, 6 + h, E)
    BY SeiNalIs
  <1>2. /\ H \in Seq(Byte) /\ Len(H) = h /\ h \in {1, 2}
        /\ SeiHeaderSize(H[1]) = h
    BY SeiHeaderIs DEF HeaderSize
  <1>3. S \in Seq(Byte) /\ Len(S) = 4 /\ S[4] = 1
        /\ \A j \in 1 .. 3 : S[j] = 0
    <2>1. 4 - 1 = 3
      OBVIOUS
    <2> QED BY <2>1, StartCodeIs
  <1>4. E \in Seq(Byte) /\ l \in Nat /\ l >= Len(w)
    BY EscapeIs, ByteSeq
  <1>5. n \in Nat /\ Len(w) \in Nat
    BY ByteSeq
  <1>6. o + Len(t) <= n /\ \A j \in 1 .. Len(t) : d[o + j] = t[j]
    BY DEF Holds
  <1>7. t[1] = 0 /\ t[2] = 0 /\ t[3] = 0 /\ t[4] = 1 /\ t[5] = H[1]
    <2>1. \A j \in 1 .. 4 : t[0 + j] = S[j]
      BY <1>1, <1>3 DEF Holds
    <2>2. \A j \in 1 .. Len(H) : t[4 + j] = H[j]
      BY <1>1 DEF Holds
    <2> HIDE DEF t, S, H
    <2>3. t[1] = S[1] /\ t[2] = S[2] /\ t[3] = S[3] /\ t[4] = S[4]
      BY <2>1
    <2>4. 1 \in 1 .. Len(H)
      BY <1>2
    <2>5. t[4 + 1] = H[1]
      BY <2>2, <2>4
    <2> QED BY <1>3, <2>3, <2>5
  <1>8. o + 6 + h \in Nat /\ 6 + h \in Nat
    BY <1>2
  <1>9. Holds(d, o + 6 + h, E)
    <2> DEFINE q == 6 + h
    <2>1. q \in Nat /\ Holds(t, q, E)
      BY <1>1, <1>8
    <2> HIDE DEF q, t, E
    <2>2. Holds(d, o, t)
      BY DEF t
    <2>3. Holds(d, o + q, E)
      BY <1>1, <1>4, <2>1, <2>2, HoldsInHeld
    <2>4. o + q = o + 6 + h
      <3> HIDE DEF h, H
      <3> QED BY <1>2 DEF q
    <2> QED BY <2>3, <2>4
  <1> HIDE DEF t, h, H, S, E, l, n
  <1>10. /\ d[o + 1] = 0 /\ d[o + 2] = 0 /\ d[o + 3] = 0 /\ d[o + 4] = 1
         /\ d[o + 5] = H[1] /\ d[o + 5 + h] = 5 /\ d[o + 6 + h] = Len(w)
    <2>1. \A j \in {1, 2, 3, 4, 5, 5 + h, 6 + h} : j \in 1 .. Len(t)
      BY <1>1, <1>2, <1>4
    <2>2. o + 5 + h = o + (5 + h) /\ o + 6 + h = o + (6 + h)
      BY <1>2
    <2>3. d[o + (5 + h)] = t[5 + h] /\ d[o + (6 + h)] = t[6 + h]
      BY <1>6, <2>1
    <2>4. d[o + 1] = t[1] /\ d[o + 2] = t[2] /\ d[o + 3] = t[3]
          /\ d[o + 4] = t[4] /\ d[o + 5] = t[5]
      BY <1>6, <2>1
    <2> QED BY <1>1, <1>7, <2>2, <2>3, <2>4
  <1>11. o + h + 7 + l <= n
    BY <1>1, <1>2, <1>4, <1>6
  <1>12. StartCodeSize(d, i) = 4
    <2>1. i + 2 <= n /\ i + 3 <= n /\ i + 1 = o + 2 /\ i + 2 = o + 3 /\ i + 3 = o + 4
      BY <1>2, <1>4, <1>5, <1>11
    <2>2. d[i] = 0 /\ d[i + 1] = 0 /\ d[i + 2] = 0 /\ d[i + 3] = 1
      BY <1>10, <2>1
    <2> HIDE DEF i
    <2> QED BY <1>5, <2>1, <2>2 DEF StartCodeSize, n
  <1>13. NalAt(d, i) = o + 5
    BY <1>12 DEF NalAt
  <1>14. MessageAt(d, i) = o + 5 + h
    BY <1>2, <1>10, <1>13 DEF MessageAt
  <1>15. i \in StartCodes(d)
    <2>1. i \in 1 .. n
      BY <1>2, <1>4, <1>5, <1>11
    <2> QED BY <1>12, <2>1, ByteSeq DEF StartCodes, n
  <1>16. /\ o + 5 + 1 <= n /\ o + 5 + h + 1 <= n
         /\ o + 5 + h + 1 = o + 6 + h
         /\ o + 5 + h + 1 + Len(w) <= n
    BY <1>2, <1>4, <1>5, <1>11
  <1>17. IsMessage(d, i)
    <2>1. SeiHeaderSize(d[NalAt(d, i)]) > 0
      BY <1>2, <1>10, <1>13
    <2>2. NalAt(d, i) + 1 <= Len(d)
      BY <1>13, <1>16 DEF n
    <2> HIDE DEF i
    <2>3. MessageAt(d, i) + 1 <= Len(d) /\ d[MessageAt(d, i)] = 5
      BY <1>10, <1>14, <1>16 DEF n
    <2>4. d[MessageAt(d, i) + 1] = Len(w)
      BY <1>10, <1>14, <1>16
    <2>5. MessageAt(d, i) + 1 + d[MessageAt(d, i) + 1] <= Len(d)
      BY <1>14, <1>16, <2>4 DEF n
    <2> QED BY <1>15, <2>1, <2>2, <2>3, <2>5 DEF IsMessage
  <1> QED BY <1>9, <1>14, <1>17 DEF h, E

(* The bytes before the escaped payload of a SEI NAL unit that follows the *)
(* rest of another's user data: no UUID begins in them, and none is a 3.   *)
BehindOther(e, p) ==
    /\ p \in {10, 11}
    /\ e[1] = 165 /\ e[2] = 200 /\ e[3] = 128
    /\ e[4] = 0 /\ e[5] = 0 /\ e[6] = 0 /\ e[7] = 1
    /\ e[8] \in {6, 78} /\ e[9] \in {5, 1}
    /\ p = 11 => e[10] = 5
    /\ \E size \in Nat : size >= 5 /\ e[p] = size

LEMMA NoneDropped ==
    ASSUME NEW e, NEW p, BehindOther(e, p)
    PROVE  /\ e[p] # 0
           /\ \A i \in 1 .. p : ~Dropped(e, i)
           /\ \A i \in 1 .. p - 1 : ~(e[i] = 165 /\ e[i + 1] = 179)
  <1> USE DEF BehindOther
  <1>1. e[1] # 3 /\ e[p] # 3 /\ e[p] # 0 /\ e[1 + 1] # 179
    OBVIOUS
  <1>2. \A i \in {2, 3, 4, 5, 6, 7, 8, 9} : e[i] # 3 /\ e[i] # 165
    OBVIOUS
  <1>3. p = 11 => e[10] # 3 /\ e[10] # 165
    OBVIOUS
  <1>4. \A i \in 2 .. p - 1 : \/ i \in {2, 3, 4, 5, 6, 7, 8, 9}
                              \/ p = 11 /\ i = 10
    OBVIOUS
  <1>5. \A i \in 2 .. p - 1 : e[i] # 3 /\ e[i] # 165
    BY <1>2, <1>3, <1>4
  <1>6. \A i \in 1 .. p : i = 1 \/ i = p \/ i \in 2 .. p - 1
    OBVIOUS
  <1>7. \A i \in 1 .. p : ~Dropped(e, i)
    BY <1>1, <1>5, <1>6 DEF Dropped
  <1>8. \A i \in 1 .. p - 1 : i = 1 \/ i \in 2 .. p - 1
    OBVIOUS
  <1>9. \A i \in 1 .. p - 1 : ~(e[i] = 165 /\ e[i + 1] = 179)
    BY <1>1, <1>5, <1>8
  <1> QED BY <1>1, <1>7, <1>9

(* The rest of another's user data, and the SEI NAL unit behind it. *)
LEMMA ReadBehindOther ==
    ASSUME NEW c \in Codecs, NEW s \in Stamps, NEW e \in Seq(Byte),
           Holds(e, 0, <<165, 200, 128>>),
           Holds(e, 3, SeiNal(c, Payload(s)))
    PROVE  ParseNtpSei(e) = s
  <1> DEFINE w == Payload(s)
             t == SeiNal(c, w)
             h == HeaderSize(c)
             H == SeiHeader(c)
             E == Escape(w)
  <1>1. w \in Seq(Byte) /\ Len(w) \in 1 .. 254 /\ Len(w) >= 5
    BY PayloadIs, SizesAre
  <1>2. /\ t \in Seq(Byte) /\ Len(t) = h + 7 + Len(E)
        /\ Holds(t, 0, StartCode(4)) /\ Holds(t, 4, H)
        /\ t[5 + h] = 5 /\ t[6 + h] = Len(w)
        /\ Holds(t, 6 + h, E)
    BY <1>1, SeiNalIs
  <1>3. H \in Seq(Byte) /\ Len(H) = h /\ h \in {1, 2}
    BY SeiHeaderIs DEF HeaderSize
  <1>4. E \in Seq(Byte) /\ Len(E) \in Nat
    BY <1>1, EscapeIs, ByteSeq
  <1>5. CASE c = "h264"
    <2>1. h = 1 /\ H[1] = 6
      BY <1>5 DEF SeiHeader, HeaderSize
    <2>2. t[4] = 1 /\ t[5] = 6 /\ t[6] = 5 /\ t[7] = Len(w) /\ Holds(t, 7, E)
      <3>1. 1 \in 1 .. Len(H)
        BY <1>3
      <3>2. t[4 + 1] = H[1]
        BY <1>2, <3>1 DEF Holds
      <3>3. StartCode(4)[4] = 1 /\ 4 \in 1 .. Len(StartCode(4))
        BY StartCodeIs
      <3>4. t[0 + 4] = StartCode(4)[4]
        BY <1>2, <3>3 DEF Holds
      <3> HIDE DEF t, H
      <3> QED BY <1>2, <2>1, <3>2, <3>3, <3>4
    <2>3. Len(t) = 8 + Len(E)
      <3> HIDE DEF t, h, H, E
      <3> QED BY <1>2, <1>4, <2>1
    <2> HIDE DEF t, E, h
    <2>4. \A i \in 1 .. 8 + Len(E) : e[3 + i] = t[i]
      BY <2>3 DEF Holds, t
    <2>5. e[7] = 1 /\ e[8] = 6 /\ e[9] = 5 /\ e[10] = Len(w)
      <3>1. \A i \in {4, 5, 6, 7} : i \in 1 .. 8 + Len(E)
        BY <1>4
      <3>2. e[3 + 4] = t[4] /\ e[3 + 5] = t[5] /\ e[3 + 6] = t[6] /\ e[3 + 7] = t[7]
        BY <2>4, <3>1
      <3> QED BY <2>2, <3>2
    <2>6. e[1] = 165 /\ e[2] = 200 /\ e[3] = 128
      <3>1. e[0 + 1] = 165 /\ e[0 + 2] = 200 /\ e[0 + 3] = 128
        BY DEF Holds
      <3> QED BY <3>1
    <2>7. e[6] = 0
      <3>1. StartCode(4)[3] = 0 /\ 3 \in 1 .. Len(StartCode(4))
        BY StartCodeIs
      <3>2. t[0 + 3] = StartCode(4)[3]
        BY <1>2, <3>1 DEF Holds
      <3>3. 3 \in 1 .. 8 + Len(E)
        BY <1>4
      <3>4. e[3 + 3] = t[3]
        BY <2>4, <3>3
      <3> QED BY <3>1, <3>2, <3>4
    <2>8. e[4] = 0 /\ e[5] = 0
      <3>1. /\ StartCode(4)[1] = 0 /\ 1 \in 1 .. Len(StartCode(4))
            /\ StartCode(4)[2] = 0 /\ 2 \in 1 .. Len(StartCode(4))
        BY StartCodeIs
      <3>2. t[0 + 1] = StartCode(4)[1] /\ t[0 + 2] = StartCode(4)[2]
        BY <1>2, <3>1 DEF Holds
      <3>3. 1 \in 1 .. 8 + Len(E) /\ 2 \in 1 .. 8 + Len(E)
        BY <1>4
      <3>4. e[3 + 1] = t[1] /\ e[3 + 2] = t[2]
        BY <2>4, <3>3
      <3> QED BY <3>1, <3>2, <3>4
    <2>9. Holds(e, 10, E)
      <3> DEFINE q == 7
                 r == 3
      <3>1. q \in Nat /\ r \in Nat /\ Holds(t, q, E) /\ Holds(e, r, t)
        BY <2>2 DEF t
      <3>2. r + q = 10
        OBVIOUS
      <3> HIDE DEF q, r
      <3>3. Holds(e, r + q, E)
        BY <1>2, <1>4, <3>1, HoldsInHeld
      <3> QED BY <3>2, <3>3
    <2> HIDE DEF w
    <2> DEFINE p == 10
               L == Len(w)
    <2>10. L \in 1 .. 254 /\ L >= 5
      BY <1>1
    <2>11. p \in {10, 11} /\ p = 10
      OBVIOUS
    <2>12. e[p] = L
      BY <2>5, <2>6, <2>7, <2>8
    <2> HIDE DEF p, L
    <2>13. L \in Nat /\ p \in Nat /\ p <= 11
      BY <2>10, <2>11
    <2>14. e[8] \in {6, 78} /\ e[9] \in {5, 1} /\ (p = 11 => e[10] = 5)
      BY <2>5, <2>6, <2>7, <2>8, <2>11
    <2>15. /\ e[p] # 0
           /\ \A i \in 1 .. p : ~Dropped(e, i)
           /\ \A i \in 1 .. p - 1 : ~(e[i] = 165 /\ e[i + 1] = 179)
      <3>1. p \in {10, 11}
        BY <2>11
      <3>2. L \in Nat
        BY <2>13
      <3>3. L >= 5
        BY <2>10
      <3>4. /\ e[1] = 165 /\ e[2] = 200 /\ e[3] = 128
            /\ e[4] = 0 /\ e[5] = 0 /\ e[6] = 0 /\ e[7] = 1
        BY <2>5, <2>6, <2>7, <2>8
      <3>5. p = 11 => e[10] = 5
        BY <2>14
      <3>6. e[8] \in {6, 78} /\ e[9] \in {5, 1}
        BY <2>14
      <3>7. BehindOther(e, p)
        BY <2>12, <3>1, <3>2, <3>3, <3>4, <3>5, <3>6 DEF BehindOther
      <3> QED BY <3>7, NoneDropped
    <2>16. Holds(e, p, Escape(Payload(s)))
      BY <2>9, <2>11 DEF E, w
    <2> QED BY <2>13, <2>15, <2>16, StampRead
  <1>6. CASE c = "h265"
    <2>1. h = 2 /\ H[1] = 78 /\ H[2] = 1
      BY <1>6 DEF SeiHeader, HeaderSize
    <2>2. t[4] = 1 /\ t[5] = 78 /\ t[6] = 1 /\ t[7] = 5 /\ t[8] = Len(w)
          /\ Holds(t, 8, E)
      <3>1. 1 \in 1 .. Len(H) /\ 2 \in 1 .. Len(H)
        BY <1>3, <2>1
      <3>2. t[4 + 1] = H[1] /\ t[4 + 2] = H[2]
        BY <1>2, <3>1 DEF Holds
      <3>3. StartCode(4)[4] = 1 /\ 4 \in 1 .. Len(StartCode(4))
        BY StartCodeIs
      <3>4. t[0 + 4] = StartCode(4)[4]
        BY <1>2, <3>3 DEF Holds
      <3> HIDE DEF t, H
      <3> QED BY <1>2, <2>1, <3>2, <3>3, <3>4
    <2>3. Len(t) = 9 + Len(E)
      <3> HIDE DEF t, h, H, E
      <3> QED BY <1>2, <1>4, <2>1
    <2> HIDE DEF t, E, h
    <2>4. \A i \in 1 .. 9 + Len(E) : e[3 + i] = t[i]
      BY <2>3 DEF Holds, t
    <2>5. e[7] = 1 /\ e[8] = 78 /\ e[9] = 1 /\ e[10] = 5 /\ e[11] = Len(w)
      <3>1. \A i \in {4, 5, 6, 7, 8} : i \in 1 .. 9 + Len(E)
        BY <1>4
      <3>2. /\ e[3 + 4] = t[4] /\ e[3 + 5] = t[5] /\ e[3 + 6] = t[6]
            /\ e[3 + 7] = t[7] /\ e[3 + 8] = t[8]
        BY <2>4, <3>1
      <3> QED BY <2>2, <3>2
    <2>6. e[1] = 165 /\ e[2] = 200 /\ e[3] = 128
      <3>1. e[0 + 1] = 165 /\ e[0 + 2] = 200 /\ e[0 + 3] = 128
        BY DEF Holds
      <3> QED BY <3>1
    <2>7. e[4] = 0 /\ e[5] = 0 /\ e[6] = 0
      <3>1. /\ StartCode(4)[1] = 0 /\ 1 \in 1 .. Len(StartCode(4))
            /\ StartCode(4)[2] = 0 /\ 2 \in 1 .. Len(StartCode(4))
            /\ StartCode(4)[3] = 0 /\ 3 \in 1 .. Len(StartCode(4))
        BY StartCodeIs
      <3>2. t[0 + 1] = StartCode(4)[1] /\ t[0 + 2] = StartCode(4)[2]
            /\ t[0 + 3] = StartCode(4)[3]
        BY <1>2, <3>1 DEF Holds
      <3>3. \A i \in {1, 2, 3} : i \in 1 .. 9 + Len(E)
        BY <1>4
      <3>4. e[3 + 1] = t[1] /\ e[3 + 2] = t[2] /\ e[3 + 3] = t[3]
        BY <2>4, <3>3
      <3> QED BY <3>1, <3>2, <3>4
    <2>8. Holds(e, 11, E)
      <3> DEFINE q == 8
                 r == 3
      <3>1. q \in Nat /\ r \in Nat /\ Holds(t, q, E) /\ Holds(e, r, t)
        BY <2>2 DEF t
      <3>2. r + q = 11
        OBVIOUS
      <3> HIDE DEF q, r
      <3>3. Holds(e, r + q, E)
        BY <1>2, <1>4, <3>1, HoldsInHeld
      <3> QED BY <3>2, <3>3
    <2> HIDE DEF w
    <2> DEFINE p == 11
               L == Len(w)
    <2>9. L \in 1 .. 254 /\ L >= 5
      BY <1>1
    <2>10. p \in {10, 11} /\ p = 11
      OBVIOUS
    <2>11. e[p] = L
      BY <2>5, <2>6, <2>7
    <2> HIDE DEF p, L
    <2>12. L \in Nat /\ p \in Nat /\ p <= 11
      BY <2>9, <2>10
    <2>13. e[8] \in {6, 78} /\ e[9] \in {5, 1} /\ (p = 11 => e[10] = 5)
      BY <2>5, <2>6, <2>7, <2>10
    <2>14. /\ e[p] # 0
           /\ \A i \in 1 .. p : ~Dropped(e, i)
           /\ \A i \in 1 .. p - 1 : ~(e[i] = 165 /\ e[i + 1] = 179)
      <3>1. p \in {10, 11}
        BY <2>10
      <3>2. L \in Nat
        BY <2>12
      <3>3. L >= 5
        BY <2>9
      <3>4. /\ e[1] = 165 /\ e[2] = 200 /\ e[3] = 128
            /\ e[4] = 0 /\ e[5] = 0 /\ e[6] = 0 /\ e[7] = 1
        BY <2>5, <2>6, <2>7
      <3>5. p = 11 => e[10] = 5
        BY <2>13
      <3>6. e[8] \in {6, 78} /\ e[9] \in {5, 1}
        BY <2>13
      <3>7. BehindOther(e, p)
        BY <2>11, <3>1, <3>2, <3>3, <3>4, <3>5, <3>6 DEF BehindOther
      <3> QED BY <3>7, NoneDropped
    <2>15. Holds(e, p, Escape(Payload(s)))
      BY <2>8, <2>10 DEF E, w
    <2> QED BY <2>12, <2>14, <2>15, StampRead
  <1> QED BY <1>5, <1>6 DEF Codecs

(* The stamp is read where no other unit of user data precedes it. *)
LEMMA FoundFirst ==
    ASSUME NEW c \in Codecs, NEW v \in Seq(Units(c)), NEW s \in Stamps,
           NEW d \in Seq(Byte), StartsWith(d, UnitBytes(c, v)),
           Holds(d, Len(UnitBytes(c, v)), SeiNal(c, Payload(s))),
           \A k \in 1 .. Len(v) : v[k].kind # "sei"
    PROVE  ParseNtpSei(ExtractSei(d)) = s
  <1> DEFINE w == Payload(s)
             u == UnitBytes(c, v)
             o == Len(u)
             h == HeaderSize(c)
             E == Escape(w)
             r == o + 6 + h
             m == MessageAt(d, o + 1)
             e == SubSeq(d, r + 1, Len(d))
             q == 0
  <1>1. w \in Seq(Byte) /\ Len(w) \in 1 .. 254
    BY PayloadIs
  <1>2. E \in Seq(Byte) /\ Len(E) \in Nat
    BY <1>1, EscapeIs, ByteSeq
  <1>3. u \in Seq(Byte) /\ o \in Nat
    BY UnitBytesIs, LenProperties
  <1>4. h \in Nat
    BY SeiHeaderIs
  <1>5. IsMessage(d, o + 1) /\ m = o + 5 + h /\ Holds(d, o + 6 + h, E)
    <2> HIDE DEF w, o
    <2> QED BY <1>1, <1>3, OwnMessage DEF o, w
  <1>6. ASSUME NEW i \in 1 .. Len(d), IsMessage(d, i) PROVE o + 1 <= i
    <2>1. CASE i \in 1 .. o
      <3>1. PICK k \in 1 .. Len(v) : i \in Off(c, v, k) + 1 .. Off(c, v, k + 1)
        BY <2>1, UnitOf
      <3> QED BY <1>6, <3>1, MessageOfUnit
    <2> HIDE DEF o
    <2> QED BY <1>3, <2>1
  <1>7. ExtractSei(d) = SubSeq(d, m + 2, Len(d))
    <2> DEFINE first == o + 1
    <2>1. IsMessage(d, first) /\ \A i \in 1 .. Len(d) : IsMessage(d, i) => first <= i
      BY <1>5, <1>6
    <2>2. m = MessageAt(d, first)
      OBVIOUS
    <2> HIDE DEF first, m
    <2> QED BY <2>1, <2>2, ExtractSeiIs
  <1>8. m + 2 = r + 1 /\ r \in Nat
    <2> HIDE DEF m, o, h
    <2> QED BY <1>3, <1>4, <1>5
  <1>9. ExtractSei(d) = e
    <2> HIDE DEF m, r
    <2> QED BY <1>7, <1>8
  <1>10. Holds(d, r, E)
    BY <1>5
  <1> HIDE DEF r, E
  <1>11. r <= Len(d) /\ Len(d) \in Nat
    BY <1>2, <1>8, <1>10, LenProperties DEF Holds
  <1>12. q \in Nat /\ q <= 11 /\ r = r + q /\ 1 .. q = {} /\ 1 .. q - 1 = {} /\ ~(q >= 1)
    BY <1>8
  <1> HIDE DEF q
  <1>13. Holds(e, q, E)
    BY <1>2, <1>8, <1>10, <1>11, <1>12, HoldsBehind
  <1>14. e \in Seq(Byte)
    BY <1>8, <1>11
  <1> HIDE DEF e
  <1>15. Holds(e, q, Escape(Payload(s)))
    BY <1>13 DEF E
  <1>16. ParseNtpSei(e) = s
    BY <1>12, <1>14, <1>15, StampRead
  <1> QED BY <1>9, <1>16

LEMMA OtherContentIs ==
    LET x == Content("sei")
        rest == <<165, 200, 128>>
    IN  /\ x \in Seq(Byte) /\ Len(x) = 5 /\ x[1] = 5 /\ x[2] = 2
        /\ rest \in Seq(Byte) /\ Len(rest) = 3
        /\ Holds(x, 2, rest)
  <1> DEFINE x == Content("sei")
             rest == <<165, 200, 128>>
  <1>1. x = <<5, 2, 165, 200, 128>>
    BY DEF Content
  <1>2. \A i \in {5, 2, 165, 200, 128} : i \in Byte
    BY DEF Byte
  <1>3. /\ x \in Seq(Byte) /\ Len(x) = 5
        /\ x[1] = 5 /\ x[2] = 2 /\ x[3] = 165 /\ x[4] = 200 /\ x[5] = 128
    <2>1. <<5, 2, 165, 200, 128>> \in Seq(Byte)
      BY <1>2
    <2> HIDE DEF x
    <2> QED BY <1>1, <2>1
  <1>4. /\ rest \in Seq(Byte) /\ Len(rest) = 3
        /\ rest[1] = 165 /\ rest[2] = 200 /\ rest[3] = 128
    BY <1>2
  <1> HIDE DEF x, rest
  <1>5. 2 + Len(rest) <= Len(x)
    BY <1>3, <1>4
  <1>6. ASSUME NEW i \in 1 .. Len(rest) PROVE x[2 + i] = rest[i]
    <2>1. i \in {1, 2, 3}
      BY <1>4
    <2>2. 2 + 1 = 3 /\ 2 + 2 = 4 /\ 2 + 3 = 5
      OBVIOUS
    <2> QED BY <1>3, <1>4, <2>1, <2>2
  <1>7. Holds(x, 2, rest)
    BY <1>5, <1>6 DEF Holds
  <1> QED BY <1>3, <1>4, <1>7 DEF x, rest

(* The stamp is read where one other unit of user data precedes it: the    *)
(* receiver takes what is left of the packet for that one's payload.       *)
LEMMA FoundBehindOther ==
    ASSUME NEW c \in Codecs, NEW v \in Seq(Units(c)), NEW s \in Stamps,
           NEW d \in Seq(Byte), StartsWith(d, UnitBytes(c, v)),
           Holds(d, Len(UnitBytes(c, v)), SeiNal(c, Payload(s))),
           Len(v) = 1, v[1].kind = "sei"
    PROVE  ParseNtpSei(ExtractSei(d)) = s
  <1> DEFINE t == SeiNal(c, Payload(s))
             o == Len(UnitBytes(c, v))
             b == Body(c, v[1].kind)
             H == Header(c, "sei")
             C == Content("sei")
             R == <<165, 200, 128>>
             h == HeaderSize(c)
             m == v[1].start_code
             one == 1
             two == 2
             three == 3
             zero == 0
             n == m + h
             r == m + h + 2
             at == MessageAt(d, 1)
             e == SubSeq(d, r + 1, Len(d))
  <1>1. t \in Seq(Byte)
    BY PayloadIs, SeiNalIs
  <1>2. one \in 1 .. Len(v) /\ two = Len(v) + 1 /\ two = one + 1
    OBVIOUS
  <1>3. v[1] \in Units(c)
    BY <1>2
  <1>4. m \in {3, 4} /\ v[1].kind \in KindsOf(c) /\ v[1].kind = "sei"
    BY <1>3 DEF Units
  <1>5. H = SeiHeader(c) /\ Len(H) = h
    BY DEF Header, SeiHeader, HeaderSize
  <1>6. h \in {1, 2} /\ SeiHeaderSize(H[1]) = h /\ H \in Seq(Byte)
    BY <1>5, SeiHeaderIs
  <1>7. C \in Seq(Byte) /\ Len(C) = 5 /\ R \in Seq(Byte) /\ Len(R) = 3
    BY OtherContentIs
  <1>8. C[1] = 5 /\ C[2] = 2 /\ Holds(C, two, R)
    BY OtherContentIs
  <1>9. /\ b \in Seq(Byte) /\ Holds(b, zero, H) /\ Holds(b, h, C)
        /\ Len(b) = h + 5
    <2>1. b = H \o C
      BY <1>4 DEF Body
    <2>2. b \in Seq(Byte) /\ Holds(b, zero, H) /\ Holds(b, Len(H), C)
      BY <1>4, BodyIs
    <2>3. Len(b) = Len(H) + Len(C)
      BY <1>6, <1>7, <2>1, ConcatIs
    <2> HIDE DEF b, H, C
    <2> QED BY <1>5, <1>7, <2>2, <2>3
  <1>10. /\ Off(c, v, one) = 0
         /\ Off(c, v, two) = Off(c, v, one) + m + Len(b)
         /\ Holds(d, Off(c, v, one) + m, b)
         /\ Off(c, v, two) = o
    BY <1>2, UnitAt, UnitBytesIs
  <1>11. StartCodeSize(d, 1) = m
    <2> HIDE DEF one
    <2>1. StartCodeSize(d, Off(c, v, one) + 1) = v[one].start_code
      BY <1>2, StartOfUnit
    <2>2. Off(c, v, one) + 1 = 1 /\ one = 1
      BY <1>10 DEF one
    <2> QED BY <2>1, <2>2
  <1> HIDE DEF b, o, t, H, C, R, h
  <1>12. Holds(d, m, b) /\ o = r + 3
    <2> HIDE DEF m
    <2> QED BY <1>4, <1>6, <1>9, <1>10
  <1> HIDE DEF m
  <1>13. m + zero = m /\ m \in Nat /\ h \in Nat /\ zero \in Nat /\ two \in Nat
         /\ n \in Nat /\ r \in Nat /\ n + two = r /\ three \in Nat
         /\ r + three = o /\ r = r + zero
    <2>1. m \in {3, 4}
      BY <1>4
    <2>2. h \in {1, 2}
      BY <1>6
    <2>3. m \in Nat /\ h \in Nat
      BY <2>1, <2>2
    <2>4. n \in Nat /\ r \in Nat
      BY <2>3
    <2>5. o = r + three
      BY <1>12
    <2>6. m + zero = m /\ n + two = r /\ r = r + zero
      BY <2>3
    <2> QED BY <2>3, <2>4, <2>5, <2>6
  <1> HIDE DEF zero, two, three
  <1>14. Holds(d, m + zero, H) /\ Holds(d, m + h, C)
    BY <1>6, <1>7, <1>9, <1>12, <1>13, HoldsInHeld
  <1> HIDE DEF n
  <1>15. Holds(d, n + two, R)
    BY <1>7, <1>8, <1>13, <1>14, HoldsInHeld DEF n
  <1>16. Holds(d, r, R) /\ Holds(d, o, t) /\ r <= Len(d)
    <2>1. Holds(d, r, R)
      BY <1>13, <1>15
    <2>2. Holds(d, o, t)
      BY DEF o, t
    <2> HIDE DEF r
    <2>3. r + Len(R) <= Len(d)
      BY <2>1 DEF Holds
    <2>4. r \in Nat /\ Len(R) = 3 /\ Len(d) \in Nat
      BY <1>7, <1>13, LenProperties
    <2>5. r <= Len(d)
      BY <2>3, <2>4
    <2> QED BY <2>1, <2>2, <2>5
  <1>17. d[m + 1] = H[1] /\ d[n + 1] = 5 /\ d[n + 2] = 2 /\ n + 5 <= Len(d)
    <2>1. 1 \in 1 .. Len(H) /\ 1 \in 1 .. Len(C) /\ 2 \in 1 .. Len(C)
      BY <1>5, <1>6, <1>7
    <2>2. d[m + 1] = H[1] /\ d[n + 1] = C[1] /\ d[n + 2] = C[2]
      BY <1>13, <1>14, <2>1 DEF Holds, n
    <2>3. n + Len(C) <= Len(d)
      BY <1>14 DEF Holds, n
    <2> QED BY <1>7, <1>8, <2>2, <2>3
  <1>18. NalAt(d, 1) = m + 1 /\ at = n + 1
    <2>1. NalAt(d, 1) = m + 1
      BY <1>4, <1>11 DEF NalAt
    <2>2. SeiHeaderSize(d[NalAt(d, 1)]) = h
      BY <1>6, <1>17, <2>1
    <2> QED BY <1>4, <1>6, <2>1, <2>2 DEF MessageAt, n
  <1>19. IsMessage(d, 1)
    <2>1. Len(d) \in Nat
      BY LenProperties
    <2>2. n >= m + 1
      BY <1>4, <1>6 DEF n
    <2>3. 1 \in StartCodes(d)
      <3>1. DOMAIN d = 1 .. Len(d) /\ n \in Nat /\ n + 5 <= Len(d)
        BY <1>13, <1>17, LenProperties
      <3>2. 1 \in 1 .. Len(d)
        BY <2>1, <3>1
      <3>3. StartCodeSize(d, 1) > 0
        BY <1>4, <1>11
      <3> QED BY <3>1, <3>2, <3>3 DEF StartCodes
    <2>4. SeiHeaderSize(d[NalAt(d, 1)]) > 0
      BY <1>6, <1>17, <1>18
    <2>5. at + 1 = n + 2
      BY <1>13, <1>18
    <2> HIDE DEF at
    <2>6. d[at] = 5 /\ d[at + 1] = 2 /\ at + 1 + d[at + 1] <= Len(d) /\ at + 1 <= Len(d)
      BY <1>13, <1>17, <1>18, <2>1, <2>5
    <2>7. NalAt(d, 1) + 1 <= Len(d)
      BY <1>4, <1>13, <1>17, <1>18, <2>1, <2>2
    <2> QED BY <2>3, <2>4, <2>6, <2>7 DEF IsMessage, at
  <1>20. ExtractSei(d) = SubSeq(d, at + 2, Len(d))
    <2>1. \A i \in 1 .. Len(d) : IsMessage(d, i) => one <= i
      OBVIOUS
    <2>2. at = MessageAt(d, one) /\ IsMessage(d, one)
      BY <1>19
    <2> HIDE DEF at, one
    <2> QED BY <2>1, <2>2, ExtractSeiIs
  <1>21. at + 2 = r + 1
    <2> HIDE DEF at
    <2> QED BY <1>4, <1>6, <1>18 DEF n
  <1>22. ExtractSei(d) = e
    BY <1>20, <1>21
  <1> HIDE DEF r
  <1>23. Holds(e, zero, R)
    BY <1>7, <1>13, <1>16, HoldsBehind
  <1>24. Holds(e, three, t)
    BY <1>1, <1>13, <1>16, HoldsBehind
  <1>25. e \in Seq(Byte)
    BY <1>13, <1>16
  <1> HIDE DEF e
  <1>26. Holds(e, 0, <<165, 200, 128>>) /\ Holds(e, 3, SeiNal(c, Payload(s)))
    BY <1>23, <1>24 DEF zero, three, R, t
  <1>27. ParseNtpSei(e) = s
    BY <1>25, <1>26, ReadBehindOther
  <1> QED BY <1>22, <1>27

(* Wherever an encoder puts the message, its stamp is read.                *)
LEMMA Found ==
    ASSUME NEW c \in Codecs, NEW b \in Backends, NEW us \in Seq(Units(c)),
           NEW n \in 0 .. Len(us), Placed(us, b, n),
           NEW s \in Stamps, NEW y \in Seq(Byte)
    PROVE  ParseNtpSei(ExtractSei(UnitBytes(c, SubSeq(us, 1, n))
                                      \o SeiNal(c, Payload(s)) \o y)) = s
  <1> DEFINE v == SubSeq(us, 1, n)
             u == UnitBytes(c, v)
             t == SeiNal(c, Payload(s))
             x == u \o t
             d == x \o y
             o == Len(u)
  <1>1. v \in Seq(Units(c)) /\ Len(v) = n
    BY UnitsBefore
  <1>2. \A k \in 1 .. n : v[k] = us[k]
    <2> DEFINE U == Units(c)
    <2> HIDE DEF U
    <2>1. us \in Seq(U) /\ n \in 0 .. Len(us)
      BY DEF U
    <2> QED BY <2>1
  <1>3. t \in Seq(Byte)
    BY PayloadIs, SeiNalIs
  <1>4. u \in Seq(Byte) /\ o \in Nat
    BY <1>1, UnitBytesIs, LenProperties
  <1> HIDE DEF u, t, v
  <1>5. x \in Seq(Byte) /\ StartsWith(x, u) /\ Holds(x, o, t)
    BY <1>3, <1>4, ConcatIs
  <1> HIDE DEF x, o
  <1>6. d \in Seq(Byte) /\ StartsWith(d, x)
    BY <1>5, ConcatIs
  <1> HIDE DEF d
  <1>7. StartsWith(d, u) /\ Holds(d, o, t)
    BY <1>3, <1>4, <1>5, <1>6, StartsWithTransitive, HoldsInPrefix
  <1>8. StartsWith(d, UnitBytes(c, v))
        /\ Holds(d, Len(UnitBytes(c, v)), SeiNal(c, Payload(s)))
    BY <1>7 DEF u, o, t
  <1>9. ParseNtpSei(ExtractSei(d)) = s
    <2>1. CASE \A k \in 1 .. Len(v) : v[k].kind # "sei"
      BY <1>1, <1>6, <1>8, <2>1, FoundFirst
    <2>2. CASE \E k \in 1 .. Len(v) : v[k].kind = "sei"
      <3>1. PICK k \in 1 .. n : us[k].kind = "sei"
        BY <1>1, <1>2, <2>2
      <3>2. ~Lead(us, n)
        BY <3>1 DEF Lead, DelimiterKinds
      <3>3. n = 1
        BY <3>2 DEF Placed
      <3>4. Len(v) = 1 /\ v[1].kind = "sei"
        <4>1. k = 1 /\ 1 \in 1 .. n
          BY <3>1, <3>3
        <4> QED BY <1>1, <1>2, <3>1, <3>3, <4>1
      <3> QED BY <1>1, <1>6, <1>8, <3>4, FoundBehindOther
    <2> QED BY <2>1, <2>2
  <1> QED BY <1>9 DEF d, x, u, t, v

Encoded(c) == {us \in Keyframes : Encodes(c, us)}

LEMMA EncodedIs ==
    ASSUME NEW c \in Codecs, NEW us \in Encoded(c)
    PROVE  us \in Seq(Units(c)) /\ HasSlice(us)
  <1>1. PICK shape \in Shapes, first \in {3, 4}, others \in {3, 4} :
            us = [i \in DOMAIN shape |->
                     [kind       |-> shape[i],
                      start_code |-> IF i = 1 THEN first ELSE others]]
    BY DEF Encoded, Keyframes
  <1>2. shape \in Seq(Kinds) /\ \E i \in DOMAIN shape : shape[i] = "slice"
    BY ShapesAssumption
  <1>3. /\ Len(shape) \in Nat /\ DOMAIN shape = 1 .. Len(shape)
        /\ \A i \in 1 .. Len(shape) : shape[i] \in Kinds
    BY <1>2, LenProperties
  <1>4. DOMAIN us = 1 .. Len(shape) /\ HasSlice(us)
    BY <1>1, <1>2, <1>3 DEF HasSlice
  <1>5. ASSUME NEW i \in 1 .. Len(shape) PROVE us[i] \in Units(c)
    <2>1. us[i] = [kind       |-> shape[i],
                   start_code |-> IF i = 1 THEN first ELSE others]
      BY <1>1, <1>3
    <2>2. c = "h264" => us[i].kind # "vps"
      BY <1>4 DEF Encoded, Encodes
    <2> QED BY <1>3, <2>1, <2>2 DEF Units, KindsOf
  <1>6. us \in [1 .. Len(shape) -> Units(c)]
    BY <1>1, <1>3, <1>5
  <1> DEFINE U == Units(c)
             N == Len(shape)
  <1> HIDE DEF U, N
  <1>7. N \in Nat /\ us \in [1 .. N -> U]
    BY <1>3, <1>6 DEF U, N
  <1>8. us \in Seq(U)
    BY <1>7
  <1> QED BY <1>4, <1>8 DEF U

-----------------------------------------------------------------------------
(* The inductive invariant: what each stage has was made of what the one   *)
(* before had.                                                             *)

Origin ==
    /\ codec \in Codecs /\ backend \in Backends
    /\ stage \in {"idle", "built", "sent", "searched", "side_data"}
    /\ stage = "idle" => stamped = NULL /\ nal = <<>>
    /\ stage # "idle" => /\ stamped \in Stamps
                         /\ nal = SeiNal(codec, Payload(stamped))
    /\ stage \in {"idle", "built"} => packet = <<>>
    /\ stage \in {"sent", "searched", "side_data"} =>
           /\ units \in Encoded(codec)
           /\ packet = Insert(codec, backend, UnitBytes(codec, units), nal)
    /\ stage \in {"idle", "built", "sent"} => found = NULL
    /\ stage = "searched" => found = ParseNtpSei(ExtractSei(packet))
    /\ stage = "side_data" => found = ParseNtpSei(SideData)
    /\ extra_data # NULL =>
           \E us \in Encoded(codec) :
               extra_data = ExtractParams(codec, UnitBytes(codec, us))

(* Origin is an invariant of SeiCodec. *)
THEOREM Traced == Spec => []Origin
  <1>1. Init => Origin
    BY DEF Init, Origin
  <1>2. Origin /\ [Next]_vars => Origin'
    <2> SUFFICES ASSUME Origin, [Next]_vars PROVE Origin'
      OBVIOUS
    <2>1. ASSUME NEW s \in Stamps, BuildSei(s) PROVE Origin'
      BY <2>1 DEF Origin, BuildSei
    <2>2. ASSUME NEW us \in Encoded(codec), InsertSei(us) PROVE Origin'
      <3>1. CASE backend = "qsv" /\ extra_data = NULL
        BY <2>2, <3>1 DEF Origin, InsertSei
      <3>2. CASE ~(backend = "qsv" /\ extra_data = NULL)
        BY <2>2, <3>2 DEF Origin, InsertSei
      <3> QED BY <3>1, <3>2
    <2>3. CASE SearchPacket
      BY <2>3 DEF Origin, SearchPacket
    <2>4. CASE SearchSideData
      <3>1. SideData' = SideData
        BY <2>4 DEF SearchSideData, SideData
      <3> QED BY <2>4, <3>1 DEF Origin, SearchSideData
    <2>5. CASE NextKeyframe
      BY <2>5 DEF Origin, NextKeyframe
    <2>6. CASE UNCHANGED vars
      <3>1. SideData' = SideData
        BY <2>6 DEF vars, frameVars, SideData
      <3> QED BY <2>6, <3>1 DEF Origin, vars, frameVars
    <2> QED BY <2>1, <2>2, <2>3, <2>4, <2>5, <2>6 DEF Next, Encoded
  <1> QED BY <1>1, <1>2, PTL DEF Spec

(* The SEI NAL unit has no bytes the standard forbids in a NAL unit: the   *)
(* emulation prevention of build_sei_nal_unit, for every payload.          *)
THEOREM NoByteForbidden == Spec => []NoEmulation
  <1>1. Origin => NoEmulation
    <2> SUFFICES ASSUME Origin PROVE NoEmulation
      OBVIOUS
    <2>1. CASE stage = "idle"
      BY <2>1 DEF Origin, NoEmulation
    <2>2. CASE stage # "idle"
      <3> DEFINE w == Payload(stamped)
      <3>1. codec \in Codecs /\ w \in Seq(Byte) /\ Len(w) \in 1 .. 254
            /\ nal = SeiNal(codec, w)
        BY <2>2, PayloadIs DEF Origin
      <3> HIDE DEF w
      <3> QED BY <3>1, SeiNalClean DEF NoEmulation
    <2> QED BY <2>1, <2>2
  <1> QED BY <1>1, Traced, PTL

LEMMA Sent ==
    ASSUME Origin, stage \in {"sent", "searched", "side_data"}
    PROVE  /\ codec \in Codecs /\ backend \in Backends
           /\ units \in Seq(Units(codec)) /\ HasSlice(units)
           /\ stamped \in Stamps
           /\ Payload(stamped) \in Seq(Byte)
           /\ Len(Payload(stamped)) = PayloadSize /\ PayloadSize \in 1 .. 254
           /\ nal = SeiNal(codec, Payload(stamped)) /\ nal \in Seq(Byte)
           /\ \E n \in 0 .. Len(units) : Placed(units, backend, n) /\ StandsAfter(n)
  <1>1. /\ codec \in Codecs /\ backend \in Backends /\ units \in Encoded(codec)
        /\ stamped \in Stamps /\ nal = SeiNal(codec, Payload(stamped))
        /\ packet = Insert(codec, backend, UnitBytes(codec, units), nal)
    BY DEF Origin
  <1>2. units \in Seq(Units(codec)) /\ HasSlice(units)
    BY <1>1, EncodedIs
  <1>3. /\ Payload(stamped) \in Seq(Byte)
        /\ Len(Payload(stamped)) = PayloadSize /\ PayloadSize \in 1 .. 254
    BY <1>1, PayloadIs
  <1>4. nal \in Seq(Byte)
    BY <1>1, <1>3, SeiNalIs
  <1>5. PICK n \in 0 .. Len(units) :
            /\ Placed(units, backend, n)
            /\ packet = UnitBytes(codec, SubSeq(units, 1, n)) \o nal
                            \o UnitBytes(codec, SubSeq(units, n + 1, Len(units)))
    BY <1>1, <1>2, <1>4, InsertIs
  <1>6. StandsAfter(n)
    BY <1>5 DEF StandsAfter
  <1> QED BY <1>1, <1>2, <1>3, <1>4, <1>5, <1>6

(* Wherever an encoder puts the message, every unit of the keyframe is     *)
(* whole, whatever the keyframe's units and their start codes.             *)
THEOREM UnitsWhole == Spec => []UnitsIntact
  <1>1. Origin => UnitsIntact
    BY Sent DEF UnitsIntact
  <1> QED BY <1>1, Traced, PTL

(* The message is behind the parameter sets the keyframe begins with and   *)
(* before the first slice: find_parameter_sets_end and what each encoder   *)
(* makes of it.                                                            *)
THEOREM ParameterSetsSeiSlices == Spec => []SeiBeforeSlices
  <1>1. Origin => SeiBeforeSlices
    <2> SUFFICES ASSUME Origin, stage = "sent",
                        backend # "qsv" \/ Delimits(units[1])
                 PROVE  \E n \in 0 .. Len(units) :
                            /\ StandsAfter(n)
                            /\ \A i \in 1 .. n : Delimits(units[i])
                            /\ n > 0 \/ ~Delimits(units[1])
                            /\ n < Len(units) => ~Delimits(units[n + 1])
      BY DEF SeiBeforeSlices
    <2>1. PICK n \in 0 .. Len(units) : Placed(units, backend, n) /\ StandsAfter(n)
      BY Sent
    <2>2. HasSlice(units) /\ units \in Seq(Units(codec))
      BY Sent
    <2>3. Len(units) >= 1 /\ Len(units) \in Nat
      BY <2>2, LenProperties DEF HasSlice
    <2>4. \A i : Delimits(units[i]) <=> units[i].kind \in DelimiterKinds
      BY DEF Delimits, DelimiterKinds
    <2>5. Lead(units, n)
      <3>1. CASE Lead(units, 0) /\ backend = "qsv"
        BY <2>3, <2>4, <3>1 DEF Lead
      <3> QED BY <2>1, <3>1 DEF Placed
    <2>6. n = 0 => units[1].kind \notin DelimiterKinds
      BY <2>3, <2>5 DEF Lead
    <2> QED BY <2>1, <2>3, <2>4, <2>5, <2>6 DEF Lead
  <1> QED BY <1>1, Traced, PTL

(* The parameter sets QSV keeps are whole and have nothing of what is next *)
(* to them, whichever keyframe they are taken from.                        *)
THEOREM ParameterSetsWhole == Spec => []ExtraDataWhole
  <1>1. Origin => ExtraDataWhole
    <2> SUFFICES ASSUME Origin, extra_data # NULL
                 PROVE  extra_data = [k \in DOMAIN ParameterSets(codec) |->
                                         Body(codec, ParameterSets(codec)[k])]
      BY DEF ExtraDataWhole
    <2>1. PICK us \in Encoded(codec) :
              extra_data = ExtractParams(codec, UnitBytes(codec, us))
      BY DEF Origin
    <2>2. codec \in Codecs /\ us \in Seq(Units(codec))
      BY EncodedIs DEF Origin
    <2> QED BY <2>1, <2>2, ExtractParamsIs
  <1> QED BY <1>1, Traced, PTL

LEMMA PacketBytes ==
    ASSUME Origin, stage \in {"sent", "searched", "side_data"}
    PROVE  packet \in Seq(Byte)
  <1>1. /\ codec \in Codecs /\ units \in Seq(Units(codec)) /\ nal \in Seq(Byte)
    BY Sent
  <1>2. PICK n \in 0 .. Len(units) : StandsAfter(n)
    BY Sent
  <1> DEFINE U == Units(codec)
             first == SubSeq(units, 1, n)
             rest == SubSeq(units, n + 1, Len(units))
             u == UnitBytes(codec, first)
             y == UnitBytes(codec, rest)
  <1>3. packet = u \o nal \o y
    BY <1>2 DEF StandsAfter
  <1>4. first \in Seq(U) /\ rest \in Seq(U)
    <2> HIDE DEF U
    <2>1. units \in Seq(U)
      BY <1>1 DEF U
    <2> QED BY <2>1
  <1> HIDE DEF first, rest
  <1>5. u \in Seq(Byte) /\ y \in Seq(Byte)
    BY <1>1, <1>4, UnitBytesIs
  <1> HIDE DEF u, y
  <1>6. u \o nal \in Seq(Byte)
    BY <1>1, <1>5, ConcatIs
  <1>7. u \o nal \o y \in Seq(Byte)
    BY <1>5, <1>6, ConcatIs
  <1> QED BY <1>3, <1>7

(* The side data of the other's user data is too short to be a stamp.      *)
LEMMA OtherSideDataUnread ==
    ParseNtpSei(SubSeq(Content("sei"), 3, 4)) = NULL
  <1> DEFINE x == Content("sei")
             e == SubSeq(x, 3, 4)
             n == Len(e)
             out == Unescapes(e)
  <1>1. x \in Seq(Byte) /\ Len(x) = 5
    BY OtherContentIs
  <1>2. e \in Seq(Byte) /\ n = 2
    <2> HIDE DEF x
    <2> QED BY <1>1
  <1> HIDE DEF e
  <1>3. n \in 0 .. n
    BY <1>2
  <1>4. Len(out[n]) <= n
    BY <1>2, <1>3, UnescapesShort
  <1>5. Unescape(e) = out[n]
    BY DEF Unescape
  <1>6. Unescape(e) \in Seq(Byte)
    BY <1>2, <1>3, <1>5, UnescapesIs
  <1> DEFINE m == Len(Unescape(e))
  <1>7. m <= n /\ m \in Nat
    BY <1>4, <1>5, <1>6, LenProperties
  <1>8. m < PayloadSize
    <2>1. PayloadSize \in Nat /\ PayloadSize >= 5
      BY SizesAre
    <2> HIDE DEF m, n
    <2> QED BY <1>2, <1>7, <2>1
  <1>9. ParseNtpSei(e) = NULL
    BY <1>2, <1>8, ShortNotRead
  <1> QED BY <1>9 DEF e, x

LEMMA SearchedIs ==
    ASSUME Origin, stage = "searched"
    PROVE  found = stamped
  <1>1. /\ codec \in Codecs /\ backend \in Backends
        /\ units \in Seq(Units(codec)) /\ stamped \in Stamps
        /\ nal = SeiNal(codec, Payload(stamped))
    BY Sent
  <1>2. PICK n \in 0 .. Len(units) : Placed(units, backend, n) /\ StandsAfter(n)
    BY Sent
  <1> DEFINE rest == SubSeq(units, n + 1, Len(units))
             u == UnitBytes(codec, SubSeq(units, 1, n))
             y == UnitBytes(codec, rest)
  <1>3. packet = u \o nal \o y
    BY <1>2 DEF StandsAfter
  <1>4. y \in Seq(Byte)
    <2>1. rest \in Seq(Units(codec))
      <3> DEFINE U == Units(codec)
      <3> HIDE DEF U
      <3>1. units \in Seq(U) /\ n \in 0 .. Len(units)
        BY <1>1 DEF U
      <3>2. rest \in Seq(U)
        BY <3>1
      <3> QED BY <3>2 DEF U
    <2> HIDE DEF rest
    <2> QED BY <1>1, <2>1, UnitBytesIs
  <1> HIDE DEF y
  <1>5. ParseNtpSei(ExtractSei(u \o SeiNal(codec, Payload(stamped)) \o y)) = stamped
    BY <1>1, <1>2, <1>4, Found
  <1>6. found = ParseNtpSei(ExtractSei(packet))
    BY DEF Origin
  <1> QED BY <1>1, <1>3, <1>5, <1>6

(* The receiver's search of the packet gives the PTS and time the encoder  *)
(* stamped: extract_sei_payload and parse_ntp_sei undo what                *)
(* build_sei_nal_unit and every encoder's insertion did, for every stamp,  *)
(* codec and sequence of units.                                            *)
THEOREM StampSurvives == Spec => []StampFound
  <1>1. Origin => StampFound
    BY SearchedIs DEF StampFound
  <1> QED BY <1>1, Traced, PTL

(* What is found is a stamp or nothing, and the SEI NAL unit fits the      *)
(* bytes build_sei_nal_unit allocates, however many it escapes.            *)
THEOREM TypeCorrect == Spec => []TypeOK
  <1>1. Origin => TypeOK
    <2> SUFFICES ASSUME Origin PROVE TypeOK
      OBVIOUS
    <2> DEFINE Stages == {"sent", "searched", "side_data"}
    <2>1. /\ codec \in Codecs /\ backend \in Backends
          /\ stage \in {"idle", "built"} \cup Stages
          /\ stamped \in Stamps \cup {NULL}
      BY DEF Origin
    <2>2. stage # "idle" => nal \in Seq(Byte) /\ Len(nal) <= Allocated(codec)
      <3> SUFFICES ASSUME stage # "idle"
                   PROVE  nal \in Seq(Byte) /\ Len(nal) <= Allocated(codec)
        OBVIOUS
      <3>1. stamped \in Stamps /\ nal = SeiNal(codec, Payload(stamped))
        BY DEF Origin
      <3>2. Payload(stamped) \in Seq(Byte) /\ Len(Payload(stamped)) \in 1 .. 254
        BY <3>1, PayloadIs
      <3> QED BY <2>1, <3>1, <3>2, SeiNalIs, SeiNalFits
    <2>3. Allocated(codec) \in Nat
      <3> DEFINE h == HeaderSize(codec)
                 P == PayloadSize
      <3>1. h \in Nat /\ P \in Nat
        BY <2>1, SeiHeaderIs, SizesAre
      <3>2. Allocated(codec) = 4 + h + 1 + 1 + (P + P \div 2 + 4) + 1
        BY DEF Allocated, HeaderSize
      <3> HIDE DEF h, P
      <3>3. P \div 2 \in Nat
        BY <3>1
      <3> QED BY <3>1, <3>2, <3>3
    <2>4. /\ \A i \in DOMAIN nal : nal[i] \in 0 .. 255
          /\ Len(nal) <= Allocated(codec)
      <3>1. CASE stage = "idle"
        <4>1. nal = <<>>
          BY <3>1 DEF Origin
        <4>2. DOMAIN nal = {} /\ Len(nal) = 0
          BY <4>1
        <4> QED BY <2>3, <4>2
      <3>2. CASE stage # "idle"
        <4>1. \A i \in DOMAIN nal : nal[i] \in Byte
          BY <2>2, <3>2, ElementOfSeq, LenProperties
        <4> QED BY <2>2, <3>2, <4>1 DEF Byte
      <3> QED BY <3>1, <3>2
    <2>5. \A i \in DOMAIN packet : packet[i] \in 0 .. 255
      <3>1. CASE stage \notin Stages
        <4>1. packet = <<>>
          BY <2>1, <3>1 DEF Origin
        <4>2. DOMAIN packet = {}
          BY <4>1
        <4> QED BY <4>2
      <3>2. CASE stage \in Stages
        <4>1. packet \in Seq(Byte)
          BY <3>2, PacketBytes
        <4>2. \A i \in DOMAIN packet : packet[i] \in Byte
          BY <4>1, ElementOfSeq, LenProperties
        <4> QED BY <4>2 DEF Byte
      <3> QED BY <3>1, <3>2
    <2>6. found \in Stamps \cup {NULL}
      <3>1. CASE stage \in {"idle", "built", "sent"}
        BY <3>1 DEF Origin
      <3>2. CASE stage = "searched"
        BY <2>1, <3>2, SearchedIs
      <3>3. CASE stage = "side_data"
        <4>1. stamped \in Stamps /\ found = ParseNtpSei(SideData)
          BY <3>3 DEF Origin
        <4>2. CASE SideData = Payload(stamped)
          BY <4>1, <4>2, SideDataRead
        <4>3. CASE SideData = SubSeq(Content("sei"), 3, 4)
          BY <4>1, <4>3, OtherSideDataUnread
        <4>4. SideData \in {Payload(stamped), SubSeq(Content("sei"), 3, 4)}
          BY DEF SideData
        <4> QED BY <4>2, <4>3, <4>4
      <3> QED BY <2>1, <3>1, <3>2, <3>3
    <2> QED BY <2>1, <2>4, <2>5, <2>6 DEF TypeOK
  <1> QED BY <1>1, Traced, PTL
=============================================================================
