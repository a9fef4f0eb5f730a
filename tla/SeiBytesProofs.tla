--------------------------- MODULE SeiBytesProofs ---------------------------
(***************************************************************************)
(* What the byte codecs of SeiCodec compute, for every input: the escapes  *)
(* of build_sei_nal_unit, their removal in parse_ntp_sei, and the numbers  *)
(* between them.  The codecs are recursive functions, so that the module   *)
(* begins with induction and recursion over the naturals.  The library's   *)
(* theorems about them take operators for parameters; here the property    *)
(* to be proved is a set of naturals, and the step of a recursion is a     *)
(* function.                                                               *)
(***************************************************************************)
EXTENDS SeiCodec, TLAPS, WellFoundedInduction, SequenceTheorems

(* A nonempty set of naturals has a least element. *)
LEMMA LeastNat ==
    ASSUME NEW T, T \subseteq Nat, T # {}
    PROVE  \E m \in T : \A k \in T : m <= k
  <1>1. IsWellFoundedOn(OpToRel(<, Nat), Nat)
    BY NatLessThanWellFounded
  <1>2. PICK m \in T : \A y \in T : ~(<<y, m>> \in OpToRel(<, Nat))
    BY <1>1, WFMin
  <1>3. ASSUME NEW k \in T, ~(m <= k) PROVE FALSE
    <2>1. k \in Nat /\ m \in Nat /\ k < m
      BY <1>3
    <2>2. <<k, m>> \in OpToRel(<, Nat)
      BY <2>1 DEF OpToRel
    <2> QED BY <2>2, <1>2
  <1> QED BY <1>2, <1>3

(* Min is the one of FiniteSetsExt. *)
LEMMA MinIs ==
    ASSUME NEW T, NEW m \in T, T \subseteq Int, \A k \in T : m <= k
    PROVE  Min(T) = m
  <1>1. ASSUME NEW x \in T, \A y \in T : x <= y PROVE x = m
    <2>1. x <= m /\ m <= x
      BY <1>1
    <2> QED BY <2>1
  <1> QED BY <1>1 DEF Min

LEMMA NatSetInduction ==
    ASSUME NEW T, 0 \in T, \A n \in Nat : n \in T => n + 1 \in T
    PROVE  \A n \in Nat : n \in T
  <1>1. SUFFICES ASSUME Nat \ T # {} PROVE FALSE
    OBVIOUS
  <1>2. PICK m \in Nat \ T : \A k \in Nat \ T : m <= k
    BY <1>1, LeastNat
  <1>3. m - 1 \in Nat /\ m - 1 \in T
    BY <1>2
  <1> QED BY <1>2, <1>3

(* T has a, and with a number below b the next. *)
Inductive(T, a, b) ==
    a \in T /\ \A n \in a .. b - 1 : n \in T => n + 1 \in T

LEMMA IntervalInduction ==
    ASSUME NEW T, NEW a \in Int, NEW b \in Int, Inductive(T, a, b)
    PROVE  \A n \in a .. b : n \in T
  <1>0. a \in T /\ \A n \in a .. b - 1 : n \in T => n + 1 \in T
    BY DEF Inductive
  <1> DEFINE U == {k \in Nat : a + k <= b => a + k \in T}
  <1>1. 0 \in U
    BY <1>0
  <1>2. ASSUME NEW k \in Nat, k \in U PROVE k + 1 \in U
    <2>1. CASE a + k + 1 <= b
      <3>1. a + k \in T /\ a + k \in a .. b - 1
        BY <1>2, <2>1
      <3>2. (a + k) + 1 \in T
        BY <1>0, <3>1
      <3> QED BY <3>2
    <2>2. CASE ~(a + k + 1 <= b)
      BY <2>2
    <2> QED BY <2>1, <2>2
  <1> HIDE DEF U
  <1>3. \A k \in Nat : k \in U
    BY <1>1, <1>2, NatSetInduction
  <1>4. ASSUME NEW n \in a .. b PROVE n \in T
    <2>1. n - a \in Nat /\ a + (n - a) = n
      OBVIOUS
    <2>2. n - a \in U
      BY <2>1, <1>3
    <2> QED BY <2>1, <2>2 DEF U
  <1> QED BY <1>4

(* A function on 0 .. n with values in A, given by its first value and the *)
(* step from one value to the next.                                        *)
IsRecursion(f, A, n, first, step) ==
    /\ f \in [0 .. n -> A]
    /\ f[0] = first
    /\ \A k \in 1 .. n : f[k] = step[<<k, f[k - 1]>>]

(* There is one. *)
LEMMA IntervalRecursion ==
    ASSUME NEW A, NEW first \in A, NEW n \in Nat,
           NEW step \in [Nat \X A -> A]
    PROVE  \E f : IsRecursion(f, A, n, first, step)
  <1> DEFINE Upto(m, f) == /\ f[0] = first
                           /\ \A k \in 1 .. m : f[k] = step[<<k, f[k - 1]>>]
             T == {m \in 0 .. n : \E f \in [0 .. m -> A] : Upto(m, f)}
  <1>1. 0 \in T
    <2> DEFINE f == [k \in 0 .. 0 |-> first]
    <2>1. f \in [0 .. 0 -> A] /\ Upto(0, f)
      OBVIOUS
    <2> HIDE DEF f
    <2>2. \E g \in [0 .. 0 -> A] : Upto(0, g)
      BY <2>1
    <2> HIDE DEF Upto
    <2> QED BY <2>2
  <1>2. ASSUME NEW m \in 0 .. n - 1, m \in T PROVE m + 1 \in T
    <2>1. PICK f \in [0 .. m -> A] : Upto(m, f)
      BY <1>2
    <2> DEFINE next == step[<<m + 1, f[m]>>]
               g == [k \in 0 .. m + 1 |-> IF k = m + 1 THEN next ELSE f[k]]
    <2>2. f[m] \in A /\ <<m + 1, f[m]>> \in Nat \X A
      BY <2>1
    <2>3. next \in A
      BY <2>2
    <2>4. g \in [0 .. m + 1 -> A]
      BY <2>3
    <2>5. g[0] = first
      BY <2>1
    <2>6. ASSUME NEW k \in 1 .. m + 1 PROVE g[k] = step[<<k, g[k - 1]>>]
      <3>1. CASE k = m + 1
        <4>1. g[k - 1] = f[m] /\ g[k] = next
          BY <3>1
        <4> QED BY <4>1, <3>1
      <3>2. CASE k \in 1 .. m
        <4>1. g[k - 1] = f[k - 1] /\ g[k] = f[k]
          BY <3>2
        <4> QED BY <4>1, <3>2, <2>1
      <3> QED BY <3>1, <3>2
    <2> HIDE DEF g, next
    <2>7. Upto(m + 1, g)
      BY <2>5, <2>6
    <2>8. m + 1 \in 0 .. n
      OBVIOUS
    <2> QED BY <2>4, <2>7, <2>8
  <1> HIDE DEF T
  <1>3. n \in T
    <2>1. Inductive(T, 0, n)
      BY <1>1, <1>2 DEF Inductive
    <2> QED BY <2>1, IntervalInduction
  <1> QED BY <1>3 DEF T, IsRecursion

(* What has its first value in A, and each where the one before it is in   *)
(* A, has them all in A.                                                   *)
LEMMA RecursionIn ==
    ASSUME NEW A, NEW n \in Nat, NEW g, g[0] \in A,
           \A k \in 1 .. n : g[k - 1] \in A => g[k] \in A
    PROVE  \A k \in 0 .. n : g[k] \in A
  <1> DEFINE T == {k \in 0 .. n : g[k] \in A}
  <1>1. 0 \in T
    OBVIOUS
  <1>2. ASSUME NEW k \in 0 .. n - 1, k \in T PROVE k + 1 \in T
    <2>1. k + 1 \in 1 .. n /\ (k + 1) - 1 = k /\ g[k] \in A
      BY <1>2
    <2>2. g[k + 1] \in A
      BY <2>1
    <2> QED BY <2>1, <2>2
  <1> HIDE DEF T
  <1>3. \A k \in 0 .. n : k \in T
    <2>1. Inductive(T, 0, n)
      BY <1>1, <1>2 DEF Inductive
    <2> QED BY <2>1, IntervalInduction
  <1> QED BY <1>3 DEF T

(* The same for all naturals. *)
IsNatRecursion(f, A, first, step) ==
    /\ f \in [Nat -> A]
    /\ f[0] = first
    /\ \A k \in Nat \ {0} : f[k] = step[<<k, f[k - 1]>>]

LEMMA NatRecursion ==
    ASSUME NEW A, NEW first \in A, NEW step \in [Nat \X A -> A]
    PROVE  \E f : IsNatRecursion(f, A, first, step)
  <1> DEFINE Upto(m, f) == /\ f[0] = first
                           /\ \A k \in 1 .. m : f[k] = step[<<k, f[k - 1]>>]
  <1>1. ASSUME NEW n \in Nat PROVE \E f \in [0 .. n -> A] : Upto(n, f)
    <2>1. PICK f : IsRecursion(f, A, n, first, step)
      BY IntervalRecursion
    <2> QED BY <2>1 DEF IsRecursion
  <1> DEFINE upto == [n \in Nat |-> CHOOSE f \in [0 .. n -> A] : Upto(n, f)]
             f == [n \in Nat |-> upto[n][n]]
  <1>2. \A n \in Nat : upto[n] \in [0 .. n -> A] /\ Upto(n, upto[n])
    BY <1>1
  <1> HIDE DEF upto
  <1>3. ASSUME NEW n \in Nat PROVE upto[n + 1][n] = upto[n][n]
    <2> DEFINE T == {k \in Nat : upto[n + 1][k] = upto[n][k]}
    <2>1. 0 \in T
      BY <1>2
    <2>2. ASSUME NEW k \in 0 .. n - 1, k \in T PROVE k + 1 \in T
      <3> DEFINE j == k + 1
      <3>0. j \in 1 .. n + 1 /\ j \in 1 .. n /\ j - 1 = k /\ n + 1 \in Nat
        OBVIOUS
      <3> HIDE DEF j
      <3>1. upto[n + 1][j] = step[<<j, upto[n + 1][k]>>]
        BY <1>2, <3>0
      <3>2. upto[n][j] = step[<<j, upto[n][k]>>]
        BY <1>2, <3>0
      <3>3. upto[n + 1][k] = upto[n][k] /\ j \in Nat
        BY <2>2, <3>0
      <3>4. j \in T
        BY <3>1, <3>2, <3>3
      <3> QED BY <3>4 DEF j
    <2> HIDE DEF T
    <2>3. n \in T
      <3>1. Inductive(T, 0, n)
        BY <2>1, <2>2 DEF Inductive
      <3> QED BY <3>1, IntervalInduction
    <2> QED BY <2>3 DEF T
  <1>4. f \in [Nat -> A] /\ f[0] = first
    BY <1>2
  <1>5. ASSUME NEW k \in Nat \ {0} PROVE f[k] = step[<<k, f[k - 1]>>]
    <2>1. upto[k][k] = step[<<k, upto[k][k - 1]>>]
      BY <1>2
    <2>2. k - 1 \in Nat /\ (k - 1) + 1 = k
      OBVIOUS
    <2>3. upto[k][k - 1] = upto[k - 1][k - 1]
      BY <1>3, <2>2
    <2> QED BY <2>1, <2>2, <2>3
  <1> HIDE DEF f
  <1> QED BY <1>4, <1>5 DEF IsNatRecursion

-----------------------------------------------------------------------------
(* The recursive functions of the model. *)

Byte == 0 .. 255

LEMMA BaseIs == Base \in Nat \ {0} /\ Base >= 2 /\ Base <= 256
  BY ConstantsAssumption

LEMMA TimesIs ==
    /\ \A a, b \in Nat \ {0} : a * b \in Nat \ {0}
    /\ \A a, b \in Nat : a * b \in Nat
  OBVIOUS

LEMMA TimesAssociates ==
    \A a, b, c \in Int : /\ (a * b) * c = a * (b * c)
                         /\ b * (a * c) = a * (b * c)
  OBVIOUS

(* Pow is the powers of the base. *)
LEMMA PowIs ==
    /\ Pow \in [Nat -> Nat \ {0}]
    /\ Pow[0] = 1
    /\ \A k \in Nat : Pow[k + 1] = Base * Pow[k]
  <1> DEFINE A == Nat \ {0}
             one == 1
             step == [p \in Nat \X A |-> Base * p[2]]
             Rhs(f) == [n \in Nat |-> IF n = 0 THEN 1 ELSE Base * f[n - 1]]
  <1>0. ASSUME NEW a \in A PROVE Base * a \in A
    BY BaseIs, TimesIs
  <1>1. one \in A /\ step \in [Nat \X A -> A]
    BY <1>0
  <1>2. \A k \in Nat, a \in A : step[<<k, a>>] = Base * a
    OBVIOUS
  <1> HIDE DEF step, one, A
  <1>3. PICK f : IsNatRecursion(f, A, one, step)
    BY <1>1, NatRecursion
  <1>4. f = Rhs(f)
    <2> DEFINE g == Rhs(f)
    <2>1. f \in [Nat -> A] /\ f[0] = 1
      BY <1>3 DEF IsNatRecursion, one
    <2>2. ASSUME NEW n \in Nat PROVE f[n] = g[n]
      <3>1. CASE n = 0
        BY <3>1, <2>1
      <3>2. CASE n \in Nat \ {0}
        <4>1. f[n] = step[<<n, f[n - 1]>>]
          BY <1>3, <3>2 DEF IsNatRecursion
        <4>2. f[n - 1] \in A
          BY <2>1, <3>2
        <4> QED BY <4>1, <4>2, <1>2, <3>2
      <3> QED BY <3>1, <3>2
    <2>3. g = [n \in Nat |-> g[n]] /\ f = [n \in Nat |-> f[n]]
      BY <2>1
    <2> HIDE DEF g
    <2>4. f = g
      BY <2>2, <2>3
    <2> QED BY <2>4 DEF g
  <1>5. Pow = Rhs(Pow)
    BY <1>4 DEF Pow
  <1>6. \A k \in Nat : Pow[k + 1] = Base * Pow[k]
    BY <1>5
  <1> DEFINE T == {k \in Nat : Pow[k] \in Nat \ {0}}
  <1>7. 0 \in T /\ Pow[0] = 1
    BY <1>5
  <1>8. ASSUME NEW k \in Nat, k \in T PROVE k + 1 \in T
    <2>1. Base * Pow[k] \in Nat \ {0}
      BY <1>8, BaseIs, TimesIs
    <2> QED BY <1>6, <2>1
  <1> HIDE DEF T
  <1>9. \A k \in Nat : k \in T
    BY <1>7, <1>8, NatSetInduction
  <1> QED BY <1>5, <1>6, <1>7, <1>9 DEF T

LEMMA ByteIsNat == \A b \in Byte : b \in Nat /\ b <= 255
  BY DEF Byte

LEMMA ByteSeq ==
    ASSUME NEW s \in Seq(Byte)
    PROVE  /\ Len(s) \in Nat
           /\ DOMAIN s = 1 .. Len(s)
           /\ \A i \in 1 .. Len(s) : s[i] \in Byte
  BY LenProperties

LEMMA ValuesIs ==
    ASSUME NEW bytes \in Seq(Byte)
    PROVE  /\ Values(bytes) \in [0 .. Len(bytes) -> Nat]
           /\ Values(bytes)[0] = 0
           /\ \A k \in 1 .. Len(bytes) :
                  Values(bytes)[k] = Base * Values(bytes)[k - 1] + bytes[k]
  <1> DEFINE n == Len(bytes)
             A == Nat
             first == 0
             Step(k, a) == Base * a + bytes[k]
             step == [p \in Nat \X A |->
                         IF p[1] \in 1 .. n THEN Step(p[1], p[2]) ELSE 0]
             Rhs(f) == [k \in 0 .. n |->
                           IF k = 0 THEN first ELSE Step(k, f[k - 1])]
  <1>0. n \in Nat /\ first \in A
    BY ByteSeq
  <1>1. ASSUME NEW k \in 1 .. n, NEW a \in A PROVE Step(k, a) \in A
    <2>1. bytes[k] \in Byte
      BY ByteSeq
    <2>2. bytes[k] \in Nat
      BY <2>1, ByteIsNat
    <2>3. Base * a \in Nat
      BY BaseIs, TimesIs
    <2> QED BY <2>2, <2>3
  <1> HIDE DEF n, A, first, Step
  <1>2. step \in [Nat \X A -> A]
    BY <1>1 DEF A
  <1>3. \A k \in 1 .. n, a \in A : step[<<k, a>>] = Step(k, a)
    BY <1>0
  <1> HIDE DEF step
  <1>4. PICK f : IsRecursion(f, A, n, first, step)
    BY <1>0, <1>2, IntervalRecursion
  <1>5. f = Rhs(f)
    <2> DEFINE g == Rhs(f)
    <2>1. f \in [0 .. n -> A] /\ f[0] = first
      BY <1>4 DEF IsRecursion
    <2>2. ASSUME NEW k \in 0 .. n PROVE f[k] = g[k]
      <3>1. CASE k = 0
        BY <3>1, <2>1
      <3>2. CASE k \in 1 .. n
        <4>1. f[k] = step[<<k, f[k - 1]>>]
          BY <1>4, <3>2 DEF IsRecursion
        <4>2. k - 1 \in 0 .. n
          BY <3>2, <1>0
        <4>3. f[k - 1] \in A
          BY <2>1, <4>2
        <4> QED BY <4>1, <4>3, <1>3, <3>2
      <3> QED BY <3>1, <3>2, <1>0
    <2>3. g = [k \in 0 .. n |-> g[k]] /\ f = [k \in 0 .. n |-> f[k]]
      BY <2>1
    <2> HIDE DEF g
    <2>4. f = g
      BY <2>2, <2>3
    <2> QED BY <2>4 DEF g
  <1> DEFINE h == Values(bytes)
  <1>6. h = Rhs(h)
    BY <1>5 DEF Values, n, first, Step
  <1> HIDE DEF h
  <1>7. h[0] = first /\ \A k \in 1 .. n : h[k] = Step(k, h[k - 1])
    BY <1>6, <1>0
  <1>8. \A k \in 0 .. n : h[k] \in A
    BY <1>0, <1>1, <1>7, RecursionIn
  <1>9. h \in [0 .. n -> A]
    BY <1>6, <1>8
  <1> QED BY <1>7, <1>9 DEF h, n, A, first, Step

LEMMA EscapeByteIs ==
    ASSUME NEW acc \in [out : Seq(Byte), zeros : Nat], NEW b \in Byte
    PROVE  EscapeByte(acc, b) \in [out : Seq(Byte), zeros : Nat]
  <1>1. b \in 0 .. 255 /\ 3 \in Byte
    BY DEF Byte
  <1>2. acc.out \o <<3, b>> \in Seq(Byte)
    BY <1>1
  <1>3. Append(acc.out, b) \in Seq(Byte)
    OBVIOUS
  <1> QED BY <1>2, <1>3 DEF EscapeByte

LEMMA EscapesIs ==
    ASSUME NEW payload \in Seq(Byte)
    PROVE  /\ Escapes(payload) \in [0 .. Len(payload) ->
                                     [out : Seq(Byte), zeros : Nat]]
           /\ Escapes(payload)[0] = [out |-> <<>>, zeros |-> 0]
           /\ \A k \in 1 .. Len(payload) :
                  Escapes(payload)[k] =
                      EscapeByte(Escapes(payload)[k - 1], payload[k])
  <1> DEFINE n == Len(payload)
             A == [out : Seq(Byte), zeros : Nat]
             first == [out |-> <<>>, zeros |-> 0]
             Step(k, a) == EscapeByte(a, payload[k])
             step == [p \in Nat \X A |->
                         IF p[1] \in 1 .. n THEN Step(p[1], p[2]) ELSE first]
             Rhs(f) == [k \in 0 .. n |->
                           IF k = 0 THEN first ELSE Step(k, f[k - 1])]
  <1>0. n \in Nat /\ first \in A
    BY ByteSeq
  <1>1. ASSUME NEW k \in 1 .. n, NEW a \in A PROVE Step(k, a) \in A
    <2>1. payload[k] \in Byte
      BY ByteSeq
    <2> QED BY <2>1, EscapeByteIs
  <1> HIDE DEF n, A, first, Step
  <1>2. step \in [Nat \X A -> A]
    BY <1>0, <1>1
  <1>3. \A k \in 1 .. n, a \in A : step[<<k, a>>] = Step(k, a)
    BY <1>0
  <1> HIDE DEF step
  <1>4. PICK f : IsRecursion(f, A, n, first, step)
    BY <1>0, <1>2, IntervalRecursion
  <1>5. f = Rhs(f)
    <2> DEFINE g == Rhs(f)
    <2>1. f \in [0 .. n -> A] /\ f[0] = first
      BY <1>4 DEF IsRecursion
    <2>2. ASSUME NEW k \in 0 .. n PROVE f[k] = g[k]
      <3>1. CASE k = 0
        BY <3>1, <2>1
      <3>2. CASE k \in 1 .. n
        <4>1. f[k] = step[<<k, f[k - 1]>>]
          BY <1>4, <3>2 DEF IsRecursion
        <4>2. k - 1 \in 0 .. n
          BY <3>2, <1>0
        <4>3. f[k - 1] \in A
          BY <2>1, <4>2
        <4> QED BY <4>1, <4>3, <1>3, <3>2
      <3> QED BY <3>1, <3>2, <1>0
    <2>3. g = [k \in 0 .. n |-> g[k]] /\ f = [k \in 0 .. n |-> f[k]]
      BY <2>1
    <2> HIDE DEF g
    <2>4. f = g
      BY <2>2, <2>3
    <2> QED BY <2>4 DEF g
  <1> DEFINE h == Escapes(payload)
  <1>6. h = Rhs(h)
    BY <1>5 DEF Escapes, n, first, Step
  <1> HIDE DEF h
  <1>7. h[0] = first /\ \A k \in 1 .. n : h[k] = Step(k, h[k - 1])
    BY <1>6, <1>0
  <1>8. \A k \in 0 .. n : h[k] \in A
    BY <1>0, <1>1, <1>7, RecursionIn
  <1>9. h \in [0 .. n -> A]
    BY <1>6, <1>8
  <1> QED BY <1>7, <1>9 DEF h, n, A, first, Step

LEMMA UnescapesIs ==
    ASSUME NEW d \in Seq(Byte)
    PROVE  /\ Unescapes(d) \in [0 .. Len(d) -> Seq(Byte)]
           /\ Unescapes(d)[0] = <<>>
           /\ \A i \in 1 .. Len(d) :
                  Unescapes(d)[i] = IF Dropped(d, i)
                                      THEN Unescapes(d)[i - 1]
                                      ELSE Append(Unescapes(d)[i - 1], d[i])
  <1> DEFINE n == Len(d)
             A == Seq(Byte)
             first == <<>>
             Step(k, a) == IF Dropped(d, k) THEN a ELSE Append(a, d[k])
             step == [p \in Nat \X A |->
                         IF p[1] \in 1 .. n THEN Step(p[1], p[2]) ELSE first]
             Rhs(f) == [k \in 0 .. n |->
                           IF k = 0 THEN first ELSE Step(k, f[k - 1])]
  <1>0. n \in Nat /\ first \in A
    BY ByteSeq
  <1>1. ASSUME NEW k \in 1 .. n, NEW a \in A PROVE Step(k, a) \in A
    <2>1. d[k] \in Byte
      BY ByteSeq
    <2> QED BY <2>1
  <1> HIDE DEF n, A, first, Step
  <1>2. step \in [Nat \X A -> A]
    BY <1>0, <1>1
  <1>3. \A k \in 1 .. n, a \in A : step[<<k, a>>] = Step(k, a)
    BY <1>0
  <1> HIDE DEF step
  <1>4. PICK f : IsRecursion(f, A, n, first, step)
    BY <1>0, <1>2, IntervalRecursion
  <1>5. f = Rhs(f)
    <2> DEFINE g == Rhs(f)
    <2>1. f \in [0 .. n -> A] /\ f[0] = first
      BY <1>4 DEF IsRecursion
    <2>2. ASSUME NEW k \in 0 .. n PROVE f[k] = g[k]
      <3>1. CASE k = 0
        BY <3>1, <2>1
      <3>2. CASE k \in 1 .. n
        <4>1. f[k] = step[<<k, f[k - 1]>>]
          BY <1>4, <3>2 DEF IsRecursion
        <4>2. k - 1 \in 0 .. n
          BY <3>2, <1>0
        <4>3. f[k - 1] \in A
          BY <2>1, <4>2
        <4> QED BY <4>1, <4>3, <1>3, <3>2
      <3> QED BY <3>1, <3>2, <1>0
    <2>3. g = [k \in 0 .. n |-> g[k]] /\ f = [k \in 0 .. n |-> f[k]]
      BY <2>1
    <2> HIDE DEF g
    <2>4. f = g
      BY <2>2, <2>3
    <2> QED BY <2>4 DEF g
  <1> DEFINE h == Unescapes(d)
  <1>6. h = Rhs(h)
    BY <1>5 DEF Unescapes, n, first, Step
  <1> HIDE DEF h
  <1>7. h[0] = first /\ \A k \in 1 .. n : h[k] = Step(k, h[k - 1])
    BY <1>6, <1>0
  <1>8. \A k \in 0 .. n : h[k] \in A
    BY <1>0, <1>1, <1>7, RecursionIn
  <1>9. h \in [0 .. n -> A]
    BY <1>6, <1>8
  <1> QED BY <1>7, <1>9 DEF h, n, A, first, Step

-----------------------------------------------------------------------------
(* Escapes.                                                                *)

(* After k bytes: zeros counts the zeros at the end, two at most; no two   *)
(* zeros are followed by a byte of at most 2; three bytes are written for  *)
(* two at most.                                                            *)
EscapeInv(acc, k) ==
    LET o == acc.out
        n == Len(o)
    IN  /\ acc.zeros <= 2
        /\ acc.zeros >= 1 <=> n >= 1 /\ o[n] = 0
        /\ acc.zeros = 2 <=> n >= 2 /\ o[n] = 0 /\ o[n - 1] = 0
        /\ \A i \in 1 .. n - 2 : o[i] = 0 /\ o[i + 1] = 0 => o[i + 2] > 2
        /\ n >= k
        /\ 2 * n + acc.zeros <= 3 * k

LEMMA EscapeStep ==
    ASSUME NEW acc \in [out : Seq(Byte), zeros : Nat], NEW b \in Byte,
           NEW k \in Nat, EscapeInv(acc, k)
    PROVE  EscapeInv(EscapeByte(acc, b), k + 1)
  <1> DEFINE o == acc.out
             n == Len(o)
             next == EscapeByte(acc, b)
             q == next.out
  <1>1. /\ n \in Nat /\ acc.zeros \in Nat /\ b \in Nat
        /\ \A i \in 1 .. n : o[i] \in Nat
    BY ByteSeq, ByteIsNat
  <1>2. CASE acc.zeros >= 2 /\ b <= 3
    <2>1. q = o \o <<3, b>> /\ next.zeros = IF b = 0 THEN 1 ELSE 0
      BY <1>2 DEF EscapeByte
    <2>2. /\ Len(q) = n + 2 /\ q[n + 1] = 3 /\ q[n + 2] = b
          /\ \A i \in 1 .. n : q[i] = o[i]
      BY <2>1, <1>1
    <2> HIDE DEF q, next
    <2>3. ASSUME NEW i \in 1 .. n, q[i] = 0, q[i + 1] = 0 PROVE q[i + 2] > 2
      <3>1. i # n
        BY <2>2, <2>3
      <3>2. CASE i = n - 1
        BY <3>2, <2>2, <1>1
      <3>3. CASE i \in 1 .. n - 2
        <4>1. q[i] = o[i] /\ q[i + 1] = o[i + 1] /\ q[i + 2] = o[i + 2]
          BY <3>3, <2>2, <1>1
        <4> QED BY <4>1, <3>3, <2>3 DEF EscapeInv
      <3> QED BY <3>1, <3>2, <3>3, <1>1
    <2>4. n >= k /\ 2 * n + acc.zeros <= 3 * k
      BY DEF EscapeInv
    <2>5. next.zeros >= 1 <=> Len(q) >= 1 /\ q[Len(q)] = 0
      BY <1>1, <2>1, <2>2
    <2>6. ~(next.zeros = 2) /\ q[Len(q) - 1] # 0
      BY <1>1, <2>1, <2>2
    <2>7. \A i \in 1 .. Len(q) - 2 : q[i] = 0 /\ q[i + 1] = 0 => q[i + 2] > 2
      BY <2>2, <2>3
    <2>8. /\ Len(q) >= k + 1 /\ 2 * Len(q) + next.zeros <= 3 * (k + 1)
          /\ next.zeros <= 2
      BY <1>1, <1>2, <2>1, <2>2, <2>4
    <2> QED BY <2>5, <2>6, <2>7, <2>8 DEF EscapeInv, q, next
  <1>3. CASE ~(acc.zeros >= 2 /\ b <= 3)
    <2>1. q = Append(o, b) /\ next.zeros = IF b = 0 THEN acc.zeros + 1 ELSE 0
      BY <1>3 DEF EscapeByte
    <2>2. /\ Len(q) = n + 1 /\ q[n + 1] = b
          /\ \A i \in 1 .. n : q[i] = o[i]
      BY <2>1, <1>1
    <2> HIDE DEF q, next
    <2>3. ASSUME NEW i \in 1 .. n - 1, q[i] = 0, q[i + 1] = 0 PROVE q[i + 2] > 2
      <3>2. CASE i = n - 1
        <4>1. o[n - 1] = 0 /\ o[n] = 0 /\ n >= 2 /\ q[i + 2] = b
          <5> HIDE DEF o, n
          <5>1. /\ n >= 2 /\ i \in 1 .. n /\ n \in 1 .. n
                /\ i + 1 = n /\ i + 2 = n + 1
            BY <3>2, <1>1
          <5>2. q[i] = o[i] /\ q[n] = o[n]
            BY <2>2, <5>1
          <5>3. q[n] = 0 /\ q[i + 2] = b
            BY <2>2, <2>3, <5>1
          <5> QED BY <2>3, <3>2, <5>1, <5>2, <5>3
        <4>2. acc.zeros = 2
          BY <4>1 DEF EscapeInv
        <4> QED BY <4>1, <4>2, <1>1, <1>3
      <3>3. CASE i \in 1 .. n - 2
        <4>1. q[i] = o[i] /\ q[i + 1] = o[i + 1] /\ q[i + 2] = o[i + 2]
          BY <3>3, <2>2, <1>1
        <4> QED BY <4>1, <3>3, <2>3 DEF EscapeInv
      <3> QED BY <3>2, <3>3, <1>1
    <2>4. /\ n >= k /\ 2 * n + acc.zeros <= 3 * k
          /\ acc.zeros <= 2
          /\ acc.zeros >= 1 <=> n >= 1 /\ o[n] = 0
          /\ acc.zeros = 2 <=> n >= 2 /\ o[n] = 0 /\ o[n - 1] = 0
      BY DEF EscapeInv
    <2>5. next.zeros >= 1 <=> Len(q) >= 1 /\ q[Len(q)] = 0
      BY <1>1, <2>1, <2>2
    <2>6. next.zeros = 2 <=> Len(q) >= 2 /\ q[Len(q)] = 0 /\ q[Len(q) - 1] = 0
      BY <1>1, <1>3, <2>1, <2>2, <2>4
    <2>7. \A i \in 1 .. Len(q) - 2 : q[i] = 0 /\ q[i + 1] = 0 => q[i + 2] > 2
      BY <2>2, <2>3
    <2>8. /\ Len(q) >= k + 1 /\ 2 * Len(q) + next.zeros <= 3 * (k + 1)
          /\ next.zeros <= 2
      BY <1>1, <1>3, <2>1, <2>2, <2>4
    <2> QED BY <2>5, <2>6, <2>7, <2>8 DEF EscapeInv, q, next
  <1> QED BY <1>2, <1>3

LEMMA EscapesInv ==
    ASSUME NEW payload \in Seq(Byte)
    PROVE  \A k \in 0 .. Len(payload) : EscapeInv(Escapes(payload)[k], k)
  <1> DEFINE n == Len(payload)
             e == Escapes(payload)
             T == {k \in 0 .. n : EscapeInv(e[k], k)}
  <1>1. 0 \in T
    BY EscapesIs, ByteSeq DEF EscapeInv
  <1>2. ASSUME NEW k \in 0 .. n - 1, k \in T PROVE k + 1 \in T
    <2> DEFINE j == k + 1
    <2>1. n \in Nat /\ j \in 1 .. n /\ j - 1 = k /\ k \in 0 .. n /\ k \in Nat
      BY ByteSeq
    <2> HIDE DEF j
    <2>2. e[j] = EscapeByte(e[k], payload[j])
      BY <2>1, EscapesIs
    <2>3. e[k] \in [out : Seq(Byte), zeros : Nat] /\ payload[j] \in Byte
      BY <2>1, EscapesIs, ByteSeq
    <2>4. EscapeInv(e[j], k + 1)
      BY <1>2, <2>1, <2>2, <2>3, EscapeStep
    <2> QED BY <2>1, <2>4 DEF j
  <1> HIDE DEF T
  <1>3. n \in Int
    BY ByteSeq
  <1> HIDE DEF n
  <1>4. \A k \in 0 .. n : k \in T
    <2>1. Inductive(T, 0, n)
      BY <1>1, <1>2 DEF Inductive
    <2> QED BY <2>1, <1>3, IntervalInduction
  <1> QED BY <1>4 DEF T, n

-----------------------------------------------------------------------------
(* What is written stays: later bytes follow it.                           *)

StartsWith(t, s) == Len(s) <= Len(t) /\ \A i \in 1 .. Len(s) : t[i] = s[i]

LEMMA Growing ==
    ASSUME NEW n \in Nat, NEW g, \A k \in 0 .. n : g[k] \in Seq(Byte),
           \A k \in 1 .. n : StartsWith(g[k], g[k - 1])
    PROVE  \A j \in 0 .. n : \A k \in j .. n : StartsWith(g[k], g[j])
  <1>1. SUFFICES ASSUME NEW j \in 0 .. n
                 PROVE  \A k \in j .. n : StartsWith(g[k], g[j])
    OBVIOUS
  <1> DEFINE T == {k \in j .. n : StartsWith(g[k], g[j])}
  <1>2. j \in T
    BY ByteSeq DEF StartsWith
  <1>3. ASSUME NEW k \in j .. n - 1, k \in T PROVE k + 1 \in T
    <2> DEFINE m == k + 1
    <2>1. m \in 1 .. n /\ m - 1 = k /\ m \in j .. n /\ k \in 0 .. n /\ m \in 0 .. n
      OBVIOUS
    <2> HIDE DEF m
    <2>2. StartsWith(g[m], g[k]) /\ StartsWith(g[k], g[j])
      BY <1>3, <2>1
    <2>3. Len(g[j]) \in Nat /\ Len(g[k]) \in Nat /\ Len(g[m]) \in Nat
      BY <2>1, ByteSeq
    <2>4. StartsWith(g[m], g[j])
      BY <2>2, <2>3 DEF StartsWith
    <2>5. m \in T
      BY <2>1, <2>4
    <2> QED BY <2>5 DEF m
  <1> HIDE DEF T
  <1>4. j \in Int /\ n \in Int
    OBVIOUS
  <1>5. \A k \in j .. n : k \in T
    <2>1. Inductive(T, j, n)
      BY <1>2, <1>3 DEF Inductive
    <2> QED BY <2>1, <1>4, IntervalInduction
  <1> QED BY <1>5 DEF T

LEMMA AppendGrows ==
    ASSUME NEW s \in Seq(Byte), NEW b \in Byte
    PROVE  /\ StartsWith(Append(s, b), s)
           /\ StartsWith(s \o <<3, b>>, s)
  BY DEF StartsWith

LEMMA EscapeByteGrows ==
    ASSUME NEW acc \in [out : Seq(Byte), zeros : Nat], NEW b \in Byte
    PROVE  StartsWith(EscapeByte(acc, b).out, acc.out)
  <1>1. acc.out \in Seq(Byte)
    OBVIOUS
  <1>2. \/ EscapeByte(acc, b).out = acc.out \o <<3, b>>
        \/ EscapeByte(acc, b).out = Append(acc.out, b)
    BY DEF EscapeByte
  <1> QED BY <1>1, <1>2, AppendGrows

LEMMA EscapesGrow ==
    ASSUME NEW payload \in Seq(Byte), NEW k \in 0 .. Len(payload)
    PROVE  StartsWith(Escape(payload), Escapes(payload)[k].out)
  <1> DEFINE n == Len(payload)
             e == Escapes(payload)
             g == [i \in 0 .. n |-> e[i].out]
  <1>1. n \in Nat
    BY ByteSeq
  <1>2. \A i \in 0 .. n : g[i] = e[i].out /\ g[i] \in Seq(Byte)
    BY EscapesIs
  <1>3. ASSUME NEW i \in 1 .. n PROVE StartsWith(g[i], g[i - 1])
    <2>1. i \in 0 .. n /\ i - 1 \in 0 .. n
      BY <1>1
    <2>2. e[i] = EscapeByte(e[i - 1], payload[i]) /\ payload[i] \in Byte
      BY EscapesIs, ByteSeq
    <2>4. g[i] = e[i].out /\ g[i - 1] = e[i - 1].out /\ g[i - 1] \in Seq(Byte)
      BY <2>1, <1>2
    <2>5. e[i - 1] \in [out : Seq(Byte), zeros : Nat]
      BY <2>1, EscapesIs
    <2> HIDE DEF g, e
    <2> QED BY <2>2, <2>4, <2>5, EscapeByteGrows
  <1>4. k \in 0 .. n /\ n \in k .. n
    BY <1>1
  <1> HIDE DEF g, n
  <1>5. StartsWith(g[n], g[k])
    BY <1>1, <1>2, <1>3, <1>4, Growing
  <1>6. g[n] = e[n].out /\ g[k] = e[k].out
    BY <1>1, <1>2, <1>4
  <1> QED BY <1>5, <1>6 DEF Escape, n

LEMMA UnescapesGrow ==
    ASSUME NEW d \in Seq(Byte), NEW i \in 0 .. Len(d)
    PROVE  StartsWith(Unescape(d), Unescapes(d)[i])
  <1> DEFINE n == Len(d)
             u == Unescapes(d)
  <1>1. n \in Nat
    BY ByteSeq
  <1>2. \A k \in 0 .. n : u[k] \in Seq(Byte)
    BY UnescapesIs
  <1>3. ASSUME NEW k \in 1 .. n PROVE StartsWith(u[k], u[k - 1])
    <2>1. k \in 0 .. n /\ k - 1 \in 0 .. n
      BY <1>1
    <2>2. u[k] = u[k - 1] \/ u[k] = Append(u[k - 1], d[k])
      BY UnescapesIs
    <2>3. u[k - 1] \in Seq(Byte) /\ d[k] \in Byte
      BY <2>1, <1>2, ByteSeq
    <2> HIDE DEF u
    <2> QED BY <2>2, <2>3 DEF StartsWith
  <1>4. i \in 0 .. n /\ n \in i .. n
    BY <1>1
  <1> HIDE DEF u, n
  <1>5. StartsWith(u[n], u[i])
    BY <1>1, <1>2, <1>3, <1>4, Growing
  <1> QED BY <1>5 DEF Unescape, u, n

(* The bytes of a payload escaped: there is room for them, they are no     *)
(* fewer than the payload's, and no two zeros are followed by a byte of at *)
(* most 2.                                                                 *)
LEMMA EscapeIs ==
    ASSUME NEW payload \in Seq(Byte)
    PROVE  LET e == Escape(payload)
               n == Len(payload)
           IN  /\ e \in Seq(Byte)
               /\ Len(e) >= n
               /\ 2 * Len(e) <= 3 * n
               /\ \A i \in 1 .. Len(e) - 2 : e[i] = 0 /\ e[i + 1] = 0 => e[i + 2] > 2
  <1> DEFINE n == Len(payload)
             e == Escapes(payload)
  <1>1. n \in 0 .. n
    BY ByteSeq
  <1>2. EscapeInv(e[n], n) /\ e[n] \in [out : Seq(Byte), zeros : Nat]
    BY <1>1, EscapesInv, EscapesIs
  <1>3. e[n].out \in Seq(Byte) /\ e[n].zeros \in Nat /\ Len(e[n].out) \in Nat
    BY <1>2
  <1> QED BY <1>2, <1>3, <1>1 DEF EscapeInv, Escape

-----------------------------------------------------------------------------
(* Unescaping takes the escapes out again, and nothing else of a payload.  *)

(* s is in d behind its first p bytes. *)
Holds(d, p, s) ==
    p + Len(s) <= Len(d) /\ \A i \in 1 .. Len(s) : d[p + i] = s[i]

LEMMA HoldsPrefix ==
    ASSUME NEW d \in Seq(Byte), NEW p \in Nat, NEW s \in Seq(Byte),
           NEW t \in Seq(Byte), Holds(d, p, s), StartsWith(s, t)
    PROVE  Holds(d, p, t)
  <1>1. Len(d) \in Nat /\ Len(s) \in Nat /\ Len(t) \in Nat
    BY ByteSeq
  <1> QED BY <1>1 DEF Holds, StartsWith

LEMMA UnescapesAt ==
    ASSUME NEW d \in Seq(Byte), NEW m \in Nat, m + 1 <= Len(d)
    PROVE  /\ Dropped(d, m + 1) => Unescapes(d)[m + 1] = Unescapes(d)[m]
           /\ ~Dropped(d, m + 1) =>
                  Unescapes(d)[m + 1] = Append(Unescapes(d)[m], d[m + 1])
  <1> DEFINE i == m + 1
  <1>1. i \in 1 .. Len(d) /\ i - 1 = m
    BY ByteSeq
  <1> HIDE DEF i
  <1>2. Unescapes(d)[i] = IF Dropped(d, i) THEN Unescapes(d)[i - 1]
                                          ELSE Append(Unescapes(d)[i - 1], d[i])
    BY <1>1, UnescapesIs
  <1> QED BY <1>1, <1>2 DEF i

LEMMA UnescapeStep ==
    ASSUME NEW d \in Seq(Byte), NEW p \in Nat, p >= 1 => d[p] # 0,
           NEW acc \in [out : Seq(Byte), zeros : Nat], NEW b \in Byte,
           NEW k \in Nat, EscapeInv(acc, k),
           Holds(d, p, EscapeByte(acc, b).out)
    PROVE  Unescapes(d)[p + Len(EscapeByte(acc, b).out)]
               = Append(Unescapes(d)[p + Len(acc.out)], b)
  <1> DEFINE q == EscapeByte(acc, b).out
             o == acc.out
             n == Len(o)
             m == p + n
             u == Unescapes(d)
  <1>1. /\ n \in Nat /\ m \in Nat /\ Len(d) \in Nat /\ b \in Nat
        /\ acc.zeros \in Nat /\ o \in Seq(Byte)
    BY ByteSeq, ByteIsNat
  <1>2. StartsWith(q, o) /\ q \in Seq(Byte)
    BY EscapeByteGrows, EscapeByteIs
  <1>0. Holds(d, p, q)
    OBVIOUS
  <1>9. Holds(d, p, o)
    <2> HIDE DEF o, q
    <2> QED BY <1>0, <1>1, <1>2, HoldsPrefix
  <1>3. \A i \in 1 .. n : d[p + i] = o[i]
    BY <1>9 DEF Holds
  <1>4. acc.zeros >= 2 <=> n >= 2 /\ o[n] = 0 /\ o[n - 1] = 0
    BY <1>1 DEF EscapeInv
  <1>5. m = p + n /\ p >= 0
    OBVIOUS
  <1>8. p + Len(q) <= Len(d) /\ \A i \in 1 .. Len(q) : d[p + i] = q[i]
    BY <1>0 DEF Holds
  <1> HIDE DEF n, o, m, q
  <1>6. CASE acc.zeros >= 2 /\ b <= 3
    <2>1. q = o \o <<3, b>>
      BY <1>6 DEF EscapeByte, o, q
    <2>2. Len(q) = n + 2 /\ q[n + 1] = 3 /\ q[n + 2] = b
      BY <2>1, <1>1 DEF n
    <2>3. d[m + 1] = 3 /\ d[m + 2] = b /\ m + 2 <= Len(d) /\ m + 2 = p + Len(q)
      <3>1. n + 1 \in 1 .. Len(q) /\ n + 2 \in 1 .. Len(q)
        BY <2>2, <1>1
      <3>2. d[p + (n + 1)] = 3 /\ d[p + (n + 2)] = b
        BY <3>1, <2>2, <1>8
      <3>3. p + (n + 1) = m + 1 /\ p + (n + 2) = m + 2
        BY <1>1, <1>5
      <3> QED BY <3>2, <3>3, <2>2, <1>1, <1>5, <1>8
    <2>4. d[m] = 0 /\ d[m - 1] = 0 /\ m + 1 >= 3
      <3>1. n >= 2 /\ o[n] = 0 /\ o[n - 1] = 0
        BY <1>4, <1>6
      <3>4. n \in 1 .. n /\ n - 1 \in 1 .. n
        BY <3>1, <1>1
      <3>2. d[p + n] = 0 /\ d[p + (n - 1)] = 0
        BY <3>1, <3>4, <1>3
      <3>3. p + (n - 1) = m - 1
        BY <1>1, <1>5
      <3> QED BY <3>1, <3>2, <3>3, <1>1, <1>5
    <2>5. Dropped(d, m + 1) /\ ~Dropped(d, (m + 1) + 1)
      BY <2>3, <2>4, <1>1 DEF Dropped
    <2>6. m + 1 \in Nat /\ m + 1 <= Len(d) /\ (m + 1) + 1 = m + 2
      BY <2>3, <1>1
    <2> HIDE DEF u
    <2>7. u[m + 1] = u[m]
      BY <2>5, <2>6, <1>1, UnescapesAt DEF u
    <2>8. u[(m + 1) + 1] = Append(u[m + 1], d[(m + 1) + 1])
      BY <2>3, <2>5, <2>6, UnescapesAt DEF u
    <2>9. u[m + 2] = Append(u[m], b)
      BY <2>3, <2>6, <2>7, <2>8
    <2> QED BY <2>3, <2>9, <1>5 DEF u, n, o, q
  <1>7. CASE ~(acc.zeros >= 2 /\ b <= 3)
    <2>1. q = Append(o, b)
      BY <1>7 DEF EscapeByte, o, q
    <2>2. Len(q) = n + 1 /\ q[n + 1] = b
      BY <2>1, <1>1 DEF n
    <2>3. d[m + 1] = b /\ m + 1 <= Len(d) /\ m + 1 = p + Len(q)
      <3>1. n + 1 \in 1 .. Len(q)
        BY <2>2, <1>1
      <3>2. d[p + (n + 1)] = b
        BY <3>1, <2>2, <1>8
      <3>3. p + (n + 1) = m + 1
        BY <1>1, <1>5
      <3> QED BY <3>2, <3>3, <2>2, <1>1, <1>5, <1>8
    <2>4. ~Dropped(d, m + 1)
      <3>1. SUFFICES ASSUME m + 1 >= 3, b = 3, d[m] = 0, d[m - 1] = 0
                     PROVE  FALSE
        BY <2>3, <1>1 DEF Dropped
      <3>2. CASE n >= 2
        <4>3. n \in 1 .. n /\ n - 1 \in 1 .. n
          BY <3>2, <1>1
        <4>1. d[p + n] = o[n] /\ d[p + (n - 1)] = o[n - 1]
          BY <4>3, <1>3
        <4>2. p + (n - 1) = m - 1
          BY <1>1, <1>5
        <4> QED BY <4>1, <4>2, <3>1, <3>2, <1>1, <1>4, <1>5, <1>7
      <3>3. CASE n = 1
        <4>1. m - 1 = p /\ (m + 1 >= 3 => p >= 1)
          BY <3>3, <1>5, <1>1
        <4> QED BY <3>1, <4>1
      <3>4. CASE n = 0
        <4>1. m = p /\ (m + 1 >= 3 => p >= 1)
          BY <3>4, <1>5, <1>1
        <4> QED BY <3>1, <4>1
      <3> QED BY <3>2, <3>3, <3>4, <1>1
    <2> HIDE DEF u
    <2>5. u[m + 1] = Append(u[m], b)
      BY <2>3, <2>4, <1>1, UnescapesAt DEF u
    <2> QED BY <2>3, <2>5, <1>5 DEF u, n, o, q
  <1> QED BY <1>6, <1>7

LEMMA AppendToConcat ==
    ASSUME NEW s \in Seq(Byte), NEW a \in Seq(Byte), NEW x \in Byte
    PROVE  Append(s \o a, x) = s \o Append(a, x)
  OBVIOUS

LEMMA AppendToPrefix ==
    ASSUME NEW s \in Seq(Byte), NEW t \in Seq(Byte), NEW k \in Nat,
           NEW j \in 1 .. Len(t), j - 1 = k
    PROVE  Append(s \o SubSeq(t, 1, k), t[j]) = s \o SubSeq(t, 1, j)
  <1> DEFINE a == SubSeq(t, 1, k)
             b == SubSeq(t, 1, j)
             x == t[j]
  <1>1. x \in Byte /\ a \in Seq(Byte)
    BY ByteSeq
  <1>2. Append(a, x) = b
    OBVIOUS
  <1> HIDE DEF a, b, x
  <1>3. Append(s \o a, x) = s \o Append(a, x)
    BY <1>1, AppendToConcat
  <1> QED BY <1>2, <1>3 DEF a, b, x

(* Escaped bytes that stand behind no zero are unescaped to what they were,*)
(* whatever else is around them.                                           *)
LEMMA UnescapeEscape ==
    ASSUME NEW d \in Seq(Byte), NEW p \in Nat, p >= 1 => d[p] # 0,
           NEW payload \in Seq(Byte), Holds(d, p, Escape(payload))
    PROVE  Unescapes(d)[p + Len(Escape(payload))] = Unescapes(d)[p] \o payload
  <1> DEFINE n == Len(payload)
             e == Escapes(payload)
             u == Unescapes(d)
             E == Escape(payload)
             T == {k \in 0 .. n : u[p + Len(e[k].out)]
                                     = u[p] \o SubSeq(payload, 1, k)}
  <1>1. n \in Nat /\ Len(d) \in Nat
    BY ByteSeq
  <1>2. E \in Seq(Byte) /\ Len(E) \in Nat
    BY EscapeIs, ByteSeq
  <1>3. u[p] \in Seq(Byte)
    <2>1. p \in 0 .. Len(d)
      BY <1>1, <1>2 DEF Holds
    <2> QED BY <2>1, UnescapesIs
  <1>4. 0 \in T
    <2>1. e[0].out = <<>> /\ SubSeq(payload, 1, 0) = <<>>
      BY EscapesIs
    <2>2. u[p] \o <<>> = u[p] /\ p + Len(<<>>) = p /\ 0 \in 0 .. n
      BY <1>1, <1>3, ConcatEmptySeq
    <2> HIDE DEF u, e, n
    <2> QED BY <2>1, <2>2
  <1>5. ASSUME NEW k \in 0 .. n - 1, k \in T PROVE k + 1 \in T
    <2> DEFINE j == k + 1
               acc == e[k]
               q == e[j].out
    <2>1. j \in 1 .. n /\ j \in 0 .. n /\ k \in 0 .. n /\ j - 1 = k /\ k \in Nat
      BY <1>1
    <2> HIDE DEF j
    <2>2. /\ acc \in [out : Seq(Byte), zeros : Nat]
          /\ e[j] \in [out : Seq(Byte), zeros : Nat]
          /\ payload[j] \in Byte
          /\ e[j] = EscapeByte(acc, payload[j])
          /\ EscapeInv(acc, k)
      BY <2>1, EscapesIs, EscapesInv, ByteSeq
    <2>3. StartsWith(E, q)
      BY <2>1, EscapesGrow
    <2>4. q \in Seq(Byte) /\ q = EscapeByte(acc, payload[j]).out
      BY <2>2
    <2>5. Holds(d, p, q)
      BY <2>3, <2>4, <1>2, HoldsPrefix
    <2> HIDE DEF q, acc
    <2>7. u[p + Len(q)] = Append(u[p + Len(acc.out)], payload[j])
      <3> DEFINE b == payload[j]
      <3>1. /\ acc \in [out : Seq(Byte), zeros : Nat] /\ EscapeInv(acc, k)
            /\ b \in Byte /\ k \in Nat
        BY <2>1, <2>2 DEF acc
      <3>2. q = EscapeByte(acc, b).out
        BY <2>4
      <3>3. Holds(d, p, EscapeByte(acc, b).out)
        BY <2>5, <3>2
      <3> HIDE DEF b
      <3>4. Unescapes(d)[p + Len(EscapeByte(acc, b).out)]
                = Append(Unescapes(d)[p + Len(acc.out)], b)
        <4> HIDE DEF u
        <4> QED BY <3>1, <3>3, UnescapeStep
      <3> QED BY <3>2, <3>4 DEF b
    <2>8. u[p + Len(acc.out)] = u[p] \o SubSeq(payload, 1, k)
      BY <1>5 DEF acc
    <2>9. Append(u[p] \o SubSeq(payload, 1, k), payload[j])
              = u[p] \o SubSeq(payload, 1, j)
      <3> DEFINE x == u[p]
      <3>1. x \in Seq(Byte) /\ k \in Nat /\ j \in 1 .. Len(payload) /\ j - 1 = k
        BY <1>3, <2>1
      <3> HIDE DEF x
      <3>2. Append(x \o SubSeq(payload, 1, k), payload[j])
                = x \o SubSeq(payload, 1, j)
        BY <3>1, AppendToPrefix
      <3> QED BY <3>2 DEF x
    <2> QED BY <2>1, <2>7, <2>8, <2>9 DEF j, q
  <1> HIDE DEF T
  <1>6. n \in Int
    BY <1>1
  <1>10. n \in 0 .. n
    BY <1>1
  <1> HIDE DEF n, E, e, u
  <1>7. \A k \in 0 .. n : k \in T
    <2>1. Inductive(T, 0, n)
      BY <1>4, <1>5 DEF Inductive
    <2> QED BY <2>1, <1>6, IntervalInduction
  <1>8. n \in T
    BY <1>10, <1>7
  <1>9. SubSeq(payload, 1, n) = payload
    BY DEF n
  <1> QED BY <1>8, <1>9 DEF T, n, e, u, Escape

(* Nothing is added; without a loss of a byte nothing is changed.          *)
LEMMA UnescapesShort ==
    ASSUME NEW d \in Seq(Byte)
    PROVE  \A i \in 0 .. Len(d) :
               /\ Len(Unescapes(d)[i]) <= i
               /\ Len(Unescapes(d)[i]) = i => Unescapes(d)[i] = SubSeq(d, 1, i)
  <1> DEFINE n == Len(d)
             u == Unescapes(d)
             T == {i \in 0 .. n : /\ Len(u[i]) <= i
                                  /\ Len(u[i]) = i => u[i] = SubSeq(d, 1, i)}
  <1>1. n \in Nat /\ n \in Int
    BY ByteSeq
  <1>2. u \in [0 .. n -> Seq(Byte)] /\ u[0] = <<>>
    BY UnescapesIs
  <1>3. 0 \in T
    BY <1>1, <1>2
  <1>4. ASSUME NEW i \in 0 .. n - 1, i \in T PROVE i + 1 \in T
    <2> DEFINE v == u[i]
               w == u[i + 1]
               x == d[i + 1]
    <2>1. i \in Nat /\ i + 1 \in 1 .. n /\ i + 1 <= Len(d)
      BY <1>1
    <2>2. v \in Seq(Byte) /\ Len(v) <= i /\ (Len(v) = i => v = SubSeq(d, 1, i))
      BY <1>2, <1>4
    <2>3. w = v \/ w = Append(v, x)
      BY <2>1, UnescapesAt
    <2>4. x \in Byte /\ Append(SubSeq(d, 1, i), x) = SubSeq(d, 1, i + 1)
      BY <2>1, ByteSeq
    <2> HIDE DEF v, w, x
    <2>5. Len(w) <= i + 1 /\ (Len(w) = i + 1 => w = Append(v, x) /\ Len(v) = i)
      BY <2>1, <2>2, <2>3, <2>4
    <2>6. Len(w) = i + 1 => w = SubSeq(d, 1, i + 1)
      BY <2>2, <2>4, <2>5
    <2> QED BY <2>1, <2>5, <2>6 DEF w
  <1>5. Inductive(T, 0, n)
    BY <1>3, <1>4 DEF Inductive
  <1> HIDE DEF T, n, u
  <1>6. \A i \in 0 .. n : i \in T
    BY <1>1, <1>5, IntervalInduction
  <1> QED BY <1>6 DEF T, n, u

LEMMA UnescapesWhole ==
    ASSUME NEW d \in Seq(Byte), NEW m \in 0 .. Len(d),
           \A i \in 1 .. m : ~Dropped(d, i)
    PROVE  Unescapes(d)[m] = SubSeq(d, 1, m)
  <1> DEFINE u == Unescapes(d)
             T == {i \in 0 .. m : Len(u[i]) = i}
  <1>1. Len(d) \in Nat /\ m \in Int /\ m \in 0 .. m
    BY ByteSeq
  <1>2. u \in [0 .. Len(d) -> Seq(Byte)] /\ u[0] = <<>>
    BY UnescapesIs
  <1>3. 0 \in T
    BY <1>1, <1>2
  <1>4. ASSUME NEW i \in 0 .. m - 1, i \in T PROVE i + 1 \in T
    <2> DEFINE v == u[i]
               x == d[i + 1]
    <2>1. i \in Nat /\ i + 1 \in 1 .. m /\ i + 1 <= Len(d) /\ i \in 0 .. Len(d)
      BY <1>1
    <2>2. v \in Seq(Byte) /\ Len(v) = i /\ x \in Byte
      BY <1>2, <1>4, <2>1, ByteSeq
    <2>3. u[i + 1] = Append(v, x)
      BY <2>1, UnescapesAt
    <2> HIDE DEF v, x, u
    <2>4. Len(u[i + 1]) = i + 1
      BY <2>2, <2>3
    <2> QED BY <2>1, <2>4
  <1>5. Inductive(T, 0, m)
    BY <1>3, <1>4 DEF Inductive
  <1> HIDE DEF T
  <1>6. m \in T
    BY <1>1, <1>5, IntervalInduction
  <1> QED BY <1>1, <1>6, UnescapesShort DEF T

-----------------------------------------------------------------------------
(* Numbers.                                                                *)

LEMMA DivMod ==
    ASSUME NEW a \in Int, NEW b \in Nat \ {0}
    PROVE  /\ a \div b \in Int
           /\ a % b \in 0 .. b - 1
           /\ a = b * (a \div b) + (a % b)
  OBVIOUS

LEMMA DivIs ==
    ASSUME NEW a \in Int, NEW b \in Nat \ {0}, NEW q \in Int,
           NEW r \in 0 .. b - 1, a = b * q + r
    PROVE  a \div b = q
  OBVIOUS

LEMMA DivSmall ==
    ASSUME NEW b \in Nat \ {0}, NEW a \in 0 .. b - 1
    PROVE  a \div b = 0
  OBVIOUS

LEMMA DivDiv ==
    ASSUME NEW a \in Int, NEW b \in Nat \ {0}, NEW c \in Nat \ {0}
    PROVE  a \div (c * b) = (a \div b) \div c
  <1> DEFINE q == a \div b
             r == a % b
             t == q \div c
             s == q % c
             n == c * b
             x == b * s + r
  <1>1. q \in Int /\ r \in 0 .. b - 1 /\ a = b * q + r
    BY DivMod
  <1> HIDE DEF q, r
  <1>2. t \in Int /\ s \in 0 .. c - 1 /\ q = c * t + s
    BY <1>1, DivMod
  <1> HIDE DEF t, s
  <1>3. n \in Nat \ {0}
    BY TimesIs
  <1>4. a = n * t + x
    <2>1. b * (c * t + s) = b * (c * t) + b * s
      BY <1>2
    <2>2. b * (c * t) = (c * b) * t
      BY <1>2, TimesAssociates
    <2>3. a = (c * b) * t + b * s + r
      BY <1>1, <1>2, <2>1, <2>2
    <2> QED BY <2>3, <1>1, <1>2
  <1>5. x \in 0 .. n - 1
    <2> DEFINE d == (c - 1) - s
    <2>1. d \in Nat /\ s \in Nat
      BY <1>2
    <2>2. b * d \in Nat /\ b * s \in Nat
      BY <2>1, TimesIs
    <2>3. c * b = b * s + b * d + b
      BY <2>1
    <2> HIDE DEF d
    <2> QED BY <1>1, <2>2, <2>3
  <1> HIDE DEF n, x
  <1>6. a \div n = t
    BY <1>2, <1>3, <1>4, <1>5, DivIs
  <1> QED BY <1>6 DEF t, q, n

LEMMA ModShift ==
    ASSUME NEW a \in Int, NEW b \in Nat \ {0}, NEW k \in Int
    PROVE  (a + b * k) % b = a % b
  <1> DEFINE q == a \div b
             r == a % b
             x == a + b * k
             y == x \div b
             w == x % b
  <1>1. q \in Int /\ r \in 0 .. b - 1 /\ a = b * q + r
    BY DivMod
  <1>2. b * k \in Int /\ x \in Int
    OBVIOUS
  <1> HIDE DEF x
  <1>3. y \in Int /\ w \in 0 .. b - 1 /\ x = b * y + w
    BY <1>2, DivMod
  <1> HIDE DEF q, r, y, w
  <1>4. x = b * (q + k) + r
    <2>1. b * (q + k) = b * q + b * k
      BY <1>1
    <2> QED BY <1>1, <1>2, <2>1 DEF x
  <1>5. y = q + k
    <2>1. x \div b = q + k
      BY <1>1, <1>2, <1>4, DivIs
    <2> QED BY <2>1 DEF y
  <1> QED BY <1>1, <1>3, <1>4, <1>5 DEF w, r, x

LEMMA PowAdd == \A a, b \in Nat : Pow[a + b] = Pow[a] * Pow[b]
  <1>1. SUFFICES ASSUME NEW a \in Nat PROVE \A b \in Nat : Pow[a + b] = Pow[a] * Pow[b]
    OBVIOUS
  <1> DEFINE T == {b \in Nat : Pow[a + b] = Pow[a] * Pow[b]}
  <1>2. 0 \in T
    BY PowIs
  <1>3. ASSUME NEW b \in Nat, b \in T PROVE b + 1 \in T
    <2> DEFINE x == Pow[a]
               y == Pow[b]
    <2>1. x \in Nat /\ y \in Nat /\ Pow[a + b] = x * y
      BY <1>3, PowIs
    <2>2. Pow[(a + b) + 1] = Base * Pow[a + b] /\ Pow[b + 1] = Base * y
      BY PowIs
    <2> HIDE DEF x, y
    <2>3. Base * (x * y) = x * (Base * y)
      BY <2>1, BaseIs, TimesAssociates
    <2>4. (a + b) + 1 = a + (b + 1)
      OBVIOUS
    <2> QED BY <2>1, <2>2, <2>3, <2>4 DEF x
  <1> HIDE DEF T
  <1>4. \A b \in Nat : b \in T
    BY <1>2, <1>3, NatSetInduction
  <1> QED BY <1>4 DEF T

LEMMA ToBytesIs ==
    ASSUME NEW v \in Int, NEW n \in Nat
    PROVE  /\ ToBytes(v, n) \in Seq(Byte)
           /\ Len(ToBytes(v, n)) = n
           /\ \A i \in 1 .. n : /\ ToBytes(v, n)[i] \in 0 .. Base - 1
                                 /\ ToBytes(v, n)[i] = (v \div Pow[n - i]) % Base
  <1>1. ASSUME NEW i \in 1 .. n PROVE (v \div Pow[n - i]) % Base \in 0 .. Base - 1
    <2>1. n - i \in Nat
      OBVIOUS
    <2>2. Pow[n - i] \in Nat \ {0}
      BY <2>1, PowIs
    <2>3. v \div Pow[n - i] \in Int
      BY <2>2, DivMod
    <2> QED BY <2>3, BaseIs, DivMod
  <1>2. ToBytes(v, n) \in [1 .. n -> 0 .. Base - 1]
    BY <1>1 DEF ToBytes
  <1>3. ToBytes(v, n) \in [1 .. n -> Byte]
    <2>1. \A d \in 0 .. Base - 1 : d \in Byte
      BY BaseIs DEF Byte
    <2> HIDE DEF Byte
    <2>2. 0 .. Base - 1 \subseteq Byte
      BY <2>1
    <2> QED BY <1>2, <2>2
  <1> QED BY <1>2, <1>3 DEF ToBytes

(* What ToBytes writes of a number that fits, FromBytes reads.             *)
LEMMA FromToBytes ==
    ASSUME NEW n \in Nat, NEW v \in 0 .. Pow[n] - 1
    PROVE  FromBytes(ToBytes(v, n)) = v
  <1> DEFINE b == ToBytes(v, n)
             T == {k \in 0 .. n : Values(b)[k] = v \div Pow[n - k]}
  <1>1. v \in Int /\ v \in Nat /\ n \in Int /\ Pow[n] \in Nat \ {0}
    BY PowIs
  <1>2. /\ b \in Seq(Byte) /\ Len(b) = n
        /\ \A i \in 1 .. n : b[i] = (v \div Pow[n - i]) % Base
    BY <1>1, ToBytesIs
  <1> HIDE DEF b
  <1>3. 0 \in T
    <2>1. v \div Pow[n] = 0
      <3> DEFINE P == Pow[n]
      <3>1. P \in Nat \ {0} /\ v \in 0 .. P - 1
        BY <1>1
      <3> HIDE DEF P
      <3>3. v \div P = 0
        BY <3>1, DivSmall
      <3> QED BY <3>3 DEF P
    <2>2. Values(b)[0] = 0 /\ n - 0 = n
      BY <1>2, ValuesIs
    <2> QED BY <2>1, <2>2
  <1>4. ASSUME NEW k \in 0 .. n - 1, k \in T PROVE k + 1 \in T
    <2> DEFINE j == k + 1
               D == Pow[n - j]
               q == v \div D
    <2>1. j \in 1 .. n /\ j - 1 = k /\ n - j \in Nat /\ (n - j) + 1 = n - k
      OBVIOUS
    <2> HIDE DEF j
    <2>2. D \in Nat \ {0} /\ Pow[n - k] = Base * D
      BY <2>1, PowIs
    <2>3. Values(b)[j] = Base * Values(b)[k] + b[j]
      BY <2>1, <1>2, ValuesIs
    <2>4. Values(b)[k] = v \div (Base * D) /\ b[j] = q % Base
      BY <1>2, <1>4, <2>1, <2>2
    <2> HIDE DEF D
    <2>5. v \div (Base * D) = q \div Base /\ q \in Int
      BY <1>1, <2>2, BaseIs, DivDiv, DivMod
    <2> HIDE DEF q
    <2>6. Base * (q \div Base) + (q % Base) = q
      BY <2>5, BaseIs, DivMod
    <2> QED BY <2>1, <2>3, <2>4, <2>5, <2>6 DEF j, q, D
  <1>5. Inductive(T, 0, n)
    BY <1>3, <1>4 DEF Inductive
  <1>6. n \in 0 .. n
    OBVIOUS
  <1> HIDE DEF T
  <1>7. n \in T
    BY <1>1, <1>5, <1>6, IntervalInduction
  <1>8. Values(b)[n] = v \div Pow[0] /\ Pow[0] = 1
    <2>1. n - n = 0
      OBVIOUS
    <2> QED BY <1>7, <2>1, PowIs DEF T
  <1>9. v \div 1 = v
    BY <1>1
  <1> QED BY <1>2, <1>8, <1>9 DEF FromBytes, b

(* The bytes of a negative number are those of its two's complement.       *)
LEMMA ToBytesNegative ==
    ASSUME NEW n \in Nat, NEW v \in Int
    PROVE  ToBytes(v, n) = ToBytes(v + Pow[n], n)
  <1>1. Pow[n] \in Nat \ {0} /\ v + Pow[n] \in Int
    BY PowIs
  <1>2. ASSUME NEW i \in 1 .. n
        PROVE  (v \div Pow[n - i]) % Base = ((v + Pow[n]) \div Pow[n - i]) % Base
    <2> DEFINE D == Pow[n - i]
               M == Pow[i - 1]
               q == v \div D
               r == v % D
               x == Base * M
               z == q + x
    <2>1. n - i \in Nat /\ i \in Nat /\ i - 1 \in Nat /\ (i - 1) + 1 = i /\ (n - i) + i = n
      OBVIOUS
    <2>2. D \in Nat \ {0} /\ M \in Nat /\ Pow[i] = x
      BY <2>1, PowIs
    <2>3. Pow[n] = D * x
      BY <2>1, <2>2, PowAdd
    <2> HIDE DEF D, M
    <2>4. q \in Int /\ r \in 0 .. D - 1 /\ v = D * q + r
      BY <2>2, DivMod
    <2> HIDE DEF q, r
    <2>5. x \in Nat /\ z \in Int
      BY <2>2, <2>4, BaseIs, TimesIs
    <2>6. z % Base = q % Base
      <3>1. M \in Int /\ q \in Int /\ Base \in Nat \ {0}
        BY <2>2, <2>4, BaseIs
      <3>2. (q + Base * M) % Base = q % Base
        BY <3>1, ModShift
      <3> QED BY <3>2
    <2> HIDE DEF x
    <2>7. D * z = D * q + D * x
      BY <2>2, <2>4, <2>5
    <2>8. v + Pow[n] = D * z + r
      <3>1. D * q \in Int /\ D * x \in Int
        BY <2>2, <2>4, <2>5
      <3> QED BY <2>3, <2>4, <2>7, <3>1
    <2> HIDE DEF z
    <2>9. (v + Pow[n]) \div D = z
      BY <1>1, <2>2, <2>4, <2>5, <2>8, DivIs
    <2> QED BY <2>6, <2>9 DEF q, D
  <1> QED BY <1>2 DEF ToBytes

(* A PTS comes back with its sign.                                         *)
LEMMA SignedFromToBytes ==
    ASSUME NEW n \in Nat, NEW v \in -(Pow[n] \div 2) .. (Pow[n] \div 2) - 1
    PROVE  Signed(FromBytes(ToBytes(v, n)), n) = v
  <1> DEFINE P == Pow[n]
             h == P \div 2
  <1>1. P \in Nat \ {0}
    BY PowIs
  <1>2. h \in Nat /\ 2 * h <= P /\ v \in Int /\ v \in -h .. h - 1
    BY <1>1
  <1>3. CASE v >= 0
    <2>1. v \in 0 .. P - 1
      BY <1>1, <1>2, <1>3
    <2>2. FromBytes(ToBytes(v, n)) = v
      BY <2>1, FromToBytes
    <2> QED BY <2>2, <1>1, <1>2, <1>3 DEF Signed
  <1>4. CASE v < 0
    <2>1. v + P \in 0 .. P - 1
      BY <1>1, <1>2, <1>4
    <2>2. FromBytes(ToBytes(v + P, n)) = v + P
      BY <2>1, FromToBytes
    <2>3. ToBytes(v, n) = ToBytes(v + P, n)
      BY <1>2, ToBytesNegative
    <2>4. v + P >= h /\ (v + P) - P = v
      BY <1>1, <1>2, <1>4
    <2> QED BY <2>2, <2>3, <2>4 DEF Signed
  <1> QED BY <1>2, <1>3, <1>4

(* What parse_ntp_sei makes of the bytes is what build_sei_nal_unit and    *)
(* build_ntp_sei_payload made them of: any payload, however many escapes   *)
(* it needed, and any PTS or time that fits its digits.                    *)
THEOREM CodecsInvert ==
    /\ \A payload \in Seq(Byte) : Unescape(Escape(payload)) = payload
    /\ \A n \in Nat :
           /\ \A v \in 0 .. Pow[n] - 1 : FromBytes(ToBytes(v, n)) = v
           /\ \A v \in -(Pow[n] \div 2) .. (Pow[n] \div 2) - 1 :
                  Signed(FromBytes(ToBytes(v, n)), n) = v
  <1>1. ASSUME NEW payload \in Seq(Byte)
        PROVE  Unescape(Escape(payload)) = payload
    <2> DEFINE d == Escape(payload)
               p == 0
    <2>1. d \in Seq(Byte) /\ Len(d) \in Nat
      BY EscapeIs, ByteSeq
    <2>2. Holds(d, p, d) /\ p \in Nat /\ p + Len(d) = Len(d)
      BY <2>1 DEF Holds
    <2>3. p >= 1 => d[p] # 0
      OBVIOUS
    <2>4. Unescapes(d)[p] = << >>
      BY <2>1, UnescapesIs
    <2> HIDE DEF p
    <2>5. Unescapes(d)[p + Len(d)] = Unescapes(d)[p] \o payload
      BY <2>1, <2>2, <2>3, UnescapeEscape
    <2>6. Unescape(d) = << >> \o payload
      BY <2>2, <2>4, <2>5 DEF Unescape
    <2>7. << >> \o payload = payload
      OBVIOUS
    <2> QED BY <2>6, <2>7
  <1>2. ASSUME NEW n \in Nat, NEW v \in 0 .. Pow[n] - 1
        PROVE  FromBytes(ToBytes(v, n)) = v
    BY FromToBytes
  <1>3. ASSUME NEW n \in Nat,
               NEW v \in -(Pow[n] \div 2) .. (Pow[n] \div 2) - 1
        PROVE  Signed(FromBytes(ToBytes(v, n)), n) = v
    BY SignedFromToBytes
  <1> QED BY <1>1, <1>2, <1>3
=============================================================================
