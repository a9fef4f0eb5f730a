--------------------------- MODULE NtpClientProofs ---------------------------
(***************************************************************************)
(* The accuracy of the NTP client for every second, fraction, offset and   *)
(* delay, when one thread uses it, as an encoder's does.                   *)
(***************************************************************************)
EXTENDS NtpClient, TLAPS

(* A product grows with its factor: what makes the roundings comparable. *)
LEMMA ProductMonotone ==
    ASSUME NEW a \in Int, NEW b \in Int, NEW c \in Nat \ {0}, a * c < b * c
    PROVE  a < b
  <1> SUFFICES ASSUME a >= b PROVE FALSE OBVIOUS
  <1>1. (a - b) * c >= 0 BY SMT
  <1> QED BY <1>1, SMT

(* The quotient of a natural number. *)
LEMMA Quotient ==
    ASSUME NEW a \in Nat, NEW b \in Nat \ {0}
    PROVE  /\ a \div b \in Nat
           /\ (a \div b) * b <= a
           /\ a < (a \div b) * b + b
           /\ a % b \in 0 .. b - 1
           /\ a = (a \div b) * b + (a % b)
  BY SMT

(* A fraction of a second rounds down by less than a nanosecond on the way *)
(* into an NTP timestamp and back.                                         *)
LEMMA FractionRounds ==
    ASSUME NEW s \in Nat \ {0}, NEW f \in Nat \ {0}, s <= f,
           NEW n \in 0 .. s - 1
    PROVE  LET fr == (n * f) \div s
           IN  /\ fr \in 0 .. f - 1
               /\ (fr * s) \div f \in {n - 1, n}
               /\ (fr * s) \div f \in Nat
  <1> DEFINE fr == (n * f) \div s
             back == (fr * s) \div f
  <1>0. n * f \in Nat BY SMT
  <1>1. fr \in Nat /\ fr * s <= n * f /\ n * f < fr * s + s
    BY <1>0, Quotient
  <1>2. fr * s \in Nat BY <1>1, SMT
  <1>3. back \in Nat /\ back * f <= fr * s /\ fr * s < back * f + f
    BY <1>2, Quotient
  <1> HIDE DEF fr, back
  <1>4. fr < f
    <2>1. n + 1 <= s OBVIOUS
    <2>2. (n + 1) * f <= s * f BY <2>1, SMT
    <2>3. n * f < f * s BY <2>2, SMT
    <2>4. fr * s < f * s BY <1>1, <1>2, <1>0, <2>3, SMT
    <2> QED BY <2>4, <1>1, ProductMonotone
  <1>5. back < n + 1
    <2>1. (n + 1) * f = n * f + f BY SMT
    <2>2. back * f < (n + 1) * f BY <2>1, <1>0, <1>1, <1>2, <1>3, SMT
    <2> QED BY <2>2, <1>3, ProductMonotone
  <1>6. n < back + 2
    <2>1. (back + 2) * f = back * f + f + f BY <1>3, SMT
    <2>2. back * f \in Nat BY <1>3, SMT
    <2>3. n * f < (back + 2) * f
      BY <2>1, <2>2, <1>0, <1>1, <1>2, <1>3, SMT
    <2> QED BY <2>3, <1>3, ProductMonotone
  <1>7. fr \in 0 .. f - 1 /\ back \in {n - 1, n} /\ back \in Nat
    BY <1>1, <1>3, <1>4, <1>5, <1>6
  <1> QED BY <1>7 DEF fr, back

(* The constants, one by one. *)
LEMMA Constants ==
    /\ Second \in Nat \ {0}
    /\ Fraction \in Nat \ {0}
    /\ Era \in Nat \ {0}
    /\ Delta \in Nat \ {0}
    /\ MaxTime \in Nat \ {0}
    /\ Theta \in Nat
    /\ Second <= Fraction
    /\ Second <= Theta
    /\ Second <= MaxTime
  BY ConstantsAssumption

(* A time of the run, local or the server's, becomes an NTP timestamp that *)
(* fits its fields and is a nanosecond early at most.                      *)
LEMMA Conversion ==
    ASSUME NEW ns \in Nat, ns >= Second, ns <= Theta + MaxTime
    PROVE  /\ ns_to_ntp(ns) \in Timestamps
           /\ ntp_to_ns(ns_to_ntp(ns)) \in {ns - 1, ns}
           /\ ntp_to_ns(ns_to_ntp(ns)) >= Second
  <1> DEFINE q == ns \div Second
             r == ns % Second
             fr == (r * Fraction) \div Second
             top == (Theta + MaxTime) \div Second
  <1>1. /\ q \in Nat /\ r \in 0 .. Second - 1
        /\ q * Second <= ns /\ ns < q * Second + Second
        /\ ns = (q * Second) + r
    BY Constants, Quotient
  <1>2. /\ fr \in 0 .. Fraction - 1
        /\ (fr * Second) \div Fraction \in {r - 1, r}
        /\ (fr * Second) \div Fraction \in Nat
    BY <1>1, Constants, FractionRounds
  <1>3. top \in Nat /\ Theta + MaxTime < top * Second + Second
    <2>1. Theta + MaxTime \in Nat BY Constants
    <2> QED BY <2>1, Constants, Quotient
  <1>4. top + Delta < Era BY ConstantsAssumption
  <1> HIDE DEF q, r, fr, top
  <1>5. q <= top
    <2>1. q * Second \in Nat /\ top * Second \in Nat
      BY <1>1, <1>3, Constants, SMT
    <2>2. (top + 1) * Second = top * Second + Second
      BY <1>3, Constants, SMT
    <2>3. q * Second < (top + 1) * Second
      BY <2>1, <2>2, <1>1, <1>3, Constants, SMT
    <2>4. q < top + 1 BY <2>3, <1>1, <1>3, Constants, ProductMonotone
    <2> QED BY <2>4, <1>1, <1>3
  <1>6. q >= 1
    <2>1. (q + 1) * Second = q * Second + Second BY <1>1, Constants, SMT
    <2>2. 1 * Second < (q + 1) * Second BY <2>1, <1>1, Constants, SMT
    <2>3. 1 < q + 1 BY <2>2, <1>1, Constants, ProductMonotone
    <2> QED BY <2>3, <1>1
  <1>7. (q + Delta) % Era = q + Delta /\ q + Delta \in 0 .. Era - 1
    BY <1>1, <1>3, <1>4, <1>5, Constants, SMT
  <1>8. ns_to_ntp(ns) = [seconds |-> q + Delta, fraction |-> fr]
    BY <1>7 DEF ns_to_ntp, q, r, fr
  <1>9. ns_to_ntp(ns) \in Timestamps
    BY <1>2, <1>7, <1>8 DEF Timestamps
  <1>10. ntp_to_ns([seconds |-> q + Delta, fraction |-> fr])
           = (q * Second) + ((fr * Second) \div Fraction)
    <2>1. q + Delta > Delta /\ (q + Delta) - Delta = q
      BY <1>1, <1>6, Constants, SMT
    <2> QED BY <2>1 DEF ntp_to_ns
  <1>11. q * Second \in Nat /\ q * Second >= Second
    <2>1. (q - 1) * Second >= 0 BY <1>1, <1>6, Constants, SMT
    <2>2. (q - 1) * Second = (q * Second) - Second
      BY <1>1, Constants, SMT
    <2> QED BY <2>1, <2>2, <1>1, Constants, SMT
  <1> QED
    BY <1>1, <1>2, <1>8, <1>9, <1>10, <1>11, Constants, SMT

(* Any time becomes a timestamp that fits its fields. *)
LEMMA StampType ==
    ASSUME NEW ns \in Nat
    PROVE  ns_to_ntp(ns) \in Timestamps
  <1>1. ns \div Second \in Nat /\ ns % Second \in 0 .. Second - 1
    BY Constants, Quotient
  <1>2. ((ns % Second) * Fraction) \div Second \in 0 .. Fraction - 1
    BY <1>1, Constants, FractionRounds
  <1>3. ns \div Second + Delta \in Nat BY <1>1, Constants
  <1>4. (ns \div Second + Delta) % Era \in 0 .. Era - 1
    BY <1>3, Constants, Quotient
  <1> QED BY <1>2, <1>4 DEF ns_to_ntp, Timestamps

(* A timestamp stands for a time. *)
LEMMA TimestampValue ==
    ASSUME NEW ntp \in Timestamps
    PROVE  ntp_to_ns(ntp) \in Nat
  <1> DEFINE sec == IF ntp.seconds > Delta THEN ntp.seconds - Delta
                                           ELSE ntp.seconds
             frac == (ntp.fraction * Second) \div Fraction
  <1>1. ntp.seconds \in Nat /\ ntp.fraction \in Nat
    BY Constants DEF Timestamps
  <1>2. sec \in Nat BY <1>1, Constants
  <1>3. ntp.fraction * Second \in Nat BY <1>1, Constants, SMT
  <1>4. frac \in Nat BY <1>3, Constants, Quotient
  <1>5. ntp_to_ns(ntp) = (sec * Second) + frac BY DEF ntp_to_ns
  <1> HIDE DEF sec, frac
  <1>6. sec * Second \in Nat BY <1>2, Constants, SMT
  <1> QED BY <1>4, <1>5, <1>6

(* The four timestamp rule: with both server times taken during the round  *)
(* trip, the offset is right to within half of it.                         *)
LEMMA OffsetBounds ==
    ASSUME NEW t1 \in Nat, NEW t4 \in Nat, NEW t2 \in Nat, NEW t3 \in Nat,
           t1 <= t4,
           t1 + Theta - 1 <= t2, t2 <= t4 + Theta,
           t1 + Theta - 1 <= t3, t3 <= t4 + Theta
    PROVE  /\ 2 * (Offset(t1, t2, t3, t4) - Theta) <= t4 - t1
           /\ 2 * (Theta - Offset(t1, t2, t3, t4)) <= t4 - t1 + 3
  <1> DEFINE sum == (t2 - t1) + (t3 - t4)
  <1>1. sum \in Int /\ sum <= 2 * Theta + (t4 - t1)
        /\ sum >= 2 * Theta - (t4 - t1) - 2
    BY Constants
  <1> HIDE DEF sum
  <1>2. /\ Half(sum) \in Int
        /\ sum >= 0 => 2 * Half(sum) <= sum /\ 2 * Half(sum) >= sum - 1
        /\ sum < 0 => 2 * Half(sum) <= 0 /\ 2 * Half(sum) >= sum
    BY <1>1, SMT DEF Half
  <1>3. Offset(t1, t2, t3, t4) = Half(sum) BY DEF Offset, sum
  <1> QED BY <1>1, <1>2, <1>3, Constants, SMT

(* The offset is a number. *)
LEMMA OffsetType ==
    ASSUME NEW t1 \in Nat, NEW t4 \in Nat, NEW t2 \in Nat, NEW t3 \in Nat
    PROVE  Offset(t1, t2, t3, t4) \in Int
  BY SMT DEF Offset, Half

(* The fields of a client and of an exchange. *)
LEMMA Fields ==
    /\ \A c \in Clients :
          /\ c.is_initialized \in BOOLEAN /\ c.is_synced \in BOOLEAN
          /\ c.time_offset_ns \in Int
          /\ c.last_sync_local_time \in 0 .. MaxTime
          /\ c.last_sync_time \in Timestamps
    /\ \A x \in Exchanges :
          /\ x.pc \in {"idle", "sent", "served", "answered", "set_offset",
                       "set_local", "set_time"}
          /\ x.t1 \in 0 .. MaxTime /\ x.t4 \in 0 .. MaxTime
          /\ x.t2 \in Timestamps /\ x.t3 \in Timestamps
          /\ x.answered \in BOOLEAN
    /\ ZeroTimestamp \in Timestamps
    /\ ZeroClient \in Clients
    /\ NoExchange \in Exchanges
  BY Constants DEF Clients, Exchanges, ZeroTimestamp, Timestamps, ZeroClient,
     NoExchange

(* Every step keeps the types, whichever threads there are. *)
LEMMA TypeStep == TypeOK /\ [Next]_vars => TypeOK'
  <1> SUFFICES ASSUME TypeOK, [Next]_vars PROVE TypeOK' OBVIOUS
  <1> USE DEF TypeOK
  <1>1. CASE UNCHANGED vars BY <1>1 DEF vars
  <1>2. CASE Tick BY <1>2, Constants DEF Tick
  <1>3. ASSUME NEW t \in Threads
        PROVE  /\ exchange[t] \in Exchanges
               /\ \A x \in Exchanges : [exchange EXCEPT ![t] = x]
                                         \in [Threads -> Exchanges]
    OBVIOUS
  <1>4. now \in Nat /\ now \in 0 .. MaxTime /\ now >= Second
        /\ now <= Theta + MaxTime /\ now + Theta \in Nat
        /\ now + Theta >= Second /\ now + Theta <= Theta + MaxTime
    BY Constants
  <1>5. ns_to_ntp(now + Theta) \in Timestamps /\ ns_to_ntp(now) \in Timestamps
    BY <1>4, StampType
  <1>6. ASSUME NEW t \in Threads, ntp_client_init(t) \/ ntp_client_destroy(t)
        PROVE  TypeOK'
    <2>1. [ZeroClient EXCEPT !.is_initialized = TRUE] \in Clients
      BY Fields DEF Clients
    <2> QED
      BY <1>6, <2>1, Fields DEF ntp_client_init, ntp_client_destroy
  <1>7. ASSUME NEW t \in Threads, SendRequest(t)
        PROVE  TypeOK'
    <2>1. [NoExchange EXCEPT !.pc = "sent", !.t1 = now, !.t3 = ns_to_ntp(now)]
            \in Exchanges
      BY <1>4, <1>5, Fields DEF NoExchange, Exchanges
    <2> QED BY <1>7, <1>3, <2>1 DEF SendRequest
  <1>8. ASSUME NEW t \in Threads, ServerReceives(t)
        PROVE  TypeOK'
    <2>1. exchange'[t] \in Exchanges
      BY <1>8, <1>3, <1>5, Fields DEF ServerReceives, Exchanges
    <2> QED BY <1>8, <1>3, <2>1 DEF ServerReceives
  <1>9. ASSUME NEW t \in Threads, ServerAnswers(t)
        PROVE  TypeOK'
    <2>1. exchange'[t] \in Exchanges
      BY <1>9, <1>3, <1>5, Fields DEF ServerAnswers, Exchanges
    <2> QED BY <1>9, <1>3, <2>1 DEF ServerAnswers
  <1>10. ASSUME NEW t \in Threads, ReceiveReply(t)
         PROVE  TypeOK'
    <2>1. [exchange[t] EXCEPT !.pc = "set_offset", !.t4 = now,
                              !.answered = TRUE] \in Exchanges
      BY <1>3, <1>4 DEF Exchanges
    <2>2. exchange' = [exchange EXCEPT ![t] =
              [exchange[t] EXCEPT !.pc = "set_offset", !.t4 = now,
                                  !.answered = TRUE]]
      BY <1>10, <1>3 DEF ReceiveReply
    <2> QED BY <1>10, <1>3, <2>1, <2>2 DEF ReceiveReply
  <1>11. ASSUME NEW t \in Threads, ReceiveNothing(t)
         PROVE  TypeOK'
    <2>1. PICK x \in Exchanges : x = exchange[t] BY <1>3
    <2>2. x.t1 \in 0 .. MaxTime BY Fields
    <2>3. ns_to_ntp(x.t1) \in Timestamps BY <2>2, Constants, StampType
    <2>4. exchange'[t] \in Exchanges
      BY <1>11, <2>1, <2>3, <1>4, Fields DEF ReceiveNothing, Exchanges
    <2> QED BY <1>11, <1>3, <2>4 DEF ReceiveNothing
  <1>12. ASSUME NEW t \in Threads, SyncFails(t)
         PROVE  TypeOK'
    BY <1>12, <1>3, Fields DEF SyncFails
  <1>13. ASSUME NEW t \in Threads, SetOffset(t)
         PROVE  TypeOK'
    <2>1. PICK x \in Exchanges : x = exchange[t] BY <1>3
    <2>2. Offset(x.t1, ntp_to_ns(x.t2), ntp_to_ns(x.t3), x.t4) \in Int
      <3>1. ntp_to_ns(x.t2) \in Nat /\ ntp_to_ns(x.t3) \in Nat
        BY Fields, TimestampValue
      <3>2. x.t1 \in Nat /\ x.t4 \in Nat BY Fields, Constants
      <3> QED BY <3>1, <3>2, OffsetType
    <2>3. exchange'[t] \in Exchanges
      BY <1>13, <1>3 DEF SetOffset, Exchanges
    <2>4. client' \in Clients BY <1>13, <2>1, <2>2 DEF SetOffset, Clients
    <2>5. heard' \in [t1 : 0 .. MaxTime, t4 : 0 .. MaxTime,
                      answered : BOOLEAN]
      BY <1>13, <2>1, Fields DEF SetOffset
    <2> QED BY <1>13, <1>3, <2>3, <2>4, <2>5 DEF SetOffset
  <1>14. ASSUME NEW t \in Threads, SetLocalTime(t)
         PROVE  TypeOK'
    <2>1. PICK x \in Exchanges : x = exchange[t] BY <1>3
    <2>2. exchange'[t] \in Exchanges
      BY <1>14, <1>3 DEF SetLocalTime, Exchanges
    <2>3. client' \in Clients
      BY <1>14, <2>1, Fields DEF SetLocalTime, Clients
    <2> QED BY <1>14, <1>3, <2>2, <2>3 DEF SetLocalTime
  <1>15. ASSUME NEW t \in Threads, SetServerTime(t)
         PROVE  TypeOK'
    <2>1. PICK x \in Exchanges : x = exchange[t] BY <1>3
    <2>2. client' \in Clients
      BY <1>15, <2>1, Fields DEF SetServerTime, Clients
    <2> QED BY <1>15, <1>3, <2>2, Fields DEF SetServerTime
  <1> QED
    BY <1>1, <1>2, <1>6, <1>7, <1>8, <1>9, <1>10, <1>11,
     <1>12, <1>13, <1>14, <1>15 DEF Next

(* With one thread, the invariant is about its exchange and the client. *)
LEMMA OneThread ==
    ASSUME Threads = {Owner}, TypeOK
    PROVE  /\ IInv <=> ExchangeInv(exchange[Owner]) /\ ClientInv
           /\ Quiet <=> exchange[Owner].pc \notin {"set_local", "set_time"}
           /\ exchange[Owner] \in Exchanges
           /\ \A x : [exchange EXCEPT ![Owner] = x][Owner] = x
  BY DEF IInv, Quiet, TypeOK

(* The types the invariant's inequalities are about. *)
LEMMA Numbers ==
    ASSUME TypeOK, NEW x \in Exchanges
    PROVE  /\ now \in Nat /\ Theta \in Nat /\ Second \in Nat \ {0}
           /\ now >= Second /\ now <= MaxTime
           /\ x.t1 \in Nat /\ x.t4 \in Nat /\ x.answered \in BOOLEAN
           /\ ntp_to_ns(x.t2) \in Nat /\ ntp_to_ns(x.t3) \in Nat
           /\ heard.t1 \in Nat /\ heard.t4 \in Nat
           /\ heard.answered \in BOOLEAN
           /\ client.time_offset_ns \in Int
           /\ client.last_sync_local_time \in Nat
           /\ client.is_synced \in BOOLEAN
           /\ ntp_to_ns(client.last_sync_time) \in Nat
  BY Constants, Fields, TimestampValue DEF TypeOK

(* The initial state satisfies the invariant. *)
LEMMA InitInvariant == Init => IInv
  <1> SUFFICES ASSUME Init PROVE IInv OBVIOUS
  <1>1. TypeOK BY Constants, Fields DEF Init, TypeOK
  <1>2. ASSUME NEW t \in Threads PROVE ExchangeInv(exchange[t])
    BY DEF Init, ExchangeInv, NoExchange
  <1>3. ClientInv BY DEF Init, ClientInv, ZeroClient
  <1> QED BY <1>1, <1>2, <1>3 DEF IInv

(* Every step of the only thread keeps the invariant. *)
LEMMA StepInvariant == Threads = {Owner} /\ IInv /\ [Next]_vars => IInv'
  <1> SUFFICES ASSUME Threads = {Owner}, IInv, [Next]_vars PROVE IInv'
    OBVIOUS
  <1> DEFINE x == exchange[Owner]
  <1>1. TypeOK /\ TypeOK' BY TypeStep DEF IInv
  <1>2. /\ ExchangeInv(x) /\ ClientInv
        /\ x \in Exchanges
        /\ Quiet <=> x.pc \notin {"set_local", "set_time"}
        /\ \A z : [exchange EXCEPT ![Owner] = z][Owner] = z
        /\ \A t \in Threads : t = Owner
    BY <1>1, OneThread
  <1>3. SUFFICES ExchangeInv(x)' /\ ClientInv'
    BY <1>1 DEF IInv
  <1>4. Quiet' <=> x.pc' \notin {"set_local", "set_time"}
    BY DEF Quiet
  <1>5. /\ now \in Nat /\ Theta \in Nat /\ Second \in Nat \ {0}
        /\ now >= Second /\ now <= MaxTime
        /\ x.t1 \in Nat /\ x.t4 \in Nat /\ x.answered \in BOOLEAN
        /\ ntp_to_ns(x.t2) \in Nat /\ ntp_to_ns(x.t3) \in Nat
        /\ heard.t1 \in Nat /\ heard.t4 \in Nat
        /\ heard.answered \in BOOLEAN
        /\ client.time_offset_ns \in Int
        /\ client.last_sync_local_time \in Nat
        /\ client.is_synced \in BOOLEAN
        /\ ntp_to_ns(client.last_sync_time) \in Nat
    BY <1>1, <1>2, Numbers
  <1> HIDE DEF x
  <1>6. CASE UNCHANGED vars
    BY <1>2, <1>6
       DEF vars, x, ExchangeInv, ClientInv, Quiet, OffsetAccurate,
           OffsetWithinBounds, TakenBetween
  <1>7. CASE Tick
    <2>1. now' = now + 1 /\ UNCHANGED <<client, exchange, heard>>
      BY <1>7 DEF Tick
    <2>2. x' = x BY <2>1 DEF x
    <2>3. ExchangeInv(x)'
      BY <1>2, <1>5, <2>1, <2>2
         DEF ExchangeInv, TakenBetween, OffsetWithinBounds
    <2>4. ClientInv'
      BY <1>2, <1>4, <1>5, <2>1, <2>2
         DEF ClientInv, TakenBetween, OffsetAccurate, OffsetWithinBounds
    <2> QED BY <2>3, <2>4
  <1>8. CASE ntp_client_init(Owner) \/ ntp_client_destroy(Owner)
    <2>1. x' = x /\ x.pc = "idle" /\ ~client'.is_synced
      BY <1>8 DEF x, ntp_client_init, ntp_client_destroy, ZeroClient
    <2> QED BY <1>2, <2>1 DEF ExchangeInv, ClientInv
  <1>9. CASE SendRequest(Owner)
    <2>1. /\ x' = [NoExchange EXCEPT !.pc = "sent", !.t1 = now,
                                     !.t3 = ns_to_ntp(now)]
          /\ x.pc = "idle" /\ UNCHANGED <<now, client, heard>>
      BY <1>9, <1>2 DEF x, SendRequest
    <2>2. x'.pc = "sent" /\ x'.t1 = now /\ ~x'.answered
      BY <2>1 DEF NoExchange
    <2>3. ExchangeInv(x)' BY <2>1, <2>2, <1>5 DEF ExchangeInv
    <2>4. ClientInv'
      BY <1>2, <1>4, <2>1, <2>2
         DEF ClientInv, TakenBetween, OffsetAccurate, OffsetWithinBounds
    <2> QED BY <2>3, <2>4
  <1>10. /\ now + Theta - 1 <= ntp_to_ns(ns_to_ntp(now + Theta))
         /\ ntp_to_ns(ns_to_ntp(now + Theta)) <= now + Theta
         /\ ntp_to_ns(ns_to_ntp(now + Theta)) >= Second
         /\ ntp_to_ns(ns_to_ntp(now + Theta)) \in Nat
    <2>1. PICK n \in Nat : n = now + Theta BY <1>5
    <2>2. n >= Second /\ n <= Theta + MaxTime BY <1>5, <2>1, Constants
    <2>3. /\ n - 1 <= ntp_to_ns(ns_to_ntp(n))
          /\ ntp_to_ns(ns_to_ntp(n)) <= n
          /\ ntp_to_ns(ns_to_ntp(n)) >= Second
          /\ ntp_to_ns(ns_to_ntp(n)) \in Nat
      BY <2>2, Conversion, TimestampValue
    <2>4. ntp_to_ns(ns_to_ntp(n)) = ntp_to_ns(ns_to_ntp(now + Theta))
      BY <2>1, Zenon
    <2> QED BY <2>1, <2>3, <2>4, <1>5, SMT
  <1>11. CASE ServerReceives(Owner)
    <2>1. /\ x' = [x EXCEPT !.pc = "served", !.t2 = ns_to_ntp(now + Theta)]
          /\ x.pc = "sent" /\ UNCHANGED <<now, client, heard>>
      BY <1>11, <1>1, <1>2 DEF x, ServerReceives, TypeOK
    <2>2. /\ x'.pc = "served" /\ x'.t1 = x.t1
          /\ x'.t2 = ns_to_ntp(now + Theta) /\ x'.answered = x.answered
      BY <2>1, <1>2 DEF Exchanges
    <2>3. ExchangeInv(x)'
      BY <1>2, <1>5, <1>10, <2>1, <2>2 DEF ExchangeInv, TakenBetween
    <2>4. ClientInv'
      BY <1>2, <1>4, <2>1, <2>2
         DEF ClientInv, TakenBetween, OffsetAccurate, OffsetWithinBounds
    <2> QED BY <2>3, <2>4
  <1>12. CASE ServerAnswers(Owner)
    <2>1. /\ x' = [x EXCEPT !.pc = "answered", !.t3 = ns_to_ntp(now + Theta)]
          /\ x.pc = "served" /\ UNCHANGED <<now, client, heard>>
      BY <1>12, <1>1, <1>2 DEF x, ServerAnswers, TypeOK
    <2>2. /\ x'.pc = "answered" /\ x'.t1 = x.t1 /\ x'.t2 = x.t2
          /\ x'.t3 = ns_to_ntp(now + Theta) /\ x'.answered = x.answered
      BY <2>1, <1>2 DEF Exchanges
    <2>3. ExchangeInv(x)'
      BY <1>2, <1>5, <1>10, <2>1, <2>2 DEF ExchangeInv, TakenBetween
    <2>4. ClientInv'
      BY <1>2, <1>4, <2>1, <2>2
         DEF ClientInv, TakenBetween, OffsetAccurate, OffsetWithinBounds
    <2> QED BY <2>3, <2>4
  <1>13. CASE ReceiveReply(Owner)
    <2>1. /\ x' = [x EXCEPT !.pc = "set_offset", !.t4 = now,
                            !.answered = TRUE]
          /\ x.pc = "answered" /\ UNCHANGED <<now, client, heard>>
      BY <1>13, <1>1, <1>2 DEF x, ReceiveReply, TypeOK
    <2>2. /\ x'.pc = "set_offset" /\ x'.t1 = x.t1 /\ x'.t2 = x.t2
          /\ x'.t3 = x.t3 /\ x'.t4 = now /\ x'.answered
      BY <2>1, <1>2 DEF Exchanges
    <2>3. ExchangeInv(x)'
      BY <1>2, <1>5, <2>1, <2>2 DEF ExchangeInv, TakenBetween
    <2>4. ClientInv'
      BY <1>2, <1>4, <2>1, <2>2
         DEF ClientInv, TakenBetween, OffsetAccurate, OffsetWithinBounds
    <2> QED BY <2>3, <2>4
  <1>14. CASE ReceiveNothing(Owner)
    <2>1. /\ x' = [x EXCEPT !.pc = "set_offset", !.t4 = now,
                            !.t2 = ZeroTimestamp, !.t3 = ns_to_ntp(x.t1)]
          /\ x.pc \in {"sent", "served", "answered"}
          /\ UNCHANGED <<now, client, heard>>
      BY <1>14, <1>1, <1>2 DEF x, ReceiveNothing, TypeOK
    <2>2. /\ x'.pc = "set_offset" /\ x'.t1 = x.t1 /\ x'.t4 = now
          /\ x'.t3 = ns_to_ntp(x.t1) /\ x'.answered = x.answered
      BY <2>1, <1>2 DEF Exchanges
    <2>3. Second <= x.t1 /\ x.t1 <= now
      BY <1>2, <2>1 DEF ExchangeInv
    <2>4. /\ ntp_to_ns(ns_to_ntp(x.t1)) \in {x.t1 - 1, x.t1}
          /\ ntp_to_ns(ns_to_ntp(x.t1)) >= Second
      <3>1. x.t1 <= Theta + MaxTime BY <1>5, <2>3, Constants
      <3> QED BY <1>5, <2>3, <3>1, Conversion
    <2>5. ~x.answered BY <1>2, <2>1 DEF ExchangeInv
    <2>6. ExchangeInv(x)'
      BY <1>5, <2>1, <2>2, <2>3, <2>4, <2>5 DEF ExchangeInv
    <2>7. ClientInv'
      BY <1>2, <1>4, <2>1, <2>2
         DEF ClientInv, TakenBetween, OffsetAccurate, OffsetWithinBounds
    <2> QED BY <2>6, <2>7
  <1>15. CASE SyncFails(Owner)
    <2>1. /\ x' = NoExchange /\ x.pc = "answered"
          /\ UNCHANGED <<now, client, heard>>
      BY <1>15, <1>1, <1>2 DEF x, SyncFails, TypeOK
    <2>2. x'.pc = "idle" /\ ~x'.answered BY <2>1 DEF NoExchange
    <2>3. ExchangeInv(x)' BY <2>2 DEF ExchangeInv
    <2>4. ClientInv'
      BY <1>2, <1>4, <2>1, <2>2
         DEF ClientInv, TakenBetween, OffsetAccurate, OffsetWithinBounds
    <2> QED BY <2>3, <2>4
  <1>16. CASE SetOffset(Owner)
    <2> DEFINE offset == Offset(x.t1, ntp_to_ns(x.t2), ntp_to_ns(x.t3), x.t4)
    <2>1. /\ x' = [x EXCEPT !.pc = "set_local"] /\ x.pc = "set_offset"
          /\ client' = [client EXCEPT !.time_offset_ns = offset]
          /\ heard' = [t1 |-> x.t1, t4 |-> x.t4, answered |-> x.answered]
          /\ now' = now
      BY <1>16, <1>1, <1>2 DEF x, SetOffset, TypeOK
    <2>2. /\ x'.pc = "set_local" /\ x'.t1 = x.t1 /\ x'.t4 = x.t4
          /\ x'.t2 = x.t2 /\ x'.t3 = x.t3 /\ x'.answered = x.answered
      BY <2>1, <1>2 DEF Exchanges
    <2>3. /\ client'.time_offset_ns = offset
          /\ client'.is_synced = client.is_synced
          /\ client'.last_sync_local_time = client.last_sync_local_time
      BY <2>1, <1>1 DEF TypeOK, Clients
    <2>4. x.answered => /\ 2 * (offset - Theta) <= x.t4 - x.t1
                        /\ 2 * (Theta - offset) <= x.t4 - x.t1 + 3
      BY <1>2, <1>5, <2>1, OffsetBounds DEF ExchangeInv, TakenBetween
    <2> HIDE DEF offset
    <2>5. heard'.answered => OffsetWithinBounds'
      BY <2>1, <2>3, <2>4 DEF OffsetWithinBounds
    <2>6. ExchangeInv(x)'
      BY <1>2, <2>1, <2>2, <2>5 DEF ExchangeInv, TakenBetween
    <2>7. ClientInv'
      BY <1>2, <1>4, <2>1, <2>2, <2>3, <2>5 DEF ClientInv, OffsetAccurate
    <2> QED BY <2>6, <2>7
  <1>17. CASE SetLocalTime(Owner)
    <2>1. /\ x' = [x EXCEPT !.pc = "set_time"] /\ x.pc = "set_local"
          /\ client' = [client EXCEPT !.last_sync_local_time = x.t4]
          /\ UNCHANGED <<now, heard>>
      BY <1>17, <1>1, <1>2 DEF x, SetLocalTime, TypeOK
    <2>2. /\ x'.pc = "set_time" /\ x'.t1 = x.t1 /\ x'.t4 = x.t4
          /\ x'.t2 = x.t2 /\ x'.t3 = x.t3 /\ x'.answered = x.answered
      BY <2>1, <1>2 DEF Exchanges
    <2>3. /\ client'.time_offset_ns = client.time_offset_ns
          /\ client'.is_synced = client.is_synced
          /\ client'.last_sync_local_time = x.t4
      BY <2>1, <1>1 DEF TypeOK, Clients
    <2>4. ExchangeInv(x)'
      BY <1>2, <2>1, <2>2, <2>3
         DEF ExchangeInv, TakenBetween, OffsetWithinBounds
    <2>5. ClientInv'
      BY <1>2, <1>4, <2>1, <2>2, <2>3
         DEF ExchangeInv, ClientInv, OffsetAccurate, OffsetWithinBounds
    <2> QED BY <2>4, <2>5
  <1>18. CASE SetServerTime(Owner)
    <2>1. /\ x' = NoExchange /\ x.pc = "set_time"
          /\ client' = [client EXCEPT !.last_sync_time = x.t3,
                                      !.is_synced = TRUE]
          /\ UNCHANGED <<now, heard>>
      BY <1>18, <1>1, <1>2 DEF x, SetServerTime, TypeOK
    <2>2. x'.pc = "idle" /\ ~x'.answered BY <2>1 DEF NoExchange
    <2>3. /\ client'.time_offset_ns = client.time_offset_ns
          /\ client'.last_sync_time = x.t3
          /\ client'.last_sync_local_time = client.last_sync_local_time
      BY <2>1, <1>1 DEF TypeOK, Clients
    <2>4. ExchangeInv(x)' BY <2>2 DEF ExchangeInv
    <2>5. /\ client.last_sync_local_time = x.t4 /\ x.t4 <= now
          /\ heard = [t1 |-> x.t1, t4 |-> x.t4, answered |-> x.answered]
          /\ heard.answered => OffsetWithinBounds
          /\ Second <= ntp_to_ns(x.t3) /\ ntp_to_ns(x.t3) <= x.t4 + Theta
          /\ x.answered => TakenBetween(x.t3, x.t1, x.t4)
      BY <1>2, <2>1 DEF ExchangeInv
    <2>6. ClientInv'
      BY <2>1, <2>3, <2>5
         DEF ClientInv, OffsetAccurate, OffsetWithinBounds, TakenBetween
    <2> QED BY <2>4, <2>6
  <1> QED
    BY <1>2, <1>6, <1>7, <1>8, <1>9, <1>11, <1>12, <1>13, <1>14, <1>15,
       <1>16, <1>17, <1>18 DEF Next

-----------------------------------------------------------------------------

(* The fields of the client keep their types and widths however many       *)
(* threads use it, up to the end of the NTP era.                           *)
THEOREM TypeCorrect == Spec => []TypeOK
  <1>1. Init => TypeOK BY InitInvariant DEF IInv
  <1> QED BY <1>1, TypeStep, PTL DEF Spec

(* With one thread the invariant holds throughout. *)
THEOREM Invariance == ASSUME Threads = {Owner} PROVE Spec => []IInv
  <1>1. IInv /\ [Next]_vars => IInv' BY StepInvariant
  <1> QED BY <1>1, InitInvariant, PTL DEF Spec

(* The offset after an answered exchange is right to within half the round *)
(* trip and three halves of a nanosecond.                                  *)
THEOREM OffsetIsAccurate ==
    ASSUME Threads = {Owner} PROVE Spec => []OffsetAccurate
  <1>1. IInv => OffsetAccurate
    BY DEF IInv, ClientInv, OffsetAccurate
  <1> QED BY <1>1, Invariance, PTL

(* What the clock is computed from stays in the range that converts well,  *)
(* at most as far as the server's own clock.                               *)
LEMMA ClockRange ==
    ASSUME IInv, client.is_synced, Quiet
    PROVE  LET sum == ntp_to_ns(client.last_sync_time)
                        + (now - client.last_sync_local_time)
           IN  /\ sum \in Nat /\ sum >= Second /\ sum <= now + Theta
               /\ sum <= Theta + MaxTime
               /\ ntp_to_ns(CurrentTime) \in {sum - 1, sum}
               /\ heard.answered =>
                    sum >= now + Theta - 1 - (heard.t4 - heard.t1)
  <1> DEFINE sum == ntp_to_ns(client.last_sync_time)
                      + (now - client.last_sync_local_time)
  <1>1. /\ now \in Nat /\ Theta \in Nat /\ Second \in Nat /\ now <= MaxTime
        /\ client.last_sync_local_time \in Nat
        /\ ntp_to_ns(client.last_sync_time) \in Nat
        /\ heard.t1 \in Nat /\ heard.t4 \in Nat /\ MaxTime \in Nat
    BY Constants, Numbers, Fields DEF IInv
  <1>2. /\ client.last_sync_local_time <= now
        /\ Second <= ntp_to_ns(client.last_sync_time)
        /\ ntp_to_ns(client.last_sync_time)
             <= client.last_sync_local_time + Theta
        /\ heard.answered =>
             /\ client.last_sync_local_time = heard.t4
             /\ heard.t1 + Theta - 1 <= ntp_to_ns(client.last_sync_time)
    BY DEF IInv, ClientInv, TakenBetween
  <1>3. /\ sum \in Nat /\ sum >= Second /\ sum <= now + Theta
        /\ sum <= Theta + MaxTime
        /\ heard.answered => sum >= now + Theta - 1 - (heard.t4 - heard.t1)
    BY <1>1, <1>2, SMT
  <1>4. CurrentTime = ns_to_ntp(sum) BY DEF CurrentTime
  <1> HIDE DEF sum
  <1>5. ntp_to_ns(CurrentTime) \in {sum - 1, sum}
    BY <1>3, <1>4, Conversion
  <1> QED BY <1>3, <1>5 DEF sum

(* No stamp taken from the client's clock is ahead of the server's clock,  *)
(* even when the reply was lost.                                           *)
THEOREM NeverLeads ==
    ASSUME Threads = {Owner} PROVE Spec => []ClockNeverLeads
  <1>1. IInv => ClockNeverLeads
    <2> SUFFICES ASSUME IInv, client.is_synced, Quiet
                 PROVE  ntp_to_ns(CurrentTime) <= now + Theta
      BY DEF ClockNeverLeads
    <2>1. now \in Nat /\ Theta \in Nat BY Constants DEF IInv, TypeOK
    <2> QED BY <2>1, ClockRange, SMT
  <1> QED BY <1>1, Invariance, PTL

(* After an answered exchange the clock lags the server's by the round     *)
(* trip and two nanoseconds at most, however long ago that was.            *)
THEOREM LagBounded ==
    ASSUME Threads = {Owner} PROVE Spec => []ClockLagBounded
  <1>1. IInv => ClockLagBounded
    <2> SUFFICES ASSUME IInv, client.is_synced, heard.answered, Quiet
                 PROVE  now + Theta - ntp_to_ns(CurrentTime)
                          <= heard.t4 - heard.t1 + 2
      BY DEF ClockLagBounded
    <2>1. now \in Nat /\ Theta \in Nat /\ heard.t1 \in Nat /\ heard.t4 \in Nat
      BY Constants DEF IInv, TypeOK
    <2> QED BY <2>1, ClockRange, SMT
  <1> QED BY <1>1, Invariance, PTL

=============================================================================
