------------------------------ MODULE NtpClient ------------------------------
(***************************************************************************)
(* The NTP client (src/src/ntp-client.c) that the encoders stamp frames by *)
(* and the receiver places them by.  A client is memory its threads share  *)
(* without a lock: an encoder's has one thread, the receiver's has two,    *)
(* the receive thread and the one OBS runs create and update on.           *)
(*                                                                         *)
(* now is os_gettime_ns, the time since boot; the server's clock, in Unix  *)
(* time, is ahead of it by the constant Theta.  Time passes between any    *)
(* two steps.  A message that is delayed for ever is a lost one; each      *)
(* exchange has its own socket, so a late reply is never read.             *)
(***************************************************************************)
EXTENDS Integers

CONSTANTS
    Threads,     \* the threads that exchange packets with the server
    Owner,       \* the one of them that initialises and destroys the client
    Second,      \* nanoseconds in a second
    Fraction,    \* fractions in a second, 2^32
    Era,         \* seconds an NTP timestamp counts before it wraps, 2^32
    Delta,       \* NTP_TIMESTAMP_DELTA, seconds from 1900 to 1970
    Theta,       \* the server's Unix time minus the local time
    MaxTime      \* bound on now

(* The fraction is finer than a nanosecond, the server's clock is past the *)
(* first second of 1970 and before the end of the NTP era, in 2036.  OBS   *)
(* runs later than one second after boot.                                  *)
ASSUME ConstantsAssumption ==
    /\ Owner \in Threads
    /\ {Second, Fraction, Era, Delta, MaxTime} \subseteq Nat \ {0}
    /\ Second <= Fraction
    /\ Second <= MaxTime
    /\ Theta \in Nat
    /\ Theta >= Second
    /\ (Theta + MaxTime) \div Second + Delta < Era

VARIABLES
    now,        \* the local clock
    client,     \* the ntp_client_t
    exchange,   \* for each thread, the exchange it is in
    heard       \* history: the exchange the client's offset was taken from

vars == <<now, client, exchange, heard>>

-----------------------------------------------------------------------------

Timestamps == [seconds : 0 .. Era - 1, fraction : 0 .. Fraction - 1]

ZeroTimestamp == [seconds |-> 0, fraction |-> 0]

(* Faulty: the fraction is taken of the whole time. *)
ns_to_ntpWhole(ns) ==
    [seconds  |-> (ns \div Second + Delta) % Era,
     fraction |-> (ns * Fraction) \div Second]

(* A local or Unix time as an NTP timestamp; the seconds have 32 bits. *)
ns_to_ntp(ns) ==
    [seconds  |-> (ns \div Second + Delta) % Era,
     fraction |-> ((ns % Second) * Fraction) \div Second]

(* An NTP timestamp as a Unix time. *)
ntp_to_ns(ntp) ==
    LET seconds == IF ntp.seconds > Delta THEN ntp.seconds - Delta
                                          ELSE ntp.seconds
    IN  seconds * Second + (ntp.fraction * Second) \div Fraction

(* The / of C on a signed number: towards zero. *)
Half(n) == IF n >= 0 THEN n \div 2 ELSE -((-n) \div 2)

(* Faulty: the time of arrival is left out. *)
OffsetOneWay(t1, t2, t3, t4) == t2 - t1

(* Half the sum of what the two directions say. *)
Offset(t1, t2, t3, t4) == Half((t2 - t1) + (t3 - t4))

(* A client all zero, as memset leaves it. *)
ZeroClient ==
    [is_initialized |-> FALSE, is_synced |-> FALSE, time_offset_ns |-> 0,
     last_sync_local_time |-> 0, last_sync_time |-> ZeroTimestamp]

(* Faulty: the offset is added, as the comment in the code has it. *)
CurrentTimePlusOffset ==
    ns_to_ntp(ntp_to_ns(client.last_sync_time)
              + (now - client.last_sync_local_time) + client.time_offset_ns)

(* ntp_client_get_time, of a synchronised client: the server's time at the *)
(* last exchange, and what has passed since.                               *)
CurrentTime ==
    ns_to_ntp(ntp_to_ns(client.last_sync_time)
              + (now - client.last_sync_local_time))

(* A thread outside ntp_client_sync. *)
NoExchange == [pc |-> "idle", t1 |-> 0, t2 |-> ZeroTimestamp,
               t3 |-> ZeroTimestamp, t4 |-> 0, answered |-> FALSE]

Init ==
    /\ now \in Second .. MaxTime
    /\ client = ZeroClient
    /\ exchange = [t \in Threads |-> NoExchange]
    /\ heard = [t1 |-> 0, t4 |-> 0, answered |-> FALSE]

-----------------------------------------------------------------------------

ntp_client_init(t) ==
    /\ t = Owner
    /\ exchange[t].pc = "idle"
    /\ client' = [ZeroClient EXCEPT !.is_initialized = TRUE]
    /\ UNCHANGED <<now, exchange, heard>>

ntp_client_destroy(t) ==
    /\ t = Owner
    /\ exchange[t].pc = "idle"
    /\ client' = ZeroClient
    /\ UNCHANGED <<now, exchange, heard>>

(* ntp_client_sync up to sendto: the packet holds T1 as its transmit time  *)
(* and zeros elsewhere.  A request that cannot be sent changes nothing.    *)
SendRequest(t) ==
    /\ exchange[t].pc = "idle"
    /\ client.is_initialized
    /\ exchange' = [exchange EXCEPT ![t] =
           [NoExchange EXCEPT !.pc = "sent", !.t1 = now,
                              !.t3 = ns_to_ntp(now)]]
    /\ UNCHANGED <<now, client, heard>>

(* The server takes the request and answers it, each at its own time. *)
ServerReceives(t) ==
    /\ exchange[t].pc = "sent"
    /\ exchange' = [exchange EXCEPT ![t].pc = "served",
                                    ![t].t2 = ns_to_ntp(now + Theta)]
    /\ UNCHANGED <<now, client, heard>>

ServerAnswers(t) ==
    /\ exchange[t].pc = "served"
    /\ exchange' = [exchange EXCEPT ![t].pc = "answered",
                                    ![t].t3 = ns_to_ntp(now + Theta)]
    /\ UNCHANGED <<now, client, heard>>

(* recvfrom returns the whole answer. *)
ReceiveReply(t) ==
    /\ exchange[t].pc = "answered"
    /\ exchange' = [exchange EXCEPT ![t].pc = "set_offset", ![t].t4 = now,
                                    ![t].answered = TRUE]
    /\ UNCHANGED <<now, client, heard>>

(* recvfrom returns -1, at its timeout or for an error, whatever became of *)
(* the messages: compared as unsigned with the size of a packet, that is   *)
(* taken for a full answer, and the request for its contents.              *)
ReceiveNothing(t) ==
    /\ exchange[t].pc \in {"sent", "served", "answered"}
    /\ exchange' = [exchange EXCEPT ![t] =
           [@ EXCEPT !.pc = "set_offset", !.t4 = now, !.t2 = ZeroTimestamp,
                     !.t3 = ns_to_ntp(exchange[t].t1)]]
    /\ UNCHANGED <<now, client, heard>>

(* The exchange ends without a sync: the answer is too short. *)
SyncFails(t) ==
    /\ exchange[t].pc = "answered"
    /\ exchange' = [exchange EXCEPT ![t] = NoExchange]
    /\ UNCHANGED <<now, client, heard>>

(* The four assignments to the client, in their order. *)
SetOffset(t) ==
    /\ exchange[t].pc = "set_offset"
    /\ LET x == exchange[t]
       IN  /\ client' = [client EXCEPT !.time_offset_ns =
                  Offset(x.t1, ntp_to_ns(x.t2), ntp_to_ns(x.t3), x.t4)]
           /\ heard' = [t1 |-> x.t1, t4 |-> x.t4, answered |-> x.answered]
    /\ exchange' = [exchange EXCEPT ![t].pc = "set_local"]
    /\ UNCHANGED now

(* Faulty: the local time is read again. *)
SetLocalTimeLate(t) ==
    /\ exchange[t].pc = "set_local"
    /\ client' = [client EXCEPT !.last_sync_local_time = now]
    /\ exchange' = [exchange EXCEPT ![t].pc = "set_time"]
    /\ UNCHANGED <<now, heard>>

SetLocalTime(t) ==
    /\ exchange[t].pc = "set_local"
    /\ client' = [client EXCEPT !.last_sync_local_time = exchange[t].t4]
    /\ exchange' = [exchange EXCEPT ![t].pc = "set_time"]
    /\ UNCHANGED <<now, heard>>

SetServerTime(t) ==
    /\ exchange[t].pc = "set_time"
    /\ client' = [client EXCEPT !.last_sync_time = exchange[t].t3,
                                !.is_synced = TRUE]
    /\ exchange' = [exchange EXCEPT ![t] = NoExchange]
    /\ UNCHANGED <<now, heard>>

Tick == now < MaxTime /\ now' = now + 1 /\ UNCHANGED <<client, exchange, heard>>

Next ==
    \/ Tick
    \/ \E t \in Threads :
          \/ ntp_client_init(t) \/ ntp_client_destroy(t)
          \/ SendRequest(t) \/ ServerReceives(t) \/ ServerAnswers(t)
          \/ ReceiveReply(t) \/ ReceiveNothing(t) \/ SyncFails(t)
          \/ SetOffset(t) \/ SetLocalTime(t) \/ SetServerTime(t)

Spec == Init /\ [][Next]_vars

-----------------------------------------------------------------------------
(* Properties.                                                             *)

Clients ==
    [is_initialized : BOOLEAN, is_synced : BOOLEAN, time_offset_ns : Int,
     last_sync_local_time : 0 .. MaxTime, last_sync_time : Timestamps]

Exchanges ==
    [pc : {"idle", "sent", "served", "answered", "set_offset", "set_local",
           "set_time"},
     t1 : 0 .. MaxTime, t2 : Timestamps, t3 : Timestamps, t4 : 0 .. MaxTime,
     answered : BOOLEAN]

(* The values the client and the exchanges take; the timestamps fit their  *)
(* 32 bit fields.                                                          *)
TypeOK ==
    /\ now \in Second .. MaxTime
    /\ client \in Clients
    /\ exchange \in [Threads -> Exchanges]
    /\ heard \in [t1 : 0 .. MaxTime, t4 : 0 .. MaxTime, answered : BOOLEAN]

(* No thread is between the first and the last assignment to the client.   *)
Quiet == \A t \in Threads : exchange[t].pc \notin {"set_local", "set_time"}

(* Half the round trip the offset was taken over, and the roundings.       *)
OffsetWithinBounds ==
    /\ 2 * (client.time_offset_ns - Theta) <= heard.t4 - heard.t1
    /\ 2 * (Theta - client.time_offset_ns) <= heard.t4 - heard.t1 + 3

(* What NTP promises: after an exchange the server answered, the offset is *)
(* the true one to within half the round trip, the rounding of the two     *)
(* timestamps and that of the division.  True is server minus local, as    *)
(* ntp-client.c:209 computes it and the receiver's line 653 uses it;       *)
(* ntp-client.h:92 documents the opposite sign (local minus NTP time).     *)
OffsetAccurate == client.is_synced /\ heard.answered => OffsetWithinBounds

(* The clock frames are stamped with is never ahead of the server's: a     *)
(* stamp names no time that is still to come.                              *)
ClockNeverLeads ==
    client.is_synced /\ Quiet => ntp_to_ns(CurrentTime) <= now + Theta

(* Nor is it behind, after an answered exchange, by more than the round    *)
(* trip and the rounding there and back.                                   *)
ClockLagBounded ==
    client.is_synced /\ heard.answered /\ Quiet =>
        now + Theta - ntp_to_ns(CurrentTime) <= heard.t4 - heard.t1 + 2

(* ntp-client.c:194, "recvfrom failed or incomplete packet", and           *)
(* ntp-client.h:75, true when the sync succeeded: a client is synchronised *)
(* by an answer of the server.                                             *)
SyncedMeansAnswered == client.is_synced /\ Quiet => heard.answered

-----------------------------------------------------------------------------
(* The inductive invariant behind the first three, when one thread uses    *)
(* the client.                                                             *)

(* A timestamp the server took between the local times t1 and t4. *)
TakenBetween(ntp, t1, t4) ==
    /\ t1 + Theta - 1 <= ntp_to_ns(ntp)
    /\ ntp_to_ns(ntp) <= t4 + Theta

(* What an exchange holds at each of its places; without an answer, the    *)
(* timestamp for the client is the request's own.                          *)
ExchangeInv(x) ==
    /\ x.pc # "idle" => Second <= x.t1 /\ x.t1 <= now
    /\ x.pc \in {"served", "answered"} => TakenBetween(x.t2, x.t1, now)
    /\ x.pc = "answered" => TakenBetween(x.t3, x.t1, now)
                            /\ ntp_to_ns(x.t3) >= Second
    /\ x.pc \in {"set_offset", "set_local", "set_time"} =>
         /\ x.t1 <= x.t4 /\ x.t4 <= now
         /\ Second <= ntp_to_ns(x.t3) /\ ntp_to_ns(x.t3) <= x.t4 + Theta
         /\ x.answered => /\ TakenBetween(x.t2, x.t1, x.t4)
                          /\ TakenBetween(x.t3, x.t1, x.t4)
    /\ x.pc \in {"set_local", "set_time"} =>
         /\ heard = [t1 |-> x.t1, t4 |-> x.t4, answered |-> x.answered]
         /\ heard.answered => OffsetWithinBounds
    /\ x.answered => x.pc \in {"set_offset", "set_local", "set_time"}
    /\ x.pc = "set_time" => client.last_sync_local_time = x.t4

(* What a synchronised client holds between two exchanges. *)
ClientInv ==
    client.is_synced =>
        /\ client.last_sync_local_time <= now
        /\ OffsetAccurate
        /\ Quiet => /\ Second <= ntp_to_ns(client.last_sync_time)
                    /\ ntp_to_ns(client.last_sync_time)
                         <= client.last_sync_local_time + Theta
                    /\ heard.answered =>
                         /\ client.last_sync_local_time = heard.t4
                         /\ TakenBetween(client.last_sync_time,
                                         heard.t1, heard.t4)

IInv ==
    /\ TypeOK
    /\ \A t \in Threads : ExchangeInv(exchange[t])
    /\ ClientInv

=============================================================================
