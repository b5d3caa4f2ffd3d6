----------------------------- MODULE Clockdiff -----------------------------
(***************************************************************************)
(* clockdiff: measure() and measure_inner_loop().                          *)
(*                                                                         *)
(* Time is real time in ms; the clock of this host shows it modulo a day,  *)
(* the clock of the other host is `offset' ahead.  Probes and answers are    *)
(* delayed up to MaxDelay each way, lost, duplicated and reordered.  The   *)
(* round-trip estimate only sets the timeout of ppoll(), which may expire  *)
(* at any moment here.                                                     *)
(***************************************************************************)
EXTENDS Integers

CONSTANTS
    Day,            \* MODULO; BIASP is half of it minus one, BIASN minus half
    Settings,       \* time of day, offset and -o of the measurements
    MaxDelay,       \* bound on the delay in one direction
    Msgs,           \* MSGS
    Trials,         \* TRIALS
    MaxTime,        \* bound on real time
    MaxSeq          \* bound on seqno

BIASP == (Day \div 2) - 1
BIASN == -(Day \div 2)

\* "the two machine's clocks must be within 12 hours from each other"
ASSUME ClockAssumption ==
    /\ Day \in Nat /\ Day > 0 /\ Day % 2 = 0
    /\ MaxDelay \in Nat
    /\ \A s \in Settings :
          /\ s.start \in 0 .. Day - 1 /\ s.stamped \in BOOLEAN /\ s.offset \in Int
          /\ s.offset + MaxDelay <= BIASP /\ MaxDelay - s.offset <= BIASP
          /\ s.offset >= BIASN
    /\ Msgs \in Nat \ {0} /\ Trials \in Nat \ {0}
    /\ MaxTime \in Nat /\ MaxSeq \in Nat

Infinity == 4 * Day         \* 0x7fffffff

VARIABLES
    setting,        \* local time of day at the start, what is to be measured, and
                    \* whether -o asks for IP timestamps instead of ICMP ones
    pc,             \* "send", "recv", or the result of measure()
    now,            \* real time
    seqno, acked, msgcount,
    min1, min2, min_rtt, measure_delta, measure_delta1,
    probes,         \* environment: probes on their way
    answers,        \* environment: answers on their way
    heard           \* history: sequence numbers of the replies accepted

vars == <<setting, pc, now, seqno, acked, msgcount, min1, min2, min_rtt,
          measure_delta, measure_delta1, probes, answers, heard>>
minima == <<min1, min2, min_rtt, measure_delta1>>

\* The last two are both -1.
Results == {"good", "hostdown", "unreachable", "nonstdtime", "failed", "wrongstamps"}

Local(t)  == (setting.start + t) % Day
Remote(t) == Local(t + setting.offset)

Init ==
    /\ setting \in Settings
    /\ pc = "send" /\ now = 0
    /\ seqno = 0 /\ acked = 0 /\ msgcount = 0
    /\ min1 = Infinity /\ min2 = Infinity /\ min_rtt = Infinity
    /\ measure_delta = Infinity /\ measure_delta1 = Infinity
    /\ probes = {} /\ answers = {} /\ heard = {}
---------------------------------------------------------------------------
(***************************************************************************)
(* The arithmetic                                                          *)
(***************************************************************************)
\* C division truncates towards zero.
Half(x) == IF x >= 0 THEN x \div 2 ELSE -((-x) \div 2)

\* Wrong variant: a difference across midnight is taken as it is.
AcrossMidnight_Not(delta) == delta

\* Handles wrap-around at midnight.
AcrossMidnight(delta) ==
    IF delta < BIASN THEN delta + Day
    ELSE IF delta > BIASP THEN delta - Day
    ELSE delta

Lower(a, b) == IF a < b THEN a ELSE b

\* The four timestamps of the IP option are combined with &, not with &&: they
\* are wrong as well if they have no bit in common.
Bit(x, k) == (x \div 2 ^ k) % 2
WrongTimestamps(send, his, recv) ==
    \A k \in 0 .. 30 : 0 \in {Bit(send, k), Bit(his, k), Bit(recv, k)}
---------------------------------------------------------------------------
(***************************************************************************)
(* measure()                                                               *)
(***************************************************************************)
HostDown ==
    /\ pc = "send" /\ msgcount < Msgs /\ seqno - acked > Trials
    /\ pc' = "hostdown"
    /\ UNCHANGED <<setting, now, seqno, acked, msgcount, minima, measure_delta, probes,
                   answers, heard>>

Send ==
    /\ pc = "send" /\ msgcount < Msgs /\ seqno - acked <= Trials
    /\ seqno < MaxSeq
    /\ seqno' = seqno + 1
    /\ \/ /\ pc' = "recv"
          /\ probes' = probes \cup {[seq |-> seqno', sent |-> now]}
       \/ pc' = "unreachable" /\ UNCHANGED probes
    /\ UNCHANGED <<setting, now, acked, msgcount, minima, measure_delta, answers, heard>>

Good ==
    /\ pc = "send" /\ msgcount >= Msgs
    /\ pc' = "good"
    /\ measure_delta' = Half(min1 - min2)
    /\ UNCHANGED <<setting, now, seqno, acked, msgcount, minima, probes, answers, heard>>
---------------------------------------------------------------------------
(***************************************************************************)
(* measure_inner_loop()                                                    *)
(***************************************************************************)
\* ppoll() times out: BREAK, the next probe is due.
PollTimeout ==
    /\ pc = "recv"
    /\ pc' = "send"
    /\ UNCHANGED <<setting, now, seqno, acked, msgcount, minima, measure_delta, probes,
                   answers, heard>>

RecvFails ==
    /\ pc = "recv"
    /\ pc' = "failed"
    /\ UNCHANGED <<setting, now, seqno, acked, msgcount, minima, measure_delta, probes,
                   answers, heard>>

\* Wrong variant: a late answer moves acked backwards.
Acknowledge_Any(seq) == acked' = seq /\ heard' = heard \cup {seq}

Acknowledge(seq) ==
    /\ acked' = IF acked < seq THEN seq ELSE acked
    /\ heard' = heard \cup {seq}

\* Wrong variant: the last answer instead of the smallest.
Minimise_LastWins(delta1, delta2, diff) ==
    /\ min1' = delta1
    /\ min2' = delta2
    /\ min_rtt' = Lower(min_rtt, delta1 + delta2)
    /\ measure_delta1' = IF delta1 + delta2 < min_rtt THEN Half(delta1 - delta2)
                                                      ELSE measure_delta1
    /\ pc' = IF diff < 1 THEN "send" ELSE "recv"

\* The answer's time is used for both directions; a round trip below RANGE,
\* which means below one millisecond, overrides all others and ends the wait.
Minimise(delta1, delta2, diff) ==
    /\ min1' = IF diff < 1 THEN delta1 ELSE Lower(min1, delta1)
    /\ min2' = IF diff < 1 THEN delta2 ELSE Lower(min2, delta2)
    /\ min_rtt' = Lower(min_rtt, delta1 + delta2)
    /\ measure_delta1' = IF delta1 + delta2 < min_rtt THEN Half(delta1 - delta2)
                                                      ELSE measure_delta1
    /\ pc' = IF diff < 1 THEN "send" ELSE "recv"

\* Any probe sent so far may be answered: seqno0 stays 0.  With a negative
\* round trip (midnight passed) the answer is acknowledged and dropped.
Receive(r) ==
    /\ pc = "recv" /\ r.seq <= seqno
    /\ Acknowledge(r.seq)
    /\ LET sendtime == Local(r.sent)
           histime  == Remote(r.his)
           recvtime == Local(now)
           diff     == recvtime - sendtime
       IN  \/ /\ setting.stamped /\ WrongTimestamps(sendtime, histime, recvtime)
              /\ pc' = "wrongstamps"
              /\ UNCHANGED <<msgcount, minima>>
           \/ /\ ~(setting.stamped /\ WrongTimestamps(sendtime, histime, recvtime))
              /\ diff < 0
              /\ UNCHANGED <<pc, msgcount, minima>>
           \/ /\ ~(setting.stamped /\ WrongTimestamps(sendtime, histime, recvtime))
              /\ diff >= 0 /\ msgcount <= Msgs
              /\ msgcount' = msgcount + 1
              /\ Minimise(AcrossMidnight(histime - sendtime),
                          AcrossMidnight(recvtime - histime), diff)
    /\ UNCHANGED <<setting, now, seqno, measure_delta, probes, answers>>

\* The high bit of the host's time: it does not count ms since midnight UT.
\* The ICMP timestamp is looked at after the message is counted, those of the
\* IP option before.
Nonstandard(r) ==
    /\ pc = "recv" /\ r.seq <= seqno
    /\ Acknowledge(r.seq)
    /\ setting.stamped \/ Local(now) >= Local(r.sent)
    /\ msgcount' = IF setting.stamped THEN msgcount ELSE msgcount + 1
    /\ pc' = "nonstdtime"
    /\ UNCHANGED <<setting, now, seqno, minima, measure_delta, probes, answers>>

\* Somebody else's ICMP message: CONTINUE.
Ignore == pc = "recv" /\ UNCHANGED vars
---------------------------------------------------------------------------
(***************************************************************************)
(* The other host, the network and time                                    *)
(***************************************************************************)
Answer(p) ==
    /\ now <= p.sent + MaxDelay
    /\ answers' = answers \cup {[seq |-> p.seq, sent |-> p.sent, his |-> now]}
    /\ UNCHANGED <<setting, pc, now, seqno, acked, msgcount, minima, measure_delta,
                   probes, heard>>

Tick ==
    /\ pc \notin Results /\ now < MaxTime
    /\ now' = now + 1
    /\ probes' = {p \in probes : now' <= p.sent + MaxDelay}
    /\ answers' = {r \in answers : now' <= r.his + MaxDelay}
    /\ UNCHANGED <<setting, pc, seqno, acked, msgcount, minima, measure_delta, heard>>

\* The end, or the model's bound on probes.
Ended == (pc \in Results \/ seqno = MaxSeq) /\ UNCHANGED vars

Next ==
    \/ HostDown \/ Send \/ Good \/ PollTimeout \/ RecvFails \/ Ignore
    \/ \E r \in answers : Receive(r) \/ Nonstandard(r)
    \/ pc \notin Results /\ \E p \in probes : Answer(p)
    \/ Tick \/ Ended

Spec == Init /\ [][Next]_vars
---------------------------------------------------------------------------
(***************************************************************************)
(* Properties                                                              *)
(***************************************************************************)
\* The minima of the two directions come from answers that were counted, and
\* together they never exceed the smallest round trip seen: an answer with a
\* round trip below RANGE may override them because nothing can beat it.
OneWayMinima ==
    min1 # Infinity =>
        /\ min1 >= setting.offset /\ min2 >= -setting.offset
        /\ min1 + min2 <= min_rtt

\* The result is the difference of the clocks, up to half the largest delay,
\* whichever answers were lost, late or repeated, and also when midnight
\* passes on either host during the measurement.
DeltaIsOffset ==
    pc = "good" => \A d \in {measure_delta, measure_delta1} :
        2 * (d - setting.offset) <= MaxDelay + 1 /\ 2 * (setting.offset - d) <= MaxDelay + 1

\* "is down": none of the last TRIALS + 1 probes was answered; in particular a
\* late answer to an old probe does not make the host look silent.
DownMeansSilent ==
    pc = "hostdown" => heard \cap (seqno - Trials .. seqno) = {}
=============================================================================
