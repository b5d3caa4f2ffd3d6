-------------------------- MODULE Clockdiff_proofs --------------------------
(***************************************************************************)
(* Proofs about clockdiff: differences of times of day are exact although  *)
(* midnight may lie between them, and so is what measure() makes of them.  *)
(***************************************************************************)
EXTENDS Clockdiff, TLAPS

\* Division by a constant k > 0, of any integer.
LEMMA Division ==
    ASSUME NEW n \in Int, NEW k \in Nat \ {0}
    PROVE  \E q \in Int, r \in 0 .. k - 1 : q = n \div k /\ r = n % k /\ n = k * q + r
  <1>1. n \div k \in Int /\ n % k \in 0 .. k - 1
    OBVIOUS
  <1>2. PICK q \in Int, r \in 0 .. k - 1 : q = n \div k /\ r = n % k
    BY <1>1
  <1>3. n = k * q + r
    BY <1>2, SMTT(30)
  <1>4. QED BY <1>2, <1>3

\* Half() is off by less than one in the doubled value.
LEMMA HalfBounds ==
    ASSUME NEW x \in Int
    PROVE  Half(x) \in Int /\ x - 1 <= 2 * Half(x) /\ 2 * Half(x) <= x + 1
  BY DEF Half

\* The day has two halves.
LEMMA HalfDay ==
    \E h \in Nat \ {0} : Day = 2 * h /\ BIASP = h - 1 /\ BIASN = -h
  <1>1. Day \in Nat /\ Day > 0 /\ Day % 2 = 0
    BY ClockAssumption
  <1>2. PICK h \in Int : h = Day \div 2
    BY <1>1
  <1>3. Day = 2 * h
    BY <1>1, <1>2
  <1>4. h \in Nat \ {0}
    BY <1>1, <1>3
  <1>5. QED BY <1>2, <1>3, <1>4 DEF BIASP, BIASN

\* Two moments less than half a day apart: the difference of their times of day
\* is their distance, at midnight as well.
LEMMA DistanceIsExact ==
    ASSUME NEW x \in Int, NEW y \in Int, BIASN <= x - y, x - y <= BIASP
    PROVE  AcrossMidnight((x % Day) - (y % Day)) = x - y
  <1>1. PICK h \in Nat \ {0} : Day = 2 * h /\ BIASP = h - 1 /\ BIASN = -h
    BY HalfDay
  <1>2. Day \in Nat \ {0}
    BY <1>1
  <1>3. PICK a \in Int, r \in 0 .. Day - 1 : r = x % Day /\ x = Day * a + r
    BY <1>2, Division
  <1>4. PICK b \in Int, s \in 0 .. Day - 1 : s = y % Day /\ y = Day * b + s
    BY <1>2, Division
  <1>5. PICK k \in Int : k = a - b
    OBVIOUS
  <1>6. x - y = Day * k + (r - s)
    BY <1>2, <1>3, <1>4, <1>5
  <1>r. r \in Int /\ s \in Int /\ r - s < Day /\ s - r < Day
    BY <1>1, <1>3, <1>4
  <1>7. k < 2
    <2> SUFFICES ASSUME k >= 2 PROVE FALSE
      OBVIOUS
    <2>1. PICK c \in Nat : c = k - 2
      OBVIOUS
    <2>2. Day * k = 2 * Day + Day * c /\ Day * c \in Nat
      BY <1>2, <2>1
    <2>3. PICK p \in Int, q \in Nat : p = Day * k /\ q = Day * c
      BY <1>2, <2>2
    <2>4. p = 2 * Day + q
      BY <2>2, <2>3
    <2>5. QED BY <1>1, <1>6, <1>r, <2>3, <2>4
  <1>8. k > -2
    <2> SUFFICES ASSUME k <= -2 PROVE FALSE
      OBVIOUS
    <2>1. PICK c \in Nat : c = -2 - k
      OBVIOUS
    <2>2. Day * (-2 - c) = -(2 * Day) - Day * c /\ Day * c \in Nat /\ k = -2 - c
      BY <1>2, <2>1
    <2>3. PICK p \in Int, q \in Nat : p = Day * k /\ q = Day * c
      BY <1>2, <2>2
    <2>4. p = -(2 * Day) - q
      BY <2>2, <2>3
    <2>5. QED BY <1>1, <1>6, <1>r, <2>3, <2>4
  <1>9. k = -1 \/ k = 0 \/ k = 1
    BY <1>7, <1>8
  <1>10. x - y = r - s \/ x - y = r - s + Day \/ x - y = r - s - Day
    BY <1>1, <1>3, <1>4, <1>6, <1>9
  <1>11. AcrossMidnight(r - s) = x - y
    BY <1>1, <1>3, <1>4, <1>10 DEF AcrossMidnight
  <1>12. x % Day = r /\ y % Day = s
    BY <1>3, <1>4
  <1>13. QED BY <1>11, <1>12, Zenon

\* So a measured difference without midnight in between is exact, too.
LEMMA SameDay ==
    ASSUME NEW x \in Int, NEW y \in Int, 0 <= x - y, x - y < Day,
           (x % Day) - (y % Day) >= 0
    PROVE  (x % Day) - (y % Day) = x - y
  <1>1. Day \in Nat \ {0}
    BY HalfDay
  <1>2. PICK a \in Int, r \in 0 .. Day - 1 : r = x % Day /\ x = Day * a + r
    BY <1>1, Division
  <1>3. PICK b \in Int, s \in 0 .. Day - 1 : s = y % Day /\ y = Day * b + s
    BY <1>1, Division
  <1>4. PICK k \in Int : k = a - b
    OBVIOUS
  <1>5. x - y = Day * k + (r - s)
    BY <1>1, <1>2, <1>3, <1>4
  <1>m. x % Day = r /\ y % Day = s
    BY <1>2, <1>3
  <1>g. 0 <= r - s
    <2>1. r - s >= 0
      BY <1>m, Zenon
    <2>2. QED BY <1>2, <1>3, <2>1
  <1>r. r \in Int /\ s \in Int /\ 0 <= r - s /\ r - s < Day
    BY <1>1, <1>2, <1>3, <1>g
  <1>6. k < 1
    <2> SUFFICES ASSUME k >= 1 PROVE FALSE
      OBVIOUS
    <2>1. PICK c \in Nat : c = k - 1
      OBVIOUS
    <2>2. Day * k = Day + Day * c /\ Day * c \in Nat
      BY <1>1, <2>1
    <2>3. PICK p \in Int, q \in Nat : p = Day * k /\ q = Day * c
      BY <1>1, <2>2
    <2>4. p = Day + q
      BY <2>2, <2>3
    <2>5. QED BY <1>1, <1>5, <1>r, <2>3, <2>4
  <1>7. k > -1
    <2> SUFFICES ASSUME k <= -1 PROVE FALSE
      OBVIOUS
    <2>1. PICK c \in Nat : c = -1 - k
      OBVIOUS
    <2>2. Day * (-1 - c) = -Day - Day * c /\ Day * c \in Nat /\ k = -1 - c
      BY <1>1, <2>1
    <2>3. PICK p \in Int, q \in Nat : p = Day * k /\ q = Day * c
      BY <1>1, <2>2
    <2>4. p = -Day - q
      BY <2>2, <2>3
    <2>5. QED BY <1>1, <1>5, <1>r, <2>3, <2>4
  <1>8. k = 0
    BY <1>6, <1>7
  <1>9. r - s = x - y
    BY <1>1, <1>5, <1>8
  <1>10. QED BY <1>9, <1>m, Zenon
---------------------------------------------------------------------------
(***************************************************************************)
(* What is under way, and what has been heard                              *)
(***************************************************************************)
\* Probes and answers carry numbers up to the last and take at most MaxDelay
\* each way; t is now.
ProbeOK(p, last, t) ==
    /\ p.seq \in 1 .. last /\ p.sent \in 0 .. t
    /\ t <= p.sent + MaxDelay

AnswerOK(r, last, t) ==
    /\ r.seq \in 1 .. last /\ r.sent \in 0 .. t /\ r.his \in r.sent .. t
    /\ r.his <= r.sent + MaxDelay /\ t <= r.his + MaxDelay

\* No answer to a probe later than acked was accepted.
ClockTypes ==
    /\ setting \in Settings
    /\ pc \in {"send", "recv"} \cup Results
    /\ now \in Nat /\ seqno \in Nat /\ acked \in 0 .. seqno /\ msgcount \in Nat
    /\ \A p \in probes : ProbeOK(p, seqno, now)
    /\ \A r \in answers : AnswerOK(r, seqno, now)
    /\ \A s \in heard : s \in 1 .. acked
    /\ pc = "hostdown" => seqno - acked > Trials

\* An answer is handled: its number was sent, and nothing else changes but what
\* is heard and where the program stands.
LEMMA AcknowledgeKeeps ==
    ASSUME ClockTypes, NEW r \in answers, Acknowledge(r.seq),
           pc' \in {"send", "recv", "wrongstamps", "nonstdtime"}, msgcount' \in Nat,
           UNCHANGED <<setting, now, seqno, probes, answers>>
    PROVE  ClockTypes'
  <1>1. r.seq \in 1 .. seqno
    BY DEF ClockTypes, AnswerOK
  <1>2. acked' \in 0 .. seqno /\ acked <= acked' /\ r.seq <= acked'
    BY <1>1 DEF ClockTypes, Acknowledge
  <1>3. \A s \in heard' : s \in 1 .. acked'
    BY <1>1, <1>2 DEF ClockTypes, Acknowledge
  <1>4. (\A p \in probes : ProbeOK(p, seqno, now))' /\ (\A q \in answers : AnswerOK(q, seqno, now))'
    BY DEF ClockTypes, ProbeOK, AnswerOK
  <1>5. QED BY <1>2, <1>3, <1>4 DEF ClockTypes, Results

\* The types of clockdiff, with the delays of what is under way.
THEOREM ClockTypesCorrect == Spec => []ClockTypes
  <1> USE ClockAssumption
  <1>1. Init => ClockTypes
    BY DEF Init, ClockTypes
  <1>2. ClockTypes /\ [Next]_vars => ClockTypes'
    <2> SUFFICES ASSUME ClockTypes, [Next]_vars PROVE ClockTypes'
      OBVIOUS
    <2>0. ASSUME UNCHANGED <<seqno, now, probes, answers>>
          PROVE  (\A p \in probes : ProbeOK(p, seqno, now))' /\ (\A r \in answers : AnswerOK(r, seqno, now))'
      BY <2>0 DEF ClockTypes, ProbeOK, AnswerOK
    <2>1. CASE HostDown
      BY <2>0, <2>1 DEF HostDown, ClockTypes, Results
    <2>2. CASE Send
      <3>1. seqno' = seqno + 1 /\ UNCHANGED <<setting, now, acked, msgcount, answers, heard>>
        BY <2>2 DEF Send
      <3>2. seqno \in Nat /\ now \in Nat /\ MaxDelay \in Nat
        BY DEF ClockTypes
      <3>3. \A p \in probes : ProbeOK(p, seqno', now)
        BY <3>1, <3>2 DEF ClockTypes, ProbeOK
      <3>4. \A r \in answers : AnswerOK(r, seqno', now)
        BY <3>1, <3>2 DEF ClockTypes, AnswerOK
      <3>5. ProbeOK([seq |-> seqno', sent |-> now], seqno', now)
        BY <3>1, <3>2 DEF ProbeOK
      <3>6. probes' \subseteq probes \cup {[seq |-> seqno', sent |-> now]}
        BY <2>2 DEF Send
      <3>7. pc' \in {"recv", "unreachable"}
        BY <2>2 DEF Send
      <3>8. (\A p \in probes : ProbeOK(p, seqno, now))' /\ (\A r \in answers : AnswerOK(r, seqno, now))'
        BY <3>1, <3>3, <3>4, <3>5, <3>6
      <3>9. QED BY <3>1, <3>7, <3>8 DEF ClockTypes, Results
    <2>3. CASE Good
      BY <2>0, <2>3 DEF Good, ClockTypes, Results
    <2>4. CASE PollTimeout \/ RecvFails
      BY <2>0, <2>4 DEF PollTimeout, RecvFails, ClockTypes, Results
    <2>5. ASSUME NEW r \in answers, Receive(r)
          PROVE  ClockTypes'
      <3>1. pc' \in {"send", "recv", "wrongstamps"} /\ msgcount' \in Nat
        BY <2>5 DEF Receive, Minimise, ClockTypes
      <3>2. QED BY <2>5, <3>1, AcknowledgeKeeps DEF Receive
    <2>6. ASSUME NEW r \in answers, Nonstandard(r)
          PROVE  ClockTypes'
      <3>1. pc' = "nonstdtime" /\ msgcount' \in Nat
        BY <2>6 DEF Nonstandard, ClockTypes
      <3>2. QED BY <2>6, <3>1, AcknowledgeKeeps DEF Nonstandard
    <2>7. ASSUME NEW p \in probes, Answer(p)
          PROVE  ClockTypes'
      <3> DEFINE a == [seq |-> p.seq, sent |-> p.sent, his |-> now]
      <3>1. ProbeOK(p, seqno, now) /\ now \in Nat /\ MaxDelay \in Nat
        BY DEF ClockTypes
      <3>2. AnswerOK(a, seqno, now)
        BY <2>7, <3>1 DEF Answer, ProbeOK, AnswerOK
      <3>3. \A r \in answers \cup {a} : AnswerOK(r, seqno, now)
        BY <3>2 DEF ClockTypes
      <3>4. (\A q \in probes : ProbeOK(q, seqno, now))' /\ (\A r \in answers : AnswerOK(r, seqno, now))'
        BY <2>7, <3>3 DEF Answer, ClockTypes, ProbeOK, AnswerOK
      <3>5. QED BY <2>7, <3>4 DEF Answer, ClockTypes
    <2>8. CASE Tick
      <3>1. /\ now' = now + 1 /\ UNCHANGED <<setting, pc, seqno, acked, msgcount, heard>>
            /\ probes' = {p \in probes : now' <= p.sent + MaxDelay}
            /\ answers' = {r \in answers : now' <= r.his + MaxDelay}
        BY <2>8 DEF Tick
      <3>2. now \in Nat /\ now' \in Nat
        BY <3>1 DEF ClockTypes
      <3>3. (\A p \in probes : ProbeOK(p, seqno, now))'
        BY <3>1, <3>2 DEF ClockTypes, ProbeOK
      <3>4. (\A r \in answers : AnswerOK(r, seqno, now))'
        BY <3>1, <3>2 DEF ClockTypes, AnswerOK
      <3>5. QED BY <3>1, <3>2, <3>3, <3>4 DEF ClockTypes
    <2>9. CASE UNCHANGED vars
      BY <2>0, <2>9 DEF vars, ClockTypes
    <2>10. QED
      BY <2>1, <2>2, <2>3, <2>4, <2>5, <2>6, <2>7, <2>8, <2>9 DEF Next, Ignore, Ended
  <1>3. QED BY <1>1, <1>2, PTL DEF Spec

\* measure(): a host is called down only if none of the last TRIALS + 1 probes
\* was answered, also if late answers to older ones came in any order.
THEOREM SilenceIsMeant == Spec => []DownMeansSilent
  <1>1. ClockTypes => DownMeansSilent
    BY ClockAssumption DEF ClockTypes, DownMeansSilent
  <1>2. QED BY <1>1, ClockTypesCorrect, PTL
---------------------------------------------------------------------------
(***************************************************************************)
(* The minima                                                              *)
(***************************************************************************)
\* The error of a difference: half the largest delay.
Near(d) ==
    2 * (d - setting.offset) <= MaxDelay + 1 /\ 2 * (setting.offset - d) <= MaxDelay + 1

\* Minima exist as soon as an answer was counted, and hold the offset and a
\* delay each.
MinimaInv ==
    /\ msgcount > 0 /\ pc # "nonstdtime" => min1 # Infinity
    /\ min1 = Infinity => min2 = Infinity /\ min_rtt = Infinity
    /\ min1 # Infinity =>
          /\ min1 \in setting.offset .. setting.offset + MaxDelay
          /\ min2 \in -setting.offset .. MaxDelay - setting.offset
          /\ min_rtt \in 0 .. 2 * MaxDelay
          /\ min1 + min2 <= min_rtt
          /\ measure_delta1 \in Int /\ Near(measure_delta1)
    /\ pc = "good" =>
          min1 # Infinity /\ measure_delta \in Int /\ Near(measure_delta)

\* Half of the difference of the two directions, of one answer or of the
\* minima, is near the offset.
LEMMA HalfIsNear ==
    ASSUME ClockTypes,
           NEW d1 \in setting.offset .. setting.offset + MaxDelay,
           NEW d2 \in -setting.offset .. MaxDelay - setting.offset
    PROVE  Half(d1 - d2) \in Int /\ Near(Half(d1 - d2))
  <1>1. PICK o \in Int, D \in Nat, x \in Int : o = setting.offset /\ D = MaxDelay /\ x = d1 - d2
    BY ClockAssumption DEF ClockTypes
  <1>2. x - 2 * o <= D /\ 2 * o - x <= D
    BY <1>1
  <1>3. PICK z \in Int : z = Half(x) /\ x - 1 <= 2 * z /\ 2 * z <= x + 1
    BY HalfBounds
  <1>4. 2 * (z - o) <= D + 1 /\ 2 * (o - z) <= D + 1
    BY <1>2, <1>3
  <1>5. QED BY <1>1, <1>3, <1>4 DEF Near

\* What the times of day of an answer say: the delays of both directions, with
\* the offset, exactly; an answer within the millisecond has no delay.
LEMMA Measured ==
    ASSUME ClockTypes, NEW r \in answers
    PROVE  \E a \in 0 .. MaxDelay, b \in 0 .. MaxDelay :
              /\ AcrossMidnight(Remote(r.his) - Local(r.sent)) = setting.offset + a
              /\ AcrossMidnight(Local(now) - Remote(r.his)) = b - setting.offset
              /\ Local(now) - Local(r.sent) \in Int
              /\ Local(now) - Local(r.sent) = 0 => a = 0 /\ b = 0
  <1>1. AnswerOK(r, seqno, now) /\ now \in Nat
    BY DEF ClockTypes
  <1>2. PICK st \in Int, o \in Int, D \in Nat :
           /\ st = setting.start /\ o = setting.offset /\ D = MaxDelay
           /\ o + D <= BIASP /\ D - o <= BIASP /\ o >= BIASN
    BY ClockAssumption DEF ClockTypes
  <1>3. PICK x \in Int, y \in Int, z \in Int :
           x = st + r.sent /\ y = st + (r.his + o) /\ z = st + now
    BY <1>1 DEF AnswerOK
  <1>4. Local(r.sent) = x % Day /\ Remote(r.his) = y % Day /\ Local(now) = z % Day
    BY <1>2, <1>3 DEF Local, Remote
  <1>5. PICK a \in 0 .. D, b \in 0 .. D : a = r.his - r.sent /\ b = now - r.his
    BY <1>1, <1>2 DEF AnswerOK
  <1>6. y - x = o + a /\ z - y = b - o /\ z - x = a + b
    BY <1>1, <1>3, <1>5 DEF AnswerOK
  <1>7. PICK h \in Nat \ {0} : Day = 2 * h /\ BIASP = h - 1 /\ BIASN = -h
    BY HalfDay
  <1>8. BIASN <= y - x /\ y - x <= BIASP /\ BIASN <= z - y /\ z - y <= BIASP
    BY <1>2, <1>5, <1>6, <1>7
  <1>9. /\ AcrossMidnight((y % Day) - (x % Day)) = y - x
        /\ AcrossMidnight((z % Day) - (y % Day)) = z - y
    BY <1>8, DistanceIsExact
  <1>10. 0 <= z - x /\ z - x < Day
    BY <1>2, <1>5, <1>6, <1>7
  <1>11. (z % Day) - (x % Day) \in Int
    BY <1>7
  <1>12. (z % Day) - (x % Day) = 0 => a = 0 /\ b = 0
    <2> SUFFICES ASSUME (z % Day) - (x % Day) = 0 PROVE a = 0 /\ b = 0
      OBVIOUS
    <2>1. (z % Day) - (x % Day) >= 0
      OBVIOUS
    <2>2. (z % Day) - (x % Day) = z - x
      BY <1>10, <2>1, SameDay
    <2>3. z - x = 0
      BY <2>2
    <2>4. QED BY <1>5, <1>6, <2>3
  <1>13. QED BY <1>2, <1>4, <1>5, <1>6, <1>9, <1>11, <1>12

\* A counted answer keeps the minima.
LEMMA ReceiveKeeps ==
    ASSUME ClockTypes, MinimaInv, NEW r \in answers, Receive(r)
    PROVE  MinimaInv'
  <1> USE ClockAssumption
  <1>0. UNCHANGED <<setting, measure_delta>> /\ pc = "recv" /\ pc' # "good"
    BY DEF Receive, Minimise
  <1>1. CASE UNCHANGED <<msgcount, minima>> /\ pc' \in {"recv", "wrongstamps"}
    BY <1>0, <1>1 DEF minima, MinimaInv, Near
  <1>2. CASE ~(UNCHANGED <<msgcount, minima>> /\ pc' \in {"recv", "wrongstamps"})
    <2>1. PICK a \in 0 .. MaxDelay, b \in 0 .. MaxDelay :
             /\ AcrossMidnight(Remote(r.his) - Local(r.sent)) = setting.offset + a
             /\ AcrossMidnight(Local(now) - Remote(r.his)) = b - setting.offset
             /\ Local(now) - Local(r.sent) \in Int
             /\ Local(now) - Local(r.sent) = 0 => a = 0 /\ b = 0
      BY Measured
    <2>2. PICK diff \in Int : diff = Local(now) - Local(r.sent) /\ (diff = 0 => a = 0 /\ b = 0)
      BY <2>1
    <2>3. diff >= 0 /\ Minimise(setting.offset + a, b - setting.offset, diff)
      BY <1>0, <1>2, <2>1, <2>2 DEF Receive
    <2>4. PICK o \in Int, D \in Nat, d1 \in Int, d2 \in Int :
             /\ o = setting.offset /\ D = MaxDelay /\ d1 = o + a /\ d2 = b - o
             /\ Infinity > o + D /\ Infinity > D - o /\ Infinity > 2 * D
      BY HalfDay DEF ClockTypes, Infinity
    <2>5. d1 \in setting.offset .. setting.offset + MaxDelay
          /\ d2 \in -setting.offset .. MaxDelay - setting.offset
      BY <2>4
    <2>6. Half(d1 - d2) \in Int /\ Near(Half(d1 - d2))
      BY <2>5, HalfIsNear
    <2>7. d1 + d2 \in 0 .. 2 * D /\ (diff < 1 => d1 = o /\ d2 = -o)
      BY <2>2, <2>3, <2>4
    <2>8. /\ min1' = IF diff < 1 THEN d1 ELSE Lower(min1, d1)
          /\ min2' = IF diff < 1 THEN d2 ELSE Lower(min2, d2)
          /\ min_rtt' = Lower(min_rtt, d1 + d2)
          /\ measure_delta1' = IF d1 + d2 < min_rtt THEN Half(d1 - d2) ELSE measure_delta1
      BY <2>3, <2>4 DEF Minimise
    <2>9. CASE min1 = Infinity
      <3>1. min2 = Infinity /\ min_rtt = Infinity
        BY <2>9 DEF MinimaInv
      <3>2. Infinity \in Int /\ d1 < Infinity /\ d2 < Infinity /\ d1 + d2 < Infinity
        BY <2>4, <2>7 DEF Infinity
      <3>3. min1' = d1 /\ min2' = d2 /\ min_rtt' = d1 + d2 /\ measure_delta1' = Half(d1 - d2)
        BY <2>8, <2>9, <3>1, <3>2 DEF Lower
      <3>4. QED BY <1>0, <2>4, <2>5, <2>6, <2>7, <3>2, <3>3 DEF MinimaInv, Near, Infinity
    <2>10. CASE min1 # Infinity
      <3>1. PICK m1 \in o .. o + D, m2 \in -o .. D - o, mr \in 0 .. 2 * D, md \in Int :
               /\ m1 = min1 /\ m2 = min2 /\ mr = min_rtt /\ md = measure_delta1
               /\ m1 + m2 <= mr /\ Near(md)
        BY <2>4, <2>10 DEF MinimaInv
      <3>2. PICK n1 \in o .. o + D, n2 \in -o .. D - o, nr \in 0 .. 2 * D :
               /\ n1 = (IF diff < 1 THEN d1 ELSE Lower(m1, d1))
               /\ n2 = (IF diff < 1 THEN d2 ELSE Lower(m2, d2))
               /\ nr = Lower(mr, d1 + d2) /\ n1 + n2 <= nr
        BY <2>2, <2>3, <2>4, <2>5, <2>7, <3>1 DEF Lower
      <3>3. min1' = n1 /\ min2' = n2 /\ min_rtt' = nr
        BY <2>8, <3>1, <3>2
      <3>4. measure_delta1' \in {md, Half(d1 - d2)}
        BY <2>8, <3>1
      <3>5. n1 # Infinity
        BY <2>4, <3>2 DEF Infinity
      <3>6. measure_delta1' \in Int /\ Near(measure_delta1')
        BY <2>6, <3>1, <3>4
      <3>7. QED BY <1>0, <2>4, <3>2, <3>3, <3>5, <3>6 DEF MinimaInv, Near, Infinity
    <2>11. QED BY <2>9, <2>10
  <1>3. QED BY <1>1, <1>2

\* The minima are sound in every measurement.
THEOREM MinimaAreSound == Spec => []MinimaInv
  <1> USE ClockAssumption
  <1>1. Init => MinimaInv
    BY DEF Init, MinimaInv
  <1>2. ClockTypes /\ MinimaInv /\ [Next]_vars => MinimaInv'
    <2> SUFFICES ASSUME ClockTypes, MinimaInv, [Next]_vars PROVE MinimaInv'
      OBVIOUS
    <2>1. ASSUME UNCHANGED <<setting, msgcount, minima, measure_delta>>,
                 pc' = pc \/ (pc' # "good" /\ pc # "nonstdtime")
          PROVE  MinimaInv'
      BY <2>1 DEF minima, MinimaInv, Near, Infinity
    <2>2. CASE HostDown \/ Send \/ PollTimeout \/ RecvFails \/ Tick \/ UNCHANGED vars
      BY <2>1, <2>2 DEF HostDown, Send, PollTimeout, RecvFails, Tick, vars, minima
    <2>3. CASE Good
      <3>1. msgcount > 0 /\ min1 # Infinity
        BY <2>3 DEF Good, ClockTypes, MinimaInv
      <3>2. /\ min1 \in setting.offset .. setting.offset + MaxDelay
            /\ min2 \in -setting.offset .. MaxDelay - setting.offset
        BY <3>1 DEF MinimaInv
      <3>3. Half(min1 - min2) \in Int /\ Near(Half(min1 - min2))
        BY <3>2, HalfIsNear
      <3>4. /\ UNCHANGED <<setting, msgcount, min1, min2, min_rtt, measure_delta1>>
            /\ measure_delta' = Half(min1 - min2) /\ pc' = "good"
        BY <2>3 DEF Good, minima
      <3>5. QED BY <3>1, <3>3, <3>4 DEF MinimaInv, Near, Infinity
    <2>4. ASSUME NEW r \in answers, Receive(r)
          PROVE  MinimaInv'
      BY <2>4, ReceiveKeeps
    <2>5. ASSUME NEW r \in answers, Nonstandard(r)
          PROVE  MinimaInv'
      BY <2>5 DEF Nonstandard, minima, MinimaInv, Near, Infinity
    <2>6. ASSUME NEW p \in probes, Answer(p)
          PROVE  MinimaInv'
      BY <2>1, <2>6 DEF Answer, minima
    <2>7. QED
      BY <2>2, <2>3, <2>4, <2>5, <2>6 DEF Next, Ignore, Ended
  <1>3. QED BY <1>1, <1>2, ClockTypesCorrect, PTL DEF Spec

\* measure_inner_loop(): the one-way minima come from counted answers, and their
\* sum does not exceed the smallest round trip.
THEOREM MinimaBelong == Spec => []OneWayMinima
  <1>1. ClockTypes /\ MinimaInv => OneWayMinima
    <2> SUFFICES ASSUME ClockTypes, MinimaInv, min1 # Infinity PROVE OneWayMinima
      BY DEF OneWayMinima
    <2>1. setting.offset \in Int /\ MaxDelay \in Nat
      BY ClockAssumption DEF ClockTypes
    <2>2. QED BY <2>1 DEF MinimaInv, OneWayMinima
  <1>2. QED BY <1>1, ClockTypesCorrect, MinimaAreSound, PTL

\* measure(): the result is the difference of the clocks up to half the largest
\* delay, whatever the network loses, repeats or delays, for days of any length,
\* and if midnight passes on either host.
THEOREM DifferenceIsRight == Spec => []DeltaIsOffset
  <1>1. MinimaInv => DeltaIsOffset
    BY DEF MinimaInv, DeltaIsOffset, Near
  <1>2. QED BY <1>1, MinimaAreSound, PTL
=============================================================================
