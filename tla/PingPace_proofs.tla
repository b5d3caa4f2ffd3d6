--------------------------- MODULE PingPace_proofs ---------------------------
(***************************************************************************)
(* Proofs about PingPace, for every option, clock resolution, sequence of  *)
(* failed sends and of replies.                                            *)
(***************************************************************************)
EXTENDS PingPace, WellFoundedInduction, TLAPS

(***************************************************************************)
(* The clock                                                               *)
(***************************************************************************)

\* Division by a positive number, as the bounds of the quotient.
LEMMA DivBounds ==
    ASSUME NEW n \in Nat, NEW k \in Nat \ {0}
    PROVE  \E q \in Nat, r \in 0 .. k - 1 : q = n \div k /\ r = n % k /\ n = k * q + r
  <1>1. n \div k \in Int /\ n % k \in 0 .. k - 1
    OBVIOUS
  <1>2. PICK q \in Int, r \in 0 .. k - 1 : q = n \div k /\ r = n % k
    BY <1>1
  <1>3. k * q + r = n
    BY <1>2, SMTT(30)
  <1>4. q >= 0
    BY <1>3
  <1>5. QED BY <1>2, <1>3, <1>4

\* The conversion of a rest is less than a millisecond off, downwards if the
\* rest is positive and upwards if it is negative.
LEMMA TruncBounds ==
    ASSUME NEW n \in Int
    PROVE  /\ Trunc(n) \in Int
           /\ n >= 0 => Trunc(n) * Frac <= n /\ n < Trunc(n) * Frac + Frac
           /\ n < 0 => n <= Trunc(n) * Frac /\ Trunc(n) * Frac < n + Frac
  <1> USE PaceAssumption
  <1>1. CASE n >= 0
    <2>1. PICK q \in Nat, r \in 0 .. Frac - 1 : q = n \div Frac /\ n = Frac * q + r
      BY <1>1, DivBounds
    <2>2. Trunc(n) = q
      BY <1>1, <2>1 DEF Trunc
    <2>3. QED BY <1>1, <2>1, <2>2
  <1>2. CASE n < 0
    <2>1. PICK m \in Nat : m = -n
      BY <1>2
    <2>2. PICK q \in Nat, r \in 0 .. Frac - 1 : q = m \div Frac /\ m = Frac * q + r
      BY DivBounds
    <2>3. Trunc(n) = -q
      BY <1>2, <2>1, <2>2 DEF Trunc
    <2>4. Trunc(n) * Frac = -(Frac * q)
      BY <2>3
    <2>5. QED BY <1>2, <2>1, <2>2, <2>3, <2>4
  <1>3. QED BY <1>1, <1>2

\* Elapsed milliseconds are less than one off the true time, and ahead of it
\* only if a full second lies in between.
LEMMA ElapsedBounds ==
    ASSUME NEW a \in Nat, NEW b \in Nat, a <= b
    PROVE  /\ ElapsedMs(a, b) \in Nat
           /\ b - a - Frac < ElapsedMs(a, b) * Frac
           /\ ElapsedMs(a, b) * Frac < b - a + Frac
           /\ Sec(a) \in Nat /\ Sec(b) \in Nat /\ Sec(a) <= Sec(b)
           /\ ElapsedMs(a, b) * Frac <= b - a + (Frac - 1) * (Sec(b) - Sec(a))
  <1> USE PaceAssumption
  <1>1. Second \in Nat \ {0}
    BY DEF Second
  <1>2. PICK qa \in Nat, ra \in 0 .. Second - 1 :
           qa = Sec(a) /\ ra = a % Second /\ a = Second * qa + ra
    <2>1. PICK k \in Nat \ {0} : k = Second
      BY <1>1
    <2>2. \E q \in Nat, r \in 0 .. k - 1 : q = a \div k /\ r = a % k /\ a = k * q + r
      BY DivBounds
    <2>3. QED BY <2>1, <2>2 DEF Sec
  <1>3. PICK qb \in Nat, rb \in 0 .. Second - 1 :
           qb = Sec(b) /\ rb = b % Second /\ b = Second * qb + rb
    <2>1. PICK k \in Nat \ {0} : k = Second
      BY <1>1
    <2>2. \E q \in Nat, r \in 0 .. k - 1 : q = b \div k /\ r = b % k /\ b = k * q + r
      BY DivBounds
    <2>3. QED BY <2>1, <2>2 DEF Sec
  <1>4. PICK k \in Int : k = Trunc(rb - ra)
    BY TruncBounds
  <1>5. /\ rb - ra >= 0 => k * Frac <= rb - ra /\ rb - ra < k * Frac + Frac
        /\ rb - ra < 0 => rb - ra <= k * Frac /\ k * Frac < rb - ra + Frac
    BY <1>4, TruncBounds
  <1>6. qa <= qb /\ (rb - ra < 0 => qa < qb)
    BY <1>1, <1>2, <1>3
  <1>7. PICK s \in Nat : s = qb - qa
    BY <1>6
  <1>8. ElapsedMs(a, b) = s * SecMs + k
    BY <1>2, <1>3, <1>4, <1>7 DEF ElapsedMs
  <1>9. b - a = (s * SecMs) * Frac + (rb - ra)
    <2>1. b - a = Second * s + (rb - ra)
      <3>1. PICK m \in Nat : m = Second
        BY <1>1
      <3>2. a = m * qa + ra /\ b = m * qb + rb
        BY <1>2, <1>3, <3>1
      <3>3. m * qb = m * qa + m * s
        BY <1>7
      <3>4. QED BY <3>1, <3>2, <3>3
    <2>2. Second * s = (s * SecMs) * Frac
      BY DEF Second
    <2>3. QED BY <2>1, <2>2
  <1>10. PICK e \in Int : e = s * SecMs + k
    BY <1>4, <1>7
  <1>11. e * Frac = (b - a) - (rb - ra) + k * Frac
    BY <1>9, <1>10
  <1>12. b - a - Frac < e * Frac /\ e * Frac < b - a + Frac
    BY <1>5, <1>11
  <1>13. e >= 0
    BY <1>12
  <1>14. e * Frac <= b - a + (Frac - 1) * s
    <2>1. CASE rb - ra >= 0
      BY <1>5, <1>7, <1>11, <2>1
    <2>2. CASE rb - ra < 0
      <3>1. s >= 1 /\ e * Frac <= b - a + (Frac - 1)
        BY <1>5, <1>6, <1>7, <1>11, <2>2
      <3>2. (Frac - 1) <= (Frac - 1) * s
        BY <3>1
      <3>3. QED BY <3>1, <3>2
    <2>3. QED BY <2>1, <2>2
  <1>15. ElapsedMs(a, b) = e /\ Sec(b) - Sec(a) = s /\ Sec(a) = qa /\ Sec(b) = qb
    BY <1>2, <1>3, <1>7, <1>8, <1>10
  <1>16. QED BY <1>6, <1>12, <1>13, <1>14, <1>15

\* No time passes between a moment and itself.
LEMMA ElapsedNothing ==
    ASSUME NEW a \in Nat
    PROVE  ElapsedMs(a, a) = 0
  <1> USE PaceAssumption
  <1>1. PICK e \in Nat : e = ElapsedMs(a, a)
    BY ElapsedBounds
  <1>2. e * Frac < Frac
    <2>1. ElapsedMs(a, a) * Frac < a - a + Frac
      BY ElapsedBounds
    <2>2. QED BY <1>1, <2>1
  <1>3. e < 1
    <2>1. e >= 1 => e * Frac >= Frac
      OBVIOUS
    <2>2. QED BY <1>2, <2>1
  <1>4. QED BY <1>1, <1>3

(***************************************************************************)
(* Types                                                                   *)
(***************************************************************************)

TimesTypes ==
    /\ total \in Nat /\ measured \in Nat /\ measured <= total
    /\ tsum \in Nat /\ tsum2 \in Nat /\ rtt \in Nat
    /\ tmin \in 0 .. Unset /\ tmax \in 0 .. MaxTrip
    /\ opt_latency \in BOOLEAN

\* With a fixed interval the bucket holds no more than the preload pays for,
\* the token of a probe at sendto() included, which EAGAIN gives back.
Fixed == ~opt.adaptive
Room  == interval * opt.preload

PaceInv ==
    /\ TimesTypes
    /\ opt \in Sessions
    /\ pc \in {"pinger", "send", "wait"}
    /\ now \in Nat /\ Start <= now /\ cur_time \in 0 .. now /\ due \in Nat
    /\ tokens \in Nat /\ interval \in Nat /\ rtt_addend \in Nat
    /\ sent \in 0 .. MaxSent /\ flight \in 0 .. sent /\ burst \in 0 .. sent
    /\ Fixed => interval = opt.interval /\ tokens <= Room
    /\ Fixed /\ pc = "send" => tokens + interval <= Room
    /\ cur_time = 0 => pc = "pinger" /\ sent = 0 /\ tokens = 0 /\ due = 0
    /\ pc = "send" => cur_time > 0

\* A difference that was accepted, and the moving average it gives.
LEMMA ValidTypes ==
    /\ \A d \in Diffs : Valid(d) \in 0 .. MaxTrip
    /\ \A t \in Nat : rtt \in Nat => Ewma(t) \in Nat
  <1> USE TimesAssumption
  <1>1. ASSUME NEW d \in Diffs PROVE Valid(d) \in 0 .. MaxTrip
    BY DEF Valid
  <1>2. ASSUME NEW t \in Nat, rtt \in Nat PROVE Ewma(t) \in Nat
    <2>1. rtt \div 8 \in Nat /\ rtt \div 8 <= rtt
      BY <1>2
    <2>2. QED BY <1>2, <2>1 DEF Ewma
  <1>3. QED BY <1>1, <1>2

\* A reply is accounted or not; the sums stay sums of valid times.
LEMMA StampedTypes ==
    ASSUME TimesTypes, NEW cs \in BOOLEAN, Stamped(cs) \/ Unstamped
    PROVE  TimesTypes'
  <1> USE TimesAssumption
  <1>1. CASE Unstamped
    BY <1>1 DEF Unstamped, TimesTypes, sums
  <1>2. CASE Stamped(cs)
    <2>1. opt_latency' \in BOOLEAN
      BY <1>2 DEF Stamped, TimesTypes
    <2>2. CASE cs
      <3>1. UNCHANGED <<total, sums, measured>>
        BY <1>2, <2>2 DEF Stamped
      <3>2. QED BY <2>1, <3>1 DEF TimesTypes, sums
    <2>3. CASE ~cs
      <3>1. PICK d \in Diffs : Account(Valid(d)) /\ total' = total + 1 /\ measured' = measured + 1
        BY <1>2, <2>3 DEF Stamped
      <3>2. PICK t \in 0 .. MaxTrip : t = Valid(d)
        BY ValidTypes
      <3>3. Account(t)
        BY <3>1, <3>2
      <3>4. t * t \in Nat /\ Ewma(t) \in Nat
        BY ValidTypes DEF TimesTypes
      <3>5. QED BY <2>1, <3>1, <3>3, <3>4 DEF Account, TimesTypes, Unset
    <2>4. QED BY <2>2, <2>3
  <1>3. QED BY <1>1, <1>2

\* update_interval() gives an interval.
LEMMA NewIntervalType ==
    ASSUME interval \in Nat, opt \in Sessions, NEW r \in Nat, NEW a \in Nat
    PROVE  NewInterval(r, a) \in Nat
  <1> USE PaceAssumption
  <1>1. PICK est \in Nat : est = IF r > 0 THEN r \div 8 ELSE interval * 1000
    OBVIOUS
  <1>2. PICK ms \in Nat : ms = (est + a + 500) \div 1000
    OBVIOUS
  <1>3. QED BY <1>1, <1>2 DEF NewInterval

\* What is in the bucket, and the pause until it holds a token.
LEMMA FilledType ==
    ASSUME PaceInv, NEW t \in Nat, cur_time <= t
    PROVE  Filled(t) \in Nat /\ Filled(t) <= Room
  <1> USE PaceAssumption
  <1>1. opt.preload \in Nat /\ interval \in Nat /\ Room \in Nat /\ cur_time \in Nat /\ tokens \in Nat
    BY DEF PaceInv, Room
  <1>2. PICK e \in Nat : e = ElapsedMs(cur_time, t)
    BY <1>1, ElapsedBounds
  <1>3. QED BY <1>1, <1>2 DEF Filled, AtMost, Room

\* The moment a pause ends is a time.
LEMMA PauseType ==
    ASSUME now \in Nat, NEW ms \in Int, Pause(ms)
    PROVE  due' \in Nat
  <1>1. ms > 0 => ms * Frac \in Nat
    BY PaceAssumption
  <1>2. QED BY <1>1 DEF Pause

\* Slowing down keeps a number of milliseconds, and a fixed interval fixed.
LEMMA SlowdownTypes ==
    ASSUME PaceInv, Slowdown, UNCHANGED opt
    PROVE  /\ tokens' = 0 /\ rtt_addend' \in Nat /\ interval' \in Nat
           /\ Fixed => interval' = interval
  <1> USE PaceAssumption
  <1>1. rtt \in Nat /\ rtt_addend \in Nat /\ interval \in Nat /\ opt \in Sessions
    BY DEF PaceInv, TimesTypes
  <1>2. PICK a \in Nat : rtt_addend' = a
    <2>1. rtt \div 8 \in Nat
      BY <1>1
    <2>2. AtMost(rtt \div 8, AddendMax) \in Nat
      BY <2>1 DEF AtMost
    <2>3. QED BY <1>1, <2>2 DEF Slowdown
  <1>3. CASE opt.adaptive
    <2>1. interval' = NewInterval(rtt, a)
      BY <1>2, <1>3 DEF Slowdown
    <2>2. NewInterval(rtt, a) \in Nat
      BY <1>1, NewIntervalType
    <2>3. QED BY <1>2, <1>3, <2>1, <2>2 DEF Slowdown, Fixed
  <1>4. CASE ~opt.adaptive
    BY <1>1, <1>2, <1>4 DEF Slowdown
  <1>5. QED BY <1>3, <1>4

\* Products of the options.
LEMMA RoomType ==
    ASSUME interval \in Nat, opt \in Sessions
    PROVE  /\ opt.preload \in Nat \ {0} /\ Room \in Nat /\ interval <= Room
           /\ FirstTokens \in Nat /\ FirstTokens + interval = Room
  <1>1. PICK p \in Nat \ {0} : p = opt.preload
    BY PaceAssumption
  <1>2. /\ interval * p \in Nat /\ interval * (p - 1) \in Nat
        /\ interval * (p - 1) + interval = interval * p
    OBVIOUS
  <1>3. QED BY <1>1, <1>2 DEF Room, FirstTokens

\* Times, bucket and counters keep their types, and the bucket its limit.
THEOREM PaceTypes == Spec => []PaceInv
  <1> USE PaceAssumption, TimesAssumption
  <1>1. Init => PaceInv
    <2> SUFFICES ASSUME Init PROVE PaceInv
      OBVIOUS
    <2>1. TimesTypes
      BY DEF Init, TimesInit, TimesTypes, Unset
    <2>2. opt \in Sessions /\ interval = opt.interval /\ interval \in Nat
      BY DEF Init
    <2>3. Room \in Nat
      BY <2>2, RoomType
    <2>4. QED BY <2>1, <2>2, <2>3 DEF Init, PaceInv, Start, Fixed
  <1>2. PaceInv /\ [Next]_vars => PaceInv'
    <2> SUFFICES ASSUME PaceInv, [Next]_vars PROVE PaceInv'
      OBVIOUS
    <2>t. /\ TimesTypes /\ opt \in Sessions /\ interval \in Nat /\ tokens \in Nat
          /\ now \in Nat /\ Start <= now /\ cur_time \in 0 .. now /\ Start = 1
          /\ sent \in 0 .. MaxSent /\ flight \in 0 .. sent /\ burst \in 0 .. sent
      BY DEF PaceInv, Start
    <2>r. /\ opt.preload \in Nat \ {0} /\ Room \in Nat /\ interval <= Room
          /\ FirstTokens \in Nat /\ FirstTokens + interval = Room
      BY <2>t, RoomType
    <2>f. Filled(now) \in Nat /\ Filled(now) <= Room
      BY <2>t, FilledType
    <2>m. UNCHANGED timeVars => TimesTypes'
      BY <2>t DEF timeVars, sums, TimesTypes
    <2>o. UNCHANGED <<opt, interval>> => Room' = Room /\ (Fixed' <=> Fixed)
      BY DEF Room, Fixed
    <2>1. CASE First
      BY <2>1, <2>t, <2>r, <2>m, <2>o DEF First, PaceInv, Start
    <2>p. ASSUME NEW ms \in Int, Return(ms), Pause(ms), cur_time > 0,
                 UNCHANGED <<timeVars, opt, now, cur_time, interval, rtt_addend>>,
                 tokens' \in Nat, Fixed => tokens' <= Room,
                 sent' \in 0 .. MaxSent, flight' \in 0 .. sent', burst' \in 0 .. sent'
          PROVE  PaceInv'
      <3>1. due' \in Nat
        BY <2>p, <2>t, PauseType
      <3>2. pc' \in {"pinger", "wait"}
        BY <2>p DEF Return
      <3>3. QED BY <2>p, <2>m, <2>o, <3>1, <3>2 DEF PaceInv
    <2>2. CASE HoldFlood
      <3>1. ElapsedMs(cur_time, now) \in Nat
        BY <2>t, ElapsedBounds
      <3>2. MinGap - ElapsedMs(cur_time, now) \in Int
        BY <3>1
      <3>3. QED BY <2>2, <2>p, <3>2 DEF HoldFlood, bucket, PaceInv
    <2>3. CASE Limited
      <3>1. interval - Filled(now) \in Int
        BY <2>t, <2>f
      <3>2. QED BY <2>3, <2>p, <3>1 DEF Limited, bucket, PaceInv
    <2>4. CASE Grant
      <3>1. tokens' \in Nat /\ tokens' + interval = Filled(now)
        BY <2>4, <2>t, <2>f DEF Grant
      <3>2. tokens' + interval <= Room /\ tokens' <= Room
        <4>1. PICK f \in Nat, m \in Nat : f = Filled(now) /\ m = Room /\ f <= m
          BY <2>f, <2>r
        <4>2. PICK y \in Nat : y = interval
          BY <2>t
        <4>3. tokens' = f - y
          BY <2>4, <4>1, <4>2 DEF Grant
        <4>4. (f - y) + y <= m /\ f - y <= m
          BY <4>1
        <4>5. tokens' + y <= m /\ tokens' <= m
          BY <4>3, <4>4
        <4>6. QED BY <4>1, <4>2, <4>5
      <3>3. /\ pc' = "send" /\ due' = 0 /\ cur_time' = now /\ cur_time > 0
            /\ UNCHANGED <<timeVars, opt, now, interval, rtt_addend, flight, sent, burst>>
        BY <2>4 DEF Grant
      <3>4. QED BY <2>t, <2>m, <2>o, <3>1, <3>2, <3>3 DEF PaceInv
    <2>a. ASSUME Advance
          PROVE  sent' \in 0 .. MaxSent /\ flight' \in 0 .. sent' /\ burst' \in 0 .. sent'
      BY <2>a, <2>t DEF Advance
    <2>5. CASE Sent
      <3>1. interval - tokens \in Int
        BY <2>t
      <3>2. QED BY <2>5, <2>a, <2>p, <3>1 DEF Sent, bucket, PaceInv
    <2>6. CASE Again
      <3>1. tokens' \in Nat /\ (Fixed => tokens' <= Room)
        BY <2>6, <2>t DEF Again, PaceInv
      <3>2. QED BY <2>6, <2>p, <2>t, <3>1 DEF Again, PaceInv
    <2>s. ASSUME pc = "send", pc' = "wait", due' \in Nat, tokens' = 0, rtt_addend' \in Nat,
                 interval' \in Nat, Fixed => interval' = interval,
                 sent' \in 0 .. MaxSent, flight' \in 0 .. sent', burst' \in 0 .. sent',
                 UNCHANGED <<timeVars, opt, now, cur_time>>
          PROVE  PaceInv'
      <3>1. opt' \in Sessions /\ Room' \in Nat /\ (Fixed' <=> Fixed) /\ TimesTypes'
        <4>1. opt.preload \in Nat
          BY <2>r
        <4>2. interval' * opt.preload \in Nat
          BY <2>s, <4>1
        <4>3. QED BY <2>s, <2>t, <2>m, <4>2 DEF Room, Fixed
      <3>2. Fixed' => interval' = opt'.interval /\ tokens' <= Room'
        BY <2>s, <3>1 DEF PaceInv
      <3>3. QED BY <2>s, <2>t, <3>1, <3>2 DEF PaceInv
    <2>7. CASE NoBuffers
      <3>1. /\ tokens' = 0 /\ rtt_addend' \in Nat /\ interval' \in Nat
            /\ Fixed => interval' = interval
        BY <2>7, SlowdownTypes DEF NoBuffers
      <3>2. QED BY <2>7, <2>s, <2>t, <3>1 DEF NoBuffers
    <2>8. CASE HardError
      <3>1. /\ tokens' = 0 /\ rtt_addend' \in Nat /\ interval' \in Nat
            /\ Fixed => interval' = interval
        <4>1. CASE Slowdown
          BY <2>8, <4>1, SlowdownTypes DEF HardError
        <4>2. CASE tokens' = 0 /\ UNCHANGED <<rtt_addend, interval>>
          BY <4>2 DEF PaceInv
        <4>3. QED BY <2>8, <4>1, <4>2 DEF HardError
      <3>2. due' \in Nat
        <4>1. HardPause(interval') \in Nat
          BY <3>1 DEF HardPause, SCHINT
        <4>2. HardPause(interval') * Frac \in Nat
          BY <4>1
        <4>3. QED BY <2>8, <2>t, <4>2 DEF HardError
      <3>3. QED BY <2>8, <2>s, <2>a, <3>1, <3>2 DEF HardError
    <2>9. ASSUME NEW cs \in BOOLEAN, Reply(cs)
          PROVE  PaceInv'
      <3>1. TimesTypes'
        BY <2>9, <2>t, StampedTypes DEF Reply
      <3>2. interval' \in Nat /\ (Fixed => interval' = interval)
        <4>1. rtt' \in Nat /\ rtt_addend \in Nat
          BY <3>1 DEF TimesTypes, PaceInv
        <4>2. PICK r \in Nat : r = rtt'
          BY <4>1
        <4>3. NewInterval(r, rtt_addend) \in Nat
          BY <2>t, <4>1, NewIntervalType
        <4>4. NewInterval(rtt', rtt_addend) = NewInterval(r, rtt_addend)
          BY <4>2
        <4>5. QED BY <2>9, <2>t, <4>3, <4>4 DEF Reply, Fixed
      <3>3. flight' \in 0 .. sent
        BY <2>9, <2>t DEF Reply
      <3>4. due' \in Nat
        BY <2>9 DEF Reply, PaceInv
      <3>5. /\ pc = "wait" /\ cur_time > 0
            /\ UNCHANGED <<opt, pc, now, cur_time, tokens, rtt_addend, sent, burst>>
        BY <2>9, <2>t DEF Reply, PaceInv, bucket
      <3>6. (Fixed' <=> Fixed) /\ (Fixed => Room' = Room)
        BY <3>2, <3>5 DEF Fixed, Room
      <3>7. QED BY <2>t, <3>1, <3>2, <3>3, <3>4, <3>5, <3>6 DEF PaceInv
    <2>10. CASE Wake
      BY <2>10, <2>t, <2>m, <2>o DEF Wake, PaceInv, bucket
    <2>11. CASE Tick
      BY <2>11, <2>t, <2>m, <2>o DEF Tick, PaceInv, bucket
    <2>12. CASE Ended \/ UNCHANGED vars
      BY <2>12, <2>m, <2>o DEF Ended, vars, paceVars, PaceInv, bucket
    <2>13. QED
      BY <2>1, <2>2, <2>3, <2>4, <2>5, <2>6, <2>7, <2>8, <2>9, <2>10, <2>11, <2>12 DEF Next
  <1>3. QED BY <1>1, <1>2, PTL DEF Spec

\* The types that the run checks.
COROLLARY PaceTypeCorrect == Spec => []PaceTypeOK
  <1>1. PaceInv => PaceTypeOK
    BY TimesAssumption DEF PaceInv, PaceTypeOK, TimesTypes, TimesTypeOK, Fixed, Room
  <1>2. QED BY <1>1, PaceTypes, PTL

(***************************************************************************)
(* The rate                                                                *)
(***************************************************************************)

\* A probe at sendto() is as good as sent.  Debt is what the probes so far
\* cost, and what is left in the bucket.
Count   == IF pc = "send" THEN sent + 1 ELSE sent
Debt    == Count * interval + tokens
Paid(t) == t - Start + (Frac - 1) * (Sec(t) - Sec(Start))

TokenRate ==
    Fixed /\ cur_time > 0 => Debt * Frac <= Room * Frac + Paid(cur_time)

\* While nothing is heard every probe is in flight.
FloodRate ==
    /\ total = 0 => flight = sent
    /\ Fixed /\ interval = 0 /\ total = 0 /\ cur_time > 0 =>
          Count * (MinGap * Frac) <= opt.preload * (MinGap * Frac) + Paid(cur_time)

\* Time pays for what pinger() counts as elapsed, and never takes back.
LEMMA PaidGrows ==
    ASSUME NEW a \in Nat, NEW b \in Nat, Start <= a, a <= b
    PROVE  /\ Paid(a) \in Nat /\ Paid(b) \in Nat /\ Paid(a) <= Paid(b)
           /\ Paid(a) + ElapsedMs(a, b) * Frac <= Paid(b)
           /\ Paid(b) = b - Start + (Frac - 1) * (Sec(b) - Sec(Start))
  <1> USE PaceAssumption
  <1>1. Start \in Nat
    BY DEF Start
  <1>2. PICK s0 \in Nat : s0 = Sec(Start) /\ s0 <= Sec(a)
    BY <1>1, ElapsedBounds
  <1>3. PICK sa \in Nat, sb \in Nat : sa = Sec(a) /\ sb = Sec(b) /\ sa <= sb
    BY ElapsedBounds
  <1>4. PICK e \in Nat : e = ElapsedMs(a, b)
    BY ElapsedBounds
  <1>5. e * Frac <= b - a + (Frac - 1) * (sb - sa)
    BY <1>3, <1>4, ElapsedBounds
  <1>6. PICK u \in Nat, v \in Nat : u = sa - s0 /\ v = sb - sa
    BY <1>2, <1>3
  <1>7. PICK f \in Nat : f = Frac - 1
    OBVIOUS
  <1>8. f * u \in Nat /\ f * v \in Nat /\ f * (u + v) = f * u + f * v
    OBVIOUS
  <1>9. Paid(a) = a - Start + f * u
    BY <1>2, <1>3, <1>6, <1>7 DEF Paid
  <1>10. Paid(b) = b - Start + f * (u + v)
    <2>1. sb - s0 = u + v
      BY <1>6
    <2>2. Paid(b) = b - Start + f * (sb - s0)
      BY <1>2, <1>3, <1>7 DEF Paid
    <2>3. QED BY <2>1, <2>2
  <1>11. e * Frac <= b - a + f * v
    BY <1>5, <1>6, <1>7
  <1>12. e * Frac \in Nat
    OBVIOUS
  <1>13. PICK x \in Nat, y \in Nat, z \in Nat : x = f * u /\ y = f * v /\ z = e * Frac
    BY <1>8, <1>12
  <1>14. Paid(a) = a - Start + x /\ Paid(b) = b - Start + x + y /\ z <= b - a + y
    <2>1. f * (u + v) = x + y
      BY <1>8, <1>13
    <2>2. Paid(a) = a - Start + x
      BY <1>9, <1>13
    <2>3. Paid(b) = b - Start + (x + y)
      BY <1>10, <2>1
    <2>4. z <= b - a + y
      BY <1>11, <1>13
    <2>5. QED BY <1>1, <2>2, <2>3, <2>4
  <1>15. Paid(a) \in Nat /\ Paid(b) \in Nat /\ Paid(a) <= Paid(b) /\ Paid(a) + z <= Paid(b)
    BY <1>1, <1>14
  <1>16. QED BY <1>4, <1>13, <1>15 DEF Paid

\* Only pinger() takes tokens: whatever becomes of the probe at sendto(), and
\* whatever the rest of the loop does, with a fixed interval the cost of the
\* probes and the contents of the bucket together do not grow.
LEMMA OnlyPingerTakes ==
    ASSUME PaceInv, Fixed, [Next]_vars, ~First, ~Grant
    PROVE  /\ UNCHANGED <<opt, cur_time, interval>>
           /\ Count' <= Count /\ Debt' <= Debt
           /\ now' = now \/ Tick
  <1>t. /\ tokens \in Nat /\ interval \in Nat /\ sent \in Nat /\ Count \in Nat
        /\ sent * interval \in Nat /\ (sent + 1) * interval \in Nat
        /\ (sent + 1) * interval = sent * interval + interval
    <2>1. tokens \in Nat /\ interval \in Nat /\ sent \in Nat
      BY DEF PaceInv
    <2>2. PICK s \in Nat, k \in Nat : s = sent /\ k = interval
      BY <2>1
    <2>3. s * k \in Nat /\ (s + 1) * k \in Nat /\ (s + 1) * k = s * k + k
      OBVIOUS
    <2>4. QED BY <2>1, <2>2, <2>3 DEF Count
  <1>a. ASSUME UNCHANGED <<opt, cur_time, interval, sent, tokens>>,
               pc' # "send" \/ pc' = pc
        PROVE  UNCHANGED <<opt, cur_time, interval>> /\ Count' <= Count /\ Debt' <= Debt
    <2>1. CASE pc' = pc
      <3>1. Count' = Count /\ Debt' = Debt
        BY <1>a, <2>1 DEF Count, Debt
      <3>2. Debt \in Nat /\ Count \in Nat
        BY <1>t DEF Debt, Count
      <3>3. QED BY <1>a, <3>1, <3>2
    <2>2. CASE pc' # "send"
      <3>1. Count' = sent /\ Debt' = sent * interval + tokens
        BY <1>a, <1>t, <2>2 DEF Count, Debt
      <3>2. Count >= sent /\ Debt >= sent * interval + tokens
        BY <1>t DEF Count, Debt
      <3>3. QED BY <1>a, <1>t, <3>1, <3>2
    <2>3. QED BY <1>a, <2>1, <2>2
  <1>b. ASSUME pc = "send", pc' # "send", UNCHANGED <<opt, cur_time, interval>>,
               \/ sent' = sent + 1 /\ tokens' = tokens
               \/ sent' = sent /\ tokens' = tokens + interval
               \/ sent' \in {sent, sent + 1} /\ tokens' = 0
        PROVE  UNCHANGED <<opt, cur_time, interval>> /\ Count' <= Count /\ Debt' <= Debt
    <2>1. Count = sent + 1 /\ Debt = (sent + 1) * interval + tokens
      BY <1>b DEF Count, Debt
    <2>2. Count' = sent' /\ Debt' = sent' * interval + tokens'
      <3>1. sent' \in Nat
        BY <1>b, <1>t
      <3>2. Count' = sent'
        BY <1>b DEF Count
      <3>3. interval' = interval
        BY <1>b
      <3>4. Debt' = Count' * interval' + tokens'
        BY DEF Debt
      <3>5. QED BY <3>2, <3>3, <3>4
    <2>3. CASE sent' = sent + 1
      <3>1. sent' * interval = (sent + 1) * interval
        BY <2>3
      <3>2. tokens' <= tokens
        BY <1>b, <1>t, <2>3
      <3>3. tokens' \in Nat
        BY <1>b, <1>t, <2>3
      <3>4. Debt' <= Debt
        BY <1>t, <2>1, <2>2, <3>1, <3>2, <3>3
      <3>5. QED BY <1>b, <1>t, <2>1, <2>2, <2>3, <3>4
    <2>4. CASE sent' = sent
      <3>1. sent' * interval = sent * interval
        BY <2>4
      <3>2. tokens' \in Nat /\ tokens' <= tokens + interval
        BY <1>b, <1>t, <2>4
      <3>3. Debt' <= Debt
        BY <1>t, <2>1, <2>2, <3>1, <3>2
      <3>4. QED BY <1>b, <1>t, <2>1, <2>2, <2>4, <3>3
    <2>5. QED BY <1>b, <2>3, <2>4
  <1>1. CASE HoldFlood \/ Limited
    BY <1>1, <1>a DEF HoldFlood, Limited, Return, bucket
  <1>2. CASE Sent
    BY <1>2, <1>b DEF Sent, Advance, Return, bucket
  <1>3. CASE Again
    BY <1>3, <1>b DEF Again, Return
  <1>s. Slowdown => tokens' = 0 /\ interval' = interval
    BY DEF Slowdown, Fixed
  <1>4. CASE NoBuffers
    BY <1>4, <1>s, <1>b DEF NoBuffers
  <1>5. CASE HardError
    BY <1>5, <1>s, <1>b DEF HardError, Advance
  <1>6. ASSUME NEW cs \in BOOLEAN, Reply(cs)
        PROVE  UNCHANGED <<opt, cur_time, interval, now>> /\ Count' <= Count /\ Debt' <= Debt
    <2>1. UNCHANGED <<opt, cur_time, interval, sent, tokens, pc, now>>
      BY <1>6 DEF Reply, bucket, Fixed
    <2>2. QED BY <1>a, <2>1
  <1>7. CASE Wake
    BY <1>7, <1>a DEF Wake, bucket
  <1>8. CASE Tick
    BY <1>8, <1>a DEF Tick, bucket
  <1>9. CASE Ended \/ UNCHANGED vars
    BY <1>9, <1>a DEF Ended, vars, paceVars, bucket
  <1>10. now' = now \/ Tick
    BY DEF Next, First, Grant, HoldFlood, Limited, Sent, Again, NoBuffers, HardError,
           Reply, Wake, Ended, vars, paceVars
  <1>11. QED
    BY <1>1, <1>2, <1>3, <1>4, <1>5, <1>6, <1>7, <1>8, <1>9, <1>10 DEF Next

\* While nothing is heard nothing leaves the air, and a step that hears
\* something is not one that sends.
LEMMA StillInFlight ==
    ASSUME PaceInv, [Next]_vars, total = 0 => flight = sent
    PROVE  /\ total' = 0 => total = 0
           /\ total' = 0 => flight' = sent'
  <1>1. ASSUME UNCHANGED timeVars, UNCHANGED <<flight, sent>> \/ Advance
        PROVE  (total' = 0 => total = 0) /\ (total' = 0 => flight' = sent')
    BY <1>1 DEF timeVars, Advance
  <1>2. CASE First \/ HoldFlood \/ Limited \/ Grant \/ Sent \/ Again \/ NoBuffers \/ HardError
                \/ Wake \/ Tick \/ Ended \/ UNCHANGED vars
    BY <1>1, <1>2 DEF First, HoldFlood, Limited, Grant, Sent, Again, NoBuffers, HardError,
                      Wake, Tick, Ended, vars, paceVars
  <1>3. ASSUME NEW cs \in BOOLEAN, Reply(cs)
        PROVE  (total' = 0 => total = 0) /\ (total' = 0 => flight' = sent')
    <2>1. total \in Nat
      BY DEF PaceInv, TimesTypes
    <2>2. CASE cs
      <3>1. Stamped(cs) /\ flight' = flight /\ sent' = sent
        BY <1>3, <2>2 DEF Reply
      <3>2. total' = total
        BY <2>2, <3>1 DEF Stamped
      <3>3. QED BY <3>1, <3>2
    <2>3. CASE ~cs
      <3>1. total' = total + 1
        BY <1>3, <2>3 DEF Reply, Stamped, Unstamped
      <3>2. QED BY <2>1, <3>1
    <2>4. QED BY <2>2, <2>3
  <1>4. QED BY <1>2, <1>3 DEF Next

\* Whatever has been sent at a fixed interval was in the first burst or has
\* been paid for by the time at which pinger() took the last token.
THEOREM TokensArePaid == Spec => []TokenRate
  <1> USE PaceAssumption
  <1>1. Init => TokenRate
    BY DEF Init, TokenRate
  <1>2. PaceInv /\ PaceInv' /\ TokenRate /\ [Next]_vars => TokenRate'
    <2> SUFFICES ASSUME PaceInv, PaceInv', TokenRate, [Next]_vars, Fixed', cur_time' > 0
                 PROVE  (Debt * Frac <= Room * Frac + Paid(cur_time))'
      BY DEF TokenRate
    <2>o. UNCHANGED opt
      BY DEF Next, First, Grant, HoldFlood, Limited, Sent, Again, NoBuffers, HardError,
             Reply, Wake, Tick, Ended, vars, paceVars
    <2>x. Fixed /\ interval' = interval /\ Room' = Room
      BY <2>o DEF PaceInv, Fixed, Room
    <2>t. /\ sent \in Nat /\ interval \in Nat /\ tokens \in Nat /\ cur_time \in Nat
          /\ now \in Nat /\ Start <= now /\ cur_time <= now /\ opt \in Sessions
          /\ Start \in Nat /\ Start = 1
      BY DEF PaceInv, Start
    <2>r. PICK m \in Nat : m = Room /\ FirstTokens \in Nat /\ FirstTokens + interval = m
      BY <2>t, RoomType
    <2>p. PICK pn \in Nat : pn = Paid(now)
      BY <2>t, PaidGrows
    <2>1. CASE First
      <3>1. pc' = "send" /\ sent' = sent /\ sent = 0 /\ cur_time' = now /\ tokens' = FirstTokens
        BY <2>1 DEF First, PaceInv
      <3>2. Count' = 1
        BY <3>1 DEF Count
      <3>3. PICK k \in Nat, f \in Nat : k = interval /\ f = FirstTokens /\ f + k = m
        BY <2>t, <2>r
      <3>4. Debt' = 1 * k + f
        BY <2>x, <3>1, <3>2, <3>3 DEF Debt
      <3>5. (1 * k + f) * Frac <= m * Frac + pn
        <4>1. 1 * k + f = m
          BY <3>3
        <4>2. QED BY <4>1
      <3>6. Paid(cur_time)' = pn
        BY <2>p, <3>1 DEF Paid
      <3>7. QED BY <2>r, <2>x, <3>4, <3>5, <3>6
    <2>2. CASE Grant
      <3>1. /\ pc # "send" /\ pc' = "send" /\ sent' = sent /\ cur_time' = now
            /\ cur_time > 0 /\ tokens' = Filled(now) - interval
        BY <2>2 DEF Grant
      <3>2. PICK k \in Nat, d \in Nat, c \in Nat, n \in Nat :
               k = interval /\ c = tokens /\ n = sent /\ d = Debt /\ d = n * k + c
        <4>1. Debt = sent * interval + tokens
          BY <3>1 DEF Debt, Count
        <4>2. sent * interval + tokens \in Nat
          BY <2>t
        <4>3. QED BY <2>t, <4>1, <4>2
      <3>3. PICK e \in Nat, pc0 \in Nat : /\ e = ElapsedMs(cur_time, now)
                                          /\ pc0 = Paid(cur_time) /\ pc0 + e * Frac <= pn
        <4>1. PICK a \in Nat, b \in Nat : a = cur_time /\ b = now /\ Start <= a /\ a <= b
          BY <2>t, <3>1
        <4>2. /\ ElapsedMs(a, b) \in Nat /\ Paid(a) \in Nat
              /\ Paid(a) + ElapsedMs(a, b) * Frac <= Paid(b)
          BY <4>1, ElapsedBounds, PaidGrows
        <4>3. QED BY <2>p, <4>1, <4>2
      <3>4. PICK f \in Nat : f = Filled(now) /\ f <= e + c
        <4>1. Filled(now) \in Nat
          BY <2>t, FilledType
        <4>2. Filled(now) <= e + c
          BY <2>r, <2>t, <3>2, <3>3 DEF Filled, AtMost, Room
        <4>3. QED BY <4>1, <4>2
      <3>5. d * Frac <= m * Frac + pc0
        BY <2>r, <2>x, <3>1, <3>2, <3>3 DEF TokenRate
      <3>6. Debt' = (n + 1) * k + (f - k)
        <4>1. Count' = n + 1
          BY <3>1, <3>2 DEF Count
        <4>2. tokens' = f - k
          BY <3>1, <3>2, <3>4
        <4>3. QED BY <2>x, <3>2, <4>1, <4>2 DEF Debt
      <3>7. (n + 1) * k + (f - k) <= d + e
        BY <3>2, <3>4
      <3>8. ((n + 1) * k + (f - k)) * Frac <= d * Frac + e * Frac
        <4>1. PICK a \in Int, b \in Nat : a = (n + 1) * k + (f - k) /\ b = d + e /\ a <= b
          BY <3>7
        <4>2. a * Frac <= b * Frac /\ b * Frac = d * Frac + e * Frac
          BY <4>1
        <4>3. QED BY <4>1, <4>2
      <3>9. ((n + 1) * k + (f - k)) * Frac <= m * Frac + pn
        BY <3>3, <3>5, <3>8
      <3>10. Paid(cur_time)' = pn
        BY <2>p, <3>1 DEF Paid
      <3>11. QED BY <2>r, <2>x, <3>6, <3>9, <3>10
    <2>3. CASE ~First /\ ~Grant
      <3>1. cur_time' = cur_time /\ Debt' <= Debt
        BY <2>3, <2>x, OnlyPingerTakes
      <3>2. Debt \in Nat /\ Debt' \in Nat
        <4>1. sent' \in Nat /\ interval' \in Nat /\ tokens' \in Nat
          BY DEF PaceInv
        <4>2. PICK n \in Nat, t \in Nat : sent' = n /\ tokens' = t
          BY <4>1
        <4>3. Count \in Nat /\ Count' \in {n, n + 1}
          BY <2>t, <4>2 DEF Count
        <4>4. PICK c \in Nat, d \in Nat, k \in Nat : Count = c /\ Count' = d /\ interval = k
          BY <2>t, <4>3
        <4>5. c * k \in Nat /\ d * k \in Nat
          OBVIOUS
        <4>6. Debt = c * k + tokens /\ Debt' = d * k + t
          BY <2>x, <4>2, <4>4 DEF Debt
        <4>7. QED BY <2>t, <4>5, <4>6
      <3>3. PICK d \in Nat, e \in Nat : d = Debt /\ e = Debt' /\ e <= d
        BY <3>1, <3>2
      <3>4. PICK x \in Nat : x = Paid(cur_time)
        BY <2>t, <3>1, PaidGrows
      <3>5. d * Frac <= m * Frac + x
        BY <2>r, <2>x, <3>1, <3>3, <3>4 DEF TokenRate
      <3>6. e * Frac <= m * Frac + x
        <4>1. e * Frac <= d * Frac
          <5>1. e <= d
            BY <3>3
          <5>2. PICK g \in Nat, f \in Nat : g = d - e /\ f = Frac
            BY <5>1
          <5>3. (e + g) * f = e * f + g * f /\ g * f \in Nat /\ e * f \in Nat
            OBVIOUS
          <5>4. d = e + g
            BY <5>2
          <5>5. QED BY <5>2, <5>3, <5>4
        <4>2. PICK u \in Nat, v \in Nat, w \in Nat :
                 u = e * Frac /\ v = d * Frac /\ w = m * Frac
          OBVIOUS
        <4>3. u <= v /\ v <= w + x
          BY <3>5, <4>1, <4>2
        <4>4. QED BY <4>2, <4>3
      <3>7. Paid(cur_time)' = x
        BY <3>1, <3>4 DEF Paid
      <3>8. QED BY <2>r, <2>x, <3>3, <3>6, <3>7
    <2>4. QED BY <2>1, <2>2, <2>3
  <1>3. QED BY <1>1, <1>2, PaceTypes, PTL DEF Spec

\* A flood that hears nothing: once the preload is out, every probe has waited
\* for MinGap since the one before.
THEOREM FloodIsPaid == Spec => []FloodRate
  <1> USE PaceAssumption
  <1>1. Init => FloodRate
    BY DEF Init, FloodRate
  <1>2. PaceInv /\ PaceInv' /\ FloodRate /\ [Next]_vars => FloodRate'
    <2> SUFFICES ASSUME PaceInv, PaceInv', FloodRate, [Next]_vars PROVE FloodRate'
      OBVIOUS
    <2>f. (total' = 0 => total = 0) /\ (total' = 0 => flight' = sent')
      BY StillInFlight DEF FloodRate
    <2> SUFFICES ASSUME Fixed', interval' = 0, total' = 0, cur_time' > 0
                 PROVE  (Count * (MinGap * Frac) <= opt.preload * (MinGap * Frac) + Paid(cur_time))'
      BY <2>f DEF FloodRate
    <2>o. UNCHANGED opt
      BY DEF Next, First, Grant, HoldFlood, Limited, Sent, Again, NoBuffers, HardError,
             Reply, Wake, Tick, Ended, vars, paceVars
    <2>x. Fixed /\ interval = 0 /\ total = 0 /\ flight = sent
      BY <2>o, <2>f DEF PaceInv, Fixed, FloodRate
    <2>t. /\ sent \in Nat /\ cur_time \in Nat /\ opt \in Sessions
          /\ now \in Nat /\ Start <= now /\ cur_time <= now /\ Start = 1
      BY DEF PaceInv, Start
    <2>g. PICK g \in Nat, p \in Nat \ {0} : g = MinGap * Frac /\ p = opt.preload
      BY <2>t
    <2>p. PICK pn \in Nat : pn = Paid(now)
      BY <2>t, PaidGrows
    <2>1. CASE First
      <3>1. pc' = "send" /\ sent' = 0 /\ cur_time' = now
        BY <2>1 DEF First, PaceInv
      <3>2. Count' = 1
        BY <3>1 DEF Count
      <3>3. 1 * g <= p * g + pn
        <4>1. PICK q \in Nat : p = q + 1
          BY <2>g
        <4>2. (q + 1) * g = q * g + g /\ q * g \in Nat
          OBVIOUS
        <4>3. QED BY <4>1, <4>2
      <3>4. Paid(cur_time)' = pn
        BY <2>p, <3>1 DEF Paid
      <3>5. QED BY <2>g, <2>o, <3>2, <3>3, <3>4
    <2>2. CASE Grant
      <3>1. /\ pc # "send" /\ pc' = "send" /\ sent' = sent /\ cur_time' = now
            /\ cur_time > 0 /\ ~FloodHeld
        BY <2>2 DEF Grant
      <3>2. PICK n \in Nat : n = sent /\ Count = n /\ Count' = n + 1
        BY <2>t, <3>1 DEF Count
      <3>3. PICK e \in Nat, p0 \in Nat : /\ e = ElapsedMs(cur_time, now)
                                         /\ p0 = Paid(cur_time) /\ p0 + e * Frac <= pn
        <4>1. PICK a \in Nat, b \in Nat : a = cur_time /\ b = now /\ Start <= a /\ a <= b
          BY <2>t, <3>1
        <4>2. /\ ElapsedMs(a, b) \in Nat /\ Paid(a) \in Nat
              /\ Paid(a) + ElapsedMs(a, b) * Frac <= Paid(b)
          BY <4>1, ElapsedBounds, PaidGrows
        <4>3. QED BY <2>p, <4>1, <4>2
      <3>4. n < p \/ e >= MinGap
        BY <2>g, <2>x, <3>1, <3>2, <3>3 DEF FloodHeld
      <3>5. n * g <= p * g + p0
        BY <2>g, <2>x, <3>1, <3>2, <3>3 DEF FloodRate
      <3>6. (n + 1) * g = n * g + g /\ n * g \in Nat /\ p * g \in Nat
        OBVIOUS
      <3>7. (n + 1) * g <= p * g + pn
        <4>1. CASE n < p
          <5>1. PICK q \in Nat : p = (n + 1) + q
            BY <4>1
          <5>2. ((n + 1) + q) * g = (n + 1) * g + q * g /\ q * g \in Nat /\ (n + 1) * g \in Nat
            OBVIOUS
          <5>3. QED BY <5>1, <5>2
        <4>2. CASE e >= MinGap
          <5>1. PICK q \in Nat, f \in Nat, h \in Nat : e = h + q /\ f = Frac /\ h = MinGap
            BY <4>2
          <5>2. (h + q) * f = h * f + q * f /\ q * f \in Nat
            OBVIOUS
          <5>3. g <= e * Frac
            BY <2>g, <5>1, <5>2
          <5>4. PICK z \in Nat : z = e * Frac
            OBVIOUS
          <5>5. g <= z /\ p0 + z <= pn
            BY <3>3, <5>3, <5>4
          <5>6. QED BY <3>5, <3>6, <5>5
        <4>3. QED BY <3>4, <4>1, <4>2
      <3>8. Paid(cur_time)' = pn
        BY <2>p, <3>1 DEF Paid
      <3>9. QED BY <2>g, <2>o, <3>2, <3>7, <3>8
    <2>3. CASE ~First /\ ~Grant
      <3>1. cur_time' = cur_time /\ Count' <= Count
        BY <2>3, <2>x, OnlyPingerTakes
      <3>2. PICK n \in Nat, c \in Nat : n = Count /\ c = Count' /\ c <= n
        <4>1. PICK u \in Nat : sent' = u
          BY DEF PaceInv
        <4>2. Count \in Nat /\ Count' \in {u, u + 1}
          BY <2>t, <4>1 DEF Count
        <4>3. QED BY <3>1, <4>2
      <3>3. PICK x \in Nat : x = Paid(cur_time)
        BY <2>t, <3>1, PaidGrows
      <3>4. n * g <= p * g + x
        BY <2>g, <2>x, <3>1, <3>2, <3>3 DEF FloodRate
      <3>5. c * g <= p * g + x
        <4>1. PICK q \in Nat : n = c + q
          <5>1. c <= n
            BY <3>2
          <5>2. PICK q \in Nat : q = n - c
            BY <5>1
          <5>3. n = c + q
            BY <5>2
          <5>4. QED BY <5>3
        <4>2. (c + q) * g = c * g + q * g /\ q * g \in Nat /\ c * g \in Nat /\ p * g \in Nat
          OBVIOUS
        <4>3. QED BY <3>4, <4>1, <4>2
      <3>6. Paid(cur_time)' = x
        BY <3>1, <3>3 DEF Paid
      <3>7. QED BY <2>g, <2>o, <3>2, <3>5, <3>6
    <2>4. QED BY <2>1, <2>2, <2>3
  <1>3. QED BY <1>1, <1>2, PaceTypes, PTL DEF Spec

\* "Check that packets < rate*time + preload": the session never sends more
\* than elapsed time and preload pay for.
THEOREM RateIsLimited == Spec => []RateLimited
  <1> USE PaceAssumption
  <1>1. PaceInv /\ TokenRate /\ FloodRate => RateLimited
    <2> SUFFICES ASSUME PaceInv, TokenRate, FloodRate, Fixed
                 PROVE  /\ sent * interval * Frac <= opt.preload * interval * Frac + Elapsed
                        /\ interval = 0 /\ total = 0 =>
                              sent * MinGap * Frac <= opt.preload * MinGap * Frac + Elapsed
      BY DEF RateLimited, Fixed
    <2>1. PICK n \in Nat, k \in Nat, t \in Nat, p \in Nat :
             n = sent /\ k = interval /\ t = tokens /\ p = opt.preload
      BY DEF PaceInv
    <2>2. /\ cur_time \in Nat /\ now \in Nat /\ Start <= now /\ cur_time <= now /\ Start = 1
          /\ cur_time = 0 => n = 0
      BY <2>1 DEF PaceInv, Start
    <2>3. PICK x \in Nat : x = Elapsed /\ x = Paid(now)
      BY <2>2, PaidGrows DEF Elapsed, Paid
    <2>4. PICK c \in Nat : c = Count /\ c \in {n, n + 1}
      BY <2>1 DEF Count
    <2>5. CASE cur_time = 0
      <3>1. 0 * k * Frac <= p * k * Frac + x /\ 0 * MinGap * Frac <= p * MinGap * Frac + x
        <4>1. p * k \in Nat /\ p * MinGap \in Nat /\ 0 * k = 0 /\ 0 * MinGap = 0
          OBVIOUS
        <4>2. PICK a \in Nat, b \in Nat, f \in Nat : a = p * k /\ b = p * MinGap /\ f = Frac
          BY <4>1
        <4>3. a * f \in Nat /\ b * f \in Nat /\ 0 * f = 0
          OBVIOUS
        <4>4. p * k * Frac = a * f /\ p * MinGap * Frac = b * f
          BY <4>2
        <4>5. 0 * k * Frac = 0 /\ 0 * MinGap * Frac = 0
          BY <4>1, <4>2, <4>3
        <4>6. QED BY <4>3, <4>4, <4>5
      <3>2. n = 0
        BY <2>2, <2>5
      <3>3. QED BY <2>1, <2>3, <3>1, <3>2
    <2>6. CASE cur_time > 0
      <3>1. PICK y \in Nat : y = Paid(cur_time) /\ y <= x
        BY <2>2, <2>3, <2>6, PaidGrows
      <3>2. PICK f \in Nat, g \in Nat : f = Frac /\ g = MinGap
        OBVIOUS
      <3>3. n * k * f <= p * k * f + x
        <4>1. (c * k + t) * f <= (k * p) * f + y
          BY <2>1, <2>4, <2>6, <3>1, <3>2 DEF TokenRate, Debt, Room
        <4>2. n * k * f <= (c * k + t) * f
          <5>1. PICK q \in Nat : c = n + q
            BY <2>4
          <5>2. ((n + q) * k + t) * f = n * k * f + (q * k + t) * f
            OBVIOUS
          <5>3. (q * k + t) * f \in Nat /\ n * k * f \in Nat
            <6>1. q * k + t \in Nat /\ n * k \in Nat
              OBVIOUS
            <6>2. QED BY <6>1
          <5>4. QED BY <5>1, <5>2, <5>3
        <4>3. (k * p) * f = p * k * f
          OBVIOUS
        <4>4. PICK a \in Int, b \in Int, d \in Int :
                 a = n * k * f /\ b = (c * k + t) * f /\ d = p * k * f
          OBVIOUS
        <4>5. a <= b /\ b <= d + y
          BY <4>1, <4>2, <4>3, <4>4
        <4>6. a <= d + x
          BY <3>1, <4>5
        <4>7. QED BY <4>4, <4>6
      <3>4. ASSUME interval = 0, total = 0
            PROVE  n * g * f <= p * g * f + x
        <4>1. c * (g * f) <= p * (g * f) + y
          BY <2>1, <2>4, <2>6, <3>1, <3>2, <3>4 DEF FloodRate
        <4>2. PICK h \in Nat : h = g * f
          OBVIOUS
        <4>3. n * g * f = n * h /\ p * g * f = p * h
          BY <4>2
        <4>4. n * h <= c * h
          <5>1. PICK q \in Nat : c = n + q
            BY <2>4
          <5>2. (n + q) * h = n * h + q * h /\ q * h \in Nat /\ n * h \in Nat
            OBVIOUS
          <5>3. QED BY <5>1, <5>2
        <4>5. PICK a \in Int, b \in Int, d \in Int : a = n * h /\ b = c * h /\ d = p * h
          OBVIOUS
        <4>6. a <= b /\ b <= d + y
          BY <4>1, <4>2, <4>4, <4>5
        <4>7. a <= d + x
          BY <3>1, <4>6
        <4>8. QED BY <4>3, <4>5, <4>7
      <3>5. QED BY <2>1, <2>3, <3>2, <3>3, <3>4
    <2>7. QED BY <2>2, <2>5, <2>6
  <1>2. QED BY <1>1, PaceTypes, TokensArePaid, FloodIsPaid, PTL

(***************************************************************************)
(* Bursts                                                                  *)
(***************************************************************************)

\* What a burst has cost, with the probe at sendto(), and what the bucket
\* would give at this moment are together at most one token more than it holds.
BurstCount == IF pc = "send" THEN burst + 1 ELSE burst
BurstInv ==
    Fixed /\ cur_time > 0 => BurstCount * interval + Filled(now) <= Room + interval

\* A fuller bucket gives more, but never more than was added.
LEMMA FilledGrows ==
    ASSUME NEW e \in Nat, NEW s \in Nat, NEW t \in Nat, NEW m \in Nat
    PROVE  /\ s <= t => AtMost(e + s, m) <= AtMost(e + t, m)
           /\ AtMost(e + s + t, m) <= AtMost(e + s, m) + t
           /\ AtMost(e + s, m) \in Nat /\ AtMost(e + s, m) <= m
  BY DEF AtMost

\* At no moment does the bucket pay for a longer burst.
THEOREM BurstsArePaid == Spec => []BurstInv
  <1> USE PaceAssumption
  <1>1. Init => BurstInv
    BY DEF Init, BurstInv
  <1>2. PaceInv /\ PaceInv' /\ BurstInv /\ [Next]_vars => BurstInv'
    <2> SUFFICES ASSUME PaceInv, PaceInv', BurstInv, [Next]_vars, Fixed', cur_time' > 0
                 PROVE  (BurstCount * interval + Filled(now) <= Room + interval)'
      BY DEF BurstInv
    <2>o. UNCHANGED opt
      BY DEF Next, First, Grant, HoldFlood, Limited, Sent, Again, NoBuffers, HardError,
             Reply, Wake, Tick, Ended, vars, paceVars
    <2>x. Fixed /\ interval' = interval /\ Room' = Room
      BY <2>o DEF PaceInv, Fixed, Room
    <2>t. /\ cur_time \in Nat /\ opt \in Sessions /\ interval \in Nat /\ tokens \in Nat
          /\ now \in Nat /\ Start <= now /\ cur_time <= now /\ Start = 1 /\ burst \in Nat
      BY DEF PaceInv, Start
    <2>r. PICK m \in Nat, k \in Nat, b \in Nat, t \in Nat :
             /\ m = Room /\ k = interval /\ b = burst /\ t = tokens /\ k <= m
             /\ FirstTokens \in Nat /\ FirstTokens + k = m
      BY <2>t, RoomType
    <2>f. PICK f \in Nat, e \in Nat :
             f = Filled(now) /\ e = ElapsedMs(cur_time, now) /\ f = AtMost(e + t, m) /\ f <= m
      <3>1. PICK e \in Nat : e = ElapsedMs(cur_time, now)
        BY <2>t, ElapsedBounds
      <3>2. Filled(now) = AtMost(e + t, m)
        BY <2>r, <3>1 DEF Filled, Room
      <3>3. AtMost(e + t, m) \in Nat /\ AtMost(e + t, m) <= m
        BY FilledGrows
      <3>4. QED BY <3>1, <3>2, <3>3
    <2>n. ASSUME UNCHANGED <<cur_time, now>>, NEW u \in Nat, tokens' = u
          PROVE  Filled(now)' = AtMost(e + u, m)
      BY <2>n, <2>f, <2>r, <2>x, <2>o DEF Filled, Room
    <2>k. b * k \in Nat /\ (b + 1) * k = b * k + k
      OBVIOUS
    <2>1. CASE First \/ Grant
      <3>1. /\ pc # "send" /\ pc' = "send" /\ burst' = burst /\ cur_time' = now /\ now' = now
        BY <2>1 DEF First, Grant
      <3>2. BurstCount' = b + 1
        BY <2>r, <3>1 DEF BurstCount
      <3>3. ElapsedMs(now, now) = 0
        BY <2>t, ElapsedNothing
      <3>4. PICK u \in Nat : tokens' = u
        BY DEF PaceInv
      <3>5. Filled(now)' = AtMost(0 + u, m)
        BY <2>r, <2>x, <2>o, <3>1, <3>3, <3>4 DEF Filled, Room
      <3>6. AtMost(0 + u, m) <= u
        BY DEF AtMost
      <3>7. b * k + k + u <= m + k
        <4>1. CASE First
          <5>1. b = 0 /\ u + k = m
            BY <2>r, <3>4, <4>1 DEF First, PaceInv
          <5>2. b * k = 0
            BY <5>1
          <5>3. QED BY <5>1, <5>2
        <4>2. CASE Grant
          <5>1. u = f - k /\ cur_time > 0
            BY <2>f, <2>r, <3>4, <4>2 DEF Grant
          <5>2. BurstCount = b
            BY <2>r, <3>1 DEF BurstCount
          <5>3. b * k + f <= m + k
            BY <2>f, <2>r, <2>x, <5>1, <5>2 DEF BurstInv
          <5>4. QED BY <2>k, <5>1, <5>3
        <4>3. QED BY <2>1, <4>1, <4>2
      <3>8. PICK z \in Nat : z = AtMost(0 + u, m)
        BY FilledGrows
      <3>9. (b + 1) * k + z <= m + k
        BY <2>k, <3>6, <3>7, <3>8
      <3>10. QED BY <2>r, <2>x, <3>2, <3>5, <3>8, <3>9
    <2>b. ASSUME NEW d \in Nat, NEW z \in Nat, BurstCount' = d, Filled(now)' = z,
                 d * k + z <= m + k
          PROVE  (BurstCount * interval + Filled(now) <= Room + interval)'
      BY <2>b, <2>r, <2>x
    <2>2. CASE Sent
      <3>1. /\ pc = "send" /\ pc' # "send" /\ burst' = burst + 1 /\ cur_time > 0
            /\ UNCHANGED <<cur_time, now, tokens>>
        BY <2>2 DEF Sent, Advance, Return, bucket, PaceInv
      <3>2. BurstCount = b + 1 /\ BurstCount' = b + 1
        BY <2>r, <3>1 DEF BurstCount
      <3>3. Filled(now)' = f
        BY <2>n, <2>f, <2>r, <3>1
      <3>4. (b + 1) * k + f <= m + k
        BY <2>f, <2>r, <2>x, <3>1, <3>2 DEF BurstInv
      <3>5. QED BY <2>b, <3>2, <3>3, <3>4
    <2>3. CASE Again
      <3>1. /\ pc = "send" /\ pc' # "send" /\ burst' = burst /\ cur_time > 0
            /\ UNCHANGED <<cur_time, now>> /\ tokens' = t + k
        BY <2>3, <2>r DEF Again, Return, PaceInv
      <3>2. BurstCount = b + 1 /\ BurstCount' = b
        BY <2>r, <3>1 DEF BurstCount
      <3>3. PICK z \in Nat : Filled(now)' = z /\ z <= f + k
        <4>1. PICK u \in Nat : u = t + k
          OBVIOUS
        <4>2. Filled(now)' = AtMost(e + u, m)
          BY <2>n, <3>1, <4>1
        <4>3. AtMost(e + u, m) \in Nat /\ AtMost(e + t + k, m) <= AtMost(e + t, m) + k
          BY FilledGrows
        <4>4. AtMost(e + u, m) = AtMost(e + t + k, m)
          BY <4>1 DEF AtMost
        <4>5. QED BY <2>f, <4>2, <4>3, <4>4
      <3>4. (b + 1) * k + f <= m + k
        BY <2>f, <2>r, <2>x, <3>1, <3>2 DEF BurstInv
      <3>5. b * k + z <= m + k
        BY <2>k, <3>3, <3>4
      <3>6. QED BY <2>b, <3>2, <3>3, <3>5
    <2>4. CASE NoBuffers \/ HardError
      <3>1. /\ pc = "send" /\ pc' = "wait" /\ burst' \in {burst, burst + 1} /\ cur_time > 0
            /\ UNCHANGED <<cur_time, now>> /\ tokens' = 0
        BY <2>4 DEF NoBuffers, HardError, Advance, Slowdown, PaceInv
      <3>2. PICK d \in Nat : d \in {b, b + 1} /\ BurstCount = b + 1 /\ BurstCount' = d
        BY <2>r, <3>1 DEF BurstCount
      <3>3. PICK z \in Nat : Filled(now)' = z /\ z <= f
        <4>1. Filled(now)' = AtMost(e + 0, m)
          BY <2>n, <3>1
        <4>2. AtMost(e + 0, m) \in Nat /\ AtMost(e + 0, m) <= AtMost(e + t, m)
          BY DEF AtMost
        <4>3. QED BY <2>f, <4>1, <4>2
      <3>4. (b + 1) * k + f <= m + k
        BY <2>f, <2>r, <2>x, <3>1, <3>2 DEF BurstInv
      <3>5. d * k + z <= m + k
        <4>1. CASE d = b
          BY <2>k, <3>3, <3>4, <4>1
        <4>2. CASE d = b + 1
          <5>1. d * k = (b + 1) * k
            BY <4>2
          <5>2. QED BY <2>k, <3>3, <3>4, <5>1
        <4>3. QED BY <3>2, <4>1, <4>2
      <3>6. QED BY <2>b, <3>2, <3>3, <3>5
    <2>5. CASE HoldFlood \/ Limited \/ Wake \/ (\E cs \in BOOLEAN : Reply(cs))
               \/ Ended \/ UNCHANGED vars
      <3>1. /\ UNCHANGED <<cur_time, now, tokens, burst>>
            /\ pc' = pc \/ (pc # "send" /\ pc' # "send")
        BY <2>5 DEF HoldFlood, Limited, Wake, Reply, Ended, vars, paceVars, bucket, Return
      <3>2. PICK d \in Nat : BurstCount = d /\ BurstCount' = d
        BY <2>r, <3>1 DEF BurstCount
      <3>3. Filled(now)' = f
        BY <2>n, <2>f, <2>r, <3>1
      <3>4. d * k + f <= m + k
        BY <2>f, <2>r, <2>x, <3>1, <3>2 DEF BurstInv
      <3>5. QED BY <2>b, <3>2, <3>3, <3>4
    <2>6. CASE Tick
      <3>1. burst' = 0 /\ pc' = pc
        BY <2>6 DEF Tick
      <3>2. PICK d \in {0, 1} : BurstCount' = d
        BY <3>1 DEF BurstCount
      <3>3. PICK z \in Nat : Filled(now)' = z /\ z <= m
        <4>1. (Filled(now) \in Nat /\ Filled(now) <= Room)'
          <5>1. PICK u \in Nat, v \in Nat, w \in Nat :
                   now' = u /\ cur_time' = v /\ tokens' = w /\ v <= u
            BY DEF PaceInv
          <5>2. PICK g \in Nat : g = ElapsedMs(v, u)
            BY <5>1, ElapsedBounds
          <5>3. Filled(now)' = AtMost(g + w, m)
            BY <2>r, <2>x, <2>o, <5>1, <5>2 DEF Filled, Room
          <5>4. AtMost(g + w, m) \in Nat /\ AtMost(g + w, m) <= m
            BY FilledGrows
          <5>5. QED BY <2>r, <2>x, <5>3, <5>4
        <4>2. QED BY <2>r, <2>x, <4>1
      <3>4. d * k + z <= m + k
        <4>1. CASE d = 0
          <5>1. 0 * k = 0
            OBVIOUS
          <5>2. QED BY <3>3, <4>1, <5>1
        <4>2. CASE d = 1
          <5>1. 1 * k = k
            OBVIOUS
          <5>2. QED BY <3>3, <4>2, <5>1
        <4>3. QED BY <4>1, <4>2
      <3>5. QED BY <2>b, <3>2, <3>3, <3>4
    <2>7. QED BY <2>1, <2>2, <2>3, <2>4, <2>5, <2>6 DEF Next
  <1>3. QED BY <1>1, <1>2, PaceTypes, PTL DEF Spec

\* -l: no burst is longer than the preload, but for one probe whose token was
\* taken before the clock moved.
THEOREM BurstsAreBounded == Spec => []BurstBounded
  <1> USE PaceAssumption
  <1>1. PaceInv /\ BurstInv => BurstBounded
    <2> SUFFICES ASSUME PaceInv, BurstInv, Fixed, interval > 0
                 PROVE  burst <= opt.preload + 1
      BY DEF BurstBounded, Fixed
    <2>1. PICK b \in Nat, k \in Nat \ {0}, p \in Nat :
             b = burst /\ k = interval /\ p = opt.preload
      BY DEF PaceInv
    <2>2. CASE cur_time = 0
      BY <2>1, <2>2 DEF PaceInv
    <2>3. CASE cur_time > 0
      <3>1. PICK f \in Nat : f = Filled(now)
        BY FilledType DEF PaceInv
      <3>2. PICK c \in Nat : c = BurstCount /\ c \in {b, b + 1}
        BY <2>1 DEF BurstCount
      <3>3. c * k + f <= k * p + k
        BY <2>1, <2>3, <3>1, <3>2 DEF BurstInv, Room
      <3>4. c * k <= k * p + k
        <4>1. PICK x \in Int, y \in Int : x = c * k /\ y = k * p + k
          OBVIOUS
        <4>2. x + f <= y
          BY <3>3, <4>1
        <4>3. x <= y
          BY <4>2
        <4>4. QED BY <4>1, <4>3
      <3>5. c <= p + 1
        <4>1. ASSUME c > p + 1 PROVE FALSE
          <5>1. PICK q \in Nat : c = p + 2 + q
            <6>1. PICK q \in Nat : q = c - p - 2
              BY <4>1
            <6>2. c = p + 2 + q
              BY <6>1
            <6>3. QED BY <6>2
          <5>2. (p + 2 + q) * k = k * p + k + k + q * k /\ q * k \in Nat /\ k * p \in Nat
            OBVIOUS
          <5>3. QED BY <3>4, <5>1, <5>2
        <4>2. QED BY <4>1
      <3>6. QED BY <2>1, <3>2, <3>5
    <2>4. QED BY <2>2, <2>3 DEF PaceInv
  <1>2. QED BY <1>1, PaceTypes, BurstsArePaid, PTL

(***************************************************************************)
(* Sleep                                                                   *)
(***************************************************************************)

\* A pause of ms milliseconds, and one more, is counted as ms at least,
\* although the conversion of the elapsed time may lose one.
LEMMA PauseElapses ==
    ASSUME NEW a \in Nat, NEW b \in Nat, a <= b, NEW ms \in Nat
    PROVE  /\ b + ms * Frac + Frac \in Nat /\ a <= b + ms * Frac + Frac
           /\ ElapsedMs(a, b + ms * Frac + Frac) \in Nat
           /\ ElapsedMs(a, b + ms * Frac + Frac) >= ElapsedMs(a, b) + ms
  <1> USE PaceAssumption
  <1>1. PICK f \in Nat \ {0}, p \in Nat : f = Frac /\ p = ms * Frac
    OBVIOUS
  <1>2. PICK c \in Nat : c = b + p + f /\ a <= c
    OBVIOUS
  <1>3. PICK e \in Nat, g \in Nat : e = ElapsedMs(a, b) /\ g = ElapsedMs(a, c)
    BY <1>2, ElapsedBounds
  <1>4. c - a - f < g * f
    BY <1>1, <1>2, <1>3, ElapsedBounds
  <1>5. e * f < b - a + f
    BY <1>1, <1>3, ElapsedBounds
  <1>6. (e + ms) * f = e * f + p
    BY <1>1
  <1>7. PICK x \in Int, y \in Int : x = (e + ms) * f /\ y = g * f
    OBVIOUS
  <1>8. x - f < y
    <2>1. PICK z \in Int : z = e * f
      OBVIOUS
    <2>2. x = z + p /\ z < b - a + f /\ c - a - f < y
      BY <1>4, <1>5, <1>6, <1>7, <2>1
    <2>3. b - a + p < y
      BY <1>2, <2>2
    <2>4. QED BY <2>2, <2>3
  <1>9. g >= e + ms
    <2>1. ASSUME g < e + ms PROVE FALSE
      <3>1. PICK q \in Nat : q = e + ms - 1 - g
        BY <2>1
      <3>2. e + ms = g + 1 + q
        BY <3>1
      <3>3. (g + 1 + q) * f = g * f + f + q * f /\ q * f \in Nat
        OBVIOUS
      <3>4. x = y + f + q * f
        BY <1>7, <3>2, <3>3
      <3>5. PICK h \in Nat : h = q * f
        BY <3>3
      <3>6. QED BY <1>8, <3>4, <3>5
    <2>2. QED BY <2>1
  <1>10. c = b + ms * Frac + Frac
    BY <1>1, <1>2
  <1>11. QED BY <1>2, <1>3, <1>9, <1>10

\* A pause of ms is long enough when ms and what the bucket has are.
LEMMA LongEnough ==
    ASSUME PaceInv, NEW ms \in Nat, NEW u \in Nat,
           ElapsedMs(cur_time, now) + u + ms >= interval
    PROVE  AtMost(ElapsedMs(cur_time, now + ms * Frac + Frac) + u, interval * opt.preload)
              >= interval
  <1>1. PICK a \in Nat, b \in Nat, k \in Nat, m \in Nat :
           /\ a = cur_time /\ b = now /\ a <= b /\ k = interval
           /\ m = interval * opt.preload /\ k <= m
    <2>1. Room \in Nat /\ interval <= Room
      BY RoomType DEF PaceInv
    <2>2. cur_time \in Nat /\ now \in Nat /\ cur_time <= now /\ interval \in Nat
      BY DEF PaceInv
    <2>3. QED BY <2>1, <2>2 DEF Room
  <1>2. PICK e \in Nat : e = ElapsedMs(a, b)
    BY <1>1, ElapsedBounds
  <1>3. PICK g \in Nat : g = ElapsedMs(a, b + ms * Frac + Frac) /\ g >= e + ms
    BY <1>1, <1>2, PauseElapses
  <1>4. e + u + ms >= k
    BY <1>1, <1>2
  <1>5. AtMost(g + u, m) >= k
    BY <1>1, <1>3, <1>4 DEF AtMost
  <1>6. QED BY <1>1, <1>3, <1>5

\* Whenever ping waits for a token, the bucket holds one when the pause is over
\* and a millisecond more has gone.
THEOREM SleepsAreEnough == Spec => []SleepIsEnough
  <1> USE PaceAssumption
  <1>1. Init => SleepIsEnough
    BY DEF Init, SleepIsEnough
  <1>2. PaceInv /\ PaceInv' /\ SleepIsEnough /\ [Next]_vars => SleepIsEnough'
    <2> SUFFICES ASSUME PaceInv, PaceInv', SleepIsEnough, [Next]_vars,
                        due' > 0, pc' = "wait", cur_time' > 0, Fixed'
                 PROVE  (Filled(due + Frac) >= interval)'
      BY DEF SleepIsEnough, Fixed
    <2>o. UNCHANGED opt
      BY DEF Next, First, Grant, HoldFlood, Limited, Sent, Again, NoBuffers, HardError,
             Reply, Wake, Tick, Ended, vars, paceVars
    <2>x. Fixed /\ interval' = interval
      BY <2>o DEF PaceInv, Fixed
    <2>t. PICK a \in Nat, b \in Nat, k \in Nat, t \in Nat :
             a = cur_time /\ b = now /\ a <= b /\ k = interval /\ t = tokens
      BY DEF PaceInv
    <2>e. PICK e \in Nat : e = ElapsedMs(a, b)
      BY <2>t, ElapsedBounds
    <2>p. ASSUME NEW ms \in Nat, NEW u \in Nat, due' = now + ms * Frac, tokens' = u,
                 UNCHANGED cur_time, e + u + ms >= k
          PROVE  (Filled(due + Frac) >= interval)'
      <3>1. ElapsedMs(cur_time, now) + u + ms >= interval
        BY <2>p, <2>t, <2>e
      <3>2. AtMost(ElapsedMs(cur_time, now + ms * Frac + Frac) + u, interval * opt.preload)
               >= interval
        BY <3>1, LongEnough
      <3>3. Filled(due + Frac)'
               = AtMost(ElapsedMs(cur_time, now + ms * Frac + Frac) + u, interval * opt.preload)
        BY <2>p, <2>o, <2>x DEF Filled
      <3>4. QED BY <2>x, <3>2, <3>3
    <2>s. ASSUME UNCHANGED <<due, cur_time, tokens, pc>>
          PROVE  (Filled(due + Frac) >= interval)'
      <3>1. Filled(due + Frac) >= interval
        BY <2>s, <2>x DEF SleepIsEnough, Fixed
      <3>2. Filled(due + Frac)' = Filled(due + Frac)
        BY <2>s, <2>o, <2>x DEF Filled
      <3>3. QED BY <2>x, <3>1, <3>2
    <2>1. CASE HoldFlood
      <3>1. PICK ms \in Int : ms = MinGap - e
        OBVIOUS
      <3>2. Pause(ms) /\ interval = 0 /\ UNCHANGED <<cur_time, tokens>>
        BY <2>1, <2>e, <2>t, <3>1 DEF HoldFlood, FloodHeld, bucket
      <3>3. ms > 0 /\ due' = now + ms * Frac
        BY <3>2 DEF Pause
      <3>4. QED BY <2>p, <2>t, <3>2, <3>3
    <2>2. CASE Limited
      <3>1. PICK f \in Nat, m \in Nat :
               f = Filled(now) /\ m = interval * opt.preload /\ f = AtMost(e + t, m) /\ k <= m
        <4>1. Filled(now) \in Nat
          BY FilledType DEF PaceInv
        <4>2. Room \in Nat /\ interval <= Room
          BY RoomType DEF PaceInv
        <4>3. QED BY <2>e, <2>t, <4>1, <4>2 DEF Filled, Room
      <3>2. PICK ms \in Int : ms = k - f
        OBVIOUS
      <3>3. f < k /\ Pause(ms) /\ UNCHANGED <<cur_time, tokens>>
        BY <2>2, <2>t, <3>1, <3>2 DEF Limited, bucket
      <3>4. ms \in Nat /\ due' = now + ms * Frac
        BY <3>2, <3>3 DEF Pause
      <3>5. f = e + t
        BY <3>1, <3>3 DEF AtMost
      <3>6. e + t + ms >= k
        BY <3>2, <3>5
      <3>7. QED BY <2>p, <2>t, <3>3, <3>4, <3>6
    <2>3. CASE Sent
      <3>1. PICK ms \in Int : ms = k - t
        OBVIOUS
      <3>2. Pause(ms) /\ UNCHANGED <<cur_time, tokens>>
        BY <2>3, <2>t, <3>1 DEF Sent, bucket
      <3>3. ms > 0 /\ due' = now + ms * Frac
        BY <3>2 DEF Pause
      <3>4. e + t + ms >= k
        BY <3>1
      <3>5. QED BY <2>p, <2>t, <3>2, <3>3, <3>4
    <2>4. CASE Again
      <3>1. PICK ms \in Nat, u \in Nat : ms = MinGap /\ u = t + k
        OBVIOUS
      <3>2. Pause(ms) /\ UNCHANGED cur_time /\ tokens' = u
        BY <2>4, <2>t, <3>1 DEF Again
      <3>3. due' = now + ms * Frac
        BY <3>2 DEF Pause
      <3>4. e + u + ms >= k
        BY <3>1
      <3>5. QED BY <2>p, <3>2, <3>3, <3>4
    <2>5. CASE HardError
      <3>1. PICK ms \in Nat : ms = SCHINT(k) /\ ms >= k
        BY DEF SCHINT
      <3>2. due' = now + ms * Frac /\ UNCHANGED cur_time /\ tokens' = 0
        BY <2>5, <2>t, <2>x, <3>1 DEF HardError, HardPause, Slowdown
      <3>3. e + 0 + ms >= k
        BY <3>1
      <3>4. QED BY <2>p, <3>2, <3>3
    <2>6. CASE Tick \/ Ended \/ UNCHANGED vars
      BY <2>6, <2>s DEF Tick, Ended, vars, paceVars, bucket
    <2>7. ASSUME NEW cs \in BOOLEAN, Reply(cs)
          PROVE  (Filled(due + Frac) >= interval)'
      <3>1. UNCHANGED <<due, cur_time, tokens, pc>>
        BY <2>7, <2>x DEF Reply, bucket
      <3>2. QED BY <2>s, <3>1
    <2>8. CASE First \/ Grant \/ NoBuffers \/ Wake
      BY <2>8 DEF First, Grant, NoBuffers, Wake
    <2>9. QED BY <2>1, <2>2, <2>3, <2>4, <2>5, <2>6, <2>7, <2>8 DEF Next
  <1>3. QED BY <1>1, <1>2, PaceTypes, PTL DEF Spec

(***************************************************************************)
(* The figures of the summary                                              *)
(***************************************************************************)

\* What the sum S of n times between lo and hi, and the sum Q of their squares,
\* say about them.
Within(n, S, Q, lo, hi) ==
    n * lo <= S /\ S <= n * hi /\ Q <= (lo + hi) * S - n * (lo * hi)

\* The times lie between the smallest and the largest, and neither the squares
\* of their distances from a number x nor their variance sum up to less than 0.
SumsInv ==
    /\ measured = 0 => tsum = 0 /\ tsum2 = 0 /\ rtt = 0 /\ tmin = Unset /\ tmax = 0
    /\ measured > 0 =>
          /\ tmin <= tmax
          /\ 8 * tmin <= rtt /\ rtt <= 8 * tmax
          /\ Within(measured, tsum, tsum2, tmin, tmax)
    /\ \A x \in Nat : tsum2 + measured * (x * x) - 2 * (tsum * x) >= 0
    /\ measured * tsum2 - tsum * tsum >= 0

\* Widening the range from m .. M to l .. h keeps the bounds, and a time in the
\* range respects them.
LEMMA WithinWiden ==
    ASSUME NEW n \in Nat, NEW S \in Nat, NEW Q \in Nat, NEW m \in Nat, NEW M \in Nat,
           NEW l \in Nat, NEW h \in Nat, NEW t \in Nat,
           Within(n, S, Q, m, M), l <= m, M <= h, l <= t, t <= h
    PROVE  Within(n + 1, S + t, Q + t * t, l, h)
  <1>w. n * m <= S /\ S <= n * M /\ Q <= (m + M) * S - n * (m * M)
    BY DEF Within
  <1>a. PICK a \in Nat, b \in Nat : a = m - l /\ b = h - M
    OBVIOUS
  <1>l. l = m - a /\ h = M + b
    BY <1>a
  <1>1. PICK k \in Nat, u \in Nat : k = S - n * m /\ u = n * M - S
    <2>1. PICK x \in Int, y \in Int : x = n * m /\ y = n * M
      OBVIOUS
    <2>2. x <= S /\ S <= y
      BY <1>w, <2>1
    <2>3. QED BY <2>1, <2>2
  <1>2. b * k \in Nat /\ a * u \in Nat /\ n * (a * b) \in Nat
    <2>1. a * b \in Nat
      OBVIOUS
    <2>2. QED BY <2>1
  <1>3. ((m - a) + (M + b)) * S - n * ((m - a) * (M + b))
           = ((m + M) * S - n * (m * M)) + b * k + a * u + n * (a * b)
    <2>1. S = n * m + k /\ n * M = S + u
      BY <1>1
    <2>2. b * k = b * S - b * (n * m) /\ a * u = a * (n * M) - a * S
      BY <1>1
    <2>3. ((m - a) + (M + b)) * S = (m + M) * S + b * S - a * S
      OBVIOUS
    <2>4. n * ((m - a) * (M + b)) = n * (m * M) + b * (n * m) - a * (n * M) - n * (a * b)
      OBVIOUS
    <2>5. PICK p1 \in Int, p2 \in Int, p3 \in Int, p4 \in Int, p5 \in Int, p6 \in Int, p7 \in Int :
             /\ p1 = b * S /\ p2 = a * S /\ p3 = b * (n * m) /\ p4 = a * (n * M)
             /\ p5 = n * (a * b) /\ p6 = (m + M) * S /\ p7 = n * (m * M)
      OBVIOUS
    <2>6. QED BY <2>2, <2>3, <2>4, <2>5
  <1>4. PICK x \in Nat, y \in Nat : x = t - (m - a) /\ y = (M + b) - t
    BY <1>l
  <1>5. x * y \in Nat
    OBVIOUS
  <1>6. x * y = ((m - a) + (M + b)) * t - t * t - (m - a) * (M + b)
    BY <1>4
  <1>7. /\ ((m - a) + (M + b)) * (S + t)
             = ((m - a) + (M + b)) * S + ((m - a) + (M + b)) * t
        /\ (n + 1) * ((m - a) * (M + b)) = n * ((m - a) * (M + b)) + (m - a) * (M + b)
    OBVIOUS
  <1>8. PICK q1 \in Int, q2 \in Int, q3 \in Int, q4 \in Int, q5 \in Int, q6 \in Int, q7 \in Int :
           /\ q1 = ((m - a) + (M + b)) * S /\ q2 = n * ((m - a) * (M + b))
           /\ q3 = (m + M) * S - n * (m * M) /\ q4 = b * k + a * u + n * (a * b)
           /\ q5 = ((m - a) + (M + b)) * t /\ q6 = t * t /\ q7 = (m - a) * (M + b)
    OBVIOUS
  <1>9. q4 >= 0
    BY <1>2, <1>8
  <1>10. q1 - q2 = q3 + q4 /\ Q <= q3
    BY <1>w, <1>3, <1>8
  <1>11. q5 - q6 - q7 >= 0
    BY <1>5, <1>6, <1>8
  <1>12. Q + q6 <= q1 + q5 - (q2 + q7)
    BY <1>9, <1>10, <1>11
  <1>13. Q + t * t <= (l + h) * (S + t) - (n + 1) * (l * h)
    <2>1. Q + t * t <= ((m - a) + (M + b)) * (S + t) - (n + 1) * ((m - a) * (M + b))
      BY <1>7, <1>8, <1>12
    <2>2. QED BY <1>l, <2>1
  <1>14. (n + 1) * l <= S + t /\ S + t <= (n + 1) * h
    <2>1. /\ n * m = n * l + n * a /\ n * h = n * M + n * b
          /\ (n + 1) * l = n * l + l /\ (n + 1) * h = n * h + h
      <3>1. m = l + a /\ h = M + b
        BY <1>a
      <3>2. n * (l + a) = n * l + n * a /\ n * (M + b) = n * M + n * b
        OBVIOUS
      <3>3. QED BY <3>1, <3>2
    <2>2. n * a \in Nat /\ n * b \in Nat
      OBVIOUS
    <2>3. PICK p1 \in Int, p2 \in Int, p3 \in Int, p4 \in Int, p5 \in Nat, p6 \in Nat :
             /\ p1 = n * l /\ p2 = n * h /\ p3 = n * m /\ p4 = n * M
             /\ p5 = n * a /\ p6 = n * b
      BY <2>2
    <2>4. p1 + l <= S + t /\ S + t <= p2 + h
      BY <1>w, <2>1, <2>3
    <2>5. QED BY <2>1, <2>3, <2>4
  <1>15. QED BY <1>13, <1>14 DEF Within

\* The moving average stays within the range of the times.
LEMMA EwmaBetween ==
    ASSUME NEW r \in Nat, NEW t \in Nat, NEW lo \in Nat, NEW hi \in Nat,
           8 * lo <= r, r <= 8 * hi, lo <= t, t <= hi
    PROVE  8 * lo <= r + t - r \div 8 /\ r + t - r \div 8 <= 8 * hi
  OBVIOUS

\* A reply that is accounted keeps the sums in bounds.
LEMMA AccountKeeps ==
    ASSUME TimesTypes, SumsInv, NEW t \in 0 .. MaxTrip, Account(t), measured' = measured + 1
    PROVE  SumsInv'
  <1> USE TimesAssumption
  <1>1. PICK n \in Nat, S \in Nat, Q \in Nat, r \in Nat, lo \in Nat, hi \in Nat :
           /\ n = measured /\ S = tsum /\ Q = tsum2 /\ r = rtt /\ lo = tmin /\ hi = tmax
           /\ lo <= Unset
    BY DEF TimesTypes, Unset
  <1>2. PICK l1 \in Nat, h1 \in Nat :
           /\ l1 = (IF t < lo THEN t ELSE lo) /\ h1 = (IF t > hi THEN t ELSE hi)
           /\ l1 <= lo /\ l1 <= t /\ hi <= h1 /\ t <= h1
    OBVIOUS
  <1>3. PICK r1 \in Nat : r1 = Ewma(t)
    BY ValidTypes DEF TimesTypes
  <1>4. PICK n1 \in Nat, S1 \in Nat, Q1 \in Nat : n1 = n + 1 /\ S1 = S + t /\ Q1 = Q + t * t
    <2>1. t * t \in Nat
      OBVIOUS
    <2>2. QED BY <2>1
  <1>5. /\ measured' = n1 /\ tsum' = S1 /\ tsum2' = Q1 /\ rtt' = r1 /\ tmin' = l1 /\ tmax' = h1
    BY <1>1, <1>2, <1>3, <1>4 DEF Account
  <1>6. l1 <= h1
    BY <1>2
  <1>7. 8 * l1 <= r1 /\ r1 <= 8 * h1
    <2>1. CASE r = 0
      BY <1>1, <1>2, <1>3, <2>1 DEF Ewma
    <2>2. CASE r # 0
      <3>1. n > 0
        BY <1>1, <2>2 DEF SumsInv
      <3>2. 8 * lo <= r /\ r <= 8 * hi
        BY <1>1, <3>1 DEF SumsInv
      <3>3. 8 * l1 <= r /\ r <= 8 * h1
        BY <1>2, <3>2
      <3>4. 8 * l1 <= r + t - r \div 8 /\ r + t - r \div 8 <= 8 * h1
        BY <1>2, <3>3, EwmaBetween
      <3>5. r1 = r + t - r \div 8
        BY <1>1, <1>3, <2>2 DEF Ewma
      <3>6. QED BY <3>4, <3>5
    <2>3. QED BY <2>1, <2>2
  <1>8. Within(n1, S1, Q1, l1, h1)
    <2>1. CASE n = 0
      <3>1. S = 0 /\ Q = 0 /\ lo = Unset /\ hi = 0
        BY <1>1, <2>1 DEF SumsInv
      <3>2. l1 = t /\ h1 = t
        BY <1>2, <3>1 DEF Unset
      <3>3. n1 = 1 /\ S1 = t /\ Q1 = t * t
        BY <1>4, <2>1, <3>1
      <3>4. 1 * t = t /\ t * t <= (t + t) * t - 1 * (t * t)
        OBVIOUS
      <3>5. QED BY <3>2, <3>3, <3>4 DEF Within
    <2>2. CASE n > 0
      <3>1. Within(n, S, Q, lo, hi)
        BY <1>1, <2>2 DEF SumsInv
      <3>2. l1 <= lo /\ l1 <= t /\ hi <= h1 /\ t <= h1
        BY <1>2
      <3>3. t \in Nat
        OBVIOUS
      <3>4. Within(n + 1, S + t, Q + t * t, l1, h1)
        BY <3>1, <3>2, <3>3, WithinWiden, Zenon
      <3>5. QED BY <1>4, <3>4
    <2>3. QED BY <2>1, <2>2
  <1>9. ASSUME NEW x \in Nat
        PROVE  Q1 + n1 * (x * x) - 2 * (S1 * x) >= 0
    <2>1. Q + n * (x * x) - 2 * (S * x) >= 0
      BY <1>1 DEF SumsInv
    <2>2. PICK d \in Int : d = t - x
      OBVIOUS
    <2>3. d * d >= 0
      <3>1. CASE d >= 0
        BY <3>1
      <3>2. CASE d < 0
        <4>1. PICK c \in Nat : c = -d
          BY <3>2
        <4>2. c * c \in Nat /\ d * d = c * c
          BY <4>1
        <4>3. QED BY <4>2
      <3>3. QED BY <3>1, <3>2
    <2>4. d * d = t * t - 2 * (t * x) + x * x
      BY <2>2
    <2>5. (n + 1) * (x * x) = n * (x * x) + x * x /\ (S + t) * x = S * x + t * x
      OBVIOUS
    <2>6. PICK p1 \in Int, p2 \in Int, p3 \in Int, p4 \in Int, p5 \in Int :
             p1 = n * (x * x) /\ p2 = x * x /\ p3 = S * x /\ p4 = t * x /\ p5 = t * t
      OBVIOUS
    <2>7. Q + p5 + (p1 + p2) - 2 * (p3 + p4) >= 0
      BY <2>1, <2>3, <2>4, <2>6
    <2>8. QED BY <1>4, <2>5, <2>6, <2>7
  <1>v. n1 * Q1 - S1 * S1 >= 0
    <2>1. n * Q - S * S >= 0 /\ Q + n * (t * t) - 2 * (S * t) >= 0
      BY <1>1 DEF SumsInv
    <2>2. /\ (n + 1) * (Q + t * t) = n * Q + Q + n * (t * t) + t * t
          /\ (S + t) * (S + t) = S * S + 2 * (S * t) + t * t
      OBVIOUS
    <2>3. PICK p1 \in Int, p2 \in Int, p3 \in Int, p4 \in Int, p5 \in Int :
             p1 = n * Q /\ p2 = S * S /\ p3 = n * (t * t) /\ p4 = S * t /\ p5 = t * t
      OBVIOUS
    <2>4. p1 + Q + p3 + p5 - (p2 + 2 * p4 + p5) >= 0
      BY <2>1, <2>3
    <2>5. (n + 1) * (Q + t * t) - (S + t) * (S + t) >= 0
      BY <2>2, <2>3, <2>4
    <2>6. QED BY <1>4, <2>5
  <1>10. n1 > 0
    BY <1>4
  <1>11. measured' > 0 /\ measured' # 0
    BY <1>5, <1>10
  <1>12. \A x \in Nat : tsum2' + measured' * (x * x) - 2 * (tsum' * x) >= 0
    BY <1>5, <1>9
  <1>12v. measured' * tsum2' - tsum' * tsum' >= 0
    BY <1>5, <1>v
  <1>13. /\ tmin' <= tmax' /\ 8 * tmin' <= rtt' /\ rtt' <= 8 * tmax'
         /\ Within(measured', tsum', tsum2', tmin', tmax')
    BY <1>5, <1>6, <1>7, <1>8
  <1>14. QED BY <1>11, <1>12, <1>12v, <1>13 DEF SumsInv

\* The sums stay in bounds, whatever the clock does and in whatever order
\* replies of any kind come.
THEOREM SumsAreSound == Spec => []SumsInv
  <1> USE TimesAssumption
  <1>1. Init => SumsInv
    BY DEF Init, TimesInit, SumsInv
  <1>2. PaceInv /\ SumsInv /\ [Next]_vars => SumsInv'
    <2> SUFFICES ASSUME PaceInv, SumsInv, [Next]_vars PROVE SumsInv'
      OBVIOUS
    <2>1. ASSUME UNCHANGED <<sums, measured>> PROVE SumsInv'
      <3>1. UNCHANGED <<tsum, tsum2, tmin, tmax, rtt, measured>>
        BY <2>1 DEF sums
      <3>2. QED BY <3>1 DEF SumsInv
    <2>2. CASE UNCHANGED timeVars
      BY <2>1, <2>2 DEF timeVars
    <2>3. ASSUME NEW cs \in BOOLEAN, Reply(cs)
          PROVE  SumsInv'
      <3>1. CASE Unstamped \/ cs
        BY <2>1, <2>3, <3>1 DEF Reply, Stamped, Unstamped
      <3>2. CASE Stamped(cs) /\ ~cs
        <4>1. PICK d \in Diffs : Account(Valid(d)) /\ measured' = measured + 1
          BY <3>2 DEF Stamped
        <4>2. PICK t \in 0 .. MaxTrip : t = Valid(d)
          BY ValidTypes
        <4>3. QED BY <4>1, <4>2, AccountKeeps DEF PaceInv
      <3>3. QED BY <2>3, <3>1, <3>2 DEF Reply
    <2>4. QED
      BY <2>2, <2>3 DEF Next, First, HoldFlood, Limited, Grant, Sent, Again, NoBuffers,
                        HardError, Wake, Tick, Ended, vars
  <1>3. QED BY <1>1, <1>2, PaceTypes, PTL DEF Spec

\* The variance of n > 0 times between lo and hi, in the order of computation
\* that avoids rounding, is at most the square of half their spread.
LEMMA VarianceBounds ==
    ASSUME NEW n \in Nat, n > 0, NEW S \in Nat, NEW Q \in Nat,
           NEW lo \in Nat, NEW hi \in Nat,
           Within(n, S, Q, lo, hi), n * Q - S * S >= 0
    PROVE  LET v == (n * Q - S * S) \div (n * n)
           IN  0 <= v /\ 4 * v <= (hi - lo) * (hi - lo)
  <1>1. n * lo <= S /\ S <= n * hi /\ Q <= (lo + hi) * S - n * (lo * hi)
    BY DEF Within
  <1>2. PICK V \in Nat, N \in Nat, D \in Int :
           V = n * Q - S * S /\ N = n * n /\ D = (hi - lo) * (hi - lo)
    <2>1. n * Q - S * S \in Int /\ n * n \in Nat /\ (hi - lo) * (hi - lo) \in Int
      OBVIOUS
    <2>2. QED BY <2>1
  <1>3. N > 0
    BY <1>2
  <1>4. 4 * V <= N * D
    <2>1. PICK x \in Int, y \in Int : x = S - n * lo /\ y = n * hi - S
      OBVIOUS
    <2>2. n * Q <= n * ((lo + hi) * S - n * (lo * hi))
      <3>1. PICK B \in Int : B = (lo + hi) * S - n * (lo * hi)
        OBVIOUS
      <3>2. PICK c \in Nat : B = Q + c
        BY <1>1, <3>1
      <3>3. n * (Q + c) = n * Q + n * c /\ n * c \in Nat
        OBVIOUS
      <3>4. n * Q <= n * (Q + c)
        BY <3>3
      <3>5. QED BY <3>1, <3>2, <3>4
    <2>3. n * ((lo + hi) * S - n * (lo * hi)) - S * S = x * y
      BY <2>1
    <2>4. V <= x * y
      BY <1>2, <2>2, <2>3
    <2>5. (x - y) * (x - y) >= 0
      <3>1. PICK d \in Int : d = x - y
        OBVIOUS
      <3>2. d * d >= 0
        OBVIOUS
      <3>3. QED BY <3>1, <3>2
    <2>6. (x - y) * (x - y) = (x + y) * (x + y) - 4 * (x * y)
      OBVIOUS
    <2>7. (x + y) * (x + y) = N * D
      <3>1. x + y = n * (hi - lo)
        BY <2>1
      <3>2. (n * (hi - lo)) * (n * (hi - lo)) = (n * n) * ((hi - lo) * (hi - lo))
        OBVIOUS
      <3>3. QED BY <1>2, <3>1, <3>2
    <2>8. PICK p1 \in Int, p2 \in Int, p3 \in Int :
             p1 = x * y /\ p2 = (x + y) * (x + y) /\ p3 = N * D
      OBVIOUS
    <2>9. QED BY <2>4, <2>5, <2>6, <2>7, <2>8
  <1>5. PICK v \in Int : v = V \div N
    BY <1>3
  <1>6. 0 <= v /\ N * v <= V
    BY <1>3, <1>5, DivBounds
  <1>7. 4 * v <= D
    <2> SUFFICES ASSUME 4 * v > D PROVE FALSE
      OBVIOUS
    <2>0. PICK c \in Nat : c = 4 * v - D - 1
      OBVIOUS
    <2>1. 4 * v = D + 1 + c
      BY <2>0
    <2>2. N * (4 * v) = N * D + N + N * c /\ N * c \in Nat
      BY <2>1
    <2>3. N * (4 * v) = 4 * (N * v)
      OBVIOUS
    <2>4. PICK p1 \in Int, p2 \in Int, p3 \in Nat : p1 = N * v /\ p2 = N * D /\ p3 = N * c
      BY <2>2
    <2>5. QED BY <1>3, <1>4, <1>6, <2>2, <2>3, <2>4
  <1>8. QED BY <1>2, <1>5, <1>6, <1>7

\* The variance as it is computed for long times: the mean is rounded down, and
\* what that costs is at most the sum of the bounds of the times.
LEMMA RoundedBounds ==
    ASSUME NEW n \in Nat, n > 0, NEW S \in Nat, NEW Q \in Nat,
           NEW lo \in Nat, NEW hi \in Nat,
           Within(n, S, Q, lo, hi), n * Q - S * S >= 0
    PROVE  LET t == S \div n
               v == Q \div n - t * t
           IN  0 <= v /\ 4 * v <= (hi - lo) * (hi - lo) + 8 * t
  <1>1. Q <= (lo + hi) * S - n * (lo * hi)
    BY DEF Within
  <1>2. PICK t \in Nat, o \in 0 .. n - 1 : t = S \div n /\ S = n * t + o
    BY DivBounds
  <1>3. PICK k \in Nat, m \in 0 .. n - 1 : k = Q \div n /\ Q = n * k + m
    BY DivBounds
  <1>4. PICK c \in Nat : c = lo + hi
    OBVIOUS
  <1>5. PICK L \in Nat : L = lo * hi
    OBVIOUS
  <1>6. PICK T \in Nat : T = t * t
    OBVIOUS
  <1>7. k >= T
    <2> SUFFICES ASSUME k < T PROVE FALSE
      OBVIOUS
    <2>1. PICK e \in Nat : T = k + 1 + e
      OBVIOUS
    <2>2. n * Q < n * (n * T)
      <3>1. n * T = n * k + n + n * e /\ n * e \in Nat
        BY <2>1
      <3>2. n * T > Q
        <4>1. PICK p1 \in Int, p2 \in Int, p3 \in Nat : p1 = n * T /\ p2 = n * k /\ p3 = n * e
          BY <3>1
        <4>2. QED BY <1>3, <3>1, <4>1
      <3>3. PICK f \in Nat : n * T = Q + 1 + f
        <4>1. n * T \in Int
          OBVIOUS
        <4>2. QED BY <3>2, <4>1
      <3>4. n * (n * T) = n * Q + n + n * f /\ n * f \in Nat
        BY <3>3
      <3>5. PICK p1 \in Int, p2 \in Int, p3 \in Nat :
               p1 = n * (n * T) /\ p2 = n * Q /\ p3 = n * f
        BY <3>4
      <3>6. QED BY <3>4, <3>5
    <2>3. S * S = n * (n * T) + 2 * ((n * t) * o) + o * o /\ (n * t) * o \in Nat /\ o * o \in Nat
      <3>1. S * S = (n * t) * (n * t) + 2 * ((n * t) * o) + o * o
        BY <1>2
      <3>2. (n * t) * (n * t) = n * (n * (t * t))
        OBVIOUS
      <3>3. o \in Nat /\ n * t \in Nat
        OBVIOUS
      <3>4. QED BY <1>6, <3>1, <3>2, <3>3
    <2>4. PICK p1 \in Int, p2 \in Int, p3 \in Int, p4 \in Nat, p5 \in Nat :
             p1 = n * Q /\ p2 = n * (n * T) /\ p3 = S * S /\ p4 = (n * t) * o /\ p5 = o * o
      BY <2>3
    <2>5. QED BY <2>2, <2>3, <2>4
  <1>8. PICK v \in Nat : v = k - T
    BY <1>7
  <1>9. PICK A \in Int : A = c * t - L - T
    OBVIOUS
  <1>10. n * v <= n * A + c * o
    <2>1. c * S = n * (c * t) + c * o
      BY <1>2
    <2>2. n * A = n * (c * t) - n * L - n * T
      BY <1>9
    <2>3. n * v = n * k - n * T
      BY <1>8
    <2>4. PICK p1 \in Int, p2 \in Int, p3 \in Int, p4 \in Int, p5 \in Int, p6 \in Int, p7 \in Int, p8 \in Int :
             /\ p1 = c * S /\ p2 = n * (c * t) /\ p3 = c * o /\ p4 = n * A
             /\ p5 = n * L /\ p6 = n * T /\ p7 = n * v /\ p8 = n * k
      OBVIOUS
    <2>5. Q <= p1 - p5
      BY <1>1, <1>4, <1>5, <2>4
    <2>6. Q >= p8
      BY <1>3, <2>4
    <2>7. QED BY <2>1, <2>2, <2>3, <2>4, <2>5, <2>6
  <1>11. 4 * A = (hi - lo) * (hi - lo) - (c - 2 * t) * (c - 2 * t)
    BY <1>4, <1>5, <1>6, <1>9
  <1>12. v <= A + c - 1 \/ (c = 0 /\ v <= A)
    <2>1. CASE c = 0
      <3>1. n * v <= n * A
        BY <1>10, <2>1
      <3>2. v <= A
        <4> SUFFICES ASSUME v > A PROVE FALSE
          OBVIOUS
        <4>1. PICK e \in Nat : v = A + 1 + e
          OBVIOUS
        <4>2. n * v = n * A + n + n * e /\ n * e \in Nat
          BY <4>1
        <4>3. PICK p1 \in Int, p2 \in Int, p3 \in Nat : p1 = n * v /\ p2 = n * A /\ p3 = n * e
          BY <4>2
        <4>4. QED BY <3>1, <4>2, <4>3
      <3>3. QED BY <2>1, <3>2
    <2>2. CASE c > 0
      <3> SUFFICES ASSUME v > A + c - 1 PROVE FALSE
        OBVIOUS
      <3>1. PICK e \in Nat : v = A + c + e
        OBVIOUS
      <3>2. n * v = n * A + n * c + n * e /\ n * e \in Nat
        BY <3>1
      <3>3. PICK d \in Nat : n = o + 1 + d
        OBVIOUS
      <3>4. n * c = c * o + c + d * c /\ d * c \in Nat
        BY <3>3
      <3>5. PICK p1 \in Int, p2 \in Int, p3 \in Nat, p4 \in Int, p5 \in Nat, p6 \in Int :
               /\ p1 = n * v /\ p2 = n * A /\ p3 = n * e /\ p4 = c * o /\ p5 = d * c /\ p6 = n * c
        BY <3>2, <3>4
      <3>6. QED BY <1>10, <2>2, <3>2, <3>4, <3>5
    <2>3. QED BY <2>1, <2>2
  <1>13. 4 * v <= (hi - lo) * (hi - lo) + 8 * t
    <2>1. PICK w \in Int : w = c - 2 * t
      OBVIOUS
    <2>2. PICK p1 \in Int, p2 \in Nat : p1 = (hi - lo) * (hi - lo) /\ p2 = w * w
      <3>1. w * w \in Nat
        OBVIOUS
      <3>2. QED BY <3>1
    <2>3. 4 * A = p1 - p2
      BY <1>11, <2>1, <2>2
    <2>4. CASE v <= A + c - 1
      <3>1. 4 * v <= p1 - p2 + 4 * w + 8 * t - 4
        BY <2>1, <2>3, <2>4
      <3>2. (w - 2) * (w - 2) = w * w - 4 * w + 4
        OBVIOUS
      <3>3. PICK u \in Nat : u = (w - 2) * (w - 2)
        <4>1. PICK z \in Int : z = w - 2
          OBVIOUS
        <4>2. z * z \in Nat
          OBVIOUS
        <4>3. QED BY <4>1, <4>2
      <3>4. u = p2 - 4 * w + 4
        BY <2>2, <3>2, <3>3
      <3>5. QED BY <2>2, <3>1, <3>4
    <2>5. CASE c = 0 /\ v <= A
      BY <2>2, <2>3, <2>5
    <2>6. QED BY <1>12, <2>4, <2>5
  <1>14. QED BY <1>2, <1>3, <1>6, <1>8, <1>13

\* The mean and the variance are whole numbers.
LEMMA MeanTypes ==
    ASSUME measured \in Nat, measured > 0, total = measured, tsum \in Nat, tsum2 \in Nat
    PROVE  tmavg \in Nat /\ tmvar \in Int
  <1>1. PICK n \in Nat, S \in Nat, Q \in Nat : n = measured /\ S = tsum /\ Q = tsum2
    OBVIOUS
  <1>2. S \div n \in Nat /\ Q \div n \in Int /\ n * n > 0
    BY <1>1
  <1>3. n * n \in Nat /\ n * Q - S * S \in Int
    OBVIOUS
  <1>4. (n * Q - S * S) \div (n * n) \in Int
    BY <1>2, <1>3
  <1>5. tmavg = S \div n /\ tsum2 \div total = Q \div n
    BY <1>1 DEF tmavg
  <1>6. tsum < IntMax => tmvar = (n * Q - S * S) \div (n * n)
    BY <1>1 DEF tmvar
  <1>7. ~ (tsum < IntMax) => tmvar = tsum2 \div total - tmavg * tmavg
    BY DEF tmvar
  <1>8. QED BY <1>2, <1>4, <1>5, <1>6, <1>7

\* The moving average, the mean and the variance of a summary belong to the
\* times they are made of (gather_statistics(), finish()).
MeansSound ==
    measured > 0 =>
        /\ 8 * tmin <= rtt /\ rtt <= 8 * tmax
        /\ total = measured =>
              /\ tmin <= tmavg /\ tmavg <= tmax
              /\ 0 <= tmvar /\ 4 * tmvar <= Spread * Spread + 8 * tmavg
              /\ tsum < IntMax => 4 * tmvar <= Spread * Spread

\* So they do in every session, whatever the clock does in between: what
\* SummarySound says, before the square root is taken.
THEOREM MeansAreSound == Spec => []MeansSound
  <1>1. PaceInv /\ SumsInv => MeansSound
    <2> SUFFICES ASSUME PaceInv, SumsInv, measured > 0 PROVE MeansSound
      BY DEF MeansSound
    <2>1. PICK n \in Nat, S \in Nat, Q \in Nat, lo \in Nat, hi \in Nat :
             n = measured /\ S = tsum /\ Q = tsum2 /\ lo = tmin /\ hi = tmax
      BY TimesAssumption DEF PaceInv, TimesTypes, Unset
    <2>2. Within(n, S, Q, lo, hi) /\ n * Q - S * S >= 0 /\ n > 0
      BY <2>1 DEF SumsInv
    <2>3. lo <= S \div n /\ S \div n <= hi
      <3>1. n * lo <= S /\ S <= n * hi
        BY <2>2 DEF Within
      <3>2. PICK q \in Nat : q = S \div n
        BY <2>2
      <3>3. n * q <= S /\ S < n * q + n
        BY <2>2, <3>2, DivBounds
      <3>4. lo <= q
        <4> SUFFICES ASSUME q < lo PROVE FALSE
          OBVIOUS
        <4>1. PICK c \in Nat : lo = q + 1 + c
          OBVIOUS
        <4>2. n * lo = n * q + n + n * c /\ n * c \in Nat
          BY <4>1
        <4>3. QED BY <3>1, <3>3, <4>2
      <3>5. q <= hi
        <4> SUFFICES ASSUME hi < q PROVE FALSE
          OBVIOUS
        <4>1. PICK c \in Nat : q = hi + 1 + c
          OBVIOUS
        <4>2. n * q = n * hi + n + n * c /\ n * c \in Nat
          BY <4>1
        <4>3. QED BY <2>2, <3>1, <3>3, <4>2
      <3>6. QED BY <3>2, <3>4, <3>5
    <2>4. LET v == (n * Q - S * S) \div (n * n)
          IN  0 <= v /\ 4 * v <= (hi - lo) * (hi - lo)
      BY <2>2, VarianceBounds
    <2>5. 8 * tmin <= rtt /\ rtt <= 8 * tmax
      BY DEF SumsInv
    <2>6. total = measured => tmin <= tmavg /\ tmavg <= tmax
      BY <2>1, <2>3 DEF tmavg
    <2>7. total = measured /\ tsum < IntMax => 0 <= tmvar /\ 4 * tmvar <= Spread * Spread
      BY <2>1, <2>4 DEF tmvar, Spread
    <2>8. LET t == S \div n
              v == Q \div n - t * t
          IN  0 <= v /\ 4 * v <= (hi - lo) * (hi - lo) + 8 * t
      BY <2>2, RoundedBounds
    <2>9. total = measured /\ tsum >= IntMax =>
             0 <= tmvar /\ 4 * tmvar <= Spread * Spread + 8 * tmavg
      <3>1. total = measured /\ tsum >= IntMax => tmvar = tsum2 \div total - tmavg * tmavg
        BY <2>1, TimesAssumption DEF tmvar
      <3>2. total = measured => tmavg = S \div n /\ tsum2 \div total = Q \div n
        BY <2>1 DEF tmavg
      <3>3. Spread = hi - lo
        BY <2>1 DEF Spread
      <3>4. QED BY <2>8, <3>1, <3>2, <3>3
    <2>10. total = measured => tmavg \in Nat /\ tmvar \in Int
      BY <2>1, <2>2, MeanTypes
    <2>11. total = measured =>
             0 <= tmvar /\ 4 * tmvar <= Spread * Spread + 8 * tmavg
      <3>1. PICK D \in Int : D = Spread * Spread
        BY <2>1 DEF Spread
      <3>2. tsum < IntMax \/ tsum >= IntMax
        BY <2>1, TimesAssumption
      <3>3. QED BY <2>7, <2>9, <2>10, <3>1, <3>2
    <2>12. QED BY <2>5, <2>6, <2>7, <2>11 DEF MeansSound
  <1>2. QED BY <1>1, PaceTypes, SumsAreSound, PTL

(***************************************************************************)
(* The square root.  The estimates of llsqrt() fall until they pass the    *)
(* root, and the last one is at most one above it.                         *)
(***************************************************************************)
Positive == Nat \ {0}

\* A set of numbers has a least one: what induction is where a recursive
\* function is concerned.
LEMMA LeastNumber ==
    ASSUME NEW T \in SUBSET Nat, T # {}
    PROVE  \E x \in T : \A y \in T : x <= y
  <1>1. PICK R : IsWellFoundedOn(R, Nat) /\ \A x, y \in Nat : <<y, x>> \in R <=> y < x
    <2>1. \A x, y \in Nat : <<y, x>> \in OpToRel(<, Nat) <=> y < x
      BY DEF OpToRel
    <2>2. QED BY <2>1, NatLessThanWellFounded
  <1>2. PICK x \in T : \A y \in T : ~ (<<y, x>> \in R)
    BY <1>1, WFMin
  <1>3. \A y \in T : ~ (y < x)
    BY <1>1, <1>2
  <1>4. \A y \in T : x <= y
    BY <1>3
  <1>5. QED BY <1>4

\* s is the root of a, rounded down.
Root(a, s) == s \in Nat /\ s * s <= a /\ a < (s + 1) * (s + 1)

\* Every number has one.
LEMMA RootExists ==
    ASSUME NEW a \in Nat
    PROVE  \E s \in Nat : Root(a, s)
  <1> DEFINE T == {n \in Nat : a < n * n}
  <1>1. a + 1 \in T
    <2>1. (a + 1) * (a + 1) = a * a + 2 * a + 1 /\ a * a \in Nat
      OBVIOUS
    <2>2. QED BY <2>1
  <1>2. PICK m \in T : \A y \in T : m <= y
    BY <1>1, LeastNumber
  <1>3. m # 0
    <2>1. 0 * 0 = 0
      OBVIOUS
    <2>2. QED BY <2>1, <1>2
  <1>4. PICK s \in Nat : m = s + 1
    BY <1>2, <1>3
  <1>5. s \notin T
    BY <1>2, <1>4
  <1>6. s * s <= a
    <2>1. s * s \in Int
      OBVIOUS
    <2>2. QED BY <1>5, <2>1
  <1>7. QED BY <1>2, <1>4, <1>6 DEF Root

\* The next estimate.
Better(a, x) == (x + a \div x) \div 2

\* It is never below the root: the mean of x and a/x is not.  Above the root it
\* falls, at or below the root it does not, and at the root it is at most one
\* more, and that only just below the next square.
LEMMA BetterBounds ==
    ASSUME NEW a \in Positive, NEW x \in Positive, NEW s \in Nat, Root(a, s)
    PROVE  /\ s > 0
           /\ Better(a, x) \in Positive
           /\ Better(a, x) >= s
           /\ x > s => Better(a, x) < x
           /\ x <= s => Better(a, x) >= x
           /\ x = s => \/ Better(a, x) = s
                       \/ Better(a, x) = s + 1 /\ (s + 1) * (s + 1) = a + 1
  <1>1. s * s <= a /\ a < (s + 1) * (s + 1) /\ a > 0 /\ x > 0
    BY DEF Root, Positive
  <1>2. s > 0
    <2>1. s = 0 => (s + 1) * (s + 1) = 1
      OBVIOUS
    <2>2. QED BY <1>1, <2>1 DEF Positive
  <1>3. PICK q \in Nat, r \in 0 .. x - 1 : q = a \div x /\ a = x * q + r
    BY DivBounds DEF Positive
  <1>4. PICK b \in Nat, o \in 0 .. 1 : b = Better(a, x) /\ x + q = 2 * b + o
    <2>1. PICK c \in Nat : c = x + q
      BY DEF Positive
    <2>2. PICK h \in Nat, o \in 0 .. 1 : h = c \div 2 /\ c = 2 * h + o
      <3>1. PICK k \in Nat \ {0} : k = 2
        OBVIOUS
      <3>2. PICK h \in Nat, o \in 0 .. k - 1 : h = c \div k /\ c = k * h + o
        BY DivBounds
      <3>3. h = c \div 2 /\ c = 2 * h + o /\ o \in 0 .. 1
        BY <3>1, <3>2
      <3>4. QED BY <3>3
    <2>3. Better(a, x) = h
      BY <1>3, <2>1, <2>2 DEF Better
    <2>4. QED BY <2>1, <2>2, <2>3
  <1>5. PICK d \in Int : d = x - s
    BY DEF Positive
  <1>6. x = s + d /\ x \in Nat
    BY <1>5 DEF Positive
  <1>7. b >= s
    <2> SUFFICES ASSUME b < s PROVE FALSE
      BY <1>4
    <2>1. q + 1 <= 2 * s - x
      BY <1>4, <1>6
    <2>2. PICK c \in Nat : 2 * s - x = q + 1 + c
      BY <2>1, <1>6
    <2>3. x * (2 * s - x) = x * q + x + x * c /\ x * c \in Nat
      BY <1>6, <2>2
    <2>4. x * (2 * s - x) = s * s - d * d
      BY <1>6
    <2>5. d * d >= 0
      OBVIOUS
    <2>6. PICK p1 \in Int, p2 \in Int, p3 \in Nat, p4 \in Int, p5 \in Nat :
             p1 = x * (2 * s - x) /\ p2 = x * q /\ p3 = x * c /\ p4 = s * s /\ p5 = d * d
      BY <1>6, <2>3, <2>5
    <2>7. QED BY <1>1, <1>3, <1>6, <2>3, <2>4, <2>6
  <1>8. ASSUME x > s PROVE b < x
    <2>1. q < x
      <3> SUFFICES ASSUME q >= x PROVE FALSE
        BY <1>3, <1>6
      <3>1. PICK c \in Nat, e \in Nat : q = x + c /\ x = s + 1 + e
        BY <1>6, <1>8
      <3>2. x * q = x * x + x * c /\ x * c \in Nat
        BY <1>6, <3>1
      <3>3. x * x = (s + 1) * (s + 1) + 2 * ((s + 1) * e) + e * e
        BY <3>1
      <3>4. (s + 1) * e \in Nat /\ e * e \in Nat
        OBVIOUS
      <3>5. PICK p1 \in Int, p2 \in Int, p3 \in Nat, p4 \in Int, p5 \in Nat, p6 \in Nat :
               /\ p1 = x * q /\ p2 = x * x /\ p3 = x * c /\ p4 = (s + 1) * (s + 1)
               /\ p5 = (s + 1) * e /\ p6 = e * e
        BY <1>6, <3>2, <3>4
      <3>6. QED BY <1>1, <1>3, <3>2, <3>3, <3>5
    <2>2. QED BY <1>4, <1>6, <2>1
  <1>9. ASSUME x <= s PROVE b >= x
    <2>1. q >= x
      <3> SUFFICES ASSUME q < x PROVE FALSE
        BY <1>3, <1>6
      <3>1. PICK c \in Nat, e \in Nat : x = q + 1 + c /\ s = x + e
        BY <1>6, <1>9
      <3>2. x * x = x * q + x + x * c /\ x * c \in Nat
        BY <1>6, <3>1
      <3>3. s * s = x * x + 2 * (x * e) + e * e /\ x * e \in Nat /\ e * e \in Nat
        BY <1>6, <3>1
      <3>4. PICK p1 \in Int, p2 \in Int, p3 \in Nat, p4 \in Int, p5 \in Nat, p6 \in Nat :
               /\ p1 = x * q /\ p2 = x * x /\ p3 = x * c /\ p4 = s * s
               /\ p5 = x * e /\ p6 = e * e
        BY <1>6, <3>2, <3>3
      <3>5. QED BY <1>1, <1>3, <1>6, <3>2, <3>3, <3>4
    <2>2. QED BY <1>4, <1>6, <2>1
  <1>10. ASSUME x = s
         PROVE  b = s \/ (b = s + 1 /\ (s + 1) * (s + 1) = a + 1)
    <2>1. (s + 1) * (s + 1) = s * s + 2 * s + 1 /\ s * (s + 2) = s * s + 2 * s
      OBVIOUS
    <2>2. q <= s + 2
      <3> SUFFICES ASSUME q > s + 2 PROVE FALSE
        BY <1>3
      <3>1. PICK c \in Nat : q = s + 3 + c
        OBVIOUS
      <3>2. s * q = s * s + 3 * s + s * c /\ s * c \in Nat
        BY <3>1
      <3>3. PICK p1 \in Int, p2 \in Int, p3 \in Nat, p4 \in Int :
               p1 = s * q /\ p2 = s * s /\ p3 = s * c /\ p4 = (s + 1) * (s + 1)
        BY <3>2
      <3>4. QED BY <1>1, <1>2, <1>3, <1>10, <2>1, <3>2, <3>3
    <2>3. b = s \/ (b = s + 1 /\ q = s + 2)
      BY <1>4, <1>7, <1>10, <2>2
    <2>4. q = s + 2 => (s + 1) * (s + 1) = a + 1
      <3>1. PICK p1 \in Int, p2 \in Int, p4 \in Int :
               p1 = s * (s + 2) /\ p2 = s * s /\ p4 = (s + 1) * (s + 1)
        OBVIOUS
      <3>2. QED BY <1>1, <1>3, <1>10, <2>1, <3>1
    <2>5. QED BY <2>3, <2>4
  <1>11. QED BY <1>2, <1>4, <1>7, <1>8, <1>9, <1>10 DEF Positive

\* The loop of llsqrt(a), as a function of the estimate it starts with.
Solves(f, a) == f = [x \in Positive |-> IF Better(a, x) < x THEN f[Better(a, x)] ELSE Better(a, x)]
Loop(a) == CHOOSE f : Solves(f, a)

\* There is such a function: it leaves the loop with the estimate made of the
\* root itself, wherever above the root it starts.
LEMMA LoopExists ==
    ASSUME NEW a \in Positive
    PROVE  Solves(Loop(a), a)
  <1>1. PICK s \in Nat : Root(a, s)
    BY RootExists DEF Positive
  <1> DEFINE end(x) == IF x > s THEN Better(a, s) ELSE Better(a, x)
             g == [x \in Positive |-> end(x)]
  <1>2. ASSUME NEW x \in Positive
        PROVE  end(x) = IF Better(a, x) < x THEN g[Better(a, x)] ELSE Better(a, x)
    <2>1. PICK y \in Positive : y = Better(a, x)
      BY <1>1, <1>2, BetterBounds
    <2>2. y >= s /\ (x > s => y < x) /\ (x <= s => y >= x)
      BY <1>1, <1>2, <2>1, BetterBounds
    <2>3. x \in Nat /\ y \in Nat /\ g[y] = end(y)
      BY DEF Positive
    <2>4. y = s => Better(a, y) = Better(a, s)
      OBVIOUS
    <2>5. end(y) = Better(a, s)
      BY <2>2, <2>3, <2>4
    <2> HIDE DEF g
    <2>6. CASE x > s
      BY <2>1, <2>2, <2>3, <2>5, <2>6
    <2>7. CASE x <= s
      BY <2>1, <2>2, <2>3, <2>7
    <2>8. QED BY <2>3, <2>6, <2>7
  <1>3. g = [x \in Positive |-> IF Better(a, x) < x THEN g[Better(a, x)] ELSE Better(a, x)]
    <2> HIDE DEF end
    <2>1. g = [x \in Positive |-> end(x)]
      OBVIOUS
    <2> HIDE DEF g
    <2>2. QED BY <1>2, <2>1, Zenon
  <1>4. \E f : Solves(f, a)
    <2> HIDE DEF g
    <2>1. QED BY <1>3 DEF Solves
  <1>5. QED BY <1>4 DEF Loop

\* One round of the loop.
LEMMA LoopRound ==
    ASSUME NEW a \in Positive, NEW x \in Positive
    PROVE  Loop(a)[x] = IF Better(a, x) < x THEN Loop(a)[Better(a, x)] ELSE Better(a, x)
  <1> DEFINE f == Loop(a)
  <1>1. f = [z \in Positive |-> IF Better(a, z) < z THEN f[Better(a, z)] ELSE Better(a, z)]
    BY LoopExists DEF Solves
  <1> HIDE DEF f
  <1>2. f[x] = IF Better(a, x) < x THEN f[Better(a, x)] ELSE Better(a, x)
    BY <1>1, Zenon
  <1>3. QED BY <1>2 DEF f

\* The loop ends with the estimate after the root.
LEMMA LoopEnds ==
    ASSUME NEW a \in Positive, NEW s \in Nat, Root(a, s), NEW x \in Positive, x >= s
    PROVE  Loop(a)[x] = Better(a, s)
  <1> DEFINE Wrong == {z \in Positive : z >= s /\ Loop(a)[z] # Better(a, s)}
  <1>1. ASSUME Wrong # {} PROVE FALSE
    <2>1. PICK z \in Wrong : \A y \in Wrong : z <= y
      <3>1. Wrong \in SUBSET Nat
        BY DEF Positive
      <3>2. QED BY <1>1, <3>1, LeastNumber
    <2>2. z \in Positive /\ z \in Nat /\ z >= s /\ Loop(a)[z] # Better(a, s)
      BY <2>1 DEF Positive
    <2>3. PICK y \in Positive : y = Better(a, z)
      BY <2>2, BetterBounds
    <2>4. y >= s /\ (z > s => y < z) /\ (z <= s => y >= z) /\ y \in Nat
      BY <2>2, <2>3, BetterBounds DEF Positive
    <2>5. Loop(a)[z] = IF y < z THEN Loop(a)[y] ELSE y
      BY <2>2, <2>3, LoopRound
    <2>6. CASE z = s
      BY <2>2, <2>3, <2>4, <2>5, <2>6
    <2>7. CASE z > s
      <3>1. y < z /\ y \notin Wrong
        BY <2>1, <2>2, <2>4, <2>7
      <3>2. Loop(a)[y] = Better(a, s)
        BY <2>4, <3>1
      <3>3. QED BY <2>2, <2>5, <3>1, <3>2
    <2>8. QED BY <2>2, <2>6, <2>7
  <1>2. QED BY <1>1

\* llsqrt() returns the root, or one more if the argument is just below the
\* next square.
THEOREM SquareRoot ==
    ASSUME NEW a \in Nat
    PROVE  /\ llsqrt(a) \in Nat
           /\ \/ llsqrt(a) * llsqrt(a) <= a
              \/ llsqrt(a) * llsqrt(a) = a + 1 /\ llsqrt(a) >= 2
           /\ a < (llsqrt(a) + 1) * (llsqrt(a) + 1)
  <1>1. CASE a = 0
    <2>1. llsqrt(a) = 0
      BY <1>1 DEF llsqrt
    <2>2. 0 * 0 = 0 /\ (0 + 1) * (0 + 1) = 1
      OBVIOUS
    <2>3. QED BY <1>1, <2>1, <2>2
  <1>2. CASE a > 0
    <2>1. PICK s \in Nat : Root(a, s)
      BY RootExists
    <2>2. a \in Positive
      BY <1>2 DEF Positive
    <2>3. s > 0 /\ s \in Positive
      BY <2>1, <2>2, BetterBounds DEF Positive
    <2>4. s <= a
      <3>1. PICK c \in Nat : s = 1 + c
        BY <2>3
      <3>2. s * s = s + s * c /\ s * c \in Nat
        BY <3>1
      <3>3. PICK p1 \in Nat, p2 \in Nat : p1 = s * s /\ p2 = s * c
        BY <3>2
      <3>4. QED BY <2>1, <3>2, <3>3 DEF Root
    <2>5. PICK r \in Positive : r = llsqrt(a) /\ r = Better(a, s)
      <3>1. Loop(a)[a] = Better(a, s)
        BY <2>1, <2>2, <2>4, LoopEnds
      <3>2. Better(a, s) \in Positive
        BY <2>1, <2>2, <2>3, BetterBounds
      <3>3. llsqrt(a) = Loop(a)[a]
        BY <1>2 DEF llsqrt, Loop, Solves, Better, Positive
      <3>4. QED BY <3>1, <3>2, <3>3
    <2>6. r = s \/ (r = s + 1 /\ (s + 1) * (s + 1) = a + 1)
      BY <2>1, <2>2, <2>3, <2>5, BetterBounds
    <2>7. s * s <= a /\ a < (s + 1) * (s + 1)
      BY <2>1 DEF Root
    <2>8. CASE r = s
      BY <2>5, <2>7, <2>8 DEF Positive
    <2>9. CASE r = s + 1 /\ (s + 1) * (s + 1) = a + 1
      <3>1. r * r = a + 1 /\ r >= 2 /\ r \in Nat
        BY <2>3, <2>9
      <3>2. (r + 1) * (r + 1) = r * r + 2 * r + 1
        BY <3>1
      <3>3. PICK p1 \in Int, p2 \in Int : p1 = r * r /\ p2 = (r + 1) * (r + 1)
        BY <3>1
      <3>4. a < (r + 1) * (r + 1)
        BY <3>1, <3>2, <3>3
      <3>5. QED BY <2>5, <3>1, <3>4
    <2>10. QED BY <2>6, <2>8, <2>9
  <1>3. QED BY <1>1, <1>2

\* Of a whole number that is a root rounded as llsqrt() rounds it, twice is at
\* most D if the number under the root is at most a quarter of the square of D.
LEMMA HalfSpread ==
    ASSUME NEW v \in Nat, NEW r \in Nat, NEW D \in Nat, 4 * v <= D * D,
           r * r <= v \/ (r * r = v + 1 /\ r >= 2)
    PROVE  2 * r <= D
  <1> SUFFICES ASSUME D < 2 * r PROVE FALSE
    OBVIOUS
  <1>1. PICK c \in Nat : 2 * r = D + 1 + c
    OBVIOUS
  <1>2. (2 * r) * (2 * r) = D * D + 2 * D + 2 * (D * c) + 2 * c + c * c + 1
    BY <1>1
  <1>3. (2 * r) * (2 * r) = 4 * (r * r)
    OBVIOUS
  <1>4. D * c \in Nat /\ c * c \in Nat
    OBVIOUS
  <1>5. PICK p1 \in Int, p2 \in Int, p3 \in Nat, p4 \in Nat :
           p1 = r * r /\ p2 = D * D /\ p3 = D * c /\ p4 = c * c
    BY <1>4
  <1>6. 4 * p1 = p2 + 2 * D + 2 * p3 + 2 * c + p4 + 1
    BY <1>2, <1>3, <1>5
  <1>7. CASE r * r <= v
    BY <1>5, <1>6, <1>7
  <1>8. CASE r * r = v + 1 /\ r >= 2
    <2>1. 4 * p1 <= p2 + 4
      BY <1>5, <1>8
    <2>2. D <= 1
      BY <1>6, <2>1
    <2>3. D = 0 \/ D = 1
      BY <2>2
    <2>4. p2 <= 1
      <3>1. 0 * 0 = 0 /\ 1 * 1 = 1
        OBVIOUS
      <3>2. QED BY <1>5, <2>3, <3>1
    <2>5. 4 * p1 <= 5
      BY <2>1, <2>4
    <2>6. p1 >= 4
      <3>1. PICK e \in Nat : r = 2 + e
        BY <1>8
      <3>2. r * r = 4 + 4 * e + e * e /\ e * e \in Nat
        BY <3>1
      <3>3. QED BY <1>5, <3>2
    <2>7. QED BY <2>5, <2>6
  <1>9. QED BY <1>7, <1>8

\* The figures of the summary belong together in every session (finish()): the
\* deviation, a square root that llsqrt() may have rounded up, still is at most
\* half the spread of the times, or for a large sum that much and the rounding
\* of the mean.
THEOREM SummaryIsSound == Spec => []SummarySound
  <1>1. PaceInv /\ SumsInv /\ MeansSound => SummarySound
    <2> SUFFICES ASSUME PaceInv, SumsInv, MeansSound, measured > 0 PROVE SummarySound
      BY DEF SummarySound
    <2>1. PICK lo \in Nat, hi \in Nat : lo = tmin /\ hi = tmax /\ lo <= hi
      BY TimesAssumption DEF PaceInv, SumsInv, TimesTypes, Unset
    <2>2. 8 * tmin <= rtt /\ rtt <= 8 * tmax /\ tmin >= 0
      BY <2>1 DEF MeansSound
    <2>3. ASSUME total = measured
          PROVE  /\ tmin <= tmavg /\ tmavg <= tmax
                 /\ tsum < IntMax => 2 * tmdev <= Spread
                 /\ 4 * tmdev * tmdev <= Spread * Spread + 8 * tmavg + 4
      <3>1. /\ tmin <= tmavg /\ tmavg <= tmax
            /\ 0 <= tmvar /\ 4 * tmvar <= Spread * Spread + 8 * tmavg
            /\ tsum < IntMax => 4 * tmvar <= Spread * Spread
        BY <2>3 DEF MeansSound
      <3>2. PICK t \in Nat, v \in Nat : t = tmavg /\ v = tmvar
        BY <2>1, <2>3, <3>1, MeanTypes DEF PaceInv, TimesTypes
      <3>3. PICK D \in Nat : D = Spread
        BY <2>1 DEF Spread
      <3>4. PICK r \in Nat : /\ r = tmdev
                             /\ r * r <= v \/ (r * r = v + 1 /\ r >= 2)
        BY <3>2, SquareRoot DEF tmdev
      <3>5. tsum < IntMax => 2 * r <= D
        BY <3>1, <3>2, <3>3, <3>4, HalfSpread
      <3>6. 4 * r * r <= D * D + 8 * t + 4
        <4>1. 4 * r * r = 4 * (r * r)
          OBVIOUS
        <4>2. PICK p1 \in Int, p2 \in Int : p1 = r * r /\ p2 = D * D
          OBVIOUS
        <4>3. QED BY <3>1, <3>2, <3>3, <3>4, <4>1, <4>2
      <3>7. QED BY <3>1, <3>2, <3>3, <3>4, <3>5, <3>6
    <2>4. QED BY <2>2, <2>3 DEF SummarySound
  <1>2. QED BY <1>1, PaceTypes, SumsAreSound, MeansAreSound, PTL
=============================================================================
