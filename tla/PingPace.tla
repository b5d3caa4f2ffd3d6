------------------------------- MODULE PingPace -------------------------------
(***************************************************************************)
(* The pace of ping: the token bucket of pinger(), the interval that -A    *)
(* adapts to the measured round trips, and the clock they read.            *)
(*                                                                         *)
(* The clock counts units of which Frac make a millisecond and             *)
(* Frac * SecMs a second, because pinger() subtracts seconds and           *)
(* nanoseconds separately and divides with truncation towards zero.  The   *)
(* options of one session are chosen in Init.  in_flight() is abstracted   *)
(* to a number that each probe raises and each reply lowers to any value   *)
(* below: SeqWindow has the details.  How long ENOBUFS is retried is part  *)
(* of PingLoop, so either answer is possible here.                         *)
(***************************************************************************)
EXTENDS PingTimes

CONSTANTS
    Frac,           \* clock units per millisecond
    SecMs,          \* milliseconds per second
    MinGap,         \* MIN_INTERVAL_MS
    MinUser,        \* MIN_USER_INTERVAL_MS
    AddendMax,      \* largest step of rtt_addend, in us
    Sessions,       \* options, with bounds on time and replies
    MaxSent,        \* bound on the probes of a session
    MaxAddend       \* bound on rtt_addend, which only grows

ASSUME PaceAssumption ==
    /\ Frac \in Nat \ {0} /\ SecMs \in Nat \ {0} /\ MinGap \in Nat \ {0}
    /\ MinUser \in Nat /\ AddendMax \in Nat /\ MaxSent \in Nat
    /\ MaxAddend \in Nat
    /\ \A s \in Sessions :
          /\ s.interval \in Nat /\ s.preload \in Nat \ {0}
          /\ s.adaptive \in BOOLEAN /\ s.user \in BOOLEAN
          /\ s.time \in Nat /\ s.replies \in Nat

VARIABLES
    opt,            \* the options of this session
    pc,             \* "pinger", "send" (at sendto()) or "wait"
    now,            \* CLOCK_MONOTONIC_RAW
    cur_time,       \* when the last token was taken, 0 before the first
    tokens,         \* static of pinger(), in ms
    interval, rtt_addend,
    flight,         \* in_flight()
    sent,           \* ntransmitted
    burst,          \* history: probes sent since the clock last moved
    due             \* history: end of the pause pinger() asked for, 0 when the
                    \* pause is not meant to last until the next token

bucket == <<cur_time, tokens>>
paceVars == <<opt, pc, now, bucket, interval, rtt_addend, flight, sent, burst, due>>
vars == <<timeVars, paceVars>>

Start == 1

\* setup(): a flood without -i starts with interval 0 (a value of Sessions).
Init ==
    /\ TimesInit
    /\ opt \in Sessions
    /\ pc = "pinger" /\ now = Start /\ cur_time = 0 /\ tokens = 0
    /\ interval = opt.interval /\ rtt_addend = 0
    /\ flight = 0 /\ sent = 0 /\ burst = 0 /\ due = 0
---------------------------------------------------------------------------
(***************************************************************************)
(* Clock arithmetic                                                        *)
(***************************************************************************)
Second == SecMs * Frac
Sec(t) == t \div Second

\* C division truncates towards zero, \div rounds down.
Trunc(n) == IF n >= 0 THEN n \div Frac ELSE -((-n) \div Frac)

\* ntokens: whole seconds and the rest are converted separately.
ElapsedMs(from, to) ==
    (Sec(to) - Sec(from)) * SecMs + Trunc((to % Second) - (from % Second))

SCHINT(ms) == IF ms <= MinGap THEN MinGap ELSE ms
AtMost(a, b) == IF a < b THEN a ELSE b

\* Wrong variant: tokens pile up without limit.
Filled_Unlimited(t) == ElapsedMs(cur_time, t) + tokens

\* What the bucket holds at time t.
Filled(t) == AtMost(ElapsedMs(cur_time, t) + tokens, interval * opt.preload)

\* update_interval() for the moving average r and the addend a
NewInterval(r, a) ==
    LET est == IF r > 0 THEN r \div 8 ELSE interval * 1000
        ms == (est + a + 500) \div 1000
    IN  IF opt.user /\ ms < MinUser THEN MinUser ELSE ms
---------------------------------------------------------------------------
(***************************************************************************)
(* pinger()                                                                *)
(***************************************************************************)
\* pinger() returns ms; the loop around it calls again unless that is positive.
Return(ms) == pc' = IF ms <= 0 THEN "pinger" ELSE "wait"

\* ... and a pause of ms lasts until the next token.
Pause(ms) == due' = IF ms > 0 THEN now + ms * Frac ELSE 0

\* Wrong variant: the first burst is one longer.
FirstTokens_OffByOne == interval * opt.preload

FirstTokens == interval * (opt.preload - 1)

First ==
    /\ pc = "pinger" /\ cur_time = 0
    /\ cur_time' = now /\ tokens' = FirstTokens
    /\ pc' = "send" /\ due' = 0
    /\ UNCHANGED <<timeVars, opt, now, interval, rtt_addend, flight, sent, burst>>

\* "Case of unlimited flood is special; if we see no reply, they are limited
\* to 100pps"
FloodHeld ==
    interval = 0 /\ flight >= opt.preload /\ ElapsedMs(cur_time, now) < MinGap

HoldFlood ==
    /\ pc = "pinger" /\ cur_time > 0 /\ FloodHeld
    /\ Return(MinGap - ElapsedMs(cur_time, now))
    /\ Pause(MinGap - ElapsedMs(cur_time, now))
    /\ UNCHANGED <<timeVars, opt, now, bucket, interval, rtt_addend, flight, sent, burst>>

Limited ==
    /\ pc = "pinger" /\ cur_time > 0 /\ ~FloodHeld
    /\ Filled(now) < interval
    /\ Return(interval - Filled(now))
    /\ Pause(interval - Filled(now))
    /\ UNCHANGED <<timeVars, opt, now, bucket, interval, rtt_addend, flight, sent, burst>>

Grant ==
    /\ pc = "pinger" /\ cur_time > 0 /\ ~FloodHeld
    /\ Filled(now) >= interval
    /\ cur_time' = now
    /\ tokens' = Filled(now) - interval
    /\ pc' = "send" /\ due' = 0
    /\ UNCHANGED <<timeVars, opt, now, interval, rtt_addend, flight, sent, burst>>

\* advance_ntransmitted()
Advance ==
    /\ sent < MaxSent
    /\ sent' = sent + 1 /\ flight' = flight + 1 /\ burst' = burst + 1

Sent ==
    /\ pc = "send"
    /\ Advance
    /\ Return(interval - tokens) /\ Pause(interval - tokens)
    /\ UNCHANGED <<timeVars, opt, now, bucket, interval, rtt_addend>>

\* EAGAIN: the token is given back.
Again ==
    /\ pc = "send"
    /\ tokens' = tokens + interval
    /\ Return(MinGap) /\ Pause(MinGap)
    /\ UNCHANGED <<timeVars, opt, now, cur_time, interval, rtt_addend, flight, sent, burst>>

\* ENOBUFS or ENOMEM: slow down.
Slowdown ==
    /\ tokens' = 0
    /\ rtt_addend' = rtt_addend + AtMost(rtt \div 8, AddendMax)
    /\ rtt_addend' <= MaxAddend
    /\ interval' = IF opt.adaptive THEN NewInterval(rtt, rtt_addend') ELSE interval

NoBuffers ==
    /\ pc = "send"
    /\ Slowdown
    /\ pc' = "wait" /\ due' = 0
    /\ UNCHANGED <<timeVars, opt, now, cur_time, flight, sent, burst>>

\* Wrong variant: a hard error is followed by the shortest pause only.
HardPause_Short(ms) == MinGap

HardPause(ms) == SCHINT(ms)

\* Hard local error, at once or after ENOBUFS for too long: pretend the probe
\* was sent.
HardError ==
    /\ pc = "send"
    /\ Advance
    /\ \/ Slowdown
       \/ tokens' = 0 /\ UNCHANGED <<rtt_addend, interval>>
    /\ pc' = "wait" /\ due' = now + HardPause(interval') * Frac
    /\ UNCHANGED <<timeVars, opt, now, cur_time>>
---------------------------------------------------------------------------
(***************************************************************************)
(* The rest of the loop                                                    *)
(***************************************************************************)
\* A reply: gather_statistics(), which may adapt the interval.  Not measured:
\* no stamp.
Reply(csfailed) ==
    /\ pc = "wait" /\ total < opt.replies
    /\ \/ /\ Stamped(csfailed)
          /\ interval' = IF opt.adaptive /\ ~csfailed
                         THEN NewInterval(rtt', rtt_addend) ELSE interval
       \/ Unstamped /\ ~csfailed /\ UNCHANGED interval
    /\ IF csfailed \/ flight = 0 THEN UNCHANGED flight ELSE flight' \in 0 .. flight - 1
    /\ due' = IF interval' = interval THEN due ELSE 0
    /\ UNCHANGED <<opt, pc, now, bucket, rtt_addend, sent, burst>>

\* poll() or recvmsg() is over, in time, early or late.
Wake ==
    /\ pc = "wait"
    /\ pc' = "pinger"
    /\ UNCHANGED <<timeVars, opt, now, bucket, interval, rtt_addend, flight, sent, burst, due>>

Tick ==
    /\ now < opt.time
    /\ now' = now + 1 /\ burst' = 0
    /\ UNCHANGED <<timeVars, opt, pc, bucket, interval, rtt_addend, flight, sent, due>>

\* The end of the bounded session.
Ended == now = opt.time /\ UNCHANGED vars

Next == First \/ HoldFlood \/ Limited \/ Grant
        \/ Sent \/ Again \/ NoBuffers \/ HardError
        \/ (\E cs \in BOOLEAN : Reply(cs)) \/ Wake \/ Tick \/ Ended

Spec == Init /\ [][Next]_vars
---------------------------------------------------------------------------
(***************************************************************************)
(* Properties                                                              *)
(***************************************************************************)
PaceTypeOK ==
    /\ TimesTypeOK
    /\ opt \in Sessions
    /\ pc \in {"pinger", "send", "wait"}
    /\ now \in Nat /\ cur_time \in 0 .. now /\ due \in Nat
    /\ tokens \in Nat /\ interval \in Nat /\ rtt_addend \in Nat
    /\ ~opt.adaptive => tokens <= interval * opt.preload
    /\ flight \in 0 .. sent /\ burst \in 0 .. sent /\ sent \in 0 .. MaxSent

\* "Check that packets < rate*time + preload" (pinger()): over a session with
\* a fixed interval no more probes go out than the elapsed time pays for,
\* however sends fail and tokens are given back; conversion of the seconds
\* apart from the rest can give less than a millisecond away at each full
\* second.  A flood that hears nothing is held to one probe per MinGap once
\* preload probes are out.
Elapsed == now - Start + (Frac - 1) * (Sec(now) - Sec(Start))
RateLimited ==
    ~opt.adaptive =>
        /\ sent * interval * Frac <= opt.preload * interval * Frac + Elapsed
        /\ interval = 0 /\ total = 0 =>
              sent * MinGap * Frac <= opt.preload * MinGap * Frac + Elapsed

\* -l: "sends that many packets not waiting for reply" (ping.xml).  At no
\* moment, also after a long silence or a failed send, does a burst exceed the
\* preload, but for a probe whose token was taken before the clock moved.
BurstBounded == ~opt.adaptive /\ interval > 0 => burst <= opt.preload + 1

\* The pause pinger() asks for is long enough: with the next millisecond the
\* bucket holds a probe.  Otherwise main_loop() would wake for nothing again
\* and again.
SleepIsEnough ==
    due > 0 /\ pc = "wait" /\ cur_time > 0 /\ ~opt.adaptive =>
        Filled(due + Frac) >= interval
=============================================================================
