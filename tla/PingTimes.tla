------------------------------ MODULE PingTimes ------------------------------
(***************************************************************************)
(* Round-trip times of ping: what gather_statistics() makes of the stamps  *)
(* of a reply, and the figures that status() and the summary derive from   *)
(* the sums.                                                               *)
(*                                                                         *)
(* Times are microseconds.  A reply shows a difference d between arrival   *)
(* and stamp; a negative d means that the time of day went back while the  *)
(* probe was away.  The sums are doubles in the code and exact here.       *)
(***************************************************************************)
EXTENDS Integers

CONSTANTS
    Diffs,          \* differences a reply may show
    MaxTrip,        \* longest valid one (TV_SEC_MAX_VAL seconds)
    IntMax          \* INT_MAX, below which the variance is computed exactly

ASSUME TimesAssumption ==
    /\ Diffs \subseteq Int /\ Diffs # {}
    /\ MaxTrip \in Nat /\ IntMax \in Nat

VARIABLES
    total,          \* nreceived + nrepeats
    tsum, tsum2, tmin, tmax,
    rtt,            \* moving average in fixed point, times 8
    opt_latency,    \* stamps are compared in user space
    measured        \* history: replies that were long enough to carry a stamp

sums == <<tsum, tsum2, tmin, tmax, rtt>>
timeVars == <<total, sums, opt_latency, measured>>

\* tmin starts at LONG_MAX
Unset == MaxTrip + 1

TimesInit ==
    /\ total = 0 /\ tsum = 0 /\ tsum2 = 0 /\ tmin = Unset /\ tmax = 0 /\ rtt = 0
    /\ opt_latency \in BOOLEAN
    /\ measured = 0
---------------------------------------------------------------------------
\* Wrong variant: a clock that went back yields a negative time.
Valid_Negative(d) == IF d > MaxTrip THEN 0 ELSE d

\* An invalid difference counts as no time at all.
Valid(d) == IF d < 0 \/ d > MaxTrip THEN 0 ELSE d

\* The time of day went back: take countermeasures and read the clock again,
\* once.
Goes_back(d) == d < 0 /\ ~opt_latency

Ewma(t) == IF rtt = 0 THEN 8 * t ELSE rtt + t - rtt \div 8

Account(t) ==
    /\ tsum' = tsum + t
    /\ tsum2' = tsum2 + t * t
    /\ tmin' = IF t < tmin THEN t ELSE tmin
    /\ tmax' = IF t > tmax THEN t ELSE tmax
    /\ rtt' = Ewma(t)

\* A reply with a stamp; csfailed: its checksum was wrong.
Stamped(csfailed) ==
    \E d \in Diffs :
        /\ opt_latency' = (opt_latency \/ d < 0)
        /\ IF csfailed
           THEN UNCHANGED <<total, sums, measured>>
           ELSE /\ \E d2 \in IF Goes_back(d) THEN Diffs ELSE {d} : Account(Valid(d2))
                /\ total' = total + 1
                /\ measured' = measured + 1

\* A reply that is too short for a stamp is counted, but not measured.
Unstamped ==
    /\ total' = total + 1
    /\ UNCHANGED <<sums, opt_latency, measured>>
---------------------------------------------------------------------------
(***************************************************************************)
(* The figures of the summary                                              *)
(***************************************************************************)
\* One round of the loop takes the estimate x > 0 to y; the loop ends as soon as
\* the estimate does not fall.
llsqrt(a) ==
    LET Newton[x \in Nat \ {0}] ==
            LET y == (x + a \div x) \div 2
            IN  IF y < x THEN Newton[y] ELSE y
    IN  IF a > 0 THEN Newton[a] ELSE a

tmavg == tsum \div total

\* Wrong variant: the order of computation for long times, used always.
tmvar_Rounded == tsum2 \div total - tmavg * tmavg

\* "This slightly clumsy computation order is important to avoid integer
\* rounding errors for small ping times."  The division of the square is done
\* on doubles: n * tsum2 - tsum * tsum over n * n.
tmvar ==
    IF tsum < IntMax
    THEN (total * tsum2 - tsum * tsum) \div (total * total)
    ELSE tsum2 \div total - tmavg * tmavg

tmdev == llsqrt(tmvar)
---------------------------------------------------------------------------
(***************************************************************************)
(* Properties                                                              *)
(***************************************************************************)
TimesTypeOK ==
    /\ total \in Nat /\ measured \in 0 .. total
    /\ tsum \in Nat /\ tsum2 \in Nat /\ rtt \in Nat
    /\ tmin \in 0 .. Unset /\ tmax \in 0 .. MaxTrip
    /\ opt_latency \in BOOLEAN

\* The figures of a summary belong together, whatever clock steps, damaged and
\* repeated replies came in between: the moving average lies between the
\* smallest and the largest time; if every reply was measured, so does the
\* mean, and the deviation is at most half the spread (for a large sum: up to
\* the rounding of the mean).
Spread == tmax - tmin
SummarySound ==
    measured > 0 =>
        /\ tmin >= 0
        /\ 8 * tmin <= rtt /\ rtt <= 8 * tmax
        /\ total = measured =>
              /\ tmin <= tmavg /\ tmavg <= tmax
              /\ tsum < IntMax => 2 * tmdev <= Spread
              /\ 4 * tmdev * tmdev <= Spread * Spread + 8 * tmavg + 4
=============================================================================
