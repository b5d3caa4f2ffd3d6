------------------------------ MODULE PingLoop ------------------------------
(***************************************************************************)
(* Control flow of a ping session: main_loop() with pinger(),              *)
(* schedule_exit() and finish(), interleaved with the signal handlers.     *)
(* The bookkeeping of every step is the corresponding action of PingStats. *)
(*                                                                         *)
(* Signals arrive between any two steps.  Time is abstract: `credit' says  *)
(* whether the rate limiter of pinger() would let a probe out now, and the *)
(* timeouts of poll() and recvmsg() may end at any moment.  waittime, tmax *)
(* and LingerTime are in microseconds, Interval in milliseconds, as in the *)
(* code, because whether waittime is zero decides whether ping ends.       *)
(***************************************************************************)
EXTENDS PingStats

CONSTANTS
    Npackets,       \* -c, 0 when absent
    Deadline,       \* TRUE iff -w was given
    Interval,       \* -i in ms; 0 for -f without -i
    LingerTime,     \* -W in us
    Timing,         \* packets are large enough to carry a timestamp
    RTTs            \* round-trip times in us that may be measured

ASSUME LoopAssumption ==
    /\ Npackets \in Nat /\ Interval \in Nat /\ LingerTime \in Nat
    /\ Deadline \in BOOLEAN /\ Timing \in BOOLEAN
    /\ RTTs \subseteq Nat /\ RTTs # {}

VARIABLES
    pc,             \* where main_loop() is
    exiting,        \* set by the SIGINT and SIGALRM handler
    status_snapshot, \* set by the SIGQUIT handler
    timer,          \* ITIMER_REAL: "off", "exit" or "deadline"
    waittime,       \* static of __schedule_exit()
    tmax,           \* largest round-trip time
    oom_count,      \* static of pinger()
    credit,         \* the token bucket of pinger() holds a probe
    exitcode        \* result of finish(), -1 before

ctlVars == <<pc, exiting, status_snapshot, timer, waittime, tmax, oom_count,
             credit, exitcode>>
vars == <<statVars, ctlVars>>

\* setup() installs the handlers and starts the deadline timer.
Init ==
    /\ StatInit
    /\ pc = "top"
    /\ exiting = FALSE
    /\ status_snapshot = FALSE
    /\ timer = IF Deadline THEN "deadline" ELSE "off"
    /\ waittime = 0 /\ tmax = 0 /\ oom_count = 0
    /\ credit = TRUE
    /\ exitcode = -1

\* Wrong variant: off by one.
Enough_OffByOne(nt) == Npackets > 0 /\ nt > Npackets /\ ~Deadline

\* "Have we already sent enough?"  Without a deadline only.
Enough(nt) == Npackets > 0 /\ nt >= Npackets /\ ~Deadline

\* Wrong variant: duplicates count towards the total.
AllAccounted_Repeats == Npackets > 0 /\ nreceived + nrepeats + nerrors >= Npackets

\* The condition under which main_loop() stops without being told to.
AllAccounted == Npackets > 0 /\ nreceived + nerrors >= Npackets

\* Wrong variant: the deadline forgotten.
finish_AnyReply == IF nreceived = 0 THEN 1 ELSE 0

finish == IF nreceived = 0 \/ (Deadline /\ nreceived < Npackets) THEN 1 ELSE 0
---------------------------------------------------------------------------
(***************************************************************************)
(* The head of the loop                                                    *)
(***************************************************************************)
Leave ==
    /\ pc = "top"
    /\ exiting \/ AllAccounted \/ (Deadline /\ nerrors > 0)
    /\ pc' = "done"
    /\ exitcode' = finish
    /\ UNCHANGED <<statVars, exiting, status_snapshot, timer, waittime, tmax,
                   oom_count, credit>>

Continue ==
    /\ pc = "top"
    /\ ~(exiting \/ AllAccounted \/ (Deadline /\ nerrors > 0))
    /\ pc' = "pinger"
    /\ status_snapshot' = FALSE
    /\ UNCHANGED <<statVars, exiting, timer, waittime, tmax, oom_count, credit,
                   exitcode>>
---------------------------------------------------------------------------
(***************************************************************************)
(* pinger() and schedule_exit()                                            *)
(***************************************************************************)

\* Wrong variant: two round trips, however short.
GracePeriod_NoFloor == IF nreceived > 0 THEN 2 * tmax ELSE LingerTime

\* The grace period for the last replies.
GracePeriod ==
    IF nreceived > 0
    THEN IF 2 * tmax < 1000 * Interval THEN 1000 * Interval ELSE 2 * tmax
    ELSE LingerTime

\* setitimer() with a zero value disarms the timer.
Armed(us) == IF us > 0 THEN "exit" ELSE "off"

\* schedule_exit(next): once enough is sent, the first call with a nonzero
\* grace period starts the exit timer.  `positive' says that next > 0; the
\* loop around pinger() repeats while it is not.
ScheduleExit(positive) ==
    LET arm == Enough(ntransmitted') /\ waittime = 0
        out == positive \/ (arm /\ GracePeriod >= 1000)
    IN  /\ waittime' = IF arm THEN GracePeriod ELSE waittime
        /\ timer' = IF arm THEN Armed(GracePeriod) ELSE timer
        /\ pc' = IF out THEN "wait" ELSE "pinger"

PingerIdle ==
    /\ pc = "pinger"
    /\ exiting \/ Enough(ntransmitted)
    /\ UNCHANGED statVars
    /\ ScheduleExit(TRUE)
    /\ UNCHANGED <<exiting, status_snapshot, tmax, oom_count, credit, exitcode>>

\* The token bucket is empty: come back later.
PingerLimited ==
    /\ pc = "pinger"
    /\ ~exiting /\ ~Enough(ntransmitted) /\ ~credit
    /\ pc' = "wait"
    /\ UNCHANGED <<statVars, exiting, status_snapshot, timer, waittime, tmax,
                   oom_count, credit, exitcode>>

PingerGo ==
    /\ pc = "pinger"
    /\ ~exiting /\ ~Enough(ntransmitted) /\ credit
    /\ pc' = "send"
    /\ UNCHANGED <<statVars, exiting, status_snapshot, timer, waittime, tmax,
                   oom_count, credit, exitcode>>

\* sendto() succeeded; next = interval - tokens.
PingerSent ==
    /\ pc = "send"
    /\ SendProbe
    /\ oom_count' = 0
    /\ credit' \in BOOLEAN
    /\ ScheduleExit(Interval > 0 /\ ~credit')
    /\ UNCHANGED <<exiting, status_snapshot, tmax, exitcode>>

\* ENOBUFS is retried after half an interval (SCHINT: at least 10 ms, at most
\* 500) until the retries add up to the time ping would wait for a reply.
NoresInterval ==
    LET half == Interval \div 2
    IN  IF half <= 10 THEN 10 ELSE IF half > 500 THEN 500 ELSE half
StuckAt(count) == count * NoresInterval >= LingerTime \div 1000

\* ENOBUFS or ENOMEM, not yet for too long.
PingerNoBuffers ==
    /\ pc = "send"
    /\ ~StuckAt(oom_count + 1)
    /\ SendDeferred
    /\ oom_count' = oom_count + 1
    /\ credit' \in {FALSE, Interval = 0}
    /\ pc' = "wait"
    /\ UNCHANGED <<exiting, status_snapshot, timer, waittime, tmax, exitcode>>

\* EAGAIN: the socket buffer is full, the token is given back.
PingerAgain ==
    /\ pc = "send"
    /\ SendDeferred
    /\ pc' = "wait"
    /\ UNCHANGED <<exiting, status_snapshot, timer, waittime, tmax, oom_count,
                   credit, exitcode>>

\* The error concerned someone else's packet, or MSG_CONFIRM was refused.
PingerResend ==
    /\ pc = "send"
    /\ SendDeferred
    /\ UNCHANGED ctlVars

\* Hard local error: pretend the probe was sent, and start with no tokens.
\* Only the ENOBUFS case touches oom_count.
HardError ==
    /\ credit' \in {FALSE, Interval = 0}
    /\ ScheduleExit(TRUE)
    /\ UNCHANGED <<exiting, status_snapshot, tmax, exitcode>>

PingerStuck ==
    /\ pc = "send"
    /\ StuckAt(oom_count + 1)
    /\ SendDropped
    /\ oom_count' = oom_count + 1
    /\ HardError

PingerFailed ==
    /\ pc = "send"
    /\ \/ SendDropped
       \/ SendRejected
       \/ \E n \in wire \cup {ntransmitted + 1} : SendAnsweredByError(n)
    /\ UNCHANGED oom_count
    /\ HardError
---------------------------------------------------------------------------
(***************************************************************************)
(* Waiting and receiving                                                   *)
(***************************************************************************)

\* poll() returned without an event.
PollTimeout ==
    /\ pc = "wait"
    /\ pc' = "top"
    /\ UNCHANGED <<statVars, exiting, status_snapshot, timer, waittime, tmax,
                   oom_count, credit, exitcode>>

\* poll() reported an event, or the code goes straight to recvmsg().
PollReady ==
    /\ pc = "wait"
    /\ pc' = "recv"
    /\ UNCHANGED <<statVars, exiting, status_snapshot, timer, waittime, tmax,
                   oom_count, credit, exitcode>>

\* Wrong variant: recvmsg() without a timeout, restarted by the kernel after
\* a signal.
RecvNothing_Restarted == pc = "recv" /\ UNCHANGED vars

\* EAGAIN (the SO_RCVTIMEO timeout, or an empty queue), EINTR, or an error
\* that the error queue does not explain.
RecvNothing ==
    /\ pc = "recv"
    /\ pc' = "top"
    /\ UNCHANGED <<statVars, exiting, status_snapshot, timer, waittime, tmax,
                   oom_count, credit, exitcode>>

\* After each message: back to pinger() only when nothing is in flight.
AfterMessage ==
    /\ pc' = IF in_flight' = 0 THEN "top" ELSE "recv"
    /\ UNCHANGED <<exiting, status_snapshot, timer, waittime, oom_count, credit,
                   exitcode>>

\* gather_statistics() measures the round trip of every intact reply,
\* duplicates included.
RecvReply ==
    /\ pc = "recv"
    /\ \E n \in wire : Reply(n)
    /\ IF Timing
       THEN \E t \in RTTs : tmax' = IF t > tmax THEN t ELSE tmax
       ELSE UNCHANGED tmax
    /\ AfterMessage

RecvOther ==
    /\ pc = "recv"
    /\ \/ \E n \in wire : NetError(n) \/ ErrorPacket(n)
       \/ CorruptReply
       \/ LocalError
    /\ UNCHANGED tmax
    /\ AfterMessage

\* Somebody else's packet (install_filter() asks the kernel to drop the
\* next ones), or a local error with -q.
RecvNotOurs ==
    /\ pc = "recv"
    /\ UNCHANGED <<statVars, tmax>>
    /\ AfterMessage
---------------------------------------------------------------------------
(***************************************************************************)
(* Signals and time                                                        *)
(***************************************************************************)
Interrupt ==
    /\ pc # "done"
    /\ exiting' = TRUE
    /\ UNCHANGED <<statVars, pc, status_snapshot, timer, waittime, tmax,
                   oom_count, credit, exitcode>>

Alarm ==
    /\ pc # "done"
    /\ timer # "off"
    /\ timer' = "off"
    /\ exiting' = TRUE
    /\ UNCHANGED <<statVars, pc, status_snapshot, waittime, tmax, oom_count,
                   credit, exitcode>>

StatusRequest ==
    /\ pc # "done"
    /\ status_snapshot' = TRUE
    /\ UNCHANGED <<statVars, pc, exiting, timer, waittime, tmax, oom_count,
                   credit, exitcode>>

\* Time passes: the token bucket fills up.
Refill ==
    /\ pc \notin {"send", "done"}
    /\ ~credit
    /\ credit' = TRUE
    /\ UNCHANGED <<statVars, pc, exiting, status_snapshot, timer, waittime, tmax,
                   oom_count, exitcode>>

Ended == pc = "done" /\ UNCHANGED vars

SendDone == PingerSent \/ PingerStuck \/ PingerFailed
Pinger ==
    \/ PingerIdle \/ PingerLimited \/ PingerGo
    \/ PingerNoBuffers \/ PingerAgain \/ PingerResend \/ SendDone
Recv == RecvNothing \/ RecvReply \/ RecvOther \/ RecvNotOurs
Signals == Interrupt \/ Alarm \/ StatusRequest

Next == Leave \/ Continue \/ Pinger \/ PollTimeout \/ PollReady \/ Recv
        \/ Signals \/ Refill \/ Ended

Spec == Init /\ [][Next]_vars

(***************************************************************************)
(* The process runs, timers expire, time passes; the socket is found empty *)
(* again and again (messages are finite), and sendto() does not answer     *)
(* EAGAIN for ever.  Nothing is assumed of replies, of the user or of the  *)
(* other outcomes of sendto().                                             *)
(***************************************************************************)
Fairness ==
    /\ WF_vars(Leave \/ Continue)
    /\ WF_vars(PingerIdle \/ PingerLimited \/ PingerGo)
    /\ SF_vars(SendDone)
    /\ WF_vars(pc = "send" /\ Pinger)
    /\ WF_vars(PollTimeout \/ PollReady)
    /\ WF_vars(RecvNothing)
    /\ WF_vars(Alarm)
    /\ WF_vars(Refill)

FairSpec == Spec /\ Fairness
---------------------------------------------------------------------------
(***************************************************************************)
(* Properties                                                              *)
(***************************************************************************)

\* Types of the control state: program counter, flags, timer and the statics
\* of pinger() and __schedule_exit().
LoopTypeOK ==
    /\ StatTypeOK
    /\ pc \in {"top", "pinger", "send", "wait", "recv", "done"}
    /\ exiting \in BOOLEAN /\ status_snapshot \in BOOLEAN /\ credit \in BOOLEAN
    /\ timer \in {"off", "exit", "deadline"}
    /\ waittime \in Nat /\ tmax \in Nat /\ oom_count \in Nat
    /\ exitcode \in {-1, 0, 1}

\* -c without -w never sends more than `count' probes, however sends fail and
\* wherever pinger() is re-entered ("max packets to transmit", ping.h).
NeverOversends == Npackets > 0 /\ ~Deadline => ntransmitted <= Npackets

\* Once `count' probes are out, ping never waits for replies without either
\* the exit timer running or the exit flag set: otherwise a lost reply would
\* leave main_loop() waiting for ever.
WaitIsTimed ==
    Enough(ntransmitted) /\ pc \notin {"send", "done"} =>
        timer = "exit" \/ exiting

\* Exit status 0 promises that some probe was answered and, with -c and -w,
\* that `count' different probes were; status 1 that it was not so.
Answered == {n \in wire : U16(n) \in rcvd}
ExitStatusMeaning ==
    pc = "done" =>
        (exitcode = 0 <=> /\ Answered # {}
                          /\ Deadline => Cardinality(Answered) >= Npackets)

\* A session with a count that ends by itself without any error got an answer
\* to `count' different probes: duplicates do not stand in for missing ones.
CleanEndIsComplete ==
    pc = "done" /\ ~exiting /\ nerrors = 0 =>
        exitcode = 0 /\ Cardinality(Answered) >= Npackets

\* Every step of the loop is a step of the bookkeeping or leaves it alone.
ImplementsStats == StatSpec

\* After SIGINT, or after either timer expires, the session ends.
ExitingEnds == exiting ~> pc = "done"

\* A session with a count or a deadline ends, whatever is lost.
SessionEnds == <>(pc = "done")
=============================================================================
