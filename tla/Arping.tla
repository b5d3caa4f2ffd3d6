------------------------------- MODULE Arping -------------------------------
(***************************************************************************)
(* arping: event_loop() over four descriptors (signals, interval timer,    *)
(* deadline timer, packet socket), send_pack(), recv_pack() and finish().  *)
(*                                                                         *)
(* poll() reports any non-empty set of ready descriptors; the for loop     *)
(* serves all of them in index order before exit_loop is looked at again.  *)
(* The options are chosen once, in Init, from what main() accepts.         *)
(***************************************************************************)
EXTENDS Integers, FiniteSets

CONSTANTS
    MaxCount,       \* bound on -c
    MaxTicks,       \* bound on total_expires
    MaxReceived     \* bound on received

ASSUME ArpingAssumption ==
    MaxCount \in Nat \ {0} /\ MaxTicks \in Nat \ {0} /\ MaxReceived \in Nat

\* count is -1 without -c; timeout and interval tell whether the value is
\* positive (a zero disarms the timerfd); -D implies -f; source tells whether
\* gsrc is non-zero, which only DAD mode asks for.
Options ==
    {o \in [count : {-1} \cup 1 .. MaxCount, timeout : BOOLEAN,
            interval : BOOLEAN, dad : BOOLEAN, quit_on_reply : BOOLEAN,
            broadcast_only : BOOLEAN, unsolicited : BOOLEAN, source : BOOLEAN] :
        /\ o.dad => o.quit_on_reply
        /\ ~o.dad => o.source}

\* What an ARP packet looks like to recv_pack().  "shape" stands for the
\* checks on operation, hardware type, protocol and lengths; dst tells whether
\* the target's IP address is gsrc, and its hardware address ours as well.
Packets == [type : {"host", "broadcast", "outgoing"}, op : {"request", "reply"},
            shape : BOOLEAN, src : {"target", "other"}, src_hw : {"me", "peer"},
            dst : {"me", "gsrc", "other"}]

VARIABLES
    opt,
    pc,             \* "setup", "poll", "serve", "done"
    ready,          \* descriptors poll() reported and not yet served
    exit_loop,
    sent, brd_sent, received, brd_recv, req_recv, unicasting,
    total_expires,
    exp,            \* kernel: expirations of the interval timer not yet read
    deadline,       \* kernel: the deadline timer has expired
    signalled,      \* kernel: a termination signal is queued
    status,         \* exit status, -1 before; error(-1) gives 255
    heard,          \* history: number of broadcasts among the counted packets
    conflict        \* history: a counted packet came from another station

counters == <<sent, brd_sent, received, brd_recv, req_recv, unicasting>>
kernel == <<exp, deadline, signalled>>
history == <<heard, conflict>>
vars == <<opt, pc, ready, exit_loop, counters, total_expires, kernel, status, history>>

Init ==
    /\ opt \in Options
    /\ pc = "setup" /\ ready = {} /\ exit_loop = FALSE
    /\ sent = 0 /\ brd_sent = 0 /\ received = 0 /\ brd_recv = 0 /\ req_recv = 0
    /\ unicasting = FALSE
    /\ total_expires = 1
    /\ exp = 0 /\ deadline = FALSE /\ signalled = FALSE
    /\ status = -1
    /\ heard = 0 /\ conflict = FALSE
---------------------------------------------------------------------------
(***************************************************************************)
(* The helpers of the loop                                                 *)
(***************************************************************************)
\* exit_loop = 1
Stop == exit_loop' = TRUE
GoOn == UNCHANGED exit_loop

\* sendto() takes the whole frame, or the probe is forgotten.
send_pack ==
    \/ /\ sent' = sent + 1
       /\ brd_sent' = IF unicasting THEN brd_sent ELSE brd_sent + 1
    \/ UNCHANGED <<sent, brd_sent>>

finish ==
    LET bad == CASE opt.dad         -> received > 0
                 [] opt.unsolicited /\ ~opt.dad -> FALSE
                 [] opt.timeout /\ opt.count > 0 /\ ~opt.quit_on_reply
                    /\ ~opt.unsolicited -> ~(opt.count <= received)
                 [] OTHER           -> received = 0
    IN  IF bad THEN 1 ELSE 0

\* Wrong variant: in DAD mode our own frames are not told apart.
Counts_OwnFrames(p) ==
    /\ p.type # "outgoing" /\ p.shape /\ p.src = "target"
    /\ IF opt.dad THEN opt.source => p.dst # "other"
                  ELSE p.dst = "me"

\* The filters of recv_pack().
Counts(p) ==
    /\ p.type # "outgoing" /\ p.shape /\ p.src = "target"
    /\ IF opt.dad
       THEN /\ p.src_hw # "me"
            /\ opt.source => p.dst # "other"
       ELSE p.dst = "me"

\* The first test of recv_pack() for the end: it comes before the broadcast
\* and request counters and before the switch to unicast.
LastOfCount == opt.timeout /\ received + 1 = opt.count

recv_pack(p) ==
    /\ Counts(p)
    /\ received < MaxReceived
    /\ received' = received + 1
    /\ heard' = IF p.type # "host" THEN heard + 1 ELSE heard
    /\ conflict' = (conflict \/ p.src_hw = "peer")
    /\ \/ /\ LastOfCount
          /\ Stop
          /\ UNCHANGED <<brd_recv, req_recv, unicasting>>
       \/ /\ ~LastOfCount
          /\ brd_recv' = IF p.type # "host" THEN brd_recv + 1 ELSE brd_recv
          /\ req_recv' = IF p.op = "request" THEN req_recv + 1 ELSE req_recv
          /\ IF opt.quit_on_reply \/ (opt.count = 0 /\ received' = sent)
             THEN Stop /\ UNCHANGED unicasting
             ELSE /\ unicasting' = (unicasting \/ ~opt.broadcast_only)
                  /\ GoOn
---------------------------------------------------------------------------
(***************************************************************************)
(* event_loop()                                                            *)
(***************************************************************************)
\* sigprocmask(), signalfd(), timerfd_create() and timerfd_settime(), then
\* the first probe.
Setup ==
    /\ pc = "setup"
    /\ send_pack
    /\ pc' = "poll"
    /\ UNCHANGED <<opt, ready, exit_loop, received, brd_recv, req_recv, unicasting,
                   total_expires, kernel, status, history>>

SetupFails ==
    /\ pc = "setup"
    /\ pc' = "done" /\ status' = 1
    /\ UNCHANGED <<opt, ready, exit_loop, counters, total_expires, kernel, history>>

\* The loop condition, and the extra one of the unsolicited modes.
Finished == exit_loop \/ (sent = opt.count /\ opt.unsolicited)

Leave ==
    /\ pc = "poll" /\ Finished
    /\ pc' = "done" /\ status' = finish
    /\ UNCHANGED <<opt, ready, exit_loop, counters, total_expires, kernel, history>>

\* poll() returns a set that holds every descriptor known to be readable; the
\* socket may be readable or not.
Poll ==
    /\ pc = "poll" /\ ~Finished
    /\ \E sock \in {{}, {"socket"}} :
          ready' = sock \cup (IF signalled THEN {"signal"} ELSE {})
                        \cup (IF exp > 0 THEN {"timer"} ELSE {})
                        \cup (IF deadline THEN {"timeout"} ELSE {})
    /\ ready' # {}
    /\ pc' = "serve"
    /\ UNCHANGED <<opt, exit_loop, counters, total_expires, kernel, status, history>>

\* poll() fails with anything but EAGAIN.
PollFails ==
    /\ pc = "poll" /\ ~Finished
    /\ Stop
    /\ UNCHANGED <<opt, pc, ready, counters, total_expires, kernel, status,
                   history>>

Order == [signal |-> 1, timer |-> 2, timeout |-> 3, socket |-> 4]

\* Descriptor f is the next one to be served.
Turn(f) ==
    /\ pc = "serve" /\ f \in ready
    /\ \A g \in ready : Order[f] <= Order[g]
    /\ ready' = ready \ {f}

\* Wrong variant: exit_loop belongs to one iteration only.
BatchDone_Reset ==
    /\ pc = "serve" /\ ready = {}
    /\ pc' = "poll" /\ exit_loop' = FALSE
    /\ UNCHANGED <<opt, ready, counters, total_expires, kernel, status, history>>

BatchDone ==
    /\ pc = "serve" /\ ready = {}
    /\ pc' = "poll"
    /\ UNCHANGED <<opt, ready, exit_loop, counters, total_expires, kernel, status, history>>

Signal ==
    /\ Turn("signal")
    /\ Stop /\ signalled' = FALSE
    /\ UNCHANGED <<opt, pc, counters, total_expires, exp, deadline, status,
                   history>>

\* Wrong variant: equality, which a late read() jumps over.
Spent_Exact(t) == opt.count > 0 /\ opt.count + 1 = t

\* The interval has expired as often as there are probes to send.
Spent(t) == opt.count > 0 /\ opt.count < t

\* read() returns all expirations since the last one; one probe is sent for
\* them, or none when the count is used up.
Timer ==
    /\ Turn("timer")
    /\ total_expires' = total_expires + exp
    /\ exp' = 0
    /\ IF Spent(total_expires + exp)
       THEN Stop /\ UNCHANGED <<sent, brd_sent>>
       ELSE send_pack /\ GoOn
    /\ UNCHANGED <<opt, pc, received, brd_recv, req_recv, unicasting, deadline,
                   signalled, status, history>>

Timeout ==
    /\ Turn("timeout")
    /\ Stop
    /\ UNCHANGED <<opt, pc, counters, total_expires, kernel, status,
                   history>>

\* A short read() of the signalfd or of the timerfd, or a recvfrom() error
\* other than ENETDOWN: reported, and the loop goes on.
ServeFails ==
    /\ \E f \in {"signal", "timer", "socket"} : Turn(f)
    /\ UNCHANGED <<opt, pc, exit_loop, counters, total_expires, kernel, status, history>>

NetDown ==
    /\ Turn("socket")
    /\ pc' = "done" /\ status' = 2
    /\ UNCHANGED <<opt, exit_loop, counters, total_expires, kernel, history>>

Receive ==
    /\ Turn("socket")
    /\ \E p \in Packets : recv_pack(p)
    /\ UNCHANGED <<opt, pc, sent, brd_sent, total_expires, kernel, status>>

\* Wrong variant: exit_loop takes the result of recv_pack().
Ignore_Clears ==
    /\ Turn("socket")
    /\ exit_loop' = FALSE
    /\ UNCHANGED <<opt, pc, counters, total_expires, kernel, status, history>>

\* A packet that the filters of recv_pack() reject.
Ignore ==
    /\ Turn("socket")
    /\ \E p \in Packets : ~Counts(p)
    /\ UNCHANGED <<opt, pc, exit_loop, counters, total_expires, kernel, status, history>>

\* The kernel: timers run on while the loop is busy or stopped.
Tick ==
    /\ pc # "setup" /\ pc # "done" /\ opt.interval
    /\ total_expires + exp < MaxTicks
    /\ exp' = exp + 1
    /\ UNCHANGED <<opt, pc, ready, exit_loop, counters, total_expires, deadline,
                   signalled, status, history>>

Expire ==
    /\ pc # "setup" /\ pc # "done" /\ opt.timeout /\ ~deadline
    /\ deadline' = TRUE
    /\ UNCHANGED <<opt, pc, ready, exit_loop, counters, total_expires, exp,
                   signalled, status, history>>

Interrupt ==
    /\ pc # "setup" /\ pc # "done" /\ ~signalled /\ ~exit_loop
    /\ signalled' = TRUE
    /\ UNCHANGED <<opt, pc, ready, exit_loop, counters, total_expires, exp,
                   deadline, status, history>>

Ended == pc = "done" /\ UNCHANGED vars

Serve == Signal \/ Timer \/ Timeout \/ ServeFails \/ NetDown \/ Ignore \/ Receive

Next == Setup \/ SetupFails \/ Leave \/ Poll \/ PollFails \/ BatchDone
        \/ Serve \/ Tick \/ Expire \/ Interrupt \/ Ended

Spec == Init /\ [][Next]_vars

\* The loop runs whenever it can, the kernel's timers expire, and a timerfd
\* that is readable is not unreadable for ever.
Fairness ==
    /\ WF_vars(Setup \/ Leave \/ Poll \/ BatchDone \/ Serve)
    /\ WF_vars(Tick) /\ WF_vars(Expire)
    /\ SF_vars(Timer)
---------------------------------------------------------------------------
(***************************************************************************)
(* Properties                                                              *)
(***************************************************************************)
\* Types, and when the loop serves descriptors at all.
ArpTypeOK ==
    /\ opt \in Options
    /\ pc \in {"setup", "poll", "serve", "done"}
    /\ ready \subseteq DOMAIN Order /\ (ready # {} => pc \in {"serve", "done"})
    /\ exit_loop \in BOOLEAN /\ unicasting \in BOOLEAN
    /\ sent \in 0 .. MaxTicks /\ brd_sent \in 0 .. sent
    /\ received \in 0 .. MaxReceived
    /\ brd_recv \in 0 .. received /\ req_recv \in 0 .. received
    /\ total_expires \in 1 .. MaxTicks /\ exp \in 0 .. MaxTicks
    /\ deadline \in BOOLEAN /\ signalled \in BOOLEAN
    /\ status \in {-1, 0, 1, 2, 255}
    /\ heard \in 0 .. received /\ conflict \in BOOLEAN

\* -c: never more than count probes, however the interval timer, replies and
\* the batches of poll() interleave; each probe uses up an expiration.
ProbesWithinCount ==
    /\ sent <= total_expires
    /\ opt.count > 0 => sent <= opt.count

\* -f (and -D): exactly the first reply is counted; -w with -c: at most count
\* replies are.
RepliesWithinLimit ==
    /\ opt.quit_on_reply => received <= 1
    /\ opt.timeout /\ opt.count > 0 => received <= opt.count

\* What ends the run ends it before anything else is counted, also when other
\* descriptors of the same poll() are still to be served.
WithinLimits == ProbesWithinCount /\ RepliesWithinLimit

\* The summary adds up: probes and broadcasts differ only once arping has
\* switched to unicast, and the broadcast count misses at most the very last
\* reply that -w and -c wait for, which returns before it is classified.
SummaryAddsUp ==
    /\ ~unicasting => brd_sent = sent
    /\ unicasting => received > 0 /\ ~opt.broadcast_only
    /\ heard # brd_recv => /\ heard = brd_recv + 1
                           /\ exit_loop /\ opt.timeout /\ received = opt.count

\* -D: the address is reported in use exactly when another station answered;
\* frames of this host never count.
DadVerdict ==
    opt.dad =>
        /\ received > 0 <=> conflict
        /\ pc = "done" /\ status = 0 => ~conflict
        /\ pc = "done" /\ status = 1 => conflict \/ sent = 0

\* -w with -c: status 0 for count replies only.
DeadlineStatus ==
    (pc = "done" /\ status = 0 /\ opt.timeout /\ opt.count > 0
     /\ ~opt.quit_on_reply /\ ~opt.unsolicited) => received = opt.count

\* The exit status of -D, and of -w with -c, is that of the replies counted,
\* whichever of them, the deadline, a signal and the timer came together.
Verdicts == DadVerdict /\ DeadlineStatus

\* arping.xml on -w: "before arping exits regardless of how many packets have
\* been sent or received".
DeadlineEnds == (pc = "poll" /\ opt.timeout) ~> (pc = "done")

\* arping.xml on -c: arping stops after count probes, if probes are timed;
\* also when expirations were missed.
CountEnds == (pc = "poll" /\ opt.count > 0 /\ opt.interval) ~> (pc = "done")
=============================================================================
