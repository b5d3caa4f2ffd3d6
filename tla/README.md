# coping: specifications, model checking and proofs

coping is a fork of the iputils `ping` that asks a language model for a
comment on the result. The repository also carries the iputils tools arping,
clockdiff and tracepath. This directory holds TLA+ modules for the parts of
these programs that have behaviour worth checking, configurations for TLC, and
proofs for TLAPS.

    tlc -config PingStats_echo.cfg PingStats      # a run, see "Runs"
    tlapm PingLoop_proofs.tla                     # the proofs

`PROJECT.json` maps every definition to the source lines it stands for and
lists the runs, the wrong variants that show each property has teeth, the
hazards and the theorems.

All paths below are under `src/iputils/` unless they start with `src/`.

## 1. Inventory

### ping: the session (`ping/ping.h`, `ping_common.c`, `ping.c`, `ping6_common.c`)

*State.* `struct ping_rts`: `ntransmitted` (a `long`), `nreceived`, `nrepeats`,
`nchecksum`, `nerrors`, `acked` (the newest acknowledged sequence number, a
`uint16_t`), `pipesize`, `rcvd_tbl` (one bit per 16-bit sequence number), the
flags `exiting` and `status_snapshot`, the round-trip figures, the JSON
buffers; and function statics: `oom_count` and the token bucket in `pinger()`,
`waittime` in `__schedule_exit()`.

*Operations.* `main_loop()` alternates between `pinger()` (send one probe,
sort out the ways `sendto()` fails), waiting, and draining the socket with
`recvmsg()`. Each message goes to `receive_error_msg()` (the error queue) or
`parse_reply()`, and from there to `acknowledge()` and `gather_statistics()`.
`finish()` prints the summary, calls `coping_add_context()` and computes the
exit status.

*Interactions.* Signals set two flags and start or end timers
(`sigexit()`, `sigstatus()`, `setitimer()`); the kernel's error queue is read
from two places (`main_loop()`, and `pinger()` after a failed send); the
IPv4 and IPv6 function sets are called through `ping_func_set`.

*Hard.* Replies are lost, late, reordered, duplicated, damaged; sequence
numbers wrap at 2^16; a retried send clears the duplicate bit again; errors
arrive for older probes in the middle of sending a new one; a signal arrives
between any two steps; the end of a session hangs on one timer that is started
once with a computed value.

*Correct means.* Each probe is credited at most once; `received` does not
exceed `sent`; `in_flight()` tells the truth; `-c` does not oversend; the wait
for the last replies is limited; the exit status means what `ping.xml` says;
a session ends.

### ping: pace and times (`ping_common.c:307-410`, `:717-853`, `ping_output.c`)

*State.* The token bucket and its clock in two statics of `pinger()`;
`interval`, `rtt`, `rtt_addend`; the sums, extremes and `opt_latency` of
`gather_statistics()`. *Operations.* Take or give back a token, compute the
pause, adapt the interval, account a round trip, derive mean and deviation.
*Hard.* Seconds and nanoseconds are subtracted separately and divided with
truncation; tokens are given back on EAGAIN and dropped on errors; the time of
day may go back; the variance is a small difference of large figures.
*Correct means.* No more probes than rate and preload allow, pauses that last
until a token is there, figures that belong together.

### ping: start-up (`ping.c:430-1040`, `ping6_common.c`, `ping_common.c`)

*State.* Permitted and effective capabilities, two sockets with their type,
`hints.ai_family`, the address that is tried, and everything in `struct
ping_rts` that one address leaves behind for the next (`firsthop`, `source`,
`mark`, `multicast`, `interval`).
*Operations.* `limit_capabilities()`, the options that exclude or change each
other, `create_socket()` with its fallback from a datagram to a raw socket,
the loop over the addresses, `ping4_run()` and `ping6_run()`, `setup()`.
*Hard.* Privileges are raised around single calls, any of which may fail;
families, kernel support and routes combine; limits of unprivileged users are
tested at several places while `-f` still changes the interval.
*Correct means.* No privilege outside the brackets or in the main loop, a
session as the command line asks, the limits hold, no assertion fails.

### ping: node information queries (`ping/node_info.c`)

*State.* `struct ping_ni` (query, flags, subject), the statics of
`niquery_nonce()`. *Operations.* The words of `-N`, `niquery_fill_nonce()`,
`niquery_check_nonce()`. *Hard.* The digest computed last is kept, for
whichever number. *Correct means.* An accepted answer belongs to a query.

### coping: the AI context (`ping/coping_ai.c`, `ping/ping.c:327-427`)

*State.* `coping_cfg`, `g_api_key`, `g_mechs` (up to `COPING_MAX_MECHS`
loaded addons), and what `coping_add_context()` allocates.
*Operations.* A pre-scan of `argv` before `getopt()`, the API key gate, the
loader (`dlopen()`), hooks before and after the request, the request itself.
*Interactions.* `finish()` calls it between the summary and the exit status;
addons run inside the process through four hooks.
*Hard.* Seven ways out of one function; a transfer that fails after data
arrived; a text that is allocated even when it is empty; hooks of several addons around a request that may fail; a limit on
the number of addons.
*Correct means.* No leak on any path, no request without key and consent,
hooks in order, exit status untouched.

### ping: JSON (`ping/ping_json.c`, `ping_output.c`)

*State.* Two string buffers. *Operations.* Append a key and value, close and
print. *Hard.* Separators are written by the member before or by the member
after, from several functions under different conditions. Every handler prints
text or JSON by tests of its own, some text without any, and at once, while an
object is printed at the end. *Correct means.* An object parses, and no text
gets in front of it on its line that the user did not ask for.

### arping (`arping.c`)

*State.* `struct run_state`: counters, `unicasting`, the options; in
`event_loop()` the descriptors, `total_expires`, `exit_loop`; before it
`ctl->device` (name, index, address entry), the source address, the
capabilities. *Operations.* `limit_capabilities()`, `guess_device()`,
`check_device()`, the probing socket; `event_loop()` over a signalfd, two
timerfds and a packet socket; `send_pack()`, `recv_pack()`, `finish()`.
*Hard.* One `poll()` reports several descriptors, all of which are served
before the loop condition is tested; expirations of the interval timer are
read in bulk; four reasons to stop; netlink, the list of interfaces and `-I`
each leave a part of the device. *Correct means.* At most count probes, `-f`
counts one reply, `-D` accuses only other stations, `-w` ends; the device and
the source address are the right ones.

### tracepath (`tracepath.c`)

*State.* The TTL, the attempt, the path MTU, `his[HIS_ARRAY_SIZE]` with one
slot per port of the last probes, `hops_to`.
*Operations.* `main()` sweeps TTLs with up to three attempts each,
`probe_ttl()` sends, `recverr()` reads the error queue until it is empty.
*Hard.* Answers to earlier probes, duplicates, answers without the payload;
slots and ports are reused; the MTU changes underway and restarts the
attempts. *Correct means.* A hop is printed under its own TTL; the trace ends.

### clockdiff (`clockdiff.c`)

*State.* `seqno`, `acked`, `min1`, `min2`, `min_rtt`, the two results.
*Operations.* `measure()` sends up to `MSGS` probes; `measure_inner_loop()`
takes answers until a timeout. *Hard.* Times of day wrap at midnight, at
different moments on two hosts; late and repeated answers. *Correct means.*
The difference is right up to the asymmetry of the delays; only a silent host
is "down".

### The rest

MD5 (`ping/md5.c`), the texts (`pr_icmph()`, `pr_options()`, `usage()`),
`iputils_common.c`, the Python sources of the mechanisms, build files,
translations, documentation and tests. None of them is modelled: see section 7.

## 2. Modules

| module | stands for | extends |
|---|---|---|
| `EchoSession` | what ping's statistics promise | |
| `SeqWindow` | `in_flight()`, `acknowledge()`, `advance_ntransmitted()` | |
| `PingStats` | counters, `acked`, duplicate table | `SeqWindow`; implements `EchoSession` |
| `PingLoop` | `main_loop()`, `pinger()`, `schedule_exit()`, `finish()`, signals | `PingStats` |
| `PingTimes` | round trips, sums, the figures of the summary | |
| `PingPace`, `MCPingPace` | token bucket, pauses, adaptive interval | `PingTimes` |
| `NodeInfo` | the words of `-N`, nonces | |
| `PingStartup`, `MCPingStartup` | from the options to `main_loop()` | `NodeInfo` |
| `Coping`, `MCCoping` | pre-scan, gate, loader, `coping_add_context()` | |
| `PingJson` | the JSON buffers and the text beside them | |
| `Arping` | `event_loop()` and what it calls | |
| `ArpingStart` | `main()`, `guess_device()`, `check_device()` | `Arping` |
| `Tracepath` | `main()`'s sweep, `probe_ttl()`, `recverr()` | |
| `Clockdiff`, `MCClockdiff` | `measure()`, `measure_inner_loop()` | |
| `PingLoop_proofs` | theorems about `PingStats` and `PingLoop` | `PingLoop` |
| `PingPace_proofs`, `PingStartup_proofs`, `Coping_proofs`, `PingJson_proofs`, `ArpingStart_proofs`, `Tracepath_proofs`, `Clockdiff_proofs` | theorems | the module they name |

Every module names its variables and actions after the code. Variables marked
*history* exist for properties only, those marked *environment* or *kernel*
stand for what is outside the program. In every module an operator `X_Something`
next to `X` is a wrong variant of `X`; no specification uses it, and put in the
place of `X` it makes TLC find a named property violated. That is how each
property is known to depend on the code it is about.

### PingStats

One action is one completed call of `pinger()` or one message taken from the
socket. `wire` holds the probes that really left: any of them may be answered
any number of times, at any later moment, or never, which is loss, delay,
duplication and reordering at once. `SendProbe`, `SendDeferred`,
`SendDropped`, `SendRejected` and `SendAnsweredByError` are the outcomes of one
attempt to send that `pinger()` tells apart; `SendDeferred` clears the
duplicate bit of the next number as `send_probe()` does before it knows the
outcome. `Reply`, `CorruptReply`, `NetError`, `LocalError` and `ErrorPacket`
are the messages. `Family` and `Quiet` select the differences between the IPv4
and IPv6 handlers and the early return for `-q`. The width of the sequence
number is `SeqMod` (65536 in the program), so that wrap-around happens in a
small model and the theorems hold for any even size.

### PingLoop

`pc` is the place in `main_loop()`: `top` (the exit tests), `pinger`, `send`
(at `sendto()`), `wait`, `recv`, `done`. The signal handlers are actions of
their own that may come between any two steps. `credit` says whether the token
bucket would let a probe out now. Durations are kept where a comparison with
zero decides: `waittime`, `tmax`, `Interval`, `LingerTime`.

### PingPace and PingTimes

`PingPace` has the clock that `PingLoop` leaves out. Time is counted in units
of which `Frac` make a millisecond and `Frac * SecMs` a second, so that the
separate subtraction of seconds and nanoseconds and the truncating division of
`pinger()` can go wrong where they do in the code. `First`, `HoldFlood`,
`Limited` and `Grant` are the ways through the head of `pinger()`; `Sent`,
`Again`, `NoBuffers` and `HardError` the outcomes of `sendto()` with what each
does to the bucket; `Reply` is `gather_statistics()` with `update_interval()`.
`PingTimes` keeps the sums. A reply shows any difference of `Diffs`, negative
ones included (the time of day went back), and `llsqrt()` and both ways of
computing the variance are functions.

### PingStartup and NodeInfo

`cmd` is a command line, `target` the list of addresses that `getaddrinfo()`
returned; both are chosen in `Init`. `pc` goes from `limit` (capabilities) over
`options`, the sockets, and `address` (the loop over addresses) through
`ping4_run()` or `ping6_run()` and `setup()` to `main_loop`; `error` says why
ping ended instead. `Raise` and `Lower` are `modify_capability()`, whose results
nobody looks at; a kernel that refuses to lower a capability is remembered in
`kept`. A route that is `unreachable` makes ping go on to the next address.
`NodeInfo` adds the words of `-N` and the nonces: a nonce is the number it shows
and the number its digest was computed from, 0 for a forged one. In
`main_loop`, queries and answers to any query sent, late, repeated, forged or
short, come in any order.

### Coping

One word of the command line per step of `Scan`, the gate, one mechanism per
step of `Load`, the session as a choice of its exit status, then
`coping_add_context()`: each of its three loops over the mechanisms
(`PreContext`, `TransformPrompt`, `PostContext`) takes one mechanism per step,
and the actions between them are the parts of the function up to the next early
return. `held` is what is allocated: the handle, the headers, the response that
the write callback collects, and the text that `Extract` makes of it. `log` is the
order of hooks, request and output.

### PingJson

Buffers are sequences of tokens (braces, commas, and a key with its value).
`out` is all of standard output, from the banner of `main()` to the comment of
`coping_add_context()`: flushed objects and pieces of plain text, of which only
is kept whether they end their line. `Probe` has the outcomes of `pinger()` with the
text of `-O`, `Reply` is `gather_statistics()` with everything it prints past the
buffer, `LocalError`, `NetError` and `Notice` are the messages that are no replies.
`odd` remembers that some message was remarked on ("DUP!", "BAD CHECKSUM!",
"DIFFERENT ADDRESS!", a wrong data byte, IP options, or an IPv6 notice without a
newline).

### Arping and ArpingStart

`at` is the place in `main()`. Each interface has at most one flaw (down, no
ARP, no address, no broadcast address), netlink names a device, none, or fails,
and `ask` is what `-I` and `-s` say; `name`, `ifindex` and `ifa` are the three
parts of `ctl->device`. `Enter` calls `event_loop()`; there the options that
only the loop looks at are chosen among those `main()` accepts, and what is
known of the device is forgotten. `Poll` returns a set of ready descriptors,
`Turn` serves them in index order, `BatchDone` goes back to the loop condition.
The kernel's side (`Tick`, `Expire`, `Interrupt`) runs at any moment.

### Tracepath

`pc` goes through the loops of `main()` and `probe_ttl()`; `recverr()` takes
one queue entry per step. The network appends answers to any earlier probe, at
any time, in any order, with or without the payload.

### Clockdiff

Real time ticks; the local clock shows it modulo a day, the remote one with an
offset. Probes and answers are sets of packets on their way, so that they can
be lost, repeated and reordered; each direction takes at most `MaxDelay`. The
round-trip estimate of the code only sets the `ppoll()` timeout, which may
expire at any moment in the model. The bitwise test of the IP timestamps is
written out bit by bit (`Bit`, `WrongTimestamps`).

## 3. Runs

| run | distinct states | question |
|---|---|---|
| `PingStats_echo` | 442 760 | Do the counters implement `EchoSession`, is `in_flight()` sound, is every answer accounted for, before and after the sequence number wraps? |
| `PingLoop_count` | 35 732 | `-c`: no oversending, a limited wait, a clean end is complete, and the session ends. |
| `PingLoop_deadline` | 77 210 | `-c -w`, `-q`, IPv6: what the exit status means, and the deadline ends it. |
| `PingPace_sessions` | 2 894 700 | Rate, preload, pauses and the figures of the summary, with odd clocks and failing sends. |
| `PingStartup_paths` | 400 774 | Privileges, sockets, addresses, limits of users and nonces, over command lines, kernels and targets. |
| `Coping_paths` | 489 660 | Leaks, consent and order of hooks over every command line of four words. |
| `ArpingStart_run` | 601 362 | Device, source address, counts, verdicts and the end of the loop for all options. |
| `Tracepath_sweep` | 1 810 427 | Attribution of answers, the hop count, and the end of a trace. |
| `Clockdiff_measure` | 963 843 | The result across midnight, the minima, and "down". |
| `PingJson_parse` | 1 298 712 | Which objects parse, and which text gets in front of one. |
| `PingLoop_zerowait`, `PingStartup_firsthop` | | Disagreements, section 6. |

### Bounds and why they suffice

* `PingStats_echo`: `SeqMod` 6 and 7 probes: the first five probes are the
  session that `EchoSession` speaks of, the other two use numbers again, so
  that old answers pass for new ones and retried sends clear set bits
  (`MaxRefunds`); half the space is passed twice. One error, duplicate and
  damaged reply is enough for each handler to meet the results of each other
  one. The theorems of section 5 remove the bounds.
* `PingLoop_count`: 2 probes asked for, 3 possible (so that oversending could
  happen), 2 errors (so that errors alone can reach the count). Round trips of
  0 and 600 us: with `Interval` 1 ms one is below and the other above the
  floor of the grace period. `PingLoop_deadline` covers the other family, `-q`
  and the retried sends.
* `PingPace_sessions`: a millisecond of two units and a second of three
  milliseconds, so that every session passes several full seconds at either
  half of a millisecond. The sessions: intervals of 1, 2 and 4 ms with preloads
  of 3, 2 and 1 and time for the bucket to fill more than once, a flood (interval 0), the
  adaptive mode of a user, and one of four replies without time. The
  differences of a reply: a clock that went back, three close times, a long one
  and one beyond the limit; four replies with the long ones take the sum across
  `IntMax`, where the other order of computation is used.
* `PingStartup_paths`: four groups of command lines (sockets and routes, speed,
  sizes, `-N`), all their combinations of options within a group, and twelve
  targets of one to three addresses of both families with every kind of route. Two
  queries and three answers are what it takes to compute a digest for one
  number and use it for another.
* `Coping_paths`: `MaxMechs` 2 with up to four words (three `--mechanism=` and
  a host) overflows the table; two mechanisms with different hooks.
* `ArpingStart_run`: two interfaces, so that none, one or both are fit and the
  route may name the other one; counts of 1 and 2, three expirations, two
  replies: the count can be jumped over by a late read, and be reached by
  replies.
* `Tracepath_sweep`: a table of 3 slots, two hops, two answers; 9 advances of
  the port are as many as any trace of this size needs (three attempts for each
  of two TTLs and a restart by an MTU change), so that the bound never ends a
  trace. `TtlMod` is 3, so that two hops are the largest `-m` and the TTL wraps to
  0, as it does with 255 over IPv4. With one failed send allowed per probe both ways out of the send loop
  are taken.
* `Clockdiff_measure`: a day of 16 units; one measurement starts two units
  before midnight with a remote clock that is three ahead, another one uses IP
  timestamps with a clock that is two behind. Four units of time, three
  probes.
* `PingJson_parse`: all combinations of the eight options that matter. New
  messages come until there are four pieces of output, the banner included: three
  are enough for a text, an object after it, and one more of either kind.

A bound on a counter is a guard of the actions that raise it. `Ended` (`Exit`
in `ArpingStart`) lets a finished program stutter, so that deadlock checking
stays on in every run.

### What the properties say

*PingStats.* `EchoSpec` is refinement: `sent`, `answered` and `received` of
`EchoSession` are `ntransmitted`, the set bits and `nreceived`. The abstract
session promises something about the first `SeqMod - 1` probes only.
`AnswersAccounted` holds beyond: a bit is set only for a number in use, and the
numbers in use whose bit is clear still "owe" an answer. It implies
`ReceivedNeverExceedsSent`, which bounds `received` by `sent` plus the number of
retried sends that cleared a set bit; without that correction it is false
after wrap-around, because `send_probe()` clears the bit before the probe
leaves. `InFlightSound` relates `in_flight()`, `acked` and the table.

*PingLoop.* `NeverOversends`, `WaitIsTimed` (once the count is out the exit
timer runs or the exit flag is set), `CleanEndIsComplete` (an end without
errors and without a signal means that many different probes were answered),
`ExitStatusMeaning`, `ExitingEnds`, `SessionEnds`.

*PingPace, PingTimes.* `RateLimited` is the comment "Check that packets <
rate*time + preload" over whole sessions; because seconds are converted apart
from the rest it can be exceeded by less than a millisecond per full second,
and the property says by how much. `BurstBounded`: no burst beyond the preload,
however long nothing was sent. `SleepIsEnough`: the pause `pinger()` asks for
is long enough up to the millisecond that the conversion of the elapsed time may
lose, or the loop would spin. `SummarySound`:
moving average, mean and deviation fit between minimum and maximum.

*PingStartup, NodeInfo.* `PrivilegesDropped`: nothing is in effect between the
brackets, unless the kernel refused to take it back, and nothing is permitted in
the main loop. `RunsAsAsked`: the main loop runs on a socket of the right family
and type, with a source address and with all words of `-N`; the assertion at
`ping.c:802` never fails. `UserLimits`: the limits of a user hold for the final
interval. `NonceSound`: every answer is judged by the digest of its own number.

*Coping.* `NothingHeldAtEnd` (handle, headers, response and extracted text),
`RequestNeedsConsent`, `HooksOrdered`.
*PingJson.* `ObjectsParse` is about the objects, `ObjectsHaveLines` about the text beside them. Text does appear in every run, the
banner and the comment at least (section 6); the property says that it keeps to its
own lines unless `-f`, `-D`, `-a`, `-N`, `-R` or `-T` or a remarked message puts it in
front of an object.

*Arping, ArpingStart.* `WithinLimits`: no probe beyond `-c`, no reply counted
after the one that ends the run. `Verdicts`: the status of `-D` and of `-w -c` is
that of the replies counted. `DeadlineEnds`, `CountEnds`. `RightDevice`: the
index used is that of `-I`, of the route or of the only fit interface, with its
name. `RightSource`: the source address the manual names for the mode, and which
ends have status 0.

*Tracepath.* `HopsAttributed` (each hop under its own TTL, once),
`NeverTooNear`, `TraceEnds`. *Clockdiff.* `DeltaIsOffset`, `OneWayMinima`,
`DownMeansSilent`.

Every component has one type invariant, which is checked, proved or both:
`StatTypeOK`, `LoopTypeOK`, `PaceTypeOK` (with `TimesTypeOK`), `StartupTypeOK`
(with `NodeTypeOK`), `CopingTypeOK`, `ArpTypeOK`, `TraceTypeOK`, and in the
proof modules `ClockTypes` and the first conjuncts of `JsonInv`.

## 4. Fairness

* `PingLoop`: the process is scheduled (weak fairness of its steps), timers
  expire, time refills the token bucket, and the socket is found empty again
  and again (`RecvNothing`; `recvmsg()` has `SO_RCVTIMEO` or `MSG_DONTWAIT`).
  Strong fairness of `SendDone` says that `sendto()` does not answer EAGAIN or
  ENOBUFS for ever. Nothing is assumed of replies, of the user, or of which
  outcome `sendto()` has instead.
* `Arping`: the loop is scheduled, timers expire, and a timerfd that is
  readable is in the end read (`SF` of `Timer`; a short read is otherwise
  allowed any number of times). Nothing is assumed of packets. `ArpingStart`
  adds no fairness: its two liveness properties start in the loop.
* `Tracepath`: the process is scheduled; `data_wait()` returns within a
  second. Nothing is assumed of the network. An assumption of the model, not of
  fairness: an MTU that is reported is smaller than the size of the probe it is
  about, as the kernel reports it; otherwise a sequence of changing MTUs would
  restart the attempts for ever.

The other specifications have safety properties only and no fairness.

## 5. Theorems

All are checked by TLAPS from the assumptions that the modules name, for every
value of the constants, the bounds included. Most assumptions give a constant
its type. Those that say more are: an even `SeqMod` of at least 4
(`SeqModAssumption`), families 4 or 6 and at least one address
(`StartupAssumption`), no more history slots than ports (`TracepathAssumption`;
64 and 65536 in the code), an even length of the day and an offset that is,
with the delays, at most half a day (`ClockAssumption`; beyond that the
difference of two times of day has no meaning).

In each module the first invariant holds the types and the bounds of cursors,
and the later ones are proved inductive relative to it.

### ping's bookkeeping and loop

* `StatTypeCorrect`: `StatSpec => []StatTypeOK`.
* `AnswersAreAccounted`, `ReceivedBounded`: the counting argument. A bit is set
  only for a number in use, and `nreceived + Cardinality(Owing) <=
  ntransmitted + refunds`. A reply moves a number from *owing* to *received*.
  A probe adds at most one owing number and one transmission. A retried send
  clears at most one bit and is then counted in `refunds`.
  `ReceivedNeverExceedsSent` alone is not inductive, because it does not know
  how many replies can still be counted: that is the number of owing ones.
* `InFlightIsSound`: while at most half the space is used; strengthened by
  where `acked` comes from (a probe that left) and by every answered number
  being at most `acked`.
* `StatsImplementEchoSession`: as long as numbers are not used again, each step
  maps to a `Transmit`, an `Answer` or a stutter, because the number of the next
  probe then has a clear bit, so that clearing it changes nothing.
* `LoopImplementsStats`: every step of `PingLoop`, with all its signals and
  timers, is a step of `PingStats` or leaves it alone. `LoopReceivedBounded`
  follows by it, and so does the part of `LoopTypes` that is `PingStats`'s.
* `CountIsKept`: `[]NeverOversends` (with `-w` the count is not a limit, and
  the property says nothing), for any interval and grace period.
  Inductive with one more fact (`SentInv`): `pinger()` is at `sendto()` only
  while the count is not reached, and nothing but a completed send changes the
  counter.
* `CountsAreExact`: until the sequence number wraps, `rcvd` is a subset of `wire`
  and `nreceived = Cardinality(rcvd)`: an answer is counted exactly when its bit
  changes, and no attempt to send clears a set bit, because the next number is
  new.
* `EndIsFinal`: `main_loop()` is left from its head only and nothing changes
  afterwards, so that the exit code is still what `finish()` makes of the
  counters, and the reason for leaving still stands (`LeftInv`).
* `ExitIsHonest` and `CleanEndsAreComplete` combine the last two, carried over by
  the refinement: `[](ntransmitted < SeqMod => ExitStatusMeaning)`, and the same
  for `CleanEndIsComplete`. The condition is needed: later a number stands for
  several probes, and `Answered` no longer tells which of them was answered. The
  runs stay below it.
* `WaitAlwaysTimed`, under `Interval > 0` and `LingerTime > 0`: `[]WaitIsTimed`.
  `TimedInv` adds that `sendto()` is reached only while the count is not, and
  that a nonzero `waittime` means that the timer runs or has set the flag. The
  assumptions are needed: `PingLoop_zerowait` is the counterexample with
  interval 0.
* `ExitingIsLastRound`: once `exiting` is set nothing takes it back, and each step
  brings the loop nearer to its end (`Distance`), unless it takes a message,
  repeats a send for an error of someone else's, is a signal or lets time pass.
  At most the probe that is at `sendto()` already is still sent. This is
  `ExitingEnds` up to fairness.

### ping's pace and times

* `PaceTypes`, `PaceTypeCorrect`. `PaceInv` says besides the types that with a
  fixed interval the bucket holds at most `Room`, what the preload pays for, and
  that a probe at `sendto()` has taken its token out, so that EAGAIN may give it
  back.
* `RateIsLimited` follows from `TokensArePaid`: what the probes so far cost and
  what is left in the bucket together never exceed the preload and `Paid`, the
  time elapsed with up to a millisecond for each full second (`TokenRate`).
  A probe moves one interval from the bucket to the cost; EAGAIN moves it back;
  other errors drop it. The conversion of seconds apart from the rest is in
  `ElapsedBounds`. For a flood that hears nothing `FloodIsPaid` is the same with
  the minimal gap.
* `BurstsAreBounded` follows from `BurstsArePaid`: the cost of the burst and what
  the bucket would give at this moment are at most one token more than it holds
  (`BurstInv`).
* `SleepsAreEnough`: at each place that asks for a pause, it lasts until a probe
  is paid for, up to the millisecond that the conversion of the elapsed time may
  lose (`PauseElapses`).
* `SumsAreSound`, `MeansAreSound`. From one reply to the next the sums keep
  `tsum2 <= (tmin + tmax) * tsum - n * tmin * tmax` and
  `0 <= n * tsum2 - tsum * tsum` (`SumsInv`; the second needs that the squared
  distances from any number add up to at least 0). Hence mean and moving average
  lie between the extremes, and the variance between 0 and a quarter of the
  squared spread (`VarianceBounds`); where the sum passes `IntMax`, and the code
  rounds before it squares, the bound is wider by 8 means (`RoundedBounds`).
* `SquareRoot`: for every number, `llsqrt()` ends, and returns the root rounded
  down, or one more where the number is one below a square. The loop is a recursive function and what it computes is an induction over
  data; in place of the library's induction theorems, which take an operator as
  a parameter, the proof takes the least counterexample, which
  `NatLessThanWellFounded` provides (`LeastNumber`). An estimate above the root
  gets smaller and does not fall below it (`BetterBounds`); hence the loop
  stops, with an estimate made of the root itself (`LoopEnds`).
* `SummaryIsSound`: `[]SummarySound`, from the last two. The root of a quarter of
  a square is half of it (`HalfSpread`).

### ping's start

* `PrivilegesAreDropped`. `CapInv` says for each place which capability may be
  in effect there (`MayHold`), unless an attempt to lower one failed. The
  lemmas `RaiseHolds` and `LowerHolds` are the two halves of a bracket.
* `UsersAreLimited`, under `MinUser > 0`. The test for groups comes before `-f`
  changes the interval; `UserInv` records what it established, and what `-f`
  makes of the interval is 0 and fails the second test.
* `NoncesAreSound`. `NonceInv`: number and digest in the statics of
  `niquery_nonce()` agree once there is one, and the receive buffer, which a
  short answer is judged by, holds nothing that could not have been received.
* `SessionIsAsAsked`. Three invariants: `WordsInv` about `-N` (a subject is set
  when a word asked for one, so that `ping6_run()` does not put its own there),
  `AddressInv` (the address tried is one of the list, and there is a first hop
  behind the head of `ping6_run()`), and `HostInv` (which sockets exist at
  which place; a family that is left open has both).

* `StartupTypeCorrect`: the parts of `StartupTypeOK` that are not among these
  invariants, kept in four groups by the variables they are about (`RestTypes`).

### coping

* `CopingTypeCorrect`: `CursorInv` says how far each loop has come; `AddName`
  stops at `MaxMechs`, and the loader loads no more than the names.
* `NothingLeaks`: handle and headers are held at `perform` only, a response only
  between `perform` and the end, the extracted text only after `Extract` (`HeldInv`).
* `ConsentIsNeeded`: `ConsentInv` names the places that are reached only with a
  key or `--no-context`, and those reached only without `--no-context`.
* `HooksAreOrdered`: `OrderInv` (the log is sorted by phase and mechanism, and
  what it holds belongs to a place that was passed) and `RanInv` (the hooks run
  so far are those of the mechanisms below the cursor).

### ping's JSON

* `JsonInv`: the tokens of an open object alternate between members and commas
  (`Laid`), and it may be closed if its length is even (`Closable`). At `flood`
  the statistics end in a comma exactly when "pipe" is their last member.
* `EveryObjectParses`: what was flushed was closable.
* `LinesAreKept`: as long as nothing in the options and no message calls for it, no
  piece of output leaves its line open (`Partless`), whichever handler printed it.

### arping

One inductive invariant carries `main()` and the loop together: `StartInv ==
LoopInv /\ MainInv`; further conjuncts are added on top of it.

* `LoopInv`: a probe uses up an expiration and none is sent once the count is
  spent; a reply that ends the run is the last thing its batch serves, because
  the socket is the last descriptor, and then `exit_loop` keeps `poll()` from
  reporting another one. This last part is what makes `WithinLimits` inductive.
* `MainInv`: what is known of the device at each place of `main()`.
* `EndInv`: what `-w` and `-c` wait for, the status and the summary.
* `SourceInv`: what is known of the source address at each place.
* `StopIsLastBatch`: once `exit_loop` is set, `poll()` is not called again and the
  descriptors at hand are served one by one; one more probe is sent at most, if
  the timer is among them. It needs `StopInv`, that nothing sets the flag before
  the loop. This is what `DeadlineEnds` and `CountEnds` rest on once the
  deadline or the count has set it.
* The other theorems: `LimitsHold`, `VerdictsAreRight`, `DeviceIsRight`,
  `SourceIsRight`, `SummaryIsConsistent`, `ArpingTypes`.

### tracepath

* `TraceTypeCorrect`: `TypeInv` adds that `probe_ttl()` and `main()` have a turn
  left while a probe is under way.
* `HopsAreAttributed`: `NetInv` says of a probe that left less than `HisSize`
  advances ago that its port is that of its slot and that the slot holds its
  TTL or nothing any more; `QueueInv` that every answer belongs to such a probe;
  `NumberedInv` that the slot of a probe numbered from the table is empty. Ports
  wrap, so that slots and ports have to be compared modulo both
  (`SlotOfPort` and the lemmas before it); `HisSize <= PortMod` is
  what makes the slot of a port unique.
* `ReachedIsHonest`, from `SweepAdvances` (no probe has a TTL above the sweep's),
  under the hypothesis `Ends`: the limit is below the largest TTL, or the
  family is IPv4. It excludes only `-m 255` over IPv6, where `ttl` wraps and the
  sweep starts again (section 6).
* `EveryStepDescends`, under `Ends`: every step, of tracepath or of the network,
  lowers `Variant` in a lexicographic order that is well-founded
  (`OrderWellFounded`). This is `TraceEnds` up to fairness, and `Variant` says
  what the end of a trace rests on: answers that the network may still give,
  errors to be read, the mtu, whether it changed during this probe, hops,
  attempts per hop, news in this `recverr()`, sends per attempt, the place
  within one. The order of the parts matters. A message may bring the
  attempts back, but it uses up an error first; a changed mtu brings them back
  too, but the mtu is lower then. A send that fails may add an error to the
  queue, so that the errors are counted with that one in advance (`Backlog`,
  `Lowers`). `ZeroEnds`: over IPv4 nothing is sent with a TTL of 0, which is how
  the sweep ends when `ttl` has wrapped.

### clockdiff

* `ClockTypesCorrect`, `SilenceIsMeant`: `ClockTypes` says that packets carry
  numbers that were sent and are at most `MaxDelay` old, and that nothing later
  than `acked` was heard.
* `DistanceIsExact`: two times of day that are less than half a day apart have
  the difference of the two moments, whichever of them is past midnight.
* `MinimaAreSound`: each minimum is the offset and a delay, together they do not
  exceed the smallest round trip, and their half difference is near the offset
  (`MinimaInv`). `MinimaBelong` and `DifferenceIsRight` follow.

### Only model-checked

Every invariant of the runs is a theorem, under the conditions named above. What
remains is liveness: `ExitingEnds`, `SessionEnds`, `DeadlineEnds`, `CountEnds`
and `TraceEnds`. `ExitingIsLastRound`, `StopIsLastBatch` and `EveryStepDescends`
prove that nothing starts again without end; that steps are taken at all is
fairness, which speaks of ENABLED and is beyond the prover. `SessionEnds`, for
which a signal need not arrive, is checked by TLC alone.

`EveryAddressTried`, and `WaitIsTimed` with interval 0, do not hold (section 6).

## 6. Disagreements between code and text

Shown by a run:

* `PingLoop_zerowait`: with interval 0, packets too small for a timestamp and a
  reply received, the grace period is `max(2 * tmax, 1000 * interval) = 0`,
  `setitimer()` disarms the timer, and if the last reply is lost ping waits
  for ever. `ping.xml:757-760` promises two round trips.
* `PingStartup_firsthop`: `ping6_run()` returns a negative value for an
  unreachable address, to "go on to next addrinfo result"
  (`ping6_common.c:106`). The next call finds `rts->firsthop` filled in
  (line 144) and connects the probing socket to the first address again: ping
  gives up without trying the second one.

Further ones met while reading, part of the models but without a run:

* The comment in `advance_ntransmitted()` (`ping/ping.h:390`) says that `acked`
  is invalidated. It is set to the number of the *next* probe; one probe later
  the distance is zero and `in_flight()` answers that nothing is outstanding,
  although nothing was ever answered. `InFlightSound` ends at half the space.
* With `pipesize` above 1 and without `-f`, `-A` or `-i 0` the statistics object
  ends in `, }`; `test/ping/test_json.py:34` parses every line. The condition
  `PipeLast` of `ObjectsParse` names just that case.
* `-c` counts errors: one probe may bring several, and a session then ends by
  itself before it has sent count probes (`ping_common.c:612`, `ping.xml:201`).
* The rate that `pinger()` keeps can exceed "rate*time + preload" by less than
  a millisecond per second (`RateLimited`).
* Under `-A` a user's interval for a group can fall below one second: the test
  comes before the adaptation.
* A reply too short for a stamp is counted in the total by which the sum of
  the times is divided: the mean may be below the minimum.
* After an address that is unreachable, the last of another family ends ping with
  the message about the address family.
* `disable_capability_raw()` that fails leaves the capability in effect until
  `drop_capabilities()`; only a message tells.
* `-N` over IPv4, or with a subject but no query word, is silently ignored.
* An answer to a node information query that is too short for a nonce is judged
  by the nonce that an earlier packet left in the receive buffer.
* A mechanism that cannot be loaded ends coping with status 1
  (`coping_ai.c:222`), which `ping.xml:819` reserves for missing replies, after
  the load hooks of earlier mechanisms have run.
* Mechanisms shipped in `/usr/lib/coping/mechanisms` (`src/README.md:102`) are
  never found: `load_mechanisms()` looks into `./mechanisms` and
  `~/.coping/mechanisms` only.
* With `-j` the banner still goes to standard output (`ping.c:396`), and so do the
  comment (`coping_ai.c:289`), "no answer yet" of `-O` (`ping_common.c:356`), ICMP
  errors, and "(DUP!)", "(BAD CHECKSUM!)", "(DIFFERENT ADDRESS!)" and "wrong data
  byte" (`ping_common.c:885-905`), while `test/ping/test_json.py:34` parses every line.
  The last four have no newline of their own and stand in front of the object on its
  line; `ObjectsHaveLines` excludes them by `odd`.
* arping `-w -c`: the interval timer ends the run after count expirations,
  although `arping.xml:101-105` says that arping then waits for count replies
  or the deadline (`arping.c:828`).
* arping `-c` after a delay: several expirations are read at once and only one
  probe is sent for them, so that fewer than count probes go out
  (`arping.c:827`).
* arping's `guess_device()`: a device that the route names is used without a
  broadcast address of its own, while the same device given by `-I` is refused;
  and if the route names none, two fit interfaces are refused although the
  comment of `check_device()` speaks of the first appropriate one
  (`arping.c:616`). Line 620 says that the index "remains 0" if none is found; it
  is then what netlink set before.
* arping `-D` exits with 0, "no duplicate", without having sent a probe when
  there is no ARP on the device or no device was found.
* tracepath never looks up the last slot of its table (`tracepath.c:190`):
  answers without payload to one port in 64 are not recognised.
* tracepath `-m 255` over IPv6: `ttl` is a `uint8_t` and the sweep starts again
  after 255 (`tracepath.c:575`).
* clockdiff declares a host down after `TRIALS + 1` unanswered probes, its
  comment says `TRIALS` (`clockdiff.c:393-397`).
* clockdiff `-o` combines timestamps with `&` (`clockdiff.c:271`) and refuses
  genuine ones that have no bit in common.

## 7. Abstractions, and what is not modelled

* Payloads, addresses and texts are left out, except where a filter decides on
  them (arping's addresses, tracepath's payload, the JSON tokens).
* In `PingLoop` the token bucket is one Boolean and round trips come from a set;
  `PingPace` has the bucket in full, but takes `in_flight()` for a number that a
  reply lowers to any value below.
* `sigexit()`'s `longjmp()` out of a name lookup is not modelled; to the loop it
  is a signal like any other.
* `PingTimes` has exact sums where the code has doubles.
* `PingStartup` leaves out intermediate hops, socket options whose failure only
  ends ping, the `INT_MAX` check of the interval, and the second binding of the
  IPv6 socket for `-B -I`. A digest stands for the number it was computed from.
  `NodeInfo` models the build without `PING6_NONCE_MEMORY`, and neither the
  encoding of names nor the printing of answers.
* `ArpingStart` gives an interface one flaw at most, the first that
  `check_device()` asks for.
* tracepath's return-path guess and name lookups only print. clockdiff's
  four-stamp option is left out.
* `Clockdiff` keeps remote and local clocks at the same rate.
* Not modelled at all: MD5 (a published algorithm over bytes without state that
  outlives a digest), the texts, the stateless helpers of `iputils_common.c`, the
  mechanisms' own texts, build files and translations.

## 8. Hazards

`PROJECT.json` lists, with their lines, the places where the code is hard to
test, and for each the property that would catch it. Two have none and carry
a note: the `longjmp()` out of a lookup, and the bitwise test of clockdiff.

## 9. Plan

Done in this order: bookkeeping of ping (most consequential, and shared by all
options), its main loop, coping's own code, arping, tracepath, clockdiff and the
JSON output; then the token bucket with the round-trip figures, the start-up of
ping with node information queries, and the start of arping with the proofs
about all of it. Next:

1. Replace `credit` of `PingLoop` by the bucket of `PingPace`, and show that
   `PingPace`'s `in_flight()` is that of `SeqWindow`.
2. One specification for ping and coping together: `Coping`'s session step
   refined by `PingLoop`.
3. The four-stamp option and `main()` of clockdiff; options and return path of
   tracepath.
4. Proofs: that the bucket of `PingPace` implements the Boolean of `PingLoop`;
   the abstract specifications of the other components (what arping's verdict, a
   trace and a measurement promise) as refinements, step by step.
