----------------------------- MODULE PingStats -----------------------------
(***************************************************************************)
(* The bookkeeping of a ping session (struct ping_rts): which probes were  *)
(* sent, which were answered, and what is still in flight, under a network *)
(* that loses, delays, reorders, duplicates and corrupts replies and       *)
(* reports errors, and a kernel whose sendto() may fail in every way       *)
(* pinger() distinguishes.                                                 *)
(*                                                                         *)
(* One action stands for one completed call of pinger() or one message     *)
(* taken from the socket.  The control flow around them is in PingLoop.    *)
(*                                                                         *)
(* `wire' is the environment: the numbers of the probes that really left   *)
(* the host.  Any of them may be answered, any number of times and at any  *)
(* later moment, or never: that is loss, duplication, delay and reordering *)
(* at once.                                                                *)
(***************************************************************************)
EXTENDS SeqWindow, FiniteSets

CONSTANTS
    Family,         \* 4 or 6: ping4_* or ping6_* function set
    Quiet,          \* opt_quiet (-q)
    MaxProbes,      \* bound on ntransmitted
    MaxErrors,      \* bound on nerrors
    MaxRepeats,     \* bound on nrepeats
    MaxBad,         \* bound on nchecksum
    MaxRefunds      \* bound on refunds

ASSUME StatsAssumption ==
    /\ Family \in {4, 6}
    /\ Quiet \in BOOLEAN
    /\ MaxProbes \in Nat /\ MaxErrors \in Nat /\ MaxRepeats \in Nat
    /\ MaxBad \in Nat /\ MaxRefunds \in Nat

VARIABLES
    ntransmitted,   \* probes accounted for as sent
    nreceived,      \* replies counted
    nrepeats,       \* duplicates
    nchecksum,      \* replies with a bad checksum
    nerrors,        \* errors
    acked,          \* uint16_t: newest acknowledged sequence number
    pipesize,       \* largest number of probes seen in flight, -1 if none
    rcvd,           \* rcvd_tbl: sequence numbers whose bit is set
    wire,           \* environment: probes that left the host
    refunds         \* history: retried sends that cleared a set bit of rcvd

statVars == <<ntransmitted, nreceived, nrepeats, nchecksum, nerrors,
              acked, pipesize, rcvd, wire, refunds>>

StatInit ==
    /\ ntransmitted = 0 /\ nreceived = 0 /\ nrepeats = 0
    /\ nchecksum = 0 /\ nerrors = 0
    /\ acked = 0
    /\ pipesize = -1
    /\ rcvd = {}
    /\ wire = {}
    /\ refunds = 0

in_flight == InFlight(ntransmitted, acked, nreceived, nerrors)

\* Wrong variant: the bit of the previous probe is cleared.
NextSeq_OffByOne == U16(ntransmitted)

\* The sequence number that send_probe() puts into the packet, and whose bit
\* it clears on every attempt, before it knows whether sendto() works.
NextSeq == U16(ntransmitted + 1)
---------------------------------------------------------------------------
(***************************************************************************)
(* pinger()                                                                *)
(***************************************************************************)

\* send_probe() cleared the bit and advance_ntransmitted() followed; `ack'
\* is the value of acked just before it.
Advance(ack) ==
    /\ ntransmitted < MaxProbes
    /\ ntransmitted' = ntransmitted + 1
    /\ rcvd' = rcvd \ {NextSeq}
    /\ acked' = AdvanceAcked(ntransmitted + 1, ack)

\* sendto() took the packet.
SendProbe ==
    /\ Advance(acked)
    /\ wire' = wire \cup {ntransmitted + 1}
    /\ UNCHANGED <<nreceived, nrepeats, nchecksum, nerrors, pipesize, refunds>>

\* The attempt failed and the same number will be tried again: ENOBUFS or
\* ENOMEM with oom_count below its limit, EAGAIN, or the resend after an
\* error queue entry that was not ours or after the MSG_CONFIRM fallback.
SendDeferred ==
    /\ NextSeq \in rcvd => refunds < MaxRefunds
    /\ rcvd' = rcvd \ {NextSeq}
    /\ refunds' = IF NextSeq \in rcvd THEN refunds + 1 ELSE refunds
    /\ UNCHANGED <<ntransmitted, nreceived, nrepeats, nchecksum, nerrors,
                   acked, pipesize, wire>>

\* Hard local error that no counter but ntransmitted records: the device
\* stayed out of buffers, or the error queue had nothing to say (or had a
\* local error and -q was given).
SendDropped ==
    /\ Advance(acked)
    /\ UNCHANGED <<nreceived, nrepeats, nchecksum, nerrors, pipesize, wire, refunds>>

\* Hard local error that is counted: EMSGSIZE, or a local error found in the
\* error queue without -q.
SendRejected ==
    /\ nerrors < MaxErrors
    /\ Advance(acked)
    /\ nerrors' = nerrors + 1
    /\ UNCHANGED <<nreceived, nrepeats, nchecksum, pipesize, wire, refunds>>

\* sendto() failed and the error queue held an ICMP error about probe n,
\* possibly this very probe, which then did leave the host.  ping4
\* acknowledges n, ping6 does not.
SendAnsweredByError(n) ==
    LET seq == U16(n) IN
    /\ nerrors < MaxErrors
    /\ n \in wire \cup {ntransmitted + 1}
    /\ nerrors' = nerrors + 1
    /\ Advance(IF Family = 4 THEN AckAcked(ntransmitted, acked, seq) ELSE acked)
    /\ pipesize' = IF Family = 4 THEN AckPipesize(ntransmitted, pipesize, seq)
                                 ELSE pipesize
    /\ wire' = wire \cup {n}
    /\ UNCHANGED <<nreceived, nrepeats, nchecksum, refunds>>
---------------------------------------------------------------------------
(***************************************************************************)
(* Messages taken from the socket                                          *)
(***************************************************************************)

Acknowledge(seq) ==
    /\ acked' = AckAcked(ntransmitted, acked, seq)
    /\ pipesize' = AckPipesize(ntransmitted, pipesize, seq)

\* Wrong variant: a duplicate is counted as received as well.
Reply_CountsRepeats(n) ==
    LET seq == U16(n) IN
    /\ n \in wire
    /\ Acknowledge(seq)
    /\ nreceived < 2 * MaxProbes
    /\ nreceived' = nreceived + 1
    /\ rcvd' = rcvd \cup {seq}
    /\ UNCHANGED <<ntransmitted, nrepeats, nchecksum, nerrors, wire, refunds>>

\* parse_reply() and gather_statistics() for an intact reply to probe n.
Reply(n) ==
    LET seq == U16(n) IN
    /\ n \in wire
    /\ Acknowledge(seq)
    /\ \/ /\ seq \in rcvd
          /\ nrepeats < MaxRepeats
          /\ nrepeats' = nrepeats + 1
          /\ UNCHANGED <<nreceived, rcvd>>
       \/ /\ seq \notin rcvd
          /\ nreceived' = nreceived + 1
          /\ rcvd' = rcvd \cup {seq}
          /\ UNCHANGED nrepeats
    /\ UNCHANGED <<ntransmitted, nchecksum, nerrors, wire, refunds>>

\* A reply whose ICMP checksum is wrong is counted and otherwise ignored
\* (ping6 leaves the checksum to the kernel and passes csfailed = 0).
CorruptReply ==
    /\ Family = 4
    /\ wire # {}
    /\ nchecksum < MaxBad
    /\ nchecksum' = nchecksum + 1
    /\ UNCHANGED <<ntransmitted, nreceived, nrepeats, nerrors, acked, pipesize,
                   rcvd, wire, refunds>>

\* receive_error_msg() finds an ICMP error about probe n.
NetError(n) ==
    /\ n \in wire
    /\ nerrors < MaxErrors
    /\ nerrors' = nerrors + 1
    /\ IF Family = 4 THEN Acknowledge(U16(n)) ELSE UNCHANGED <<acked, pipesize>>
    /\ UNCHANGED <<ntransmitted, nreceived, nrepeats, nchecksum, rcvd, wire, refunds>>

\* receive_error_msg() finds a local error; -q returns before counting it.
LocalError ==
    /\ ~Quiet
    /\ nerrors < MaxErrors
    /\ nerrors' = nerrors + 1
    /\ UNCHANGED <<ntransmitted, nreceived, nrepeats, nchecksum, acked, pipesize,
                   rcvd, wire, refunds>>

\* parse_reply() gets an ICMP error message itself, as a raw socket may: the
\* probe is acknowledged and no counter changes.
ErrorPacket(n) ==
    /\ n \in wire
    /\ Acknowledge(U16(n))
    /\ UNCHANGED <<ntransmitted, nreceived, nrepeats, nchecksum, nerrors, rcvd,
                   wire, refunds>>
---------------------------------------------------------------------------
Sending ==
    \/ SendProbe
    \/ SendDeferred
    \/ SendDropped
    \/ SendRejected
    \/ \E n \in wire \cup {ntransmitted + 1} : SendAnsweredByError(n)

Receiving ==
    \/ \E n \in wire : Reply(n) \/ NetError(n) \/ ErrorPacket(n)
    \/ CorruptReply
    \/ LocalError

StatNext == Sending \/ Receiving

StatSpec == StatInit /\ [][StatNext]_statVars
---------------------------------------------------------------------------
(***************************************************************************)
(* Properties                                                              *)
(***************************************************************************)

\* Types of the session's counters and tables: acked is 16 bits wide, the
\* table has one bit per sequence number.
StatTypeOK ==
    /\ ntransmitted \in 0 .. MaxProbes
    /\ nreceived \in Nat
    /\ nrepeats \in 0 .. MaxRepeats
    /\ nchecksum \in 0 .. MaxBad
    /\ nerrors \in 0 .. MaxErrors
    /\ acked \in Slots
    /\ pipesize \in -1 .. HalfMax + 1
    /\ rcvd \subseteq Slots
    /\ wire \subseteq 1 .. ntransmitted
    /\ refunds \in 0 .. MaxRefunds

\* The summary never claims more answers than probes, wrap-around of the
\* 16-bit sequence number included, except for one extra answer per retried
\* send that cleared the bit of an already answered number: send_probe()
\* clears the bit before it knows that the probe leaves.
ReceivedNeverExceedsSent == nreceived <= ntransmitted + refunds

\* The sequence numbers used so far and, of those, the unanswered ones.
SentSlots == {U16(n) : n \in 1 .. ntransmitted}
Owing     == SentSlots \ rcvd

\* ReceivedNeverExceedsSent as the handlers maintain it: a bit is set only
\* for a number in use, and every number in use whose bit is clear is a
\* probe that is not counted as received.
AnswersAccounted ==
    /\ rcvd \subseteq SentSlots
    /\ nreceived + Cardinality(Owing) <= ntransmitted + refunds

\* Until the sequence number wraps, the counters are exactly those of an echo
\* session: gather_statistics() credits each probe at most once, duplicates,
\* late and reordered replies and repeated sends notwithstanding.
Echo == INSTANCE EchoSession WITH Numbers <- SeqMod, sent <- ntransmitted,
                                  answered <- rcvd, received <- nreceived
EchoSpec == Echo!Spec

\* While fewer than half the sequence space is used, in_flight() is the
\* distance to a probe that did leave the host, and no answered probe is
\* newer: whatever is still unanswered behind it, in_flight() = 0 means that
\* the newest probe itself was heard of.
InFlightSound ==
    ntransmitted <= HalfMax =>
        /\ acked \in wire \cup {0}
        /\ in_flight = ntransmitted - acked
        /\ \A s \in rcvd : s <= acked
=============================================================================
