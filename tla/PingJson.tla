------------------------------ MODULE PingJson ------------------------------
(***************************************************************************)
(* JSON output of ping (-j): the two buffers of ping_json.c, the calls     *)
(* that pinger(), gather_statistics(), ping_error() and ping_print_finish() *)
(* make, and the text that the same code prints past the buffers, from the *)
(* banner to the comment of coping_add_context().                          *)
(*                                                                         *)
(* A buffer is a sequence of tokens: "open" and "close" for the braces,    *)
(* "kv" for a key with its value, "comma".  A piece of standard output is  *)
(* such a sequence, flushed with its newline, or text printed directly:    *)
(* <<"line">> when it ends in a newline, <<"part">> when it does not, so   *)
(* that what follows stands on the same line.  Buffer sizes are left out:  *)
(* no message comes near PING_JSON_MAX.                                    *)
(***************************************************************************)
EXTENDS Integers, Sequences, FiniteSets

CONSTANT MaxPieces          \* bound on the pieces of output

ASSUME JsonAssumption == MaxPieces \in Nat

Options == [quiet : BOOLEAN,        \* -q
            flood : BOOLEAN,        \* -f, which prints dots and ipg/ewma
            paced : BOOLEAN,        \* -A or -i 0: ipg/ewma without dots
            timestamp : BOOLEAN,    \* -D
            outstanding : BOOLEAN,  \* -O
            noisy : BOOLEAN,        \* -a, -N, -R or -T: replies come with text
            group : BOOLEAN,        \* a multicast destination, without -v
            timing : BOOLEAN]       \* the packets hold a time

VARIABLES
    opt,
    json_packet, json_stats,        \* the buffers
    out,                            \* standard output
    ntransmitted,                   \* 0, 1, 2 = more
    nreceived,                      \* some reply was counted
    piped,                          \* pipesize > 1
    odd,                            \* history: a message that is remarked on
    pc                              \* "loop", "finish", "flood", "flush",
                                    \* "comment", "done"

vars == <<opt, json_packet, json_stats, out, ntransmitted, nreceived, piped, odd, pc>>

Line(b) == IF b THEN <<<<"line">>>> ELSE <<>>
Part(b) == IF b THEN <<<<"part">>>> ELSE <<>>

\* The banner is printed before the options are read.  What coping_init() and
\* -p print before the loop ends in a newline, too, and is taken with it.
Init ==
    /\ opt \in Options
    /\ json_packet = <<>> /\ json_stats = <<>>
    /\ out = Line(TRUE)
    /\ ntransmitted = 0 /\ nreceived = FALSE /\ piped = FALSE /\ odd = FALSE
    /\ pc = "loop"
---------------------------------------------------------------------------
(***************************************************************************)
(* The buffers                                                             *)
(***************************************************************************)
json_continue(buf) == Append(buf, "comma")
json_kv(buf) == Append(buf, "kv")
json_kv_continue(buf) == json_continue(json_kv(buf))

construct_json(buf) ==
    json_kv(IF buf = <<>> THEN <<"open">> ELSE json_continue(buf))

\* What is told of a reply: bytes, host and seq, and one key more for some.
Keys(buf, more) ==
    LET told == construct_json(construct_json(construct_json(buf)))
    IN  IF more THEN construct_json(told) ELSE told

\* print_json_packet(): only a buffer that holds something is printed.
Flushed(buf) == IF buf = <<>> THEN <<>> ELSE <<Append(buf, "close")>>

\* Text only.
Say(text) == out' = out \o text /\ UNCHANGED json_packet

\* ping_error(): an object of its own.
ping_error(text) ==
    /\ out' = out \o text \o Flushed(construct_json(json_packet))
    /\ json_packet' = <<>>

\* A local error, which -q keeps quiet and -f tells by one letter.
Report(text) ==
    IF opt.quiet \/ opt.flood THEN Say(text \o Part(~opt.quiet)) ELSE ping_error(text)

\* An ICMP error is told in plain text.
IcmpText ==
    IF opt.quiet THEN <<>> ELSE IF opt.flood THEN Part(TRUE) ELSE Line(TRUE)

\* acknowledge(): the pipe may grow, by any sequence number.
Acknowledge == piped' \in {piped, TRUE}
---------------------------------------------------------------------------
(***************************************************************************)
(* main_loop()                                                             *)
(***************************************************************************)
Advance == ntransmitted' = IF ntransmitted = 2 THEN 2 ELSE ntransmitted + 1

\* pinger(): sendto() takes the probe, or it is to be tried again, or it fails,
\* maybe because of an ICMP error that has arrived.  -O first tells of an
\* answer that is still outstanding; -f prints a dot while the screen is wide
\* enough.
Sent(late) ==
    /\ Advance
    /\ \E dot \in BOOLEAN :
          /\ dot => opt.flood /\ ~opt.quiet
          /\ Say(Line(late) \o Part(dot))
    /\ UNCHANGED piped

Again(late) == Say(Line(late)) /\ UNCHANGED <<ntransmitted, piped>>

Fails(late) ==
    /\ Advance
    /\ Report(Line(late)) \/ Say(Line(late))
    /\ UNCHANGED piped

Refused(late) ==
    /\ Advance
    /\ Report(Line(late) \o IcmpText)
    /\ Acknowledge

Probe(late) ==
    /\ pc = "loop"
    /\ late => opt.outstanding /\ ntransmitted > 0
    /\ Sent(late) \/ Again(late) \/ Fails(late) \/ Refused(late)
    /\ UNCHANGED <<opt, json_stats, nreceived, odd, pc>>

Shown == ~opt.quiet /\ ~opt.flood

Object(short) ==
    IF Shown THEN Keys(json_packet, short \/ opt.timing) ELSE json_packet

\* Duplicates (of a unicast session), bad checksums and strange replies, from
\* another address, with other data or with IP options, are remarked on past
\* the buffer, unless they are too short to be looked at.
Remark(dup, bad, strange, short) == ~short /\ ((dup /\ ~opt.group) \/ bad \/ strange)

ReplyText(remark, own) ==
    Part(\/ opt.flood /\ ~opt.quiet
         \/ Shown /\ (opt.timestamp \/ own \/ remark))

Count(dup, bad, remark) ==
    /\ pc = "loop"
    /\ nreceived' = (nreceived \/ ~(dup \/ bad))
    /\ IF bad THEN UNCHANGED piped ELSE Acknowledge
    /\ odd' = (odd \/ remark)
    /\ UNCHANGED <<opt, json_stats, ntransmitted, pc>>

\* Wrong variant: a truncated reply returns before the buffer is printed.
Reply_Unprinted(dup, bad, strange, short, own) ==
    LET remark == Remark(dup, bad, strange, short)
    IN  /\ own => opt.noisy
        /\ Count(dup, bad, remark)
        /\ out' = out \o ReplyText(remark, own)
                      \o (IF short THEN <<>> ELSE Flushed(Object(short)))
        /\ json_packet' = IF short THEN Object(short) ELSE <<>>

\* Wrong variant: ping_print_truncated() goes on to its text.
Reply_TextTruncated(dup, bad, strange, short, own) ==
    LET remark == Remark(dup, bad, strange, short)
    IN  /\ own => opt.noisy
        /\ Count(dup, bad, remark)
        /\ out' = out \o ReplyText(remark \/ short, own) \o Flushed(Object(short))
        /\ json_packet' = <<>>

\* gather_statistics() for a reply: bytes, host and seq, then "truncated" for a
\* short reply or the time.  The buffer is printed after the text.
Reply(dup, bad, strange, short, own) ==
    LET remark == Remark(dup, bad, strange, short)
    IN  /\ own => opt.noisy
        /\ Count(dup, bad, remark)
        /\ out' = out \o ReplyText(remark, own) \o Flushed(Object(short))
        /\ json_packet' = <<>>

\* From the error queue, from recvmsg(), of a clock set back or of a packet
\* shorter than a header; the last three whatever -q and -f say.
LocalError ==
    /\ pc = "loop"
    /\ Report(<<>>) \/ ping_error(<<>>)
    /\ UNCHANGED <<opt, json_stats, ntransmitted, nreceived, piped, odd, pc>>

\* receive_error_msg()
NetError ==
    /\ pc = "loop"
    /\ Say(IcmpText)
    /\ Acknowledge
    /\ UNCHANGED <<opt, json_stats, ntransmitted, nreceived, odd, pc>>

\* parse_reply(), when the message is no echo reply: nothing, a letter or two
\* with -f, or a description, which leaves the line open over IPv6.
Notice ==
    /\ pc = "loop"
    /\ \E text \in {<<>>, Line(TRUE), Part(TRUE)} :
          Say(text) /\ odd' = (odd \/ text = Part(TRUE))
    /\ Acknowledge
    /\ UNCHANGED <<opt, json_stats, ntransmitted, nreceived, pc>>

Leave ==
    /\ pc = "loop"
    /\ pc' = "finish"
    /\ UNCHANGED <<opt, json_packet, json_stats, out, ntransmitted, nreceived, piped, odd>>
---------------------------------------------------------------------------
(***************************************************************************)
(* ping_print_finish()                                                     *)
(***************************************************************************)
Twice(buf) == json_kv_continue(json_kv_continue(buf))

\* construct_json_statistics(): eight keys, the rtt object, and pipe.
Statistics ==
    /\ pc = "finish"
    /\ pc' = "flood"
    /\ json_stats' =
         IF ~(nreceived /\ opt.timing) THEN json_stats
         ELSE LET start == IF json_stats = <<>> THEN <<"open">> ELSE json_continue(json_stats)
                  rtt == json_kv(Twice(Twice(Twice(Twice(start)))))
              IN  IF piped THEN json_kv_continue(json_continue(rtt)) ELSE rtt
    /\ UNCHANGED <<opt, json_packet, out, ntransmitted, nreceived, piped, odd>>

\* Wrong variant: the separator does not depend on the pipe.
Flood_AlwaysSeparated ==
    /\ pc = "flood"
    /\ pc' = "flush"
    /\ json_stats' =
         IF nreceived /\ (opt.flood \/ opt.paced) /\ ntransmitted > 1 /\ json_stats # <<>>
         THEN json_kv(json_kv_continue(json_continue(json_stats)))
         ELSE json_stats
    /\ UNCHANGED <<opt, json_packet, out, ntransmitted, nreceived, piped, odd>>

\* construct_json_statistics_flood(): ipg and ewma; the separator is missing
\* exactly when "pipe" has left one.
Flood ==
    /\ pc = "flood"
    /\ pc' = "flush"
    /\ json_stats' =
         IF nreceived /\ (opt.flood \/ opt.paced) /\ ntransmitted > 1 /\ json_stats # <<>>
         THEN LET buf == IF nreceived /\ opt.timing /\ ~piped
                         THEN json_continue(json_stats) ELSE json_stats
              IN  json_kv(json_kv_continue(buf))
         ELSE json_stats
    /\ UNCHANGED <<opt, json_packet, out, ntransmitted, nreceived, piped, odd>>

\* print_json_statistics()
Flush ==
    /\ pc = "flush"
    /\ pc' = "comment"
    /\ out' = out \o Flushed(json_stats)
    /\ json_stats' = <<>>
    /\ UNCHANGED <<opt, json_packet, ntransmitted, nreceived, piped, odd>>

\* coping_add_context() prints on every path: that the comment is suppressed,
\* or a spinner, and the comment in its box.
Comment ==
    /\ pc = "comment"
    /\ pc' = "done"
    /\ Say(Line(TRUE))
    /\ UNCHANGED <<opt, json_stats, ntransmitted, nreceived, piped, odd>>

Room == Len(out) < MaxPieces
Ended == pc = "done" /\ UNCHANGED vars

Next ==
    \/ Room /\ \E late \in BOOLEAN : Probe(late)
    \/ Room /\ \E dup, bad, strange, short, own \in BOOLEAN :
                 Reply(dup, bad, strange, short, own)
    \/ Room /\ (LocalError \/ NetError \/ Notice)
    \/ Leave \/ Statistics \/ Flood \/ Flush \/ Comment \/ Ended

Spec == Init /\ [][Next]_vars
---------------------------------------------------------------------------
(***************************************************************************)
(* Properties                                                              *)
(***************************************************************************)
\* An object: members separated, and nothing but separated, by commas.
WellFormed(buf) ==
    /\ Len(buf) >= 3 /\ Len(buf) % 2 = 1
    /\ \A k \in 1 .. Len(buf) :
          buf[k] = CASE k = 1 -> "open"
                     [] k = Len(buf) -> "close"
                     [] k % 2 = 0 -> "kv"
                     [] OTHER -> "comma"

Text(piece) == piece \in {<<"line">>, <<"part">>}

\* "pipe" is the last member of the statistics: no member of the flood follows
\* its separator.
PipeLast == piped /\ ~((opt.flood \/ opt.paced) /\ ntransmitted > 1)

\* Every object parses, in whatever order replies, truncated replies, duplicates
\* and errors come and whichever figures there are: between messages nothing is
\* left in the buffer, and the separators that one function writes after its
\* member fit those that the next one writes before.  Only statistics that end
\* with "pipe" do not parse.
ObjectsParse ==
    /\ pc = "loop" => json_packet = <<>>
    /\ ~(pc \in {"comment", "done"} /\ PipeLast) =>
          \A k \in 1 .. Len(out) : Text(out[k]) \/ WellFormed(out[k])

\* What gather_statistics() and the error paths print past the buffers does not
\* get in front of an object: unless -f, -D, -a, -N, -R or -T ask for it or a
\* message is remarked on, every object has its line for itself, also beside
\* truncated replies, failing probes, ICMP errors and the text of -O.
ObjectsHaveLines ==
    ~(opt.flood \/ opt.timestamp \/ opt.noisy \/ odd) =>
        \A k \in 2 .. Len(out) : ~Text(out[k]) => out[k - 1] # <<"part">>
=============================================================================
