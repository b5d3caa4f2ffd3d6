----------------------------- MODULE SeqWindow -----------------------------
(***************************************************************************)
(* The 16-bit sequence arithmetic of ping (inline functions of ping.h).    *)
(*                                                                         *)
(* ping counts probes in a long but the wire carries 16 bits, and `acked'  *)
(* (the newest acknowledged probe) is a uint16_t.  SeqMod is 65536 in the  *)
(* program, both for the uint16_t and for the duplicate table; here it is  *)
(* a parameter so that wrap-around happens within a small model.           *)
(*                                                                         *)
(* Here and in the other modules, an operator named X_Something next to X  *)
(* is a deliberately wrong variant of X, the kind of slip a change to the  *)
(* code could make; no specification uses it.  Put in the place of X it    *)
(* makes TLC find a named property violated.                               *)
(***************************************************************************)
EXTENDS Integers

CONSTANT SeqMod

ASSUME SeqModAssumption ==
    /\ SeqMod \in Nat
    /\ SeqMod >= 4
    /\ SeqMod % 2 = 0

Slots   == 0 .. SeqMod - 1
HalfMax == (SeqMod \div 2) - 1          \* 0x7FFF

U16(x) == x % SeqMod
S16(x) == IF U16(x) > HalfMax THEN U16(x) - SeqMod ELSE U16(x)

(***************************************************************************)
(* in_flight(): distance to the newest acknowledged probe, or, when that   *)
(* distance does not fit half the sequence space, what the counters say.   *)
(***************************************************************************)
InFlight(ntransmitted, acked, nreceived, nerrors) ==
    LET diff == U16(ntransmitted - acked)
    IN  IF diff <= HalfMax THEN diff
                           ELSE ntransmitted - nreceived - nerrors

(***************************************************************************)
(* acknowledge(): `seq' counts only when it is at most half the sequence   *)
(* space behind the newest probe.  The second disjunct is evaluated by C   *)
(* in int, without wrapping to 16 bits.                                    *)
(***************************************************************************)
Acceptable(ntransmitted, seq) == U16(ntransmitted - seq) <= HalfMax

\* Wrong variant: a late reply moves acked backwards.
AckAcked_Unordered(ntransmitted, acked, seq) ==
    IF Acceptable(ntransmitted, seq) THEN seq ELSE acked

AckAcked(ntransmitted, acked, seq) ==
    IF /\ Acceptable(ntransmitted, seq)
       /\ \/ S16(seq - acked) > 0
          \/ U16(ntransmitted) - acked > HalfMax
    THEN seq ELSE acked

\* Wrong variant: no test for numbers ahead of the newest probe.
AckPipesize_Unchecked(ntransmitted, pipesize, seq) ==
    IF U16(ntransmitted - seq) + 1 > pipesize
    THEN U16(ntransmitted - seq) + 1 ELSE pipesize

AckPipesize(ntransmitted, pipesize, seq) ==
    IF Acceptable(ntransmitted, seq) /\ U16(ntransmitted - seq) + 1 > pipesize
    THEN U16(ntransmitted - seq) + 1 ELSE pipesize

(***************************************************************************)
(* advance_ntransmitted(), applied to the incremented counter.             *)
(***************************************************************************)
AdvanceAcked(ntransmitted, acked) ==
    IF U16(ntransmitted) - acked > HalfMax THEN U16(ntransmitted + 1) ELSE acked
=============================================================================
