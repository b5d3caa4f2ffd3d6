-------------------------- MODULE PingLoop_proofs --------------------------
(***************************************************************************)
(* Proofs about PingStats and PingLoop, for every count, interval, grace   *)
(* period and sequence space.  The first parts are about the bookkeeping   *)
(* alone, StatSpec; then the loop is shown to implement it, and what is    *)
(* proved of the one is used for the other.                                *)
(***************************************************************************)
EXTENDS PingLoop, FiniteSetTheorems, TLAPS

(***************************************************************************)
(* Sequence arithmetic                                                     *)
(***************************************************************************)

\* U16() yields a slot, and is the identity on slots.
LEMMA U16Type ==
    /\ \A x \in Int : U16(x) \in Slots
    /\ \A x \in Slots : U16(x) = x
  BY SeqModAssumption DEF U16, Slots

\* U16() of the first number past the slots, and of a small negative number.
LEMMA U16Edges ==
    /\ U16(SeqMod) = 0
    /\ \A x \in Nat : x > 0 /\ x < SeqMod => U16(-x) = SeqMod - x
  BY SeqModAssumption DEF U16

\* 0x7FFF is a slot, and twice it leaves room for one more bit.
LEMMA HalfMaxType == HalfMax \in Nat /\ HalfMax >= 1 /\ 2 * HalfMax + 2 = SeqMod
  BY SeqModAssumption DEF HalfMax

\* acknowledge() and advance_ntransmitted() keep acked within 16 bits and
\* pipesize within half the sequence space.
LEMMA WindowTypes ==
    ASSUME NEW nt \in Nat, NEW ack \in Slots, NEW seq \in Slots,
           NEW pipe \in -1 .. HalfMax + 1
    PROVE  /\ AckAcked(nt, ack, seq) \in Slots
           /\ AdvanceAcked(nt, ack) \in Slots
           /\ AckPipesize(nt, pipe, seq) \in -1 .. HalfMax + 1
  <1>1. AckAcked(nt, ack, seq) \in Slots
    BY DEF AckAcked
  <1>2. AdvanceAcked(nt, ack) \in Slots
    BY U16Type DEF AdvanceAcked
  <1>3. U16(nt - seq) \in Nat
    BY U16Type, SeqModAssumption DEF Slots
  <1>4. AckPipesize(nt, pipe, seq) \in -1 .. HalfMax + 1
    BY <1>3, HalfMaxType DEF AckPipesize, Acceptable
  <1>5. QED BY <1>1, <1>2, <1>4

---------------------------------------------------------------------------
(***************************************************************************)
(* Type correctness                                                        *)
(***************************************************************************)

\* The counters, the 16-bit acked and the duplicate table keep their types,
\* and only accounted probes are on the wire.
THEOREM StatTypeCorrect == StatSpec => []StatTypeOK
  <1>1. StatInit => StatTypeOK
    BY SeqModAssumption, StatsAssumption, HalfMaxType DEF StatInit, StatTypeOK, Slots
  <1>2. StatTypeOK /\ [StatNext]_statVars => StatTypeOK'
    <2> SUFFICES ASSUME StatTypeOK, [StatNext]_statVars
                 PROVE  StatTypeOK'
      OBVIOUS
    <2> USE StatsAssumption DEF StatTypeOK
    <2>a. ASSUME NEW ack \in Slots, Advance(ack)
          PROVE  /\ ntransmitted' = ntransmitted + 1
                 /\ ntransmitted' \in 0 .. MaxProbes
                 /\ rcvd' \subseteq Slots
                 /\ acked' \in Slots
      <3>1. AdvanceAcked(ntransmitted + 1, ack) \in Slots
        BY U16Type DEF AdvanceAcked
      <3>2. QED BY <2>a, <3>1 DEF Advance
    <2>b. ASSUME NEW n \in Int
          PROVE  /\ U16(n) \in Slots
                 /\ AckAcked(ntransmitted, acked, U16(n)) \in Slots
                 /\ AckPipesize(ntransmitted, pipesize, U16(n)) \in -1 .. HalfMax + 1
      <3>1. U16(n) \in Slots
        BY U16Type
      <3>2. ntransmitted \in Nat
        OBVIOUS
      <3>3. QED BY <3>1, <3>2, WindowTypes
    <2>1. CASE SendProbe
      BY <2>1, <2>a DEF SendProbe
    <2>2. CASE SendDeferred
      BY <2>2 DEF SendDeferred
    <2>3. CASE SendDropped
      BY <2>3, <2>a DEF SendDropped
    <2>4. CASE SendRejected
      BY <2>4, <2>a DEF SendRejected
    <2>5. ASSUME NEW n \in wire \cup {ntransmitted + 1}, SendAnsweredByError(n)
          PROVE  StatTypeOK'
      <3>1. n \in 1 .. ntransmitted + 1
        OBVIOUS
      <3> DEFINE ack == IF Family = 4 THEN AckAcked(ntransmitted, acked, U16(n)) ELSE acked
      <3>2. ack \in Slots
        BY <3>1, <2>b
      <3>3. Advance(ack)
        BY <2>5 DEF SendAnsweredByError
      <3>4. pipesize' \in -1 .. HalfMax + 1
        BY <3>1, <2>b, <2>5 DEF SendAnsweredByError
      <3> HIDE DEF ack
      <3>5. /\ ntransmitted' = ntransmitted + 1
            /\ ntransmitted' \in 0 .. MaxProbes
            /\ rcvd' \subseteq Slots
            /\ acked' \in Slots
        BY <2>a, <3>2, <3>3
      <3>6. QED BY <2>5, <3>1, <3>4, <3>5 DEF SendAnsweredByError
    <2>6. ASSUME NEW n \in wire, Reply(n) \/ NetError(n) \/ ErrorPacket(n)
          PROVE  StatTypeOK'
      <3>1. n \in Int
        OBVIOUS
      <3>2. CASE Reply(n)
        BY <3>1, <3>2, <2>b DEF Reply, Acknowledge
      <3>3. CASE NetError(n)
        BY <3>1, <3>3, <2>b DEF NetError, Acknowledge
      <3>4. CASE ErrorPacket(n)
        BY <3>1, <3>4, <2>b DEF ErrorPacket, Acknowledge
      <3>5. QED BY <2>6, <3>2, <3>3, <3>4
    <2>7. CASE CorruptReply
      BY <2>7 DEF CorruptReply
    <2>8. CASE LocalError
      BY <2>8 DEF LocalError
    <2>9. CASE UNCHANGED statVars
      BY <2>9 DEF statVars
    <2>10. QED
      BY <2>1, <2>2, <2>3, <2>4, <2>5, <2>6, <2>7, <2>8, <2>9
         DEF StatNext, Sending, Receiving
  <1>3. QED BY <1>1, <1>2, PTL DEF StatSpec
---------------------------------------------------------------------------
(***************************************************************************)
(* The summary never claims more answers than probes.  The invariant says  *)
(* that each number in use whose bit is clear is a probe not yet counted:  *)
(* setting a bit moves one from there to nreceived.                        *)
(***************************************************************************)

\* Only slots are in use, so the unanswered ones can be counted.
LEMMA OwingFinite ==
    ASSUME StatTypeOK
    PROVE  /\ IsFiniteSet(Owing)
           /\ Cardinality(Owing) \in Nat
  <1>1. SentSlots \subseteq Slots
    BY U16Type DEF SentSlots
  <1>2. IsFiniteSet(Slots)
    BY FS_Interval, SeqModAssumption DEF Slots
  <1>3. IsFiniteSet(Owing)
    BY <1>1, <1>2, FS_Subset DEF Owing
  <1>4. QED BY <1>3, FS_CardinalityType

\* A probe that is accounted for adds its number to the unanswered ones,
\* whether or not an older probe with the same number was answered.
LEMMA AdvanceOwing ==
    ASSUME StatTypeOK, NEW ack \in Slots, Advance(ack), AnswersAccounted
    PROVE  /\ rcvd' \subseteq SentSlots'
           /\ Cardinality(Owing') \in Nat
           /\ Cardinality(Owing') <= Cardinality(Owing) + 1
  <1>1. ntransmitted \in Nat /\ ntransmitted' = ntransmitted + 1
    BY StatsAssumption DEF StatTypeOK, Advance
  <1>2. 1 .. ntransmitted + 1 = (1 .. ntransmitted) \cup {ntransmitted + 1}
    BY <1>1
  <1>3. SentSlots' = SentSlots \cup {NextSeq}
    BY <1>1, <1>2 DEF SentSlots, NextSeq
  <1>4. rcvd' = rcvd \ {NextSeq}
    BY DEF Advance
  <1>5. Owing' = Owing \cup {NextSeq}
    BY <1>3, <1>4 DEF Owing
  <1>6. rcvd' \subseteq SentSlots'
    BY <1>3, <1>4 DEF AnswersAccounted
  <1>7. IsFiniteSet(Owing) /\ Cardinality(Owing) \in Nat
    BY OwingFinite
  <1>8. Cardinality(Owing \cup {NextSeq}) \in {Cardinality(Owing), Cardinality(Owing) + 1}
    BY <1>7, FS_AddElement
  <1>9. QED BY <1>5, <1>6, <1>7, <1>8

\* The inductive invariant behind the summary line.
THEOREM AnswersAreAccounted == StatSpec => []AnswersAccounted
  <1>1. StatInit => AnswersAccounted
    <2> SUFFICES ASSUME StatInit PROVE AnswersAccounted
      OBVIOUS
    <2>1. Owing = {}
      BY DEF StatInit, Owing, SentSlots
    <2>2. Cardinality(Owing) = 0
      BY <2>1, FS_EmptySet
    <2>3. QED BY <2>2 DEF StatInit, AnswersAccounted
  <1>2. StatTypeOK /\ StatTypeOK' /\ AnswersAccounted /\ [StatNext]_statVars => AnswersAccounted'
    <2> SUFFICES ASSUME StatTypeOK, StatTypeOK', AnswersAccounted, [StatNext]_statVars
                 PROVE  AnswersAccounted'
      OBVIOUS
    <2>o. Cardinality(Owing) \in Nat /\ IsFiniteSet(Owing)
      BY OwingFinite
    <2>t. ntransmitted \in Nat /\ nreceived \in Nat /\ refunds \in Nat
      BY StatsAssumption DEF StatTypeOK
    <2>a. ASSUME NEW ack \in Slots, Advance(ack), UNCHANGED <<nreceived, refunds>>
          PROVE  AnswersAccounted'
      <3>1. ntransmitted' = ntransmitted + 1
        BY <2>a DEF Advance
      <3>2. QED BY <2>a, <2>o, <2>t, <3>1, AdvanceOwing DEF AnswersAccounted
    <2>b. ASSUME UNCHANGED <<ntransmitted, rcvd, nreceived, refunds>>
          PROVE  AnswersAccounted'
      BY <2>b DEF AnswersAccounted, Owing, SentSlots
    <2>1. ASSUME SendProbe \/ SendDropped \/ SendRejected
          PROVE  AnswersAccounted'
      BY <2>1, <2>a DEF SendProbe, SendDropped, SendRejected, StatTypeOK
    <2>2. CASE SendDeferred
      <3>1. CASE NextSeq \in rcvd
        <4>1. Owing' = Owing \cup {NextSeq}
          BY <2>2, <3>1 DEF SendDeferred, Owing, SentSlots, AnswersAccounted
        <4>2. Cardinality(Owing') \in {Cardinality(Owing), Cardinality(Owing) + 1}
          BY <2>o, <4>1, FS_AddElement
        <4>3. rcvd' \subseteq SentSlots'
          BY <2>2 DEF SendDeferred, SentSlots, AnswersAccounted
        <4>4. refunds' = refunds + 1 /\ UNCHANGED <<nreceived, ntransmitted>>
          BY <2>2, <3>1 DEF SendDeferred
        <4>5. QED BY <2>o, <2>t, <4>2, <4>3, <4>4 DEF AnswersAccounted
      <3>2. CASE NextSeq \notin rcvd
        <4>1. rcvd' = rcvd /\ UNCHANGED <<ntransmitted, nreceived, refunds>>
          BY <2>2, <3>2 DEF SendDeferred
        <4>2. QED BY <4>1, <2>b
      <3>3. QED BY <3>1, <3>2
    <2>3. ASSUME NEW n \in wire \cup {ntransmitted + 1}, SendAnsweredByError(n)
          PROVE  AnswersAccounted'
      <3> DEFINE ack == IF Family = 4 THEN AckAcked(ntransmitted, acked, U16(n)) ELSE acked
      <3>1. n \in Int
        BY <2>t DEF StatTypeOK
      <3>2. ack \in Slots
        BY <3>1, <2>t, U16Type DEF StatTypeOK, AckAcked
      <3>3. Advance(ack) /\ UNCHANGED <<nreceived, refunds>>
        BY <2>3 DEF SendAnsweredByError
      <3> HIDE DEF ack
      <3>4. QED BY <2>a, <3>2, <3>3
    <2>4. ASSUME NEW n \in wire, Reply(n)
          PROVE  AnswersAccounted'
      <3>1. CASE U16(n) \in rcvd
        BY <2>4, <3>1, <2>b DEF Reply
      <3>2. CASE U16(n) \notin rcvd
        <4>1. U16(n) \in SentSlots
          BY DEF SentSlots, StatTypeOK
        <4>2. U16(n) \in Owing /\ Owing' = Owing \ {U16(n)}
          BY <2>4, <3>2, <4>1 DEF Reply, Owing, SentSlots
        <4>3. Cardinality(Owing') = Cardinality(Owing) - 1
          BY <2>o, <4>2, FS_RemoveElement
        <4>4. rcvd' \subseteq SentSlots'
          BY <2>4, <3>2, <4>1 DEF Reply, SentSlots, AnswersAccounted
        <4>5. nreceived' = nreceived + 1 /\ UNCHANGED <<ntransmitted, refunds>>
          BY <2>4, <3>2 DEF Reply
        <4>6. QED BY <2>o, <2>t, <4>3, <4>4, <4>5 DEF AnswersAccounted
      <3>3. QED BY <3>1, <3>2
    <2>5. ASSUME \/ \E n \in wire : NetError(n) \/ ErrorPacket(n)
                 \/ CorruptReply \/ LocalError
          PROVE  AnswersAccounted'
      BY <2>5, <2>b DEF NetError, ErrorPacket, CorruptReply, LocalError
    <2>6. CASE UNCHANGED statVars
      BY <2>6, <2>b DEF statVars
    <2>7. QED
      BY <2>1, <2>2, <2>3, <2>4, <2>5, <2>6 DEF StatNext, Sending, Receiving
  <1>3. QED BY <1>1, <1>2, StatTypeCorrect, PTL DEF StatSpec

\* ReceivedNeverExceedsSent for every sequence space: the "packets received"
\* of the summary is bounded by the "packets transmitted", up to one per
\* retried send that cleared an answered number.
THEOREM ReceivedBounded == StatSpec => []ReceivedNeverExceedsSent
  <1>1. StatTypeOK /\ AnswersAccounted => ReceivedNeverExceedsSent
    <2> SUFFICES ASSUME StatTypeOK, AnswersAccounted PROVE ReceivedNeverExceedsSent
      OBVIOUS
    <2>1. Cardinality(Owing) \in Nat
      BY OwingFinite
    <2>2. QED BY <2>1, StatsAssumption DEF StatTypeOK, AnswersAccounted, ReceivedNeverExceedsSent
  <1>2. QED BY <1>1, StatTypeCorrect, AnswersAreAccounted, PTL
---------------------------------------------------------------------------
(***************************************************************************)
(* in_flight() while less than half the sequence space is used             *)
(***************************************************************************)

\* Within the first half of the sequence space acknowledge() keeps the
\* larger of the two numbers.
LEMMA AckIsMax ==
    ASSUME NEW nt \in Nat, nt <= HalfMax, NEW ack \in 0 .. nt, NEW n \in 1 .. nt
    PROVE  U16(n) = n /\ AckAcked(nt, ack, n) = IF n > ack THEN n ELSE ack
  <1> USE SeqModAssumption, HalfMaxType
  <1>1. /\ n \in Slots /\ nt \in Slots /\ nt - n \in Slots
    BY DEF Slots
  <1>2. U16(n) = n /\ U16(nt) = nt /\ U16(nt - n) = nt - n
    BY <1>1, U16Type
  <1>3. Acceptable(nt, n) /\ ~(U16(nt) - ack > HalfMax)
    BY <1>2 DEF Acceptable
  <1>4. CASE n > ack
    <2>1. n - ack \in Slots
      BY <1>4 DEF Slots
    <2>2. U16(n - ack) = n - ack
      BY <2>1, U16Type
    <2>3. S16(n - ack) > 0
      BY <1>4, <2>2 DEF S16
    <2>4. QED BY <1>2, <1>3, <1>4, <2>3 DEF AckAcked
  <1>5. CASE n = ack
    <2>1. U16(0) = 0
      BY U16Type DEF Slots
    <2>2. QED BY <1>2, <1>3, <1>5, <2>1 DEF AckAcked, S16
  <1>6. CASE n < ack
    <2> DEFINE d == ack - n
    <2>1. d \in Nat /\ d > 0 /\ d < SeqMod /\ d <= HalfMax /\ n - ack = -d
      BY <1>6
    <2> HIDE DEF d
    <2>2. U16(n - ack) = SeqMod - d
      BY <2>1, U16Edges
    <2>3. ~(S16(n - ack) > 0)
      BY <2>1, <2>2 DEF S16
    <2>4. QED BY <1>2, <1>3, <1>6, <2>3 DEF AckAcked
  <1>7. QED BY <1>4, <1>5, <1>6

\* InFlightSound for every sequence space: in_flight() = 0 means that the
\* newest probe was heard of.
THEOREM InFlightIsSound == StatSpec => []InFlightSound
  <1> DEFINE Inv == ntransmitted <= HalfMax =>
                       acked \in wire \cup {0} /\ \A s \in rcvd : s <= acked
  <1>1. StatInit => Inv
    BY DEF StatInit
  <1>2. StatTypeOK /\ StatTypeOK' /\ Inv /\ [StatNext]_statVars => Inv'
    <2> SUFFICES ASSUME StatTypeOK, StatTypeOK', Inv, [StatNext]_statVars,
                        ntransmitted' <= HalfMax
                 PROVE  Inv'
      OBVIOUS
    <2> USE SeqModAssumption, StatsAssumption, HalfMaxType
    <2>t. ntransmitted \in Nat /\ acked \in Nat /\ rcvd \subseteq Nat /\ wire \subseteq Nat
      BY DEF StatTypeOK, Slots
    <2>a. ASSUME Advance(acked), wire \subseteq wire'
          PROVE  Inv'
      <3>1. ntransmitted' = ntransmitted + 1 /\ rcvd' \subseteq rcvd
        BY <2>a DEF Advance
      <3>2. ntransmitted <= HalfMax /\ ntransmitted + 1 \in Slots
        BY <2>t, <3>1 DEF Slots
      <3>3. U16(ntransmitted + 1) = ntransmitted + 1
        BY <3>2, U16Type
      <3>4. acked' = acked
        BY <2>a, <2>t, <3>1, <3>3 DEF Advance, AdvanceAcked
      <3>5. QED BY <2>a, <3>1, <3>2, <3>4
    <2>b. ASSUME UNCHANGED <<ntransmitted, acked, wire>>, rcvd' \subseteq rcvd
          PROVE  Inv'
      BY <2>b
    <2>c. ASSUME NEW n \in wire, Acknowledge(U16(n)), UNCHANGED <<ntransmitted, wire>>,
                 rcvd' \subseteq rcvd \cup {U16(n)}
          PROVE  Inv'
      <3>1. n \in 1 .. ntransmitted /\ acked \in 0 .. ntransmitted /\ ntransmitted <= HalfMax
        BY <2>c, <2>t DEF StatTypeOK
      <3>2. U16(n) = n /\ acked' = IF n > acked THEN n ELSE acked
        BY <2>c, <2>t, <3>1, AckIsMax DEF Acknowledge
      <3>3. QED BY <2>c, <2>t, <3>1, <3>2
    <2>1. ASSUME SendProbe \/ SendDropped \/ SendRejected
          PROVE  Inv'
      BY <2>1, <2>a DEF SendProbe, SendDropped, SendRejected
    <2>2. CASE SendDeferred
      BY <2>2, <2>b DEF SendDeferred
    <2>3. ASSUME NEW n \in wire \cup {ntransmitted + 1}, SendAnsweredByError(n)
          PROVE  Inv'
      <3>1. ntransmitted + 1 <= HalfMax
        BY <2>3, <2>t DEF SendAnsweredByError, Advance
      <3>2. CASE Family # 4
        BY <2>3, <3>2, <2>a DEF SendAnsweredByError
      <3>3. CASE Family = 4 /\ n = ntransmitted + 1
        <4>1. U16(n) = ntransmitted + 1
          BY <2>t, <3>1, <3>3, U16Type DEF Slots
        <4>2. U16(ntransmitted - U16(n)) = SeqMod - 1
          BY <2>t, <4>1, U16Edges
        <4>3. AckAcked(ntransmitted, acked, U16(n)) = acked
          BY <4>2 DEF AckAcked, Acceptable
        <4>4. QED BY <2>3, <3>3, <4>3, <2>a DEF SendAnsweredByError
      <3>4. CASE Family = 4 /\ n \in wire
        <4> DEFINE ack == AckAcked(ntransmitted, acked, U16(n))
        <4>1. n \in 1 .. ntransmitted /\ acked \in 0 .. ntransmitted /\ ntransmitted <= HalfMax
          BY <3>1, <3>4, <2>t DEF StatTypeOK
        <4>2. ack = IF n > acked THEN n ELSE acked
          BY <4>1, <2>t, AckIsMax
        <4>3. Advance(ack) /\ wire' = wire
          BY <2>3, <3>4 DEF SendAnsweredByError
        <4> HIDE DEF ack
        <4>4. U16(ntransmitted + 1) = ntransmitted + 1
          BY <2>t, <3>1, U16Type DEF Slots
        <4>5. acked' = ack /\ rcvd' \subseteq rcvd
          BY <4>1, <4>2, <4>3, <4>4, <3>1 DEF Advance, AdvanceAcked
        <4>6. QED BY <2>t, <3>4, <4>1, <4>2, <4>3, <4>5
      <3>5. QED BY <3>2, <3>3, <3>4
    <2>4. ASSUME NEW n \in wire, Reply(n) \/ ErrorPacket(n)
          PROVE  Inv'
      BY <2>4, <2>c DEF Reply, ErrorPacket
    <2>5. ASSUME NEW n \in wire, NetError(n)
          PROVE  Inv'
      BY <2>5, <2>b, <2>c DEF NetError
    <2>6. CASE CorruptReply \/ LocalError
      BY <2>6, <2>b DEF CorruptReply, LocalError
    <2>7. CASE UNCHANGED statVars
      BY <2>7, <2>b DEF statVars
    <2>8. QED
      BY <2>1, <2>2, <2>3, <2>4, <2>5, <2>6, <2>7 DEF StatNext, Sending, Receiving
  <1>3. StatTypeOK /\ Inv => InFlightSound
    <2> SUFFICES ASSUME StatTypeOK, Inv, ntransmitted <= HalfMax
                 PROVE  in_flight = ntransmitted - acked
      BY DEF InFlightSound
    <2>1. ntransmitted \in Nat /\ acked \in 0 .. ntransmitted
      BY StatsAssumption, SeqModAssumption DEF StatTypeOK, Slots
    <2>2. ntransmitted - acked \in Slots
      BY <2>1, HalfMaxType, SeqModAssumption DEF Slots
    <2>3. QED BY <2>1, <2>2, U16Type, HalfMaxType DEF in_flight, InFlight
  <1>4. QED BY <1>1, <1>2, <1>3, StatTypeCorrect, PTL DEF StatSpec
---------------------------------------------------------------------------
(***************************************************************************)
(* Refinement: until the sequence number wraps, the bookkeeping is an echo *)
(* session.  The invariant is that only numbers of probes are marked, so   *)
(* that send_probe() never clears a bit that is set.                       *)
(***************************************************************************)

\* Every step credits at most one probe, one that was sent and not yet
\* credited, and counts it.
THEOREM StatsImplementEchoSession == StatSpec => EchoSpec
  <1> DEFINE Marked == rcvd \subseteq 1 .. ntransmitted
             Inv == ntransmitted < SeqMod => Marked
             Step == Echo!Transmit \/ Echo!Answer
  <1> USE SeqModAssumption, StatsAssumption
  <1>s. ASSUME StatTypeOK, Inv, [StatNext]_statVars, ntransmitted' < SeqMod
        PROVE  Marked' /\ [Step]_(Echo!vars)
    <2>m. ntransmitted \in Nat /\ ntransmitted' \in {ntransmitted, ntransmitted + 1}
      BY <1>s DEF StatTypeOK, StatNext, Sending, Receiving, statVars, SendProbe,
                  SendDeferred, SendDropped, SendRejected, SendAnsweredByError,
                  Advance, Reply, NetError, ErrorPacket, CorruptReply, LocalError
    <2>t. ntransmitted \in Nat /\ ntransmitted < SeqMod /\ Marked
      BY <1>s, <2>m
    <2>n. NextSeq \notin rcvd
      <3>1. CASE ntransmitted + 1 < SeqMod
        BY <1>s, <2>t, <3>1, U16Type DEF NextSeq, Slots
      <3>2. CASE ntransmitted + 1 = SeqMod
        BY <1>s, <2>t, <3>2, U16Edges DEF NextSeq
      <3>3. QED BY <2>t, <3>1, <3>2
    <2>a. ASSUME NEW ack, Advance(ack), UNCHANGED nreceived
          PROVE  Marked' /\ Echo!Transmit
      <3>1. rcvd' = rcvd /\ ntransmitted' = ntransmitted + 1
        BY <2>a, <2>n DEF Advance
      <3>2. Marked'
        BY <1>s, <2>t, <3>1
      <3>3. QED BY <2>a, <3>1, <3>2 DEF Echo!Transmit
    <2>b. ASSUME UNCHANGED <<ntransmitted, rcvd, nreceived>>
          PROVE  Marked' /\ UNCHANGED Echo!vars
      BY <1>s, <2>b DEF Echo!vars
    <2>1. ASSUME \/ SendProbe \/ SendDropped \/ SendRejected
                 \/ \E n \in wire \cup {ntransmitted + 1} : SendAnsweredByError(n)
          PROVE  Marked' /\ Echo!Transmit
      BY <2>1, <2>a DEF SendProbe, SendDropped, SendRejected, SendAnsweredByError
    <2>2. CASE SendDeferred
      BY <2>2, <2>b, <2>n DEF SendDeferred
    <2>3. ASSUME NEW n \in wire, Reply(n)
          PROVE  Marked' /\ (Echo!Answer \/ UNCHANGED Echo!vars)
      <3>1. n \in 1 .. ntransmitted /\ n \in Slots
        BY <1>s, <2>t DEF StatTypeOK, Slots
      <3>2. U16(n) = n
        BY <3>1, U16Type
      <3>3. CASE n \in rcvd
        BY <2>3, <2>b, <3>2, <3>3 DEF Reply
      <3>4. CASE n \notin rcvd
        <4>1. rcvd' = rcvd \cup {n} /\ nreceived' = nreceived + 1 /\ UNCHANGED ntransmitted
          BY <2>3, <3>2, <3>4 DEF Reply
        <4>2. QED BY <1>s, <3>1, <3>4, <4>1 DEF Echo!Answer
      <3>5. QED BY <3>3, <3>4
    <2>4. ASSUME \/ \E n \in wire : NetError(n) \/ ErrorPacket(n)
                 \/ CorruptReply \/ LocalError \/ UNCHANGED statVars
          PROVE  Marked' /\ UNCHANGED Echo!vars
      BY <2>4, <2>b DEF NetError, ErrorPacket, CorruptReply, LocalError, statVars
    <2>5. QED
      BY <1>s, <2>1, <2>2, <2>3, <2>4, <2>b
         DEF StatNext, Sending, Receiving, SendDeferred
  <1>1. StatInit => Inv /\ Echo!Init
    BY DEF StatInit, Echo!Init
  <1>2. StatTypeOK /\ Inv /\ [StatNext]_statVars => Inv' /\ [Echo!Next]_(Echo!vars)
    BY <1>s DEF Echo!Next
  <1>3. QED BY <1>1, <1>2, StatTypeCorrect, PTL DEF StatSpec, EchoSpec, Echo!Spec
---------------------------------------------------------------------------
(***************************************************************************)
(* Until the sequence number wraps, the counter and the table agree: the   *)
(* marked numbers are probes that left the host, one for each answer       *)
(* counted.                                                                *)
(***************************************************************************)

CountsExact ==
    ntransmitted < SeqMod =>
        /\ rcvd \subseteq wire
        /\ nreceived = Cardinality(rcvd)

\* nreceived is the number of probes whose bit is set: an answer is counted
\* exactly when its bit changes, and no attempt to send clears a set bit.
THEOREM CountsAreExact == StatSpec => []CountsExact
  <1> USE SeqModAssumption, StatsAssumption
  <1>1. StatInit => CountsExact
    BY FS_EmptySet DEF StatInit, CountsExact
  <1>2. StatTypeOK /\ CountsExact /\ [StatNext]_statVars => CountsExact'
    <2> SUFFICES ASSUME StatTypeOK, CountsExact, [StatNext]_statVars,
                        ntransmitted' < SeqMod
                 PROVE  rcvd' \subseteq wire' /\ nreceived' = Cardinality(rcvd')
      BY DEF CountsExact
    <2>m. ntransmitted \in Nat /\ ntransmitted' \in {ntransmitted, ntransmitted + 1}
      BY DEF StatTypeOK, StatNext, Sending, Receiving, statVars, SendProbe,
             SendDeferred, SendDropped, SendRejected, SendAnsweredByError,
             Advance, Reply, NetError, ErrorPacket, CorruptReply, LocalError
    <2>t. ntransmitted < SeqMod /\ rcvd \subseteq wire /\ wire \subseteq 1 .. ntransmitted
          /\ nreceived = Cardinality(rcvd)
      BY <2>m DEF CountsExact, StatTypeOK
    <2>n. ASSUME ntransmitted + 1 <= SeqMod
          PROVE  NextSeq \notin rcvd
      <3>1. CASE ntransmitted + 1 < SeqMod
        BY <2>m, <2>t, <3>1, U16Type DEF NextSeq, Slots
      <3>2. CASE ntransmitted + 1 = SeqMod
        BY <2>m, <2>t, <3>2, U16Edges DEF NextSeq
      <3>3. QED BY <2>m, <2>n, <3>1, <3>2
    <2>a. ASSUME rcvd' = rcvd \ {NextSeq}, wire \subseteq wire', UNCHANGED nreceived
          PROVE  rcvd' \subseteq wire' /\ nreceived' = Cardinality(rcvd')
      <3>1. rcvd' = rcvd
        BY <2>a, <2>m, <2>t, <2>n
      <3>2. QED BY <2>a, <2>t, <3>1
    <2>1. ASSUME \/ SendProbe \/ SendDropped \/ SendRejected \/ SendDeferred
                 \/ \E n \in wire \cup {ntransmitted + 1} : SendAnsweredByError(n)
          PROVE  rcvd' \subseteq wire' /\ nreceived' = Cardinality(rcvd')
      BY <2>1, <2>a DEF SendProbe, SendDropped, SendRejected, SendDeferred,
                        SendAnsweredByError, Advance
    <2>2. ASSUME NEW n \in wire, Reply(n)
          PROVE  rcvd' \subseteq wire' /\ nreceived' = Cardinality(rcvd')
      <3>1. n \in Slots
        BY <2>m, <2>t DEF Slots
      <3>2. U16(n) = n
        BY <3>1, U16Type
      <3>3. CASE n \in rcvd
        BY <2>2, <2>t, <3>2, <3>3 DEF Reply
      <3>4. CASE n \notin rcvd
        <4>1. rcvd' = rcvd \cup {n} /\ nreceived' = nreceived + 1 /\ UNCHANGED wire
          BY <2>2, <3>2, <3>4 DEF Reply
        <4>2. IsFiniteSet(rcvd)
          <5>1. IsFiniteSet(1 .. ntransmitted)
            BY <2>m, FS_Interval
          <5>2. QED BY <2>t, <5>1, FS_Subset
        <4>3. Cardinality(rcvd') = Cardinality(rcvd) + 1
          BY <3>4, <4>1, <4>2, FS_AddElement
        <4>4. QED BY <2>t, <4>1, <4>3
      <3>5. QED BY <3>3, <3>4
    <2>3. ASSUME \/ \E n \in wire : NetError(n) \/ ErrorPacket(n)
                 \/ CorruptReply \/ LocalError \/ UNCHANGED statVars
          PROVE  rcvd' \subseteq wire' /\ nreceived' = Cardinality(rcvd')
      BY <2>3, <2>t DEF NetError, ErrorPacket, CorruptReply, LocalError, statVars
    <2>4. QED
      BY <2>1, <2>2, <2>3 DEF StatNext, Sending, Receiving
  <1>3. QED BY <1>1, <1>2, StatTypeCorrect, PTL DEF StatSpec

---------------------------------------------------------------------------
(***************************************************************************)
(* The main loop                                                           *)
(***************************************************************************)

\* Every step of the loop is a step of the bookkeeping or leaves it alone.
LEMMA LoopStepIsStatStep ==
    ASSUME [Next]_vars
    PROVE  [StatNext]_statVars
  <1>1. CASE Leave \/ Continue
    BY <1>1 DEF Leave, Continue
  <1>2. CASE PingerIdle \/ PingerLimited \/ PingerGo
    BY <1>2 DEF PingerIdle, PingerLimited, PingerGo
  <1>3. CASE PingerNoBuffers \/ PingerAgain \/ PingerResend
    BY <1>3 DEF PingerNoBuffers, PingerAgain, PingerResend, StatNext, Sending
  <1>4. CASE SendDone
    BY <1>4 DEF SendDone, PingerSent, PingerStuck, PingerFailed, StatNext, Sending
  <1>5. CASE PollTimeout \/ PollReady \/ RecvNothing \/ RecvNotOurs
    BY <1>5 DEF PollTimeout, PollReady, RecvNothing, RecvNotOurs
  <1>6. CASE RecvReply \/ RecvOther
    BY <1>6 DEF RecvReply, RecvOther, StatNext, Receiving
  <1>7. CASE Signals \/ Refill \/ Ended \/ UNCHANGED vars
    BY <1>7 DEF Signals, Interrupt, Alarm, StatusRequest, Refill, Ended, vars
  <1>8. QED
    BY <1>1, <1>2, <1>3, <1>4, <1>5, <1>6, <1>7 DEF Next, Pinger, Recv

\* main_loop() implements the bookkeeping of PingStats, so that everything
\* proved of the bookkeeping holds in a running session.
THEOREM LoopImplementsStats == Spec => ImplementsStats
  <1>1. Init => StatInit
    BY DEF Init
  <1>2. [Next]_vars => [StatNext]_statVars
    BY LoopStepIsStatStep
  <1>3. QED BY <1>1, <1>2, PTL DEF Spec, StatSpec, ImplementsStats

\* In particular the summary of a session never claims more answers than
\* probes.
COROLLARY LoopReceivedBounded == Spec => []ReceivedNeverExceedsSent
  BY LoopImplementsStats, ReceivedBounded, PTL DEF ImplementsStats

---------------------------------------------------------------------------
(***************************************************************************)
(* -c.  pinger() is at sendto() only while the count is not yet reached,   *)
(* and only a completed send changes the counter.                          *)
(***************************************************************************)

SentInv ==
    /\ ntransmitted \in Nat
    /\ NeverOversends
    /\ pc = "send" => ~Enough(ntransmitted)

\* schedule_exit() never leads straight to sendto().
LEMMA ScheduleExitTargets ==
    ASSUME NEW p, ScheduleExit(p)
    PROVE  pc' \in {"wait", "pinger"}
  BY DEF ScheduleExit

\* -c without -w never oversends, whatever the interval and the grace period
\* are, however sends fail and whenever signals arrive.
THEOREM CountIsKept == Spec => []NeverOversends
  <1> USE LoopAssumption
  <1>1. Init => SentInv
    BY DEF Init, StatInit, SentInv, NeverOversends, Enough
  <1>2. SentInv /\ [Next]_vars => SentInv'
    <2> SUFFICES ASSUME SentInv, [Next]_vars
                 PROVE  SentInv'
      OBVIOUS
    <2>a. ASSUME UNCHANGED ntransmitted,
                 pc' = "send" => pc = "send" \/ ~Enough(ntransmitted)
          PROVE  SentInv'
      BY <2>a DEF SentInv, NeverOversends, Enough
    <2>b. ASSUME pc = "send", NEW ack, Advance(ack), NEW p, ScheduleExit(p)
          PROVE  SentInv'
      <3>1. pc' # "send"
        BY <2>b, ScheduleExitTargets
      <3>2. ntransmitted' = ntransmitted + 1 /\ ~Enough(ntransmitted)
        BY <2>b DEF Advance, SentInv
      <3>3. QED BY <3>1, <3>2 DEF SentInv, NeverOversends, Enough
    <2>1. CASE Leave \/ Continue
      BY <2>1, <2>a DEF Leave, Continue, statVars
    <2>2. CASE PingerIdle
      BY <2>2, <2>a, ScheduleExitTargets DEF PingerIdle, statVars
    <2>3. CASE PingerLimited \/ PingerGo
      BY <2>3, <2>a DEF PingerLimited, PingerGo, statVars
    <2>4. CASE PingerNoBuffers \/ PingerAgain \/ PingerResend
      BY <2>4, <2>a DEF PingerNoBuffers, PingerAgain, PingerResend, SendDeferred
    <2>5. CASE PingerSent
      BY <2>5, <2>b DEF PingerSent, SendProbe
    <2>6. CASE PingerStuck
      BY <2>6, <2>b DEF PingerStuck, SendDropped, HardError
    <2>7. CASE PingerFailed
      BY <2>7, <2>b DEF PingerFailed, SendDropped, SendRejected,
                        SendAnsweredByError, HardError
    <2>8. CASE PollTimeout \/ PollReady \/ RecvNothing
      BY <2>8, <2>a DEF PollTimeout, PollReady, RecvNothing, statVars
    <2>9. ASSUME RecvReply \/ RecvOther \/ RecvNotOurs
          PROVE  SentInv'
      <3>1. pc' # "send"
        BY <2>9 DEF RecvReply, RecvOther, RecvNotOurs, AfterMessage
      <3>2. ntransmitted' = ntransmitted
        BY <2>9 DEF RecvReply, RecvOther, RecvNotOurs, Reply, NetError, ErrorPacket,
                    CorruptReply, LocalError, statVars
      <3>3. QED BY <3>1, <3>2, <2>a
    <2>10. CASE Signals \/ Refill \/ Ended \/ UNCHANGED vars
      BY <2>10, <2>a DEF Signals, Interrupt, Alarm, StatusRequest, Refill, Ended,
                         vars, ctlVars, statVars
    <2>11. QED
      BY <2>1, <2>2, <2>3, <2>4, <2>5, <2>6, <2>7, <2>8, <2>9, <2>10
         DEF Next, Pinger, SendDone, Recv
  <1>3. SentInv => NeverOversends
    BY DEF SentInv
  <1>4. QED BY <1>1, <1>2, <1>3, PTL DEF Spec

---------------------------------------------------------------------------
(***************************************************************************)
(* The exit status.  main_loop() is left from its head only, and nothing   *)
(* changes afterwards, so that finish() and the reason for leaving still   *)
(* describe the final counters.                                            *)
(***************************************************************************)

LeftInv ==
    pc = "done" => /\ exitcode = finish
                   /\ exiting \/ AllAccounted \/ (Deadline /\ nerrors > 0)

\* A session that ended keeps its reason and its verdict.
THEOREM EndIsFinal == Spec => []LeftInv
  <1>1. Init => LeftInv
    BY DEF Init, LeftInv
  <1>2. LeftInv /\ [Next]_vars => LeftInv'
    <2> SUFFICES ASSUME LeftInv, [Next]_vars
                 PROVE  LeftInv'
      OBVIOUS
    <2>a. ASSUME pc' # "done"
          PROVE  LeftInv'
      BY <2>a DEF LeftInv
    <2>b. ASSUME UNCHANGED vars
          PROVE  LeftInv'
      BY <2>b DEF LeftInv, vars, ctlVars, statVars, finish, AllAccounted
    <2>1. CASE Leave
      BY <2>1 DEF Leave, LeftInv, statVars, finish, AllAccounted
    <2>2. CASE Continue \/ PingerLimited \/ PingerGo \/ PingerNoBuffers \/ PingerAgain
      BY <2>2, <2>a DEF Continue, PingerLimited, PingerGo, PingerNoBuffers, PingerAgain
    <2>3. CASE PingerIdle \/ PingerSent \/ PingerStuck \/ PingerFailed
      BY <2>3, <2>a, ScheduleExitTargets
         DEF PingerIdle, PingerSent, PingerStuck, PingerFailed, HardError
    <2>4. CASE PingerResend
      BY <2>4, <2>a DEF PingerResend, ctlVars
    <2>5. CASE PollTimeout \/ PollReady \/ RecvNothing
      BY <2>5, <2>a DEF PollTimeout, PollReady, RecvNothing
    <2>6. CASE RecvReply \/ RecvOther \/ RecvNotOurs
      BY <2>6, <2>a DEF RecvReply, RecvOther, RecvNotOurs, AfterMessage
    <2>7. CASE Signals \/ Refill
      BY <2>7, <2>a DEF Signals, Interrupt, Alarm, StatusRequest, Refill
    <2>8. CASE Ended \/ UNCHANGED vars
      BY <2>8, <2>b DEF Ended
    <2>9. QED
      BY <2>1, <2>2, <2>3, <2>4, <2>5, <2>6, <2>7, <2>8
         DEF Next, Pinger, SendDone, Recv
  <1>3. QED BY <1>1, <1>2, PTL DEF Spec

\* Until the sequence number wraps, nreceived is the number of different
\* probes that left the host and were answered.
LEMMA AnsweredIsReceived ==
    ASSUME StatTypeOK, CountsExact, ntransmitted < SeqMod
    PROVE  /\ nreceived = Cardinality(Answered)
           /\ nreceived = 0 <=> Answered = {}
  <1> USE SeqModAssumption, StatsAssumption
  <1>1. ntransmitted \in Nat /\ wire \subseteq 1 .. ntransmitted
    BY DEF StatTypeOK
  <1>2. \A n \in wire : U16(n) = n
    BY <1>1, U16Type DEF Slots
  <1>3. Answered = rcvd
    BY <1>2 DEF Answered, CountsExact
  <1>4. IsFiniteSet(rcvd)
    <2>1. IsFiniteSet(1 .. ntransmitted)
      BY <1>1, FS_Interval
    <2>2. QED BY <1>1, <2>1, FS_Subset DEF CountsExact
  <1>5. Cardinality(rcvd) = 0 <=> rcvd = {}
    BY <1>4, FS_EmptySet
  <1>6. QED BY <1>3, <1>5 DEF CountsExact

\* What main_loop() left behind is what finish() looks at, so that its status and
\* the loop's reasons to stop speak of different probes.
LEMMA EndMeaning ==
    ASSUME StatTypeOK, CountsExact, LeftInv, ntransmitted < SeqMod
    PROVE  ExitStatusMeaning /\ CleanEndIsComplete
  <1> USE StatsAssumption, LoopAssumption
  <1>1. nreceived = Cardinality(Answered) /\ (nreceived = 0 <=> Answered = {})
    BY AnsweredIsReceived
  <1>2. nreceived \in Nat /\ nerrors \in Nat
    BY DEF StatTypeOK
  <1>3. pc = "done" => exitcode = finish
    BY DEF LeftInv
  <1>4. finish = 0 <=> nreceived # 0 /\ (Deadline => nreceived >= Npackets)
    BY <1>2 DEF finish
  <1>5. ExitStatusMeaning
    BY <1>1, <1>3, <1>4 DEF ExitStatusMeaning
  <1>6. ASSUME pc = "done", ~exiting, nerrors = 0
        PROVE  Npackets > 0 /\ nreceived >= Npackets
    BY <1>2, <1>6 DEF LeftInv, AllAccounted
  <1>7. CleanEndIsComplete
    BY <1>1, <1>2, <1>3, <1>4, <1>6 DEF CleanEndIsComplete
  <1>8. QED BY <1>5, <1>7

\* The exit status says what the user reads into it, until the sequence number
\* wraps: 0 promises an answered probe and, with -w and -c, `count' different
\* ones (finish()).
THEOREM ExitIsHonest == Spec => [](ntransmitted < SeqMod => ExitStatusMeaning)
  <1>1. StatTypeOK /\ CountsExact /\ LeftInv => (ntransmitted < SeqMod => ExitStatusMeaning)
    BY EndMeaning
  <1>2. StatSpec => []StatTypeOK /\ []CountsExact
    BY StatTypeCorrect, CountsAreExact
  <1>3. QED
    BY <1>1, <1>2, EndIsFinal, LoopImplementsStats, PTL DEF ImplementsStats

\* A session that ended by itself, without an error, got answers to `count'
\* different probes (main_loop()).
THEOREM CleanEndsAreComplete == Spec => [](ntransmitted < SeqMod => CleanEndIsComplete)
  <1>1. StatTypeOK /\ CountsExact /\ LeftInv => (ntransmitted < SeqMod => CleanEndIsComplete)
    BY EndMeaning
  <1>2. StatSpec => []StatTypeOK /\ []CountsExact
    BY StatTypeCorrect, CountsAreExact
  <1>3. QED
    BY <1>1, <1>2, EndIsFinal, LoopImplementsStats, PTL DEF ImplementsStats

---------------------------------------------------------------------------
(***************************************************************************)
(* The exit timer.  Every way out of pinger() passes schedule_exit(),      *)
(* which starts the timer the first time it finds the count reached; and   *)
(* once waittime is set the timer runs until its signal sets `exiting',    *)
(* which stays set.                                                        *)
(***************************************************************************)

TimedInv ==
    /\ ntransmitted \in Nat /\ tmax \in Nat
    /\ pc = "send" => ~Enough(ntransmitted)
    /\ waittime # 0 => timer = "exit" \/ exiting
    /\ WaitIsTimed

\* A nonzero interval and -W make the grace period nonzero.
LEMMA GracePositive ==
    ASSUME Interval > 0, LingerTime > 0, tmax \in Nat
    PROVE  GracePeriod \in Nat /\ GracePeriod > 0
  BY LoopAssumption DEF GracePeriod

\* schedule_exit() leaves no unlimited wait behind.
LEMMA ScheduleExitTimes ==
    ASSUME Interval > 0, LingerTime > 0, TimedInv, NEW p, ScheduleExit(p),
           UNCHANGED exiting
    PROVE  /\ Enough(ntransmitted') => timer' = "exit" \/ exiting'
           /\ waittime' # 0 => timer' = "exit" \/ exiting'
           /\ pc' # "send"
  <1>1. GracePeriod \in Nat /\ GracePeriod > 0
    BY GracePositive DEF TimedInv
  <1>2. Armed(GracePeriod) = "exit"
    BY <1>1 DEF Armed
  <1> HIDE DEF GracePeriod
  <1>3. QED BY <1>1, <1>2 DEF ScheduleExit, TimedInv

\* Once the count is reached the wait for the last replies is limited, provided
\* neither -f without -i (interval 0) nor -W 0 makes the grace period zero.
THEOREM WaitAlwaysTimed ==
    ASSUME Interval > 0, LingerTime > 0
    PROVE  Spec => []WaitIsTimed
  <1> USE LoopAssumption
  <1>1. Init => TimedInv
    BY DEF Init, StatInit, TimedInv, Enough, WaitIsTimed
  <1>2. TimedInv /\ [Next]_vars => TimedInv'
    <2> SUFFICES ASSUME TimedInv, [Next]_vars
                 PROVE  TimedInv'
      OBVIOUS
    <2>a. ASSUME ntransmitted' \in Nat, tmax' \in Nat, UNCHANGED exiting,
                 NEW p, ScheduleExit(p)
          PROVE  TimedInv'
      BY <2>a, ScheduleExitTimes DEF TimedInv, WaitIsTimed, Enough
    <2>b. ASSUME UNCHANGED <<ntransmitted, tmax, exiting, timer, waittime>>,
                 pc' = "send" => ~Enough(ntransmitted),
                 pc = "send" \/ pc = "done" => ~Enough(ntransmitted) \/ pc' = "done"
          PROVE  TimedInv'
      BY <2>b DEF TimedInv, WaitIsTimed, Enough
    <2>c. ASSUME pc = "send", Advance(acked) \/ \E ack : Advance(ack)
          PROVE  ntransmitted' \in Nat
      BY <2>c DEF TimedInv, Advance
    <2>1. CASE Leave \/ Continue
      BY <2>1, <2>b DEF Leave, Continue, statVars
    <2>2. CASE PingerIdle
      BY <2>2, <2>a DEF PingerIdle, statVars, TimedInv
    <2>3. CASE PingerLimited \/ PingerGo
      BY <2>3, <2>b DEF PingerLimited, PingerGo, statVars
    <2>4. CASE PingerNoBuffers \/ PingerAgain \/ PingerResend
      BY <2>4, <2>b DEF PingerNoBuffers, PingerAgain, PingerResend, SendDeferred,
                        ctlVars, TimedInv
    <2>5. CASE PingerSent
      <3>1. ntransmitted' \in Nat
        BY <2>5, <2>c DEF PingerSent, SendProbe
      <3>2. QED BY <2>5, <3>1, <2>a DEF PingerSent, TimedInv
    <2>6. CASE PingerStuck \/ PingerFailed
      <3>1. ntransmitted' \in Nat
        BY <2>6, <2>c DEF PingerStuck, PingerFailed, SendDropped, SendRejected,
                          SendAnsweredByError
      <3>2. QED BY <2>6, <3>1, <2>a DEF PingerStuck, PingerFailed, HardError, TimedInv
    <2>7. CASE PollTimeout \/ PollReady \/ RecvNothing
      BY <2>7, <2>b DEF PollTimeout, PollReady, RecvNothing, statVars
    <2>8. ASSUME RecvReply \/ RecvOther \/ RecvNotOurs
          PROVE  TimedInv'
      <3>1. pc = "recv" /\ AfterMessage
        BY <2>8 DEF RecvReply, RecvOther, RecvNotOurs
      <3>2. ntransmitted' = ntransmitted
        BY <2>8 DEF RecvReply, RecvOther, RecvNotOurs, Reply, NetError, ErrorPacket,
                    CorruptReply, LocalError, statVars
      <3>3. tmax' \in Nat
        BY <2>8 DEF RecvReply, RecvOther, RecvNotOurs, TimedInv
      <3>4. pc' \in {"top", "recv"} /\ UNCHANGED <<exiting, timer, waittime>>
        BY <3>1 DEF AfterMessage
      <3>5. QED BY <3>1, <3>2, <3>3, <3>4
                DEF TimedInv, WaitIsTimed, Enough
    <2>9. CASE Signals
      BY <2>9 DEF Signals, Interrupt, Alarm, StatusRequest, statVars, TimedInv,
                  WaitIsTimed, Enough
    <2>10. CASE Refill \/ Ended \/ UNCHANGED vars
      BY <2>10 DEF Refill, Ended, vars, ctlVars, statVars, TimedInv, WaitIsTimed, Enough
    <2>11. QED
      BY <2>1, <2>2, <2>3, <2>4, <2>5, <2>6, <2>7, <2>8, <2>9, <2>10
         DEF Next, Pinger, SendDone, Recv
  <1>3. TimedInv => WaitIsTimed
    BY DEF TimedInv
  <1>4. QED BY <1>1, <1>2, <1>3, PTL DEF Spec
---------------------------------------------------------------------------
(***************************************************************************)
(* Types of the control state.                                             *)
(***************************************************************************)

ControlOK ==
    /\ pc \in {"top", "pinger", "send", "wait", "recv", "done"}
    /\ exiting \in BOOLEAN /\ status_snapshot \in BOOLEAN /\ credit \in BOOLEAN
    /\ timer \in {"off", "exit", "deadline"}
    /\ waittime \in Nat /\ tmax \in Nat /\ oom_count \in Nat
    /\ exitcode \in {-1, 0, 1}

\* The exit status is 0 or 1 once the loop is left, the statics of pinger() and
\* __schedule_exit() do not become negative, and the bookkeeping has its types
\* because the loop implements it.
THEOREM LoopTypes == Spec => []LoopTypeOK
  <1> USE LoopAssumption
  <1>1. Init => ControlOK
    <2> SUFFICES ASSUME Init PROVE ControlOK
      OBVIOUS
    <2>1. timer \in {"off", "exit", "deadline"}
      BY DEF Init
    <2>2. exiting \in BOOLEAN /\ status_snapshot \in BOOLEAN /\ credit \in BOOLEAN
      BY DEF Init
    <2>3. /\ pc = "top" /\ waittime = 0 /\ tmax = 0 /\ oom_count = 0
          /\ exitcode = -1
      BY DEF Init
    <2>4. QED BY <2>1, <2>2, <2>3 DEF ControlOK
  <1>2. ControlOK /\ [Next]_vars => ControlOK'
    <2> SUFFICES ASSUME ControlOK, [Next]_vars
                 PROVE  ControlOK'
      OBVIOUS
    <2>a. ASSUME NEW p, ScheduleExit(p)
          PROVE  pc' \in {"wait", "pinger"} /\ waittime' \in Nat
                 /\ timer' \in {"off", "exit", "deadline"}
      <3>1. GracePeriod \in Nat
        BY DEF GracePeriod, ControlOK
      <3> HIDE DEF GracePeriod
      <3>2. QED BY <2>a, <3>1 DEF ScheduleExit, Armed, ControlOK
    <2>1. CASE Leave \/ Continue
      BY <2>1 DEF Leave, Continue, finish, ControlOK
    <2>2. CASE PingerIdle
      BY <2>2, <2>a DEF PingerIdle, ControlOK
    <2>3. CASE PingerLimited \/ PingerGo
      BY <2>3 DEF PingerLimited, PingerGo, ControlOK
    <2>4. CASE PingerNoBuffers \/ PingerAgain \/ PingerResend
      <3>1. credit' \in BOOLEAN
        <4>1. credit' \in {FALSE, Interval = 0} \/ credit' = credit
          BY <2>4 DEF PingerNoBuffers, PingerAgain, PingerResend, ctlVars
        <4>2. credit \in BOOLEAN
          BY DEF ControlOK
        <4>3. (Interval = 0) \in BOOLEAN
          OBVIOUS
        <4>4. QED BY <4>1, <4>2, <4>3, Zenon
      <3>2. pc' \in {"wait", "send"}
        BY <2>4 DEF PingerNoBuffers, PingerAgain, PingerResend, ctlVars
      <3>3. oom_count' \in {oom_count, oom_count + 1}
        BY <2>4 DEF PingerNoBuffers, PingerAgain, PingerResend, ctlVars
      <3>4. UNCHANGED <<exiting, status_snapshot, timer, waittime, tmax, exitcode>>
        BY <2>4 DEF PingerNoBuffers, PingerAgain, PingerResend, ctlVars
      <3>5. QED BY <3>1, <3>2, <3>3, <3>4 DEF ControlOK
    <2>5. CASE PingerSent
      <3>1. credit' \in BOOLEAN /\ oom_count' = 0
            /\ UNCHANGED <<exiting, status_snapshot, tmax, exitcode>>
        BY <2>5 DEF PingerSent
      <3>2. QED BY <2>5, <2>a, <3>1 DEF PingerSent, ControlOK
    <2>6. CASE PingerStuck \/ PingerFailed
      <3>1. HardError
        BY <2>6 DEF PingerStuck, PingerFailed
      <3>2. oom_count' \in Nat
        BY <2>6 DEF PingerStuck, PingerFailed, ControlOK
      <3>3. ScheduleExit(TRUE) /\ UNCHANGED <<exiting, status_snapshot, tmax, exitcode>>
        BY <3>1 DEF HardError
      <3>4. credit' \in BOOLEAN
        BY <3>1 DEF HardError
      <3>5. QED BY <2>a, <3>2, <3>3, <3>4 DEF ControlOK
    <2>7. CASE PollTimeout \/ PollReady \/ RecvNothing
      BY <2>7 DEF PollTimeout, PollReady, RecvNothing, ControlOK
    <2>8. ASSUME RecvReply \/ RecvOther \/ RecvNotOurs
          PROVE  ControlOK'
      <3>1. AfterMessage
        BY <2>8 DEF RecvReply, RecvOther, RecvNotOurs
      <3>2. tmax' \in Nat
        BY <2>8 DEF RecvReply, RecvOther, RecvNotOurs, ControlOK
      <3>3. pc' \in {"top", "recv"}
        BY <3>1 DEF AfterMessage
      <3>4. QED BY <3>1, <3>2, <3>3 DEF AfterMessage, ControlOK
    <2>9. CASE Signals
      BY <2>9 DEF Signals, Interrupt, Alarm, StatusRequest, ControlOK
    <2>10. CASE Refill \/ Ended \/ UNCHANGED vars
      BY <2>10 DEF Refill, Ended, vars, ctlVars, ControlOK
    <2>11. QED
      BY <2>1, <2>2, <2>3, <2>4, <2>5, <2>6, <2>7, <2>8, <2>9, <2>10
         DEF Next, Pinger, SendDone, Recv
  <1>3. ControlOK /\ StatTypeOK => LoopTypeOK
    BY DEF ControlOK, LoopTypeOK
  <1>4. QED
    BY <1>1, <1>2, <1>3, LoopImplementsStats, StatTypeCorrect, PTL
       DEF Spec, ImplementsStats

(***************************************************************************)
(* Why a session ends after a signal                                       *)
(***************************************************************************)

\* How far the loop is from its end once `exiting' is set.
Distance ==
    CASE pc = "send" -> 5 [] pc = "pinger" -> 4 [] pc = "wait" -> 3
      [] pc = "recv" -> 2 [] pc = "top" -> 1 [] OTHER -> 0

\* Nothing takes the flag back, and the loop is not entered again: each step
\* brings it nearer to its end, except that a message may be taken, sendto() be
\* repeated for an error of someone else's, a signal arrive or time pass.  At most
\* the probe that is at sendto() already is still sent.  This is ExitingEnds up
\* to fairness.
LastRound ==
    /\ exiting'
    /\ Distance' < Distance \/ (Distance' = Distance /\ (PingerResend \/ Recv \/ Signals \/ Refill))
    /\ ntransmitted' # ntransmitted => pc = "send" /\ Distance' < Distance

\* The session is in its last round of main_loop() from the moment that a signal
\* handler sets `exiting' (sigexit(), the head of the loop and pinger()).
THEOREM ExitingIsLastRound == Spec => [][exiting => LastRound]_vars
  <1>1. exiting /\ Next => LastRound \/ UNCHANGED vars
    <2> SUFFICES ASSUME exiting, Next PROVE LastRound \/ UNCHANGED vars
      OBVIOUS
    <2>a. ASSUME NEW p, ScheduleExit(p) PROVE pc' \in {"wait", "pinger"}
      BY <2>a DEF ScheduleExit
    <2>1. CASE Leave
      BY <2>1 DEF Leave, LastRound, Distance, statVars
    <2>2. ~Continue /\ ~PingerLimited /\ ~PingerGo
      BY DEF Continue, PingerLimited, PingerGo
    <2>3. CASE PingerIdle
      <3>1. ScheduleExit(TRUE) /\ pc = "pinger" /\ exiting' = exiting /\ ntransmitted' = ntransmitted
        BY <2>3 DEF PingerIdle, statVars
      <3>2. pc' = "wait"
        BY <3>1 DEF ScheduleExit
      <3>3. QED BY <3>1, <3>2 DEF LastRound, Distance
    <2>4. CASE PingerNoBuffers \/ PingerAgain
      <3>1. pc = "send" /\ pc' = "wait" /\ exiting' = exiting
        BY <2>4 DEF PingerNoBuffers, PingerAgain
      <3>2. QED BY <3>1 DEF LastRound, Distance
    <2>5. CASE PingerResend
      <3>1. UNCHANGED <<pc, exiting, ntransmitted>>
        BY <2>5 DEF PingerResend, SendDeferred, ctlVars
      <3>2. QED BY <2>5, <3>1 DEF LastRound, Distance
    <2>6. CASE PingerSent
      <3>1. pc = "send" /\ pc' \in {"wait", "pinger"} /\ exiting' = exiting
        BY <2>6, <2>a DEF PingerSent
      <3>2. QED BY <3>1 DEF LastRound, Distance
    <2>7. CASE PingerStuck \/ PingerFailed
      <3>1. pc = "send" /\ HardError
        BY <2>7 DEF PingerStuck, PingerFailed
      <3>2. pc' \in {"wait", "pinger"} /\ exiting' = exiting
        BY <3>1, <2>a DEF HardError
      <3>3. QED BY <3>1, <3>2 DEF LastRound, Distance
    <2>8. CASE PollTimeout \/ PollReady \/ RecvNothing
      <3>1. /\ \/ pc = "wait" /\ pc' \in {"top", "recv"}
               \/ pc = "recv" /\ pc' = "top"
            /\ exiting' = exiting /\ ntransmitted' = ntransmitted
        BY <2>8 DEF PollTimeout, PollReady, RecvNothing, statVars
      <3>2. QED BY <3>1 DEF LastRound, Distance
    <2>9. CASE RecvReply \/ RecvOther \/ RecvNotOurs
      <3>1. pc = "recv" /\ AfterMessage
        BY <2>9 DEF RecvReply, RecvOther, RecvNotOurs
      <3>2. pc' \in {"top", "recv"} /\ exiting' = exiting
        BY <3>1 DEF AfterMessage
      <3>3. ntransmitted' = ntransmitted
        BY <2>9 DEF RecvReply, RecvOther, RecvNotOurs, Reply, NetError, ErrorPacket,
                    CorruptReply, LocalError, statVars
      <3>4. QED BY <2>9, <3>1, <3>2, <3>3 DEF LastRound, Distance, Recv
    <2>10. CASE Signals \/ Refill
      <3>1. pc' = pc /\ ntransmitted' = ntransmitted /\ (exiting' = exiting \/ exiting' = TRUE)
        BY <2>10 DEF Signals, Interrupt, Alarm, StatusRequest, Refill, statVars
      <3>2. QED BY <2>10, <3>1 DEF LastRound, Distance
    <2>11. CASE Ended
      BY <2>11 DEF Ended
    <2>12. QED
      BY <2>1, <2>2, <2>3, <2>4, <2>5, <2>6, <2>7, <2>8, <2>9, <2>10, <2>11
         DEF Next, Pinger, SendDone, Recv
  <1>2. QED BY <1>1, PTL DEF Spec
=============================================================================
