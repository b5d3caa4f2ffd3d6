-------------------------- MODULE PingJson_proofs --------------------------
(***************************************************************************)
(* Proofs about the JSON output of ping, for any number of pieces.         *)
(***************************************************************************)
EXTENDS PingJson, TLAPS

Tokens == {"open", "kv", "comma", "close", "line", "part"}

\* What belongs at place k of an object that is not closed yet.
Due(k) == IF k = 1 THEN "open" ELSE IF k % 2 = 0 THEN "kv" ELSE "comma"

\* The beginning of an object.  It may be closed if its length is even: the
\* last token is a member then, and not a comma.
Laid(b) ==
    /\ b \in Seq(Tokens) /\ Len(b) > 0
    /\ \A k \in 1 .. Len(b) : b[k] = Due(k)
Closable(b) == Laid(b) /\ Len(b) % 2 = 0

Parses(out_) ==
    /\ out_ \in Seq(Seq(Tokens))
    /\ \A k \in 1 .. Len(out_) : Text(out_[k]) \/ WellFormed(out_[k])

\* No line is left open.
Partless(out_) == \A k \in 1 .. Len(out_) : out_[k] # <<"part">>

---------------------------------------------------------------------------
(***************************************************************************)
(* The buffers                                                             *)
(***************************************************************************)

\* The token that is due lays one more place.
LEMMA DueLays ==
    ASSUME NEW b, Laid(b), NEW t, t = Due(Len(b) + 1)
    PROVE  Laid(Append(b, t)) /\ Len(Append(b, t)) = Len(b) + 1
  <1>1. b \in Seq(Tokens) /\ Len(b) \in Nat \ {0}
    BY DEF Laid
  <1>2. t \in Tokens
    BY DEF Due, Tokens
  <1>3. PICK c : c = Append(b, t)
    OBVIOUS
  <1>4. /\ c \in Seq(Tokens) /\ Len(c) = Len(b) + 1
        /\ \A k \in 1 .. Len(b) : c[k] = b[k]
        /\ c[Len(b) + 1] = t
    BY <1>1, <1>2, <1>3
  <1>5. \A k \in 1 .. Len(c) : c[k] = Due(k)
    BY <1>1, <1>4 DEF Laid
  <1>6. QED BY <1>1, <1>3, <1>4, <1>5 DEF Laid

\* A member after a comma or the brace, a comma after a member.
LEMMA MemberLays ==
    ASSUME NEW b, Laid(b), Len(b) % 2 = 1
    PROVE  Closable(json_kv(b))
  <1>1. Len(b) \in Nat
    BY DEF Laid
  <1>2. "kv" = Due(Len(b) + 1)
    BY <1>1 DEF Due
  <1>3. Laid(Append(b, "kv")) /\ Len(Append(b, "kv")) = Len(b) + 1
    BY <1>2, DueLays
  <1>4. (Len(b) + 1) % 2 = 0
    BY <1>1
  <1>5. QED BY <1>3, <1>4 DEF Closable, json_kv

\* A member may be followed by a comma; the object is open then.
LEMMA CommaLays ==
    ASSUME NEW b, Closable(b)
    PROVE  Laid(json_continue(b)) /\ Len(json_continue(b)) % 2 = 1
  <1>1. Len(b) \in Nat /\ Laid(b) /\ Len(b) > 0 /\ Len(b) % 2 = 0
    BY DEF Closable, Laid
  <1>2. "comma" = Due(Len(b) + 1)
    BY <1>1 DEF Due
  <1>3. Laid(Append(b, "comma")) /\ Len(Append(b, "comma")) = Len(b) + 1
    BY <1>1, <1>2, DueLays
  <1>4. (Len(b) + 1) % 2 = 1
    BY <1>1
  <1>5. QED BY <1>3, <1>4 DEF json_continue

\* An object starts with a brace and is open.
LEMMA BraceLays == Laid(<<"open">>) /\ Len(<<"open">>) % 2 = 1
  <1>1. PICK b : b = <<"open">>
    OBVIOUS
  <1>2. "open" \in Tokens
    BY DEF Tokens
  <1>3. b \in Seq(Tokens) /\ Len(b) = 1 /\ b[1] = "open"
    BY <1>1, <1>2
  <1>4. Laid(b)
    BY <1>3 DEF Laid, Due
  <1>5. QED BY <1>1, <1>3, <1>4

\* json_kv_continue() leaves a comma as it found one.
LEMMA ContinueLays ==
    ASSUME NEW b, Laid(b), Len(b) % 2 = 1
    PROVE  Laid(json_kv_continue(b)) /\ Len(json_kv_continue(b)) % 2 = 1
  BY MemberLays, CommaLays DEF json_kv_continue

\* construct_json() makes a buffer closable.
LEMMA ConstructLays ==
    ASSUME NEW b, b = <<>> \/ Closable(b)
    PROVE  Closable(construct_json(b))
  <1>1. CASE b = <<>>
    BY <1>1, BraceLays, MemberLays DEF construct_json
  <1>2. CASE b # <<>>
    BY <1>2, CommaLays, MemberLays DEF construct_json
  <1>3. QED BY <1>1, <1>2

\* A closed object parses, and is no text.
LEMMA ClosedParses ==
    ASSUME NEW b, Laid(b)
    PROVE  /\ Append(b, "close") \in Seq(Tokens)
           /\ ~Text(Append(b, "close"))
           /\ Len(b) % 2 = 0 => WellFormed(Append(b, "close"))
  <1>1. PICK n \in Nat \ {0} : n = Len(b) /\ b \in Seq(Tokens)
    BY DEF Laid
  <1>2. PICK t \in Tokens : t = "close"
    BY DEF Tokens
  <1>3. PICK c : c = Append(b, t)
    OBVIOUS
  <1>4. /\ c \in Seq(Tokens) /\ Len(c) = n + 1
        /\ \A k \in 1 .. n : c[k] = b[k]
        /\ c[n + 1] = t
    BY <1>1, <1>3
  <1>5. ~Text(c)
    <2>1. Len(<<"line">>) = 1 /\ Len(<<"part">>) = 1
      OBVIOUS
    <2>2. QED BY <1>1, <1>4, <2>1 DEF Text
  <1>6. ASSUME n % 2 = 0 PROVE WellFormed(c)
    <2>1. Len(c) >= 3 /\ Len(c) % 2 = 1
      BY <1>1, <1>4, <1>6
    <2>2. ASSUME NEW k \in 1 .. Len(c)
          PROVE  c[k] = CASE k = 1 -> "open"
                          [] k = Len(c) -> "close"
                          [] k % 2 = 0 -> "kv"
                          [] OTHER -> "comma"
      <3>1. CASE k = n + 1
        <4>1. k # 1 /\ k = Len(c) /\ c[k] = "close"
          BY <1>1, <1>2, <1>4, <3>1
        <4>2. k % 2 = 1
          BY <2>1, <4>1
        <4>3. QED BY <4>1, <4>2
      <3>2. CASE k # n + 1
        <4>1. k \in 1 .. n /\ k # Len(c)
          BY <1>1, <1>4, <3>2
        <4>2. c[k] = Due(k)
          BY <1>1, <1>4, <4>1 DEF Laid
        <4>3. QED BY <4>1, <4>2 DEF Due
      <3>3. QED BY <3>1, <3>2
    <2>3. QED BY <2>1, <2>2 DEF WellFormed
  <1>7. QED BY <1>1, <1>2, <1>3, <1>4, <1>5, <1>6

---------------------------------------------------------------------------
(***************************************************************************)
(* Standard output                                                         *)
(***************************************************************************)

\* Output that parses, or that leaves no line open, may be followed by more.
LEMMA JoinedParses ==
    ASSUME NEW a \in Seq(Seq(Tokens)), NEW b \in Seq(Seq(Tokens))
    PROVE  /\ a \o b \in Seq(Seq(Tokens))
           /\ Parses(a) /\ Parses(b) => Parses(a \o b)
           /\ Partless(a) /\ Partless(b) => Partless(a \o b)
  <1>1. PICK c : c = a \o b
    OBVIOUS
  <1>2. c \in Seq(Seq(Tokens)) /\ Len(c) = Len(a) + Len(b)
        /\ Len(a) \in Nat /\ Len(b) \in Nat
    BY <1>1
  <1>3. ASSUME NEW k \in 1 .. Len(c)
        PROVE  \/ k \in 1 .. Len(a) /\ c[k] = a[k]
               \/ k - Len(a) \in 1 .. Len(b) /\ c[k] = b[k - Len(a)]
    BY <1>1, <1>2
  <1>4. Parses(a) /\ Parses(b) => Parses(c)
    BY <1>2, <1>3 DEF Parses
  <1>5. Partless(a) /\ Partless(b) => Partless(c)
    BY <1>2, <1>3 DEF Partless
  <1>6. QED BY <1>1, <1>2, <1>4, <1>5

\* Text printed past the buffers.
LEMMA TextParses ==
    ASSUME NEW b \in BOOLEAN
    PROVE  /\ Line(b) \in Seq(Seq(Tokens)) /\ Parses(Line(b)) /\ Partless(Line(b))
           /\ Part(b) \in Seq(Seq(Tokens)) /\ Parses(Part(b))
           /\ ~b => Partless(Part(b))
  <1>1. <<"line">> \in Seq(Tokens) /\ <<"part">> \in Seq(Tokens)
        /\ <<"line">> # <<"part">>
    BY DEF Tokens
  <1>2. CASE b
    <2>1. Line(b) = <<<<"line">>>> /\ Part(b) = <<<<"part">>>>
      BY <1>2 DEF Line, Part
    <2>2. PICK l \in Seq(Tokens), p \in Seq(Tokens) : l = <<"line">> /\ p = <<"part">>
      BY <1>1
    <2>3. /\ <<l>> \in Seq(Seq(Tokens)) /\ Len(<<l>>) = 1 /\ <<l>>[1] = l
          /\ <<p>> \in Seq(Seq(Tokens)) /\ Len(<<p>>) = 1 /\ <<p>>[1] = p
      OBVIOUS
    <2>4. Text(l) /\ Text(p)
      BY <2>2 DEF Text
    <2>5. l # <<"part">>
      BY <1>1, <2>2
    <2>6. Parses(<<l>>) /\ Partless(<<l>>)
      BY <2>3, <2>4, <2>5 DEF Parses, Partless
    <2>7. Parses(<<p>>)
      BY <2>3, <2>4 DEF Parses
    <2>8. QED BY <1>2, <2>1, <2>2, <2>3, <2>6, <2>7
  <1>3. CASE ~b
    BY <1>3 DEF Line, Part, Parses, Partless
  <1>4. QED BY <1>2, <1>3

\* A buffer that is flushed.
LEMMA FlushedParses ==
    ASSUME NEW b, b = <<>> \/ Laid(b)
    PROVE  /\ Flushed(b) \in Seq(Seq(Tokens)) /\ Partless(Flushed(b))
           /\ b = <<>> \/ Len(b) % 2 = 0 => Parses(Flushed(b))
  <1>1. CASE b = <<>>
    BY <1>1 DEF Flushed, Partless, Parses
  <1>2. CASE b # <<>>
    <2>1. PICK c \in Seq(Tokens) : c = Append(b, "close")
      BY <1>2, ClosedParses
    <2>2. Flushed(b) = <<c>>
      BY <1>2, <2>1 DEF Flushed
    <2>3. <<c>> \in Seq(Seq(Tokens)) /\ Len(<<c>>) = 1 /\ <<c>>[1] = c
      OBVIOUS
    <2>4. ~Text(c) /\ (Len(b) % 2 = 0 => WellFormed(c))
      BY <1>2, <2>1, ClosedParses
    <2>5. c # <<"part">>
      BY <2>4 DEF Text
    <2>6. QED BY <1>2, <2>2, <2>3, <2>4, <2>5 DEF Partless, Parses
  <1>3. QED BY <1>1, <1>2

---------------------------------------------------------------------------
(***************************************************************************)
(* The session                                                             *)
(***************************************************************************)
Clean  == ~(opt.flood \/ opt.timestamp \/ opt.noisy \/ odd)
Ending == ~piped \/ ((opt.flood \/ opt.paced) /\ ntransmitted > 1)

\* Between two messages the packet buffer is empty; the statistics end in a
\* comma at "flood" exactly when "pipe" is their last member, and at "flush"
\* only if no other member follows it.
JsonInv ==
    /\ opt \in Options /\ nreceived \in BOOLEAN /\ piped \in BOOLEAN /\ odd \in BOOLEAN
    /\ ntransmitted \in 0 .. 2
    /\ json_packet = <<>>
    /\ out \in Seq(Seq(Tokens))
    /\ pc \in {"loop", "finish", "flood", "flush", "comment", "done"}
    /\ pc \notin {"comment", "done"} \/ Ending => Parses(out)
    /\ Clean => Partless(out)
    /\ pc \in {"loop", "finish"} => json_stats = <<>>
    /\ pc = "flood" /\ json_stats # <<>> =>
          /\ Laid(json_stats) /\ nreceived /\ opt.timing
          /\ Len(json_stats) % 2 = IF piped THEN 1 ELSE 0
    /\ pc = "flush" /\ json_stats # <<>> =>
          Laid(json_stats) /\ (Ending => Len(json_stats) % 2 = 0)

\* A step prints pieces that parse, and leaves a line open only in a session
\* where that may be.
Fits(more) == /\ more \in Seq(Seq(Tokens)) /\ Parses(more)
              /\ Clean' => Partless(more)
Prints == \E more : Fits(more) /\ out' = out \o more /\ json_packet' = <<>>

\* Pieces that fit may follow each other.
LEMMA JoinedFits ==
    ASSUME NEW a, NEW b, Fits(a), Fits(b)
    PROVE  Fits(a \o b)
  <1>1. a \in Seq(Seq(Tokens)) /\ b \in Seq(Seq(Tokens))
    BY DEF Fits
  <1>2. QED BY <1>1, JoinedParses DEF Fits

\* So do whole lines, a line left open where that may be, and a closed object.
LEMMA PiecesFit ==
    /\ \A b \in BOOLEAN : Fits(Line(b)) /\ ((b => ~Clean') => Fits(Part(b)))
    /\ \A b : b = <<>> \/ Closable(b) => Fits(Flushed(b))
  <1>1. ASSUME NEW b \in BOOLEAN
        PROVE  Fits(Line(b)) /\ ((b => ~Clean') => Fits(Part(b)))
    BY TextParses DEF Fits
  <1>2. ASSUME NEW b, b = <<>> \/ Closable(b)
        PROVE  Fits(Flushed(b))
    BY <1>2, FlushedParses DEF Fits, Closable
  <1>3. QED BY <1>1, <1>2

\* Text alone, and an error with an object of its own.
LEMMA SayPrints ==
    ASSUME JsonInv, NEW text, Fits(text), Say(text)
    PROVE  Prints
  BY DEF JsonInv, Say, Prints

LEMMA ErrorPrints ==
    ASSUME JsonInv, NEW text, Fits(text), ping_error(text)
    PROVE  Prints
  <1>1. PICK f : f = Flushed(construct_json(json_packet))
    OBVIOUS
  <1>2. Fits(f)
    BY <1>1, ConstructLays, PiecesFit DEF JsonInv
  <1>3. out' = out \o text \o f /\ json_packet' = <<>>
    BY <1>1 DEF ping_error
  <1>4. /\ out \in Seq(Seq(Tokens)) /\ text \in Seq(Seq(Tokens))
        /\ f \in Seq(Seq(Tokens))
    BY <1>2 DEF JsonInv, Fits
  <1>5. out \o text \o f = out \o (text \o f)
    BY <1>4
  <1>6. Fits(text \o f)
    BY <1>2, JoinedFits
  <1>7. QED BY <1>3, <1>5, <1>6 DEF Prints

\* A local error is an object, a letter with -f, or nothing.
LEMMA ReportPrints ==
    ASSUME JsonInv, UNCHANGED opt, NEW text, Fits(text), Report(text)
    PROVE  Prints
  <1>1. opt.quiet \in BOOLEAN /\ opt.flood \in BOOLEAN
    BY DEF JsonInv, Options
  <1>2. CASE opt.quiet \/ opt.flood
    <2>1. PICK b \in BOOLEAN : b = ~opt.quiet
      BY <1>1
    <2>2. b => ~Clean'
      BY <1>2, <2>1 DEF Clean
    <2>3. Fits(text \o Part(b))
      BY <2>2, PiecesFit, JoinedFits
    <2>4. Say(text \o Part(b))
      BY <1>2, <2>1 DEF Report
    <2>5. QED BY <2>3, <2>4, SayPrints
  <1>3. CASE ~(opt.quiet \/ opt.flood)
    <2>1. ping_error(text)
      BY <1>3 DEF Report
    <2>2. QED BY <2>1, ErrorPrints
  <1>4. QED BY <1>2, <1>3

\* An ICMP error is a whole line, a letter with -f, or nothing.
LEMMA IcmpFits ==
    ASSUME JsonInv, UNCHANGED opt
    PROVE  Fits(IcmpText)
  <1>1. Fits(Line(FALSE)) /\ Fits(Line(TRUE))
    BY PiecesFit
  <1>2. <<>> = Line(FALSE)
    BY DEF Line
  <1>3. opt.flood => Fits(Part(TRUE))
    <2>1. opt.flood => ~Clean'
      BY DEF Clean
    <2>2. QED BY <2>1, PiecesFit
  <1>4. QED BY <1>1, <1>2, <1>3 DEF IcmpText

\* A step of main_loop() keeps the invariant by what it prints.
LEMMA LoopKeeps ==
    ASSUME JsonInv, pc = "loop", Prints, odd => odd', UNCHANGED <<opt, json_stats, pc>>,
           nreceived' \in BOOLEAN, piped' \in BOOLEAN, odd' \in BOOLEAN,
           ntransmitted' \in 0 .. 2
    PROVE  JsonInv'
  <1>1. PICK more : Fits(more) /\ out' = out \o more /\ json_packet' = <<>>
    BY DEF Prints
  <1>2. more \in Seq(Seq(Tokens)) /\ out \in Seq(Seq(Tokens)) /\ Parses(out)
    BY <1>1 DEF Fits, JsonInv
  <1>3. Clean' => Clean
    BY DEF Clean
  <1>4. out' \in Seq(Seq(Tokens)) /\ Parses(out') /\ (Clean' => Partless(out'))
    BY <1>1, <1>2, <1>3, JoinedParses DEF JsonInv, Fits
  <1>5. QED BY <1>1, <1>4 DEF JsonInv

\* The invariant holds in every session.
THEOREM JsonIsSound == Spec => []JsonInv
  <1>1. Init => JsonInv
    <2> SUFFICES ASSUME Init PROVE JsonInv
      OBVIOUS
    <2>1. /\ opt \in Options /\ json_packet = <<>> /\ json_stats = <<>>
          /\ out = Line(TRUE)
          /\ ntransmitted = 0 /\ nreceived = FALSE /\ piped = FALSE /\ odd = FALSE
          /\ pc = "loop"
      BY DEF Init
    <2>2. out \in Seq(Seq(Tokens)) /\ Parses(out) /\ Partless(out)
      BY <2>1, TextParses
    <2>3. /\ nreceived \in BOOLEAN /\ piped \in BOOLEAN /\ odd \in BOOLEAN
          /\ ntransmitted \in 0 .. 2
      <3>1. ntransmitted \in 0 .. 2
        BY <2>1
      <3>2. QED BY <2>1, <3>1, Zenon
    <2>4. /\ pc \in {"loop", "finish", "flood", "flush", "comment", "done"}
          /\ pc # "flood" /\ pc # "flush"
      BY <2>1
    <2>5. QED BY <2>1, <2>2, <2>3, <2>4, Zenon DEF JsonInv
  <1>2. JsonInv /\ [Next]_vars => JsonInv'
    <2> SUFFICES ASSUME JsonInv, [Next]_vars PROVE JsonInv'
      OBVIOUS
    <2>0. /\ opt.quiet \in BOOLEAN /\ opt.flood \in BOOLEAN /\ opt.timestamp \in BOOLEAN
          /\ opt.noisy \in BOOLEAN /\ opt.timing \in BOOLEAN /\ odd \in BOOLEAN
          /\ nreceived \in BOOLEAN /\ piped \in BOOLEAN /\ ntransmitted \in 0 .. 2
      BY DEF JsonInv, Options
    <2>a. Acknowledge => piped' \in BOOLEAN
      BY <2>0 DEF Acknowledge
    <2>1. ASSUME NEW late \in BOOLEAN, Probe(late)
          PROVE  JsonInv'
      <3>1. pc = "loop" /\ UNCHANGED <<opt, json_stats, nreceived, odd, pc>>
        BY <2>1 DEF Probe
      <3>2. Fits(Line(late))
        BY PiecesFit
      <3>3. Advance => ntransmitted' \in 0 .. 2
        BY <2>0 DEF Advance
      <3>4. CASE Sent(late)
        <4>1. PICK dot \in BOOLEAN : /\ dot => opt.flood /\ ~opt.quiet
                                     /\ Say(Line(late) \o Part(dot))
          BY <3>4 DEF Sent
        <4>2. dot => ~Clean'
          BY <3>1, <4>1 DEF Clean
        <4>3. Fits(Line(late) \o Part(dot))
          BY <3>2, <4>2, PiecesFit, JoinedFits
        <4>4. Prints
          BY <4>1, <4>3, SayPrints
        <4>5. QED BY <2>0, <3>1, <3>3, <3>4, <4>4, LoopKeeps DEF Sent
      <3>5. CASE Again(late)
        <4>1. Prints
          BY <3>2, <3>5, SayPrints DEF Again
        <4>2. QED BY <2>0, <3>1, <3>5, <4>1, LoopKeeps DEF Again
      <3>6. CASE Fails(late)
        <4>1. Prints
          BY <3>1, <3>2, <3>6, SayPrints, ReportPrints DEF Fails
        <4>2. QED BY <2>0, <3>1, <3>3, <3>6, <4>1, LoopKeeps DEF Fails
      <3>7. CASE Refused(late)
        <4>1. Fits(Line(late) \o IcmpText)
          BY <3>1, <3>2, IcmpFits, JoinedFits
        <4>2. Prints
          BY <3>1, <3>7, <4>1, ReportPrints DEF Refused
        <4>3. QED BY <2>0, <2>a, <3>1, <3>3, <3>7, <4>2, LoopKeeps DEF Refused
      <3>8. QED BY <2>1, <3>4, <3>5, <3>6, <3>7 DEF Probe
    <2>2. CASE LocalError
      <3>1. pc = "loop"
            /\ UNCHANGED <<opt, json_stats, ntransmitted, nreceived, piped, odd, pc>>
        BY <2>2 DEF LocalError
      <3>2. Fits(<<>>)
        BY PiecesFit DEF Line
      <3>3. Prints
        BY <2>2, <3>1, <3>2, ReportPrints, ErrorPrints DEF LocalError
      <3>4. QED BY <2>0, <3>1, <3>3, LoopKeeps
    <2>3. CASE NetError
      <3>1. /\ pc = "loop" /\ Acknowledge
            /\ UNCHANGED <<opt, json_stats, ntransmitted, nreceived, odd, pc>>
        BY <2>3 DEF NetError
      <3>2. Prints
        BY <2>3, <3>1, IcmpFits, SayPrints DEF NetError
      <3>3. QED BY <2>0, <2>a, <3>1, <3>2, LoopKeeps
    <2>n. CASE Notice
      <3>1. /\ pc = "loop" /\ Acknowledge
            /\ UNCHANGED <<opt, json_stats, ntransmitted, nreceived, pc>>
        BY <2>n DEF Notice
      <3>2. PICK text \in {<<>>, Line(TRUE), Part(TRUE)} :
               Say(text) /\ odd' = (odd \/ text = Part(TRUE))
        BY <2>n DEF Notice
      <3>3. Fits(<<>>) /\ Fits(Line(TRUE))
        BY PiecesFit DEF Line
      <3>4. text = Part(TRUE) => Fits(Part(TRUE))
        <4>1. text = Part(TRUE) => ~Clean'
          BY <3>2 DEF Clean
        <4>2. QED BY <4>1, PiecesFit
      <3>5. Prints
        BY <3>2, <3>3, <3>4, SayPrints
      <3>6. odd' \in BOOLEAN /\ (odd => odd')
        BY <2>0, <3>2
      <3>7. QED BY <2>0, <2>a, <3>1, <3>5, <3>6, LoopKeeps
    <2>4. ASSUME NEW dup \in BOOLEAN, NEW bad \in BOOLEAN, NEW strange \in BOOLEAN,
                 NEW short \in BOOLEAN, NEW own \in BOOLEAN,
                 Reply(dup, bad, strange, short, own)
          PROVE  JsonInv'
      <3>1. PICK remark \in BOOLEAN : remark = Remark(dup, bad, strange, short)
        BY DEF Remark
      <3>2. PICK obj : obj = Object(short)
        OBVIOUS
      <3>3. PICK text \in BOOLEAN :
               text = (\/ opt.flood /\ ~opt.quiet
                       \/ Shown /\ (opt.timestamp \/ own \/ remark))
        BY <2>0
      <3>4. /\ out' = out \o Part(text) \o Flushed(obj) /\ json_packet' = <<>>
            /\ Count(dup, bad, remark) /\ (own => opt.noisy)
        BY <2>4, <3>1, <3>2, <3>3 DEF Reply, ReplyText
      <3>5. /\ pc = "loop" /\ odd' = (odd \/ remark)
            /\ nreceived' = (nreceived \/ ~(dup \/ bad))
            /\ UNCHANGED <<opt, json_stats, ntransmitted, pc>>
            /\ piped' = piped \/ Acknowledge
        BY <3>4 DEF Count
      <3>6. obj = <<>> \/ Closable(obj)
        BY <3>2, ConstructLays DEF Object, Keys, JsonInv
      <3>7. PICK f : f = Flushed(obj) /\ Fits(f)
        BY <3>6, PiecesFit
      <3>8. text => ~Clean'
        BY <3>3, <3>4, <3>5 DEF Clean
      <3>9. PICK t : t = Part(text) /\ Fits(t)
        BY <3>8, PiecesFit
      <3>10. /\ out \in Seq(Seq(Tokens)) /\ t \in Seq(Seq(Tokens))
             /\ f \in Seq(Seq(Tokens))
        BY <3>7, <3>9 DEF JsonInv, Fits
      <3>11. out \o t \o f = out \o (t \o f)
        BY <3>10
      <3>12. Fits(t \o f)
        BY <3>7, <3>9, JoinedFits
      <3>13. Prints
        BY <3>4, <3>7, <3>9, <3>11, <3>12 DEF Prints
      <3>14. /\ odd' \in BOOLEAN /\ (odd => odd') /\ nreceived' \in BOOLEAN
             /\ ntransmitted' \in 0 .. 2 /\ piped' \in BOOLEAN
        BY <2>0, <2>a, <3>5
      <3>15. QED BY <3>5, <3>13, <3>14, LoopKeeps
    <2>5. CASE Leave
      BY <2>5 DEF Leave, JsonInv, Clean
    <2>6. CASE Statistics
      <3>1. /\ pc = "finish" /\ pc' = "flood" /\ json_stats = <<>>
            /\ UNCHANGED <<opt, json_packet, out, ntransmitted, nreceived, piped, odd>>
        BY <2>6 DEF Statistics, JsonInv
      <3>2. json_stats' # <<>> =>
               /\ Laid(json_stats') /\ nreceived /\ opt.timing
               /\ Len(json_stats') % 2 = IF piped THEN 1 ELSE 0
        <4> SUFFICES ASSUME json_stats' # <<>>
                     PROVE  /\ Laid(json_stats') /\ nreceived /\ opt.timing
                            /\ Len(json_stats') % 2 = IF piped THEN 1 ELSE 0
          OBVIOUS
        <4>1. PICK eight, rtt :
                 /\ eight = Twice(Twice(Twice(Twice(<<"open">>)))) /\ rtt = json_kv(eight)
          OBVIOUS
        <4>2. nreceived /\ opt.timing
          BY <2>6, <3>1 DEF Statistics
        <4>3. json_stats' = IF piped THEN json_kv_continue(json_continue(rtt)) ELSE rtt
          BY <2>6, <3>1, <4>1, <4>2 DEF Statistics
        <4>4. ASSUME NEW b, Laid(b), Len(b) % 2 = 1
              PROVE  Laid(Twice(b)) /\ Len(Twice(b)) % 2 = 1
          BY <4>4, ContinueLays DEF Twice
        <4>5. Laid(eight) /\ Len(eight) % 2 = 1
          BY <4>1, <4>4, BraceLays
        <4>6. Closable(rtt)
          BY <4>1, <4>5, MemberLays
        <4>7. /\ Laid(json_kv_continue(json_continue(rtt)))
              /\ Len(json_kv_continue(json_continue(rtt))) % 2 = 1
          BY <4>6, CommaLays, ContinueLays
        <4>8. QED BY <4>2, <4>3, <4>6, <4>7 DEF Closable
      <3>3. QED BY <3>1, <3>2 DEF JsonInv, Clean
    <2>7. CASE Flood
      <3>1. /\ pc = "flood" /\ pc' = "flush"
            /\ UNCHANGED <<opt, json_packet, out, ntransmitted, nreceived, piped, odd>>
        BY <2>7 DEF Flood
      <3>2. json_stats' # <<>> => Laid(json_stats') /\ (Ending => Len(json_stats') % 2 = 0)
        <4> SUFFICES ASSUME json_stats' # <<>>
                     PROVE  Laid(json_stats') /\ (Ending => Len(json_stats') % 2 = 0)
          OBVIOUS
        <4>1. json_stats # <<>>
          BY <2>7 DEF Flood
        <4>2. /\ Laid(json_stats) /\ nreceived /\ opt.timing
              /\ Len(json_stats) % 2 = IF piped THEN 1 ELSE 0
          BY <3>1, <4>1 DEF JsonInv
        <4>3. CASE (opt.flood \/ opt.paced) /\ ntransmitted > 1
          <5>1. PICK b : b = IF ~piped THEN json_continue(json_stats) ELSE json_stats
            OBVIOUS
          <5>2. json_stats' = json_kv(json_kv_continue(b))
            BY <2>7, <4>1, <4>2, <4>3, <5>1 DEF Flood
          <5>3. Laid(b) /\ Len(b) % 2 = 1
            BY <4>2, <5>1, CommaLays DEF Closable
          <5>4. Closable(json_kv(json_kv_continue(b)))
            BY <5>3, ContinueLays, MemberLays
          <5>5. QED BY <5>2, <5>4 DEF Closable
        <4>4. CASE ~((opt.flood \/ opt.paced) /\ ntransmitted > 1)
          <5>1. json_stats' = json_stats
            BY <2>7, <4>4 DEF Flood
          <5>2. Ending => ~piped
            BY <4>4 DEF Ending
          <5>3. QED BY <4>2, <5>1, <5>2
        <4>5. QED BY <4>3, <4>4
      <3>3. Ending' = Ending
        BY <3>1 DEF Ending
      <3>4. QED BY <3>1, <3>2, <3>3 DEF JsonInv, Clean
    <2>8. CASE Flush
      <3>1. /\ pc = "flush" /\ pc' = "comment" /\ out' = out \o Flushed(json_stats)
            /\ json_stats' = <<>>
            /\ UNCHANGED <<opt, json_packet, ntransmitted, nreceived, piped, odd>>
        BY <2>8 DEF Flush
      <3>2. json_stats = <<>> \/ (Laid(json_stats) /\ (Ending => Len(json_stats) % 2 = 0))
        BY <3>1 DEF JsonInv
      <3>3. PICK f \in Seq(Seq(Tokens)) :
               f = Flushed(json_stats) /\ Partless(f) /\ (Ending => Parses(f))
        BY <3>2, FlushedParses
      <3>4. out \in Seq(Seq(Tokens)) /\ Parses(out) /\ (Clean => Partless(out))
        BY <3>1 DEF JsonInv
      <3>5. /\ out \o f \in Seq(Seq(Tokens)) /\ (Ending => Parses(out \o f))
            /\ Clean => Partless(out \o f)
        BY <3>3, <3>4, JoinedParses
      <3>6. out' = out \o f /\ Ending' = Ending /\ Clean' = Clean
        BY <3>1, <3>3 DEF Ending, Clean
      <3>7. QED BY <3>1, <3>5, <3>6 DEF JsonInv
    <2>c. CASE Comment
      <3>1. /\ pc = "comment" /\ pc' = "done" /\ out' = out \o Line(TRUE)
            /\ UNCHANGED <<opt, json_packet, json_stats, ntransmitted, nreceived, piped, odd>>
        BY <2>c DEF Comment, Say
      <3>2. PICK l \in Seq(Seq(Tokens)) : l = Line(TRUE) /\ Parses(l) /\ Partless(l)
        BY TextParses
      <3>3. /\ out \in Seq(Seq(Tokens)) /\ (Ending => Parses(out))
            /\ Clean => Partless(out)
        BY <3>1 DEF JsonInv
      <3>4. /\ out \o l \in Seq(Seq(Tokens)) /\ (Ending => Parses(out \o l))
            /\ Clean => Partless(out \o l)
        BY <3>2, <3>3, JoinedParses
      <3>5. out' = out \o l /\ Ending' = Ending /\ Clean' = Clean
        BY <3>1, <3>2 DEF Ending, Clean
      <3>6. QED BY <3>1, <3>4, <3>5 DEF JsonInv
    <2>9. CASE Ended \/ UNCHANGED vars
      BY <2>9 DEF Ended, vars, JsonInv, Ending, Clean
    <2>10. QED
      BY <2>1, <2>2, <2>3, <2>n, <2>4, <2>5, <2>6, <2>7, <2>8, <2>c, <2>9 DEF Next
  <1>3. QED BY <1>1, <1>2, PTL DEF Spec

\* gather_statistics(), pinger(), ping_error() and the two parts of the
\* statistics: every object parses, however long the session is, unless the
\* statistics end with "pipe".
THEOREM EveryObjectParses == Spec => []ObjectsParse
  <1>1. JsonInv => ObjectsParse
    BY DEF JsonInv, ObjectsParse, Parses, Ending, PipeLast
  <1>2. QED BY <1>1, JsonIsSound, PTL

\* The text that is printed past the buffers does not get in front of an object,
\* unless an option asks for it or a message is remarked on.
THEOREM LinesAreKept == Spec => []ObjectsHaveLines
  <1>1. JsonInv => ObjectsHaveLines
    <2> SUFFICES ASSUME JsonInv, Clean, NEW k \in 2 .. Len(out)
                 PROVE  out[k - 1] # <<"part">>
      BY DEF ObjectsHaveLines, Clean
    <2>1. Partless(out) /\ Len(out) \in Nat
      BY DEF JsonInv
    <2>2. k - 1 \in 1 .. Len(out)
      BY <2>1
    <2>3. QED BY <2>1, <2>2 DEF Partless
  <1>2. QED BY <1>1, JsonIsSound, PTL
=============================================================================
