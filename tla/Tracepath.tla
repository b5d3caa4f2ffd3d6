----------------------------- MODULE Tracepath -----------------------------
(***************************************************************************)
(* tracepath: the TTL sweep of main(), probe_ttl() and recverr().          *)
(*                                                                         *)
(* A probe is sent to port base_port + hisptr; the table `his' remembers,  *)
(* for each of the last HIS_ARRAY_SIZE ports, the TTL of the probe.  The   *)
(* socket's error queue delivers what came back: in any order, late, more  *)
(* than once, with or without the probe's own payload, or not at all.      *)
(***************************************************************************)
EXTENDS Integers, Sequences, FiniteSets

CONSTANTS
    HisSize,        \* HIS_ARRAY_SIZE
    MaxTries,       \* MAX_PROBES
    TtlMod,         \* number of values of the uint8_t ttl
    PortMod,        \* number of UDP ports
    base_port,      \* -p
    max_hops,       \* -m, at most MAX_HOPS_LIMIT = TtlMod - 1
    Family,         \* 4 or 6
    InitialMtu,     \* -l: sizes are 1 .. InitialMtu
    MaxAnswers,     \* bound on answers from the network
    MaxSends        \* bound on advances of hisptr

ASSUME TracepathAssumption ==
    /\ HisSize \in Nat \ {0, 1} /\ MaxTries \in Nat \ {0}
    /\ TtlMod \in Nat \ {0, 1} /\ PortMod \in Nat \ {0}
    /\ HisSize <= PortMod
    /\ base_port \in 1 .. PortMod - 1
    /\ max_hops \in 0 .. TtlMod - 1
    /\ Family \in {4, 6}
    /\ InitialMtu \in Nat \ {0}
    /\ MaxAnswers \in Nat /\ MaxSends \in Nat

Slots == 0 .. HisSize - 1
Mtus  == 1 .. InitialMtu

VARIABLES
    pc,             \* "hop", "try", "send", "wait", "err", "done"
    ttl, i,         \* main(): the TTL and the attempt, 0 .. 3
    tries,          \* probe_ttl(): failed sends
    caller,         \* who called recverr(): "send" or "wait"
    progress,       \* recverr(): -1 or the mtu
    mtu, old_mtu,
    his, hisptr,
    hops_to,
    errq,           \* kernel: error queue of the socket
    net,            \* environment: probes that left the host
    answers,        \* history: answers so far
    sends,          \* history: advances of hisptr
    numbered        \* history: the probes numbered by their slot of the table

vars == <<pc, ttl, i, tries, caller, progress, mtu, old_mtu, his, hisptr,
          hops_to, errq, net, answers, sends, numbered>>

Init ==
    /\ pc = "hop" /\ ttl = 1 /\ i = 0 /\ tries = 0
    /\ caller = "send" /\ progress = -1
    /\ mtu = InitialMtu /\ old_mtu = InitialMtu
    /\ his = [s \in Slots |-> 0] /\ hisptr = 0
    /\ hops_to = -1
    /\ errq = <<>> /\ net = {}
    /\ answers = 0 /\ sends = 0
    /\ numbered = {}

main     == <<ttl, i, old_mtu>>
network  == <<net, answers>>
findings == <<hops_to, numbered>>
---------------------------------------------------------------------------
(***************************************************************************)
(* main()                                                                  *)
(***************************************************************************)
Done == pc' = "done"

\* The loop over TTLs.  IPv4 sockets refuse a TTL of 0: exit(1).
NextHop ==
    /\ pc = "hop"
    /\ IF ttl <= max_hops /\ ~(ttl = 0 /\ Family = 4)
       THEN pc' = "try" /\ i' = 0
       ELSE Done /\ UNCHANGED i
    /\ UNCHANGED <<ttl, tries, caller, progress, mtu, old_mtu, his, hisptr,
                   findings, errq, network, sends>>

Try ==
    /\ pc = "try" /\ i < 3
    /\ pc' = "send" /\ tries' = 0 /\ old_mtu' = mtu
    /\ UNCHANGED <<ttl, i, caller, progress, mtu, his, hisptr,
                   findings, errq, network, sends>>

\* Three attempts without an answer.
NoReply ==
    /\ pc = "try" /\ i = 3
    /\ pc' = "hop" /\ ttl' = (ttl + 1) % TtlMod
    /\ UNCHANGED <<i, tries, caller, progress, mtu, old_mtu, his, hisptr,
                   findings, errq, network, sends>>

\* probe_ttl() returns r: a new mtu restarts the attempts, whatever r is.
Return(r) ==
    /\ IF mtu # old_mtu THEN pc' = "try" /\ i' = 0 /\ UNCHANGED ttl
       ELSE IF r = 0 THEN Done /\ UNCHANGED <<ttl, i>>
       ELSE IF r > 0 THEN pc' = "hop" /\ ttl' = (ttl + 1) % TtlMod /\ UNCHANGED i
       ELSE pc' = "try" /\ i' = i + 1 /\ UNCHANGED ttl
    /\ UNCHANGED old_mtu
---------------------------------------------------------------------------
(***************************************************************************)
(* probe_ttl()                                                             *)
(***************************************************************************)
Port == (base_port + hisptr) % PortMod

\* Wrong variant: no mask.
Advance_NoMask ==
    /\ hisptr' = hisptr + 1
    /\ sends' = sends + 1

\* Wrong variant: the mask is used as a modulus.
Advance_Mask ==
    /\ hisptr' = (hisptr + 1) % (HisSize - 1)
    /\ sends' = sends + 1

Advance ==
    /\ hisptr' = (hisptr + 1) % HisSize
    /\ sends' = sends + 1

Remember == [his EXCEPT ![hisptr] = ttl]

Send ==
    /\ pc = "send" /\ tries < MaxTries /\ sends < MaxSends
    /\ his' = Remember
    /\ net' = net \cup {[port |-> Port, ttl |-> ttl, size |-> mtu, n |-> sends]}
    /\ Advance
    /\ pc' = "wait"
    /\ UNCHANGED <<main, tries, caller, progress, mtu, findings, errq, answers>>

\* sendto() fails: for want of resources, because an error is pending on the
\* socket, or because the probe exceeds the mtu of the device or route, which
\* puts a local error into the queue.
SendFails ==
    /\ pc = "send" /\ tries < MaxTries
    /\ his' = Remember
    /\ \/ UNCHANGED errq
       \/ \E m \in Mtus : m < mtu /\
             errq' = Append(errq, [port |-> Port, ttl |-> ttl, n |-> sends,
                                   kind |-> "toobig", origin |-> "local",
                                   info |-> m, payload |-> "none"])
    /\ pc' = "err" /\ caller' = "send" /\ progress' = -1
    /\ UNCHANGED <<main, tries, mtu, hisptr, findings, network, sends>>

\* MAX_PROBES sends failed.
GiveUp ==
    /\ pc = "send" /\ tries = MaxTries /\ sends < MaxSends
    /\ Advance
    /\ Return(0)
    /\ UNCHANGED <<tries, caller, progress, mtu, his, findings, errq, network>>

\* data_wait() returns at the latest after a second; a UDP reply is the end.
Replied ==
    /\ pc = "wait" /\ net # {}
    /\ Return(0)
    /\ UNCHANGED <<tries, caller, progress, mtu, his, hisptr, findings, errq,
                   network, sends>>

Waited ==
    /\ pc = "wait"
    /\ pc' = "err" /\ caller' = "wait" /\ progress' = -1
    /\ UNCHANGED <<main, tries, mtu, his, hisptr, findings, errq, network, sends>>

\* Wrong variant: the attempts to send are counted from zero after every one.
ErrReturn_Restarts(r, table) ==
    IF caller = "wait"
    THEN Return(r) /\ his' = table /\ UNCHANGED tries
    ELSE /\ his' = [table EXCEPT ![hisptr] = 0]
         /\ IF r = 0
            THEN Return(0) /\ UNCHANGED tries
            ELSE pc' = "send" /\ tries' = 0 /\ UNCHANGED main

\* recverr() returns r to probe_ttl(), which after a failed send forgets the
\* probe and tries again, from the start if there was news.
ErrReturn(r, table) ==
    IF caller = "wait"
    THEN Return(r) /\ his' = table /\ UNCHANGED tries
    ELSE /\ his' = [table EXCEPT ![hisptr] = 0]
         /\ IF r = 0
            THEN Return(0) /\ UNCHANGED tries
            ELSE /\ pc' = "send"
                 /\ tries' = IF r > 0 THEN 0 ELSE tries + 1
                 /\ UNCHANGED main
---------------------------------------------------------------------------
(***************************************************************************)
(* recverr()                                                               *)
(***************************************************************************)
\* "expired" stands for the errors after which the loop goes on unchanged,
\* "other" for those that end the trace, "noinfo" for an entry without
\* extended error.
Kinds == {"expired", "toobig", "refused", "other", "noinfo"}
Fatal == {"refused", "other", "noinfo"}

Forget(slot) == [his EXCEPT ![slot] = 0]

\* The table knows the slot of port p; the last slot is never looked up.
Lookup(p) == LET slot == p - base_port IN
    slot >= 0 /\ slot < HisSize - 1 /\ his[slot] # 0

\* TTL of the probe an entry answers, as recverr() sees it (-1: unknown): the
\* payload if it came back intact, neither cut off nor zeroed by a router;
\* else the slot of the port.
SndHops(e) ==
    IF e.payload = "intact" THEN e.ttl
    ELSE IF Lookup(e.port) THEN his[e.port - base_port]
    ELSE -1

\* Wrong variant: an unknown TTL is not replaced.
Guess_Unknown(e) == SndHops(e)

Guess(e) == IF SndHops(e) < 0 THEN ttl ELSE SndHops(e)

\* The line for entry e is numbered from the table: the answer is from the
\* network, recent, and carries no payload.
FromTable(e) ==
    /\ e.origin = "icmp" /\ e.kind # "noinfo" /\ e.payload # "intact"
    /\ SndHops(e) > 0 /\ sends - e.n < HisSize

\* One entry of the queue; the last one when it is fatal.
RecvErr ==
    /\ pc = "err" /\ errq # <<>>
    /\ LET e     == Head(errq)
           table == IF Lookup(e.port) THEN Forget(e.port - base_port) ELSE his
       IN  /\ errq' = Tail(errq)
           /\ numbered' = IF FromTable(e) THEN numbered \cup {e.n} ELSE numbered
           /\ mtu' = IF e.kind = "toobig" THEN e.info ELSE mtu
           /\ progress' = mtu'
           /\ IF e.kind = "refused"
              THEN hops_to' = Guess(e)
              ELSE UNCHANGED hops_to
           /\ IF e.kind \in Fatal
              THEN ErrReturn(0, table)
              ELSE /\ his' = table
                   /\ UNCHANGED <<pc, main, tries>>
    /\ UNCHANGED <<caller, hisptr, network, sends>>

NoMoreErrors ==
    /\ pc = "err" /\ errq = <<>>
    /\ ErrReturn(progress, his)
    /\ UNCHANGED <<caller, progress, mtu, hisptr, findings, errq, network, sends>>
---------------------------------------------------------------------------
(***************************************************************************)
(* The network answers a probe, once more or for the first time            *)
(***************************************************************************)
Answer(p) ==
    /\ pc # "done" /\ answers < MaxAnswers
    /\ answers' = answers + 1
    /\ \E kind \in Kinds, payload \in {"none", "intact"},
          m \in Mtus \cup {0} :
          /\ IF kind = "toobig" THEN m \in Mtus /\ m < p.size ELSE m = 0
          /\ errq' = Append(errq, [port |-> p.port, ttl |-> p.ttl, n |-> p.n,
                                   kind |-> kind, origin |-> "icmp",
                                   info |-> m, payload |-> payload])
    /\ UNCHANGED <<pc, main, tries, caller, progress, mtu, his, hisptr, findings,
                   net, sends>>

\* The trace is over, or the model's bound on sends is reached.
Ended == (pc = "done" \/ sends = MaxSends) /\ UNCHANGED vars

Process == NextHop \/ Try \/ NoReply \/ Send \/ SendFails \/ GiveUp \/ Replied
           \/ Waited \/ RecvErr \/ NoMoreErrors

Next == Process \/ (\E p \in net : Answer(p)) \/ Ended

Spec == Init /\ [][Next]_vars

\* The program is sequential and never blocks for more than a second; what
\* the network does is not fair.
FairSpec == Spec /\ WF_vars(Process)
---------------------------------------------------------------------------
(***************************************************************************)
(* Properties                                                              *)
(***************************************************************************)

\* Types; in particular every slot that probe_ttl() writes is one of the table.
TraceTypeOK ==
    /\ pc \in {"hop", "try", "send", "wait", "err", "done"}
    /\ ttl \in 0 .. TtlMod - 1 /\ i \in 0 .. 3 /\ tries \in 0 .. MaxTries
    /\ progress \in {-1} \cup Mtus
    /\ caller \in {"send", "wait"}
    /\ mtu \in Mtus /\ old_mtu \in Mtus
    /\ his \in [Slots -> 0 .. TtlMod - 1] /\ hisptr \in Slots
    /\ hops_to \in {-1} \cup 0 .. TtlMod - 1
    /\ answers \in 0 .. MaxAnswers /\ sends \in 0 .. MaxSends
    /\ numbered \subseteq 0 .. MaxSends

\* The entry that recverr() reads next is an answer to one of the last
\* HIS_ARRAY_SIZE probes.
Recent(e) == e.origin = "icmp" /\ e.kind # "noinfo" /\ sends - e.n < HisSize

\* A line that carries a hop number carries the TTL of the probe it answers,
\* however late or reordered the answer is, as long as its port has not been
\* reused: the point of sweeping the ports.  Without the payload only the first
\* answer to a probe is numbered: a duplicate is printed with a question mark.
HopsAttributed ==
    (pc = "err" /\ errq # <<>>) =>
        LET e == Head(errq)
        IN  /\ Recent(e) /\ SndHops(e) > 0 => SndHops(e) = e.ttl
            /\ FromTable(e) => e.n \notin numbered

\* "reached": the summary never claims fewer hops than the probe that arrived
\* was given, nor more than the sweep has come to, although a late answer
\* without payload is booked on the current TTL.
NeverTooNear ==
    [][(pc = "err" /\ errq # <<>> /\ errq' = Tail(errq)) =>
         LET e == Head(errq)
         IN  Recent(e) /\ e.kind = "refused" => hops_to' \in e.ttl .. ttl]_vars

\* Every trace ends, whatever is lost and however the mtu changes.
TraceEnds == <>(pc = "done")
=============================================================================
