-------------------------- MODULE Tracepath_proofs --------------------------
(***************************************************************************)
(* Proofs about Tracepath, for every size of the table, number of hops,    *)
(* base port, mtu and behaviour of the network.                            *)
(***************************************************************************)
EXTENDS Tracepath, WellFoundedInduction, TLAPS

(***************************************************************************)
(* Types                                                                   *)
(***************************************************************************)

Ttls  == 0 .. TtlMod - 1
Ports == 0 .. PortMod - 1

Probes  == [port : Ports, ttl : Ttls, size : Mtus, n : 0 .. MaxSends]
Entries == [port : Ports, ttl : Ttls, n : 0 .. MaxSends, kind : Kinds,
            origin : {"icmp", "local"}, info : 0 .. InitialMtu,
            payload : {"none", "intact"}]

\* Besides the types: "packet too big" comes with a positive mtu, and the
\* loops of main() and of probe_ttl() have a turn left while a probe is under
\* way.
TypeInv ==
    /\ TraceTypeOK
    /\ net \subseteq Probes
    /\ errq \in Seq(Entries)
    /\ \A k \in 1 .. Len(errq) : errq[k].kind = "toobig" => errq[k].info \in Mtus
    /\ pc \in {"send", "wait", "err"} => i < 3
    /\ pc = "err" /\ caller = "send" => tries < MaxTries

\* Ports and TTLs stay within their width, and the slots of the table within
\* the table.
LEMMA ModTypes ==
    /\ \A x \in Nat : (x + 1) % TtlMod \in Ttls
    /\ \A x \in Nat : (x + 1) % HisSize \in Slots
    /\ \A x \in Nat : (base_port + x) % PortMod \in Ports
  BY TracepathAssumption DEF Ttls, Slots, Ports

\* probe_ttl() returns to a loop of main() that has turns left, or ends.
LEMMA ReturnTypes ==
    ASSUME ttl \in Ttls, i \in 0 .. 3, i < 3, NEW r \in Int, Return(r)
    PROVE  /\ pc' \in {"hop", "try", "done"}
           /\ ttl' \in Ttls /\ i' \in 0 .. 3 /\ old_mtu' = old_mtu
  <1>1. (ttl + 1) % TtlMod \in Ttls
    BY ModTypes, TracepathAssumption DEF Ttls
  <1>2. CASE mtu # old_mtu
    BY <1>2 DEF Return
  <1>3. CASE mtu = old_mtu /\ r = 0
    BY <1>3 DEF Return, Done
  <1>4. CASE mtu = old_mtu /\ r > 0
    <2>1. pc' = "hop" /\ ttl' = (ttl + 1) % TtlMod /\ i' = i /\ old_mtu' = old_mtu
      BY <1>4 DEF Return
    <2>2. QED BY <1>1, <2>1
  <1>5. CASE mtu = old_mtu /\ r < 0
    BY <1>5 DEF Return
  <1>6. QED BY <1>2, <1>3, <1>4, <1>5

\* So does recverr(), or probe_ttl() goes on with a try left.
LEMMA ErrReturnTypes ==
    ASSUME TypeInv, pc = "err", NEW r \in Int, NEW table \in [Slots -> Ttls],
           ErrReturn(r, table)
    PROVE  /\ pc' \in {"hop", "try", "done", "send"}
           /\ pc' = "send" => i' < 3
           /\ ttl' \in Ttls /\ i' \in 0 .. 3 /\ old_mtu' = old_mtu
           /\ tries' \in 0 .. MaxTries
           /\ his' \in [Slots -> Ttls]
  <1> USE TracepathAssumption
  <1>1. /\ ttl \in Ttls /\ i \in 0 .. 3 /\ i < 3 /\ tries \in 0 .. MaxTries
        /\ hisptr \in Slots /\ 0 \in Ttls
    BY DEF TypeInv, TraceTypeOK, Ttls
  <1>2. ASSUME NEW x \in Int, Return(x)
        PROVE  /\ pc' \in {"hop", "try", "done"}
               /\ ttl' \in Ttls /\ i' \in 0 .. 3 /\ old_mtu' = old_mtu
    BY <1>1, <1>2, ReturnTypes
  <1>3. CASE caller = "wait"
    BY <1>1, <1>2, <1>3 DEF ErrReturn
  <1>4. CASE caller # "wait"
    <2>1. caller = "send" /\ tries < MaxTries
      BY <1>4 DEF TypeInv, TraceTypeOK
    <2>2. his' \in [Slots -> Ttls]
      BY <1>1, <1>4 DEF ErrReturn
    <2>3. CASE r = 0
      BY <1>1, <1>2, <1>4, <2>2, <2>3 DEF ErrReturn
    <2>4. CASE r # 0
      BY <1>1, <1>4, <2>1, <2>2, <2>4 DEF ErrReturn, main
    <2>5. QED BY <2>3, <2>4
  <1>5. QED BY <1>3, <1>4

\* The queue stays a sequence of entries when one is added or taken.
LEMMA QueueTypes ==
    ASSUME TypeInv
    PROVE  /\ \A e \in Entries : (e.kind = "toobig" => e.info \in Mtus) =>
                 /\ Append(errq, e) \in Seq(Entries)
                 /\ \A k \in 1 .. Len(Append(errq, e)) :
                       Append(errq, e)[k].kind = "toobig" =>
                          Append(errq, e)[k].info \in Mtus
           /\ errq # <<>> =>
                 /\ Head(errq) \in Entries
                 /\ Head(errq).kind = "toobig" => Head(errq).info \in Mtus
                 /\ Tail(errq) \in Seq(Entries)
                 /\ \A k \in 1 .. Len(Tail(errq)) :
                       Tail(errq)[k].kind = "toobig" => Tail(errq)[k].info \in Mtus
  <1> DEFINE Good(e) == e.kind = "toobig" => e.info \in Mtus
  <1>1. errq \in Seq(Entries) /\ \A k \in 1 .. Len(errq) : Good(errq[k])
    BY DEF TypeInv
  <1> HIDE DEF Good
  <1>2. ASSUME NEW e \in Entries, Good(e)
        PROVE  /\ Append(errq, e) \in Seq(Entries)
               /\ \A k \in 1 .. Len(Append(errq, e)) : Good(Append(errq, e)[k])
    BY <1>1, <1>2
  <1>3. ASSUME errq # <<>>
        PROVE  /\ Head(errq) \in Entries /\ Good(Head(errq))
               /\ Tail(errq) \in Seq(Entries)
               /\ \A k \in 1 .. Len(Tail(errq)) : Good(Tail(errq)[k])
    BY <1>1, <1>3
  <1>4. QED BY <1>2, <1>3 DEF Good

\* Slots, ports, TTLs, mtu and the loops keep their ranges; in particular every
\* slot that probe_ttl() and recverr() write is one of the table.
THEOREM TraceTypes == Spec => []TypeInv
  <1> USE TracepathAssumption
  <1>1. Init => TypeInv
    <2> SUFFICES ASSUME Init PROVE TypeInv
      OBVIOUS
    <2>1. his \in [Slots -> 0 .. TtlMod - 1]
      BY DEF Init
    <2>2. TraceTypeOK
      BY <2>1 DEF Init, TraceTypeOK, Mtus, Slots
    <2>3. QED BY <2>2 DEF Init, TypeInv
  <1>2. TypeInv /\ [Next]_vars => TypeInv'
    <2> SUFFICES ASSUME TypeInv, [Next]_vars PROVE TypeInv'
      OBVIOUS
    <2>t. TraceTypeOK
      BY DEF TypeInv
    <2>q. ASSUME UNCHANGED <<net, errq>>, TraceTypeOK',
                 pc' \in {"send", "wait", "err"} => i' < 3,
                 pc' = "err" /\ caller' = "send" => tries' < MaxTries
          PROVE  TypeInv'
      BY <2>q DEF TypeInv
    <2>1. CASE NextHop
      <3>1. TraceTypeOK'
        BY <2>1, <2>t DEF NextHop, Done, TraceTypeOK, findings, network
      <3>2. QED BY <2>1, <3>1, <2>q DEF NextHop, Done, network
    <2>2. CASE Try
      <3>1. TraceTypeOK'
        BY <2>2, <2>t DEF Try, TraceTypeOK, findings, network
      <3>2. QED BY <2>2, <3>1, <2>q DEF Try, network
    <2>3. CASE NoReply
      <3>1. TraceTypeOK'
        BY <2>3, <2>t, ModTypes DEF NoReply, TraceTypeOK, findings, network, Ttls
      <3>2. QED BY <2>3, <3>1, <2>q DEF NoReply, network
    <2>r. ASSUME NEW r \in Int, pc \in {"send", "wait"}, Return(r), hisptr' \in Slots,
                 sends' \in 0 .. MaxSends,
                 UNCHANGED <<tries, caller, progress, mtu, his, findings, errq, network>>
          PROVE  TypeInv'
      <3>1. /\ pc' \in {"hop", "try", "done"}
            /\ ttl' \in Ttls /\ i' \in 0 .. 3 /\ old_mtu' = old_mtu
        BY <2>r, <2>t, ReturnTypes DEF TraceTypeOK, TypeInv, Ttls
      <3>2. TraceTypeOK'
        BY <2>r, <2>t, <3>1 DEF TraceTypeOK, findings, network, Ttls
      <3>3. QED BY <2>r, <3>1, <3>2, <2>q DEF network
    <2>a. ASSUME Advance, sends < MaxSends
          PROVE  hisptr' \in Slots /\ sends' \in 0 .. MaxSends
      BY <2>a, <2>t, ModTypes DEF Advance, TraceTypeOK, Slots
    <2>h. Remember \in [Slots -> Ttls]
      BY <2>t DEF Remember, TraceTypeOK, Ttls
    <2>p. Port \in Ports
      <3>1. hisptr \in Nat
        BY <2>t DEF TraceTypeOK, Slots
      <3>2. (base_port + hisptr) % PortMod \in Ports
        BY <3>1, ModTypes
      <3>3. QED BY <3>2 DEF Port
    <2>4. CASE Send
      <3>1. hisptr' \in Slots /\ sends' \in 0 .. MaxSends
        BY <2>4, <2>a DEF Send
      <3>2. TraceTypeOK'
        BY <2>4, <2>t, <2>h, <3>1 DEF Send, TraceTypeOK, main, findings, Ttls
      <3>3. [port |-> Port, ttl |-> ttl, size |-> mtu, n |-> sends] \in Probes
        <4>1. Port \in Ports
          BY <2>p
        <4>2. ttl \in Ttls /\ mtu \in Mtus /\ sends \in 0 .. MaxSends
          BY <2>t DEF TraceTypeOK, Ttls
        <4>3. QED BY <4>1, <4>2 DEF Probes
      <3>4. net' \subseteq Probes
        BY <2>4, <3>3 DEF Send, TypeInv
      <3>5. QED BY <2>4, <3>2, <3>4 DEF Send, TypeInv, main
    <2>5. CASE SendFails
      <3>1. TraceTypeOK'
        BY <2>5, <2>t, <2>h DEF SendFails, TraceTypeOK, main, findings, network, Ttls
      <3>2. CASE UNCHANGED errq
        BY <2>5, <3>1, <3>2, <2>q DEF SendFails, network, main, TypeInv
      <3>3. ASSUME NEW m \in Mtus,
                   errq' = Append(errq, [port |-> Port, ttl |-> ttl, n |-> sends,
                                         kind |-> "toobig", origin |-> "local",
                                         info |-> m, payload |-> "none"])
            PROVE  TypeInv'
        <4> DEFINE e == [port |-> Port, ttl |-> ttl, n |-> sends,
                         kind |-> "toobig", origin |-> "local",
                         info |-> m, payload |-> "none"]
        <4>1. e \in Entries /\ e.info \in Mtus
          <5>1. Port \in Ports
            BY <2>p
          <5>2. ttl \in Ttls /\ sends \in 0 .. MaxSends /\ m \in 0 .. InitialMtu
            BY <2>t DEF TraceTypeOK, Ttls, Mtus
          <5>3. QED BY <5>1, <5>2 DEF Entries, Kinds
        <4> HIDE DEF e
        <4>2. /\ errq' \in Seq(Entries)
              /\ \A k \in 1 .. Len(errq') : errq'[k].kind = "toobig" => errq'[k].info \in Mtus
          <5>1. errq' = Append(errq, e)
            BY <3>3 DEF e
          <5>2. QED BY <4>1, <5>1, QueueTypes
        <4>3. QED BY <2>5, <3>1, <4>2 DEF SendFails, network, main, TypeInv
      <3>4. QED BY <2>5, <3>2, <3>3 DEF SendFails
    <2>6. CASE GiveUp
      BY <2>6, <2>a, <2>r DEF GiveUp
    <2>7. CASE Replied
      BY <2>7, <2>r, <2>t DEF Replied, TraceTypeOK
    <2>8. CASE Waited
      <3>1. TraceTypeOK'
        BY <2>8, <2>t DEF Waited, TraceTypeOK, main, findings, network
      <3>2. QED BY <2>8, <3>1, <2>q DEF Waited, network, main, TypeInv
    <2>9. CASE RecvErr
      <3>1. PICK e \in Entries : e = Head(errq)
        BY <2>9, QueueTypes DEF RecvErr
      <3>2. e.kind = "toobig" => e.info \in Mtus
        BY <2>9, <3>1, QueueTypes DEF RecvErr
      <3>3. PICK table \in [Slots -> Ttls] :
               table = IF Lookup(e.port) THEN Forget(e.port - base_port) ELSE his
        <4>1. his \in [Slots -> Ttls] /\ 0 \in Ttls
          BY <2>t DEF TraceTypeOK, Ttls
        <4>2. QED BY <4>1 DEF Forget
      <3>4. mtu' \in Mtus /\ progress' = mtu'
        BY <2>9, <2>t, <3>1, <3>2 DEF RecvErr, TraceTypeOK
      <3>5. hops_to' \in {-1} \cup Ttls
        <4>1. e.ttl \in Ttls /\ ttl \in Ttls /\ e.port \in Int
          BY <3>1, <2>t DEF Entries, TraceTypeOK, Ttls, Ports
        <4>2. Lookup(e.port) => his[e.port - base_port] \in Ttls
          BY <4>1, <2>t DEF Lookup, TraceTypeOK, Slots, Ttls
        <4>3. Guess(e) \in Ttls
          BY <4>1, <4>2 DEF Guess, SndHops, Ttls
        <4>4. QED BY <2>9, <2>t, <3>1, <4>3 DEF RecvErr, TraceTypeOK, Ttls
      <3>6. numbered' \subseteq 0 .. MaxSends
        BY <2>9, <2>t, <3>1 DEF RecvErr, TraceTypeOK, Entries
      <3>7. /\ pc' \in {"hop", "try", "done", "send", "err"}
            /\ pc' = "send" => i' < 3
            /\ pc' = "err" => UNCHANGED <<tries, i>>
            /\ ttl' \in Ttls /\ i' \in 0 .. 3 /\ old_mtu' = old_mtu
            /\ tries' \in 0 .. MaxTries
            /\ his' \in [Slots -> Ttls]
        <4>1. CASE e.kind \in Fatal
          <5>1. pc = "err" /\ ErrReturn(0, table)
            BY <2>9, <3>1, <3>3, <4>1 DEF RecvErr
          <5>2. QED BY <5>1, ErrReturnTypes
        <4>2. CASE e.kind \notin Fatal
          <5>1. pc = "err" /\ his' = table /\ UNCHANGED <<pc, main, tries>>
            BY <2>9, <3>1, <3>3, <4>2 DEF RecvErr
          <5>2. QED BY <5>1, <2>t DEF main, TraceTypeOK, Ttls
        <4>3. QED BY <4>1, <4>2
      <3>8. UNCHANGED <<caller, hisptr, network, sends>> /\ pc = "err"
        BY <2>9 DEF RecvErr
      <3>9. TraceTypeOK'
        BY <2>t, <3>4, <3>5, <3>6, <3>7, <3>8 DEF TraceTypeOK, network, Ttls
      <3>10. /\ errq' \in Seq(Entries)
             /\ \A k \in 1 .. Len(errq') : errq'[k].kind = "toobig" => errq'[k].info \in Mtus
        BY <2>9, QueueTypes DEF RecvErr
      <3>11. QED BY <3>7, <3>8, <3>9, <3>10 DEF TypeInv, network
    <2>10. CASE NoMoreErrors
      <3>1. progress \in Int /\ his \in [Slots -> Ttls] /\ pc = "err" /\ ErrReturn(progress, his)
        BY <2>10, <2>t DEF NoMoreErrors, TraceTypeOK, Ttls, Mtus
      <3>2. /\ pc' \in {"hop", "try", "done", "send"}
            /\ pc' = "send" => i' < 3
            /\ ttl' \in Ttls /\ i' \in 0 .. 3 /\ old_mtu' = old_mtu
            /\ tries' \in 0 .. MaxTries
            /\ his' \in [Slots -> Ttls]
        BY <3>1, ErrReturnTypes
      <3>3. TraceTypeOK'
        BY <2>10, <2>t, <3>2 DEF NoMoreErrors, TraceTypeOK, findings, network, Ttls
      <3>4. QED BY <2>10, <3>2, <3>3, <2>q DEF NoMoreErrors, network
    <2>11. ASSUME NEW p \in net, Answer(p)
           PROVE  TypeInv'
      <3>1. PICK kind \in Kinds, payload \in {"none", "intact"}, m \in Mtus \cup {0} :
               /\ kind = "toobig" => m \in Mtus
               /\ errq' = Append(errq, [port |-> p.port, ttl |-> p.ttl, n |-> p.n,
                                   kind |-> kind, origin |-> "icmp",
                                   info |-> m, payload |-> payload])
        BY <2>11 DEF Answer
      <3> DEFINE e == [port |-> p.port, ttl |-> p.ttl, n |-> p.n,
                       kind |-> kind, origin |-> "icmp", info |-> m, payload |-> payload]
      <3>2. p \in Probes
        BY DEF TypeInv
      <3>3. m \in 0 .. InitialMtu
        BY DEF Mtus
      <3>4. e \in Entries /\ (e.kind = "toobig" => e.info \in Mtus)
        BY <3>1, <3>2, <3>3 DEF Probes, Entries
      <3>5. errq' = Append(errq, e)
        BY <3>1
      <3> HIDE DEF e
      <3>6. /\ errq' \in Seq(Entries)
            /\ \A k \in 1 .. Len(errq') : errq'[k].kind = "toobig" => errq'[k].info \in Mtus
        BY <3>4, <3>5, QueueTypes
      <3>7. TraceTypeOK'
        BY <2>11, <2>t DEF Answer, TraceTypeOK, main, findings
      <3>8. QED BY <2>11, <3>6, <3>7 DEF Answer, TypeInv, main
    <2>12. CASE Ended \/ UNCHANGED vars
      BY <2>12 DEF Ended, vars, TypeInv, TraceTypeOK
    <2>13. QED
      BY <2>1, <2>2, <2>3, <2>4, <2>5, <2>6, <2>7, <2>8, <2>9, <2>10, <2>11, <2>12
         DEF Next, Process
  <1>3. QED BY <1>1, <1>2, PTL DEF Spec

\* The types that the run checks.
COROLLARY TraceTypeCorrect == Spec => []TraceTypeOK
  <1>1. TypeInv => TraceTypeOK
    BY DEF TypeInv
  <1>2. QED BY <1>1, TraceTypes, PTL

(***************************************************************************)
(* The table of slots                                                      *)
(***************************************************************************)

\* The slot that was filled d advances ago, and the port of a slot.
Back(d)   == IF d <= hisptr THEN hisptr - d ELSE hisptr - d + HisSize
PortOf(s) == (base_port + s) % PortMod
Depths    == 1 .. HisSize - 1

\* A probe that left the host less than HIS_ARRAY_SIZE advances ago went to the
\* port of its slot, and its slot holds its TTL, or nothing any more.
NetInv ==
    \A p \in net :
       /\ p.n \in 0 .. sends - 1
       /\ \A d \in Depths : sends - p.n = d =>
             p.port = PortOf(Back(d)) /\ his[Back(d)] \in {0, p.ttl}

\* What the network put into the queue answers a probe that left the host.
QueueInv ==
    \A k \in 1 .. Len(errq) :
       errq[k].origin = "icmp" =>
          \E p \in net : p.n = errq[k].n /\ p.port = errq[k].port /\ p.ttl = errq[k].ttl

\* The slot of a probe that was numbered from the table is empty.
NumberedInv ==
    \A n \in numbered :
       /\ n \in 0 .. sends - 1
       /\ \A d \in Depths : sends - n = d => his[Back(d)] = 0

TableInv == NetInv /\ QueueInv /\ NumberedInv

\* Port numbers wrap around at most once over the table.
LEMMA ModOnce ==
    ASSUME NEW P \in Nat \ {0}, NEW x \in Nat, x < 2 * P
    PROVE  /\ x < P => x % P = x
           /\ x >= P => x % P = x - P
  OBVIOUS

\* A port above the base port belongs to the slot that is its distance.
LEMMA SlotOfPort ==
    ASSUME NEW s \in Slots, PortOf(s) - base_port >= 0
    PROVE  PortOf(s) - base_port = s
  <1>1. PICK x \in Nat : x = base_port + s
    BY TracepathAssumption DEF Slots
  <1>2. x < 2 * PortMod /\ PortMod \in Nat \ {0} /\ s \in Nat /\ s < PortMod
    BY <1>1, TracepathAssumption DEF Slots
  <1>3. (x < PortMod => x % PortMod = x) /\ (x >= PortMod => x % PortMod = x - PortMod)
    BY <1>2, ModOnce
  <1>4. PortOf(s) = x % PortMod
    BY <1>1 DEF PortOf
  <1>5. QED BY <1>1, <1>2, <1>3, <1>4, TracepathAssumption

\* The slots of the last advances are slots of the table, and not the next one.
LEMMA BackTypes ==
    ASSUME hisptr \in Slots
    PROVE  \A d \in Depths : Back(d) \in Slots /\ Back(d) # hisptr
  BY TracepathAssumption DEF Slots, Depths, Back

\* An advance makes every slot one older.
LEMMA AdvanceBack ==
    ASSUME hisptr \in Slots, Advance
    PROVE  /\ \A d \in Depths : d = 1 => Back(d)' = hisptr
           /\ \A c, d \in Depths : d = c + 1 => Back(d)' = Back(c)
  <1>1. PICK x \in Nat : x = hisptr + 1
    BY DEF Slots
  <1>2. x < 2 * HisSize /\ HisSize \in Nat \ {0}
    BY <1>1, TracepathAssumption DEF Slots
  <1>3. (x < HisSize => x % HisSize = x) /\ (x >= HisSize => x % HisSize = x - HisSize)
    BY <1>2, ModOnce
  <1>4. hisptr' = x % HisSize
    BY <1>1 DEF Advance
  <1>5. QED BY <1>1, <1>2, <1>3, <1>4, TracepathAssumption DEF Slots, Depths, Back

\* An entry from the network about a probe whose port has not been reused: if
\* the table knows its port, it knows the TTL of this probe.
LEMMA TableAnswers ==
    ASSUME TypeInv, NetInv, QueueInv, errq # <<>>,
           Head(errq).origin = "icmp", sends - Head(errq).n < HisSize
    PROVE  \E p \in net, d \in Depths :
              /\ p.n = Head(errq).n /\ p.ttl = Head(errq).ttl
              /\ sends - p.n = d
              /\ Lookup(Head(errq).port) => /\ Head(errq).port - base_port = Back(d)
                                            /\ his[Back(d)] = p.ttl
  <1>1. Head(errq) = errq[1] /\ 1 \in 1 .. Len(errq)
    BY DEF TypeInv
  <1>2. PICK p \in net : /\ p.n = Head(errq).n /\ p.port = Head(errq).port
                         /\ p.ttl = Head(errq).ttl
    BY <1>1 DEF QueueInv
  <1>3. sends \in Nat /\ hisptr \in Slots /\ p.n \in 0 .. sends - 1
    BY DEF TypeInv, TraceTypeOK, NetInv
  <1>4. PICK d \in Depths : sends - p.n = d
    BY <1>2, <1>3, TracepathAssumption DEF Depths
  <1>5. p.port = PortOf(Back(d)) /\ his[Back(d)] \in {0, p.ttl}
    BY <1>4 DEF NetInv
  <1>6. ASSUME Lookup(p.port)
        PROVE  p.port - base_port = Back(d) /\ his[Back(d)] = p.ttl
    <2>1. p.port - base_port >= 0 /\ his[p.port - base_port] # 0
      BY <1>6 DEF Lookup
    <2>2. Back(d) \in Slots
      BY <1>3, BackTypes
    <2>3. p.port - base_port = Back(d)
      BY <1>5, <2>1, <2>2, SlotOfPort
    <2>4. QED BY <1>5, <2>1, <2>3
  <1>7. QED BY <1>2, <1>4, <1>6

\* Forgetting slots, or writing the next one, leaves the table right.
LEMMA TableKept ==
    ASSUME TypeInv, TableInv, UNCHANGED <<net, numbered, hisptr, sends>>,
           \A s \in Slots \ {hisptr} : his'[s] \in {0, his[s]}
    PROVE  NetInv' /\ NumberedInv'
  <1>1. hisptr \in Slots
    BY DEF TypeInv, TraceTypeOK
  <1>2. \A d \in Depths : /\ Back(d)' = Back(d)
                          /\ his'[Back(d)] \in {0, his[Back(d)]}
    BY <1>1, BackTypes DEF Back
  <1>3. NetInv'
    BY <1>2 DEF TableInv, NetInv, PortOf
  <1>4. NumberedInv'
    BY <1>2 DEF TableInv, NumberedInv
  <1>5. QED BY <1>3, <1>4

\* recverr() returns with the table as it left it, but for the next slot.
LEMMA ErrReturnTable ==
    ASSUME NEW r \in Int, NEW table \in [Slots -> Ttls], hisptr \in Slots,
           ErrReturn(r, table)
    PROVE  \A s \in Slots \ {hisptr} : his'[s] = table[s]
  BY DEF ErrReturn

\* The queue still answers probes when its head is taken, when more probes have
\* left the host, and when an entry is added that answers one.
LEMMA QueueKept ==
    ASSUME TypeInv, QueueInv, net \subseteq net'
    PROVE  /\ errq' = errq => QueueInv'
           /\ errq # <<>> /\ errq' = Tail(errq) => QueueInv'
           /\ \A e \in Entries :
                 /\ errq' = Append(errq, e)
                 /\ e.origin = "icmp" =>
                       \E p \in net : p.n = e.n /\ p.port = e.port /\ p.ttl = e.ttl
                 => QueueInv'
  <1> DEFINE Answered(e) ==
                \E p \in net : p.n = e.n /\ p.port = e.port /\ p.ttl = e.ttl
  <1>1. errq \in Seq(Entries)
    BY DEF TypeInv
  <1>2. \A k \in 1 .. Len(errq) : errq[k].origin = "icmp" => Answered(errq[k])
    BY DEF QueueInv
  <1>3. ASSUME \A k \in 1 .. Len(errq') : errq'[k].origin = "icmp" => Answered(errq'[k])
        PROVE  QueueInv'
    BY <1>3 DEF QueueInv
  <1> HIDE DEF Answered
  <1>4. ASSUME errq # <<>>, errq' = Tail(errq)
        PROVE  \A k \in 1 .. Len(errq') : errq'[k].origin = "icmp" => Answered(errq'[k])
    <2> TAKE k \in 1 .. Len(errq')
    <2>1. errq'[k] = errq[k + 1] /\ k + 1 \in 1 .. Len(errq)
      BY <1>1, <1>4
    <2>2. QED BY <1>2, <2>1
  <1>5. ASSUME NEW e \in Entries, errq' = Append(errq, e), e.origin = "icmp" => Answered(e)
        PROVE  \A k \in 1 .. Len(errq') : errq'[k].origin = "icmp" => Answered(errq'[k])
    <2> TAKE k \in 1 .. Len(errq')
    <2>1. \/ k \in 1 .. Len(errq) /\ errq'[k] = errq[k]
          \/ errq'[k] = e
      BY <1>1, <1>5
    <2>2. QED BY <1>2, <1>5, <2>1
  <1>6. QED BY <1>2, <1>3, <1>4, <1>5 DEF Answered

\* The table and what is in the queue and on the network fit together.
THEOREM TableFits == Spec => []TableInv
  <1> USE TracepathAssumption
  <1>1. Init => TableInv
    BY DEF Init, TableInv, NetInv, QueueInv, NumberedInv
  <1>2. TypeInv /\ TypeInv' /\ TableInv /\ [Next]_vars => TableInv'
    <2> SUFFICES ASSUME TypeInv, TypeInv', TableInv, [Next]_vars PROVE TableInv'
      OBVIOUS
    <2>t. hisptr \in Slots /\ his \in [Slots -> Ttls] /\ sends \in Nat /\ ttl \in Ttls
      BY DEF TypeInv, TraceTypeOK, Ttls
    <2>u. ASSUME UNCHANGED <<net, errq, numbered, hisptr, sends>>,
                 \A s \in Slots \ {hisptr} : his'[s] \in {0, his[s]}
          PROVE  TableInv'
      <3>1. QueueInv'
        BY <2>u, QueueKept DEF TableInv
      <3>2. QED BY <2>u, <3>1, TableKept DEF TableInv
    <2>s. ASSUME UNCHANGED <<net, errq, numbered, hisptr, sends, his>>
          PROVE  TableInv'
      BY <2>s, <2>u
    <2>1. CASE NextHop \/ Try \/ NoReply \/ Replied \/ Waited \/ Ended \/ UNCHANGED vars
      BY <2>1, <2>s DEF NextHop, Try, NoReply, Replied, Waited, Ended, findings, network, vars
    <2>2. ASSUME Advance, UNCHANGED <<errq, numbered>>,
                 \A s \in Slots \ {hisptr} : his'[s] = his[s],
                 \/ net' = net
                 \/ /\ net' = net \cup {[port |-> Port, ttl |-> ttl, size |-> mtu, n |-> sends]}
                    /\ his'[hisptr] = ttl
          PROVE  TableInv'
      <3>1. /\ \A d \in Depths : d = 1 => Back(d)' = hisptr
            /\ \A c, d \in Depths : d = c + 1 => Back(d)' = Back(c)
        BY <2>2, <2>t, AdvanceBack
      <3>2. sends' = sends + 1
        BY <2>2 DEF Advance
      <3>3. \A c \in Depths : his'[Back(c)] = his[Back(c)]
        BY <2>2, <2>t, BackTypes
      <3>4. ASSUME NEW n \in 0 .. sends - 1
            PROVE  /\ n \in 0 .. sends' - 1
                   /\ \A d \in Depths : sends' - n = d =>
                         \E c \in Depths : /\ sends - n = c /\ Back(d)' = Back(c)
                                           /\ his'[Back(c)] = his[Back(c)]
        <4>1. n \in 0 .. sends' - 1
          BY <2>t, <3>2
        <4>2. ASSUME NEW d \in Depths, sends' - n = d
              PROVE  \E c \in Depths : /\ sends - n = c /\ Back(d)' = Back(c)
                                       /\ his'[Back(c)] = his[Back(c)]
          <5>1. PICK c \in Depths : c = sends - n /\ d = c + 1
            BY <2>t, <3>2, <4>2 DEF Depths
          <5>2. QED BY <3>1, <3>3, <5>1
        <4>3. QED BY <4>1, <4>2
      <3>5. \A n \in numbered : /\ n \in 0 .. sends' - 1
                                /\ \A d \in Depths : sends' - n = d => his'[Back(d)'] = 0
        BY <3>4 DEF TableInv, NumberedInv
      <3>6. NumberedInv'
        BY <2>2, <3>5 DEF NumberedInv
      <3>7. \A p \in net :
               /\ p.n \in 0 .. sends' - 1
               /\ \A d \in Depths : sends' - p.n = d =>
                     p.port = PortOf(Back(d)') /\ his'[Back(d)'] \in {0, p.ttl}
        <4> TAKE p \in net
        <4>1. p.n \in 0 .. sends - 1
          BY DEF TableInv, NetInv
        <4>2. PICK n \in 0 .. sends - 1 : n = p.n
          BY <4>1
        <4>3. n \in 0 .. sends' - 1
          BY <3>4
        <4>4. ASSUME NEW d \in Depths, sends' - n = d
              PROVE  p.port = PortOf(Back(d)') /\ his'[Back(d)'] \in {0, p.ttl}
          <5>1. PICK c \in Depths : /\ sends - n = c /\ Back(d)' = Back(c)
                                    /\ his'[Back(c)] = his[Back(c)]
            BY <3>4, <4>4
          <5>2. p.port = PortOf(Back(c)) /\ his[Back(c)] \in {0, p.ttl}
            BY <4>2, <5>1 DEF TableInv, NetInv
          <5>3. QED BY <5>1, <5>2
        <4>5. QED BY <4>2, <4>3, <4>4
      <3>8. \A p \in net' : p \notin net =>
               /\ p.n \in 0 .. sends' - 1
               /\ \A d \in Depths : sends' - p.n = d =>
                     p.port = PortOf(Back(d)') /\ his'[Back(d)'] \in {0, p.ttl}
        <4> SUFFICES ASSUME NEW p \in net', p \notin net
                     PROVE  /\ p.n \in 0 .. sends' - 1
                            /\ \A d \in Depths : sends' - p.n = d =>
                                  p.port = PortOf(Back(d)') /\ his'[Back(d)'] \in {0, p.ttl}
          OBVIOUS
        <4>1. p = [port |-> Port, ttl |-> ttl, size |-> mtu, n |-> sends] /\ his'[hisptr] = ttl
          BY <2>2
        <4>2. p.n = sends /\ p.ttl = ttl /\ p.port = PortOf(hisptr)
          BY <4>1 DEF Port, PortOf
        <4>3. \A d \in Depths : sends' - p.n = d => Back(d)' = hisptr
          BY <2>t, <3>1, <3>2, <4>2 DEF Depths
        <4>4. QED BY <2>t, <3>2, <4>1, <4>2, <4>3
      <3>9. NetInv'
        BY <3>7, <3>8 DEF NetInv, PortOf
      <3>10. QueueInv'
        BY <2>2, QueueKept DEF TableInv
      <3>11. QED BY <3>6, <3>9, <3>10 DEF TableInv
    <2>3. CASE Send
      BY <2>2, <2>3, <2>t DEF Send, Remember, findings
    <2>4. CASE GiveUp
      BY <2>2, <2>4 DEF GiveUp, findings, network
    <2>5. CASE SendFails
      <3>1. \A s \in Slots \ {hisptr} : his'[s] \in {0, his[s]}
        BY <2>5, <2>t DEF SendFails, Remember
      <3>2. UNCHANGED <<net, numbered, hisptr, sends>>
        BY <2>5 DEF SendFails, findings, network
      <3>3. QueueInv'
        <4>1. CASE UNCHANGED errq
          BY <3>2, <4>1, QueueKept DEF TableInv
        <4>2. ASSUME NEW m \in Mtus,
                     errq' = Append(errq, [port |-> Port, ttl |-> ttl, n |-> sends,
                                           kind |-> "toobig", origin |-> "local",
                                           info |-> m, payload |-> "none"])
              PROVE  QueueInv'
          <5> DEFINE e == [port |-> Port, ttl |-> ttl, n |-> sends,
                           kind |-> "toobig", origin |-> "local",
                           info |-> m, payload |-> "none"]
          <5>1. Port \in Ports
            <6>1. hisptr \in Nat
              BY <2>t DEF Slots
            <6>2. (base_port + hisptr) % PortMod \in Ports
              BY <6>1, ModTypes
            <6>3. QED BY <6>2 DEF Port
          <5>2. ttl \in Ttls /\ sends \in 0 .. MaxSends /\ m \in 0 .. InitialMtu
            BY DEF TypeInv, TraceTypeOK, Ttls, Mtus
          <5>3. e \in Entries /\ e.origin = "local"
            BY <5>1, <5>2 DEF Entries, Kinds
          <5>4. errq' = Append(errq, e)
            BY <4>2
          <5> HIDE DEF e
          <5>5. QED BY <3>2, <5>3, <5>4, QueueKept DEF TableInv
        <4>3. QED BY <2>5, <4>1, <4>2 DEF SendFails
      <3>4. QED BY <3>1, <3>2, <3>3, TableKept DEF TableInv
    <2>6. CASE RecvErr
      <3> DEFINE e     == Head(errq)
                 table == IF Lookup(e.port) THEN Forget(e.port - base_port) ELSE his
      <3>1. pc = "err" /\ errq # <<>> /\ errq' = Tail(errq) /\ e \in Entries
        BY <2>6, QueueTypes DEF RecvErr
      <3>2. UNCHANGED <<net, hisptr, sends>>
        BY <2>6 DEF RecvErr, network
      <3>3. table \in [Slots -> Ttls] /\ \A s \in Slots : table[s] \in {0, his[s]}
        <4>1. 0 \in Ttls
          BY DEF Ttls
        <4>2. CASE Lookup(e.port)
          <5>1. table = Forget(e.port - base_port)
            BY <4>2
          <5>2. QED BY <2>t, <4>1, <5>1 DEF Forget
        <4>3. CASE ~Lookup(e.port)
          BY <2>t, <4>3
        <4>4. QED BY <4>2, <4>3
      <3>4. \A s \in Slots \ {hisptr} : his'[s] = table[s]
        <4>1. CASE e.kind \in Fatal
          <5>1. ErrReturn(0, table)
            BY <2>6, <4>1 DEF RecvErr
          <5> HIDE DEF table
          <5>2. QED BY <2>t, <3>3, <5>1, ErrReturnTable
        <4>2. CASE e.kind \notin Fatal
          BY <2>6, <4>2 DEF RecvErr
        <4>3. QED BY <4>1, <4>2
      <3>5. \A s \in Slots \ {hisptr} : his'[s] \in {0, his[s]}
        BY <3>3, <3>4
      <3>6. \A d \in Depths : Back(d)' = Back(d) /\ Back(d) \in Slots \ {hisptr}
        BY <2>t, <3>2, BackTypes DEF Back
      <3>7. \A n \in numbered : n \in 0 .. sends - 1
                                /\ \A d \in Depths : sends - n = d => his'[Back(d)] = 0
        BY <3>5, <3>6 DEF TableInv, NumberedInv
      <3>8. ASSUME FromTable(e)
            PROVE  /\ e.n \in 0 .. sends - 1
                   /\ \A d \in Depths : sends - e.n = d => his'[Back(d)] = 0
        <4>1. e.origin = "icmp" /\ sends - e.n < HisSize /\ Lookup(e.port)
          BY <3>8 DEF FromTable, SndHops
        <4>2. PICK p \in net, d \in Depths :
                 p.n = e.n /\ sends - p.n = d /\ e.port - base_port = Back(d)
          BY <3>1, <4>1, TableAnswers DEF TableInv
        <4>3. e.n \in 0 .. sends - 1
          BY <4>2 DEF TableInv, NetInv
        <4>4. table[Back(d)] = 0
          BY <2>t, <3>6, <4>1, <4>2 DEF Forget
        <4>5. his'[Back(d)] = 0
          BY <3>4, <3>6, <4>4
        <4>6. QED BY <4>2, <4>3, <4>5
      <3>9. numbered' = IF FromTable(e) THEN numbered \cup {e.n} ELSE numbered
        BY <2>6 DEF RecvErr
      <3>10. \A n \in numbered' : n \in 0 .. sends - 1
                                  /\ \A d \in Depths : sends - n = d => his'[Back(d)] = 0
        BY <3>7, <3>8, <3>9
      <3>11. NumberedInv'
        BY <3>2, <3>6, <3>10 DEF NumberedInv
      <3>12. NetInv'
        BY <3>2, <3>5, <3>6 DEF TableInv, NetInv, PortOf
      <3>13. QueueInv'
        BY <3>1, <3>2, QueueKept DEF TableInv
      <3>14. QED BY <3>11, <3>12, <3>13 DEF TableInv
    <2>7. CASE NoMoreErrors
      <3>1. progress \in Int /\ ErrReturn(progress, his)
        BY <2>7 DEF NoMoreErrors, TypeInv, TraceTypeOK, Mtus
      <3>2. \A s \in Slots \ {hisptr} : his'[s] = his[s]
        BY <2>t, <3>1, ErrReturnTable
      <3>3. QED BY <2>7, <2>u, <3>2 DEF NoMoreErrors, findings, network
    <2>8. ASSUME NEW p \in net, Answer(p)
          PROVE  TableInv'
      <3>1. PICK kind \in Kinds, payload \in {"none", "intact"}, m \in Mtus \cup {0} :
               errq' = Append(errq, [port |-> p.port, ttl |-> p.ttl, n |-> p.n,
                                   kind |-> kind, origin |-> "icmp",
                                   info |-> m, payload |-> payload])
        BY <2>8 DEF Answer
      <3> DEFINE e == [port |-> p.port, ttl |-> p.ttl, n |-> p.n,
                       kind |-> kind, origin |-> "icmp", info |-> m, payload |-> payload]
      <3>2. p \in Probes /\ m \in 0 .. InitialMtu
        BY DEF TypeInv, Mtus
      <3>3. e \in Entries
        BY <3>2 DEF Probes, Entries
      <3>4. errq' = Append(errq, e) /\ p.n = e.n /\ p.port = e.port /\ p.ttl = e.ttl
        BY <3>1
      <3> HIDE DEF e
      <3>5. UNCHANGED <<net, numbered, hisptr, sends, his>>
        BY <2>8 DEF Answer, findings
      <3>6. QueueInv'
        BY <3>3, <3>4, <3>5, QueueKept DEF TableInv
      <3>7. \A s \in Slots \ {hisptr} : his'[s] \in {0, his[s]}
        BY <3>5
      <3>8. QED BY <3>5, <3>6, <3>7, TableKept DEF TableInv
    <2>9. QED
      BY <2>1, <2>3, <2>4, <2>5, <2>6, <2>7, <2>8 DEF Next, Process
  <1>3. QED BY <1>1, <1>2, TraceTypes, PTL DEF Spec

\* Every line recverr() numbers carries the TTL of the probe it answers, and
\* from the table no probe is numbered twice.
THEOREM HopsAreAttributed == Spec => []HopsAttributed
  <1>1. TypeInv /\ TableInv => HopsAttributed
    <2> SUFFICES ASSUME TypeInv, TableInv, pc = "err", errq # <<>>
                 PROVE  /\ Recent(Head(errq)) /\ SndHops(Head(errq)) > 0
                              => SndHops(Head(errq)) = Head(errq).ttl
                        /\ FromTable(Head(errq)) => Head(errq).n \notin numbered
      BY DEF HopsAttributed
    <2> DEFINE e == Head(errq)
    <2>1. ASSUME Recent(e), SndHops(e) > 0, e.payload # "intact"
          PROVE  SndHops(e) = e.ttl /\ e.n \notin numbered
      <3>1. Lookup(e.port)
        BY <2>1 DEF SndHops
      <3>2. PICK p \in net, d \in Depths :
               /\ p.n = e.n /\ p.ttl = e.ttl /\ sends - p.n = d
               /\ e.port - base_port = Back(d) /\ his[Back(d)] = p.ttl
        BY <2>1, <3>1, TableAnswers DEF TableInv, Recent
      <3>3. SndHops(e) = his[Back(d)]
        BY <2>1, <3>1, <3>2 DEF SndHops
      <3>4. e.n \in numbered => his[Back(d)] = 0
        BY <3>2 DEF TableInv, NumberedInv
      <3>5. QED BY <2>1, <3>2, <3>3, <3>4
    <2>2. Recent(e) /\ SndHops(e) > 0 => SndHops(e) = e.ttl
      <3>1. CASE e.payload = "intact"
        BY <3>1 DEF SndHops
      <3>2. CASE e.payload # "intact"
        BY <2>1, <3>2
      <3>3. QED BY <3>1, <3>2
    <2>3. FromTable(e) => e.n \notin numbered
      BY <2>1 DEF FromTable, Recent
    <2>4. QED BY <2>2, <2>3
  <1>2. QED BY <1>1, TraceTypes, TableFits, PTL

(***************************************************************************)
(* The sweep                                                               *)
(***************************************************************************)

\* No probe went further than the sweep has come.  With -m 255 the TTL, a
\* uint8_t, never exceeds the limit and starts again at 0, which ends an IPv4
\* trace (the socket refuses a TTL of 0) but not an IPv6 one.
Ends  == max_hops < TtlMod - 1 \/ Family = 4
Below == \A p \in net : p.ttl <= ttl

SweepInv ==
    /\ pc \notin {"hop", "done"} => ttl <= max_hops /\ Below
    /\ pc = "hop" => (ttl = 0 /\ Family = 4) \/ Below

\* The next TTL is above all probes so far, or ends the trace.
LEMMA NextTtl ==
    ASSUME Ends, TypeInv, ttl <= max_hops, Below,
           ttl' = (ttl + 1) % TtlMod, UNCHANGED net
    PROVE  (ttl' = 0 /\ Family = 4) \/ Below'
  <1>1. PICK x \in Nat : x = ttl + 1
    BY DEF TypeInv, TraceTypeOK
  <1>2. x <= TtlMod /\ TtlMod \in Nat \ {0, 1} /\ max_hops \in 0 .. TtlMod - 1 /\ ttl \in Nat
    BY <1>1, TracepathAssumption DEF TypeInv, TraceTypeOK
  <1>3. (x < TtlMod => x % TtlMod = x) /\ (x >= TtlMod => x % TtlMod = x - TtlMod)
    BY <1>2, ModOnce
  <1>4. ttl' = x % TtlMod
    BY <1>1
  <1>5. CASE x < TtlMod
    <2>1. \A p \in net : p.ttl <= ttl /\ p.ttl \in Int
      BY DEF Below, TypeInv, Probes, Ttls
    <2>2. ttl' = ttl + 1
      BY <1>1, <1>3, <1>4, <1>5
    <2>3. \A p \in net' : p.ttl <= ttl'
      BY <1>2, <2>1, <2>2
    <2>4. QED BY <2>3 DEF Below
  <1>6. CASE x = TtlMod
    BY <1>1, <1>2, <1>3, <1>4, <1>6 DEF Ends
  <1>7. QED BY <1>2, <1>5, <1>6

\* Wherever probe_ttl() returns to, the sweep is as far as its probes.
LEMMA ReturnSweep ==
    ASSUME Ends, TypeInv, ttl <= max_hops, Below, NEW r \in Int, Return(r), UNCHANGED net
    PROVE  SweepInv'
  <1>1. CASE mtu # old_mtu
    BY <1>1 DEF Return, SweepInv, Below
  <1>2. CASE mtu = old_mtu /\ r = 0
    BY <1>2 DEF Return, Done, SweepInv
  <1>3. CASE mtu = old_mtu /\ r > 0
    <2>1. pc' = "hop" /\ ttl' = (ttl + 1) % TtlMod
      BY <1>3 DEF Return
    <2>2. QED BY <2>1, NextTtl DEF SweepInv
  <1>4. CASE mtu = old_mtu /\ r < 0
    BY <1>4 DEF Return, SweepInv, Below
  <1>5. QED BY <1>1, <1>2, <1>3, <1>4

\* So does recverr().
LEMMA ErrReturnSweep ==
    ASSUME Ends, TypeInv, ttl <= max_hops, Below, NEW r \in Int, NEW table,
           ErrReturn(r, table), UNCHANGED net
    PROVE  SweepInv'
  <1>1. CASE caller = "wait"
    BY <1>1, ReturnSweep DEF ErrReturn
  <1>2. CASE caller # "wait" /\ r = 0
    BY <1>2, ReturnSweep DEF ErrReturn
  <1>3. CASE caller # "wait" /\ r # 0
    BY <1>3 DEF ErrReturn, main, SweepInv, Below
  <1>4. QED BY <1>1, <1>2, <1>3

\* The sweep stays within max_hops and above its probes.
THEOREM SweepAdvances ==
    ASSUME Ends
    PROVE  Spec => []SweepInv
  <1>1. Init => SweepInv
    BY TracepathAssumption DEF Init, SweepInv, Below
  <1>2. TypeInv /\ SweepInv /\ [Next]_vars => SweepInv'
    <2> SUFFICES ASSUME TypeInv, SweepInv, [Next]_vars PROVE SweepInv'
      OBVIOUS
    <2>t. ttl \in Ttls /\ ttl \in Int /\ progress \in Int
      BY DEF TypeInv, TraceTypeOK, Ttls, Mtus
    <2>1. CASE NextHop
      BY <2>1, <2>t DEF NextHop, Done, SweepInv, Below, network
    <2>2. CASE Try
      BY <2>2 DEF Try, SweepInv, Below, network
    <2>3. CASE NoReply
      <3>1. ttl <= max_hops /\ Below /\ pc' = "hop"
        BY <2>3 DEF NoReply, SweepInv
      <3>2. (ttl' = 0 /\ Family = 4) \/ Below'
        BY <2>3, <3>1, NextTtl DEF NoReply, network
      <3>3. QED BY <3>1, <3>2 DEF SweepInv
    <2>4. CASE Send
      <3>1. ttl <= max_hops /\ Below /\ pc' = "wait" /\ ttl' = ttl
        BY <2>4 DEF Send, SweepInv, main
      <3>2. PICK q : q.ttl = ttl /\ net' = net \cup {q}
        BY <2>4 DEF Send
      <3>3. \A p \in net' : p.ttl <= ttl
        BY <2>t, <3>1, <3>2 DEF Below
      <3>4. Below'
        BY <3>1, <3>3 DEF Below
      <3>5. QED BY <3>1, <3>4 DEF SweepInv
    <2>5. CASE SendFails \/ Waited
      BY <2>5 DEF SendFails, Waited, SweepInv, Below, main, network
    <2>6. CASE GiveUp \/ Replied
      <3>1. ttl <= max_hops /\ Below /\ Return(0) /\ UNCHANGED net
        BY <2>6 DEF GiveUp, Replied, SweepInv, network
      <3>2. QED BY <3>1, ReturnSweep
    <2>7. CASE RecvErr
      <3>1. ttl <= max_hops /\ Below /\ pc = "err" /\ UNCHANGED net
        BY <2>7 DEF RecvErr, SweepInv, network
      <3>2. \/ \E table : ErrReturn(0, table)
            \/ UNCHANGED <<pc, main, tries>>
        BY <2>7 DEF RecvErr
      <3>3. CASE \E table : ErrReturn(0, table)
        BY <3>1, <3>3, ErrReturnSweep
      <3>4. CASE UNCHANGED <<pc, main, tries>>
        BY <3>1, <3>4 DEF SweepInv, Below, main
      <3>5. QED BY <3>2, <3>3, <3>4
    <2>8. CASE NoMoreErrors
      <3>1. ttl <= max_hops /\ Below /\ ErrReturn(progress, his) /\ UNCHANGED net
        BY <2>8 DEF NoMoreErrors, SweepInv, network
      <3>2. QED BY <2>t, <3>1, ErrReturnSweep
    <2>9. ASSUME NEW p \in net, Answer(p)
          PROVE  SweepInv'
      <3>1. UNCHANGED <<pc, ttl, net>>
        BY <2>9 DEF Answer, main
      <3>2. QED BY <3>1 DEF SweepInv, Below
    <2>10. CASE Ended \/ UNCHANGED vars
      <3>1. UNCHANGED <<pc, ttl, net>>
        BY <2>10 DEF Ended, vars
      <3>2. QED BY <3>1 DEF SweepInv, Below
    <2>11. QED
      BY <2>1, <2>2, <2>3, <2>4, <2>5, <2>6, <2>7, <2>8, <2>9, <2>10 DEF Next, Process
  <1>3. QED BY <1>1, <1>2, TraceTypes, PTL DEF Spec

\* "reached" never claims fewer hops than the probe that arrived was given, nor
\* more than the sweep has come to: recverr() is the only step that takes an
\* entry, and a TTL it takes from the table is the probe's.
THEOREM ReachedIsHonest ==
    ASSUME Ends
    PROVE  Spec => NeverTooNear
  <1>1. TypeInv /\ TableInv /\ SweepInv /\ [Next]_vars =>
           ((pc = "err" /\ errq # <<>> /\ errq' = Tail(errq)) =>
              (Recent(Head(errq)) /\ Head(errq).kind = "refused"
                 => hops_to' \in Head(errq).ttl .. ttl))
    <2> SUFFICES ASSUME TypeInv, TableInv, SweepInv, [Next]_vars,
                        pc = "err", errq # <<>>, errq' = Tail(errq),
                        Recent(Head(errq)), Head(errq).kind = "refused"
                 PROVE  hops_to' \in Head(errq).ttl .. ttl
      OBVIOUS
    <2> DEFINE e == Head(errq)
    <2>1. errq' # errq /\ Len(errq') < Len(errq)
      BY DEF TypeInv
    <2>2. RecvErr
      <3>1. ASSUME NEW p \in net, Answer(p) PROVE FALSE
        <4>1. PICK x : errq' = Append(errq, x)
          BY <3>1 DEF Answer
        <4>2. Len(errq') = Len(errq) + 1 /\ Len(errq) \in Nat
          BY <4>1 DEF TypeInv
        <4>3. QED BY <2>1, <4>2
      <3>2. ~Ended /\ ~(UNCHANGED vars) /\ ~NoMoreErrors
        BY <2>1 DEF Ended, vars, NoMoreErrors
      <3>3. /\ ~NextHop /\ ~Try /\ ~NoReply /\ ~Send /\ ~SendFails /\ ~GiveUp
            /\ ~Replied /\ ~Waited
        BY DEF NextHop, Try, NoReply, Send, SendFails, GiveUp, Replied, Waited
      <3>4. QED BY <3>1, <3>2, <3>3 DEF Next, Process
    <2>3. hops_to' = Guess(e)
      BY <2>2 DEF RecvErr
    <2>4. PICK p \in net, d \in Depths :
             /\ p.n = e.n /\ p.ttl = e.ttl /\ sends - p.n = d
             /\ Lookup(e.port) => /\ e.port - base_port = Back(d)
                                  /\ his[Back(d)] = p.ttl
      BY TableAnswers DEF TableInv, Recent
    <2>5. e.ttl \in Ttls /\ ttl \in Ttls /\ e.ttl <= ttl
      <3>1. p \in Probes
        BY DEF TypeInv
      <3>2. p.ttl <= ttl
        BY DEF SweepInv, Below
      <3>3. QED BY <2>4, <3>1, <3>2 DEF Probes, TypeInv, TraceTypeOK, Ttls
    <2>6. SndHops(e) \in {-1, e.ttl}
      BY <2>4 DEF SndHops
    <2>7. Guess(e) \in {ttl, e.ttl}
      BY <2>5, <2>6 DEF Guess, Ttls
    <2>8. QED BY <2>3, <2>5, <2>7 DEF Ttls
  <1>2. QED BY <1>1, TraceTypes, TableFits, SweepAdvances, PTL DEF Spec, NeverTooNear

(***************************************************************************)
(* Why every trace ends                                                    *)
(***************************************************************************)

\* The queue holds nothing but one error that lowers the mtu: what a failed
\* send leaves in an empty queue.
Lowers == pc = "err" /\ Len(errq) = 1 /\ errq[1].kind = "toobig" /\ errq[1].info < mtu

Probing == pc \in {"send", "wait", "err"}

\* Entries to be read before such an error is all there is; a send that fails
\* may add one more.
Backlog == IF errq = <<>> \/ Lowers THEN 0
           ELSE IF pc = "err" THEN Len(errq) ELSE Len(errq) + 1

\* main() starts its attempts again after this probe.
Changed == IF Probing /\ mtu # old_mtu THEN 1 ELSE 0

\* A TTL of 0 ends an IPv4 trace.
HopsLeft  == IF ttl = 0 /\ Family = 4 THEN 0 ELSE TtlMod - ttl
TurnsLeft == IF pc = "hop" THEN 4 ELSE IF pc = "done" THEN 0 ELSE 3 - i
\* probe_ttl() starts its sends again after this recverr().
News      == IF pc = "err" /\ progress # -1 THEN 1 ELSE 0
TriesLeft == IF Probing THEN MaxTries - tries ELSE MaxTries + 1
Place     == IF pc = "send" THEN 2 ELSE IF pc = "wait" THEN 1 ELSE 0

Variant == <<MaxAnswers - answers, Backlog, mtu, Changed, HopsLeft, TurnsLeft,
             News, TriesLeft, Place>>

\* The lexicographic order of such tuples, in which nothing descends for ever.
Smaller == {p \in Nat \X Nat : p[1] < p[2]}
Order   == LexProductOrdering(Smaller, Nat, 9)

\* This step goes down.
Descends == <<Variant', Variant>> \in Order

\* Tuples of numbers in this order do not descend for ever.
LEMMA OrderWellFounded == IsWellFoundedOn(Order, [1 .. 9 -> Nat])
  <1>1. OpToRel(<, Nat) = Smaller
    BY DEF OpToRel, Smaller
  <1>2. IsWellFoundedOn(Smaller, Nat)
    BY <1>1, NatLessThanWellFounded
  <1>3. PICK n \in Nat : n = 9
    OBVIOUS
  <1>4. IsWellFoundedOn(LexProductOrdering(Smaller, Nat, n), [1 .. n -> Nat])
    BY <1>2, WFLexProductOrdering
  <1>5. QED BY <1>3, <1>4 DEF Order

\* One step down: some part falls, and those before it stay.
Falls ==
    \/ answers' > answers
    \/ /\ answers' = answers
       /\ \/ Backlog' < Backlog
          \/ /\ Backlog' = Backlog
             /\ \/ mtu' < mtu
                \/ /\ mtu' = mtu
                   /\ \/ Changed' < Changed
                      \/ /\ Changed' = Changed
                         /\ \/ HopsLeft' < HopsLeft
                            \/ /\ HopsLeft' = HopsLeft
                               /\ \/ TurnsLeft' < TurnsLeft
                                  \/ /\ TurnsLeft' = TurnsLeft
                                     /\ \/ News' < News
                                        \/ /\ News' = News
                                           /\ \/ TriesLeft' < TriesLeft
                                              \/ TriesLeft' = TriesLeft /\ Place' < Place

\* The parts are numbers.
LEMMA VariantType ==
    TypeInv => Variant \in [1 .. 9 -> Nat]
  <1> SUFFICES ASSUME TypeInv PROVE Variant \in [1 .. 9 -> Nat]
    OBVIOUS
  <1> USE TracepathAssumption
  <1>1. /\ MaxAnswers - answers \in Nat /\ mtu \in Nat /\ Changed \in Nat
        /\ News \in Nat /\ Place \in Nat
    BY DEF TypeInv, TraceTypeOK, Mtus, Changed, News, Place
  <1>2. Backlog \in Nat
    BY DEF TypeInv, Backlog
  <1>3. HopsLeft \in Nat /\ TurnsLeft \in Nat /\ TriesLeft \in Nat
    BY DEF TypeInv, TraceTypeOK, HopsLeft, TurnsLeft, TriesLeft
  <1>4. PICK a \in Nat : a = MaxAnswers - answers
    BY <1>1
  <1> HIDE DEF Backlog, Changed, HopsLeft, TurnsLeft, News, TriesLeft, Place
  <1>5. QED BY <1>1, <1>2, <1>3, <1>4 DEF Variant

\* A fall goes down in the order.
LEMMA FallsDescends ==
    ASSUME TypeInv, TypeInv', Falls
    PROVE  <<Variant', Variant>> \in Order
  <1> DEFINE v == Variant  w == Variant'
  <1>1. v \in [1 .. 9 -> Nat] /\ w \in [1 .. 9 -> Nat]
    <2>1. Variant \in [1 .. 9 -> Nat]
      BY VariantType
    <2>2. (Variant \in [1 .. 9 -> Nat])'
      BY VariantType, PTL
    <2>3. QED BY <2>1, <2>2
  <1>2. /\ v[1] = MaxAnswers - answers /\ v[2] = Backlog /\ v[3] = mtu /\ v[4] = Changed
        /\ v[5] = HopsLeft /\ v[6] = TurnsLeft /\ v[7] = News /\ v[8] = TriesLeft
        /\ v[9] = Place
    BY DEF Variant
  <1>3. /\ w[1] = MaxAnswers - answers' /\ w[2] = Backlog' /\ w[3] = mtu' /\ w[4] = Changed'
        /\ w[5] = HopsLeft' /\ w[6] = TurnsLeft' /\ w[7] = News' /\ w[8] = TriesLeft'
        /\ w[9] = Place'
    BY DEF Variant
  <1>4. ASSUME NEW j \in 1 .. 9, w[j] < v[j], \A k \in 1 .. j - 1 : w[k] = v[k]
        PROVE  <<w, v>> \in Order
    <2> HIDE DEF v, w
    <2>1. <<w[j], v[j]>> \in Smaller
      BY <1>1, <1>4 DEF Smaller
    <2>2. QED BY <1>1, <1>4, <2>1 DEF Order, LexProductOrdering
  <1>5. answers \in Nat /\ answers' \in Nat /\ MaxAnswers \in Nat
    BY TracepathAssumption DEF TypeInv, TraceTypeOK
  <1> HIDE DEF v, w
  <1>6. \/ w[1] < v[1]
        \/ w[1] = v[1] /\ w[2] < v[2]
        \/ w[1] = v[1] /\ w[2] = v[2] /\ w[3] < v[3]
        \/ w[1] = v[1] /\ w[2] = v[2] /\ w[3] = v[3] /\ w[4] < v[4]
        \/ /\ w[1] = v[1] /\ w[2] = v[2] /\ w[3] = v[3] /\ w[4] = v[4]
           /\ \/ w[5] < v[5]
              \/ w[5] = v[5] /\ w[6] < v[6]
              \/ w[5] = v[5] /\ w[6] = v[6] /\ w[7] < v[7]
              \/ w[5] = v[5] /\ w[6] = v[6] /\ w[7] = v[7] /\ w[8] < v[8]
              \/ w[5] = v[5] /\ w[6] = v[6] /\ w[7] = v[7] /\ w[8] = v[8] /\ w[9] < v[9]
    <2>1. ASSUME answers' > answers PROVE w[1] < v[1]
      <3>1. PICK a \in Nat, b \in Nat, m \in Nat : a = answers /\ b = answers' /\ m = MaxAnswers
        BY <1>5
      <3>2. b > a
        BY <2>1, <3>1
      <3>3. m - b < m - a
        BY <3>2
      <3>4. MaxAnswers - answers' < MaxAnswers - answers
        BY <3>1, <3>3
      <3>5. QED BY <1>2, <1>3, <3>4
    <2>2. answers' = answers => w[1] = v[1]
      BY <1>2, <1>3
    <2>3. QED BY <1>2, <1>3, <2>1, <2>2 DEF Falls
  <1>7. <<w, v>> \in Order
    BY <1>4, <1>6
  <1>8. QED BY <1>7 DEF v, w

\* An IPv4 trace sends nothing with a TTL of 0.
ZeroInv == ttl = 0 /\ Family = 4 => pc \in {"hop", "done"}

\* NextHop leaves the sweep, and nothing else but the next hop changes the TTL
\* (main(), line 575).
THEOREM ZeroEnds == Spec => []ZeroInv
  <1>1. Init => ZeroInv
    BY DEF Init, ZeroInv
  <1>2. ZeroInv /\ [Next]_vars => ZeroInv'
    <2> SUFFICES ASSUME ZeroInv, [Next]_vars PROVE ZeroInv'
      OBVIOUS
    <2>1. CASE NextHop
      BY <2>1 DEF NextHop, Done, ZeroInv
    <2>2. CASE Try \/ NoReply \/ Send \/ SendFails \/ Waited
      BY <2>2 DEF Try, NoReply, Send, SendFails, Waited, ZeroInv, main
    <2>3. ASSUME NEW r, Return(r) PROVE pc \in {"send", "wait", "err"} => ZeroInv'
      BY <2>3 DEF Return, Done, ZeroInv
    <2>4. CASE GiveUp \/ Replied
      BY <2>3, <2>4 DEF GiveUp, Replied
    <2>5. ASSUME NEW r, NEW table, ErrReturn(r, table) PROVE pc = "err" => ZeroInv'
      <3>1. CASE Return(r) \/ Return(0)
        BY <2>3, <3>1
      <3>2. CASE UNCHANGED main
        BY <3>2 DEF main, ZeroInv
      <3>3. QED BY <2>5, <3>1, <3>2 DEF ErrReturn
    <2>6. CASE RecvErr
      <3>1. pc = "err" /\ (UNCHANGED <<pc, main>> \/ \E table : ErrReturn(0, table))
        BY <2>6 DEF RecvErr
      <3>2. QED BY <2>5, <3>1 DEF main, ZeroInv
    <2>7. CASE NoMoreErrors
      BY <2>5, <2>7 DEF NoMoreErrors
    <2>8. CASE (\E p \in net : Answer(p)) \/ Ended \/ UNCHANGED vars
      BY <2>8 DEF Answer, Ended, vars, main, ZeroInv
    <2>9. QED
      BY <2>1, <2>2, <2>4, <2>6, <2>7, <2>8 DEF Next, Process
  <1>3. QED BY <1>1, <1>2, PTL DEF Spec

\* The next hop leaves fewer to come.
LEMMA HopsFall ==
    ASSUME Ends, TypeInv, ttl <= max_hops, ~(ttl = 0 /\ Family = 4),
           ttl' = (ttl + 1) % TtlMod
    PROVE  HopsLeft' < HopsLeft
  <1>1. PICK x \in Nat : x = ttl + 1
    BY DEF TypeInv, TraceTypeOK
  <1>2. /\ x <= TtlMod /\ TtlMod \in Nat \ {0, 1} /\ max_hops \in 0 .. TtlMod - 1
        /\ ttl \in Nat
    BY <1>1, TracepathAssumption DEF TypeInv, TraceTypeOK
  <1>3. (x < TtlMod => x % TtlMod = x) /\ (x >= TtlMod => x % TtlMod = x - TtlMod)
    BY <1>2, ModOnce
  <1>4. ttl' = x % TtlMod
    BY <1>1
  <1>5. HopsLeft = TtlMod - ttl
    BY DEF HopsLeft
  <1>6. CASE x < TtlMod
    <2>1. ttl' = ttl + 1
      BY <1>1, <1>3, <1>4, <1>6
    <2>2. HopsLeft' = TtlMod - ttl'
      BY <1>2, <2>1 DEF HopsLeft
    <2>3. QED BY <1>2, <1>5, <2>1, <2>2
  <1>7. CASE x = TtlMod
    <2>1. ttl' = 0 /\ Family = 4 /\ ttl = TtlMod - 1
      BY <1>1, <1>2, <1>3, <1>4, <1>7 DEF Ends
    <2>2. HopsLeft' = 0
      BY <2>1 DEF HopsLeft
    <2>3. QED BY <1>2, <1>5, <2>1, <2>2
  <1>8. QED BY <1>2, <1>6, <1>7

\* The part of a fall that a return from probe_ttl() brings about.
ReturnFalls ==
    \/ Changed' < Changed
    \/ /\ Changed' = Changed
       /\ \/ HopsLeft' < HopsLeft
          \/ HopsLeft' = HopsLeft /\ TurnsLeft' < TurnsLeft

\* A return to main() clears the change of the mtu, or takes a hop or a turn.
LEMMA ReturnDescends ==
    ASSUME Ends, TypeInv, SweepInv, ZeroInv, Probing, NEW r \in Int, Return(r), mtu' = mtu
    PROVE  ReturnFalls
  <1>1. /\ ttl <= max_hops /\ ~(ttl = 0 /\ Family = 4) /\ i \in 0 .. 2
        /\ pc \in {"send", "wait", "err"}
    BY DEF Probing, SweepInv, ZeroInv, TypeInv, TraceTypeOK
  <1>2. CASE mtu # old_mtu
    <2>1. pc' = "try"
      BY <1>2 DEF Return
    <2>2. Changed = 1 /\ Changed' = 0
      BY <1>2, <2>1 DEF Changed, Probing
    <2>3. QED BY <2>2 DEF ReturnFalls
  <1>3. CASE mtu = old_mtu
    <2>1. Changed = 0 /\ Changed' = 0
      BY <1>3 DEF Changed, Probing, Return
    <2>2. TurnsLeft = 3 - i
      BY <1>1 DEF TurnsLeft
    <2>3. CASE r = 0
      <3>1. pc' = "done" /\ ttl' = ttl
        BY <1>3, <2>3 DEF Return, Done
      <3>2. HopsLeft' = HopsLeft /\ TurnsLeft' = 0
        BY <3>1 DEF HopsLeft, TurnsLeft
      <3>3. QED BY <1>1, <2>1, <2>2, <3>2 DEF ReturnFalls
    <2>4. CASE r > 0
      <3>1. ttl' = (ttl + 1) % TtlMod
        BY <1>3, <2>4 DEF Return
      <3>2. QED BY <1>1, <2>1, <3>1, HopsFall DEF ReturnFalls
    <2>5. CASE r < 0
      <3>1. pc' = "try" /\ i' = i + 1 /\ ttl' = ttl
        BY <1>3, <2>5 DEF Return
      <3>2. HopsLeft' = HopsLeft /\ TurnsLeft' = 3 - i'
        BY <3>1 DEF HopsLeft, TurnsLeft
      <3>3. QED BY <1>1, <2>1, <2>2, <3>1, <3>2 DEF ReturnFalls
    <2>6. QED BY <2>3, <2>4, <2>5
  <1>4. QED BY <1>2, <1>3

\* Outside recverr() the backlog changes with the queue only.
LEMMA BacklogKept ==
    ASSUME pc # "err", pc' # "err", errq' = errq
    PROVE  Backlog' = Backlog
  BY DEF Backlog, Lowers

\* On the way into recverr() it does not grow, a failed send that adds an error
\* included.
LEMMA BacklogEntered ==
    ASSUME TypeInv, pc # "err", pc' = "err", mtu' = mtu,
           \/ errq' = errq
           \/ \E e : errq' = Append(errq, e) /\ e.kind = "toobig" /\ e.info < mtu
    PROVE  Backlog' <= Backlog
  <1>1. errq \in Seq(Entries) /\ Len(errq) \in Nat
    BY DEF TypeInv
  <1>2. Backlog = IF errq = <<>> THEN 0 ELSE Len(errq) + 1
    BY DEF Backlog, Lowers
  <1>3. CASE errq' = errq
    <2>1. Backlog' = IF errq = <<>> \/ Lowers' THEN 0 ELSE Len(errq)
      BY <1>3 DEF Backlog
    <2>2. QED BY <1>1, <1>2, <2>1
  <1>4. ASSUME NEW e, errq' = Append(errq, e), e.kind = "toobig", e.info < mtu
        PROVE  Backlog' <= Backlog
    <2>1. Len(errq') = Len(errq) + 1 /\ errq' # <<>>
      BY <1>1, <1>4
    <2>2. CASE errq = <<>>
      <3>1. Len(errq') = 1 /\ errq'[1] = e
        BY <1>4, <2>2
      <3>2. Lowers'
        BY <1>4, <3>1 DEF Lowers
      <3>3. QED BY <1>2, <2>2, <3>2 DEF Backlog
    <2>3. CASE errq # <<>>
      <3>1. Backlog' = IF Lowers' THEN 0 ELSE Len(errq) + 1
        BY <2>1 DEF Backlog
      <3>2. QED BY <1>1, <1>2, <2>3, <3>1
    <2>4. QED BY <2>2, <2>3
  <1>5. QED BY <1>3, <1>4

\* What a fall amounts to when everything up to the mtu stays, except that the
\* backlog may shrink.
LEMMA LowerFalls ==
    ASSUME answers' = answers, Backlog' \in Int, Backlog \in Int, Backlog' <= Backlog,
           mtu' = mtu,
           \/ ReturnFalls
           \/ /\ Changed' = Changed /\ HopsLeft' = HopsLeft /\ TurnsLeft' = TurnsLeft
              /\ \/ News' < News
                 \/ /\ News' = News
                    /\ \/ TriesLeft' < TriesLeft
                       \/ TriesLeft' = TriesLeft /\ Place' < Place
    PROVE  Falls
  <1>1. Backlog' < Backlog \/ Backlog' = Backlog
    OBVIOUS
  <1>2. QED BY <1>1 DEF Falls, ReturnFalls

\* Every step that changes the state is a fall.
LEMMA StepFalls ==
    ASSUME Ends, TypeInv, SweepInv, ZeroInv, [Next]_vars, Backlog \in Int, Backlog' \in Int
    PROVE  Falls \/ UNCHANGED vars
  <1> USE TracepathAssumption
  <1>t. /\ tries \in 0 .. MaxTries /\ MaxTries \in Nat /\ i \in 0 .. 3
        /\ progress \in {-1} \cup Mtus /\ mtu \in Mtus /\ answers \in Nat
        /\ ttl \in Nat /\ pc \in {"hop", "try", "send", "wait", "err", "done"}
    BY DEF TypeInv, TraceTypeOK
  <1>1. CASE NextHop
    <2>1. /\ pc = "hop" /\ pc' \in {"try", "done"} /\ (pc' = "try" => i' = 0)
          /\ UNCHANGED <<ttl, tries, progress, mtu, old_mtu, errq, answers>>
      BY <1>1 DEF NextHop, Done, network
    <2>2. Backlog' = Backlog
      BY <2>1, BacklogKept
    <2>3. /\ Changed' = Changed /\ HopsLeft' = HopsLeft /\ TurnsLeft = 4
          /\ TurnsLeft' \in {0, 3}
      BY <2>1 DEF Changed, Probing, HopsLeft, TurnsLeft
    <2>4. QED BY <2>1, <2>2, <2>3, LowerFalls DEF ReturnFalls
  <1>2. CASE Try
    <2>1. /\ pc = "try" /\ pc' = "send" /\ tries' = 0 /\ old_mtu' = mtu
          /\ UNCHANGED <<ttl, i, progress, mtu, errq, answers>>
      BY <1>2 DEF Try, network
    <2>2. Backlog' = Backlog
      BY <2>1, BacklogKept
    <2>3. /\ Changed' = Changed /\ HopsLeft' = HopsLeft /\ TurnsLeft' = TurnsLeft
          /\ News' = News
      BY <2>1 DEF Changed, Probing, HopsLeft, TurnsLeft, News
    <2>4. TriesLeft' < TriesLeft
      BY <1>t, <2>1 DEF TriesLeft, Probing
    <2>5. QED BY <2>1, <2>2, <2>3, <2>4, LowerFalls
  <1>3. CASE NoReply
    <2>1. /\ pc = "try" /\ pc' = "hop" /\ ttl' = (ttl + 1) % TtlMod
          /\ UNCHANGED <<mtu, errq, answers>>
      BY <1>3 DEF NoReply, network
    <2>2. Backlog' = Backlog
      BY <2>1, BacklogKept
    <2>3. Changed' = Changed
      BY <2>1 DEF Changed, Probing
    <2>4. HopsLeft' < HopsLeft
      BY <2>1, HopsFall DEF SweepInv, ZeroInv
    <2>5. QED BY <2>1, <2>2, <2>3, <2>4, LowerFalls DEF ReturnFalls
  <1>4. CASE Send
    <2>1. /\ pc = "send" /\ pc' = "wait"
          /\ UNCHANGED <<ttl, i, old_mtu, tries, progress, mtu, errq, answers>>
      BY <1>4 DEF Send, main
    <2>2. Backlog' = Backlog
      BY <2>1, BacklogKept
    <2>3. /\ Changed' = Changed /\ HopsLeft' = HopsLeft /\ TurnsLeft' = TurnsLeft
          /\ News' = News /\ TriesLeft' = TriesLeft /\ Place' = 1 /\ Place = 2
      BY <2>1 DEF Changed, Probing, HopsLeft, TurnsLeft, News, TriesLeft, Place
    <2>4. QED BY <2>1, <2>2, <2>3, LowerFalls
  <1>5. CASE SendFails \/ Waited
    <2>1. /\ pc \in {"send", "wait"} /\ pc' = "err" /\ progress' = -1
          /\ UNCHANGED <<ttl, i, old_mtu, tries, mtu, answers>>
      BY <1>5 DEF SendFails, Waited, main, network
    <2>2. \/ errq' = errq
          \/ \E e : errq' = Append(errq, e) /\ e.kind = "toobig" /\ e.info < mtu
      <3>1. CASE Waited
        BY <3>1 DEF Waited
      <3>2. ASSUME NEW m \in Mtus, m < mtu,
                   errq' = Append(errq, [port |-> Port, ttl |-> ttl, n |-> sends,
                                         kind |-> "toobig", origin |-> "local",
                                         info |-> m, payload |-> "none"])
            PROVE  \E e : errq' = Append(errq, e) /\ e.kind = "toobig" /\ e.info < mtu
        <4> DEFINE e == [port |-> Port, ttl |-> ttl, n |-> sends, kind |-> "toobig",
                         origin |-> "local", info |-> m, payload |-> "none"]
        <4>1. e.kind = "toobig" /\ e.info = m
          OBVIOUS
        <4> HIDE DEF e
        <4>2. errq' = Append(errq, e)
          BY <3>2 DEF e
        <4>3. QED BY <3>2, <4>1, <4>2
      <3>3. CASE SendFails
        BY <3>2, <3>3 DEF SendFails
      <3>4. QED BY <1>5, <3>1, <3>3
    <2>3. Backlog' <= Backlog
      BY <2>1, <2>2, BacklogEntered
    <2>4. /\ Changed' = Changed /\ HopsLeft' = HopsLeft /\ TurnsLeft' = TurnsLeft
          /\ News' = News /\ TriesLeft' = TriesLeft /\ Place' = 0 /\ Place \in {1, 2}
      BY <2>1 DEF Changed, Probing, HopsLeft, TurnsLeft, News, TriesLeft, Place
    <2>5. QED BY <2>1, <2>3, <2>4, LowerFalls
  <1>6. CASE GiveUp \/ Replied
    <2>1. /\ pc \in {"send", "wait"} /\ Return(0) /\ UNCHANGED <<mtu, errq, answers>>
      BY <1>6 DEF GiveUp, Replied, network
    <2>2. pc' \in {"try", "done", "hop"}
      BY <2>1 DEF Return, Done
    <2>3. Backlog' = Backlog
      BY <2>1, <2>2, BacklogKept
    <2>4. ReturnFalls
      BY <2>1, ReturnDescends DEF Probing
    <2>5. QED BY <2>1, <2>3, <2>4, LowerFalls
  <1>7. CASE RecvErr
    <2>1. /\ pc = "err" /\ errq # <<>> /\ errq' = Tail(errq) /\ answers' = answers
          /\ mtu' = IF Head(errq).kind = "toobig" THEN Head(errq).info ELSE mtu
      BY <1>7 DEF RecvErr, network
    <2>2. /\ errq \in Seq(Entries) /\ Len(errq) \in Nat /\ Len(errq) > 0
          /\ Head(errq) = errq[1] /\ Len(errq') = Len(errq) - 1
          /\ (errq' = <<>> <=> Len(errq) = 1)
      <3>1. errq \in Seq(Entries)
        BY DEF TypeInv
      <3>2. Len(errq) \in Nat /\ Len(errq) > 0 /\ Head(errq) = errq[1]
        BY <2>1, <3>1
      <3>3. errq' \in Seq(Entries) /\ Len(errq') = Len(errq) - 1
        BY <2>1, <3>1
      <3>4. errq' = <<>> <=> Len(errq') = 0
        BY <3>3
      <3>5. QED BY <3>1, <3>2, <3>3, <3>4
    <2>3. \/ UNCHANGED pc
          \/ /\ Head(errq).kind \in Fatal
             /\ \E table : ErrReturn(0, table)
      BY <1>7 DEF RecvErr
    <2>4. CASE Lowers
      <3>1. mtu' < mtu
        BY <2>1, <2>2, <2>4 DEF Lowers
      <3>2. Backlog = 0 /\ Backlog' = 0
        BY <2>2, <2>4 DEF Backlog, Lowers
      <3>3. QED BY <2>1, <3>1, <3>2 DEF Falls
    <2>5. CASE ~Lowers /\ pc' = pc
      <3>1. Backlog = Len(errq)
        BY <2>1, <2>5 DEF Backlog
      <3>2. Backlog' \in {0, Len(errq) - 1}
        BY <2>1, <2>2, <2>5 DEF Backlog
      <3>3. QED BY <2>1, <2>2, <3>1, <3>2 DEF Falls
    <2>6. ASSUME ~Lowers, Head(errq).kind \in Fatal, NEW table, ErrReturn(0, table)
          PROVE  Falls
      <3>1. Return(0) /\ mtu' = mtu
        BY <2>1, <2>6 DEF ErrReturn, Fatal
      <3>2. pc' \in {"try", "done", "hop"}
        BY <3>1 DEF Return, Done
      <3>3. Backlog = Len(errq)
        BY <2>1, <2>6 DEF Backlog
      <3>4. Backlog' \in {0, Len(errq)}
        BY <2>2, <3>2 DEF Backlog, Lowers
      <3>5. ReturnFalls
        BY <2>1, <3>1, ReturnDescends DEF Probing
      <3>6. QED BY <2>1, <2>2, <3>1, <3>3, <3>4, <3>5, LowerFalls
    <2>7. QED BY <2>3, <2>4, <2>5, <2>6
  <1>8. CASE NoMoreErrors
    <2>1. /\ pc = "err" /\ errq = <<>> /\ ErrReturn(progress, his)
          /\ UNCHANGED <<progress, mtu, errq, answers>>
      BY <1>8 DEF NoMoreErrors, network
    <2>2. Backlog = 0 /\ Backlog' = 0
      BY <2>1 DEF Backlog
    <2>3. progress \in Int /\ progress # 0
      BY <1>t DEF Mtus
    <2>4. CASE caller = "wait"
      <3>1. Return(progress)
        BY <2>1, <2>4 DEF ErrReturn
      <3>2. ReturnFalls
        BY <2>1, <2>3, <3>1, ReturnDescends DEF Probing
      <3>3. QED BY <2>1, <2>2, <3>2, LowerFalls
    <2>5. CASE caller # "wait"
      <3>1. /\ pc' = "send" /\ tries' = (IF progress > 0 THEN 0 ELSE tries + 1)
            /\ UNCHANGED <<ttl, i, old_mtu>>
        BY <2>1, <2>3, <2>5 DEF ErrReturn, main
      <3>2. Changed' = Changed /\ HopsLeft' = HopsLeft /\ TurnsLeft' = TurnsLeft
        BY <2>1, <3>1 DEF Changed, Probing, HopsLeft, TurnsLeft
      <3>3. CASE progress > 0
        <4>1. News = 1 /\ News' = 0
          BY <2>1, <3>1, <3>3 DEF News
        <4>2. QED BY <2>1, <2>2, <3>2, <4>1, LowerFalls
      <3>4. CASE ~(progress > 0)
        <4>1. progress = -1
          BY <1>t, <3>4 DEF Mtus
        <4>2. News = 0 /\ News' = 0
          BY <2>1, <3>1, <4>1 DEF News
        <4>3. TriesLeft' < TriesLeft
          BY <1>t, <2>1, <3>1, <3>4 DEF TriesLeft, Probing
        <4>4. QED BY <2>1, <2>2, <3>2, <4>2, <4>3, LowerFalls
      <3>5. QED BY <3>3, <3>4
    <2>6. QED BY <2>4, <2>5
  <1>9. ASSUME NEW p \in net, Answer(p)
        PROVE  Falls
    <2>1. answers' = answers + 1
      BY <1>9 DEF Answer
    <2>2. QED BY <1>t, <2>1 DEF Falls
  <1>10. CASE Ended \/ UNCHANGED vars
    BY <1>10 DEF Ended
  <1>11. QED
    BY <1>1, <1>2, <1>3, <1>4, <1>5, <1>6, <1>7, <1>8, <1>9, <1>10 DEF Next, Process

\* Every step of a trace, whether of tracepath or of the network, goes down in
\* an order in which nothing goes down for ever: however answers are lost,
\* delayed and repeated and however the mtu changes, main() and probe_ttl() do
\* not start again without end.  What is left of TraceEnds is fairness: that
\* steps are taken at all.
THEOREM EveryStepDescends ==
    ASSUME Ends
    PROVE  Spec => [][Descends]_vars
  <1>1. TypeInv => Backlog \in Int
    BY DEF TypeInv, Backlog
  <1>2. TypeInv /\ TypeInv' /\ SweepInv /\ ZeroInv /\ [Next]_vars =>
           [Descends]_vars
    <2> SUFFICES ASSUME TypeInv, TypeInv', SweepInv, ZeroInv, [Next]_vars, ~UNCHANGED vars
                 PROVE  Descends
      OBVIOUS
    <2>1. Backlog \in Int
      BY <1>1
    <2>2. (Backlog \in Int)'
      BY <1>1, PTL
    <2>3. Falls
      BY <2>1, <2>2, StepFalls
    <2>4. QED BY <2>3, FallsDescends DEF Descends
  <1>3. QED BY <1>2, TraceTypes, SweepAdvances, ZeroEnds, PTL DEF Spec
=============================================================================
