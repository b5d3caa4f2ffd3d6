------------------------- MODULE ArpingStart_proofs -------------------------
(***************************************************************************)
(* Proofs about arping, from main() to the end of the loop, for every      *)
(* count, every set of devices and every bound on timers and replies.      *)
(***************************************************************************)
EXTENDS ArpingStart, TLAPS

---------------------------------------------------------------------------
(***************************************************************************)
(* The loop.  A probe uses up an expiration and none is sent once the      *)
(* count is spent.  A reply that ends the run is the last thing its batch  *)
(* serves, because the socket is the last descriptor; then exit_loop keeps *)
(* poll() from reporting another one.                                      *)
(***************************************************************************)
LoopInv ==
    /\ ArpTypeOK
    /\ pc = "setup" => sent = 0 /\ received = 0 /\ total_expires = 1
    /\ "timer" \in ready => exp > 0
    /\ total_expires + exp <= MaxTicks
    /\ ProbesWithinCount
    /\ opt.quit_on_reply /\ received > 0 => received = 1 /\ exit_loop /\ ready = {}
    /\ DadVerdict

\* A probe that is sent is counted once.
LEMMA SendPackTypes ==
    ASSUME sent \in Nat, brd_sent \in 0 .. sent, send_pack
    PROVE  sent' \in {sent, sent + 1} /\ brd_sent' \in 0 .. sent'
  BY DEF send_pack

\* What -c, -f and -D can be.
LEMMA OptionTypes ==
    ASSUME opt \in Options
    PROVE  /\ opt.count \in Int /\ opt.quit_on_reply \in BOOLEAN
           /\ opt.dad \in BOOLEAN /\ opt.dad => opt.quit_on_reply
           /\ opt.count > 0 => opt.count >= 1
  BY ArpingAssumption DEF Options

\* finish() decides in DAD mode by the replies alone.
LEMMA FinishTypes ==
    ASSUME opt \in Options, received \in Nat
    PROVE  finish \in {0, 1} /\ (opt.dad => (finish = 1 <=> received > 0))
  <1>1. CASE opt.dad
    BY <1>1, OptionTypes DEF finish
  <1>2. CASE ~opt.dad
    BY <1>2 DEF finish
  <1>3. QED BY <1>1, <1>2

\* Before main() the loop's variables are at rest.
LEMMA InitLoopInv == Init => LoopInv
  <1> SUFFICES ASSUME Init PROVE LoopInv
    OBVIOUS
  <1>1. ArpTypeOK
    <2>1. MaxTicks \in Nat /\ MaxTicks >= 1 /\ MaxReceived \in Nat
      BY ArpingAssumption
    <2>2. /\ sent \in 0 .. MaxTicks /\ brd_sent \in 0 .. sent
          /\ received \in 0 .. MaxReceived
          /\ brd_recv \in 0 .. received /\ req_recv \in 0 .. received
          /\ total_expires \in 1 .. MaxTicks /\ exp \in 0 .. MaxTicks
          /\ heard \in 0 .. received
      BY <2>1 DEF Init
    <2>3. QED
      BY <2>2 DEF Init, ArpTypeOK
  <1>2. ProbesWithinCount /\ DadVerdict
    BY OptionTypes DEF Init, ProbesWithinCount, DadVerdict
  <1>3. QED
    BY <1>1, <1>2, ArpingAssumption DEF Init, LoopInv

\* One step for each action of the loop.
LEMMA NextLoopInv == LoopInv /\ Next => LoopInv'
  <1> SUFFICES ASSUME LoopInv, Next PROVE LoopInv'
    OBVIOUS
  <1> USE ArpingAssumption, OptionTypes DEF LoopInv, ArpTypeOK
  <1>1. CASE Setup
    BY <1>1 DEF Setup, send_pack, ProbesWithinCount, DadVerdict, kernel, history
  <1>2. CASE SetupFails
    BY <1>2 DEF SetupFails, ProbesWithinCount, DadVerdict, counters, kernel, history
  <1>3. CASE Leave
    <2>1. UNCHANGED <<opt, ready, exit_loop, counters, total_expires, kernel, history>>
          /\ pc' = "done" /\ status' = finish
      BY <1>3 DEF Leave
    <2>2. QED
      BY <2>1, FinishTypes DEF ProbesWithinCount, DadVerdict, counters, kernel, history
  <1>4. CASE Poll
    <2>1. /\ ~exit_loop /\ pc' = "serve"
          /\ ready' \subseteq DOMAIN Order /\ ("timer" \in ready' => exp > 0)
          /\ UNCHANGED <<opt, exit_loop, counters, total_expires, kernel, status, history>>
      BY <1>4 DEF Poll, Finished, Order
    <2>2. QED
      BY <2>1 DEF ProbesWithinCount, DadVerdict, counters, kernel, history
  <1>5. CASE PollFails \/ BatchDone
    <2>1. /\ pc \in {"poll", "serve"} /\ pc' \in {"poll", "serve"}
          /\ pc = "serve" => ready = {}
          /\ exit_loop' \in BOOLEAN /\ (exit_loop => exit_loop')
          /\ UNCHANGED <<opt, ready, counters, total_expires, kernel, status, history>>
      BY <1>5 DEF PollFails, BatchDone, Stop
    <2>2. ProbesWithinCount' /\ DadVerdict'
      BY <2>1 DEF ProbesWithinCount, DadVerdict, counters, history
    <2>3. QED
      BY <2>1, <2>2 DEF counters, kernel, history
  <1>6. CASE Signal \/ Timeout \/ ServeFails \/ NetDown \/ Ignore
    <2>1. /\ ready' \subseteq ready
          /\ exit_loop' \in BOOLEAN /\ (exit_loop => exit_loop')
          /\ signalled' \in BOOLEAN
          /\ \/ pc' = pc /\ status' = status
             \/ pc' = "done" /\ status' = 2
          /\ UNCHANGED <<opt, counters, total_expires, exp, deadline, history>>
          /\ pc = "serve"
      BY <1>6 DEF Signal, Timeout, ServeFails, NetDown, Ignore, Turn, Stop, kernel
    <2>2. ProbesWithinCount' /\ DadVerdict'
      BY <2>1 DEF ProbesWithinCount, DadVerdict, counters, history
    <2>3. QED
      BY <2>1, <2>2 DEF counters, history
  <1>7. CASE Timer
    <2>1. /\ "timer" \in ready /\ ready' = ready \ {"timer"}
          /\ total_expires' = total_expires + exp /\ exp' = 0
          /\ UNCHANGED <<opt, pc, received, brd_recv, req_recv, unicasting, deadline,
                         signalled, status, history>>
      BY <1>7 DEF Timer, Turn
    <2>2. /\ exit_loop' \in BOOLEAN /\ (exit_loop => exit_loop')
          /\ sent' \in {sent, sent + 1} /\ brd_sent' \in 0 .. sent'
          /\ sent' = sent + 1 => ~Spent(total_expires + exp)
      <3>1. CASE Spent(total_expires + exp)
        BY <1>7, <3>1 DEF Timer, Stop
      <3>2. CASE ~Spent(total_expires + exp)
        BY <1>7, <3>2, SendPackTypes DEF Timer, GoOn
      <3>3. QED BY <3>1, <3>2
    <2>3. sent' <= total_expires' /\ sent' \in 0 .. MaxTicks
      BY <2>1, <2>2 DEF ProbesWithinCount
    <2>4. ProbesWithinCount'
      BY <2>1, <2>2, <2>3 DEF ProbesWithinCount, Spent
    <2>5. DadVerdict'
      <3>1. pc' # "done"
        BY <1>7, <2>1 DEF Timer, Turn
      <3>2. QED BY <2>1, <3>1 DEF DadVerdict, history
    <2>6. QED
      BY <2>1, <2>2, <2>3, <2>4, <2>5 DEF history
  <1>8. CASE Receive
    <2>1. PICK p \in Packets :
             /\ Turn("socket") /\ recv_pack(p)
             /\ UNCHANGED <<opt, pc, sent, brd_sent, total_expires, kernel, status>>
      BY <1>8 DEF Receive
    <2>2. /\ "socket" \in ready /\ ready' = ready \ {"socket"}
          /\ \A g \in ready : g = "socket"
      BY <2>1 DEF Turn, Order
    <2>3. /\ received' = received + 1 /\ received < MaxReceived /\ Counts(p)
          /\ conflict' = (conflict \/ p.src_hw = "peer")
          /\ heard' \in 0 .. received' /\ brd_recv' \in 0 .. received'
          /\ req_recv' \in 0 .. received' /\ unicasting' \in BOOLEAN
          /\ exit_loop' \in BOOLEAN /\ (opt.quit_on_reply => exit_loop')
          /\ UNCHANGED <<opt, pc, sent, brd_sent, total_expires, kernel, status>>
      <3>1. recv_pack(p)
            /\ UNCHANGED <<opt, pc, sent, brd_sent, total_expires, kernel, status>>
        BY <2>1
      <3>2. /\ received' = received + 1 /\ received < MaxReceived /\ Counts(p)
            /\ conflict' = (conflict \/ p.src_hw = "peer")
            /\ heard' \in {heard, heard + 1}
            /\ brd_recv' \in {brd_recv, brd_recv + 1}
            /\ req_recv' \in {req_recv, req_recv + 1}
        BY <3>1 DEF recv_pack
      <3>3. exit_loop' \in BOOLEAN /\ (opt.quit_on_reply => exit_loop')
            /\ unicasting' \in BOOLEAN
        BY <3>1 DEF recv_pack, Stop, GoOn
      <3>4. QED BY <3>1, <3>2, <3>3
    <2>4. received = 0 \/ ~opt.quit_on_reply
      BY <2>2
    <2>5. opt.dad => conflict'
      BY <2>3 DEF Counts, Packets
    <2>6. DadVerdict'
      <3>1. pc' = "serve"
        BY <2>1, <2>3 DEF Turn
      <3>2. received' > 0
        BY <2>3
      <3>3. QED BY <2>3, <2>5, <3>1, <3>2 DEF DadVerdict
    <2>7. ready' = {}
      BY <2>2
    <2>8. QED
      BY <2>2, <2>3, <2>4, <2>6, <2>7 DEF ProbesWithinCount, kernel
  <1>9. CASE Tick \/ Expire \/ Interrupt
    <2>1. /\ exp' \in {exp, exp + 1} /\ total_expires + exp' <= MaxTicks
          /\ deadline' \in BOOLEAN /\ signalled' \in BOOLEAN
          /\ UNCHANGED <<opt, pc, ready, exit_loop, counters, total_expires, status,
                         history>>
      <3>1. CASE Tick
        <4>1. total_expires + exp < MaxTicks /\ exp' = exp + 1
          BY <3>1 DEF Tick
        <4>2. UNCHANGED <<opt, pc, ready, exit_loop, counters, total_expires, deadline,
                          signalled, status, history>>
          BY <3>1 DEF Tick
        <4>3. QED BY <4>1, <4>2
      <3>2. CASE Expire
        BY <3>2 DEF Expire
      <3>3. CASE Interrupt
        BY <3>3 DEF Interrupt
      <3>4. QED BY <1>9, <3>1, <3>2, <3>3
    <2>2. ProbesWithinCount' /\ DadVerdict'
      BY <2>1 DEF ProbesWithinCount, DadVerdict, counters, history
    <2>3. exp' \in 0 .. MaxTicks /\ ("timer" \in ready' => exp' > 0)
      BY <2>1
    <2>4. QED
      BY <2>1, <2>2, <2>3 DEF counters, history
  <1>10. CASE Ended
    BY <1>10 DEF Ended, vars, ProbesWithinCount, DadVerdict, counters, kernel, history
  <1>11. QED
    BY <1>1, <1>2, <1>3, <1>4, <1>5, <1>6, <1>7, <1>8, <1>9, <1>10 DEF Next, Serve

---------------------------------------------------------------------------
(***************************************************************************)
(* main().  What is known of the device depends on how far main() has got: *)
(* before guess_device() only -I, behind it -I or the route, and behind    *)
(* check_device() the interface that passed.                               *)
(***************************************************************************)
MainPlaces == {"limit", "open", "target", "guess", "check", "source", "probe", "bind",
               "ready"}

Unblocked(d) == links[d] # "down" /\ links[d] # "noarp"

DeviceInv ==
    /\ at \in {"limit", "open", "target", "guess"} =>
          name = ask.name /\ ifindex = None /\ ifa = None
    /\ at = "check" =>
          /\ ifa = None
          /\ ask.name # None => name = ask.name /\ ifindex = None
          /\ ask.name = None /\ route # None =>
                route \in Devices /\ name = route /\ ifindex = route
          /\ ask.name = None /\ route = None => name = None /\ ifindex = None
    /\ at \in {"source", "probe", "bind", "ready"} =>
          /\ ifa \in {None, ifindex} /\ name = ifindex
          /\ ask.name # None =>
                ifindex = ask.name /\ ifindex \in Devices /\ links[ifindex] = "none"
          /\ ask.name = None /\ route # None =>
                route \in Devices /\ ifindex = route /\ Unblocked(ifindex)
          /\ ask.name = None /\ route = None /\ ifindex # None =>
                {d \in Devices : links[d] = "none"} = {ifindex}
    /\ at = "ready" => ifindex \in Devices /\ links[ifindex] # "no_address"

MainInv ==
    /\ at \in MainPlaces \cup {"exit", "event_loop"}
    /\ at \in MainPlaces =>
          /\ pc = "setup" /\ links \in [Devices -> Flaws] /\ ask \in Asked
          /\ route \in Devices \cup {None, "error"}
    /\ DeviceInv

StartInv == LoopInv /\ MainInv

\* Nothing is known of the device at first.
LEMMA InitStartInv == StartInit => StartInv
  BY InitLoopInv DEF StartInit, StartInv, MainInv, DeviceInv, MainPlaces, Init

\* A way out of main() leaves the loop's variables as they were.
LEMMA DieLoopInv ==
    ASSUME LoopInv, pc = "setup", NEW code \in {0, 1, 2, 255}, Die(code)
    PROVE  LoopInv'
  <1>1. /\ UNCHANGED <<opt, ready, exit_loop, counters, total_expires, kernel, history>>
        /\ pc' = "done" /\ status' = code
    BY DEF Die
  <1>2. ProbesWithinCount' /\ DadVerdict'
    BY <1>1 DEF LoopInv, ArpTypeOK, ProbesWithinCount, DadVerdict, counters, history
  <1>3. QED
    BY <1>1, <1>2 DEF LoopInv, ArpTypeOK, counters, kernel, history

\* So does every other step but the call of event_loop().
LEMMA GoLoopInv ==
    ASSUME LoopInv, UNCHANGED vars
    PROVE  LoopInv'
  BY DEF LoopInv, ArpTypeOK, ProbesWithinCount, DadVerdict, vars, counters, kernel, history

\* event_loop() may get other options, but the same mode.
LEMMA EnterLoopInv ==
    ASSUME LoopInv, pc = "setup", Enter
    PROVE  LoopInv'
  <1>1. /\ UNCHANGED <<pc, ready, exit_loop, counters, total_expires, kernel, status, history>>
        /\ opt' \in Options /\ opt'.dad = opt.dad
    BY DEF Enter
  <1>2. opt'.count \in Int
    BY <1>1 DEF Options
  <1>3. sent = 0 /\ received = 0 /\ sent' = 0 /\ received' = 0
    BY <1>1 DEF LoopInv, counters
  <1>4. ProbesWithinCount'
    BY <1>1, <1>2, <1>3 DEF LoopInv, ProbesWithinCount
  <1>5. DadVerdict'
    BY <1>1, <1>3 DEF LoopInv, DadVerdict, history
  <1>6. ArpTypeOK'
    BY <1>1 DEF LoopInv, ArpTypeOK, counters, kernel, history
  <1>7. /\ total_expires' = 1 /\ total_expires' + exp' <= MaxTicks
        /\ "timer" \in ready' => exp' > 0
    BY <1>1 DEF LoopInv, kernel
  <1>8. ~(received' > 0)
    BY <1>3
  <1>9. QED
    BY <1>3, <1>4, <1>5, <1>6, <1>7, <1>8 DEF LoopInv

\* Every step of main() is of one of these kinds.
LEMMA MainLoopInv == LoopInv /\ MainInv /\ Main => LoopInv'
  <1> SUFFICES ASSUME LoopInv, MainInv, Main PROVE LoopInv'
    OBVIOUS
  <1>1. CASE Enter
    BY <1>1, EnterLoopInv DEF MainInv, MainPlaces, Enter
  <1>2. CASE ~Enter
    <2>1. UNCHANGED vars \/ \E code \in {0, 1, 2, 255} : Die(code)
      BY <1>2 DEF Main, Limit, LimitFails, Open, OpenFails, Target, Guess, Check,
                  CheckFails, Source, Probe, Bind, BindFails, Go, NoArp
    <2>2. at \in MainPlaces
      BY <1>2 DEF Main, Limit, LimitFails, Open, OpenFails, Target, Guess, Check,
                  CheckFails, Source, Probe, Bind, BindFails, MainPlaces
    <2>3. QED
      BY <2>1, <2>2, DieLoopInv, GoLoopInv DEF MainInv
  <1>3. QED BY <1>1, <1>2

\* The device: Guess and Check decide, the others keep what was decided.
LEMMA MainDeviceInv == MainInv /\ Main => MainInv'
  <1> SUFFICES ASSUME MainInv, Main PROVE MainInv'
    OBVIOUS
  <1> USE StartAssumption DEF MainInv, DeviceInv, MainPlaces
  <1>1. CASE Limit \/ LimitFails \/ Open \/ OpenFails \/ Target
    BY <1>1 DEF Limit, LimitFails, Open, OpenFails, Target, Go, Die, world, device, vars
  <1>2. CASE Guess
    <2>1. CASE name # None
      BY <1>2, <2>1 DEF Guess, Go, Die, world, device, vars
    <2>2. CASE name = None
      BY <1>2, <2>2 DEF Guess, Go, Die, world, device, vars
    <2>3. QED BY <2>1, <2>2
  <1>3. CASE Check
    <2>1. at = "check" /\ UNCHANGED world
      BY <1>3 DEF Check
    <2>2. CASE at' = "exit"
      BY <2>1, <2>2
    <2>3. CASE at' # "exit"
      <3>1. /\ at' = "source" /\ UNCHANGED vars
            /\ ~Blocked("down") /\ ~Blocked("noarp")
            /\ \/ \E d \in Chosen : ifindex' = d /\ name' = d /\ ifa' = d
               \/ /\ Chosen = {} /\ (ifindex # None \/ name = None)
                  /\ UNCHANGED device
        BY <1>3, <2>3 DEF Check, Go, Die, NoArp
      <3>2. CASE \E d \in Chosen : ifindex' = d /\ name' = d /\ ifa' = d
        <4>1. PICK d \in Chosen : ifindex' = d /\ name' = d /\ ifa' = d
          BY <3>2
        <4>2. /\ d \in Devices /\ links[d] = "none" /\ name \in {None, d}
              /\ Fit = {d}
          BY <4>1 DEF Chosen, Fit
        <4>3. QED
          BY <2>1, <3>1, <4>1, <4>2 DEF Fit, Unblocked, world, vars
      <3>3. CASE /\ Chosen = {} /\ (ifindex # None \/ name = None)
                 /\ UNCHANGED device
        BY <2>1, <3>1, <3>3 DEF Blocked, Unblocked, world, device, vars, Asked
      <3>4. QED BY <3>1, <3>2, <3>3
    <2>4. QED BY <2>2, <2>3
  <1>4. CASE CheckFails \/ Source \/ Probe
    BY <1>4 DEF CheckFails, Source, Probe, Go, Die, world, device, vars, Unblocked
  <1>5. CASE Bind \/ BindFails
    BY <1>5 DEF Bind, BindFails, HasAddress, NoArp, Go, Die, world, device, vars, Unblocked
  <1>6. CASE Enter
    BY <1>6 DEF Enter
  <1>7. QED
    BY <1>1, <1>2, <1>3, <1>4, <1>5, <1>6 DEF Main

\* The loop does not touch what main() decided.
LEMMA LoopStartInv == StartInv /\ Loop => StartInv'
  <1> SUFFICES ASSUME StartInv, Loop PROVE StartInv'
    OBVIOUS
  <1>1. LoopInv'
    BY NextLoopInv DEF StartInv, Loop
  <1>2. MainInv'
    BY DEF StartInv, Loop, MainInv, DeviceInv, MainPlaces, startVars
  <1>3. QED BY <1>1, <1>2 DEF StartInv

\* What main() has decided and what the loop counts, at any time.
THEOREM StartInvariant == StartSpec => []StartInv
  <1>1. StartInit => StartInv
    BY InitStartInv
  <1>2. StartInv /\ [Main \/ Loop \/ Exit]_<<vars, startVars>> => StartInv'
    <2> SUFFICES ASSUME StartInv, [Main \/ Loop \/ Exit]_<<vars, startVars>>
                 PROVE  StartInv'
      OBVIOUS
    <2>1. CASE Main
      BY <2>1, MainLoopInv, MainDeviceInv DEF StartInv
    <2>2. CASE Loop
      BY <2>2, LoopStartInv
    <2>3. CASE Exit \/ UNCHANGED <<vars, startVars>>
      <3>1. UNCHANGED vars /\ UNCHANGED startVars
        BY <2>3 DEF Exit
      <3>2. LoopInv'
        BY <3>1, GoLoopInv DEF StartInv
      <3>3. MainInv'
        BY <3>1 DEF StartInv, MainInv, DeviceInv, Unblocked, startVars, world, device, vars
      <3>4. QED BY <3>2, <3>3 DEF StartInv
    <2>4. QED BY <2>1, <2>2, <2>3
  <1>3. QED BY <1>1, <1>2, PTL DEF StartSpec

---------------------------------------------------------------------------
(***************************************************************************)
(* The end of the run: what -w and -c wait for, the exit status and the    *)
(* summary.                                                                *)
(***************************************************************************)
\* Like the reply -f waits for, the last one -w and -c wait for is the last
\* thing its batch serves.
LastReply ==
    opt.timeout /\ opt.count > 0 =>
        /\ received <= opt.count
        /\ received = opt.count => exit_loop /\ ready = {}

EndInv ==
    /\ pc = "setup" => heard = 0 /\ brd_recv = 0 /\ brd_sent = 0 /\ ~unicasting
    /\ LastReply /\ DeadlineStatus /\ SummaryAddsUp

\* With -w and -c, finish() counts.
LEMMA FinishCounts ==
    ASSUME opt \in Options, received \in Nat, opt.timeout, opt.count > 0,
           ~opt.quit_on_reply, ~opt.unsolicited, finish = 0
    PROVE  opt.count <= received
  <1>1. ~opt.dad /\ opt.count \in Int
    BY OptionTypes
  <1>2. QED BY <1>1 DEF finish

\* A probe counts as a broadcast unless arping has switched to unicast.
LEMMA SendPackSummary ==
    ASSUME SummaryAddsUp, send_pack, UNCHANGED <<opt, received, brd_recv, unicasting, heard>>,
           exit_loop => exit_loop'
    PROVE  SummaryAddsUp'
  BY DEF SummaryAddsUp, send_pack

\* One step for each kind of action of the loop.
LEMMA NextEndInv == LoopInv /\ EndInv /\ Next => EndInv'
  <1> SUFFICES ASSUME LoopInv, EndInv, Next PROVE EndInv'
    OBVIOUS
  <1> USE DEF EndInv
  <1>0. opt.count \in Int /\ received \in Nat
    BY OptionTypes DEF LoopInv, ArpTypeOK
  <1>1. CASE Setup
    <2>1. /\ send_pack /\ pc = "setup" /\ pc' = "poll"
          /\ UNCHANGED <<opt, ready, exit_loop, received, brd_recv, req_recv, unicasting,
                         total_expires, kernel, status, history>>
      BY <1>1 DEF Setup
    <2>2. SummaryAddsUp'
      BY <2>1, SendPackSummary DEF history
    <2>3. QED BY <2>1, <2>2 DEF LastReply, DeadlineStatus
  <1>2. CASE SetupFails
    BY <1>2 DEF SetupFails, LastReply, DeadlineStatus, SummaryAddsUp, counters, kernel,
                history
  <1>3. CASE Leave
    <2>1. UNCHANGED <<opt, ready, exit_loop, counters, total_expires, kernel, history>>
          /\ pc' = "done" /\ status' = finish
      BY <1>3 DEF Leave
    <2>2. DeadlineStatus'
      <3>1. SUFFICES ASSUME status' = 0, opt.timeout, opt.count > 0,
                            ~opt.quit_on_reply, ~opt.unsolicited
                     PROVE  received = opt.count
        BY <2>1 DEF DeadlineStatus, counters
      <3>2. opt.count <= received
        BY <1>0, <2>1, <3>1, FinishCounts DEF LoopInv, ArpTypeOK
      <3>3. QED BY <1>0, <3>1, <3>2 DEF LastReply
    <2>3. QED
      BY <2>1, <2>2 DEF LastReply, SummaryAddsUp, counters, history
  <1>4. CASE Poll
    <2>1. /\ ~exit_loop /\ pc' = "serve"
          /\ UNCHANGED <<opt, exit_loop, counters, total_expires, kernel, status, history>>
      BY <1>4 DEF Poll, Finished
    <2>2. QED
      BY <2>1 DEF LastReply, DeadlineStatus, SummaryAddsUp, counters, history
  <1>5. CASE PollFails \/ BatchDone \/ Signal \/ Timeout \/ ServeFails \/ NetDown \/ Ignore
             \/ Tick \/ Expire \/ Interrupt
    <2>1. /\ ready' \subseteq ready /\ (exit_loop => exit_loop') /\ pc # "done"
          /\ UNCHANGED <<opt, counters, history>>
          /\ pc # "setup" /\ pc' # "setup" /\ (pc' = "done" => status' # 0)
      BY <1>5 DEF PollFails, BatchDone, Signal, Timeout, ServeFails, NetDown, Ignore, Turn,
                  Stop, Tick, Expire, Interrupt
    <2>2. QED
      BY <2>1 DEF LastReply, DeadlineStatus, SummaryAddsUp, counters, history
  <1>6. CASE Timer
    <2>1. /\ ready' = ready \ {"timer"} /\ pc = "serve"
          /\ UNCHANGED <<opt, pc, received, brd_recv, unicasting, heard>>
      BY <1>6 DEF Timer, Turn, history
    <2>2. CASE Spent(total_expires + exp)
      BY <1>6, <2>1, <2>2 DEF Timer, Stop, LastReply, DeadlineStatus, SummaryAddsUp
    <2>3. CASE ~Spent(total_expires + exp)
      <3>1. send_pack /\ UNCHANGED exit_loop
        BY <1>6, <2>3 DEF Timer, GoOn
      <3>2. SummaryAddsUp'
        BY <2>1, <3>1, SendPackSummary
      <3>3. QED BY <2>1, <3>1, <3>2 DEF LastReply, DeadlineStatus
    <2>4. QED BY <2>2, <2>3
  <1>7. CASE Receive
    <2>1. PICK p \in Packets :
             /\ Turn("socket") /\ recv_pack(p)
             /\ UNCHANGED <<opt, pc, sent, brd_sent, total_expires, kernel, status>>
      BY <1>7 DEF Receive
    <2>2. /\ "socket" \in ready /\ ready' = ready \ {"socket"} /\ pc = "serve"
          /\ \A g \in ready : g = "socket"
      BY <2>1 DEF Turn, Order, LoopInv, ArpTypeOK
    <2>3. recv_pack(p) /\ UNCHANGED <<opt, pc, sent, brd_sent, status>>
      BY <2>1
    <2>4. received' = received + 1 /\ ready' = {}
      BY <2>2, <2>3 DEF recv_pack
    <2>5. opt.timeout /\ opt.count > 0 => received < opt.count
      BY <1>0, <2>2 DEF LastReply
    <2>6. LastReply'
      BY <1>0, <2>3, <2>4, <2>5 DEF LastReply, LastOfCount, recv_pack, Stop
    <2>7. heard = brd_recv
      <3>1. SUFFICES ASSUME heard # brd_recv PROVE FALSE
        OBVIOUS
      <3>2. exit_loop /\ opt.timeout /\ received = opt.count
        BY <3>1 DEF SummaryAddsUp
      <3>3. CASE opt.count > 0
        BY <1>0, <2>5, <3>2, <3>3
      <3>4. CASE ~(opt.count > 0)
        <4>1. received = 0
          BY <1>0, <3>2, <3>4
        <4>2. heard = 0 /\ brd_recv = 0
          BY <4>1 DEF LoopInv, ArpTypeOK
        <4>3. QED BY <3>1, <4>2
      <3>5. QED BY <3>3, <3>4
    <2>8. SummaryAddsUp'
      <3>1. CASE LastOfCount
        <4>1. /\ exit_loop' /\ UNCHANGED <<brd_recv, unicasting>>
              /\ heard' \in {heard, heard + 1}
          BY <2>3, <3>1 DEF recv_pack, Stop
        <4>2. opt.timeout /\ received' = opt.count
          BY <2>4, <3>1 DEF LastOfCount
        <4>3. QED
          BY <1>0, <2>3, <2>4, <2>7, <4>1, <4>2 DEF SummaryAddsUp, LoopInv, ArpTypeOK
      <3>2. CASE ~LastOfCount
        <4>1. /\ unicasting' => unicasting \/ ~opt.broadcast_only
              /\ unicasting => unicasting'
          BY <2>3, <3>2 DEF recv_pack
        <4>2. heard' = brd_recv'
          BY <2>3, <2>7, <3>2 DEF recv_pack
        <4>3. QED
          BY <1>0, <2>3, <2>4, <4>1, <4>2 DEF SummaryAddsUp, LoopInv, ArpTypeOK
      <3>3. QED BY <3>1, <3>2
    <2>9. QED
      BY <2>2, <2>3, <2>6, <2>8 DEF DeadlineStatus
  <1>8. CASE Ended
    BY <1>8 DEF Ended, vars, LastReply, DeadlineStatus, SummaryAddsUp, counters, history
  <1>9. QED
    BY <1>1, <1>2, <1>3, <1>4, <1>5, <1>6, <1>7, <1>8 DEF Next, Serve

\* main() ends with status 0 in DAD mode only, which implies -f.
LEMMA MainEndInv == LoopInv /\ MainInv /\ EndInv /\ Main => EndInv'
  <1> SUFFICES ASSUME LoopInv, MainInv, EndInv, Main PROVE EndInv'
    OBVIOUS
  <1>1. pc = "setup" /\ received = 0 /\ heard = 0 /\ brd_recv = 0 /\ ~unicasting
        /\ sent = 0 /\ brd_sent = 0
    <2>1. at \in MainPlaces
      BY DEF Main, Limit, LimitFails, Open, OpenFails, Target, Guess, Check,
             CheckFails, Source, Probe, Bind, BindFails, Enter, MainPlaces
    <2>2. QED BY <2>1 DEF MainInv, LoopInv, EndInv
  <1>2. CASE Enter
    <2>1. /\ UNCHANGED <<pc, counters, history>> /\ opt' \in Options
      BY <1>2 DEF Enter
    <2>2. opt'.count \in Int
      BY <2>1 DEF Options
    <2>3. QED
      BY <1>1, <2>1, <2>2 DEF EndInv, LastReply, DeadlineStatus, SummaryAddsUp, counters,
                              history
  <1>3. CASE ~Enter
    <2>1. \/ UNCHANGED vars
          \/ \E code \in {0, 1, 2, 255} : Die(code) /\ (code = 0 => opt.dad)
      BY <1>3 DEF Main, Limit, LimitFails, Open, OpenFails, Target, Guess, Check,
                  CheckFails, Source, Probe, Bind, BindFails, Go, NoArp
    <2>2. CASE UNCHANGED vars
      BY <2>2 DEF EndInv, LastReply, DeadlineStatus, SummaryAddsUp, vars, counters, history
    <2>3. CASE \E code \in {0, 1, 2, 255} : Die(code) /\ (code = 0 => opt.dad)
      <3>1. /\ UNCHANGED <<opt, ready, exit_loop, counters, history>>
            /\ pc' = "done" /\ (status' = 0 => opt.dad)
        BY <2>3 DEF Die
      <3>2. opt.dad => opt.quit_on_reply
        BY OptionTypes DEF LoopInv, ArpTypeOK
      <3>3. QED
        BY <1>1, <3>1, <3>2 DEF EndInv, LastReply, DeadlineStatus, SummaryAddsUp, counters,
                                history
    <2>4. QED BY <2>1, <2>2, <2>3
  <1>4. QED BY <1>2, <1>3

\* The end of the run is as it should be, from main() on.
THEOREM EndInvariant == StartSpec => []EndInv
  <1>1. StartInit => EndInv
    BY OptionTypes DEF StartInit, Init, EndInv, LastReply, DeadlineStatus, SummaryAddsUp
  <1>2. StartInv /\ EndInv /\ [Main \/ Loop \/ Exit]_<<vars, startVars>> => EndInv'
    <2> SUFFICES ASSUME StartInv, EndInv, [Main \/ Loop \/ Exit]_<<vars, startVars>>
                 PROVE  EndInv'
      OBVIOUS
    <2>1. CASE Main
      BY <2>1, MainEndInv DEF StartInv
    <2>2. CASE Loop
      BY <2>2, NextEndInv DEF StartInv, Loop
    <2>3. CASE Exit \/ UNCHANGED <<vars, startVars>>
      BY <2>3 DEF Exit, EndInv, LastReply, DeadlineStatus, SummaryAddsUp, vars, counters,
                  history
    <2>4. QED BY <2>1, <2>2, <2>3
  <1>3. QED BY <1>1, <1>2, StartInvariant, PTL DEF StartSpec

\* -c bounds the probes, -f and -w with -c the replies, whatever else the same
\* poll() reported.
THEOREM LimitsHold == StartSpec => []WithinLimits
  <1>1. StartInv /\ EndInv => WithinLimits
    BY DEF StartInv, LoopInv, ArpTypeOK, EndInv, LastReply, WithinLimits,
           RepliesWithinLimit
  <1>2. QED BY <1>1, StartInvariant, EndInvariant, PTL

\* The exit status of -D tells another station's answer from everything else,
\* and that of -w with -c means count replies.
THEOREM VerdictsAreRight == StartSpec => []Verdicts
  <1>1. StartInv /\ EndInv => Verdicts
    BY DEF StartInv, LoopInv, EndInv, Verdicts
  <1>2. QED BY <1>1, StartInvariant, EndInvariant, PTL

\* The counters of the summary fit together.
THEOREM SummaryIsConsistent == StartSpec => []SummaryAddsUp
  <1>1. EndInv => SummaryAddsUp
    BY DEF EndInv
  <1>2. QED BY <1>1, EndInvariant, PTL

---------------------------------------------------------------------------
\* The loop is entered with the device of -I, of the route, or the only one.
THEOREM DeviceIsRight == StartSpec => []RightDevice
  <1>1. StartInv => RightDevice
    <2> SUFFICES ASSUME StartInv, at = "ready" PROVE RightDevice
      BY DEF RightDevice
    <2>1. /\ ifindex \in Devices /\ links[ifindex] # "no_address" /\ links[ifindex] \in Flaws
          /\ ifindex # None
      BY StartAssumption DEF StartInv, MainInv, DeviceInv, MainPlaces
    <2>2. QED
      BY <2>1 DEF StartInv, MainInv, DeviceInv, Unblocked, Flaws, RightDevice
  <1>2. QED BY <1>1, StartInvariant, PTL

\* Types of the loop, from main() on.
THEOREM ArpingTypes == StartSpec => []ArpTypeOK
  <1>1. StartInv => ArpTypeOK
    BY DEF StartInv, LoopInv
  <1>2. QED BY <1>1, StartInvariant, PTL

---------------------------------------------------------------------------
(***************************************************************************)
(* The source address, and what a status of 0 without a probe means.       *)
(***************************************************************************)
SourceInv ==
    /\ at = "probe" /\ ask.source = "none" => ~opt.dad
    /\ at \in {"probe", "bind", "ready"} =>
          /\ ask.source \in {"none", "given", "zero"}
          /\ ask.source = "given" => gsrc = "given"
          /\ ask.source = "zero" => gsrc = "zero"
          /\ ask.source = "none" /\ opt.dad => gsrc = "zero"
          /\ ask.source = "none" /\ ~opt.dad /\ opt.unsolicited =>
                gsrc = IF ask.any THEN "zero" ELSE "target"
    /\ at \in {"bind", "ready"} =>
          (ask.source = "none" /\ ~opt.dad /\ ~opt.unsolicited => gsrc = "local")
    /\ at = "ready" => ~NoSource /\ permitted = {}
    /\ at = "exit" /\ status = 0 =>
          opt.dad /\ ~(ifindex \in Devices /\ links[ifindex] \in {"none", "no_broadcast"})

\* Source, Probe and Bind decide about the source; Check and Bind end DAD
\* mode where there is no ARP.
LEMMA MainSourceInv == MainInv /\ SourceInv /\ Main => SourceInv'
  <1> SUFFICES ASSUME MainInv, SourceInv, Main PROVE SourceInv'
    OBVIOUS
  <1> USE DEF SourceInv, NoSource
  <1>1. CASE Limit \/ LimitFails \/ Open \/ OpenFails \/ Target \/ Guess
    BY <1>1 DEF Limit, LimitFails, Open, OpenFails, Target, Guess, Go, Die, vars
  <1>2. CASE Check
    <2>1. at = "check" /\ UNCHANGED world /\ UNCHANGED opt /\ at' \in {"source", "exit"}
      BY <1>2 DEF Check, Go, Die, NoArp, vars
    <2>2. CASE at' = "exit" /\ status' = 0
      <3>1. opt.dad /\ Blocked("noarp") /\ UNCHANGED device
        BY <1>2, <2>2 DEF Check, Go, Die, NoArp
      <3>2. ifindex \in {None, name}
        BY <2>1 DEF MainInv, DeviceInv, MainPlaces
      <3>3. QED
        BY <2>1, <2>2, <3>1, <3>2, StartAssumption DEF Blocked, world, device
    <2>3. QED BY <2>1, <2>2
  <1>3. CASE CheckFails
    BY <1>3 DEF CheckFails, Die
  <1>4. CASE Source
    <2>1. at = "source" /\ ask \in Asked /\ UNCHANGED world /\ UNCHANGED opt
      BY <1>4 DEF Source, MainInv, MainPlaces, Go, Die, vars
    <2>2. CASE at' = "exit"
      BY <1>4, <2>2 DEF Source, Go, Die
    <2>3. CASE at' # "exit"
      BY <1>4, <2>1, <2>3 DEF Source, Go, Die, Asked, world
    <2>4. QED BY <2>2, <2>3
  <1>5. CASE Probe
    BY <1>5 DEF Probe, Go, Die, world, device, vars
  <1>6. CASE Bind
    <2>1. at = "bind" /\ UNCHANGED <<world, device, gsrc>> /\ UNCHANGED opt
      BY <1>6 DEF Bind, Go, Die, NoArp, vars
    <2>2. CASE at' = "ready"
      BY <1>6, <2>1, <2>2 DEF Bind, Go, Die, NoArp, world
    <2>3. CASE at' # "ready"
      <3>1. at' = "exit" /\ (status' = 0 => opt.dad /\ ~HasAddress)
        BY <1>6, <2>3 DEF Bind, Go, Die, NoArp
      <3>2. QED
        BY <2>1, <3>1 DEF HasAddress, world, device
    <2>4. QED BY <2>2, <2>3
  <1>7. CASE BindFails
    BY <1>7 DEF BindFails, Die
  <1>8. CASE Enter
    BY <1>8 DEF Enter
  <1>9. QED
    BY <1>1, <1>2, <1>3, <1>4, <1>5, <1>6, <1>7, <1>8 DEF Main

\* The source is the one arping.xml names, no capability reaches the loop, and
\* only DAD mode succeeds without a probe, where there is no ARP.
THEOREM SourceIsRight == StartSpec => []RightSource
  <1>1. StartInit => SourceInv
    BY DEF StartInit, SourceInv
  <1>2. StartInv /\ SourceInv /\ [Main \/ Loop \/ Exit]_<<vars, startVars>> => SourceInv'
    <2> SUFFICES ASSUME StartInv, SourceInv, [Main \/ Loop \/ Exit]_<<vars, startVars>>
                 PROVE  SourceInv'
      OBVIOUS
    <2>1. CASE Main
      BY <2>1, MainSourceInv DEF StartInv
    <2>2. CASE Loop
      BY <2>2 DEF Loop, SourceInv, startVars
    <2>3. CASE Exit \/ UNCHANGED <<vars, startVars>>
      BY <2>3 DEF Exit, SourceInv, NoSource, vars, startVars, world, caps, device
    <2>4. QED BY <2>1, <2>2, <2>3
  <1>3. SourceInv => RightSource
    BY DEF SourceInv, NoSource, RightSource
  <1>4. QED BY <1>1, <1>2, <1>3, StartInvariant, PTL DEF StartSpec


(***************************************************************************)
(* Why the loop ends                                                       *)
(***************************************************************************)

\* Nothing ends the loop before it is entered.
StopInv == pc = "setup" => ~exit_loop

\* Once exit_loop is set, poll() is not called again and the descriptors of the
\* last batch are served one by one, so that at most one more probe is sent, if
\* the timer is among them.  This is what DeadlineEnds and CountEnds need, up to
\* fairness, when the deadline or the count has set it.
LastBatch ==
    /\ exit_loop'
    /\ \/ pc' = "done"
       \/ pc = "serve" /\ ready = {} /\ pc' = "poll"
       \/ pc = "serve" /\ pc' = "serve" /\ \E f \in ready : ready' = ready \ {f}
       \/ UNCHANGED <<pc, ready, sent>> /\ (Tick \/ Expire)
    /\ sent' # sent => "timer" \in ready \ ready'

\* Every step of the loop once it is told to stop (event_loop(), lines 786 to
\* 861).
LEMMA StopStep == exit_loop /\ pc # "setup" /\ Next => LastBatch \/ UNCHANGED vars
  <1> SUFFICES ASSUME exit_loop, pc # "setup", Next
               PROVE  LastBatch \/ UNCHANGED vars
    OBVIOUS
  <1>1. ~Setup /\ ~SetupFails /\ ~Poll /\ ~PollFails /\ ~Interrupt
    BY DEF Setup, SetupFails, Poll, PollFails, Finished, Interrupt
  <1>2. CASE Leave
    BY <1>2 DEF Leave, LastBatch, counters
  <1>3. CASE BatchDone
    BY <1>3 DEF BatchDone, LastBatch, counters
  <1>4. ASSUME NEW f, Turn(f)
        PROVE  pc = "serve" /\ f \in ready /\ ready' = ready \ {f}
    BY <1>4 DEF Turn
  <1>5. CASE Signal \/ Timeout \/ ServeFails \/ Ignore
    <2>1. /\ pc' = pc /\ exit_loop' /\ sent' = sent
          /\ \E f : Turn(f)
      BY <1>5 DEF Signal, Timeout, ServeFails, Ignore, Stop, counters
    <2>2. QED BY <1>4, <2>1 DEF LastBatch
  <1>6. CASE Timer
    <2>1. pc' = pc /\ exit_loop' /\ Turn("timer")
      BY <1>6 DEF Timer, Stop, GoOn
    <2>2. "timer" \in ready /\ ready' = ready \ {"timer"} /\ pc = "serve"
      BY <1>4, <2>1
    <2>3. QED BY <2>1, <2>2 DEF LastBatch
  <1>7. CASE NetDown
    BY <1>7 DEF NetDown, LastBatch, counters
  <1>8. CASE Receive
    <2>1. pc' = pc /\ sent' = sent /\ Turn("socket")
      BY <1>8 DEF Receive
    <2>2. exit_loop'
      BY <1>8 DEF Receive, recv_pack, Stop, GoOn
    <2>3. QED BY <1>4, <2>1, <2>2 DEF LastBatch
  <1>9. CASE Tick \/ Expire
    BY <1>9 DEF Tick, Expire, LastBatch, counters
  <1>10. CASE Ended
    BY <1>10 DEF Ended
  <1>11. QED
    BY <1>1, <1>2, <1>3, <1>5, <1>6, <1>7, <1>8, <1>9, <1>10 DEF Next, Serve

\* Whatever sets exit_loop - a signal, the deadline, the count, a reply, or
\* poll() - the batch at hand is the last.
THEOREM StopIsLastBatch == StartSpec => [][exit_loop => LastBatch]_<<vars, startVars>>
  <1>1. StartInit => StopInv
    BY DEF StartInit, Init, StopInv
  <1>2. StartInv /\ StopInv /\ [Main \/ Loop \/ Exit]_<<vars, startVars>> => StopInv'
    <2> SUFFICES ASSUME StartInv, StopInv, [Main \/ Loop \/ Exit]_<<vars, startVars>>
                 PROVE  StopInv'
      OBVIOUS
    <2>1. CASE Loop
      <3>1. Next
        BY <2>1 DEF Loop
      <3>2. pc' = "setup" => UNCHANGED vars
        BY <3>1 DEF Next, Setup, SetupFails, Leave, Poll, PollFails, BatchDone, Serve,
                    Signal, Timer, Timeout, ServeFails, NetDown, Ignore, Receive, Turn,
                    Tick, Expire, Interrupt, Ended
      <3>3. QED BY <3>2 DEF StopInv, vars
    <2>2. CASE Main
      <3>1. exit_loop' = exit_loop /\ (pc' = pc \/ pc' = "done")
        BY <2>2 DEF Main, Limit, LimitFails, Open, OpenFails, Target, Guess, Check,
                    CheckFails, Source, Probe, Bind, BindFails, Enter, Go, Die, NoArp, vars
      <3>2. QED BY <3>1 DEF StopInv
    <2>3. CASE Exit \/ UNCHANGED <<vars, startVars>>
      BY <2>3 DEF Exit, StopInv, vars
    <2>4. QED BY <2>1, <2>2, <2>3
  <1>3. StartInv /\ StopInv /\ [Main \/ Loop \/ Exit]_<<vars, startVars>> =>
           [exit_loop => LastBatch]_<<vars, startVars>>
    <2> SUFFICES ASSUME StartInv, StopInv, [Main \/ Loop \/ Exit]_<<vars, startVars>>,
                        exit_loop, ~UNCHANGED <<vars, startVars>>
                 PROVE  LastBatch
      OBVIOUS
    <2>1. pc # "setup"
      BY DEF StopInv
    <2>2. ~Main
      BY <2>1 DEF StartInv, MainInv, MainPlaces, Main, Limit, LimitFails, Open, OpenFails,
                  Target, Guess, Check, CheckFails, Source, Probe, Bind, BindFails, Enter
    <2>3. ~Exit
      BY DEF Exit
    <2>4. Next /\ ~UNCHANGED vars
      BY <2>2, <2>3 DEF Loop
    <2>5. QED BY <2>1, <2>4, StopStep
  <1>4. QED BY <1>1, <1>2, <1>3, StartInvariant, PTL DEF StartSpec
=============================================================================
