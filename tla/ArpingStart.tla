----------------------------- MODULE ArpingStart -----------------------------
(***************************************************************************)
(* arping from main() on: capabilities, the packet socket, the target, the *)
(* device (guess_device(), check_device()), the source address, and then   *)
(* the loop of module Arping.                                              *)
(*                                                                         *)
(* The interfaces, the route to the target and what the user asked for are *)
(* chosen in Init; any system call may fail.  Options that only the loop   *)
(* asks for are chosen when it is entered, and what main() knew of the     *)
(* device is dropped there.                                                *)
(***************************************************************************)
EXTENDS Arping

CONSTANTS
    Devices,        \* interfaces of the host
    None            \* no name (a null pointer), no index (0)

ASSUME StartAssumption == None \notin Devices \cup {"absent", "error"}

\* What is wrong with an interface, in the order check_device() asks.
Flaws == {"none", "down", "noarp", "no_address", "no_broadcast"}

\* -I, -s, and whether the target is 0.0.0.0, which matters without -s only.
Asked == {a \in [name : Devices \cup {None, "absent"},
                 source : {"none", "given", "zero", "invalid"}, any : BOOLEAN] :
            a.any => a.source = "none"}

VARIABLES
    at,             \* place in main()
    ask, links, route,      \* route: the device that netlink names
    permitted, effective,   \* capabilities of the process
    name, ifindex, ifa,     \* ctl->device
    gsrc

world == <<ask, links, route>>
caps == <<permitted, effective>>
device == <<name, ifindex, ifa>>
startVars == <<at, world, caps, device, gsrc>>

\* Options that main() itself looks at.
StartOptions ==
    {o \in Options : /\ o.count = -1 /\ o.interval /\ o.source
                     /\ ~o.timeout /\ ~o.broadcast_only /\ o.quit_on_reply = o.dad}

StartInit ==
    /\ Init /\ opt \in StartOptions
    /\ at = "limit"
    /\ ask \in Asked /\ links \in [Devices -> Flaws]
    /\ route \in Devices \cup {None, "error"}
    /\ permitted \in SUBSET {"raw", "other"} /\ effective = permitted
    /\ name = ask.name /\ ifindex = None /\ ifa = None
    /\ gsrc = "zero"
---------------------------------------------------------------------------
Go(place) == at' = place /\ UNCHANGED vars
Die(code) ==
    /\ pc' = "done" /\ status' = code /\ at' = "exit"
    /\ UNCHANGED <<opt, ready, exit_loop, counters, total_expires, kernel, history>>

\* exit(ctl->dad ? 0 : 2): without ARP there is no duplicate either.
NoArp == Die(IF opt.dad THEN 0 ELSE 2)

\* limit_capabilities(): only where CAP_NET_RAW is permitted the others are
\* given up; cap_set_proc() may be refused with EPERM.
Limit ==
    /\ at = "limit"
    /\ \/ "raw" \in permitted /\ permitted' = {"raw"} /\ effective' = {}
       \/ UNCHANGED caps
    /\ Go("open")
    /\ UNCHANGED <<world, device, gsrc>>

LimitFails ==
    /\ at = "limit" /\ Die(255)
    /\ UNCHANGED <<world, caps, device, gsrc>>

\* modify_capability_raw() to raise, one system call, and again to lower.
Bracket == effective' = effective \ {"raw"} /\ UNCHANGED permitted

\* The options and the packet socket.
Open ==
    /\ at = "open"
    /\ "raw" \in permitted
    /\ Bracket /\ Go("target")
    /\ UNCHANGED <<world, device, gsrc>>

OpenFails ==
    /\ at = "open"
    /\ Die(2) \/ Die(255)
    /\ UNCHANGED <<world, caps, device, gsrc>>

\* inet_aton() or getaddrinfo().
Target ==
    /\ at = "target"
    /\ Go("guess") \/ Die(2)
    /\ UNCHANGED <<world, caps, device, gsrc>>

\* guess_device() and netlink_query(), without a name only.  An answer that
\* names no device leaves the choice to check_device().
Guess ==
    /\ at = "guess"
    /\ \/ name # None /\ Go("check") /\ UNCHANGED device
       \/ /\ name = None /\ route \in Devices
          /\ name' = route /\ ifindex' = route
          /\ Go("check") /\ UNCHANGED ifa
       \/ name = None /\ route = None /\ Go("check") /\ UNCHANGED device
       \/ name = None /\ Die(1) /\ UNCHANGED device
    /\ UNCHANGED <<world, caps, gsrc>>

\* check_ifflags() ends arping for the one interface that has a name.
Blocked(flaw) == name \in Devices /\ links[name] = flaw

\* The interfaces that pass all tests of check_device().
Fit == {d \in Devices : links[d] = "none" /\ name \in {None, d}}

\* Wrong variant: the first of several will do.
Chosen_First == Fit

\* With exactly one of them the device is known.
Chosen == {d \in Fit : Fit = {d}}

\* check_device(), and what main() makes of it.
Check ==
    /\ at = "check"
    /\ \/ Blocked("down") /\ Die(2) /\ UNCHANGED device
       \/ Blocked("noarp") /\ NoArp /\ UNCHANGED device
       \/ /\ ~Blocked("down") /\ ~Blocked("noarp")
          /\ \/ /\ \E d \in Chosen : ifindex' = d /\ name' = d /\ ifa' = d
                /\ Go("source")
             \/ /\ Chosen = {} /\ (ifindex # None \/ name = None)
                /\ Go("source") /\ UNCHANGED device
             \/ /\ Chosen = {} /\ ifindex = None /\ name # None
                /\ Die(2) /\ UNCHANGED device
    /\ UNCHANGED <<world, caps, gsrc>>

\* getifaddrs() or if_nametoindex() fails.
CheckFails ==
    /\ at = "check" /\ Die(2)
    /\ UNCHANGED <<world, caps, device, gsrc>>

\* inet_aton() of -s, and the source of an unsolicited ARP.
Source ==
    /\ at = "source"
    /\ \/ ask.source = "invalid" /\ Die(2) /\ UNCHANGED gsrc
       \/ /\ ask.source # "invalid"
          /\ gsrc' = CASE ask.source = "given" -> "given"
                       [] ask.source = "none" /\ opt.unsolicited /\ ~opt.dad /\ ~ask.any -> "target"
                       [] OTHER -> "zero"
          /\ Go(IF opt.dad /\ ask.source = "none" THEN "bind" ELSE "probe")
    /\ UNCHANGED <<world, caps, device>>

\* The probing socket: bound to a known source, or connected to learn one.
\* Only the request mode connects it.
Probe ==
    /\ at = "probe"
    /\ IF name # None THEN Bracket ELSE UNCHANGED caps
    /\ \/ /\ gsrc' = IF ask.source = "none" /\ ~opt.unsolicited THEN "local" ELSE gsrc
          /\ Go("bind")
       \/ Die(2) /\ UNCHANGED gsrc
    /\ UNCHANGED <<world, device>>

\* getsockname() of the packet socket gives a link-layer address.
HasAddress == ifindex \in Devices /\ links[ifindex] # "no_address"

\* Wrong variant: a source is always there.
NoSource_Never == FALSE

NoSource == ask.source = "none" /\ gsrc = "zero" /\ ~opt.dad

\* The packet socket is bound, the last checks, drop_capabilities().
Bind ==
    /\ at = "bind"
    /\ \/ ~HasAddress /\ NoArp /\ UNCHANGED caps
       \/ HasAddress /\ NoSource /\ Die(2) /\ UNCHANGED caps
       \/ /\ HasAddress /\ ~NoSource
          /\ permitted' = {} /\ effective' = {}
          /\ Go("ready")
    /\ UNCHANGED <<world, device, gsrc>>

BindFails ==
    /\ at = "bind"
    /\ Die(2) \/ (HasAddress /\ ~NoSource /\ Die(255))
    /\ UNCHANGED <<world, caps, device, gsrc>>

\* event_loop() is called.
Enter ==
    /\ at = "ready" /\ at' = "event_loop"
    /\ opt' \in {o \in Options : /\ o.dad = opt.dad /\ o.unsolicited = opt.unsolicited
                                 /\ o.dad => o.source = (gsrc # "zero")}
    /\ ask' = None /\ links' = None /\ route' = None
    /\ name' = None /\ ifindex' = None /\ ifa' = None /\ gsrc' = None
    /\ UNCHANGED caps
    /\ UNCHANGED <<pc, ready, exit_loop, counters, total_expires, kernel, status, history>>

Loop == at = "event_loop" /\ Next /\ UNCHANGED startVars

Exit == at = "exit" /\ UNCHANGED <<vars, startVars>>

Main == Limit \/ LimitFails \/ Open \/ OpenFails \/ Target \/ Guess \/ Check
        \/ CheckFails \/ Source \/ Probe \/ Bind \/ BindFails \/ Enter

StartSpec == StartInit /\ [][Main \/ Loop \/ Exit]_<<vars, startVars>> /\ Fairness
---------------------------------------------------------------------------
(***************************************************************************)
(* Properties                                                              *)
(***************************************************************************)
\* The device the loop will use: the one of -I; or the one the route to the
\* target names, broadcast address or not; or, if it names none, the only one
\* that is fit.  In each case it is up, has ARP and has an address.
RightDevice ==
    at = "ready" =>
        /\ ifindex \in Devices
        /\ IF ask.name # None THEN ifindex = ask.name /\ links[ifindex] = "none"
           ELSE IF route # None THEN ifindex = route /\ links[ifindex] \in {"none", "no_broadcast"}
           ELSE {d \in Devices : links[d] = "none"} = {ifindex}
        /\ name = ifindex /\ ifa \in {None, ifindex}

\* arping.xml on -s: without it the source is 0.0.0.0 in DAD mode, the target
\* in the unsolicited modes, and comes from the routes otherwise.  By then no
\* capability is left, and without a probe status 0 is for DAD mode only.
RightSource ==
    /\ at = "ready" =>
          /\ gsrc = IF ask.source # "none" THEN ask.source
                    ELSE IF opt.dad THEN "zero"
                    ELSE IF opt.unsolicited THEN "target" ELSE "local"
          /\ permitted = {}
    /\ at = "exit" /\ status = 0 =>
          opt.dad /\ ~(ifindex \in Devices /\ links[ifindex] \in {"none", "no_broadcast"})
=============================================================================
