----------------------------- MODULE PingStartup -----------------------------
(***************************************************************************)
(* From the options of ping to main_loop(): what limit_capabilities() left *)
(* is raised around single system calls, the sockets are created, each     *)
(* address of the target is tried in turn by ping4_run() or ping6_run(),   *)
(* and setup() makes the last checks.  A node information query goes on    *)
(* into main_loop() with its nonces.                                       *)
(*                                                                         *)
(* The command line and the addresses of the target are chosen in Init.    *)
(* The kernel may refuse any system call; it creates a raw socket only     *)
(* with the capability in effect.  Intermediate hops, socket options whose *)
(* failure only ends ping, and the texts are left out.                     *)
(***************************************************************************)
EXTENDS NodeInfo

CONSTANTS
    Commands,       \* command lines
    Targets,        \* sequences of addresses that getaddrinfo() may return
    MinUser,        \* MIN_USER_INTERVAL_MS
    MinMulticast,   \* MIN_MULTICAST_USER_INTERVAL_MS
    MaxUserPreload, \* 3
    MaxData         \* largest -s: [v4 |-> ..., v6 |-> ..., options |-> ...],
                    \* the last one being what IP options take off v4

ASSUME StartupAssumption ==
    /\ MinUser \in Nat /\ MinMulticast \in Nat /\ MaxUserPreload \in Nat
    /\ \A c \in Commands :
          /\ c.family \in {0, 4, 6} /\ c.source \in {0, 4, 6} /\ c.user \in BOOLEAN
          /\ c.permitted \subseteq {"raw", "admin", "other"}
          /\ c.interval \in Nat /\ c.preload \in Nat \ {0} /\ c.datalen \in Nat
          /\ c.words \in Seq(STRING)
    /\ \A t \in Targets :
          /\ Len(t) \in Nat \ {0}
          /\ \A i \in 1 .. Len(t) :
                /\ t[i].family \in {4, 6}
                /\ t[i].route \in {"ok", "unreachable", "denied", "other"}

VARIABLES
    cmd, target,    \* the command line, the addresses found
    pc,
    error,          \* why ping ended, "" while it runs
    permitted, effective,   \* capabilities of the process
    kept,           \* history: cap_set_proc() failed to lower a capability
    words,          \* number of -N words taken
    socktype,       \* hints.ai_socktype
    family,         \* target_ai_family, 0 for AF_UNSPEC
    sock4, sock6,   \* "none" (fd -1), "dgram" or "raw"
    ai,             \* index of the address that is tried
    firsthop,       \* rts.firsthop: index of an address, 0 if unspecified
    source,         \* families whose source address is known
    mark,           \* opt_mark
    multicast, interval,
    tried           \* history: addresses connect() was called with

capVars == <<permitted, effective, kept>>
hostVars == <<socktype, family, sock4, sock6>>
runVars == <<ai, firsthop, source, mark, multicast, interval, tried>>
vars == <<optionVars, nonceVars, cmd, target, pc, error, capVars, words, hostVars,
          runVars>>

Init ==
    /\ NodeInit
    /\ cmd \in Commands /\ target \in Targets
    /\ pc = "limit" /\ error = ""
    /\ permitted = cmd.permitted /\ effective = cmd.permitted /\ kept = FALSE
    /\ words = 0 /\ socktype = "dgram" /\ family = 0
    /\ sock4 = "none" /\ sock6 = "none"
    /\ ai = 1 /\ firsthop = 0 /\ source = {cmd.source} \ {0}
    /\ mark = cmd.mark /\ multicast = FALSE
    /\ interval = cmd.interval
    /\ tried = {}

Go(place) == pc' = place /\ error' = ""
Die(why)  == pc' = "exit" /\ error' = why
---------------------------------------------------------------------------
(***************************************************************************)
(* Capabilities                                                            *)
(***************************************************************************)
\* Wrong variant: what is in effect stays so.
Keep_Effective == permitted' = permitted \cap {"raw", "admin"} /\ UNCHANGED effective

\* limit_capabilities(): two stay permitted, none in effect; and ping becomes
\* the real user.
Keep == permitted' = permitted \cap {"raw", "admin"} /\ effective' = {}

Limit ==
    /\ pc = "limit"
    /\ Keep /\ UNCHANGED kept
    /\ Go("options")
    /\ UNCHANGED <<optionVars, nonceVars, cmd, target, words, hostVars, runVars>>

LimitFails ==
    /\ pc = "limit" /\ Die("prctl")
    /\ UNCHANGED <<optionVars, nonceVars, cmd, target, capVars, words, hostVars, runVars>>

\* modify_capability(cap, CAP_SET): nobody looks at the result.
Raise(cap) ==
    /\ effective' \in {effective, effective \cup ({cap} \cap permitted)}
    /\ UNCHANGED <<permitted, kept>>

\* modify_capability(cap, CAP_CLEAR), which may fail, with a message only.
Lower(cap) ==
    /\ \/ effective' = effective \ {cap} /\ UNCHANGED kept
       \/ cap \in effective /\ kept' = TRUE /\ UNCHANGED effective
    /\ UNCHANGED permitted

\* Wrong variant: only what is in effect is dropped.
Drop_Effective == effective' = {} /\ UNCHANGED <<permitted, kept>>

\* drop_capabilities()
Drop == effective' = {} /\ permitted' = {} /\ UNCHANGED kept
---------------------------------------------------------------------------
(***************************************************************************)
(* Options and sockets                                                     *)
(***************************************************************************)
\* -4, -6 (or the name ping4, ping6) contradict each other; a user may not
\* preload much.
BadOption == cmd.both \/ (cmd.user /\ cmd.preload > MaxUserPreload)

NodeOption ==
    /\ pc = "options" /\ ~BadOption /\ words < Len(cmd.words)
    /\ Taken(cmd.words[words + 1])
    /\ words' = words + 1 /\ socktype' = "raw"
    /\ UNCHANGED <<cmd, target, pc, error, capVars, family, sock4, sock6, runVars>>

OptionFails ==
    /\ pc = "options"
    /\ \/ BadOption
       \/ words < Len(cmd.words) /\ Refused(cmd.words[words + 1])
    /\ Die("usage")
    /\ UNCHANGED <<optionVars, nonceVars, cmd, target, capVars, words, hostVars, runVars>>

\* An identification of 0 needs a raw socket.
Options ==
    /\ pc = "options" /\ ~BadOption /\ words = Len(cmd.words)
    /\ family' = cmd.family
    /\ socktype' = IF cmd.ident0 THEN "raw" ELSE socktype
    /\ Raise("raw")
    /\ Go("socket4")
    /\ UNCHANGED <<optionVars, nonceVars, cmd, target, words, sock4, sock6, runVars>>

Errnos == {"EACCES", "EAFNOSUPPORT", "EPROTONOSUPPORT", "other"}
FallsBack(err, fam) ==
    err \in {"EACCES", "EPROTONOSUPPORT"} \/ (err = "EAFNOSUPPORT" /\ fam = 4)

\* create_socket(): what socket() may give for a wanted type.
Created(fam) ==
    LET raw == {"none"} \cup (IF "raw" \in effective THEN {"raw"} ELSE {})
    IN  IF socktype = "raw" THEN raw
        ELSE {"dgram"} \cup UNION {IF FallsBack(err, fam) THEN raw ELSE {"none"} :
                                   err \in Errnos}

\* Wrong variant: neither socket is a must when the family is open.
Requisite6_Never == FALSE

\* The IPv6 socket is a must if there is no IPv4 one.
Requisite6 == sock4 = "none"

Socket4 ==
    /\ pc = "socket4"
    /\ IF family = 6 THEN UNCHANGED sock4 ELSE sock4' \in Created(4)
    /\ IF family = 4 /\ sock4' = "none" THEN Die("socket") ELSE Go("socket6")
    /\ UNCHANGED <<optionVars, nonceVars, cmd, target, capVars, words, socktype, family,
                   sock6, runVars>>

Socket6 ==
    /\ pc = "socket6"
    /\ IF family = 4 THEN UNCHANGED sock6 ELSE sock6' \in Created(6)
    /\ IF family # 4 /\ sock6' = "none" /\ Requisite6 THEN Die("socket") ELSE Go("limits")
    /\ UNCHANGED <<optionVars, nonceVars, cmd, target, capVars, words, socktype, family,
                   sock4, runVars>>

\* The family that the sockets leave.
Limited ==
    IF family # 0 THEN family
    ELSE IF sock4 = "none" THEN 6 ELSE IF sock6 = "none" THEN 4 ELSE 0

\* -s; a literal target decides before -4 and -6 do.
Bigger(a, b) == IF a > b THEN a ELSE b
MaxSize(fam) ==
    IF fam = 4 THEN MaxData.v4 - (IF cmd.options THEN MaxData.options ELSE 0)
    ELSE IF fam = 6 THEN MaxData.v6 ELSE Bigger(MaxData.v4, MaxData.v6)
TooLong == cmd.datalen > MaxSize(IF cmd.literal # 0 THEN cmd.literal ELSE family')

\* disable_capability_raw(), the checks after it, and getaddrinfo().
Limits ==
    /\ pc = "limits"
    /\ Lower("raw")
    /\ family' = Limited
    /\ \/ TooLong /\ Die("size")
       \/ ~TooLong /\ (Go("address") \/ Die("getaddrinfo"))
    /\ UNCHANGED <<optionVars, nonceVars, cmd, target, words, socktype, sock4, sock6,
                   runVars>>
---------------------------------------------------------------------------
(***************************************************************************)
(* The addresses                                                           *)
(***************************************************************************)
here == target[ai]
sock == IF here.family = 4 THEN sock4 ELSE sock6
Last == ai = Len(target)
hostUnchanged == UNCHANGED <<cmd, target, words, hostVars>>

Skip ==
    /\ pc = "address" /\ family \notin {0, here.family}
    /\ IF Last THEN Die("family") /\ UNCHANGED ai ELSE Go("address") /\ ai' = ai + 1
    /\ UNCHANGED <<optionVars, nonceVars, capVars, firsthop, source, mark, multicast,
                   interval, tried>>
    /\ hostUnchanged

\* The head of ping4_run() and of ping6_run().  ping6_run() keeps the first
\* hop it has.  Only without a source address a probing socket is connected.
AfterBind == IF here.family \in source THEN "checks" ELSE "mark"
Run ==
    /\ pc = "address" /\ family \in {0, here.family}
    /\ IF here.family = 6
       THEN /\ firsthop' = IF firsthop = 0 THEN ai ELSE firsthop
            /\ DefaultSubject /\ UNCHANGED <<query, flag>>
       ELSE UNCHANGED <<firsthop, optionVars>>
    /\ IF cmd.device THEN Raise("raw") /\ Go("bind") ELSE UNCHANGED capVars /\ Go(AfterBind)
    /\ UNCHANGED <<nonceVars, ai, source, mark, multicast, interval, tried>>
    /\ hostUnchanged

\* SO_BINDTODEVICE between raise and lower.  For the probing socket of IPv6
\* ping ends inside if it fails, otherwise behind.
Bind ==
    /\ pc = "bind"
    /\ \/ Lower("raw") /\ (Go(AfterBind) \/ Die("bind"))
       \/ AfterBind = "mark" /\ here.family = 6 /\ UNCHANGED capVars /\ Die("bind")
    /\ UNCHANGED <<optionVars, nonceVars, runVars>>
    /\ hostUnchanged

\* sock_setmark() on the probing socket: a failure is a warning, and the mark
\* is given up.
Mark ==
    /\ pc = "mark"
    /\ IF mark THEN Raise("admin") /\ Go("marked") ELSE UNCHANGED capVars /\ Go("connect")
    /\ UNCHANGED <<optionVars, nonceVars, runVars>>
    /\ hostUnchanged

SetMark ==
    /\ Lower("admin") /\ mark' \in BOOLEAN
    /\ UNCHANGED <<optionVars, nonceVars, ai, firsthop, source, multicast, interval, tried>>
    /\ hostUnchanged

Marked == pc = "marked" /\ SetMark /\ Go("connect")

\* The address the probing socket is connected to.
Probed == IF here.family = 4 THEN ai ELSE firsthop

\* Wrong variant: the last address asks for another one, too.
GoesOn_Always == TRUE

\* "return < 0: go on to next addrinfo result"
GoesOn == ~Last

Connect ==
    /\ pc = "connect"
    /\ tried' = tried \cup {Probed}
    /\ LET route == target[Probed].route IN
       \/ /\ route = "ok" \/ (route = "denied" /\ here.family = 4 /\ cmd.broadcast)
          /\ source' = source \cup {here.family} /\ Go("checks")
          /\ UNCHANGED ai
       \/ /\ route = "unreachable" /\ GoesOn
          /\ IF Last THEN Die("assert") /\ UNCHANGED ai ELSE Go("address") /\ ai' = ai + 1
          /\ UNCHANGED source
       \/ /\ route # "ok" /\ ~(route = "unreachable" /\ GoesOn)
          /\ Die(route)
          /\ UNCHANGED <<ai, source>>
    /\ UNCHANGED <<optionVars, nonceVars, capVars, firsthop, mark, multicast, interval>>
    /\ hostUnchanged
---------------------------------------------------------------------------
(***************************************************************************)
(* The rest of ping4_run() and ping6_run()                                 *)
(***************************************************************************)
Group == here.multicast \/ (here.family = 4 /\ cmd.broadcast)

\* A user has to be slow with a group, and must not ask for fragments.
Checks ==
    /\ pc = "checks"
    /\ multicast' = (multicast \/ Group)
    /\ IF Group /\ cmd.user /\ (interval < MinMulticast \/ cmd.fragment)
       THEN Die("group") ELSE Go("setup")
    /\ UNCHANGED <<optionVars, nonceVars, capVars, ai, firsthop, source, mark, interval, tried>>
    /\ hostUnchanged

\* Wrong variant: the interval of the command line is tested.
Pace_TestFirst ==
    /\ interval' = IF cmd.flood /\ ~cmd.given THEN 0 ELSE interval
    /\ IF cmd.user /\ interval < MinUser THEN Die("interval") ELSE Go("finalmark")

\* setup(): a flood without -i has no interval; a user needs a minimal one.
Pace ==
    /\ interval' = IF cmd.flood /\ ~cmd.given THEN 0 ELSE interval
    /\ IF cmd.user /\ interval' < MinUser THEN Die("interval") ELSE Go("finalmark")

Setup ==
    /\ pc = "setup" /\ Pace
    /\ UNCHANGED <<optionVars, nonceVars, capVars, ai, firsthop, source, mark, multicast,
                   tried>>
    /\ hostUnchanged

\* setup() marks the socket, too.
FinalMark ==
    /\ pc = "finalmark"
    /\ IF mark THEN Raise("admin") /\ Go("finalmarked") ELSE UNCHANGED capVars /\ Go("drop")
    /\ UNCHANGED <<optionVars, nonceVars, runVars>>
    /\ hostUnchanged

FinalMarked == pc = "finalmarked" /\ SetMark /\ Go("drop")

\* -C connects the IPv4 socket once more; then drop_capabilities().
Enter ==
    /\ pc = "drop"
    /\ \/ Drop /\ Go("main_loop")
       \/ cmd.connect /\ here.family = 4 /\ Die("connect") /\ UNCHANGED capVars
       \/ Die("cap_set_proc") /\ UNCHANGED capVars
    /\ UNCHANGED <<optionVars, nonceVars, runVars>>
    /\ hostUnchanged

\* main_loop() of a node information query.
Session ==
    /\ pc = "main_loop" /\ here.family = 6 /\ niquery_is_enabled
    /\ \/ \E sent \in BOOLEAN : Query(sent)
       \/ \E n \in Nonces : Answer(n)
       \/ ShortAnswer
    /\ UNCHANGED <<pc, error, capVars, runVars>>
    /\ hostUnchanged

Ended == pc \in {"exit", "main_loop"} /\ UNCHANGED vars

Privileges == Limit \/ LimitFails \/ Mark \/ Marked \/ FinalMark \/ FinalMarked
Hosts == NodeOption \/ OptionFails \/ Options \/ Socket4 \/ Socket6 \/ Limits
Addresses == Skip \/ Run \/ Bind \/ Connect \/ Checks \/ Setup \/ Enter
Next == Privileges \/ Hosts \/ Addresses \/ Session \/ Ended

Spec == Init /\ [][Next]_vars
---------------------------------------------------------------------------
(***************************************************************************)
(* Properties                                                              *)
(***************************************************************************)
Running == pc = "main_loop"

StartupTypeOK ==
    /\ NodeTypeOK
    /\ effective \subseteq permitted /\ permitted \subseteq {"raw", "admin", "other"}
    /\ socktype \in {"dgram", "raw"} /\ family \in {0, 4, 6}
    /\ {sock4, sock6} \subseteq {"none", "dgram", "raw"}
    /\ ai \in 1 .. Len(target) /\ firsthop \in 0 .. Len(target)
    /\ tried \subseteq 1 .. Len(target)
    /\ interval \in Nat /\ words \in 0 .. Len(cmd.words)

\* Nothing is in effect but around the calls that need it, and nothing is
\* permitted once packets are exchanged; the only exception is a kernel that
\* refuses to lower a capability, which ping reports and survives until
\* drop_capabilities().
Bracketed == {"limit", "socket4", "socket6", "limits", "bind", "marked", "finalmarked",
              "exit"}
PrivilegesDropped ==
    /\ effective # {} => pc \in Bracketed \/ kept
    /\ Running => permitted = {} /\ effective = {}

\* All words of -N hold at the same time, in any order: one Qtype, the flags
\* asked for, one kind of subject.
Asked == {cmd.words[i] : i \in 1 .. words}
WordsKept ==
    /\ \A w \in Asked \cap DOMAIN QueryWords : query = QueryWords[w]
    /\ \A w \in Asked \cap DOMAIN SubjectWords : subject_type = SubjectWords[w]
    /\ flag = Asked \cap FlagWords

\* main_loop() runs as the command line asks: on a socket of the address's
\* family, which is the family asked for, and which is raw if the
\* identification is 0 or a query was asked for; with a source address; and
\* the assertion that there is another address never fails, however families,
\* kernel support, privileges and routes combine.
RunsAsAsked ==
    /\ error # "assert"
    /\ WordsKept
    /\ pc \in {"bind", "mark", "marked", "connect", "checks", "setup"} \/ Running =>
          /\ sock # "none"
          /\ cmd.family \in {0, here.family}
          /\ cmd.ident0 \/ cmd.words # <<>> => sock = "raw"
    /\ Running => here.family \in source

\* A user's limits hold when packets are exchanged, whichever of the tests on
\* the way saw the final value: -f sets the interval after the test for
\* groups.
UserLimits ==
    Running /\ cmd.user =>
        /\ interval >= MinUser
        /\ multicast => interval >= MinMulticast
        /\ cmd.preload <= MaxUserPreload

\* "return < 0: go on to next addrinfo result" (ping4_run(), ping6_run()):
\* ping gives up for want of a route only after it tried every address of the
\* families asked for.
EveryAddressTried ==
    error = "unreachable" =>
        \A i \in 1 .. Len(target) : family \in {0, target[i].family} => i \in tried
=============================================================================
