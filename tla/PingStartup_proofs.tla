------------------------- MODULE PingStartup_proofs -------------------------
(***************************************************************************)
(* Proofs about PingStartup, for every set of command lines, targets and   *)
(* limits.  Each theorem has an invariant of its own, over the variables   *)
(* it is about; an action that leaves these alone preserves it.            *)
(***************************************************************************)
EXTENDS PingStartup, TLAPS

---------------------------------------------------------------------------
(***************************************************************************)
(* Capabilities.  What may be in effect at a place of the program, as long *)
(* as no attempt to lower a capability failed.                             *)
(***************************************************************************)

MayHold ==
    CASE pc \in {"socket4", "socket6", "limits", "bind"} -> {"raw"}
      [] pc \in {"marked", "finalmarked"} -> {"admin"}
      [] pc \in {"limit", "exit"} -> {"raw", "admin", "other"}
      [] OTHER -> {}

CapInv ==
    /\ effective \subseteq {"raw", "admin", "other"}
    /\ kept \/ effective \subseteq MayHold
    /\ Running => permitted = {} /\ effective = {}

\* Raising a capability where none is in effect leaves that one, at most.
LEMMA RaiseHolds ==
    ASSUME NEW cap \in {"raw", "admin"}, Raise(cap), CapInv, MayHold = {}
    PROVE  /\ effective' \subseteq {"raw", "admin", "other"}
           /\ kept' \/ effective' \subseteq {cap}
  BY DEF Raise, CapInv

\* Lowering the only capability in effect leaves none, or is remembered.
LEMMA LowerHolds ==
    ASSUME NEW cap \in {"raw", "admin"}, Lower(cap), CapInv, MayHold = {cap}
    PROVE  /\ effective' \subseteq {"raw", "admin", "other"}
           /\ kept' \/ effective' = {}
  BY DEF Lower, CapInv

\* PrivilegesDropped for every command line and kernel: between two brackets
\* nothing is in effect unless the kernel refused to take it back, and the
\* main loop runs without any privilege.
THEOREM PrivilegesAreDropped == Spec => []PrivilegesDropped
  <1>1. Init => CapInv
    <2> SUFFICES ASSUME Init PROVE CapInv
      OBVIOUS
    <2>1. pc = "limit" /\ effective = cmd.permitted /\ cmd \in Commands
      BY DEF Init
    <2>2. effective \subseteq {"raw", "admin", "other"}
      BY <2>1, StartupAssumption
    <2>3. MayHold = {"raw", "admin", "other"} /\ ~Running
      BY <2>1 DEF MayHold, Running
    <2>4. QED BY <2>2, <2>3 DEF CapInv
  <1>2. CapInv /\ [Next]_vars => CapInv'
    <2> SUFFICES ASSUME CapInv, [Next]_vars
                 PROVE  CapInv'
      OBVIOUS
    <2>a. ASSUME UNCHANGED capVars, pc' # "main_loop", MayHold \subseteq MayHold'
          PROVE  CapInv'
      BY <2>a DEF CapInv, capVars, Running
    <2>1. CASE Limit \/ LimitFails
      BY <2>1 DEF Limit, LimitFails, Keep, Go, Die, capVars, CapInv, MayHold, Running
    <2>2. CASE NodeOption \/ OptionFails
      BY <2>2 DEF NodeOption, OptionFails, Die, capVars, CapInv, MayHold, Running
    <2>3. CASE Options
      <3>1. pc = "options" /\ pc' = "socket4" /\ Raise("raw")
        BY <2>3 DEF Options, Go
      <3>2. MayHold = {} /\ MayHold' = {"raw"} /\ ~Running'
        BY <3>1 DEF MayHold, Running
      <3>3. QED BY <3>1, <3>2, RaiseHolds DEF CapInv
    <2>4. CASE Socket4 \/ Socket6
      BY <2>4 DEF Socket4, Socket6, Go, Die, capVars, CapInv, MayHold, Running
    <2>5. CASE Limits
      <3>1. pc = "limits" /\ pc' \in {"address", "exit"} /\ Lower("raw")
        BY <2>5 DEF Limits, Go, Die
      <3>2. MayHold = {"raw"} /\ {} \subseteq MayHold' /\ ~Running'
        BY <3>1 DEF MayHold, Running
      <3>3. QED BY <3>1, <3>2, LowerHolds DEF CapInv
    <2>6. CASE Skip
      BY <2>6 DEF Skip, Go, Die, capVars, CapInv, MayHold, Running
    <2>7. CASE Run
      <3>1. pc = "address"
        BY <2>7 DEF Run
      <3>2. MayHold = {}
        BY <3>1 DEF MayHold
      <3>3. CASE Raise("raw") /\ pc' = "bind"
        <4>1. MayHold' = {"raw"} /\ ~Running'
          BY <3>3 DEF MayHold, Running
        <4>2. QED BY <3>2, <3>3, <4>1, RaiseHolds DEF CapInv
      <3>4. CASE UNCHANGED capVars /\ pc' \in {"checks", "mark"}
        BY <2>a, <3>2, <3>4
      <3>5. QED BY <2>7, <3>3, <3>4 DEF Run, Go, AfterBind
    <2>8. CASE Bind
      <3>1. pc = "bind" /\ pc' \in {"checks", "mark", "exit"}
        BY <2>8 DEF Bind, Go, Die, AfterBind
      <3>2. MayHold = {"raw"} /\ ~Running' /\ {} \subseteq MayHold'
        BY <3>1 DEF MayHold, Running
      <3>3. CASE Lower("raw")
        BY <3>2, <3>3, LowerHolds DEF CapInv
      <3>4. CASE UNCHANGED capVars /\ pc' = "exit"
        BY <3>2, <3>4, <2>a DEF MayHold
      <3>5. QED BY <2>8, <3>3, <3>4 DEF Bind, Die
    <2>9. CASE Mark \/ FinalMark
      <3>1. pc \in {"mark", "finalmark"}
        BY <2>9 DEF Mark, FinalMark
      <3>2. MayHold = {}
        BY <3>1 DEF MayHold
      <3>3. CASE Raise("admin") /\ pc' \in {"marked", "finalmarked"}
        <4>1. MayHold' = {"admin"} /\ ~Running'
          BY <3>3 DEF MayHold, Running
        <4>2. QED BY <3>2, <3>3, <4>1, RaiseHolds DEF CapInv
      <3>4. CASE UNCHANGED capVars /\ pc' \in {"connect", "drop"}
        BY <2>a, <3>2, <3>4
      <3>5. QED BY <2>9, <3>3, <3>4 DEF Mark, FinalMark, Go
    <2>10. CASE Marked \/ FinalMarked
      <3>1. pc \in {"marked", "finalmarked"} /\ pc' \in {"connect", "drop"} /\ Lower("admin")
        BY <2>10 DEF Marked, FinalMarked, SetMark, Go
      <3>2. MayHold = {"admin"} /\ {} \subseteq MayHold' /\ ~Running'
        BY <3>1 DEF MayHold, Running
      <3>3. QED BY <3>1, <3>2, LowerHolds DEF CapInv
    <2>11. CASE Connect \/ Checks \/ Setup
      <3>1. pc \in {"connect", "checks", "setup"} /\ UNCHANGED capVars
            /\ pc' \in {"checks", "address", "setup", "finalmark", "exit"}
        BY <2>11 DEF Connect, Checks, Setup, Pace, Go, Die
      <3>2. MayHold = {}
        BY <3>1 DEF MayHold
      <3>3. QED BY <3>1, <3>2, <2>a
    <2>12. CASE Enter
      <3>1. pc = "drop" /\ (Drop \/ (UNCHANGED capVars /\ pc' = "exit"))
        BY <2>12 DEF Enter, Go, Die
      <3>2. MayHold = {}
        BY <3>1 DEF MayHold
      <3>3. QED BY <3>1, <3>2, <2>a DEF Drop, CapInv
    <2>13. CASE Session \/ Ended \/ UNCHANGED vars
      BY <2>13 DEF Session, Ended, vars, capVars, CapInv, MayHold, Running
    <2>14. QED
      BY <2>1, <2>2, <2>3, <2>4, <2>5, <2>6, <2>7, <2>8, <2>9, <2>10, <2>11, <2>12,
         <2>13
      DEF Next, Privileges, Hosts, Addresses
  <1>3. CapInv => PrivilegesDropped
    BY DEF CapInv, MayHold, PrivilegesDropped, Bracketed
  <1>4. QED BY <1>1, <1>2, <1>3, PTL DEF Spec
---------------------------------------------------------------------------
(***************************************************************************)
(* The limits of a user.  The test for groups comes before -f changes the  *)
(* interval, and the one for users behind it: what -f makes of the         *)
(* interval never passes the second test, so the first one still tells.    *)
(***************************************************************************)
UserInv ==
    /\ cmd \in Commands /\ interval \in Nat
    /\ pc \notin {"limit", "options", "exit"} => ~BadOption
    /\ pc # "exit" /\ cmd.user /\ multicast => interval >= MinMulticast
    /\ pc \in {"finalmark", "finalmarked", "drop", "main_loop"} /\ cmd.user =>
          interval >= MinUser

speedVars == <<cmd, multicast, interval>>

\* UserLimits for every command line, provided that a user must wait at all:
\* with MinUser = 0 a flood to a group would be too fast.
THEOREM UsersAreLimited ==
    ASSUME MinUser > 0
    PROVE  Spec => []UserLimits
  <1>1. Init => UserInv
    <2> SUFFICES ASSUME Init PROVE UserInv
      OBVIOUS
    <2>1. cmd \in Commands /\ pc = "limit" /\ interval = cmd.interval /\ ~multicast
      BY DEF Init
    <2>2. interval \in Nat
      BY <2>1, StartupAssumption
    <2>3. QED BY <2>1, <2>2 DEF UserInv
  <1>2. UserInv /\ [Next]_vars => UserInv'
    <2> SUFFICES ASSUME UserInv, [Next]_vars
                 PROVE  UserInv'
      OBVIOUS
    <2>0. cmd \in Commands /\ interval \in Nat /\ MinUser \in Nat /\ MinMulticast \in Nat
      BY StartupAssumption DEF UserInv
    <2>a. ASSUME UNCHANGED speedVars,
                 \/ pc' \in {"limit", "options", "exit"}
                 \/ pc = "options" /\ pc' = "socket4" /\ ~BadOption
                 \/ /\ pc \notin {"limit", "options", "exit"}
                    /\ \/ pc' \in {"socket6", "limits", "address", "bind", "mark", "marked",
                                   "connect", "checks"}
                       \/ /\ pc \in {"finalmark", "finalmarked", "drop", "main_loop"}
                          /\ pc' \in {"finalmark", "finalmarked", "drop", "main_loop"},
                 pc # "exit" \/ pc' = "exit"
          PROVE  UserInv'
      BY <2>a DEF UserInv, speedVars, BadOption
    <2>1. CASE Privileges
      <3>1. UNCHANGED speedVars
        BY <2>1 DEF Privileges, Limit, LimitFails, Mark, Marked, FinalMark, FinalMarked,
           SetMark, hostUnchanged, runVars, speedVars
      <3>2. \/ pc = "limit" /\ pc' \in {"options", "exit"}
            \/ pc = "mark" /\ pc' \in {"marked", "connect"}
            \/ pc = "marked" /\ pc' = "connect"
            \/ pc = "finalmark" /\ pc' \in {"finalmarked", "drop"}
            \/ pc = "finalmarked" /\ pc' = "drop"
        BY <2>1 DEF Privileges, Limit, LimitFails, Mark, Marked, FinalMark, FinalMarked,
           Go, Die
      <3>3. QED BY <3>1, <3>2, <2>a
    <2>2. CASE Hosts
      <3>1. UNCHANGED speedVars
        BY <2>2 DEF Hosts, NodeOption, OptionFails, Options, Socket4, Socket6, Limits,
           runVars, speedVars
      <3>2. \/ pc = "options" /\ pc' \in {"options", "exit"}
            \/ pc = "options" /\ pc' = "socket4" /\ ~BadOption
            \/ pc = "socket4" /\ pc' \in {"socket6", "exit"}
            \/ pc = "socket6" /\ pc' \in {"limits", "exit"}
            \/ pc = "limits" /\ pc' \in {"address", "exit"}
        BY <2>2 DEF Hosts, NodeOption, OptionFails, Options, Socket4, Socket6, Limits,
           Go, Die
      <3>3. QED BY <3>1, <3>2, <2>a
    <2>3. CASE Skip \/ Run \/ Bind \/ Connect
      <3>1. UNCHANGED speedVars
        BY <2>3 DEF Skip, Run, Bind, Connect, hostUnchanged, runVars, speedVars
      <3>2. /\ pc \in {"address", "bind", "connect"}
            /\ pc' \in {"exit", "address", "bind", "mark", "checks"}
        BY <2>3 DEF Skip, Run, Bind, Connect, AfterBind, Go, Die
      <3>3. QED BY <3>1, <3>2, <2>a
    <2>4. CASE Checks
      <3>1. /\ pc = "checks" /\ UNCHANGED <<cmd, interval>>
            /\ multicast' <=> (multicast \/ Group)
            /\ \/ pc' = "exit"
               \/ pc' = "setup" /\ ~(Group /\ cmd.user /\ interval < MinMulticast)
        BY <2>4 DEF Checks, hostUnchanged, Go, Die
      <3>2. pc' = "setup" /\ cmd'.user /\ multicast' => interval' >= MinMulticast
        BY <3>1, <2>0 DEF UserInv
      <3>3. QED BY <3>1, <3>2 DEF UserInv, BadOption
    <2>5. CASE Setup
      <3>1. /\ pc = "setup" /\ UNCHANGED <<cmd, multicast>>
            /\ interval' \in {0, interval}
            /\ \/ pc' = "exit"
               \/ pc' = "finalmark" /\ ~(cmd.user /\ interval' < MinUser)
        BY <2>5 DEF Setup, Pace, hostUnchanged, Go, Die
      <3>2. interval' \in Nat
        BY <3>1, <2>0
      <3>3. pc' = "finalmark" /\ cmd.user => interval' >= MinUser /\ interval' = interval
        BY <3>1, <3>2, <2>0
      <3>4. QED BY <3>1, <3>2, <3>3 DEF UserInv, BadOption
    <2>6. CASE Enter
      <3>1. UNCHANGED speedVars
        BY <2>6 DEF Enter, hostUnchanged, runVars, speedVars
      <3>2. pc = "drop" /\ pc' \in {"main_loop", "exit"}
        BY <2>6 DEF Enter, Go, Die
      <3>3. QED BY <3>1, <3>2, <2>a
    <2>7. CASE Session \/ Ended \/ UNCHANGED vars
      BY <2>7 DEF Session, Ended, vars, runVars, hostUnchanged, UserInv, BadOption
    <2>8. QED
      BY <2>1, <2>2, <2>3, <2>4, <2>5, <2>6, <2>7 DEF Next, Addresses
  <1>3. UserInv => UserLimits
    <2> SUFFICES ASSUME UserInv, Running, cmd.user
                 PROVE  /\ interval >= MinUser
                        /\ multicast => interval >= MinMulticast
                        /\ cmd.preload <= MaxUserPreload
      BY DEF UserLimits
    <2>1. cmd.preload \in Nat /\ MaxUserPreload \in Nat
      BY StartupAssumption DEF UserInv
    <2>2. QED BY <2>1 DEF UserInv, Running, BadOption
  <1>4. QED BY <1>1, <1>2, <1>3, PTL DEF Spec

---------------------------------------------------------------------------
(***************************************************************************)
(* Nonces.  Each function that touches the two statics leaves them         *)
(* agreeing, and a nonce of this process once seen stays one, so that the  *)
(* buffer a short answer is judged by never holds anything new.            *)
(***************************************************************************)
NonceInv ==
    /\ queries \in Nat
    /\ seq = -1 \/ digest = seq
    /\ buffer \in Nonces
    /\ accepted \subseteq 1 .. queries

\* What the digest of a nonce says, when the statics agree.
LEMMA DigestTells ==
    ASSUME NonceInv, NEW n \in Nonces
    PROVE  /\ Digest(n) = n.shown
           /\ n.shown \in 1 .. queries + 1
           /\ Digest(n) = n.of <=> n.of # 0
           /\ n.of # 0 => n.shown \in 1 .. queries
  <1>1. n.shown \in 1 .. queries + 1 /\ queries \in Nat
    BY DEF Nonces, NonceInv
  <1>2. n.of = 0 \/ (n.of = n.shown /\ n.shown \in 1 .. queries)
    BY DEF Nonces
  <1>3. Digest(n) = n.shown
    BY <1>1 DEF Digest, NonceInv
  <1>4. QED BY <1>1, <1>2, <1>3

\* The statics of niquery_nonce() agree at every moment.
THEOREM NoncesAgree == Spec => []NonceInv
  <1>1. Init => NonceInv
    <2> SUFFICES ASSUME Init PROVE NonceInv
      OBVIOUS
    <2>1. queries = 0 /\ seq = -1 /\ accepted = {} /\ buffer = [shown |-> 1, of |-> 0]
      BY DEF Init, NodeInit, Foreign
    <2>2. 1 \in 1 .. queries + 1
      BY <2>1
    <2>3. buffer \in Nonces
      BY <2>1, <2>2 DEF Nonces
    <2>4. QED BY <2>1, <2>3 DEF NonceInv
  <1>2. NonceInv /\ [Next]_vars => NonceInv'
    <2> SUFFICES ASSUME NonceInv, [Next]_vars
                 PROVE  NonceInv'
      OBVIOUS
    <2>1. CASE Session
      <3>1. CASE \E sent \in BOOLEAN : Query(sent)
        <4>1. /\ queries' \in {queries, queries + 1} /\ seq' = digest'
              /\ UNCHANGED <<buffer, accepted>>
          BY <3>1 DEF Query
        <4>2. queries \in Nat /\ queries' \in Nat /\ queries <= queries'
          BY <4>1 DEF NonceInv
        <4>3. Nonces \subseteq Nonces'
          BY <4>2 DEF Nonces
        <4>4. QED BY <4>1, <4>2, <4>3 DEF NonceInv
      <3>2. ASSUME NEW n \in Nonces, Answer(n)
            PROVE  NonceInv'
        <4>1. /\ buffer' = n /\ UNCHANGED queries
              /\ digest' = Digest(n) /\ seq' = n.shown
              /\ accepted' = IF n.of = Digest(n) THEN accepted \cup {n.shown} ELSE accepted
          BY <3>2 DEF Answer, Check
        <4>2. Nonces' = Nonces
          BY <4>1 DEF Nonces
        <4>3. accepted' \subseteq 1 .. queries
          BY <3>2, <4>1, DigestTells DEF NonceInv
        <4>4. QED BY <3>2, <4>1, <4>2, <4>3, DigestTells DEF NonceInv
      <3>3. QED BY <2>1, <3>1, <3>2 DEF Session, ShortAnswer, NonceInv
    <2>2. CASE UNCHANGED nonceVars
      BY <2>2 DEF nonceVars, NonceInv, Nonces
    <2>3. CASE Privileges \/ Hosts
      BY <2>2, <2>3 DEF Privileges, Limit, LimitFails, Mark, Marked, FinalMark, FinalMarked,
         SetMark, Hosts, NodeOption, Taken, OptionFails, Options, Socket4, Socket6, Limits
    <2>4. CASE Addresses \/ Ended \/ UNCHANGED vars
      BY <2>2, <2>4 DEF Addresses, Skip, Run, Bind, Connect, Checks, Setup, Enter, Ended,
         vars
    <2>5. QED BY <2>1, <2>3, <2>4 DEF Next
  <1>3. QED BY <1>1, <1>2, PTL DEF Spec

\* NonceSound for any number of queries and answers: the digest that a nonce
\* is compared with is its own, whatever was computed last.
THEOREM NoncesAreSound == Spec => []NonceSound
  <1>1. NonceInv => NonceSound
    BY DigestTells DEF NonceSound, NonceInv
  <1>2. QED BY <1>1, NoncesAgree, PTL
---------------------------------------------------------------------------
(***************************************************************************)
(* What main_loop() runs on.  First the words of -N: a word that is taken  *)
(* leaves what earlier ones asked for, and the default subject of          *)
(* ping6_run() is used only if no word gave one.                           *)
(***************************************************************************)
WordsInv ==
    /\ words \in Nat
    /\ query = -1 \/ query \in {2, 3, 4}
    /\ subject_type = -1 <=> subject = "none"
    /\ subject_type = -1 \/ subject_type \in {0, 1, 2}
    /\ Asked \cap DOMAIN SubjectWords # {} => subject # "none"
    /\ WordsKept

\* The two tables.
LEMMA Tables ==
    /\ \A w \in DOMAIN QueryWords : QueryWords[w] \in {2, 3, 4}
    /\ \A w \in DOMAIN SubjectWords : SubjectWords[w] \in {0, 1, 2}
    /\ DOMAIN QueryWords \cap DOMAIN SubjectWords = {}
    /\ FlagWords \cap DOMAIN SubjectWords = {}
    /\ SubjectWords["subject_ipv6"] = 0
  BY DEF QueryWords, SubjectWords, FlagWords, DNSNAME, IPV6ADDR, IPV4ADDR

\* One more word of -N.
LEMMA TakenKeeps ==
    ASSUME WordsInv, NEW w, Taken(w), words' = words + 1, UNCHANGED cmd,
           w = cmd.words[words + 1]
    PROVE  WordsInv'
  <1>1. words' \in Nat /\ Asked' = Asked \cup {w}
    <2>1. words \in Nat
      BY DEF WordsInv
    <2>2. 1 .. words' = 1 .. words \cup {words + 1}
      BY <2>1
    <2>3. QED BY <2>1, <2>2 DEF Asked
  <1>2. CASE w \in DOMAIN QueryWords /\ query' = QueryWords[w]
             /\ flag' = flag \cup (FlagWords \cap {w}) /\ UNCHANGED <<subject_type, subject>>
    <2>1. query = -1 \/ query = QueryWords[w]
      BY <1>2 DEF Taken, Conflicts, niquery_is_enabled, WordsInv
    <2>2. \A v \in Asked' \cap DOMAIN QueryWords : query' = QueryWords[v]
      BY <1>1, <1>2, <2>1, Tables DEF WordsInv, WordsKept
    <2>3. Asked' \cap DOMAIN SubjectWords = Asked \cap DOMAIN SubjectWords
      BY <1>1, <1>2, Tables
    <2>4. flag' = Asked' \cap FlagWords
      BY <1>1, <1>2 DEF WordsInv, WordsKept
    <2>5. query' \in {2, 3, 4}
      BY <1>2, Tables
    <2>6. QED BY <1>1, <1>2, <2>2, <2>3, <2>4, <2>5 DEF WordsInv, WordsKept
  <1>3. CASE w \in DOMAIN SubjectWords /\ subject_type' = SubjectWords[w]
             /\ subject' = "word" /\ UNCHANGED <<query, flag>>
    <2>1. subject = "none" \/ subject_type = SubjectWords[w]
      BY <1>3 DEF Taken, Conflicts, niquery_is_subject_valid, WordsInv
    <2>2. \A v \in Asked' \cap DOMAIN SubjectWords : subject_type' = SubjectWords[v]
      BY <1>1, <1>3, <2>1 DEF WordsInv, WordsKept
    <2>3. Asked' \cap DOMAIN QueryWords = Asked \cap DOMAIN QueryWords
      BY <1>1, <1>3, Tables
    <2>4. flag' = Asked' \cap FlagWords
      BY <1>1, <1>3, Tables DEF WordsInv, WordsKept
    <2>5. subject_type' \in {0, 1, 2}
      BY <1>3, Tables
    <2>6. QED BY <1>1, <1>3, <2>2, <2>3, <2>4, <2>5 DEF WordsInv, WordsKept
  <1>4. QED BY <1>2, <1>3 DEF Taken

\* The default subject.
LEMMA DefaultSubjectKeeps ==
    ASSUME WordsInv, DefaultSubject, UNCHANGED <<cmd, words, query, flag>>
    PROVE  WordsInv'
  <1>1. Asked' = Asked
    BY DEF Asked
  <1>2. CASE UNCHANGED <<subject_type, subject>>
    BY <1>1, <1>2 DEF WordsInv, WordsKept
  <1>3. CASE /\ ~niquery_is_subject_valid
             /\ subject_type' = SubjectWords["subject_ipv6"] /\ subject' = "target"
    <2>1. subject = "none"
      BY <1>3 DEF niquery_is_subject_valid, WordsInv
    <2>2. Asked \cap DOMAIN SubjectWords = {}
      BY <2>1 DEF WordsInv
    <2>3. subject_type' = 0
      BY <1>3, Tables
    <2>4. QED BY <1>1, <1>3, <2>2, <2>3 DEF WordsInv, WordsKept
  <1>4. QED BY <1>2, <1>3 DEF DefaultSubject

---------------------------------------------------------------------------
(***************************************************************************)
(* The sockets: raw ones where they must be, and one for each family that  *)
(* an address may be taken from.                                           *)
(***************************************************************************)
Reaching == {"bind", "mark", "marked", "connect", "checks", "setup"}
Reached == {"checks", "setup", "finalmark", "finalmarked", "drop", "main_loop"}
Hosting == {"socket6", "limits", "address"} \cup Reaching \cup Reached

\* The address that is tried is one of the list, and ping6_run() has a first
\* hop before it connects.
AddressInv ==
    /\ target \in Targets
    /\ ai \in 1 .. Len(target) /\ firsthop \in 0 .. Len(target)
    /\ pc \in {"bind", "mark", "marked", "connect"} /\ here.family = 6 => firsthop # 0

HostInv ==
    /\ WordsInv
    /\ cmd \in Commands /\ error # "assert"
    /\ pc \in {"limit", "options", "socket4"} => sock4 = "none" /\ sock6 = "none"
    /\ pc = "socket6" => sock6 = "none"
    /\ words > 0 => socktype = "raw"
    /\ pc \notin {"limit", "options", "exit"} =>
          /\ cmd.ident0 \/ cmd.words # <<>> => socktype = "raw"
          /\ cmd.family \in {0, family} /\ family \in {0, 4, 6}
    /\ socktype = "raw" => {sock4, sock6} \subseteq {"none", "raw"}
    /\ pc \in Hosting /\ family = 4 => sock4 # "none"
    /\ pc \in Hosting /\ family = 6 => sock4 = "none"
    /\ pc \in Hosting \ {"socket6"} /\ family # 4 =>
          sock6 # "none" \/ (family = 0 /\ sock4 # "none")
    /\ pc \in Hosting \ {"socket6", "limits"} /\ family = 0 =>
          sock4 # "none" /\ sock6 # "none"
    /\ pc \in Reaching \cup Reached => family \in {0, here.family}
    /\ pc \in Reached => here.family \in source

hostProgress == <<words, socktype, family, sock4, sock6, ai, source>>

\* A step that leaves the sockets, the address and the words alone.
LEMMA HostKeeps ==
    ASSUME HostInv, WordsInv', UNCHANGED <<cmd, target, hostProgress>>, error' # "assert",
           \/ pc' = "exit"
           \/ pc = "limit" /\ pc' = "options"
           \/ pc \in {"bind", "mark", "marked", "connect"} /\ pc' \in Reaching \ Reached
           \/ pc = "bind" /\ pc' = "checks" /\ here.family \in source
           \/ pc \in Reached /\ pc' \in Reached
           \/ pc' = pc
    PROVE  HostInv'
  BY DEF HostInv, hostProgress, Hosting, Reaching, Reached, here

\* WordsInv is about the words alone.
LEMMA WordsKeep ==
    ASSUME WordsInv, UNCHANGED <<optionVars, words, cmd>>
    PROVE  WordsInv'
  BY DEF WordsInv, optionVars, WordsKept, Asked

\* A raw socket where one is asked for.
LEMMA CreatedRaw ==
    ASSUME NEW fam, NEW s \in Created(fam), socktype = "raw"
    PROVE  s \in {"none", "raw"}
  BY DEF Created

\* Before anything is done there is neither a socket nor a first hop.
LEMMA InitHostInv == Init => HostInv /\ AddressInv
  <1> SUFFICES ASSUME Init PROVE HostInv /\ AddressInv
    OBVIOUS
  <1>1. /\ cmd \in Commands /\ pc = "limit" /\ error # "assert" /\ words = 0
        /\ sock4 = "none" /\ sock6 = "none" /\ socktype = "dgram"
        /\ target \in Targets /\ ai = 1 /\ firsthop = 0
        /\ query = -1 /\ subject_type = -1 /\ subject = "none" /\ flag = {}
    BY DEF Init, NodeInit
  <1>2. Asked = {}
    <2>1. 1 .. words = {}
      BY <1>1
    <2>2. QED BY <2>1 DEF Asked
  <1>3. WordsInv
    BY <1>1, <1>2 DEF WordsInv, WordsKept
  <1>4. AddressInv
    <2>1. Len(target) \in Nat \ {0}
      BY <1>1, StartupAssumption
    <2>2. QED BY <1>1, <2>1 DEF AddressInv
  <1>5. ~(words > 0)
    BY <1>1
  <1>6. QED BY <1>1, <1>3, <1>4, <1>5 DEF HostInv, Hosting, Reaching, Reached

\* The loop moves along the list, and the first hop is set before it is used.
LEMMA NextAddressInv == AddressInv /\ [Next]_vars => AddressInv'
  <1> SUFFICES ASSUME AddressInv, [Next]_vars PROVE AddressInv'
    OBVIOUS
  <1>0. Len(target) \in Nat \ {0} /\ ai \in 1 .. Len(target)
    BY StartupAssumption DEF AddressInv
  <1>1. CASE /\ UNCHANGED <<target, ai, firsthop>>
             /\ \/ pc' \notin {"bind", "mark", "marked", "connect"}
                \/ pc \in {"bind", "mark", "marked", "connect"}
    BY <1>1 DEF AddressInv, here
  <1>2. CASE Privileges \/ Hosts
    <2>1. UNCHANGED <<target, ai, firsthop>>
      BY <1>2 DEF Privileges, Limit, LimitFails, Mark, Marked, FinalMark, FinalMarked,
         SetMark, hostUnchanged, runVars, Hosts, NodeOption, OptionFails, Options, Socket4,
         Socket6, Limits
    <2>2. \/ pc' \notin {"bind", "mark", "marked", "connect"}
          \/ pc \in {"bind", "mark", "marked", "connect"}
      BY <1>2 DEF Privileges, Limit, LimitFails, Mark, Marked, FinalMark, FinalMarked,
         Hosts, NodeOption, OptionFails, Options, Socket4, Socket6, Limits, Go, Die
    <2>3. QED BY <2>1, <2>2, <1>1
  <1>3. CASE Skip \/ Connect
    <2>1. /\ UNCHANGED <<target, firsthop>> /\ pc' \in {"exit", "address", "checks"}
          /\ ai' = ai \/ (~Last /\ ai' = ai + 1)
      BY <1>3 DEF Skip, Connect, hostUnchanged, Go, Die, GoesOn
    <2>2. ai' \in 1 .. Len(target)
      BY <1>0, <2>1 DEF Last
    <2>3. QED BY <2>1, <2>2 DEF AddressInv
  <1>4. CASE Run
    <2>1. /\ UNCHANGED <<target, ai>>
          /\ IF here.family = 6 THEN firsthop' = IF firsthop = 0 THEN ai ELSE firsthop
                                ELSE UNCHANGED firsthop
      BY <1>4 DEF Run, hostUnchanged, optionVars
    <2>2. firsthop' \in 0 .. Len(target) /\ (here'.family = 6 => firsthop' # 0)
      BY <1>0, <2>1 DEF AddressInv, here
    <2>3. QED BY <1>0, <2>1, <2>2 DEF AddressInv
  <1>5. CASE Bind \/ Checks \/ Setup \/ Enter
    <2>1. UNCHANGED <<target, ai, firsthop>>
      BY <1>5 DEF Bind, Checks, Setup, Enter, hostUnchanged, runVars
    <2>2. pc \in {"bind"} \/ pc' \in {"exit", "setup", "finalmark", "main_loop"}
      BY <1>5 DEF Bind, Checks, Setup, Pace, Enter, Go, Die
    <2>3. QED BY <2>1, <2>2, <1>1
  <1>6. CASE Session \/ Ended \/ UNCHANGED vars
    <2>1. UNCHANGED <<target, ai, firsthop, pc>>
      BY <1>6 DEF Session, Ended, vars, runVars, hostUnchanged
    <2>2. QED BY <2>1, <1>1
  <1>7. QED BY <1>2, <1>3, <1>4, <1>5, <1>6 DEF Next, Addresses

\* A probing socket is connected to an address of the list.
LEMMA ProbedIsAddress ==
    ASSUME AddressInv, pc = "connect"
    PROVE  target[Probed].route # "assert"
  <1>1. Len(target) \in Nat \ {0} /\ target \in Targets
    BY StartupAssumption DEF AddressInv
  <1>2. \A i \in 1 .. Len(target) :
           /\ target[i].family \in {4, 6}
           /\ target[i].route \in {"ok", "unreachable", "denied", "other"}
    BY <1>1, StartupAssumption
  <1>3. here.family \in {4, 6}
    BY <1>2 DEF AddressInv, here
  <1>4. Probed \in 1 .. Len(target)
    BY <1>1, <1>3 DEF AddressInv, Probed
  <1>5. QED BY <1>2, <1>4

\* Sockets are created, exchanged and closed at the places HostInv names.
LEMMA NextHostInv == HostInv /\ AddressInv /\ [Next]_vars => HostInv'
  <1> SUFFICES ASSUME HostInv, AddressInv, [Next]_vars PROVE HostInv'
    OBVIOUS
  <1>0. WordsInv /\ cmd \in Commands /\ error # "assert"
    BY DEF HostInv
  <1>1. CASE Privileges
    <2>1. UNCHANGED <<cmd, target, hostProgress, optionVars>>
      BY <1>1 DEF Privileges, Limit, LimitFails, Mark, Marked, FinalMark, FinalMarked,
         SetMark, hostUnchanged, runVars, hostVars, hostProgress
    <2>2. /\ error' # "assert"
          /\ \/ pc = "limit" /\ pc' \in {"options", "exit"}
             \/ pc = "mark" /\ pc' \in {"marked", "connect"}
             \/ pc = "marked" /\ pc' = "connect"
             \/ pc = "finalmark" /\ pc' \in {"finalmarked", "drop"}
             \/ pc = "finalmarked" /\ pc' = "drop"
      BY <1>1 DEF Privileges, Limit, LimitFails, Mark, Marked, FinalMark, FinalMarked,
         Go, Die
    <2>3. WordsInv'
      BY <1>0, <2>1, WordsKeep DEF hostProgress
    <2>4. QED BY <2>1, <2>2, <2>3, HostKeeps DEF Reaching, Reached
  <1>2. CASE NodeOption
    <2>1. /\ pc = "options" /\ words' = words + 1 /\ Taken(cmd.words[words + 1])
          /\ socktype' = "raw"
          /\ UNCHANGED <<cmd, target, pc, error, sock4, sock6>>
      BY <1>2 DEF NodeOption
    <2>2. WordsInv'
      BY <1>0, <2>1, TakenKeeps
    <2>3. QED BY <2>1, <2>2 DEF HostInv, Hosting, Reaching, Reached
  <1>3. CASE OptionFails
    <2>1. /\ UNCHANGED <<cmd, target, hostProgress, optionVars>>
          /\ pc' = "exit" /\ error' # "assert"
      BY <1>3 DEF OptionFails, Die, runVars, hostVars, hostProgress
    <2>2. WordsInv'
      BY <1>0, <2>1, WordsKeep DEF hostProgress
    <2>3. QED BY <2>1, <2>2, HostKeeps
  <1>4. CASE Options
    <2>1. /\ pc = "options" /\ words = Len(cmd.words) /\ family' = cmd.family
          /\ socktype' = IF cmd.ident0 THEN "raw" ELSE socktype
          /\ pc' = "socket4" /\ error' # "assert"
          /\ UNCHANGED <<cmd, words, sock4, sock6, optionVars>>
      BY <1>4 DEF Options, Go
    <2>2. cmd.words # <<>> => words > 0
      <3>1. cmd.words \in Seq(STRING)
        BY <1>0, StartupAssumption
      <3>2. Len(cmd.words) \in Nat /\ (Len(cmd.words) = 0 => cmd.words = <<>>)
        BY <3>1
      <3>3. QED BY <2>1, <3>2
    <2>3. cmd.family \in {0, 4, 6}
      BY <1>0, StartupAssumption
    <2>4. WordsInv'
      BY <1>0, <2>1, WordsKeep
    <2>5. QED BY <2>1, <2>2, <2>3, <2>4 DEF HostInv, Hosting, Reaching, Reached
  <1>5. CASE Socket4
    <2>1. /\ pc = "socket4" /\ pc' \in {"exit", "socket6"} /\ error' # "assert"
          /\ sock4' = sock4 \/ sock4' \in Created(4)
          /\ family = 6 => sock4' = sock4
          /\ pc' = "socket6" /\ family = 4 => sock4' # "none"
          /\ UNCHANGED <<cmd, words, socktype, family, sock6, optionVars>>
      BY <1>5 DEF Socket4, Go, Die
    <2>2. socktype = "raw" => sock4' \in {"none", "raw"}
      BY <2>1, CreatedRaw DEF HostInv
    <2>3. WordsInv'
      BY <1>0, <2>1, WordsKeep
    <2>4. QED BY <2>1, <2>2, <2>3 DEF HostInv, Hosting, Reaching, Reached
  <1>6. CASE Socket6
    <2>1. /\ pc = "socket6" /\ pc' \in {"exit", "limits"} /\ error' # "assert"
          /\ sock6' = sock6 \/ sock6' \in Created(6)
          /\ pc' = "limits" /\ family # 4 => sock6' # "none" \/ sock4 # "none"
          /\ UNCHANGED <<cmd, words, socktype, family, sock4, optionVars>>
      BY <1>6 DEF Socket6, Go, Die, Requisite6
    <2>2. socktype = "raw" => sock6' \in {"none", "raw"}
      BY <2>1, CreatedRaw DEF HostInv
    <2>3. WordsInv'
      BY <1>0, <2>1, WordsKeep
    <2>4. QED BY <2>1, <2>2, <2>3 DEF HostInv, Hosting, Reaching, Reached
  <1>7. CASE Limits
    <2>1. /\ pc = "limits" /\ pc' \in {"exit", "address"} /\ error' # "assert"
          /\ family' = Limited
          /\ UNCHANGED <<cmd, words, socktype, sock4, sock6, optionVars>>
      BY <1>7 DEF Limits, Go, Die
    <2>2. WordsInv'
      BY <1>0, <2>1, WordsKeep
    <2>3. QED BY <2>1, <2>2 DEF HostInv, Limited, Hosting, Reaching, Reached
  <1>8. CASE Skip
    <2>1. /\ pc = "address" /\ pc' \in {"exit", "address"} /\ error' # "assert"
          /\ UNCHANGED <<cmd, words, socktype, family, sock4, sock6, optionVars>>
      BY <1>8 DEF Skip, Go, Die, hostUnchanged, hostVars
    <2>2. WordsInv'
      BY <1>0, <2>1, WordsKeep
    <2>3. QED BY <2>1, <2>2 DEF HostInv, Hosting, Reaching, Reached
  <1>9. CASE Run
    <2>1. /\ pc = "address" /\ family \in {0, here.family} /\ error' # "assert"
          /\ pc' \in {"bind", "mark"} \/ (pc' = "checks" /\ here.family \in source)
          /\ UNCHANGED <<cmd, target, hostProgress>>
      BY <1>9 DEF Run, Go, AfterBind, hostUnchanged, hostVars, hostProgress
    <2>2. WordsInv'
      <3>1. CASE UNCHANGED optionVars
        BY <1>0, <2>1, <3>1, WordsKeep DEF hostProgress
      <3>2. CASE DefaultSubject /\ UNCHANGED <<query, flag>>
        BY <1>0, <2>1, <3>2, DefaultSubjectKeeps DEF hostProgress
      <3>3. QED BY <1>9, <3>1, <3>2 DEF Run
    <2>3. QED BY <2>1, <2>2 DEF HostInv, hostProgress, Hosting, Reaching, Reached, here
  <1>10. CASE Bind
    <2>1. /\ pc = "bind" /\ error' # "assert"
          /\ pc' \in {"mark", "exit"} \/ (pc' = "checks" /\ here.family \in source)
          /\ UNCHANGED <<cmd, target, hostProgress, optionVars>>
      BY <1>10 DEF Bind, Go, Die, AfterBind, hostUnchanged, hostVars, runVars, hostProgress
    <2>2. WordsInv'
      BY <1>0, <2>1, WordsKeep DEF hostProgress
    <2>3. QED BY <2>1, <2>2, HostKeeps DEF Reaching, Reached
  <1>11. CASE Connect
    <2>1. /\ pc = "connect" /\ UNCHANGED <<cmd, target, words, hostVars, optionVars>>
          /\ \/ pc' = "checks" /\ error' # "assert" /\ source' = source \cup {here.family}
                /\ UNCHANGED ai
             \/ pc' = "address" /\ error' # "assert"
             \/ pc' = "exit" /\ error' # "assert"
      <3>1. UNCHANGED <<cmd, target, words, hostVars, optionVars>> /\ pc = "connect"
        BY <1>11 DEF Connect, hostUnchanged
      <3>2. target[Probed].route # "assert"
        BY <3>1, ProbedIsAddress
      <3>3. QED BY <1>11, <3>1, <3>2 DEF Connect, Go, Die, GoesOn
    <2>2. WordsInv'
      BY <1>0, <2>1, WordsKeep
    <2>3. QED BY <2>1, <2>2 DEF HostInv, hostVars, Hosting, Reaching, Reached, here
  <1>12. CASE Checks \/ Setup \/ Enter
    <2>1. /\ UNCHANGED <<cmd, target, hostProgress, optionVars>> /\ error' # "assert"
          /\ pc \in {"checks", "setup", "drop"}
          /\ pc' \in {"setup", "finalmark", "main_loop", "exit"}
      BY <1>12 DEF Checks, Setup, Pace, Enter, Go, Die, hostUnchanged, hostVars, runVars,
         hostProgress
    <2>2. WordsInv'
      BY <1>0, <2>1, WordsKeep DEF hostProgress
    <2>3. QED BY <2>1, <2>2, HostKeeps DEF Reached
  <1>13. CASE Session \/ Ended \/ UNCHANGED vars
    <2>1. UNCHANGED <<cmd, target, hostProgress, optionVars, pc, error>>
      BY <1>13 DEF Session, Query, Answer, ShortAnswer, Ended, vars, hostUnchanged, hostVars,
         runVars, hostProgress
    <2>2. WordsInv'
      BY <1>0, <2>1, WordsKeep DEF hostProgress
    <2>3. QED BY <1>0, <2>1, <2>2, HostKeeps
  <1>14. QED
    BY <1>1, <1>2, <1>3, <1>4, <1>5, <1>6, <1>7, <1>8, <1>9, <1>10, <1>11, <1>12, <1>13
    DEF Next, Hosts, Addresses

\* RunsAsAsked for every command line and list of addresses: the assertion of
\* the loop over addresses never fails, and the loop is entered on a socket of
\* the right family and type, with a source address, and with every word of -N
\* in force.
THEOREM SessionIsAsAsked == Spec => []RunsAsAsked
  <1>1. HostInv => RunsAsAsked
    <2> SUFFICES ASSUME HostInv PROVE RunsAsAsked
      OBVIOUS
    <2>1. ASSUME pc \in Reaching \/ Running
          PROVE  /\ sock # "none"
                 /\ cmd.family \in {0, here.family}
                 /\ cmd.ident0 \/ cmd.words # <<>> => sock = "raw"
      BY <2>1 DEF HostInv, Reaching, Reached, Hosting, Running, sock
    <2>2. Running => here.family \in source
      BY DEF HostInv, Running, Reached
    <2>3. error # "assert" /\ WordsKept
      BY DEF HostInv, WordsInv
    <2>4. QED BY <2>1, <2>2, <2>3 DEF RunsAsAsked, Reaching
  <1>2. QED BY <1>1, InitHostInv, NextHostInv, NextAddressInv, PTL DEF Spec
---------------------------------------------------------------------------
(***************************************************************************)
(* Types.  Much of StartupTypeOK is part of the invariants above; the rest *)
(* is kept in four parts by the variables they are about.                  *)
(***************************************************************************)
NonceTypes ==
    /\ queries \in 0 .. MaxQueries /\ replies \in 0 .. MaxReplies
    /\ seq \in {-1} \cup 1 .. MaxQueries + 1 /\ digest \in 0 .. MaxQueries + 1

CapTypes == effective \subseteq permitted /\ permitted \subseteq {"raw", "admin", "other"}

SocketTypes ==
    /\ subject \in {"none", "word", "target"}
    /\ socktype \in {"dgram", "raw"} /\ family \in {0, 4, 6}
    /\ {sock4, sock6} \subseteq {"none", "dgram", "raw"}
    /\ words \in 0 .. Len(cmd.words)

RunTypes == tried \subseteq 1 .. Len(target) /\ interval \in Nat

RestTypes == cmd \in Commands /\ NonceTypes /\ CapTypes /\ SocketTypes /\ RunTypes

\* The types hold at the start.
LEMMA InitRestTypes == Init => RestTypes
  <1> SUFFICES ASSUME Init PROVE RestTypes
    OBVIOUS
  <1>1. cmd \in Commands
    BY DEF Init
  <1>2. NonceTypes
    <2>1. queries = 0 /\ replies = 0 /\ seq = -1 /\ digest = 0
      BY DEF Init, NodeInit
    <2>2. QED BY <2>1, NodeAssumption DEF NonceTypes
  <1>3. CapTypes
    BY <1>1, StartupAssumption DEF Init, CapTypes
  <1>4. SocketTypes
    <2>1. cmd.words \in Seq(STRING)
      BY <1>1, StartupAssumption
    <2>2. Len(cmd.words) \in Nat
      BY <2>1
    <2>3. /\ subject = "none" /\ socktype = "dgram" /\ family = 0
          /\ sock4 = "none" /\ sock6 = "none" /\ words = 0
      BY DEF Init, NodeInit
    <2>4. QED BY <2>2, <2>3 DEF SocketTypes
  <1>5. RunTypes
    BY <1>1, StartupAssumption DEF Init, RunTypes
  <1>6. QED BY <1>1, <1>2, <1>3, <1>4, <1>5 DEF RestTypes

\* The counts of queries and answers and the statics of niquery_nonce().
LEMMA NextNonceTypes == NonceInv /\ NonceTypes /\ [Next]_vars => NonceTypes'
  <1> SUFFICES ASSUME NonceInv, NonceTypes, [Next]_vars PROVE NonceTypes'
    OBVIOUS
  <1>1. CASE Session
    <2>1. CASE \E sent \in BOOLEAN : Query(sent)
      BY <2>1, NodeAssumption DEF Query, NonceTypes
    <2>2. ASSUME NEW n \in Nonces, Answer(n)
          PROVE  NonceTypes'
      <3>1. n.shown \in 1 .. queries + 1 /\ Digest(n) = n.shown
        BY DigestTells
      <3>2. queries' = queries /\ replies < MaxReplies /\ replies' = replies + 1
            /\ seq' = n.shown /\ digest' = n.shown
        BY <2>2, <3>1 DEF Answer, Check
      <3>3. QED BY <3>1, <3>2, NodeAssumption DEF NonceTypes
    <2>3. QED BY <1>1, <2>1, <2>2 DEF Session, ShortAnswer, NonceInv
  <1>2. CASE UNCHANGED nonceVars
    BY <1>2 DEF nonceVars, NonceTypes
  <1>3. CASE Privileges \/ Hosts
    BY <1>2, <1>3 DEF Privileges, Limit, LimitFails, Mark, Marked, FinalMark, FinalMarked,
       SetMark, Hosts, NodeOption, Taken, OptionFails, Options, Socket4, Socket6, Limits
  <1>4. CASE Addresses \/ Ended \/ UNCHANGED vars
    BY <1>2, <1>4 DEF Addresses, Skip, Run, Bind, Connect, Checks, Setup, Enter, Ended,
       vars
  <1>5. QED BY <1>1, <1>3, <1>4 DEF Next

\* Nothing is in effect that is not permitted.
LEMMA NextCapTypes == CapTypes /\ [Next]_vars => CapTypes'
  <1> SUFFICES ASSUME CapTypes, [Next]_vars PROVE CapTypes'
    OBVIOUS
  <1>1. CASE UNCHANGED capVars
    BY <1>1 DEF capVars, CapTypes
  <1>2. ASSUME NEW cap, Raise(cap) PROVE CapTypes'
    BY <1>2 DEF Raise, CapTypes
  <1>3. ASSUME NEW cap, Lower(cap) PROVE CapTypes'
    BY <1>3 DEF Lower, CapTypes
  <1>4. CASE Privileges
    BY <1>1, <1>2, <1>3, <1>4 DEF Privileges, Limit, Keep, LimitFails, Mark, Marked,
       FinalMark, FinalMarked, SetMark, CapTypes
  <1>5. CASE Hosts
    BY <1>1, <1>2, <1>3, <1>5 DEF Hosts, NodeOption, OptionFails, Options, Socket4,
       Socket6, Limits
  <1>6. CASE Addresses
    BY <1>1, <1>2, <1>3, <1>6 DEF Addresses, Skip, Run, Bind, Connect, Checks, Setup,
       Enter, Drop, CapTypes
  <1>7. CASE Session \/ Ended \/ UNCHANGED vars
    BY <1>1, <1>7 DEF Session, Ended, vars
  <1>8. QED BY <1>4, <1>5, <1>6, <1>7 DEF Next

\* Sockets, families and the words of -N.
LEMMA NextSocketTypes == cmd \in Commands /\ SocketTypes /\ [Next]_vars => SocketTypes'
  <1> SUFFICES ASSUME cmd \in Commands, SocketTypes, [Next]_vars PROVE SocketTypes'
    OBVIOUS
  <1>0. Len(cmd.words) \in Nat
    <2>1. cmd.words \in Seq(STRING)
      BY StartupAssumption
    <2>2. QED BY <2>1
  <1>c. \A fam \in {4, 6} : Created(fam) \subseteq {"none", "dgram", "raw"}
    BY DEF Created
  <1>1. CASE /\ UNCHANGED <<cmd, words, hostVars>> /\ subject' \in {subject, "target"}
    BY <1>1 DEF hostVars, SocketTypes
  <1>2. CASE NodeOption
    <2>1. subject' \in {subject, "word"}
      BY <1>2 DEF NodeOption, Taken
    <2>2. QED BY <1>0, <1>2, <2>1 DEF NodeOption, SocketTypes
  <1>3. CASE Options
    <2>1. cmd.family \in {0, 4, 6}
      BY StartupAssumption
    <2>2. QED BY <1>3, <2>1 DEF Options, SocketTypes, optionVars
  <1>4. CASE Socket4
    <2>1. sock4' = sock4 \/ sock4' \in Created(4)
      BY <1>4 DEF Socket4
    <2>2. QED BY <1>c, <1>4, <2>1 DEF Socket4, SocketTypes, optionVars
  <1>5. CASE Socket6
    <2>1. sock6' = sock6 \/ sock6' \in Created(6)
      BY <1>5 DEF Socket6
    <2>2. QED BY <1>c, <1>5, <2>1 DEF Socket6, SocketTypes, optionVars
  <1>6. CASE Limits
    BY <1>6 DEF Limits, Limited, SocketTypes, optionVars
  <1>7. CASE OptionFails \/ Privileges
    BY <1>1, <1>7 DEF OptionFails, Privileges, Limit, LimitFails, Mark, Marked, FinalMark,
       FinalMarked, SetMark, hostUnchanged, optionVars
  <1>8. CASE Run
    BY <1>1, <1>8 DEF Run, DefaultSubject, hostUnchanged, optionVars
  <1>9. CASE Skip \/ Bind \/ Connect \/ Checks \/ Setup \/ Enter
    BY <1>1, <1>9 DEF Skip, Bind, Connect, Checks, Setup, Enter, hostUnchanged, optionVars
  <1>10. CASE Session \/ Ended \/ UNCHANGED vars
    BY <1>1, <1>10 DEF Session, Query, Answer, ShortAnswer, Ended, vars, hostUnchanged,
       optionVars
  <1>11. QED
    BY <1>2, <1>3, <1>4, <1>5, <1>6, <1>7, <1>8, <1>9, <1>10 DEF Next, Hosts, Addresses

\* The addresses tried are in the list, and the interval is no negative time.
LEMMA NextRunTypes == AddressInv /\ RunTypes /\ [Next]_vars => RunTypes'
  <1> SUFFICES ASSUME AddressInv, RunTypes, [Next]_vars PROVE RunTypes'
    OBVIOUS
  <1>1. CASE UNCHANGED <<target, tried, interval>>
    BY <1>1 DEF RunTypes
  <1>2. CASE Connect
    <2>1. Len(target) \in Nat \ {0} /\ target \in Targets /\ ai \in 1 .. Len(target)
      BY StartupAssumption DEF AddressInv
    <2>2. here.family \in {4, 6}
      BY <2>1, StartupAssumption DEF here
    <2>3. Probed \in 1 .. Len(target)
      BY <1>2, <2>1, <2>2 DEF Connect, AddressInv, Probed
    <2>4. QED BY <1>2, <2>3 DEF Connect, RunTypes, hostUnchanged
  <1>3. CASE Setup
    BY <1>3 DEF Setup, Pace, RunTypes, hostUnchanged
  <1>4. CASE Privileges \/ Hosts
    BY <1>1, <1>4 DEF Privileges, Limit, LimitFails, Mark, Marked, FinalMark, FinalMarked,
       SetMark, hostUnchanged, runVars, Hosts, NodeOption, OptionFails, Options, Socket4,
       Socket6, Limits
  <1>5. CASE Skip \/ Run \/ Bind \/ Checks \/ Enter \/ Session \/ Ended \/ UNCHANGED vars
    BY <1>1, <1>5 DEF Skip, Run, Bind, Checks, Enter, Session, Ended, hostUnchanged,
       runVars, vars
  <1>6. QED BY <1>2, <1>3, <1>4, <1>5 DEF Next, Addresses

\* The command line does not change.
LEMMA NextCommand == cmd \in Commands /\ [Next]_vars => cmd' \in Commands
  BY DEF Next, vars, Privileges, Limit, LimitFails, Mark, Marked, FinalMark, FinalMarked,
     SetMark, hostUnchanged, Hosts, NodeOption, OptionFails, Options, Socket4, Socket6,
     Limits, Addresses, Skip, Run, Bind, Connect, Checks, Setup, Enter, Session, Ended

\* StartupTypeOK for every command line and target; in particular neither the
\* index of the address nor the first hop leaves the list, and no capability is
\* in effect that is not permitted.
THEOREM StartupTypeCorrect == Spec => []StartupTypeOK
  <1>1. RestTypes /\ NonceInv /\ AddressInv /\ [Next]_vars => RestTypes'
    BY NextNonceTypes, NextCapTypes, NextSocketTypes, NextRunTypes, NextCommand
    DEF RestTypes
  <1>2. RestTypes /\ HostInv /\ AddressInv => StartupTypeOK
    BY DEF RestTypes, NonceTypes, CapTypes, SocketTypes, RunTypes, HostInv, WordsInv,
       WordsKept, AddressInv, StartupTypeOK, NodeTypeOK, DNSNAME, IPV6ADDR, IPV4ADDR
  <1>3. Spec => [](HostInv /\ AddressInv)
    BY InitHostInv, NextHostInv, NextAddressInv, PTL DEF Spec
  <1>4. Spec => []RestTypes
    BY <1>1, <1>3, InitRestTypes, NoncesAgree, PTL DEF Spec
  <1>5. QED BY <1>2, <1>3, <1>4, PTL
=============================================================================
