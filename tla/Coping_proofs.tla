---------------------------- MODULE Coping_proofs ----------------------------
(***************************************************************************)
(* Proofs about Coping, for every command line, every set of mechanisms    *)
(* with any hooks, and every limit on their number.                        *)
(***************************************************************************)
EXTENDS Coping, TLAPS

\* What may be logged.
HookNames == {"load", "pre", "transform", "post"}
Events    == HookNames \cup {"banner", "suppressed", "request", "box"}

(***************************************************************************)
(* Types                                                                   *)
(***************************************************************************)

Places == {"scan", "load", "context", "transform", "perform", "post", "done"}
          \cup Outcomes

\* Where the loops over the command line, the names and the mechanisms are.
CursorInv ==
    /\ argv \in Seq(Args) /\ Len(argv) <= MaxArgs
    /\ i \in Nat /\ 1 <= i /\ i <= MaxArgs + 1
    /\ Len(names) \in Nat /\ names \in Seq({a.v : a \in Args})
    /\ mechs \in Seq(Mechs)
    /\ Len(names) <= MaxMechs /\ Len(names) <= MaxArgs
    /\ Len(mechs) <= Len(names)
    /\ pc = "scan" => mechs = <<>> /\ Len(names) < i /\ i <= Len(argv) + 1
    /\ pc = "load" => Len(mechs) = i - 1 /\ i <= Len(names) + 1
    /\ pc \in {"context", "transform", "post"} => i <= Len(mechs) + 1

TypeInv ==
    /\ pc \in Places
    /\ CursorInv
    /\ no_context \in BOOLEAN
    /\ status \in {-1, 0, 1, 2}
    /\ held \subseteq {"curl", "headers", "response", "ai_text"}
    /\ log \in Seq(Events \X Nat)

\* An entry of the log is an event with the number of a mechanism.
LEMMA LogTypes ==
    ASSUME TypeInv, NEW e \in Events, NEW n \in Nat
    PROVE  Append(log, <<e, n>>) \in Seq(Events \X Nat)
  <1>1. <<e, n>> \in Events \X Nat
    OBVIOUS
  <1>2. log \in Seq(Events \X Nat)
    BY DEF TypeInv
  <1> HIDE DEF Events
  <1>3. QED BY <1>1, <1>2

\* A step that moves the cursor of a hook loop and may log its hook.
LEMMA RunHookTypes ==
    ASSUME TypeInv, NEW h \in HookNames, RunHook(h)
    PROVE  log' \in Seq(Events \X Nat) /\ i' = i + 1 /\ i <= Len(mechs)
  <1>1. Append(log, <<h, i>>) \in Seq(Events \X Nat)
    BY LogTypes DEF TypeInv, CursorInv, Events
  <1>2. log \in Seq(Events \X Nat)
    BY DEF TypeInv
  <1>3. QED BY <1>1, <1>2 DEF RunHook

\* The words of the command line are read within its bounds, at most MaxMechs
\* names are kept, and no more mechanisms are loaded than names were kept.
THEOREM CopingTypes == Spec => []TypeInv
  <1> USE CopingAssumption
  <1>1. Init => TypeInv
    <2> SUFFICES ASSUME Init PROVE TypeInv
      OBVIOUS
    <2>1. PICK n \in 0 .. MaxArgs : argv \in [1 .. n -> Args]
      BY DEF Init
    <2>2. argv \in Seq(Args) /\ Len(argv) = n
      BY <2>1
    <2>3. pc = "scan" /\ i = 1 /\ names = <<>> /\ mechs = <<>> /\ log = <<>>
      BY DEF Init
    <2>4. no_context \in BOOLEAN /\ status \in {-1, 0, 1, 2} /\ held = {}
      BY DEF Init
    <2>5. CursorInv
      BY <2>2, <2>3 DEF CursorInv
    <2>6. log \in Seq(Events \X Nat)
      BY <2>3
    <2>7. QED BY <2>3, <2>4, <2>5, <2>6 DEF TypeInv, Places
  <1>2. TypeInv /\ [Next]_vars => TypeInv'
    <2> SUFFICES ASSUME TypeInv, [Next]_vars
                 PROVE  TypeInv'
      OBVIOUS
    <2>l. \A e \in {"banner", "suppressed", "request", "box"} :
             Append(log, <<e, 0>>) \in Seq(Events \X Nat)
      BY LogTypes DEF Events
    <2>1. CASE Scan
      <3>a. ASSUME NEW m \in {a.v : a \in Args}, AddName(m)
            PROVE  /\ names' \in Seq({a.v : a \in Args})
                   /\ Len(names') \in Nat
                   /\ Len(names') <= MaxMechs
                   /\ Len(names') <= Len(names) + 1
                   /\ Len(names) <= Len(names')
        BY <3>a DEF AddName, TypeInv, CursorInv
      <3>1. /\ pc = "scan" /\ pc' = "scan" /\ i <= Len(argv) /\ mechs = <<>>
            /\ UNCHANGED <<argv, mechs, status, held, log>>
        BY <2>1 DEF Scan, TypeInv, CursorInv, input
      <3>2. argv[i] \in Args
        BY <3>1 DEF TypeInv, CursorInv
      <3>3. CASE argv[i].k = "flag" /\ i < Len(argv) /\ AddName(argv[i + 1].v)
                 /\ i' = i + 2 /\ UNCHANGED no_context
        <4>1. argv[i + 1] \in Args
          BY <3>3 DEF TypeInv, CursorInv
        <4>2. argv[i + 1].v \in {a.v : a \in Args}
          BY <4>1
        <4>n. /\ names' \in Seq({a.v : a \in Args})
              /\ Len(names') \in Nat
              /\ Len(names') <= MaxMechs
              /\ Len(names') <= Len(names) + 1
              /\ Len(names) <= Len(names')
          BY <3>3, <4>2, <3>a
        <4>m. Len(argv) \in Nat
          BY DEF TypeInv, CursorInv
        <4>3. CursorInv'
          BY <3>1, <3>3, <4>n, <4>m DEF TypeInv, CursorInv
        <4>4. QED BY <3>1, <3>3, <4>3 DEF TypeInv
      <3>4. CASE AddName(argv[i].v) /\ i' = i + 1 /\ UNCHANGED no_context
        <4>1. argv[i].v \in {a.v : a \in Args}
          BY <3>2
        <4>2. CursorInv'
          BY <3>1, <3>4, <4>1, <3>a DEF TypeInv, CursorInv
        <4>3. QED BY <3>1, <3>4, <4>2 DEF TypeInv
      <3>5. CASE UNCHANGED names /\ i' = i + 1 /\ no_context' \in {TRUE, no_context}
        <4>1. CursorInv'
          BY <3>1, <3>5 DEF TypeInv, CursorInv
        <4>2. no_context' \in BOOLEAN
          BY <3>5, Zenon DEF TypeInv
        <4>3. QED BY <3>1, <4>1, <4>2 DEF TypeInv
      <3>6. QED
        <4>1. \/ no_context' = TRUE /\ i' = i + 1 /\ UNCHANGED names
              \/ AddName(argv[i].v) /\ i' = i + 1 /\ UNCHANGED no_context
              \/ argv[i].k = "flag" /\ i < Len(argv) /\ AddName(argv[i + 1].v)
                 /\ i' = i + 2 /\ UNCHANGED no_context
              \/ i' = i + 1 /\ UNCHANGED <<no_context, names>>
          BY <2>1 DEF Scan
        <4>2. QED BY <4>1, <3>3, <3>4, <3>5
    <2>2. CASE Gate
      <3>1. log' \in Seq(Events \X Nat)
        BY <2>2, <2>l DEF Gate
      <3>2. CASE Exit(2) /\ UNCHANGED i
        BY <2>2, <3>1, <3>2 DEF Gate, Exit, TypeInv, CursorInv, input, Places
      <3>3. CASE pc' = "load" /\ i' = 1 /\ UNCHANGED status
        BY <2>2, <3>1, <3>3 DEF Gate, TypeInv, CursorInv, input, Places
      <3>4. QED BY <2>2, <3>2, <3>3 DEF Gate
    <2>3. CASE Load
      <3>1. CASE Found(names[i])
        <4>1. names[i] \in Mechs
          BY <3>1 DEF Found
        <4>2. mechs' = Append(mechs, names[i]) /\ i' = i + 1 /\ i <= Len(names)
              /\ pc = "load" /\ pc' = "load"
              /\ UNCHANGED <<argv, status, names, no_context, held>>
          BY <2>3, <3>1 DEF Load, input
        <4>3. mechs' \in Seq(Mechs) /\ Len(mechs') = Len(mechs) + 1
          BY <4>1, <4>2 DEF TypeInv, CursorInv
        <4>4. Append(log, <<"load", Len(mechs')>>) \in Seq(Events \X Nat)
          <5>1. Len(mechs') \in Nat
            BY <4>3
          <5>2. QED BY <5>1, LogTypes DEF Events, HookNames
        <4>5. log' \in Seq(Events \X Nat)
          BY <2>3, <3>1, <4>4 DEF Load, TypeInv
        <4>6. CursorInv'
          BY <4>2, <4>3 DEF TypeInv, CursorInv
        <4>7. QED BY <4>2, <4>5, <4>6 DEF TypeInv, Places
      <3>2. CASE ~Found(names[i])
        BY <2>3, <3>2 DEF Load, Exit, TypeInv, CursorInv, input, Places
      <3>3. QED BY <3>1, <3>2
    <2>4. CASE Session
      <3>1. /\ pc' \in {"done", "context"} /\ status' \in {0, 1, 2}
            /\ i' \in {i, 1} /\ (pc' = "context" => i' = 1)
            /\ UNCHANGED <<argv, names, mechs, no_context, held, log>>
        BY <2>4 DEF Session, Exit, input
      <3>2. Len(mechs) \in Nat
        BY DEF TypeInv, CursorInv
      <3>3. CursorInv'
        <4>1. CASE pc' = "context"
          BY <3>1, <3>2, <4>1 DEF TypeInv, CursorInv
        <4>2. CASE pc' = "done"
          <5>1. i' \in Nat /\ 1 <= i' /\ i' <= MaxArgs + 1
            BY <3>1 DEF TypeInv, CursorInv
          <5>2. QED BY <3>1, <4>2, <5>1 DEF TypeInv, CursorInv
        <4>3. QED BY <3>1, <4>1, <4>2
      <3>4. pc' \in Places /\ status' \in {-1, 0, 1, 2}
        BY <3>1 DEF Places
      <3>5. QED BY <3>1, <3>3, <3>4 DEF TypeInv
    <2>5. CASE Suppressed
      <3>1. log' \in Seq(Events \X Nat)
        BY <2>5, <2>l DEF Suppressed
      <3>2. CursorInv'
        BY <2>5 DEF Suppressed, TypeInv, CursorInv, input
      <3>3. QED BY <2>5, <3>1, <3>2 DEF Suppressed, TypeInv, Places
    <2>6. CASE PreContext \/ TransformPrompt \/ PostContext
      <3>1. PICK h \in HookNames : RunHook(h)
        BY <2>6 DEF PreContext, TransformPrompt, PostContext, HookNames
      <3>2. log' \in Seq(Events \X Nat) /\ i' = i + 1 /\ i <= Len(mechs)
        BY <3>1, RunHookTypes
      <3>3. pc \in {"context", "transform", "post"}
        BY <2>6 DEF PreContext, TransformPrompt, PostContext
      <3>4. QED BY <3>1, <3>2, <3>3 DEF RunHook, TypeInv, CursorInv, input, Places
    <2>7. CASE Describe \/ Show
      <3>1. log' \in Seq(Events \X Nat)
        BY <2>7, <2>l DEF Describe, Show, TypeInv
      <3>2. pc' \in {"transform", "post"} /\ i' = 1
            /\ UNCHANGED <<argv, names, mechs, no_context, held, status>>
        BY <2>7 DEF Describe, Show, input
      <3>3. QED BY <3>1, <3>2 DEF TypeInv, CursorInv, Places
    <2>8. CASE Connect \/ Failed \/ Free
      <3>1. /\ pc' \in {"done", "perform"}
            /\ held' \subseteq {"curl", "headers", "response", "ai_text"}
            /\ UNCHANGED <<argv, i, names, mechs, no_context, status, log>>
        BY <2>8 DEF Connect, Failed, Free, input, TypeInv
      <3>2. QED BY <3>1 DEF TypeInv, CursorInv, Places
    <2>9. CASE Perform \/ Extract
      <3>1. log' \in Seq(Events \X Nat)
        BY <2>9, <2>l DEF Perform, Extract, TypeInv
      <3>2. /\ pc' \in Outcomes
            /\ held' \subseteq {"curl", "headers", "response", "ai_text"}
            /\ UNCHANGED <<argv, i, names, mechs, no_context, status>>
        BY <2>9 DEF Perform, Extract, input, TypeInv, Outcomes, Failures
      <3>3. pc' \notin {"scan", "load", "context", "transform", "post"}
        BY <3>2 DEF Outcomes, Failures
      <3>4. QED BY <3>1, <3>2, <3>3 DEF TypeInv, CursorInv, Places
    <2>10. CASE Ended \/ UNCHANGED vars
      BY <2>10 DEF Ended, vars, input, TypeInv, CursorInv
    <2>11. QED
      BY <2>1, <2>2, <2>3, <2>4, <2>5, <2>6, <2>7, <2>8, <2>9, <2>10
         DEF Next, AddContext
  <1>3. QED BY <1>1, <1>2, PTL DEF Spec

\* The types that the run checks, with a bound on the cursor.
COROLLARY CopingTypeCorrect == Spec => []CopingTypeOK
  <1>1. TypeInv => CopingTypeOK
    BY CopingAssumption DEF TypeInv, CursorInv, CopingTypeOK, Places
  <1>2. QED BY <1>1, CopingTypes, PTL
---------------------------------------------------------------------------
(***************************************************************************)
(* Memory: what may be held depends only on where coping_add_context() is. *)
(***************************************************************************)

HeldInv ==
    /\ pc = "perform" => held = {"curl", "headers"}
    /\ pc \in {"curl_error", "http_401", "http_other", "http_200"} =>
          held \subseteq {"response"}
    /\ pc \in {"no_text", "text", "post"} => held \subseteq {"response", "ai_text"}
    /\ pc \in {"scan", "load", "context", "transform", "done"} => held = {}

\* Every early return of coping_add_context() has freed what was allocated on
\* the way to it: the handle, the headers, the response, the text.
THEOREM NothingLeaks == Spec => []NothingHeldAtEnd
  <1>1. Init => HeldInv
    BY DEF Init, HeldInv
  <1>2. HeldInv /\ [Next]_vars => HeldInv'
    <2> SUFFICES ASSUME HeldInv, [Next]_vars PROVE HeldInv'
      OBVIOUS
    <2> USE DEF HeldInv, Outcomes, Failures
    <2>1. CASE Scan \/ Gate
      BY <2>1 DEF Scan, Gate, Exit
    <2>2. CASE Load \/ Session
      BY <2>2 DEF Load, Session, Exit
    <2>3. CASE Suppressed \/ Describe \/ Show
      BY <2>3 DEF Suppressed, Describe, Show
    <2>4. CASE PreContext \/ TransformPrompt \/ PostContext
      BY <2>4 DEF PreContext, TransformPrompt, PostContext, RunHook
    <2>5. CASE Connect
      BY <2>5 DEF Connect
    <2>6. CASE Perform \/ Extract
      BY <2>6 DEF Perform, Extract
    <2>7. CASE Failed \/ Free
      BY <2>7 DEF Failed, Free
    <2>8. CASE Ended \/ UNCHANGED vars
      BY <2>8 DEF Ended, vars
    <2>9. QED
      BY <2>1, <2>2, <2>3, <2>4, <2>5, <2>6, <2>7, <2>8 DEF Next, AddContext
  <1>3. HeldInv => NothingHeldAtEnd
    BY DEF HeldInv, NothingHeldAtEnd
  <1>4. QED BY <1>1, <1>2, <1>3, PTL DEF Spec
---------------------------------------------------------------------------
(***************************************************************************)
(* The log                                                                 *)
(***************************************************************************)

\* One more entry changes what is known of its own event only.
LEMMA LogGrows ==
    ASSUME TypeInv, NEW e \in Events, NEW n \in Nat, log' = Append(log, <<e, n>>)
    PROVE  /\ Len(log') = Len(log) + 1
           /\ \A p \in 1 .. Len(log) : log'[p] = log[p]
           /\ log'[Len(log) + 1][1] = e /\ log'[Len(log) + 1][2] = n
           /\ Logged(e)' = Logged(e) \cup {Len(log) + 1}
           /\ Ran(e)' = Ran(e) \cup {n}
           /\ \A x : x # e => Logged(x)' = Logged(x) /\ Ran(x)' = Ran(x)
  <1>0. log \in Seq(Events \X Nat)
    BY DEF TypeInv
  <1>1. /\ Len(log') = Len(log) + 1 /\ Len(log) \in Nat
        /\ \A p \in 1 .. Len(log) : log'[p] = log[p]
        /\ log'[Len(log) + 1] = <<e, n>>
    BY <1>0
  <1>2. log'[Len(log) + 1][1] = e /\ log'[Len(log) + 1][2] = n
    BY <1>1
  <1>3. 1 .. Len(log') = (1 .. Len(log)) \cup {Len(log) + 1}
    BY <1>1
  <1>4. Logged(e)' = Logged(e) \cup {Len(log) + 1}
    BY <1>1, <1>2, <1>3 DEF Logged
  <1>5. \A x : x # e => Logged(x)' = Logged(x)
    BY <1>1, <1>2, <1>3 DEF Logged
  <1>6. ASSUME NEW x, NEW p \in Logged(x)
        PROVE  log'[p][2] = log[p][2]
    BY <1>1 DEF Logged
  <1>7. Ran(e)' = Ran(e) \cup {n}
    <2>1. Ran(e)' = {log'[p][2] : p \in Logged(e) \cup {Len(log) + 1}}
      BY <1>4 DEF Ran
    <2>2. @ = {log'[p][2] : p \in Logged(e)} \cup {log'[Len(log) + 1][2]}
      OBVIOUS
    <2>3. {log'[p][2] : p \in Logged(e)} = Ran(e)
      BY <1>6 DEF Ran
    <2>4. QED BY <1>2, <2>1, <2>2, <2>3
  <1>8. ASSUME NEW x, x # e
        PROVE  Ran(x)' = Ran(x)
    <2>1. Ran(x)' = {log'[p][2] : p \in Logged(x)}
      BY <1>5, <1>8 DEF Ran
    <2>2. QED BY <1>6, <2>1 DEF Ran
  <1>9. QED BY <1>1, <1>2, <1>4, <1>5, <1>7, <1>8

\* Without an entry nothing changes.
LEMMA LogStays ==
    ASSUME UNCHANGED log
    PROVE  \A x : Logged(x)' = Logged(x) /\ Ran(x)' = Ran(x)
  BY DEF Logged, Ran

\* Only curl_easy_perform() sends a request.
LEMMA OnlyPerformRequests ==
    ASSUME TypeInv, [Next]_vars, ~Perform
    PROVE  Logged("request")' = Logged("request")
  <1>1. ASSUME NEW e \in Events, NEW n \in Nat, e # "request",
               log' = Append(log, <<e, n>>)
        PROVE  Logged("request")' = Logged("request")
    BY <1>1, LogGrows
  <1>2. CASE UNCHANGED log
    BY <1>2, LogStays
  <1>3. CASE Gate
    BY <1>3, <1>1 DEF Gate, Events
  <1>4. CASE Load
    <2>1. ASSUME Found(names[i])
          PROVE  Len(mechs') \in Nat
      BY <1>4, <2>1 DEF Load, Found, TypeInv, CursorInv
    <2>2. QED BY <1>4, <1>1, <1>2, <2>1 DEF Load, Events, HookNames
  <1>5. CASE Suppressed
    BY <1>5, <1>1 DEF Suppressed, Events
  <1>6. CASE Show
    BY <1>6, <1>1 DEF Show, Events
  <1>9. CASE PreContext \/ TransformPrompt \/ PostContext
    <2>1. PICK h \in HookNames : RunHook(h)
      BY <1>9 DEF PreContext, TransformPrompt, PostContext, HookNames
    <2>2. h \in Events /\ h # "request" /\ i \in Nat
      BY DEF Events, HookNames, TypeInv, CursorInv
    <2>3. CASE log' = Append(log, <<h, i>>)
      BY <2>2, <2>3, <1>1
    <2>4. QED BY <2>1, <2>3, <1>2 DEF RunHook
  <1>7. CASE \/ Scan \/ Session \/ Describe \/ Connect \/ Extract \/ Failed \/ Free
             \/ Ended \/ UNCHANGED vars
    BY <1>7, <1>2 DEF Scan, Session, Describe, Connect, Extract, Failed, Free, Ended, vars
  <1>8. QED BY <1>3, <1>4, <1>5, <1>6, <1>7, <1>9 DEF Next, AddContext
---------------------------------------------------------------------------
(***************************************************************************)
(* Consent: the gate in main() is passed only with a key or with           *)
(* --no-context, and coping_add_context() does nothing in the second case, *)
(* so that the key is there where the request is made.                     *)
(***************************************************************************)

ConsentInv ==
    /\ pc \notin {"scan", "done"} => key \/ no_context
    /\ pc \in {"transform", "perform", "post"} \cup Outcomes => key /\ ~no_context
    /\ pc = "scan" => Logged("request") = {}
    /\ RequestNeedsConsent

\* No request leaves the host without a key or against --no-context, wherever
\* on the command line that stands and whatever mechanisms are loaded.
THEOREM ConsentIsNeeded == Spec => []RequestNeedsConsent
  <1>1. Init => ConsentInv
    BY DEF Init, ConsentInv, RequestNeedsConsent, Logged, Outcomes, Failures
  <1>2. TypeInv /\ ConsentInv /\ [Next]_vars => ConsentInv'
    <2> SUFFICES ASSUME TypeInv, ConsentInv, [Next]_vars PROVE ConsentInv'
      OBVIOUS
    <2>a. ASSUME UNCHANGED <<key, no_context>>, ~Perform,
                 pc' \notin {"scan", "done"} => key \/ no_context,
                 pc' \in {"transform", "perform", "post"} \cup Outcomes
                    => key /\ ~no_context,
                 pc' = "scan" => pc = "scan"
          PROVE  ConsentInv'
      BY <2>a, OnlyPerformRequests DEF ConsentInv, RequestNeedsConsent
    <2> USE DEF Outcomes, Failures
    <2>1. CASE Scan
      <3>1. Logged("request") = {}
        BY <2>1 DEF Scan, ConsentInv
      <3>2. Logged("request")' = {}
        BY <2>1, <3>1, LogStays DEF Scan
      <3>3. QED BY <2>1, <3>2 DEF Scan, ConsentInv, RequestNeedsConsent
    <2>2. CASE Gate
      BY <2>2, <2>a DEF Gate, Exit, input, Perform
    <2>3. CASE Load \/ Session
      BY <2>3, <2>a DEF Load, Session, Exit, input, Perform, ConsentInv
    <2>4. CASE Suppressed \/ Describe \/ Show \/ Connect \/ Extract \/ Failed \/ Free
      BY <2>4, <2>a DEF Suppressed, Describe, Show, Connect, Extract, Failed, Free, input,
                        Perform, ConsentInv
    <2>5. CASE PreContext \/ TransformPrompt \/ PostContext
      BY <2>5, <2>a DEF PreContext, TransformPrompt, PostContext, RunHook, input,
                        Perform, ConsentInv
    <2>6. CASE Perform
      BY <2>6 DEF Perform, input, ConsentInv, RequestNeedsConsent
    <2>7. CASE Ended \/ UNCHANGED vars
      BY <2>7 DEF Ended, vars, input, ConsentInv, RequestNeedsConsent, Logged
    <2>8. QED
      BY <2>1, <2>2, <2>3, <2>4, <2>5, <2>6, <2>7 DEF Next, AddContext
  <1>3. ConsentInv => RequestNeedsConsent
    BY DEF ConsentInv
  <1>4. QED BY <1>1, <1>2, <1>3, CopingTypes, PTL DEF Spec
---------------------------------------------------------------------------
(***************************************************************************)
(* Order of the log: every entry belongs before what is still to come, and *)
(* within a loop over the mechanisms before the cursor.                    *)
(***************************************************************************)

\* What the log may hold while the program is at pc.
EntryOK(e, n) ==
    \/ pc = "load" /\ (e = "banner" \/ (e = "load" /\ n < i))
    \/ pc = "context" /\ (e \in {"banner", "load"} \/ (e = "pre" /\ n < i))
    \/ pc = "transform" /\ (e \in {"banner", "load", "pre"} \/ (e = "transform" /\ n < i))
    \/ pc = "perform" /\ e \in {"banner", "load", "pre", "transform"}
    \/ pc \in Outcomes /\ e \in {"banner", "load", "pre", "transform", "request"}
    \/ pc = "post" /\ (e \in {"banner", "load", "pre", "transform", "request", "box"}
                       \/ (e = "post" /\ n < i))
    \/ pc = "done"

Before(a, b) == \/ Phase(a[1]) < Phase(b[1])
                \/ a[1] = b[1] /\ a[2] < b[2]
Sorted == \A p, q \in 1 .. Len(log) : p < q => Before(log[p], log[q])

OrderInv ==
    /\ Sorted
    /\ \A p \in 1 .. Len(log) : EntryOK(log[p][1], log[p][2])

\* Nothing moves back: what may be in the log may stay there.
LEMMA EntriesStay ==
    ASSUME TypeInv, [Next]_vars, NEW e \in Events, NEW n \in Nat, EntryOK(e, n)
    PROVE  EntryOK(e, n)'
  <1> USE DEF EntryOK, Outcomes, Failures
  <1>0. i \in Nat
    BY DEF TypeInv, CursorInv
  <1>1. CASE Scan \/ Gate
    BY <1>1 DEF Scan, Gate
  <1>2. CASE Load \/ Session
    BY <1>0, <1>2 DEF Load, Session, Exit
  <1>3. CASE \/ Suppressed \/ Describe \/ Show \/ Connect \/ Perform \/ Extract
             \/ Failed \/ Free
    BY <1>3 DEF Suppressed, Describe, Show, Connect, Perform, Extract, Failed, Free
  <1>4. CASE PreContext \/ TransformPrompt \/ PostContext
    BY <1>0, <1>4 DEF PreContext, TransformPrompt, PostContext, RunHook
  <1>5. CASE Ended \/ UNCHANGED vars
    BY <1>5 DEF Ended, vars
  <1>6. QED BY <1>1, <1>2, <1>3, <1>4, <1>5 DEF Next, AddContext

\* A step may log what belongs after everything that can be in the log.
LEMMA EntryFollows ==
    ASSUME TypeInv, OrderInv, [Next]_vars, NEW e \in Events, NEW n \in Nat,
           log' = Append(log, <<e, n>>), EntryOK(e, n)',
           \A x \in Events, m \in Nat : EntryOK(x, m) => Before(<<x, m>>, <<e, n>>)
    PROVE  OrderInv'
  <1>0. log \in Seq(Events \X Nat) /\ Len(log) \in Nat
    BY DEF TypeInv
  <1>1. \A p \in 1 .. Len(log) : log[p][1] \in Events /\ log[p][2] \in Nat
    BY <1>0
  <1>l. PICK last \in Nat : last = Len(log) + 1
    BY <1>0
  <1>2. /\ Len(log') = last
        /\ \A p \in 1 .. Len(log) : log'[p] = log[p]
        /\ log'[last][1] = e /\ log'[last][2] = n
    BY <1>l, LogGrows
  <1>3. ASSUME NEW p \in 1 .. Len(log)
        PROVE  EntryOK(log[p][1], log[p][2])' /\ Before(log'[p], log'[last])
    <2>1. EntryOK(log[p][1], log[p][2])
      BY DEF OrderInv
    <2> DEFINE x == log[p][1]  m == log[p][2]
    <2>2. x \in Events /\ m \in Nat /\ EntryOK(x, m) /\ log'[p][1] = x /\ log'[p][2] = m
      BY <1>1, <1>2, <2>1
    <2> HIDE DEF x, m
    <2>3. PICK y \in Events, k \in Nat : y = x /\ k = m
      BY <2>2
    <2>4. EntryOK(y, k)'
      BY <2>2, <2>3, EntriesStay
    <2>5. Before(<<y, k>>, <<e, n>>)
      BY <2>2, <2>3
    <2>6. EntryOK(log[p][1], log[p][2])'
      BY <2>2, <2>3, <2>4 DEF EntryOK
    <2>7. QED BY <1>2, <2>2, <2>3, <2>5, <2>6 DEF Before
  <1>4. Sorted'
    <2> SUFFICES ASSUME NEW p \in 1 .. Len(log'), NEW q \in 1 .. Len(log'), p < q
                 PROVE  Before(log'[p], log'[q])
      BY DEF Sorted, Before
    <2>1. p \in 1 .. Len(log)
      BY <1>0, <1>l, <1>2
    <2>2. CASE q \in 1 .. Len(log)
      BY <1>2, <2>1, <2>2 DEF OrderInv, Sorted
    <2>3. CASE q = last
      BY <1>3, <2>1, <2>3
    <2>4. q \in 1 .. Len(log) \/ q = last
      BY <1>0, <1>l, <1>2
    <2>5. QED BY <2>2, <2>3, <2>4
  <1>5. ASSUME NEW p \in 1 .. Len(log')
        PROVE  EntryOK(log[p][1], log[p][2])'
    <2>1. EntryOK(log[last][1], log[last][2])'
      BY <1>2 DEF EntryOK
    <2>2. p \in 1 .. Len(log) \/ p = last
      BY <1>0, <1>l, <1>2
    <2>3. CASE p \in 1 .. Len(log)
      BY <1>3, <2>3
    <2>4. CASE p = last
      BY <2>1, <2>4 DEF EntryOK
    <2>5. QED BY <2>2, <2>3, <2>4
  <1>6. QED BY <1>4, <1>5 DEF OrderInv

\* Hooks run in load order, each at most once for a mechanism; pre hooks
\* precede transform hooks, those the request, that the box, and that the post
\* hooks.
LEMMA OrderStep ==
    ASSUME TypeInv, OrderInv, [Next]_vars
    PROVE  OrderInv'
  <1>f. ASSUME NEW e \in Events, NEW n \in Nat, log' = Append(log, <<e, n>>),
               EntryOK(e, n)',
               \A x \in Events, m \in Nat :
                  EntryOK(x, m) => Phase(x) < Phase(e) \/ (x = e /\ m < n)
        PROVE  OrderInv'
    <2>1. \A x \in Events, m \in Nat : EntryOK(x, m) => Before(<<x, m>>, <<e, n>>)
      BY <1>f DEF Before
    <2>2. QED BY <1>f, <2>1, EntryFollows
  <1>1. CASE UNCHANGED log
    <2>1. Sorted'
      BY <1>1 DEF OrderInv, Sorted, Before
    <2>2. ASSUME NEW p \in 1 .. Len(log)
          PROVE  EntryOK(log[p][1], log[p][2])'
      <3>1. log[p][1] \in Events /\ log[p][2] \in Nat
        BY DEF TypeInv
      <3>2. PICK x \in Events, m \in Nat : x = log[p][1] /\ m = log[p][2]
        BY <3>1
      <3>3. EntryOK(x, m)'
        BY <3>2, EntriesStay DEF OrderInv
      <3>4. QED BY <1>1, <3>2, <3>3 DEF EntryOK
    <2>3. QED BY <1>1, <2>1, <2>2 DEF OrderInv
  <1>2. CASE Gate
    <2>1. \A x \in Events, m \in Nat : ~EntryOK(x, m)
      BY <1>2 DEF Gate, EntryOK, Outcomes, Failures
    <2>2. EntryOK("banner", 0)'
      BY <1>2 DEF Gate, Exit, EntryOK
    <2>3. QED BY <1>2, <2>1, <2>2, <1>f DEF Gate, Events
  <1>3. CASE Load
    <2>1. CASE Found(names[i]) /\ "load" \in Hooks[names[i]]
      <3>1. PICK n \in Nat : n = i
        BY DEF TypeInv, CursorInv
      <3>2. Len(mechs') = n /\ i' = n + 1 /\ pc = "load" /\ pc' = "load"
        BY <1>3, <2>1, <3>1 DEF Load, Found, TypeInv, CursorInv
      <3>3. log' = Append(log, <<"load", n>>)
        BY <1>3, <2>1, <3>2 DEF Load
      <3>4. EntryOK("load", n)'
        BY <3>2 DEF EntryOK
      <3>5. \A x \in Events, m \in Nat :
               EntryOK(x, m) => Phase(x) < Phase("load") \/ (x = "load" /\ m < n)
        BY <3>1, <3>2 DEF EntryOK, Phase, Outcomes, Failures
      <3>6. QED BY <3>3, <3>4, <3>5, <1>f DEF Events, HookNames
    <2>2. CASE ~(Found(names[i]) /\ "load" \in Hooks[names[i]])
      BY <1>3, <2>2, <1>1 DEF Load
    <2>3. QED BY <2>1, <2>2
  <1>4. CASE Suppressed
    <2>1. EntryOK("suppressed", 0)'
      BY <1>4 DEF Suppressed, EntryOK
    <2>2. \A x \in Events, m \in Nat : EntryOK(x, m) => Phase(x) < Phase("suppressed")
      BY <1>4 DEF Suppressed, EntryOK, Phase, Outcomes, Failures
    <2>3. QED BY <1>4, <2>1, <2>2, <1>f DEF Suppressed, Events
  <1>5. CASE Perform
    <2>1. EntryOK("request", 0)'
      BY <1>5 DEF Perform, EntryOK
    <2>2. \A x \in Events, m \in Nat : EntryOK(x, m) => Phase(x) < Phase("request")
      BY <1>5 DEF Perform, EntryOK, Phase, Outcomes, Failures
    <2>3. QED BY <1>5, <2>1, <2>2, <1>f DEF Perform, Events
  <1>6. CASE Show
    <2>1. EntryOK("box", 0)'
      BY <1>6 DEF Show, EntryOK
    <2>2. \A x \in Events, m \in Nat : EntryOK(x, m) => Phase(x) < Phase("box")
      BY <1>6 DEF Show, EntryOK, Phase, Outcomes, Failures
    <2>3. QED BY <1>6, <2>1, <2>2, <1>f DEF Show, Events
  <1>7. CASE PreContext \/ TransformPrompt \/ PostContext
    <2>1. PICK h \in HookNames :
             /\ RunHook(h)
             /\ \/ h = "pre" /\ pc = "context"
                \/ h = "transform" /\ pc = "transform"
                \/ h = "post" /\ pc = "post"
      BY <1>7 DEF PreContext, TransformPrompt, PostContext, HookNames
    <2>2. PICK n \in Nat : n = i
      BY DEF TypeInv, CursorInv
    <2>3. i' = n + 1 /\ pc' = pc
      BY <2>1, <2>2 DEF RunHook
    <2>4. EntryOK(h, n)'
      BY <2>1, <2>3 DEF EntryOK
    <2>5. \A x \in Events, m \in Nat :
             EntryOK(x, m) => Phase(x) < Phase(h) \/ (x = h /\ m < n)
      BY <2>1, <2>2 DEF EntryOK, Phase, Outcomes, Failures
    <2>6. CASE log' = Append(log, <<h, n>>)
      BY <2>4, <2>5, <2>6, <1>f DEF Events
    <2>7. QED BY <2>1, <2>2, <2>6, <1>1 DEF RunHook
  <1>8. CASE \/ Scan \/ Session \/ Describe \/ Connect \/ Extract \/ Failed \/ Free
             \/ Ended \/ UNCHANGED vars
    BY <1>8, <1>1 DEF Scan, Session, Describe, Connect, Extract, Failed, Free, Ended, vars
  <1>9. QED
    BY <1>2, <1>3, <1>4, <1>5, <1>6, <1>7, <1>8 DEF Next, AddContext
---------------------------------------------------------------------------
(***************************************************************************)
(* Completeness of the loops over the mechanisms.                          *)
(***************************************************************************)

\* Those of the mechanisms with hook h that the loop has passed.
Upto(h) == {m \in Having(h) : m < i}

RanInv ==
    /\ Ran("load") = Having("load")
    /\ pc \in {"scan", "load"} => Ran("pre") = {}
    /\ pc \in {"scan", "load", "context"} => Ran("transform") = {}
    /\ pc \notin {"post", "done"} => Ran("post") = {}
    /\ pc = "context" => Ran("pre") = Upto("pre") /\ (no_context => i = 1)
    /\ pc = "transform" => Ran("transform") = Upto("transform")
    /\ pc = "post" => Ran("post") = Upto("post") /\ Logged("box") # {}
    /\ pc \in {"transform", "perform", "post"} \cup Outcomes => Ran("pre") = Having("pre")
    /\ pc \in {"perform", "post"} \cup Outcomes => Ran("transform") = Having("transform")
    /\ pc = "done" => \A h \in HookNames : Ran(h) \in {{}, Having(h)}
    /\ Logged("request") # {} =>
          /\ pc \in {"post", "done"} \cup Outcomes
          /\ Ran("pre") = Having("pre") /\ Ran("transform") = Having("transform")
    /\ Logged("box") # {} => pc \in {"post", "done"}
    /\ Logged("post") # {} => Logged("box") # {}
    /\ pc = "done" /\ Logged("box") # {} => Ran("post") = Having("post")

\* The mechanisms do not change, so neither do those that have a hook.
LEMMA HavingStays ==
    ASSUME UNCHANGED mechs
    PROVE  \A h : Having(h)' = Having(h)
  BY DEF Having

\* At the ends of a loop: nothing is passed, or everything is.
LEMMA UptoEnds ==
    ASSUME TypeInv, NEW h
    PROVE  /\ i = 1 => Upto(h) = {}
           /\ i > Len(mechs) => Upto(h) = Having(h)
  BY DEF Upto, Having, TypeInv, CursorInv

\* One turn of a loop: the hook of the mechanism at the cursor is called when
\* it exists.
LEMMA HookTurn ==
    ASSUME TypeInv, NEW h \in HookNames, RunHook(h), Ran(h) = Upto(h)
    PROVE  /\ Ran(h)' = Upto(h)'
           /\ \A x : x # h => Logged(x)' = Logged(x) /\ Ran(x)' = Ran(x)
           /\ \A x : Having(x)' = Having(x)
  <1>0. i \in Nat /\ i >= 1 /\ i <= Len(mechs) /\ i' = i + 1 /\ UNCHANGED mechs
    BY DEF RunHook, TypeInv, CursorInv
  <1>1. \A x : Having(x)' = Having(x)
    BY <1>0, HavingStays
  <1>2. Upto(h)' = {m \in Having(h) : m < i + 1}
    BY <1>0, <1>1 DEF Upto
  <1>3. CASE h \in Hooks[mechs[i]]
    <2>1. log' = Append(log, <<h, i>>)
      BY <1>3 DEF RunHook
    <2>2. /\ Ran(h)' = Ran(h) \cup {i}
          /\ \A x : x # h => Logged(x)' = Logged(x) /\ Ran(x)' = Ran(x)
      BY <1>0, <2>1, LogGrows DEF Events
    <2>3. i \in Having(h)
      BY <1>0, <1>3 DEF Having, TypeInv, CursorInv
    <2>4. {m \in Having(h) : m < i + 1} = {m \in Having(h) : m < i} \cup {i}
      BY <1>0, <2>3 DEF Having
    <2>5. QED BY <1>1, <1>2, <2>2, <2>4 DEF Upto
  <1>4. CASE h \notin Hooks[mechs[i]]
    <2>1. log' = log
      BY <1>4 DEF RunHook
    <2>2. i \notin Having(h)
      BY <1>4 DEF Having
    <2>3. {m \in Having(h) : m < i + 1} = {m \in Having(h) : m < i}
      BY <1>0, <2>2 DEF Having
    <2>4. QED BY <1>1, <1>2, <2>1, <2>3, LogStays DEF Upto
  <1>5. QED BY <1>3, <1>4

\* A mechanism is loaded and its load hook, if any, is called.
LEMMA LoadTurn ==
    ASSUME TypeInv, Load, Found(names[i]), Ran("load") = Having("load")
    PROVE  /\ Ran("load")' = Having("load")'
           /\ \A x : x # "load" => Logged(x)' = Logged(x) /\ Ran(x)' = Ran(x)
  <1>0. /\ i \in Nat /\ Len(mechs) = i - 1 /\ names[i] \in Mechs /\ mechs \in Seq(Mechs)
        /\ mechs' = Append(mechs, names[i])
    BY DEF Load, Found, TypeInv, CursorInv
  <1>1. /\ Len(mechs') = i /\ mechs'[i] = names[i]
        /\ \A m \in 1 .. Len(mechs) : mechs'[m] = mechs[m]
        /\ 1 .. Len(mechs') = (1 .. Len(mechs)) \cup {i}
    BY <1>0
  <1>2. Having("load")' = {m \in 1 .. Len(mechs') : "load" \in Hooks[mechs'[m]]}
    BY DEF Having
  <1>3. CASE "load" \in Hooks[names[i]]
    <2>1. log' = Append(log, <<"load", i>>)
      BY <1>1, <1>3 DEF Load
    <2>2. /\ Ran("load")' = Ran("load") \cup {i}
          /\ \A x : x # "load" => Logged(x)' = Logged(x) /\ Ran(x)' = Ran(x)
      BY <1>0, <2>1, LogGrows DEF Events, HookNames
    <2>3. Having("load")' = Having("load") \cup {i}
      BY <1>1, <1>2, <1>3 DEF Having
    <2>4. QED BY <2>2, <2>3
  <1>4. CASE "load" \notin Hooks[names[i]]
    <2>1. log' = log
      BY <1>4 DEF Load
    <2>2. Having("load")' = Having("load")
      BY <1>1, <1>2, <1>4 DEF Having
    <2>3. QED BY <2>1, <2>2, LogStays
  <1>5. QED BY <1>3, <1>4

\* Every loop over the mechanisms that is entered is completed, the request
\* follows the completed pre and transform loops, and the box is shown only
\* on the way to the post loop.
LEMMA RanStep ==
    ASSUME TypeInv, RanInv, [Next]_vars
    PROVE  RanInv'
  <1> USE DEF Outcomes, Failures
  <1>u. \A h : /\ i = 1 => Upto(h) = {}
               /\ i > Len(mechs) => Upto(h) = Having(h)
    BY UptoEnds
  <1>v. \A h : i' = 1 => Upto(h)' = {}
    BY DEF Upto, Having
  <1>1. CASE Scan
    <2>1. /\ \A x : Logged(x)' = Logged(x) /\ Ran(x)' = Ran(x) /\ Having(x)' = Having(x)
          /\ pc = "scan" /\ pc' = "scan"
      BY <1>1, LogStays, HavingStays DEF Scan
    <2>2. QED BY <2>1 DEF RanInv
  <1>2. CASE Gate
    <2>1. /\ \A x : x # "banner" => Logged(x)' = Logged(x) /\ Ran(x)' = Ran(x)
          /\ \A x : Having(x)' = Having(x)
      BY <1>2, LogGrows, HavingStays DEF Gate, Events
    <2>2. pc = "scan" /\ pc' \in {"done", "load"}
      BY <1>2 DEF Gate, Exit
    <2>3. QED BY <2>1, <2>2 DEF RanInv, HookNames
  <1>3. CASE Load
    <2>1. CASE Found(names[i])
      <3>1. pc = "load" /\ pc' = "load"
        BY <1>3, <2>1 DEF Load
      <3>2. Ran("load") = Having("load")
        BY DEF RanInv
      <3>3. QED BY <1>3, <2>1, <3>1, <3>2, LoadTurn DEF RanInv
    <2>2. CASE ~Found(names[i])
      <3>1. /\ \A x : Logged(x)' = Logged(x) /\ Ran(x)' = Ran(x) /\ Having(x)' = Having(x)
            /\ pc = "load" /\ pc' = "done"
        BY <1>3, <2>2, LogStays, HavingStays DEF Load, Exit
      <3>2. QED BY <3>1 DEF RanInv, HookNames
    <2>3. QED BY <2>1, <2>2
  <1>4. CASE Session
    <2>1. /\ \A x : Logged(x)' = Logged(x) /\ Ran(x)' = Ran(x) /\ Having(x)' = Having(x)
          /\ pc = "load" /\ pc' \in {"done", "context"} /\ (pc' = "context" => i' = 1)
      BY <1>4, LogStays, HavingStays DEF Session, Exit
    <2>2. QED BY <2>1, <1>v DEF RanInv, HookNames
  <1>5. CASE Suppressed
    <2>1. /\ \A x : x # "suppressed" => Logged(x)' = Logged(x) /\ Ran(x)' = Ran(x)
          /\ \A x : Having(x)' = Having(x)
      BY <1>5, LogGrows, HavingStays DEF Suppressed, Events
    <2>2. pc = "context" /\ no_context /\ pc' = "done"
      BY <1>5 DEF Suppressed
    <2>3. QED BY <2>1, <2>2, <1>u DEF RanInv, HookNames
  <1>6. CASE PreContext
    <2>1. RunHook("pre") /\ pc = "context" /\ pc' = "context" /\ ~no_context'
      BY <1>6 DEF PreContext, RunHook
    <2>2. /\ Ran("pre")' = Upto("pre")'
          /\ \A x : x # "pre" => Logged(x)' = Logged(x) /\ Ran(x)' = Ran(x)
          /\ \A x : Having(x)' = Having(x)
      BY <2>1, HookTurn DEF RanInv, HookNames
    <2>3. QED BY <2>1, <2>2 DEF RanInv
  <1>7. CASE TransformPrompt
    <2>1. RunHook("transform") /\ pc = "transform" /\ pc' = "transform"
      BY <1>7 DEF TransformPrompt, RunHook
    <2>2. /\ Ran("transform")' = Upto("transform")'
          /\ \A x : x # "transform" => Logged(x)' = Logged(x) /\ Ran(x)' = Ran(x)
          /\ \A x : Having(x)' = Having(x)
      BY <2>1, HookTurn DEF RanInv, HookNames
    <2>3. QED BY <2>1, <2>2 DEF RanInv
  <1>8. CASE PostContext
    <2>1. RunHook("post") /\ pc = "post" /\ pc' = "post"
      BY <1>8 DEF PostContext, RunHook
    <2>2. /\ Ran("post")' = Upto("post")'
          /\ \A x : x # "post" => Logged(x)' = Logged(x) /\ Ran(x)' = Ran(x)
          /\ \A x : Having(x)' = Having(x)
      BY <2>1, HookTurn DEF RanInv, HookNames
    <2>3. QED BY <2>1, <2>2 DEF RanInv
  <1>9. CASE Describe
    <2>1. /\ \A x : Logged(x)' = Logged(x) /\ Ran(x)' = Ran(x) /\ Having(x)' = Having(x)
          /\ pc = "context" /\ i > Len(mechs) /\ pc' = "transform" /\ i' = 1
      BY <1>9, LogStays, HavingStays DEF Describe
    <2>2. QED BY <2>1, <1>u, <1>v DEF RanInv
  <1>10. CASE Connect
    <2>1. /\ \A x : Logged(x)' = Logged(x) /\ Ran(x)' = Ran(x) /\ Having(x)' = Having(x)
          /\ pc = "transform" /\ i > Len(mechs) /\ pc' \in {"done", "perform"}
      BY <1>10, LogStays, HavingStays DEF Connect
    <2>2. QED BY <2>1, <1>u DEF RanInv, HookNames
  <1>11. CASE Perform
    <2>1. /\ \A x : x # "request" => Logged(x)' = Logged(x) /\ Ran(x)' = Ran(x)
          /\ \A x : Having(x)' = Having(x)
      BY <1>11, LogGrows, HavingStays DEF Perform, Events
    <2>2. pc = "perform" /\ pc' \in Outcomes
      BY <1>11 DEF Perform
    <2>3. QED BY <2>1, <2>2 DEF RanInv
  <1>12. CASE Failed \/ Extract
    <2>1. /\ \A x : Logged(x)' = Logged(x) /\ Ran(x)' = Ran(x) /\ Having(x)' = Having(x)
          /\ pc \in Outcomes /\ pc' \in {"done", "no_text", "text"}
      BY <1>12, LogStays, HavingStays DEF Failed, Extract
    <2>2. QED BY <2>1 DEF RanInv, HookNames
  <1>13. CASE Show
    <2>1. /\ \A x : x # "box" => Logged(x)' = Logged(x) /\ Ran(x)' = Ran(x)
          /\ \A x : Having(x)' = Having(x)
          /\ Logged("box")' # {}
      BY <1>13, LogGrows, HavingStays DEF Show, Events
    <2>2. pc = "text" /\ pc' = "post" /\ i' = 1
      BY <1>13 DEF Show
    <2>3. QED BY <2>1, <2>2, <1>v DEF RanInv
  <1>14. CASE Free
    <2>1. /\ \A x : Logged(x)' = Logged(x) /\ Ran(x)' = Ran(x) /\ Having(x)' = Having(x)
          /\ pc = "post" /\ i > Len(mechs) /\ pc' = "done"
      BY <1>14, LogStays, HavingStays DEF Free
    <2>2. QED BY <2>1, <1>u DEF RanInv, HookNames
  <1>15. CASE Ended \/ UNCHANGED vars
    <2>1. /\ \A x : Logged(x)' = Logged(x) /\ Ran(x)' = Ran(x) /\ Having(x)' = Having(x)
          /\ UNCHANGED <<pc, i, no_context>>
      BY <1>15, LogStays, HavingStays DEF Ended, vars
    <2>2. \A x : Upto(x)' = Upto(x)
      BY <2>1 DEF Upto
    <2>3. QED BY <2>1, <2>2 DEF RanInv
  <1>16. QED
    BY <1>1, <1>2, <1>3, <1>4, <1>5, <1>6, <1>7, <1>8, <1>9, <1>10, <1>11, <1>12,
       <1>13, <1>14, <1>15 DEF Next, AddContext

\* Every hook is called once for each mechanism that has it or for none, in
\* load order, at its place before the request or after the box: for any set of
\* mechanisms and on every path through coping_add_context().
THEOREM HooksAreOrdered == Spec => []HooksOrdered
  <1>1. Init => OrderInv /\ RanInv
    <2> SUFFICES ASSUME Init PROVE OrderInv /\ RanInv
      OBVIOUS
    <2>1. log = <<>> /\ mechs = <<>> /\ pc = "scan"
      BY DEF Init
    <2>2. \A x : Logged(x) = {} /\ Ran(x) = {} /\ Having(x) = {}
      BY <2>1 DEF Logged, Ran, Having
    <2>3. OrderInv
      BY <2>1 DEF OrderInv, Sorted
    <2>4. RanInv
      BY <2>1, <2>2 DEF RanInv, Outcomes, Failures
    <2>5. QED BY <2>3, <2>4
  <1>2. TypeInv /\ OrderInv /\ RanInv /\ [Next]_vars => OrderInv' /\ RanInv'
    BY OrderStep, RanStep
  <1>3. TypeInv /\ OrderInv /\ RanInv => HooksOrdered
    <2> SUFFICES ASSUME TypeInv, OrderInv, RanInv PROVE HooksOrdered
      OBVIOUS
    <2>1. \A p, q \in 1 .. Len(log) :
             p < q => \/ Phase(log[p][1]) < Phase(log[q][1])
                      \/ log[p][1] = log[q][1] /\ log[p][2] < log[q][2]
      BY DEF OrderInv, Sorted, Before
    <2>2. \A h : Upto(h) \subseteq Having(h)
      BY DEF Upto
    <2>3. ASSUME NEW h \in HookNames
          PROVE  Ran(h) \subseteq Having(h) /\ (pc = "done" => Ran(h) \in {{}, Having(h)})
      BY <2>2 DEF RanInv, HookNames, TypeInv, Places
    <2>4. QED BY <2>1, <2>3 DEF HooksOrdered, RanInv, HookNames
  <1>4. QED BY <1>1, <1>2, <1>3, CopingTypes, PTL DEF Spec
=============================================================================
