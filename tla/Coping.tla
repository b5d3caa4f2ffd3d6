------------------------------- MODULE Coping -------------------------------
(***************************************************************************)
(* What coping adds around a ping session: the argv pre-scan of main(),    *)
(* the API key gate, the mechanism (addon) loader, and                     *)
(* coping_add_context(), which finish() calls once the session's exit      *)
(* status is about to be decided.                                          *)
(*                                                                         *)
(* Texts are left out; kept are the order of the hooks, every early return *)
(* and exit, and what is allocated when.  The session itself is PingLoop;  *)
(* here it only chooses its exit status.                                   *)
(***************************************************************************)
EXTENDS Integers, Sequences, FiniteSets

CONSTANTS
    Mechs,          \* mechanism names
    Hooks,          \* [Mechs -> SUBSET {"load", "pre", "transform", "post"}]
    MaxMechs,       \* COPING_MAX_MECHS
    MaxArgs         \* bound on the number of arguments

ASSUME CopingAssumption ==
    /\ Hooks \in [Mechs -> SUBSET {"load", "pre", "transform", "post"}]
    /\ MaxMechs \in Nat \ {0} /\ MaxArgs \in Nat

\* Words of the command line.  "flag" is a separate --mechanism, "eq" is
\* --mechanism=v, "word" anything else (v = "-" for the host and for options
\* that getopt() understands).
Args == {[k |-> "nocontext", v |-> "-"], [k |-> "flag", v |-> "-"],
         [k |-> "word", v |-> "-"]}
        \cup {[k |-> "eq", v |-> m] : m \in Mechs}
        \cup {[k |-> "word", v |-> m] : m \in Mechs}

\* Where the mechanisms may be installed; the loader looks into two of these.
Dirs == {"cwd", "home", "root", "usrlib"}

VARIABLES
    argv, key, home, installed,     \* the invocation: never change
    pc,
    i,              \* loop index of the pre-scan and of the loader
    no_context, names, passed,          \* result of the pre-scan
    mechs,          \* g_mechs: names in load order
    status,         \* exit status, -1 before
    held,           \* allocated and not yet freed
    log             \* history: hooks run, request, box, in order

input == <<argv, key, home, installed>>
vars == <<input, pc, i, no_context, names, passed, mechs, status, held, log>>

Init ==
    /\ argv \in UNION {[1 .. n -> Args] : n \in 0 .. MaxArgs}
    /\ key \in BOOLEAN /\ home \in BOOLEAN
    /\ installed \in {{}} \cup {{d} : d \in Dirs \ {"root"}}
    /\ pc = "scan" /\ i = 1
    /\ no_context = FALSE /\ names = <<>> /\ passed = <<>>
    /\ mechs = <<>>
    /\ status = -1
    /\ held = {}
    /\ log = <<>>

Exit(s) == pc' = "done" /\ status' = s
---------------------------------------------------------------------------
(***************************************************************************)
(* main(): pre-scan, one word per step, then the gate                      *)
(***************************************************************************)
\* Wrong variant: no limit.
AddName_Unlimited(m) == names' = Append(names, m)

AddName(m) == names' = IF Len(names) < MaxMechs THEN Append(names, m) ELSE names

\* --mechanism as the last word has no name: it is passed on to getopt().
Scan ==
    /\ pc = "scan" /\ i <= Len(argv)
    /\ LET a == argv[i] IN
       \/ /\ a.k = "nocontext"
          /\ no_context' = TRUE /\ i' = i + 1
          /\ UNCHANGED <<names, passed>>
       \/ /\ a.k = "eq"
          /\ AddName(a.v) /\ i' = i + 1
          /\ UNCHANGED <<no_context, passed>>
       \/ /\ a.k = "flag" /\ i < Len(argv)
          /\ AddName(argv[i + 1].v) /\ i' = i + 2
          /\ UNCHANGED <<no_context, passed>>
       \/ /\ a.k = "word" \/ (a.k = "flag" /\ i = Len(argv))
          /\ passed' = Append(passed, a) /\ i' = i + 1
          /\ UNCHANGED <<no_context, names>>
    /\ UNCHANGED <<input, pc, mechs, status, held, log>>

\* Wrong variant: the key is not asked for.
Gate_Open ==
    /\ pc = "scan" /\ i > Len(argv)
    /\ log' = Append(log, <<"banner", 0>>)
    /\ pc' = "load" /\ i' = 1
    /\ UNCHANGED <<input, no_context, names, passed, mechs, status, held>>

\* The banner goes to standard output whatever the options; without a key
\* and without --no-context this is the end.
Gate ==
    /\ pc = "scan" /\ i > Len(argv)
    /\ log' = Append(log, <<"banner", 0>>)
    /\ IF ~key /\ ~no_context
       THEN Exit(2) /\ UNCHANGED i
       ELSE pc' = "load" /\ i' = 1 /\ UNCHANGED status
    /\ UNCHANGED <<input, no_context, names, passed, mechs, held>>
---------------------------------------------------------------------------
(***************************************************************************)
(* coping_init() and load_mechanisms()                                     *)
(***************************************************************************)
\* Without HOME the second directory is the empty string, so that the path
\* of a mechanism becomes /name.so.
SearchDirs == <<"cwd", IF home THEN "home" ELSE "root">>

Found(m) == m \in Mechs /\ \E d \in 1 .. 2 : SearchDirs[d] \in installed

Load ==
    /\ pc = "load" /\ i <= Len(names)
    /\ IF Found(names[i])
       THEN /\ mechs' = Append(mechs, names[i])
            /\ log' = IF "load" \in Hooks[names[i]]
                      THEN Append(log, <<"load", Len(mechs')>>) ELSE log
            /\ i' = i + 1
            /\ UNCHANGED <<pc, status>>
       ELSE Exit(1) /\ UNCHANGED <<i, mechs, log>>
    /\ UNCHANGED <<input, no_context, names, passed, held>>

\* The rest of main(): options and addresses (2 on any error; a trailing
\* --mechanism is one; 0 for -V), then the session; finish() calls
\* coping_add_context() and returns 0 or 1.
BadUsage == passed = <<>> \/ \E a \in 1 .. Len(passed) : passed[a].k = "flag"

Session ==
    /\ pc = "load" /\ i > Len(names)
    /\ \/ Exit(2) /\ UNCHANGED i
       \/ ~BadUsage /\ Exit(0) /\ UNCHANGED i
       \/ ~BadUsage /\ pc' = "context" /\ status' \in {0, 1} /\ i' = 1
    /\ UNCHANGED <<input, no_context, names, passed, mechs, held, log>>
---------------------------------------------------------------------------
(***************************************************************************)
(* coping_add_context()                                                    *)
(***************************************************************************)
Suppressed ==
    /\ pc = "context" /\ no_context
    /\ pc' = "done"
    /\ log' = Append(log, <<"suppressed", 0>>)
    /\ UNCHANGED <<input, i, no_context, names, passed, mechs, status, held>>

\* One turn of a loop over the loaded mechanisms that calls hook h.
RunHook(h) ==
    /\ i <= Len(mechs)
    /\ i' = i + 1
    /\ log' = IF h \in Hooks[mechs[i]] THEN Append(log, <<h, i>>) ELSE log
    /\ UNCHANGED <<input, pc, no_context, names, passed, mechs, status, held>>

PreContext == pc = "context" /\ ~no_context /\ RunHook("pre")

\* The statistics become text; the mechanisms may add to it.
Describe ==
    /\ pc = "context" /\ ~no_context /\ i > Len(mechs)
    /\ pc' = "transform" /\ i' = 1
    /\ UNCHANGED <<input, no_context, names, passed, mechs, status, held, log>>

TransformPrompt == pc = "transform" /\ RunHook("transform")

\* The request is built, then curl_easy_init(), which may fail.
Connect ==
    /\ pc = "transform" /\ i > Len(mechs)
    /\ \/ pc' = "done" /\ UNCHANGED held
       \/ pc' = "perform" /\ held' = held \cup {"curl", "headers"}
    /\ UNCHANGED <<input, i, no_context, names, passed, mechs, status, log>>

\* What the request can come to, and where coping_add_context() gives up.
Failures == {"curl_error", "http_401", "http_other", "no_text"}
Outcomes == Failures \cup {"http_200", "text"}

\* curl_easy_perform(): the write callback allocates the response when bytes
\* arrive, also when the transfer fails later.  Headers and handle are freed
\* before the result is looked at.
Perform ==
    /\ pc = "perform"
    /\ log' = Append(log, <<"request", 0>>)
    /\ \E out \in Outcomes \ {"no_text", "text"}, data \in {{}, {"response"}} :
          /\ held' = (held \ {"curl", "headers"}) \cup data
          /\ pc' = out
    /\ UNCHANGED <<input, i, no_context, names, passed, mechs, status>>

\* extract_text_from_response() allocates the text when the response has one
\* (malloc() may fail, too); an empty text is allocated, but is a failure.
Extract ==
    /\ pc = "http_200"
    /\ \E text \in {"none", "empty", "words"} :
          /\ text # "none" => "response" \in held
          /\ held' = IF text = "none" THEN held ELSE held \cup {"ai_text"}
          /\ pc' = IF text = "words" THEN "text" ELSE "no_text"
    /\ UNCHANGED <<input, i, no_context, names, passed, mechs, status, log>>

\* Wrong variant: an empty text is not freed.
Failed_Leak ==
    /\ pc \in Failures
    /\ held' = held \ {"response"}
    /\ pc' = "done"
    /\ UNCHANGED <<input, i, no_context, names, passed, mechs, status, log>>

\* Wrong variant: a failure without a return, so that the post hooks run.
Failed_Through ==
    /\ pc \in Failures
    /\ pc' = "post" /\ i' = 1
    /\ UNCHANGED <<input, no_context, names, passed, mechs, status, held, log>>

\* Every failure frees what there is and returns; finish() goes on.
Failed ==
    /\ pc \in Failures
    /\ held' = held \ {"response", "ai_text"}
    /\ pc' = "done"
    /\ UNCHANGED <<input, i, no_context, names, passed, mechs, status, log>>

\* The text is shown in its box.
Show ==
    /\ pc = "text"
    /\ log' = Append(log, <<"box", 0>>)
    /\ pc' = "post" /\ i' = 1
    /\ UNCHANGED <<input, no_context, names, passed, mechs, status, held>>

\* It is handed to the post hooks; then text and response are freed.
PostContext == pc = "post" /\ RunHook("post")

Free ==
    /\ pc = "post" /\ i > Len(mechs)
    /\ held' = held \ {"response", "ai_text"}
    /\ pc' = "done"
    /\ UNCHANGED <<input, i, no_context, names, passed, mechs, status, log>>

Ended == pc = "done" /\ UNCHANGED vars

AddContext == Suppressed \/ PreContext \/ Describe \/ TransformPrompt \/ Connect
              \/ Perform \/ Extract \/ Failed \/ Show \/ PostContext \/ Free

Next == Scan \/ Gate \/ Load \/ Session \/ AddContext \/ Ended

Spec == Init /\ [][Next]_vars
---------------------------------------------------------------------------
(***************************************************************************)
(* Properties                                                              *)
(***************************************************************************)
Logged(e) == {p \in 1 .. Len(log) : log[p][1] = e}

\* Types; in particular the loader never writes past g_mechs, however many
\* --mechanism options are given.
CopingTypeOK ==
    /\ pc \in {"scan", "load", "context", "transform", "perform", "post", "done"}
              \cup Outcomes
    /\ i \in 1 .. MaxArgs + 1
    /\ no_context \in BOOLEAN
    /\ status \in {-1, 0, 1, 2}
    /\ held \subseteq {"curl", "headers", "response", "ai_text"}
    /\ Len(mechs) <= Len(names) /\ Len(names) <= MaxMechs

\* Whichever of the many early returns coping_add_context() takes, the handle,
\* the headers, the response and the text extracted from it are freed.
NothingHeldAtEnd == pc = "done" => held = {}

\* A request leaves the host only with a key and only when the user did not
\* decline: the gate in main() is what coping_add_context() relies on.
RequestNeedsConsent == Logged("request") # {} => key /\ ~no_context

\* The mechanisms whose hook h was called, and those that have it.
Ran(h)    == {log[p][2] : p \in Logged(h)}
Having(h) == {m \in 1 .. Len(mechs) : h \in Hooks[mechs[m]]}

\* Where an entry of the log belongs in the course of the program.
Phase(e) ==
    CASE e = "banner" -> 0 [] e = "load" -> 1 [] e = "pre" -> 2
      [] e = "transform" -> 3 [] e = "request" -> 4 [] e = "box" -> 5
      [] OTHER -> 6

\* Each hook runs once for every mechanism that has it or for none, in load
\* order; all pre and then all transform hooks precede the request, post hooks
\* follow the box, and the box is never shown without them.
HooksOrdered ==
    /\ \A p, q \in 1 .. Len(log) :
          p < q => \/ Phase(log[p][1]) < Phase(log[q][1])
                   \/ log[p][1] = log[q][1] /\ log[p][2] < log[q][2]
    /\ \A h \in {"load", "pre", "transform", "post"} :
          Ran(h) \subseteq Having(h) /\ (pc = "done" => Ran(h) \in {{}, Having(h)})
    /\ Ran("load") = Having("load")
    /\ Logged("request") # {} =>
          Ran("pre") = Having("pre") /\ Ran("transform") = Having("transform")
    /\ Logged("post") # {} => Logged("box") # {}
    /\ pc = "done" /\ Logged("box") # {} => Ran("post") = Having("post")
=============================================================================
