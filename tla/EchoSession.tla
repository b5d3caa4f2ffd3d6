---------------------------- MODULE EchoSession ----------------------------
(***************************************************************************)
(* What the statistics of a ping session promise, independently of how     *)
(* they are kept: probes are numbered in the order they are transmitted,   *)
(* an answer is credited to a probe that was transmitted, each probe is    *)
(* credited at most once, and `received' counts exactly those credits.     *)
(*                                                                         *)
(* The promise is about the first Numbers - 1 probes.  Then numbers are   *)
(* used again, an old answer passes for a new one, and anything goes.      *)
(***************************************************************************)
EXTENDS Integers

CONSTANT Numbers

VARIABLES sent, answered, received
vars == <<sent, answered, received>>

Init ==
    /\ sent = 0
    /\ answered = {}
    /\ received = 0

Transmit ==
    /\ sent' = sent + 1
    /\ UNCHANGED <<answered, received>>

Answer ==
    /\ \E n \in (1 .. sent) \ answered : answered' = answered \cup {n}
    /\ received' = received + 1
    /\ UNCHANGED sent

Next == sent' < Numbers => Transmit \/ Answer

Spec == Init /\ [][Next]_vars
=============================================================================
