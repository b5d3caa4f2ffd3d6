---------------------------- MODULE MCClockdiff ----------------------------
(* Two measurements: one that midnight falls into, of a host that is ahead, *)
(* and one with IP timestamps of a host that is behind.                     *)
EXTENDS Clockdiff

MCSettings ==
    {[start |-> 14, offset |-> 3, stamped |-> FALSE],
     [start |-> 4, offset |-> -2, stamped |-> TRUE]}
=============================================================================
