------------------------------ MODULE MCPingPace ------------------------------
(***************************************************************************)
(* Sessions for TLC: the bucket with time and few replies, a flood, the    *)
(* adaptive mode, and a session of replies without time.                   *)
(***************************************************************************)
EXTENDS PingPace

Session(i, l, a, u, t, r) ==
    [interval |-> i, preload |-> l, adaptive |-> a, user |-> u, time |-> t, replies |-> r]

\* A clock that went back, close times, a long one and one beyond the limit.
MCDiffs == {-1, 98, 99, 100, 3000, 5001}

MCSessions ==
    {Session(2, 2, FALSE, FALSE, 16, 0), Session(4, 1, FALSE, FALSE, 18, 0),
     Session(1, 3, FALSE, FALSE, 10, 0), Session(0, 2, FALSE, FALSE, 12, 1),
     Session(1, 1, TRUE, TRUE, 7, 2), Session(2, 1, FALSE, FALSE, 3, 4)}
=============================================================================
