---------------------------- MODULE MCPingStartup ----------------------------
(***************************************************************************)
(* Command lines and targets for TLC.  Four groups of command lines vary   *)
(* what belongs together: sockets and addresses, the limits of a user,     *)
(* sizes, and the words of -N.                                             *)
(***************************************************************************)
EXTENDS PingStartup

Plain == [family |-> 0, both |-> FALSE, user |-> TRUE, permitted |-> {"raw", "other"},
          words |-> <<>>, ident0 |-> FALSE, literal |-> 0, options |-> FALSE,
          datalen |-> 1, device |-> FALSE, source |-> 0, mark |-> FALSE,
          connect |-> FALSE, flood |-> FALSE, given |-> FALSE, interval |-> 1000,
          preload |-> 1, broadcast |-> FALSE, fragment |-> FALSE]

Routing ==
    {[Plain EXCEPT !.family = f, !.both = b, !.ident0 = i, !.device = d, !.source = s,
                   !.permitted = p, !.mark = "admin" \in p] :
        f \in {0, 4, 6}, b \in BOOLEAN, i \in BOOLEAN, d \in BOOLEAN, s \in {0, 4, 6},
        p \in {{}, {"raw", "other"}, {"raw", "admin"}}}

Speed ==
    {[Plain EXCEPT !.user = u, !.flood = f, !.given = g,
                   !.interval = IF g THEN v ELSE 1000,
                   !.preload = l, !.broadcast = b, !.fragment = m, !.connect = m] :
        u \in BOOLEAN, f \in BOOLEAN, g \in BOOLEAN, v \in {1, 2, 1000}, l \in {3, 4},
        b \in BOOLEAN, m \in BOOLEAN}

Sizes ==
    {[Plain EXCEPT !.family = f, !.literal = l, !.options = o, !.datalen = n] :
        f \in {0, 4, 6}, l \in {0, 4, 6}, o \in BOOLEAN, n \in {2, 3, 5, 6}}

NodeWords == {"name", "ipv6_all", "ipv4", "ipv4_all", "subject_ipv6", "subject_name"}
Queried ==
    {[Plain EXCEPT !.words = w] : w \in {<<a>> : a \in NodeWords \cup {"help"}}
                                        \cup {<<a, b>> : a, b \in NodeWords}}

MCCommands == Routing \cup Speed \cup Sizes \cup Queried

Address(f, r, m) == [family |-> f, route |-> r, multicast |-> m]
MCTargets ==
    {<<Address(6, r, FALSE), Address(4, q, FALSE)>> :
        r \in {"ok", "unreachable", "other"}, q \in {"ok", "unreachable", "denied"}}
    \cup {<<Address(4, "unreachable", FALSE), Address(4, "ok", TRUE),
            Address(6, "ok", FALSE)>>,
          <<Address(6, "unreachable", FALSE), Address(6, "ok", FALSE)>>,
          <<Address(6, "ok", TRUE)>>}

MCMaxData == [v4 |-> 3, v6 |-> 5, options |-> 1]
=============================================================================
