--------------------------- MODULE MCTrustRuntime ---------------------------
(* Two runtimes on one feasible session and one on an infeasible one.  The *)
(* transcript outlives a lease, so that a second contract can be in force  *)
(* after the first, and ends before the clock does.                        *)
EXTENDS TrustRuntime, TLC

CONSTANTS r1, r2, r3, s1, s2, P1, P2, g1, g2

MCSessionOf == (r1 :> s1) @@ (r2 :> s1) @@ (r3 :> s2)
MCAgreed ==
    (s1 :> [initiatorSafe |-> {P1, P2}, responderSafe |-> {P1}, selected |-> P1,
            from |-> 0, until |-> 3]) @@
    (s2 :> [initiatorSafe |-> {P1}, responderSafe |-> {P2}, selected |-> Absent,
            from |-> 0, until |-> 3])

(* Good for g1, with one thing amiss, and good for g2.                     *)
Good == [finished |-> TRUE, client |-> [group |-> g1, spelt |-> "lower"],
         server |-> [group |-> g1, spelt |-> "canonical"], sound |-> TRUE]
MCHandshakes ==
    {Good, [Good EXCEPT !.client.group = g2], [Good EXCEPT !.server.group = g2],
     [Good EXCEPT !.client.group = g2, !.server.group = g2],
     [Good EXCEPT !.sound = FALSE], [Good EXCEPT !.server.spelt = "other"],
     [Good EXCEPT !.finished = FALSE]}

MCGroupOf == (P1 :> g1) @@ (P2 :> g2)
MCMaxLease == (P1 :> 2) @@ (P2 :> 1)
=============================================================================
