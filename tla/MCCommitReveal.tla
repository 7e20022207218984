--------------------------- MODULE MCCommitReveal ---------------------------
(* Session s1 has a matching pair of reveals, a responder that is the      *)
(* initiator itself, and a responder that negotiates something else; the   *)
(* reveal of s2 is there to be used in the wrong session.  Their windows   *)
(* differ, so that a pair may be accepted and expire before it is verified.*)
(* Three transcripts were altered after they were built: they carry other  *)
(* reveals than their commitments open, another session, or the two sides  *)
(* exchanged.                                                              *)
EXTENDS CommitReveal

CONSTANTS s1, s2, a1, a2, b1, b2

Reveal(s, role, agent, binding, from, to) ==
    [session |-> s, role |-> role, agent |-> agent, binding |-> binding,
     evaluation |-> from, expires |-> to, nonce |-> 0]

MCReveals ==
    {Reveal(s1, "initiator", a1, b1, 0, 2),
     Reveal(s1, "responder", a2, b1, 0, 1),
     Reveal(s1, "responder", a1, b1, 1, 2),
     Reveal(s1, "responder", a2, b2, 0, 2),
     Reveal(s2, "initiator", a2, b1, 0, 2)}

MCAltered ==
    LET i     == Reveal(s1, "initiator", a1, b1, 0, 2)
        p     == Reveal(s1, "responder", a2, b1, 0, 1)
        own   == Reveal(s1, "responder", a1, b1, 1, 2)
        built == [session |-> s1, initiator |-> i, responder |-> p,
                  initiator_commitment |-> create_commitment(i),
                  responder_commitment |-> create_commitment(p), created |-> 0]
    IN  {[built EXCEPT !.responder = own],
         [built EXCEPT !.session = s2],
         [built EXCEPT !.initiator = p, !.responder = i]}
=============================================================================
