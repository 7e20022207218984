----------------------------- MODULE OneTimeUse -----------------------------
(***************************************************************************)
(* What a replay registry is for, abstractly: every key (a session ID, a   *)
(* commitment, a transcript hash) is accepted at most once, for ever.      *)
(***************************************************************************)
EXTENDS Naturals

CONSTANT Keys

VARIABLE uses  \* how often each key has been accepted

Init == uses = [k \in Keys |-> 0]

Use(k) == uses[k] = 0 /\ uses' = [uses EXCEPT ![k] = 1]

Next == \E k \in Keys : Use(k)

Spec == Init /\ [][Next]_uses
=============================================================================
