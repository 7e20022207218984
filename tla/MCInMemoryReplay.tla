-------------------------- MODULE MCInMemoryReplay --------------------------
(* Two contract IDs and four times are enough for a lease to be purged and *)
(* re-registered while the other ID is live; one session, commitment and   *)
(* transcript suffice to meet each replay, two sessions to meet a change   *)
(* of a commitment's owner.                                                *)
EXTENDS InMemoryReplay

CONSTANTS s1, s2, c1, h1, k1, k2
=============================================================================
