--------------------------- MODULE AssuranceOrder ---------------------------
(***************************************************************************)
(* The partial order that every policy and every profile is measured by:   *)
(* three sets of threats, ordered by inclusion, and three strictness       *)
(* classes, ordered by rank (assurance/order.py, models/requirements.py).  *)
(* A class stands for its rank in FALLBACK_RULE_RANK,                      *)
(* RESUMPTION_RULE_RANK and LEASE_STRICTNESS_RANK.                         *)
(***************************************************************************)
EXTENDS Integers

CONSTANT Threats     \* ThreatClass

Ranks == 0..2

AssuranceVectors ==
    [kem : SUBSET Threats, endpoint : SUBSET Threats, contract : SUBSET Threats,
     fallback : Ranks, resumption : Ranks, lease : Ranks]

RankJoin(l, r) == IF l >= r THEN l ELSE r
RankMeet(l, r) == IF l <= r THEN l ELSE r

Dominates(l, r) ==
    /\ r.kem \subseteq l.kem
    /\ r.endpoint \subseteq l.endpoint
    /\ r.contract \subseteq l.contract
    /\ l.fallback >= r.fallback
    /\ l.resumption >= r.resumption
    /\ l.lease >= r.lease

Join(l, r) ==
    [kem |-> l.kem \cup r.kem,
     endpoint |-> l.endpoint \cup r.endpoint,
     contract |-> l.contract \cup r.contract,
     fallback |-> RankJoin(l.fallback, r.fallback),
     resumption |-> RankJoin(l.resumption, r.resumption),
     lease |-> RankJoin(l.lease, r.lease)]

Meet(l, r) ==
    [kem |-> l.kem \cap r.kem,
     endpoint |-> l.endpoint \cap r.endpoint,
     contract |-> l.contract \cap r.contract,
     fallback |-> RankMeet(l.fallback, r.fallback),
     resumption |-> RankMeet(l.resumption, r.resumption),
     lease |-> RankMeet(l.lease, r.lease)]

(* AssuranceRequirement has the fields of a vector, which                  *)
(* as_assurance_vector keeps; requirement_dominates and requirement_join   *)
(* are the order and the join once more.                                   *)
Requirements == AssuranceVectors
RequirementDominates(l, r) == Dominates(l, r)
RequirementJoin(l, r) == Join(l, r)
=============================================================================
