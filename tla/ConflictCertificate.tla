------------------------- MODULE ConflictCertificate -------------------------
(***************************************************************************)
(* What a hard policy conflict leaves behind: named constraints on the one *)
(* profile to select, the certificate of an irreducible conflict among     *)
(* them, the failure transcript that binds both reveals to it, the safe    *)
(* abort record that binds all three, the remediation report, and the      *)
(* independent verifiers of protocol/conflict_verification.py.             *)
(*                                                                         *)
(* A hash is the domain and the payload it is taken over; an artifact is a *)
(* payload with the hash it carries.  A constraint's id is the hash of its *)
(* fields, so the constraint stands for its id; the order of the ids,      *)
(* which is arbitrary, is the order of the sources.                        *)
(***************************************************************************)
EXTENDS Integers, FiniteSets
LOCAL INSTANCE SequencesExt

CONSTANTS
    Profiles,       \* candidate_profile_universe
    None

(* CATEGORY_MAP                                                            *)
CategoryMap ==
    [profile_support |-> "NO_COMMON_PROFILE",
     minimum_assurance |-> "ASSURANCE_FLOOR_CONFLICT",
     endpoint_authentication |-> "ENDPOINT_AUTHENTICATION_CONFLICT",
     TLS_group_support |-> "TLS_GROUP_CONFLICT",
     contract_evidence_algorithm |-> "CONTRACT_EVIDENCE_CONFLICT",
     fallback_policy |-> "FALLBACK_POLICY_CONFLICT",
     resumption_policy |-> "RESUMPTION_POLICY_CONFLICT",
     lease_limit |-> "LEASE_CONFLICT",
     handshake_byte_limit |-> "RESOURCE_LIMIT_CONFLICT",
     explicit_profile_denial |-> "CAPABILITY_MISMATCH"]

NonRelaxable ==
    {"minimum_assurance", "endpoint_authentication", "explicit_profile_denial",
     "fallback_policy"}

(* No profile and no category is taken for the absence of one.             *)
ASSUME NoneAssumption ==
    /\ None \notin Profiles
    /\ None \notin {CategoryMap[c] : c \in DOMAIN CategoryMap} \cup {"MULTI_CAUSE_CONFLICT"}

Hash(domain, payload) == <<domain, payload>>

(* make_named_constraint: always hard; negotiable only where it is asked.  *)
NamedConstraint(agent, category, scope, source) ==
    [agent |-> agent, category |-> category, scope |-> scope, source |-> source,
     negotiable |-> FALSE]

(* constraints_for_scenario                                                *)
ConstraintsFor(scenario) ==
    {NamedConstraint("initiator", "profile_support", scenario.initiator, scenario.policies[1]),
     NamedConstraint("responder", "profile_support", scenario.responder, scenario.policies[2])}
    \cup scenario.extra

ById(constraints) == SetToSortSeq(constraints, LAMBDA x, y : x.source < y.source)

(* build_feasibility_model and solver_for_constraints: one index in the    *)
(* universe that every scope admits.                                       *)
Unsat(constraints) == \A p \in Profiles : \E k \in constraints : p \notin k.scope
Remainder(constraints, k) == constraints \ {k}
SatisfiableProfiles(constraints) == {p \in Profiles : \A k \in constraints : p \in k.scope}

(* A category nobody mapped says nothing about the cause.                  *)
ClassifyConflict(ius) ==
    LET mapped == {k \in ius : k.category \in DOMAIN CategoryMap}
        categories == {CategoryMap[k.category] : k \in mapped} IN
    IF Cardinality(categories) = 1 THEN CHOOSE x \in categories : TRUE
    ELSE "MULTI_CAUSE_CONFLICT"

CommonSafeSet(initiator, responder) == Profiles \cap initiator \cap responder

CertificateId(session, ius) == Hash("certificate_id", <<session, ius>>)
AbortId(session, certificateHash) == Hash("abort_id", <<session, certificateHash>>)
Seal(domain, payload) == [payload |-> payload, hash |-> Hash(domain, payload)]
Intact(domain, artifact) == artifact.hash = Hash(domain, artifact.payload)

(* build_minimal_conflict_certificate, given what compute_ius returned.    *)
Certificate(scenario, result) ==
    Seal("certificate",
         [id |-> CertificateId(scenario.session, result.ius), session |-> scenario.session,
          scenario |-> scenario.name, initiator |-> scenario.initiator,
          responder |-> scenario.responder,
          common |-> CommonSafeSet(scenario.initiator, scenario.responder),
          category |-> ClassifyConflict(result.ius), constraints |-> result.ius,
          original |-> result.original, coreSize |-> result.coreSize,
          calls |-> result.calls])

(* A reveal: the proposal of one side for a session, and its nonce.        *)
Reveal(session, role, safe) ==
    [proposal |-> [session |-> session, role |-> role, safe |-> safe],
     nonce |-> <<session, role>>]
Commitment(reveal) == Hash("commitment", reveal)
ProposalHash(reveal) == Hash("proposal", reveal.proposal)

FailureTranscript(session, mine, theirs, common, certificateHash) ==
    Seal("transcript",
         [session |-> session, initiatorReveal |-> mine, responderReveal |-> theirs,
          initiatorCommitment |-> Commitment(mine), responderCommitment |-> Commitment(theirs),
          initiatorProposal |-> ProposalHash(mine), responderProposal |-> ProposalHash(theirs),
          common |-> common, certificate |-> certificateHash, abort |-> None])

AttachAbortHash(transcript, abortHash) ==
    Seal("transcript", [transcript.payload EXCEPT !.abort = abortHash])

SafeAbort(certificate, transcript) ==
    Seal("abort",
         [id |-> AbortId(certificate.payload.session, certificate.hash),
          session |-> certificate.payload.session, scenario |-> certificate.payload.scenario,
          certificate |-> certificate.hash, transcript |-> transcript.hash,
          reason |-> certificate.payload.category, selected |-> None,
          contract |-> FALSE, fallback |-> FALSE])

(* _build_abort_chain: the transcript names the abort record made before   *)
(* the hash was attached; the record that is kept names the transcript     *)
(* after it.                                                               *)
AbortChain(scenario, certificate) ==
    LET mine == Reveal(scenario.session, "initiator", scenario.initiator)
        theirs == Reveal(scenario.session, "responder", scenario.responder)
        first == FailureTranscript(scenario.session, mine, theirs,
                                   certificate.payload.common, certificate.hash)
        transcript == AttachAbortHash(first, SafeAbort(certificate, first).hash) IN
    [certificate |-> certificate, transcript |-> transcript,
     abort |-> SafeAbort(certificate, transcript)]

(* build_remediation_report: a negotiable constraint of a category that    *)
(* may be relaxed is tried without; a profile the solver did not answer    *)
(* for is not listed.                                                      *)
Remediation(certificate, unanswered) ==
    LET ius == certificate.payload.constraints
        testable == {k \in ius : k.negotiable /\ k.category \notin NonRelaxable}
        without(k) == SatisfiableProfiles(Remainder(ius, k)) \ unanswered IN
    [certificate |-> certificate.payload.id,
     profiles |-> [k \in ius |-> IF k \in testable THEN without(k) ELSE {}],
     sufficient |-> {k \in testable : without(k) # {}}]

----------------------------------------------------------------------------
(* The verifiers.  Each returns the codes of the errors it found; open is  *)
(* the set of questions the solver left unanswered, "model" or "ius".      *)

VerifyIus(all, ius, open) ==
    /\ ius \subseteq all
    /\ "ius" \notin open
    /\ Unsat(ius)
    /\ \A k \in ius : ~Unsat(Remainder(ius, k))

Codes(faults) == {f[2] : f \in {g \in faults : g[1]}}

VerifyCertificate(certificate, all, open) ==
    LET p == certificate.payload IN
    Codes({<<"model" \in open \/ ~Unsat(all), "MODEL_NOT_UNSAT">>,
           <<~VerifyIus(all, p.constraints, open), "IUS_INVALID">>,
           <<p.category # ClassifyConflict(p.constraints), "CATEGORY_MISMATCH">>,
           <<p.id # CertificateId(p.session, p.constraints), "CERTIFICATE_ID_MISMATCH">>,
           <<~Intact("certificate", certificate), "CERTIFICATE_HASH_MISMATCH">>})

(* Mutant: the common safe set of the transcript is believed.              *)
VerifyTranscriptBelieving(transcript, certificate) ==
    LET p == transcript.payload IN
    Codes({<<p.initiatorCommitment # Commitment(p.initiatorReveal)
             \/ p.responderCommitment # Commitment(p.responderReveal), "COMMITMENT_MISMATCH">>,
           <<p.certificate # certificate.hash, "CERTIFICATE_HASH_MISMATCH">>,
           <<p.session # certificate.payload.session, "SESSION_MISMATCH">>,
           <<~Intact("transcript", transcript), "TRANSCRIPT_HASH_MISMATCH">>})

VerifyTranscript(transcript, certificate) ==
    LET p == transcript.payload IN
    Codes({<<p.initiatorCommitment # Commitment(p.initiatorReveal)
             \/ p.responderCommitment # Commitment(p.responderReveal), "COMMITMENT_MISMATCH">>,
           <<p.initiatorProposal # ProposalHash(p.initiatorReveal)
             \/ p.responderProposal # ProposalHash(p.responderReveal), "PROPOSAL_HASH_MISMATCH">>,
           <<p.certificate # certificate.hash, "CERTIFICATE_HASH_MISMATCH">>,
           <<p.session # certificate.payload.session, "SESSION_MISMATCH">>,
           <<p.common # certificate.payload.common, "COMMON_SAFE_SET_MISMATCH">>,
           <<~Intact("transcript", transcript), "TRANSCRIPT_HASH_MISMATCH">>})

VerifyAbort(abort, certificate, transcript) ==
    LET p == abort.payload IN
    Codes({<<p.selected # None, "SELECTED_PROFILE_AFTER_ABORT">>,
           <<p.contract, "CONTRACT_AFTER_ABORT">>,
           <<p.fallback, "FALLBACK_AFTER_ABORT">>,
           <<p.session # certificate.payload.session, "SESSION_MISMATCH">>,
           <<p.certificate # certificate.hash, "CERTIFICATE_HASH_MISMATCH">>,
           <<p.transcript # transcript.hash, "TRANSCRIPT_HASH_MISMATCH">>,
           <<p.id # AbortId(certificate.payload.session, certificate.hash), "ABORT_ID_MISMATCH">>,
           <<~Intact("abort", abort), "ABORT_HASH_MISMATCH">>})
=============================================================================
