---------------------------- MODULE CommitReveal ----------------------------
(***************************************************************************)
(* CommitRevealSession objects (protocol/commitment.py) that share one     *)
(* replay registry, as the stage scripts and tests use them, and the       *)
(* verification of the transcripts built from them (protocol/transcript.py)*)
(*                                                                         *)
(* Any party may call any operation with any argument in any order: a      *)
(* commitment under the wrong role, a reveal of another session, a         *)
(* proposal that has expired, a session ID a second time, a transcript of  *)
(* any two reveals or one that was altered.  Building and verifying        *)
(* transcripts consults no session; only the drivers see to it that the    *)
(* reveals are those a session has accepted.  A call the code rejects      *)
(* before it changes anything is not a step.                               *)
(*                                                                         *)
(* SHA-256 is taken to be injective: a hash is a record of what was hashed *)
(* with the domain string it was hashed under.                             *)
(***************************************************************************)
EXTENDS ReplayRegistry, FiniteSets

CONSTANTS
    SessionIds, Agents, Bindings,
    Reveals,      \* the reveals the parties may send
    Altered,      \* transcripts that build_transcript did not make
    MaxTime,      \* bound on the times callers supply
    MaxVerified   \* bound on the transcripts that are verified

Roles == {"initiator", "responder"}
Times == 0..MaxTime

(* A reveal is a proposal and a nonce.  "binding" stands for the four      *)
(* hashes both proposals must agree on (scenario, task, catalog, cost      *)
(* evidence); "nonce" for everything else a commitment covers.             *)
RevealRecords ==
    [session : SessionIds, role : Roles, agent : Agents, binding : Bindings,
     evaluation : Times, expires : Times, nonce : Nat]

(* create_commitment: the hash of the proposal and the nonce.              *)
create_commitment(r) == [domain |-> "PQTrust.Commitment.v1", of |-> r]
CommitmentHashes == {create_commitment(r) : r \in Reveals}

Transcripts ==
    [session : SessionIds, initiator : Reveals, responder : Reveals,
     initiator_commitment : CommitmentHashes,
     responder_commitment : CommitmentHashes, created : Times]

ASSUME RevealsAssumption ==
    /\ MaxTime \in Nat /\ MaxVerified \in Nat
    /\ Reveals \subseteq RevealRecords
    /\ \A r \in Reveals : r.evaluation < r.expires
    /\ Altered \subseteq Transcripts

VARIABLES
    reg,          \* the shared registry
    activation,   \* session ID -> activation time, for the sessions created
    commitments,  \* session ID -> (role -> commitment)
    reveals,      \* session ID -> (role -> accepted reveal)
    rejected,     \* sessions whose _validate_pair has raised
    verified      \* transcripts that verify_transcript has accepted

vars == <<reg, activation, commitments, reveals, rejected, verified>>

(* compute_transcript_hash covers the creation time as well, so the same   *)
(* pair of reveals has as many hashes as it has creation times.            *)
compute_transcript_hash(x) ==
    [domain |-> "PQTrust.NegotiationTranscript.v1", of |-> x]

(* Sessions exist with the tables of their kind; a rejected pair belongs   *)
(* to a session that exists.                                               *)
TypeOK ==
    /\ reg.sessions \subseteq SessionIds
    /\ reg.commitments \in Dicts(CommitmentHashes, SessionIds)
    /\ activation \in Dicts(SessionIds, Times)
    /\ commitments \in [SessionIds -> Dicts(Roles, CommitmentHashes)]
    /\ reveals \in [SessionIds -> Dicts(Roles, Reveals)]
    /\ rejected \subseteq DOMAIN activation
    /\ verified \subseteq Transcripts

(* The two dicts of a session object that is new, or not there.            *)
NoneYet == [r \in {} |-> r]

Init ==
    /\ reg = EmptyRegistry
    /\ activation = [s \in {} |-> s]
    /\ commitments = [s \in SessionIds |-> NoneYet]
    /\ reveals = [s \in SessionIds |-> NoneYet]
    /\ rejected = {}
    /\ verified = {}

(* Mutant: the registry's rejection of the session ID is ignored.          *)
NewSessionAnyway(s, t) ==
    /\ reg' = RegisterSession(reg, s, t).reg
    /\ activation' = Put(activation, s, t)
    /\ commitments' = [commitments EXCEPT ![s] = NoneYet]
    /\ reveals' = [reveals EXCEPT ![s] = NoneYet]
    /\ rejected' = rejected \ {s}
    /\ UNCHANGED verified

(* CommitRevealSession(...): an object with empty dicts, or none when the  *)
(* registry raises.                                                        *)
NewSession(s, t) ==
    LET result == RegisterSession(reg, s, t) IN
    /\ reg' = result.reg
    /\ IF result.ok
       THEN /\ activation' = Put(activation, s, t)
            /\ commitments' = [commitments EXCEPT ![s] = NoneYet]
            /\ reveals' = [reveals EXCEPT ![s] = NoneYet]
            /\ rejected' = rejected \ {s}
       ELSE UNCHANGED <<activation, commitments, reveals, rejected>>
    /\ UNCHANGED verified

(* Mutant: the session does not look whether the role has committed.       *)
RegisterSessionCommitmentAgain(s, role, c) ==
    LET result == RegisterCommitment(reg, s, c, activation[s]) IN
    /\ s \in DOMAIN activation
    /\ reg' = result.reg
    /\ commitments' = IF result.ok
                      THEN [commitments EXCEPT ![s] = Put(@, role, c)]
                      ELSE commitments
    /\ UNCHANGED <<activation, reveals, rejected, verified>>

(* Mutant: the registry's rejection is ignored.                            *)
RegisterSessionCommitmentUnchecked(s, role, c) ==
    /\ s \in DOMAIN activation
    /\ role \notin DOMAIN commitments[s]
    /\ reg' = RegisterCommitment(reg, s, c, activation[s]).reg
    /\ commitments' = [commitments EXCEPT ![s] = Put(@, role, c)]
    /\ UNCHANGED <<activation, reveals, rejected, verified>>

(* register_commitment: the registry is told the session's activation      *)
(* time, however long ago that was.                                        *)
RegisterSessionCommitment(s, role, c) ==
    LET result == RegisterCommitment(reg, s, c, activation[s]) IN
    /\ s \in DOMAIN activation
    /\ role \notin DOMAIN commitments[s]
    /\ reg' = result.reg
    /\ commitments' = IF result.ok
                      THEN [commitments EXCEPT ![s] = Put(@, role, c)]
                      ELSE commitments
    /\ UNCHANGED <<activation, reveals, rejected, verified>>

(* require_proposal_active *)
ProposalActive(r, t) == ActiveAt([issued |-> r.evaluation, expires |-> r.expires], t)

(* _validate_pair.  The two roles differ already: each reveal is filed     *)
(* under the role of its own proposal.                                     *)
ValidPair(i, p) ==
    /\ i.agent # p.agent
    /\ i.session = p.session
    /\ i.binding = p.binding

(* accept_reveal: a reveal that passes its own checks is stored before the *)
(* pair is validated, and stays stored when that raises.                   *)
AcceptReveal(s, r, t) ==
    LET accepted == Put(reveals[s], r.role, r) IN
    /\ DOMAIN commitments[s] = Roles
    /\ r.role \notin DOMAIN reveals[s]
    /\ r.session = s
    /\ commitments[s][r.role] = create_commitment(r)
    /\ ProposalActive(r, t)
    /\ reveals' = [reveals EXCEPT ![s] = accepted]
    /\ rejected' = IF DOMAIN accepted = Roles
                      /\ ~ValidPair(accepted["initiator"], accepted["responder"])
                   THEN rejected \cup {s} ELSE rejected
    /\ UNCHANGED <<reg, activation, commitments, verified>>

(* build_transcript takes any two reveals.                                 *)
build_transcript(i, p, created) ==
    [session |-> i.session, initiator |-> i, responder |-> p,
     initiator_commitment |-> create_commitment(i),
     responder_commitment |-> create_commitment(p),
     created |-> created]

(* Mutant: the commitments are not computed again.                         *)
TranscriptValidUnopened(x, t) ==
    /\ ProposalActive(x.initiator, t)
    /\ ProposalActive(x.responder, t)
    /\ x.initiator.session = x.responder.session
    /\ x.initiator.session = x.session
    /\ x.initiator.role = "initiator"
    /\ x.responder.role = "responder"
    /\ x.initiator.binding = x.responder.binding

(* The checks of verify_transcript up to those on the selection.  Two      *)
(* proposals with one hash and different agents, which it also refuses, do *)
(* not exist; one agent on both sides is not looked for.                   *)
TranscriptValid(x, t) ==
    /\ x.initiator_commitment = create_commitment(x.initiator)
    /\ x.responder_commitment = create_commitment(x.responder)
    /\ ProposalActive(x.initiator, t)
    /\ ProposalActive(x.responder, t)
    /\ x.initiator.session = x.responder.session
    /\ x.initiator.session = x.session
    /\ x.initiator.role = "initiator"
    /\ x.responder.role = "responder"
    /\ x.initiator.binding = x.responder.binding

VerifyTranscript(x, t) ==
    LET result == RegisterTranscript(reg, compute_transcript_hash(x), t) IN
    /\ Cardinality(verified) < MaxVerified
    /\ TranscriptValid(x, t)
    /\ reg' = result.reg
    /\ verified' = IF result.ok THEN verified \cup {x} ELSE verified
    /\ UNCHANGED <<activation, commitments, reveals, rejected>>

Next ==
    \/ \E s \in SessionIds :
           \/ \E t \in Times : NewSession(s, t)
           \/ \E role \in Roles, c \in CommitmentHashes :
                  RegisterSessionCommitment(s, role, c)
           \/ \E r \in Reveals, t \in Times : AcceptReveal(s, r, t)
    \/ \E i, p \in Reveals, created, t \in Times :
           VerifyTranscript(build_transcript(i, p, created), t)
    \/ \E x \in Altered, t \in Times : VerifyTranscript(x, t)

Spec == Init /\ [][Next]_vars

-----------------------------------------------------------------------------

(* A commitment is held once: not by two sessions, not by both roles of    *)
(* one.  A party cannot answer with a copy of its peer's commitment.       *)
CommitmentHeldOnce ==
    \A s, u \in SessionIds :
        \A p \in DOMAIN commitments[s], q \in DOMAIN commitments[u] :
            commitments[s][p] = commitments[u][q] => s = u /\ p = q

(* Both parties are bound before either reveals anything: once a session   *)
(* has accepted a reveal, its two commitments never change again.          *)
BoundBeforeReveal ==
    [][\A s \in SessionIds : reveals[s] # NoneYet =>
          /\ DOMAIN commitments[s] = Roles
          /\ commitments'[s] = commitments[s]]_vars

(* verify_transcript knows no session, but the commitments tie a           *)
(* transcript to one: if it verifies and carries the two commitments that  *)
(* its session holds, and the session has accepted both reveals without an *)
(* error, then it is about those very reveals, by two agents that agree on *)
(* what is negotiated.                                                     *)
TranscriptsMatchSessions ==
    \A x \in verified :
        LET s == x.session
            held == [p \in Roles |-> IF p = "initiator" THEN x.initiator_commitment
                                                      ELSE x.responder_commitment]
        IN  /\ commitments[s] = held
            /\ DOMAIN reveals[s] = Roles
            /\ s \notin rejected
            => /\ reveals[s]["initiator"] = x.initiator
               /\ reveals[s]["responder"] = x.responder
               /\ ValidPair(x.initiator, x.responder)

(* What a session ID has come to is final.  Once both reveals are stored   *)
(* the pair is rejected exactly if it does not match, and no later call,   *)
(* another CommitRevealSession of that ID included, changes the reveals,   *)
(* the commitments or the decision: accept_reveal stores the second reveal *)
(* before _validate_pair raises, so a rejected ID is spent.                *)
DecisionIsFinal ==
    [][\A s \in SessionIds : DOMAIN reveals[s] = Roles =>
          /\ (s \in rejected) <=> ~ValidPair(reveals[s]["initiator"],
                                             reveals[s]["responder"])
          /\ commitments'[s] = commitments[s]
          /\ reveals'[s] = reveals[s]
          /\ (s \in rejected') <=> (s \in rejected)]_vars

=============================================================================
