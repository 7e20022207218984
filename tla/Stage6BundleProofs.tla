------------------------- MODULE Stage6BundleProofs -------------------------
(***************************************************************************)
(* What a published bundle says, and how one bundle replaces another.      *)
(*                                                                         *)
(* Stage6Bundle first.  Its properties are about what validate_stage6 made *)
(* much earlier: a core is shrunk one solver question at a time, answers   *)
(* may be missing, and the abort component computes all certificates       *)
(* again.  SearchInv says what compute_ius has established so far,         *)
(* CertificateInv and ChainInv what each finished certificate and chain    *)
(* carries on, and PublishedInv that publication passed the report.  The   *)
(* same facts decide the table of adversarial cases: what makes an         *)
(* alteration show is that the conflict was minimal, the session and the   *)
(* commitment the scenario's own, and the hashes taken over the payloads.  *)
(*                                                                         *)
(* Then DirectorySwap, for every set of variants, every set of faults and  *)
(* any number of attempts.  Neither of its properties is inductive either: *)
(* whether a handler may put a backup back depends on how old it is, and a *)
(* backup left behind by a kill can be met two attempts later.  StepFacts  *)
(* says what each step finds on disk, BackupIsCurrent that a backup which  *)
(* stands in for a missing bundle or report is the version published last. *)
(***************************************************************************)
EXTENDS Stage6Bundle, DirectorySwap, FiniteSetTheorems, TLAPS

(* A sequence of anything.                                                 *)
IsSeq(s) == s \in Seq({s[i] : i \in DOMAIN s})

Searches(scenario) ==
    [at : Nat, remaining : SUBSET ConstraintsFor(scenario), coreSize : Nat, calls : Nat]

TypeInv ==
    /\ registry \in Registries
    /\ phase \in Running \cup {"published", "failed"}
    /\ at \in 1..Len(registry)
    /\ unknowns \in Nat
    /\ search # Idle => /\ search \in Searches(Scenario) /\ search.at # 0
                        /\ phase \in {"certificates", "aborts"}
    /\ IsSeq(conflict.certificates) /\ IsSeq(conflict.codes)
    /\ IsSeq(aborts.chains)
    /\ aborts = [chains |-> aborts.chains, passed |-> aborts.passed]

(* How far the two components are.                                         *)
ProgressInv ==
    /\ Len(conflict.codes) = Len(conflict.certificates)
    /\ phase = "certificates" =>
          Len(conflict.certificates) = at - 1 /\ Len(aborts.chains) = 0
    /\ phase = "aborts" =>
          Len(conflict.certificates) = Len(registry) /\ Len(aborts.chains) = at - 1
    /\ phase \in {"records", "bundle", "published"} =>
          Len(conflict.certificates) = Len(registry) /\ Len(aborts.chains) = Len(registry)

(* What compute_ius has left is unsatisfiable, and unless an answer was    *)
(* missing, each constraint it has passed since the last one it dropped is *)
(* needed.                                                                 *)
Needed(ius, n) ==
    \A j \in 1..n : j <= Cardinality(ius) => ~Unsat(Remainder(ius, ById(ius)[j]))

SearchInv ==
    search # Idle => /\ Unsat(search.remaining)
                     /\ unknowns = 0 => Needed(search.remaining, search.at - 1)

(* A certificate carries its own hash, its scenario's session and the      *)
(* common part of its safe sets, and is minimal when all questions were    *)
(* answered or its verifier found no fault.                                *)
CertificateFact(certificate, codes, scenario, n) ==
    /\ Intact("certificate", certificate)
    /\ certificate.payload.session = scenario.session
    /\ certificate.payload.common = CommonSafeSet(scenario.initiator, scenario.responder)
    /\ {"constraints", "category"} \subseteq DOMAIN certificate.payload
    /\ n = 0 \/ codes = {} => Minimal(scenario, certificate.payload.constraints)

CertificateInv ==
    \A i \in 1..Len(conflict.certificates) :
        CertificateFact(conflict.certificates[i], conflict.codes[i], registry[i], unknowns)

(* An abort record names, by its hash, the certificate that the abort      *)
(* component made itself, and gives its category as the reason.  The       *)
(* transcript commits the initiator to its whole safe set and names an     *)
(* abort record.                                                           *)
ChainFact(chain, scenario) ==
    /\ chain.abort.payload.certificate = Hash("certificate", chain.certificate.payload)
    /\ chain.abort.payload.reason = chain.certificate.payload.category
    /\ {"selected", "contract", "fallback"} \subseteq DOMAIN chain.abort.payload
    /\ {"session", "initiatorReveal", "initiatorCommitment", "common", "abort"}
           \subseteq DOMAIN chain.transcript.payload
    /\ chain.transcript.payload.initiatorCommitment
           = Commitment(Reveal(scenario.session, "initiator", scenario.initiator))
    /\ chain.transcript.payload.abort[1] = "abort"

ChainInv == \A i \in 1..Len(aborts.chains) : ChainFact(aborts.chains[i], registry[i])

(* What was published passed its report, and nothing happens after that.   *)
PublishedInv ==
    published # None => /\ phase = "published"
                        /\ published = Bundle
                        /\ BundleReportPasses

BundleInv ==
    TypeInv /\ ProgressInv /\ SearchInv /\ CertificateInv /\ ChainInv /\ PublishedInv

-----------------------------------------------------------------------------

(* What a component writes is appended; nothing before it changes.         *)
LEMMA AppendFacts ==
    ASSUME NEW s, NEW e, IsSeq(s)
    PROVE  /\ IsSeq(Append(s, e))
           /\ Len(s) \in Nat /\ Len(Append(s, e)) = Len(s) + 1
           /\ \A i \in 1..Len(s) : Append(s, e)[i] = s[i]
           /\ Append(s, e)[Len(s) + 1] = e
<1> DEFINE S == {s[i] : i \in DOMAIN s} \cup {e}
           t == Append(s, e)
<1>1. s \in Seq(S)
    BY DEF IsSeq
<1>2. t \in Seq(S) /\ Len(s) \in Nat /\ Len(t) = Len(s) + 1
      /\ (\A i \in 1..Len(s) : t[i] = s[i]) /\ t[Len(s) + 1] = e
    BY <1>1
<1>3. t \in Seq({t[i] : i \in DOMAIN t})
    BY <1>2
<1>4. QED
    BY <1>2, <1>3 DEF IsSeq

(* A registered scenario has finitely many constraints, and going through  *)
(* them in the order of their IDs meets each one.                          *)
LEMMA RegistryFacts ==
    ASSUME NEW r \in Registries
    PROVE  /\ IsSeq(r) /\ Len(r) \in Nat \ {0} /\ DOMAIN r = 1..Len(r)
           /\ \A i \in 1..Len(r) : IsFiniteSet(ConstraintsFor(r[i]))
<1>1. IsSeq(r) /\ Len(r) \in Nat \ {0} /\ DOMAIN r = 1..Len(r)
    BY BundleAssumption DEF IsSeq
<1>2. ASSUME NEW i \in 1..Len(r) PROVE IsFiniteSet(ConstraintsFor(r[i]))
    <2>1. IsFiniteSet(r[i].extra)
        BY <1>1, BundleAssumption
    <2> DEFINE a == NamedConstraint("initiator", "profile_support", r[i].initiator,
                                    r[i].policies[1])
               b == NamedConstraint("responder", "profile_support", r[i].responder,
                                    r[i].policies[2])
    <2>2. IsFiniteSet({a}) /\ IsFiniteSet({b})
        BY FS_Singleton
    <2> HIDE DEF a, b
    <2>3. IsFiniteSet(({a} \cup {b}) \cup r[i].extra)
        BY <2>1, <2>2, FS_Union
    <2>4. {a, b} \cup r[i].extra = ({a} \cup {b}) \cup r[i].extra
        OBVIOUS
    <2>5. QED
        BY <2>3, <2>4 DEF ConstraintsFor, a, b
<1>3. QED
    BY <1>1, <1>2

(* A verifier that reports nothing found none of its faults.               *)
LEMMA NoCodes ==
    ASSUME NEW S, Codes(S) = {}, NEW b, NEW c, <<b, c>> \in S
    PROVE  ~b
<1> SUFFICES ASSUME b PROVE FALSE
    OBVIOUS
<1>1. <<b, c>> \in {g \in S : g[1]}
    OBVIOUS
<1>2. c \in Codes(S)
    BY <1>1 DEF Codes
<1>3. QED
    BY <1>2

(* build_certificate: the artifact carries its own hash, its session and   *)
(* the conflict that was found.                                            *)
LEMMA CertificateIsSealed ==
    ASSUME NEW scenario, NEW result
    PROVE  LET c == Certificate(scenario, result) IN
           /\ Intact("certificate", c)
           /\ c.payload.session = scenario.session
           /\ c.payload.constraints = result.ius
           /\ c.payload.common = CommonSafeSet(scenario.initiator, scenario.responder)
           /\ {"constraints", "category"} \subseteq DOMAIN c.payload
    BY DEF Certificate, Seal, Intact

(* build_safe_abort names the certificate it was given by its hash and     *)
(* takes the reason from it.                                               *)
LEMMA AbortNamesItsCertificate ==
    ASSUME NEW scenario, NEW c, Intact("certificate", c)
    PROVE  ChainFact(AbortChain(scenario, c), scenario)
<1> DEFINE mine == Reveal(scenario.session, "initiator", scenario.initiator)
           theirs == Reveal(scenario.session, "responder", scenario.responder)
           first == FailureTranscript(scenario.session, mine, theirs, c.payload.common, c.hash)
           t == AttachAbortHash(first, SafeAbort(c, first).hash)
<1>1. AbortChain(scenario, c) = [certificate |-> c, transcript |-> t, abort |-> SafeAbort(c, t)]
    BY DEF AbortChain
<1>2. /\ SafeAbort(c, t).payload.certificate = c.hash
      /\ SafeAbort(c, t).payload.reason = c.payload.category
      /\ {"selected", "contract", "fallback"} \subseteq DOMAIN SafeAbort(c, t).payload
    BY DEF SafeAbort, Seal
<1>3. /\ {"session", "initiatorReveal", "initiatorCommitment", "common", "abort"}
             \subseteq DOMAIN first.payload
      /\ first.payload.initiatorCommitment = Commitment(mine)
      /\ first.payload = [x \in DOMAIN first.payload |-> first.payload[x]]
    BY DEF FailureTranscript, Seal
<1>4. SafeAbort(c, first).hash[1] = "abort"
    BY DEF SafeAbort, Seal, Hash
<1>5. t.payload = [first.payload EXCEPT !.abort = SafeAbort(c, first).hash]
    BY DEF AttachAbortHash, Seal
<1> HIDE DEF first, t, mine
<1>6. /\ DOMAIN t.payload = DOMAIN first.payload
      /\ t.payload.initiatorCommitment = Commitment(mine)
      /\ t.payload.abort[1] = "abort"
    BY <1>3, <1>4, <1>5
<1>7. QED
    BY <1>1, <1>2, <1>3, <1>6 DEF ChainFact, Intact, mine

(* verify_conflict_certificate reports nothing only for a minimal conflict *)
(* of the registered constraints.                                          *)
LEMMA CleanCertificateIsMinimal ==
    ASSUME NEW scenario, NEW c, NEW open,
           VerifyCertificate(c, ConstraintsFor(scenario), open) = {}
    PROVE  Minimal(scenario, c.payload.constraints)
<1> DEFINE p == c.payload
           all == ConstraintsFor(scenario)
           faults == {<<"model" \in open \/ ~Unsat(all), "MODEL_NOT_UNSAT">>,
                <<~VerifyIus(all, p.constraints, open), "IUS_INVALID">>,
                <<p.category # ClassifyConflict(p.constraints), "CATEGORY_MISMATCH">>,
                <<p.id # CertificateId(p.session, p.constraints), "CERTIFICATE_ID_MISMATCH">>,
                <<~Intact("certificate", c), "CERTIFICATE_HASH_MISMATCH">>}
<1>1. Codes(faults) = {}
    BY Zenon DEF VerifyCertificate
<1>2. <<~VerifyIus(all, p.constraints, open), "IUS_INVALID">> \in faults
    BY Zenon
<1> HIDE DEF faults
<1>3. VerifyIus(all, p.constraints, open)
    BY <1>1, <1>2, NoCodes, Zenon
<1>4. QED
    BY <1>3 DEF VerifyIus, Minimal

(* What verify_failure_transcript has compared when it reports nothing.    *)
LEMMA CleanTranscript ==
    ASSUME NEW t, NEW c, VerifyTranscript(t, c) = {}
    PROVE  /\ t.payload.certificate = c.hash
           /\ t.payload.session = c.payload.session
           /\ Intact("transcript", t)
<1> DEFINE p == t.payload
           faults ==
               {<<p.initiatorCommitment # Commitment(p.initiatorReveal)
                  \/ p.responderCommitment # Commitment(p.responderReveal), "COMMITMENT_MISMATCH">>,
                <<p.initiatorProposal # ProposalHash(p.initiatorReveal)
                  \/ p.responderProposal # ProposalHash(p.responderReveal),
                  "PROPOSAL_HASH_MISMATCH">>,
                <<p.certificate # c.hash, "CERTIFICATE_HASH_MISMATCH">>,
                <<p.session # c.payload.session, "SESSION_MISMATCH">>,
                <<p.common # c.payload.common, "COMMON_SAFE_SET_MISMATCH">>,
                <<~Intact("transcript", t), "TRANSCRIPT_HASH_MISMATCH">>}
<1>1. Codes(faults) = {}
    BY Zenon DEF VerifyTranscript
<1>2. /\ <<p.certificate # c.hash, "CERTIFICATE_HASH_MISMATCH">> \in faults
      /\ <<p.session # c.payload.session, "SESSION_MISMATCH">> \in faults
      /\ <<~Intact("transcript", t), "TRANSCRIPT_HASH_MISMATCH">> \in faults
    BY Zenon
<1> HIDE DEF faults
<1>3. p.certificate = c.hash
    BY <1>1, <1>2, NoCodes, Zenon
<1>4. p.session = c.payload.session
    BY <1>1, <1>2, NoCodes, Zenon
<1>5. Intact("transcript", t)
    BY <1>1, <1>2, NoCodes, Zenon
<1>6. QED
    BY <1>3, <1>4, <1>5

(* What verify_safe_abort has compared when it reports nothing.            *)
LEMMA CleanAbort ==
    ASSUME NEW a, NEW c, NEW t, VerifyAbort(a, c, t) = {}
    PROVE  /\ a.payload.selected = None /\ ~a.payload.contract /\ ~a.payload.fallback
           /\ a.payload.session = c.payload.session
           /\ a.payload.certificate = c.hash
           /\ a.payload.transcript = t.hash
<1> DEFINE p == a.payload
           faults ==
               {<<p.selected # None, "SELECTED_PROFILE_AFTER_ABORT">>,
                <<p.contract, "CONTRACT_AFTER_ABORT">>,
                <<p.fallback, "FALLBACK_AFTER_ABORT">>,
                <<p.session # c.payload.session, "SESSION_MISMATCH">>,
                <<p.certificate # c.hash, "CERTIFICATE_HASH_MISMATCH">>,
                <<p.transcript # t.hash, "TRANSCRIPT_HASH_MISMATCH">>,
                <<p.id # AbortId(c.payload.session, c.hash), "ABORT_ID_MISMATCH">>,
                <<~Intact("abort", a), "ABORT_HASH_MISMATCH">>}
<1>1. Codes(faults) = {}
    BY Zenon DEF VerifyAbort
<1>2. /\ <<p.selected # None, "SELECTED_PROFILE_AFTER_ABORT">> \in faults
      /\ <<p.contract, "CONTRACT_AFTER_ABORT">> \in faults
      /\ <<p.fallback, "FALLBACK_AFTER_ABORT">> \in faults
      /\ <<p.session # c.payload.session, "SESSION_MISMATCH">> \in faults
      /\ <<p.certificate # c.hash, "CERTIFICATE_HASH_MISMATCH">> \in faults
      /\ <<p.transcript # t.hash, "TRANSCRIPT_HASH_MISMATCH">> \in faults
    BY Zenon
<1> HIDE DEF faults
<1>3. p.selected = None
    BY <1>1, <1>2, NoCodes, Zenon
<1>4. ~p.contract /\ ~p.fallback
    BY <1>1, <1>2, NoCodes, Zenon
<1>5. p.session = c.payload.session
    BY <1>1, <1>2, NoCodes, Zenon
<1>6. p.certificate = c.hash
    BY <1>1, <1>2, NoCodes, Zenon
<1>7. p.transcript = t.hash
    BY <1>1, <1>2, NoCodes, Zenon
<1>8. QED
    BY <1>3, <1>4, <1>5, <1>6, <1>7

-----------------------------------------------------------------------------
(* The induction: one lemma for each action.                               *)

(* Answers are right or missing, and a missing one is counted.             *)
LEMMA AnswerFacts ==
    ASSUME TypeInv, NEW S, NEW answer \in Answers(S), Count(answer = "unknown")
    PROVE  /\ unknowns' \in Nat /\ (unknowns' = 0 => unknowns = 0 /\ answer # "unknown")
           /\ answer = "unsat" => Unsat(S)
           /\ answer # "unsat" /\ answer # "unknown" => ~Unsat(S)
    BY DEF TypeInv, Answers, Count

(* What was certified and what was built stays when neither component      *)
(* writes.                                                                 *)
LEMMA ArtifactsStay ==
    ASSUME CertificateInv, ChainInv, UNCHANGED <<registry, conflict, aborts>>,
           unknowns' = 0 => unknowns = 0
    PROVE  CertificateInv' /\ ChainInv'
    BY DEF CertificateInv, CertificateFact, ChainInv

(* While a component is at work nothing has been published.                *)
LEMMA NothingPublished ==
    ASSUME PublishedInv, phase # "published", UNCHANGED published
    PROVE  published = None /\ PublishedInv'
    BY DEF PublishedInv

(* No search is under way and nothing has been written.                    *)
LEMMA InitBundle == Init => BundleInv
<1> SUFFICES ASSUME Init PROVE BundleInv
    OBVIOUS
<1>1. registry \in Registries /\ Len(registry) \in Nat \ {0}
    BY RegistryFacts DEF Init
<1>2. IsSeq(<<>>) /\ Len(<<>>) = 0
    BY DEF IsSeq
<1>3. TypeInv
    BY <1>1, <1>2 DEF Init, TypeInv, Running
<1>4. ProgressInv /\ SearchInv /\ CertificateInv /\ ChainInv /\ PublishedInv
    BY <1>2 DEF Init, ProgressInv, SearchInv, CertificateInv, ChainInv, PublishedInv
<1>5. QED
    BY <1>3, <1>4 DEF BundleInv

(* The first question: the core that the solver names is unsatisfiable.    *)
LEMMA SolveBundle == ASSUME BundleInv, Solve PROVE BundleInv'
<1> USE DEF BundleInv
<1>1. PICK answer \in Answers(ConstraintsFor(Scenario)) :
        /\ Count(answer = "unknown")
        /\ IF answer = "unsat"
           THEN /\ \E core \in SUBSET ConstraintsFor(Scenario) :
                    /\ Unsat(core)
                    /\ search' = [at |-> 1, remaining |-> core, coreSize |-> Cardinality(core),
                                  calls |-> 1]
                /\ phase' = phase
           ELSE Raise
    BY DEF Solve
<1>2. /\ phase \in {"certificates", "aborts"}
      /\ UNCHANGED <<registry, contracts, at, conflict, aborts, published>>
      /\ Scenario' = Scenario
    BY DEF Solve, Scenario
<1>3. unknowns' \in Nat /\ (unknowns' = 0 => unknowns = 0)
    BY <1>1, AnswerFacts
<1>4. CertificateInv' /\ ChainInv' /\ PublishedInv'
    BY <1>2, <1>3, ArtifactsStay, NothingPublished
<1>5. CASE answer = "unsat"
    <2>1. PICK core \in SUBSET ConstraintsFor(Scenario) :
            /\ Unsat(core)
            /\ search' = [at |-> 1, remaining |-> core, coreSize |-> Cardinality(core),
                          calls |-> 1]
        BY <1>1, <1>5
    <2>2. Cardinality(core) \in Nat
        BY RegistryFacts, FS_Subset, FS_CardinalityType DEF TypeInv, Scenario
    <2>3. search' \in Searches(Scenario)
        BY <2>1, <2>2 DEF Searches
    <2>4. TypeInv'
        BY <1>1, <1>2, <1>3, <1>5, <2>3 DEF TypeInv
    <2>5. SearchInv'
        BY <2>1 DEF SearchInv, Needed
    <2>6. ProgressInv'
        BY <1>1, <1>2, <1>5 DEF ProgressInv
    <2>7. QED
        BY <1>4, <2>4, <2>5, <2>6
<1>6. CASE answer # "unsat"
    <2>1. phase' = "failed" /\ search' = Idle
        BY <1>1, <1>6 DEF Raise
    <2>2. TypeInv'
        BY <1>2, <1>3, <2>1 DEF TypeInv
    <2>3. SearchInv' /\ ProgressInv'
        BY <1>2, <2>1 DEF SearchInv, ProgressInv
    <2>4. QED
        BY <1>4, <2>2, <2>3
<1>7. QED
    BY <1>5, <1>6

(* One question of the loop. A constraint is dropped when the rest is      *)
(* unsatisfiable, and the loop starts again; it is passed when the rest is *)
(* satisfiable, or when no answer came, which is counted.                  *)
LEMMA ShrinkBundle == ASSUME BundleInv, Shrink PROVE BundleInv'
<1> USE DEF BundleInv
<1> DEFINE k == ById(search.remaining)[search.at]
<1>1. PICK answer \in Answers(Remainder(search.remaining, k)) :
        /\ Count(answer = "unknown")
        /\ IF answer = "unsat" THEN Drop(k)
           ELSE search' = [search EXCEPT !.at = @ + 1, !.calls = @ + 1]
    BY DEF Shrink
<1>2. /\ search # Idle /\ search \in Searches(Scenario) /\ phase \in {"certificates", "aborts"}
      /\ search.at \in Nat \ {0} /\ search.calls + 1 \in Nat
      /\ search.remaining \in SUBSET ConstraintsFor(Scenario)
      /\ UNCHANGED <<registry, contracts, phase, at, conflict, aborts, published>>
      /\ Scenario' = Scenario
    BY DEF Shrink, TypeInv, Scenario, Searches
<1>3. unknowns' \in Nat /\ (unknowns' = 0 => unknowns = 0 /\ answer # "unknown")
    BY <1>1, AnswerFacts
<1>4. CertificateInv' /\ ChainInv' /\ PublishedInv'
    BY <1>2, <1>3, ArtifactsStay, NothingPublished
<1>5. ProgressInv'
    BY <1>2 DEF ProgressInv
<1> HIDE DEF k
<1>6. CASE answer = "unsat"
    <2> DEFINE rest == Remainder(search.remaining, k)
    <2>1. search' = [search EXCEPT !.remaining = rest, !.at = 1, !.calls = search.calls + 1]
        BY <1>1, <1>6 DEF Drop
    <2>2. rest \in SUBSET ConstraintsFor(Scenario)
        BY <1>2 DEF Remainder, Searches
    <2>3. Unsat(rest)
        BY <1>1, <1>6, AnswerFacts
    <2> HIDE DEF rest
    <2>4. search' \in Searches(Scenario) /\ search'.remaining = rest /\ search'.at = 1
        <3> DEFINE C == ConstraintsFor(Scenario)
                   n == search.calls + 1
        <3>1. /\ search \in [at : Nat, remaining : SUBSET C, coreSize : Nat, calls : Nat]
              /\ rest \in SUBSET C /\ n \in Nat
            BY <1>2, <2>2 DEF Searches
        <3>2. search' = [search EXCEPT !.remaining = rest, !.at = 1, !.calls = n]
            BY <2>1
        <3> HIDE DEF C, n
        <3>3. search' \in [at : Nat, remaining : SUBSET C, coreSize : Nat, calls : Nat]
            BY <3>1, <3>2
        <3>4. search'.remaining = rest /\ search'.at = 1
            BY <3>1, <3>2
        <3>5. QED
            BY <3>3, <3>4 DEF Searches, C
    <2>5. TypeInv'
        BY <1>2, <1>3, <2>4 DEF TypeInv
    <2>6. SearchInv'
        BY <2>3, <2>4 DEF SearchInv, Needed
    <2>7. QED
        BY <1>4, <1>5, <2>5, <2>6
<1>7. CASE answer # "unsat"
    <2>1. search' = [search EXCEPT !.at = search.at + 1, !.calls = search.calls + 1]
        BY <1>1, <1>7
    <2>2. /\ search' \in Searches(Scenario) /\ search'.remaining = search.remaining
          /\ search'.at = search.at + 1
        <3> DEFINE C == ConstraintsFor(Scenario)
                   m == search.at + 1
                   n == search.calls + 1
        <3>1. /\ search \in [at : Nat, remaining : SUBSET C, coreSize : Nat, calls : Nat]
              /\ m \in Nat /\ n \in Nat
            BY <1>2 DEF Searches
        <3>2. search' = [search EXCEPT !.at = m, !.calls = n]
            BY <2>1
        <3> HIDE DEF C, m, n
        <3>3. search' \in [at : Nat, remaining : SUBSET C, coreSize : Nat, calls : Nat]
            BY <3>1, <3>2
        <3>4. search'.remaining = search.remaining /\ search'.at = m
            BY <3>1, <3>2
        <3>5. QED
            BY <3>3, <3>4 DEF Searches, C, m
    <2>3. TypeInv'
        BY <1>2, <1>3, <2>2 DEF TypeInv
    <2>4. ASSUME unknowns' = 0 PROVE Needed(search.remaining, search.at)
        <3>1. ~Unsat(Remainder(search.remaining, k))
            BY <1>1, <1>3, <1>7, <2>4, AnswerFacts
        <3>2. Needed(search.remaining, search.at - 1)
            BY <1>2, <1>3, <2>4 DEF SearchInv
        <3>3. \A j \in 1..search.at : j = search.at \/ j \in 1..(search.at - 1)
            BY <1>2
        <3>4. QED
            BY <3>1, <3>2, <3>3 DEF Needed, k
    <2>5. SearchInv'
        BY <1>2, <2>2, <2>4 DEF SearchInv, Needed
    <2>6. QED
        BY <1>4, <1>5, <2>3, <2>5
<1>8. QED
    BY <1>6, <1>7

(* The end of a search: what is left of the scenario's constraints is      *)
(* unsatisfiable, and minimal if the solver answered every question.       *)
LEMMA FoundFacts ==
    ASSUME TypeInv, SearchInv, Found
    PROVE  unknowns = 0 => Minimal(Scenario, search.remaining)
<1> DEFINE ius == search.remaining
<1>1. /\ search # Idle /\ search.at \in Nat \ {0} /\ search.at > Cardinality(ius)
      /\ ius \in SUBSET ConstraintsFor(Scenario) /\ Unsat(ius)
    BY DEF Found, TypeInv, Searches, SearchInv
<1>2. registry \in Registries /\ at \in DOMAIN registry
    BY RegistryFacts DEF TypeInv
<1>3. Cardinality(ius) \in Nat
    BY <1>1, <1>2, RegistryFacts, FS_Subset, FS_CardinalityType DEF TypeInv, Scenario
<1>4. {ById(ius)[j] : j \in 1..Cardinality(ius)} = ius
    BY <1>1, <1>2, BundleAssumption DEF Scenario
<1>5. ASSUME unknowns = 0, NEW k \in ius PROVE ~Unsat(Remainder(ius, k))
    <2>1. PICK j \in 1..Cardinality(ius) : ById(ius)[j] = k
        BY <1>4
    <2>2. j \in 1..(search.at - 1) /\ j <= Cardinality(ius)
        BY <1>1, <1>3
    <2>3. Needed(ius, search.at - 1)
        BY <1>1, <1>5 DEF SearchInv
    <2>4. QED
        BY <2>1, <2>2, <2>3 DEF Needed
<1>6. QED
    BY <1>1, <1>5 DEF Minimal

(* To the next scenario, or from the last one to the next phase.           *)
LEMMA AdvanceFacts ==
    ASSUME TypeInv, NEW next, Advance(next)
    PROVE  /\ search' = Idle /\ at' \in 1..Len(registry)
           /\ \/ phase' = next /\ at' = 1 /\ at = Len(registry)
              \/ phase' = phase /\ at' = at + 1
<1>1. Len(registry) \in Nat \ {0} /\ at \in 1..Len(registry)
    BY RegistryFacts DEF TypeInv
<1>2. QED
    BY <1>1 DEF Advance

(* The questions that a verifier left open can be counted.                 *)
LEMMA OpenIsFinite == ASSUME NEW open \in Open PROVE Cardinality(open) \in Nat
<1>1. IsFiniteSet({"model"}) /\ IsFiniteSet({"ius"})
    BY FS_Singleton
<1>2. IsFiniteSet({"model"} \cup {"ius"})
    BY <1>1, FS_Union
<1>3. open \subseteq {"model"} \cup {"ius"}
    BY DEF Open
<1>4. QED
    BY <1>2, <1>3, FS_Subset, FS_CardinalityType

(* The conflict component builds and verifies a certificate.               *)
LEMMA WriteCertificateBundle == ASSUME BundleInv, WriteCertificate PROVE BundleInv'
<1> USE DEF BundleInv
<1>1. PICK open \in Open, unlisted \in Unlisted :
        LET certificate == Certificate(Scenario, Result)
            codes == VerifyCertificate(certificate, ConstraintsFor(Scenario), open) IN
        /\ unknowns' = unknowns + Cardinality(open) + Cardinality(unlisted)
        /\ conflict' = [certificates |-> Append(conflict.certificates, certificate),
                        remediation |-> Append(conflict.remediation,
                                               Remediation(certificate, unlisted)),
                        codes |-> Append(conflict.codes, codes)]
    BY DEF WriteCertificate
<1> DEFINE c == Certificate(Scenario, Result)
           v == VerifyCertificate(c, ConstraintsFor(Scenario), open)
           old == conflict.certificates
<1>2. /\ phase = "certificates" /\ Found /\ Advance("aborts")
      /\ UNCHANGED <<registry, contracts, aborts, published>>
    BY DEF WriteCertificate
<1>3. /\ conflict'.certificates = Append(old, c) /\ conflict'.codes = Append(conflict.codes, v)
    BY <1>1
<1>4. unknowns' \in Nat /\ (unknowns' = 0 => unknowns = 0)
    <2>1. Cardinality(open) \in Nat
        BY OpenIsFinite
    <2>2. Cardinality(unlisted) \in Nat
        <3>1. CASE unlisted = {}
            BY <3>1, FS_EmptySet
        <3>2. CASE \E p \in Profiles : unlisted = {p}
            BY <3>2, FS_Singleton
        <3>3. QED
            BY <3>1, <3>2 DEF Unlisted
    <2>3. QED
        BY <1>1, <2>1, <2>2 DEF TypeInv
<1>5. /\ IsSeq(conflict'.certificates) /\ IsSeq(conflict'.codes)
      /\ Len(old) \in Nat /\ Len(conflict'.certificates) = Len(old) + 1
      /\ Len(conflict'.codes) = Len(conflict.codes) + 1
      /\ Len(old) = at - 1 /\ Len(conflict.codes) = Len(old)
    BY <1>2, <1>3, AppendFacts DEF TypeInv, ProgressInv
<1>6. /\ \A i \in 1..Len(old) : /\ conflict'.certificates[i] = old[i]
                               /\ conflict'.codes[i] = conflict.codes[i]
      /\ conflict'.certificates[Len(old) + 1] = c /\ conflict'.codes[Len(old) + 1] = v
    BY <1>3, <1>5, AppendFacts DEF TypeInv
<1>7. CertificateFact(c, v, Scenario, unknowns')
    <2>1. /\ Intact("certificate", c) /\ c.payload.session = Scenario.session
          /\ c.payload.constraints = search.remaining
          /\ c.payload.common = CommonSafeSet(Scenario.initiator, Scenario.responder)
          /\ {"constraints", "category"} \subseteq DOMAIN c.payload
        BY CertificateIsSealed DEF Result
    <2> HIDE DEF c
    <2>2. v = {} => Minimal(Scenario, c.payload.constraints)
        BY CleanCertificateIsMinimal
    <2>3. unknowns' = 0 => Minimal(Scenario, c.payload.constraints)
        BY <1>2, <1>4, <2>1, FoundFacts
    <2>4. QED
        BY <2>1, <2>2, <2>3 DEF CertificateFact
<1> HIDE DEF c, v
<1>8. CertificateInv'
    <2>1. ASSUME NEW i \in 1..Len(conflict'.certificates)
          PROVE  CertificateFact(conflict'.certificates[i], conflict'.codes[i], registry'[i],
                                 unknowns')
        <3>1. registry'[i] = registry[i] /\ (i = Len(old) + 1 => registry[i] = Scenario)
            BY <1>2, <1>5 DEF Scenario, TypeInv
        <3>2. CASE i = Len(old) + 1
            BY <1>6, <1>7, <3>1, <3>2
        <3>3. CASE i \in 1..Len(old)
            <4>1. CertificateFact(old[i], conflict.codes[i], registry[i], unknowns)
                BY <3>3 DEF CertificateInv
            <4>2. QED
                BY <1>4, <1>6, <3>1, <3>3, <4>1 DEF CertificateFact
        <3>4. QED
            BY <1>5, <2>1, <3>2, <3>3
    <2>2. QED
        BY <2>1 DEF CertificateInv
<1>9. /\ search' = Idle /\ at' \in 1..Len(registry)
      /\ \/ phase' = "aborts" /\ at' = 1 /\ at = Len(registry)
         \/ phase' = phase /\ at' = at + 1
    BY <1>2, AdvanceFacts
<1>10. TypeInv'
    BY <1>2, <1>4, <1>5, <1>9 DEF TypeInv, Running
<1>11. ProgressInv'
    BY <1>2, <1>5, <1>9 DEF ProgressInv, TypeInv
<1>12. SearchInv' /\ ChainInv' /\ PublishedInv'
    BY <1>2, <1>9, NothingPublished DEF SearchInv, ChainInv
<1>13. QED
    BY <1>8, <1>10, <1>11, <1>12

(* The abort component builds a certificate of its own, and with it a      *)
(* chain.                                                                  *)
LEMMA BuildAbortChainBundle == ASSUME BundleInv, BuildAbortChain PROVE BundleInv'
<1> USE DEF BundleInv
<1> DEFINE old == aborts.chains
           new == AbortChain(Scenario, Certificate(Scenario, Result))
<1>1. /\ phase = "aborts" /\ Advance("records")
      /\ UNCHANGED <<registry, contracts, unknowns, conflict, published>>
      /\ aborts' = [aborts EXCEPT !.chains = Append(@, new)]
    BY DEF BuildAbortChain
<1>2. ChainFact(new, Scenario)
    BY CertificateIsSealed, AbortNamesItsCertificate
<1> HIDE DEF new
<1>3. /\ aborts = [chains |-> aborts.chains, passed |-> aborts.passed]
      /\ IsSeq(old)
    BY DEF TypeInv
<1>4. aborts' = [chains |-> Append(old, new), passed |-> aborts.passed]
    BY <1>1, <1>3
<1>5. aborts'.chains = Append(old, new) /\ aborts'.passed = aborts.passed
    BY <1>4
<1>6. /\ IsSeq(aborts'.chains) /\ Len(old) \in Nat /\ Len(aborts'.chains) = Len(old) + 1
      /\ \A i \in 1..Len(old) : aborts'.chains[i] = old[i]
      /\ aborts'.chains[Len(old) + 1] = new
    BY <1>3, <1>5, AppendFacts
<1>7. ChainInv'
    <2>1. Len(old) = at - 1 /\ registry' = registry /\ Scenario = registry[at] /\ at \in Nat
        BY <1>1 DEF ProgressInv, TypeInv, Scenario
    <2>2. \A i \in 1..Len(old) : ChainFact(aborts'.chains[i], registry'[i])
        BY <1>6, <2>1 DEF ChainInv
    <2>3. ChainFact(aborts'.chains[Len(old) + 1], registry'[Len(old) + 1])
        BY <1>2, <1>6, <2>1
    <2>4. QED
        BY <1>6, <2>2, <2>3 DEF ChainInv
<1>8. /\ search' = Idle /\ at' \in 1..Len(registry)
      /\ \/ phase' = "records" /\ at' = 1 /\ at = Len(registry)
         \/ phase' = phase /\ at' = at + 1
    BY <1>1, AdvanceFacts
<1>9. TypeInv'
    BY <1>1, <1>4, <1>5, <1>6, <1>8 DEF TypeInv, Running
<1>10. ProgressInv'
    BY <1>1, <1>6, <1>8 DEF ProgressInv, TypeInv
<1>11. CertificateInv' /\ SearchInv' /\ PublishedInv'
    BY <1>1, <1>8, NothingPublished DEF CertificateInv, SearchInv
<1>12. QED
    BY <1>7, <1>9, <1>10, <1>11

(* The chain is written, with the verdict of the verifiers on it.          *)
LEMMA WriteAbortChainBundle == ASSUME BundleInv, WriteAbortChain PROVE BundleInv'
<1> USE DEF BundleInv
<1>1. PICK open \in Open :
        /\ unknowns' = unknowns + Cardinality(open)
        /\ \E b : aborts' = [aborts EXCEPT !.passed = Append(@, b)]
    BY DEF WriteAbortChain
<1>2. /\ phase = "records" /\ Advance("bundle")
      /\ UNCHANGED <<registry, contracts, conflict, published>>
    BY DEF WriteAbortChain
<1>3. unknowns' \in Nat /\ (unknowns' = 0 => unknowns = 0)
    <2>1. Cardinality(open) \in Nat
        BY OpenIsFinite
    <2>2. QED
        BY <1>1, <2>1 DEF TypeInv
<1>4. /\ aborts'.chains = aborts.chains
      /\ aborts' = [chains |-> aborts'.chains, passed |-> aborts'.passed]
    BY <1>1 DEF TypeInv
<1>5. /\ search' = Idle /\ at' \in 1..Len(registry)
      /\ \/ phase' = "bundle" /\ at' = 1 /\ at = Len(registry)
         \/ phase' = phase /\ at' = at + 1
    BY <1>2, AdvanceFacts
<1>6. TypeInv'
    BY <1>2, <1>3, <1>4, <1>5 DEF TypeInv, Running
<1>7. ProgressInv' /\ SearchInv' /\ ChainInv'
    BY <1>2, <1>4, <1>5 DEF ProgressInv, SearchInv, ChainInv
<1>8. CertificateInv' /\ PublishedInv'
    BY <1>2, <1>3, NothingPublished DEF CertificateInv, CertificateFact
<1>9. QED
    BY <1>6, <1>7, <1>8

(* Publication is the one step that reads the report of the bundle.        *)
LEMMA PublishBundleBundle == ASSUME BundleInv, PublishBundle PROVE BundleInv'
<1> USE DEF BundleInv
<1>1. /\ phase = "bundle"
      /\ UNCHANGED <<registry, contracts, at, search, unknowns, conflict, aborts>>
      /\ \/ BundleReportPasses /\ phase' = "published" /\ published' = Bundle
         \/ phase' = "failed" /\ UNCHANGED published
    BY DEF PublishBundle
<1>2. search = Idle /\ published = None
    BY <1>1 DEF TypeInv, PublishedInv
<1>3. TypeInv' /\ ProgressInv' /\ SearchInv'
    BY <1>1, <1>2 DEF TypeInv, ProgressInv, SearchInv
<1>4. CertificateInv' /\ ChainInv'
    BY <1>1, ArtifactsStay
<1>5. Bundle' = Bundle /\ (BundleReportPasses' <=> BundleReportPasses)
    BY <1>1 DEF Bundle, BundleReportPasses, FeasibleRows, FeasiblePassed
<1>6. PublishedInv'
    BY <1>1, <1>2, <1>5 DEF PublishedInv
<1>7. QED
    BY <1>3, <1>4, <1>6

(* Any other exception ends the generation with nothing published.         *)
LEMMA InterruptBundle == ASSUME BundleInv, Interrupt PROVE BundleInv'
<1> USE DEF BundleInv
<1>1. /\ phase \in Running /\ phase' = "failed" /\ search' = Idle
      /\ UNCHANGED <<registry, contracts, at, unknowns, conflict, aborts, published>>
    BY DEF Interrupt, Raise
<1>2. TypeInv' /\ ProgressInv' /\ SearchInv'
    BY <1>1 DEF TypeInv, ProgressInv, SearchInv
<1>3. CertificateInv' /\ ChainInv' /\ PublishedInv'
    BY <1>1, ArtifactsStay, NothingPublished DEF Running
<1>4. QED
    BY <1>2, <1>3

(* Nothing changes.                                                        *)
LEMMA StutterBundle == ASSUME BundleInv, UNCHANGED vars PROVE BundleInv'
<1> USE DEF BundleInv
<1>1. UNCHANGED <<registry, contracts, phase, at, search, unknowns, conflict, aborts, published>>
    BY DEF vars
<1>2. Bundle' = Bundle /\ (BundleReportPasses' <=> BundleReportPasses) /\ Scenario' = Scenario
    BY <1>1 DEF Bundle, BundleReportPasses, FeasibleRows, FeasiblePassed, Scenario
<1>3. TypeInv' /\ ProgressInv' /\ SearchInv' /\ PublishedInv'
    BY <1>1, <1>2 DEF TypeInv, ProgressInv, SearchInv, PublishedInv
<1>4. QED
    BY <1>1, <1>3, ArtifactsStay

-----------------------------------------------------------------------------

(* What the two components of validate_stage6 hold at every step.          *)
THEOREM AlwaysBundleInv == Spec => []BundleInv
<1>1. BundleInv /\ [Next]_vars => BundleInv'
    BY SolveBundle, ShrinkBundle, WriteCertificateBundle, BuildAbortChainBundle,
       WriteAbortChainBundle, PublishBundleBundle, InterruptBundle, StutterBundle DEF Next
<1>2. QED
    BY <1>1, InitBundle, PTL DEF Spec

(* For every registry and whatever core the solver begins with, a          *)
(* certificate's conflict is irreducible when all questions were answered, *)
(* and every published one is, however many were not: the verifier in      *)
(* front of the bundle notices what compute_ius could not decide.          *)
THEOREM ConflictsAreMinimal == Spec => []ConflictIsMinimal
<1>1. ASSUME BundleInv PROVE ConflictIsMinimal
    <2>1. ASSUME NEW i \in DOMAIN conflict.certificates, unknowns = 0 \/ published # None
          PROVE  Minimal(registry[i], conflict.certificates[i].payload.constraints)
        <3>1. i \in 1..Len(conflict.certificates)
            BY <1>1 DEF BundleInv, TypeInv, IsSeq
        <3>2. CertificateFact(conflict.certificates[i], conflict.codes[i], registry[i], unknowns)
            BY <1>1, <3>1 DEF BundleInv, CertificateInv
        <3>3. CASE published # None
            <4>1. BundleReportPasses /\ phase = "published"
                BY <1>1, <3>3 DEF BundleInv, PublishedInv
            <4>2. i \in DOMAIN registry
                BY <1>1, <3>1, <4>1, RegistryFacts DEF BundleInv, ProgressInv, TypeInv
            <4>3. conflict.codes[i] = {}
                BY <4>1, <4>2 DEF BundleReportPasses
            <4>4. QED
                BY <3>2, <4>3 DEF CertificateFact
        <3>4. QED
            BY <2>1, <3>2, <3>3 DEF CertificateFact
    <2>2. QED
        BY <2>1 DEF ConflictIsMinimal
<1>2. QED
    BY <1>1, AlwaysBundleInv, PTL

(* In every published bundle the certificates of one component and the     *)
(* transcripts and abort records of the other are about each other.  The   *)
(* two searches may end with different conflicts; then the certificates    *)
(* have different hashes, and _validate_cross_references keeps the bundle  *)
(* from being published.                                                   *)
THEOREM PublishedChainsAreBound == Spec => []PublishedChainIsBound
<1>1. ASSUME BundleInv, published # None, NEW i \in DOMAIN registry
      PROVE  LET chain == published[i]
                 abort == chain.abort.payload IN
             /\ chain.transcript.payload.certificate
                    = Hash("certificate", chain.certificate.payload)
             /\ abort.certificate = Hash("certificate", chain.certificate.payload)
             /\ abort.transcript = Hash("transcript", chain.transcript.payload)
             /\ abort.session = registry[i].session
             /\ chain.transcript.payload.session = registry[i].session
             /\ chain.certificate.payload.session = registry[i].session
             /\ abort.reason = chain.certificate.payload.category
             /\ abort.selected = None /\ ~abort.contract /\ ~abort.fallback
    <2> DEFINE c == conflict.certificates[i]
               t == aborts.chains[i].transcript
               a == aborts.chains[i].abort
               own == aborts.chains[i].certificate
    <2>1. published = Bundle /\ BundleReportPasses /\ phase = "published"
        BY <1>1 DEF BundleInv, PublishedInv
    <2>2. published[i].certificate = c /\ published[i].transcript = t /\ published[i].abort = a
        BY <1>1, <2>1 DEF Bundle
    <2>3. CrossReferences(Bundle[i])
        BY <1>1, <2>1 DEF BundleReportPasses
    <2>4. VerifyTranscript(t, c) = {} /\ VerifyAbort(a, c, t) = {}
        BY <2>1, <2>2, <2>3 DEF CrossReferences
    <2>5. i \in 1..Len(conflict.certificates) /\ i \in 1..Len(aborts.chains)
        BY <1>1, <2>1, RegistryFacts DEF BundleInv, ProgressInv, TypeInv
    <2>6. c.hash = Hash("certificate", c.payload) /\ c.payload.session = registry[i].session
        BY <1>1, <2>5 DEF BundleInv, CertificateInv, CertificateFact, Intact
    <2>7. a.payload.certificate = Hash("certificate", own.payload)
          /\ a.payload.reason = own.payload.category
        BY <1>1, <2>5 DEF BundleInv, ChainInv, ChainFact
    <2> HIDE DEF c, t, a, own
    <2>8. /\ t.payload.certificate = c.hash /\ t.payload.session = c.payload.session
          /\ t.hash = Hash("transcript", t.payload)
        BY <2>4, CleanTranscript DEF Intact
    <2>9. /\ a.payload.selected = None /\ ~a.payload.contract /\ ~a.payload.fallback
          /\ a.payload.session = c.payload.session
          /\ a.payload.certificate = c.hash /\ a.payload.transcript = t.hash
        BY <2>4, CleanAbort
    <2>10. own.payload = c.payload
        BY <2>6, <2>7, <2>9 DEF Hash
    <2>11. QED
        BY <2>2, <2>6, <2>7, <2>8, <2>9, <2>10
<1>2. BundleInv => PublishedChainIsBound
    BY <1>1 DEF PublishedChainIsBound
<1>3. QED
    BY <1>2, AlwaysBundleInv, PTL

-----------------------------------------------------------------------------
(* The table of adversarial cases.                                         *)

(* A fault that is found is reported.                                      *)
LEMMA Reported ==
    ASSUME NEW S, NEW b, NEW c, <<b, c>> \in S, b
    PROVE  c \in Codes(S)
<1>1. <<b, c>> \in {g \in S : g[1]}
    OBVIOUS
<1>2. QED
    BY <1>1 DEF Codes

(* What verify_conflict_certificate reports when nothing stays open.       *)
LEMMA CertificateReports ==
    ASSUME NEW c, NEW all
    PROVE  LET codes == VerifyCertificate(c, all, {}) IN
           /\ ~Unsat(all) => "MODEL_NOT_UNSAT" \in codes
           /\ ~VerifyIus(all, c.payload.constraints, {}) => "IUS_INVALID" \in codes
           /\ c.payload.category # ClassifyConflict(c.payload.constraints) =>
                  "CATEGORY_MISMATCH" \in codes
           /\ ~Intact("certificate", c) => "CERTIFICATE_HASH_MISMATCH" \in codes
<1> DEFINE p == c.payload
           model == "model" \in {} \/ ~Unsat(all)
           faults == {<<model, "MODEL_NOT_UNSAT">>,
                <<~VerifyIus(all, p.constraints, {}), "IUS_INVALID">>,
                <<p.category # ClassifyConflict(p.constraints), "CATEGORY_MISMATCH">>,
                <<p.id # CertificateId(p.session, p.constraints), "CERTIFICATE_ID_MISMATCH">>,
                <<~Intact("certificate", c), "CERTIFICATE_HASH_MISMATCH">>}
<1>1. VerifyCertificate(c, all, {}) = Codes(faults)
    BY Zenon DEF VerifyCertificate
<1>2. /\ <<model, "MODEL_NOT_UNSAT">> \in faults
      /\ <<~VerifyIus(all, p.constraints, {}), "IUS_INVALID">> \in faults
      /\ <<p.category # ClassifyConflict(p.constraints), "CATEGORY_MISMATCH">> \in faults
      /\ <<~Intact("certificate", c), "CERTIFICATE_HASH_MISMATCH">> \in faults
    BY Zenon
<1> HIDE DEF faults
<1>3. model => "MODEL_NOT_UNSAT" \in Codes(faults)
    BY <1>2, Reported, Zenon
<1>4. ~VerifyIus(all, p.constraints, {}) => "IUS_INVALID" \in Codes(faults)
    BY <1>2, Reported, Zenon
<1>5. p.category # ClassifyConflict(p.constraints) => "CATEGORY_MISMATCH" \in Codes(faults)
    BY <1>2, Reported, Zenon
<1>6. ~Intact("certificate", c) => "CERTIFICATE_HASH_MISMATCH" \in Codes(faults)
    BY <1>2, Reported, Zenon
<1>7. QED
    BY <1>1, <1>3, <1>4, <1>5, <1>6, Zenon

(* What verify_failure_transcript reports.                                 *)
LEMMA TranscriptReports ==
    ASSUME NEW t, NEW c
    PROVE  LET codes == VerifyTranscript(t, c)
               p == t.payload IN
           /\ p.initiatorCommitment # Commitment(p.initiatorReveal) =>
                  "COMMITMENT_MISMATCH" \in codes
           /\ p.session # c.payload.session => "SESSION_MISMATCH" \in codes
           /\ p.common # c.payload.common => "COMMON_SAFE_SET_MISMATCH" \in codes
           /\ ~Intact("transcript", t) => "TRANSCRIPT_HASH_MISMATCH" \in codes
<1> DEFINE p == t.payload
           reveals == \/ p.initiatorCommitment # Commitment(p.initiatorReveal)
                      \/ p.responderCommitment # Commitment(p.responderReveal)
           faults ==
               {<<reveals, "COMMITMENT_MISMATCH">>,
                <<p.initiatorProposal # ProposalHash(p.initiatorReveal)
                  \/ p.responderProposal # ProposalHash(p.responderReveal),
                  "PROPOSAL_HASH_MISMATCH">>,
                <<p.certificate # c.hash, "CERTIFICATE_HASH_MISMATCH">>,
                <<p.session # c.payload.session, "SESSION_MISMATCH">>,
                <<p.common # c.payload.common, "COMMON_SAFE_SET_MISMATCH">>,
                <<~Intact("transcript", t), "TRANSCRIPT_HASH_MISMATCH">>}
<1>1. VerifyTranscript(t, c) = Codes(faults)
    BY Zenon DEF VerifyTranscript
<1>2. /\ <<reveals, "COMMITMENT_MISMATCH">> \in faults
      /\ <<p.session # c.payload.session, "SESSION_MISMATCH">> \in faults
      /\ <<p.common # c.payload.common, "COMMON_SAFE_SET_MISMATCH">> \in faults
      /\ <<~Intact("transcript", t), "TRANSCRIPT_HASH_MISMATCH">> \in faults
    BY Zenon
<1> HIDE DEF faults
<1>3. reveals => "COMMITMENT_MISMATCH" \in Codes(faults)
    BY <1>2, Reported, Zenon
<1>4. p.session # c.payload.session => "SESSION_MISMATCH" \in Codes(faults)
    BY <1>2, Reported, Zenon
<1>5. p.common # c.payload.common => "COMMON_SAFE_SET_MISMATCH" \in Codes(faults)
    BY <1>2, Reported, Zenon
<1>6. ~Intact("transcript", t) => "TRANSCRIPT_HASH_MISMATCH" \in Codes(faults)
    BY <1>2, Reported, Zenon
<1>7. QED
    BY <1>1, <1>3, <1>4, <1>5, <1>6, Zenon

(* What verify_safe_abort reports of a session that went on after all.     *)
LEMMA AbortReports ==
    ASSUME NEW a, NEW c, NEW t
    PROVE  LET codes == VerifyAbort(a, c, t) IN
           /\ a.payload.selected # None => "SELECTED_PROFILE_AFTER_ABORT" \in codes
           /\ a.payload.contract => "CONTRACT_AFTER_ABORT" \in codes
           /\ a.payload.fallback => "FALLBACK_AFTER_ABORT" \in codes
<1> DEFINE p == a.payload
           faults ==
               {<<p.selected # None, "SELECTED_PROFILE_AFTER_ABORT">>,
                <<p.contract, "CONTRACT_AFTER_ABORT">>,
                <<p.fallback, "FALLBACK_AFTER_ABORT">>,
                <<p.session # c.payload.session, "SESSION_MISMATCH">>,
                <<p.certificate # c.hash, "CERTIFICATE_HASH_MISMATCH">>,
                <<p.transcript # t.hash, "TRANSCRIPT_HASH_MISMATCH">>,
                <<p.id # AbortId(c.payload.session, c.hash), "ABORT_ID_MISMATCH">>,
                <<~Intact("abort", a), "ABORT_HASH_MISMATCH">>}
<1>1. VerifyAbort(a, c, t) = Codes(faults)
    BY Zenon DEF VerifyAbort
<1>2. /\ <<p.selected # None, "SELECTED_PROFILE_AFTER_ABORT">> \in faults
      /\ <<p.contract, "CONTRACT_AFTER_ABORT">> \in faults
      /\ <<p.fallback, "FALLBACK_AFTER_ABORT">> \in faults
    BY Zenon
<1> HIDE DEF faults
<1>3. p.selected # None => "SELECTED_PROFILE_AFTER_ABORT" \in Codes(faults)
    BY <1>2, Reported, Zenon
<1>4. p.contract => "CONTRACT_AFTER_ABORT" \in Codes(faults)
    BY <1>2, Reported, Zenon
<1>5. p.fallback => "FALLBACK_AFTER_ABORT" \in Codes(faults)
    BY <1>2, Reported, Zenon
<1>6. QED
    BY <1>1, <1>3, <1>4, <1>5, Zenon

(* A payload that was altered no longer has the hash beside it.            *)
LEMMA AlteredFacts ==
    ASSUME NEW artifact, NEW field \in DOMAIN artifact.payload, NEW value
    PROVE  LET b == Altered(artifact, field, value) IN
           /\ b.payload[field] = value
           /\ \A f \in DOMAIN artifact.payload \ {field} : b.payload[f] = artifact.payload[f]
           /\ \A domain : Intact(domain, artifact) /\ value # artifact.payload[field] =>
                              ~Intact(domain, b)
<1> DEFINE b == Altered(artifact, field, value)
<1>1. b.payload = [artifact.payload EXCEPT ![field] = value] /\ b.hash = artifact.hash
    BY DEF Altered
<1> HIDE DEF b
<1>2. /\ b.payload[field] = value
      /\ \A f \in DOMAIN artifact.payload \ {field} : b.payload[f] = artifact.payload[f]
    BY <1>1
<1>3. ASSUME NEW domain, Intact(domain, artifact), value # artifact.payload[field]
      PROVE  ~Intact(domain, b)
    BY <1>1, <1>2, <1>3 DEF Intact, Hash
<1>4. QED
    BY <1>2, <1>3 DEF b

(* ADVERSARIAL_ATTACKS names one code for each alteration.                 *)
Rejected(seen) == \A case \in Cases : seen[1] = case[1] => case[2] \in seen[2]

LEMMA OneCode ==
    ASSUME NEW kind, NEW code, <<kind, code>> \in Cases, NEW codes, code \in codes
    PROVE  Rejected(<<kind, codes>>)
<1>1. \A c \in Cases : c[1] = kind => c[2] = code
    BY DEF Cases
<1>2. QED
    BY <1>1 DEF Rejected

(* None is not what a conflict is classified as.                           *)
LEMMA ClassificationIsNotNone ==
    ASSUME NEW ius
    PROVE  ClassifyConflict(ius) # None
<1> DEFINE mapped == {k \in ius : k.category \in DOMAIN CategoryMap}
           categories == {CategoryMap[k.category] : k \in mapped}
<1>1. CASE Cardinality(categories) # 1
    BY <1>1, NoneAssumption DEF ClassifyConflict
<1>2. CASE Cardinality(categories) = 1
    <2>1. categories # {}
        BY <1>2, FS_EmptySet
    <2>2. ClassifyConflict(ius) = CHOOSE x \in categories : TRUE
        BY <1>2 DEF ClassifyConflict
    <2>3. ClassifyConflict(ius) \in categories
        BY <2>1, <2>2
    <2>4. QED
        BY <2>3, NoneAssumption
<1>3. QED
    BY <1>1, <1>2

(* What is known of the chain that the cases are about, and of a           *)
(* certificate from another session.                                       *)
Attackable(chain, scenario, another) ==
    LET cert == chain.certificate
        tran == chain.transcript IN
    /\ Intact("certificate", cert) /\ Intact("transcript", tran)
    /\ {"constraints", "category"} \subseteq DOMAIN cert.payload
    /\ Minimal(scenario, cert.payload.constraints)
    /\ \A k \in ConstraintsFor(scenario) : "source" \in DOMAIN k /\ k.source # 0
    /\ cert.payload.common # {}
    /\ cert.payload.session = scenario.session /\ tran.payload.session = scenario.session
    /\ another.payload.session # scenario.session
    /\ {"session", "initiatorReveal", "initiatorCommitment", "common", "abort"}
           \subseteq DOMAIN tran.payload
    /\ scenario.initiator # {}
    /\ tran.payload.initiatorCommitment
           = Commitment(Reveal(scenario.session, "initiator", scenario.initiator))
    /\ tran.payload.abort[1] = "abort"
    /\ {"selected", "contract", "fallback"} \subseteq DOMAIN chain.abort.payload

(* Another set of constraints under the hash of a certificate.             *)
LEMMA OtherConstraints ==
    ASSUME NEW chain, NEW all, NEW s,
           Intact("certificate", chain.certificate),
           "constraints" \in DOMAIN chain.certificate.payload
    PROVE  LET codes == AlteredCertificate(chain, all, "constraints", s) IN
           /\ ~Unsat(all) => "MODEL_NOT_UNSAT" \in codes
           /\ ~VerifyIus(all, s, {}) => "IUS_INVALID" \in codes
           /\ s # chain.certificate.payload.constraints => "CERTIFICATE_HASH_MISMATCH" \in codes
<1> DEFINE b == Altered(chain.certificate, "constraints", s)
<1>1. b.payload.constraints = s
    BY AlteredFacts
<1>2. s # chain.certificate.payload.constraints => ~Intact("certificate", b)
    BY AlteredFacts
<1>3. AlteredCertificate(chain, all, "constraints", s) = VerifyCertificate(b, all, {})
    BY DEF AlteredCertificate
<1> HIDE DEF b
<1>4. QED
    BY <1>1, <1>2, <1>3, CertificateReports

(* A constraint is left out of the conflict, one is added to it, or one is *)
(* given another source; it is the minimality that makes the first two     *)
(* show.                                                                   *)
LEMMA ConstraintCases ==
    ASSUME NEW chain, NEW scenario, NEW another, Attackable(chain, scenario, another)
    PROVE  LET all == ConstraintsFor(scenario)
               ius == chain.certificate.payload.constraints
               with(s) == AlteredCertificate(chain, all, "constraints", s) IN
           /\ \A k \in ius : "IUS_INVALID" \in with(Remainder(ius, k))
           /\ \A k \in all \ ius : /\ "CERTIFICATE_HASH_MISMATCH" \in with(ius \cup {k})
                                   /\ "IUS_INVALID" \in with(ius \cup {k})
           /\ \A k \in ius : "CERTIFICATE_HASH_MISMATCH"
                                \in with(Remainder(ius, k) \cup {[k EXCEPT !.source = 0]})
<1> DEFINE all == ConstraintsFor(scenario)
           ius == chain.certificate.payload.constraints
           with(s) == AlteredCertificate(chain, all, "constraints", s)
<1>1. /\ Intact("certificate", chain.certificate)
      /\ "constraints" \in DOMAIN chain.certificate.payload
      /\ ius \subseteq all /\ Unsat(ius)
      /\ \A k \in ius : ~Unsat(Remainder(ius, k))
      /\ \A k \in all : "source" \in DOMAIN k /\ k.source # 0
    BY DEF Attackable, Minimal
<1>2. \A s : /\ ~VerifyIus(all, s, {}) => "IUS_INVALID" \in with(s)
             /\ s # ius => "CERTIFICATE_HASH_MISMATCH" \in with(s)
    BY <1>1, OtherConstraints
<1> HIDE DEF all, ius, with
<1>3. ASSUME NEW k \in ius
      PROVE  "IUS_INVALID" \in with(Remainder(ius, k))
    <2>1. ~VerifyIus(all, Remainder(ius, k), {})
        BY <1>1 DEF VerifyIus
    <2>2. QED
        BY <1>2, <2>1
<1>4. ASSUME NEW k \in all \ ius
      PROVE  /\ "CERTIFICATE_HASH_MISMATCH" \in with(ius \cup {k})
             /\ "IUS_INVALID" \in with(ius \cup {k})
    <2>1. Remainder(ius \cup {k}, k) = ius /\ ius \cup {k} # ius
        BY DEF Remainder
    <2>2. ~VerifyIus(all, ius \cup {k}, {})
        BY <1>1, <2>1 DEF VerifyIus
    <2>3. QED
        BY <1>2, <2>1, <2>2
<1>5. ASSUME NEW k \in ius
      PROVE  "CERTIFICATE_HASH_MISMATCH" \in with(Remainder(ius, k) \cup {[k EXCEPT !.source = 0]})
    <2> DEFINE moved == [k EXCEPT !.source = 0]
    <2>1. moved.source = 0 /\ k.source # 0
        BY <1>1
    <2> HIDE DEF moved
    <2>2. k \notin Remainder(ius, k) \cup {moved}
        BY <2>1 DEF Remainder
    <2>3. Remainder(ius, k) \cup {moved} # ius
        BY <2>2
    <2>4. QED
        BY <1>2, <2>3 DEF moved
<1>6. QED
    BY <1>3, <1>4, <1>5 DEF all, ius, with

(* The cases of a certificate.                                             *)
LEMMA CertificateCases ==
    ASSUME NEW chain, NEW scenario, NEW another, Attackable(chain, scenario, another),
           NEW seen \in ObservedOfCertificate(chain, ConstraintsFor(scenario))
    PROVE  Rejected(seen)
<1> DEFINE all == ConstraintsFor(scenario)
           cert == chain.certificate
           ius == cert.payload.constraints
           with(s) == AlteredCertificate(chain, all, "constraints", s)
           category == AlteredCertificate(chain, all, "category", None)
           other == Hash("altered", cert.payload)
           unsealed == VerifyCertificate([payload |-> cert.payload, hash |-> other], all, {})
<1>1. \/ \E k \in ius : seen = <<"removed-conflict-constraint", with(Remainder(ius, k))>>
      \/ \E k \in all \ ius : \/ seen = <<"added-unrelated-constraint", with(ius \cup {k})>>
                              \/ seen = <<"false-IUS-minimality-claim", with(ius \cup {k})>>
      \/ \E k \in ius : seen = <<"modified-source-hash",
                                 with(Remainder(ius, k) \cup {[k EXCEPT !.source = 0]})>>
      \/ \E s \in SUBSET all :
            /\ ~Unsat(s)
            /\ seen = <<"satisfiable-set-presented-as-unsatisfiable",
                        AlteredCertificate(chain, s, "constraints", s)>>
      \/ seen = <<"modified-conflict-category", category>>
      \/ seen = <<"modified-certificate-hash", unsealed>>
    <2> DEFINE removed == {<<"removed-conflict-constraint", with(Remainder(ius, k))>> : k \in ius}
               added == {<<"added-unrelated-constraint", with(ius \cup {k})>> : k \in all \ ius}
               claimed == {<<"false-IUS-minimality-claim", with(ius \cup {k})>> :
                             k \in all \ ius}
               moved == {<<"modified-source-hash",
                           with(Remainder(ius, k) \cup {[k EXCEPT !.source = 0]})>> : k \in ius}
               satisfiable == {<<"satisfiable-set-presented-as-unsatisfiable",
                                 AlteredCertificate(chain, s, "constraints", s)>> :
                                 s \in {r \in SUBSET all : ~Unsat(r)}}
               single == {<<"modified-conflict-category", category>>,
                          <<"modified-certificate-hash", unsealed>>}
    <2>1. seen \in removed \cup added \cup claimed \cup moved \cup satisfiable \cup single
        BY Zenon DEF ObservedOfCertificate
    <2>2. CASE seen \in removed
        BY <2>2, Zenon
    <2>3. CASE seen \in added
        BY <2>3, Zenon
    <2>4. CASE seen \in claimed
        BY <2>4, Zenon
    <2>5. CASE seen \in moved
        BY <2>5, Zenon
    <2>6. CASE seen \in satisfiable
        <3>1. PICK s \in {r \in SUBSET all : ~Unsat(r)} :
                seen = <<"satisfiable-set-presented-as-unsatisfiable",
                         AlteredCertificate(chain, s, "constraints", s)>>
            BY <2>6, Zenon
        <3>2. QED
            BY <3>1, Zenon
    <2>7. CASE seen \in single
        BY <2>7, Zenon
    <2> HIDE DEF removed, added, claimed, moved, satisfiable, single
    <2>8. QED
        BY <2>1, <2>2, <2>3, <2>4, <2>5, <2>6, <2>7, Zenon
<1>2. /\ \A k \in ius : "IUS_INVALID" \in with(Remainder(ius, k))
      /\ \A k \in all \ ius : /\ "CERTIFICATE_HASH_MISMATCH" \in with(ius \cup {k})
                              /\ "IUS_INVALID" \in with(ius \cup {k})
      /\ \A k \in ius : "CERTIFICATE_HASH_MISMATCH"
                           \in with(Remainder(ius, k) \cup {[k EXCEPT !.source = 0]})
    BY ConstraintCases
<1>3. /\ Intact("certificate", cert)
      /\ "constraints" \in DOMAIN cert.payload /\ "category" \in DOMAIN cert.payload
    BY DEF Attackable
<1>4. \A s : ~Unsat(s) => "MODEL_NOT_UNSAT" \in AlteredCertificate(chain, s, "constraints", s)
    BY <1>3, OtherConstraints
<1>5. "CATEGORY_MISMATCH" \in category
    <2> DEFINE b == Altered(cert, "category", None)
    <2>1. b.payload.category = None
        BY <1>3, AlteredFacts
    <2> HIDE DEF b
    <2>2. b.payload.category # ClassifyConflict(b.payload.constraints)
        BY <2>1, ClassificationIsNotNone
    <2>3. QED
        BY <2>2, CertificateReports DEF AlteredCertificate, b
<1>6. "CERTIFICATE_HASH_MISMATCH" \in unsealed
    <2> DEFINE b == [payload |-> cert.payload, hash |-> other]
    <2>1. ~Intact("certificate", b)
        BY DEF Intact, Hash
    <2> HIDE DEF b
    <2>2. "CERTIFICATE_HASH_MISMATCH" \in VerifyCertificate(b, all, {})
        BY <2>1, CertificateReports
    <2>3. QED
        BY <2>2 DEF b
<1>7. /\ <<"removed-conflict-constraint", "IUS_INVALID">> \in Cases
      /\ <<"added-unrelated-constraint", "CERTIFICATE_HASH_MISMATCH">> \in Cases
      /\ <<"false-IUS-minimality-claim", "IUS_INVALID">> \in Cases
      /\ <<"modified-source-hash", "CERTIFICATE_HASH_MISMATCH">> \in Cases
      /\ <<"satisfiable-set-presented-as-unsatisfiable", "MODEL_NOT_UNSAT">> \in Cases
      /\ <<"modified-conflict-category", "CATEGORY_MISMATCH">> \in Cases
      /\ <<"modified-certificate-hash", "CERTIFICATE_HASH_MISMATCH">> \in Cases
    BY DEF Cases
<1> HIDE DEF all, cert, ius, with, category, other, unsealed
<1>8. CASE \E k \in ius : seen = <<"removed-conflict-constraint", with(Remainder(ius, k))>>
    BY <1>2, <1>7, <1>8, OneCode, Zenon
<1>9. CASE \E k \in all \ ius : seen = <<"added-unrelated-constraint", with(ius \cup {k})>>
    BY <1>2, <1>7, <1>9, OneCode, Zenon
<1>10. CASE \E k \in all \ ius : seen = <<"false-IUS-minimality-claim", with(ius \cup {k})>>
    BY <1>2, <1>7, <1>10, OneCode, Zenon
<1>11. CASE \E k \in ius : seen = <<"modified-source-hash",
                                    with(Remainder(ius, k) \cup {[k EXCEPT !.source = 0]})>>
    BY <1>2, <1>7, <1>11, OneCode, Zenon
<1>12. CASE \E s \in SUBSET all :
            /\ ~Unsat(s)
            /\ seen = <<"satisfiable-set-presented-as-unsatisfiable",
                        AlteredCertificate(chain, s, "constraints", s)>>
    BY <1>4, <1>7, <1>12, OneCode, Zenon
<1>13. CASE seen = <<"modified-conflict-category", category>>
    BY <1>5, <1>7, <1>13, OneCode, Zenon
<1>14. CASE seen = <<"modified-certificate-hash", unsealed>>
    BY <1>6, <1>7, <1>14, OneCode, Zenon
<1>15. QED
    BY <1>1, <1>8, <1>9, <1>10, <1>11, <1>12, <1>13, <1>14, Zenon

(* The cases of a failure transcript.                                      *)
LEMMA TranscriptCases ==
    ASSUME NEW chain, NEW scenario, NEW another, Attackable(chain, scenario, another),
           NEW seen \in ObservedOfTranscript(chain, another)
    PROVE  Rejected(seen)
<1> DEFINE cert == chain.certificate
           tran == chain.transcript
           empty == Reveal(scenario.session, "initiator", {})
           with(field, value) == AlteredTranscript(chain, field, value)
<1>1. /\ Intact("transcript", tran)
      /\ cert.payload.common # {} /\ scenario.initiator # {}
      /\ cert.payload.session = scenario.session /\ tran.payload.session = scenario.session
      /\ another.payload.session # scenario.session
      /\ {"session", "initiatorReveal", "initiatorCommitment", "common", "abort"}
             \subseteq DOMAIN tran.payload
      /\ tran.payload.initiatorCommitment
             = Commitment(Reveal(scenario.session, "initiator", scenario.initiator))
      /\ tran.payload.abort[1] = "abort"
    BY DEF Attackable
<1>2. \/ seen = <<"false-empty-common-safe-set-claim", with("common", {})>>
      \/ seen = <<"modified-failure-transcript", with("abort", Hash("altered", None))>>
      \/ seen = <<"replayed-failure-session", with("session", another.payload.session)>>
      \/ seen = <<"certificate-from-another-session", VerifyTranscript(tran, another)>>
      \/ seen = <<"tampered-commit-reveal-transcript", with("initiatorReveal", empty)>>
    BY <1>1 DEF ObservedOfTranscript
<1>3. "COMMON_SAFE_SET_MISMATCH" \in with("common", {})
    <2> DEFINE b == Altered(tran, "common", {})
    <2>1. b.payload.common # cert.payload.common
        BY <1>1, AlteredFacts
    <2> HIDE DEF b
    <2>2. QED
        BY <2>1, TranscriptReports DEF AlteredTranscript, b
<1>4. "TRANSCRIPT_HASH_MISMATCH" \in with("abort", Hash("altered", None))
    <2> DEFINE b == Altered(tran, "abort", Hash("altered", None))
    <2>1. Hash("altered", None) # tran.payload.abort
        BY <1>1 DEF Hash
    <2>2. ~Intact("transcript", b)
        BY <1>1, <2>1, AlteredFacts
    <2> HIDE DEF b
    <2>3. QED
        BY <2>2, TranscriptReports DEF AlteredTranscript, b
<1>5. "SESSION_MISMATCH" \in with("session", another.payload.session)
    <2> DEFINE b == Altered(tran, "session", another.payload.session)
    <2>1. b.payload.session # cert.payload.session
        BY <1>1, AlteredFacts
    <2> HIDE DEF b
    <2>2. QED
        BY <2>1, TranscriptReports DEF AlteredTranscript, b
<1>6. "SESSION_MISMATCH" \in VerifyTranscript(tran, another)
    BY <1>1, TranscriptReports
<1>7. "COMMITMENT_MISMATCH" \in with("initiatorReveal", empty)
    <2> DEFINE b == Altered(tran, "initiatorReveal", empty)
    <2>1. /\ b.payload.initiatorReveal = empty
          /\ b.payload.initiatorCommitment = tran.payload.initiatorCommitment
        BY <1>1, AlteredFacts
    <2>2. empty # Reveal(scenario.session, "initiator", scenario.initiator)
        BY <1>1 DEF Reveal
    <2> HIDE DEF b, empty
    <2>3. b.payload.initiatorCommitment # Commitment(b.payload.initiatorReveal)
        BY <1>1, <2>1, <2>2 DEF Commitment, Hash
    <2>4. QED
        BY <2>3, TranscriptReports DEF AlteredTranscript, b
<1>8. /\ <<"false-empty-common-safe-set-claim", "COMMON_SAFE_SET_MISMATCH">> \in Cases
      /\ <<"modified-failure-transcript", "TRANSCRIPT_HASH_MISMATCH">> \in Cases
      /\ <<"replayed-failure-session", "SESSION_MISMATCH">> \in Cases
      /\ <<"certificate-from-another-session", "SESSION_MISMATCH">> \in Cases
      /\ <<"tampered-commit-reveal-transcript", "COMMITMENT_MISMATCH">> \in Cases
    BY DEF Cases
<1>9. QED
    BY <1>2, <1>3, <1>4, <1>5, <1>6, <1>7, <1>8, OneCode, Zenon

(* The cases of a safe abort record.                                       *)
LEMMA AbortCases ==
    ASSUME NEW chain, NEW scenario, NEW another, Attackable(chain, scenario, another),
           NEW seen \in ObservedOfAbort(chain)
    PROVE  Rejected(seen)
<1> DEFINE with(field, value) == AlteredAbort(chain, field, value)
<1>1. {"selected", "contract", "fallback"} \subseteq DOMAIN chain.abort.payload
    BY DEF Attackable
<1>2. \/ \E p \in Profiles :
            seen = <<"selected-profile-attached-after-abort", with("selected", p)>>
      \/ seen = <<"trust-contract-attached-after-abort", with("contract", TRUE)>>
      \/ seen = <<"fallback-attempted-changed-to-true", with("fallback", TRUE)>>
    BY DEF ObservedOfAbort
<1>3. ASSUME NEW p \in Profiles PROVE "SELECTED_PROFILE_AFTER_ABORT" \in with("selected", p)
    <2> DEFINE b == Altered(chain.abort, "selected", p)
    <2>1. b.payload.selected # None
        BY <1>1, AlteredFacts, NoneAssumption
    <2> HIDE DEF b
    <2>2. QED
        BY <2>1, AbortReports DEF AlteredAbort, b
<1>4. "CONTRACT_AFTER_ABORT" \in with("contract", TRUE)
    <2> DEFINE b == Altered(chain.abort, "contract", TRUE)
    <2>1. \A v : Altered(chain.abort, "contract", v).payload.contract = v
        BY <1>1, AlteredFacts
    <2>2. b.payload.contract
        BY <2>1, Zenon
    <2> HIDE DEF b
    <2>3. "CONTRACT_AFTER_ABORT" \in VerifyAbort(b, chain.certificate, chain.transcript)
        BY <2>2, AbortReports, Zenon
    <2>4. QED
        BY <2>3 DEF AlteredAbort, b
<1>5. "FALLBACK_AFTER_ABORT" \in with("fallback", TRUE)
    <2> DEFINE b == Altered(chain.abort, "fallback", TRUE)
    <2>1. \A v : Altered(chain.abort, "fallback", v).payload.fallback = v
        BY <1>1, AlteredFacts
    <2>2. b.payload.fallback
        BY <2>1, Zenon
    <2> HIDE DEF b
    <2>3. "FALLBACK_AFTER_ABORT" \in VerifyAbort(b, chain.certificate, chain.transcript)
        BY <2>2, AbortReports, Zenon
    <2>4. QED
        BY <2>3 DEF AlteredAbort, b
<1>6. /\ <<"selected-profile-attached-after-abort", "SELECTED_PROFILE_AFTER_ABORT">> \in Cases
      /\ <<"trust-contract-attached-after-abort", "CONTRACT_AFTER_ABORT">> \in Cases
      /\ <<"fallback-attempted-changed-to-true", "FALLBACK_AFTER_ABORT">> \in Cases
    BY DEF Cases
<1> HIDE DEF with
<1>7. QED
    BY <1>2, <1>3, <1>4, <1>5, <1>6, OneCode, Zenon

(* build_adversarial_report writes its table without running anything.  In *)
(* every published bundle the table is nevertheless right about the chain  *)
(* of the last scenario, for every registry, every choice the solver made  *)
(* and every alteration of the listed kinds.                               *)
THEOREM ReportedRejectionsAlwaysHappen == Spec => []ReportedRejectionsHappen
<1>1. ASSUME BundleInv, published # None
      PROVE  Attackable(published[Len(registry)], registry[Len(registry)],
                        published[1].certificate)
    <2> DEFINE n == Len(registry)
               s == registry[n]
               c == conflict.certificates[n]
               chain == aborts.chains[n]
    <2>1. published = Bundle /\ BundleReportPasses /\ phase = "published"
        BY <1>1 DEF BundleInv, PublishedInv
    <2>2. registry \in Registries /\ n \in Nat \ {0} /\ DOMAIN registry = 1..n
        BY <1>1, RegistryFacts DEF BundleInv, TypeInv
    <2>3. Len(conflict.certificates) = n /\ Len(aborts.chains) = n
        BY <1>1, <2>1 DEF BundleInv, ProgressInv
    <2>4. /\ published[n].certificate = c /\ published[1].certificate = conflict.certificates[1]
          /\ published[n].transcript = chain.transcript /\ published[n].abort = chain.abort
        BY <2>1, <2>2 DEF Bundle
    <2>5. CertificateFact(c, conflict.codes[n], s, unknowns)
          /\ CertificateFact(conflict.certificates[1], conflict.codes[1], registry[1], unknowns)
        BY <1>1, <2>2, <2>3 DEF BundleInv, CertificateInv
    <2>6. conflict.codes[n] = {} /\ CrossReferences(Bundle[n])
        BY <2>1, <2>2 DEF BundleReportPasses
    <2>7. VerifyTranscript(chain.transcript, c) = {}
        BY <2>1, <2>4, <2>6 DEF CrossReferences
    <2>8. ChainFact(chain, s)
        BY <1>1, <2>2, <2>3 DEF BundleInv, ChainInv
    <2>9. /\ CommonSafeSet(s.initiator, s.responder) # {}
          /\ registry[1].session # s.session
          /\ \A k \in ConstraintsFor(s) : "source" \in DOMAIN k /\ k.source # 0
        <3>1. n \in DOMAIN registry
            BY <2>2
        <3>2. \A k \in ConstraintsFor(s) : "source" \in DOMAIN k /\ k.source # 0
            BY <2>2, <3>1, BundleAssumption, Zenon
        <3>3. CommonSafeSet(s.initiator, s.responder) # {} /\ registry[1].session # s.session
            BY <2>2, BundleAssumption, Zenon
        <3>4. QED
            BY <3>2, <3>3
    <2>10. s.initiator # {}
        BY <2>9 DEF CommonSafeSet
    <2> HIDE DEF n, s, c, chain
    <2>11. Intact("transcript", chain.transcript)
           /\ chain.transcript.payload.session = c.payload.session
        BY <2>7, CleanTranscript
    <2>12. Attackable(published[n], s, published[1].certificate)
        BY <2>4, <2>5, <2>6, <2>8, <2>9, <2>10, <2>11
        DEF Attackable, CertificateFact, ChainFact
    <2>13. QED
        BY <2>12 DEF n, s
<1>2. ASSUME BundleInv, published # None,
             NEW seen \in Observed(published[Len(registry)],
                                   ConstraintsFor(registry[Len(registry)]),
                                   published[1].certificate)
      PROVE  Rejected(seen)
    BY <1>1, <1>2, CertificateCases, TranscriptCases, AbortCases DEF Observed
<1>3. BundleInv => ReportedRejectionsHappen
    BY <1>2 DEF ReportedRejectionsHappen, Rejected
<1>4. QED
    BY <1>3, AlwaysBundleInv, PTL

-----------------------------------------------------------------------------

(* A directory path holds a version or nothing.                            *)
Dirs == Nat \cup {Absent}

SwapTypeOK ==
    /\ variant \in Variants
    /\ out \in Dirs /\ backup \in Dirs /\ staging \in Dirs
    /\ pc \in {"idle", "generate", "swap", "moveOld", "moveNew", "cleanup"}
    /\ replace \in BOOLEAN
    /\ version \in Nat
    /\ before \in Dirs /\ shown \in Dirs
    /\ last \in {"returned", "raised", "interrupted", "killed"}

(* What is on disk when the process comes to a step.  Up to the first      *)
(* rename readers find what the attempt found; between the renames the     *)
(* backup is exactly that, if there was anything.                          *)
StepFacts ==
    /\ pc \in {"generate", "swap", "moveOld"} => out = before
    /\ pc \in {"swap", "moveOld", "moveNew"} => staging = version
    /\ pc = "moveOld" =>
          out # Absent /\ (variant = "registration" => backup = Absent)
    /\ pc = "moveNew" => out = Absent /\ (before # Absent => backup = before)
    /\ pc = "cleanup" => out = version
    /\ pc \in {"moveNew", "cleanup"} /\ variant = "registration" =>
          backup \in {Absent, before}

BackupIsCurrent ==
    variant # "registration" /\ out = Absent /\ backup # Absent => backup = shown

SwapInv == SwapTypeOK /\ StepFacts /\ BackupIsCurrent /\ EvidenceOldOrNew /\ NothingOlderReturns

-----------------------------------------------------------------------------

(* Nothing has been published or moved yet.                                *)
LEMMA SwapInitEstablishes == SwapInit => SwapInv
  <1> SUFFICES ASSUME SwapInit PROVE SwapInv
    OBVIOUS
  <1>1. replace \in BOOLEAN
    BY Zenon DEF SwapInit
  <1>2. SwapTypeOK
    BY <1>1, VariantAssumption DEF SwapInit, SwapTypeOK, Dirs
  <1>3. StepFacts /\ BackupIsCurrent /\ EvidenceOldOrNew /\ NothingOlderReturns
    BY DEF SwapInit, StepFacts, BackupIsCurrent, EvidenceOldOrNew, OldOrNew,
           NothingOlderReturns
  <1> QED
    BY <1>2, <1>3 DEF SwapInv

(* The steps of an attempt in which nothing goes wrong, and the refusal to *)
(* replace a registration.                                                 *)
LEMMA AttemptPreserves ==
    ASSUME SwapInv, (\E rep \in BOOLEAN : Begin(rep)) \/ Generate \/ Swap \/ MoveOld
                     \/ MoveNew \/ Cleanup
    PROVE  SwapInv'
  <1> USE VariantAssumption DEF SwapInv, SwapTypeOK, Dirs, StepFacts, BackupIsCurrent,
          EvidenceOldOrNew, OldOrNew, NothingOlderReturns, Goto, End, dirs
  <1>1. ASSUME NEW rep \in BOOLEAN, Begin(rep) PROVE SwapInv'
    BY <1>1 DEF Begin
  <1>2. CASE Generate
    BY <1>2 DEF Generate
  <1>3. CASE Swap
    BY <1>3 DEF Swap
  <1>4. CASE MoveOld
    BY <1>4 DEF MoveOld
  <1>5. CASE MoveNew
    BY <1>5 DEF MoveNew
  <1>6. CASE Cleanup
    BY <1>6 DEF Cleanup
  <1> QED
    BY <1>1, <1>2, <1>3, <1>4, <1>5, <1>6

(* An exception, an interrupt or a kill at any step, with what each of the *)
(* three handlers does about it.                                           *)
LEMMA FaultPreserves ==
    ASSUME SwapInv, StepRaises \/ StepInterrupted \/ Kill
    PROVE  SwapInv'
  <1> USE VariantAssumption DEF SwapInv, SwapTypeOK, Dirs, StepFacts, BackupIsCurrent,
          EvidenceOldOrNew, OldOrNew, NothingOlderReturns, End, dirs
  <1>1. CASE StepRaises /\ variant = "registration"
    BY <1>1 DEF StepRaises, Handler, RegistrationHandler
  <1>2. CASE StepRaises /\ variant = "bundle"
    BY <1>2 DEF StepRaises, Handler, BundleHandler
  <1>3. CASE StepRaises /\ variant = "report"
    BY <1>3 DEF StepRaises, Handler, ReportHandler
  <1>4. CASE StepInterrupted
    BY <1>4 DEF StepInterrupted, RegistrationHandler
  <1>5. CASE Kill
    BY <1>5 DEF Kill
  <1> QED
    BY <1>1, <1>2, <1>3, <1>4, <1>5

(* Every step of an attempt preserves the invariant.                       *)
LEMMA SwapNextPreserves == SwapInv /\ [SwapNext]_swapVars => SwapInv'
  <1> SUFFICES ASSUME SwapInv, [SwapNext]_swapVars PROVE SwapInv'
    OBVIOUS
  <1>1. CASE UNCHANGED swapVars
    BY <1>1 DEF swapVars, SwapInv, SwapTypeOK, StepFacts, BackupIsCurrent, EvidenceOldOrNew,
                OldOrNew, NothingOlderReturns
  <1> QED
    BY <1>1, AttemptPreserves, FaultPreserves DEF SwapNext

(* The inductive invariant: at every step of every attempt, what is on     *)
(* disk is what the handlers of the three functions rely on.               *)
THEOREM AlwaysSwapInv == SwapSpec => []SwapInv
  BY SwapInitEstablishes, SwapNextPreserves, PTL DEF SwapSpec

(* generate_bundle and staged_report_dir leave the old directory or the    *)
(* new one after every attempt that returns or raises, whatever was left   *)
(* behind by attempts that were killed or interrupted before it.           *)
THEOREM EvidenceIsOldOrNew == SwapSpec => []EvidenceOldOrNew
  <1>1. SwapInv => EvidenceOldOrNew
    BY DEF SwapInv
  <1> QED
    BY <1>1, AlwaysSwapInv, PTL

(* No handler brings back a version older than the one published last (for *)
(* a registration, than the one the attempt found), and a published bundle *)
(* is on disk under one name or the other at every moment.                 *)
THEOREM NothingOlderEverReturns == SwapSpec => []NothingOlderReturns
  <1>1. SwapInv => NothingOlderReturns
    BY DEF SwapInv
  <1> QED
    BY <1>1, AlwaysSwapInv, PTL
=============================================================================
