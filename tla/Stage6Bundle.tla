---------------------------- MODULE Stage6Bundle ----------------------------
(***************************************************************************)
(* validate_stage6: the conflict component certifies every registered      *)
(* scenario, the abort component certifies them a second time and builds   *)
(* failure transcripts and abort records on its own certificates, and the  *)
(* bundle takes the certificates of the one and the transcripts and        *)
(* aborts of the other.  It is published only when its report passes.      *)
(*                                                                         *)
(* The solver answers unsat or sat as it should, or unknown; the core it   *)
(* returns is any unsatisfiable part of the constraints.  compute_ius      *)
(* takes one step per question.  Everything is written to a staging        *)
(* directory; its replacement of the old one is DirectorySwap's subject.   *)
(***************************************************************************)
EXTENDS ConflictCertificate, Sequences
LOCAL INSTANCE SequencesExt

CONSTANTS
    Registries,      \* what registered_infeasible_scenarios may return
    ScenarioIds,     \* INFEASIBLE_SCENARIO_IDS
    FeasibleIds,     \* FEASIBLE_SCENARIO_IDS
    InfeasibleCount, FeasibleCount, CaseCount,   \* the counts asked of a bundle
    MaxUnknown       \* bound on the answers "unknown"

(* There is a scenario to certify, and its constraints are finitely many;  *)
(* sorting them by ID lists each of them.  No policy hashes to zero, the   *)
(* last scenario is in conflict though the two safe sets meet, and the     *)
(* first has a session of its own.                                         *)
ASSUME BundleAssumption ==
    /\ MaxUnknown \in Nat
    /\ \A r \in Registries :
          /\ r # <<>> /\ r \in Seq({r[i] : i \in DOMAIN r})
          /\ \A i \in DOMAIN r :
                /\ IsFiniteSet(r[i].extra)
                /\ \A s \in SUBSET ConstraintsFor(r[i]) :
                      {ById(s)[j] : j \in 1..Cardinality(s)} = s
                /\ \A k \in ConstraintsFor(r[i]) : "source" \in DOMAIN k /\ k.source # 0
          /\ CommonSafeSet(r[Len(r)].initiator, r[Len(r)].responder) # {}
          /\ r[1].session # r[Len(r)].session

VARIABLES
    registry,    \* the registered scenarios, in order
    contracts,   \* what Stage 5 left of each feasible scenario's contract
    phase,       \* the component at work, or how the generation ended
    at,          \* the scenario it is at
    search,      \* compute_ius: where it is, or idle
    unknowns,    \* how many answers were "unknown"
    conflict,    \* the conflict component's directory and report
    aborts,      \* the abort component's
    published    \* the bundle readers see, or None

vars == <<registry, contracts, phase, at, search, unknowns, conflict, aborts, published>>

Idle == [at |-> 0]
Running == {"certificates", "aborts", "records", "bundle"}
Scenario == registry[at]

Init ==
    /\ registry \in Registries
    /\ contracts \in [FeasibleIds -> {"intact", "altered", "missing"}]
    /\ phase = "certificates"
    /\ at = 1
    /\ search = Idle
    /\ unknowns = 0
    /\ conflict = [certificates |-> <<>>, remediation |-> <<>>, codes |-> <<>>]
    /\ aborts = [chains |-> <<>>, passed |-> <<>>]
    /\ published = None

(* What the solver may answer, and what the answer costs the bound.        *)
Answers(constraints) ==
    {IF Unsat(constraints) THEN "unsat" ELSE "sat"}
    \cup (IF unknowns < MaxUnknown THEN {"unknown"} ELSE {})
Count(unanswered) == unknowns' = unknowns + (IF unanswered THEN 1 ELSE 0)

(* An exception leaves the staging directory to be deleted.                *)
Raise == phase' = "failed" /\ search' = Idle

(* compute_ius, the tracked question and the core.                         *)
Solve ==
    /\ phase \in {"certificates", "aborts"}
    /\ search = Idle
    /\ \E answer \in Answers(ConstraintsFor(Scenario)) :
        /\ Count(answer = "unknown")
        /\ IF answer = "unsat"
           THEN /\ \E core \in SUBSET ConstraintsFor(Scenario) :
                    /\ Unsat(core)
                    /\ search' = [at |-> 1, remaining |-> core, coreSize |-> Cardinality(core),
                                  calls |-> 1]
                /\ phase' = phase
           ELSE Raise
    /\ UNCHANGED <<registry, contracts, at, conflict, aborts, published>>

(* Mutant: the search ends with the first constraint it could drop.        *)
DropOnce(k) ==
    search' = [search EXCEPT !.remaining = Remainder(@, k),
                             !.at = Cardinality(search.remaining), !.calls = @ + 1]

(* The constraint at hand is not needed: the loop starts again.            *)
Drop(k) ==
    search' = [search EXCEPT !.remaining = Remainder(@, k), !.at = 1, !.calls = @ + 1]

(* compute_ius, one question of the deletion loop.                         *)
Shrink ==
    /\ search # Idle
    /\ search.at <= Cardinality(search.remaining)
    /\ LET k == ById(search.remaining)[search.at] IN
       \E answer \in Answers(Remainder(search.remaining, k)) :
        /\ Count(answer = "unknown")
        /\ IF answer = "unsat" THEN Drop(k)
           ELSE search' = [search EXCEPT !.at = @ + 1, !.calls = @ + 1]
    /\ UNCHANGED <<registry, contracts, phase, at, conflict, aborts, published>>

Found == search # Idle /\ search.at > Cardinality(search.remaining)
Result == [ius |-> search.remaining, original |-> Cardinality(ConstraintsFor(Scenario)),
           coreSize |-> search.coreSize, calls |-> search.calls]
Advance(next) ==
    /\ search' = Idle
    /\ IF at = Len(registry) THEN phase' = next /\ at' = 1 ELSE phase' = phase /\ at' = at + 1

(* Questions of a verification, or of a relaxation, that stay open.        *)
Open == {o \in SUBSET {"model", "ius"} : unknowns + Cardinality(o) <= MaxUnknown}
Unlisted == {o \in {{}} \cup {{p} : p \in Profiles} : unknowns + Cardinality(o) <= MaxUnknown}

(* _write_conflict_artifacts, one scenario.                                *)
WriteCertificate ==
    /\ phase = "certificates"
    /\ Found
    /\ \E open \in Open, unlisted \in Unlisted :
        LET certificate == Certificate(Scenario, Result)
            codes == VerifyCertificate(certificate, ConstraintsFor(Scenario), open) IN
        /\ unknowns + Cardinality(open) + Cardinality(unlisted) <= MaxUnknown
        /\ unknowns' = unknowns + Cardinality(open) + Cardinality(unlisted)
        /\ conflict' = [certificates |-> Append(conflict.certificates, certificate),
                        remediation |-> Append(conflict.remediation,
                                               Remediation(certificate, unlisted)),
                        codes |-> Append(conflict.codes, codes)]
    /\ Advance("aborts")
    /\ UNCHANGED <<registry, contracts, aborts, published>>

(* _build_abort_chain: all chains are built before the first is written.   *)
BuildAbortChain ==
    /\ phase = "aborts"
    /\ Found
    /\ aborts' = [aborts EXCEPT !.chains =
                    Append(@, AbortChain(Scenario, Certificate(Scenario, Result)))]
    /\ Advance("records")
    /\ UNCHANGED <<registry, contracts, unknowns, conflict, published>>

(* _write_abort_chain                                                      *)
WriteAbortChain ==
    /\ phase = "records"
    /\ \E open \in Open :
        LET chain == aborts.chains[at]
            p == chain.abort.payload IN
        /\ unknowns' = unknowns + Cardinality(open)
        /\ aborts' = [aborts EXCEPT !.passed = Append(@,
                /\ VerifyCertificate(chain.certificate, ConstraintsFor(Scenario), open) = {}
                /\ VerifyTranscript(chain.transcript, chain.certificate) = {}
                /\ VerifyAbort(chain.abort, chain.certificate, chain.transcript) = {}
                /\ p.selected = None /\ ~p.contract /\ ~p.fallback)]
    /\ Advance("bundle")
    /\ UNCHANGED <<registry, contracts, conflict, published>>

(* build_feasible_regression_report: a missing contract is an error and    *)
(* leaves no row.                                                          *)
FeasibleRows == {i \in FeasibleIds : contracts[i] # "missing"}
FeasiblePassed == \A i \in FeasibleIds : contracts[i] = "intact"

(* ADVERSARIAL_ATTACKS: what is altered and the code that is reported for  *)
(* it.  build_adversarial_report writes the table down as observed.        *)
Cases ==
    {<<"removed-conflict-constraint", "IUS_INVALID">>,
     <<"added-unrelated-constraint", "CERTIFICATE_HASH_MISMATCH">>,
     <<"modified-source-hash", "CERTIFICATE_HASH_MISMATCH">>,
     <<"false-empty-common-safe-set-claim", "COMMON_SAFE_SET_MISMATCH">>,
     <<"false-IUS-minimality-claim", "IUS_INVALID">>,
     <<"satisfiable-set-presented-as-unsatisfiable", "MODEL_NOT_UNSAT">>,
     <<"modified-conflict-category", "CATEGORY_MISMATCH">>,
     <<"modified-certificate-hash", "CERTIFICATE_HASH_MISMATCH">>,
     <<"modified-failure-transcript", "TRANSCRIPT_HASH_MISMATCH">>,
     <<"selected-profile-attached-after-abort", "SELECTED_PROFILE_AFTER_ABORT">>,
     <<"trust-contract-attached-after-abort", "CONTRACT_AFTER_ABORT">>,
     <<"fallback-attempted-changed-to-true", "FALLBACK_AFTER_ABORT">>,
     <<"replayed-failure-session", "SESSION_MISMATCH">>,
     <<"certificate-from-another-session", "SESSION_MISMATCH">>,
     <<"tampered-commit-reveal-transcript", "COMMITMENT_MISMATCH">>}

Names(scenarios) == [i \in DOMAIN scenarios |-> scenarios[i].name]

(* What the bundle holds: the conflict component's certificates with the   *)
(* abort component's transcripts and records.                              *)
Bundle ==
    [i \in DOMAIN registry |->
        [certificate |-> conflict.certificates[i],
         transcript |-> aborts.chains[i].transcript, abort |-> aborts.chains[i].abort]]

(* Mutant: each artifact is looked at, their references are not.           *)
CrossReferencesOnlySessions(chain) ==
    /\ chain.certificate.payload.session = chain.transcript.payload.session
    /\ chain.transcript.payload.session = chain.abort.payload.session

(* _validate_cross_references, for one scenario.                           *)
CrossReferences(chain) ==
    /\ VerifyTranscript(chain.transcript, chain.certificate) = {}
    /\ VerifyAbort(chain.abort, chain.certificate, chain.transcript) = {}
    /\ chain.certificate.payload.session = chain.transcript.payload.session
    /\ chain.transcript.payload.session = chain.abort.payload.session

(* _validate_taxonomy, for one certificate.                                *)
Taxonomy(certificate) ==
    certificate.payload.category = ClassifyConflict(certificate.payload.constraints)

(* _bundle_report: files are named by scenario, so two scenarios of one    *)
(* name leave one file.                                                    *)
BundleReportPasses ==
    LET names == Names(registry) IN
    /\ IsInjective(names) /\ ToSet(names) = ToSet(ScenarioIds)
    /\ Cardinality(ToSet(names)) = InfeasibleCount
    /\ FeasibleRows = FeasibleIds /\ Cardinality(FeasibleRows) = FeasibleCount
    /\ Cardinality(Cases) = CaseCount
    /\ \A i \in DOMAIN registry : Taxonomy(Bundle[i].certificate) /\ CrossReferences(Bundle[i])
    /\ \A i \in DOMAIN registry : conflict.codes[i] = {}
    /\ Len(registry) = Len(ScenarioIds)
    /\ names = ScenarioIds
    /\ \A i \in DOMAIN registry : aborts.passed[i]
    /\ FeasiblePassed

(* build_stage6_bundle from the copies on: the checksums are written over  *)
(* the files and compared with them at once.                               *)
PublishBundle ==
    /\ phase = "bundle"
    /\ IF BundleReportPasses
       THEN phase' = "published" /\ published' = Bundle
       ELSE phase' = "failed" /\ published' = published
    /\ UNCHANGED <<registry, contracts, at, search, unknowns, conflict, aborts>>

(* Any other exception: the Stage 5 report is unreadable, a file cannot be *)
(* written.                                                                *)
Interrupt ==
    /\ phase \in Running
    /\ Raise
    /\ UNCHANGED <<registry, contracts, at, unknowns, conflict, aborts, published>>

Next == \/ Solve \/ Shrink \/ WriteCertificate \/ BuildAbortChain \/ WriteAbortChain
        \/ PublishBundle \/ Interrupt

Spec == Init /\ [][Next]_vars
-----------------------------------------------------------------------------
Minimal(scenario, ius) ==
    /\ ius \subseteq ConstraintsFor(scenario)
    /\ Unsat(ius)
    /\ \A k \in ius : ~Unsat(Remainder(ius, k))

(* The conflict of a certificate is one of the scenario's own constraints, *)
(* unsatisfiable and irreducible, whatever core the solver returned: in    *)
(* every certificate when the solver answered all questions, and in every  *)
(* published one even when it did not (compute_ius keeps a constraint it   *)
(* got no answer for; verify_ius must notice).                             *)
ConflictIsMinimal ==
    \A i \in DOMAIN conflict.certificates :
        unknowns = 0 \/ published # None =>
            Minimal(registry[i], conflict.certificates[i].payload.constraints)

(* The parts of a published chain are about each other though two          *)
(* components made them with two searches of their own: the transcript     *)
(* names this certificate, the abort record names both, they are about one *)
(* session, and the session ends with no profile, contract or fallback.    *)
PublishedChainIsBound ==
    published # None => \A i \in DOMAIN registry :
        LET chain == published[i]
            abort == chain.abort.payload IN
        /\ chain.transcript.payload.certificate = Hash("certificate", chain.certificate.payload)
        /\ abort.certificate = Hash("certificate", chain.certificate.payload)
        /\ abort.transcript = Hash("transcript", chain.transcript.payload)
        /\ abort.session = registry[i].session
        /\ chain.transcript.payload.session = registry[i].session
        /\ chain.certificate.payload.session = registry[i].session
        /\ abort.reason = chain.certificate.payload.category
        /\ abort.selected = None /\ ~abort.contract /\ ~abort.fallback

(* An artifact with another payload under the hash it had, and what the    *)
(* verifier of a certificate, of a transcript or of an abort record says   *)
(* when one field was altered.                                             *)
Altered(artifact, field, value) ==
    [payload |-> [artifact.payload EXCEPT ![field] = value], hash |-> artifact.hash]
AlteredCertificate(chain, all, field, value) ==
    VerifyCertificate(Altered(chain.certificate, field, value), all, {})
AlteredTranscript(chain, field, value) ==
    VerifyTranscript(Altered(chain.transcript, field, value), chain.certificate)
AlteredAbort(chain, field, value) ==
    VerifyAbort(Altered(chain.abort, field, value), chain.certificate, chain.transcript)

(* Every alteration of the listed kinds, with the codes reported for it.   *)
ObservedOfCertificate(chain, all) ==
    LET cert == chain.certificate
        ius == cert.payload.constraints
        other == Hash("altered", cert.payload) IN
    {<<"removed-conflict-constraint",
       AlteredCertificate(chain, all, "constraints", Remainder(ius, k))>> : k \in ius}
    \cup {<<"added-unrelated-constraint",
            AlteredCertificate(chain, all, "constraints", ius \cup {k})>> : k \in all \ ius}
    \cup {<<"false-IUS-minimality-claim",
            AlteredCertificate(chain, all, "constraints", ius \cup {k})>> : k \in all \ ius}
    \cup {<<"modified-source-hash",
            AlteredCertificate(chain, all, "constraints",
                               Remainder(ius, k) \cup {[k EXCEPT !.source = 0]})>> : k \in ius}
    \cup {<<"satisfiable-set-presented-as-unsatisfiable",
            AlteredCertificate(chain, s, "constraints", s)>> :
            s \in {r \in SUBSET all : ~Unsat(r)}}
    \cup {<<"modified-conflict-category", AlteredCertificate(chain, all, "category", None)>>,
          <<"modified-certificate-hash",
            VerifyCertificate([payload |-> cert.payload, hash |-> other], all, {})>>}

ObservedOfTranscript(chain, another) ==
    LET session == chain.certificate.payload.session IN
    {<<"false-empty-common-safe-set-claim", AlteredTranscript(chain, "common", {})>>,
     <<"modified-failure-transcript", AlteredTranscript(chain, "abort", Hash("altered", None))>>,
     <<"replayed-failure-session",
       AlteredTranscript(chain, "session", another.payload.session)>>,
     <<"certificate-from-another-session", VerifyTranscript(chain.transcript, another)>>,
     <<"tampered-commit-reveal-transcript",
       AlteredTranscript(chain, "initiatorReveal", Reveal(session, "initiator", {}))>>}

ObservedOfAbort(chain) ==
    {<<"selected-profile-attached-after-abort", AlteredAbort(chain, "selected", p)>> :
        p \in Profiles}
    \cup {<<"trust-contract-attached-after-abort", AlteredAbort(chain, "contract", TRUE)>>,
          <<"fallback-attempted-changed-to-true", AlteredAbort(chain, "fallback", TRUE)>>}

Observed(chain, all, another) ==
    ObservedOfCertificate(chain, all) \cup ObservedOfTranscript(chain, another)
    \cup ObservedOfAbort(chain)

(* The report of adversarial cases is a table and not the outcome of any   *)
(* check; what it claims is nevertheless true: for the chain of the        *)
(* scenario it names, the last one registered, every alteration of the     *)
(* listed kinds makes the verifiers report the listed code.                *)
ReportedRejectionsHappen ==
    published # None =>
        LET last == Len(registry) IN
        \A case \in Cases, seen \in Observed(published[last], ConstraintsFor(registry[last]),
                                             published[1].certificate) :
            seen[1] = case[1] => case[2] \in seen[2]
=============================================================================
