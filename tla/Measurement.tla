----------------------------- MODULE Measurement -----------------------------
(***************************************************************************)
(* The measurement adapters of Stage 8 and the validator of their rows:    *)
(* each observation of the schedule is measured by the adapter of its      *)
(* kind, which turns every exception into a row; the rows are validated    *)
(* and the inventory of failures is derived from a valid run.              *)
(*                                                                         *)
(* A row keeps the fields the validator or the inventory reads.  What      *)
(* happened is kept beside the row, so that the two can be compared.       *)
(***************************************************************************)
EXTENDS ConcurrencyTrial

CONSTANTS
    Campaigns,       \* schedules to be measured
    Profiles,        \* the catalog
    Conflicts,       \* name -> the registered infeasible scenario
    RejectionCodes   \* the rejection code of each adversarial case

(* A trial asks for at least one session.                                  *)
ASSUME CampaignAssumption ==
    /\ None # "measurement_failure"
    /\ \A s \in Campaigns :
          /\ s \in Seq({s[i] : i \in DOMAIN s})
          /\ \A i \in DOMAIN s : s[i].kind = "concurrency" => s[i].level \in Workers

CC == INSTANCE ConflictCertificate

VARIABLES
    schedule, rows,
    failed,      \* for each row, whether something asked of it failed
    verdict,     \* of validate_run
    inventory    \* failure_inventory.json, or None

measureVars == <<schedule, rows, failed, verdict, inventory>>
campaignVars == <<trialVars, measureVars>>

MeasureInit ==
    /\ TrialInit
    /\ schedule \in Campaigns
    /\ rows = <<>> /\ failed = <<>> /\ verdict = "none" /\ inventory = None

Measuring == Len(rows) < Len(schedule)
Scheduled == schedule[Len(rows) + 1]
Is(kind) == Measuring /\ trial \in {"idle", "returned"} /\ Scheduled.kind = kind

(* The observation models, of the fields that are kept.                    *)
ValidObservation(row) ==
    /\ row.completed \in BOOLEAN
    /\ \/ row.kind \in {"feasible", "adversarial", "component"}
       \/ /\ row.kind = "infeasible" /\ row.state = "ABORTED"
          /\ {row.tls, row.task, row.fallback} \subseteq BOOLEAN
       \/ /\ row.kind = "concurrency"
          /\ {row.requested, row.successes, row.failed} \subseteq Int

(* validate_observation_row, on every way out of an adapter.               *)
Observe(row, bad) ==
    /\ ValidObservation(row)
    /\ rows' = Append(rows, row)
    /\ failed' = Append(failed, bad)
    /\ UNCHANGED <<schedule, verdict, inventory>>

(* The steps of measure_feasible, each of which may raise.                 *)
FeasibleSteps == {"fixture", "authorize", "agents", "tls", "groups", "task"}

(* measure_feasible                                                        *)
MeasureFeasible ==
    /\ Is("feasible")
    /\ \E broken \in FeasibleSteps \cup {None} :
        LET good == broken = None IN
        Observe([kind |-> "feasible", completed |-> good,
                 state |-> IF good THEN "COMPLETED" ELSE "FAILED",
                 groups |-> good,   \* requested and negotiated are there and match
                 class |-> IF good THEN None ELSE "measurement_failure"], ~good)
    /\ UNCHANGED trialVars

(* _infeasible_chain: what compute_ius found is certified under a new      *)
(* session; the solver's statistics are left out.                          *)
InfeasibleChain(name, ius) ==
    LET scenario == [Conflicts[name] EXCEPT !.session = <<name, Len(rows)>>]
        result == [ius |-> ius, original |-> Cardinality(CC!ConstraintsFor(scenario)),
                   coreSize |-> None, calls |-> None] IN
    CC!AbortChain(scenario, CC!Certificate(scenario, result))

(* The three verifications; open are the questions without an answer.      *)
ChainHolds(chain, all, open) ==
    /\ CC!VerifyCertificate(chain.certificate, all, open) = {}
    /\ CC!VerifyTranscript(chain.transcript, chain.certificate) = {}
    /\ CC!VerifyAbort(chain.abort, chain.certificate, chain.transcript) = {}

(* measure_infeasible: the chain is built and verified, and the row has    *)
(* its category; the row of a failure has none.  A conflict that could not *)
(* be shrunk for want of an answer fails its verification.                 *)
MeasureInfeasible ==
    LET name == Scheduled.scenario
        all == CC!ConstraintsFor(Conflicts[name]) IN
    /\ Is("infeasible")
    /\ \E ius \in SUBSET all, open \in SUBSET {"model", "ius"}, raised \in BOOLEAN :
        LET chain == InfeasibleChain(name, ius)
            good == ~raised /\ ChainHolds(chain, all, open) IN
        /\ CC!Unsat(ius)
        /\ Observe([kind |-> "infeasible", scenario |-> name, completed |-> good,
                    state |-> "ABORTED", tls |-> FALSE, task |-> FALSE, fallback |-> FALSE,
                    category |-> IF good THEN chain.certificate.payload.category ELSE None,
                    class |-> IF good THEN None ELSE "measurement_failure"], ~good)
    /\ UNCHANGED trialVars

AdversarialRow(case, good) ==
    [kind |-> "adversarial", completed |-> good, expected |-> RejectionCodes[case],
     observed |-> IF good THEN RejectionCodes[case] ELSE None, rejected |-> good, closed |-> good,
     task |-> FALSE, class |-> IF good THEN None ELSE "measurement_failure"]

(* measure_adversarial: once there is a fixture, _execute_attack always    *)
(* raises the rejection of the case, and what it invoked before is lost.   *)
MeasureAdversarial ==
    /\ Is("adversarial")
    /\ \E good \in BOOLEAN : Observe(AdversarialRow(Scheduled.case, good), ~good)
    /\ UNCHANGED trialVars

(* Mutant: a batch with missing records is not classified.                 *)
ComponentRowUnclassified(records, raised) ==
    [kind |-> "component", completed |-> ~raised /\ records,
     class |-> IF raised THEN "measurement_failure" ELSE None]

ComponentRow(records, raised) ==
    [kind |-> "component", completed |-> ~raised /\ records,
     class |-> IF raised \/ ~records THEN "measurement_failure" ELSE None]

(* measure_component: the native signer may return too few records; every  *)
(* other operation succeeds or raises.                                     *)
MeasureComponent ==
    /\ Is("component")
    /\ \E records \in (IF Scheduled.native THEN BOOLEAN ELSE {TRUE}), raised \in BOOLEAN :
        Observe(ComponentRow(records, raised), raised \/ ~records)
    /\ UNCHANGED trialVars

MeasureConcurrency ==
    /\ Is("concurrency")
    /\ BeginTrial(Scheduled.level)
    /\ UNCHANGED measureVars

TrialStep ==
    /\ TrialNext
    /\ IF trial' = "returned" /\ trial = "account"
       THEN Observe(TrialRow(results'), \E w \in Taking : session[w] # "completed")
       ELSE UNCHANGED measureVars

----------------------------------------------------------------------------
Of(kind) == {i \in DOMAIN rows : rows[i].kind = kind}

(* _validate_feasible                                                      *)
FeasibleErrors ==
    {i \in Of("feasible") :
        ~rows[i].completed \/ rows[i].state # "COMPLETED" \/ ~rows[i].groups}

(* _validate_infeasible: row["final_category"] must be there.              *)
CategoryMissing == \E i \in Of("infeasible") : rows[i].category = None
InfeasibleErrors ==
    {i \in Of("infeasible") :
        \/ rows[i].tls \/ rows[i].task \/ rows[i].fallback \/ rows[i].state # "ABORTED"
        \/ \E j \in Of("infeasible") : /\ rows[j].scenario = rows[i].scenario
                                       /\ rows[j].category # rows[i].category}

(* _validate_adversarial                                                   *)
AdversarialErrors ==
    {i \in Of("adversarial") : \/ ~rows[i].rejected \/ ~rows[i].closed \/ rows[i].task
                               \/ rows[i].expected # rows[i].observed}

(* _validate_concurrency                                                   *)
ConcurrencyErrors ==
    {i \in Of("concurrency") : \/ rows[i].requested > 16
                               \/ rows[i].successes + rows[i].failed # rows[i].requested}

(* validate_run, the part about what the rows say.                         *)
ValidateRun ==
    /\ ~Measuring /\ verdict = "none" /\ trial \in {"idle", "returned"}
    /\ verdict' = IF CategoryMissing THEN "raised"
                  ELSE IF /\ \A i \in DOMAIN rows : ValidObservation(rows[i])
                          /\ FeasibleErrors \cup InfeasibleErrors \cup AdversarialErrors
                             \cup ConcurrencyErrors = {} THEN "valid"
                  ELSE "invalid"
    /\ UNCHANGED <<trialVars, schedule, rows, failed, inventory>>

FailedSessions(row) == IF row.kind = "concurrency" THEN row.failed ELSE 0

(* analyze_inventory, the list of failures.                                *)
Analyze ==
    /\ verdict = "valid" /\ inventory = None
    /\ inventory' = {i \in DOMAIN rows : rows[i].class # None \/ FailedSessions(rows[i]) # 0}
    /\ UNCHANGED <<trialVars, schedule, rows, failed, verdict>>

MeasureNext ==
    \/ MeasureFeasible \/ MeasureInfeasible \/ MeasureAdversarial \/ MeasureComponent
    \/ MeasureConcurrency \/ TrialStep \/ ValidateRun \/ Analyze

MeasureSpec == MeasureInit /\ [][MeasureNext]_campaignVars

(* The parent and the clock go on; a worker need not.                      *)
FairMeasureSpec ==
    /\ MeasureSpec
    /\ WF_campaignVars(Deadline /\ UNCHANGED measureVars)
    /\ WF_campaignVars(Parent /\ TrialStep)
-----------------------------------------------------------------------------
LeftResult(w) == \E i \in DOMAIN results : results[i].pid = w

(* Every process of a trial is accounted for once: there are never more    *)
(* results than processes, whatever arrived while they were terminated;    *)
(* the row is complete unless a process outlasts its termination without   *)
(* having left a result; and a success is a session that completed.        *)
TrialIsAccounted ==
    trial = "returned" =>
        /\ Len(results) <= level
        /\ \A i, j \in DOMAIN results :
              results[i].pid = results[j].pid /\ i # j => results[i].pid = None
        /\ Len(results) < level =>
              \E w \in Taking : worker[w] \in {"stuck", "ended"} /\ ~LeftResult(w)
                                /\ exitcode[w] \in {None, "terminated"}
        /\ \A i \in Successes : session[results[i].pid] = "completed"

(* A trial returns though a worker that died before the barrier leaves all *)
(* others waiting in it for ever: no worker is assumed to make progress.   *)
TrialReturns == trial = "start" ~> trial = "returned"

(* A failure cannot get lost between the measurement and the inventory: in *)
(* a run that validates, no feasible, infeasible or adversarial            *)
(* measurement failed, and every concurrency trial and component batch     *)
(* that failed is in the inventory of failures.                            *)
NoFailureIsHidden ==
    /\ verdict = "valid" => \A i \in DOMAIN rows :
            failed[i] => rows[i].kind \in {"concurrency", "component"}
    /\ inventory # None => {i \in DOMAIN rows : failed[i]} \subseteq inventory
=============================================================================
