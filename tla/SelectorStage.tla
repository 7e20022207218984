---------------------------- MODULE SelectorStage ----------------------------
(***************************************************************************)
(* validate_selector_stage: the cost evidence is loaded, both sides of a   *)
(* scenario are compiled (_compile_side, with PolicyCompiler's steps), a   *)
(* profile is selected from what is safe for both and reported with its    *)
(* sensitivity analyses, and the stage's verdict is drawn.  An exception   *)
(* in a scenario is collected as an error; one before the scenarios ends   *)
(* the stage.                                                              *)
(*                                                                         *)
(* The first call of the compiler is the initiator's and the second the    *)
(* responder's when both are about one task at one time; two calls about   *)
(* different tasks belong to two scenarios and nothing is selected.        *)
(***************************************************************************)
EXTENDS PolicyCompiler, Selector, SequencesExt

CONSTANTS
    Evidences,        \* what the evidence directory may hold
    PreferenceFiles,  \* what may be found as an agent's preference
    ExpectedCommon, ExpectedFrontier   \* of the capability-ablation scenario

(* AgentCostPreference: no weight is negative and they add up.             *)
Preferences == [agent : Agents, weights : WeightGrid]

(* Every profile of the catalog has a group, and costs are numbers.        *)
ASSUME StageAssumption ==
    /\ PreferenceFiles \subseteq Preferences
    /\ DOMAIN GroupOf = Positions
    /\ \A e \in Evidences : \A i \in DOMAIN e.entries : e.entries[i].point \in [Metrics -> Int]

VARIABLES
    stage,       \* where the stage is
    evidence,    \* the directory's content
    report       \* the scenario's report, or the error it ended with

stageVars == <<stage, evidence, report>>
allVars == <<vars, stageVars>>

StageInit ==
    /\ Init
    /\ stage = "load"
    /\ evidence \in Evidences
    /\ report = [status |-> "none"]

(* load_selector_cost_evidence and the point anchors, before any scenario  *)
LoadEvidence ==
    /\ stage = "load"
    /\ stage' = IF EvidenceLoads(evidence) /\ AnchorsExist(VectorsFor(evidence, Point))
                THEN "compile" ELSE "raised"
    /\ UNCHANGED <<vars, evidence, report>>

(* derive_requirement as a fold, for tasks that are not compiled.          *)
DeriveRequirement(policy, task) ==
    FoldLeft(LAMBDA req, r : IF Matches(r.condition, task)
                             THEN ApplyTo(r.contribution, req) ELSE req,
             policy.base, policy.rules)

SessionValues(policy) ==
    LET minima == {RankJoin(policy.rules[j].condition.seconds, 1) : j \in DOMAIN policy.rules} IN
    {1, 86400} \cup minima \cup {RankMeet(s + 1, 86400) : s \in minima}

(* validate_mapper_monotonicity: each task of the grid against its         *)
(* neighbour in each ordered dimension.                                    *)
MapperMonotone(policy) ==
    LET seconds == SessionValues(policy)
        grid == [sensitivity : 0..3, impact : Ranks, horizon : Ranks, delegation : 0..8,
                 seconds : seconds, network : Networks, class : Classes]
        later(s) == {x \in seconds : x > s /\ \A y \in seconds : y > s => x <= y}
        above(t) ==
            {[t EXCEPT !.sensitivity = @ + 1], [t EXCEPT !.impact = @ + 1],
             [t EXCEPT !.horizon = @ + 1], [t EXCEPT !.delegation = @ + 1]}
            \cup {[t EXCEPT !.seconds = s] : s \in later(t.seconds)} IN
    \A t \in grid : \A u \in above(t) :
        u \in grid => RequirementDominates(DeriveRequirement(policy, u),
                                          DeriveRequirement(policy, t))

(* monotonicity_cache                                                      *)
Monotone == [p \in {in.policy : in \in Inputs} |-> MapperMonotone(p)]

(* _compile_side: the responder is compiled when the initiator's           *)
(* compilation has returned.                                               *)
Compiling == stage = "compile" /\ \A c \in 1..(call - 1) : Done(c)

CompileSide ==
    /\ Compiling
    /\ pc = "validate" => Monotone[In.policy]
    /\ Next
    /\ UNCHANGED stageVars

Fails(why) ==
    /\ report' = [status |-> why] /\ stage' = "conclude"
    /\ UNCHANGED <<vars, evidence>>

SideFails ==
    /\ stage = "compile"
    /\ \/ \E c \in 1..(call - 1) : ~Done(c)
       \/ pc = "validate" /\ ~Monotone[In.policy]
    /\ Fails("compilation")

SameScenario == input[1].task = input[2].task /\ input[1].time = input[2].time

OtherScenarios ==
    /\ Compiling /\ pc = "done" /\ ~SameScenario
    /\ stage' = "over"
    /\ UNCHANGED <<vars, evidence, report>>

(* common_safe_set                                                         *)
CommonSafeSet == result[1].safe \cap result[2].safe

(* build_selection_input: what the result's hash covers.                   *)
SelectionInput(pi, pr) ==
    [task |-> input[1].task, time |-> input[1].time, preferences |-> <<pi, pr>>,
     compilations |-> <<result[1].safe, result[2].safe>>]

(* run_bilateral_selector                                                  *)
RunBilateralSelector(pi, pr) ==
    SelectFromSafeSet(SelectionInput(pi, pr), CommonSafeSet, VectorsFor(evidence, Point))

(* The scenario's part of validate_selector_stage after the compilations:  *)
(* the selection, its analyses and the report.                             *)
Report(selection, wi, wr) ==
    LET vs == VectorsFor(evidence, Point)
        common == selection.common
        byCase == ByCase(common, evidence, wi, wr)
        byWeights == ByWeights(common, vs) IN
    [status |-> "ok", selection |-> selection, byCase |-> byCase, byWeights |-> byWeights,
     underUncertainty |-> Classification(selection.mode, selection.selected,
        {byCase[c] : c \in Cases},
        "uncertainty_robust_selection", "uncertainty_sensitive_selection"),
     underPreferences |-> Classification(selection.mode, selection.selected, byWeights,
        "preference_robust_selection", "preference_sensitive_selection"),
     baselines |-> BaselineReport(common, evidence, wi, wr),
     byMethod |-> [m \in Methods |-> SafeMethodOverride(m, common, vs, wi, wr)]]

Select(pi, pr) ==
    /\ Compiling /\ pc = "done" /\ SameScenario
    /\ \/ /\ pi.agent # input[1].policy.agent \/ pr.agent # input[2].policy.agent
          /\ Fails("preference agent")
       \/ /\ pi.agent = input[1].policy.agent /\ pr.agent = input[2].policy.agent
          /\ \/ CommonSafeSet = {} /\ Fails("empty common safe set")
             \/ /\ CommonSafeSet # {}
                /\ \E c \in Cases : ~AnchorsExist(VectorsFor(evidence, c))
                /\ Fails("zero denominator")
             \/ /\ CommonSafeSet # {}
                /\ \A c \in Cases : AnchorsExist(VectorsFor(evidence, c))
                /\ report' = Report(RunBilateralSelector(pi, pr), pi.weights, pr.weights)
                /\ stage' = "conclude"
                /\ UNCHANGED <<vars, evidence>>

(* The checks on the ablation scenario and main_report.                    *)
DrawConclusion ==
    LET vs == VectorsFor(evidence, Point)
        selection == report.selection IN
    /\ stage = "conclude"
    /\ stage' =
          IF /\ report.status = "ok"
             /\ selection.common = ExpectedCommon /\ selection.frontier = ExpectedFrontier
             /\ selection.mode = "bilateral_minimax_regret"
             /\ selection.common # selection.frontier
             /\ GridErrors(selection.frontier, Normalized(vs)) = {}
          THEN "passed" ELSE "failed"
    /\ UNCHANGED <<vars, evidence, report>>

StageNext ==
    \/ LoadEvidence \/ CompileSide \/ SideFails \/ OtherScenarios
    \/ \E pi, pr \in PreferenceFiles : Select(pi, pr)
    \/ DrawConclusion

StageSpec == StageInit /\ [][StageNext]_allVars

-----------------------------------------------------------------------------

(* The selected profile is safe for both sides, no profile that is safe    *)
(* for both is at most as costly everywhere and cheaper somewhere, and     *)
(* none, the ones the Pareto filter removed included, has a smaller        *)
(* maximum regret against the best of all that is safe for both.  What was *)
(* removed is explained by a profile that stayed.  The campaign selects    *)
(* the same, and none of its methods a dominated profile.                  *)
SelectionIsFair ==
    report.status = "ok" =>
        LET sel == report.selection
            vs == VectorsFor(evidence, Point)
            rows == RegretRows(sel.common, Normalized(vs),
                sel.input.preferences[1].weights, sel.input.preferences[2].weights) IN
        /\ sel.selected \in result[1].safe \cap result[2].safe
        /\ \A i \in sel.common :
              /\ rows[sel.selected].maximum <= rows[i].maximum
              /\ \A m \in Methods : ~CostDominates(vs[i], vs[report.byMethod[m]])
        /\ \A i \in sel.removed : sel.candidates[i].dominating \cap sel.frontier # {}
        /\ report.byMethod["minimax"] = sel.selected

(* What the report calls structural really is: whatever the two sides      *)
(* weigh, the same profile is chosen, and neither side would be better off *)
(* with any other profile that is safe for both.                           *)
StructuralIsUnanimous ==
    report.status = "ok" /\ report.selection.mode # "bilateral_minimax_regret" =>
        LET sel == report.selection IN
        /\ report.byWeights = {sel.selected}
        /\ \A wi, wr \in WeightGrid :
              RegretRows(sel.common, Normalized(VectorsFor(evidence, Point)), wi, wr)
                  [sel.selected].maximum = 0
=============================================================================
