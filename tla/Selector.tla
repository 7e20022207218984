------------------------------ MODULE Selector ------------------------------
(***************************************************************************)
(* The bilateral selector as operators: cost evidence, normalisation,      *)
(* Pareto filter, regrets, the lexicographic choice, its baselines and its *)
(* sensitivity analyses (negotiation/cost_evidence.py, normalization.py,   *)
(* pareto.py, regret.py, selector.py, sensitivity.py).                     *)
(*                                                                         *)
(* A metric's cost is a positive number.  Normalised values are fractions  *)
(* with the ranges of the three metrics as denominators, so they are kept  *)
(* as integers over the product of the ranges, and weighted costs over     *)
(* that product times the weight unit: comparisons are exact.  The code    *)
(* computes in Decimal, which rounds a quotient to 28 digits; that two     *)
(* costs equal as fractions may differ in the last digit is left out.      *)
(***************************************************************************)
EXTENDS Integers, FiniteSets, FiniteSetsExt

CONSTANTS
    Unit,        \* what weights add up to: 10000 basis points, in grid steps
    GroupOf,     \* profile -> TLS group, from the catalog
    CatalogHash,
    Blocks       \* EXPECTED_COMPLETE_PAIRED_BLOCKS

Timing == {"wall_time", "process_cpu_time"}
Metrics == Timing \cup {"total_handshake_bytes"}
Runs == {"baseline", "confirmatory"}
Files == {"selector", "gate", "manifest"}

Total(f) == f["wall_time"] + f["process_cpu_time"] + f["total_handshake_bytes"]
Product(f) == f["wall_time"] * f["process_cpu_time"] * f["total_handshake_bytes"]

ASSUME SelectorAssumption == Unit \in Nat \ {0}

-----------------------------------------------------------------------------
(* Cost evidence                                                           *)

(* _validate_gate: absolute stability must still be visible as failed.     *)
GateHolds(g) ==
    /\ g.usable /\ g.relative /\ ~g.absolute
    /\ g.blocks = Blocks
    /\ DOMAIN g.profiles = DOMAIN GroupOf
    /\ \A i \in DOMAIN g.profiles :
          g.profiles[i].relative /\ g.profiles[i].group = GroupOf[i]

(* _validate_manifest                                                      *)
ManifestHolds(a) ==
    /\ a.compatible
    /\ \A r \in Runs : a.intact[r] /\ a.catalog[r] = CatalogHash
    /\ a.design["baseline"] = a.design["confirmatory"]
    /\ DOMAIN a.checksums = Runs

(* _parse_profiles and _parse_interval, for one profile.                   *)
EntryHolds(i, x, a) ==
    /\ x.group = GroupOf[i] /\ x.catalog = CatalogHash
    /\ x.checksums = a.checksums /\ x.relative
    /\ \A m \in Metrics : x.point[m] > 0
    /\ \A m \in Timing : 0 < x.lower[m] /\ x.lower[m] <= x.upper[m]

(* load_selector_cost_evidence, which raises unless everything holds; the  *)
(* point estimate need not lie in its interval.                            *)
EvidenceLoads(e) ==
    /\ Files \subseteq e.verified
    /\ GateHolds(e.gate) /\ ManifestHolds(e.manifest)
    /\ DOMAIN e.entries = DOMAIN GroupOf
    /\ \A i \in DOMAIN e.entries :
          /\ EntryHolds(i, e.entries[i], e.manifest)
          /\ e.entries[i].design = e.manifest.design["baseline"]

(* The corners of the cost evidence: one bound for both timing metrics, or *)
(* the other bound for one of them.                                        *)
Cases == [bound : {"point", "lower", "upper"}, but : {"none"}]
         \cup [bound : {"lower", "upper"}, but : Timing]
Point == [bound |-> "point", but |-> "none"]

(* measured_vector and _vectors_for_uncertainty_case                       *)
VectorsFor(e, case) ==
    LET bound(m) == IF m # case.but THEN case.bound
                    ELSE IF case.bound = "lower" THEN "upper" ELSE "lower" IN
    [i \in DOMAIN e.entries |-> [m \in Metrics |->
        IF m \notin Timing \/ bound(m) = "point" THEN e.entries[i].point[m]
        ELSE IF bound(m) = "lower" THEN e.entries[i].lower[m]
        ELSE e.entries[i].upper[m]]]

-----------------------------------------------------------------------------
(* Normalisation, dominance, regret                                        *)

(* compute_global_anchors, over the whole catalog; a metric on which all   *)
(* profiles agree has no anchors.                                          *)
Anchors(vs) ==
    [m \in Metrics |-> [min |-> Min({vs[i][m] : i \in DOMAIN vs}),
                        max |-> Max({vs[i][m] : i \in DOMAIN vs})]]
AnchorsExist(vs) == \A m \in Metrics : Anchors(vs)[m].min # Anchors(vs)[m].max

(* normalize_vector: what is over one range is expanded by the others.     *)
Normalized(vs) ==
    LET a == Anchors(vs)
        range == [m \in Metrics |-> a[m].max - a[m].min] IN
    [i \in DOMAIN vs |-> [m \in Metrics |->
        (vs[i][m] - a[m].min) * Product([range EXCEPT ![m] = 1])]]

WeightedCost(n, w) == Total([m \in Metrics |-> w[m] * n[m]])

CostDominates(l, r) ==
    /\ \A m \in Metrics : l[m] <= r[m]
    /\ \E m \in Metrics : l[m] < r[m]

(* pareto_filter, over the common safe set only                            *)
ParetoFilter(common, vs) ==
    {i \in common : ~\E j \in common \ {i} : CostDominates(vs[j], vs[i])}

(* compute_regret_rows                                                     *)
RegretRows(ids, n, wi, wr) ==
    LET best(w) == Min({WeightedCost(n[i], w) : i \in ids})
        regret(i, w) == WeightedCost(n[i], w) - best(w) IN
    [i \in ids |->
        [initiator |-> regret(i, wi), responder |-> regret(i, wr),
         maximum |-> Max({regret(i, wi), regret(i, wr)}),
         total |-> regret(i, wi) + regret(i, wr),
         component |-> Max({n[i][m] : m \in Metrics}), cost |-> Total(n[i])]]

LexBefore(a, b) ==
    \E p \in DOMAIN a : a[p] < b[p] /\ \A q \in 1..(p - 1) : a[q] = b[q]

First(ids, key) == CHOOSE i \in ids : \A j \in ids \ {i} : LexBefore(key[i], key[j])

(* Mutant: the sum of the regrets is compared before the larger one.       *)
MinimaxSelectByTotal(rows) ==
    First(DOMAIN rows, [i \in DOMAIN rows |-> <<rows[i].total, rows[i].maximum, i>>])

(* minimax_regret_select                                                   *)
MinimaxSelect(rows) ==
    First(DOMAIN rows, [i \in DOMAIN rows |->
        <<rows[i].maximum, rows[i].total, rows[i].component, rows[i].cost, i>>])

(* _select_with_vectors                                                    *)
Choice(common, vs, wi, wr) ==
    MinimaxSelect(RegretRows(ParetoFilter(common, vs), Normalized(vs), wi, wr))

(* Mutant: a frontier of two counts as collapsed.                          *)
ModeTooWide(common, frontier) ==
    IF Cardinality(common) = 1 THEN "singleton_common_safe_set"
    ELSE IF Cardinality(frontier) <= 2 THEN "pareto_frontier_collapse"
    ELSE "bilateral_minimax_regret"

(* classify_selection_mode                                                 *)
Mode(common, frontier) ==
    IF Cardinality(common) = 1 THEN "singleton_common_safe_set"
    ELSE IF Cardinality(frontier) = 1 THEN "pareto_frontier_collapse"
    ELSE "bilateral_minimax_regret"

(* _candidate_evaluations: a profile of the frontier has its regrets, one  *)
(* that was removed the profiles that dominate it.                         *)
Candidates(common, vs, wi, wr) ==
    LET rows == RegretRows(ParetoFilter(common, vs), Normalized(vs), wi, wr) IN
    [i \in common |->
        [rows |-> IF i \in DOMAIN rows THEN {rows[i]} ELSE {},
         dominating |-> {j \in common \ {i} : CostDominates(vs[j], vs[i])}]]

(* select_from_safe_set, given BilateralSelectionInput                     *)
SelectFromSafeSet(in, common, vs) ==
    LET wi == in.preferences[1].weights
        wr == in.preferences[2].weights
        frontier == ParetoFilter(common, vs) IN
    [input |-> in, common |-> common, frontier |-> frontier,
     removed |-> common \ frontier, selected |-> Choice(common, vs, wi, wr),
     mode |-> Mode(common, frontier), exercised |-> Cardinality(frontier) >= 2,
     candidates |-> Candidates(common, vs, wi, wr)]

-----------------------------------------------------------------------------
(* Sensitivity, baselines and the preference grid                          *)

(* weight_grid                                                             *)
WeightGrid == {w \in [Metrics -> 0..Unit] : Total(w) = Unit}

(* uncertainty_sensitivity: one choice for each corner.                    *)
ByCase(common, e, wi, wr) ==
    [c \in Cases |-> Choice(common, VectorsFor(e, c), wi, wr)]

(* weight_sensitivity: the profiles that some pair of weights chooses.     *)
ByWeights(common, vs) ==
    {Choice(common, vs, wi, wr) : wi \in WeightGrid, wr \in WeightGrid}

(* What the two analyses call their result.                                *)
Classification(mode, selected, chosen, robust, sensitive) ==
    IF mode # "bilateral_minimax_regret" THEN mode
    ELSE IF chosen = {selected} THEN robust ELSE sensitive

(* baseline_selectors                                                      *)
Baselines(common, n, wi, wr) ==
    LET ci(i) == WeightedCost(n[i], wi)
        cr(i) == WeightedCost(n[i], wr) IN
    [initiator |-> First(common, [i \in common |-> <<ci(i), i>>]),
     responder |-> First(common, [i \in common |-> <<cr(i), i>>]),
     total |-> First(common, [i \in common |-> <<ci(i) + cr(i), i>>]),
     component |-> First(common, [i \in common |-> <<Max({n[i][m] : m \in Metrics}), i>>]),
     canonical |-> Min(common)]

(* baseline_report                                                         *)
BaselineReport(common, e, wi, wr) ==
    Baselines(common, Normalized(VectorsFor(e, Point)), wi, wr)

(* safe_method_override, the campaign's way to select: a baseline chooses  *)
(* from the Pareto frontier and not from all that is safe.                 *)
Methods == {"minimax", "initiator", "responder", "total", "component", "canonical"}
SafeMethodOverride(method, common, vs, wi, wr) ==
    IF method = "minimax" THEN Choice(common, vs, wi, wr)
    ELSE Baselines(ParetoFilter(common, vs), Normalized(vs), wi, wr)[method]

(* _evaluate_preference_grid: the pairs of weights at which the two sides  *)
(* disagree and some other method has a smaller maximum regret.            *)
GridErrors(frontier, n) ==
    {w \in WeightGrid \X WeightGrid :
        LET wi == w[1]
            wr == w[2]
            rows == RegretRows(frontier, n, wi, wr)
            own == First(frontier, [i \in frontier |-> <<WeightedCost(n[i], wi), i>>])
            other == First(frontier, [i \in frontier |-> <<WeightedCost(n[i], wr), i>>])
            sum == First(frontier,
                [i \in frontier |-> <<WeightedCost(n[i], wi) + WeightedCost(n[i], wr), i>>]) IN
        /\ own # other
        /\ \E i \in {own, other, sum, Min(frontier)} :
              rows[i].maximum < rows[MinimaxSelect(rows)].maximum}
=============================================================================
