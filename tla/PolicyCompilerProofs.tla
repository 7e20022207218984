------------------------ MODULE PolicyCompilerProofs ------------------------
(***************************************************************************)
(* For every catalog, every policy and any order of Z3's answers, a        *)
(* compilation that returns has exactly the safe profiles, explains every  *)
(* rejection by what is needed for it, and never has more for a higher     *)
(* task.  First the order all of this is measured by: the assurance        *)
(* vectors are a lattice, for every set of threats, which                  *)
(* derive_requirement (a chain of joins) and the comparison with a         *)
(* requirement take for granted.  Then, all of it holds of the             *)
(* compilations that validate_selector_stage makes.                        *)
(*                                                                         *)
(* Last, what the stage selects, for every catalog, every cost and every   *)
(* weight.  The selection is a minimum of a minimum: that there is one     *)
(* rests on the naturals being well founded (LeastNat).  Whatever the      *)
(* Pareto filter removes is dominated by something it keeps                *)
(* (FrontierExplains), normalising and weighting keep that order, so what  *)
(* is best for a side among all common profiles is as good on the frontier *)
(* (BestIsOnFrontier), and regrets taken on the frontier are the regrets   *)
(* that count.                                                             *)
(***************************************************************************)
EXTENDS SelectorStage, FiniteSetTheorems, WellFoundedInduction, TLAPS

(* Two vectors with equal components are equal.                            *)
LEMMA VectorsExtensional ==
    ASSUME NEW u \in AssuranceVectors, NEW v \in AssuranceVectors,
           u.kem = v.kem, u.endpoint = v.endpoint, u.contract = v.contract,
           u.fallback = v.fallback, u.resumption = v.resumption, u.lease = v.lease
    PROVE  u = v
    BY DEF AssuranceVectors

(* Ranks are integers, and the stricter and the laxer of two are ranks.    *)
LEMMA RankBounds ==
    ASSUME NEW a \in Ranks, NEW b \in Ranks
    PROVE  /\ a \in Int
           /\ RankJoin(a, b) \in Ranks /\ RankMeet(a, b) \in Ranks
           /\ RankJoin(a, b) >= a /\ RankJoin(a, b) >= b
           /\ a >= RankMeet(a, b) /\ b >= RankMeet(a, b)
           /\ \A c \in Ranks : c >= a /\ c >= b => c >= RankJoin(a, b)
           /\ \A c \in Ranks : a >= c /\ b >= c => RankMeet(a, b) >= c
    BY DEF Ranks, RankJoin, RankMeet

LEMMA Fields ==
    ASSUME NEW u \in AssuranceVectors
    PROVE  /\ u.kem \subseteq Threats /\ u.endpoint \subseteq Threats
           /\ u.contract \subseteq Threats
           /\ u.fallback \in Ranks /\ u.resumption \in Ranks /\ u.lease \in Ranks
    BY DEF AssuranceVectors

(* Join and Meet stay within the vectors.                                  *)
LEMMA Closed ==
    ASSUME NEW u \in AssuranceVectors, NEW v \in AssuranceVectors
    PROVE  Join(u, v) \in AssuranceVectors /\ Meet(u, v) \in AssuranceVectors
<1>1. /\ RankJoin(u.fallback, v.fallback) \in Ranks
      /\ RankJoin(u.resumption, v.resumption) \in Ranks
      /\ RankJoin(u.lease, v.lease) \in Ranks
      /\ RankMeet(u.fallback, v.fallback) \in Ranks
      /\ RankMeet(u.resumption, v.resumption) \in Ranks
      /\ RankMeet(u.lease, v.lease) \in Ranks
    BY Fields, RankBounds
<1>2. QED
    BY <1>1, Fields DEF Join, Meet, AssuranceVectors

(* dominates is reflexive, antisymmetric and transitive: "at least as      *)
(* strong" never runs in a circle, and a profile that dominates a          *)
(* requirement dominates every weaker one.                                 *)
THEOREM DominatesIsAnOrder ==
    ASSUME NEW u \in AssuranceVectors, NEW v \in AssuranceVectors, NEW w \in AssuranceVectors
    PROVE  /\ Dominates(u, u)
           /\ Dominates(u, v) /\ Dominates(v, u) => u = v
           /\ Dominates(u, v) /\ Dominates(v, w) => Dominates(u, w)
<1>1. /\ u.fallback \in Int /\ u.resumption \in Int /\ u.lease \in Int
      /\ v.fallback \in Int /\ v.resumption \in Int /\ v.lease \in Int
      /\ w.fallback \in Int /\ w.resumption \in Int /\ w.lease \in Int
    BY Fields DEF Ranks
<1>2. Dominates(u, u)
    BY <1>1 DEF Dominates
<1>3. ASSUME Dominates(u, v), Dominates(v, u) PROVE u = v
    <2>1. u.kem = v.kem /\ u.endpoint = v.endpoint /\ u.contract = v.contract
        BY <1>3 DEF Dominates
    <2>2. u.fallback = v.fallback /\ u.resumption = v.resumption /\ u.lease = v.lease
        BY <1>1, <1>3 DEF Dominates
    <2>3. QED
        BY <2>1, <2>2, VectorsExtensional
<1>4. ASSUME Dominates(u, v), Dominates(v, w) PROVE Dominates(u, w)
    <2>1. w.kem \subseteq u.kem /\ w.endpoint \subseteq u.endpoint
          /\ w.contract \subseteq u.contract
        BY <1>4 DEF Dominates
    <2>2. u.fallback >= w.fallback /\ u.resumption >= w.resumption /\ u.lease >= w.lease
        BY <1>1, <1>4 DEF Dominates
    <2>3. QED
        BY <2>1, <2>2 DEF Dominates
<1>5. QED
    BY <1>2, <1>3, <1>4

(* requirement_join is the least requirement at least as strong as both,   *)
(* so that a profile meets the join of what the rules ask for exactly when *)
(* it meets each: no order of the rules can add or lose a demand.          *)
THEOREM JoinIsLeastUpperBound ==
    ASSUME NEW u \in AssuranceVectors, NEW v \in AssuranceVectors, NEW w \in AssuranceVectors
    PROVE  /\ RequirementJoin(u, v) \in Requirements
           /\ Dominates(w, RequirementJoin(u, v)) <=> Dominates(w, u) /\ Dominates(w, v)
<1> DEFINE j == Join(u, v)
<1>1. j \in AssuranceVectors
    BY Closed
<1>2. /\ j.kem = u.kem \cup v.kem /\ j.endpoint = u.endpoint \cup v.endpoint
      /\ j.contract = u.contract \cup v.contract
      /\ j.fallback = RankJoin(u.fallback, v.fallback)
      /\ j.resumption = RankJoin(u.resumption, v.resumption)
      /\ j.lease = RankJoin(u.lease, v.lease)
    BY DEF Join
<1>3. Dominates(j, u) /\ Dominates(j, v)
    BY <1>2, Fields, RankBounds DEF Dominates
<1>4. ASSUME Dominates(w, u), Dominates(w, v) PROVE Dominates(w, j)
    BY <1>2, <1>4, Fields, RankBounds DEF Dominates
<1>5. Dominates(w, j) => Dominates(w, u) /\ Dominates(w, v)
    BY <1>1, <1>3, DominatesIsAnOrder
<1>6. QED
    BY <1>1, <1>4, <1>5 DEF RequirementJoin, Requirements

(* Meet is the greatest vector that both dominate.                         *)
THEOREM MeetIsGreatestLowerBound ==
    ASSUME NEW u \in AssuranceVectors, NEW v \in AssuranceVectors, NEW w \in AssuranceVectors
    PROVE  Dominates(Meet(u, v), w) <=> Dominates(u, w) /\ Dominates(v, w)
<1> DEFINE m == Meet(u, v)
<1>1. m \in AssuranceVectors
    BY Closed
<1>2. /\ m.kem = u.kem \cap v.kem /\ m.endpoint = u.endpoint \cap v.endpoint
      /\ m.contract = u.contract \cap v.contract
      /\ m.fallback = RankMeet(u.fallback, v.fallback)
      /\ m.resumption = RankMeet(u.resumption, v.resumption)
      /\ m.lease = RankMeet(u.lease, v.lease)
    BY DEF Meet
<1>3. Dominates(u, m) /\ Dominates(v, m)
    BY <1>2, Fields, RankBounds DEF Dominates
<1>4. ASSUME Dominates(u, w), Dominates(v, w) PROVE Dominates(m, w)
    BY <1>2, <1>4, Fields, RankBounds DEF Dominates
<1>5. Dominates(m, w) => Dominates(u, w) /\ Dominates(v, w)
    BY <1>1, <1>3, DominatesIsAnOrder
<1>6. QED
    BY <1>4, <1>5

-----------------------------------------------------------------------------

DecisionType == [accepted : BOOLEAN, violated : SUBSET CategorySet,
                 core : SUBSET CategorySet]

TypeInv ==
    /\ input \in [1..Calls -> Inputs]
    /\ call \in Nat \ {0}
    /\ pc \in {"validate", "derive", "enumerate", "decide", "minimize", "done"}
    /\ pc # "done" => call <= Calls
    /\ k \in Nat \ {0}
    /\ requirement \in Requirements
    /\ enumerated \subseteq Indexes
    /\ decisions \in [Positions -> DecisionType]
    /\ core \subseteq CategorySet
    /\ cat \in Nat \ {0}
    /\ DOMAIN result = 1..Calls

(* The constraints of the categories cs hold of the index i.               *)
AllHold(cs, i, in, req) == \A x \in cs : Constraint(x, i, in, req)

(* What CoreIsIrreducible says of one decision.                            *)
Irreducible(d, i, in, req) ==
    /\ d.core # {} /\ d.core \subseteq d.violated
    /\ ~AllHold(d.core, i, in, req)
    /\ \A x \in d.core : AllHold(d.core \ {x}, i, in, req)

(* What the local variables of the compilation under way say: the          *)
(* enumeration has named satisfying indices only, and all of them once it  *)
(* is over; the profiles before the one at hand are decided, the others    *)
(* are not, and the rejected ones are explained.                           *)
LocalInv ==
    /\ \A i \in enumerated : Sat(CategorySet, i)
    /\ pc \in {"decide", "minimize"} => enumerated = {i \in Indexes : Sat(CategorySet, i)}
    /\ pc \in {"decide", "minimize"} =>
          \A i \in Positions : decisions[i].accepted <=> i < k /\ Sat(CategorySet, i)
    /\ pc \in {"decide", "minimize"} =>
          \A i \in Positions : i < k /\ ~Sat(CategorySet, i) =>
              Irreducible(decisions[i], i, In, requirement)
    /\ pc \in {"validate", "derive", "enumerate"} => decisions = NoDecisions
    /\ pc \in {"validate", "derive"} => enumerated = {}
    /\ pc = "enumerate" => k = 1

(* While a core is minimised, it is unsatisfiable, and what was looked at  *)
(* and kept is needed.                                                     *)
CoreInv ==
    pc = "minimize" =>
        /\ k \in Positions /\ ~Sat(CategorySet, k)
        /\ core \subseteq Violated(k, In, requirement)
        /\ ~Sat(core, k)
        /\ \A j \in 1..8 : j < cat /\ Categories[j] \in core => Sat(core \ {Categories[j]}, k)

IndInv ==
    /\ TypeInv
    /\ pc # "done" => LocalInv
    /\ CoreInv
    /\ SafeSetIsExact /\ CoreIsIrreducible

-----------------------------------------------------------------------------

LEMMA CategoriesListed ==
    CategorySet = {"capability", "organization_policy", "kem_assurance",
                   "endpoint_authentication", "contract_evidence", "fallback",
                   "resumption", "lease"}
<1>1. 1..8 = {1, 2, 3, 4, 5, 6, 7, 8}
    OBVIOUS
<1>2. QED
    BY <1>1 DEF CategorySet, Categories

LEMMA CatalogTyped ==
    /\ Len(Catalog) \in Nat \ {0} /\ Positions = DOMAIN Catalog
    /\ \A i \in Positions : Catalog[i] \in TrustProfiles
    /\ Positions \subseteq Indexes
    BY CompilerAssumption DEF Positions, Indexes

LEMMA ProfileFields ==
    ASSUME NEW i \in Positions
    PROVE  /\ Catalog[i].assurance.fallback \in Int
           /\ Catalog[i].assurance.resumption \in Int
           /\ Catalog[i].assurance.lease \in Int
           /\ Catalog[i].maxLease \in Int
    BY CatalogTyped DEF TrustProfiles, AssuranceVectors, Ranks

LEMMA RequirementFields ==
    ASSUME NEW req \in Requirements
    PROVE  req.fallback \in Int /\ req.resumption \in Int /\ req.lease \in Int
    BY DEF Requirements, AssuranceVectors, Ranks

LEMMA TaskFields ==
    ASSUME NEW in \in Inputs
    PROVE  in.task.seconds \in Int
    BY CompilerAssumption DEF Tasks

(* The encoding holds of a position in all categories exactly when the     *)
(* profile is safe, and of nothing outside the catalog.                    *)
LEMMA EncodingIsSafety ==
    ASSUME NEW in, NEW req, NEW i
    PROVE  (\A c \in CategorySet : Constraint(c, i, in, req))
              <=> i \in Positions /\ SafeFor(i, in, req)
<1>1. (\A c \in CategorySet : Constraint(c, i, in, req)) <=>
         /\ Constraint("capability", i, in, req)
         /\ Constraint("organization_policy", i, in, req)
         /\ Constraint("kem_assurance", i, in, req)
         /\ Constraint("endpoint_authentication", i, in, req)
         /\ Constraint("contract_evidence", i, in, req)
         /\ Constraint("fallback", i, in, req)
         /\ Constraint("resumption", i, in, req)
         /\ Constraint("lease", i, in, req)
    BY CategoriesListed
<1>2. Constraint("capability", i, in, req) <=> i \in Positions /\ i \in in.manifest.supported
    BY DEF Constraint
<1>3. Constraint("organization_policy", i, in, req) <=>
         i \in Positions /\ i \in in.policy.allowed /\ i \notin in.policy.denied
    BY DEF Constraint
<1>4. ASSUME i \in Positions
      PROVE  /\ Constraint("kem_assurance", i, in, req)
                   <=> req.kem \subseteq Catalog[i].assurance.kem
             /\ Constraint("endpoint_authentication", i, in, req)
                   <=> /\ req.endpoint \subseteq Catalog[i].assurance.endpoint
                       /\ Catalog[i].endpointMode \in in.policy.endpointModes
             /\ Constraint("contract_evidence", i, in, req)
                   <=> /\ req.contract \subseteq Catalog[i].assurance.contract
                       /\ Catalog[i].contractMode \in in.policy.contractModes
             /\ Constraint("fallback", i, in, req)
                   <=> Catalog[i].assurance.fallback >= req.fallback
             /\ Constraint("resumption", i, in, req)
                   <=> Catalog[i].assurance.resumption >= req.resumption
             /\ Constraint("lease", i, in, req)
                   <=> /\ Catalog[i].assurance.lease >= req.lease
                       /\ in.task.seconds <= Catalog[i].maxLease
    BY <1>4 DEF Constraint, IndexedBool
<1>5. QED
    BY <1>1, <1>2, <1>3, <1>4 DEF SafeFor, Dominates

(* The plain explanation agrees with the encoding category by category.    *)
LEMMA ExplanationIsEncoding ==
    ASSUME NEW in \in Inputs, NEW req \in Requirements, NEW i \in Positions,
           NEW c \in CategorySet
    PROVE  c \in Violated(i, in, req) <=> ~Constraint(c, i, in, req)
<1>1. /\ Catalog[i].assurance.fallback < req.fallback
            <=> ~(Catalog[i].assurance.fallback >= req.fallback)
      /\ Catalog[i].assurance.resumption < req.resumption
            <=> ~(Catalog[i].assurance.resumption >= req.resumption)
      /\ Catalog[i].assurance.lease < req.lease
            <=> ~(Catalog[i].assurance.lease >= req.lease)
      /\ in.task.seconds > Catalog[i].maxLease
            <=> ~(in.task.seconds <= Catalog[i].maxLease)
    BY ProfileFields, RequirementFields, TaskFields
<1>2. c \in {"capability", "organization_policy", "kem_assurance",
             "endpoint_authentication", "contract_evidence", "fallback",
             "resumption", "lease"}
    BY CategoriesListed
<1>3. QED
    BY <1>1, <1>2 DEF Violated, Constraint, IndexedBool

(* apply_to yields a requirement.                                          *)
LEMMA ApplyToTyped ==
    ASSUME NEW c \in Contributions, NEW req \in Requirements
    PROVE  ApplyTo(c, req) \in Requirements
    BY DEF ApplyTo, Contributions, Requirements, RequirementJoin, Join, AssuranceVectors,
           RankJoin, Ranks, Missing

LEMMA RulesTyped ==
    ASSUME NEW in \in Inputs, NEW j \in Nat \ {0}, j <= Len(in.policy.rules)
    PROVE  in.policy.rules[j].contribution \in Contributions
<1>1. in.policy.rules \in Seq(Rules)
    BY CompilerAssumption DEF Policies
<1>2. in.policy.rules[j] \in Rules
    BY <1>1
<1>3. QED
    BY <1>2 DEF Rules

LEMMA BaseTyped ==
    ASSUME NEW in \in Inputs
    PROVE  in.policy.base \in Requirements
    BY CompilerAssumption DEF Policies

-----------------------------------------------------------------------------
(* The induction: a lemma for what ends a call and one for each action.    *)

LEMMA BlankTyped == Blank \in Requirements /\ NoDecisions \in [Positions -> DecisionType]
    BY DEF Blank, Requirements, AssuranceVectors, Ranks, NoDecisions, Undecided, DecisionType

LEMMA InTyped ==
    ASSUME TypeInv, pc # "done"
    PROVE  In \in Inputs /\ call \in 1..Calls
    BY CompilerAssumption DEF TypeInv, In

LEMMA InitEstablishes == Init => IndInv
<1> SUFFICES ASSUME Init PROVE IndInv
    OBVIOUS
<1>1. TypeInv
    BY CompilerAssumption, BlankTyped DEF Init, TypeInv
<1>2. LocalInv /\ CoreInv
    BY DEF Init, LocalInv, CoreInv
<1>3. SafeSetIsExact /\ CoreIsIrreducible
    BY DEF Init, SafeSetIsExact, CoreIsIrreducible, Done
<1>4. QED
    BY <1>1, <1>2, <1>3 DEF IndInv

(* The outcome of one call, as the two properties ask for it.              *)
RightOutcome(r, in) ==
    /\ r.status \in {"none", "ok", "inputs", "unknown"}
    /\ r.status = "ok" =>
          /\ r.safe = {i \in Positions : SafeFor(i, in, r.requirement)}
          /\ \A i \in Positions \ r.safe : Irreducible(r.decisions[i], i, in, r.requirement)

LEMMA OutcomesAreRight ==
    SafeSetIsExact /\ CoreIsIrreducible <=>
        \A c \in 1..Calls : RightOutcome(result[c], input[c])
    BY DEF SafeSetIsExact, CoreIsIrreducible, RightOutcome, Irreducible, AllHold, Done

(* A call that ends keeps the invariant when its outcome is right.         *)
LEMMA ReturnKeeps ==
    ASSUME IndInv, pc # "done", NEW r, Return(r), RightOutcome(r, In)
    PROVE  IndInv'
<1>1. call \in 1..Calls /\ TypeInv
    BY InTyped DEF IndInv
<1>2. /\ input' = input /\ call' = call + 1
      /\ pc' = (IF call < Calls THEN "validate" ELSE "done")
      /\ k' = 1 /\ requirement' = Blank /\ enumerated' = {} /\ decisions' = NoDecisions
      /\ core' = {} /\ cat' = 1
      /\ result' = [result EXCEPT ![call] = r]
    BY DEF Return
<1>3. TypeInv'
    BY <1>1, <1>2, BlankTyped, CompilerAssumption DEF TypeInv
<1>4. LocalInv' /\ CoreInv'
    BY <1>2 DEF LocalInv, CoreInv
<1>5. ASSUME NEW c \in 1..Calls PROVE RightOutcome(result'[c], input'[c])
    <2>1. CASE c = call
        <3>1. result'[c] = r
            BY <1>1, <1>2, <2>1 DEF TypeInv
        <3>2. QED
            BY <1>2, <2>1, <3>1 DEF In
    <2>2. CASE c # call
        <3>1. result'[c] = result[c]
            BY <1>1, <1>2, <2>2 DEF TypeInv
        <3>2. QED
            BY <1>2, <3>1, OutcomesAreRight DEF IndInv
    <2>3. QED
        BY <2>1, <2>2
<1>6. SafeSetIsExact' /\ CoreIsIrreducible'
    BY <1>5 DEF SafeSetIsExact, CoreIsIrreducible, RightOutcome, Irreducible, AllHold, Done
<1>7. QED
    BY <1>3, <1>4, <1>6 DEF IndInv

LEMMA RaiseKeeps ==
    ASSUME IndInv, pc # "done", NEW why \in {"inputs", "unknown"}, Raise(why)
    PROVE  IndInv'
<1>1. Return([status |-> why])
    BY DEF Raise
<1>2. RightOutcome([status |-> why], In)
    BY DEF RightOutcome
<1>3. QED
    BY <1>1, <1>2, ReturnKeeps

(* Results and inputs that stay keep what was said of them.                *)
LEMMA ResultsStay ==
    ASSUME SafeSetIsExact, CoreIsIrreducible, UNCHANGED <<input, result>>
    PROVE  SafeSetIsExact' /\ CoreIsIrreducible'
    BY DEF SafeSetIsExact, CoreIsIrreducible, Done

LEMMA ValidateKeeps == ASSUME IndInv, Validate PROVE IndInv'
<1>1. In \in Inputs
    BY InTyped DEF IndInv, Validate
<1>2. CASE ~ValidInputs(In) /\ Raise("inputs")
    BY <1>2, RaiseKeeps DEF Validate
<1>3. CASE /\ ValidInputs(In) /\ pc' = "derive" /\ requirement' = In.policy.base
           /\ UNCHANGED <<input, call, k, matched, enumerated, decisions, core, cat, result>>
    <2>1. TypeInv'
        BY <1>1, <1>3, BaseTyped DEF IndInv, Validate, TypeInv
    <2>2. LocalInv' /\ CoreInv'
        BY <1>3 DEF IndInv, Validate, LocalInv, CoreInv
    <2>3. QED
        BY <1>3, <2>1, <2>2, ResultsStay DEF IndInv
<1>4. QED
    BY <1>2, <1>3 DEF Validate

LEMMA DeriveKeeps == ASSUME IndInv, Derive PROVE IndInv'
<1>1. In \in Inputs /\ k \in Nat \ {0} /\ requirement \in Requirements
    BY InTyped DEF IndInv, Derive, TypeInv
<1>2. /\ pc = "derive" /\ pc' \in {"derive", "enumerate"}
      /\ k' \in Nat \ {0} /\ (pc' = "enumerate" => k' = 1)
      /\ UNCHANGED <<input, call, enumerated, decisions, core, cat, result>>
    BY <1>1 DEF Derive
<1>3. requirement' \in Requirements
    BY <1>1, RulesTyped, ApplyToTyped DEF Derive
<1>4. TypeInv'
    BY <1>2, <1>3 DEF IndInv, TypeInv
<1>5. LocalInv' /\ CoreInv'
    BY <1>2 DEF IndInv, LocalInv, CoreInv
<1>6. QED
    BY <1>2, <1>4, <1>5, ResultsStay DEF IndInv

(* The questions put to Z3 stay the same during one compilation.           *)
LEMMA QuestionsStay ==
    ASSUME UNCHANGED <<input, call, requirement>>
    PROVE  /\ In' = In
           /\ \A cs, i : Sat(cs, i)' <=> Sat(cs, i)
    BY DEF Sat, In

LEMMA EnumerateKeeps == ASSUME IndInv, Enumerate PROVE IndInv'
<1>1. /\ pc = "enumerate" /\ pc' \in {"enumerate", "decide"}
      /\ enumerated \subseteq enumerated' /\ enumerated' \subseteq Indexes
      /\ \A i \in enumerated' \ enumerated : Sat(CategorySet, i)
      /\ pc' = "decide" => /\ enumerated' = enumerated
                           /\ \A i \in Indexes \ enumerated : ~Sat(CategorySet, i)
      /\ UNCHANGED <<input, call, k, requirement, decisions, core, cat, result>>
    BY DEF Enumerate, IndInv, TypeInv
<1>2. \A i : Sat(CategorySet, i)' <=> Sat(CategorySet, i)
    BY <1>1, QuestionsStay
<1>3. TypeInv'
    BY <1>1 DEF IndInv, TypeInv
<1>4. k = 1 /\ decisions = NoDecisions /\ \A i \in enumerated : Sat(CategorySet, i)
    BY <1>1 DEF IndInv, LocalInv
<1>5. LocalInv' /\ CoreInv'
    <2>1. \A i \in enumerated' : Sat(CategorySet, i)'
        BY <1>1, <1>2, <1>4
    <2>2. pc' = "decide" => enumerated' = {i \in Indexes : Sat(CategorySet, i)'}
        BY <1>1, <1>2, <1>4
    <2>3. \A i \in Positions : decisions'[i].accepted = FALSE /\ ~(i < k')
        BY <1>1, <1>4 DEF NoDecisions, Undecided, Positions
    <2>4. QED
        BY <1>1, <1>4, <2>1, <2>2, <2>3 DEF LocalInv, CoreInv
<1>6. QED
    BY <1>1, <1>3, <1>5, ResultsStay DEF IndInv

LEMMA DecideKeeps == ASSUME IndInv, Decide PROVE IndInv'
<1>1. /\ pc = "decide" /\ k <= Len(Catalog) /\ TypeInv /\ LocalInv
    BY DEF IndInv, Decide
<1>2. /\ k \in Positions /\ In \in Inputs /\ requirement \in Requirements
      /\ decisions \in [Positions -> DecisionType]
    BY <1>1, InTyped, CatalogTyped DEF TypeInv, Positions
<1>3. CASE /\ Sat(CategorySet, k)
           /\ decisions' = [decisions EXCEPT ![k].accepted = TRUE]
           /\ k' = k + 1
           /\ UNCHANGED <<input, call, pc, requirement, matched, enumerated, core, cat, result>>
    <2>1. In' = In /\ \A cs, i : Sat(cs, i)' <=> Sat(cs, i)
        BY <1>3, QuestionsStay
    <2>2. /\ decisions' \in [Positions -> DecisionType]
          /\ \A i \in Positions :
                decisions'[i].accepted = (IF i = k THEN TRUE ELSE decisions[i].accepted)
          /\ \A i \in Positions : i # k => decisions'[i] = decisions[i]
        BY <1>2, <1>3 DEF DecisionType
    <2>3. TypeInv'
        BY <1>1, <1>2, <1>3, <2>2 DEF TypeInv
    <2>4. \A i \in Positions : i < k' <=> i < k \/ i = k
        BY <1>2, <1>3 DEF Positions
    <2>5. \A i \in Positions : decisions'[i].accepted <=> i < k' /\ Sat(CategorySet, i)'
        BY <1>1, <1>2, <1>3, <2>1, <2>2, <2>4 DEF LocalInv, Positions
    <2>6. \A i \in Positions : i < k' /\ ~Sat(CategorySet, i)' =>
             Irreducible(decisions'[i], i, In', requirement')
        BY <1>1, <1>2, <1>3, <2>1, <2>2, <2>4 DEF LocalInv
    <2>7. LocalInv' /\ CoreInv'
        BY <1>1, <1>3, <2>1, <2>5, <2>6 DEF LocalInv, CoreInv
    <2>8. QED
        BY <1>3, <2>3, <2>7, ResultsStay DEF IndInv
<1>4. CASE /\ ~Sat(CategorySet, k)
           /\ core' = Violated(k, In, requirement) /\ cat' = 1 /\ pc' = "minimize"
           /\ UNCHANGED <<input, call, k, requirement, matched, enumerated, decisions, result>>
    <2>1. In' = In /\ \A cs, i : Sat(cs, i)' <=> Sat(cs, i)
        BY <1>4, QuestionsStay
    <2>2. core' \subseteq CategorySet
        BY <1>4 DEF Violated
    <2>3. TypeInv'
        BY <1>1, <1>4, <2>2 DEF TypeInv
    <2>4. LocalInv'
        BY <1>1, <1>4, <2>1 DEF LocalInv
    <2>5. ~Sat(core', k)
        BY <1>2, <1>4, ExplanationIsEncoding DEF Sat
    <2>6. core' \subseteq Violated(k', In', requirement')
        BY <1>4, <2>1
    <2>7. CoreInv'
        BY <1>2, <1>4, <2>1, <2>5, <2>6 DEF CoreInv
    <2>8. QED
        BY <1>4, <2>3, <2>4, <2>7, ResultsStay DEF IndInv
<1>5. CASE ~Sat(CategorySet, k) /\ Violated(k, In, requirement) = {}
    BY <1>2, <1>5, ExplanationIsEncoding DEF Sat
<1>6. QED
    BY <1>3, <1>4, <1>5 DEF Decide

LEMMA MinimizeKeeps == ASSUME IndInv, Minimize PROVE IndInv'
<1>1. /\ pc = "minimize" /\ TypeInv /\ LocalInv /\ CoreInv
      /\ UNCHANGED <<input, call, requirement, enumerated, result>>
    BY DEF IndInv, Minimize
<1>2. /\ k \in Positions /\ ~Sat(CategorySet, k) /\ ~Sat(core, k)
      /\ core \subseteq Violated(k, In, requirement)
      /\ cat \in Nat \ {0} /\ core \subseteq CategorySet
      /\ decisions \in [Positions -> DecisionType]
    BY <1>1 DEF CoreInv, TypeInv
<1>3. In' = In /\ \A cs, i : Sat(cs, i)' <=> Sat(cs, i)
    BY <1>1, QuestionsStay
<1>4. CASE /\ cat <= 8
           /\ core' = IF Categories[cat] \in core /\ ~Sat(core \ {Categories[cat]}, k)
                      THEN core \ {Categories[cat]} ELSE core
           /\ cat' = cat + 1
           /\ UNCHANGED <<k, pc, decisions>>
    <2>1. core' \subseteq core /\ ~Sat(core', k)
        BY <1>2, <1>4
    <2>2. TypeInv'
        BY <1>1, <1>2, <1>4, <2>1 DEF TypeInv
    <2>3. LocalInv'
        BY <1>1, <1>3, <1>4 DEF LocalInv
    <2>4. ASSUME NEW j \in 1..8, j < cat', Categories[j] \in core'
          PROVE  Sat(core' \ {Categories[j]}, k)
        <3>1. CASE j < cat
            BY <1>1, <2>1, <2>4, <3>1 DEF CoreInv, Sat
        <3>2. CASE j = cat
            BY <1>4, <2>4, <3>2
        <3>3. QED
            BY <1>2, <1>4, <2>4, <3>1, <3>2
    <2>5. CoreInv'
        BY <1>1, <1>2, <1>3, <1>4, <2>1, <2>4 DEF CoreInv
    <2>6. QED
        BY <1>1, <1>4, <2>2, <2>3, <2>5, ResultsStay DEF IndInv
<1>5. CASE /\ cat > 8
           /\ decisions' = [decisions EXCEPT ![k] =
                [accepted |-> FALSE, violated |-> Violated(k, In, requirement),
                 core |-> core]]
           /\ k' = k + 1 /\ pc' = "decide" /\ core' = {} /\ cat' = 1
    <2> DEFINE d == [accepted |-> FALSE, violated |-> Violated(k, In, requirement),
                     core |-> core]
    <2>1. /\ decisions'[k] = d
          /\ \A i \in Positions : i # k => decisions'[i] = decisions[i]
        BY <1>2, <1>5
    <2>2. d \in DecisionType
        BY <1>2 DEF DecisionType, Violated
    <2>3. decisions' \in [Positions -> DecisionType]
        BY <1>2, <1>5, <2>2
    <2>4. TypeInv'
        BY <1>1, <1>2, <1>5, <2>3 DEF TypeInv, Positions
    <2>5. \A i \in Positions : i < k' <=> i < k \/ i = k
        BY <1>2, <1>5 DEF Positions
    <2>6. \A i \in Positions : decisions'[i].accepted <=> i < k' /\ Sat(CategorySet, i)'
        BY <1>1, <1>2, <1>3, <2>1, <2>5 DEF LocalInv, Positions
    <2>7. Irreducible(d, k, In, requirement)
        <3>1. core # {} /\ ~AllHold(core, k, In, requirement)
            BY <1>2 DEF AllHold, Sat
        <3>2. ASSUME NEW x \in core PROVE AllHold(core \ {x}, k, In, requirement)
            <4>1. PICK j \in 1..8 : x = Categories[j]
                BY <1>2 DEF CategorySet
            <4>2. j < cat /\ Categories[j] \in core
                BY <1>2, <1>5, <4>1
            <4>3. Sat(core \ {Categories[j]}, k)
                BY <1>1, <4>2 DEF CoreInv
            <4>4. QED
                BY <4>1, <4>3 DEF AllHold, Sat
        <3>3. QED
            BY <1>2, <3>1, <3>2 DEF Irreducible
    <2>8. \A i \in Positions : i < k' /\ ~Sat(CategorySet, i)' =>
             Irreducible(decisions'[i], i, In', requirement')
        BY <1>1, <1>3, <2>1, <2>5, <2>7 DEF LocalInv
    <2>9. LocalInv' /\ CoreInv'
        BY <1>1, <1>3, <1>5, <2>6, <2>8 DEF LocalInv, CoreInv
    <2>10. QED
        BY <1>1, <2>4, <2>9, ResultsStay DEF IndInv
<1>6. QED
    BY <1>4, <1>5 DEF Minimize

LEMMA ConcludeKeeps == ASSUME IndInv, Conclude PROVE IndInv'
<1>1. pc = "decide" /\ k > Len(Catalog) /\ TypeInv /\ LocalInv
    BY DEF IndInv, Conclude
<1>2. \A i \in Positions : i < k
    BY <1>1, CatalogTyped DEF TypeInv, Positions
<1>3. \A i : Sat(CategorySet, i) <=> i \in Positions /\ SafeFor(i, In, requirement)
    BY EncodingIsSafety DEF Sat
<1>4. Accepted = {i \in Positions : SafeFor(i, In, requirement)}
    BY <1>1, <1>2, <1>3 DEF Accepted, LocalInv
<1>5. enumerated = Accepted
    BY <1>1, <1>3, <1>4, CatalogTyped DEF LocalInv
<1> DEFINE r == [status |-> "ok", safe |-> Accepted, requirement |-> requirement,
                 matched |-> matched, decisions |-> decisions]
<1>6. Return(r)
    BY <1>5 DEF Conclude
<1>7. \A i \in Positions \ Accepted : Irreducible(decisions[i], i, In, requirement)
    BY <1>1, <1>2, <1>3, <1>4 DEF LocalInv
<1>8. RightOutcome(r, In)
    BY <1>4, <1>7 DEF RightOutcome
<1> HIDE DEF r
<1>9. QED
    BY <1>1, <1>6, <1>8, ReturnKeeps

LEMMA UnknownKeeps == ASSUME IndInv, Unknown PROVE IndInv'
    BY RaiseKeeps DEF Unknown

LEMMA StutteringKeeps == ASSUME IndInv, UNCHANGED vars PROVE IndInv'
<1>1. UNCHANGED <<input, call, pc, k, requirement, enumerated, decisions, core, cat, result>>
    BY DEF vars, work
<1>2. In' = In /\ \A cs, i : Sat(cs, i)' <=> Sat(cs, i)
    BY <1>1, QuestionsStay
<1>3. TypeInv'
    BY <1>1 DEF IndInv, TypeInv
<1>4. (pc # "done" => LocalInv)'
    BY <1>1, <1>2 DEF IndInv, LocalInv
<1>5. CoreInv'
    BY <1>1, <1>2 DEF IndInv, CoreInv
<1>6. QED
    BY <1>1, <1>3, <1>4, <1>5, ResultsStay DEF IndInv

LEMMA IndInvHolds == Spec => []IndInv
<1>1. IndInv /\ [Next]_vars => IndInv'
    BY ValidateKeeps, DeriveKeeps, EnumerateKeeps, UnknownKeeps, DecideKeeps,
       MinimizeKeeps, ConcludeKeeps, StutteringKeeps DEF Next
<1>2. QED
    BY <1>1, InitEstablishes, PTL DEF Spec

-----------------------------------------------------------------------------

(* For every catalog, every set of inputs and any order of Z3's answers: a *)
(* compilation returns exactly the profiles that are safe, or raises for   *)
(* want of valid inputs or of an answer; the two internal comparisons that *)
(* would raise for a contradiction never do.                               *)
THEOREM CompiledIsSafe == Spec => []SafeSetIsExact
<1>1. IndInv => SafeSetIsExact
    BY DEF IndInv
<1>2. QED
    BY <1>1, IndInvHolds, PTL

(* For every catalog and every set of inputs, the core that explains a     *)
(* rejection is unsatisfiable, and every category in it is needed, though  *)
(* _minimize_core looks at each category only once.                        *)
THEOREM ExplainedMinimally == Spec => []CoreIsIrreducible
<1>1. IndInv => CoreIsIrreducible
    BY DEF IndInv
<1>2. QED
    BY <1>1, IndInvHolds, PTL

-----------------------------------------------------------------------------
(* What derive_requirement computes, said without its loop: a requirement  *)
(* that is met exactly by what meets the base and the contribution of each *)
(* of the first n rules that match.                                        *)

Derived(req, in, n) ==
    \A w \in Requirements :
        Dominates(w, req) <=>
            /\ Dominates(w, in.policy.base)
            /\ \A j \in 1..n :
                  Matches(in.policy.rules[j].condition, in.task)
                      => Dominates(w, in.policy.rules[j].contribution)

DerivedWhole(req, in) == req \in Requirements /\ Derived(req, in, Len(in.policy.rules))

(* The requirement of the compilation under way, which starts at the first *)
(* rule, and of those that returned.                                       *)
DerivationInv ==
    /\ pc = "validate" => k = 1
    /\ pc = "derive" => k <= Len(In.policy.rules) + 1 /\ Derived(requirement, In, k - 1)
    /\ pc \in {"enumerate", "decide", "minimize"} => DerivedWhole(requirement, In)
    /\ \A c \in 1..Calls : Done(c) => DerivedWhole(result[c].requirement, input[c])

(* A strictness class that is not given asks for nothing: what meets the   *)
(* result of apply_to is what meets the requirement and the contribution.  *)
LEMMA ApplyToIsJoin ==
    ASSUME NEW c \in Contributions, NEW req \in Requirements, NEW w \in Requirements
    PROVE  Dominates(w, ApplyTo(c, req)) <=> Dominates(w, req) /\ Dominates(w, c)
<1>1. /\ w.fallback \in 0..2 /\ w.resumption \in 0..2 /\ w.lease \in 0..2
      /\ req.fallback \in 0..2 /\ req.resumption \in 0..2 /\ req.lease \in 0..2
      /\ c.fallback \in -1..2 /\ c.resumption \in -1..2 /\ c.lease \in -1..2
    BY DEF Requirements, AssuranceVectors, Contributions, Ranks, Missing
<1> DEFINE a == ApplyTo(c, req)
<1>2. /\ a.kem = req.kem \cup c.kem /\ a.endpoint = req.endpoint \cup c.endpoint
      /\ a.contract = req.contract \cup c.contract
      /\ a.fallback = RankJoin(req.fallback, IF c.fallback = -1 THEN req.fallback
                                                               ELSE c.fallback)
      /\ a.resumption = RankJoin(req.resumption, IF c.resumption = -1 THEN req.resumption
                                                                     ELSE c.resumption)
      /\ a.lease = RankJoin(req.lease, IF c.lease = -1 THEN req.lease ELSE c.lease)
    BY DEF ApplyTo, RequirementJoin, Join, Missing
<1> HIDE DEF a
<1>3. /\ w.fallback >= a.fallback <=> w.fallback >= req.fallback /\ w.fallback >= c.fallback
      /\ w.resumption >= a.resumption
            <=> w.resumption >= req.resumption /\ w.resumption >= c.resumption
      /\ w.lease >= a.lease <=> w.lease >= req.lease /\ w.lease >= c.lease
    BY <1>1, <1>2 DEF RankJoin
<1>4. QED
    BY <1>2, <1>3 DEF Dominates, a

(* A higher task matches every rule that a lower one matches.              *)
LEMMA MatchesIsMonotone ==
    ASSUME NEW c \in Conditions, NEW s \in Tasks, NEW t \in Tasks,
           TaskLeq(s, t), Matches(c, s)
    PROVE  Matches(c, t)
<1>1. /\ s.sensitivity \in Int /\ t.sensitivity \in Int /\ c.sensitivity \in Int
      /\ s.impact \in Int /\ t.impact \in Int /\ c.impact \in Int
      /\ s.horizon \in Int /\ t.horizon \in Int /\ c.horizon \in Int
      /\ s.delegation \in Int /\ t.delegation \in Int /\ c.delegation \in Int
      /\ s.seconds \in Int /\ t.seconds \in Int /\ c.seconds \in Int
    BY DEF Tasks, Conditions, Ranks
<1>2. QED
    BY <1>1 DEF TaskLeq, Matches

LEMMA RuleConditions ==
    ASSUME NEW in \in Inputs, NEW j \in 1..Len(in.policy.rules)
    PROVE  in.policy.rules[j].condition \in Conditions
<1>1. in.policy.rules \in Seq(Rules)
    BY CompilerAssumption DEF Policies
<1>2. in.policy.rules[j] \in Rules
    BY <1>1
<1>3. QED
    BY <1>2 DEF Rules

(* The demands of a higher task include those of a lower one.              *)
LEMMA HigherNeedsMore ==
    ASSUME NEW x \in Inputs, NEW y \in Inputs, x.policy = y.policy, TaskLeq(x.task, y.task),
           NEW p, NEW q, DerivedWhole(p, x), DerivedWhole(q, y)
    PROVE  Dominates(q, p)
<1>1. p \in Requirements /\ q \in Requirements
    BY DEF DerivedWhole
<1>2. Dominates(q, q)
    BY <1>1, DominatesIsAnOrder DEF Requirements
<1>3. /\ Dominates(q, y.policy.base)
      /\ \A j \in 1..Len(y.policy.rules) :
            Matches(y.policy.rules[j].condition, y.task)
                => Dominates(q, y.policy.rules[j].contribution)
    BY <1>1, <1>2 DEF DerivedWhole, Derived
<1>4. x.task \in Tasks /\ y.task \in Tasks
    BY CompilerAssumption
<1>5. ASSUME NEW j \in 1..Len(x.policy.rules), Matches(x.policy.rules[j].condition, x.task)
      PROVE  Dominates(q, x.policy.rules[j].contribution)
    <2>1. Matches(x.policy.rules[j].condition, y.task)
        BY <1>4, <1>5, RuleConditions, MatchesIsMonotone
    <2>2. QED
        BY <1>3, <2>1
<1>6. QED
    BY <1>1, <1>3, <1>5 DEF DerivedWhole, Derived

(* A call that ends leaves the requirements of the others alone.           *)
LEMMA ReturnKeepsDerivation ==
    ASSUME IndInv, DerivationInv, pc # "done", NEW r, Return(r),
           r.status = "ok" => DerivedWhole(r.requirement, In)
    PROVE  DerivationInv'
<1>1. /\ call \in 1..Calls /\ DOMAIN result = 1..Calls
      /\ input' = input /\ k' = 1 /\ pc' \in {"validate", "done"}
      /\ result' = [result EXCEPT ![call] = r]
    BY InTyped DEF IndInv, TypeInv, Return
<1>2. ASSUME NEW c \in 1..Calls, result'[c].status = "ok"
      PROVE  DerivedWhole(result'[c].requirement, input'[c])
    <2>1. CASE c = call
        BY <1>1, <1>2, <2>1 DEF In
    <2>2. CASE c # call
        BY <1>1, <1>2, <2>2 DEF DerivationInv, Done
    <2>3. QED
        BY <2>1, <2>2
<1>3. QED
    BY <1>1, <1>2 DEF DerivationInv, Done

LEMMA RaiseKeepsDerivation ==
    ASSUME IndInv, DerivationInv, pc # "done", NEW why, why # "ok", Raise(why)
    PROVE  DerivationInv'
<1>1. Return([status |-> why]) /\ [status |-> why].status # "ok"
    BY DEF Raise
<1>2. QED
    BY <1>1, ReturnKeepsDerivation

LEMMA ValidateKeepsDerivation == ASSUME IndInv, DerivationInv, Validate PROVE DerivationInv'
<1>1. In \in Inputs /\ pc = "validate" /\ k = 1
    BY InTyped DEF IndInv, Validate, DerivationInv
<1>2. CASE ~ValidInputs(In) /\ Raise("inputs")
    BY <1>1, <1>2, RaiseKeepsDerivation
<1>3. CASE /\ ValidInputs(In) /\ pc' = "derive" /\ requirement' = In.policy.base
           /\ UNCHANGED <<input, call, k, matched, enumerated, decisions, core, cat, result>>
    <2>1. In.policy.rules \in Seq(Rules)
        BY <1>1, CompilerAssumption DEF Policies
    <2>2. k' <= Len(In.policy.rules) + 1 /\ 1..(k' - 1) = {}
        BY <1>1, <1>3, <2>1
    <2>3. Derived(requirement', In, k' - 1)
        BY <1>3, <2>2 DEF Derived
    <2>4. In' = In
        BY <1>3 DEF In
    <2>5. QED
        BY <1>3, <2>2, <2>3, <2>4 DEF DerivationInv, Done
<1>4. QED
    BY <1>2, <1>3 DEF Validate

(* One more rule: its contribution is joined when it matches, and nothing  *)
(* is asked for when it does not.                                          *)
LEMMA DeriveKeepsDerivation == ASSUME IndInv, DerivationInv, Derive PROVE DerivationInv'
<1> DEFINE rules == In.policy.rules
<1>1. /\ In \in Inputs /\ pc = "derive" /\ k \in Nat \ {0} /\ requirement \in Requirements
      /\ In' = In /\ UNCHANGED <<input, result>>
    BY InTyped DEF IndInv, TypeInv, Derive, In
<1>2. Len(rules) \in Nat
    BY <1>1, CompilerAssumption DEF Policies
<1>3. k <= Len(rules) + 1 /\ Derived(requirement, In, k - 1)
    BY <1>1 DEF DerivationInv
<1>4. ASSUME k <= Len(rules), k' = k + 1, UNCHANGED pc,
             \/ /\ Matches(rules[k].condition, In.task)
                /\ requirement' = ApplyTo(rules[k].contribution, requirement)
             \/ ~Matches(rules[k].condition, In.task) /\ UNCHANGED requirement
      PROVE  DerivationInv'
    <2>1. 1..(k' - 1) = 1..(k - 1) \cup {k}
        BY <1>1, <1>4
    <2>2. rules[k].contribution \in Contributions
        BY <1>1, <1>4, RulesTyped
    <2>3. ASSUME NEW w \in Requirements
          PROVE  Dominates(w, requirement') <=>
                    /\ Dominates(w, requirement)
                    /\ Matches(rules[k].condition, In.task)
                          => Dominates(w, rules[k].contribution)
        BY <1>1, <1>4, <2>2, ApplyToIsJoin
    <2>4. Derived(requirement', In, k' - 1)
        BY <1>3, <2>1, <2>3 DEF Derived
    <2>5. k' <= Len(rules) + 1 /\ pc' = "derive"
        BY <1>1, <1>2, <1>4
    <2>6. QED
        BY <1>1, <2>4, <2>5 DEF DerivationInv, Done
<1>5. ASSUME k > Len(rules), pc' = "enumerate", UNCHANGED requirement
      PROVE  DerivationInv'
    <2>1. k - 1 = Len(rules)
        BY <1>1, <1>2, <1>3, <1>5
    <2>2. DerivedWhole(requirement', In')
        BY <1>1, <1>3, <1>5, <2>1 DEF DerivedWhole
    <2>3. QED
        BY <1>1, <1>5, <2>2 DEF DerivationInv, Done
<1>6. QED
    BY <1>4, <1>5 DEF Derive

(* Enumerate, Decide and Minimize leave the requirement alone.             *)
LEMMA SolvingKeepsDerivation ==
    ASSUME DerivationInv, pc \in {"enumerate", "decide", "minimize"},
           pc' \in {"enumerate", "decide", "minimize"},
           UNCHANGED <<input, call, requirement, result>>
    PROVE  DerivationInv'
<1>1. In' = In
    BY DEF In
<1>2. QED
    BY <1>1 DEF DerivationInv, Done

LEMMA NextKeepsDerivation == IndInv /\ DerivationInv /\ [Next]_vars => DerivationInv'
<1> SUFFICES ASSUME IndInv, DerivationInv, [Next]_vars PROVE DerivationInv'
    OBVIOUS
<1>1. CASE Enumerate
    BY <1>1, SolvingKeepsDerivation DEF Enumerate
<1>2. CASE Unknown
    BY <1>2, RaiseKeepsDerivation DEF Unknown
<1>3. CASE Decide
    BY <1>3, SolvingKeepsDerivation, RaiseKeepsDerivation DEF Decide
<1>4. CASE Minimize
    BY <1>4, SolvingKeepsDerivation DEF Minimize
<1>5. CASE Conclude
    <2>1. pc = "decide" /\ DerivedWhole(requirement, In)
        BY <1>5 DEF Conclude, DerivationInv
    <2> DEFINE r == [status |-> "ok", safe |-> Accepted, requirement |-> requirement,
                     matched |-> matched, decisions |-> decisions]
    <2>2. r.requirement = requirement
        OBVIOUS
    <2> HIDE DEF r
    <2>3. CASE Return(r)
        BY <2>1, <2>2, <2>3, ReturnKeepsDerivation
    <2>4. QED
        BY <1>5, <2>1, <2>3, RaiseKeepsDerivation DEF Conclude, r
<1>6. CASE UNCHANGED vars
    <2>1. UNCHANGED <<input, call, pc, k, requirement, result>> /\ In' = In
        BY <1>6 DEF vars, work, In
    <2>2. QED
        BY <2>1 DEF DerivationInv, Done
<1>7. QED
    BY <1>1, <1>2, <1>3, <1>4, <1>5, <1>6, ValidateKeepsDerivation, DeriveKeepsDerivation
    DEF Next

(* For every catalog, every policy and every pair of tasks: the higher     *)
(* task never gets a weaker requirement from derive_requirement nor a      *)
(* profile that the lower one does not have.  validate_mapper_monotonicity *)
(* looks for a counterexample to the first half on a grid of tasks and     *)
(* cannot find one.                                                        *)
THEOREM HigherTaskIsNeverEasier == Spec => []MonotoneInTask
<1>1. Init => DerivationInv
    BY DEF Init, DerivationInv, Done
<1>2. Spec => []DerivationInv
    BY <1>1, NextKeepsDerivation, IndInvHolds, PTL DEF Spec
<1>3. ASSUME IndInv, DerivationInv, NEW c \in 1..Calls, NEW d \in 1..Calls,
             Done(c), Done(d), input[c].policy = input[d].policy,
             TaskLeq(input[c].task, input[d].task)
      PROVE  /\ RequirementDominates(result[d].requirement, result[c].requirement)
             /\ input[c].manifest.supported = input[d].manifest.supported
                    => result[d].safe \subseteq result[c].safe
    <2> DEFINE p == result[c].requirement
               q == result[d].requirement
    <2>1. input[c] \in Inputs /\ input[d] \in Inputs
        BY <1>3 DEF IndInv, TypeInv
    <2>2. DerivedWhole(p, input[c]) /\ DerivedWhole(q, input[d])
        BY <1>3 DEF DerivationInv
    <2>3. Dominates(q, p) /\ p \in Requirements /\ q \in Requirements
        BY <1>3, <2>1, <2>2, HigherNeedsMore DEF DerivedWhole
    <2>4. ASSUME input[c].manifest.supported = input[d].manifest.supported,
                 NEW i \in result[d].safe
          PROVE  i \in result[c].safe
        <3>1. i \in Positions /\ SafeFor(i, input[d], q)
            BY <1>3, <2>4 DEF IndInv, SafeSetIsExact
        <3>2. Catalog[i].assurance \in AssuranceVectors
            BY <3>1, CatalogTyped DEF TrustProfiles
        <3>3. Dominates(Catalog[i].assurance, p)
            BY <2>3, <3>1, <3>2, DominatesIsAnOrder DEF SafeFor, Requirements
        <3>4. input[c].task.seconds <= Catalog[i].maxLease
            BY <1>3, <2>1, <3>1, TaskFields, ProfileFields DEF SafeFor, TaskLeq
        <3>5. SafeFor(i, input[c], p)
            BY <1>3, <2>4, <3>1, <3>3, <3>4 DEF SafeFor
        <3>6. QED
            BY <1>3, <3>1, <3>5 DEF IndInv, SafeSetIsExact
    <2>5. QED
        BY <2>3, <2>4 DEF RequirementDominates
<1>4. IndInv /\ DerivationInv => MonotoneInTask
    BY <1>3 DEF MonotoneInTask
<1>5. QED
    BY <1>2, <1>4, IndInvHolds, PTL

-----------------------------------------------------------------------------
(* The stage around the compiler                                           *)

(* validate_selector_stage only ever takes steps of the compiler or leaves *)
(* it alone: loading evidence, failing, selecting and concluding change    *)
(* nothing that a compilation returned.                                    *)
THEOREM StageImplementsCompiler == StageSpec => Spec
<1>1. StageInit => Init
    BY DEF StageInit
<1>2. ASSUME [StageNext]_allVars PROVE [Next]_vars
    <2>1. CASE CompileSide
        BY <2>1 DEF CompileSide
    <2>2. CASE LoadEvidence \/ SideFails \/ OtherScenarios \/ DrawConclusion
        BY <2>2 DEF LoadEvidence, SideFails, OtherScenarios, DrawConclusion, Fails
    <2>3. CASE \E pi, pr \in PreferenceFiles : Select(pi, pr)
        BY <2>3 DEF Select, Fails
    <2>4. CASE UNCHANGED allVars
        BY <2>4 DEF allVars
    <2>5. QED
        BY <1>2, <2>1, <2>2, <2>3, <2>4 DEF StageNext
<1>3. QED
    BY <1>1, <1>2, PTL DEF StageSpec, Spec

(* What the compiler promises, a scenario of the stage can rely on: the    *)
(* profiles it selects from are exactly those that are safe for each side. *)
THEOREM StageCompilesSafely ==
    StageSpec => [](SafeSetIsExact /\ CoreIsIrreducible /\ MonotoneInTask)
    BY StageImplementsCompiler, CompiledIsSafe, ExplainedMinimally, HigherTaskIsNeverEasier, PTL

-----------------------------------------------------------------------------
(* The selection                                                           *)

(* A set of naturals that is not empty has a least element.                *)
LEMMA LeastNat ==
    ASSUME NEW T, T \subseteq Nat, T # {}
    PROVE  \E x \in T : \A y \in T : x <= y
<1> DEFINE R == {ss \in Nat \X Nat : ss[1] < ss[2]}
<1>1. IsWellFoundedOn(R, Nat)
    BY NatLessThanWellFounded, Zenon DEF OpToRel
<1>2. PICK x \in T : \A y \in T : ~(<<y, x>> \in R)
    <2> HIDE DEF R
    <2> QED
        BY <1>1, WFMin, Zenon
<1>3. ASSUME NEW y \in T PROVE x <= y
    <2>1. <<y, x>> \notin R
        BY <1>2
    <2>2. ~(y < x)
        BY <2>1
    <2> QED
        BY <2>2
<1> QED
    BY <1>3

(* Some member of a set has the least value of a measure.                  *)
LEMMA ArgMin ==
    ASSUME NEW S, S # {}, NEW f, \A i \in S : f[i] \in Nat
    PROVE  \E i \in S : \A j \in S : f[i] <= f[j]
<1> DEFINE T == {f[i] : i \in S}
<1>1. T \subseteq Nat /\ T # {}
    OBVIOUS
<1>2. PICK x \in T : \A y \in T : x <= y
    <2> HIDE DEF T
    <2> QED
        BY <1>1, LeastNat
<1> QED
    BY <1>2

(* Min is the least element of a set that has one.                         *)
LEMMA MinOf ==
    ASSUME NEW T, T \subseteq Nat, T # {}
    PROVE  Min(T) \in T /\ \A y \in T : Min(T) <= y
    BY LeastNat, Zenon DEF Min

(* Max is the greatest element of a set of naturals with a bound.          *)
LEMMA MaxOf ==
    ASSUME NEW T, T \subseteq Nat, T # {}, NEW b \in Nat, \A y \in T : y <= b
    PROVE  Max(T) \in T /\ \A y \in T : y <= Max(T)
<1> DEFINE f == [y \in T |-> b - y]
<1>1. \A y \in T : f[y] \in Nat
    OBVIOUS
<1>2. PICK x \in T : \A y \in T : f[x] <= f[y]
    <2> HIDE DEF f
    <2> QED
        BY <1>1, ArgMin
<1>3. \A y \in T : x >= y
    BY <1>2
<1>4. Max(T) \in T /\ \A y \in T : Max(T) >= y
    BY <1>3, Zenon DEF Max
<1> QED
    BY <1>4

(* The values of finitely many profiles have a bound: if not, there would  *)
(* be a least number of profiles for which they have none.                 *)
LEMMA Bounded ==
    ASSUME NEW N \in Nat, NEW f, \A i \in 1..N : f[i] \in Nat
    PROVE  \E b \in Nat : \A i \in 1..N : f[i] <= b
<1> DEFINE Bad == {x \in 0..N : ~\E b \in Nat : \A i \in 1..x : f[i] <= b}
<1>1. SUFFICES Bad = {}
    <2>1. N \notin Bad /\ N \in 0..N
        BY <1>1
    <2> QED
        BY <2>1
<1>2. SUFFICES ASSUME Bad # {} PROVE FALSE
    OBVIOUS
<1>3. PICK x \in Bad : \A y \in Bad : x <= y
    <2>1. Bad \subseteq Nat
        OBVIOUS
    <2> HIDE DEF Bad
    <2> QED
        BY <2>1, <1>2, LeastNat
<1>4. x \in 0..N /\ x # 0
    <2>1. \A i \in 1..0 : f[i] <= 0
        OBVIOUS
    <2>2. 0 \notin Bad
        BY <2>1
    <2> QED
        BY <2>2
<1>5. x - 1 \in 0..N /\ x - 1 \notin Bad
    <2>1. x - 1 \in 0..N /\ ~(x <= x - 1)
        BY <1>4
    <2> QED
        BY <2>1, <1>3
<1>6. PICK b \in Nat : \A i \in 1..(x - 1) : f[i] <= b
    BY <1>5
<1>7. f[x] \in Nat
    BY <1>4
<1>8. ASSUME NEW i \in 1..x PROVE f[i] <= b + f[x]
    <2>1. f[i] \in Nat
        BY <1>4
    <2>2. i \in 1..(x - 1) \/ i = x
        BY <1>4
    <2> QED
        BY <2>1, <2>2, <1>6, <1>7
<1>9. b + f[x] \in Nat
    BY <1>7
<1> QED
    BY <1>3, <1>8, <1>9

-----------------------------------------------------------------------------

(* Products of costs are costs and keep their order.                       *)
LEMMA Times ==
    ASSUME NEW x \in Nat, NEW y \in Nat
    PROVE  x * y \in Nat
    OBVIOUS

LEMMA TimesKeepsOrder ==
    ASSUME NEW x \in Nat, NEW y \in Nat, NEW z \in Nat, x <= y
    PROVE  x * z <= y * z /\ z * x <= z * y
    OBVIOUS

(* Two keys of five are ordered by the first place where they differ.      *)
LEMMA LexOfFive ==
    ASSUME NEW u, NEW v, DOMAIN u = 1..5,
           \/ u[1] < v[1]
           \/ u[1] = v[1] /\ u[2] < v[2]
           \/ u[1] = v[1] /\ u[2] = v[2] /\ u[3] < v[3]
           \/ u[1] = v[1] /\ u[2] = v[2] /\ u[3] = v[3] /\ u[4] < v[4]
           \/ u[1] = v[1] /\ u[2] = v[2] /\ u[3] = v[3] /\ u[4] = v[4] /\ u[5] < v[5]
    PROVE  LexBefore(u, v)
<1>1. CASE u[1] < v[1]
    <2>1. 1 \in DOMAIN u /\ u[1] < v[1] /\ \A q \in 1..(1 - 1) : u[q] = v[q]
        BY <1>1
    <2> QED
        BY <2>1, Zenon DEF LexBefore
<1>2. CASE u[1] = v[1] /\ u[2] < v[2]
    <2>1. 2 \in DOMAIN u /\ u[2] < v[2] /\ \A q \in 1..(2 - 1) : u[q] = v[q]
        BY <1>2
    <2> QED
        BY <2>1, Zenon DEF LexBefore
<1>3. CASE u[1] = v[1] /\ u[2] = v[2] /\ u[3] < v[3]
    <2>1. 3 \in DOMAIN u /\ u[3] < v[3] /\ \A q \in 1..(3 - 1) : u[q] = v[q]
        BY <1>3
    <2> QED
        BY <2>1, Zenon DEF LexBefore
<1>4. CASE u[1] = v[1] /\ u[2] = v[2] /\ u[3] = v[3] /\ u[4] < v[4]
    <2>1. 4 \in DOMAIN u /\ u[4] < v[4] /\ \A q \in 1..(4 - 1) : u[q] = v[q]
        BY <1>4
    <2> QED
        BY <2>1, Zenon DEF LexBefore
<1>5. CASE u[1] = v[1] /\ u[2] = v[2] /\ u[3] = v[3] /\ u[4] = v[4] /\ u[5] < v[5]
    <2>1. 5 \in DOMAIN u /\ u[5] < v[5] /\ \A q \in 1..(5 - 1) : u[q] = v[q]
        BY <1>5
    <2> QED
        BY <2>1, Zenon DEF LexBefore
<1> QED
    BY <1>1, <1>2, <1>3, <1>4, <1>5

(* Among keys of four costs and the profile there is a first one, and its  *)
(* first cost is the least.                                                *)
LEMMA FirstOfFive ==
    ASSUME NEW S, S \subseteq Nat, S # {}, NEW key,
           \A i \in S : /\ DOMAIN key[i] = 1..5 /\ key[i][5] = i
                        /\ key[i][1] \in Nat /\ key[i][2] \in Nat
                        /\ key[i][3] \in Nat /\ key[i][4] \in Nat
    PROVE  /\ First(S, key) \in S
           /\ \A j \in S : key[First(S, key)][1] <= key[j][1]
<1> DEFINE a == [i \in S |-> key[i][1]]
           b == [i \in S |-> key[i][2]]
           g == [i \in S |-> key[i][3]]
           d == [i \in S |-> key[i][4]]
<1>0. \A i \in S :
        /\ a[i] \in Nat /\ b[i] \in Nat /\ g[i] \in Nat /\ d[i] \in Nat
        /\ DOMAIN key[i] = 1..5 /\ key[i][1] = a[i] /\ key[i][2] = b[i] /\ key[i][3] = g[i]
        /\ key[i][4] = d[i] /\ key[i][5] = i
    OBVIOUS
<1> HIDE DEF a, b, g, d
<1> DEFINE A == {i \in S : \A j \in S : a[i] <= a[j]}
           B == {i \in A : \A j \in A : b[i] <= b[j]}
           C == {i \in B : \A j \in B : g[i] <= g[j]}
           D == {i \in C : \A j \in C : d[i] <= d[j]}
<1>1. A # {}
    BY <1>0, ArgMin
<1>2. B # {}
    <2> HIDE DEF A
    <2>1. \A i \in A : b[i] \in Nat
        BY <1>0 DEF A
    <2> QED
        BY <1>1, <2>1, ArgMin
<1>3. C # {}
    <2>1. \A i \in B : g[i] \in Nat
        BY <1>0
    <2> HIDE DEF B
    <2> QED
        BY <1>2, <2>1, ArgMin
<1>4. D # {}
    <2>1. \A i \in C : d[i] \in Nat
        BY <1>0
    <2> HIDE DEF C
    <2> QED
        BY <1>3, <2>1, ArgMin
<1>5. PICK x \in D : \A y \in D : x <= y
    <2>1. D \subseteq Nat
        OBVIOUS
    <2> HIDE DEF D
    <2> QED
        BY <1>4, <2>1, LeastNat
<1>6. /\ x \in S
      /\ \A j \in S : a[x] <= a[j] /\ (a[x] = a[j] => j \in A)
      /\ \A j \in A : b[x] <= b[j] /\ (b[x] = b[j] => j \in B)
      /\ \A j \in B : g[x] <= g[j] /\ (g[x] = g[j] => j \in C)
      /\ \A j \in C : d[x] <= d[j] /\ (d[x] = d[j] => j \in D)
    <2>1. x \in C /\ x \in B /\ x \in A /\ x \in S
        BY <1>5
    <2>2. \A j \in S : a[x] <= a[j] /\ (a[x] = a[j] => j \in A)
        BY <2>1
    <2>3. \A j \in A : b[x] <= b[j] /\ (b[x] = b[j] => j \in B)
        <3> HIDE DEF A
        <3> QED
            BY <2>1
    <2>4. \A j \in B : g[x] <= g[j] /\ (g[x] = g[j] => j \in C)
        <3> HIDE DEF B
        <3> QED
            BY <2>1
    <2>5. \A j \in C : d[x] <= d[j] /\ (d[x] = d[j] => j \in D)
        <3> HIDE DEF C
        <3> QED
            BY <1>5
    <2> QED
        BY <2>1, <2>2, <2>3, <2>4, <2>5
<1> HIDE DEF A, B, C, D
<1>7. ASSUME NEW j \in S \ {x} PROVE LexBefore(key[x], key[j])
    <2> DEFINE u == key[x]
               v == key[j]
    <2>1. /\ a[x] \in Nat /\ b[x] \in Nat /\ g[x] \in Nat /\ d[x] \in Nat /\ x \in Nat
          /\ a[j] \in Nat /\ b[j] \in Nat /\ g[j] \in Nat /\ d[j] \in Nat /\ j \in Nat
          /\ x # j /\ x \in S
        BY <1>0, <1>6
    <2>7. /\ DOMAIN u = 1..5
          /\ u[1] = a[x] /\ u[2] = b[x] /\ u[3] = g[x] /\ u[4] = d[x] /\ u[5] = x
          /\ v[1] = a[j] /\ v[2] = b[j] /\ v[3] = g[j] /\ v[4] = d[j] /\ v[5] = j
        BY <1>0, <2>1
    <2>8. \/ u[1] < v[1]
          \/ u[1] = v[1] /\ u[2] < v[2]
          \/ u[1] = v[1] /\ u[2] = v[2] /\ u[3] < v[3]
          \/ u[1] = v[1] /\ u[2] = v[2] /\ u[3] = v[3] /\ u[4] < v[4]
          \/ u[1] = v[1] /\ u[2] = v[2] /\ u[3] = v[3] /\ u[4] = v[4] /\ u[5] < v[5]
          => LexBefore(key[x], key[j])
        BY <2>7, LexOfFive
    <2> HIDE DEF u, v
    <2>2. CASE a[x] # a[j]
        <3>1. a[x] < a[j]
            BY <1>6, <2>1, <2>2
        <3> QED
            BY <2>7, <2>8, <3>1
    <2>3. CASE a[x] = a[j] /\ b[x] # b[j]
        <3>1. j \in A
            BY <1>6, <2>3
        <3>2. b[x] < b[j]
            BY <1>6, <2>1, <2>3, <3>1
        <3> QED
            BY <2>3, <2>7, <2>8, <3>2
    <2>4. CASE a[x] = a[j] /\ b[x] = b[j] /\ g[x] # g[j]
        <3>1. j \in B
            BY <1>6, <2>4
        <3>2. g[x] < g[j]
            BY <1>6, <2>1, <2>4, <3>1
        <3> QED
            BY <2>4, <2>7, <2>8, <3>2
    <2>5. CASE a[x] = a[j] /\ b[x] = b[j] /\ g[x] = g[j] /\ d[x] # d[j]
        <3>1. j \in C
            BY <1>6, <2>5
        <3>2. d[x] < d[j]
            BY <1>6, <2>1, <2>5, <3>1
        <3> QED
            BY <2>5, <2>7, <2>8, <3>2
    <2>6. CASE a[x] = a[j] /\ b[x] = b[j] /\ g[x] = g[j] /\ d[x] = d[j]
        <3>1. j \in D
            BY <1>6, <2>6
        <3>2. x < j
            BY <1>5, <2>1, <3>1
        <3> QED
            BY <2>6, <2>7, <2>8, <3>2
    <2> QED
        BY <2>2, <2>3, <2>4, <2>5, <2>6
<1>8. First(S, key) \in S /\ \A j \in S \ {First(S, key)} : LexBefore(key[First(S, key)], key[j])
    BY <1>6, <1>7, Zenon DEF First
<1> QED
    <2> DEFINE y == First(S, key)
    <2>1. y \in S /\ \A j \in S \ {y} : LexBefore(key[y], key[j])
        BY <1>8
    <2> HIDE DEF y
    <2>2. ASSUME NEW j \in S PROVE key[y][1] <= key[j][1]
        <3>1. CASE j = y
            BY <1>0, <2>1, <3>1
        <3>2. CASE j # y
            <4>1. PICK p \in DOMAIN key[y] :
                     key[y][p] < key[j][p] /\ \A q \in 1..(p - 1) : key[y][q] = key[j][q]
                BY <2>1, <3>2 DEF LexBefore
            <4>2. DOMAIN key[y] = 1..5 /\ key[y][1] \in Nat /\ key[j][1] \in Nat
                BY <1>0, <2>1
            <4>3. CASE p = 1
                BY <4>1, <4>2, <4>3
            <4>4. CASE p # 1
                <5>1. 1 \in 1..(p - 1)
                    BY <4>2, <4>4
                <5> QED
                    BY <4>1, <4>2, <5>1
            <4> QED
                BY <4>3, <4>4
        <3> QED
            BY <3>1, <3>2
    <2> QED
        BY <2>1, <2>2 DEF y

(* The same for a key of a cost and the profile.                           *)
LEMMA FirstOfTwo ==
    ASSUME NEW S, S \subseteq Nat, S # {}, NEW key,
           \A i \in S : DOMAIN key[i] = 1..2 /\ key[i][1] \in Nat /\ key[i][2] = i
    PROVE  First(S, key) \in S
<1> DEFINE a == [i \in S |-> key[i][1]]
<1>0. \A i \in S : a[i] \in Nat /\ DOMAIN key[i] = 1..2 /\ key[i][1] = a[i] /\ key[i][2] = i
    OBVIOUS
<1> HIDE DEF a
<1> DEFINE A == {i \in S : \A j \in S : a[i] <= a[j]}
<1>1. A # {} /\ A \subseteq Nat
    BY <1>0, ArgMin
<1>2. PICK x \in A : \A y \in A : x <= y
    <2> HIDE DEF A
    <2> QED
        BY <1>1, LeastNat
<1>3. x \in S /\ \A j \in S : a[x] <= a[j] /\ (a[x] = a[j] => j \in A)
    BY <1>2
<1> HIDE DEF A
<1>4. ASSUME NEW j \in S \ {x} PROVE LexBefore(key[x], key[j])
    <2> DEFINE u == key[x]
               v == key[j]
    <2>1. a[x] \in Nat /\ a[j] \in Nat /\ x \in Nat /\ j \in Nat /\ x # j
        BY <1>0, <1>3
    <2>2. DOMAIN u = 1..2 /\ u[1] = a[x] /\ u[2] = x /\ v[1] = a[j] /\ v[2] = j
        BY <1>0, <1>3
    <2> HIDE DEF u, v
    <2>3. CASE a[x] # a[j]
        <3>1. 1 \in DOMAIN u /\ u[1] < v[1] /\ \A q \in 1..(1 - 1) : u[q] = v[q]
            BY <1>3, <2>1, <2>2, <2>3
        <3> QED
            BY <3>1, Zenon DEF LexBefore, u, v
    <2>4. CASE a[x] = a[j]
        <3>1. x < j
            BY <1>2, <1>3, <2>1, <2>4
        <3>2. 2 \in DOMAIN u /\ u[2] < v[2] /\ \A q \in 1..(2 - 1) : u[q] = v[q]
            BY <2>2, <2>4, <3>1
        <3> QED
            BY <3>2, Zenon DEF LexBefore, u, v
    <2> QED
        BY <2>3, <2>4
<1> QED
    BY <1>3, <1>4, Zenon DEF First

-----------------------------------------------------------------------------

(* A cost vector for each profile of a catalog.                            *)
CostVectors(N) == [1..N -> [Metrics -> Nat]]

(* Normalised costs are not negative and keep the order of the costs.      *)
LEMMA NormalizedKeepsOrder ==
    ASSUME NEW N \in Nat \ {0}, NEW vs \in CostVectors(N)
    PROVE  /\ Normalized(vs) \in CostVectors(N)
           /\ \A i, j \in 1..N, m \in Metrics : vs[i][m] <= vs[j][m]
                  => Normalized(vs)[i][m] <= Normalized(vs)[j][m]
<1> DEFINE values(m) == {vs[i][m] : i \in DOMAIN vs}
           a == Anchors(vs)
           range == [m \in Metrics |-> a[m].max - a[m].min]
           scale(m) == Product([range EXCEPT ![m] = 1])
           n == Normalized(vs)
<1>1. DOMAIN vs = 1..N /\ \A i \in 1..N, m \in Metrics : vs[i][m] \in Nat
    BY DEF CostVectors
<1>2. ASSUME NEW m \in Metrics
      PROVE  /\ a[m].min \in Nat /\ a[m].max \in Nat /\ a[m].min <= a[m].max
             /\ \A i \in 1..N : a[m].min <= vs[i][m]
    <2> DEFINE T == values(m)
               f == [i \in 1..N |-> vs[i][m]]
    <2>1. T \subseteq Nat /\ T # {} /\ \A i \in 1..N : vs[i][m] \in T
        <3>1. 1 \in DOMAIN vs
            BY <1>1
        <3> QED
            BY <1>1, <3>1
    <2>2. PICK b \in Nat : \A y \in T : y <= b
        <3>1. \A i \in 1..N : f[i] \in Nat
            BY <1>1
        <3>2. PICK b \in Nat : \A i \in 1..N : f[i] <= b
            <4> HIDE DEF f
            <4> QED
                BY <3>1, Bounded
        <3> QED
            BY <1>1, <3>2
    <2>3. a[m].min = Min(T) /\ a[m].max = Max(T)
        BY DEF Anchors
    <2> HIDE DEF T, a
    <2>4. Min(T) \in T /\ \A y \in T : Min(T) <= y
        BY <2>1, MinOf
    <2>5. Max(T) \in T /\ \A y \in T : y <= Max(T)
        BY <2>1, <2>2, MaxOf
    <2> QED
        BY <2>1, <2>3, <2>4, <2>5
<1>3. range \in [Metrics -> Nat]
    <2> HIDE DEF a
    <2> QED
        BY <1>2
<1>4. ASSUME NEW m \in Metrics PROVE scale(m) \in Nat
    <2> DEFINE r == [range EXCEPT ![m] = 1]
    <2> HIDE DEF range
    <2>1. r \in [Metrics -> Nat]
        BY <1>3
    <2> HIDE DEF r
    <2>2. r["wall_time"] \in Nat /\ r["process_cpu_time"] \in Nat
          /\ r["total_handshake_bytes"] \in Nat
        BY <2>1 DEF Metrics, Timing
    <2>3. Product(r) \in Nat
        BY <2>2, Times DEF Product
    <2> QED
        BY <2>3 DEF r
<1>5. n = [i \in 1..N |-> [m \in Metrics |-> (vs[i][m] - a[m].min) * scale(m)]]
    BY <1>1 DEF Normalized
<1> HIDE DEF a, scale, n
<1>6. ASSUME NEW i \in 1..N, NEW m \in Metrics
      PROVE  n[i][m] = (vs[i][m] - a[m].min) * scale(m) /\ vs[i][m] - a[m].min \in Nat
             /\ n[i][m] \in Nat
    <2>1. n[i][m] = (vs[i][m] - a[m].min) * scale(m)
        BY <1>5
    <2>2. vs[i][m] - a[m].min \in Nat
        BY <1>1, <1>2
    <2> QED
        BY <2>1, <2>2, <1>4, Times
<1>7. n \in CostVectors(N)
    <2>1. \A i \in 1..N : n[i] \in [Metrics -> Nat]
        BY <1>5, <1>6
    <2> QED
        BY <1>5, <2>1 DEF CostVectors
<1>8. ASSUME NEW i \in 1..N, NEW j \in 1..N, NEW m \in Metrics, vs[i][m] <= vs[j][m]
      PROVE  n[i][m] <= n[j][m]
    <2> DEFINE x == vs[i][m] - a[m].min
               y == vs[j][m] - a[m].min
    <2>1. x \in Nat /\ y \in Nat /\ x <= y
        BY <1>1, <1>2, <1>6, <1>8
    <2>2. n[i][m] = x * scale(m) /\ n[j][m] = y * scale(m)
        BY <1>6
    <2> HIDE DEF x, y
    <2> QED
        BY <2>1, <2>2, <1>4, TimesKeepsOrder
<1> QED
    BY <1>7, <1>8 DEF n

(* The three metrics by name.                                              *)
LEMMA MetricNames ==
    /\ Metrics = {"wall_time", "process_cpu_time", "total_handshake_bytes"}
    /\ \A w \in WeightGrid : w \in [Metrics -> Nat]
    /\ WeightGrid # {}
<1>1. Metrics = {"wall_time", "process_cpu_time", "total_handshake_bytes"}
    BY DEF Metrics, Timing
<1>2. \A w \in WeightGrid : w \in [Metrics -> Nat]
    BY SelectorAssumption DEF WeightGrid
<1>3. WeightGrid # {}
    <2> DEFINE w == [m \in Metrics |-> IF m = "wall_time" THEN Unit ELSE 0]
    <2>1. w["wall_time"] = Unit /\ w["process_cpu_time"] = 0 /\ w["total_handshake_bytes"] = 0
        BY <1>1
    <2>2. w \in [Metrics -> 0..Unit]
        BY SelectorAssumption
    <2>3. Total(w) = Unit
        <3> HIDE DEF w
        <3> QED
            BY <2>1, SelectorAssumption DEF Total
    <2>4. w \in WeightGrid
        <3> HIDE DEF w
        <3> QED
            BY <2>2, <2>3 DEF WeightGrid
    <2> QED
        BY <2>4
<1> QED
    BY <1>1, <1>2, <1>3

(* A profile that costs no more on any metric has no larger weighted cost. *)
LEMMA WeightedKeepsOrder ==
    ASSUME NEW x \in [Metrics -> Nat], NEW y \in [Metrics -> Nat], NEW w \in [Metrics -> Nat],
           \A m \in Metrics : x[m] <= y[m]
    PROVE  /\ WeightedCost(x, w) \in Nat /\ WeightedCost(y, w) \in Nat
           /\ WeightedCost(x, w) <= WeightedCost(y, w)
<1> DEFINE p(v, m) == w[m] * v[m]
<1>1. ASSUME NEW m \in Metrics
      PROVE  p(x, m) \in Nat /\ p(y, m) \in Nat /\ p(x, m) <= p(y, m)
    <2>1. w[m] \in Nat /\ x[m] \in Nat /\ y[m] \in Nat /\ x[m] <= y[m]
        OBVIOUS
    <2> QED
        BY <2>1, Times, TimesKeepsOrder
<1>2. ASSUME NEW v
      PROVE  WeightedCost(v, w) = p(v, "wall_time") + p(v, "process_cpu_time")
                                  + p(v, "total_handshake_bytes")
    BY MetricNames DEF WeightedCost, Total
<1> HIDE DEF p
<1> QED
    BY <1>1, <1>2, MetricNames

(* The sum and the largest of three costs are costs.                       *)
LEMMA TotalOfCosts ==
    ASSUME NEW x \in [Metrics -> Nat]
    PROVE  /\ Total(x) \in Nat
           /\ Max({x[m] : m \in Metrics}) \in Nat
<1>1. x["wall_time"] \in Nat /\ x["process_cpu_time"] \in Nat /\ x["total_handshake_bytes"] \in Nat
    BY MetricNames
<1>2. Total(x) \in Nat /\ \A m \in Metrics : x[m] <= Total(x)
    BY <1>1, MetricNames DEF Total
<1> DEFINE T == {x[m] : m \in Metrics}
<1>3. T \subseteq Nat /\ T # {} /\ \A y \in T : y <= Total(x)
    BY <1>2, MetricNames
<1> HIDE DEF T
<1>4. Max(T) \in T
    BY <1>2, <1>3, MaxOf
<1> QED
    BY <1>2, <1>3, <1>4 DEF T

(* Dominance of costs is transitive.                                       *)
LEMMA CostDominanceIsTransitive ==
    ASSUME NEW a \in [Metrics -> Nat], NEW b \in [Metrics -> Nat], NEW c \in [Metrics -> Nat],
           CostDominates(a, b), CostDominates(b, c)
    PROVE  CostDominates(a, c)
<1>1. \A m \in Metrics : a[m] \in Nat /\ b[m] \in Nat /\ c[m] \in Nat
    OBVIOUS
<1>2. \A m \in Metrics : a[m] <= b[m] /\ b[m] <= c[m]
    BY DEF CostDominates
<1>3. PICK m \in Metrics : a[m] < b[m]
    BY DEF CostDominates
<1>4. a[m] < c[m] /\ \A o \in Metrics : a[o] <= c[o]
    BY <1>1, <1>2, <1>3
<1> QED
    BY <1>4 DEF CostDominates

(* Whatever the filter removes is dominated by something that stays.       *)
LEMMA FrontierExplains ==
    ASSUME NEW N \in Nat, NEW vs \in CostVectors(N), NEW common, common \subseteq 1..N,
           NEW i \in common
    PROVE  \E j \in ParetoFilter(common, vs) : j = i \/ CostDominates(vs[j], vs[i])
<1> DEFINE D == {j \in common : j = i \/ CostDominates(vs[j], vs[i])}
           f == [j \in D |-> Total(vs[j])]
<1>1. \A j \in common : vs[j] \in [Metrics -> Nat] /\ \A m \in Metrics : vs[j][m] \in Nat
    BY DEF CostVectors
<1>2. PICK x \in D : \A y \in D : f[x] <= f[y]
    <2>1. \A j \in D : f[j] \in Nat
        BY <1>1, TotalOfCosts
    <2>2. D # {}
        OBVIOUS
    <2> HIDE DEF D, f
    <2> QED
        BY <2>1, <2>2, ArgMin
<1>3. SUFFICES x \in ParetoFilter(common, vs)
    BY <1>2
<1>4. SUFFICES ASSUME NEW y \in common, CostDominates(vs[y], vs[x]) PROVE FALSE
    BY <1>2 DEF ParetoFilter
<1>5. x \in common /\ (x = i \/ CostDominates(vs[x], vs[i]))
    BY <1>2
<1>6. CostDominates(vs[y], vs[i])
    <2>1. CASE x = i
        BY <1>4, <2>1
    <2>2. CASE CostDominates(vs[x], vs[i])
        BY <1>1, <1>4, <1>5, <2>2, CostDominanceIsTransitive
    <2> QED
        BY <1>5, <2>1, <2>2
<1>7. y \in D
    BY <1>6
<1>8. Total(vs[y]) < Total(vs[x])
    <2>1. /\ vs[x]["wall_time"] \in Nat /\ vs[y]["wall_time"] \in Nat
          /\ vs[x]["process_cpu_time"] \in Nat /\ vs[y]["process_cpu_time"] \in Nat
          /\ vs[x]["total_handshake_bytes"] \in Nat /\ vs[y]["total_handshake_bytes"] \in Nat
        BY <1>1, <1>5, MetricNames
    <2> QED
        BY <1>4, <2>1, MetricNames DEF Total, CostDominates
<1>9. Total(vs[x]) <= Total(vs[y]) /\ Total(vs[x]) \in Nat /\ Total(vs[y]) \in Nat
    BY <1>1, <1>2, <1>5, <1>7, TotalOfCosts
<1> QED
    BY <1>8, <1>9

-----------------------------------------------------------------------------

(* There is something to choose among the profiles ids, with costs n.      *)
Choosable(N, n, ids) == N \in Nat /\ n \in CostVectors(N) /\ ids \subseteq 1..N /\ ids # {}

(* What a side pays at least among the profiles ids.                       *)
Best(ids, n, w) == Min({WeightedCost(n[i], w) : i \in ids})
Regret(i, ids, n, w) == WeightedCost(n[i], w) - Best(ids, n, w)

(* What a side pays at least is what it pays for one of the profiles, and  *)
(* no profile costs it less.                                               *)
LEMMA BestBounds ==
    ASSUME NEW N, NEW n, NEW ids, Choosable(N, n, ids),
           NEW w \in [Metrics -> Nat]
    PROVE  /\ Best(ids, n, w) \in Nat
           /\ \A i \in ids : /\ WeightedCost(n[i], w) \in Nat
                              /\ Best(ids, n, w) <= WeightedCost(n[i], w)
           /\ \A x \in Nat : (\A i \in ids : x <= WeightedCost(n[i], w)) => x <= Best(ids, n, w)
<1> DEFINE T == {WeightedCost(n[i], w) : i \in ids}
<1>1. \A i \in ids : WeightedCost(n[i], w) \in Nat
    <2> SUFFICES ASSUME NEW i \in ids PROVE WeightedCost(n[i], w) \in Nat
        OBVIOUS
    <2>1. n[i] \in [Metrics -> Nat] /\ \A m \in Metrics : n[i][m] <= n[i][m]
        BY DEF CostVectors, Choosable
    <2> QED
        BY <2>1, WeightedKeepsOrder
<1>2. T \subseteq Nat /\ T # {}
    BY <1>1 DEF Choosable
<1>3. Min(T) \in T /\ \A y \in T : Min(T) <= y
    <2> HIDE DEF T
    <2> QED
        BY <1>2, MinOf
<1>4. Best(ids, n, w) = Min(T)
    BY DEF Best
<1> QED
    BY <1>1, <1>3, <1>4

(* The larger of two costs.                                                *)
LEMMA MaxOfTwo ==
    ASSUME NEW x \in Nat, NEW y \in Nat
    PROVE  Max({x, y}) = IF x >= y THEN x ELSE y
<1> DEFINE T == {x, y}
<1>1. T \subseteq Nat /\ T # {} /\ x + y \in Nat /\ \A z \in T : z <= x + y
    OBVIOUS
<1>2. Max(T) \in T /\ \A z \in T : z <= Max(T)
    <2> HIDE DEF T
    <2> QED
        BY <1>1, MaxOf
<1> QED
    BY <1>2

(* The regrets of a profile are costs; its maximum is the larger one.      *)
LEMMA RegretsOf ==
    ASSUME NEW N, NEW n, NEW ids, Choosable(N, n, ids),
           NEW wi \in [Metrics -> Nat], NEW wr \in [Metrics -> Nat], NEW i \in ids
    PROVE  /\ Regret(i, ids, n, wi) \in Nat /\ Regret(i, ids, n, wr) \in Nat
           /\ RegretRows(ids, n, wi, wr)[i].maximum =
                 IF Regret(i, ids, n, wi) >= Regret(i, ids, n, wr)
                 THEN Regret(i, ids, n, wi) ELSE Regret(i, ids, n, wr)
           /\ RegretRows(ids, n, wi, wr)[i].maximum \in Nat
           /\ RegretRows(ids, n, wi, wr)[i].total \in Nat
           /\ RegretRows(ids, n, wi, wr)[i].component \in Nat
           /\ RegretRows(ids, n, wi, wr)[i].cost \in Nat
<1> DEFINE row == RegretRows(ids, n, wi, wr)[i]
           x == Regret(i, ids, n, wi)
           y == Regret(i, ids, n, wr)
<1>1. x \in Nat /\ y \in Nat
    <2>1. /\ Best(ids, n, wi) \in Nat /\ WeightedCost(n[i], wi) \in Nat
          /\ Best(ids, n, wi) <= WeightedCost(n[i], wi)
        BY BestBounds
    <2>2. /\ Best(ids, n, wr) \in Nat /\ WeightedCost(n[i], wr) \in Nat
          /\ Best(ids, n, wr) <= WeightedCost(n[i], wr)
        BY BestBounds
    <2> QED
        BY <2>1, <2>2 DEF Regret
<1>2. row = [initiator |-> x, responder |-> y, maximum |-> Max({x, y}), total |-> x + y,
             component |-> Max({n[i][m] : m \in Metrics}), cost |-> Total(n[i])]
    BY DEF RegretRows, Best, Regret
<1>3. n[i] \in [Metrics -> Nat]
    BY DEF CostVectors, Choosable
<1>4. Total(n[i]) \in Nat /\ Max({n[i][m] : m \in Metrics}) \in Nat
    BY <1>3, TotalOfCosts
<1> HIDE DEF row, x, y
<1>5. Max({x, y}) = IF x >= y THEN x ELSE y
    BY <1>1, MaxOfTwo
<1>6. row.maximum = Max({x, y}) /\ row.total = x + y
      /\ row.component = Max({n[i][m] : m \in Metrics}) /\ row.cost = Total(n[i])
    BY <1>2
<1>7. /\ x \in Nat /\ y \in Nat
      /\ row.maximum = IF x >= y THEN x ELSE y
      /\ row.maximum \in Nat /\ row.total \in Nat /\ row.component \in Nat /\ row.cost \in Nat
    BY <1>1, <1>4, <1>5, <1>6
<1> QED
    BY <1>7 DEF row, x, y

(* Minimax chooses one of the profiles it is given, and none of the others *)
(* has a smaller maximum regret.                                           *)
LEMMA MinimaxChooses ==
    ASSUME NEW N, NEW n, NEW ids, Choosable(N, n, ids),
           NEW wi \in [Metrics -> Nat], NEW wr \in [Metrics -> Nat]
    PROVE  LET rows == RegretRows(ids, n, wi, wr) IN
           /\ MinimaxSelect(rows) \in ids
           /\ \A i \in ids : rows[MinimaxSelect(rows)].maximum <= rows[i].maximum
<1> DEFINE rows == RegretRows(ids, n, wi, wr)
           key == [i \in DOMAIN rows |->
                     <<rows[i].maximum, rows[i].total, rows[i].component, rows[i].cost, i>>]
<1>1. DOMAIN rows = ids
    BY DEF RegretRows
<1>2. \A i \in ids : rows[i].maximum \in Nat /\ rows[i].total \in Nat /\ rows[i].component \in Nat
                     /\ rows[i].cost \in Nat
    BY RegretsOf
<1> HIDE DEF rows
<1>3. ASSUME NEW i \in ids
      PROVE  /\ DOMAIN key[i] = 1..5 /\ key[i][5] = i
             /\ key[i][1] \in Nat /\ key[i][2] \in Nat /\ key[i][3] \in Nat /\ key[i][4] \in Nat
             /\ key[i][1] = rows[i].maximum
    <2>1. key[i] = <<rows[i].maximum, rows[i].total, rows[i].component, rows[i].cost, i>>
        BY <1>1
    <2> HIDE DEF key
    <2> QED
        BY <1>2, <2>1
<1>5. MinimaxSelect(rows) = First(ids, key)
    BY <1>1 DEF MinimaxSelect
<1>6. ids \subseteq Nat /\ ids # {}
    BY DEF Choosable
<1> HIDE DEF key
<1>7. First(ids, key) \in ids /\ \A j \in ids : key[First(ids, key)][1] <= key[j][1]
    BY <1>3, <1>6, FirstOfFive
<1>8. /\ MinimaxSelect(rows) \in ids
      /\ \A i \in ids : rows[MinimaxSelect(rows)].maximum <= rows[i].maximum
    BY <1>3, <1>5, <1>7
<1> QED
    BY <1>8 DEF rows

-----------------------------------------------------------------------------

(* What is common to the two sides, its frontier and its normalised costs. *)
LEMMA FrontierFacts ==
    ASSUME NEW N \in Nat \ {0}, NEW vs \in CostVectors(N),
           NEW common, common \subseteq 1..N, common # {}
    PROVE  LET frontier == ParetoFilter(common, vs) IN
           /\ frontier \subseteq common /\ frontier \subseteq 1..N /\ frontier # {}
           /\ \A i \in common, j \in frontier : ~CostDominates(vs[i], vs[j])
           /\ \A i \in common : \E j \in frontier : \A w \in [Metrics -> Nat] :
                 WeightedCost(Normalized(vs)[j], w) <= WeightedCost(Normalized(vs)[i], w)
<1> DEFINE frontier == ParetoFilter(common, vs)
           n == Normalized(vs)
<1>1. frontier \subseteq common
    BY DEF ParetoFilter
<1>2. frontier # {}
    <2>1. PICK i \in common : TRUE
        OBVIOUS
    <2> QED
        BY <2>1, FrontierExplains
<1>3. ASSUME NEW i \in common, NEW j \in frontier PROVE ~CostDominates(vs[i], vs[j])
    <2>1. CASE i = j
        <3>1. \A m \in Metrics : vs[i][m] \in Nat
            BY DEF CostVectors
        <3> QED
            BY <2>1, <3>1 DEF CostDominates
    <2>2. CASE i # j
        BY <2>2 DEF ParetoFilter
    <2> QED
        BY <2>1, <2>2
<1>4. n \in CostVectors(N) /\ \A i, j \in 1..N, m \in Metrics : vs[i][m] <= vs[j][m]
                                  => n[i][m] <= n[j][m]
    BY NormalizedKeepsOrder
<1> HIDE DEF n, frontier
<1>5. ASSUME NEW i \in common
      PROVE  \E j \in frontier : \A w \in [Metrics -> Nat] :
                 WeightedCost(n[j], w) <= WeightedCost(n[i], w)
    <2>1. PICK j \in frontier : j = i \/ CostDominates(vs[j], vs[i])
        BY FrontierExplains DEF frontier
    <2>2. j \in 1..N /\ i \in 1..N
        BY <1>1
    <2>3. n[j] \in [Metrics -> Nat] /\ n[i] \in [Metrics -> Nat]
        BY <1>4, <2>2 DEF CostVectors
    <2>4. \A m \in Metrics : n[j][m] <= n[i][m]
        <3>1. CASE j = i
            <4>1. \A m \in Metrics : n[i][m] \in Nat
                BY <2>3
            <4> QED
                BY <3>1, <4>1
        <3>2. CASE CostDominates(vs[j], vs[i])
            BY <1>4, <2>2, <3>2 DEF CostDominates
        <3> QED
            BY <2>1, <3>1, <3>2
    <2>5. \A w \in [Metrics -> Nat] : WeightedCost(n[j], w) <= WeightedCost(n[i], w)
        BY <2>3, <2>4, WeightedKeepsOrder
    <2> QED
        BY <2>5
<1>6. frontier \subseteq 1..N
    BY <1>1
<1>7. /\ frontier \subseteq common /\ frontier \subseteq 1..N /\ frontier # {}
      /\ \A i \in common, j \in frontier : ~CostDominates(vs[i], vs[j])
      /\ \A i \in common : \E j \in frontier : \A w \in [Metrics -> Nat] :
            WeightedCost(n[j], w) <= WeightedCost(n[i], w)
    BY <1>1, <1>2, <1>3, <1>5, <1>6
<1> QED
    BY <1>7 DEF frontier, n

(* The best of what is safe is on the frontier, whatever a side weighs.    *)
LEMMA BestIsOnFrontier ==
    ASSUME NEW N \in Nat \ {0}, NEW vs \in CostVectors(N),
           NEW common, common \subseteq 1..N, common # {}, NEW w \in [Metrics -> Nat]
    PROVE  Best(ParetoFilter(common, vs), Normalized(vs), w) = Best(common, Normalized(vs), w)
<1> DEFINE frontier == ParetoFilter(common, vs)
           n == Normalized(vs)
<1>1. n \in CostVectors(N)
    BY NormalizedKeepsOrder
<1>2. /\ frontier \subseteq common /\ frontier \subseteq 1..N /\ frontier # {}
      /\ \A i \in common : \E j \in frontier : WeightedCost(n[j], w) <= WeightedCost(n[i], w)
    BY FrontierFacts
<1> HIDE DEF n, frontier
<1>3. Choosable(N, n, common) /\ Choosable(N, n, frontier)
    BY <1>1, <1>2 DEF Choosable
<1>4. Best(common, n, w) \in Nat /\ Best(frontier, n, w) \in Nat
    BY <1>3, BestBounds
<1>5. Best(common, n, w) <= Best(frontier, n, w)
    <2>1. \A i \in frontier : Best(common, n, w) <= WeightedCost(n[i], w)
        BY <1>2, <1>3, BestBounds
    <2> QED
        BY <1>3, <1>4, <2>1, BestBounds
<1>6. Best(frontier, n, w) <= Best(common, n, w)
    <2>1. ASSUME NEW i \in common PROVE Best(frontier, n, w) <= WeightedCost(n[i], w)
        <3>1. PICK j \in frontier : WeightedCost(n[j], w) <= WeightedCost(n[i], w)
            BY <1>2
        <3>2. /\ WeightedCost(n[j], w) \in Nat /\ WeightedCost(n[i], w) \in Nat
              /\ Best(frontier, n, w) <= WeightedCost(n[j], w)
            BY <1>3, BestBounds
        <3> QED
            BY <1>4, <3>1, <3>2
    <2> QED
        BY <1>3, <1>4, <2>1, BestBounds
<1>7. Best(frontier, n, w) = Best(common, n, w)
    BY <1>4, <1>5, <1>6
<1> QED
    BY <1>7 DEF n, frontier

(* The choice is on the frontier, and nothing that is safe for both sides  *)
(* has a smaller maximum regret than it.                                   *)
LEMMA ChoiceIsFair ==
    ASSUME NEW N \in Nat \ {0}, NEW vs \in CostVectors(N),
           NEW common, common \subseteq 1..N, common # {},
           NEW wi \in [Metrics -> Nat], NEW wr \in [Metrics -> Nat]
    PROVE  LET selected == Choice(common, vs, wi, wr)
               rows == RegretRows(common, Normalized(vs), wi, wr) IN
           /\ selected \in ParetoFilter(common, vs)
           /\ \A i \in common : rows[selected].maximum <= rows[i].maximum
<1> DEFINE frontier == ParetoFilter(common, vs)
           n == Normalized(vs)
           selected == Choice(common, vs, wi, wr)
           all == RegretRows(common, n, wi, wr)
           rows == RegretRows(frontier, n, wi, wr)
           x(i) == Regret(i, common, n, wi)
           y(i) == Regret(i, common, n, wr)
<1>1. n \in CostVectors(N)
    BY NormalizedKeepsOrder
<1>2. /\ frontier \subseteq common /\ frontier \subseteq 1..N /\ frontier # {}
      /\ \A i \in common : \E j \in frontier : \A w \in [Metrics -> Nat] :
            WeightedCost(n[j], w) <= WeightedCost(n[i], w)
    BY FrontierFacts
<1>3. \A w \in [Metrics -> Nat] : Best(frontier, n, w) = Best(common, n, w)
    BY BestIsOnFrontier
<1>4. selected = MinimaxSelect(rows)
    BY DEF Choice
<1> HIDE DEF n, frontier, selected
<1>0. Choosable(N, n, frontier) /\ Choosable(N, n, common)
    BY <1>1, <1>2 DEF Choosable
<1>5. selected \in frontier /\ \A i \in frontier : rows[selected].maximum <= rows[i].maximum
    BY <1>0, <1>4, MinimaxChooses
<1>6. ASSUME NEW i \in common
      PROVE  /\ x(i) \in Nat /\ y(i) \in Nat
             /\ all[i].maximum = IF x(i) >= y(i) THEN x(i) ELSE y(i)
    BY <1>0, RegretsOf
<1>7. ASSUME NEW i \in frontier
      PROVE  rows[i].maximum = IF x(i) >= y(i) THEN x(i) ELSE y(i)
    <2>2. x(i) = Regret(i, frontier, n, wi) /\ y(i) = Regret(i, frontier, n, wr)
        BY <1>3 DEF Regret
    <2>3. rows[i].maximum = IF Regret(i, frontier, n, wi) >= Regret(i, frontier, n, wr)
                            THEN Regret(i, frontier, n, wi) ELSE Regret(i, frontier, n, wr)
        BY <1>0, RegretsOf
    <2> QED
        BY <2>2, <2>3
<1>8. ASSUME NEW i \in common
      PROVE  /\ WeightedCost(n[i], wi) \in Nat /\ Best(common, n, wi) \in Nat
             /\ WeightedCost(n[i], wr) \in Nat /\ Best(common, n, wr) \in Nat
    BY <1>0, BestBounds
<1> HIDE DEF rows, all
<1>9. ASSUME NEW i \in common PROVE all[selected].maximum <= all[i].maximum
    <2>1. PICK j \in frontier : \A w \in [Metrics -> Nat] :
                                   WeightedCost(n[j], w) <= WeightedCost(n[i], w)
        BY <1>2
    <2>2. j \in common /\ selected \in common
        BY <1>2, <1>5
    <2>3. x(j) <= x(i) /\ y(j) <= y(i)
        BY <1>8, <2>1, <2>2 DEF Regret
    <2>4. all[selected].maximum = rows[selected].maximum /\ all[j].maximum = rows[j].maximum
        BY <1>5, <1>6, <1>7, <2>2
    <2>5. rows[selected].maximum <= rows[j].maximum
        BY <1>5
    <2>6. all[j].maximum <= all[i].maximum
        <3> HIDE DEF x, y
        <3> QED
            BY <1>6, <2>2, <2>3
    <2>7. all[selected].maximum \in Nat /\ all[j].maximum \in Nat /\ all[i].maximum \in Nat
        <3> HIDE DEF x, y
        <3> QED
            BY <1>6, <2>2
    <2> QED
        BY <2>4, <2>5, <2>6, <2>7
<1> QED
    BY <1>5, <1>9 DEF frontier, all, n, selected

(* Every baseline chooses one of the profiles it is given.                 *)
LEMMA BaselinesChoose ==
    ASSUME NEW N, NEW n, NEW ids, Choosable(N, n, ids),
           NEW wi \in [Metrics -> Nat], NEW wr \in [Metrics -> Nat],
           NEW method \in Methods \ {"minimax"}
    PROVE  Baselines(ids, n, wi, wr)[method] \in ids
<1> DEFINE ci(i) == WeightedCost(n[i], wi)
           cr(i) == WeightedCost(n[i], wr)
           largest(i) == Max({n[i][m] : m \in Metrics})
           own == [i \in ids |-> <<ci(i), i>>]
           other == [i \in ids |-> <<cr(i), i>>]
           sum == [i \in ids |-> <<ci(i) + cr(i), i>>]
           most == [i \in ids |-> <<largest(i), i>>]
<1>1. ids \subseteq Nat /\ ids # {}
    BY DEF Choosable
<1>2. ASSUME NEW i \in ids PROVE ci(i) \in Nat /\ cr(i) \in Nat /\ largest(i) \in Nat
    <2>1. n[i] \in [Metrics -> Nat]
        BY DEF Choosable, CostVectors
    <2> QED
        BY <2>1, BestBounds, TotalOfCosts
<1> DEFINE r == [initiator |-> First(ids, own), responder |-> First(ids, other),
                 total |-> First(ids, sum), component |-> First(ids, most),
                 canonical |-> Min(ids)]
<1>3. Baselines(ids, n, wi, wr) = r
    BY DEF Baselines
<1> HIDE DEF ci, cr, largest
<1>4. First(ids, own) \in ids
    <2>1. \A i \in ids : DOMAIN own[i] = 1..2 /\ own[i][1] \in Nat /\ own[i][2] = i
        BY <1>2
    <2> HIDE DEF own
    <2> QED
        BY <1>1, <2>1, FirstOfTwo
<1>5. First(ids, other) \in ids
    <2>1. \A i \in ids : DOMAIN other[i] = 1..2 /\ other[i][1] \in Nat /\ other[i][2] = i
        BY <1>2
    <2> HIDE DEF other
    <2> QED
        BY <1>1, <2>1, FirstOfTwo
<1>6. First(ids, sum) \in ids
    <2>1. \A i \in ids : DOMAIN sum[i] = 1..2 /\ sum[i][1] \in Nat /\ sum[i][2] = i
        BY <1>2
    <2> HIDE DEF sum
    <2> QED
        BY <1>1, <2>1, FirstOfTwo
<1>7. First(ids, most) \in ids
    <2>1. \A i \in ids : DOMAIN most[i] = 1..2 /\ most[i][1] \in Nat /\ most[i][2] = i
        BY <1>2
    <2> HIDE DEF most
    <2> QED
        BY <1>1, <2>1, FirstOfTwo
<1>8. Min(ids) \in ids
    BY <1>1, MinOf
<1> HIDE DEF own, other, sum, most
<1>9. /\ r["initiator"] \in ids /\ r["responder"] \in ids /\ r["total"] \in ids
      /\ r["component"] \in ids /\ r["canonical"] \in ids
    BY <1>4, <1>5, <1>6, <1>7, <1>8
<1> HIDE DEF r
<1> QED
    BY <1>3, <1>9 DEF Methods

(* A frontier of one profile leaves nothing to weigh.                      *)
LEMMA NothingToWeigh ==
    ASSUME NEW N \in Nat \ {0}, NEW vs \in CostVectors(N),
           NEW common, common \subseteq 1..N, common # {},
           NEW wi \in [Metrics -> Nat], NEW wr \in [Metrics -> Nat],
           NEW x, ParetoFilter(common, vs) = {x}
    PROVE  /\ Choice(common, vs, wi, wr) = x
           /\ RegretRows(common, Normalized(vs), wi, wr)[x].maximum = 0
<1> DEFINE n == Normalized(vs)
           selected == Choice(common, vs, wi, wr)
<1>1. n \in CostVectors(N)
    BY NormalizedKeepsOrder
<1>2. x \in common /\ {x} \subseteq 1..N
    BY DEF ParetoFilter
<1>3. selected \in ParetoFilter(common, vs)
    BY ChoiceIsFair
<1>4. ASSUME NEW w \in [Metrics -> Nat] PROVE Best({x}, n, w) = Best(common, n, w)
    <2>1. Best(ParetoFilter(common, vs), n, w) = Best(common, n, w)
        BY BestIsOnFrontier
    <2> QED
        BY <2>1
<1> HIDE DEF n, selected
<1>5. Choosable(N, n, common) /\ Choosable(N, n, {x})
    BY <1>1, <1>2 DEF Choosable
<1>6. ASSUME NEW w \in [Metrics -> Nat] PROVE Regret(x, common, n, w) = 0
    <2>1. /\ Best({x}, n, w) \in Nat /\ WeightedCost(n[x], w) \in Nat
          /\ Best({x}, n, w) <= WeightedCost(n[x], w)
        BY <1>5, BestBounds
    <2>2. \A i \in {x} : WeightedCost(n[x], w) <= WeightedCost(n[i], w)
        BY <2>1
    <2>3. WeightedCost(n[x], w) <= Best({x}, n, w)
        BY <1>5, <2>1, <2>2, BestBounds
    <2> QED
        BY <1>4, <2>1, <2>3 DEF Regret
<1>7. RegretRows(common, n, wi, wr)[x].maximum = 0
    <2>1. Regret(x, common, n, wi) = 0 /\ Regret(x, common, n, wr) = 0
        BY <1>6
    <2> QED
        BY <1>2, <1>5, <2>1, RegretsOf
<1> QED
    BY <1>3, <1>7 DEF n, selected

-----------------------------------------------------------------------------

(* What the stage knows beside the compilations: a scenario is compiled    *)
(* and reported with evidence that loads, and a report is the one that     *)
(* some pair of preferences got for the profiles that are still the common *)
(* safe set.                                                               *)
StageInv ==
    /\ evidence \in Evidences
    /\ stage \notin {"load", "raised"} => EvidenceLoads(evidence)
    /\ pc = "done" => call > 1
    /\ report.status = "ok" =>
          /\ stage \notin {"load", "raised", "compile"}
          /\ CommonSafeSet # {} /\ CommonSafeSet \subseteq Positions
          /\ \E pi, pr \in PreferenceFiles :
                report = Report(RunBilateralSelector(pi, pr), pi.weights, pr.weights)

(* The measured costs of evidence that loads are a cost vector for each    *)
(* profile of the catalog.                                                 *)
LEMMA LoadedCosts ==
    ASSUME NEW e \in Evidences, EvidenceLoads(e)
    PROVE  /\ Len(Catalog) \in Nat \ {0} /\ Positions = 1..Len(Catalog)
           /\ VectorsFor(e, Point) \in CostVectors(Len(Catalog))
<1>1. Len(Catalog) \in Nat \ {0} /\ Positions = 1..Len(Catalog)
    BY CompilerAssumption DEF Positions
<1>2. DOMAIN e.entries = Positions
    BY StageAssumption DEF EvidenceLoads
<1>3. ASSUME NEW i \in Positions, NEW m \in Metrics
      PROVE  e.entries[i].point[m] \in Nat
    <2>1. e.entries[i].point[m] \in Int
        BY <1>2, StageAssumption
    <2>2. e.entries[i].point[m] > 0
        BY <1>2 DEF EvidenceLoads, EntryHolds
    <2> QED
        BY <2>1, <2>2
<1>4. VectorsFor(e, Point) = [i \in Positions |-> [m \in Metrics |-> e.entries[i].point[m]]]
    BY <1>2, MetricNames DEF VectorsFor, Point
<1> QED
    BY <1>1, <1>3, <1>4 DEF CostVectors

(* A preference's weights are not negative.                                *)
LEMMA PreferenceWeights ==
    ASSUME NEW pi \in PreferenceFiles
    PROVE  pi.weights \in WeightGrid /\ pi.weights \in [Metrics -> Nat]
    BY StageAssumption, MetricNames DEF Preferences

(* Nothing has been selected.                                              *)
LEMMA StageInitEstablishes == StageInit => StageInv
    BY DEF StageInit, Init, StageInv

(* Steps of the compiler, before anything is selected.                     *)
LEMMA CompileSideKeeps == ASSUME IndInv, StageInv, CompileSide PROVE StageInv'
<1>1. stage = "compile" /\ Next /\ UNCHANGED stageVars
    BY DEF CompileSide, Compiling
<1>2. call \in Nat \ {0} /\ pc # "done"
    BY <1>1 DEF IndInv, TypeInv, Next, Validate, Derive, Enumerate, Unknown, Decide, Minimize,
       Conclude
<1>3. ASSUME NEW r, Return(r) PROVE call' > 1
    BY <1>2, <1>3 DEF Return
<1>4. pc' = "done" => call' > 1
    BY <1>1, <1>2, <1>3 DEF Next, Validate, Derive, Enumerate, Unknown, Decide, Minimize,
       Conclude, Raise
<1>5. report'.status # "ok"
    BY <1>1 DEF StageInv, stageVars
<1> QED
    BY <1>1, <1>4, <1>5 DEF StageInv, stageVars

(* The profiles that both sides may use are in the catalog.                *)
LEMMA CommonIsInCatalog ==
    ASSUME IndInv, StageInv, Compiling, pc = "done"
    PROVE  CommonSafeSet \subseteq Positions
<1>1. call \in Nat /\ call > 1 /\ Calls \in Nat \ {0}
    BY CompilerAssumption DEF IndInv, TypeInv, StageInv
<1>2. Done(1)
    BY <1>1 DEF Compiling
<1>3. result[1].safe \subseteq Positions
    BY <1>1, <1>2 DEF IndInv, SafeSetIsExact
<1> QED
    BY <1>3 DEF CommonSafeSet

(* A selection reports what the selector chose among the profiles safe for *)
(* both sides.                                                             *)
LEMMA SelectKeeps ==
    ASSUME IndInv, StageInv, NEW pi \in PreferenceFiles, NEW pr \in PreferenceFiles, Select(pi, pr)
    PROVE  StageInv'
<1>1. stage = "compile" /\ Compiling /\ pc = "done" /\ UNCHANGED <<vars, evidence>>
      /\ stage' = "conclude"
    BY DEF Select, Compiling, Fails
<1>2. EvidenceLoads(evidence) /\ evidence \in Evidences /\ call > 1
    BY <1>1 DEF StageInv
<1>3. CASE \E why \in {"preference agent", "empty common safe set", "zero denominator"} : Fails(why)
    <2>1. report'.status # "ok"
        <3>1. PICK why \in {"preference agent", "empty common safe set", "zero denominator"} :
                 Fails(why)
            BY <1>3
        <3>2. report' = [status |-> why]
            BY <3>1 DEF Fails
        <3> QED
            BY <3>2
    <2> QED
        BY <1>1, <1>2, <2>1 DEF StageInv, vars
<1>4. CASE /\ CommonSafeSet # {}
           /\ report' = Report(RunBilateralSelector(pi, pr), pi.weights, pr.weights)
    <2>1. CommonSafeSet \subseteq Positions
        BY <1>1, CommonIsInCatalog
    <2>2. CommonSafeSet' = CommonSafeSet
        BY <1>1 DEF CommonSafeSet, vars
    <2>3. Report(RunBilateralSelector(pi, pr), pi.weights, pr.weights)'
          = Report(RunBilateralSelector(pi, pr), pi.weights, pr.weights)
        BY <1>1 DEF vars, Report, RunBilateralSelector, SelectionInput, CommonSafeSet
    <2> QED
        BY <1>1, <1>2, <1>4, <2>1, <2>2, <2>3 DEF StageInv, vars
<1> QED
    BY <1>3, <1>4 DEF Select

(* Any step of the stage.                                                  *)
LEMMA StageStepKeeps == ASSUME IndInv, StageInv, [StageNext]_allVars PROVE StageInv'
<1>1. CASE LoadEvidence
    BY <1>1 DEF LoadEvidence, StageInv, vars
<1>2. CASE SideFails
    BY <1>2 DEF SideFails, Fails, StageInv, vars
<1>3. CASE OtherScenarios
    BY <1>3 DEF OtherScenarios, Compiling, StageInv, vars
<1>4. CASE DrawConclusion \/ UNCHANGED allVars
    <2>1. /\ UNCHANGED <<vars, evidence, report>>
          /\ stage' \in {"load", "raised", "compile"} => stage' = stage
          /\ stage \in {"load", "raised"} => stage' = stage
        BY <1>4 DEF DrawConclusion, allVars, stageVars
    <2>2. CommonSafeSet' = CommonSafeSet
        BY <2>1 DEF CommonSafeSet, vars
    <2>3. \A pi, pr : Report(RunBilateralSelector(pi, pr), pi.weights, pr.weights)'
                      = Report(RunBilateralSelector(pi, pr), pi.weights, pr.weights)
        BY <2>1 DEF vars, Report, RunBilateralSelector, SelectionInput, CommonSafeSet
    <2> QED
        BY <2>1, <2>2, <2>3 DEF StageInv, vars
<1> QED
    BY <1>1, <1>2, <1>3, <1>4, CompileSideKeeps, SelectKeeps DEF StageNext

(* What the stage has reported so far is what the selector says of the     *)
(* safe profiles.                                                          *)
LEMMA StageInvHolds == StageSpec => []StageInv
<1>1. StageInit => StageInv
    BY StageInitEstablishes
<1>2. IndInv /\ StageInv /\ [StageNext]_allVars => StageInv'
    BY StageStepKeeps
<1>3. StageSpec => []IndInv
    BY StageImplementsCompiler, IndInvHolds, PTL
<1> QED
    BY <1>1, <1>2, <1>3, PTL DEF StageSpec

(* What a report says of the profiles that are safe for both sides.        *)
LEMMA ReportedSelection ==
    ASSUME StageInv, report.status = "ok"
    PROVE  \E wi, wr \in WeightGrid :
             LET vs == VectorsFor(evidence, Point)
                 sel == report.selection IN
             /\ sel.common = CommonSafeSet
             /\ sel.frontier = ParetoFilter(CommonSafeSet, vs)
             /\ sel.removed = CommonSafeSet \ ParetoFilter(CommonSafeSet, vs)
             /\ sel.selected = Choice(CommonSafeSet, vs, wi, wr)
             /\ sel.mode = Mode(CommonSafeSet, ParetoFilter(CommonSafeSet, vs))
             /\ sel.candidates = Candidates(CommonSafeSet, vs, wi, wr)
             /\ sel.input.preferences[1].weights = wi
             /\ sel.input.preferences[2].weights = wr
             /\ report.byWeights = ByWeights(CommonSafeSet, vs)
             /\ report.byMethod =
                   [m \in Methods |-> SafeMethodOverride(m, CommonSafeSet, vs, wi, wr)]
<1>1. PICK pi \in PreferenceFiles, pr \in PreferenceFiles :
         report = Report(RunBilateralSelector(pi, pr), pi.weights, pr.weights)
    BY DEF StageInv
<1>2. pi.weights \in WeightGrid /\ pr.weights \in WeightGrid
    BY PreferenceWeights
<1> DEFINE vs == VectorsFor(evidence, Point)
           common == CommonSafeSet
           sel == RunBilateralSelector(pi, pr)
<1>3. /\ sel.common = common
      /\ sel.frontier = ParetoFilter(common, vs)
      /\ sel.removed = common \ ParetoFilter(common, vs)
      /\ sel.mode = Mode(common, ParetoFilter(common, vs))
      /\ sel.input = SelectionInput(pi, pr)
    BY DEF RunBilateralSelector, SelectFromSafeSet
<1>4. SelectionInput(pi, pr).preferences[1] = pi /\ SelectionInput(pi, pr).preferences[2] = pr
    BY DEF SelectionInput
<1>5. /\ sel.selected = Choice(common, vs, pi.weights, pr.weights)
      /\ sel.candidates = Candidates(common, vs, pi.weights, pr.weights)
    BY <1>4 DEF RunBilateralSelector, SelectFromSafeSet
<1> HIDE DEF sel, vs, common
<1>6. /\ report.selection = sel
      /\ report.byWeights = ByWeights(common, vs)
      /\ report.byMethod = [m \in Methods |->
                                SafeMethodOverride(m, common, vs, pi.weights, pr.weights)]
    BY <1>1, <1>3 DEF Report, sel, vs
<1> QED
    BY <1>2, <1>3, <1>4, <1>5, <1>6 DEF vs, common

(* select_from_safe_set and safe_method_override: for every catalog, all   *)
(* policies, costs and preferences, the selected profile is safe for both  *)
(* sides, is not dominated, and has the least maximum regret of all that   *)
(* is safe for both, the profiles the filter removed included; what was    *)
(* removed is dominated by what stayed, and no method selects a dominated  *)
(* profile.                                                                *)
THEOREM SelectionIsAlwaysFair == StageSpec => []SelectionIsFair
<1>1. StageInv => SelectionIsFair
    <2> SUFFICES ASSUME StageInv, report.status = "ok" PROVE SelectionIsFair
        BY DEF SelectionIsFair
    <2> DEFINE vs == VectorsFor(evidence, Point)
               sel == report.selection
               common == CommonSafeSet
               frontier == ParetoFilter(common, vs)
               N == Len(Catalog)
    <2>1. PICK wi \in WeightGrid, wr \in WeightGrid :
             /\ sel.common = common /\ sel.frontier = frontier /\ sel.removed = common \ frontier
             /\ sel.selected = Choice(common, vs, wi, wr)
             /\ sel.candidates = Candidates(common, vs, wi, wr)
             /\ sel.input.preferences[1].weights = wi /\ sel.input.preferences[2].weights = wr
             /\ report.byMethod = [m \in Methods |-> SafeMethodOverride(m, common, vs, wi, wr)]
        BY ReportedSelection
    <2>2. wi \in [Metrics -> Nat] /\ wr \in [Metrics -> Nat]
        BY MetricNames
    <2>3. N \in Nat \ {0} /\ vs \in CostVectors(N) /\ common \subseteq 1..N /\ common # {}
        BY LoadedCosts DEF StageInv
    <2>4. frontier \subseteq common /\ frontier \subseteq 1..N /\ frontier # {}
          /\ \A i \in common, j \in frontier : ~CostDominates(vs[i], vs[j])
        BY <2>3, FrontierFacts
    <2>5. /\ sel.selected \in frontier
          /\ \A i \in common : RegretRows(common, Normalized(vs), wi, wr)[sel.selected].maximum
                              <= RegretRows(common, Normalized(vs), wi, wr)[i].maximum
        <3> DEFINE s == Choice(common, vs, wi, wr)
        <3>1. /\ s \in frontier
              /\ \A i \in common : RegretRows(common, Normalized(vs), wi, wr)[s].maximum
                                  <= RegretRows(common, Normalized(vs), wi, wr)[i].maximum
            <4> HIDE DEF N, vs, common
            <4> QED
                BY <2>2, <2>3, ChoiceIsFair
        <3>2. sel.selected = s
            BY <2>1
        <3> HIDE DEF s, sel, frontier, vs, common
        <3> QED
            BY <3>1, <3>2
    <2>6. ASSUME NEW m \in Methods PROVE report.byMethod[m] \in frontier
        <3>1. CASE m = "minimax"
            BY <2>1, <2>5, <3>1 DEF SafeMethodOverride
        <3>2. CASE m # "minimax"
            <4>1. Choosable(N, Normalized(vs), frontier)
                BY <2>3, <2>4, NormalizedKeepsOrder DEF Choosable
            <4>2. report.byMethod[m] = Baselines(frontier, Normalized(vs), wi, wr)[m]
                BY <2>1, <3>2 DEF SafeMethodOverride
            <4> HIDE DEF frontier, vs
            <4> QED
                BY <2>2, <3>2, <4>1, <4>2, BaselinesChoose
        <3> QED
            BY <3>1, <3>2
    <2>7. report.byMethod["minimax"] = sel.selected
        BY <2>1 DEF SafeMethodOverride, Methods
    <2>8. ASSUME NEW i \in sel.removed PROVE sel.candidates[i].dominating \cap sel.frontier # {}
        <3>1. i \in common /\ i \notin frontier
            BY <2>1
        <3>2. PICK j \in frontier : j = i \/ CostDominates(vs[j], vs[i])
            BY <2>3, <3>1, FrontierExplains
        <3>3. j \in common \ {i} /\ CostDominates(vs[j], vs[i])
            BY <2>4, <3>1, <3>2
        <3>4. sel.candidates[i].dominating = {l \in common \ {i} : CostDominates(vs[l], vs[i])}
            BY <2>1, <3>1 DEF Candidates
        <3> HIDE DEF frontier, common, vs
        <3> QED
            BY <2>1, <3>2, <3>3, <3>4
    <2> HIDE DEF frontier
    <2>9. sel.selected \in result[1].safe \cap result[2].safe
        BY <2>4, <2>5 DEF CommonSafeSet
    <2>10. \A i \in common, m \in Methods : ~CostDominates(vs[i], vs[report.byMethod[m]])
        BY <2>4, <2>6
    <2> QED
        BY <2>1, <2>5, <2>7, <2>8, <2>9, <2>10 DEF SelectionIsFair
<1> QED
    BY <1>1, StageInvHolds, PTL

(* classify_selection_mode: when the mode is not the minimax one, every    *)
(* pair of weights chooses the same profile, and it costs neither side     *)
(* more than any other that is safe for both.                              *)
THEOREM StructuralIsAlwaysUnanimous == StageSpec => []StructuralIsUnanimous
<1>1. StageInv => StructuralIsUnanimous
    <2> SUFFICES ASSUME StageInv, report.status = "ok",
                        report.selection.mode # "bilateral_minimax_regret"
                 PROVE  StructuralIsUnanimous
        BY DEF StructuralIsUnanimous
    <2> DEFINE vs == VectorsFor(evidence, Point)
               sel == report.selection
               common == CommonSafeSet
               frontier == ParetoFilter(common, vs)
               N == Len(Catalog)
    <2>1. PICK wi \in WeightGrid, wr \in WeightGrid :
             /\ sel.common = common
             /\ sel.selected = Choice(common, vs, wi, wr)
             /\ sel.mode = Mode(common, frontier)
             /\ report.byWeights = ByWeights(common, vs)
        BY ReportedSelection
    <2>2. N \in Nat \ {0} /\ vs \in CostVectors(N) /\ common \subseteq 1..N /\ common # {}
        BY LoadedCosts DEF StageInv
    <2>3. frontier \subseteq common /\ frontier # {}
        BY <2>2, FrontierFacts
    <2>4. PICK x : frontier = {x}
        <3>1. IsFiniteSet(1..N)
            BY <2>2, FS_Interval
        <3> HIDE DEF frontier, common
        <3>2. IsFiniteSet(common) /\ IsFiniteSet(frontier)
            BY <2>2, <2>3, <3>1, FS_Subset
        <3>3. Cardinality(common) = 1 \/ Cardinality(frontier) = 1
            BY <2>1 DEF Mode
        <3>4. (\E y : common = {y}) \/ (\E y : frontier = {y})
            BY <3>2, <3>3, FS_Singleton
        <3> QED
            BY <2>3, <3>4
    <2>5. ASSUME NEW u \in WeightGrid, NEW v \in WeightGrid
          PROVE  /\ Choice(common, vs, u, v) = x
                 /\ RegretRows(common, Normalized(vs), u, v)[x].maximum = 0
        <3>1. u \in [Metrics -> Nat] /\ v \in [Metrics -> Nat]
            BY MetricNames
        <3>2. ParetoFilter(common, vs) = {x}
            BY <2>4
        <3> HIDE DEF N, vs, common, sel
        <3> QED
            BY <2>2, <3>1, <3>2, NothingToWeigh, ZenonT(40)
    <2>6. sel.selected = x
        BY <2>1, <2>5
    <2>7. report.byWeights = {x}
        <3>1. ByWeights(common, vs) = {x}
            BY <2>5, MetricNames DEF ByWeights
        <3> QED
            BY <2>1, <3>1
    <2> QED
        BY <2>1, <2>5, <2>6, <2>7 DEF StructuralIsUnanimous
<1> QED
    BY <1>1, StageInvHolds, PTL
=============================================================================
