--------------------------- MODULE PolicyCompiler ---------------------------
(***************************************************************************)
(* compile_local_policy: from one agent's policy, manifest and task to the *)
(* set of profiles that are safe for it.  The requirement is derived rule  *)
(* by rule; Z3 enumerates the profiles that satisfy every constraint; each *)
(* profile of the catalog is then decided by a solver of its own; a        *)
(* rejection is explained by plain code that lists the violated categories *)
(* and by a core that is minimised one category at a time; and the two     *)
(* answers of the solver are compared at the end.                          *)
(*                                                                         *)
(* Z3 is external: it names satisfying indices in any order, and may       *)
(* answer "unknown" (solver_timeout_ms) to any question.  Several          *)
(* compilations are made one after the other, as for the two sides of a    *)
(* scenario.  A profile stands for its position in the catalog, which is   *)
(* kept in the order of the profile IDs.                                   *)
(***************************************************************************)
EXTENDS AssuranceOrder, Sequences

CONSTANTS
    Calls,       \* how many compilations are made
    Catalog,     \* ProfileCatalog.profiles
    Agents, Modes, Networks, Classes,
    Inputs       \* what compile_local_policy may be called with

Missing == -1    \* None, for a strictness class
Naive == -1      \* a time without time zone

TrustProfiles == [assurance : AssuranceVectors, endpointMode : Modes,
                  contractMode : Modes, maxLease : Nat \ {0}]

(* TaskDescriptor; sensitivity, impact and horizon stand for their ranks.  *)
Tasks == [sensitivity : 0..3, impact : Ranks, horizon : Ranks, delegation : 0..8,
          seconds : Nat \ {0}, network : Networks, class : Classes]

(* TaskRuleCondition: a minimum that is not given is the least value and a *)
(* filter that is not given admits every class.                            *)
Conditions == [sensitivity : 0..3, impact : Ranks, horizon : Ranks, delegation : 0..8,
               seconds : Nat, networks : SUBSET Networks, classes : SUBSET Classes]

(* RequirementContribution: threats that are not given count as none.      *)
Contributions ==
    [kem : SUBSET Threats, endpoint : SUBSET Threats, contract : SUBSET Threats,
     fallback : Ranks \cup {Missing}, resumption : Ranks \cup {Missing},
     lease : Ranks \cup {Missing}]

Rules == [condition : Conditions, contribution : Contributions]

(* AgentPolicy, its rules in the order of their IDs; _validate_policy      *)
(* keeps what is allowed and what is denied apart.                         *)
Policies == [agent : Agents, base : Requirements, allowed : SUBSET Nat,
             denied : SUBSET Nat, endpointModes : SUBSET Modes,
             contractModes : SUBSET Modes, rules : Seq(Rules)]

Manifests == [agent : Agents, supported : SUBSET Nat, issued : Nat, expires : Nat]

ASSUME CompilerAssumption ==
    /\ Calls \in Nat \ {0}
    /\ Catalog \in Seq(TrustProfiles) /\ Catalog # <<>>
    /\ \A in \in Inputs :
          /\ in.policy \in Policies /\ in.manifest \in Manifests
          /\ in.task \in Tasks /\ in.time \in Nat \cup {Naive}
          /\ in.policy.allowed \cap in.policy.denied = {}

(* RejectionCategory in canonical order, without RESOURCE_BOUND, for which *)
(* there is no constraint.                                                 *)
Categories == <<"capability", "organization_policy", "kem_assurance",
    "endpoint_authentication", "contract_evidence", "fallback", "resumption", "lease">>
CategorySet == {Categories[j] : j \in 1..8}

Positions == 1..Len(Catalog)
Indexes == 0..(Len(Catalog) + 1)    \* what Z3's integer ranges over

Undecided == [accepted |-> FALSE, violated |-> {}, core |-> {}]

VARIABLES
    input,       \* call -> its arguments
    call,        \* the compilation under way
    pc,          \* where it is
    k,           \* the rule or the profile it looks at
    requirement, \* the requirement derived so far
    matched,     \* matched_rule_ids
    enumerated,  \* enumerated_indexes
    decisions,   \* position -> ProfileCompilationDecision
    core, cat,   \* _minimize_core: remaining, and the category it looks at
    result       \* call -> what it returned or raised, or "none"

work == <<k, requirement, matched, enumerated, decisions, core, cat>>
vars == <<input, call, pc, work, result>>

In == input[call]
Blank == [kem |-> {}, endpoint |-> {}, contract |-> {},
          fallback |-> 0, resumption |-> 0, lease |-> 0]
NoDecisions == [i \in Positions |-> Undecided]

Init ==
    /\ input \in [1..Calls -> Inputs]
    /\ call = 1 /\ pc = "validate"
    /\ k = 1 /\ requirement = Blank /\ matched = {} /\ enumerated = {}
    /\ decisions = NoDecisions /\ core = {} /\ cat = 1
    /\ result = [c \in 1..Calls |-> [status |-> "none"]]

(* The call returns or raises; the locals go with it.                      *)
Return(r) ==
    /\ result' = [result EXCEPT ![call] = r]
    /\ call' = call + 1
    /\ pc' = IF call < Calls THEN "validate" ELSE "done"
    /\ k' = 1 /\ requirement' = Blank /\ matched' = {} /\ enumerated' = {}
    /\ decisions' = NoDecisions /\ core' = {} /\ cat' = 1
    /\ UNCHANGED input

Raise(why) == Return([status |-> why])

-----------------------------------------------------------------------------

(* validate_compilation_inputs                                             *)
ValidInputs(in) ==
    /\ in.time # Naive
    /\ in.manifest.agent = in.policy.agent
    /\ in.manifest.issued <= in.time /\ in.time < in.manifest.expires
    /\ in.manifest.supported \cup in.policy.allowed \cup in.policy.denied
           \subseteq Positions

Validate ==
    /\ pc = "validate"
    /\ \/ /\ ValidInputs(In)
          /\ pc' = "derive" /\ requirement' = In.policy.base
          /\ UNCHANGED <<input, call, k, matched, enumerated, decisions, core, cat, result>>
       \/ ~ValidInputs(In) /\ Raise("inputs")

(* TaskRuleCondition.matches                                               *)
Matches(c, t) ==
    /\ t.sensitivity >= c.sensitivity
    /\ t.impact >= c.impact
    /\ t.horizon >= c.horizon
    /\ t.delegation >= c.delegation
    /\ t.seconds >= c.seconds
    /\ t.network \in c.networks
    /\ t.class \in c.classes

(* RequirementContribution.apply_to                                        *)
ApplyTo(c, req) ==
    LET given(v, default) == IF v = Missing THEN default ELSE v IN
    RequirementJoin(req,
        [kem |-> c.kem, endpoint |-> c.endpoint, contract |-> c.contract,
         fallback |-> given(c.fallback, req.fallback),
         resumption |-> given(c.resumption, req.resumption),
         lease |-> given(c.lease, req.lease)])

(* Mutant: every rule strengthens the base, not what came before it.       *)
DeriveFromBase ==
    LET rules == In.policy.rules IN
    /\ pc = "derive"
    /\ \/ /\ k <= Len(rules) /\ Matches(rules[k].condition, In.task)
          /\ matched' = matched \cup {k}
          /\ requirement' = ApplyTo(rules[k].contribution, In.policy.base)
          /\ k' = k + 1 /\ UNCHANGED pc
       \/ /\ k <= Len(rules) /\ ~Matches(rules[k].condition, In.task)
          /\ k' = k + 1 /\ UNCHANGED <<matched, requirement, pc>>
       \/ /\ k > Len(rules)
          /\ k' = 1 /\ pc' = "enumerate" /\ UNCHANGED <<matched, requirement>>
    /\ UNCHANGED <<input, call, enumerated, decisions, core, cat, result>>

(* derive_requirement, one rule a step.  It is called again for every      *)
(* profile, with the same result.                                          *)
Derive ==
    LET rules == In.policy.rules IN
    /\ pc = "derive"
    /\ \/ /\ k <= Len(rules) /\ Matches(rules[k].condition, In.task)
          /\ matched' = matched \cup {k}
          /\ requirement' = ApplyTo(rules[k].contribution, requirement)
          /\ k' = k + 1 /\ UNCHANGED pc
       \/ /\ k <= Len(rules) /\ ~Matches(rules[k].condition, In.task)
          /\ k' = k + 1 /\ UNCHANGED <<matched, requirement, pc>>
       \/ /\ k > Len(rules)
          /\ k' = 1 /\ pc' = "enumerate" /\ UNCHANGED <<matched, requirement>>
    /\ UNCHANGED <<input, call, enumerated, decisions, core, cat, result>>

(* _indexed_bool: nothing holds of an index outside the catalog.           *)
IndexedBool(i, values) == \E j \in Positions : i = j /\ values[j]

(* build_constraint_encoding: the constraint labelled c.                   *)
Constraint(c, i, in, req) ==
    LET a == [j \in Positions |-> Catalog[j].assurance] IN
    \/ c = "capability" /\ i \in Positions /\ i \in in.manifest.supported
    \/ /\ c = "organization_policy"
       /\ i \in Positions /\ i \in in.policy.allowed /\ i \notin in.policy.denied
    \/ /\ c = "kem_assurance"
       /\ IndexedBool(i, [j \in Positions |-> req.kem \subseteq a[j].kem])
    \/ /\ c = "endpoint_authentication"
       /\ IndexedBool(i, [j \in Positions |->
                /\ req.endpoint \subseteq a[j].endpoint
                /\ Catalog[j].endpointMode \in in.policy.endpointModes])
    \/ /\ c = "contract_evidence"
       /\ IndexedBool(i, [j \in Positions |->
                /\ req.contract \subseteq a[j].contract
                /\ Catalog[j].contractMode \in in.policy.contractModes])
    \/ /\ c = "fallback"
       /\ IndexedBool(i, [j \in Positions |-> a[j].fallback >= req.fallback])
    \/ /\ c = "resumption"
       /\ IndexedBool(i, [j \in Positions |-> a[j].resumption >= req.resumption])
    \/ /\ c = "lease"
       /\ IndexedBool(i, [j \in Positions |->
                a[j].lease >= req.lease /\ in.task.seconds <= Catalog[j].maxLease])

(* Z3 under the labels of the categories cs, with the index i.             *)
Sat(cs, i) == \A c \in cs : Constraint(c, i, In, requirement)

(* _check_status raises on any other answer than sat and unsat.            *)
Unknown == pc \in {"enumerate", "decide", "minimize"} /\ Raise("unknown")

(* Mutant: the enumeration stops at the first profile.                     *)
EnumerateOne ==
    /\ pc = "enumerate"
    /\ \/ \E i \in Indexes : Sat(CategorySet, i) /\ enumerated' = {i}
       \/ (\A i \in Indexes : ~Sat(CategorySet, i)) /\ UNCHANGED enumerated
    /\ pc' = "decide"
    /\ UNCHANGED <<input, call, k, requirement, matched, decisions, core, cat, result>>

(* The loop of compile_local_policy that excludes each index it was given. *)
Enumerate ==
    /\ pc = "enumerate"
    /\ \/ /\ \E i \in Indexes \ enumerated :
                Sat(CategorySet, i) /\ enumerated' = enumerated \cup {i}
          /\ UNCHANGED pc
       \/ /\ \A i \in Indexes \ enumerated : ~Sat(CategorySet, i)
          /\ pc' = "decide" /\ UNCHANGED enumerated
    /\ UNCHANGED <<input, call, k, requirement, matched, decisions, core, cat, result>>

(* profile_violated_categories, which is plain code and not the encoding.  *)
Violated(i, in, req) ==
    LET p == Catalog[i] IN
    {c \in CategorySet :
        \/ c = "capability" /\ i \notin in.manifest.supported
        \/ /\ c = "organization_policy"
           /\ i \notin in.policy.allowed \/ i \in in.policy.denied
        \/ c = "kem_assurance" /\ ~(req.kem \subseteq p.assurance.kem)
        \/ /\ c = "endpoint_authentication"
           /\ \/ ~(req.endpoint \subseteq p.assurance.endpoint)
              \/ p.endpointMode \notin in.policy.endpointModes
        \/ /\ c = "contract_evidence"
           /\ \/ ~(req.contract \subseteq p.assurance.contract)
              \/ p.contractMode \notin in.policy.contractModes
        \/ c = "fallback" /\ p.assurance.fallback < req.fallback
        \/ c = "resumption" /\ p.assurance.resumption < req.resumption
        \/ /\ c = "lease"
           /\ p.assurance.lease < req.lease \/ in.task.seconds > p.maxLease}

(* _candidate_status of one profile after the other.                       *)
Decide ==
    /\ pc = "decide" /\ k <= Len(Catalog)
    /\ \/ /\ Sat(CategorySet, k)
          /\ decisions' = [decisions EXCEPT ![k].accepted = TRUE]
          /\ k' = k + 1
          /\ UNCHANGED <<input, call, pc, requirement, matched, enumerated, core, cat, result>>
       \/ /\ ~Sat(CategorySet, k) /\ Violated(k, In, requirement) # {}
          /\ core' = Violated(k, In, requirement) /\ cat' = 1 /\ pc' = "minimize"
          /\ UNCHANGED <<input, call, k, requirement, matched, enumerated, decisions, result>>
       \/ /\ ~Sat(CategorySet, k) /\ Violated(k, In, requirement) = {}
          /\ Raise("unsat without public violations")

(* Mutant: the violated categories are reported as the core.               *)
MinimizeNothing ==
    /\ pc = "minimize"
    /\ decisions' = [decisions EXCEPT ![k] =
            [accepted |-> FALSE, violated |-> Violated(k, In, requirement), core |-> core]]
    /\ k' = k + 1 /\ pc' = "decide" /\ core' = {} /\ cat' = 1
    /\ UNCHANGED <<input, call, requirement, matched, enumerated, result>>

(* _minimize_core: a category is dropped when the rest is still unsat.     *)
Minimize ==
    /\ pc = "minimize"
    /\ \/ /\ cat <= 8
          /\ core' = IF Categories[cat] \in core /\ ~Sat(core \ {Categories[cat]}, k)
                     THEN core \ {Categories[cat]} ELSE core
          /\ cat' = cat + 1
          /\ UNCHANGED <<k, pc, decisions>>
       \/ /\ cat > 8
          /\ decisions' = [decisions EXCEPT ![k] =
                [accepted |-> FALSE, violated |-> Violated(k, In, requirement),
                 core |-> core]]
          /\ k' = k + 1 /\ pc' = "decide" /\ core' = {} /\ cat' = 1
    /\ UNCHANGED <<input, call, requirement, matched, enumerated, result>>

Accepted == {i \in Positions : decisions[i].accepted}

(* The comparison at the end, and PolicyCompilationResult.                 *)
Conclude ==
    /\ pc = "decide" /\ k > Len(Catalog)
    /\ \/ /\ enumerated = Accepted
          /\ Return([status |-> "ok", safe |-> Accepted, requirement |-> requirement,
                     matched |-> matched, decisions |-> decisions])
       \/ enumerated # Accepted /\ Raise("enumeration and candidate checks differ")

Next == \/ Validate \/ Derive \/ Enumerate \/ Unknown \/ Decide \/ Minimize \/ Conclude

Spec == Init /\ [][Next]_vars

-----------------------------------------------------------------------------

Done(c) == result[c].status = "ok"

(* A profile is safe when the agent supports it, may use it, its assurance *)
(* dominates the requirement, and its modes and lease fit.                 *)
SafeFor(i, in, req) ==
    LET p == Catalog[i] IN
    /\ i \in in.manifest.supported /\ i \in in.policy.allowed \ in.policy.denied
    /\ Dominates(p.assurance, req)
    /\ p.endpointMode \in in.policy.endpointModes
    /\ p.contractMode \in in.policy.contractModes
    /\ in.task.seconds <= p.maxLease

(* A compilation that returns has exactly the safe profiles, in whatever   *)
(* order Z3 named them, and one that raises was given inputs it may not    *)
(* compile or got no answer: the enumeration, the separate decisions and   *)
(* the plain explanation never contradict each other.                      *)
SafeSetIsExact ==
    \A c \in 1..Calls :
        /\ result[c].status \in {"none", "ok", "inputs", "unknown"}
        /\ Done(c) => result[c].safe =
              {i \in Positions : SafeFor(i, input[c], result[c].requirement)}

(* The core of a rejection is made of violated categories, is unsat, and   *)
(* is satisfiable without any one of them.                                 *)
CoreIsIrreducible ==
    \A c \in 1..Calls : Done(c) =>
        \A i \in Positions \ result[c].safe :
            LET d == result[c].decisions[i]
                holds(cs) == \A x \in cs :
                    Constraint(x, i, input[c], result[c].requirement) IN
            /\ d.core # {} /\ d.core \subseteq d.violated
            /\ ~holds(d.core)
            /\ \A x \in d.core : holds(d.core \ {x})

TaskLeq(s, t) ==
    /\ s.sensitivity <= t.sensitivity /\ s.impact <= t.impact
    /\ s.horizon <= t.horizon /\ s.delegation <= t.delegation
    /\ s.seconds <= t.seconds
    /\ s.network = t.network /\ s.class = t.class

(* For one policy and one manifest, a task that is higher in every ordered *)
(* dimension never needs less and never has a profile that the lower task  *)
(* does not have (the claim of validate_mapper_monotonicity, which looks   *)
(* at the requirement and at neighbours only).                             *)
MonotoneInTask ==
    \A c, d \in 1..Calls :
        /\ Done(c) /\ Done(d)
        /\ input[c].policy = input[d].policy
        /\ TaskLeq(input[c].task, input[d].task)
        => /\ RequirementDominates(result[d].requirement, result[c].requirement)
           /\ input[c].manifest.supported = input[d].manifest.supported
                  => result[d].safe \subseteq result[c].safe
=============================================================================
