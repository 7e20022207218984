--------------------------- MODULE MCSelectorStage ---------------------------
(* Three profiles of growing assurance and shrinking lease, two agents     *)
(* with rules that overlap, tasks that are ordered and one that is not,    *)
(* evidence with ties, collapse and trade-offs, and faulty inputs of every *)
(* kind that is refused.                                                   *)
EXTENDS SelectorStage, TLC

CONSTANTS alice, bob, c, q, m1, m2, n1, n2, x1, g1, g2, g3

Vector(kem, end, con, f, r, l) ==
    [kem |-> kem, endpoint |-> end, contract |-> con,
     fallback |-> f, resumption |-> r, lease |-> l]

MCCatalog == <<
    [assurance |-> Vector({c}, {c}, {c}, 0, 0, 0), endpointMode |-> m1,
     contractMode |-> m1, maxLease |-> 3],
    [assurance |-> Vector({c, q}, {c}, {c, q}, 1, 1, 1), endpointMode |-> m1,
     contractMode |-> m2, maxLease |-> 2],
    [assurance |-> Vector({c, q}, {c, q}, {c, q}, 2, 1, 2), endpointMode |-> m2,
     contractMode |-> m2, maxLease |-> 1]>>

Always == [sensitivity |-> 0, impact |-> 0, horizon |-> 0, delegation |-> 0,
           seconds |-> 0, networks |-> Networks, classes |-> Classes]
Nothing == Vector({}, {}, {}, Missing, Missing, Missing)

PolicyA == [agent |-> alice, base |-> Vector({c}, {}, {}, 0, 0, 0), allowed |-> {1, 2, 3},
    denied |-> {}, endpointModes |-> Modes, contractModes |-> Modes,
    rules |-> <<[condition |-> [Always EXCEPT !.sensitivity = 1],
                 contribution |-> [Nothing EXCEPT !.kem = {q}]],
                [condition |-> [Always EXCEPT !.horizon = 1, !.networks = {n1}],
                 contribution |-> [Nothing EXCEPT !.endpoint = {q}, !.fallback = 1]],
                [condition |-> [Always EXCEPT !.impact = 1],
                 contribution |-> [Nothing EXCEPT !.fallback = 0, !.lease = 1]]>>]
PolicyB == [agent |-> bob, base |-> Vector({}, {c}, {}, 0, 0, 0), allowed |-> {1, 2},
    denied |-> {3}, endpointModes |-> {m1}, contractModes |-> Modes,
    rules |-> <<[condition |-> [Always EXCEPT !.delegation = 2],
                 contribution |-> [Nothing EXCEPT !.contract = {q}, !.resumption = 1]]>>]

Low == [sensitivity |-> 0, impact |-> 0, horizon |-> 0, delegation |-> 0,
        seconds |-> 1, network |-> n1, class |-> x1]
Mid == [Low EXCEPT !.sensitivity = 1, !.seconds = 2]
High == [Mid EXCEPT !.horizon = 2, !.impact = 1, !.delegation = 2]
Aside == [High EXCEPT !.network = n2, !.sensitivity = 3]

Manifest(agent, supported) ==
    [agent |-> agent, supported |-> supported, issued |-> 1, expires |-> 3]
Of(policy, supported, task) ==
    [policy |-> policy, manifest |-> Manifest(policy.agent, supported), task |-> task,
     time |-> 1]

MCInputs ==
    {Of(PolicyA, s, t) : s \in {{1, 2}, {1, 2, 3}}, t \in {Low, Mid, High, Aside}}
    \cup {Of(PolicyB, {1, 2, 3}, t) : t \in {Low, Mid, High}}
    \cup {[Of(PolicyB, {1}, Low) EXCEPT !.time = 3],
          [Of(PolicyB, {1}, Low) EXCEPT !.time = Naive],
          [Of(PolicyB, {1}, Low) EXCEPT !.manifest.agent = alice],
          Of(PolicyB, {1, 4}, Low)}

MCGroupOf == <<g1, g2, g3>>

(* Wall time, processor time and bytes.                                    *)
Costs(w, p, y) == ("wall_time" :> w) @@ ("process_cpu_time" :> p)
                  @@ ("total_handshake_bytes" :> y)
Times2(w, p) == ("wall_time" :> w) @@ ("process_cpu_time" :> p)
Entry(i, point, lower, upper) ==
    [group |-> MCGroupOf[i], catalog |-> 7, design |-> 5, checksums |-> [r \in Runs |-> 9],
     relative |-> TRUE, point |-> point, lower |-> lower, upper |-> upper]
Evidence(entries) ==
    [verified |-> Files,
     gate |-> [usable |-> TRUE, relative |-> TRUE, absolute |-> FALSE, blocks |-> Blocks,
               profiles |-> [i \in 1..3 |-> [relative |-> TRUE, group |-> MCGroupOf[i]]]],
     manifest |-> [compatible |-> TRUE, intact |-> [r \in Runs |-> TRUE],
                   catalog |-> [r \in Runs |-> 7], design |-> [r \in Runs |-> 5],
                   checksums |-> [r \in Runs |-> 9]],
     entries |-> entries]

TradeOff == Evidence(<<
    Entry(1, Costs(1, 2, 4), Times2(1, 1), Times2(2, 3)),
    Entry(2, Costs(2, 1, 2), Times2(1, 1), Times2(4, 2)),
    Entry(3, Costs(3, 3, 2), Times2(2, 2), Times2(3, 4))>>)
Collapse == Evidence(<<
    Entry(1, Costs(2, 2, 2), Times2(2, 1), Times2(3, 2)),
    Entry(2, Costs(1, 2, 1), Times2(1, 2), Times2(4, 3)),
    Entry(3, Costs(3, 4, 2), Times2(3, 3), Times2(3, 5))>>)
Tied == Evidence(<<
    Entry(1, Costs(1, 2, 3), Times2(1, 2), Times2(1, 2)),
    Entry(2, Costs(1, 2, 3), Times2(1, 2), Times2(1, 3)),
    Entry(3, Costs(3, 1, 4), Times2(2, 1), Times2(3, 1))>>)
Skewed == Evidence(<<
    Entry(1, Costs(1, 8, 8), Times2(1, 4), Times2(2, 9)),
    Entry(2, Costs(11, 1, 1), Times2(9, 1), Times2(12, 3)),
    Entry(3, Costs(6, 5, 5), Times2(4, 3), Times2(7, 6))>>)
FlatCorner == Evidence(<<
    Entry(1, Costs(1, 2, 3), Times2(1, 2), Times2(2, 2)),
    Entry(2, Costs(2, 1, 2), Times2(1, 1), Times2(2, 2)),
    Entry(3, Costs(3, 3, 1), Times2(1, 3), Times2(3, 3))>>)

MCEvidences ==
    {TradeOff, Collapse, Tied, Skewed, FlatCorner,
     [TradeOff EXCEPT !.verified = {"selector"}],
     [TradeOff EXCEPT !.gate.absolute = TRUE],
     [TradeOff EXCEPT !.manifest.design["confirmatory"] = 6],
     [TradeOff EXCEPT !.entries[2].group = g1],
     [TradeOff EXCEPT !.entries[1].lower["wall_time"] = 3],
     [TradeOff EXCEPT !.entries[3].design = 6]}

MCPreferenceFiles ==
    [agent : {alice, bob}, weights : {Costs(2, 0, 0), Costs(0, 1, 1), Costs(1, 0, 1)}]
=============================================================================
