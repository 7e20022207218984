---------------------------- MODULE MCMeasurement ----------------------------
(* A trial of three workers; a trial of two between other measurements;    *)
(* and each other kind, with an infeasible scenario measured twice whose   *)
(* conflict could be given two categories.                                 *)
EXTENDS Measurement

Observation(kind) == [kind |-> kind]
Trial(n) == [kind |-> "concurrency", level |-> n]
Conflict(s) == [kind |-> "infeasible", scenario |-> s]
Attack(c) == [kind |-> "adversarial", case |-> c]
Batch(native) == [kind |-> "component", native |-> native]

MCSchedules ==
    {<<Trial(3)>>, <<Batch(TRUE), Trial(2), Observation("feasible")>>,
     <<Observation("feasible"), Conflict("s1"), Conflict("s2"), Conflict("s1"), Attack("replay")>>,
     <<Attack("replay"), Batch(TRUE), Batch(FALSE)>>}

Conflicting(initiator, responder, extra) ==
    [name |-> None, session |-> None, initiator |-> initiator, responder |-> responder,
     policies |-> <<3, 2>>, extra |-> extra]
MCConflicts ==
    [s1 |-> Conflicting({1, 2}, {2, 3},
        {CC!NamedConstraint("initiator", "TLS_group_support", {1, 2}, 1),
         CC!NamedConstraint("responder", "TLS_group_support", {3}, 4)}),
     s2 |-> Conflicting({1, 2}, {3}, {})]
MCCodes == [replay |-> "REPLAYED"]
=============================================================================
