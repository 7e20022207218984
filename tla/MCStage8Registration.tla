------------------------ MODULE MCStage8Registration ------------------------
(* Two commits with different schedules, and two environments, so that a   *)
(* registration can be repeated at the same commit and still differ; one   *)
(* run directory with a given name besides the ones named after commits.   *)
(* Operators who both register and move HEAD during a run are left out:    *)
(* nothing is claimed of them.                                             *)
EXTENDS Stage8Registration, TLC

CONSTANTS c1, c2, s1, s2

MCScheduleOf == (c1 :> s1) @@ (c2 :> s2)
MCConduct == {<<FALSE, FALSE>>, <<TRUE, FALSE>>, <<FALSE, TRUE>>}

MCSymmetry == Permutations(Environments) \cup Permutations(Observations)
=============================================================================
