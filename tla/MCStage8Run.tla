---------------------------- MODULE MCStage8Run -----------------------------
(* Three observations: enough for a row to be missing in the middle and to *)
(* be the last one, and for the one that may fail to have neighbours.  As  *)
(* in deterministic_schedule, those of a kind follow each other, so that a *)
(* row without its newline is followed by one of its kind, by one of       *)
(* another, or by none.                                                    *)
EXTENDS Stage8Run, TLC

CONSTANTS o1, o2, o3, r1, a, b

MCLongSchedule == <<o1, o2, o3>>
MCKindOf == (o1 :> a) @@ (o2 :> a) @@ (o3 :> b)
=============================================================================
