--------------------------- MODULE RuntimeStates ----------------------------
(* The states of a runtime and the transitions RuntimeStateMachine allows. *)

(* ALLOWED_TRANSITIONS, without FAILED, which every state that is not      *)
(* final allows.                                                           *)
AllowedTransitions ==
    [CREATED                |-> {"DISCOVERY_COMPLETE"},
     DISCOVERY_COMPLETE     |-> {"COMMITMENTS_REGISTERED"},
     COMMITMENTS_REGISTERED |-> {"REVEALS_VERIFIED"},
     REVEALS_VERIFIED       |-> {"FEASIBILITY_EVALUATED"},
     FEASIBILITY_EVALUATED  |-> {"PROFILE_SELECTED", "CONFLICT_CERTIFIED"},
     PROFILE_SELECTED       |-> {"CONTRACT_CREATED"},
     CONTRACT_CREATED       |-> {"CONTRACT_VERIFIED"},
     CONTRACT_VERIFIED      |-> {"TLS_ACTIVATED"},
     TLS_ACTIVATED          |-> {"TASK_EXECUTED"},
     TASK_EXECUTED          |-> {"COMPLETED"},
     CONFLICT_CERTIFIED     |-> {"ABORTED"},
     COMPLETED              |-> {},
     ABORTED                |-> {},
     FAILED                 |-> {}]

Final == {"COMPLETED", "ABORTED", "FAILED"}

MayFollow(to, from) ==
    to \in AllowedTransitions[from] \/ (to = "FAILED" /\ from \notin Final)
=============================================================================
