--------------------------- MODULE MCStage6Bundle ---------------------------
(* Registries of two scenarios over three profiles: one of the registered  *)
(* kinds, or one with several minimal conflicts, or a satisfiable one; and *)
(* the scenario of two causes.                                             *)
EXTENDS Stage6Bundle, Sequences

Extra(agent, category, scope, source) ==
    NamedConstraint(agent, category, scope, source)
Of(name, initiator, responder, extra) ==
    [name |-> name, session |-> <<"session", name>>, initiator |-> initiator,
     responder |-> responder, policies |-> <<3, 2>>, extra |-> extra]

NoCommon == Of("first", {1, 2}, {3}, {})
Floor == Of("first", Profiles, Profiles,
    {Extra("task", "minimum_assurance", {3}, 1),
     Extra("responder", "minimum_assurance", {1, 2}, 4)})
(* Conflicts of two and of three constraints overlap.                      *)
Overlap == Of("first", {1, 2}, {2, 3},
    {[Extra("task", "lease_limit", {1, 3}, 1) EXCEPT !.negotiable = TRUE],
     Extra("responder", "unlisted", {3}, 4)})
Feasible == Of("first", {1, 2}, {2, 3}, {Extra("task", "lease_limit", {2}, 1)})
MultiCause == Of("last", Profiles, Profiles,
    {Extra("initiator", "TLS_group_support", {1}, 1),
     Extra("task", "lease_limit", {3}, 4)})

MCRegistries == {<<s, MultiCause>> : s \in {NoCommon, Floor, Overlap, Feasible}}
MCIds == <<"first", "last">>
=============================================================================
