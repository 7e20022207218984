------------------------- MODULE Stage8Registration -------------------------
(***************************************************************************)
(* Registering a Stage 8 campaign (write_registration) and running it      *)
(* (prepare_run_dir, run_campaign, finalize_run), as two processes over    *)
(* the shared registration directory, the run directories and git HEAD     *)
(* (campaigns/stage8.py).                                                  *)
(*                                                                         *)
(* A commit determines the campaign YAML, and so the schedule, which       *)
(* stands for both; schedules of different configurations order the same   *)
(* observation IDs differently.  A registration is the commit, the         *)
(* schedule and the host environment it was made in, which is what         *)
(* registration_artifact_hash covers.  The working tree is clean; HEAD may *)
(* be moved at any time, and both processes read it, and the YAML, only    *)
(* where an action here looks at head.  A check that fails ends the        *)
(* process without a trace and is left out as a stuttering step.           *)
(* What a failing rename does is in DirectorySwap, how a run directory is  *)
(* written file by file in Stage8Run.                                      *)
(***************************************************************************)
EXTENDS Naturals, Functions

CONSTANTS
    Commits, Environments, Observations,
    ScheduleOf,   \* commit -> the schedule of its campaign YAML
    GivenNames,   \* run directories named with --run-id
    Conduct,      \* what the operators may do, as pairs <<overlap, checkout>>
    Absent

Schedules == Range(ScheduleOf)

ASSUME RegistrationAssumption ==
    /\ ScheduleOf \in [Commits -> Schedules]
    /\ Conduct \subseteq BOOLEAN \X BOOLEAN

Registrations == [commit : Commits, environment : Environments, schedule : Schedules]

(* A run directory: manifest.json, which holds the registration ("design", *)
(* whose schedule stands for the configuration) and the hash of the        *)
(* schedule file, the row of each observation with the schedule and HEAD   *)
(* it was measured under (the row itself copies its commit from the        *)
(* manifest), and RUN_COMPLETE.                                            *)
Manifests == [design : Registrations, schedule : Schedules]
Names == GivenNames \cup (Commits \X Schedules \X Schedules)
RowValues == [schedule : Schedules, head : Commits]
RunDirs   == [manifest : Manifests, rows : [Observations -> RowValues \cup {Absent}],
              complete : BOOLEAN]

ASSUME AbsentAssumption == Absent \notin RunDirs \cup Registrations

VARIABLES
    head,       \* the commit that is checked out
    reg,        \* artifacts/campaigns/registration, or Absent
    runs,       \* name -> run directory, or Absent
    overlap,    \* whether somebody may register while a campaign runs
    checkout,   \* whether HEAD may be moved while a process is at work
    registrar,  \* the process of register_stage8_campaign.py
    runner      \* the process of run_ or resume_stage8_campaign.py

choices == <<overlap, checkout>>
vars == <<head, reg, runs, choices, registrar, runner>>

NoRegistrar == [pc |-> "down", new |-> Absent, replace |-> FALSE]
NoRunner == [pc |-> "down", name |-> Absent, design |-> Absent,
             scheduled |-> Absent, plan |-> Absent]

Init ==
    /\ head \in Commits
    /\ reg = Absent
    /\ runs = [n \in Names |-> Absent]
    /\ \E c \in Conduct : overlap = c[1] /\ checkout = c[2]
    /\ registrar = NoRegistrar
    /\ runner = NoRunner

Rows(n) == {o \in Observations : runs[n].rows[o] # Absent}

(* _registration_has_measured_run_started *)
Measured == \E n \in Names : runs[n] # Absent /\ Rows(n) # {}

RegistrarMayRun == runner.pc = "down" \/ overlap
RunnerMayRun == registrar.pc = "down" \/ overlap

(* git checkout or git commit, by anybody (external).                      *)
MoveHead ==
    /\ checkout \/ {registrar.pc, runner.pc} = {"down"}
    /\ head' \in Commits \ {head}
    /\ UNCHANGED <<choices, reg, runs, registrar, runner>>

-----------------------------------------------------------------------------

(* write_registration: the YAML is read first ...                          *)
ReadConfiguration(replace, environment) ==
    /\ registrar.pc = "down" /\ RegistrarMayRun
    /\ registrar' = [pc |-> "check", replace |-> replace,
                     new |-> [commit |-> head, environment |-> environment,
                              schedule |-> ScheduleOf[head]]]
    /\ UNCHANGED <<choices, head, reg, runs, runner>>

(* Mutant: --replace-existing does not ask whether a run has started.      *)
CheckRegistrationAnyTime ==
    /\ registrar.pc = "check"
    /\ registrar' = [registrar EXCEPT !.pc = "swap", !.new.commit = head]
    /\ UNCHANGED <<choices, head, reg, runs, runner>>

(* ... and HEAD after the checks; then the files are staged.               *)
CheckRegistration ==
    /\ registrar.pc = "check"
    /\ registrar.replace => ~Measured
    /\ registrar' = [registrar EXCEPT !.pc = "swap", !.new.commit = head]
    /\ UNCHANGED <<choices, head, reg, runs, runner>>

(* _atomic_replace_registration: the old directory is renamed away...      *)
MoveOldRegistration ==
    /\ registrar.pc = "swap"
    /\ IF reg # Absent /\ ~registrar.replace
       THEN registrar' = NoRegistrar /\ UNCHANGED reg
       ELSE registrar' = [registrar EXCEPT !.pc = "moveNew"] /\ reg' = Absent
    /\ UNCHANGED <<choices, head, runs, runner>>

(* ... and then the staged one into its place.                             *)
MoveNewRegistration ==
    /\ registrar.pc = "moveNew"
    /\ reg' = registrar.new
    /\ registrar' = NoRegistrar
    /\ UNCHANGED <<choices, head, runs, runner>>

RegistrarDies ==
    /\ registrar.pc # "down"
    /\ registrar' = NoRegistrar
    /\ UNCHANGED <<choices, head, reg, runs, runner>>

-----------------------------------------------------------------------------

(* load_registration reads two files, one after the other.                 *)
LoadDesign(given) ==
    /\ runner.pc = "down" /\ RunnerMayRun
    /\ reg # Absent
    /\ runner' = [NoRunner EXCEPT !.pc = "schedule", !.name = given, !.design = reg]
    /\ UNCHANGED <<choices, head, reg, runs, registrar>>

(* The second file, and prepare_run_dir compares HEAD ...                  *)
LoadSchedule ==
    /\ runner.pc = "schedule"
    /\ reg # Absent
    /\ runner.design.commit = head
    /\ runner' = [runner EXCEPT !.pc = "config", !.scheduled = reg.schedule]
    /\ UNCHANGED <<choices, head, reg, runs, registrar>>

(* ... and then the YAML with the registration.  Unless one was given, the *)
(* run directory gets its name from both (expected_run_id).                *)
CheckConfiguration ==
    /\ runner.pc = "config"
    /\ runner.design.schedule = ScheduleOf[head]
    /\ runner' = [runner EXCEPT
                     !.pc = "open",
                     !.name = IF @ # Absent THEN @
                              ELSE <<runner.design.commit, runner.design.schedule,
                                     runner.scheduled>>]
    /\ UNCHANGED <<choices, head, reg, runs, registrar>>

ManifestOf(p) == [design |-> p.design, schedule |-> p.scheduled]

NewRun(p) == [manifest |-> ManifestOf(p),
              rows |-> [o \in Observations |-> Absent], complete |-> FALSE]

(* Mutant: a run directory is resumed whatever its manifest says.          *)
OpenRunUnchecked ==
    /\ runner.pc = "open"
    /\ runs' = IF runs[runner.name] = Absent
               THEN [runs EXCEPT ![runner.name] = NewRun(runner)] ELSE runs
    /\ runner' = [runner EXCEPT !.pc = "reload"]
    /\ UNCHANGED <<choices, head, reg, registrar>>

(* The rest of prepare_run_dir: a new run directory is created; an old one *)
(* must be incomplete, with the manifest this registration would give it.  *)
OpenRun ==
    /\ runner.pc = "open"
    /\ \/ /\ runs[runner.name] = Absent
          /\ runs' = [runs EXCEPT ![runner.name] = NewRun(runner)]
       \/ /\ runs[runner.name] # Absent
          /\ ~runs[runner.name].complete
          /\ runs[runner.name].manifest = ManifestOf(runner)
          /\ UNCHANGED runs
    /\ runner' = [runner EXCEPT !.pc = "reload"]
    /\ UNCHANGED <<choices, head, reg, registrar>>

(* run_campaign loads the registration again and follows that schedule.    *)
ReloadRegistration ==
    /\ runner.pc = "reload"
    /\ reg # Absent
    /\ runner' = [runner EXCEPT !.pc = "measure", !.plan = reg.schedule]
    /\ UNCHANGED <<choices, head, reg, runs, registrar>>

Measure(o) ==
    /\ runner.pc = "measure"
    /\ o \notin Rows(runner.name)
    /\ runs' = [runs EXCEPT ![runner.name].rows[o] =
                                [schedule |-> runner.plan, head |-> head]]
    /\ UNCHANGED <<choices, head, reg, registrar, runner>>

(* validate_run compares HEAD with the run's own copy of the registration, *)
(* first of all ...                                                        *)
ValidateCommit ==
    /\ runner.pc = "measure"
    /\ runs[runner.name].manifest.design.commit = head
    /\ runner' = [runner EXCEPT !.pc = "validate"]
    /\ UNCHANGED <<choices, head, reg, runs, registrar>>

(* ... and the YAML at the end; every observation ID has a row, whose      *)
(* order and whose HEAD are not looked at.                                 *)
Finalize ==
    /\ runner.pc = "validate"
    /\ Rows(runner.name) = Observations
    /\ runs[runner.name].manifest.design.schedule = ScheduleOf[head]
    /\ runs' = [runs EXCEPT ![runner.name].complete = TRUE]
    /\ runner' = NoRunner
    /\ UNCHANGED <<choices, head, reg, registrar>>

RunnerEnds ==
    /\ runner.pc # "down"
    /\ runner' = NoRunner
    /\ UNCHANGED <<choices, head, reg, runs, registrar>>

Next ==
    \/ MoveHead
    \/ \E replace \in BOOLEAN, e \in Environments : ReadConfiguration(replace, e)
    \/ CheckRegistration \/ MoveOldRegistration \/ MoveNewRegistration \/ RegistrarDies
    \/ \E given \in GivenNames \cup {Absent} : LoadDesign(given)
    \/ LoadSchedule \/ CheckConfiguration \/ OpenRun \/ ReloadRegistration
    \/ \E o \in Observations : Measure(o)
    \/ ValidateCommit \/ Finalize \/ RunnerEnds

Spec == Init /\ [][Next]_vars

-----------------------------------------------------------------------------

(* The registration is "immutable after the first measured observation",   *)
(* as long as nobody registers while a campaign runs, wherever HEAD goes.  *)
FrozenBetweenRuns == [][~overlap /\ Measured => reg' = reg]_vars

(* Every row of a run directory was measured with the schedule and at the  *)
(* commit its manifest names, through resumes and through registrations    *)
(* made in the middle of a run, though the schedule is loaded twice, if    *)
(* HEAD is left alone while a process is at work.  And if nobody registers *)
(* during a run then, even when HEAD is moved in the middle of one, its    *)
(* rows follow the schedule of the manifest, and all measured evidence, in *)
(* whatever run directory, belongs to the one registration that is in      *)
(* place.  With both, neither is so: nothing looks at HEAD in between.     *)
EvidenceUnderRegistration ==
    \A n \in Names : runs[n] # Absent =>
        LET manifest == runs[n].manifest IN
        /\ \A o \in Rows(n) :
              /\ ~checkout => runs[n].rows[o].head = manifest.design.commit
              /\ ~checkout \/ ~overlap => runs[n].rows[o].schedule = manifest.schedule
        /\ ~overlap /\ Rows(n) # {} =>
              reg = manifest.design /\ reg.schedule = manifest.schedule
=============================================================================
