------------------------ MODULE Stage8CampaignProofs ------------------------
(***************************************************************************)
(* What the parts of Stage 8 guarantee that are not about one run          *)
(* directory: registering and running a campaign, the probe of the agent   *)
(* channel, and the adapters that measure a campaign's observations, for   *)
(* every set of commits, timeouts, workers and campaigns.                  *)
(*                                                                         *)
(* Registration.  Neither property is inductive.  run_campaign reads the   *)
(* registration three times without a lock, and a row is written from the  *)
(* last of them.  That it carries the schedule of the manifest written     *)
(* from the first two needs, without "checkout", that whatever replaces    *)
(* the registration during a run was made at the commit the run was        *)
(* compared with (RegistrarFacts, RunnerFacts), and without "overlap" that *)
(* nothing replaces it.  That the registration in place is the one the     *)
(* evidence belongs to needs that a registrar past its check has no        *)
(* measured run before it (NothingMeasured).                               *)
(*                                                                         *)
(* Probe.  How a probe ends is explained by where the three processes were *)
(* when a timeout struck (ProbeOrder), and without a timeout by how far    *)
(* the exchange has come (Undisturbed).                                    *)
(*                                                                         *)
(* Measurement.  A trial's processes are counted once because each report  *)
(* is in one place at a time (ReportedOnce) and a process that exits with  *)
(* 0 has had its report delivered before (WorkerFacts).  That the results  *)
(* are never more than the processes is a count: the reports collected and *)
(* the processes added name different workers.  A failure is not hidden    *)
(* because the row of a measurement that failed says so (RowTells); for a  *)
(* trial this is the count again, as many successes as workers being a     *)
(* completed session of each (FullTrial).                                  *)
(***************************************************************************)
EXTENDS Stage8Registration, LocalChannel, Measurement, FiniteSetTheorems, SequenceTheorems, TLAPS

Registrars == [pc : {"down", "check", "swap", "moveNew"},
               new : Registrations \cup {Absent}, replace : BOOLEAN]
RunnerProcs == [pc : {"down", "schedule", "config", "open", "reload", "measure",
                       "validate"},
                name : Names \cup {Absent}, design : Registrations \cup {Absent},
                scheduled : Schedules \cup {Absent}, plan : Schedules \cup {Absent}]

TypeOK ==
    /\ head \in Commits
    /\ reg \in Registrations \cup {Absent}
    /\ runs \in [Names -> RunDirs \cup {Absent}]
    /\ overlap \in BOOLEAN /\ checkout \in BOOLEAN
    /\ registrar \in Registrars
    /\ runner \in RunnerProcs

(* A registration being made is, if HEAD is left alone, of the commit that *)
(* is checked out.                                                         *)
RegistrarFacts ==
    registrar.pc # "down" =>
        /\ registrar.new \in Registrations
        /\ ~checkout => /\ registrar.new.commit = head
                        /\ registrar.new.schedule = ScheduleOf[head]

(* Without overlap a registrar that is going to touch the registration     *)
(* found, and still has, no measured run.                                  *)
NothingMeasured ==
    ~overlap => /\ registrar.pc = "down" \/ runner.pc = "down"
                /\ registrar.pc = "swap" /\ registrar.replace => ~Measured
                /\ registrar.pc = "moveNew" => ~Measured

(* What a campaign process holds at each step, and what can have happened  *)
(* to the registration since it read it.                                   *)
RunnerFacts ==
    /\ runner.pc # "down" =>
          /\ runner.design \in Registrations
          /\ ~overlap => reg = runner.design
          /\ ~checkout /\ reg # Absent =>
                \/ reg = runner.design
                \/ reg.commit = head /\ reg.schedule = ScheduleOf[head]
    /\ runner.pc \in {"config", "open", "reload", "measure", "validate"} =>
          /\ runner.scheduled \in Schedules
          /\ ~overlap => runner.scheduled = runner.design.schedule
          /\ ~checkout => /\ runner.design.commit = head
                          /\ runner.scheduled \in {runner.design.schedule, ScheduleOf[head]}
    /\ runner.pc \in {"open", "reload", "measure", "validate"} =>
          /\ runner.name \in Names
          /\ ~checkout => runner.design.schedule = ScheduleOf[head]
    /\ runner.pc \in {"reload", "measure", "validate"} =>
          /\ runs[runner.name] \in RunDirs
          /\ runs[runner.name].manifest = ManifestOf(runner)
    /\ runner.pc \in {"measure", "validate"} =>
          /\ runner.plan \in Schedules
          /\ ~overlap \/ ~checkout => runner.plan = runner.scheduled

IndInv ==
    /\ TypeOK
    /\ RegistrarFacts
    /\ NothingMeasured
    /\ RunnerFacts
    /\ EvidenceUnderRegistration

-----------------------------------------------------------------------------

(* A schedule belongs to every commit.                                     *)
LEMMA ScheduleType == \A c \in Commits : ScheduleOf[c] \in Schedules
  BY RegistrationAssumption

(* While the run directories stay as they are, so do their rows; evidence  *)
(* also depends on the registration where there is no overlap.             *)
LEMMA SameRuns ==
    ASSUME UNCHANGED <<overlap, checkout, runs>>
    PROVE  /\ Measured' <=> Measured
           /\ EvidenceUnderRegistration /\ reg' = reg => EvidenceUnderRegistration'
           /\ EvidenceUnderRegistration /\ (overlap \/ ~Measured)
                  => EvidenceUnderRegistration'
  <1>1. \A n \in Names : Rows(n)' = Rows(n)
    BY DEF Rows
  <1>2. Measured' <=> Measured
    BY <1>1 DEF Measured
  <1>3. EvidenceUnderRegistration /\ reg' = reg => EvidenceUnderRegistration'
    BY <1>1 DEF EvidenceUnderRegistration
  <1>4. EvidenceUnderRegistration /\ (overlap \/ ~Measured)
            => EvidenceUnderRegistration'
    BY <1>1 DEF EvidenceUnderRegistration, Measured
  <1> QED BY <1>2, <1>3, <1>4

(* A process that is down satisfies all that is claimed of it.             *)
LEMMA NoProcess ==
    /\ NoRegistrar \in Registrars /\ NoRegistrar.pc = "down"
    /\ NoRunner \in RunnerProcs /\ NoRunner.pc = "down"
  BY DEF NoRegistrar, Registrars, NoRunner, RunnerProcs

LEMMA InitInd == Init => IndInv
  <1> SUFFICES ASSUME Init PROVE IndInv
    OBVIOUS
  <1>1. TypeOK
    BY NoProcess, RegistrationAssumption DEF Init, TypeOK
  <1>2. registrar.pc = "down" /\ runner.pc = "down"
    BY NoProcess DEF Init
  <1>3. \A n \in Names : runs[n] = Absent
    BY DEF Init
  <1>4. RegistrarFacts /\ NothingMeasured /\ RunnerFacts
    BY <1>2 DEF RegistrarFacts, NothingMeasured, RunnerFacts
  <1>5. EvidenceUnderRegistration
    BY <1>3 DEF EvidenceUnderRegistration
  <1> QED BY <1>1, <1>4, <1>5 DEF IndInv

LEMMA StutterInd == ASSUME IndInv, UNCHANGED vars PROVE IndInv'
  <1>1. (Measured' <=> Measured) /\ EvidenceUnderRegistration'
    BY SameRuns DEF IndInv, vars, choices
  <1> QED
    BY <1>1 DEF IndInv, vars, choices, TypeOK, RegistrarFacts, NothingMeasured,
                RunnerFacts, ManifestOf

(* Nothing that is claimed of a process at work depends on HEAD where HEAD *)
(* may be moved.                                                           *)
LEMMA MoveHeadInd == ASSUME IndInv, MoveHead PROVE IndInv'
  <1>1. /\ checkout \/ (registrar.pc = "down" /\ runner.pc = "down")
        /\ head' \in Commits
        /\ UNCHANGED <<overlap, checkout, reg, runs, registrar, runner>>
    BY DEF MoveHead, choices
  <1>2. (Measured' <=> Measured) /\ EvidenceUnderRegistration'
    BY <1>1, SameRuns DEF IndInv
  <1>3. TypeOK'
    BY <1>1 DEF IndInv, TypeOK
  <1>4. RegistrarFacts'
    BY <1>1 DEF IndInv, RegistrarFacts
  <1>5. NothingMeasured'
    BY <1>1, <1>2 DEF IndInv, NothingMeasured
  <1>6. RunnerFacts'
    BY <1>1 DEF IndInv, RunnerFacts, ManifestOf
  <1> QED BY <1>2, <1>3, <1>4, <1>5, <1>6 DEF IndInv

-----------------------------------------------------------------------------
(* The registrar.                                                          *)

LEMMA ReadConfigurationInd ==
    ASSUME IndInv, NEW replace \in BOOLEAN, NEW environment \in Environments,
           ReadConfiguration(replace, environment)
    PROVE  IndInv'
  <1> DEFINE new == [commit |-> head, environment |-> environment,
                     schedule |-> ScheduleOf[head]]
  <1>1. /\ registrar.pc = "down" /\ (runner.pc = "down" \/ overlap)
        /\ registrar' = [pc |-> "check", replace |-> replace, new |-> new]
        /\ UNCHANGED <<overlap, checkout, head, reg, runs, runner>>
    BY DEF ReadConfiguration, RegistrarMayRun, choices
  <1>2. new \in Registrations /\ new.commit = head /\ new.schedule = ScheduleOf[head]
    BY ScheduleType DEF IndInv, TypeOK, Registrations
  <1> HIDE DEF new
  <1>3. (Measured' <=> Measured) /\ EvidenceUnderRegistration'
    BY <1>1, SameRuns DEF IndInv
  <1>4. TypeOK'
    BY <1>1, <1>2 DEF IndInv, TypeOK, Registrars
  <1>5. RegistrarFacts'
    BY <1>1, <1>2 DEF RegistrarFacts
  <1>6. NothingMeasured'
    BY <1>1, <1>3 DEF NothingMeasured
  <1>7. RunnerFacts'
    BY <1>1 DEF IndInv, RunnerFacts, ManifestOf
  <1> QED BY <1>3, <1>4, <1>5, <1>6, <1>7 DEF IndInv

LEMMA CheckRegistrationInd == ASSUME IndInv, CheckRegistration PROVE IndInv'
  <1> DEFINE new == [registrar.new EXCEPT !.commit = head]
  <1>1. /\ registrar.pc = "check" /\ (registrar.replace => ~Measured)
        /\ registrar' = [registrar EXCEPT !.pc = "swap", !.new = new]
        /\ UNCHANGED <<overlap, checkout, head, reg, runs, runner>>
    BY DEF CheckRegistration, choices
  <1>2. /\ new \in Registrations /\ new.commit = head
        /\ new.schedule = registrar.new.schedule
    BY <1>1 DEF IndInv, RegistrarFacts, TypeOK, Registrations
  <1> HIDE DEF new
  <1>3. (Measured' <=> Measured) /\ EvidenceUnderRegistration'
    BY <1>1, SameRuns DEF IndInv
  <1>4. /\ registrar' \in Registrars /\ registrar'.pc = "swap"
        /\ registrar'.new = new /\ registrar'.replace = registrar.replace
    BY <1>1, <1>2 DEF IndInv, TypeOK, Registrars
  <1>5. TypeOK'
    BY <1>1, <1>4 DEF IndInv, TypeOK
  <1>6. RegistrarFacts'
    BY <1>1, <1>2, <1>4 DEF IndInv, RegistrarFacts
  <1>7. NothingMeasured'
    BY <1>1, <1>3, <1>4 DEF IndInv, NothingMeasured
  <1>8. RunnerFacts'
    BY <1>1 DEF IndInv, RunnerFacts, ManifestOf
  <1> QED BY <1>3, <1>5, <1>6, <1>7, <1>8 DEF IndInv

(* Without overlap no campaign runs while the registration is replaced,    *)
(* and what is renamed away has no measured run.                           *)
LEMMA MoveOldInd == ASSUME IndInv, MoveOldRegistration PROVE IndInv'
  <1>1. /\ registrar.pc = "swap"
        /\ UNCHANGED <<overlap, checkout, head, runs, runner>>
    BY DEF MoveOldRegistration, choices
  <1>2. ~overlap => runner.pc = "down"
    BY <1>1 DEF IndInv, NothingMeasured
  <1>3. CASE registrar' = NoRegistrar /\ reg' = reg
    <2>1. (Measured' <=> Measured) /\ EvidenceUnderRegistration'
      BY <1>1, <1>3, SameRuns DEF IndInv
    <2>2. registrar' \in Registrars /\ registrar'.pc = "down"
      BY <1>3, NoProcess
    <2>3. TypeOK'
      BY <1>1, <1>3, <2>2 DEF IndInv, TypeOK
    <2>4. RegistrarFacts' /\ NothingMeasured'
      BY <2>2 DEF RegistrarFacts, NothingMeasured
    <2>5. RunnerFacts'
      BY <1>1, <1>3 DEF IndInv, RunnerFacts, ManifestOf
    <2> QED BY <2>1, <2>3, <2>4, <2>5 DEF IndInv
  <1>4. CASE /\ reg = Absent \/ registrar.replace
             /\ registrar' = [registrar EXCEPT !.pc = "moveNew"]
             /\ reg' = Absent
    <2>1. ~overlap => ~Measured
      <3>1. CASE registrar.replace
        BY <1>1, <3>1 DEF IndInv, NothingMeasured
      <3>2. CASE reg = Absent
        <4>1. \A n \in Names : runs[n] # Absent => runs[n].manifest.design # Absent
          BY AbsentAssumption DEF IndInv, TypeOK, RunDirs, Manifests
        <4> QED BY <3>2, <4>1 DEF IndInv, EvidenceUnderRegistration, Measured
      <3> QED BY <1>4, <3>1, <3>2
    <2>2. (Measured' <=> Measured) /\ EvidenceUnderRegistration'
      BY <1>1, <2>1, SameRuns DEF IndInv
    <2>3. registrar' \in Registrars /\ registrar'.pc = "moveNew"
          /\ registrar'.new = registrar.new
      BY <1>4 DEF IndInv, TypeOK, Registrars
    <2>4. TypeOK'
      BY <1>1, <1>4, <2>3 DEF IndInv, TypeOK
    <2>5. RegistrarFacts'
      BY <1>1, <2>3 DEF IndInv, RegistrarFacts
    <2>6. NothingMeasured'
      BY <1>1, <1>2, <2>1, <2>2, <2>3 DEF NothingMeasured
    <2>7. RunnerFacts'
      BY <1>1, <1>2, <1>4 DEF IndInv, RunnerFacts, ManifestOf
    <2> QED BY <2>2, <2>4, <2>5, <2>6, <2>7 DEF IndInv
  <1> QED BY <1>3, <1>4 DEF MoveOldRegistration

LEMMA MoveNewInd == ASSUME IndInv, MoveNewRegistration PROVE IndInv'
  <1>1. /\ registrar.pc = "moveNew" /\ reg' = registrar.new
        /\ registrar' = NoRegistrar
        /\ UNCHANGED <<overlap, checkout, head, runs, runner>>
    BY DEF MoveNewRegistration, choices
  <1>2. ~overlap => runner.pc = "down" /\ ~Measured
    BY <1>1 DEF IndInv, NothingMeasured
  <1>3. /\ reg' \in Registrations
        /\ ~checkout => reg'.commit = head /\ reg'.schedule = ScheduleOf[head]
    BY <1>1 DEF IndInv, RegistrarFacts
  <1>4. (Measured' <=> Measured) /\ EvidenceUnderRegistration'
    BY <1>1, <1>2, SameRuns DEF IndInv
  <1>5. registrar' \in Registrars /\ registrar'.pc = "down"
    BY <1>1, NoProcess
  <1>6. TypeOK'
    BY <1>1, <1>3, <1>5 DEF IndInv, TypeOK
  <1>7. RegistrarFacts' /\ NothingMeasured'
    BY <1>5 DEF RegistrarFacts, NothingMeasured
  <1>8. RunnerFacts'
    BY <1>1, <1>2, <1>3 DEF IndInv, RunnerFacts, ManifestOf
  <1> QED BY <1>4, <1>6, <1>7, <1>8 DEF IndInv

LEMMA RegistrarDiesInd == ASSUME IndInv, RegistrarDies PROVE IndInv'
  <1>1. registrar' = NoRegistrar /\ UNCHANGED <<overlap, checkout, head, reg, runs, runner>>
    BY DEF RegistrarDies, choices
  <1>2. (Measured' <=> Measured) /\ EvidenceUnderRegistration'
    BY <1>1, SameRuns DEF IndInv
  <1>3. registrar' \in Registrars /\ registrar'.pc = "down"
    BY <1>1, NoProcess
  <1>4. TypeOK'
    BY <1>1, <1>3 DEF IndInv, TypeOK
  <1>5. RegistrarFacts' /\ NothingMeasured'
    BY <1>3 DEF RegistrarFacts, NothingMeasured
  <1>6. RunnerFacts'
    BY <1>1 DEF IndInv, RunnerFacts, ManifestOf
  <1> QED BY <1>2, <1>4, <1>5, <1>6 DEF IndInv

-----------------------------------------------------------------------------
(* The campaign process.                                                   *)

LEMMA LoadDesignInd ==
    ASSUME IndInv, NEW given \in GivenNames \cup {Absent}, LoadDesign(given)
    PROVE  IndInv'
  <1>1. /\ runner.pc = "down" /\ (registrar.pc = "down" \/ overlap)
        /\ reg # Absent
        /\ runner' = [NoRunner EXCEPT !.pc = "schedule", !.name = given,
                                      !.design = reg]
        /\ UNCHANGED <<overlap, checkout, head, reg, runs, registrar>>
    BY DEF LoadDesign, RunnerMayRun, choices
  <1>2. reg \in Registrations
    BY <1>1 DEF IndInv, TypeOK
  <1>3. /\ runner' \in RunnerProcs /\ runner'.pc = "schedule"
        /\ runner'.design = reg
    <2>1. given \in Names \cup {Absent}
      BY DEF Names
    <2> QED BY <1>1, <1>2, <2>1, NoProcess DEF RunnerProcs
  <1>4. (Measured' <=> Measured) /\ EvidenceUnderRegistration'
    BY <1>1, SameRuns DEF IndInv
  <1>5. TypeOK'
    BY <1>1, <1>3 DEF IndInv, TypeOK
  <1>6. RegistrarFacts'
    BY <1>1 DEF IndInv, RegistrarFacts
  <1>7. NothingMeasured'
    BY <1>1, <1>4 DEF NothingMeasured
  <1>8. RunnerFacts'
    BY <1>1, <1>2, <1>3 DEF RunnerFacts
  <1> QED BY <1>4, <1>5, <1>6, <1>7, <1>8 DEF IndInv

(* The second file may be of another registration than the first, but only *)
(* with overlap.                                                           *)
LEMMA LoadScheduleInd == ASSUME IndInv, LoadSchedule PROVE IndInv'
  <1> DEFINE sch == reg.schedule
  <1>1. /\ runner.pc = "schedule" /\ reg # Absent
        /\ runner.design.commit = head
        /\ runner' = [runner EXCEPT !.pc = "config", !.scheduled = sch]
        /\ UNCHANGED <<overlap, checkout, head, reg, runs, registrar>>
    BY DEF LoadSchedule, choices
  <1>2. /\ runner.design \in Registrations
        /\ ~overlap => sch = runner.design.schedule
        /\ ~checkout => sch \in {runner.design.schedule, ScheduleOf[head]}
    BY <1>1 DEF IndInv, RunnerFacts
  <1>3. sch \in Schedules
    BY <1>1 DEF IndInv, TypeOK, Registrations
  <1> HIDE DEF sch
  <1>4. /\ runner' \in RunnerProcs /\ runner'.pc = "config"
        /\ runner'.scheduled = sch /\ runner'.design = runner.design
    BY <1>1, <1>3 DEF IndInv, TypeOK, RunnerProcs
  <1>5. (Measured' <=> Measured) /\ EvidenceUnderRegistration'
    BY <1>1, SameRuns DEF IndInv
  <1>6. TypeOK'
    BY <1>1, <1>4 DEF IndInv, TypeOK
  <1>7. RegistrarFacts'
    BY <1>1 DEF IndInv, RegistrarFacts
  <1>8. NothingMeasured'
    BY <1>1, <1>5 DEF IndInv, NothingMeasured
  <1>9. RunnerFacts'
    BY <1>1, <1>2, <1>3, <1>4 DEF IndInv, RunnerFacts
  <1> QED BY <1>5, <1>6, <1>7, <1>8, <1>9 DEF IndInv

LEMMA CheckConfigurationInd == ASSUME IndInv, CheckConfiguration PROVE IndInv'
  <1> DEFINE nm == IF runner.name # Absent THEN runner.name
                   ELSE <<runner.design.commit, runner.design.schedule,
                          runner.scheduled>>
  <1>1. /\ runner.pc = "config" /\ runner.design.schedule = ScheduleOf[head]
        /\ runner' = [runner EXCEPT !.pc = "open", !.name = nm]
        /\ UNCHANGED <<overlap, checkout, head, reg, runs, registrar>>
    BY DEF CheckConfiguration, choices
  <1>2. runner.design \in Registrations /\ runner.scheduled \in Schedules
    BY <1>1 DEF IndInv, RunnerFacts
  <1>3. nm \in Names
    <2>1. runner.name \in Names \cup {Absent}
      BY DEF IndInv, TypeOK, RunnerProcs
    <2>2. <<runner.design.commit, runner.design.schedule, runner.scheduled>>
             \in Commits \X Schedules \X Schedules
      BY <1>2 DEF Registrations
    <2> QED BY <2>1, <2>2 DEF Names
  <1> HIDE DEF nm
  <1>4. /\ runner' \in RunnerProcs /\ runner'.pc = "open" /\ runner'.name = nm
        /\ runner'.scheduled = runner.scheduled /\ runner'.design = runner.design
    BY <1>1, <1>3 DEF IndInv, TypeOK, RunnerProcs
  <1>5. (Measured' <=> Measured) /\ EvidenceUnderRegistration'
    BY <1>1, SameRuns DEF IndInv
  <1>6. TypeOK'
    BY <1>1, <1>4 DEF IndInv, TypeOK
  <1>7. RegistrarFacts'
    BY <1>1 DEF IndInv, RegistrarFacts
  <1>8. NothingMeasured'
    BY <1>1, <1>5 DEF IndInv, NothingMeasured
  <1>9. RunnerFacts'
    BY <1>1, <1>3, <1>4 DEF IndInv, RunnerFacts
  <1> QED BY <1>5, <1>6, <1>7, <1>8, <1>9 DEF IndInv

(* The new run directory has no rows; an old one has the manifest this     *)
(* registration would give it.                                             *)
LEMMA OpenRunInd == ASSUME IndInv, OpenRun PROVE IndInv'
  <1> DEFINE n == runner.name
  <1>1. /\ runner.pc = "open" /\ runner' = [runner EXCEPT !.pc = "reload"]
        /\ UNCHANGED <<overlap, checkout, head, reg, registrar>>
    BY DEF OpenRun, choices
  <1>2. /\ runner' \in RunnerProcs /\ runner'.pc = "reload"
        /\ runner'.name = n /\ runner'.scheduled = runner.scheduled
        /\ runner'.design = runner.design
    BY <1>1 DEF IndInv, TypeOK, RunnerProcs
  <1>3. /\ n \in Names /\ runner.design \in Registrations
        /\ runner.scheduled \in Schedules
    BY <1>1 DEF IndInv, RunnerFacts
  <1>4. ManifestOf(runner') = ManifestOf(runner)
    BY <1>2 DEF ManifestOf
  <1>5. RegistrarFacts'
    BY <1>1 DEF IndInv, RegistrarFacts
  <1>6. ~overlap => registrar.pc = "down"
    BY <1>1 DEF IndInv, NothingMeasured
  <1>7. NothingMeasured'
    BY <1>1, <1>6 DEF NothingMeasured
  <1>8. CASE /\ runs[n] = Absent
             /\ runs' = [runs EXCEPT ![n] = NewRun(runner)]
    <2>1. /\ NewRun(runner) \in RunDirs
          /\ NewRun(runner).manifest = ManifestOf(runner)
          /\ \A o \in Observations : NewRun(runner).rows[o] = Absent
      <3>1. ManifestOf(runner) \in Manifests
        BY <1>3 DEF ManifestOf, Manifests
      <3> QED BY <3>1 DEF NewRun, RunDirs
    <2> HIDE DEF n
    <2>2. runs' \in [Names -> RunDirs \cup {Absent}]
      BY <1>8, <2>1 DEF IndInv, TypeOK
    <2>3. /\ runs'[n] = NewRun(runner)
          /\ \A m \in Names : m # n => runs'[m] = runs[m]
      BY <1>3, <1>8 DEF IndInv, TypeOK
    <2>4. EvidenceUnderRegistration'
      <3>1. \A m \in Names : m = n => Rows(m)' = {}
        BY <2>1, <2>3 DEF Rows
      <3>2. \A m \in Names : m # n => Rows(m)' = Rows(m)
        BY <2>3 DEF Rows
      <3> QED BY <1>1, <2>3, <3>1, <3>2 DEF IndInv, EvidenceUnderRegistration
    <2>5. TypeOK'
      BY <1>1, <1>2, <2>2 DEF IndInv, TypeOK
    <2>6. RunnerFacts'
      BY <1>1, <1>2, <1>3, <1>4, <2>1, <2>3 DEF IndInv, RunnerFacts, n
    <2> QED BY <1>5, <1>7, <2>4, <2>5, <2>6 DEF IndInv
  <1>9. CASE /\ runs[n] # Absent /\ runs[n].manifest = ManifestOf(runner)
             /\ runs' = runs
    <2>1. EvidenceUnderRegistration'
      BY <1>1, <1>9, SameRuns DEF IndInv
    <2>2. TypeOK'
      BY <1>1, <1>2, <1>9 DEF IndInv, TypeOK
    <2>3. runs[n] \in RunDirs
      BY <1>3, <1>9 DEF IndInv, TypeOK
    <2>4. RunnerFacts'
      BY <1>1, <1>2, <1>3, <1>4, <1>9, <2>3 DEF IndInv, RunnerFacts
    <2> QED BY <1>5, <1>7, <2>1, <2>2, <2>4 DEF IndInv
  <1> QED BY <1>8, <1>9 DEF OpenRun

(* The registration loaded again may be a third one: with overlap and      *)
(* without checkout one of the same commit.                                *)
LEMMA ReloadInd == ASSUME IndInv, ReloadRegistration PROVE IndInv'
  <1> DEFINE sch == reg.schedule
  <1>1. /\ runner.pc = "reload" /\ reg # Absent
        /\ runner' = [runner EXCEPT !.pc = "measure", !.plan = sch]
        /\ UNCHANGED <<overlap, checkout, head, reg, runs, registrar>>
    BY DEF ReloadRegistration, choices
  <1>2. ~overlap \/ ~checkout => sch = runner.scheduled
    BY <1>1 DEF IndInv, RunnerFacts
  <1>3. sch \in Schedules
    BY <1>1 DEF IndInv, TypeOK, Registrations
  <1> HIDE DEF sch
  <1>4. /\ runner' \in RunnerProcs /\ runner'.pc = "measure"
        /\ runner'.name = runner.name /\ runner'.scheduled = runner.scheduled
        /\ runner'.design = runner.design /\ runner'.plan = sch
    BY <1>1, <1>3 DEF IndInv, TypeOK, RunnerProcs
  <1>5. (Measured' <=> Measured) /\ EvidenceUnderRegistration'
    BY <1>1, SameRuns DEF IndInv
  <1>6. TypeOK'
    BY <1>1, <1>4 DEF IndInv, TypeOK
  <1>7. RegistrarFacts'
    BY <1>1 DEF IndInv, RegistrarFacts
  <1>8. NothingMeasured'
    BY <1>1, <1>5 DEF IndInv, NothingMeasured
  <1>9. RunnerFacts'
    BY <1>1, <1>2, <1>3, <1>4 DEF IndInv, RunnerFacts, ManifestOf
  <1> QED BY <1>5, <1>6, <1>7, <1>8, <1>9 DEF IndInv

(* A row carries the schedule and the commit of its directory's manifest   *)
(* where that is claimed, and without overlap that manifest is of the      *)
(* registration in place.                                                  *)
LEMMA MeasureInd ==
    ASSUME IndInv, NEW o \in Observations, Measure(o)
    PROVE  IndInv'
  <1> DEFINE n   == runner.name
             row == [schedule |-> runner.plan, head |-> head]
  <1>1. /\ runner.pc = "measure"
        /\ runs' = [runs EXCEPT ![n].rows[o] = row]
        /\ UNCHANGED <<overlap, checkout, head, reg, registrar, runner>>
    BY DEF Measure, choices
  <1>2. /\ n \in Names
        /\ ~overlap => /\ reg = runner.design
                       /\ runner.scheduled = runner.design.schedule
        /\ ~checkout => runner.design.commit = head
        /\ runs[n] \in RunDirs /\ runs[n].manifest = ManifestOf(runner)
        /\ runner.plan \in Schedules
        /\ ~overlap \/ ~checkout => runner.plan = runner.scheduled
    BY <1>1 DEF IndInv, RunnerFacts
  <1>3. /\ row \in RowValues
        /\ ~overlap \/ ~checkout => row.schedule = runs[n].manifest.schedule
        /\ ~checkout => row.head = runs[n].manifest.design.commit
    BY <1>2 DEF ManifestOf, RowValues, IndInv, TypeOK
  <1>4. ~overlap => /\ reg = runs[n].manifest.design
                    /\ reg.schedule = runs[n].manifest.schedule
    BY <1>2 DEF ManifestOf
  <1> HIDE DEF n, row
  <1>5. runs \in [Names -> RunDirs \cup {Absent}]
    BY DEF IndInv, TypeOK
  <1> DEFINE d == [runs[n] EXCEPT !.rows[o] = row]
  <1>6. /\ d \in RunDirs /\ d.manifest = runs[n].manifest
        /\ d.rows[o] = row
        /\ \A q \in Observations : q # o => d.rows[q] = runs[n].rows[q]
    BY <1>2, <1>3 DEF RunDirs
  <1>7. runs' = [runs EXCEPT ![n] = d]
    BY <1>1
  <1> HIDE DEF d
  <1>8. /\ runs' \in [Names -> RunDirs \cup {Absent}]
        /\ runs'[n] = d
        /\ \A m \in Names : m # n => runs'[m] = runs[m]
    BY <1>2, <1>5, <1>6, <1>7
  <1>9. EvidenceUnderRegistration'
    <2> SUFFICES ASSUME NEW m \in Names, runs'[m] # Absent
                 PROVE  /\ \A q \in Rows(m)' :
                             /\ ~checkout => runs'[m].rows[q].head
                                                = runs'[m].manifest.design.commit
                             /\ ~checkout \/ ~overlap =>
                                  runs'[m].rows[q].schedule = runs'[m].manifest.schedule
                        /\ ~overlap /\ Rows(m)' # {} =>
                             /\ reg = runs'[m].manifest.design
                             /\ reg.schedule = runs'[m].manifest.schedule
      BY <1>1 DEF EvidenceUnderRegistration
    <2>1. CASE m # n
      <3>1. runs'[m] = runs[m] /\ Rows(m)' = Rows(m)
        BY <1>8, <2>1 DEF Rows
      <3> QED BY <3>1 DEF IndInv, EvidenceUnderRegistration
    <2>2. CASE m = n
      <3>1. runs'[m] = d
        BY <1>8, <2>2
      <3>2. \A q \in Rows(m)' : q = o \/ (q \in Rows(n) /\ d.rows[q] = runs[n].rows[q])
        BY <1>6, <3>1 DEF Rows
      <3>3. ASSUME NEW q \in Rows(m)'
            PROVE  /\ ~checkout => runs'[m].rows[q].head
                                      = runs'[m].manifest.design.commit
                   /\ ~checkout \/ ~overlap =>
                        runs'[m].rows[q].schedule = runs'[m].manifest.schedule
        <4>1. CASE q = o
          BY <1>3, <1>6, <3>1, <4>1
        <4>2. CASE q \in Rows(n) /\ d.rows[q] = runs[n].rows[q]
          <5>1. runs[n] # Absent
            BY <1>2, AbsentAssumption
          <5> QED
            BY <1>2, <1>6, <3>1, <4>2, <5>1 DEF IndInv, EvidenceUnderRegistration
        <4> QED BY <3>2, <4>1, <4>2
      <3>4. ~overlap => /\ reg = runs'[m].manifest.design
                        /\ reg.schedule = runs'[m].manifest.schedule
        BY <1>4, <1>6, <3>1
      <3> QED BY <3>3, <3>4
    <2> QED BY <2>1, <2>2
  <1>10. TypeOK'
    BY <1>1, <1>8 DEF IndInv, TypeOK
  <1>11. RegistrarFacts'
    BY <1>1 DEF IndInv, RegistrarFacts
  <1>12. NothingMeasured'
    BY <1>1 DEF IndInv, NothingMeasured
  <1>13. RunnerFacts'
    <2>1. runs'[runner.name] \in RunDirs
          /\ runs'[runner.name].manifest = ManifestOf(runner)
      BY <1>2, <1>6, <1>8 DEF n
    <2> QED BY <1>1, <2>1 DEF IndInv, RunnerFacts, ManifestOf
  <1> QED BY <1>9, <1>10, <1>11, <1>12, <1>13 DEF IndInv

LEMMA ValidateCommitInd == ASSUME IndInv, ValidateCommit PROVE IndInv'
  <1>1. /\ runner.pc = "measure" /\ runner' = [runner EXCEPT !.pc = "validate"]
        /\ UNCHANGED <<overlap, checkout, head, reg, runs, registrar>>
    BY DEF ValidateCommit, choices
  <1>2. /\ runner' \in RunnerProcs /\ runner'.pc = "validate"
        /\ runner'.name = runner.name /\ runner'.scheduled = runner.scheduled
        /\ runner'.design = runner.design /\ runner'.plan = runner.plan
    BY <1>1 DEF IndInv, TypeOK, RunnerProcs
  <1>3. (Measured' <=> Measured) /\ EvidenceUnderRegistration'
    BY <1>1, SameRuns DEF IndInv
  <1>4. TypeOK'
    BY <1>1, <1>2 DEF IndInv, TypeOK
  <1>5. RegistrarFacts'
    BY <1>1 DEF IndInv, RegistrarFacts
  <1>6. NothingMeasured'
    BY <1>1, <1>3 DEF IndInv, NothingMeasured
  <1>7. RunnerFacts'
    BY <1>1, <1>2 DEF IndInv, RunnerFacts, ManifestOf
  <1> QED BY <1>3, <1>4, <1>5, <1>6, <1>7 DEF IndInv

LEMMA FinalizeInd == ASSUME IndInv, Finalize PROVE IndInv'
  <1> DEFINE n == runner.name
  <1>1. /\ runner.pc = "validate" /\ runner' = NoRunner
        /\ runs' = [runs EXCEPT ![n].complete = TRUE]
        /\ UNCHANGED <<overlap, checkout, head, reg, registrar>>
    BY DEF Finalize, choices
  <1>2. n \in Names /\ runs[n] \in RunDirs /\ runs[n] # Absent
    BY <1>1, AbsentAssumption DEF IndInv, RunnerFacts
  <1>3. runs \in [Names -> RunDirs \cup {Absent}]
    BY DEF IndInv, TypeOK
  <1> DEFINE d == [runs[n] EXCEPT !.complete = TRUE]
  <1>4. d \in RunDirs /\ d.manifest = runs[n].manifest /\ d.rows = runs[n].rows
    BY <1>2 DEF RunDirs
  <1>5. runs' = [runs EXCEPT ![n] = d]
    BY <1>1
  <1> HIDE DEF n, d
  <1>6. /\ runs' \in [Names -> RunDirs \cup {Absent}]
        /\ \A m \in Names : runs'[m] = IF m = n THEN d ELSE runs[m]
    BY <1>2, <1>3, <1>4, <1>5
  <1>7. \A m \in Names : /\ runs'[m] # Absent => runs[m] # Absent
                         /\ runs'[m].rows = runs[m].rows
                         /\ runs'[m].manifest = runs[m].manifest
                         /\ Rows(m)' = Rows(m)
    BY <1>2, <1>4, <1>6 DEF Rows
  <1>8. EvidenceUnderRegistration'
    BY <1>1, <1>7 DEF IndInv, EvidenceUnderRegistration
  <1>9. runner' \in RunnerProcs /\ runner'.pc = "down"
    BY <1>1, NoProcess
  <1>10. TypeOK'
    BY <1>1, <1>6, <1>9 DEF IndInv, TypeOK
  <1>11. RegistrarFacts'
    BY <1>1 DEF IndInv, RegistrarFacts
  <1>12. NothingMeasured'
    BY <1>1, <1>9 DEF IndInv, NothingMeasured
  <1>13. RunnerFacts'
    BY <1>9 DEF RunnerFacts
  <1> QED BY <1>8, <1>10, <1>11, <1>12, <1>13 DEF IndInv

LEMMA RunnerEndsInd == ASSUME IndInv, RunnerEnds PROVE IndInv'
  <1>1. runner' = NoRunner /\ UNCHANGED <<overlap, checkout, head, reg, runs, registrar>>
    BY DEF RunnerEnds, choices
  <1>2. (Measured' <=> Measured) /\ EvidenceUnderRegistration'
    BY <1>1, SameRuns DEF IndInv
  <1>3. runner' \in RunnerProcs /\ runner'.pc = "down"
    BY <1>1, NoProcess
  <1>4. TypeOK'
    BY <1>1, <1>3 DEF IndInv, TypeOK
  <1>5. RegistrarFacts'
    BY <1>1 DEF IndInv, RegistrarFacts
  <1>6. NothingMeasured'
    BY <1>1, <1>2, <1>3 DEF IndInv, NothingMeasured
  <1>7. RunnerFacts'
    BY <1>3 DEF RunnerFacts
  <1> QED BY <1>2, <1>4, <1>5, <1>6, <1>7 DEF IndInv

-----------------------------------------------------------------------------

(* In every state, if HEAD is left alone during work, a registration being *)
(* made is of the commit checked out, and a campaign process holds the     *)
(* schedule and the manifest of that commit; without overlap a registrar   *)
(* past its check has no measured run.                                     *)
THEOREM AlwaysIndInv == Spec => []IndInv
  <1>1. Init => IndInv
    BY InitInd
  <1>2. IndInv /\ [Next]_vars => IndInv'
    BY StutterInd, MoveHeadInd, ReadConfigurationInd, CheckRegistrationInd,
       MoveOldInd, MoveNewInd, RegistrarDiesInd, LoadDesignInd, LoadScheduleInd,
       CheckConfigurationInd, OpenRunInd, ReloadInd, MeasureInd, ValidateCommitInd,
       FinalizeInd, RunnerEndsInd DEF Next
  <1> QED BY <1>1, <1>2, PTL DEF Spec

(* If HEAD is left alone while a process is at work, every row of every    *)
(* run directory was measured with the schedule and at the commit of its   *)
(* manifest, even when a registration is replaced in the middle of the     *)
(* run; and if that does not happen, every row follows the schedule of its *)
(* manifest and all measured evidence belongs to the registration in       *)
(* place, even when HEAD is moved in the middle of the run.                *)
THEOREM EvidenceIsRegistered == Spec => []EvidenceUnderRegistration
  <1>1. IndInv => EvidenceUnderRegistration
    BY DEF IndInv
  <1> QED BY <1>1, AlwaysIndInv, PTL

(* The registration is immutable after the first measured observation as   *)
(* long as nobody registers while a campaign runs.                         *)
THEOREM RegistrationIsFrozen == Spec => FrozenBetweenRuns
  <1>1. IndInv /\ [Next]_vars => [~overlap /\ Measured => reg' = reg]_vars
    <2> SUFFICES ASSUME IndInv, Next, ~overlap, Measured PROVE reg' = reg
      OBVIOUS
    <2>1. CASE MoveOldRegistration
      <3>1. registrar.pc = "swap" /\ ~registrar.replace
        BY <2>1 DEF MoveOldRegistration, IndInv, NothingMeasured
      <3> QED BY <2>1, <3>1 DEF MoveOldRegistration
    <2>2. CASE MoveNewRegistration
      BY <2>2 DEF MoveNewRegistration, IndInv, NothingMeasured
    <2>3. CASE ~MoveOldRegistration /\ ~MoveNewRegistration
      BY <2>3 DEF Next, MoveHead, ReadConfiguration, CheckRegistration,
                  RegistrarDies, LoadDesign, LoadSchedule, CheckConfiguration, OpenRun,
                  ReloadRegistration, Measure, ValidateCommit, Finalize, RunnerEnds
    <2> QED BY <2>1, <2>2, <2>3
  <1> QED BY <1>1, AlwaysIndInv, PTL DEF Spec, FrozenBetweenRuns

-----------------------------------------------------------------------------

ProbeType ==
    /\ parent \in {"start", "poll", "probe", "get", "join", "leave", "fail", "returned",
                   "raised"}
    /\ responder \in {"off", "mkdir", "bind", "listen", "accept", "recv", "send", "close",
                      "cleanup", "ended"}
    /\ initiator \in {"off", "connect", "send", "recv", "echoed", "failed", "refused"}
    /\ path \in {"absent", "bound", "listening", "dead"}
    /\ conn \in [queued : BOOLEAN, taken : BOOLEAN, request : BOOLEAN, reply : BOOLEAN,
                 serverClosed : BOOLEAN, clientClosed : BOOLEAN]

(* How far the three processes are with respect to each other, whatever    *)
(* has timed out.                                                          *)
ProbeOrder ==
    /\ parent = "start" => responder = "off"
    /\ responder = "off" => parent = "start"
    /\ parent \in {"start", "poll", "probe"} <=> initiator = "off"
    /\ parent \in {"join", "leave", "returned"} => initiator = "echoed"
    /\ parent \in {"leave", "returned"} => responder = "ended"
    /\ parent = "returned" => path = "absent" /\ ~dir
    /\ parent \in {"poll", "probe", "get"} => dir
    /\ responder \in {"recv", "send"} => conn.taken
    /\ conn.reply => conn.taken /\ responder \in {"close", "cleanup", "ended"}
    /\ initiator = "echoed" => conn.reply

(* Nothing has timed out yet.  Up to the connection the path says whether  *)
(* the responder listens, and once the parent has seen it, it is there;    *)
(* and the responder does not go on before it has what it waits for.       *)
Undisturbed ==
    /\ initiator # "failed"
    /\ parent = "start" => path = "absent"
    /\ ~conn.queued /\ parent \in {"poll", "probe", "get"} =>
          \/ responder \in {"mkdir", "bind"} /\ path = "absent" /\ parent = "poll"
          \/ responder = "listen" /\ path = "bound"
          \/ responder = "accept" /\ path = "listening"
    /\ initiator \in {"off", "connect"} => ~conn.queued
    /\ initiator = "send" => responder \in {"accept", "recv"}
    /\ initiator \in {"off", "connect", "send"} =>
          ~conn.request /\ ~conn.serverClosed /\ ~conn.clientClosed
    /\ initiator = "recv" =>
          /\ conn.request /\ ~conn.clientClosed
          /\ conn.reply \/ (responder \in {"accept", "recv", "send"} /\ ~conn.serverClosed)
    /\ initiator \in {"connect", "send", "recv"} => parent = "get"
    /\ initiator \in {"send", "recv"} => conn.queued

ProbeInv == ProbeType /\ ProbeOrder /\ (struck = {} => Undisturbed)

-----------------------------------------------------------------------------

(* Nothing has been started.                                               *)
LEMMA ProbeInitEstablishes == ProbeInit => ProbeInv
  <1> SUFFICES ASSUME ProbeInit PROVE ProbeInv
    OBVIOUS
  <1>1. conn \in [queued : BOOLEAN, taken : BOOLEAN, request : BOOLEAN, reply : BOOLEAN,
                  serverClosed : BOOLEAN, clientClosed : BOOLEAN]
    BY DEF ProbeInit, NoConn
  <1> QED
    BY <1>1 DEF ProbeInit, NoConn, ProbeInv, ProbeType, ProbeOrder, Undisturbed

(* The steps of responder_echo_once.                                       *)
LEMMA ResponderPreserves == ASSUME ProbeInv, Responder PROVE ProbeInv'
  <1> USE DEF ProbeInv, ProbeType, ProbeOrder, Undisturbed
  <1>1. CASE MakeDirectory
    BY <1>1 DEF MakeDirectory
  <1>2. CASE Bind
    BY <1>2 DEF Bind
  <1>3. CASE Listen
    BY <1>3 DEF Listen
  <1>4. CASE Accept
    BY <1>4 DEF Accept
  <1>5. CASE AcceptTimeout
    BY <1>5 DEF AcceptTimeout
  <1>6. CASE ReceiveRequest
    BY <1>6 DEF ReceiveRequest
  <1>7. CASE SendReply
    <2>1. ProbeType'
      BY <1>7 DEF SendReply
    <2>2. ProbeOrder'
      BY <1>7 DEF SendReply
    <2>3. struck' = {} => Undisturbed'
      BY <1>7 DEF SendReply
    <2> QED
      BY <2>1, <2>2, <2>3
  <1>8. CASE CloseServer
    <2>1. ProbeType'
      BY <1>8 DEF CloseServer
    <2>2. ProbeOrder'
      BY <1>8 DEF CloseServer
    <2>3. struck' = {} => Undisturbed'
      BY <1>8 DEF CloseServer
    <2> QED
      BY <2>1, <2>2, <2>3
  <1>9. CASE Cleanup
    BY <1>9 DEF Cleanup
  <1> QED
    BY <1>1, <1>2, <1>3, <1>4, <1>5, <1>6, <1>7, <1>8, <1>9 DEF Responder

(* The steps of initiator_probe.                                           *)
LEMMA InitiatorPreserves == ASSUME ProbeInv, Initiator PROVE ProbeInv'
  <1> USE DEF ProbeInv, ProbeType, ProbeOrder, Undisturbed
  <1>1. CASE Connect
    <2>1. ProbeType'
      BY <1>1 DEF Connect
    <2>2. ProbeOrder'
      BY <1>1 DEF Connect
    <2>3. struck' = {} => Undisturbed'
      BY <1>1 DEF Connect
    <2> QED
      BY <2>1, <2>2, <2>3
  <1>2. CASE SendRequest
    <2>1. ProbeType'
      BY <1>2 DEF SendRequest
    <2>2. ProbeOrder'
      BY <1>2 DEF SendRequest
    <2>3. struck' = {} => Undisturbed'
      BY <1>2 DEF SendRequest
    <2> QED
      BY <2>1, <2>2, <2>3
  <1>3. CASE ReceiveReply
    <2>1. ProbeType'
      BY <1>3 DEF ReceiveReply
    <2>2. ProbeOrder'
      BY <1>3 DEF ReceiveReply
    <2>3. struck' = {} => Undisturbed'
      BY <1>3 DEF ReceiveReply
    <2> QED
      BY <2>1, <2>2, <2>3
  <1> QED
    BY <1>1, <1>2, <1>3 DEF Initiator

(* The steps of _run_local_agents.                                         *)
LEMMA ParentPreserves == ASSUME ProbeInv, ProbeParent PROVE ProbeInv'
  <1> USE DEF ProbeInv, ProbeType, ProbeOrder, Undisturbed
  <1>1. CASE Start
    BY <1>1 DEF Start
  <1>2. CASE Poll
    BY <1>2 DEF Poll
  <1>3. CASE Probe
    <2>1. ProbeType'
      BY <1>3 DEF Probe
    <2>2. ProbeOrder'
      BY <1>3 DEF Probe
    <2>3. struck' = {} => Undisturbed'
      BY <1>3 DEF Probe
    <2> QED
      BY <2>1, <2>2, <2>3
  <1>4. CASE GetResult
    <2>1. ProbeType'
      BY <1>4 DEF GetResult
    <2>2. ProbeOrder'
      BY <1>4 DEF GetResult
    <2>3. struck' = {} => Undisturbed'
      BY <1>4 DEF GetResult
    <2> QED
      BY <2>1, <2>2, <2>3
  <1>5. CASE JoinResponder
    BY <1>5 DEF JoinResponder
  <1>6. CASE RemoveDirectory
    BY <1>6 DEF RemoveDirectory
  <1> QED
    BY <1>1, <1>2, <1>3, <1>4, <1>5, <1>6 DEF ProbeParent

(* What the three processes of a probe rely on of each other.              *)
THEOREM AlwaysProbeInv == ProbeSpec => []ProbeInv
  <1>1. ProbeInv /\ [ProbeNext]_probeVars => ProbeInv'
    <2> SUFFICES ASSUME ProbeInv, [ProbeNext]_probeVars PROVE ProbeInv'
      OBVIOUS
    <2>1. CASE UNCHANGED probeVars
      BY <2>1 DEF probeVars, ProbeInv, ProbeType, ProbeOrder, Undisturbed
    <2> QED
      BY <2>1, ResponderPreserves, InitiatorPreserves, ParentPreserves DEF ProbeNext
  <1> QED
    BY <1>1, ProbeInitEstablishes, PTL DEF ProbeSpec

(* When _run_local_agents returns, nothing of the probe is left and the    *)
(* payload has been there and back; and whichever timeouts can strike, as  *)
(* long as none has, the probe fails in no other way than being refused    *)
(* between bind and listen.                                                *)
THEOREM ProbeEndsAreExplained == ProbeSpec => []ProbeEndIsExplained
  <1>1. ProbeInv => ProbeEndIsExplained
    BY DEF ProbeInv, ProbeType, ProbeOrder, Undisturbed, ProbeEndIsExplained
  <1> QED
    BY <1>1, AlwaysProbeInv, PTL

-----------------------------------------------------------------------------

(* What a worker puts on the queue, and what the parent adds.              *)
Reports == [pid : Workers, ok : BOOLEAN]
NoReport == [pid |-> None, ok |-> FALSE]

TrialType ==
    /\ trial \in {"idle", "start", "join", "drain", "account", "returned"}
    /\ level \in 0..MaxLevel
    /\ at \in Nat
    /\ worker \in [Workers -> {"new", "starting", "barrier", "measuring", "putting", "leaving",
                               "stuck", "ended"}]
    /\ exitcode \in [Workers -> {None, "zero", "died", "terminated"}]
    /\ session \in [Workers -> {None, "completed", "failed"}]
    /\ underway \in SUBSET Reports
    /\ queue \in Seq(Reports)
    /\ results \in Seq(Reports \cup {NoReport})
    /\ trial # "returned" => \A i \in 1..Len(results) : results[i] # NoReport

(* Where a process is when the parent is at a step.                        *)
ParentFacts ==
    /\ \A w \in Workers : w > level => worker[w] = "new"
    /\ trial = "start" => /\ at \in 1..level
                          /\ \A w \in Workers : w >= at => worker[w] = "new"
    /\ trial = "join" => /\ at \in 1..level
                         /\ \A w \in 1..(at - 1) : worker[w] \in {"stuck", "ended"}
    /\ trial \in {"drain", "account", "returned"} =>
          \A w \in Taking : worker[w] \in {"stuck", "ended"}

(* A report is about a session that has ended, in the way it says.         *)
Truthful(r) ==
    r # NoReport => /\ r.pid \in Taking
                    /\ session[r.pid] # None
                    /\ r.ok => session[r.pid] = "completed"

ReportFacts ==
    /\ \A r \in underway : Truthful(r)
    /\ \A i \in 1..Len(queue) : Truthful(queue[i])
    /\ \A i \in 1..Len(results) : Truthful(results[i])

(* A worker's report is in one place, once: under way, in the queue or     *)
(* with the parent.                                                        *)
ReportedOnce ==
    /\ \A r, s \in underway : r.pid = s.pid => r = s
    /\ \A r \in underway, i \in 1..Len(queue) : queue[i].pid # r.pid
    /\ \A r \in underway, i \in 1..Len(results) : results[i].pid # r.pid
    /\ \A i, j \in 1..Len(queue) : queue[i].pid = queue[j].pid => i = j
    /\ \A i \in 1..Len(queue), j \in 1..Len(results) : results[j].pid # queue[i].pid
    /\ \A i, j \in 1..Len(results) :
          results[i].pid = results[j].pid /\ i # j => results[i] = NoReport

Collected(w) == \E i \in 1..Len(results) : results[i].pid = w
Arrived(w) == Collected(w) \/ \E i \in 1..Len(queue) : queue[i].pid = w

(* A worker reports after its session, and ends well only after its report *)
(* has arrived.                                                            *)
WorkerFacts ==
    \A w \in Workers :
        /\ worker[w] \in {"new", "starting", "barrier", "measuring"} => session[w] = None
        /\ worker[w] = "leaving" \/ exitcode[w] = "zero" => Arrived(w)
        /\ exitcode[w] # None <=> worker[w] = "ended"
        /\ trial \in {"account", "returned"} /\ exitcode[w] = "zero" => Collected(w)

TrialInv ==
    /\ TrialType /\ ParentFacts /\ ReportFacts /\ ReportedOnce /\ WorkerFacts
    /\ TrialIsAccounted

(* The row of a measurement that failed says so, each kind in its way.     *)
RowTells(row) ==
    \/ row.kind = "feasible" /\ ~row.completed
    \/ row.kind = "infeasible" /\ row.category = None
    \/ row.kind = "adversarial" /\ ~row.rejected
    \/ row.kind \in {"component", "concurrency"} /\ row.class # None

Listed(s) == s \in Seq({s[i] : i \in DOMAIN s})

RowInv ==
    /\ schedule \in Campaigns
    /\ Listed(rows)
    /\ Listed(failed)
    /\ Len(failed) = Len(rows)
    /\ \A i \in 1..Len(rows) : failed[i] => RowTells(rows[i])
    /\ trial \notin {"idle", "returned"} => Measuring /\ verdict = "none"
    /\ verdict # "none" => ~Measuring
    /\ verdict # "valid" => inventory = None
    /\ NoFailureIsHidden

CampaignInv == TrialInv /\ RowInv

-----------------------------------------------------------------------------

(* What the places of a report look like to a step that does not move any. *)
LEMMA ReportsStay ==
    ASSUME TrialInv, UNCHANGED <<level, session, underway, queue, results>>
    PROVE  /\ ReportFacts' /\ ReportedOnce'
           /\ \A w \in Workers : Arrived(w)' <=> Arrived(w)
           /\ \A w \in Workers : Collected(w)' <=> Collected(w)
  <1> USE DEF TrialInv
  <1>1. ReportFacts'
    BY DEF ReportFacts, Truthful, Taking
  <1>2. ReportedOnce'
    BY DEF ReportedOnce
  <1> QED
    BY <1>1, <1>2 DEF Arrived, Collected

(* A trial that has not returned has nothing to answer for yet.            *)
LEMMA NotReturned == trial # "returned" => TrialIsAccounted
  BY DEF TrialIsAccounted

(* No trial has begun, or a new one begins: all its records are new.       *)
LEMMA TrialInitEstablishes == ASSUME TrialInit PROVE TrialInv
  <1>1. TrialType
    BY TrialAssumption DEF TrialInit, TrialType, Workers
  <1>2. ParentFacts /\ ReportFacts /\ ReportedOnce /\ WorkerFacts
    BY TrialAssumption DEF TrialInit, ParentFacts, ReportFacts, ReportedOnce, WorkerFacts,
       Workers, Arrived, Collected
  <1>3. TrialIsAccounted
    BY NotReturned DEF TrialInit
  <1> QED
    BY <1>1, <1>2, <1>3 DEF TrialInv

LEMMA BeginTrialPreserves == ASSUME NEW n \in Workers, BeginTrial(n) PROVE TrialInv'
  <1>1. TrialType'
    BY TrialAssumption DEF BeginTrial, TrialType, Workers
  <1>2. (ParentFacts /\ ReportFacts /\ ReportedOnce /\ WorkerFacts)'
    BY TrialAssumption DEF BeginTrial, ParentFacts, ReportFacts, ReportedOnce, WorkerFacts,
       Workers, Arrived, Collected
  <1>3. TrialIsAccounted'
    BY DEF BeginTrial, TrialIsAccounted
  <1> QED
    BY <1>1, <1>2, <1>3 DEF TrialInv

(* The steps of a worker that concern itself only, and what others may do  *)
(* to it.                                                                  *)
LEMMA WorkerPreserves ==
    ASSUME TrialInv, NEW w \in Workers,
           Arrive(w) \/ Pass(w) \/ Exit(w) \/ Die(w) \/ Release(w)
    PROVE  TrialInv'
  <1> USE DEF TrialInv
  <1>1. /\ UNCHANGED <<trial, level, at, session, underway, queue, results>>
        /\ \A v \in Workers : v # w => worker'[v] = worker[v] /\ exitcode'[v] = exitcode[v]
        /\ worker' \in [Workers -> {"new", "starting", "barrier", "measuring", "putting",
                                    "leaving", "stuck", "ended"}]
        /\ exitcode' \in [Workers -> {None, "zero", "died", "terminated"}]
    BY DEF Arrive, Pass, Exit, Die, Release, TrialType
  <1>2. \/ /\ worker[w] = "starting" /\ worker'[w] = "barrier"
           /\ exitcode'[w] = exitcode[w]
        \/ /\ worker[w] = "barrier" /\ worker'[w] = "measuring"
           /\ exitcode'[w] = exitcode[w]
        \/ worker[w] = "leaving" /\ worker'[w] = "ended" /\ exitcode'[w] = "zero"
        \/ /\ worker[w] \notin {"new", "stuck", "ended"}
           /\ worker'[w] = "ended" /\ exitcode'[w] = "died"
        \/ worker[w] = "stuck" /\ worker'[w] = "ended" /\ exitcode'[w] = "terminated"
    BY DEF Arrive, Pass, Exit, Die, Release, Alive, TrialType, WorkerFacts
  <1>3. TrialType'
    BY <1>1 DEF TrialType
  <1>4. ReportFacts' /\ ReportedOnce'
        /\ \A v \in Workers : (Arrived(v)' <=> Arrived(v)) /\ (Collected(v)' <=> Collected(v))
    BY <1>1, ReportsStay
  <1>5. w \in Taking /\ trial \in {"drain", "account", "returned"} =>
            worker[w] = "stuck" /\ worker'[w] = "ended" /\ exitcode'[w] = "terminated"
    BY <1>2 DEF ParentFacts
  <1>6. worker[w] # "new" /\ w <= level
    BY <1>2 DEF ParentFacts, TrialType, Workers
  <1>7. ParentFacts'
    <2>1. level' = level /\ at' = at /\ trial' = trial /\ level \in 0..MaxLevel /\ MaxLevel \in Nat
      BY <1>1, TrialAssumption DEF TrialType
    <2>2. \A v \in Workers : v > level => worker'[v] = "new"
      BY <1>1, <1>6, <2>1 DEF ParentFacts, Workers
    <2>3. trial = "start" => \A v \in Workers : v >= at => worker'[v] = "new"
      BY <1>1, <1>6 DEF ParentFacts
    <2>4. \A v \in Workers : worker[v] \in {"stuck", "ended"} => worker'[v] \in {"stuck", "ended"}
      BY <1>1, <1>2
    <2>5. trial = "join" => \A v \in 1..(at - 1) : v \in Workers
      BY <2>1 DEF ParentFacts, Workers
    <2>6. \A v \in Taking : v \in Workers
      BY <2>1 DEF Taking, Workers
    <2> QED
      BY <2>1, <2>2, <2>3, <2>4, <2>5, <2>6 DEF ParentFacts, Taking
  <1>8. WorkerFacts'
    <2> SUFFICES ASSUME NEW v \in Workers
        PROVE (/\ worker[v] \in {"new", "starting", "barrier", "measuring"} => session[v] = None
               /\ worker[v] = "leaving" \/ exitcode[v] = "zero" => Arrived(v)
               /\ exitcode[v] # None <=> worker[v] = "ended"
               /\ trial \in {"account", "returned"} /\ exitcode[v] = "zero" => Collected(v))'
      BY DEF WorkerFacts
    <2>1. CASE v # w
      BY <2>1, <1>1, <1>4 DEF WorkerFacts
    <2>2. CASE v = w
      BY <2>2, <1>1, <1>2, <1>4, <1>5, <1>6, TrialAssumption DEF WorkerFacts, Taking, TrialType,
         Workers
    <2> QED
      BY <2>1, <2>2
  <1>9. TrialIsAccounted'
    <2> SUFFICES ASSUME trial = "returned" PROVE TrialIsAccounted'
      BY <1>1 DEF TrialIsAccounted
    <2>1. ASSUME NEW v \in Taking, worker[v] \in {"stuck", "ended"}, ~LeftResult(v),
                 exitcode[v] \in {None, "terminated"}
          PROVE  worker'[v] \in {"stuck", "ended"} /\ exitcode'[v] \in {None, "terminated"}
      <3>1. v \in Workers
        BY TrialAssumption DEF Taking, TrialType, Workers
      <3>2. CASE v = w
        BY <3>2, <2>1, <1>5
      <3> QED
        BY <3>1, <3>2, <2>1, <1>1
    <2>2. \A v : LeftResult(v)' <=> LeftResult(v)
      BY <1>1 DEF LeftResult
    <2> QED
      BY <2>1, <2>2, <1>1 DEF TrialIsAccounted, Taking, Successes
  <1> QED
    BY <1>3, <1>4, <1>7, <1>8, <1>9

(* A worker puts its result: it has not done so before.                    *)
LEMMA PutPreserves == ASSUME TrialInv, NEW w \in Workers, Put(w) PROVE TrialInv'
  <1> USE DEF TrialInv
  <1>1. PICK how \in {"completed", "failed"} :
          /\ session' = [session EXCEPT ![w] = how]
          /\ underway' = underway \cup {[pid |-> w, ok |-> how = "completed"]}
    BY DEF Put
  <1> DEFINE new == [pid |-> w, ok |-> how = "completed"]
  <1>2. /\ new \in Reports /\ new.pid = w /\ (new.ok <=> how = "completed")
        /\ new # NoReport
    <2>1. w # None
      BY TrialAssumption DEF Workers
    <2>2. (how = "completed") \in BOOLEAN
      BY Zenon
    <2> QED
      BY <2>1, <2>2 DEF Reports, NoReport
  <1>3. underway' = underway \cup {new}
    BY <1>1
  <1> HIDE DEF new
  <1>4. /\ UNCHANGED <<trial, level, at, exitcode, queue, results>>
        /\ worker[w] = "measuring"
        /\ worker' = [worker EXCEPT ![w] = "putting"]
    BY DEF Put
  <1>5. /\ \A v \in Workers : v # w => worker'[v] = worker[v] /\ session'[v] = session[v]
        /\ worker'[w] = "putting" /\ session'[w] = how
    BY <1>1, <1>4 DEF TrialType
  <1>6. session[w] = None /\ w <= level /\ w \in Taking /\ trial # "returned"
    <2>1. session[w] = None /\ w <= level
      BY <1>4 DEF WorkerFacts, ParentFacts, TrialType, Workers
    <2>2. w \in Taking
      BY <2>1, TrialAssumption DEF Taking, Workers, TrialType
    <2> QED
      BY <1>4, <2>1, <2>2 DEF ParentFacts
  <1>7. TrialType'
    BY <1>1, <1>2, <1>3, <1>4 DEF TrialType
  <1>8. ParentFacts'
    <2>1. level \in 0..MaxLevel /\ MaxLevel \in Nat
      BY TrialAssumption DEF TrialType
    <2>2. \A v \in Workers : worker[v] \in {"new", "stuck", "ended"} => worker'[v] = worker[v]
      BY <1>4, <1>5
    <2>3. trial = "join" => \A v \in 1..(at - 1) : v \in Workers
      BY <2>1 DEF ParentFacts, Workers
    <2>4. \A v \in Taking : v \in Workers
      BY <2>1 DEF Taking, Workers
    <2> QED
      BY <1>4, <2>2, <2>3, <2>4 DEF ParentFacts, Taking
  <1>9. /\ \A r \in underway : r \in Reports /\ r.pid \in Workers /\ r # NoReport
        /\ \A i \in 1..Len(queue) : /\ queue[i] \in Reports /\ queue[i].pid \in Workers
                                    /\ queue[i] # NoReport
        /\ \A i \in 1..Len(results) : /\ results[i] \in Reports /\ results[i].pid \in Workers
                                      /\ results[i] # NoReport
    <2>1. \A r \in Reports : r.pid \in Workers /\ r # NoReport
      BY TrialAssumption DEF Reports, NoReport, Workers
    <2> QED
      BY <1>6, <2>1 DEF TrialType
  <1>10. /\ \A r \in underway : r.pid # w
         /\ \A i \in 1..Len(queue) : queue[i].pid # w
         /\ \A i \in 1..Len(results) : results[i].pid # w
    BY <1>6, <1>9 DEF ReportFacts, Truthful
  <1>11. ReportFacts'
    <2>1. \A r \in underway : Truthful(r)'
      BY <1>4, <1>5, <1>9, <1>10 DEF ReportFacts, Truthful, Taking
    <2>2. \A i \in 1..Len(queue) : Truthful(queue[i])'
      BY <1>4, <1>5, <1>9, <1>10 DEF ReportFacts, Truthful, Taking
    <2>3. \A i \in 1..Len(results) : Truthful(results[i])'
      BY <1>4, <1>5, <1>9, <1>10 DEF ReportFacts, Truthful, Taking
    <2>4. Truthful(new)'
      BY <1>2, <1>4, <1>5, <1>6, TrialAssumption DEF Truthful, Taking
    <2> QED
      BY <1>3, <1>4, <2>1, <2>2, <2>3, <2>4 DEF ReportFacts
  <1>12. ReportedOnce'
    BY <1>2, <1>3, <1>4, <1>10 DEF ReportedOnce
  <1>13. WorkerFacts'
    BY <1>4, <1>5, TrialAssumption DEF WorkerFacts, Arrived, Collected
  <1>14. TrialIsAccounted'
    BY <1>4, <1>6 DEF TrialIsAccounted
  <1> QED
    BY <1>7, <1>8, <1>11, <1>12, <1>13, <1>14

(* The manager performs a put, perhaps of a worker that is no longer there.*)
LEMMA DeliverPreserves == ASSUME TrialInv, NEW r \in underway, Deliver(r) PROVE TrialInv'
  <1> USE DEF TrialInv
  <1>1. /\ UNCHANGED <<trial, level, at, exitcode, session, results>>
        /\ underway' = underway \ {r}
        /\ queue' = Append(queue, r)
        /\ worker' = IF worker[r.pid] = "putting" THEN [worker EXCEPT ![r.pid] = "leaving"]
                     ELSE worker
    BY DEF Deliver
  <1>2. r \in Reports /\ r.pid \in Workers /\ queue \in Seq(Reports)
    BY DEF TrialType, Reports
  <1>3. /\ queue' \in Seq(Reports) /\ Len(queue) \in Nat /\ Len(queue') = Len(queue) + 1
        /\ \A i \in 1..Len(queue) : queue'[i] = queue[i]
        /\ queue'[Len(queue) + 1] = r
    BY <1>1, <1>2
  <1>4. \A v \in Workers : \/ worker'[v] = worker[v]
                           \/ v = r.pid /\ worker[v] = "putting" /\ worker'[v] = "leaving"
    BY <1>1, <1>2 DEF TrialType
  <1>5. TrialType'
    BY <1>1, <1>2, <1>3 DEF TrialType
  <1>6. ParentFacts'
    <2>1. level \in 0..MaxLevel /\ MaxLevel \in Nat
      BY TrialAssumption DEF TrialType
    <2>2. \A v \in Workers : worker[v] \in {"new", "stuck", "ended"} => worker'[v] = worker[v]
      BY <1>4
    <2>3. trial = "join" => \A v \in 1..(at - 1) : v \in Workers
      BY <2>1 DEF ParentFacts, Workers
    <2>4. \A v \in Taking : v \in Workers
      BY <2>1 DEF Taking, Workers
    <2> QED
      BY <1>1, <2>2, <2>3, <2>4 DEF ParentFacts, Taking
  <1>7. ReportFacts'
    BY <1>1, <1>3 DEF ReportFacts, Truthful, Taking
  <1>8. ReportedOnce'
    <2>1. \A i \in 1..Len(queue') : i \in 1..Len(queue) \/ i = Len(queue) + 1
      BY <1>3
    <2> QED
      BY <1>1, <1>3, <2>1 DEF ReportedOnce
  <1>9. /\ \A v \in Workers : Arrived(v) => Arrived(v)'
        /\ \A v \in Workers : Collected(v)' <=> Collected(v)
        /\ Arrived(r.pid)'
    BY <1>1, <1>3 DEF Arrived, Collected
  <1>10. WorkerFacts'
    BY <1>1, <1>4, <1>9 DEF WorkerFacts
  <1>11. TrialIsAccounted'
    <2> SUFFICES ASSUME trial = "returned" PROVE TrialIsAccounted'
      BY <1>1 DEF TrialIsAccounted
    <2>1. \A v \in Taking : worker[v] \in {"stuck", "ended"} => worker'[v] = worker[v]
      BY <1>4, TrialAssumption DEF Taking, TrialType, Workers
    <2>2. \A v : LeftResult(v)' <=> LeftResult(v)
      BY <1>1 DEF LeftResult
    <2> QED
      BY <2>1, <2>2, <1>1 DEF TrialIsAccounted, Taking, Successes
  <1> QED
    BY <1>5, <1>6, <1>7, <1>8, <1>10, <1>11

(* The parent starts the processes one after the other.                    *)
LEMMA StartProcessPreserves == ASSUME TrialInv, StartProcess PROVE TrialInv'
  <1> USE DEF TrialInv
  <1>1. /\ UNCHANGED <<level, late, exitcode, session, underway, queue, results>>
        /\ trial = "start" /\ worker' = [worker EXCEPT ![at] = "starting"]
        /\ \/ at = level /\ trial' = "join" /\ at' = 1
           \/ at # level /\ trial' = "start" /\ at' = at + 1
    BY DEF StartProcess
  <1>2. at \in 1..level /\ at \in Workers /\ level \in 0..MaxLevel /\ MaxLevel \in Nat
    BY <1>1, TrialAssumption DEF ParentFacts, TrialType, Workers
  <1>3. worker[at] = "new" /\ worker'[at] = "starting"
        /\ \A v \in Workers : v # at => worker'[v] = worker[v]
    BY <1>1, <1>2 DEF ParentFacts, TrialType
  <1>4. TrialType'
    BY <1>1, <1>2 DEF TrialType
  <1>5. ParentFacts'
    BY <1>1, <1>2, <1>3 DEF ParentFacts, Workers
  <1>6. ReportFacts' /\ ReportedOnce'
        /\ \A v \in Workers : (Arrived(v)' <=> Arrived(v)) /\ (Collected(v)' <=> Collected(v))
    BY <1>1, ReportsStay
  <1>7. WorkerFacts'
    BY <1>1, <1>3, <1>6 DEF WorkerFacts
  <1>8. TrialIsAccounted'
    BY <1>1 DEF TrialIsAccounted
  <1> QED
    BY <1>4, <1>5, <1>6, <1>7, <1>8

(* The clock.                                                              *)
LEMMA DeadlinePreserves == ASSUME TrialInv, Deadline PROVE TrialInv'
  <1> USE DEF TrialInv
  <1>1. UNCHANGED <<trial, level, at, worker, exitcode, session, underway, queue, results>>
        /\ trial = "join"
    BY DEF Deadline
  <1>2. ReportFacts' /\ ReportedOnce'
        /\ \A v \in Workers : (Arrived(v)' <=> Arrived(v)) /\ (Collected(v)' <=> Collected(v))
    BY <1>1, ReportsStay
  <1>3. TrialType' /\ ParentFacts' /\ WorkerFacts'
    BY <1>1, <1>2 DEF TrialType, ParentFacts, WorkerFacts, Taking
  <1>4. TrialIsAccounted'
    BY <1>1 DEF TrialIsAccounted
  <1> QED
    BY <1>2, <1>3, <1>4

(* The process at hand has ended, is terminated or outlasts that: in any   *)
(* case it does nothing any more.                                          *)
LEMMA JoinPreserves == ASSUME TrialInv, Join \/ Terminate PROVE TrialInv'
  <1> USE DEF TrialInv
  <1>1. /\ UNCHANGED <<level, late, arrived, session, underway, queue, results>>
        /\ trial = "join" /\ NextProcess
    BY DEF Join, Terminate
  <1>2. at \in 1..level /\ at \in Workers /\ level \in 0..MaxLevel /\ MaxLevel \in Nat
    BY <1>1, TrialAssumption DEF ParentFacts, TrialType, Workers
  <1>3. \/ exitcode[at] # None /\ UNCHANGED <<worker, exitcode>>
        \/ /\ exitcode[at] = None /\ worker' = [worker EXCEPT ![at] = "ended"]
           /\ exitcode' = [exitcode EXCEPT ![at] = "terminated"]
        \/ /\ exitcode[at] = None /\ worker' = [worker EXCEPT ![at] = "stuck"]
           /\ exitcode' = exitcode
    BY DEF Join, Terminate
  <1>4. /\ worker' \in [Workers -> {"new", "starting", "barrier", "measuring", "putting",
                                    "leaving", "stuck", "ended"}]
        /\ exitcode' \in [Workers -> {None, "zero", "died", "terminated"}]
    BY <1>2, <1>3 DEF TrialType
  <1>5. /\ \A v \in Workers : v # at => worker'[v] = worker[v] /\ exitcode'[v] = exitcode[v]
        /\ \/ worker'[at] = "ended" /\ exitcode'[at] = exitcode[at] /\ exitcode[at] # None
           \/ worker'[at] = "ended" /\ exitcode'[at] = "terminated"
           \/ worker'[at] = "stuck" /\ exitcode'[at] = exitcode[at] /\ exitcode[at] = None
    BY <1>2, <1>3 DEF TrialType, WorkerFacts
  <1>6. \/ at = level /\ trial' = "drain" /\ at' = 1
        \/ at # level /\ trial' = "join" /\ at' = at + 1
    BY <1>1 DEF NextProcess
  <1>7. TrialType'
    BY <1>1, <1>2, <1>4, <1>6 DEF TrialType
  <1>8. ParentFacts'
    <2>1. \A v \in 1..at : v \in Workers /\ worker'[v] \in {"stuck", "ended"}
      BY <1>1, <1>2, <1>5 DEF ParentFacts, Workers
    <2>2. \A v \in Workers : v > level => worker'[v] = "new"
      BY <1>2, <1>5 DEF ParentFacts
    <2> QED
      BY <1>1, <1>2, <1>6, <2>1, <2>2 DEF ParentFacts, Taking
  <1>9. ReportFacts' /\ ReportedOnce'
        /\ \A v \in Workers : (Arrived(v)' <=> Arrived(v)) /\ (Collected(v)' <=> Collected(v))
    BY <1>1, ReportsStay
  <1>10. WorkerFacts'
    BY <1>1, <1>2, <1>5, <1>6, <1>9, TrialAssumption DEF WorkerFacts
  <1>11. TrialIsAccounted'
    BY <1>6 DEF TrialIsAccounted
  <1> QED
    BY <1>7, <1>8, <1>9, <1>10, <1>11

(* The parent takes a result off the queue.                                *)
LEMMA DrainPreserves == ASSUME TrialInv, Drain PROVE TrialInv'
  <1> USE DEF TrialInv
  <1>1. /\ UNCHANGED <<trial, level, at, worker, exitcode, session, underway>>
        /\ trial = "drain" /\ queue # <<>>
        /\ results' = Append(results, Head(queue)) /\ queue' = Tail(queue)
    BY DEF Drain
  <1> DEFINE h == Head(queue)
  <1>2. queue \in Seq(Reports) /\ results \in Seq(Reports \cup {NoReport})
    BY DEF TrialType
  <1>3. /\ h \in Reports /\ h = queue[1]
        /\ queue' \in Seq(Reports) /\ Len(queue) \in Nat \ {0}
        /\ Len(queue') = Len(queue) - 1
        /\ \A i \in 1..Len(queue') : queue'[i] = queue[i + 1]
    BY <1>1, <1>2
  <1>4. /\ results' \in Seq(Reports \cup {NoReport}) /\ Len(results) \in Nat
        /\ Len(results') = Len(results) + 1
        /\ \A i \in 1..Len(results) : results'[i] = results[i]
        /\ results'[Len(results) + 1] = h
    BY <1>1, <1>2, <1>3
  <1>5. h # NoReport
    BY <1>3, TrialAssumption DEF Reports, NoReport, Workers
  <1> HIDE DEF h
  <1>6. /\ \A i \in 1..Len(results') : i \in 1..Len(results) \/ i = Len(results) + 1
        /\ \A i \in 1..Len(queue') : i + 1 \in 1..Len(queue) /\ i + 1 # 1
        /\ \A i \in 1..Len(queue) : i = 1 \/ (i - 1 \in 1..Len(queue') /\ queue'[i - 1] = queue[i])
        /\ 1 \in 1..Len(queue) /\ Len(results) + 1 \in 1..Len(results')
    BY <1>3, <1>4
  <1>7. TrialType'
    BY <1>1, <1>3, <1>4, <1>5, <1>6 DEF TrialType
  <1>8. ParentFacts'
    BY <1>1 DEF ParentFacts, Taking
  <1>9. ReportFacts'
    <2>1. Truthful(h)
      BY <1>3, <1>6 DEF ReportFacts
    <2> QED
      BY <1>1, <1>3, <1>4, <1>6, <2>1 DEF ReportFacts, Truthful, Taking
  <1>10. ReportedOnce'
    <2>1. \A r \in underway', i \in 1..Len(queue') : queue'[i].pid # r.pid
      BY <1>1, <1>3, <1>6 DEF ReportedOnce
    <2>2. \A r \in underway', i \in 1..Len(results') : results'[i].pid # r.pid
      BY <1>1, <1>3, <1>4, <1>6 DEF ReportedOnce
    <2>3. \A i, j \in 1..Len(queue') : queue'[i].pid = queue'[j].pid => i = j
      <3> SUFFICES ASSUME NEW i \in 1..Len(queue'), NEW j \in 1..Len(queue'),
                          queue'[i].pid = queue'[j].pid
                   PROVE  i = j
        OBVIOUS
      <3>1. queue[i + 1].pid = queue[j + 1].pid
        BY <1>3
      <3>2. i + 1 = j + 1
        BY <3>1, <1>6 DEF ReportedOnce
      <3> QED
        BY <3>2, <1>3
    <2>4. \A i \in 1..Len(queue'), j \in 1..Len(results') : results'[j].pid # queue'[i].pid
      <3> SUFFICES ASSUME NEW i \in 1..Len(queue'), NEW j \in 1..Len(results')
                   PROVE  results'[j].pid # queue'[i].pid
        OBVIOUS
      <3>1. queue'[i] = queue[i + 1] /\ i + 1 \in 1..Len(queue) /\ i + 1 # 1
        BY <1>3, <1>6
      <3>2. CASE j \in 1..Len(results)
        BY <3>1, <3>2, <1>4 DEF ReportedOnce
      <3>3. CASE j = Len(results) + 1
        BY <3>1, <3>3, <1>3, <1>4, <1>6 DEF ReportedOnce
      <3> QED
        BY <3>2, <3>3, <1>6
    <2>5. \A i, j \in 1..Len(results') :
            results'[i].pid = results'[j].pid /\ i # j => results'[i] = NoReport
      <3>1. \A j \in 1..Len(results) : results[j].pid # h.pid
        BY <1>3, <1>6 DEF ReportedOnce
      <3> SUFFICES ASSUME NEW i \in 1..Len(results'), NEW j \in 1..Len(results'),
                          results'[i].pid = results'[j].pid, i # j
                   PROVE  results'[i] = NoReport
        OBVIOUS
      <3>2. CASE i \in 1..Len(results) /\ j \in 1..Len(results)
        BY <3>2, <1>4 DEF ReportedOnce
      <3> QED
        BY <3>1, <3>2, <1>4, <1>6
    <2> QED
      BY <1>1, <2>1, <2>2, <2>3, <2>4, <2>5 DEF ReportedOnce
  <1>11. \A v \in Workers : Arrived(v) => Arrived(v)'
    <2> SUFFICES ASSUME NEW v \in Workers, Arrived(v) PROVE Arrived(v)'
      OBVIOUS
    <2>1. CASE Collected(v)
      BY <2>1, <1>4 DEF Collected, Arrived
    <2>2. ASSUME NEW i \in 1..Len(queue), queue[i].pid = v PROVE Arrived(v)'
      <3>1. CASE i = 1
        BY <3>1, <2>2, <1>3, <1>4, <1>6 DEF Collected, Arrived
      <3>2. CASE i # 1
        BY <3>2, <2>2, <1>6 DEF Arrived
      <3> QED
        BY <3>1, <3>2
    <2> QED
      BY <2>1, <2>2 DEF Arrived
  <1>12. WorkerFacts'
    BY <1>1, <1>11 DEF WorkerFacts
  <1>13. TrialIsAccounted'
    BY <1>1 DEF TrialIsAccounted
  <1> QED
    BY <1>7, <1>8, <1>9, <1>10, <1>12, <1>13

(* The queue is empty: every process that ended well has left its result.  *)
LEMMA DrainedPreserves == ASSUME TrialInv, Drained PROVE TrialInv'
  <1> USE DEF TrialInv
  <1>1. /\ UNCHANGED <<level, at, worker, exitcode, session, underway, queue, results>>
        /\ trial = "drain" /\ trial' = "account" /\ queue = <<>>
    BY DEF Drained
  <1>2. ReportFacts' /\ ReportedOnce'
        /\ \A v \in Workers : (Arrived(v)' <=> Arrived(v)) /\ (Collected(v)' <=> Collected(v))
    BY <1>1, ReportsStay
  <1>3. \A v \in Workers : Arrived(v) => Collected(v)
    BY <1>1 DEF Arrived
  <1>4. TrialType' /\ ParentFacts'
    BY <1>1 DEF TrialType, ParentFacts, Taking
  <1>5. WorkerFacts'
    BY <1>1, <1>2, <1>3 DEF WorkerFacts
  <1>6. TrialIsAccounted'
    BY <1>1 DEF TrialIsAccounted
  <1> QED
    BY <1>2, <1>4, <1>5, <1>6

(* There are n numbers from 1 to n.                                        *)
LEMMA UpTo ==
    ASSUME NEW n \in Nat
    PROVE  IsFiniteSet(1..n) /\ Cardinality(1..n) = n
    BY FS_Interval

(* Before the parent adds to them, the results are of different workers,   *)
(* so there are as many workers as results.                                *)
LEMMA CollectedOnce ==
    ASSUME TrialInv, trial # "returned"
    PROVE  LET left == {results[i].pid : i \in DOMAIN results} IN
           /\ DOMAIN results = 1..Len(results) /\ Len(results) \in Nat
           /\ left \subseteq Taking
           /\ IsFiniteSet(left) /\ Cardinality(left) = Len(results)
           /\ IsFiniteSet(Taking) /\ Cardinality(Taking) = level
  <1> USE DEF TrialInv
  <1> DEFINE left == {results[i].pid : i \in DOMAIN results}
             f == [i \in 1..Len(results) |-> results[i].pid]
  <1>1. DOMAIN results = 1..Len(results) /\ Len(results) \in Nat
    BY DEF TrialType
  <1>2. left \subseteq Taking
    BY <1>1 DEF TrialType, ReportFacts, Truthful
  <1>3. f \in Bijection(1..Len(results), left)
    <2>1. f \in Surjection(1..Len(results), left)
      BY <1>1 DEF Surjection
    <2>2. f \in Injection(1..Len(results), left)
      <3>1. \A i, j \in 1..Len(results) : results[i].pid = results[j].pid => i = j
        BY DEF ReportedOnce, TrialType
      <3>2. f \in [1..Len(results) -> left]
        BY <1>1
      <3>3. \A i, j \in 1..Len(results) : f[i] = f[j] => i = j
        BY <3>1
      <3> HIDE DEF f, left
      <3> QED
        BY <3>2, <3>3 DEF Injection, IsInjective
    <2> QED
      BY <2>1, <2>2 DEF Bijection
  <1>4. IsFiniteSet(1..Len(results)) /\ Cardinality(1..Len(results)) = Len(results)
    BY <1>1, UpTo
  <1>5. IsFiniteSet(left) /\ Cardinality(left) = Len(results)
    BY <1>3, <1>4, FS_Bijection DEF ExistsBijection
  <1>6. IsFiniteSet(Taking) /\ Cardinality(Taking) = level
    BY FS_Interval DEF Taking, TrialType
  <1> QED
    BY <1>1, <1>2, <1>5, <1>6

(* The rest of measure_concurrency: the processes without a result that    *)
(* ended badly are added, and no process is counted twice.                 *)
LEMMA AccountPreserves == ASSUME TrialInv, Account PROVE TrialInv'
  <1> USE DEF TrialInv
  <1> DEFINE left == {results[i].pid : i \in DOMAIN results}
             bad == {w \in Taking : exitcode[w] \notin {"zero", None} /\ w \notin left}
             k == Cardinality(bad)
             added == [i \in 1..k |-> NoReport]
  <1>1. /\ UNCHANGED <<level, at, late, worker, exitcode, arrived, session, underway, queue>>
        /\ trial = "account" /\ trial' = "returned"
    BY DEF Account
  <1>2. results' = results \o added
    BY DEF Account, AccountedFor, NoReport
  <1>3. /\ DOMAIN results = 1..Len(results) /\ Len(results) \in Nat
        /\ left \subseteq Taking
        /\ IsFiniteSet(left) /\ Cardinality(left) = Len(results)
        /\ IsFiniteSet(Taking) /\ Cardinality(Taking) = level
    BY <1>1, CollectedOnce
  <1>4. left \in SUBSET Taking /\ bad \in SUBSET Taking /\ left \cap bad = {}
    BY <1>3
  <1> HIDE DEF left, bad
  <1>5. IsFiniteSet(bad) /\ k \in Nat
    BY <1>3, <1>4, FS_Subset, FS_CardinalityType
  <1>6. /\ IsFiniteSet(left \cup bad)
        /\ Cardinality(left \cup bad) = Len(results) + k
    <2>1. Cardinality(left \cap bad) = 0
      BY <1>4, FS_EmptySet
    <2>2. /\ IsFiniteSet(left \cup bad)
          /\ Cardinality(left \cup bad)
             = Cardinality(left) + Cardinality(bad) - Cardinality(left \cap bad)
      BY <1>3, <1>5, FS_Union
    <2> QED
      BY <2>1, <2>2, <1>3, <1>5
  <1>7. left \cup bad \in SUBSET Taking
    BY <1>4
  <1>8. /\ Len(results) + k <= level
        /\ Len(results) + k = level => left \cup bad = Taking
    <2>1. /\ Cardinality(left \cup bad) <= Cardinality(Taking)
          /\ Cardinality(Taking) = Cardinality(left \cup bad) => Taking = left \cup bad
      BY <1>3, <1>7, FS_Subset
    <2> QED
      BY <2>1, <1>3, <1>6
  <1> HIDE DEF k
  <1>9. /\ results' \in Seq(Reports \cup {NoReport})
        /\ Len(results') = Len(results) + k
        /\ \A i \in 1..Len(results) : results'[i] = results[i]
        /\ \A i \in 1..Len(results') : i \in 1..Len(results) \/ results'[i] = NoReport
    <2>1. results \in Seq(Reports \cup {NoReport})
      BY DEF TrialType
    <2>2. added \in Seq(Reports \cup {NoReport}) /\ Len(added) = k
          /\ \A i \in 1..k : added[i] = NoReport
      BY <1>5
    <2> HIDE DEF added
    <2>3. /\ results' \in Seq(Reports \cup {NoReport})
          /\ Len(results') = Len(results) + k
          /\ \A i \in 1..(Len(results) + k) :
                results'[i] = IF i <= Len(results) THEN results[i] ELSE added[i - Len(results)]
      BY <2>1, <2>2, <1>2, ConcatProperties
    <2>4. ASSUME NEW i \in 1..(Len(results) + k), i \notin 1..Len(results)
          PROVE  results'[i] = NoReport
      <3>1. i - Len(results) \in 1..k /\ ~(i <= Len(results))
        BY <2>4, <1>3, <1>5
      <3> QED
        BY <2>2, <2>3, <3>1
    <2>5. \A i \in 1..Len(results) : i \in 1..(Len(results) + k) /\ i <= Len(results)
      BY <1>3, <1>5
    <2> QED
      BY <2>3, <2>4, <2>5
  <1>10. TrialType'
    BY <1>1, <1>9 DEF TrialType
  <1>11. ParentFacts'
    BY <1>1 DEF ParentFacts, Taking
  <1>12. \A i \in 1..Len(results) : results[i] # NoReport /\ results[i].pid # None
    <2>1. \A r \in Reports : r.pid # None
      BY TrialAssumption DEF Reports, Workers
    <2> QED
      BY <2>1, <1>1 DEF TrialType
  <1>13. NoReport.pid = None /\ NoReport.ok = FALSE
    BY DEF NoReport
  <1>14. ReportFacts'
    BY <1>1, <1>9 DEF ReportFacts, Truthful, Taking
  <1>15. ReportedOnce'
    <2>1. \A r \in underway : r.pid # None
      BY TrialAssumption DEF TrialType, Reports, Workers
    <2>2. \A i \in 1..Len(queue) : queue[i].pid # None
      <3>1. \A i \in 1..Len(queue) : queue[i] \in Reports
        BY DEF TrialType
      <3> QED
        BY <3>1, TrialAssumption DEF Reports, Workers
    <2>3. \A r \in underway, i \in 1..Len(results') : results'[i].pid # r.pid
      BY <2>1, <1>9, <1>13 DEF ReportedOnce
    <2>4. \A i \in 1..Len(queue), j \in 1..Len(results') : results'[j].pid # queue[i].pid
      BY <2>2, <1>9, <1>13 DEF ReportedOnce
    <2>5. \A i, j \in 1..Len(results') :
            results'[i].pid = results'[j].pid /\ i # j => results'[i] = NoReport
      BY <1>9, <1>12, <1>13 DEF ReportedOnce
    <2> QED
      BY <1>1, <2>3, <2>4, <2>5 DEF ReportedOnce
  <1>16. \A v \in Workers : (Arrived(v) => Arrived(v)') /\ (Collected(v) => Collected(v)')
    BY <1>1, <1>3, <1>5, <1>9 DEF Arrived, Collected
  <1>17. WorkerFacts'
    BY <1>1, <1>16 DEF WorkerFacts
  <1>18. DOMAIN results' = 1..Len(results')
    BY <1>9
  <1>19. ASSUME Len(results') < level
         PROVE  \E w \in Taking : /\ worker[w] \in {"stuck", "ended"} /\ ~LeftResult(w)'
                                  /\ exitcode[w] \in {None, "terminated"}
    <2>1. left \cup bad # Taking
      <3>1. CASE left \cup bad = Taking
        <4>1. Cardinality(left \cup bad) = level
          BY <3>1, <1>3, Zenon
        <4>2. level \in Nat
          BY DEF TrialType
        <4> QED
          BY <4>1, <4>2, <1>19, <1>6, <1>9
      <3> QED
        BY <3>1
    <2>2. PICK w \in Taking : w \notin left /\ w \notin bad
      BY <2>1, <1>7
    <2>3. w \in Workers /\ w # None
      BY TrialAssumption DEF Taking, TrialType, Workers
    <2>4. ~Collected(w)
      BY <2>2, <1>3 DEF Collected, left
    <2>5. exitcode[w] = None
      BY <2>2, <2>3, <2>4, <1>1 DEF bad, WorkerFacts
    <2>6. worker[w] \in {"stuck", "ended"}
      BY <1>1 DEF ParentFacts
    <2>7. ~LeftResult(w)'
      BY <2>3, <2>4, <1>9, <1>13, <1>18 DEF LeftResult, Collected
    <2> QED
      BY <2>5, <2>6, <2>7
  <1>20. \A i \in 1..Len(results') : results'[i].ok => session[results'[i].pid] = "completed"
    BY <1>9, <1>12, <1>13 DEF ReportFacts, Truthful
  <1>21. TrialIsAccounted'
    <2>1. \A i, j \in 1..Len(results') :
            results'[i].pid = results'[j].pid /\ i # j => results'[i].pid = None
      BY <1>13, <1>15 DEF ReportedOnce
    <2> QED
      BY <2>1, <1>1, <1>8, <1>9, <1>18, <1>19, <1>20 DEF TrialIsAccounted, Taking, Successes
  <1> QED
    BY <1>10, <1>11, <1>14, <1>15, <1>17, <1>21

(* Every step of a trial.                                                  *)
LEMMA TrialNextPreserves == ASSUME TrialInv, TrialNext PROVE TrialInv'
  BY StartProcessPreserves, DeadlinePreserves, JoinPreserves, DrainPreserves, DrainedPreserves,
     AccountPreserves, WorkerPreserves, PutPreserves, DeliverPreserves DEF TrialNext

(* As many successes as workers: then every session has completed.         *)
LEMMA FullTrial ==
    ASSUME TrialInv, trial = "account", Cardinality(Successes) = level
    PROVE  \A w \in Taking : session[w] = "completed"
  <1> USE DEF TrialInv
  <1> DEFINE good == Successes
             f == [i \in good |-> results[i].pid]
             named == {results[i].pid : i \in good}
  <1>1. /\ DOMAIN results = 1..Len(results) /\ Len(results) \in Nat
        /\ good \subseteq 1..Len(results)
    BY DEF TrialType, Successes
  <1>2. \A i \in good : results[i].pid \in Taking /\ session[results[i].pid] = "completed"
    <2> SUFFICES ASSUME NEW i \in good
                 PROVE  results[i].pid \in Taking /\ session[results[i].pid] = "completed"
      OBVIOUS
    <2>1. results[i].ok
      BY Zenon DEF Successes
    <2>2. Truthful(results[i]) /\ results[i] # NoReport
      BY <1>1 DEF TrialType, ReportFacts
    <2> QED
      BY <2>1, <2>2 DEF Truthful
  <1>3. IsFiniteSet(good)
    <2>1. IsFiniteSet(1..Len(results))
      BY <1>1, FS_Interval
    <2> HIDE DEF good
    <2> QED
      BY <2>1, <1>1, FS_Subset
  <1>4. IsFiniteSet(Taking) /\ Cardinality(Taking) = level
    BY FS_Interval DEF Taking, TrialType
  <1>5. named \subseteq Taking
    BY <1>2
  <1>6. IsFiniteSet(named) /\ Cardinality(named) = level
    <2>1. f \in Surjection(good, named)
      BY DEF Surjection
    <2>2. f \in Injection(good, named)
      <3>1. \A i, j \in good : results[i].pid = results[j].pid => i = j
        BY <1>1 DEF ReportedOnce, TrialType
      <3>2. f \in [good -> named]
        OBVIOUS
      <3>3. \A i, j \in good : f[i] = f[j] => i = j
        BY <3>1
      <3> HIDE DEF f, named, good
      <3> QED
        BY <3>2, <3>3 DEF Injection, IsInjective
    <2>3. f \in Bijection(good, named)
      BY <2>1, <2>2 DEF Bijection
    <2> HIDE DEF f, named, good
    <2> QED
      BY <2>3, <1>3, FS_Bijection DEF ExistsBijection, good
  <1>7. named = Taking
    <2> HIDE DEF named
    <2> QED
      BY <1>4, <1>5, <1>6, FS_Subset
  <1> QED
    BY <1>2, <1>7

(* A measurement appends its row and whether it failed.                    *)
LEMMA ObserveAppends ==
    ASSUME RowInv, NEW row, NEW bad, Observe(row, bad)
    PROVE  /\ UNCHANGED <<schedule, verdict, inventory>>
           /\ Listed(rows')
           /\ Listed(failed')
           /\ Len(rows) \in Nat /\ Len(rows') = Len(rows) + 1 /\ Len(failed') = Len(rows) + 1
           /\ \A i \in 1..Len(rows) : rows'[i] = rows[i] /\ failed'[i] = failed[i]
           /\ rows'[Len(rows) + 1] = row /\ failed'[Len(rows) + 1] = bad
  <1>1. /\ rows' = Append(rows, row) /\ failed' = Append(failed, bad)
        /\ UNCHANGED <<schedule, verdict, inventory>>
        /\ Listed(rows)
        /\ Listed(failed)
    BY Zenon DEF Observe, RowInv
  <1>2. /\ Listed(rows') /\ Len(rows') = Len(rows) + 1 /\ Len(rows) \in Nat
        /\ \A i \in 1..Len(rows) : rows'[i] = rows[i]
        /\ rows'[Len(rows) + 1] = row
    <2>1. PICK S : rows \in Seq(S) /\ row \in S
      <3> DEFINE S == {rows[i] : i \in DOMAIN rows} \cup {row}
      <3> rows \in Seq(S) /\ row \in S
        BY <1>1 DEF Listed
      <3> QED
        OBVIOUS
    <2>2. /\ rows' \in Seq(S) /\ Len(rows') = Len(rows) + 1 /\ Len(rows) \in Nat
          /\ \A i \in 1..Len(rows) : rows'[i] = rows[i]
          /\ rows'[Len(rows) + 1] = row
      BY <1>1, <2>1
    <2> QED
      BY <2>2 DEF Listed
  <1>3. /\ Listed(failed') /\ Len(failed') = Len(failed) + 1 /\ Len(failed) \in Nat
        /\ \A i \in 1..Len(failed) : failed'[i] = failed[i]
        /\ failed'[Len(failed) + 1] = bad
    <2>1. PICK S : failed \in Seq(S) /\ bad \in S
      <3> DEFINE S == {failed[i] : i \in DOMAIN failed} \cup {bad}
      <3> failed \in Seq(S) /\ bad \in S
        BY <1>1 DEF Listed
      <3> QED
        OBVIOUS
    <2>2. /\ failed' \in Seq(S) /\ Len(failed') = Len(failed) + 1 /\ Len(failed) \in Nat
          /\ \A i \in 1..Len(failed) : failed'[i] = failed[i]
          /\ failed'[Len(failed) + 1] = bad
      BY <1>1, <2>1
    <2> QED
      BY <2>2 DEF Listed
  <1>4. Len(failed) = Len(rows)
    BY Zenon DEF RowInv
  <1> QED
    BY <1>1, <1>2, <1>3, <1>4

LEMMA ObservePreserves ==
    ASSUME RowInv, NEW row, NEW bad, Measuring, verdict = "none",
           Observe(row, bad), bad => RowTells(row), trial' \in {"idle", "returned"}
    PROVE  RowInv'
  <1>1. /\ UNCHANGED <<schedule, verdict, inventory>>
        /\ Listed(rows')
        /\ Listed(failed')
        /\ Len(rows) \in Nat /\ Len(rows') = Len(rows) + 1 /\ Len(failed') = Len(rows) + 1
        /\ \A i \in 1..Len(rows) : rows'[i] = rows[i] /\ failed'[i] = failed[i]
        /\ rows'[Len(rows) + 1] = row
    BY ObserveAppends, Zenon
  <1>2. failed'[Len(rows) + 1] = bad
    BY ObserveAppends, Zenon
  <1>3. failed'[Len(rows) + 1] => RowTells(row)
    BY <1>2, Zenon
  <1>4. \A i \in 1..Len(rows') : failed'[i] => RowTells(rows'[i])
    <2> SUFFICES ASSUME NEW i \in 1..Len(rows'), failed'[i] PROVE RowTells(rows'[i])
      OBVIOUS
    <2>1. CASE i = Len(rows) + 1
      BY <2>1, <1>1, <1>3
    <2>2. CASE i \in 1..Len(rows)
      BY <2>2, <1>1 DEF RowInv
    <2> QED
      BY <1>1, <2>1, <2>2
  <1>5. NoFailureIsHidden'
    BY <1>1 DEF NoFailureIsHidden, RowInv
  <1> QED
    BY <1>1, <1>4, <1>5 DEF RowInv, RowTells

(* Which row each adapter writes when it fails.                            *)
LEMMA AdaptersPreserve ==
    ASSUME CampaignInv,
           MeasureFeasible \/ MeasureInfeasible \/ MeasureAdversarial \/ MeasureComponent
    PROVE  CampaignInv'
  <1> USE DEF CampaignInv
  <1>1. /\ UNCHANGED trialVars /\ Measuring /\ trial \in {"idle", "returned"}
    BY DEF MeasureFeasible, MeasureInfeasible, MeasureAdversarial, MeasureComponent, Is
  <1>2. verdict = "none" /\ trial' \in {"idle", "returned"}
    BY <1>1 DEF RowInv, trialVars
  <1>3. TrialInv'
    BY <1>1 DEF TrialInv, trialVars, TrialType, ParentFacts, ReportFacts, ReportedOnce,
       WorkerFacts, TrialIsAccounted, Truthful, Taking, Arrived, Collected, Successes, LeftResult
  <1>4. CASE MeasureFeasible
    <2>1. PICK broken \in FeasibleSteps \cup {None} :
             Observe([kind |-> "feasible", completed |-> broken = None,
                      state |-> IF broken = None THEN "COMPLETED" ELSE "FAILED",
                      groups |-> broken = None,
                      class |-> IF broken = None THEN None ELSE "measurement_failure"],
                     ~(broken = None))
      BY <1>4, Zenon DEF MeasureFeasible
    <2> DEFINE row == [kind |-> "feasible", completed |-> broken = None,
                       state |-> IF broken = None THEN "COMPLETED" ELSE "FAILED",
                       groups |-> broken = None,
                       class |-> IF broken = None THEN None ELSE "measurement_failure"]
               bad == ~(broken = None)
    <2>2. Observe(row, bad)
      BY <2>1, Zenon
    <2>3. bad => RowTells(row)
      BY DEF RowTells
    <2> HIDE DEF row, bad
    <2> QED
      BY <1>1, <1>2, <1>3, <2>2, <2>3, ObservePreserves, Zenon
  <1>5. CASE MeasureAdversarial
    <2>1. PICK good \in BOOLEAN : Observe(AdversarialRow(Scheduled.case, good), ~good)
      BY <1>5, Zenon DEF MeasureAdversarial
    <2>2. ~good => RowTells(AdversarialRow(Scheduled.case, good))
      BY DEF RowTells, AdversarialRow
    <2> QED
      BY <1>1, <1>2, <1>3, <2>1, <2>2, ObservePreserves, Zenon
  <1>6. CASE MeasureComponent
    <2>1. PICK records \in BOOLEAN, raised \in BOOLEAN :
             Observe(ComponentRow(records, raised), raised \/ ~records)
      BY <1>6, Zenon DEF MeasureComponent
    <2>2. raised \/ ~records => RowTells(ComponentRow(records, raised))
      BY CampaignAssumption DEF RowTells, ComponentRow
    <2> QED
      BY <1>1, <1>2, <1>3, <2>1, <2>2, ObservePreserves, Zenon
  <1>7. CASE MeasureInfeasible
    <2> DEFINE name == Scheduled.scenario
               all == CC!ConstraintsFor(Conflicts[name])
               row(good, category) ==
                   [kind |-> "infeasible", scenario |-> name, completed |-> good,
                    state |-> "ABORTED", tls |-> FALSE, task |-> FALSE, fallback |-> FALSE,
                    category |-> IF good THEN category ELSE None,
                    class |-> IF good THEN None ELSE "measurement_failure"]
    <2>1. PICK ius, open, raised :
             LET chain == InfeasibleChain(name, ius)
                 good == ~raised /\ ChainHolds(chain, all, open) IN
             Observe(row(good, chain.certificate.payload.category), ~good)
      BY <1>7, Zenon DEF MeasureInfeasible
    <2> DEFINE good == ~raised /\ ChainHolds(InfeasibleChain(name, ius), all, open)
               category == InfeasibleChain(name, ius).certificate.payload.category
               bad == ~good
    <2>2. Observe(row(good, category), bad)
      BY <2>1, Zenon
    <2>3. bad => RowTells(row(good, category))
      <3> HIDE DEF good, category
      <3> QED
        BY DEF RowTells
    <2> HIDE DEF row, good, bad, category
    <2> QED
      BY <1>1, <1>2, <1>3, <2>2, <2>3, ObservePreserves, Zenon
  <1> QED
    BY <1>4, <1>5, <1>6, <1>7

(* A trial is begun, goes on, and ends with its row.                       *)
LEMMA TrialStepsPreserve ==
    ASSUME CampaignInv, MeasureConcurrency \/ TrialStep PROVE CampaignInv'
  <1> USE DEF CampaignInv
  <1>1. CASE MeasureConcurrency
    <2>1. Measuring /\ Scheduled.kind = "concurrency" /\ BeginTrial(Scheduled.level)
          /\ UNCHANGED measureVars
      BY <1>1 DEF MeasureConcurrency, Is
    <2>2. Scheduled.level \in Workers
      <3>1. Len(schedule) \in Nat /\ DOMAIN schedule = 1..Len(schedule) /\ Len(rows) \in Nat
        BY CampaignAssumption DEF RowInv, Listed
      <3>2. Len(rows) + 1 \in DOMAIN schedule
        BY <2>1, <3>1 DEF Measuring
      <3> QED
        BY <2>1, <3>2, CampaignAssumption DEF Scheduled, RowInv
    <2>3. TrialInv'
      BY <2>1, <2>2, BeginTrialPreserves
    <2>4. verdict = "none"
      BY <2>1 DEF RowInv
    <2>5. NoFailureIsHidden'
      BY <2>1, Zenon DEF RowInv, measureVars, NoFailureIsHidden
    <2> QED
      BY <2>1, <2>3, <2>4, <2>5 DEF RowInv, measureVars, Measuring, RowTells
  <1>2. CASE TrialStep /\ trial' = "returned" /\ trial = "account"
    <2> DEFINE row == TrialRow(results')
               bad == \E w \in Taking : session[w] # "completed"
    <2>1. TrialNext /\ Observe(row, bad)
      BY <1>2 DEF TrialStep
    <2>2. TrialInv'
      BY <2>1, TrialNextPreserves
    <2>3. Measuring /\ verdict = "none" /\ trial' \in {"idle", "returned"}
      BY <1>2 DEF RowInv
    <2>4. bad => RowTells(row)
      <3> SUFFICES ASSUME bad PROVE RowTells(row)
        OBVIOUS
      <3>1. Cardinality(Successes) # level
        BY <1>2, FullTrial
      <3> QED
        BY <3>1, TrialAssumption DEF TrialRow, RowTells
    <2> HIDE DEF row, bad
    <2> QED
      BY <2>1, <2>2, <2>3, <2>4, ObservePreserves, Zenon
  <1>3. CASE TrialStep /\ ~(trial' = "returned" /\ trial = "account")
    <2>1. TrialNext /\ UNCHANGED measureVars
      BY <1>3 DEF TrialStep
    <2>2. TrialInv'
      BY <2>1, TrialNextPreserves
    <2>3. trial' \notin {"idle", "returned"} => trial \notin {"idle", "returned"}
      <3>1. ASSUME NEW w \in Workers,
                   Arrive(w) \/ Pass(w) \/ Put(w) \/ Exit(w) \/ Die(w) \/ Release(w)
            PROVE  trial' = trial
        BY <3>1 DEF Arrive, Pass, Put, Exit, Die, Release
      <3>2. ASSUME NEW r \in underway, Deliver(r) PROVE trial' = trial
        BY <3>2 DEF Deliver
      <3>3. ASSUME StartProcess \/ Deadline \/ Join \/ Terminate \/ Drain \/ Drained \/ Account
            PROVE  trial \notin {"idle", "returned"}
        BY <3>3 DEF StartProcess, Deadline, Join, Terminate, Drain, Drained, Account
      <3> QED
        BY <2>1, <3>1, <3>2, <3>3 DEF TrialNext
    <2>4. NoFailureIsHidden'
      BY <2>1, Zenon DEF RowInv, measureVars, NoFailureIsHidden
    <2> QED
      BY <2>1, <2>2, <2>3, <2>4 DEF RowInv, measureVars, Measuring, RowTells
  <1> QED
    BY <1>1, <1>2, <1>3

(* The validator refuses a run in which a row tells of a failure that is   *)
(* not for the inventory; the inventory has the others.                    *)
LEMMA ValidationPreserves ==
    ASSUME CampaignInv, ValidateRun \/ Analyze PROVE CampaignInv'
  <1> USE DEF CampaignInv
  <1>1. UNCHANGED <<trialVars, schedule, rows, failed>>
    BY DEF ValidateRun, Analyze
  <1>2. TrialInv'
    BY <1>1 DEF TrialInv, trialVars, TrialType, ParentFacts, ReportFacts, ReportedOnce,
       WorkerFacts, TrialIsAccounted, Truthful, Taking, Arrived, Collected, Successes, LeftResult
  <1>3. /\ DOMAIN rows = 1..Len(rows) /\ Len(rows) \in Nat
        /\ \A i \in DOMAIN rows : failed[i] => RowTells(rows[i])
    BY DEF RowInv, Listed
  <1>4. CASE ValidateRun
    <2>1. /\ ~Measuring /\ verdict = "none" /\ trial \in {"idle", "returned"}
          /\ inventory' = inventory /\ inventory = None
      BY <1>4 DEF ValidateRun, RowInv
    <2>2. verdict' = "valid" =>
             /\ ~CategoryMissing
             /\ FeasibleErrors = {} /\ AdversarialErrors = {}
      BY <1>4 DEF ValidateRun
    <2>3. ASSUME verdict' = "valid", NEW i \in DOMAIN rows, failed[i]
          PROVE  rows[i].kind \in {"concurrency", "component"}
      <3>1. RowTells(rows[i])
        BY <2>3, <1>3
      <3>2. ~(rows[i].kind = "feasible" /\ ~rows[i].completed)
        BY <2>2, <2>3 DEF FeasibleErrors, Of
      <3>3. ~(rows[i].kind = "infeasible" /\ rows[i].category = None)
        BY <2>2, <2>3 DEF CategoryMissing, Of
      <3>4. ~(rows[i].kind = "adversarial" /\ ~rows[i].rejected)
        BY <2>2, <2>3 DEF AdversarialErrors, Of
      <3> QED
        BY <3>1, <3>2, <3>3, <3>4 DEF RowTells
    <2>4. NoFailureIsHidden'
      BY <1>1, <2>1, <2>3, Zenon DEF NoFailureIsHidden
    <2> QED
      BY <1>1, <1>2, <2>1, <2>4 DEF RowInv, Measuring, RowTells, trialVars
  <1>5. CASE Analyze
    <2>1. /\ verdict = "valid" /\ verdict' = verdict
          /\ inventory' = {i \in DOMAIN rows : rows[i].class # None \/ FailedSessions(rows[i]) # 0}
      BY <1>5 DEF Analyze
    <2>2. ASSUME NEW i \in DOMAIN rows, failed[i] PROVE i \in inventory'
      <3>1. RowTells(rows[i])
        BY <2>2, <1>3
      <3>2. rows[i].kind \in {"concurrency", "component"}
        BY <2>1, <2>2 DEF RowInv, NoFailureIsHidden
      <3>3. rows[i].class # None
        BY <3>1, <3>2 DEF RowTells
      <3> QED
        BY <3>3, <2>1
    <2>3. \A i \in DOMAIN rows : failed[i] => rows[i].kind \in {"concurrency", "component"}
      BY <2>1, Zenon DEF RowInv, NoFailureIsHidden
    <2>4. NoFailureIsHidden'
      BY <1>1, <2>2, <2>3, Zenon DEF NoFailureIsHidden
    <2> QED
      BY <1>1, <1>2, <2>1, <2>4 DEF RowInv, Measuring, RowTells, trialVars
  <1> QED
    BY <1>4, <1>5

(* The invariant of a campaign holds in every state it reaches.            *)
THEOREM AlwaysCampaignInv == MeasureSpec => []CampaignInv
  <1>1. MeasureInit => CampaignInv
    <2> SUFFICES ASSUME MeasureInit PROVE CampaignInv
      OBVIOUS
    <2>1. TrialInv
      BY TrialInitEstablishes DEF MeasureInit
    <2>2. RowInv
      BY DEF MeasureInit, TrialInit, RowInv, Listed, NoFailureIsHidden
    <2> QED
      BY <2>1, <2>2 DEF CampaignInv
  <1>2. CampaignInv /\ [MeasureNext]_campaignVars => CampaignInv'
    <2> SUFFICES ASSUME CampaignInv, [MeasureNext]_campaignVars PROVE CampaignInv'
      OBVIOUS
    <2>1. CASE UNCHANGED campaignVars
      BY <2>1 DEF campaignVars, measureVars, trialVars, CampaignInv, RowInv, NoFailureIsHidden,
         Measuring, RowTells, TrialInv, TrialType, ParentFacts, ReportFacts, ReportedOnce,
         WorkerFacts, TrialIsAccounted, Truthful, Taking, Arrived, Collected, Successes, LeftResult
    <2> QED
      BY <2>1, AdaptersPreserve, TrialStepsPreserve, ValidationPreserves DEF MeasureNext
  <1> QED
    BY <1>1, <1>2, PTL DEF MeasureSpec

(* measure_concurrency: every process of a trial is accounted for once,    *)
(* and no success is counted for a session that did not complete, however  *)
(* many workers there are and whenever they die or are terminated.         *)
THEOREM TrialsAreAccounted == MeasureSpec => []TrialIsAccounted
  <1>1. CampaignInv => TrialIsAccounted
    BY DEF CampaignInv, TrialInv
  <1> QED
    BY <1>1, AlwaysCampaignInv, PTL

(* validate_run and analyze_inventory: what failed while a campaign was    *)
(* measured either keeps the run from being valid or is in its inventory.  *)
THEOREM NoFailureIsEverHidden == MeasureSpec => []NoFailureIsHidden
  <1>1. CampaignInv => NoFailureIsHidden
    BY DEF CampaignInv, RowInv
  <1> QED
    BY <1>1, AlwaysCampaignInv, PTL
=============================================================================
