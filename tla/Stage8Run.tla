----------------------------- MODULE Stage8Run ------------------------------
(***************************************************************************)
(* One Stage 8 run directory (campaigns/stage8.py): the runner processes   *)
(* that create it, append a row per scheduled observation and finalize it, *)
(* at the granularity of the files they touch, with the process dying      *)
(* between any two of those steps and being started again, as a fresh run  *)
(* or as a resume.                                                         *)
(*                                                                         *)
(* The registration is taken to be unchanged (see Stage8Registration).  A  *)
(* start that fails its environment, commit or configuration checks, and a *)
(* measurement that raises, end the process without touching a file: to    *)
(* the directory they are crashes.                                         *)
(***************************************************************************)
EXTENDS Naturals, Sequences, FiniteSets, Functions

CONSTANTS
    Runners,      \* processes that may work on the directory at one time
    Schedule,     \* the registered observations, in order
    KindOf,       \* observation -> its kind, which names the raw file
    MayFail,      \* observations whose measurement may yield a failure row
    CrashPoints,  \* the steps at which a process may die
    TornWrites,   \* whether a death may leave part of a write behind
    MaxCrashes,   \* bound on the number of deaths
    Absent, Empty, Torn

Observations == Range(Schedule)

(* The steps of run_campaign.  Creating the directory is not atomic:       *)
Creating == {"manifest", "environment", "design", "schedule", "firstIndex"}
Measuring == {"warmup", "load", "measure", "check", "write", "index"}
Finalizing == {"validate", "rawOpen", "rawWrite", "fileManifest", "intOpen",
               "intWrite", "markTmp", "markReplace"}
Steps == {"prepare"} \cup Creating \cup Measuring \cup Finalizing

ASSUME ScheduleAssumption ==
    /\ Schedule \in Seq(Observations)
    /\ \A i, j \in 1..Len(Schedule) : Schedule[i] = Schedule[j] => i = j
    /\ DOMAIN KindOf = Observations
    /\ MayFail \subseteq Observations
    /\ CrashPoints \subseteq Steps
    /\ TornWrites \in BOOLEAN
    /\ MaxCrashes \in Nat

VARIABLES
    dir,      \* the run directory
    proc,     \* runner -> its process
    crashes,  \* number of deaths so far
    derived   \* the rows the derived inventory was made from, or Absent

vars == <<dir, proc, crashes, derived>>

Rows == [id : Observations, ok : BOOLEAN]

(* The run directory.  "rows" are the rows appended to the five raw files, *)
(* "unended" the observations whose row is the last of its file and lacks  *)
(* its newline, which json.loads does not mind, "glued" those whose row    *)
(* shares its line with another, which it rejects as it does part of a row *)
(* ("torn").  A checksum file is Absent, Empty (opened, not yet written:   *)
(* it lists nothing, so it verifies, as do the first few of its lines),    *)
(* Torn (it ends in part of a line), or what it attests.                   *)
NewDir ==
    [files |-> {}, warm |-> FALSE, rows |-> <<>>, unended |-> {}, glued |-> {},
     torn |-> FALSE, index |-> {},
     rawSums |-> Absent, fileManifest |-> Absent, intSums |-> Absent,
     tmp |-> FALSE, complete |-> FALSE]

NewProc == [pc |-> "down", resume |-> FALSE, done |-> {}, pos |-> 1,
            row |-> Absent, image |-> Absent]

Ids(rows) == {rows[i].id : i \in 1..Len(rows)}

(* completed_observation_ids returns rather than raises.                   *)
Readable(d) == ~d.torn /\ d.glued = {} /\ Cardinality(Ids(d.rows)) = Len(d.rows)

(* What raw/checksums.sha256 and integrity/file_manifest.json attest.      *)
RawImage(d) == [rows |-> d.rows, unended |-> d.unended, glued |-> d.glued,
                torn |-> d.torn, index |-> d.index]
Listing(d) == [raw |-> RawImage(d), rawSums |-> d.rawSums, files |-> d.files,
               warm |-> d.warm, tmp |-> d.tmp]

(* verify_checksums, on a checksum file that exists.                       *)
Verifies(sums, image) == sums = Empty \/ sums = image

(* Mutant: the count of rows is compared, not which observations they are  *)
(* or how they ended.                                                      *)
ValidCountOnly(d) ==
    /\ {"design", "schedule"} \subseteq d.files
    /\ Readable(d)
    /\ Len(d.rows) = Len(Schedule)
    /\ d.rawSums = Absent \/ Verifies(d.rawSums, RawImage(d))
    /\ d.intSums = Absent \/ Verifies(d.intSums, d.fileManifest)

(* Mutant: missing observations are not an error.                          *)
ValidThoughMissing(d) ==
    /\ {"design", "schedule"} \subseteq d.files
    /\ Readable(d)
    /\ \A i \in 1..Len(d.rows) : d.rows[i].ok
    /\ d.rawSums = Absent \/ Verifies(d.rawSums, RawImage(d))
    /\ d.intSums = Absent \/ Verifies(d.intSums, d.fileManifest)

(* validate_run: every scheduled observation has exactly one row, each     *)
(* passes the check of its kind, and the checksums that exist verify.      *)
Valid(d) ==
    /\ {"design", "schedule"} \subseteq d.files
    /\ Readable(d)
    /\ Ids(d.rows) = Observations
    /\ \A i \in 1..Len(d.rows) : d.rows[i].ok
    /\ d.rawSums = Absent \/ Verifies(d.rawSums, RawImage(d))
    /\ d.intSums = Absent \/ Verifies(d.intSums, d.fileManifest)

Init ==
    /\ dir = NewDir
    /\ proc = [r \in Runners |-> NewProc]
    /\ crashes = 0
    /\ derived = Absent

-----------------------------------------------------------------------------

At(r, step) == proc[r].pc = step
Goto(r, step) == proc' = [proc EXCEPT ![r].pc = step]
Exit(r) == proc' = [proc EXCEPT ![r] = NewProc]

(* run_stage8_campaign.py (resume = FALSE) or resume_stage8_campaign.py.   *)
Start(r, resume) ==
    /\ At(r, "down")
    /\ proc' = [proc EXCEPT ![r].pc = "prepare", ![r].resume = resume]
    /\ UNCHANGED <<dir, crashes, derived>>

(* Mutant: a complete run may be entered again.                            *)
PrepareAnyRun(r) ==
    /\ At(r, "prepare")
    /\ \/ dir.files = {} /\ dir' = [dir EXCEPT !.files = {"dir"}] /\ Goto(r, "manifest")
       \/ "manifest" \in dir.files /\ Goto(r, "warmup") /\ UNCHANGED dir
       \/ dir.files = {"dir"} /\ Exit(r) /\ UNCHANGED dir
    /\ UNCHANGED <<crashes, derived>>

(* prepare_run_dir up to the choice between a new directory and an old     *)
(* one; the latter must have a manifest.                                   *)
Prepare(r) ==
    /\ At(r, "prepare")
    /\ \/ /\ dir.files = {}
          /\ dir' = [dir EXCEPT !.files = {"dir"}]
          /\ Goto(r, "manifest")
       \/ /\ ~dir.complete /\ "manifest" \in dir.files
          /\ Goto(r, "warmup")
          /\ UNCHANGED dir
       \/ /\ dir.complete \/ dir.files = {"dir"}
          /\ Exit(r)
          /\ UNCHANGED dir
    /\ UNCHANGED <<crashes, derived>>

(* The files of a new directory, each written by an atomic write_json.     *)
CreateFile(r, file, next) ==
    /\ At(r, file)
    /\ dir' = [dir EXCEPT !.files = @ \cup {file}]
    /\ Goto(r, next)
    /\ UNCHANGED <<crashes, derived>>

Create(r) ==
    \/ CreateFile(r, "manifest", "environment")
    \/ CreateFile(r, "environment", "design")
    \/ CreateFile(r, "design", "schedule")
    \/ CreateFile(r, "schedule", "firstIndex")
    \/ CreateFile(r, "firstIndex", "warmup")

(* _ensure_warmups: the manifest is rewritten once the warm-up is done.    *)
Warmup(r) ==
    /\ At(r, "warmup")
    /\ dir' = [dir EXCEPT !.warm = TRUE]
    /\ Goto(r, "load")
    /\ UNCHANGED <<crashes, derived>>

(* Mutant: a resume does not read what is already there.                   *)
LoadNothing(r) ==
    /\ At(r, "load")
    /\ proc' = [proc EXCEPT ![r].pc = "measure"]
    /\ UNCHANGED <<dir, crashes, derived>>

(* done = completed_observation_ids(run_dir) if resume else set()          *)
Load(r) ==
    /\ At(r, "load")
    /\ IF proc[r].resume /\ ~Readable(dir)
       THEN Exit(r)
       ELSE proc' = [proc EXCEPT ![r].pc = "measure",
                                 ![r].done = IF proc[r].resume THEN Ids(dir.rows) ELSE {}]
    /\ UNCHANGED <<dir, crashes, derived>>

(* The loop of run_campaign over the schedule.                             *)
Measure(r) ==
    LET p == proc[r] IN
    /\ At(r, "measure")
    /\ \/ /\ p.pos > Len(Schedule)
          /\ Goto(r, "validate")
       \/ /\ p.pos <= Len(Schedule)
          /\ Schedule[p.pos] \in p.done
          /\ proc' = [proc EXCEPT ![r].pos = @ + 1]
       \/ /\ p.pos <= Len(Schedule)
          /\ Schedule[p.pos] \notin p.done
          /\ \E ok \in {TRUE} \cup (IF Schedule[p.pos] \in MayFail THEN {FALSE} ELSE {}) :
                proc' = [proc EXCEPT ![r].pc = "check",
                                     ![r].row = [id |-> Schedule[p.pos], ok |-> ok]]
    /\ UNCHANGED <<dir, crashes, derived>>

(* append_observation: "refusing to rewrite completed observation".        *)
CheckRow(r) ==
    /\ At(r, "check")
    /\ IF Readable(dir) /\ proc[r].row.id \notin Ids(dir.rows)
       THEN Goto(r, "write")
       ELSE Exit(r)
    /\ UNCHANGED <<dir, crashes, derived>>

(* A row is written behind whatever its file ends in.                      *)
SameLine(d, row) == {o \in d.unended : KindOf[o] = KindOf[row.id]}
AppendTo(d, row) ==
    [d EXCEPT !.rows    = Append(@, row),
              !.unended = @ \ SameLine(d, row),
              !.glued   = @ \cup IF SameLine(d, row) = {} THEN {}
                                 ELSE SameLine(d, row) \cup {row.id}]

WriteRow(r) ==
    /\ At(r, "write")
    /\ dir' = AppendTo(dir, proc[r].row)
    /\ Goto(r, "index")
    /\ UNCHANGED <<crashes, derived>>

(* _write_completed_index and the progress snapshot; both read the rows    *)
(* again and raise if they cannot.                                         *)
WriteIndex(r) ==
    /\ At(r, "index")
    /\ IF Readable(dir)
       THEN /\ dir' = [dir EXCEPT !.index = Ids(dir.rows)]
            /\ proc' = [proc EXCEPT ![r].pc = "measure", ![r].pos = @ + 1]
       ELSE Exit(r) /\ UNCHANGED dir
    /\ UNCHANGED <<crashes, derived>>

(* finalize_run *)
Validate(r) ==
    /\ At(r, "validate")
    /\ IF Valid(dir) THEN Goto(r, "rawOpen") ELSE Exit(r)
    /\ UNCHANGED <<dir, crashes, derived>>

(* write_checksums hashes the files, opens the checksum file (truncating   *)
(* it) and writes; finalize_run then verifies what it wrote.               *)
OpenRawSums(r) ==
    /\ At(r, "rawOpen")
    /\ dir' = [dir EXCEPT !.rawSums = Empty]
    /\ proc' = [proc EXCEPT ![r].pc = "rawWrite", ![r].image = RawImage(dir)]
    /\ UNCHANGED <<crashes, derived>>

WriteRawSums(r) ==
    /\ At(r, "rawWrite")
    /\ dir' = [dir EXCEPT !.rawSums = proc[r].image]
    /\ IF proc[r].image = RawImage(dir) THEN Goto(r, "fileManifest") ELSE Exit(r)
    /\ UNCHANGED <<crashes, derived>>

(* write_file_manifest: every file outside integrity/, whatever it is.     *)
WriteFileManifest(r) ==
    /\ At(r, "fileManifest")
    /\ dir' = [dir EXCEPT !.fileManifest = Listing(dir)]
    /\ Goto(r, "intOpen")
    /\ UNCHANGED <<crashes, derived>>

OpenIntSums(r) ==
    /\ At(r, "intOpen")
    /\ dir' = [dir EXCEPT !.intSums = Empty]
    /\ proc' = [proc EXCEPT ![r].pc = "intWrite", ![r].image = dir.fileManifest]
    /\ UNCHANGED <<crashes, derived>>

WriteIntSums(r) ==
    /\ At(r, "intWrite")
    /\ dir' = [dir EXCEPT !.intSums = proc[r].image]
    /\ IF proc[r].image = dir.fileManifest THEN Goto(r, "markTmp") ELSE Exit(r)
    /\ UNCHANGED <<crashes, derived>>

WriteMarkTmp(r) ==
    /\ At(r, "markTmp")
    /\ dir' = [dir EXCEPT !.tmp = TRUE]
    /\ Goto(r, "markReplace")
    /\ UNCHANGED <<crashes, derived>>

(* os.replace(.RUN_COMPLETE.tmp, RUN_COMPLETE); it raises when another     *)
(* process has taken the temporary file away.                              *)
ReplaceMark(r) ==
    /\ At(r, "markReplace")
    /\ dir' = IF dir.tmp THEN [dir EXCEPT !.tmp = FALSE, !.complete = TRUE] ELSE dir
    /\ Exit(r)
    /\ UNCHANGED <<crashes, derived>>

Step(r) ==
    \/ Prepare(r) \/ Create(r)
    \/ Warmup(r) \/ Load(r) \/ Measure(r)
    \/ CheckRow(r) \/ WriteRow(r) \/ WriteIndex(r)
    \/ Validate(r) \/ OpenRawSums(r) \/ WriteRawSums(r)
    \/ WriteFileManifest(r) \/ OpenIntSums(r) \/ WriteIntSums(r)
    \/ WriteMarkTmp(r) \/ ReplaceMark(r)

(* What a death in the middle of a write that is not atomic leaves: of a   *)
(* row either part of it or all but its newline.                           *)
Interrupted(p, d) ==
    {[d EXCEPT !.rawSums = IF p.pc = "rawWrite" THEN Torn ELSE @,
               !.intSums = IF p.pc = "intWrite" THEN Torn ELSE @]}
    \cup IF p.pc # "write" THEN {}
         ELSE {[d EXCEPT !.torn    = TRUE,
                         !.unended = @ \ SameLine(d, p.row),
                         !.glued   = @ \cup SameLine(d, p.row)],
               [AppendTo(d, p.row) EXCEPT !.unended = @ \cup {p.row.id}]}

Crash(r) ==
    /\ proc[r].pc \in CrashPoints
    /\ crashes < MaxCrashes
    /\ crashes' = crashes + 1
    /\ dir' \in {dir} \cup (IF TornWrites THEN Interrupted(proc[r], dir) ELSE {})
    /\ Exit(r)
    /\ UNCHANGED derived

(* analyze_stage8_inventory.py: validates, then derives.                   *)
Analyze ==
    /\ Valid(dir)
    /\ "environment" \in dir.files
    /\ derived' = dir.rows
    /\ UNCHANGED <<dir, proc, crashes>>

Next ==
    \/ \E r \in Runners :
           \/ \E resume \in BOOLEAN : Start(r, resume)
           \/ Step(r)
           \/ Crash(r)
    \/ Analyze

Spec == Init /\ [][Next]_vars

(* A process that is alive goes on, and the operator resumes an            *)
(* interrupted run sooner or later (the documented command), however often *)
(* somebody starts it afresh instead.                                      *)
Fairness ==
    \A r \in Runners : WF_vars(Step(r)) /\ SF_vars(Start(r, TRUE))

FairSpec == Spec /\ Fairness

-----------------------------------------------------------------------------

(* RUN_COMPLETE says what it says: every scheduled observation has exactly *)
(* one good row, and both checksum files and the file manifest attest the  *)
(* rows as they are now, whatever deaths and resumes came before.          *)
CompleteIsSound ==
    dir.complete =>
        /\ Readable(dir)
        /\ Ids(dir.rows) = Observations
        /\ \A i \in 1..Len(dir.rows) : dir.rows[i].ok
        /\ dir.rawSums = RawImage(dir)
        /\ dir.fileManifest.raw = RawImage(dir)
        /\ dir.intSums = dir.fileManifest

(* "Completed observation IDs are never rewritten": no step changes or     *)
(* drops a row, no observation gets a second one, and a directory with     *)
(* RUN_COMPLETE is left alone by every later run, resume or death.  A row  *)
(* can become illegible in one way only, by a death that took its newline  *)
(* and the next row of its kind, and then the raw files stay as they are.  *)
NothingIsRewritten ==
    [][/\ Len(dir.rows) <= Len(dir'.rows)
       /\ \A i \in 1..Len(dir.rows) : dir'.rows[i] = dir.rows[i]
       /\ Cardinality(Ids(dir'.rows)) = Len(dir'.rows)
       /\ (dir'.glued \ dir.glued) \cap Ids(dir.rows) \subseteq dir.unended
       /\ ~Readable(dir) => RawImage(dir') = RawImage(dir)
       /\ dir.complete => UNCHANGED dir]_vars

(* Derived artifacts are never overtaken by the raw data they were made    *)
(* from.                                                                   *)
DerivedIsCurrent == derived # Absent => derived = dir.rows

(* Deaths that leave a directory no resume can complete are those while it *)
(* is being created (its manifest, design or schedule is missing), in the  *)
(* middle of a row, before the newline of a row that is not the last of    *)
(* its kind, and between a file manifest and its checksums.                *)
Intact ==
    /\ {"manifest", "design", "schedule"} \subseteq dir.files
    /\ Readable(dir)
    /\ \A i \in 1..Len(dir.rows) : dir.rows[i].ok
    /\ dir.rawSums = Absent \/ Verifies(dir.rawSums, RawImage(dir))
    /\ dir.intSums = Absent \/ Verifies(dir.intSums, dir.fileManifest)

(* Wherever the process dies, a run that is resumed is completed unless    *)
(* the directory has been left in one of those states.                     *)
IntactIsCompleted == []<>Intact => <>dir.complete
=============================================================================
