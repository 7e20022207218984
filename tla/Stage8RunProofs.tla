-------------------------- MODULE Stage8RunProofs ---------------------------
(***************************************************************************)
(* What a Stage 8 run directory guarantees when one runner at a time works *)
(* on it, for every schedule and any number of deaths, restarts and torn   *)
(* writes.                                                                 *)
(*                                                                         *)
(* CompleteIsSound is not inductive: os.replace of RUN_COMPLETE looks at   *)
(* nothing, so that the rows, the checksums and the manifest under it are  *)
(* the validated ones must be carried from validate_run through the whole  *)
(* of finalize_run (FinalizeFacts); that nothing is written after it needs *)
(* that no process is past prepare_run_dir then (Opened), and that derived *)
(* data stay current needs that a directory that validates has no          *)
(* observation left to write (DerivedIsFull).  A second runner breaks each *)
(* of them, so the theorems are about one: OneRunner.                      *)
(***************************************************************************)
EXTENDS Stage8Run, SequenceTheorems, FiniteSetTheorems, TLAPS

(* At most one process on the directory at any time (any number one after  *)
(* the other).                                                             *)
OneRunner == \A q, r \in Runners : q = r

FileNames == {"dir"} \cup Creating
RawImages == [rows : Seq(Rows), unended : SUBSET Observations,
              glued : SUBSET Observations, torn : BOOLEAN, index : SUBSET Observations]
RawSums   == {Absent, Empty, Torn} \cup RawImages
Listings  == [raw : RawImages, rawSums : RawSums, files : SUBSET FileNames,
              warm : BOOLEAN, tmp : BOOLEAN]
IntSums   == {Absent, Empty, Torn} \cup Listings

Dirs ==
    [files : SUBSET FileNames, warm : BOOLEAN, rows : Seq(Rows),
     unended : SUBSET Observations, glued : SUBSET Observations,
     torn : BOOLEAN, index : SUBSET Observations, rawSums : RawSums,
     fileManifest : {Absent} \cup Listings, intSums : IntSums,
     tmp : BOOLEAN, complete : BOOLEAN]

Procs ==
    [pc : Steps \cup {"down"}, resume : BOOLEAN, done : SUBSET Observations,
     pos : Nat \ {0}, row : {Absent} \cup Rows, image : RawSums \cup IntSums]

TypeOK ==
    /\ dir \in Dirs
    /\ proc \in [Runners -> Procs]

(* No observation has two rows.                                            *)
NoTwice(d) ==
    /\ IsFiniteSet(Ids(d.rows))
    /\ Cardinality(Ids(d.rows)) = Len(d.rows)

(* What validate_run found in the raw files.                               *)
RowsAreGood(d) ==
    /\ ~d.torn /\ d.glued = {}
    /\ Ids(d.rows) = Observations
    /\ \A i \in 1..Len(d.rows) : d.rows[i].ok

(* A row about to be written is of an observation that has none, and goes  *)
(* to raw files that can be read.                                          *)
RowIsNew(p, d) ==
    /\ p.pc \in {"check", "write"} => p.row \in Rows
    /\ p.pc = "write" => p.row.id \notin Ids(d.rows) /\ Readable(d)

(* What is true of the directory at each step of finalize_run.             *)
FinalizeFacts(p, d) ==
    /\ p.pc \in Finalizing \ {"validate"} => RowsAreGood(d)
    /\ p.pc = "rawWrite" => p.image = RawImage(d)
    /\ p.pc \in {"fileManifest", "intOpen", "intWrite", "markTmp", "markReplace"}
          => d.rawSums = RawImage(d)
    /\ p.pc \in {"intOpen", "intWrite", "markTmp", "markReplace"}
          => d.fileManifest.raw = RawImage(d)
    /\ p.pc = "intWrite" => p.image = d.fileManifest
    /\ p.pc \in {"markTmp", "markReplace"} => d.intSums = d.fileManifest

(* A complete directory has its files, all of its rows and checksums.      *)
CompleteFacts(d) ==
    d.complete => /\ RowsAreGood(d)
                  /\ d.files # {}
                  /\ d.rawSums = RawImage(d)
                  /\ d.fileManifest.raw = RawImage(d)
                  /\ d.intSums = d.fileManifest

(* A process past prepare_run_dir works on a directory that exists and is  *)
(* not complete.                                                           *)
Opened(p, d) == p.pc \notin {"down", "prepare"} => d.files # {} /\ ~d.complete

DirFacts == NoTwice(dir) /\ CompleteFacts(dir)

ProcFacts ==
    \A r \in Runners : /\ RowIsNew(proc[r], dir)
                       /\ FinalizeFacts(proc[r], dir)
                       /\ Opened(proc[r], dir)

(* Data are derived from directories with a row for every observation.     *)
DerivedIsFull ==
    derived # Absent => derived = dir.rows /\ Ids(dir.rows) = Observations

IndInv == TypeOK /\ DirFacts /\ ProcFacts /\ DerivedIsFull

-----------------------------------------------------------------------------

(* The checksums and the file manifest attest values of their own type.    *)
LEMMA ImageTypes ==
    ASSUME NEW d \in Dirs
    PROVE  /\ RawImage(d) \in RawImages /\ RawImage(d) \in RawSums
           /\ Listing(d) \in Listings /\ Listing(d).raw = RawImage(d)
  <1>1. RawImage(d) \in RawImages
    BY DEF RawImage, RawImages, Dirs
  <1>2. RawImage(d) \in RawSums
    BY <1>1 DEF RawSums
  <1> QED BY <1>1, <1>2 DEF Listing, Listings, Dirs

(* A step of one process: where it goes, and that its row and its image    *)
(* stay; and the end of a process.                                         *)
LEMMA GotoFacts ==
    ASSUME TypeOK, NEW r \in Runners, NEW step \in Steps, Goto(r, step)
    PROVE  /\ proc' \in [Runners -> Procs]
           /\ proc'[r].pc = step
           /\ proc'[r].row = proc[r].row
           /\ proc'[r].image = proc[r].image
  BY DEF TypeOK, Goto, Procs

LEMMA ExitFacts ==
    ASSUME TypeOK, NEW r \in Runners, Exit(r)
    PROVE  proc' \in [Runners -> Procs] /\ proc'[r].pc = "down"
  BY DEF TypeOK, Exit, Procs, NewProc, RawSums

(* Nothing is claimed of a process that is down or in prepare_run_dir.     *)
LEMMA DownFacts ==
    ASSUME NEW p, NEW d, p.pc \in {"down", "prepare"}
    PROVE  RowIsNew(p, d) /\ FinalizeFacts(p, d) /\ Opened(p, d)
  BY DEF RowIsNew, FinalizeFacts, Opened, Finalizing

(* Of one that is creating the directory or measuring, only that the       *)
(* directory is there and not complete.                                    *)
LEMMA OpenFacts ==
    ASSUME NEW p, NEW d, d.files # {}, ~d.complete,
           p.pc \in Creating \cup {"warmup", "load", "measure", "index",
                                   "validate"}
    PROVE  RowIsNew(p, d) /\ FinalizeFacts(p, d) /\ Opened(p, d)
  BY DEF RowIsNew, FinalizeFacts, Opened, Finalizing, Creating

(* A step that writes no row preserves the invariant if it leaves the      *)
(* process where the directory satisfies what that step relies on.         *)
LEMMA SameRowsInd ==
    ASSUME OneRunner, IndInv, NEW r \in Runners,
           dir' \in Dirs, dir'.rows = dir.rows, CompleteFacts(dir'),
           derived' = derived, proc' \in [Runners -> Procs],
           RowIsNew(proc'[r], dir'), FinalizeFacts(proc'[r], dir'),
           Opened(proc'[r], dir')
    PROVE  IndInv'
  <1>1. TypeOK'
    BY DEF TypeOK
  <1>2. NoTwice(dir')
    BY DEF IndInv, DirFacts, NoTwice, Ids
  <1>3. DirFacts'
    BY <1>2 DEF DirFacts
  <1>4. \A q \in Runners : q = r
    BY DEF OneRunner
  <1>5. ProcFacts'
    BY <1>4, Zenon DEF ProcFacts
  <1>6. DerivedIsFull'
    BY DEF IndInv, DerivedIsFull, Ids
  <1> QED BY <1>1, <1>3, <1>5, <1>6 DEF IndInv

(* A step of an opened directory that changes nothing in it.               *)
LEMMA QuietInd ==
    ASSUME OneRunner, IndInv, NEW r \in Runners,
           dir' = dir, derived' = derived, proc' \in [Runners -> Procs],
           RowIsNew(proc'[r], dir), FinalizeFacts(proc'[r], dir),
           Opened(proc'[r], dir)
    PROVE  IndInv'
  <1>1. dir' \in Dirs /\ dir'.rows = dir.rows /\ CompleteFacts(dir')
    BY DEF IndInv, TypeOK, DirFacts
  <1>2. /\ RowIsNew(proc'[r], dir') /\ FinalizeFacts(proc'[r], dir')
        /\ Opened(proc'[r], dir')
    OBVIOUS
  <1> QED BY <1>1, <1>2, SameRowsInd

-----------------------------------------------------------------------------

(* No directory, no process and nothing derived: the invariant holds.      *)
LEMMA InitInd == Init => IndInv
  <1> SUFFICES ASSUME Init PROVE IndInv
    OBVIOUS
  <1>1. dir = NewDir /\ proc = [r \in Runners |-> NewProc] /\ derived = Absent
    BY DEF Init
  <1>2. /\ dir.rows = <<>> /\ Len(dir.rows) = 0 /\ dir.complete = FALSE
    BY <1>1 DEF NewDir
  <1>3. dir \in Dirs
    BY <1>1 DEF NewDir, Dirs, RawSums, IntSums
  <1>4. NewProc \in Procs /\ NewProc.pc = "down"
    BY DEF NewProc, Procs, RawSums
  <1>5. TypeOK
    BY <1>1, <1>3, <1>4 DEF TypeOK
  <1>6. NoTwice(dir)
    <2>1. Ids(dir.rows) = {}
      BY <1>2 DEF Ids
    <2> QED BY <1>2, <2>1, FS_EmptySet DEF NoTwice
  <1>7. DirFacts
    BY <1>2, <1>6 DEF DirFacts, CompleteFacts
  <1>8. ProcFacts
    BY <1>1, <1>4, DownFacts DEF ProcFacts
  <1>9. DerivedIsFull
    BY <1>1 DEF DerivedIsFull
  <1> QED BY <1>5, <1>7, <1>8, <1>9 DEF IndInv

LEMMA StutterInd == IndInv /\ UNCHANGED vars => IndInv'
  BY DEF IndInv, vars, TypeOK, DirFacts, ProcFacts, DerivedIsFull, NoTwice,
         CompleteFacts, RowIsNew, FinalizeFacts, Opened, RowsAreGood, Ids,
         RawImage

LEMMA StartInd ==
    ASSUME OneRunner, IndInv, NEW r \in Runners, NEW resume \in BOOLEAN,
           Start(r, resume)
    PROVE  IndInv'
  <1>1. dir' = dir /\ derived' = derived
    BY DEF Start
  <1>2. proc' \in [Runners -> Procs] /\ proc'[r].pc = "prepare"
    BY ZenonT(40) DEF Start, IndInv, TypeOK, Procs, Steps
  <1> QED BY <1>1, <1>2, DownFacts, QuietInd

(* prepare_run_dir makes the directory, opens one that is not complete, or *)
(* refuses.                                                                *)
LEMMA PrepareInd ==
    ASSUME OneRunner, IndInv, NEW r \in Runners, Prepare(r)
    PROVE  IndInv'
  <1>1. derived' = derived
    BY DEF Prepare
  <1>2. CASE /\ dir.files = {} /\ dir' = [dir EXCEPT !.files = {"dir"}]
             /\ Goto(r, "manifest")
    <2>1. /\ dir' \in Dirs /\ dir'.rows = dir.rows /\ dir'.files # {}
          /\ dir'.complete = dir.complete
      BY <1>2 DEF IndInv, TypeOK, Dirs, FileNames
    <2>2. ~dir.complete
      BY <1>2 DEF IndInv, DirFacts, CompleteFacts
    <2>3. proc' \in [Runners -> Procs] /\ proc'[r].pc = "manifest"
      BY <1>2, GotoFacts DEF IndInv, Steps, Creating
    <2>4. CompleteFacts(dir')
      BY <2>1, <2>2 DEF CompleteFacts
    <2>5. /\ RowIsNew(proc'[r], dir') /\ FinalizeFacts(proc'[r], dir')
          /\ Opened(proc'[r], dir')
      BY <2>1, <2>2, <2>3, OpenFacts DEF Creating
    <2> QED BY <1>1, <2>1, <2>3, <2>4, <2>5, SameRowsInd
  <1>3. CASE /\ ~dir.complete /\ "manifest" \in dir.files /\ Goto(r, "warmup")
             /\ dir' = dir
    <2>1. proc' \in [Runners -> Procs] /\ proc'[r].pc = "warmup"
      BY <1>3, GotoFacts DEF IndInv, Steps, Measuring
    <2>2. /\ RowIsNew(proc'[r], dir) /\ FinalizeFacts(proc'[r], dir)
          /\ Opened(proc'[r], dir)
      BY <1>3, <2>1, OpenFacts
    <2> QED BY <1>1, <1>3, <2>1, <2>2, QuietInd
  <1>4. CASE Exit(r) /\ dir' = dir
    <2>1. proc' \in [Runners -> Procs] /\ proc'[r].pc = "down"
      BY <1>4, ExitFacts DEF IndInv
    <2> QED BY <1>1, <1>4, <2>1, DownFacts, QuietInd
  <1> QED BY <1>2, <1>3, <1>4 DEF Prepare

(* The files of a new directory and the warm-up.                           *)
LEMMA CreateFileInd ==
    ASSUME OneRunner, IndInv, NEW r \in Runners, NEW file \in Creating,
           NEW next \in Creating \cup {"warmup"}, CreateFile(r, file, next)
    PROVE  IndInv'
  <1>1. /\ proc[r].pc = file /\ dir' = [dir EXCEPT !.files = @ \cup {file}]
        /\ Goto(r, next) /\ derived' = derived
    BY DEF CreateFile, At
  <1>2. ~dir.complete
    BY <1>1 DEF IndInv, ProcFacts, Opened, Creating
  <1>3. /\ dir' \in Dirs /\ dir'.rows = dir.rows /\ dir'.files # {}
        /\ dir'.complete = dir.complete
    BY <1>1 DEF IndInv, TypeOK, Dirs, FileNames
  <1>4. proc' \in [Runners -> Procs] /\ proc'[r].pc = next
    BY <1>1, GotoFacts DEF IndInv, Steps, Measuring
  <1>5. CompleteFacts(dir')
    BY <1>2, <1>3 DEF CompleteFacts
  <1>6. /\ RowIsNew(proc'[r], dir') /\ FinalizeFacts(proc'[r], dir')
        /\ Opened(proc'[r], dir')
    BY <1>2, <1>3, <1>4, OpenFacts
  <1> QED BY <1>1, <1>3, <1>4, <1>5, <1>6, SameRowsInd

LEMMA CreateInd ==
    ASSUME OneRunner, IndInv, NEW r \in Runners, Create(r)
    PROVE  IndInv'
  BY CreateFileInd DEF Create, Creating

LEMMA WarmupInd ==
    ASSUME OneRunner, IndInv, NEW r \in Runners, Warmup(r)
    PROVE  IndInv'
  <1>1. /\ proc[r].pc = "warmup" /\ dir' = [dir EXCEPT !.warm = TRUE]
        /\ Goto(r, "load") /\ derived' = derived
    BY DEF Warmup, At
  <1>2. ~dir.complete /\ dir.files # {}
    BY <1>1 DEF IndInv, ProcFacts, Opened
  <1>3. /\ dir' \in Dirs /\ dir'.rows = dir.rows /\ dir'.files # {}
        /\ dir'.complete = dir.complete
    BY <1>1, <1>2 DEF IndInv, TypeOK, Dirs
  <1>4. proc' \in [Runners -> Procs] /\ proc'[r].pc = "load"
    BY <1>1, GotoFacts DEF IndInv, Steps, Measuring
  <1>5. CompleteFacts(dir')
    BY <1>2, <1>3 DEF CompleteFacts
  <1>6. /\ RowIsNew(proc'[r], dir') /\ FinalizeFacts(proc'[r], dir')
        /\ Opened(proc'[r], dir')
    BY <1>2, <1>3, <1>4, OpenFacts
  <1> QED BY <1>1, <1>3, <1>4, <1>5, <1>6, SameRowsInd

(* Reading what is done, and the loop over the schedule.                   *)
LEMMA IdsType == ASSUME TypeOK PROVE Ids(dir.rows) \subseteq Observations
  <1>1. dir.rows \in Seq(Rows)
    BY DEF TypeOK, Dirs
  <1>2. \A i \in 1..Len(dir.rows) : dir.rows[i] \in Rows
    BY <1>1
  <1> QED BY <1>2 DEF Ids, Rows

LEMMA LoadInd ==
    ASSUME OneRunner, IndInv, NEW r \in Runners, Load(r)
    PROVE  IndInv'
  <1>1. proc[r].pc = "load" /\ dir' = dir /\ derived' = derived
    BY DEF Load, At
  <1>2. dir.files # {} /\ ~dir.complete
    BY <1>1 DEF IndInv, ProcFacts, Opened
  <1>3. CASE Exit(r)
    <2>1. proc' \in [Runners -> Procs] /\ proc'[r].pc = "down"
      BY <1>3, ExitFacts DEF IndInv
    <2> QED BY <1>1, <2>1, DownFacts, QuietInd
  <1>4. CASE proc' = [proc EXCEPT ![r].pc = "measure",
                                  ![r].done = IF proc[r].resume
                                              THEN Ids(dir.rows) ELSE {}]
    <2>1. proc' \in [Runners -> Procs] /\ proc'[r].pc = "measure"
      <3>1. Ids(dir.rows) \subseteq Observations
        BY IdsType DEF IndInv
      <3> QED BY <1>4, <3>1, ZenonT(40) DEF IndInv, TypeOK, Procs, Steps, Measuring
    <2> QED BY <1>1, <1>2, <2>1, OpenFacts, QuietInd
  <1> QED BY <1>3, <1>4 DEF Load

LEMMA MeasureInd ==
    ASSUME OneRunner, IndInv, NEW r \in Runners, Measure(r)
    PROVE  IndInv'
  <1>1. proc[r].pc = "measure" /\ dir' = dir /\ derived' = derived
    BY DEF Measure, At
  <1>2. dir.files # {} /\ ~dir.complete /\ proc[r].pos \in Nat \ {0}
    BY <1>1 DEF IndInv, ProcFacts, Opened, TypeOK, Procs
  <1>3. CASE Goto(r, "validate")
    <2>1. proc' \in [Runners -> Procs] /\ proc'[r].pc = "validate"
      BY <1>3, GotoFacts DEF IndInv, Steps, Finalizing
    <2> QED BY <1>1, <1>2, <2>1, OpenFacts, QuietInd
  <1>4. CASE proc' = [proc EXCEPT ![r].pos = @ + 1]
    <2>1. proc' \in [Runners -> Procs] /\ proc'[r].pc = "measure"
      BY <1>1, <1>2, <1>4 DEF IndInv, TypeOK, Procs
    <2> QED BY <1>1, <1>2, <2>1, OpenFacts, QuietInd
  <1>5. ASSUME NEW ok \in BOOLEAN, proc[r].pos <= Len(Schedule),
               proc' = [proc EXCEPT ![r].pc = "check",
                          ![r].row = [id |-> Schedule[proc[r].pos], ok |-> ok]]
        PROVE  IndInv'
    <2> DEFINE row == [id |-> Schedule[proc[r].pos], ok |-> ok]
    <2>1. row \in Rows
      BY <1>2, <1>5, ScheduleAssumption DEF Rows, Observations, Range
    <2> HIDE DEF row
    <2>2. /\ proc' \in [Runners -> Procs]
          /\ proc'[r].pc = "check" /\ proc'[r].row = row
      BY <1>5, <2>1, ZenonT(40) DEF IndInv, TypeOK, Procs, Steps, Measuring, row
    <2>3. /\ RowIsNew(proc'[r], dir) /\ FinalizeFacts(proc'[r], dir)
          /\ Opened(proc'[r], dir)
      BY <1>2, <2>1, <2>2 DEF RowIsNew, FinalizeFacts, Opened, Finalizing
    <2> QED BY <1>1, <2>2, <2>3, QuietInd
  <1> QED BY <1>3, <1>4, <1>5 DEF Measure

(* append_observation: the look for an earlier row, the row, the index.    *)
LEMMA CheckRowInd ==
    ASSUME OneRunner, IndInv, NEW r \in Runners, CheckRow(r)
    PROVE  IndInv'
  <1>1. proc[r].pc = "check" /\ dir' = dir /\ derived' = derived
    BY DEF CheckRow, At
  <1>2. dir.files # {} /\ ~dir.complete /\ proc[r].row \in Rows
    BY <1>1 DEF IndInv, ProcFacts, Opened, RowIsNew
  <1>3. CASE Exit(r)
    <2>1. proc' \in [Runners -> Procs] /\ proc'[r].pc = "down"
      BY <1>3, ExitFacts DEF IndInv
    <2> QED BY <1>1, <2>1, DownFacts, QuietInd
  <1>4. CASE /\ proc[r].row.id \notin Ids(dir.rows) /\ Readable(dir)
             /\ Goto(r, "write")
    <2>1. /\ proc' \in [Runners -> Procs] /\ proc'[r].pc = "write"
          /\ proc'[r].row = proc[r].row
      BY <1>4, GotoFacts DEF IndInv, Steps, Measuring
    <2>2. /\ RowIsNew(proc'[r], dir) /\ FinalizeFacts(proc'[r], dir)
          /\ Opened(proc'[r], dir)
      BY <1>2, <1>4, <2>1 DEF RowIsNew, FinalizeFacts, Opened, Finalizing
    <2> QED BY <1>1, <2>1, <2>2, QuietInd
  <1> QED BY <1>3, <1>4 DEF CheckRow

(* A row of an observation that has none adds it to the observations that  *)
(* have, leaves every row where it is, and spoils no line but one that     *)
(* lacked its newline.                                                     *)
LEMMA AppendFacts ==
    ASSUME TypeOK, NoTwice(dir), NEW row \in Rows, row.id \notin Ids(dir.rows)
    PROVE  LET d == AppendTo(dir, row) IN
           /\ d \in Dirs /\ d.files = dir.files /\ d.complete = dir.complete
           /\ d.rows = Append(dir.rows, row)
           /\ NoTwice(d)
           /\ Len(d.rows) = Len(dir.rows) + 1
           /\ \A i \in 1..Len(dir.rows) : d.rows[i] = dir.rows[i]
           /\ (d.glued \ dir.glued) \cap Ids(dir.rows) \subseteq dir.unended
  <1> DEFINE d == AppendTo(dir, row)
             s == dir.rows
             t == Append(s, row)
             line == SameLine(dir, row)
             ends == dir.unended \ line
             more == IF line = {} THEN {} ELSE line \cup {row.id}
             bad == dir.glued \cup more
  <1>1. s \in Seq(Rows) /\ Len(s) \in Nat /\ t \in Seq(Rows)
    BY DEF TypeOK, Dirs
  <1>2. /\ Len(t) = Len(s) + 1
        /\ \A i \in 1..Len(s) : t[i] = s[i]
        /\ t[Len(s) + 1] = row
    BY <1>1, AppendProperties
  <1>3. Ids(t) = Ids(s) \cup {row.id}
    <2> HIDE DEF s, t
    <2>1. 1..Len(t) = (1..Len(s)) \cup {Len(s) + 1}
      BY <1>1, <1>2
    <2> QED BY <1>2, <2>1 DEF Ids
  <1>4. IsFiniteSet(Ids(s)) /\ Cardinality(Ids(s)) = Len(s)
    BY DEF NoTwice
  <1>5. IsFiniteSet(Ids(t)) /\ Cardinality(Ids(t)) = Len(t)
    <2> DEFINE old == Ids(s)
    <2> HIDE DEF s, t, old
    <2>1. IsFiniteSet(old) /\ row.id \notin old
      BY <1>4 DEF old, s
    <2>2. /\ IsFiniteSet(old \cup {row.id})
          /\ Cardinality(old \cup {row.id}) = Cardinality(old) + 1
      BY <2>1, FS_AddElement
    <2> QED BY <1>2, <1>3, <1>4, <2>2 DEF old
  <1>6. /\ line \subseteq dir.unended /\ dir.unended \subseteq Observations
        /\ dir.glued \subseteq Observations /\ row.id \in Observations
    BY DEF SameLine, TypeOK, Dirs, Rows
  <1>7. d = [dir EXCEPT !.rows = t, !.unended = ends, !.glued = bad]
    BY DEF AppendTo
  <1>8. ends \in SUBSET Observations /\ bad \in SUBSET Observations
    BY <1>6
  <1>9. (bad \ dir.glued) \cap Ids(s) \subseteq dir.unended
    BY <1>6
  <1> HIDE DEF d, t, ends, bad
  <1>10. /\ d \in Dirs /\ d.files = dir.files /\ d.complete = dir.complete
         /\ d.rows = t /\ d.glued = bad
    BY <1>1, <1>7, <1>8 DEF TypeOK, Dirs
  <1>11. /\ NoTwice(d) /\ Len(d.rows) = Len(s) + 1
         /\ \A i \in 1..Len(s) : d.rows[i] = s[i]
         /\ (d.glued \ dir.glued) \cap Ids(s) \subseteq dir.unended
    BY <1>2, <1>5, <1>9, <1>10 DEF NoTwice
  <1> QED BY <1>10, <1>11 DEF d, t

(* A process about to write has a new row, and nothing was derived yet.    *)
LEMMA AtWriteFacts ==
    ASSUME IndInv, NEW r \in Runners, proc[r].pc = "write"
    PROVE  /\ proc[r].row \in Rows /\ proc[r].row.id \notin Ids(dir.rows)
           /\ Readable(dir) /\ dir.files # {} /\ ~dir.complete
           /\ derived = Absent
  <1>1. /\ proc[r].row \in Rows /\ proc[r].row.id \notin Ids(dir.rows)
        /\ Readable(dir) /\ dir.files # {} /\ ~dir.complete
    BY DEF IndInv, ProcFacts, Opened, RowIsNew
  <1>2. proc[r].row.id \in Observations
    BY <1>1 DEF Rows
  <1> QED BY <1>1, <1>2 DEF IndInv, DerivedIsFull

(* A row written, with or without its newline, preserves the invariant.    *)
LEMMA RowWrittenInd ==
    ASSUME OneRunner, IndInv, NEW r \in Runners,
           ~dir.complete, derived = Absent, derived' = derived,
           dir' \in Dirs, NoTwice(dir'), dir'.complete = dir.complete,
           proc' \in [Runners -> Procs],
           RowIsNew(proc'[r], dir'), FinalizeFacts(proc'[r], dir'),
           Opened(proc'[r], dir')
    PROVE  IndInv'
  <1>1. TypeOK'
    BY DEF TypeOK
  <1>2. DirFacts'
    BY DEF DirFacts, CompleteFacts
  <1>3. ProcFacts'
    <2>1. \A q \in Runners : q = r
      BY DEF OneRunner
    <2> QED BY <2>1, Zenon DEF ProcFacts
  <1>4. DerivedIsFull'
    BY DEF DerivedIsFull
  <1> QED BY <1>1, <1>2, <1>3, <1>4 DEF IndInv

LEMMA WriteRowInd ==
    ASSUME OneRunner, IndInv, NEW r \in Runners, WriteRow(r)
    PROVE  IndInv'
  <1>1. /\ proc[r].pc = "write" /\ dir' = AppendTo(dir, proc[r].row)
        /\ Goto(r, "index") /\ derived' = derived
    BY DEF WriteRow, At
  <1>2. /\ proc[r].row \in Rows /\ proc[r].row.id \notin Ids(dir.rows)
        /\ dir.files # {} /\ ~dir.complete /\ derived = Absent
    BY <1>1, AtWriteFacts
  <1>3. /\ dir' \in Dirs /\ dir'.files = dir.files /\ dir'.complete = dir.complete
        /\ NoTwice(dir')
    BY <1>1, <1>2, AppendFacts DEF IndInv, DirFacts
  <1>4. proc' \in [Runners -> Procs] /\ proc'[r].pc = "index"
    BY <1>1, GotoFacts DEF IndInv, Steps, Measuring
  <1>5. /\ RowIsNew(proc'[r], dir') /\ FinalizeFacts(proc'[r], dir')
        /\ Opened(proc'[r], dir')
    BY <1>2, <1>3, <1>4, OpenFacts
  <1> QED BY <1>1, <1>2, <1>3, <1>4, <1>5, RowWrittenInd

LEMMA WriteIndexInd ==
    ASSUME OneRunner, IndInv, NEW r \in Runners, WriteIndex(r)
    PROVE  IndInv'
  <1>1. proc[r].pc = "index" /\ derived' = derived
    BY DEF WriteIndex, At
  <1>2. dir.files # {} /\ ~dir.complete /\ proc[r].pos \in Nat \ {0}
    BY <1>1 DEF IndInv, ProcFacts, Opened, TypeOK, Procs
  <1>3. CASE Exit(r) /\ dir' = dir
    <2>1. proc' \in [Runners -> Procs] /\ proc'[r].pc = "down"
      BY <1>3, ExitFacts DEF IndInv
    <2> QED BY <1>1, <1>3, <2>1, DownFacts, QuietInd
  <1>4. CASE /\ dir' = [dir EXCEPT !.index = Ids(dir.rows)]
             /\ proc' = [proc EXCEPT ![r].pc = "measure", ![r].pos = @ + 1]
    <2>1. Ids(dir.rows) \subseteq Observations
      BY IdsType DEF IndInv
    <2>2. /\ dir' \in Dirs /\ dir'.rows = dir.rows /\ dir'.files = dir.files
          /\ dir'.complete = dir.complete
      BY <1>4, <2>1 DEF IndInv, TypeOK, Dirs
    <2>3. proc' \in [Runners -> Procs] /\ proc'[r].pc = "measure"
      BY <1>2, <1>4 DEF IndInv, TypeOK, Procs, Steps, Measuring
    <2>4. CompleteFacts(dir')
      BY <1>2, <2>2 DEF CompleteFacts
    <2>5. /\ RowIsNew(proc'[r], dir') /\ FinalizeFacts(proc'[r], dir')
          /\ Opened(proc'[r], dir')
      BY <1>2, <2>2, <2>3, OpenFacts
    <2> QED BY <1>1, <2>2, <2>3, <2>4, <2>5, SameRowsInd
  <1> QED BY <1>3, <1>4 DEF WriteIndex

(* finalize_run begins with validate_run.                                  *)
LEMMA ValidateInd ==
    ASSUME OneRunner, IndInv, NEW r \in Runners, Validate(r)
    PROVE  IndInv'
  <1>1. proc[r].pc = "validate" /\ dir' = dir /\ derived' = derived
    BY DEF Validate, At
  <1>2. dir.files # {} /\ ~dir.complete
    BY <1>1 DEF IndInv, ProcFacts, Opened, Finalizing
  <1>3. CASE Exit(r)
    <2>1. proc' \in [Runners -> Procs] /\ proc'[r].pc = "down"
      BY <1>3, ExitFacts DEF IndInv
    <2> QED BY <1>1, <2>1, DownFacts, QuietInd
  <1>4. CASE Valid(dir) /\ Goto(r, "rawOpen")
    <2>1. RowsAreGood(dir)
      BY <1>4 DEF Valid, Readable, RowsAreGood
    <2>2. proc' \in [Runners -> Procs] /\ proc'[r].pc = "rawOpen"
      BY <1>4, GotoFacts DEF IndInv, Steps, Finalizing
    <2>3. /\ RowIsNew(proc'[r], dir) /\ FinalizeFacts(proc'[r], dir)
          /\ Opened(proc'[r], dir)
      BY <1>2, <2>1, <2>2 DEF RowIsNew, FinalizeFacts, Opened, Finalizing
    <2> QED BY <1>1, <2>2, <2>3, QuietInd
  <1> QED BY <1>3, <1>4 DEF Validate

(* A step of finalize_run that writes no raw file: what is true of the raw *)
(* files stays true, and the directory is not complete.                    *)
LEMMA FinalizeStep ==
    ASSUME IndInv, NEW r \in Runners, proc[r].pc \in Finalizing \ {"validate"},
           dir' \in Dirs, dir'.rows = dir.rows, dir'.torn = dir.torn,
           dir'.unended = dir.unended, dir'.glued = dir.glued,
           dir'.index = dir.index, dir'.files = dir.files
    PROVE  /\ RowsAreGood(dir) /\ RowsAreGood(dir')
           /\ RawImage(dir') = RawImage(dir)
           /\ dir.files # {} /\ ~dir.complete /\ dir'.files # {}
           /\ FinalizeFacts(proc[r], dir)
  <1>1. RowsAreGood(dir) /\ FinalizeFacts(proc[r], dir)
    BY DEF IndInv, ProcFacts, FinalizeFacts
  <1>2. dir.files # {} /\ ~dir.complete
    BY DEF IndInv, ProcFacts, Opened, Finalizing
  <1> QED BY <1>1, <1>2 DEF RowsAreGood, RawImage, Ids

(* Any step of finalize_run that exits before RUN_COMPLETE.                *)
LEMMA AbandonInd ==
    ASSUME OneRunner, IndInv, NEW r \in Runners, Exit(r),
           dir' \in Dirs, dir'.rows = dir.rows, ~dir'.complete,
           derived' = derived
    PROVE  IndInv'
  <1>1. proc' \in [Runners -> Procs] /\ proc'[r].pc = "down"
    BY ExitFacts DEF IndInv
  <1>2. CompleteFacts(dir')
    BY DEF CompleteFacts
  <1> QED BY <1>1, <1>2, DownFacts, SameRowsInd

LEMMA OpenRawSumsInd ==
    ASSUME OneRunner, IndInv, NEW r \in Runners, OpenRawSums(r)
    PROVE  IndInv'
  <1> DEFINE image == RawImage(dir)
  <1>1. /\ proc[r].pc = "rawOpen" /\ dir' = [dir EXCEPT !.rawSums = Empty]
        /\ proc' = [proc EXCEPT ![r].pc = "rawWrite", ![r].image = image]
        /\ derived' = derived
    BY DEF OpenRawSums, At
  <1>2. image \in RawSums
    BY ImageTypes DEF IndInv, TypeOK
  <1>3. /\ dir' \in Dirs /\ dir'.rows = dir.rows /\ dir'.torn = dir.torn
        /\ dir'.unended = dir.unended /\ dir'.glued = dir.glued
        /\ dir'.index = dir.index /\ dir'.files = dir.files
        /\ dir'.complete = dir.complete
    <2>1. Empty \in RawSums
      BY DEF RawSums
    <2> QED BY <1>1, <2>1 DEF IndInv, TypeOK, Dirs
  <1>4. /\ RowsAreGood(dir') /\ RawImage(dir') = image
        /\ ~dir.complete /\ dir'.files # {}
    BY <1>1, <1>3, FinalizeStep DEF Finalizing
  <1> HIDE DEF image
  <1>5. /\ proc' \in [Runners -> Procs]
        /\ proc'[r].pc = "rawWrite" /\ proc'[r].image = image
    BY <1>1, <1>2, ZenonT(40) DEF IndInv, TypeOK, Procs, Steps, Finalizing
  <1>6. CompleteFacts(dir')
    BY <1>3, <1>4 DEF CompleteFacts
  <1>7. /\ RowIsNew(proc'[r], dir') /\ FinalizeFacts(proc'[r], dir')
        /\ Opened(proc'[r], dir')
    BY <1>3, <1>4, <1>5 DEF RowIsNew, FinalizeFacts, Opened
  <1> QED BY <1>1, <1>3, <1>5, <1>6, <1>7, SameRowsInd

LEMMA WriteRawSumsInd ==
    ASSUME OneRunner, IndInv, NEW r \in Runners, WriteRawSums(r)
    PROVE  IndInv'
  <1>1. /\ proc[r].pc = "rawWrite" /\ derived' = derived
        /\ dir' = [dir EXCEPT !.rawSums = proc[r].image]
    BY DEF WriteRawSums, At
  <1>2. proc[r].image = RawImage(dir) /\ proc[r].image \in RawSums
    BY <1>1, ImageTypes DEF IndInv, ProcFacts, FinalizeFacts, TypeOK
  <1>3. Goto(r, "fileManifest")
    BY <1>2 DEF WriteRawSums
  <1>4. /\ dir' \in Dirs /\ dir'.rows = dir.rows /\ dir'.torn = dir.torn
        /\ dir'.unended = dir.unended /\ dir'.glued = dir.glued
        /\ dir'.index = dir.index /\ dir'.files = dir.files
        /\ dir'.complete = dir.complete /\ dir'.rawSums = proc[r].image
    BY <1>1, <1>2 DEF IndInv, TypeOK, Dirs
  <1>5. /\ RowsAreGood(dir') /\ RawImage(dir') = RawImage(dir)
        /\ ~dir.complete /\ dir'.files # {}
    BY <1>1, <1>4, FinalizeStep DEF Finalizing
  <1>6. proc' \in [Runners -> Procs] /\ proc'[r].pc = "fileManifest"
    BY <1>3, GotoFacts DEF IndInv, Steps, Finalizing
  <1>7. CompleteFacts(dir')
    BY <1>4, <1>5 DEF CompleteFacts
  <1>8. /\ RowIsNew(proc'[r], dir') /\ FinalizeFacts(proc'[r], dir')
        /\ Opened(proc'[r], dir')
    BY <1>2, <1>4, <1>5, <1>6 DEF RowIsNew, FinalizeFacts, Opened
  <1> QED BY <1>1, <1>4, <1>6, <1>7, <1>8, SameRowsInd

LEMMA WriteFileManifestInd ==
    ASSUME OneRunner, IndInv, NEW r \in Runners, WriteFileManifest(r)
    PROVE  IndInv'
  <1> DEFINE list == Listing(dir)
  <1>1. /\ proc[r].pc = "fileManifest" /\ derived' = derived
        /\ dir' = [dir EXCEPT !.fileManifest = list] /\ Goto(r, "intOpen")
    BY DEF WriteFileManifest, At
  <1>2. list \in Listings /\ list.raw = RawImage(dir)
    BY ImageTypes DEF IndInv, TypeOK
  <1> HIDE DEF list
  <1>3. /\ dir' \in Dirs /\ dir'.rows = dir.rows /\ dir'.torn = dir.torn
        /\ dir'.unended = dir.unended /\ dir'.glued = dir.glued
        /\ dir'.index = dir.index /\ dir'.files = dir.files
        /\ dir'.complete = dir.complete /\ dir'.rawSums = dir.rawSums
        /\ dir'.fileManifest = list
    BY <1>1, <1>2 DEF IndInv, TypeOK, Dirs
  <1>4. /\ RowsAreGood(dir') /\ RawImage(dir') = RawImage(dir)
        /\ ~dir.complete /\ dir'.files # {} /\ FinalizeFacts(proc[r], dir)
    BY <1>1, <1>3, FinalizeStep DEF Finalizing
  <1>5. proc' \in [Runners -> Procs] /\ proc'[r].pc = "intOpen"
    BY <1>1, GotoFacts DEF IndInv, Steps, Finalizing
  <1>6. CompleteFacts(dir')
    BY <1>3, <1>4 DEF CompleteFacts
  <1>7. /\ RowIsNew(proc'[r], dir') /\ FinalizeFacts(proc'[r], dir')
        /\ Opened(proc'[r], dir')
    BY <1>1, <1>2, <1>3, <1>4, <1>5 DEF RowIsNew, FinalizeFacts, Opened
  <1> QED BY <1>1, <1>3, <1>5, <1>6, <1>7, SameRowsInd

LEMMA OpenIntSumsInd ==
    ASSUME OneRunner, IndInv, NEW r \in Runners, OpenIntSums(r)
    PROVE  IndInv'
  <1> DEFINE image == dir.fileManifest
  <1>1. /\ proc[r].pc = "intOpen" /\ dir' = [dir EXCEPT !.intSums = Empty]
        /\ proc' = [proc EXCEPT ![r].pc = "intWrite", ![r].image = image]
        /\ derived' = derived
    BY DEF OpenIntSums, At
  <1>2. image \in IntSums
    BY DEF IndInv, TypeOK, Dirs, IntSums
  <1>3. /\ dir' \in Dirs /\ dir'.rows = dir.rows /\ dir'.torn = dir.torn
        /\ dir'.unended = dir.unended /\ dir'.glued = dir.glued
        /\ dir'.index = dir.index /\ dir'.files = dir.files
        /\ dir'.complete = dir.complete /\ dir'.rawSums = dir.rawSums
        /\ dir'.fileManifest = image
    <2>1. Empty \in IntSums
      BY DEF IntSums
    <2> QED BY <1>1, <2>1 DEF IndInv, TypeOK, Dirs
  <1>4. /\ RowsAreGood(dir') /\ RawImage(dir') = RawImage(dir)
        /\ ~dir.complete /\ dir'.files # {} /\ FinalizeFacts(proc[r], dir)
    BY <1>1, <1>3, FinalizeStep DEF Finalizing
  <1>5. dir.rawSums = RawImage(dir) /\ image.raw = RawImage(dir)
    BY <1>1, <1>4 DEF FinalizeFacts
  <1> HIDE DEF image
  <1>6. /\ proc' \in [Runners -> Procs]
        /\ proc'[r].pc = "intWrite" /\ proc'[r].image = image
    BY <1>1, <1>2, ZenonT(40) DEF IndInv, TypeOK, Procs, Steps, Finalizing
  <1>7. CompleteFacts(dir')
    BY <1>3, <1>4 DEF CompleteFacts
  <1>8. /\ RowIsNew(proc'[r], dir') /\ FinalizeFacts(proc'[r], dir')
        /\ Opened(proc'[r], dir')
    BY <1>3, <1>4, <1>5, <1>6 DEF RowIsNew, FinalizeFacts, Opened
  <1> QED BY <1>1, <1>3, <1>6, <1>7, <1>8, SameRowsInd

LEMMA WriteIntSumsInd ==
    ASSUME OneRunner, IndInv, NEW r \in Runners, WriteIntSums(r)
    PROVE  IndInv'
  <1>1. /\ proc[r].pc = "intWrite" /\ derived' = derived
        /\ dir' = [dir EXCEPT !.intSums = proc[r].image]
    BY DEF WriteIntSums, At
  <1>2. proc[r].image = dir.fileManifest /\ proc[r].image \in IntSums
    BY <1>1 DEF IndInv, ProcFacts, FinalizeFacts, TypeOK, Dirs, IntSums
  <1>3. Goto(r, "markTmp")
    BY <1>2 DEF WriteIntSums
  <1>4. /\ dir' \in Dirs /\ dir'.rows = dir.rows /\ dir'.torn = dir.torn
        /\ dir'.unended = dir.unended /\ dir'.glued = dir.glued
        /\ dir'.index = dir.index /\ dir'.files = dir.files
        /\ dir'.complete = dir.complete /\ dir'.rawSums = dir.rawSums
        /\ dir'.fileManifest = dir.fileManifest /\ dir'.intSums = proc[r].image
    BY <1>1, <1>2 DEF IndInv, TypeOK, Dirs
  <1>5. /\ RowsAreGood(dir') /\ RawImage(dir') = RawImage(dir)
        /\ ~dir.complete /\ dir'.files # {} /\ FinalizeFacts(proc[r], dir)
    BY <1>1, <1>4, FinalizeStep DEF Finalizing
  <1>6. proc' \in [Runners -> Procs] /\ proc'[r].pc = "markTmp"
    BY <1>3, GotoFacts DEF IndInv, Steps, Finalizing
  <1>7. CompleteFacts(dir')
    BY <1>4, <1>5 DEF CompleteFacts
  <1>8. /\ RowIsNew(proc'[r], dir') /\ FinalizeFacts(proc'[r], dir')
        /\ Opened(proc'[r], dir')
    BY <1>1, <1>2, <1>4, <1>5, <1>6 DEF RowIsNew, FinalizeFacts, Opened
  <1> QED BY <1>1, <1>4, <1>6, <1>7, <1>8, SameRowsInd

LEMMA WriteMarkTmpInd ==
    ASSUME OneRunner, IndInv, NEW r \in Runners, WriteMarkTmp(r)
    PROVE  IndInv'
  <1>1. /\ proc[r].pc = "markTmp" /\ dir' = [dir EXCEPT !.tmp = TRUE]
        /\ Goto(r, "markReplace") /\ derived' = derived
    BY DEF WriteMarkTmp, At
  <1>2. /\ dir' \in Dirs /\ dir'.rows = dir.rows /\ dir'.torn = dir.torn
        /\ dir'.unended = dir.unended /\ dir'.glued = dir.glued
        /\ dir'.index = dir.index /\ dir'.files = dir.files
        /\ dir'.complete = dir.complete /\ dir'.rawSums = dir.rawSums
        /\ dir'.fileManifest = dir.fileManifest /\ dir'.intSums = dir.intSums
    BY <1>1 DEF IndInv, TypeOK, Dirs
  <1>3. /\ RowsAreGood(dir') /\ RawImage(dir') = RawImage(dir)
        /\ ~dir.complete /\ dir'.files # {} /\ FinalizeFacts(proc[r], dir)
    BY <1>1, <1>2, FinalizeStep DEF Finalizing
  <1>4. proc' \in [Runners -> Procs] /\ proc'[r].pc = "markReplace"
    BY <1>1, GotoFacts DEF IndInv, Steps, Finalizing
  <1>5. CompleteFacts(dir')
    BY <1>2, <1>3 DEF CompleteFacts
  <1>6. /\ RowIsNew(proc'[r], dir') /\ FinalizeFacts(proc'[r], dir')
        /\ Opened(proc'[r], dir')
    BY <1>1, <1>2, <1>3, <1>4 DEF RowIsNew, FinalizeFacts, Opened
  <1> QED BY <1>1, <1>2, <1>4, <1>5, <1>6, SameRowsInd

(* os.replace of RUN_COMPLETE publishes what finalize_run has built.       *)
LEMMA ReplaceMarkInd ==
    ASSUME OneRunner, IndInv, NEW r \in Runners, ReplaceMark(r)
    PROVE  IndInv'
  <1>1. /\ proc[r].pc = "markReplace" /\ Exit(r) /\ derived' = derived
        /\ dir' = IF dir.tmp THEN [dir EXCEPT !.tmp = FALSE, !.complete = TRUE]
                  ELSE dir
    BY DEF ReplaceMark, At
  <1>2. /\ dir' \in Dirs /\ dir'.rows = dir.rows /\ dir'.torn = dir.torn
        /\ dir'.unended = dir.unended /\ dir'.glued = dir.glued
        /\ dir'.index = dir.index /\ dir'.files = dir.files
        /\ dir'.rawSums = dir.rawSums
        /\ dir'.fileManifest = dir.fileManifest /\ dir'.intSums = dir.intSums
    BY <1>1 DEF IndInv, TypeOK, Dirs
  <1>3. /\ RowsAreGood(dir') /\ RawImage(dir') = RawImage(dir)
        /\ dir'.files # {} /\ FinalizeFacts(proc[r], dir)
    BY <1>1, <1>2, FinalizeStep DEF Finalizing
  <1>4. CompleteFacts(dir')
    BY <1>1, <1>2, <1>3 DEF CompleteFacts, FinalizeFacts
  <1>5. proc' \in [Runners -> Procs] /\ proc'[r].pc = "down"
    BY <1>1, ExitFacts DEF IndInv
  <1> QED BY <1>1, <1>2, <1>4, <1>5, DownFacts, SameRowsInd

(* A death leaves nothing of the write it interrupts, part of it, or a row *)
(* that only lacks its newline.                                            *)
NoRow(p) ==
    /\ dir' \in Dirs /\ dir'.rows = dir.rows /\ dir'.complete = dir.complete
    /\ dir.complete => dir' = dir
    /\ p.pc # "write" => RawImage(dir') = RawImage(dir)
    /\ (dir'.glued \ dir.glued) \subseteq dir.unended
LineOpen(p) ==
    /\ p.pc = "write"
    /\ dir' = [AppendTo(dir, p.row) EXCEPT !.unended = @ \cup {p.row.id}]

LEMMA CrashFacts ==
    ASSUME IndInv, NEW r \in Runners, Crash(r)
    PROVE  NoRow(proc[r]) \/ LineOpen(proc[r])
  <1> DEFINE p == proc[r]
             rs == IF p.pc = "rawWrite" THEN Torn ELSE dir.rawSums
             is == IF p.pc = "intWrite" THEN Torn ELSE dir.intSums
             line == SameLine(dir, p.row)
  <1>1. dir \in Dirs
    BY DEF IndInv, TypeOK
  <1>2. /\ line \subseteq dir.unended
        /\ dir.unended \ line \in SUBSET Observations
        /\ dir.glued \cup line \in SUBSET Observations
    BY <1>1 DEF SameLine, Dirs
  <1>3. rs \in RawSums /\ is \in IntSums
    BY <1>1 DEF Dirs, RawSums, IntSums
  <1>4. dir.complete => p.pc \in {"down", "prepare"}
    BY DEF IndInv, ProcFacts, Opened
  <1>5. dir' \in {dir} \cup Interrupted(p, dir)
    BY DEF Crash
  <1>6. CASE dir' = dir
    BY <1>1, <1>6 DEF NoRow
  <1>7. CASE dir' = [dir EXCEPT !.rawSums = rs, !.intSums = is]
    <2>1. dir.complete => rs = dir.rawSums /\ is = dir.intSums
      BY <1>4
    <2> HIDE DEF rs, is
    <2>2. /\ dir' \in Dirs /\ dir'.rows = dir.rows /\ dir'.complete = dir.complete
          /\ dir'.unended = dir.unended /\ dir'.glued = dir.glued
          /\ dir'.torn = dir.torn /\ dir'.index = dir.index
      BY <1>1, <1>3, <1>7 DEF Dirs
    <2>3. dir.complete => dir' = dir
      BY <1>1, <1>7, <2>1 DEF Dirs
    <2> QED BY <2>2, <2>3 DEF NoRow, RawImage
  <1>8. CASE /\ p.pc = "write"
             /\ dir' = [dir EXCEPT !.torn = TRUE, !.unended = @ \ line,
                                   !.glued = @ \cup line]
    <2>1. ~dir.complete
      BY <1>4, <1>8
    <2> HIDE DEF line
    <2>2. /\ dir' \in Dirs /\ dir'.rows = dir.rows /\ dir'.complete = dir.complete
          /\ dir'.glued = dir.glued \cup line
      BY <1>1, <1>2, <1>8 DEF Dirs
    <2> QED BY <1>2, <1>8, <2>1, <2>2 DEF NoRow
  <1>9. CASE LineOpen(p)
    BY <1>9
  <1> QED BY <1>5, <1>6, <1>7, <1>8, <1>9 DEF Interrupted, LineOpen

(* What is known of the directory after a row without its newline.         *)
LEMMA LineOpenFacts ==
    ASSUME IndInv, NEW r \in Runners, LineOpen(proc[r])
    PROVE  LET d == AppendTo(dir, proc[r].row) IN
           /\ dir' \in Dirs /\ dir'.complete = dir.complete
           /\ dir'.rows = d.rows /\ dir'.glued = d.glued /\ NoTwice(dir')
  <1> DEFINE p == proc[r]
             d == AppendTo(dir, p.row)
             ends == d.unended \cup {p.row.id}
  <1>1. p.row \in Rows /\ p.row.id \notin Ids(dir.rows) /\ p.row.id \in Observations
    BY AtWriteFacts DEF LineOpen, Rows
  <1>2. d \in Dirs /\ d.complete = dir.complete /\ NoTwice(d)
    BY <1>1, AppendFacts DEF IndInv, DirFacts
  <1>3. dir' = [d EXCEPT !.unended = ends]
    BY DEF LineOpen
  <1> HIDE DEF d
  <1>4. ends \in SUBSET Observations
    BY <1>1, <1>2 DEF Dirs
  <1> HIDE DEF ends
  <1>5. /\ dir' \in Dirs /\ dir'.complete = d.complete
        /\ dir'.rows = d.rows /\ dir'.glued = d.glued
    BY <1>2, <1>3, <1>4 DEF Dirs
  <1> QED BY <1>2, <1>5 DEF NoTwice, d

LEMMA CrashInd ==
    ASSUME OneRunner, IndInv, NEW r \in Runners, Crash(r)
    PROVE  IndInv'
  <1>1. Exit(r) /\ derived' = derived
    BY DEF Crash
  <1>2. proc' \in [Runners -> Procs] /\ proc'[r].pc = "down"
    BY <1>1, ExitFacts DEF IndInv
  <1>3. CASE NoRow(proc[r])
    <2>1. /\ dir' \in Dirs /\ dir'.rows = dir.rows
          /\ dir'.complete = dir.complete
          /\ dir.complete => dir' = dir
      BY <1>3 DEF NoRow
    <2>2. CompleteFacts(dir')
      <3>1. CASE dir.complete
        BY <2>1, <3>1 DEF IndInv, DirFacts
      <3>2. CASE ~dir.complete
        BY <2>1, <3>2 DEF CompleteFacts
      <3> QED BY <3>1, <3>2
    <2> QED BY <1>1, <1>2, <2>1, <2>2, DownFacts, SameRowsInd
  <1>4. CASE LineOpen(proc[r])
    <2>1. ~dir.complete /\ derived = Absent
      BY <1>4, AtWriteFacts DEF LineOpen
    <2>2. dir' \in Dirs /\ NoTwice(dir') /\ dir'.complete = dir.complete
      BY <1>4, LineOpenFacts
    <2> QED BY <1>1, <1>2, <2>1, <2>2, DownFacts, RowWrittenInd
  <1> QED BY <1>3, <1>4, CrashFacts

(* analyze_stage8_inventory.py derives from a directory that validates.    *)
LEMMA AnalyzeInd == ASSUME IndInv, Analyze PROVE IndInv'
  <1>1. /\ dir' = dir /\ proc' = proc /\ derived' = dir.rows
        /\ Ids(dir.rows) = Observations
    BY DEF Analyze, Valid
  <1>2. TypeOK' /\ DirFacts' /\ ProcFacts'
    BY <1>1 DEF IndInv, TypeOK, DirFacts, ProcFacts, NoTwice, CompleteFacts,
                RowIsNew, FinalizeFacts, Opened, RowsAreGood, Ids, RawImage
  <1>3. DerivedIsFull'
    BY <1>1 DEF DerivedIsFull, Ids
  <1> QED BY <1>2, <1>3 DEF IndInv

LEMMA StepInd ==
    ASSUME OneRunner, IndInv, NEW r \in Runners, Step(r)
    PROVE  IndInv'
  BY PrepareInd, CreateInd, WarmupInd, LoadInd, MeasureInd, CheckRowInd,
     WriteRowInd, WriteIndexInd, ValidateInd, OpenRawSumsInd, WriteRawSumsInd,
     WriteFileManifestInd, OpenIntSumsInd, WriteIntSumsInd, WriteMarkTmpInd,
     ReplaceMarkInd DEF Step

-----------------------------------------------------------------------------

(* With one runner at a time, what each step of run_campaign relies on is  *)
(* true whenever a process gets there, whatever deaths came before.        *)
THEOREM AlwaysIndInv == ASSUME OneRunner PROVE Spec => []IndInv
  <1>1. Init => IndInv
    BY InitInd
  <1>2. IndInv /\ [Next]_vars => IndInv'
    BY StutterInd, StartInd, StepInd, CrashInd, AnalyzeInd DEF Next
  <1> QED BY <1>1, <1>2, PTL DEF Spec

(* With one runner at a time RUN_COMPLETE says what it says: every         *)
(* observation of any schedule has exactly one good row, attested as it is *)
(* by both checksum files and the file manifest.                           *)
THEOREM CompleteRunIsSound == ASSUME OneRunner PROVE Spec => []CompleteIsSound
  <1>1. IndInv => CompleteIsSound
    BY DEF IndInv, DirFacts, NoTwice, CompleteFacts, RowsAreGood,
           CompleteIsSound, Readable
  <1> QED BY <1>1, AlwaysIndInv, PTL

(* With one runner at a time derived data are never overtaken by the rows  *)
(* they were made from: a directory that validates has no row to come.     *)
THEOREM DerivedStaysCurrent == ASSUME OneRunner PROVE Spec => []DerivedIsCurrent
  <1>1. IndInv => DerivedIsCurrent
    BY DEF IndInv, DerivedIsFull, DerivedIsCurrent
  <1> QED BY <1>1, AlwaysIndInv, PTL

(* With one runner at a time no row is ever changed, dropped or doubled, a *)
(* row becomes illegible only by lacking its newline when the next of its  *)
(* kind is written, raw files that cannot be read are left as they are,    *)
(* and so is a directory with RUN_COMPLETE.                                *)
THEOREM RowsAreForEver == ASSUME OneRunner PROVE Spec => NothingIsRewritten
  <1> DEFINE A == /\ Len(dir.rows) <= Len(dir'.rows)
                  /\ \A i \in 1..Len(dir.rows) : dir'.rows[i] = dir.rows[i]
                  /\ Cardinality(Ids(dir'.rows)) = Len(dir'.rows)
                  /\ (dir'.glued \ dir.glued) \cap Ids(dir.rows) \subseteq dir.unended
                  /\ ~Readable(dir) => RawImage(dir') = RawImage(dir)
                  /\ dir.complete => UNCHANGED dir
  <1>1. IndInv /\ [Next]_vars => [A]_vars
    <2> SUFFICES ASSUME IndInv, Next PROVE A
      OBVIOUS
    <2>1. /\ Len(dir.rows) \in Nat /\ dir \in Dirs
          /\ NoTwice(dir)
      BY DEF IndInv, TypeOK, Dirs, DirFacts
    <2>2. ASSUME dir'.rows = dir.rows,
                 (dir'.glued \ dir.glued) \subseteq dir.unended,
                 ~Readable(dir) => RawImage(dir') = RawImage(dir),
                 dir.complete => dir' = dir
          PROVE  A
      BY <2>1, <2>2 DEF NoTwice
    <2>3. ASSUME RawImage(dir') = RawImage(dir), dir.complete => dir' = dir
          PROVE  A
      <3>1. dir'.rows = dir.rows /\ dir'.glued = dir.glued
        BY <2>3 DEF RawImage
      <3> QED BY <2>2, <2>3, <3>1
    <2>4. ASSUME NEW r \in Runners, proc[r].pc = "write",
                 LET d == AppendTo(dir, proc[r].row) IN
                     dir'.rows = d.rows /\ dir'.glued = d.glued
          PROVE  A
      <3>1. /\ proc[r].row \in Rows /\ proc[r].row.id \notin Ids(dir.rows)
            /\ ~dir.complete /\ Readable(dir)
        BY <2>4, AtWriteFacts
      <3> DEFINE d == AppendTo(dir, proc[r].row)
      <3>2. /\ NoTwice(d) /\ Len(d.rows) = Len(dir.rows) + 1
            /\ \A i \in 1..Len(dir.rows) : d.rows[i] = dir.rows[i]
            /\ (d.glued \ dir.glued) \cap Ids(dir.rows) \subseteq dir.unended
        BY <2>1, <3>1, AppendFacts DEF IndInv
      <3>3. dir'.rows = d.rows /\ dir'.glued = d.glued
        BY <2>4
      <3> HIDE DEF d
      <3> QED BY <2>1, <3>1, <3>2, <3>3 DEF NoTwice
    <2>5. ASSUME NEW r \in Runners, WriteRow(r) PROVE A
      BY <2>4, <2>5 DEF WriteRow, At
    <2>6. ASSUME NEW r \in Runners, NEW resume \in BOOLEAN, Start(r, resume)
          PROVE  A
      BY <2>3, <2>6 DEF Start
    <2>7. ASSUME NEW r \in Runners, Crash(r) PROVE A
      <3>1. CASE LineOpen(proc[r])
        <4>1. proc[r].pc = "write"
          BY <3>1 DEF LineOpen
        <4> QED BY <2>4, <3>1, <4>1, LineOpenFacts
      <3>2. CASE NoRow(proc[r])
        <4>1. ~Readable(dir) => RawImage(dir') = RawImage(dir)
          BY <3>2, AtWriteFacts DEF NoRow
        <4> QED BY <2>2, <3>2, <4>1 DEF NoRow
      <3> QED BY <2>7, <3>1, <3>2, CrashFacts
    <2>8. CASE Analyze
      BY <2>3, <2>8 DEF Analyze
    <2>9. ASSUME NEW r \in Runners, WriteIndex(r) PROVE A
      <3>1. ~dir.complete
        BY <2>9 DEF WriteIndex, At, IndInv, ProcFacts, Opened
      <3>2. \/ dir' = dir
            \/ Readable(dir) /\ dir' = [dir EXCEPT !.index = Ids(dir.rows)]
        BY <2>9 DEF WriteIndex
      <3>3. dir'.rows = dir.rows /\ dir'.glued = dir.glued
        BY <2>1, <3>2 DEF Dirs
      <3> QED BY <2>2, <3>1, <3>2, <3>3
    <2>10. ASSUME NEW r \in Runners, Step(r), ~WriteRow(r), ~WriteIndex(r) PROVE A
      <3>1. CASE Prepare(r)
        <4>1. RawImage(dir') = RawImage(dir)
          BY <2>1, <3>1 DEF Prepare, Dirs, RawImage
        <4>2. dir.complete => dir.files # {}
          BY DEF IndInv, DirFacts, CompleteFacts
        <4> QED BY <2>3, <3>1, <4>1, <4>2 DEF Prepare
      <3>2. CASE ~Prepare(r)
        <4>1. RawImage(dir') = RawImage(dir)
          BY <2>1, <2>10, <3>2
             DEF Step, Create, CreateFile, Warmup, Load, Measure, CheckRow,
                 Validate, OpenRawSums, WriteRawSums,
                 WriteFileManifest, OpenIntSums, WriteIntSums, WriteMarkTmp,
                 ReplaceMark, Dirs, RawImage
        <4>2. proc[r].pc \notin {"down", "prepare"}
          BY <2>10, <3>2
             DEF Step, Create, CreateFile, Warmup, Load, Measure, CheckRow,
                 Validate, OpenRawSums, WriteRawSums,
                 WriteFileManifest, OpenIntSums, WriteIntSums, WriteMarkTmp,
                 ReplaceMark, At
        <4>3. ~dir.complete
          BY <4>2 DEF IndInv, ProcFacts, Opened
        <4> QED BY <2>3, <4>1, <4>3
      <3> QED BY <3>1, <3>2
    <2> QED BY <2>5, <2>6, <2>7, <2>8, <2>9, <2>10 DEF Next
  <1> QED BY <1>1, AlwaysIndInv, PTL DEF Spec, NothingIsRewritten
=============================================================================
