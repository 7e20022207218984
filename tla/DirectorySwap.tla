--------------------------- MODULE DirectorySwap ----------------------------
(***************************************************************************)
(* The three places where the repository replaces a directory of artifacts *)
(* "atomically", by generating the new one beside it and renaming twice:   *)
(*                                                                         *)
(*   registration  write_registration / _atomic_replace_registration       *)
(*                 (campaigns/stage8.py)                                   *)
(*   bundle        generate_bundle (runtime/stage7_evidence.py)            *)
(*   report        staged_report_dir (metrics/artifact_io.py)              *)
(*                                                                         *)
(* They differ in what a failure between the two renames restores, in      *)
(* whether an interrupt counts as one ("except BaseException" or "except   *)
(* Exception") and in when an old backup is removed.  A directory is the   *)
(* version it holds.  Any step may fail with an Exception or be            *)
(* interrupted (KeyboardInterrupt), and the process may be killed.         *)
(***************************************************************************)
EXTENDS Naturals

CONSTANTS
    Variants,     \* of "registration", "bundle", "report"
    Faults,       \* which of "raised", "interrupted", "killed" can happen
    MaxVersions,  \* bound on the number of replacements attempted
    Absent

ASSUME VariantAssumption ==
    /\ Variants \subseteq {"registration", "bundle", "report"}
    /\ Faults \subseteq {"raised", "interrupted", "killed"}
    /\ MaxVersions \in Nat
    /\ Absent \notin Nat

VARIABLES
    variant,  \* which of the three it is
    out,      \* the directory readers use
    backup,   \* .<name>.replaced, .<name>.previous or .<name>.old-<pid>
    staging,  \* .<name>.staging, the mkdtemp directory or .<name>.tmp-<pid>
    pc,       \* the step the process is at
    replace,  \* --replace-existing
    version,  \* the version of the latest attempt
    before,   \* history: what out held when it began
    shown,    \* history: the version published last
    last      \* how the latest attempt ended

dirs == <<out, backup, staging>>
swapVars == <<variant, out, backup, staging, pc, replace, version, before, shown, last>>

SwapInit ==
    /\ variant \in Variants
    /\ out = Absent /\ backup = Absent /\ staging = Absent
    /\ pc = "idle"
    /\ replace = FALSE
    /\ version = 0
    /\ before = Absent /\ shown = Absent
    /\ last = "returned"

End(how) ==
    pc' = "idle" /\ last' = how /\ UNCHANGED <<variant, replace, version, before, shown>>
Goto(step) ==
    pc' = step /\ UNCHANGED <<variant, replace, version, before, shown, last>>

(* A new attempt.  A bundle or a report that exists is refused here unless *)
(* it may be replaced; the report's own backup name is cleared now.        *)
Begin(rep) ==
    /\ pc = "idle"
    /\ version < MaxVersions
    /\ variant # "registration" /\ ~rep => out = Absent
    /\ backup' = IF variant = "report" THEN Absent ELSE backup
    /\ staging' = Absent
    /\ pc' = "generate"
    /\ replace' = rep
    /\ version' = version + 1
    /\ before' = out
    /\ UNCHANGED <<variant, out, shown, last>>

(* The contents are written and validated under the staging name.          *)
Generate ==
    /\ pc = "generate"
    /\ staging' = version
    /\ Goto("swap")
    /\ UNCHANGED <<out, backup>>

(* Mutant: a backup that is there already is kept.                         *)
SwapKeepsBackup ==
    /\ pc = "swap"
    /\ out = Absent \/ replace
    /\ Goto(IF out # Absent THEN "moveOld" ELSE "moveNew")
    /\ UNCHANGED dirs

(* The registration decides only now whether it may replace, and removes   *)
(* an old backup before anything else; the bundle removes it only if there *)
(* is something to move out of the way.                                    *)
Swap ==
    /\ pc = "swap"
    /\ \/ /\ variant = "registration" /\ out # Absent /\ ~replace
          /\ staging' = Absent
          /\ End("raised")
          /\ UNCHANGED <<out, backup>>
       \/ /\ variant = "registration" => (out = Absent \/ replace)
          /\ backup' = IF variant = "registration" \/ out # Absent THEN Absent ELSE backup
          /\ Goto(IF out # Absent THEN "moveOld" ELSE "moveNew")
          /\ UNCHANGED <<out, staging>>

(* os.replace(output, backup) *)
MoveOld ==
    /\ pc = "moveOld"
    /\ backup' = out /\ out' = Absent
    /\ Goto("moveNew")
    /\ UNCHANGED staging

(* os.replace(staging, output) *)
MoveNew ==
    /\ pc = "moveNew"
    /\ out' = staging /\ staging' = Absent
    /\ shown' = staging
    /\ pc' = "cleanup"
    /\ UNCHANGED <<variant, backup, replace, version, before, last>>

(* shutil.rmtree(backup) *)
Cleanup ==
    /\ pc = "cleanup"
    /\ backup' = Absent
    /\ End("returned")
    /\ UNCHANGED <<out, staging>>

-----------------------------------------------------------------------------

(* _atomic_replace_registration: the handler removes whatever the output   *)
(* path holds, puts the backup back if there is one, and "finally" removes *)
(* a backup that is left; write_registration's "finally" removes staging.  *)
RegistrationHandler ==
    /\ IF pc \in {"moveOld", "moveNew"}
       THEN out' = backup
       ELSE UNCHANGED out
    /\ backup' = IF pc \in {"moveOld", "moveNew"} THEN Absent ELSE backup
    /\ staging' = Absent

(* Mutant: the bundle is not put back.                                     *)
BundleHandlerNoRestore ==
    /\ UNCHANGED <<out, backup>>
    /\ staging' = Absent

(* generate_bundle: only a failure of the second rename restores.          *)
BundleHandler ==
    /\ IF pc = "moveNew"
       THEN out' = backup /\ backup' = Absent
       ELSE UNCHANGED <<out, backup>>
    /\ staging' = Absent

(* staged_report_dir: the backup goes back if the output is gone.          *)
ReportHandler ==
    /\ IF backup # Absent /\ out = Absent
       THEN out' = backup /\ backup' = Absent
       ELSE UNCHANGED <<out, backup>>
    /\ staging' = Absent

Handler ==
    \/ variant = "registration" /\ RegistrationHandler
    \/ variant = "bundle" /\ BundleHandler
    \/ variant = "report" /\ ReportHandler

(* A step raises an Exception instead of taking effect.                    *)
StepRaises ==
    /\ "raised" \in Faults
    /\ pc # "idle"
    /\ Handler
    /\ End("raised")

(* KeyboardInterrupt: only the registration catches BaseException, and     *)
(* only around the renames; its "finally" clauses run in any case.  The    *)
(* signal may arrive in the second rename and be raised after it, which    *)
(* takes back what was just published.                                     *)
StepInterrupted ==
    /\ "interrupted" \in Faults
    /\ pc # "idle"
    /\ \/ variant # "registration" /\ UNCHANGED dirs
       \/ variant = "registration" /\ RegistrationHandler
       \/ /\ variant = "registration" /\ pc = "cleanup"
          /\ out' = backup /\ backup' = Absent
          /\ UNCHANGED staging
    /\ End("interrupted")

Kill ==
    /\ "killed" \in Faults
    /\ pc # "idle"
    /\ UNCHANGED dirs
    /\ End("killed")

SwapNext ==
    \/ \E rep \in BOOLEAN : Begin(rep)
    \/ Generate \/ Swap \/ MoveOld \/ MoveNew \/ Cleanup
    \/ StepRaises \/ StepInterrupted \/ Kill

SwapSpec == SwapInit /\ [][SwapNext]_swapVars

-----------------------------------------------------------------------------

(* An attempt that returned or raised leaves the old directory or the new  *)
(* one, whole: there is no third outcome, and what existed still exists.   *)
OldOrNew ==
    pc = "idle" /\ last \in {"returned", "raised"} /\ before # Absent
        => out \in {before, version}

(* The bundle and the report keep to that whatever step raises ("the       *)
(* previous valid runtime bundle is left in place").                       *)
EvidenceOldOrNew == variant # "registration" => OldOrNew

(* Nothing older returns and nothing gets lost.  What readers of a bundle  *)
(* or a report find is the version published last, whatever fails now or   *)
(* left a backup behind earlier; the registration takes a publication back *)
(* when interrupted, but only to what the attempt found.  Once a bundle    *)
(* has been published, some copy of one is on disk at every moment.        *)
NothingOlderReturns ==
    /\ out # Absent => IF variant = "registration" THEN out \in {before, version}
                                                   ELSE out = shown
    /\ variant = "bundle" /\ shown # Absent => out # Absent \/ backup # Absent
=============================================================================
