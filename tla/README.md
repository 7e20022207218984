# A TLA+ model of PQTrust-Agent

PQTrust-Agent is a laboratory for negotiating a post-quantum security profile
between two agents: the agents commit to and reveal proposals, a profile that is
safe for both is selected, a contract is signed by both, an execution gate checks
it once more and lets one TLS handshake and one task through, or the session is
aborted with a conflict certificate. Around that protocol stands a campaign
runner that measures it and keeps its evidence in directories that must survive
interruptions. Paths below are relative to `src/pqtrust_agent/` of the
repository.

## Inventory

| Component | State | Operations | Interacts with |
|---|---|---|---|
| Replay registry, `protocol/replay.py` | sessions, commitment owners, transcripts, contract leases; a JSON file and its `.tmp` | `register_session/commitment/transcript/contract`, purge, `_flush` | called by commit-reveal, transcript verification, contract verification |
| Commit-reveal, `protocol/commitment.py`, `transcript.py` | commitments and reveals per role | register a commitment, accept a reveal, validate the pair, build and verify a transcript | registry |
| Contracts, `protocol/contract_builder.py`, `verification.py` | none of their own | build, sign, verify | transcript, catalog, registry |
| Runtime, `runtime/state_machine.py`, `execution_gate.py`, `transport/tls_executor.py`, `task_protocol.py` | runtime state, gate registry, invocation count, requests and responses seen | transition, authorize, execute TLS, execute a task | contracts, the native binary |
| Local channel, `transport/local_channel.py`, `runtime/responder.py`, `initiator.py` | a socket path in a temporary directory, a connection | listen, accept, echo, connect, probe | three processes of `_run_local_agents` |
| Campaign, `campaigns/stage8.py` | registration directory, run directories, git HEAD | register, run, resume, append, finalize, validate, analyze | measurement adapters, file system |
| Directory replacement, `campaigns/stage8.py`, `runtime/stage7_evidence.py`, `metrics/artifact_io.py` | output, backup and staging directory | stage, rename twice, clean up, restore | file system |
| Measurement adapters, `campaigns/stage8_measurement.py` | the rows of a run, the processes of a concurrency trial | the five kinds of observation, `validate_run` on their rows, the inventory of failures | all of the above |
| Policy compiler, `policy/`, `assurance/`, `models/policy.py`, `models/requirements.py` | the locals of one compilation | derive the requirement, enumerate, decide, explain | Z3, selector |
| Selector, `negotiation/selector.py` and its neighbours | none of its own; the stage reads evidence and preferences | load evidence, select, analyse, conclude | compiler, campaign |
| Conflicts, `negotiation/unsat_core.py`, `conflict_certificate.py`, `safe_abort.py`, `remediation.py`, `protocol/conflict_verification.py`, `scripts/validate_stage6.py` | the search, two component directories, the bundle | shrink a core, certify, abort, verify, publish | Z3, commit-reveal, campaign |
| Stage 7 evidence, `runtime/stage7_evidence.py` | a bundle of traces and reports | generate, validate a trace | runtime, directory replacement |
| Native programs, `native/src/` | none | one handshake, one batch of signatures | TLS executor, adapters |
| Discovery and framing, `runtime/agent_runtime.py`, `transport/framing.py` | advertisements, sequence numbers | register, discover, encode, decode | unit tests only |
| Calibration and analysis, `crypto/calibration_runner.py`, `metrics/`, `analysis/stage9.py` | run directories, reports | run, validate, report | native programs |

What is hard about it:

- **time**: operations take the time as an argument, so calls on one registry may
  go back and forth in time;
- **crashes**: runs and registries are published step by step, and a process may
  die between any two steps or in the middle of a write;
- **partial failure**: several operations change memory before the step that may
  raise (`_flush`, `accept_reveal`, `TaskProtocol.execute`, the second rename);
- **concurrency**: nothing in the repository takes a lock; two handles on one
  registry file, two runners on one directory, or a registration made during a
  run meet only in the file system, the local probe is three processes and a
  concurrency trial up to seventeen;
- **timeouts**: handshakes, socket operations and joins are bounded by time, and
  the solver may answer "unknown" to any question;
- **two answers to one question**: the compiler asks Z3 twice and plain code once
  which profiles are safe; two components of Stage 6 each search for a conflict;
  the native program and the Python side each compare the TLS groups.

What makes the components correct: a key is accepted once; a commitment binds
before anything is revealed; what is executed is what both agreed on and only
while it is in force; a failure ends a session and never weakens it; what is
compiled as safe is safe, and what is selected is safe for both and fair; a conflict
that is certified is irreducible and its artifacts are about each other; a failed
measurement shows in the end;
`RUN_COMPLETE` attests exactly the scheduled rows; evidence belongs to one
registration; a replaced directory is the old one or the new one. The hazards at
their lines, with the properties that watch them, are in `PROJECT.json`.

## Modules

`ReplayRegistry` holds the registry operations as operators that return the new
state and whether the call returned or raised. `InMemoryReplay`, `JsonFileReplay`,
`CommitReveal` and `TrustRuntime` are built on it: they are the compositions of
the registry with its callers.

- **InMemoryReplay**: one registry object, any caller, any times. `highRef` and
  `grants` are history variables.
- **JsonFileReplay**: handles on a file. An operation is the in-memory change
  followed by `OpenTmp`, `WriteTmp` and `Replace`, with `FlushFails` and `Crash`
  at every step; two descriptors on one temporary file follow POSIX renames.
  A key is a session, a commitment or a transcript, tagged with its table.
  `OneTimeUse` is the abstract specification (each key accepted at most once),
  and `AcceptsEachKeyOnce` the refinement under `uses <- acks`.
- **CommitReveal**: sessions on one registry, with every call any party might make.
  The four hashes both proposals must share are one value, `binding`. Building and
  verifying a transcript consults no session, so `VerifyTranscript` is offered the
  transcript of any two reveals, accepted, rejected or neither, and altered ones.
- **TrustRuntime**: `Verifiable` has the checks of `verify_signed_contract`;
  `Authorize`, `ExecuteTls` and `ExecuteTask` are the gate, the executor and the
  task protocol, in the order in which `measure_feasible` and `measure_infeasible`
  call them. The adapters use a fresh gate and task protocol for every session; the
  model lets several runtimes share one of each, which is what their replay state
  is for. `state` is how far the driver of a runtime has got. No program of the
  repository creates a `RuntimeStateMachine`, only its unit test does: the adapters hand
  `ExecutionGate.authorize` and `TaskProtocol.execute` the constant state that each asks
  for. What an operation does with a state is the code's, that it is given the
  machine's is how the two are meant to be used. It extends two modules:
  - **RuntimeStates**: the states and the table of transitions;
  - **NativeTls**: what the TLS program records of a handshake that went in any way
    it can, its own verdict, and the checks of `NativeRunner` and `tls_groups.py`.
    The program ignores case while the Python side knows two spellings of a group,
    so a group is a name with a spelling.
- **LocalChannel**: parent, responder and initiator of `_run_local_agents`.
- **Stage8Run**: one run directory, file by file. `KindOf` says which of the raw files
  an observation goes to. A death in `append_observation` leaves part of a row, which no
  reader accepts, or the whole row without its newline, which every reader accepts and
  behind which the next row of its kind is written (`unended`, `glued`).
- **Stage8Registration**: the registration, the run directories and HEAD, for a
  registering and a running process, with each look at HEAD and at the campaign YAML
  a step of its own. It takes a run directory as one value, as `Stage8Run` takes the
  registration as fixed. Two constants of a behaviour say what the operators may do:
  register while a campaign runs (`overlap`), and move HEAD while a process is at work
  (`checkout`); each part of a property says under which of them it holds.
- **DirectorySwap**: the three replacements as variants of one procedure; what
  differs is what each handler restores and which exceptions it catches.

- **AssuranceOrder**, **PolicyCompiler**: the order of assurance vectors, and
  `compile_local_policy` with one step per rule, per index Z3 names, per profile and
  per category of a core. Z3 is an oracle that names indices in any order and may
  give up at every question. The encoding (`Constraint`), the plain explanation
  (`Violated`) and the definition of safety (`SafeFor`, by dominance) are separate.
- **Selector**: the evidence loader, normalisation, Pareto filter, regrets, choice,
  baselines and sensitivity analyses as operators. Normalised values are kept over a
  common denominator, so comparisons are exact; the code uses `Decimal`, whose
  quotients are rounded to 28 digits.
- **SelectorStage**: `validate_selector_stage`: evidence, the compilations of both
  sides (`PolicyCompiler`'s own steps), selection, report and verdict.
- **ConflictCertificate**: constraints, certificate, failure transcript, abort
  record, remediation and the independent verifiers, as operators. A hash is the
  domain with the payload.
- **Stage6Bundle**: `validate_stage6` with the search of `compute_ius` one question
  at a time, made once by each of its two components.
- **ConcurrencyTrial**: parent, workers and the manager's queue of
  `measure_concurrency`.
- **Measurement**: the adapters on top of `ConcurrencyTrial`, with the conflict
  chain of an infeasible observation from `ConflictCertificate`; the validator of
  the rows; the inventory.

The module with the proofs about a module M is M with `Proofs` added to its name;
`PolicyCompilerProofs` also holds those about `AssuranceOrder`, `Selector` and
`SelectorStage`, and `Stage6BundleProofs` those about `DirectorySwap`, through which a
bundle is replaced. `Stage8CampaignProofs` has what surrounds a run directory:
`Stage8Registration`, `LocalChannel` and `Measurement` with `ConcurrencyTrial`.
Operators whose comment begins with "Mutant" are faulty variants of the definition
after them; no specification uses them. `PROJECT.json` pairs them with the
properties they violate.

## Runs

| Run | Checks | Bounds |
|---|---|---|
| `in_memory_replay` | `NoEarlyReplay`, `LiveLeaseOnRecord`, `ReplayMemoryIsPermanent` | 2 contract IDs, times 0..3, 2 grants: a lease is purged and granted again while the other is live |
| `json_file_replay` | `AcknowledgedIsDurable`, `FileNeverForgets`, `AcceptsEachKeyOnce` | 1 handle, times 0..2, 1 failed write, any number of crashes |
| `commit_reveal` | `CommitmentHeldOnce`, `BoundBeforeReveal`, `TranscriptsMatchSessions`, `DecisionIsFinal` | 2 sessions, 5 reveals with matching, mismatching and expiring pairs, 3 altered transcripts, 2 transcripts verified |
| `trust_runtime` | `OneLiveLease`, `OnlyAuthorizedIsRegistered`, `TaskIsAgreed`, `OneTaskPerContract`, `FailClosed`, `EveryRuntimeEnds` | 3 runtimes, 2 of them on one session, 1 infeasible; clock 0..3, leases up to 2; 7 kinds of handshake |
| `stage8_run` | `CompleteIsSound`, `DerivedIsCurrent`, `NothingIsRewritten`, `IntactIsCompleted` | 3 observations in 2 raw files, 3 deaths anywhere, torn writes, rows without their newline, a failing measurement |
| `stage8_registration` | `EvidenceUnderRegistration`, `FrozenBetweenRuns` | 2 commits with different schedules, 2 environments, 2 observations; registering during a run, moving HEAD during a run, or neither; symmetric in environments and observations |
| `directory_swap` | `EvidenceOldOrNew`, `NothingOlderReturns` | the three variants, 6 attempts with exceptions, interrupts and kills |
| `swap_registration_rename_fails` | `OldOrNew` fails | 2 attempts, exceptions only |
| `local_channel` | `ProbeEndIsExplained`, `EventuallyQuiet` | all five timeouts |
| `selector_stage` | `SafeSetIsExact`, `CoreIsIrreducible`, `MonotoneInTask`, `SelectionIsFair`, `StructuralIsUnanimous` | 3 profiles, 2 policies with overlapping rules, 4 tasks, 5 sets of costs (trade-off, collapse, ties, skewed, a corner without range), weights in halves, every kind of input that is refused |
| `stage6_bundle` | `ConflictIsMinimal`, `PublishedChainIsBound`, `ReportedRejectionsHappen` | 3 profiles, registries of 2 scenarios with up to 4 constraints and several minimal conflicts, 2 unknown answers |
| `measurement` | `TrialIsAccounted`, `NoFailureIsHidden`, `TrialReturns` | schedules with all five kinds, trials of 2 and 3 workers, 1 worker that dies |

`in_memory_replay` and `commit_reveal` also check the type invariants, which their
proofs need.

The bounds let the interesting cases happen. Three workers are enough for one to die
before the barrier, one to wait in it and one to be terminated while its result is on
its way. Two unknown answers are enough for a search to keep a constraint it does not
need and for a verification to stay open. Three observations in two files are enough for
a row that lacks its newline to be spoiled by the next of its kind, and for one that is
the last of its file and stays as it is. Three profiles are enough for a frontier of
two beside a dominated profile. Two compilations are enough for the two sides of a
scenario and for two tasks that are compared.

The failing run shows where the code does not do what is said of it: a failing first
rename makes `_atomic_replace_registration` delete the registration it replaces.

### Weak points inside properties that hold

- `IntactIsCompleted` names the run directories no resume completes: one that was left
  while it was being created (`prepare_run_dir` never repairs a directory that exists),
  one with part of a row, one with two rows on a line, one with a failure row, and one
  whose file manifest was rewritten (it lists a left-over `.RUN_COMPLETE.tmp`) before its
  checksums were.
- `NothingIsRewritten`: a death may take the newline of a row only. `json.loads` accepts
  such a row and the resume counts it as completed, but `append_observation` then writes
  the next row of its kind on the same line. Neither can be read any more, though both had
  been written, and every later resume and validation ends in an error. If the row is the
  last of its kind the run is completed all the same. `Intact` is asked for infinitely
  often, so a directory that loses it in this way is not claimed to be completed.
- `TranscriptsMatchSessions` is about transcripts that carry the commitments of a session
  which accepted its pair, because `verify_transcript` looks up no session. It does not
  compare the agents either: a transcript with one agent on both sides, or of a pair that
  its session has rejected, verifies. That the stage scripts call `accept_reveal` before
  they build a transcript is all that excludes it, and no code compares the commitments of
  a transcript with those a session holds.
- `ProbeEndIsExplained` says that the local probe can be refused though nothing is
  wrong: the socket path exists after `bind`, the probe connects once, and only
  `listen` makes that succeed.
- `json_file_replay` is about one handle at a time. Two handles on one file keep their
  own tables, and the later flush drops what the other one published.
- `stage8_run` is about one runner. A second one on the same directory appends the
  same observation after both have looked; the validator finds it afterwards.
- `FrozenBetweenRuns` is about a registration with no run in progress. If a first row
  is appended between the look for rows and the rename, the registration is replaced
  although it was measured under.
- `EvidenceUnderRegistration`: HEAD is compared with the registration when a run starts
  and when it ends. A `git checkout` in between that is undone before the end goes
  unnoticed: the run completes with rows measured at another commit, whose
  `registration_commit` is copied from the manifest all the same. If a registration is
  made at that commit as well, before `run_campaign` loads the schedule the second time,
  the rows follow another schedule than the manifest says. Nothing is claimed of
  operators who do both.
- `NoFailureIsHidden` holds for runs that validate. A failed infeasible row has no
  `final_category`, and `_validate_infeasible` then ends in a `KeyError` instead of an
  error entry (`verdict = "raised"`). Failed component batches and concurrency trials
  leave a run valid, and only the inventory of failures shows them.
- `AdversarialRow` has `task` false always: `_execute_attack` raises before it could
  return what it invoked.
- `TrialIsAccounted`: a row is incomplete when a terminated worker outlasts the two
  seconds it is given and left no result. Processes a terminated worker had started
  itself are nobody's any more; they are not modelled.
- `PublishedChainIsBound`: the transcript names the hash of the abort record made
  before that hash was attached; the record that is kept has another one. No verifier
  compares the two. Remediation tries each constraint against the certified conflict
  and not against the whole scenario, which may have a second conflict.
- `ReportedRejectionsHappen`: the adversarial report of Stage 6, like the one of Stage
  7, is a table; what it lists is checked here and by no program. Some of the altered
  certificates and abort records would not get as far as the verifiers: the validators
  of the pydantic models (`models/conflict.py`, `models/abort.py`) already refuse to
  parse them. The model applies the verifiers to them as if they had been parsed. The two
  components of Stage 6 run one after the other in one process.
- `StructuralIsUnanimous` looks at weights and at the regrets of the point estimates.
  `uncertainty_sensitivity` calls a selection structural in all uncertainty corners from
  the frontier of the point estimates alone; that the other corners choose the same
  profile is not claimed (the report lists their choices).
- `TaskIsAgreed` rests on the native program's verdict: the executor compares the groups
  in the record with each other, and the program copies the requested one.

## Fairness

`TrustRuntime`: the driver is straight-line code whose calls all return (the
handshake is bounded by `NativeRunner`'s timeout), hence weak fairness of
`Drive`: as long as some runtime can go on, one does.
`Stage8Run`: a live process goes on (weak fairness of `Step`),
and the operator resumes an interrupted run in the end, however often somebody
starts it afresh (strong fairness of `Start(r, TRUE)`); nothing is assumed of
crashes but their number. `LocalChannel`: weak fairness of the three processes; a
timeout is a step of the process that waits. `Measurement`: weak fairness of the parent
of a trial and of the clock that brings its deadline; nothing of the workers, which may
wait in the barrier for ever. The other runs check safety only.

## Proofs

`InMemoryReplayProofs` proves, for all sets of keys and all bounds, the type
invariant, `NoEarlyReplay`, `LiveLeaseOnRecord` and `ReplayMemoryIsPermanent`. The
assumption is that the bounds are natural numbers.

`NoEarlyReplay` is not inductive: that an ID is not granted twice within a lease
depends on the first lease being on record when the second call is made. The
inductive invariant `IndInv` therefore joins the type invariant, `NoEarlyReplay`,
`LiveLeaseOnRecord` and `HighIsHistory` (`highRef` is at least every time recorded
in `grants`). A purge at time t drops only leases with `expires <= t`, and
raises `highRef` to at least t, so a lease with `expires > highRef` is never
dropped; a grant for an ID needs the recorded lease, if any, to be expired at the
time of the call, which is at most the new `highRef`. The lemmas say what each
registry operator does to the tables, and the temporal theorems combine them.

`CommitRevealProofs` proves, for all sets of sessions, agents, reveals, altered
transcripts and times, the type invariant, `CommitmentHeldOnce`,
`TranscriptsMatchSessions` and the action properties `BoundBeforeReveal` and
`DecisionIsFinal`. It uses `RevealsAssumption` (a reveal has the fields of its record)
and the modelling assumption that hashes are injective. Its inductive invariant adds what
the code relies on without saying so: the registry knows every commitment a session
holds as that session's (`Owned`; it makes an accepted commitment new to all
sessions, since `register_commitment` refuses a known one) and the ID of every session
that exists (`Registered`; it turns a second object of that ID away, which would start
with empty tables); an accepted reveal opens the commitment of its own session and role
(`Opened`); a session is rejected exactly if both its reveals are there and do not match
(`PairChecked`); and a verified transcript carries the commitments of its own reveals
(`SelfConsistent`, which is what `verify_transcript` computes again). A transcript and a
session with the same commitments then have the same reveals, which the session has
compared. There is one lemma per action.

`PolicyCompilerProofs` begins with the order: for every set of threats, dominance is a
partial order, and `RequirementJoin` and `Meet` are the least upper and greatest lower
bound in it: a profile meets the join of what the rules ask for exactly when it meets
each. It then proves `SafeSetIsExact`, `CoreIsIrreducible` and `MonotoneInTask` for
every catalog and all inputs, from `CompilerAssumption` (the types of a catalog and of
the inputs, and that what a policy allows and denies is disjoint). Two lemmas carry the
first two: the encoding holds of an index in all categories exactly when the index is a
safe profile (`EncodingIsSafety`), and the plain explanation names exactly the
categories whose constraint fails (`ExplanationIsEncoding`). The inductive invariant
says what the locals of a compilation mean: the enumeration has named satisfying indices
only, and all of them once it is over; the profiles before the one at hand are decided,
and the rejected ones explained; while a core is minimised it is unsatisfiable, and every
category that was looked at and kept is needed. The last part is what makes one pass
enough: dropping a category later only removes constraints, so what was needed stays
needed.

`MonotoneInTask` is about the result of a loop over the rules of a policy of any length.
The invariant `DerivationInv` says what that loop computes without repeating it: after n
rules, a vector dominates the requirement exactly when it dominates the base and the
contribution of each of the first n rules that match (`Derived`). A class that is
not given is -1 and so asks for nothing. Then the requirement of the higher task, which
dominates itself, dominates every contribution that the lower task matches, as matching
is monotone (`MatchesIsMonotone`). This is what `validate_mapper_monotonicity` looks for
on a grid of neighbouring tasks, for every policy.
The theorems are about `PolicyCompiler`'s own specification;
`StageImplementsCompiler` shows that `SelectorStage`, the specification that TLC runs,
implements it, and `StageCompilesSafely` that the results hold there.

The same module proves `SelectionIsFair` and `StructuralIsUnanimous` of the selector stage,
for every catalog, all costs and all weights, from `StageAssumption` (preferences are of
their type, the groups are those of the catalog, and point estimates are integers; that
they are positive is what the loader checks) and `SelectorAssumption`. The invariant
`StageInv` says that past the loading the evidence is one that loads, so its costs are
positive, and that a report is what the selector computes from it for the profiles that
both compilations returned, of which there are some.
The rest is about the operators. That there is a least cost, a least regret and a first
key is not given: it comes from the naturals being well founded (`LeastNat`, from the
library's `WFMin`), and so does the bound that a maximum needs (`Bounded`, by the least
counterexample). Whatever the Pareto filter removes is dominated by something that stays
(`FrontierExplains`: of all that dominate it, one with the least total cost).
Normalisation and weighting keep the order of costs (`NormalizedKeepsOrder`,
`WeightedKeepsOrder`), so the best common profile of a side is matched on the frontier
(`BestIsOnFrontier`), and a profile with the least maximum regret on the frontier has the
least among all common ones (`ChoiceIsFair`). With one profile on the frontier nothing
is left to weigh (`NothingToWeigh`).

`TrustRuntimeProofs` proves all safety properties of `TrustRuntime` for any number of
runtimes, sessions and profiles, any bound on the clock and whatever is presented to the
gate, from `RuntimeAssumption` (the types of what was agreed) and `HandshakeAssumption`
(the fields of a handshake). The invariant is `Core`. `OneLiveLease` needs that a lease
stays on record until it is over (`LiveLeaseOnRecord`), since the registry's memory of it
is what turns the second one away. `TaskIsAgreed` needs that the state of a runtime says
what it has done, no context before the gate and one handshake, in the contract's group,
after it (`StageFacts`), that every authorization passed the gate's checks when it was
given (`GateFacts`), and that the task protocol remembers each request it executed
(`TaskFacts`). `FailClosed` is an action property on top of it.

`JsonFileReplayProofs` proves `AcknowledgedIsDurable`, `FileNeverForgets` and the
refinement of `OneTimeUse` (`AcceptsEachKeyOnce`) for every set of keys, all bounds, and
crashes and failed writes at every step. Besides `BoundsAssumption` it uses
`ContentAssumption`: a file that is absent, a torn one and an image are told apart. That
`os.replace` never publishes less than it overwrites needs that the tables in memory keep
all that the file holds (`MemoryKeepsFile`), that the temporary file holds exactly those
tables when it is renamed (`Publishing`), and that the registration about to be
acknowledged never was (`PendingIsNew`). The theorems have the hypothesis `OneHandle`,
any number of handles but one at a time, which is also the run's bound. Two handles
overwrite each other's registrations, as said above: without it they are false.

`Stage8RunProofs` proves `CompleteIsSound`, `DerivedIsCurrent` and `NothingIsRewritten`
for every schedule without repetitions (`ScheduleAssumption`; `deterministic_schedule` gives
every observation its own ID), any number of deaths and every torn write, under the
hypothesis `OneRunner`, for the same reason. The rename that makes `RUN_COMPLETE` looks at
nothing, so what `validate_run` found must be carried through `finalize_run`, and at each
step what was written must still be what is there (`FinalizeFacts`). A completed
directory is left alone because no process is past `prepare_run_dir` in it (`Opened`), and
a row is new, and written to raw files that can be read, because `append_observation` has
just looked (`RowIsNew`). So what an append can spoil is a row that lacks its newline
(`AppendFacts`), and files that cannot be read stay as they are.

`Stage8CampaignProofs` proves `EvidenceUnderRegistration` and `FrozenBetweenRuns` for
all commits, environments and run directories, from `RegistrationAssumption` (each commit
has a schedule) and `AbsentAssumption` (a missing directory is not a run). There is no
hypothesis on the processes or on HEAD: whether a registration may be made, or HEAD moved,
during a run are the variables `overlap` and `checkout`, and the properties say what holds
in which case. A campaign process reads the registration three times; `RunnerFacts` says
that, where HEAD was left alone, whatever replaced the registration in between was made at
the commit that is checked out (`RegistrarFacts`), and where nobody registered, that
nothing replaced it, so that either way the schedule of the rows is the one of the
manifest. `NothingMeasured` says that without overlap a registrar past its look for
measured rows still has none, wherever HEAD is.

It also proves `ProbeEndIsExplained` for every set of timeouts (`TimeoutsAssumption`). The
invariant says where the three processes can be with respect to each other when a timeout
struck (`ProbeOrder`), and how far the exchange has come when none did (`Undisturbed`):
a probe that fails without a timeout needs a responder that went away, and an undisturbed
one does not.

`TrialIsAccounted` and `NoFailureIsHidden` are proved there for every set of campaigns,
any number of workers up to the level and any number of deaths, from `TrialAssumption`
and `CampaignAssumption` (None is not a value it stands for; a concurrency observation asks
for a level that there are workers for). The difficulty is that a report may still be on
its way to the queue while its worker is joined, terminated or already taken for dead, and
that the parent adds a failure for each process it has no report of. The invariant follows
each report from its worker over the manager to the list of results, where it is once at
most (`ReportedOnce`), and says
that a process which exits with 0 has had its report delivered (`WorkerFacts`); results
and processes added for the missing then name different workers, which a count turns into
`Len(results) <= level`. A failure is not hidden because the row of a failed measurement
says so (`RowInv`); for a trial that is the same count again: as many successes as
workers are a completed session of each.

`Stage6BundleProofs` proves `ConflictIsMinimal` and `PublishedChainIsBound` for every
registry of scenarios, each core the solver may return and every pattern of missing
answers, from `BundleAssumption`: a registry is a non-empty sequence, a scenario has
finitely many constraints, and listing them by ID lists each (what `sorted` does). While
`compute_ius` runs, what is left is unsatisfiable and, unless an answer was missing, each
constraint passed since the last one dropped is needed (`SearchInv`); at the end of the
loop that is minimality. A core with an undecided constraint may get into a certificate,
so a certificate is minimal only if all answers came or its verifier found no
fault (`CertificateInv`), and the bundle's report asks for the latter (`PublishedInv`).
For the chains, the abort record names by its hash the certificate that the abort component made
itself, and takes the reason from it (`ChainInv`); the report compares that
hash with the conflict component's certificate, so the payloads are equal and the
reason is the category of the published one.

`ReportedRejectionsHappen` is proved from the same invariant for every alteration of the
listed kinds. Which code shows depends on what the chain is known to be: that a
constraint less or more is noticed is the minimality of the conflict, that another session
or reveal is noticed is that the transcript carries the scenario's session and the
commitment to its whole safe set (`ChainFact`), and the remaining cases are hashes taken
over what they say. `BundleAssumption` has what the table takes for granted about the
registered scenarios: the last one's safe sets meet (`multi-cause-conflict` has all
profiles on both sides; else claiming an empty common set would be no lie), the first has
a session of its own (`session_id` hashes the scenario's ID), and zero is nobody's source
hash. `NoneAssumption` says that None is neither a profile nor a category.

The same module proves `EvidenceOldOrNew` and `NothingOlderReturns` for any number
of attempts and each way an attempt can end, from `VariantAssumption`. A backup may be
left by a kill and met by a handler two attempts later, so the invariant has to say what
is on disk at each step (`StepFacts`) and that a backup that stands in for a missing
bundle or report is the version published last (`BackupIsCurrent`).

Only model-checked:

- all liveness: `EveryRuntimeEnds`, `IntactIsCompleted`, `EventuallyQuiet`,
  `TrialReturns` (fairness and ENABLED are out of the prover's reach);
- that sorting a scenario's constraints by ID lists each of them, which `BundleAssumption`
  asks of the registries: `SetToSortSeq` takes its order as an operator, which the provers
  cannot instantiate; TLC evaluates it for the scenarios of the run.

Every invariant and every action property that a passing run checks is stated by a theorem.

## What is left out, and why

Hashes are injective and signatures are flags. A write that is not atomic is done, or not
done, or cut off: of a row part of it or its newline is missing, and of a checksum file
everything or part of a line. `Stage8Run` treats a measurement as good or bad, and
`Measurement` treats the run directory as the list of its rows. Timings, resource
counters and solver statistics of a row are left out. That `Decimal` rounds, and two
costs that are equal as fractions may come out unequal in the last digit, is left out
of `Selector`.

Not modelled:

- discovery and framing: only unit tests use them, no program does;
- calibration: a straight-line driver of the native programs, and statistics;
- Stage 9 and the cost analyses: real-valued statistics and figures, beyond TLC;
- the ML-DSA program, contract signing and key manifests: calls of `openssl` and
  comparisons of files, which have no state of their own;
- the traces and reports of Stage 7: `_trace` writes each trace from one of the constants
  `FEASIBLE_STATES` and `INFEASIBLE_STATES`, and `validate_state_trace` compares it with
  the constant it was written from; no trace is the history of a runtime. The rest are
  tables of constants and comparisons of hashes.
  (`_validate_sessions` does not compare the trace hash of an infeasible session
  with the session.)
- the TCP endpoints, which the campaign does not use.

## Further work

- the hypotheses `OneHandle` and `OneRunner`: what remains true with two handles on a
  registry file, or two runners in a run directory, could be stated and proved instead;
- `DirectorySwap` and `Stage8Registration` could be composed, so that the replacement of a
  registration and the runs that read it are interleaved rename by rename;
- `Stage7` reports and the Stage 9 inputs, as far as they are more than tables.
