# TLA+ models of opencode-eval-runner

This directory holds TLA+ specifications of the parts of the repository whose
behaviour depends on the order of events, on failures or on crashes, the TLC
configurations that check them on small instances, and TLAPS proofs of the
properties that matter most. Every definition is a translation of the source
under `runner/` and `container/`; `PROJECT.json` names the lines.

The rest of this file: [the system](#the-system) ·
[the modules](#the-modules) · [the runs](#the-runs) ·
[bounds, fairness, assumptions](#bounds-fairness-and-assumptions) ·
[what is proved](#what-is-proved) ·
[disagreements found](#disagreements-found) ·
[what is not modelled](#what-is-not-modelled) · [the plan](#the-plan)

## The system

One `eval` command evaluates a set of cases. On the host, `run_eval` plans the
jobs (case × iteration), claims an artifact directory and runs two lanes of
jobs in thread pools. A job is an evaluation: target attempts, deterministic
checks, judge attempts, a verdict, an artifact. Every attempt is one container
that runs OpenCode once. Inside the container, a plugin in the OpenCode process
observes every tool call and streams records over a loopback connection to the
container's entry point, which builds *runtime evidence* from them. The host
trusts that evidence twice: a verdict needs *complete* evidence where the case
asks for it, and an attempt may be repeated only if evidence proves that the
model used no tool.

```
 eval_cli.run_eval ──► eval_plan            ──► RunArtifactStore (claim, write, read)
     │  two lanes, thread pools
     ▼
 eval_engine.run_evaluation_phase            checks, judge gate, verdict, artifact
     ▼
 eval_execute._run_attempts                  attempts, classification, retry
     ▼  one container per attempt
 container/invoke.invoke_opencode ─ subprocess ─► opencode + native_observer.ts
     │                                                │ loopback, JSON lines
     └── RuntimeObservationTransport ◄────────────────┘
            └─► load_runtime_observations ─► build/account/validate_runtime_evidence
```

| Component | State it keeps | Operations | What is hard | What makes it correct |
| --- | --- | --- | --- | --- |
| Attempt loop (`eval_execute.py`) | attempt records, retry decisions, `final_readiness` | invoke, classify, decide, sleep, retry | a failed attempt may already have acted; policies ask for anything; a stale readiness survives a later failure | nothing that acted is repeated; only failures are; every retry is explained |
| Engine and verdict (`eval_engine.py`, `eval_classification.py`) | check results, judge outcome, classification | checks, judge gate, judge, parse, classify, seal | every project callback may raise; failures combine | a verdict is earned by the last target attempt and the judge, infrastructure trouble is never a fail |
| Evidence readiness (`eval_evidence.py`) | – | readiness of boundaries and fields | a shape of evidence nobody considered | ready only on evidence the requirement names |
| Runtime evidence (`runtime_evidence.py`) | – | build, account, validate | builder and validator must agree on every stream | complete exactly for a faultless capture; invalid stays invalid |
| Observation transport (`native_observer.py`) | `_data`, `_issue`, the thread | accept, receive, finish, load | the peer stops anywhere; join with a timeout; limits | evidence is always built; a loss is reported |
| Observer plugin (`native_observer.ts`) | `nativeActive`, `activeOuter`, counters, socket | wrap, hook, event, inner call, teardown | callbacks interleave at every await | complete evidence is the whole truth |
| Run orchestration (`eval_cli.py`) | artifacts and errors of a lane, statuses, manifest | discover, claim, run lanes, persist, summarise, render, exit | jobs raise while others run; storage fails; files change between reads | exit status, manifest and files agree |
| Artifact directory (`eval_artifacts.py`) | owner file, artifacts, temporary files | claim, release, assert, atomic write | claims race; crash between creation and content; ownership checked before the write | one run per directory |
| Planning (`eval_plan.py`) | – | validate, select, expand, order, bound | duplicate ids, shared aliases, zero means all at once | the plan is the selection, each job once; standard lane first |
| Paired evaluation (`eval_paired.py`, `eval_compare.py`) | two outcomes, a comparison | run both sides, compare | one side raises while the other is paid for; sides end without a judgment | a comparison only of two usable sides, and a label that fits the verdict |
| Assertions (`eval_assertions.py`) | – | require evidence, match, decide | tools, inputs and results may each be unavailable; occurrences and orders | a check that is decided does not depend on what is withheld |
| Built-in families (`eval_builtin.py`) | invocation records, per-case assertion data | gate, grade, report | checks that were never made, records shared by two phases | the report tells the attempts and each assertion, in agreement with the verdict |
| Verified output (`eval_output.py`) | – | re-read, verify, render | the run directory changed | nothing unverified is rendered |
| Host call (`cli.py`, `model_catalog.py`) | temporary inputs, database copy and catalog of a call, the client process | prepare, run, time out, read the result | the client dies or is killed while the container goes on; a torn result | a reply tells the run; nothing acts after it; nothing temporary is left |
| Container entry (`invoke.py`) | preflight server, product process, result object | preflight, run, time out, emit | the server never reports, cannot be stopped; the product hangs or its pipes do; the container is killed anywhere | evidence is as bad as what was lost; one OpenCode at a time |
| Credential safety (`evidence_safety.py`), input contracts (`eval_input.py`), image and action (`oci_image.py`, `Containerfile`, `action.yml`) | – | match, parse, package | – | – |

Interactions: the plan and the store are plain calls; lanes are threads over
shared dictionaries that only the main thread reads after the pool is closed;
the container is a subprocess with a timeout, whose client and whose inside
die separately; the plugin and the receiving
thread share one TCP connection and nothing else; evidence is a value that
crosses the process boundary once.

`PROJECT.json` lists the hazards one by one, each at the line where it bites
and with the properties that would notice it.

## The modules

The arrows are `EXTENDS` (solid) and `INSTANCE` (dashed).

```
 InvocationOutcome ◄── EvaluationPhase ┄┄► AtMostOnce         (attempts, verdict)
    ▲   ▲   ▲                ▲
    │   │   │         FamilyResult                              (reports)
    │   │   │                ▲
    │   │   │         EvaluationPhaseProofs, MC_EvaluationPhase
    │   │   │
    │   │   └── PairedEvaluation ◄── PairedEvaluationProofs, MC_PairedEvaluation
    │   │
    │   └────── ContainerInvocation ┄┄► OneInvocation           (one container call)
    │                  ▲
    │           ContainerInvocationProofs, MC_ContainerInvocation
    │
 RuntimeAssertions                                              (checks of evidence)
        ▲
 ObserverCapture ──► RuntimeEvidence ◄── NativeObserver         (evidence)
        ▲                   ▲                 ▲
 MC_ObserverCapture         │          MC_NativeObserver, MC_SharedIdentity
        │                   │                 │
 ObserverCaptureProofs ──► EvidenceProofs ◄── NativeObserverProofs

 RunPlan ◄── EvalRun ◄── EvalRunProofs, MC_EvalRun              (one command)
 ArtifactDirectory ┄┄► OneOwner
        ▲
 ArtifactDirectoryProofs, MC_ArtifactDirectory
```

**InvocationOutcome** — the vocabulary that host and container share: the
shapes of evidence (`Evidence`, by what `validate_runtime_evidence` allows), of
results, the `Replies` that are true of what the model did, `ClassifyResult`,
`RetrySafe`, `EvidenceReadiness`, `ApplyReadiness` and `ClassifyEvaluation`.
Pure operators, no state.

**EvaluationPhase** — `run_evaluation_phase` with the loop `_run_attempts` run
once for the target and once for the judge. `stage` is the program counter;
`attempts`, `decisions`, `readiness` (the nonlocal `final_readiness`), `checks`
and the judge's outcome are the local variables; `artifact` is what
`build_eval_artifact` seals. An invocation is an action of its own for each way
it can end: a result (every one of the `Results`), a caught exception, an
exception of the readiness check, an exception that escapes. `acted` is the one
history variable: whether the model ran a tool in the attempt.
`AtMostOnce` is what the loop promises to whoever pays for side effects, and is
implemented twice, with `tried` and `acted` read off the attempts.

**FamilyResult** — what a built-in family reports of a sealed evaluation, so an
extension of EvaluationPhase without state of its own. `Recorded` is the list of
invocation records that adapter and phase share, `ExpandInvocations` and the two
`...Attempts` are how the agent-runtime reader and the skill side pair records,
attempts and decisions. The statuses of the individual checks are not kept by
EvaluationPhase, only their set; `OutcomesOf` is every way in which they can be
those of the assertions a case was authored with, and `ReportedAssertions` what
`completed_artifact_metadata` lists.

**OneInvocation**, **ContainerInvocation** — what the loop takes for granted
about one call: the model may act while it is pending, it ends once, and nothing
acts after a reply. ContainerInvocation is how `cli.invoke` and
`container/invoke.main` keep that. `host` is the program counter of the host,
`container` that of the entry point, `client` and `clientExit` the engine's
client, `server` the preflight server, `product` OpenCode or Copilot, `temps`
what the call put on disk. Every failing step of either side has its action;
`ClientDies`, `ContainerDies`, `OuterTimeout` and `InnerTimeout` may come at any
point where the code waits. The commands and their flags are data, but which
calls are refused is not.

**RuntimeAssertions** — the checks of an authored case over the observations of
evidence: what a case requires to be available
(`target_evidence_requirement`), which observations match, which check passes,
fails or cannot tell. Pure operators, no state.

**RuntimeEvidence** — `load_runtime_observations`, `build_runtime_evidence`,
`account_runtime_evidence` and `validate_runtime_evidence` as operators on a
sequence of lines. A line keeps what the code branches on (form, sequence
number, kind, identity, boundary, outcome, parent, whether a required field was
omitted) and nothing else.

**ObserverCapture** — an unconstrained writer: any line may arrive next, and in
every state the capture may be closed and built under any process state. It
asks whether the builder fails closed on *every* stream, not only on those the
plugin writes, and what the checks of a case (`Cases`) then say of it, so it
composes RuntimeEvidence with RuntimeAssertions.

**NativeObserver** — the plugin that really writes, its process, the
connection and the receiving thread. Each callback is split at its awaits: a
wrapper or a hook that registers an identity (`EnterWrapper`, `EnterHook`) and
later writes its start (`WrapperStarts`, `HookStarts`, after the parent session
was fetched), a terminal event that was published and later handled
(`Publish`, `Settle`, `Cancel`, `HandleEvent`), an inner Code Mode call
(`EnterInner`, `InnerReturns`), and a teardown in three steps (`Dispose`,
`Abort`, `WriteCaptureEnd`). On the other end are `Accept`, `Receive` and
`Finish`, which joins the thread with a timeout and so may read before the
connection is drained. The environment breaks the connection, fails the
subscription, stops the process or lets it time out. `setting`, chosen at the
start and never changed, says which tools are registered ones and how much the
receiving thread takes.

**PairedEvaluation** — `run_paired_evaluation`, `compare_completed_outcomes`
and `build_paired_eval_artifact` for one job, under the skill family's
callbacks or a project's. Of an EvaluationPhase only the end of each stage is
kept: `target` is what the last target attempt shows of the tested skill,
`check` the skill family's one deterministic check, `grade` the accepted
judgment (counts instead of lists), `classification` the outcome. A side may
raise wherever it invokes. `ClassifyEvaluation` is the one of
InvocationOutcome; a failed judge and a rejected answer both leave no semantic
decision, which it cannot tell apart. `status` is what `_persist_lane` makes of
the artifact: the verdict EvalRun calls the job's result.

**RunPlan** — `eval_plan.py` and the selection rules of `run_eval` as operators
on a request: what is refused, what is selected, how it is expanded over the
iterations and scheduled. Pure operators, no state.

**EvalRun** — `run_eval`. `plan` is what RunPlan makes of the `request`, `work` is what the pool knows of each job, `statuses`
the dictionary of the same name, `disk` the artifact files, `manifest` is
`run.json`, `cursor` the job a loop over the plan has reached. The lanes are
concurrent; discovery, persistence, summary and rendering are loops of one
thread, each write and each read a step of its own because files may change
between them (`Disturb`), a write may fail (`StorageError`) and the process may
be killed (`Kill`). What goes on inside a job is EvaluationPhase; here a job
ends in a classification or raises.

**ArtifactDirectory** — `claim_run_artifact_directory`, `_assert_owned` and
`_atomic_write_json`, one step per system call, for several processes.
`owner` is the owner file (absent, empty or naming a run), `pc` where a process
is. Of an artifact and of a temporary file it keeps whose it is and whether all
of it is there: `temp` is the temporary file of each write, torn until it is
written and synced (`CreateTemp`, `WriteTemp`), `files` and `halves` what took an
artifact's name (`Replace`), `left` the temporary files that a kill or a failing
unlink (`RemoveTemp`) leaves to the directory. A write that fails goes through
its `finally` clause as a step of its own. What a crash of the machine does to
data that was not synced is not modelled. `OneOwner` is the abstract directory: claimed while empty, released while
empty, filled by its holder only, and emptied from outside.

## The runs

| Run | What it asks | Result |
| --- | --- | --- |
| `evaluation_phase` | three target and two judge attempts, every result, exception, policy and gate, and the family's report of each end | holds, 243,020 states |
| `family_empty_arrays` | an output group that is there and has nothing in it | **violated**, see below |
| `capture` | every stream of up to four tool lines, or fewer with faults, and seven cases to be checked on it | holds, 102,149 states |
| `observer_execute` | an execute with an inner call, the Code Mode one or a registered tool of that name, cancellation, one environment fault, a capture limit, exit at any moment | holds, 398,341 states |
| `observer_shared_identity` | three plain calls, two of them with one identity, all interleavings, no fault | holds, 3.7 million states |
| `observer_same_execute` | two Code Mode executes with one identity | **violated**, see below |
| `eval_run_commands` | five commands of a profile, the agent-runtime and the skill family and nine that must be refused, one fault | holds, 37,967 states |
| `eval_run_discovery` | a profile whose discovery raises | **violated**, see below |
| `paired_evaluation` | skill pairs and a project's pairs, both modes and orders, every evidence, judgment and exception | holds, 306,408 states |
| `directory` | two processes of one run and one of another, three faults, and a directory that is wiped twice while they work | holds, 792,423 states |
| `container_invocation` | thirteen kinds of calls, every death and timeout of client, container, server and product | holds, 68,029 states |

What the properties say, by module:

- *EvaluationPhase.* `ReplaySafe`: an attempt in which the model used a tool is
  the last one of its phase, whatever a policy answers. `OnlyFailuresAreRepeated`:
  budgets are kept and a clean attempt ends its phase. `HistoryExplained`: the
  artifact has exactly one decision per failed attempt, at the right position,
  and `_attempts_json` never meets one that belongs to no attempt.
  `VerdictIsEarned`: pass and fail are given exactly when the last target
  attempt is clean on its own ready evidence, the judge delivered, and the
  checks decide. `JudgeNeedsEarnedTarget` (an action property): neither checks
  nor judge ever run on a target whose own last attempt does not deserve it.
  `PhasesActAtMostOnce`: the two refinements. `StepsArePaidFor`: every step uses
  up one of the steps the two budgets give, so that a phase ends.
- *FamilyResult.* `ReportTellsTheAttempts`: each attempt is shown with the
  invocation it was made with and the decision that followed it, although the
  agent-runtime reader and the skill side find them in different ways, and a
  verdict with the evidence it rests on. `EveryAssertionIsReported`: each
  authored assertion has one outcome, whatever became of the target and its
  checks, and the outcomes do not contradict the verdict beside them.
- *ObserverCapture.* `BuiltEvidenceIsAccepted`: the builder never ends in an
  exception of the validator, and has no shape that `InvocationOutcome!Evidence`,
  on which the host's model rests, lacks. `CompleteExactlyWhenFaultless`:
  evidence is complete for a faultless capture of a completed process and for
  nothing else; `Faultless` is written as a condition on the stream and shares
  nothing with the code's bookkeeping. `InvalidStaysInvalid`: no later line
  repairs an invalid capture. `ChecksTellTheLines`: a case passes or fails only
  on a faultless capture of a completed process and then as the lines
  themselves say, and a capture that shows all a case reads is decided.
- *NativeObserver.* `CompleteIsTheWholeTruth`: complete evidence lists every
  call that was dispatched, once, with the outcome it had.
  `NoInvocationProofIsSound`: evidence that allows a retry was built from a run
  without any tool call; this is what `InvocationOutcome!Replies` takes for
  granted, and `RunsAreReplies` proves that the modules fit. `DuplicatesFailClosed`, `GapsAreReported`,
  `CleanRunsAreComplete` (failing closed costs nothing when nothing failed) and
  `EvidenceIsBuilt` (liveness).
- *EvalRun.* `PlanIsTheSelection`: the jobs are exactly the iterations of the
  selected cases, each once (so no two share a status or an artifact), the
  standard lane first and otherwise in the order of the suite.
  `ExitIsEarned`: status 0 and 1 mean that every job of the plan has
  a durable artifact, that the manifest repeats its classification, and that
  the report, if any, agrees; a file changed before its last read is no excuse.
  `ManifestTellsTheRun`: whatever raised, the final manifest and the disk tell
  of each job what happened to it. `RuntimeLaneIsGated`: no runtime job starts
  before each standard job has its verdict. `OnlyFaultsLeaveARunOpen`: a job
  that raises never costs the run its final manifest. `Terminates`, and
  `StepsArePaidFor`: no job is run twice and no pass over the plan starts again.
- *PairedEvaluation.* `SidesRunInTurn`: no side works after the pair is over
  (its workspace would be gone), whatever happened to the other one, and nothing
  is paid for the second half of a sequential pair that failed.
  `PairVerdictIsEarned`: a completed skill pair passes, fails or is non-evidence
  exactly as its evidence and judgments, read independently of the code's
  checks, say, and is never an error: `compare_pair` raises on a side without a
  judgment and never meets one. `PassIsNoRegression`: the label computed from
  the scores does not contradict the verdict computed from the classification.
- *ArtifactDirectory.* `HeldDirectoryIsOneRuns`, `ImplementsOneOwner`: claims
  that interleave, fail, crash and resume never let two runs into one directory
  or one run into a used directory, before and after a wipe that met no write.
  `StrayWritesWereInFlight`: after any wipe, the stale check before a write costs
  at most the write that was under way. `RefusalsAreForAnother`: in a directory
  that was empty at the start, and without faults, a process is refused only for
  one that is about to have it or has had it, so racing claims do not all refuse
  one another; `EmptyDirectoryIsClaimed` (liveness) adds that somebody does get
  it. `ArtifactsAreWhole`: whatever fails or is killed, and although processes of
  one run write at the same time, no half artifact is put in place.
- *ContainerInvocation.* `ImplementsOneInvocation`: the call ends once, its
  reply is true of what the model did, evidence of no invocation included, and
  nothing of it acts afterwards; only an exception leaves a container behind
  that may. `ReplyTellsTheRun`: a reply that is no infrastructure error tells
  how the product ended, whatever else died. `OneOpenCodeAtATime`: the product
  never shares the database with the preflight server.
  `TemporaryInputsLiveWithTheCall`: no file of a call outlives it or vanishes
  under it. `CallEnds`, whatever hangs inside the container.

The type invariants are theorems; no run repeats them.

Each property has a mutant in `PROJECT.json`: a plausible mistake in one
definition (it stands before the definition it replaces and is marked
*Mutation*) under which TLC finds the property violated. The mutants are
otherwise unused.

## Bounds, fairness and assumptions

Bounds are constants of the modules and set in the `.cfg` files.

- `TargetMaxAttempts` 3, `JudgeMaxAttempts` 2: three attempts give a first, a
  middle and a last one, so a readiness left over from an earlier attempt and a
  decision recorded at the wrong position both appear. The proofs hold for any
  number.
- `Jobs` in `MC_EvaluationPhase`: all policies and all gates, varied one at a
  time because the gate is read only after the last target retry; the
  requirements are the empty one, one that can be met and one that cannot.
- `Assertions`: two, so that one can pass beside one that fails or is missing.
- `Budget` 4 in ObserverCapture: four tool lines hold an execute, its inner
  call and both ends; a fault counts twice because one is enough to make the
  capture faulty. `MaxRecords` 6 lets streams pass the limit. Of the two
  `Alphabets` one is about an execute and its inner call, the other about plain
  calls with redacted, omitted and unusual values. The seven `Cases` ask for and
  forbid tools, actions, groups of alternatives, results, occurrences and orders.
- NativeObserver: one native call with an inner call, or three native calls two
  of which share an identity, which is what the shared maps `nativeActive` and
  `activeOuter` need to be raced on. `MaxFaults` is 0 or 1 faults of the
  environment *before* the process stops; how much of the stream is lost when it
  stops is free. A setting has `maxCapture` 4 or 6 lines and `maxChunk` 1 or 2
  lines per `recv`; `deferred` lets the receiving thread wait until the process
  has stopped. The plugin never reads from the connection, so it cannot tell,
  and what was not received may still be lost; the setting of the registered
  execute does not restrict the thread. `MaxRecords` 9 is more than any of these streams has lines. The two
  calls that share an identity are interchangeable, so `MC_SharedIdentity`
  permutes them; it checks no liveness property.
- ContainerInvocation: calls of OpenCode with and without a preflight, an agent,
  a database and its pinned catalog, and an ambiguous reasoning; calls of
  Copilot with and without a token; and a refused one. Nothing in a call is
  counted, so there is no other bound.
- EvalRun: five commands and nine that must be refused, one of which is chosen
  at the start. In the profile two standard jobs raise, finish and interleave in
  every way and one runtime job is enough to be gated; another repeats one case;
  the agent-runtime commands have a job in each lane, against the order of the
  suite or by a shared alias, and render their output; the skill command has two
  pairs under two workers. One fault: a second one could only hide the first.
- PairedEvaluation: skill pairs of 1, 4, 10 and 11 items, with and without
  rules and a trap, so that one item is more than, exactly and less than the ten
  percentage points that make an improvement material; every combination of
  grades is tried. The skill family runs its pairs with the default policy
  (sequential, baseline first); the other modes belong to a project's pairs, of
  which the CLI runs none by itself.
- ArtifactDirectory: three processes, two of one run, with three faults and two
  wipes. `Failing` names the processes whose claim may fail once its content is
  written; before that any claim may.

Deadlock is checked for EvaluationPhase, PairedEvaluation, EvalRun,
ArtifactDirectory and ContainerInvocation, which end in a named stuttering step. It is off where a run
may really stop: ObserverCapture when the budget is used up, NativeObserver once
the evidence is built.

Fairness:

- *NativeObserver*, weak fairness of `TimeOut` and `Finish` only: the process
  runs under `subprocess.run(timeout=...)` and `finish` joins the thread with a
  timeout. Nothing is assumed of the plugin, OpenCode or the connection.
- *ContainerInvocation*, weak fairness of `HostStep` and `OuterTimeout` only:
  the host's own code and the timeout of its `subprocess.run`. Nothing is
  assumed of the engine, the container or what runs in it.
- *EvalRun*, weak fairness of the command's own steps. Jobs end because
  invocations are bounded by their timeouts and attempts by their budgets
  (`EvaluationPhase!StepsArePaidFor`, proved for every budget).
- *ArtifactDirectory*, weak fairness of each process's claim: none of its
  system calls waits for another process.

Assumptions about what is not in this repository:

- OpenCode publishes one terminal session event for each native call, starts an
  inner call only while its outer execute runs and is not cancelled, and
  dispatches no native call once it disposes of its plugins. Without the second
  one `CompleteIsTheWholeTruth` fails: an inner call that starts after the
  capture was closed leaves no trace. The code cannot enforce it.
- `InvocationOutcome!Replies` takes evidence of no invocation at its word.
  `NativeObserverProofs!RunsAreReplies` justifies it inside the container and
  `ContainerInvocation!ImplementsOneInvocation` on the way to the host.
- The directory is wiped only while nobody is claiming it. Otherwise a claim
  that is about to give up unlinks the owner file by its path, and that file
  may by then be another run's (see the hazard at `eval_artifacts.py:945`).
- In `directory` and in the theorems that name `Undisturbed` only a process that
  shares its run with nobody may fail once its claim is written (`Failing`). If two
  processes of one run claim at once, the first one's failed sync removes a claim
  the second one has already accepted. The command line never shares a run id,
  so only callers of the library could.
- A `BaseException` that is no `Exception` is a kill.

The named `ASSUME`s restrict constants to values of the right kind.
`FamilyResult!AssertionsAssumption` keeps the name of the output entry apart
from those of assertions. `ObserverCapture!AlphabetsAssumption` says that what
is put into the stream as a tool line is one, `ObserverCapture!CasesAssumption`
what an authored check is (one of three families; only results have an
occurrence and a call to come after; a check of tools asks no input), and
`NativeObserver!CallsAssumption` that native and inner calls are different
calls and that an inner call belongs to an execute.

## What is proved

`tlapm` on the eight modules named `...Proofs` checks all of it. The constants'
named assumptions are evaluated by the runs.

**EvaluationPhase**, for all attempt budgets ≥ 1 and every set of jobs:

| Theorem | States |
| --- | --- |
| `TypeCorrect` | `[]TypeOK` |
| `ReplaySafety`, `RetriesRepeatFailures` | `[]ReplaySafe`, `[]OnlyFailuresAreRepeated` |
| `PhasesImplementAtMostOnce` | `PhasesActAtMostOnce`, the two refinements |
| `VerdictsAreEarned` | `[]VerdictIsEarned` |
| `HistoriesAreExplained` | `[]HistoryExplained` |
| `JudgesNeedEarnedTargets` | the action property |
| `StepsRunOut` | `StepsArePaidFor` |

The argument rests on two facts about the vocabulary (`ReadableFacts`: an
attempt marked replay-safe did not act, and a clean target attempt has ready
evidence of its own) and on three inductive invariants. `LoopInv` says that
whenever the loop is about to invoke, every earlier attempt failed and did not
act and there is room for one more; neither `ReplaySafe` nor
`OnlyFailuresAreRepeated` is inductive without it, because they do not mention
where the loop is. `VerdictInv` carries the verdict: what is known of target,
judge and contract at each stage, and that a clean last attempt leaves
`readiness` ready, which is why the stale `final_readiness` is harmless.
`HistoryInv` says at each place which decision, if any, the last attempt still
lacks (`DecisionsFollow`).

`StepsRunOut` says why a phase ends. `StepsLeft` starts at 2 * (`TargetMaxAttempts` + `JudgeMaxAttempts`) + 4; a step
down the stages costs one, and the one step back, to another attempt, is paid
for by the room in its budget, which `LoopInv` says is there. So a phase takes
no more steps than that, whatever a policy answers. That it takes the next one is
the sequential execution of one thread, and is not stated as a property: each
branch of the loop is the complement of the other.

**FamilyResult** (in EvaluationPhaseProofs), for every set of assertions too:
`ReportsTellTheAttempts` (`[]ReportTellsTheAttempts`) and
`AssertionsAreReported` (`[]EveryAssertionIsReported`). They need the three invariants above and
`JudgeInv`: a judge whose specification raised was never invoked, and that of an
agent-runtime case was asked only after all of its checks passed.

**PairedEvaluation**, for every set of pairs, whatever their numbers of
expectations and rules:

| Theorem | States |
| --- | --- |
| `TypeCorrect` | `[]TypeOK` |
| `SidesInTurn` | `[]SidesRunInTurn` |
| `PairVerdictsAreEarned` | `[]PairVerdictIsEarned` |
| `PassesAreNoRegressions` | `[]PassIsNoRegression` |

`TypeOK` is inductive only with `DecisionIsThere` (the status is read off a
decision that the validation of the envelope guarantees). `TurnInv` adds that a
side which has raised had started in its turn. `PairInv` carries, for each
side, what its check, its grade and its classification say of the evidence at
each place (`SideInv`), and from there what the comparison and the status say.
`LabelInv` ties the label to the scores; the contradiction it excludes needs
`Accepts`, the judge's own verdict agreeing with its details.

**ArtifactDirectory**, for any processes, runs and numbers of faults and wipes:

| Theorem | States | Assumes |
| --- | --- | --- |
| `TypeCorrect` | `[]TypeOK` | – |
| `WholeArtifacts` | `[]ArtifactsAreWhole` | – |
| `HeldDirectoriesAreOneRuns` | `[]HeldDirectoryIsOneRuns` | `Undisturbed` |
| `StrayWritesWereCaught` | `[]StrayWritesWereInFlight` | `Undisturbed` |
| `DirectoryImplementsOneOwner` | `ImplementsOneOwner` | `Undisturbed` |
| `RefusalsHaveAReason` | `RefusalsAreForAnother` | – |

`Undisturbed` says that a process whose claim may fail once it is written shares
its run with nobody. The inductive invariant `ClaimInv` has, beside the types, three
parts: at most one process is between the exclusive creation and the end of its
claim (`OneClaimant`); what the owner file says at each place, as long as no wipe
met a write (`OwnerFollowsClaim`); and that entries are the owner's, with none
while a claim may still be given up (`EntriesAreTheOwners`). The last is what
makes the unlink of a failed claim safe, and no property mentions it. `StrayInv`
follows a write from the wipe that caught it to the file it leaves. `WholeInv`
adds to `ArtifactsAreWhole` that what is about to be renamed is whole, since each
write has a temporary file of its own; a rename before the content is written, or
a name that two writes share, breaks it. `RaceInv`
says that each thing a claim can be refused for, the owner file, an entry, or a
claim that is giving up already, is that of a process that is about to have the
directory or has had it; without faults such a process gives way only to one
that has had it.

**ContainerInvocation**, for every set of calls:

| Theorem | States |
| --- | --- |
| `TypeCorrect` | `[]TypeOK`; it includes that a reply is one of the `Replies` |
| `RepliesTellTheRun` | `[]ReplyTellsTheRun` |
| `PreflightIsOver` | `[]OneOpenCodeAtATime` |
| `TemporaryInputsAreTheCalls` | `[]TemporaryInputsLiveWithTheCall` |
| `ContainerImplementsOneInvocation` | `ImplementsOneInvocation` |

One invariant, `TypeOK /\ ControlInv /\ TruthInv`, carries all of them.
`ControlInv` relates the program counters: what runs, what is on disk and what
was written at each place of host and container. `TruthInv` says that a result,
from the moment it is made, is true of the product and of what the model did;
that it stays true is why a reply may be given only for a whole output.

**RuntimeAssertions** (in ObserverCaptureProofs): `ReadyEvidenceDecides`
(evidence that is ready for what a case requires, with objects as inputs,
decides each of its checks) and `DecisionsAreSound` (a check that passed or
failed keeps its status whatever the withheld tools, inputs and results turn out
to be), for any finite set of observations and any assertions.

**RuntimeEvidence, ObserverCapture**, for any alphabets of tool lines, any
`Budget` and any `MaxRecords`:

| Theorem | States |
| --- | --- |
| `EveryCaptureIsAccepted` | `[]BuiltEvidenceIsAccepted` |
| `CompleteMeansFaultless` | `[]CompleteExactlyWhenFaultless` |
| `InvalidIsFinal` | `[]InvalidStaysInvalid` |
| `ChecksAreToldByLines` | `[]ChecksTellTheLines`, for any set of cases |

All four are consequences of what a state is, a sequence of lines
(`LinesAreTyped`), and of what loader, builder and validator are, which is where
the work lies. EvidenceProofs has the lemmas about them that NativeObserver
needs too. `IsCapture` is all that the builder needs of what the loader returns
(`LoadedIsACapture`), and from there one lemma per decision of the builder
says which shape the observations, the counts and the status can have. Two of
the three statements compare a set of records with a set of lines: records
are the usable lines of the body, each with its own sequence number, which is
where `Faultless` and the code's bookkeeping meet. `InvalidIsFinal` compares
two captures, of a stream and of the stream one line longer: each reason for
which evidence is invalid is shown to be there again.

`ChecksAreToldByLines` composes the parts of a verdict. By `CompleteMeansFaultless`
a case is only decided on a faultless capture; there every observation shows
exactly one call line and the result paired with it (`Shows`), so the sets of
calls that tools, actions and `after` speak of agree, and the numbers that
`occurrence` compares do by a bijection between matching calls and matching
lines. The lemmas about fields and readiness then give the converse: what is
legible is ready, and by `ReadyEvidenceDecides` decided.

**NativeObserver**, for any calls, identities, settings and numbers of faults:

| Theorem | States | Assumes |
| --- | --- | --- |
| `TypesAreKept` | `[]TypeOK`; it includes that evidence has a shape the host knows | – |
| `LostLinesAreReported` | `[]GapsAreReported` | – |
| `RepetitionIsSafe` | `[]NoInvocationProofIsSound` | – |
| `RunsAreReplies` | every result on the evidence of a run is, with what the model did, one of the `Replies` | – |
| `CompleteEvidenceIsTrue` | `[]CompleteIsTheWholeTruth` | `OwnIdentities` |
| `CleanCapturesAreComplete` | `[]CleanRunsAreComplete` | – |

None of them is inductive, because evidence is built in one step from a stream
that took the whole behaviour to write. The invariants say, in the order in
which they use one another:

- `BaseInv`: types, which end the teardown has reached (`TeardownInv`), and that
  evidence is what the capture makes of it, as the capture stays (`BuiltInv`).
- `OrderInv`: as long as no loss was noted, the lines received and the lines on
  the wire are numbered without a gap. So a duplicated or reordered line cannot
  come up, and the counts of `capture_end` are compared with every line before it.
- `CountInv`: whatever was dispatched is counted before anything about it can be
  lost, and every line under way tells of something that did happen. A complete
  capture has the counts of its end; with no observation they are zero, and so
  nothing was ever dispatched. This holds with shared identities as well.
- `TruthInv`: counts are the numbers of the invocations that were entered
  (`StartsAreCounted`, `InnerStartsAreCounted`), so a complete capture, which has
  as many starts as were counted, has *every* start: a set of entered
  invocations within another of the same finite size is that set. Outcomes come
  from `MatchInv`, which holds while no failure has been counted: an open call is
  the active one of its identity, an event that is not yet handled finds the
  call it is about, a wrapper overtaken by the terminal of its hook never gets
  one, and a terminal line tells what was published. `OutersAreOpen` and
  `EndsCountInnerCalls` do the same for inner calls: none goes unobserved while
  its outer execute is at work, and when every native call was told of, no
  inner call can start any more, so the counts in `capture_end` are final. That
  last step is where the environment's promise not to start an inner call of a
  cancelled execute is used.

`OwnIdentities` says that only plain registered tools may share an identity.
Without it the theorem is false: `observer_same_execute` is the counterexample,
since `execute.before` takes a second execute for the first. With plain tools the wrapper
counts the collision, and the capture is then not `Clean`.

`CleanCapturesAreComplete` goes the other way, from the run to the evidence, and
has an invariant of its own, `CalmInv`. A run is `Calm` when it has had no fault,
no shared identity and no issue, and whatever `capture_end` it wrote counts what
was counted and left nothing active. A run that is calm was calm at every step
before (`CalmBefore`); this is where the counters matter, since an inner call
that ended after `capture_end` would count once more than the end says. So a
calm run took none of the faulty steps, and by induction each line is the one
its invocation writes (`Proper`), is the only one of its kind for it, and comes
after the line it refers to (`Follows`); each call has exactly the lines of its
phase (`NativeCalm`, `InnerCalm`); and each event waits for a call that is
active (`CalmEvents`). When evidence is built, everything written was received
(`DrainInv`), so the capture has no issue (`DrainedLoads`), its counts are the
numbers of its lines (`DrainedCounts`, with a bijection from starts to
dispatched calls), and every start has its terminal (`DrainedIsPerfect`).

**EvalRun**, for every set of requests and number of faults:

| Theorem | States | Assumes |
| --- | --- | --- |
| `TypeCorrect` | `[]TypeOK` | – |
| `PlansAreTheSelection` | `[]PlanIsTheSelection` | – |
| `RuntimeLanesAreGated` | `[]RuntimeLaneIsGated` | – |
| `ManifestsTellTheRun` | `[]ManifestTellsTheRun` | – |
| `RunsAreClosed` | `[]OnlyFaultsLeaveARunOpen` | – |
| `ExitsAreEarned` | `[]ExitIsEarned` | `Expected` |
| `StepsRunOut` | `StepsArePaidFor` | – |

`RunInv` is the types, the three properties and `ProgressInv`: how far each loop
over the plan has come, and which jobs have a status, an error or a file by
then. `Expected` says that discovery raises only what the command catches;
without it `ExitIsEarned` is false, which is the second disagreement below.

`PlansAreTheSelection` is about what RunPlan computes from a suite of any
length. The filter `Only` is a recursive function over the sequence; that it
exists, and that it keeps the right elements, each once and in order, is shown
at the least place where it would not be so (`LeastFacts`), which needs no
induction theorem. What it gathers is then put together by the cases
(`Selected`), the iterations of a case and the two lanes (`Schedule`);
`PlanIsTyped` says that the plan is a sequence of the request's jobs, on which
all the other theorems rest, and `PlanIsDue` that it is the one the property
asks for.

`StepsRunOut` is the safety half of `Terminates`. A
command of n jobs has 11 + 8n steps and one for each fault. The jobs that are
queued or running and the rest of the pass over the plan are what is left at a
stage; `Ladder` says it for each stage, `StepsDescend` for each action.

Only model-checked are the liveness properties: `Terminates` of EvalRun,
`EvidenceIsBuilt`, `EmptyDirectoryIsClaimed` and `CallEnds`. They speak of
fairness and of steps that are enabled, which is out of the prover's reach. For
`Terminates` it is proved that steps run out, and for
`EmptyDirectoryIsClaimed` that claims do not all refuse one another; what TLC
adds is that nothing stops before.

## Disagreements found

- **Two executes with one identity** (`observer_same_execute`).
  `docs/native-tool-observer.md:60` says that a duplicate invocation fails
  closed. The `execute.before` hook (`native_observer.ts:434`) takes a second
  execute with an active identity for the first: no record, no failure counted,
  and the evidence of two calls may be complete with one observation. The
  wrapper of a registered tool (`native_observer.ts:310`) does count it.
- **An unexpected exception in discovery** (`eval_run_discovery`).
  `docs/eval-usage.md:293` promises exit status 2 for unexpected profile
  exceptions. `run_eval` catches a list of families (`eval_cli.py:888`), and
  `profile.discover_cases()` (`eval_cli.py:731`) may raise others; the process
  then ends with a traceback and status 1, which the same page gives to a
  completed run with a verdict.
- **Empty arrays assert something** (`family_empty_arrays`).
  `docs/architecture/eval-format-ownership/specifications/ars-001-runner-eval-contract.md:205`
  says that empty arrays assert nothing. A case with an output group of empty
  arrays that passed is reported with an assertion that is non-evidence
  (`eval_builtin.py:461`).

Other things met while reading, which no run shows:

- The same contract (line 357) has `semantic_judge` null only when the judge
  phase did not occur; it is null also for a judge that failed or whose answer
  could not be parsed.
- `main` returns 0 for every product result, so an outage that a container
  reports of its product is a `product_error`, which is never replay-safe, as
  `docs/eval-usage.md:237` and `tests/test_eval_execute.py:336` say it should
  be. The transient policy acts only after a host call that itself failed and
  left evidence that nothing was invoked, as `tests/test_eval_execute.py:296` has
  it.
- Copilot without a token is reported as a product error; a `RunnerError` whose
  message contains "result" is classified as an invalid result; the inner
  timeout of Copilot is an infrastructure error, that of OpenCode is not.
- One Code Mode call makes evidence unsupported for every check of results.
  A result test with both `json_path` and `output_contains` ignores the latter.
  An input that is available and no object leaves a check undecided although
  the evidence counts as ready.
- A readiness left over from an earlier attempt can be shown beside a last
  attempt that failed. It decides nothing (`VerdictIsEarned`).
- An invoker of a project that gives no integer as exit code has its attempt
  recorded, and the sealing of the artifact then raises.

## What is not modelled

- Rendering, wording, logging, the serialisation of artifacts, key sets and
  hashes: data and layout, no order of events.
- Credential matching (`evidence_safety.py`) and the parsing and validation of
  authored files (`eval_input.py`): pure string and schema work.
- Images, the action and the flags and mounts of a container command
  (`oci_image.py`, `Containerfile`, `action.yml`, most of `cli.py`): data around
  one call.
- Workspaces and prompts of the built-in families, the texts of their results,
  and how names, arguments and results are matched: an assertion is matched as
  a whole.
- Of `eval_cli.py`, argument checks, `--list` and the assembly of invocations;
  of `eval_output.py`, what it refuses of a result's keys.
- The accounting's own duplicate handling and `assertion_status`, which the
  builder never reaches and only other callers of the library could.

## The plan

In the order of importance; what is done comes first.

1. InvocationOutcome, EvaluationPhase, AtMostOnce: attempts and verdicts.
   Proved, and that the steps run out.
2. RuntimeEvidence, RuntimeAssertions, ObserverCapture: evidence fails closed on
   every stream, and checks say what the lines say. Proved.
3. NativeObserver: the plugin, its races and the receiving thread. Proved, except
   liveness.
4. RunPlan, EvalRun: selection, lanes, persistence, manifest, exit status.
   Proved, except liveness; that the steps run out is proved.
5. ArtifactDirectory, OneOwner: the claim, with wipes. Proved, except liveness.
6. PairedEvaluation with the skill family's checks, grading and comparison.
   Proved.
7. ContainerInvocation, OneInvocation: one call from the host to the product.
   Proved, except liveness.
8. FamilyResult: what a built-in family reports. Proved.

Left:

9. The accounting of evidence that the builder did not make, with its duplicate
   handling, and `assertion_status`.
10. What the verified output refuses of a result, as a condition on results that
    those of FamilyResult and PairedEvaluation meet.
