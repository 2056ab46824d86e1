------------------------------ MODULE EvalRun ------------------------------
(***************************************************************************)
(* One `eval` command: discovery, the claim of the artifact directory, the *)
(* two lanes with their thread pools, persistence, the summary, the final  *)
(* manifest, the rendered output and the exit status (runner/eval_cli.py,  *)
(* with the plan of RunPlan and the verification of                         *)
(* runner/eval_output.py).                                                 *)
(*                                                                         *)
(* Jobs of a lane run concurrently and may raise; their artifacts stay in  *)
(* memory until the whole lane is over.  Around the run, the storage may   *)
(* fail, the process may be killed at any moment, and files it has written *)
(* may be removed, damaged or replaced.  What happens inside a job is      *)
(* EvaluationPhase; who owns the directory is ArtifactDirectory.           *)
(***************************************************************************)
EXTENDS RunPlan, FiniteSets, FiniteSetsExt

CONSTANTS
    Requests,    \* the commands considered: the suite that discovery returns, the
                 \* selection, the bounds on concurrency and the family
    Raises,      \* which kinds of exception the profile's discovery may raise
    MaxFaults    \* bound on storage errors and disturbed files

Verdicts == {"pass", "fail", "non-evidence"}

(* Skill cases are all runtime.                                             *)
ASSUME RequestAssumption ==
    \A x \in Requests :
        /\ x.suite \in Seq(CasesOf(x.suite))
        /\ \A i \in DOMAIN x.suite : {"id", "selectors", "lane"} \subseteq DOMAIN x.suite[i]
        /\ x.all \in BOOLEAN /\ {x.iterations, x.parallel, x.runtime_parallel} \subseteq Int
        /\ x.family \in {"profile", "agent_runtime", "skill"}
        /\ x.family = "skill" => \A c \in CasesOf(x.suite) : c.lane = "runtime"
ASSUME FaultAssumption == Raises \subseteq {"expected", "unexpected"} /\ MaxFaults \in Nat

(* The jobs of a request; what its plan filters out of them is a sequence   *)
(* of such jobs.                                                            *)
JobsOf(x) == [case: {c \in CasesOf(x.suite) : c.lane \in Lanes}, iteration: Nat]

VARIABLES
    request,    \* the command, never changed
    plan,       \* the jobs of the run, in order
    stage,      \* where run_eval is
    work,       \* of each job: queued, running, raised, or its artifact's classification
    cursor,     \* the job a loop over the plan has reached
    written,    \* whether the artifact at the cursor is written and not yet re-read
    statuses,   \* the run's own statuses
    disk,       \* the artifact files
    manifest,   \* run.json
    report,     \* the rendered output
    exit,       \* the exit status, or why there is none
    disturbed, late, \* history: files that were changed, and those changed after their last read
    faults      \* history: storage errors and disturbed files

vars == <<request, plan, stage, work, cursor, written, statuses, disk, manifest, report, exit,
          disturbed, late, faults>>
storage == <<disk, manifest, report>>
settled == <<request, plan, disturbed, late>>

Jobs == DOMAIN plan
Lane(j) == plan[j].case.lane
LaneJobs(lane) == {j \in Jobs : Lane(j) = lane}
Running == {j \in Jobs : work[j] = "running"}
Rendered == request.family # "profile"

(* A paired artifact whose comparison failed is classified as an error.     *)
Classifications == Verdicts \cup IF request.family = "skill" THEN {"error"} ELSE {}

(* resolve_run_schedule: a standard request of 0 means all at once.         *)
Parallelism(lane) ==
    LET count == Cardinality(LaneJobs(lane)) IN
    IF lane = "runtime" THEN Min({request.runtime_parallel, count})
    ELSE IF request.parallel = 0 THEN count ELSE Min({request.parallel, count})

Persisting == [standard |-> "persist_standard", runtime |-> "persist_runtime"]
Stages == {"discover", "claim", "announce", "standard", "runtime", "persist_standard",
           "persist_runtime", "summary", "final", "render", "exit", "over"}

Abort(code) ==
    /\ stage' = "over" /\ exit' = code
    /\ UNCHANGED <<work, cursor, written, statuses, storage, settled>>

StorageFails ==
    faults < MaxFaults /\ faults' = faults + 1 /\ Abort("2")

---------------------------------------------------------------------------
(* Before the first job.                                                    *)

Discover ==
    /\ stage = "discover" /\ stage' = "claim"
    /\ ~SelectionIsMissing(request) /\ ~PlanIsRefused(request)
    /\ plan' = Plan(request)
    /\ work' = [j \in DOMAIN plan' |-> "queued"]
    /\ statuses' = [j \in DOMAIN plan' |-> "planned"]
    /\ disk' = [j \in DOMAIN plan' |-> "absent"]
    /\ manifest' = [status |-> "absent", jobs |-> statuses']
    /\ UNCHANGED <<request, cursor, written, report, exit, disturbed, late, faults>>

PlanRefused ==
    /\ stage = "discover"
    /\ SelectionIsMissing(request) \/ PlanIsRefused(request)
    /\ Abort("2") /\ UNCHANGED faults

(* An exception of a family that run_eval lists is exit status 2; any other *)
(* one leaves the interpreter with a traceback and its exit status 1.       *)
DiscoveryRaises ==
    /\ stage = "discover" /\ ~SelectionIsMissing(request)
    /\ \E e \in Raises : Abort([expected |-> "2", unexpected |-> "1"][e])
    /\ UNCHANGED faults

Claim ==
    /\ stage = "claim" /\ stage' = "announce"
    /\ UNCHANGED <<work, cursor, written, statuses, storage, exit, settled, faults>>

ClaimRefused == stage = "claim" /\ Abort("2") /\ UNCHANGED faults

Announce ==
    /\ stage = "announce" /\ stage' = "standard"
    /\ manifest' = [status |-> "running", jobs |-> statuses]
    /\ UNCHANGED <<work, cursor, written, statuses, disk, report, exit, settled, faults>>

---------------------------------------------------------------------------
(* _run_lane: a pool that takes the jobs in plan order; a job that raises    *)
(* does not disturb the others.                                             *)

StartJob(j) ==
    /\ stage = Lane(j) /\ work[j] = "queued"
    /\ \A i \in LaneJobs(Lane(j)) : i < j => work[i] # "queued"
    /\ Cardinality(Running) < Parallelism(Lane(j))
    /\ work' = [work EXCEPT ![j] = "running"]
    /\ UNCHANGED <<stage, cursor, written, statuses, storage, exit, settled, faults>>

FinishJob(j) ==
    /\ work[j] = "running" /\ stage # "over"
    /\ \E c \in Classifications : work' = [work EXCEPT ![j] = c]
    /\ UNCHANGED <<stage, cursor, written, statuses, storage, exit, settled, faults>>

(* Mutation: the exception of a job leaves the lane.                        *)
JobRaisesThrough(j) ==
    /\ work[j] = "running" /\ stage # "over"
    /\ Abort("2") /\ UNCHANGED faults

(* Mutation: a job that raised is run again.                                *)
JobRaisesAndIsRepeated(j) ==
    /\ work[j] = "running" /\ stage # "over"
    /\ work' = [work EXCEPT ![j] = "queued"]
    /\ UNCHANGED <<stage, cursor, written, statuses, storage, exit, settled, faults>>

JobRaises(j) ==
    /\ work[j] = "running" /\ stage # "over"
    /\ work' = [work EXCEPT ![j] = "raised"]
    /\ UNCHANGED <<stage, cursor, written, statuses, storage, exit, settled, faults>>

LaneFinished(lane) == \A j \in LaneJobs(lane) : work[j] \notin {"queued", "running"}

(* Mutation: a lane with a failed job is never seen as over.                *)
CloseCleanLane(lane) ==
    /\ stage = lane /\ \A j \in LaneJobs(lane) : work[j] \in Classifications
    /\ stage' = Persisting[lane] /\ cursor' = 1
    /\ UNCHANGED <<work, written, statuses, storage, exit, settled, faults>>

CloseLane(lane) ==
    /\ stage = lane /\ LaneFinished(lane)
    /\ stage' = Persisting[lane] /\ cursor' = 1
    /\ UNCHANGED <<work, written, statuses, storage, exit, settled, faults>>

---------------------------------------------------------------------------
(* _persist_lane: each artifact of the lane is written and read again.       *)

Persistable(lane) ==
    stage = Persisting[lane] /\ cursor \in LaneJobs(lane) /\ work[cursor] \in Classifications

WriteArtifact(lane) ==
    /\ Persistable(lane) /\ ~written
    /\ disk' = [disk EXCEPT ![cursor] = work[cursor]] /\ written' = TRUE
    /\ UNCHANGED <<stage, work, cursor, statuses, manifest, report, exit, settled, faults>>

(* The status is the classification that was read, not the one written; a   *)
(* file that is gone or fails its own checks aborts the run.                *)
VerifyArtifact(lane) ==
    /\ Persistable(lane) /\ written
    /\ IF disk[cursor] \in Classifications
       THEN /\ statuses' = [statuses EXCEPT ![cursor] = disk[cursor]]
            /\ written' = FALSE /\ cursor' = cursor + 1
            /\ UNCHANGED <<stage, work, storage, exit, settled>>
       ELSE Abort("2")
    /\ UNCHANGED faults

(* Mutation: persistence ends at the first job without an artifact.         *)
SkipRest(lane) ==
    /\ stage = Persisting[lane] /\ cursor \in Jobs
    /\ cursor \notin LaneJobs(lane) \/ work[cursor] = "raised"
    /\ cursor' = IF cursor \in LaneJobs(lane) THEN Cardinality(Jobs) + 1 ELSE cursor + 1
    /\ UNCHANGED <<stage, work, written, statuses, storage, exit, settled, faults>>

SkipJob(lane) ==
    /\ stage = Persisting[lane] /\ cursor \in Jobs
    /\ cursor \notin LaneJobs(lane) \/ work[cursor] = "raised"
    /\ cursor' = cursor + 1
    /\ UNCHANGED <<stage, work, written, statuses, storage, exit, settled, faults>>

(* _error_report.                                                           *)
Reported(lane) ==
    [j \in Jobs |-> IF j \in LaneJobs(lane) /\ work[j] = "raised" THEN "error" ELSE statuses[j]]

(* Mutation: the runtime lane is started whatever the standard lane did.    *)
ReportStandardLaneOnly ==
    /\ stage = "persist_standard" /\ cursor \notin Jobs
    /\ statuses' = Reported("standard") /\ stage' = "runtime"
    /\ UNCHANGED <<work, cursor, written, storage, exit, settled, faults>>

(* After an exception in the standard lane the runtime lane is not run.     *)
ReportStandardLane ==
    /\ stage = "persist_standard" /\ cursor \notin Jobs
    /\ IF \E j \in LaneJobs("standard") : work[j] = "raised"
       THEN /\ statuses' = [j \in Jobs |-> IF Lane(j) = "runtime" THEN "not-run" ELSE Reported("standard")[j]]
            /\ stage' = "summary" /\ cursor' = 1
       ELSE /\ statuses' = Reported("standard")
            /\ stage' = "runtime" /\ UNCHANGED cursor
    /\ UNCHANGED <<work, written, storage, exit, settled, faults>>

ReportRuntimeLane ==
    /\ stage = "persist_runtime" /\ cursor \notin Jobs
    /\ statuses' = Reported("runtime")
    /\ stage' = "summary" /\ cursor' = 1
    /\ UNCHANGED <<work, written, storage, exit, settled, faults>>

---------------------------------------------------------------------------
(* _summary_from_store, the final manifest, load_verified_output and the     *)
(* exit status.                                                             *)

Problems == {j \in Jobs : statuses[j] \notin Verdicts}
Outcome ==
    IF Problems # {} THEN "error"
    ELSE IF \E j \in Jobs : statuses[j] # "pass" THEN "verdict" ELSE "pass"
ExitStatus == [error |-> "2", verdict |-> "1", pass |-> "0"]

(* Mutation: the summary counts the statuses it has.                        *)
SummariseFromMemory ==
    /\ stage = "summary" /\ cursor \in Jobs
    /\ cursor' = cursor + 1
    /\ UNCHANGED <<stage, work, written, statuses, storage, exit, settled, faults>>

(* Every verdict is read again, and must still be what it was.              *)
Summarise ==
    /\ stage = "summary" /\ cursor \in Jobs
    /\ IF statuses[cursor] \in Verdicts => disk[cursor] = statuses[cursor]
       THEN /\ cursor' = cursor + 1
            /\ UNCHANGED <<stage, work, written, statuses, storage, exit, settled>>
       ELSE Abort("2")
    /\ UNCHANGED faults

EndSummary ==
    /\ stage = "summary" /\ cursor \notin Jobs /\ stage' = "final"
    /\ UNCHANGED <<work, cursor, written, statuses, storage, exit, settled, faults>>

WriteFinalManifest ==
    /\ stage = "final"
    /\ manifest' = [status |-> Outcome, jobs |-> statuses]
    /\ stage' = IF Rendered THEN "render" ELSE "exit"
    /\ cursor' = 1
    /\ UNCHANGED <<work, written, statuses, disk, report, exit, settled, faults>>

(* A run with an error or an unrun job is not rendered.                     *)
RenderJob ==
    /\ stage = "render" /\ cursor \in Jobs
    /\ IF manifest.status # "error" /\ disk[cursor] = manifest.jobs[cursor]
       THEN /\ cursor' = cursor + 1
            /\ UNCHANGED <<stage, work, written, statuses, storage, exit, settled>>
       ELSE Abort("2")
    /\ UNCHANGED faults

WriteReport ==
    /\ stage = "render" /\ cursor \notin Jobs
    /\ report' = manifest.status /\ stage' = "exit"
    /\ UNCHANGED <<work, cursor, written, statuses, disk, manifest, exit, settled, faults>>

Exit ==
    /\ stage = "exit"
    /\ stage' = "over" /\ exit' = ExitStatus[Outcome]
    /\ UNCHANGED <<work, cursor, written, statuses, storage, settled, faults>>

---------------------------------------------------------------------------
(* The environment.                                                         *)

(* A write of a manifest, an artifact or the output fails.                  *)
StorageError ==
    /\ \/ stage \in {"announce", "final"}
       \/ \E lane \in Lanes : Persistable(lane) /\ ~written
       \/ stage = "render" /\ cursor \notin Jobs
    /\ StorageFails

Kill ==
    /\ stage # "over"
    /\ stage' = "over" /\ exit' = "killed"
    /\ UNCHANGED <<work, cursor, written, statuses, storage, settled, faults>>

(* Whether run_eval is going to read the artifact of j again.               *)
LastPass == IF Rendered THEN "render" ELSE "summary"
WillBeRead(j) ==
    /\ stage \notin {"exit", "over"} /\ (stage = "final" => Rendered)
    /\ stage = LastPass => cursor <= j

(* Somebody removes, damages or replaces an artifact that was written.      *)
Disturb(j) ==
    /\ disk[j] # "absent" /\ j \notin disturbed /\ faults < MaxFaults
    /\ \E c \in ({"absent", "damaged"} \cup Classifications) \ {disk[j]} : disk' = [disk EXCEPT ![j] = c]
    /\ disturbed' = disturbed \cup {j}
    /\ late' = IF WillBeRead(j) THEN late ELSE late \cup {j}
    /\ faults' = faults + 1
    /\ UNCHANGED <<request, plan, stage, work, cursor, written, statuses, manifest, report, exit>>

---------------------------------------------------------------------------
Init ==
    /\ request \in Requests
    /\ plan = <<>>
    /\ stage = "discover"
    /\ work = [j \in Jobs |-> "queued"]
    /\ cursor = 1 /\ written = FALSE
    /\ statuses = [j \in Jobs |-> "planned"]
    /\ disk = [j \in Jobs |-> "absent"]
    /\ manifest = [status |-> "absent", jobs |-> [j \in Jobs |-> "planned"]]
    /\ report = "none" /\ exit = "none"
    /\ disturbed = {} /\ late = {} /\ faults = 0

Job(j) == StartJob(j) \/ FinishJob(j) \/ JobRaises(j)
RunLane(lane) == CloseLane(lane) \/ WriteArtifact(lane) \/ VerifyArtifact(lane) \/ SkipJob(lane)

Command ==
    \/ Discover \/ PlanRefused \/ DiscoveryRaises \/ Claim \/ ClaimRefused \/ Announce
    \/ \E j \in Jobs : Job(j)
    \/ \E lane \in Lanes : RunLane(lane)
    \/ ReportStandardLane \/ ReportRuntimeLane
    \/ Summarise \/ EndSummary \/ WriteFinalManifest \/ RenderJob \/ WriteReport \/ Exit

Over == stage = "over" /\ UNCHANGED vars

Next == Command \/ StorageError \/ Kill \/ (\E j \in Jobs : Disturb(j)) \/ Over

Spec == Init /\ [][Next]_vars

(* The command goes on; every job ends, because each invocation is bounded  *)
(* by its container timeout and the attempts are bounded (EvaluationPhase). *)
FairSpec == Spec /\ WF_vars(Command)

---------------------------------------------------------------------------
(* Properties.                                                              *)

Ended == manifest.status \notin {"absent", "running"}

TypeOK ==
    /\ request \in Requests
    /\ plan \in Seq(JobsOf(request))
    /\ stage \in Stages
    /\ work \in [Jobs -> {"queued", "running", "raised"} \cup Classifications]
    /\ cursor \in 1..(Cardinality(Jobs) + 1) /\ written \in BOOLEAN
    /\ statuses \in [Jobs -> {"planned", "not-run", "error"} \cup Classifications]
    /\ disk \in [Jobs -> {"absent", "damaged"} \cup Classifications]
    /\ manifest \in [status: {"absent", "running", "error", "verdict", "pass"},
                     jobs: [Jobs -> {"planned", "not-run", "error"} \cup Classifications]]
    /\ report \in {"none", "verdict", "pass"}
    /\ exit \in {"none", "0", "1", "2", "killed"}
    /\ late \subseteq disturbed /\ disturbed \subseteq Jobs
    /\ faults \in 0..MaxFaults

(* The jobs of a run are the iterations of the cases that its selectors name *)
(* or --all asks for, each of them once, so that no two jobs share a status *)
(* or an artifact; the standard lane comes first, and within a lane the     *)
(* order is that of the suite.  Nothing runs that nobody selected.          *)
PlanIsTheSelection ==
    LET Key(j)      == <<plan[j].case.id, plan[j].iteration>>
        Position(j) == CHOOSE s \in DOMAIN request.suite : request.suite[s] = plan[j].case
        Before(i, j) ==
            \/ Position(i) < Position(j)
            \/ Position(i) = Position(j) /\ plan[i].iteration < plan[j].iteration
        Wanted      == {c \in CasesOf(request.suite) : request.all \/ c.selectors \cap request.selectors # {}}
    IN stage \notin {"discover", "over"} =>
        /\ {Key(j) : j \in Jobs} = {c.id : c \in Wanted} \X (1..request.iterations)
        /\ \A i, j \in Jobs : i < j =>
             /\ Key(i) # Key(j)
             /\ Lane(j) = "standard" => Lane(i) = "standard"
             /\ Lane(i) = Lane(j) => Before(i, j)
        /\ Jobs # {} /\ (request.all \/ request.selectors # {})

(* Exit status 0 means that every job of the plan has a durable artifact    *)
(* that says pass, and 1 that every job has one and some verdict is not     *)
(* pass; the manifest, and the report if there is one, say the same.  A     *)
(* file that was changed before the run last read it is no excuse.          *)
ExitIsEarned ==
    exit \in {"0", "1"} =>
        /\ \A j \in Jobs \ late : disk[j] \in Verdicts /\ disk[j] = manifest.jobs[j]
        /\ manifest.status = IF exit = "0" THEN "pass" ELSE "verdict"
        /\ exit = "0" <=> \A j \in Jobs : manifest.jobs[j] = "pass"
        /\ Rendered => report = manifest.status

(* The final manifest tells what happened to every job, whatever happened   *)
(* to the others: an artifact that was produced is on disk under its own    *)
(* classification, a job that raised is an error, one that never started is *)
(* not-run, and no job is left out.                                         *)
ManifestTellsTheRun ==
    Ended => \A j \in Jobs \ disturbed :
        /\ work[j] \in Classifications => disk[j] = work[j] /\ manifest.jobs[j] = work[j]
        /\ work[j] = "raised" => disk[j] = "absent" /\ manifest.jobs[j] = "error"
        /\ work[j] = "queued" => disk[j] = "absent" /\ manifest.jobs[j] = "not-run"
        /\ work[j] # "running"

(* No inference is spent on the runtime lane before every standard job has  *)
(* its verdict and, unless somebody touched it, its durable artifact.       *)
RuntimeLaneIsGated ==
    (\E j \in LaneJobs("runtime") : work[j] # "queued") =>
        \A i \in LaneJobs("standard") :
            statuses[i] \in Verdicts /\ (i \notin disturbed => disk[i] = statuses[i])

(* A job that raises never costs the run its record: once a job was started *)
(* only a storage fault or a kill leaves the manifest unfinished.           *)
OnlyFaultsLeaveARunOpen ==
    stage = "over" /\ (\E j \in Jobs : work[j] # "queued") /\ faults = 0 /\ exit # "killed" => Ended

(* Exit status 1 is a verdict of a run that completed normally              *)
(* (docs/eval-usage.md:288).                                                *)
ExitOneIsAVerdict == exit = "1" => manifest.status = "verdict"

(* The command ends, whatever its jobs and the storage do.                  *)
Terminates == <>(stage = "over")

(* The number of steps that may still be taken: a job starts and ends, each *)
(* lane is persisted in one pass over the plan with two steps for a job,    *)
(* summary and rendering are passes of one, and each fault is a step.       *)
StepsLeft ==
    LET jobs == Cardinality(Jobs)
        ahead == jobs + 1 - cursor
        toBeRun == 2 * Cardinality({j \in Jobs : work[j] = "queued"}) + Cardinality(Running)
        toBePersisted == 2 * ahead - IF written THEN 1 ELSE 0
    IN toBeRun + (MaxFaults - faults) +
       [discover |-> IF SelectionIsMissing(request) \/ PlanIsRefused(request) THEN 1
                     ELSE 11 + 8 * Len(Plan(request)),
        claim |-> 10 + 6 * jobs, announce |-> 9 + 6 * jobs,
        standard |-> 8 + 6 * jobs, persist_standard |-> 7 + 4 * jobs + toBePersisted,
        runtime |-> 6 + 4 * jobs, persist_runtime |-> 5 + 2 * jobs + toBePersisted,
        summary |-> 4 + jobs + ahead, final |-> 3 + jobs, render |-> 2 + ahead,
        exit |-> 1, over |-> 0][stage]

(* Why it ends: a command with n jobs has 11 + 8 * n steps at the start and *)
(* one for each fault, and each step, the faults included, leaves it with   *)
(* fewer.  No job is started twice, and no pass over the plan starts again. *)
StepsArePaidFor == [][StepsLeft' \in Nat /\ StepsLeft' < StepsLeft]_vars
=============================================================================
