-------------------------- MODULE EvaluationPhase --------------------------
(***************************************************************************)
(* One evaluation of one case: the target attempts, the readiness of their *)
(* evidence, the deterministic checks, the judge attempts, the verdict and *)
(* the artifact (runner/eval_execute.py, runner/eval_engine.py).  The      *)
(* phase is sequential, so its steps never interleave; what is hard in it  *)
(* is the environment: an invocation may return, fail, time out or raise   *)
(* after the model already acted, a policy may ask for anything, and every *)
(* project callback may raise.                                             *)
(***************************************************************************)
EXTENDS InvocationOutcome

CONSTANTS TargetMaxAttempts, JudgeMaxAttempts, \* 1 + --transport-retries
          Jobs        \* the jobs considered, a subset of AllJobs

Phases == {"target", "judge"}
MaxAttempts == [target |-> TargetMaxAttempts, judge |-> JudgeMaxAttempts]

(* "absent" is retry_policy = None or NoRetryPolicy, "transient" the         *)
(* TransientProviderRetryPolicy, "eager" a profile's own policy, which may  *)
(* answer anything.  The gate is the adapter's judge_spec.                  *)
AllJobs == [needs: Requirements, policy: {"absent", "transient", "eager"},
            gate: {"profile", "agent_runtime", "skill"}]

ASSUME MaxAttemptsAssumption ==
    TargetMaxAttempts \in Nat \ {0} /\ JudgeMaxAttempts \in Nat \ {0}
ASSUME JobsAssumption == Jobs \subseteq AllJobs

VARIABLES
    job,             \* the configuration of this evaluation, never changed
    stage,           \* where run_evaluation_phase is
    attempts,        \* the AttemptRecords of each phase
    decisions,       \* the RetryDecisions of each phase
    readiness,       \* final_readiness, the nonlocal of run_target_attempts
    checks,          \* the statuses among the deterministic checks
    judgeRequired, contractFailure, semantic,
    classification,
    artifact         \* what build_eval_artifact sealed

vars == <<job, stage, attempts, decisions, readiness, checks, judgeRequired,
          contractFailure, semantic, classification, artifact>>
verdictVars == <<checks, judgeRequired, contractFailure, semantic, classification, artifact>>

Stages == {"target", "target_retry", "checks", "judge_spec", "judge", "judge_retry",
           "parse", "classify", "seal", "sealed", "escaped"}
Readinesses == {"none", "ready", "incomplete", "unsupported", "invalid"}

(* acted is history, no field of the code: whether the model ran any tool   *)
(* in the attempt.  own is the readiness of the attempt's own evidence.     *)
AttemptRecords ==
    [code: Failures, safe: BOOLEAN, transient: BOOLEAN, own: Readinesses, acted: BOOLEAN]

Latest(p) == attempts[p][Len(attempts[p])]
Retrying == [target |-> "target_retry", judge |-> "judge_retry"]

---------------------------------------------------------------------------
(* The attempt loop, _run_attempts.                                         *)

Unreadable(code, acted) ==
    [code |-> code, safe |-> FALSE, transient |-> FALSE, own |-> "none", acted |-> acted]

Readable(p, needs, x) ==
    LET code == ClassifyResult(x.result, x.hostOk)
        own  == EvidenceReadiness(x.result.evidence, needs) IN
    [code |-> IF p = "target" THEN ApplyReadiness(code, own) ELSE code,
     safe |-> RetrySafe(x.result, code, x.hostOk),
     transient |-> IsTransientProviderUnavailable(x.result),
     own |-> IF p = "target" THEN own ELSE "none",
     acted |-> x.acted]

(* The records a returned result can leave, for each phase and requirement. *)
ReadableAttempts ==
    {[phase |-> p, needs |-> n, record |-> Readable(p, n, x)] :
        p \in Phases, n \in {j.needs : j \in Jobs}, x \in Replies}

(* Where the loop leaves to once no further attempt follows.                *)
Leave(p) == IF p = "target" THEN "checks" ELSE "parse"

(* The attempt is appended; a clean one ends the loop.                      *)
AppendAttempt(p, record) ==
    /\ attempts' = [attempts EXCEPT ![p] = Append(@, record)]
    /\ stage' = IF record.code = "none" THEN Leave(p) ELSE Retrying[p]

(* invoke returned a result that passes the contract.  The postprocessor    *)
(* overwrites final_readiness for the target; the judge has none.           *)
InvokeReturns(p) ==
    /\ stage = p
    /\ \E x \in ReadableAttempts :
          /\ x.phase = p /\ x.needs = job.needs
          /\ AppendAttempt(p, x.record)
          /\ readiness' = IF p = "target" THEN x.record.own ELSE readiness
    /\ UNCHANGED <<job, decisions, verdictVars>>

(* No usable result: an exception the loop catches, or a result that breaks *)
(* the contract.  final_readiness keeps the value an earlier attempt gave   *)
(* it.                                                                      *)
InvokeFails(p) ==
    /\ stage = p
    /\ \E acted \in BOOLEAN,
          code \in {RaisedCode[exc] : exc \in DOMAIN RaisedCode} \cup
                     {"invoke_invalid_result", "invoke_host_error"} :
          AppendAttempt(p, Unreadable(code, acted))
    /\ UNCHANGED <<job, decisions, readiness, verdictVars>>

(* check_evidence_readiness raised: the failure replaces the earlier one.   *)
ReadinessCheckFails ==
    /\ stage = "target"
    /\ \E acted \in BOOLEAN :
          AppendAttempt("target", Unreadable("evidence_readiness_check_failed", acted))
    /\ UNCHANGED <<job, decisions, readiness, verdictVars>>

(* An exception outside the four families the loop catches leaves the phase *)
(* without a record and without an artifact; the lane reports a job error.  *)
(* So does a project's metadata that the artifact cannot hold.              *)
Escape ==
    /\ \/ stage \in Phases \cup {"target_retry", "judge_retry"}
       \/ stage = "seal" /\ job.gate = "profile"
    /\ stage' = "escaped"
    /\ UNCHANGED <<job, attempts, decisions, readiness, verdictVars>>

(* The answers _safe_policy_decision can give for the latest attempt.       *)
PolicyAnswers(p) ==
    [absent |-> {"stop"},
     transient |-> IF Latest(p).code = "invoke_host_error" /\ Latest(p).safe /\ Latest(p).transient
                   THEN {"retry"} ELSE {"stop"},
     eager |-> {"retry", "stop"}][job.policy]

Decide(p, answer) ==
    /\ decisions' = [decisions EXCEPT ![p] = Append(@, answer)]
    /\ stage' = IF answer = "retry" THEN p
                ELSE IF p = "target" THEN "checks" ELSE "classify"
    /\ UNCHANGED <<job, attempts, readiness, verdictVars>>

(* Mutations: the stop leaves no decision; the last attempt is counted one  *)
(* too late.                                                                *)
RetryBlockedUnrecorded(p) ==
    /\ stage = Retrying[p]
    /\ Len(attempts[p]) >= MaxAttempts[p] \/ ~Latest(p).safe
    /\ stage' = IF p = "target" THEN "checks" ELSE "classify"
    /\ UNCHANGED <<job, attempts, decisions, readiness, verdictVars>>

AskPolicyOnceMore(p) ==
    /\ stage = Retrying[p]
    /\ Len(attempts[p]) <= MaxAttempts[p] /\ Latest(p).safe
    /\ \E answer \in PolicyAnswers(p) : Decide(p, answer)

(* The attempt budget is spent, or the attempt may not be repeated.         *)
RetryBlocked(p) ==
    /\ stage = Retrying[p]
    /\ Len(attempts[p]) >= MaxAttempts[p] \/ ~Latest(p).safe
    /\ Decide(p, "stop")

AskPolicy(p) ==
    /\ stage = Retrying[p]
    /\ Len(attempts[p]) < MaxAttempts[p] /\ Latest(p).safe
    /\ \E answer \in PolicyAnswers(p) : Decide(p, answer)

---------------------------------------------------------------------------
(* evaluate_target_outcome.                                                 *)

(* Mutation: final_readiness alone decides, stale or not.                   *)
TargetSeemsReady == readiness = "ready"

TargetUsable == Latest("target").code = "none" /\ readiness = "ready"

(* An unusable target skips every project callback.                         *)
SkipUnusableTarget ==
    /\ stage = "checks" /\ ~TargetUsable
    /\ stage' = "classify"
    /\ UNCHANGED <<job, attempts, decisions, readiness, verdictVars>>

(* The checks the project returned, or the one non-evidence check that      *)
(* stands for a callback that raised.                                       *)
DeterministicChecks ==
    /\ stage = "checks" /\ TargetUsable
    /\ checks' \in SUBSET {"pass", "fail", "non-evidence"}
    /\ stage' = "judge_spec"
    /\ UNCHANGED <<job, attempts, decisions, readiness, judgeRequired, contractFailure,
                   semantic, classification, artifact>>

GateOpen ==
    /\ job.gate = "agent_runtime" => checks \subseteq {"pass"}
    /\ job.gate = "skill" => "non-evidence" \notin checks

NoJudge ==
    /\ stage = "judge_spec"
    /\ job.gate = "profile" \/ ~GateOpen
    /\ stage' = "classify"
    /\ UNCHANGED <<job, attempts, decisions, readiness, verdictVars>>

StartJudge ==
    /\ stage = "judge_spec" /\ GateOpen
    /\ judgeRequired' = TRUE
    /\ stage' = "judge"
    /\ UNCHANGED <<job, attempts, decisions, readiness, checks, contractFailure, semantic,
                   classification, artifact>>

JudgeSpecRaises ==
    /\ stage = "judge_spec" /\ GateOpen
    /\ judgeRequired' = TRUE
    /\ contractFailure' = "judge_spec_invalid"
    /\ stage' = "classify"
    /\ UNCHANGED <<job, attempts, decisions, readiness, checks, semantic, classification, artifact>>

ParseJudge ==
    /\ stage = "parse"
    /\ \/ semantic' \in {"pass", "fail"} /\ UNCHANGED contractFailure
       \/ contractFailure' = "judge_contract_invalid" /\ UNCHANGED semantic
    /\ stage' = "classify"
    /\ UNCHANGED <<job, attempts, decisions, readiness, checks, judgeRequired, classification, artifact>>

JudgeFailure ==
    IF attempts["judge"] # <<>> /\ Latest("judge").code # "none"
    THEN Latest("judge").code ELSE contractFailure

Classify ==
    /\ stage = "classify"
    /\ classification' = ClassifyEvaluation(Latest("target").code, readiness, checks,
                                            judgeRequired, JudgeFailure, semantic)
    /\ stage' = "seal"
    /\ UNCHANGED <<job, attempts, decisions, readiness, checks, judgeRequired, contractFailure,
                   semantic, artifact>>

---------------------------------------------------------------------------
(* build_eval_artifact.                                                     *)

(* _attempts_json hands the retry decisions to the failed attempts in turn  *)
(* and raises when some are left over.                                      *)
FailedUpTo(p, k) == Cardinality({i \in 1..k : attempts[p][i].code # "none"})
AttemptsJson(p) ==
    [k \in DOMAIN attempts[p] |->
        IF attempts[p][k].code # "none" /\ FailedUpTo(p, k) <= Len(decisions[p])
        THEN decisions[p][FailedUpTo(p, k)] ELSE "none"]
AttemptsJsonRaises(p) == Len(decisions[p]) > FailedUpTo(p, Len(attempts[p]))

NoArtifact == [classification |-> "none", readiness |-> "none", target |-> <<>>, judge |-> <<>>]

SealArtifact ==
    /\ stage = "seal"
    /\ IF \E p \in Phases : AttemptsJsonRaises(p)
       THEN stage' = "escaped" /\ UNCHANGED artifact
       ELSE /\ stage' = "sealed"
            /\ artifact' = [classification |-> classification, readiness |-> readiness,
                            target |-> AttemptsJson("target"), judge |-> AttemptsJson("judge")]
    /\ UNCHANGED <<job, attempts, decisions, readiness, checks, judgeRequired, contractFailure,
                   semantic, classification>>

Finished == stage \in {"sealed", "escaped"} /\ UNCHANGED vars

---------------------------------------------------------------------------
Init ==
    /\ job \in Jobs
    /\ stage = "target"
    /\ attempts = [p \in Phases |-> <<>>]
    /\ decisions = [p \in Phases |-> <<>>]
    /\ readiness = "none"
    /\ checks = {} /\ judgeRequired = FALSE /\ contractFailure = "none"
    /\ semantic = "none" /\ classification = "none"
    /\ artifact = NoArtifact

AttemptStep(p) == InvokeReturns(p) \/ InvokeFails(p) \/ RetryBlocked(p) \/ AskPolicy(p)

EngineStep ==
    \/ SkipUnusableTarget \/ DeterministicChecks
    \/ NoJudge \/ StartJudge \/ JudgeSpecRaises \/ ParseJudge
    \/ Classify \/ SealArtifact

Progress == (\E p \in Phases : AttemptStep(p)) \/ ReadinessCheckFails \/ EngineStep

Next == Progress \/ Escape \/ Finished

Spec == Init /\ [][Next]_vars

---------------------------------------------------------------------------
(* Properties.                                                              *)

TypeOK ==
    /\ job \in AllJobs
    /\ stage \in Stages
    /\ attempts \in [Phases -> Seq(AttemptRecords)]
    /\ decisions \in [Phases -> Seq({"retry", "stop"})]
    /\ readiness \in Readinesses
    /\ checks \subseteq {"pass", "fail", "non-evidence"}
    /\ judgeRequired \in BOOLEAN
    /\ contractFailure \in {"none", "judge_spec_invalid", "judge_contract_invalid"}
    /\ semantic \in {"none", "pass", "fail"}
    /\ classification \in {"none", "pass", "fail", "non-evidence"}
    /\ artifact \in [classification: {"none", "pass", "fail", "non-evidence"},
                     readiness: Readinesses,
                     target: Seq({"none", "retry", "stop"}),
                     judge: Seq({"none", "retry", "stop"})]

(* An attempt in which the model ran a tool is never followed by another    *)
(* attempt of the same phase, whatever the retry policy asks for: side      *)
(* effects are not replayed (the replay-safety rule of _run_attempts).      *)
ReplaySafe ==
    \A p \in Phases : \A k \in DOMAIN attempts[p] :
        attempts[p][k].acted => k = Len(attempts[p])

(* Attempts are bounded, and every one but the last failed: no attempt is   *)
(* repeated after a clean result, whatever the checks will make of it.      *)
OnlyFailuresAreRepeated ==
    \A p \in Phases :
        /\ Len(attempts[p]) <= MaxAttempts[p]
        /\ \A k \in DOMAIN attempts[p] :
               k < Len(attempts[p]) => attempts[p][k].code # "none"

(* A sealed artifact tells the whole retry story of each phase: one entry   *)
(* per attempt, "retry" on every attempt that was followed by another one,  *)
(* "stop" on a last attempt that failed, nothing on a clean one; and        *)
(* _attempts_json never meets a decision without its attempt.               *)
HistoryExplained ==
    \A p \in Phases :
        /\ stage = "sealed" =>
               artifact[p] = [k \in DOMAIN attempts[p] |->
                                  IF k < Len(attempts[p]) THEN "retry"
                                  ELSE IF attempts[p][k].code # "none" THEN "stop" ELSE "none"]
        /\ stage = "seal" => ~AttemptsJsonRaises(p)

(* The readiness of the last target attempt, read from its own evidence and *)
(* not from final_readiness, which may be left over from an earlier attempt.*)
TargetEarned ==
    attempts["target"] # <<>> /\ Latest("target").code = "none" /\ Latest("target").own = "ready"

JudgeEarned ==
    judgeRequired =>
        /\ attempts["judge"] # <<>> /\ Latest("judge").code = "none"
        /\ contractFailure = "none" /\ semantic # "none"

(* A behavioural verdict, pass or fail, is given exactly when the last      *)
(* target attempt is clean on its own ready evidence, a judge that was      *)
(* asked for delivered a parsed decision, and the checks leave no doubt.    *)
(* Infrastructure trouble is never a fail and never hides one.              *)
VerdictIsEarned ==
    stage = "sealed" =>
        /\ artifact.classification = "pass" <=>
              /\ TargetEarned /\ JudgeEarned
              /\ checks \subseteq {"pass"} /\ semantic # "fail"
        /\ artifact.classification = "fail" <=>
              /\ TargetEarned /\ JudgeEarned
              /\ "fail" \in checks \/ ("non-evidence" \notin checks /\ semantic = "fail")

(* No judge is invoked, and no check is run, on a target whose last attempt *)
(* failed or whose own evidence is not ready: the stale final_readiness     *)
(* left by an earlier attempt never opens the second phase.                 *)
JudgeNeedsEarnedTarget ==
    [][attempts'["judge"] # attempts["judge"] \/ checks' # checks => TargetEarned]_vars

(* The number of steps that may still be taken: an attempt and what follows *)
(* it are two, and what is left of a budget can be spent in full.           *)
Room(p) == MaxAttempts[p] - Len(attempts[p])
StepsLeft ==
    LET judging == 2 * JudgeMaxAttempts IN
    [target |-> 4 + judging + 2 * Room("target"),
     target_retry |-> 5 + judging + 2 * Room("target"),
     checks |-> 4 + judging, judge_spec |-> 3 + judging,
     judge |-> 2 + 2 * Room("judge"), judge_retry |-> 3 + 2 * Room("judge"),
     parse |-> 3, classify |-> 2, seal |-> 1, sealed |-> 0, escaped |-> 0][stage]

(* Why it ends: whatever invocations and policies answer, an evaluation has *)
(* 2 * (TargetMaxAttempts + JudgeMaxAttempts) + 4 steps at the start, and   *)
(* each step it takes leaves it with fewer.  No attempt is made, asked for  *)
(* or decided on beyond what the two budgets pay for.                       *)
StepsArePaidFor == [][StepsLeft' \in Nat /\ StepsLeft' < StepsLeft]_vars

(* What a caller that forbids replay may rely on, for the target and for    *)
(* the judge: AtMostOnce is implemented by the attempt loop.                *)
Acted(p) == \E k \in DOMAIN attempts[p] : attempts[p][k].acted
TargetOnce == INSTANCE AtMostOnce WITH
    Max <- TargetMaxAttempts, tried <- Len(attempts["target"]), acted <- Acted("target")
JudgeOnce == INSTANCE AtMostOnce WITH
    Max <- JudgeMaxAttempts, tried <- Len(attempts["judge"]), acted <- Acted("judge")

(* The target loop and the judge loop each implement AtMostOnce: once an    *)
(* attempt may have acted, no further attempt of its phase is started.      *)
PhasesActAtMostOnce == TargetOnce!Spec /\ JudgeOnce!Spec
=============================================================================
