-------------------------- MODULE PairedEvaluation --------------------------
(***************************************************************************)
(* One paired job: a baseline and a candidate evaluation of one case, one  *)
(* after the other or at once, and their comparison                        *)
(* (runner/eval_paired.py, runner/eval_compare.py), under the skill        *)
(* ablation of runner/eval_builtin.py or a project's own comparison.       *)
(*                                                                         *)
(* A side is an EvaluationPhase, of which only its end is kept here: in a  *)
(* skill pair what the target's evidence says of the tested skill and what *)
(* the judge answered, in a project's pair its classification.  Either may *)
(* raise instead.  The temporary workspaces of both sides are the caller's *)
(* and go when run_paired_evaluation (stage "run") returns or raises.      *)
(***************************************************************************)
EXTENDS InvocationOutcome, Integers

CONSTANT Pairs    \* the jobs considered

Sides == {"baseline", "candidate"}
Verdicts == {"pass", "fail", "non-evidence"}

(* first is policy.order[0]; expectations and rules count what the judge    *)
(* grades, trap says whether the case declares one.  The skill family leaves *)
(* the policy at its default.                                               *)
ASSUME PairsAssumption ==
    /\ Pairs \subseteq [mode: {"sequential", "parallel"}, first: Sides,
                        extension: {"skill", "project", "absent"},
                        expectations: Nat \ {0}, rules: Nat, trap: BOOLEAN]
    /\ \A p \in Pairs : p.extension = "skill" => p.mode = "sequential" /\ p.first = "baseline"

VARIABLES
    pair,            \* the job, never changed
    stage,           \* where run_paired_evaluation and its caller are
    at,              \* where each side is
    target,          \* what the last target attempt of each side shows
    check,           \* the deterministic check of each side
    grade,           \* the accepted judgment of each side
    classification,  \* the outcome of each side
    comparison,
    status           \* what _persist_lane makes of the artifact

vars == <<pair, stage, at, target, check, grade, classification, comparison, status>>
callerVars == <<stage, comparison, status>>

(* The native observations of a target that can matter: one that is not     *)
(* readable or has no terminal, and a load of the tested skill that failed  *)
(* or succeeded.  complete says whether text, tools, actions and the        *)
(* skills_loaded projection are usable; projected, whether the projection   *)
(* names the skill.                                                         *)
Targets == [usable: BOOLEAN, complete: BOOLEAN, projected: BOOLEAN,
            observed: SUBSET {"unreadable", "failed load", "load"}]
NoTarget == [usable |-> FALSE, complete |-> FALSE, projected |-> FALSE, observed |-> {}]

Grades == [given: BOOLEAN, met: 0..pair.expectations, violated: 0..pair.rules,
           trap_observed: BOOLEAN, passed: BOOLEAN]
NoGrade == [given |-> FALSE, met |-> 0, violated |-> 0, trap_observed |-> FALSE, passed |-> FALSE]

---------------------------------------------------------------------------
(* The two sides.                                                           *)

StartSide(s) ==
    /\ stage = "run" /\ at[s] = "waiting"
    /\ pair.mode = "sequential" /\ s # pair.first => at[pair.first] = "done"
    /\ at' = [at EXCEPT ![s] = "target"]
    /\ UNCHANGED <<pair, target, check, grade, classification, callerVars>>

NativeSkillObservation(t) ==
    IF "unreadable" \in t.observed THEN "non-evidence"
    ELSE IF "load" \in t.observed THEN "loaded" ELSE "not-loaded"

(* deterministic_checks: the baseline must not have the skill, the candidate *)
(* must have loaded it, and the projection must agree with the evidence.    *)
SkillCheck(s, t) ==
    LET loaded == NativeSkillObservation(t) IN
    IF ~t.complete \/ loaded = "non-evidence" THEN "non-evidence"
    ELSE IF s = "baseline"
         THEN IF loaded = "loaded" \/ t.projected THEN "non-evidence" ELSE "pass"
         ELSE IF t.projected # (loaded = "loaded") THEN "non-evidence"
              ELSE IF t.projected THEN "pass" ELSE "fail"

(* Mutation: as in the agent-runtime family, a failed check needs no judge.  *)
JudgeIsAskedOnPass(s) == check[s] = "pass"

(* judge_spec: a failed check does not suppress the skill judge.            *)
JudgeIsAsked(s) == check[s] \in {"pass", "fail"}

TargetEnds(s) ==
    /\ pair.extension = "skill" /\ at[s] = "target"
    /\ \E t \in Targets :
          /\ target' = [target EXCEPT ![s] = t]
          /\ check' = [check EXCEPT ![s] = IF t.usable THEN SkillCheck(s, t) ELSE "none"]
    /\ at' = [at EXCEPT ![s] = "checked"]
    /\ UNCHANGED <<pair, grade, classification, callerVars>>

StartJudge(s) ==
    /\ at[s] = "checked" /\ JudgeIsAsked(s)
    /\ at' = [at EXCEPT ![s] = "judge"]
    /\ UNCHANGED <<pair, target, check, grade, classification, callerVars>>

(* Mutation: the judge's own word for it is enough.                         *)
AcceptsAnyVerdict(answer) == answer.trap_observed => pair.trap

(* _grade: passed must follow from the details, and only a declared trap     *)
(* can be observed.                                                         *)
Accepts(answer) ==
    /\ answer.trap_observed => pair.trap
    /\ answer.passed <=> /\ answer.met = pair.expectations /\ answer.violated = 0
                         /\ ~answer.trap_observed

(* The judge's attempts fail or its answer is rejected, which both leave no *)
(* semantic decision; or the answer is accepted.                            *)
JudgeEnds(s) ==
    /\ at[s] = "judge"
    /\ at' = [at EXCEPT ![s] = "judged"]
    /\ \/ UNCHANGED grade
       \/ \E answer \in Grades :
             /\ answer.given /\ Accepts(answer)
             /\ grade' = [grade EXCEPT ![s] = answer]
    /\ UNCHANGED <<pair, target, check, classification, callerVars>>

Semantic(s) == IF ~grade[s].given THEN "none" ELSE IF grade[s].passed THEN "pass" ELSE "fail"

Classify(s) ==
    /\ at[s] = "judged" \/ (at[s] = "checked" /\ ~JudgeIsAsked(s))
    /\ at' = [at EXCEPT ![s] = "done"]
    /\ classification' = [classification EXCEPT ![s] =
           IF ~target[s].usable THEN "non-evidence"
           ELSE ClassifyEvaluation("none", "ready", {check[s]}, at[s] = "judged", "none", Semantic(s))]
    /\ UNCHANGED <<pair, target, check, grade, callerVars>>

(* A side of a project's pair, which EvaluationPhase describes.             *)
ProjectSideEnds(s) ==
    /\ pair.extension # "skill" /\ at[s] = "target"
    /\ at' = [at EXCEPT ![s] = "done"]
    /\ \E c \in Verdicts : classification' = [classification EXCEPT ![s] = c]
    /\ UNCHANGED <<pair, target, check, grade, callerVars>>

SideRaises(s) ==
    /\ at[s] \in {"target", "judge"}
    /\ at' = [at EXCEPT ![s] = "raised"]
    /\ UNCHANGED <<pair, target, check, grade, classification, callerVars>>

---------------------------------------------------------------------------
(* run_paired_evaluation and compare_completed_outcomes.                    *)

(* Mutation: the first exception is passed on at once.                      *)
PairFailsAtOnce ==
    /\ stage = "run" /\ \E s \in Sides : at[s] = "raised"
    /\ stage' = "raised"
    /\ UNCHANGED <<pair, at, target, check, grade, classification, comparison, status>>

(* An exception of a side ends the pair; in parallel mode the pool is left  *)
(* only when the other side is over as well.                                *)
PairFails ==
    /\ stage = "run" /\ \E s \in Sides : at[s] = "raised"
    /\ pair.mode = "parallel" => \A s \in Sides : at[s] \in {"done", "raised"}
    /\ stage' = "raised"
    /\ UNCHANGED <<pair, at, target, check, grade, classification, comparison, status>>

(* behavior_score is Score / Items.                                         *)
Items == pair.expectations + pair.rules + IF pair.trap THEN 1 ELSE 0
Score(s) ==
    grade[s].met + (pair.rules - grade[s].violated)
    + IF pair.trap /\ ~grade[s].trap_observed THEN 1 ELSE 0

(* delta_pp >= 10 is 10 * delta >= Items: its rounding to hundredths of a   *)
(* point changes nothing below 20000 items.                                 *)
SkillValue ==
    LET delta      == Score("candidate") - Score("baseline")
        fixed      == grade["baseline"].trap_observed /\ ~grade["candidate"].trap_observed
        regression == ~grade["baseline"].trap_observed /\ grade["candidate"].trap_observed
    IN IF regression \/ delta < 0 THEN "regression"
       ELSE IF fixed \/ 10 * delta >= Items THEN "material-improvement"
       ELSE IF delta > 0 THEN "improvement" ELSE "neutral"

Result(outcome, decision, value) ==
    [status |-> outcome, baseline |-> classification["baseline"],
     candidate |-> classification["candidate"], decision |-> decision, value |-> value]

(* compare_pair of the skill family, which raises on a side without grade.  *)
SkillComparison ==
    IF \E s \in Sides : ~grade[s].given THEN Result("invalid", "none", "none")
    ELSE Result("compared", IF classification["candidate"] = "pass" THEN "pass" ELSE "fail", SkillValue)

(* A project's compare_pair is missing, raises, returns no valid decision,   *)
(* or decides in its own words.                                             *)
ProjectComparisons ==
    {Result("invalid", "none", "none")}
    \cup {Result("compared", d, "none") : d \in {"pass", "fail", "non-evidence", "own"}}

(* A side without evidence blocks the comparison before the callback runs.   *)
Comparisons ==
    IF pair.extension = "absent" THEN {Result("omitted", "none", "none")}
    ELSE IF \E s \in Sides : classification[s] = "non-evidence"
         THEN {Result("non-evidence", "none", "none")}
    ELSE IF pair.extension = "skill" THEN {SkillComparison} ELSE ProjectComparisons

Compare ==
    /\ stage = "run" /\ \A s \in Sides : at[s] = "done"
    /\ comparison' \in Comparisons
    /\ stage' = "build"
    /\ UNCHANGED <<pair, at, target, check, grade, classification, status>>

---------------------------------------------------------------------------
(* build_paired_eval_artifact and _persist_lane.                            *)

(* validate_comparison_result_envelope, with the sides' own classifications. *)
EnvelopeIsValid(c) ==
    /\ c.baseline = classification["baseline"] /\ c.candidate = classification["candidate"]
    /\ c.status = "compared" => /\ c.decision # "none"
                                /\ {c.baseline, c.candidate} \subseteq {"pass", "fail"}
    /\ c.status # "compared" => c.decision = "none"
    /\ c.status = "non-evidence" => "non-evidence" \in {c.baseline, c.candidate}

BuildArtifact ==
    /\ stage = "build"
    /\ stage' = IF comparison.status = "omitted" \/ EnvelopeIsValid(comparison)
                THEN "persist" ELSE "raised"
    /\ UNCHANGED <<pair, at, target, check, grade, classification, comparison, status>>

Persist ==
    /\ stage = "persist" /\ stage' = "over"
    /\ status' = IF comparison.status = "compared" THEN comparison.decision
                 ELSE IF comparison.status = "non-evidence" THEN "non-evidence" ELSE "error"
    /\ UNCHANGED <<pair, at, target, check, grade, classification, comparison>>

Over == stage \in {"raised", "over"} /\ UNCHANGED vars

---------------------------------------------------------------------------
Init ==
    /\ pair \in Pairs
    /\ stage = "run"
    /\ at = [s \in Sides |-> "waiting"]
    /\ target = [s \in Sides |-> NoTarget]
    /\ check = [s \in Sides |-> "none"]
    /\ grade = [s \in Sides |-> NoGrade]
    /\ classification = [s \in Sides |-> "none"]
    /\ comparison = [status |-> "omitted", baseline |-> "none", candidate |-> "none",
                     decision |-> "none", value |-> "none"]
    /\ status = "pending"

Side(s) ==
    \/ StartSide(s) \/ TargetEnds(s) \/ StartJudge(s) \/ JudgeEnds(s) \/ Classify(s)
    \/ ProjectSideEnds(s) \/ SideRaises(s)

Caller == PairFails \/ Compare \/ BuildArtifact \/ Persist \/ Over

Next == (\E s \in Sides : Side(s)) \/ Caller

Spec == Init /\ [][Next]_vars

---------------------------------------------------------------------------
(* Properties.                                                              *)

TypeOK ==
    /\ pair \in Pairs
    /\ stage \in {"run", "build", "persist", "over", "raised"}
    /\ at \in [Sides -> {"waiting", "target", "checked", "judge", "judged", "done", "raised"}]
    /\ target \in [Sides -> Targets]
    /\ check \in [Sides -> Verdicts \cup {"none"}]
    /\ grade \in [Sides -> Grades]
    /\ classification \in [Sides -> Verdicts \cup {"none"}]
    /\ comparison \in
          [status: {"omitted", "compared", "non-evidence", "invalid"},
           baseline: Verdicts \cup {"none"}, candidate: Verdicts \cup {"none"},
           decision: Verdicts \cup {"none", "own"},
           value: {"none", "regression", "neutral", "improvement", "material-improvement"}]
    /\ status \in Verdicts \cup {"pending", "own", "error"}

(* A side works only while run_paired_evaluation has neither returned nor    *)
(* raised, whatever became of the other side, so that its workspace exists; *)
(* and in a sequential pair only after the first side is completed: nothing *)
(* is spent on the second half of a pair that failed.                       *)
Invoking(s) == at[s] \in {"target", "checked", "judge", "judged"}
SidesRunInTurn ==
    \A s \in Sides : Invoking(s) =>
        /\ stage = "run"
        /\ pair.mode = "sequential" /\ s # pair.first => at[pair.first] = "done"

(* What a side must show, read from its evidence and its judgment alone:     *)
(* a usable target with everything readable, a skill that is there exactly  *)
(* where it belongs or, for the candidate, is plainly absent, and an        *)
(* accepted judgment.                                                       *)
Loaded(s) == "load" \in target[s].observed
Usable(s) ==
    /\ target[s].usable /\ target[s].complete /\ "unreadable" \notin target[s].observed
    /\ target[s].projected <=> Loaded(s)
    /\ s = "baseline" => ~Loaded(s)
    /\ grade[s].given

Flawless(s) ==
    grade[s].met = pair.expectations /\ grade[s].violated = 0 /\ ~grade[s].trap_observed

(* A skill pair that completes passes exactly when both sides are usable and *)
(* the candidate loaded the skill and is flawless, fails exactly when both   *)
(* are usable and it is not, and is non-evidence otherwise.  It is never an  *)
(* error: compare_pair never meets a side it cannot compare, and no envelope *)
(* is refused.                                                              *)
PairVerdictIsEarned ==
    pair.extension = "skill" /\ (\A s \in Sides : at[s] = "done") =>
        /\ stage # "raised"
        /\ stage = "over" =>
             status = IF \E s \in Sides : ~Usable(s) THEN "non-evidence"
                      ELSE IF Loaded("candidate") /\ Flawless("candidate") THEN "pass" ELSE "fail"

(* The label beside the verdict never contradicts it: a candidate that       *)
(* passes is no regression, one with a flaw against a flawless baseline is.  *)
PassIsNoRegression ==
    pair.extension = "skill" /\ comparison.status = "compared" =>
        /\ comparison.decision = "pass" => comparison.value # "regression"
        /\ Flawless("baseline") /\ ~Flawless("candidate") => comparison.value = "regression"
=============================================================================
