---------------------------- MODULE FamilyResult ----------------------------
(***************************************************************************)
(* What a built-in family reports of an evaluated case: the attempts with  *)
(* the invocations they were made with (runner/eval_builtin.py) as the     *)
(* verifying reader takes them (runner/eval_output.py), and the outcomes   *)
(* of the assertions an agent-runtime case was authored with.  The report  *)
(* is a function of the sealed evaluation, so the module adds no state.    *)
(***************************************************************************)
EXTENDS EvaluationPhase

CONSTANT Assertions   \* the authored assertions of tools, actions and tool
                      \* results, an any_of group being one

ASSUME AssertionsAssumption == "output" \notin Assertions

CheckStatuses == {"pass", "fail", "non-evidence"}
Reported == stage = "sealed" /\ job.gate # "profile"

---------------------------------------------------------------------------
(* Mutation: the records are copied before the phase makes its judge's.     *)
RecordedAtTheStart == <<"target">>

(* The attempts.  `invocations` is a list the adapter and the pair hold in  *)
(* common: a record is added as each specification is made.                 *)
Recorded ==
    <<"target">> \o
    IF judgeRequired /\ contractFailure # "judge_spec_invalid" THEN <<"judge">> ELSE <<>>

(* One record per attempt, made of the first two; {} where there is none.   *)
ExpandInvocations(values, targets, judges) ==
    [i \in 1..(targets + judges) |->
        IF i <= targets THEN values[1] ELSE IF Len(values) > 1 THEN values[2] ELSE "missing"]

Invocations ==
    ExpandInvocations(Recorded, Len(attempts["target"]), Len(attempts["judge"]))
Place(p, k) == IF p = "target" THEN k ELSE Len(attempts["target"]) + k

(* The reader of an agent-runtime artifact cuts the records in two and      *)
(* keeps the decisions that the artifact gives.                             *)
AgentAttempts(p) ==
    [k \in DOMAIN artifact[p] |-> [invocation |-> Invocations[Place(p, k)], decision |-> artifact[p][k]]]

(* A side of a skill pair pairs attempts and decisions by their position.   *)
SkillAttempts(p) ==
    [k \in DOMAIN attempts[p] |->
        [invocation |-> Invocations[Place(p, k)],
         decision |-> IF k <= Len(decisions[p]) THEN decisions[p][k] ELSE "none"]]

Attempts(p) == IF job.gate = "skill" THEN SkillAttempts(p) ELSE AgentAttempts(p)

(* The attempts whose evidence is shown: those that left a result, or, for  *)
(* a side of a pair, only the last one.                                     *)
ShownEvidence ==
    {k \in DOMAIN attempts["target"] :
        /\ attempts["target"][k].own # "none"
        /\ job.gate = "skill" => k = Len(attempts["target"])}

---------------------------------------------------------------------------
(* The assertions of an agent-runtime case.  A group may be there with      *)
(* empty arrays only, the output group too.                                 *)
AuthoredCases ==
    [asserted: SUBSET Assertions, emptyGroup: BOOLEAN, output: {"absent", "empty", "literals"}]

(* The statuses the checks of an output group can have: a text that is      *)
(* missing is one check, without a literal too.                             *)
LiteralStatuses ==
    [absent |-> {{}},
     empty |-> {{}, {"non-evidence"}},
     literals |-> {{"non-evidence"}, {"pass"}, {"fail"}, {"pass", "fail"}}]

(* The checks of a usable target, of which the phase keeps the statuses:    *)
(* one for each assertion and each literal, or one for a missing text; or a *)
(* single one of another kind, when the evidence has no observations or the *)
(* callback raised.  An unusable target has none.                           *)
OutcomesOf(c) ==
    IF ~TargetUsable THEN {[assertions |-> <<>>, literals |-> {}]}
    ELSE {o \in [assertions: [c.asserted -> CheckStatuses], literals: LiteralStatuses[c.output]] :
             {o.assertions[a] : a \in c.asserted} \cup o.literals = checks}
         \cup IF checks = {"non-evidence"} THEN {[assertions |-> <<>>, literals |-> {}]} ELSE {}

Known(o) == DOMAIN o.assertions # {} \/ o.literals # {}
HasAssertions(c) == c.asserted # {} \/ c.emptyGroup \/ c.output # "absent"
AssertionsUnavailable(c, o) == HasAssertions(c) /\ ~Known(o)

Entry(a, status, from) == [assertion |-> a, status |-> status, from |-> from]

OutputStatus(c, o) ==
    IF o.literals = {} /\ (~TargetUsable \/ AssertionsUnavailable(c, o)) THEN "non-evidence"
    ELSE IF "fail" \in o.literals THEN "fail"
    ELSE IF "non-evidence" \in o.literals THEN "non-evidence" ELSE "pass"

(* Mutation: only a target that was never checked has its assertions listed. *)
ListedOfUncheckedTargets(c, o) == checks = {} /\ ~TargetUsable

(* Whether the assertions are listed as authored, none having an outcome.   *)
ListedAsAuthored(c, o) ==
    AssertionsUnavailable(c, o) \/ (checks = {} /\ ~TargetUsable)

ReportedAssertions(c, o) ==
    {Entry(a, o.assertions[a], "check") : a \in DOMAIN o.assertions}
    \cup (IF c.output = "absent" THEN {} ELSE {Entry("output", OutputStatus(c, o), "output")})
    \cup (IF ListedAsAuthored(c, o)
          THEN {Entry(a, "non-evidence", "authored") : a \in c.asserted} ELSE {})

---------------------------------------------------------------------------
(* Properties.                                                              *)

(* The report tells the attempts as they were: each with the record of the  *)
(* invocation it was made with, which the reader refuses to be missing, and *)
(* with the decision that followed it, whether that is looked up by the     *)
(* failed attempts (_attempts_json) or by position (_skill_family_result);  *)
(* and a verdict is shown with the evidence of the attempt it rests on.     *)
ReportTellsTheAttempts ==
    Reported =>
        /\ \A p \in Phases :
               /\ Len(Attempts(p)) = Len(attempts[p])
               /\ \A k \in DOMAIN attempts[p] :
                      Attempts(p)[k] =
                          [invocation |-> p,
                           decision |-> IF k < Len(attempts[p]) THEN "retry"
                                        ELSE IF attempts[p][k].code # "none" THEN "stop" ELSE "none"]
        /\ artifact.classification # "non-evidence" => Len(attempts["target"]) \in ShownEvidence

(* Every authored assertion is reported once, whatever became of the target, *)
(* its evidence and the checks, with the outcome its check had or as         *)
(* non-evidence; and the outcomes agree with the verdict beside them: all   *)
(* pass where the case passed, and one fails only where the case failed.    *)
(* An output group of empty arrays is left out: EmptyArraysAssertNothing.   *)
EveryAssertionIsReported ==
    Reported /\ job.gate = "agent_runtime" =>
        \A c \in AuthoredCases : c.output # "empty" =>
            \A o \in OutcomesOf(c) :
                LET entries == ReportedAssertions(c, o) IN
                /\ \A a \in c.asserted \cup (IF c.output = "absent" THEN {} ELSE {"output"}) :
                       Cardinality({e \in entries : e.assertion = a}) = 1
                /\ artifact.classification = "pass" => \A e \in entries : e.status = "pass"
                /\ (\E e \in entries : e.status = "fail") => artifact.classification = "fail"

(* "Optional arrays may be empty and then assert nothing" (docs/architecture *)
(* /eval-format-ownership/specifications/ars-001-runner-eval-contract.md):  *)
(* the report of a case that passed shows no assertion that did not.        *)
EmptyArraysAssertNothing ==
    Reported /\ job.gate = "agent_runtime" /\ artifact.classification = "pass" =>
        \A c \in AuthoredCases : \A o \in OutcomesOf(c) :
            \A e \in ReportedAssertions(c, o) : e.status = "pass"
=============================================================================
