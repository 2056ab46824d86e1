------------------------- MODULE InvocationOutcome -------------------------
(***************************************************************************)
(* What one host `invoke` call can hand to the attempt loop, and how the   *)
(* host reads it: the shape of a validated runtime_evidence/v1 object, the *)
(* classification of a result/v1 object into a failure, the test that an   *)
(* attempt may be replayed, and evidence readiness.  Constant-level module: *)
(* the state machine that uses it is EvaluationPhase.                      *)
(*                                                                         *)
(* Sources: runner/eval_execute.py, runner/eval_evidence.py and, for the   *)
(* shape of evidence, container/runtime_evidence.py.                       *)
(***************************************************************************)
EXTENDS Naturals, Sequences, FiniteSets

Statuses == {"complete", "incomplete", "unsupported", "invalid"}
Boundaries == {"native", "code_mode_execution", "code_mode_finality"}
ObservedBoundaries == {"native", "code_mode_execution"}

(* Worst of a set of statuses under the priority every consumer of the      *)
(* evidence uses: invalid, then incomplete, then unsupported.               *)
Worst(statuses, otherwise) ==
    IF "invalid" \in statuses THEN "invalid"
    ELSE IF "incomplete" \in statuses THEN "incomplete"
    ELSE IF "unsupported" \in statuses THEN "unsupported"
    ELSE otherwise

---------------------------------------------------------------------------
(* Runtime evidence, reduced to what the host distinguishes: the overall    *)
(* status, the status of the boundaries, whether there are observations,    *)
(* the worst state of the observation fields a requirement may name, and    *)
(* the process state.                                                      *)

EvidenceShape ==
    [status: Statuses, boundary: [Boundaries -> Statuses], empty: BOOLEAN,
     field: {"ready", "incomplete", "unsupported"},
     process: {"completed", "timeout", "interrupted", "unsupported"}]

(* validate_runtime_evidence reconstructs the accounting and rejects every  *)
(* object whose statuses differ from it.  An observed boundary is never     *)
(* "unsupported": the builder's required fields are available, redacted or  *)
(* omitted.                                                                *)
ValidateRuntimeEvidence(e) ==
    LET observed == {e.boundary[b] : b \in ObservedBoundaries} IN
    /\ e.boundary["code_mode_finality"] = "unsupported"
    /\ e.empty => e.field = "ready"
    /\ IF e.process = "unsupported"
       THEN e.status = "unsupported" /\ e.empty /\ observed = {"unsupported"}
       ELSE /\ "unsupported" \notin observed
            /\ e.status = Worst(observed, "complete")
            /\ ("invalid" \in observed \/ e.empty) => Cardinality(observed) = 1
            /\ e.process # "completed" => observed \in {{"incomplete"}, {"invalid"}}

Evidence == {e \in EvidenceShape : ValidateRuntimeEvidence(e)}

(* An evidence requirement: the boundaries an assertion needs and whether   *)
(* it also names observation fields.                                       *)
Requirements == [boundaries: SUBSET Boundaries, fields: BOOLEAN]

BoundaryReadiness(e, needs) ==
    IF needs.boundaries = {} THEN "ready"
    ELSE IF e.status \in {"invalid", "incomplete"} THEN e.status
    ELSE Worst({e.boundary[b] : b \in needs.boundaries}, "ready")

EvidenceReadiness(e, needs) ==
    IF BoundaryReadiness(e, needs) = "ready" /\ needs.fields
    THEN e.field ELSE BoundaryReadiness(e, needs)

(* check_evidence_readiness, its half about the fields of the observations.  *)
(* A value that is not available is "redacted", "omitted" or "unsupported";   *)
(* of a tool, "hidden" says redacted.                                        *)
ObservationFields ==
    {"tool", "input", "outcome", "start_sequence", "terminal_sequence", "result_or_error"}

Unavailable == {"redacted", "omitted", "unsupported"}

CheckFieldReadiness(value) ==
    IF value \in Unavailable
    THEN IF value = "unsupported" THEN "unsupported" ELSE "incomplete"
    ELSE "ready"

FieldReadiness(o) ==
    LET terminal == IF o.outcome = "missing" THEN "incomplete" ELSE "ready" IN
    [tool |-> IF o.tool = "hidden" THEN "incomplete" ELSE "ready",
     input |-> CheckFieldReadiness(o.input),
     outcome |-> terminal,
     start_sequence |-> IF o.start > 0 THEN "ready" ELSE "invalid",
     terminal_sequence |-> terminal,
     result_or_error |-> IF terminal = "ready" THEN CheckFieldReadiness(o.result) ELSE terminal]

FieldsReadiness(observations, fields) ==
    Worst({FieldReadiness(o)[f] : o \in observations, f \in fields}, "ready")

---------------------------------------------------------------------------
(* A result/v1 object that passed validate_container_result and the checks  *)
(* against its InvocationSpec.                                              *)

Results ==
    [infrastructure_error: BOOLEAN, exit: {"zero", "timeout", "error"},
     no_route: BOOLEAN, evidence: Evidence]

(* Failure codes of AttemptFailure; "none" is failure = None.               *)
EvidenceCode == [incomplete |-> "evidence_incomplete",
                 unsupported |-> "evidence_unsupported",
                 invalid |-> "evidence_invalid"]
InfrastructureCodes ==
    {"invoke_invalid_result", "invoke_preflight_failed", "invoke_host_error",
     "invoke_outer_timeout", "evidence_readiness_check_failed"}
ProductCodes == {"product_timeout", "product_error"}
EvidenceCodes == {"evidence_incomplete", "evidence_unsupported", "evidence_invalid"}
Failures == {"none"} \cup InfrastructureCodes \cup ProductCodes \cup EvidenceCodes

RaisedCode ==
    [TimeoutExpired |-> "invoke_outer_timeout",
     RunnerErrorOnResult |-> "invoke_invalid_result",
     RunnerError |-> "invoke_preflight_failed",
     OSError |-> "invoke_host_error"]

(* The fact a retry rests on: closed and complete evidence without a single *)
(* observed start.                                                         *)
EvidenceProvesNoInvocation(e) ==
    e.status = "complete" /\ e.empty /\ e.process = "completed"

IsTransientProviderUnavailable(result) ==
    result.exit # "zero" /\ result.no_route

ClassifyResult(result, hostOk) ==
    IF result.infrastructure_error THEN "invoke_preflight_failed"
    ELSE IF ~hostOk THEN "invoke_host_error"
    ELSE [zero |-> "none", timeout |-> "product_timeout", error |-> "product_error"][result.exit]

(* Mutation: every host error is thought safe to repeat.                    *)
RetrySafeOnHostError(result, code, hostOk) == code = "invoke_host_error" /\ ~hostOk

RetrySafe(result, code, hostOk) ==
    /\ code = "invoke_host_error"
    /\ ~hostOk
    /\ EvidenceProvesNoInvocation(result.evidence)

(* What an invoke that returns can hand over, and whether the model acted.  *)
(* Evidence that proves there was no invocation is taken at its word here:  *)
(* NativeObserver is about that, and ContainerInvocation about the rest of  *)
(* what a call may do.                                                      *)
Replies ==
    {x \in [result: Results, hostOk: BOOLEAN, acted: BOOLEAN] :
        EvidenceProvesNoInvocation(x.result.evidence) => ~x.acted}

(* apply_evidence_readiness: the failure of an attempt whose result could   *)
(* be read, after the readiness check.  An earlier failure is kept.         *)
ApplyReadiness(code, own) ==
    IF code = "none" /\ own # "ready" THEN EvidenceCode[own] ELSE code

---------------------------------------------------------------------------
(* Mutation: a failed check is a verdict before the required judge is in.   *)
ClassifyChecksFirst(targetFailure, ready, outcomes, required, judgeFailure, decision) ==
    IF targetFailure # "none" \/ ready # "ready" THEN "non-evidence"
    ELSE IF "fail" \in outcomes THEN "fail"
    ELSE IF ~(outcomes \subseteq {"pass"}) THEN "non-evidence"
    ELSE IF required /\ (judgeFailure # "none" \/ decision = "none") THEN "non-evidence"
    ELSE IF decision = "none" THEN "pass" ELSE decision

(* classify_evaluation, in its order of precedence.  Its last fallback, a    *)
(* required judge without a decision, is already caught by the first test.  *)

ClassifyEvaluation(targetFailure, ready, outcomes, required, judgeFailure, decision) ==
    IF \/ targetFailure # "none"
       \/ ready # "ready"
       \/ required /\ (judgeFailure # "none" \/ decision = "none")
    THEN "non-evidence"
    ELSE IF "fail" \in outcomes THEN "fail"
    ELSE IF ~(outcomes \subseteq {"pass"}) THEN "non-evidence"
    ELSE IF decision = "none" THEN "pass" ELSE decision
=============================================================================
