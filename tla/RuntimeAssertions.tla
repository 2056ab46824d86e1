-------------------------- MODULE RuntimeAssertions --------------------------
(***************************************************************************)
(* The authored assertions of an agent-runtime case                        *)
(* (runner/eval_assertions.py) and the evidence they ask for               *)
(* (AgentRuntimeFamily.target_evidence_requirement).  Constant-level.      *)
(*                                                                         *)
(* A call assertion names a tool and, unless its input is "any", the input  *)
(* that its arguments match.  A result assertion has also the result that   *)
(* its tests match, a status or "any", an occurrence (0 for none) and       *)
(* `after`, a set of at most one call assertion.  A check of a case is      *)
(*   family        "tools", "actions" or "tool_results"                     *)
(*   forbids       whether it forbids what it describes                     *)
(*   alternatives  its assertions: one, or those of an any_of group         *)
(* Abstracted: how names are normalised, arguments aliased and results      *)
(* searched; an input or result is matched as a whole.                      *)
(***************************************************************************)
EXTENDS InvocationOutcome

(* The value of an input that is available and no object.                   *)
NoObject == "no_object"

---------------------------------------------------------------------------
(* The states of an assertion on one observation: what is not available is  *)
(* neither a match nor a mismatch.                                          *)

Known(holds) == IF holds THEN "yes" ELSE "no"

ToolState(o, tool) == IF o.tool = "hidden" THEN "unknown" ELSE Known(o.tool = tool)

CallState(o, assertion) ==
    IF ToolState(o, assertion.tool) # "yes" \/ assertion.input = "any"
    THEN ToolState(o, assertion.tool)
    ELSE IF o.input \in Unavailable \cup {NoObject} THEN "unknown"
    ELSE Known(o.input = assertion.input)

Calls(observations, assertion, state) ==
    {o \in observations : CallState(o, assertion) = state}

---------------------------------------------------------------------------
(* _result_match: among the calls that match, the chosen occurrence, if it  *)
(* follows what it must follow, has to end with the result.                 *)

Occurrences(observations, assertion) ==
    LET matching == Calls(observations, assertion, "yes") IN
    IF assertion.occurrence = 0 THEN matching
    ELSE {o \in matching :
              Cardinality({p \in matching : p.start <= o.start}) = assertion.occurrence}

(* Mutation: a call may follow itself.                                      *)
FollowsOrIs(observations, o, assertion, state) ==
    \E earlier \in assertion.after, p \in observations :
        p.start <= o.start /\ CallState(p, earlier) = state

Follows(observations, o, assertion, state) ==
    \E earlier \in assertion.after, p \in observations :
        p.start < o.start /\ CallState(p, earlier) = state

Placed(observations, assertion) ==
    {o \in Occurrences(observations, assertion) :
        assertion.after = {} \/ Follows(observations, o, assertion, "yes")}

PerhapsPlaced(observations, assertion) ==
    {o \in Occurrences(observations, assertion) \ Placed(observations, assertion) :
        Follows(observations, o, assertion, "unknown")}

ResultState(o, assertion) ==
    IF o.outcome = "missing" THEN "unknown"
    ELSE IF assertion.status \notin {"any", o.outcome} THEN "no"
    ELSE IF o.result \in Unavailable THEN "unknown"
    ELSE Known(o.result = assertion.result)

ResultMatch(observations, assertion) ==
    LET unsure == Calls(observations, assertion, "unknown") # {}
        ends   == {ResultState(o, assertion) : o \in Placed(observations, assertion)} IN
    IF unsure /\ assertion.occurrence # 0 THEN "unknown"
    ELSE IF "yes" \in ends THEN "yes"
    ELSE IF unsure \/ "unknown" \in ends \/ PerhapsPlaced(observations, assertion) # {} THEN "unknown"
    ELSE "no"

---------------------------------------------------------------------------
(* deterministic_checks.                                                    *)

CheckStates(observations, check) ==
    IF check.family = "tool_results"
    THEN {ResultMatch(observations, assertion) : assertion \in check.alternatives}
    ELSE IF check.family = "tools"
    THEN {ToolState(o, assertion.tool) : o \in observations, assertion \in check.alternatives}
    ELSE {CallState(o, assertion) : o \in observations, assertion \in check.alternatives}

CheckStatus(observations, check) ==
    LET states == CheckStates(observations, check) IN
    IF "yes" \in states THEN (IF check.forbids THEN "fail" ELSE "pass")
    ELSE IF "unknown" \in states THEN "non-evidence"
    ELSE (IF check.forbids THEN "pass" ELSE "fail")

Outcomes(observations, checks) == {CheckStatus(observations, check) : check \in checks}

(* target_evidence_requirement of a case with runtime execution, which is   *)
(* the only one that may have these checks.                                 *)
RequiredFields ==
    [runtime_semantics |-> ObservationFields \ {"result_or_error"},
     tools |-> {"tool"},
     actions |-> {"tool", "input"},
     tool_results |-> ObservationFields]

TargetEvidenceRequirement(checks) ==
    [boundaries |-> ObservedBoundaries,
     fields |-> UNION {RequiredFields[f] :
                    f \in {"runtime_semantics"} \cup {check.family : check \in checks}}]

CheckEvidenceReadiness(e, needs) ==
    IF BoundaryReadiness(e, needs) # "ready" THEN BoundaryReadiness(e, needs)
    ELSE FieldsReadiness(e.observations, needs.fields)

(* The verdict of the checks alone: an unusable target skips them.          *)
ChecksVerdict(e, checks) ==
    LET ready == CheckEvidenceReadiness(e, TargetEvidenceRequirement(checks)) IN
    ClassifyEvaluation("none", ready,
                       IF ready = "ready" THEN Outcomes(e.observations, checks) ELSE {},
                       FALSE, "none", "none")
=============================================================================
