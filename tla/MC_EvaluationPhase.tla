------------------------- MODULE MC_EvaluationPhase -------------------------
(***************************************************************************)
(* Small instances of EvaluationPhase for TLC.  The requirements are the   *)
(* empty one, one of the boundaries that can be ready that also names      *)
(* fields, and one of the boundary no observer supports.  The gate is read *)
(* after the target's retries are over, so policies and gates are varied   *)
(* one at a time.                                                          *)
(***************************************************************************)
EXTENDS FamilyResult

MCNeeds ==
    {[boundaries |-> {}, fields |-> FALSE],
     [boundaries |-> ObservedBoundaries, fields |-> TRUE],
     [boundaries |-> {"code_mode_finality"}, fields |-> FALSE]}

MCJobs == {j \in AllJobs : 
    j.needs \in MCNeeds /\ (j.policy = "eager" \/ j.gate = "profile")}
=============================================================================
