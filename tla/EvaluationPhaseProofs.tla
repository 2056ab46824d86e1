----------------------- MODULE EvaluationPhaseProofs -----------------------
(***************************************************************************)
(* Proofs about EvaluationPhase and FamilyResult, for every bound on the   *)
(* attempts, every set of jobs and every set of assertions.                *)
(***************************************************************************)
EXTENDS FamilyResult, FiniteSetTheorems, TLAPS

(* The records of returned results are AttemptRecords; one that is marked   *)
(* replay-safe did not act; a clean target record has ready evidence.       *)
LEMMA ReadableFacts ==
    ASSUME NEW x \in ReadableAttempts
    PROVE  /\ x.phase \in Phases
           /\ x.record \in AttemptRecords
           /\ x.record.safe => ~x.record.acted /\ x.record.code # "none"
           /\ x.phase = "target" /\ x.record.code = "none" => x.record.own = "ready"
<1>1. PICK p \in Phases, n \in {j.needs : j \in Jobs}, y \in Replies :
           x = [phase |-> p, needs |-> n, record |-> Readable(p, n, y)]
    BY DEF ReadableAttempts
<1> DEFINE r == y.result
           hostOk == y.hostOk
           acted == y.acted
           code == ClassifyResult(r, hostOk)
           own == EvidenceReadiness(r.evidence, n)
<1>2. /\ r \in Results /\ hostOk \in BOOLEAN /\ acted \in BOOLEAN
      /\ EvidenceProvesNoInvocation(r.evidence) => ~acted
    BY DEF Replies
<1>3. /\ r.evidence \in EvidenceShape
      /\ r.infrastructure_error \in BOOLEAN /\ r.no_route \in BOOLEAN
      /\ r.exit \in {"zero", "timeout", "error"}
    BY <1>2 DEF Results, Evidence
<1>4. code \in Failures
    BY <1>3 DEF ClassifyResult, Failures, InfrastructureCodes, ProductCodes
<1>5. own \in {"ready", "incomplete", "unsupported", "invalid"}
    BY <1>3 DEF EvidenceReadiness, BoundaryReadiness, Worst, EvidenceShape, Statuses
<1>6. ApplyReadiness(code, own) \in Failures
    BY <1>4, <1>5 DEF ApplyReadiness, EvidenceCode, Failures, EvidenceCodes
<1>7. ApplyReadiness(code, own) = "none" => own = "ready"
    BY <1>5 DEF ApplyReadiness, EvidenceCode
<1>8. /\ RetrySafe(r, code, hostOk) \in BOOLEAN
      /\ RetrySafe(r, code, hostOk) => ~acted /\ code # "none" /\ ApplyReadiness(code, own) # "none"
      /\ IsTransientProviderUnavailable(r) \in BOOLEAN
    BY <1>2 DEF RetrySafe, IsTransientProviderUnavailable, ApplyReadiness
<1>9. x.record = [code |-> IF p = "target" THEN ApplyReadiness(code, own) ELSE code,
                  safe |-> RetrySafe(r, code, hostOk),
                  transient |-> IsTransientProviderUnavailable(r),
                  own |-> IF p = "target" THEN own ELSE "none",
                  acted |-> acted]
    BY <1>1 DEF Readable
<1>10. x.phase = p
    BY <1>1
<1> HIDE DEF r, hostOk, acted, code, own
<1>11. x.record \in AttemptRecords
    BY <1>2, <1>4, <1>5, <1>6, <1>8, <1>9 DEF AttemptRecords, Readinesses
<1> QED
    BY <1>1, <1>7, <1>8, <1>9, <1>10, <1>11

(* Every bound leaves room for one attempt.                                 *)
LEMMA MaxAttemptsFacts ==
    \A p \in Phases : MaxAttempts[p] \in Nat /\ MaxAttempts[p] >= 1
BY MaxAttemptsAssumption DEF MaxAttempts, Phases

(* Appending one attempt to the history of a phase.                         *)
LEMMA AppendFacts ==
    ASSUME NEW S, NEW s \in Seq(S), NEW e \in S
    PROVE  /\ Append(s, e) \in Seq(S)
           /\ Len(Append(s, e)) = Len(s) + 1
           /\ Append(s, e)[Len(s) + 1] = e
           /\ \A k \in DOMAIN Append(s, e) : k # Len(s) + 1 => k \in DOMAIN s /\ Append(s, e)[k] = s[k]
           /\ DOMAIN Append(s, e) = 1 .. (Len(s) + 1)
OBVIOUS

(* What one pass through _run_attempts leaves, for a record that is an      *)
(* AttemptRecord: a common description of the three invoking actions.       *)
Invoked(p, record) ==
    /\ stage = p
    /\ record \in AttemptRecords
    /\ record.safe => ~record.acted /\ record.code # "none"
    /\ p = "target" /\ record.code = "none" => record.own = "ready" /\ readiness' = "ready"
    /\ readiness' \in Readinesses
    /\ p = "judge" => readiness' = readiness
    /\ AppendAttempt(p, record)
    /\ UNCHANGED <<job, decisions, verdictVars>>

LEMMA UnreadableFacts ==
    ASSUME NEW acted \in BOOLEAN,
           NEW code \in {RaisedCode[exc] : exc \in DOMAIN RaisedCode} \cup
                        {"invoke_invalid_result", "invoke_host_error", "evidence_readiness_check_failed"}
    PROVE  /\ Unreadable(code, acted) \in AttemptRecords
           /\ Unreadable(code, acted).code # "none"
           /\ Unreadable(code, acted).safe = FALSE
BY DEF Unreadable, AttemptRecords, RaisedCode, Failures, InfrastructureCodes, Readinesses

LEMMA InvokedFacts ==
    ASSUME readiness \in Readinesses,
           \/ \E p \in Phases : InvokeReturns(p) \/ InvokeFails(p)
           \/ ReadinessCheckFails
    PROVE  \E p \in Phases, record \in AttemptRecords : Invoked(p, record)
<1>1. CASE \E p \in Phases : InvokeReturns(p)
    <2>1. PICK p \in Phases : InvokeReturns(p)
        BY <1>1
    <2>2. PICK x \in ReadableAttempts : /\ x.phase = p /\ x.needs = job.needs
                                        /\ AppendAttempt(p, x.record)
                                        /\ readiness' = IF p = "target" THEN x.record.own ELSE readiness
        BY <2>1 DEF InvokeReturns
    <2>3. /\ x.record \in AttemptRecords
          /\ x.record.safe => ~x.record.acted /\ x.record.code # "none"
          /\ p = "target" /\ x.record.code = "none" => x.record.own = "ready"
        BY <2>2, ReadableFacts
    <2>4. readiness' \in Readinesses
        BY <2>2, <2>3 DEF AttemptRecords
    <2>5. Invoked(p, x.record)
        BY <2>1, <2>2, <2>3, <2>4 DEF Invoked, InvokeReturns
    <2> QED
        BY <2>3, <2>5
<1>2. CASE \E p \in Phases : InvokeFails(p)
    <2>1. PICK p \in Phases : InvokeFails(p)
        BY <1>2
    <2>2. PICK acted \in BOOLEAN,
               code \in {RaisedCode[exc] : exc \in DOMAIN RaisedCode} \cup
                        {"invoke_invalid_result", "invoke_host_error"} :
               AppendAttempt(p, Unreadable(code, acted))
        BY <2>1 DEF InvokeFails
    <2>3. Invoked(p, Unreadable(code, acted))
        BY <2>1, <2>2, UnreadableFacts DEF Invoked, InvokeFails
    <2> QED
        BY <2>2, <2>3, UnreadableFacts
<1>3. CASE ReadinessCheckFails
    <2>1. PICK acted \in BOOLEAN :
               AppendAttempt("target", Unreadable("evidence_readiness_check_failed", acted))
        BY <1>3 DEF ReadinessCheckFails
    <2>2. Invoked("target", Unreadable("evidence_readiness_check_failed", acted))
        BY <1>3, <2>1, UnreadableFacts DEF Invoked, ReadinessCheckFails
    <2> QED
        BY <2>1, <2>2, UnreadableFacts DEF Phases
<1> QED
    BY <1>1, <1>2, <1>3

---------------------------------------------------------------------------
(* Type correctness.                                                        *)

(* The decisions _attempts_json hands out are decisions that were taken.    *)
LEMMA AttemptsJsonType ==
    ASSUME TypeOK, NEW p \in Phases
    PROVE  AttemptsJson(p) \in Seq({"none", "retry", "stop"})
<1> DEFINE failed(k) == {i \in 1..k : attempts[p][i].code # "none"}
<1>1. /\ attempts[p] \in Seq(AttemptRecords)
      /\ decisions[p] \in Seq({"retry", "stop"})
    BY DEF TypeOK
<1>2. ASSUME NEW k \in DOMAIN attempts[p], attempts[p][k].code # "none",
             FailedUpTo(p, k) <= Len(decisions[p])
      PROVE  decisions[p][FailedUpTo(p, k)] \in {"retry", "stop"}
    <2>1. k \in Nat /\ k \in 1..k
        BY <1>1, <1>2
    <2>2. IsFiniteSet(1..k)
        BY <2>1, FS_Interval
    <2>3. IsFiniteSet(failed(k))
        BY <2>2, FS_Subset
    <2>4. Cardinality(failed(k)) \in Nat /\ Cardinality(failed(k)) # 0
        <3>1. Cardinality(failed(k)) \in Nat
            BY <2>3, FS_CardinalityType
        <3>2. k \in failed(k)
            BY <1>2, <2>1
        <3>3. failed(k) # {}
            BY <3>2
        <3> HIDE DEF failed
        <3>4. Cardinality(failed(k)) = 0 <=> failed(k) = {}
            BY <2>3, FS_EmptySet
        <3> QED
            BY <3>1, <3>3, <3>4
    <2>5. FailedUpTo(p, k) \in 1..Len(decisions[p])
        BY <1>1, <1>2, <2>4 DEF FailedUpTo
    <2> QED
        BY <1>1, <2>5
<1>3. AttemptsJson(p) \in [1..Len(attempts[p]) -> {"none", "retry", "stop"}]
    BY <1>1, <1>2 DEF AttemptsJson
<1> QED
    BY <1>1, <1>3

LEMMA InvokedType ==
    ASSUME TypeOK, NEW p \in Phases, NEW record \in AttemptRecords, Invoked(p, record)
    PROVE  TypeOK'
<1>1. attempts' \in [Phases -> Seq(AttemptRecords)]
    BY DEF TypeOK, Invoked, AppendAttempt
<1>2. stage' \in Stages
    BY DEF Invoked, AppendAttempt, Leave, Retrying, Stages, Phases
<1> QED
    BY <1>1, <1>2 DEF TypeOK, Invoked, verdictVars

LEMMA DecideType ==
    ASSUME TypeOK, NEW p \in Phases, NEW answer \in {"retry", "stop"}, Decide(p, answer)
    PROVE  TypeOK'
<1>1. decisions' \in [Phases -> Seq({"retry", "stop"})]
    BY DEF TypeOK, Decide
<1>2. stage' \in Stages
    BY DEF Decide, Stages, Phases
<1> QED
    BY <1>1, <1>2 DEF TypeOK, Decide, verdictVars

(* The policy answers for the latest attempt are decisions.                 *)
LEMMA AskPolicyDecides ==
    ASSUME TypeOK, NEW p \in Phases, AskPolicy(p)
    PROVE  \E answer \in {"retry", "stop"} : Decide(p, answer)
<1>1. job.policy \in {"absent", "transient", "eager"}
    BY DEF TypeOK, AllJobs
<1> QED
    BY <1>1 DEF AskPolicy, PolicyAnswers

(* Every step of the phase, the three invoking actions merged.              *)
LEMMA NextCases ==
    ASSUME TypeOK, [Next]_vars
    PROVE  \/ \E p \in Phases, record \in AttemptRecords : Invoked(p, record)
           \/ \E p \in Phases : RetryBlocked(p) \/ AskPolicy(p)
           \/ EngineStep
           \/ Escape
           \/ UNCHANGED vars
<1>1. readiness \in Readinesses
    BY DEF TypeOK
<1> QED
    BY <1>1, InvokedFacts DEF Next, Progress, AttemptStep, Finished

LEMMA TypeStep == TypeOK /\ [Next]_vars => TypeOK'
<1> SUFFICES ASSUME TypeOK, [Next]_vars
             PROVE  TypeOK'
    OBVIOUS
<1>1. CASE \E p \in Phases, record \in AttemptRecords : Invoked(p, record)
    BY <1>1, InvokedType
<1>2. CASE \E p \in Phases : RetryBlocked(p)
    BY <1>2, DecideType DEF RetryBlocked
<1>3. CASE \E p \in Phases : AskPolicy(p)
    BY <1>3, AskPolicyDecides, DecideType
<1>4. CASE SkipUnusableTarget
    BY <1>4 DEF SkipUnusableTarget, TypeOK, verdictVars, Stages
<1>5. CASE DeterministicChecks
    BY <1>5 DEF DeterministicChecks, TypeOK, Stages
<1>6. CASE NoJudge
    BY <1>6 DEF NoJudge, TypeOK, verdictVars, Stages
<1>7. CASE StartJudge
    BY <1>7 DEF StartJudge, TypeOK, Stages
<1>8. CASE JudgeSpecRaises
    BY <1>8 DEF JudgeSpecRaises, TypeOK, Stages
<1>9. CASE ParseJudge
    BY <1>9 DEF ParseJudge, TypeOK, Stages
<1>10. CASE Classify
    BY <1>10 DEF Classify, TypeOK, ClassifyEvaluation, Stages
<1>11. CASE SealArtifact
    <2>1. /\ AttemptsJson("target") \in Seq({"none", "retry", "stop"})
          /\ AttemptsJson("judge") \in Seq({"none", "retry", "stop"})
        BY AttemptsJsonType DEF Phases
    <2>2. artifact' \in [classification: {"none", "pass", "fail", "non-evidence"},
                         readiness: Readinesses,
                         target: Seq({"none", "retry", "stop"}),
                         judge: Seq({"none", "retry", "stop"})]
        BY <1>11, <2>1 DEF SealArtifact, TypeOK
    <2> QED
        BY <1>11, <2>2 DEF SealArtifact, TypeOK, Stages
<1>12. CASE Escape
    BY <1>12 DEF Escape, TypeOK, verdictVars, Stages
<1>13. CASE UNCHANGED vars
    BY <1>13 DEF vars, TypeOK
<1> QED
    BY <1>1, <1>2, <1>3, <1>4, <1>5, <1>6, <1>7, <1>8, <1>9, <1>10, <1>11, <1>12, <1>13,
       NextCases DEF EngineStep

(* The types of the phase's state hold in every state of every behaviour.   *)
THEOREM TypeCorrect == Spec => []TypeOK
<1>1. Init => TypeOK
    <2> SUFFICES ASSUME Init PROVE TypeOK
        OBVIOUS
    <2>1. job \in AllJobs
        BY JobsAssumption DEF Init
    <2>2. attempts \in [Phases -> Seq(AttemptRecords)]
        BY DEF Init
    <2>3. decisions \in [Phases -> Seq({"retry", "stop"})]
        BY DEF Init
    <2>4. artifact \in [classification: {"none", "pass", "fail", "non-evidence"},
                        readiness: Readinesses,
                        target: Seq({"none", "retry", "stop"}),
                        judge: Seq({"none", "retry", "stop"})]
        BY DEF Init, NoArtifact, Readinesses
    <2> QED
        BY <2>1, <2>2, <2>3, <2>4 DEF Init, TypeOK, Stages, Readinesses
<1>2. TypeOK /\ [Next]_vars => TypeOK'
    BY TypeStep
<1> QED
    BY <1>1, <1>2, PTL DEF Spec

---------------------------------------------------------------------------
(* Replay safety.  ReplaySafe is not inductive: that the next invocation    *)
(* follows attempts that did not act rests on the stage the loop is in, and *)
(* on the link between the replay-safe mark and the evidence.               *)

LoopInv ==
    /\ \A p \in Phases : \A k \in DOMAIN attempts[p] :
           attempts[p][k].safe => ~attempts[p][k].acted
    /\ \A p \in Phases : stage = p =>
           /\ Len(attempts[p]) < MaxAttempts[p]
           /\ \A k \in DOMAIN attempts[p] :
                  ~attempts[p][k].acted /\ attempts[p][k].code # "none"
    /\ \A p \in Phases : stage = Retrying[p] =>
           attempts[p] # <<>> /\ Latest(p).code # "none"
    /\ stage \in {"target", "target_retry", "checks", "judge_spec"} => attempts["judge"] = <<>>
    /\ ReplaySafe
    /\ OnlyFailuresAreRepeated

LEMMA InvokedLoop ==
    ASSUME TypeOK, LoopInv, NEW p \in Phases, NEW record \in AttemptRecords, Invoked(p, record)
    PROVE  LoopInv'
<1> DEFINE n == Len(attempts[p]) + 1
<1>1. /\ stage = p
      /\ attempts[p] \in Seq(AttemptRecords)
      /\ attempts' = [attempts EXCEPT ![p] = Append(attempts[p], record)]
      /\ stage' = IF record.code = "none" THEN Leave(p) ELSE Retrying[p]
    BY DEF Invoked, AppendAttempt, TypeOK
<1>2. /\ attempts'[p] = Append(attempts[p], record)
      /\ Len(attempts'[p]) = n /\ attempts'[p][n] = record
      /\ DOMAIN attempts'[p] = 1..n
      /\ \A k \in DOMAIN attempts'[p] : k # n => k \in DOMAIN attempts[p] /\ attempts'[p][k] = attempts[p][k]
      /\ n \in Nat /\ n > 0
    BY <1>1, AppendFacts DEF TypeOK
<1>3. \A q \in Phases : q # p => attempts'[q] = attempts[q]
    BY <1>1 DEF TypeOK
<1>4. record.safe => ~record.acted
    BY DEF Invoked
<1>5. \A k \in DOMAIN attempts[p] : ~attempts[p][k].acted /\ attempts[p][k].code # "none"
    BY <1>1 DEF LoopInv
<1>6. (\A q \in Phases : \A k \in DOMAIN attempts[q] :
           attempts[q][k].safe => ~attempts[q][k].acted)'
    BY <1>2, <1>3, <1>4 DEF LoopInv
<1>7. \A q \in Phases : stage' # q
    BY <1>1 DEF Phases, Leave, Retrying
<1>8. ASSUME NEW q \in Phases, stage' = Retrying[q]
      PROVE  attempts'[q] # <<>> /\ Latest(q)'.code # "none"
    <2>1. q = p /\ record.code # "none"
        BY <1>1, <1>8 DEF Phases, Leave, Retrying
    <2> QED
        BY <1>2, <2>1 DEF Latest
<1>9. stage' \in {"target", "target_retry", "checks", "judge_spec"} => attempts'["judge"] = <<>>
    BY <1>1, <1>3 DEF Phases, Leave, Retrying, LoopInv
<1>10. ReplaySafe'
    BY <1>2, <1>3, <1>5 DEF LoopInv, ReplaySafe
<1>11. OnlyFailuresAreRepeated'
    <2>1. n <= MaxAttempts[p]
        BY <1>1, MaxAttemptsFacts DEF LoopInv
    <2>2. \A k \in DOMAIN attempts'[p] : k < n => attempts'[p][k].code # "none"
        BY <1>2, <1>5
    <2> QED
        BY <1>2, <1>3, <2>1, <2>2, SMTT(30) DEF LoopInv, OnlyFailuresAreRepeated
<1> QED
    BY <1>6, <1>7, <1>8, <1>9, <1>10, <1>11 DEF LoopInv

(* A decision moves the stage only; the loop is re-entered after a          *)
(* replay-safe attempt, with room left.                                     *)
LEMMA DecideLoop ==
    ASSUME TypeOK, LoopInv, NEW p \in Phases, NEW answer \in {"retry", "stop"},
           stage = Retrying[p], Decide(p, answer),
           answer = "retry" => Len(attempts[p]) < MaxAttempts[p] /\ Latest(p).safe
    PROVE  LoopInv'
<1>1. /\ attempts' = attempts
      /\ stage' = IF answer = "retry" THEN p ELSE IF p = "target" THEN "checks" ELSE "classify"
    BY DEF Decide
<1>2. ASSUME NEW q \in Phases, stage' = q
      PROVE  /\ Len(attempts[q]) < MaxAttempts[q]
             /\ \A k \in DOMAIN attempts[q] : ~attempts[q][k].acted /\ attempts[q][k].code # "none"
    <2>1. q = p /\ answer = "retry"
        BY <1>1, <1>2 DEF Phases
    <2>2. /\ attempts[p] \in Seq(AttemptRecords) /\ attempts[p] # <<>>
          /\ Latest(p).code # "none" /\ Latest(p).safe
        BY <2>1 DEF LoopInv, TypeOK
    <2>3. Len(attempts[p]) \in DOMAIN attempts[p]
        BY <2>2
    <2>4. ~Latest(p).acted
        BY <2>2, <2>3 DEF LoopInv, Latest
    <2>5. \A k \in DOMAIN attempts[p] : k # Len(attempts[p]) => k < Len(attempts[p])
        BY <2>2
    <2>6. \A k \in DOMAIN attempts[p] : ~attempts[p][k].acted /\ attempts[p][k].code # "none"
        BY <2>2, <2>4, <2>5 DEF LoopInv, ReplaySafe, OnlyFailuresAreRepeated, Latest
    <2> QED
        BY <2>1, <2>6
<1>3. \A q \in Phases : stage' # Retrying[q]
    BY <1>1 DEF Phases, Retrying
<1>4. stage' \in {"target", "target_retry", "checks", "judge_spec"} => attempts["judge"] = <<>>
    BY <1>1 DEF LoopInv, Phases, Retrying
<1> QED
    BY <1>1, <1>2, <1>3, <1>4 DEF LoopInv, ReplaySafe, OnlyFailuresAreRepeated, Latest

LEMMA LoopStep == TypeOK /\ LoopInv /\ [Next]_vars => LoopInv'
<1> SUFFICES ASSUME TypeOK, LoopInv, [Next]_vars
             PROVE  LoopInv'
    OBVIOUS
<1>1. CASE \E p \in Phases, record \in AttemptRecords : Invoked(p, record)
    BY <1>1, InvokedLoop
<1>2. CASE \E p \in Phases : RetryBlocked(p)
    BY <1>2, DecideLoop DEF RetryBlocked
<1>3. CASE \E p \in Phases : AskPolicy(p)
    <2>1. PICK p \in Phases : AskPolicy(p)
        BY <1>3
    <2>2. PICK answer \in {"retry", "stop"} : Decide(p, answer)
        BY <2>1, AskPolicyDecides
    <2> QED
        BY <2>1, <2>2, DecideLoop DEF AskPolicy
<1>4. CASE StartJudge
    <2>1. /\ attempts' = attempts /\ attempts["judge"] = <<>> /\ stage' = "judge"
        BY <1>4 DEF StartJudge, LoopInv
    <2>2. "judge" \in Phases /\ Len(attempts["judge"]) < MaxAttempts["judge"]
        BY <2>1, MaxAttemptsFacts DEF Phases
    <2>3. \A p \in Phases : stage' # Retrying[p] /\ (stage' = p => p = "judge")
        BY <2>1 DEF Phases, Retrying
    <2> QED
        BY <2>1, <2>2, <2>3 DEF LoopInv, ReplaySafe, OnlyFailuresAreRepeated, Latest
<1>5. ASSUME attempts' = attempts,
             stage' \notin {"target", "target_retry", "judge", "judge_retry"},
             stage' \in {"checks", "judge_spec"} => attempts["judge"] = <<>>
      PROVE  LoopInv'
    <2>1. \A p \in Phases : stage' # Retrying[p] /\ stage' # p
        BY <1>5 DEF Phases, Retrying
    <2> QED
        BY <1>5, <2>1 DEF LoopInv, ReplaySafe, OnlyFailuresAreRepeated, Latest
<1>6. CASE SkipUnusableTarget \/ DeterministicChecks \/ NoJudge \/ JudgeSpecRaises
           \/ ParseJudge \/ Classify \/ SealArtifact \/ Escape
    BY <1>5, <1>6 DEF SkipUnusableTarget, DeterministicChecks, NoJudge, JudgeSpecRaises,
                      ParseJudge, Classify, SealArtifact, Escape, LoopInv
<1>7. CASE UNCHANGED vars
    BY <1>7 DEF vars, LoopInv, ReplaySafe, OnlyFailuresAreRepeated, Latest
<1> QED
    BY <1>1, <1>2, <1>3, <1>4, <1>6, <1>7, NextCases DEF EngineStep

LEMMA LoopInit == Init => LoopInv
<1> SUFFICES ASSUME Init PROVE LoopInv
    OBVIOUS
<1>1. \A p \in Phases : attempts[p] = <<>> /\ stage # Retrying[p]
    BY DEF Init, Phases, Retrying
<1>2. \A p \in Phases : Len(attempts[p]) < MaxAttempts[p]
    BY <1>1, MaxAttemptsFacts
<1>3. attempts["judge"] = <<>>
    BY <1>1 DEF Phases
<1>4. \A p \in Phases : DOMAIN attempts[p] = {} /\ Len(attempts[p]) <= MaxAttempts[p]
    BY <1>1, MaxAttemptsFacts
<1>5. ReplaySafe /\ OnlyFailuresAreRepeated
    BY <1>4 DEF ReplaySafe, OnlyFailuresAreRepeated
<1> QED
    BY <1>1, <1>2, <1>3, <1>4, <1>5 DEF LoopInv

LEMMA LoopInvariant == Spec => [](TypeOK /\ LoopInv)
<1>1. TypeOK /\ LoopInv /\ [Next]_vars => LoopInv'
    BY LoopStep
<1> QED
    BY <1>1, LoopInit, TypeCorrect, PTL DEF Spec

(* No attempt in which the model acted is ever followed by another one, for *)
(* every bound on the attempts and every retry policy.                      *)
THEOREM ReplaySafety == Spec => []ReplaySafe
<1>1. LoopInv => ReplaySafe
    BY DEF LoopInv
<1> QED
    BY <1>1, LoopInvariant, PTL

(* Attempts are bounded and only failed ones are repeated.                  *)
THEOREM RetriesRepeatFailures == Spec => []OnlyFailuresAreRepeated
<1>1. LoopInv => OnlyFailuresAreRepeated
    BY DEF LoopInv
<1> QED
    BY <1>1, LoopInvariant, PTL

---------------------------------------------------------------------------
(* Termination.  Each step uses up a number that is never negative; that it *)
(* is not rests on LoopInv, which keeps the attempts within their budget.   *)

(* What is left of a budget is counted in whole attempts, and inside the    *)
(* loop of a phase nothing else decides how many steps there are.           *)
Ladder ==
    /\ Room("target") \in Nat /\ Room("judge") \in Nat
    /\ stage \in Stages /\ StepsLeft \in Nat
    /\ stage = "target" => StepsLeft = 4 + 2 * JudgeMaxAttempts + 2 * Room("target")
    /\ stage = "target_retry" => StepsLeft = 5 + 2 * JudgeMaxAttempts + 2 * Room("target")
    /\ stage = "checks" => StepsLeft = 4 + 2 * JudgeMaxAttempts
    /\ stage = "judge_spec" => StepsLeft = 3 + 2 * JudgeMaxAttempts
    /\ stage = "judge" => StepsLeft = 2 + 2 * Room("judge")
    /\ stage = "judge_retry" => StepsLeft = 3 + 2 * Room("judge")
    /\ stage = "parse" => StepsLeft = 3
    /\ stage = "classify" => StepsLeft = 2
    /\ stage = "seal" => StepsLeft = 1
    /\ stage \in {"sealed", "escaped"} => StepsLeft = 0

LEMMA StepsAreALadder == TypeOK /\ LoopInv => Ladder
<1> SUFFICES ASSUME TypeOK, LoopInv
             PROVE  Ladder
    OBVIOUS
<1>1. TargetMaxAttempts \in Nat /\ JudgeMaxAttempts \in Nat
    BY MaxAttemptsAssumption
<1>2. ASSUME NEW p \in Phases
      PROVE  Room(p) \in Nat
    <2>1. Len(attempts[p]) \in Nat /\ MaxAttempts[p] \in Nat /\ Len(attempts[p]) <= MaxAttempts[p]
        BY MaxAttemptsFacts DEF TypeOK, LoopInv, OnlyFailuresAreRepeated
    <2> QED
        BY <2>1 DEF Room
<1>3. Room("target") \in Nat /\ Room("judge") \in Nat
    BY <1>2 DEF Phases
<1>4. stage \in Stages
    BY DEF TypeOK
<1> QED
    BY <1>1, <1>3, <1>4 DEF StepsLeft, Stages, Ladder

(* The room of a phase is spent by its own attempts only.                   *)
LEMMA RoomFacts ==
    ASSUME TypeOK, LoopInv
    PROVE  /\ attempts' = attempts => Room("target")' = Room("target") /\ Room("judge")' = Room("judge")
           /\ \A p \in Phases, record \in AttemptRecords : Invoked(p, record) => Room(p)' = Room(p) - 1
           /\ attempts["judge"] = <<>> => Room("judge") = JudgeMaxAttempts
<1>1. ASSUME NEW p \in Phases, NEW record \in AttemptRecords, Invoked(p, record)
      PROVE  Room(p)' = Room(p) - 1
    <2>1. attempts[p] \in Seq(AttemptRecords) /\ attempts'[p] = Append(attempts[p], record)
        BY <1>1 DEF Invoked, AppendAttempt, TypeOK
    <2>2. Len(attempts'[p]) = Len(attempts[p]) + 1 /\ Len(attempts[p]) \in Nat /\ MaxAttempts[p] \in Nat
        BY <2>1, AppendFacts, MaxAttemptsFacts
    <2> QED
        BY <2>2 DEF Room
<1>2. attempts["judge"] = <<>> => Room("judge") = JudgeMaxAttempts
    BY MaxAttemptsAssumption DEF Room, MaxAttempts
<1> QED
    BY <1>1, <1>2 DEF Room

(* Every step an evaluation takes leaves it fewer steps, for any budgets    *)
(* and whatever invocations and policies answer (_run_attempts,             *)
(* evaluate_target_outcome): no attempt is made beyond its budget, and the  *)
(* phase cannot go on for ever.                                             *)
THEOREM StepsRunOut == Spec => StepsArePaidFor
<1>1. TypeOK /\ LoopInv => Ladder
    BY StepsAreALadder
<1>2. ASSUME TypeOK, LoopInv, Ladder, Ladder', [Next]_vars
      PROVE  [StepsLeft' \in Nat /\ StepsLeft' < StepsLeft]_vars
    <2> USE <1>2, MaxAttemptsAssumption
    <2>1. CASE \E p \in Phases, record \in AttemptRecords : Invoked(p, record)
        <3>1. PICK p \in Phases, record \in AttemptRecords : Invoked(p, record)
            BY <2>1
        <3>2. Room(p)' = Room(p) - 1
            BY <3>1, RoomFacts
        <3>3. /\ p = "target" => stage = "target" /\ stage' \in {"target_retry", "checks"}
              /\ p = "judge" => stage = "judge" /\ stage' \in {"judge_retry", "parse"}
            BY <3>1 DEF Invoked, AppendAttempt, Leave, Retrying
        <3>4. CASE p = "target"
            BY <3>2, <3>3, <3>4 DEF Ladder
        <3>5. CASE p = "judge"
            BY <3>2, <3>3, <3>5 DEF Ladder
        <3> QED
            BY <3>4, <3>5 DEF Phases
    <2>2. CASE \E p \in Phases : RetryBlocked(p) \/ AskPolicy(p)
        <3>1. PICK p \in Phases : stage = Retrying[p] /\ \E answer \in {"retry", "stop"} : Decide(p, answer)
            BY <2>2, AskPolicyDecides DEF RetryBlocked, AskPolicy
        <3>2. /\ attempts' = attempts
              /\ p = "target" => stage = "target_retry" /\ stage' \in {"target", "checks"}
              /\ p = "judge" => stage = "judge_retry" /\ stage' \in {"judge", "classify"}
            BY <3>1 DEF Decide, Retrying
        <3>3. Room("target")' = Room("target") /\ Room("judge")' = Room("judge")
            BY <3>2, RoomFacts
        <3> QED
            BY <3>1, <3>2, <3>3 DEF Ladder, Phases
    <2>3. CASE EngineStep \/ Escape
        <3>1. /\ attempts' = attempts
              /\ \/ stage = "checks" /\ stage' \in {"judge_spec", "classify"}
                 \/ stage = "judge_spec" /\ stage' \in {"judge", "classify"}
                 \/ stage = "parse" /\ stage' = "classify"
                 \/ stage = "classify" /\ stage' = "seal"
                 \/ stage = "seal" /\ stage' \in {"sealed", "escaped"}
                 \/ stage \in {"target", "target_retry", "judge", "judge_retry"} /\ stage' = "escaped"
            BY <2>3 DEF EngineStep, SkipUnusableTarget, DeterministicChecks, NoJudge, StartJudge,
                        JudgeSpecRaises, ParseJudge, Classify, SealArtifact, Escape, Phases
        <3>2. /\ Room("target")' = Room("target") /\ Room("judge")' = Room("judge")
              /\ stage = "judge_spec" => Room("judge") = JudgeMaxAttempts
            BY <3>1, RoomFacts DEF LoopInv
        <3> QED
            BY <3>1, <3>2 DEF Ladder
    <2> QED
        BY <2>1, <2>2, <2>3, NextCases
<1> QED
    BY <1>1, <1>2, LoopInvariant, PTL DEF Spec, StepsArePaidFor

---------------------------------------------------------------------------
(* The target loop and the judge loop implement AtMostOnce.                 *)

(* One pass through the loop of a phase, and any other step, in the terms   *)
(* of the abstract specification.                                           *)
LEMMA AbstractStep ==
    ASSUME TypeOK, LoopInv, [Next]_vars, NEW p \in Phases
    PROVE  \/ /\ ~Acted(p)
              /\ Len(attempts[p]) < MaxAttempts[p]
              /\ Len(attempts[p])' = Len(attempts[p]) + 1
              /\ Acted(p)' \in BOOLEAN
           \/ Len(attempts[p])' = Len(attempts[p]) /\ Acted(p)' = Acted(p)
<1>1. CASE attempts' = attempts \/ attempts'[p] = attempts[p]
    BY <1>1 DEF Acted
<1>2. CASE \E q \in Phases, record \in AttemptRecords : Invoked(q, record)
    <2>1. PICK q \in Phases, record \in AttemptRecords : Invoked(q, record)
        BY <1>2
    <2>2. /\ stage = q /\ attempts[q] \in Seq(AttemptRecords)
          /\ attempts' = [attempts EXCEPT ![q] = Append(attempts[q], record)]
        BY <2>1 DEF Invoked, AppendAttempt, TypeOK
    <2>3. CASE q # p
        BY <1>1, <2>2, <2>3 DEF TypeOK
    <2>4. CASE q = p
        <3>1. ~Acted(p) /\ Len(attempts[p]) < MaxAttempts[p]
            BY <2>2, <2>4 DEF LoopInv, Acted
        <3>2. Len(attempts'[p]) = Len(attempts[p]) + 1
            BY <2>2, <2>4, AppendFacts DEF TypeOK
        <3> QED
            BY <3>1, <3>2 DEF Acted
    <2> QED
        BY <2>3, <2>4
<1>3. CASE EngineStep
    BY <1>1, <1>3 DEF EngineStep, SkipUnusableTarget, DeterministicChecks, NoJudge, StartJudge,
                      JudgeSpecRaises, ParseJudge, Classify, SealArtifact
<1>4. CASE (\E q \in Phases : RetryBlocked(q) \/ AskPolicy(q)) \/ Escape \/ UNCHANGED vars
    BY <1>1, <1>4 DEF RetryBlocked, AskPolicy, Decide, Escape, vars
<1> QED
    BY <1>2, <1>3, <1>4, NextCases

(* The target loop and the judge loop implement AtMostOnce, each with the   *)
(* bound of its phase.                                                      *)
THEOREM PhasesImplementAtMostOnce == Spec => PhasesActAtMostOnce
<1>1. Init => TargetOnce!Init
    BY DEF Init, TargetOnce!Init, Acted, Phases
<1>2. Init => JudgeOnce!Init
    BY DEF Init, JudgeOnce!Init, Acted, Phases
<1>3. TypeOK /\ LoopInv /\ [Next]_vars => [TargetOnce!Try]_<<Len(attempts["target"]), Acted("target")>>
    BY AbstractStep DEF TargetOnce!Try, MaxAttempts, Phases
<1>4. TypeOK /\ LoopInv /\ [Next]_vars => [JudgeOnce!Try]_<<Len(attempts["judge"]), Acted("judge")>>
    BY AbstractStep DEF JudgeOnce!Try, MaxAttempts, Phases
<1> QED
    BY <1>1, <1>2, <1>3, <1>4, LoopInvariant, PTL
    DEF Spec, PhasesActAtMostOnce, TargetOnce!Spec, JudgeOnce!Spec

---------------------------------------------------------------------------
(* Verdicts.  VerdictIsEarned speaks of the own readiness of the last       *)
(* attempt while the code reads final_readiness: the invariant says why the *)
(* two agree whenever it matters, and what the judge's variables mean at    *)
(* each stage.                                                              *)

Verdict == ClassifyEvaluation(Latest("target").code, readiness, checks,
                              judgeRequired, JudgeFailure, semantic)

JudgeClean == attempts["judge"] # <<>> /\ Latest("judge").code = "none"

VerdictInv ==
    /\ stage \notin {"target", "escaped"} => attempts["target"] # <<>>
    /\ attempts["target"] # <<>> /\ Latest("target").code = "none" =>
           Latest("target").own = "ready" /\ readiness = "ready"
    /\ stage \in {"target", "target_retry", "checks", "judge_spec"} => ~judgeRequired
    /\ ~judgeRequired => attempts["judge"] = <<>> /\ contractFailure = "none" /\ semantic = "none"
    /\ stage \in {"judge", "judge_retry", "parse"} =>
           judgeRequired /\ contractFailure = "none" /\ semantic = "none"
    /\ stage = "parse" => JudgeClean
    /\ semantic # "none" => JudgeClean /\ contractFailure = "none"
    /\ stage \in {"judge_spec", "judge", "judge_retry", "parse"} => TargetEarned
    /\ stage \in {"seal", "sealed"} => classification = Verdict
    /\ stage = "sealed" => artifact.classification = classification

LEMMA InvokedVerdict ==
    ASSUME TypeOK, LoopInv, VerdictInv,
           NEW p \in Phases, NEW record \in AttemptRecords, Invoked(p, record)
    PROVE  VerdictInv'
<1>1. /\ stage = p
      /\ attempts[p] \in Seq(AttemptRecords)
      /\ attempts' = [attempts EXCEPT ![p] = Append(attempts[p], record)]
      /\ stage' = IF record.code = "none" THEN Leave(p) ELSE Retrying[p]
      /\ UNCHANGED <<checks, judgeRequired, contractFailure, semantic, classification, artifact>>
    BY DEF Invoked, AppendAttempt, TypeOK, verdictVars
<1>2. attempts'[p] # <<>> /\ Latest(p)' = record
    <2>1. /\ Append(attempts[p], record) # <<>>
          /\ Append(attempts[p], record)[Len(Append(attempts[p], record))] = record
        BY <1>1, AppendFacts
    <2> QED
        BY <1>1, <2>1 DEF Latest, TypeOK
<1>3. CASE p = "target"
    <2>1. /\ stage' \in {"target_retry", "checks"}
          /\ record.code = "none" => record.own = "ready" /\ readiness' = "ready"
          /\ attempts'["judge"] = attempts["judge"]
        BY <1>1, <1>3 DEF Invoked, Leave, Retrying, TypeOK, Phases
    <2>2. JudgeClean' = JudgeClean
        BY <2>1 DEF JudgeClean, Latest
    <2> QED
        BY <1>1, <1>2, <1>3, <2>1, <2>2 DEF VerdictInv
<1>4. CASE p = "judge"
    <2>1. /\ stage' \in {"judge_retry", "parse"} /\ (stage' = "parse" => record.code = "none")
          /\ readiness' = readiness
          /\ attempts'["target"] = attempts["target"]
        BY <1>1, <1>4 DEF Invoked, Leave, Retrying, TypeOK, Phases
    <2>2. TargetEarned' /\ TargetEarned /\ Latest("target")' = Latest("target")
        BY <1>1, <1>4, <2>1 DEF VerdictInv, TargetEarned, Latest
    <2>3. stage' = "parse" => JudgeClean'
        BY <1>2, <1>4, <2>1 DEF JudgeClean
    <2>4. judgeRequired' /\ contractFailure' = "none" /\ semantic' = "none"
        BY <1>1, <1>4 DEF VerdictInv
    <2>5. Latest("target")'.own = "ready" /\ readiness' = "ready"
        BY <2>1, <2>2 DEF VerdictInv, TargetEarned
    <2> QED
        BY <1>1, <2>1, <2>2, <2>3, <2>4, <2>5 DEF VerdictInv, TargetEarned
<1> QED
    BY <1>3, <1>4 DEF Phases

(* Steps that leave the attempts alone leave what is said about them.       *)
LEMMA SameAttempts ==
    ASSUME attempts' = attempts
    PROVE  /\ Latest("target")' = Latest("target") /\ Latest("judge")' = Latest("judge")
           /\ TargetEarned' = TargetEarned
           /\ JudgeClean' = JudgeClean
BY DEF Latest, TargetEarned, JudgeClean

LEMMA VerdictStep == TypeOK /\ LoopInv /\ VerdictInv /\ [Next]_vars => VerdictInv'
<1> SUFFICES ASSUME TypeOK, LoopInv, VerdictInv, [Next]_vars
             PROVE  VerdictInv'
    OBVIOUS
<1>1. CASE \E p \in Phases, record \in AttemptRecords : Invoked(p, record)
    BY <1>1, InvokedVerdict
<1>2. ASSUME NEW p \in Phases, NEW answer \in {"retry", "stop"}, stage = Retrying[p], Decide(p, answer)
      PROVE  VerdictInv'
    <2>1. /\ UNCHANGED <<attempts, readiness, checks, judgeRequired, contractFailure, semantic,
                         classification, artifact>>
          /\ stage' = IF answer = "retry" THEN p ELSE IF p = "target" THEN "checks" ELSE "classify"
        BY <1>2 DEF Decide, verdictVars
    <2>2. /\ p = "target" => stage = "target_retry" /\ stage' \in {"target", "checks"}
          /\ p = "judge" => stage = "judge_retry" /\ stage' \in {"judge", "classify"}
        BY <1>2, <2>1 DEF Phases, Retrying
    <2> QED
        BY <2>1, <2>2, SameAttempts DEF VerdictInv, Phases
<1>3. CASE \E p \in Phases : RetryBlocked(p) \/ AskPolicy(p)
    BY <1>2, <1>3, AskPolicyDecides DEF RetryBlocked, AskPolicy
<1>4. CASE SkipUnusableTarget
    BY <1>4, SameAttempts DEF SkipUnusableTarget, VerdictInv, verdictVars
<1>5. CASE DeterministicChecks
    <2>1. TargetEarned
        BY <1>5 DEF DeterministicChecks, VerdictInv, TargetUsable, TargetEarned
    <2> QED
        BY <1>5, <2>1, SameAttempts DEF DeterministicChecks, VerdictInv
<1>6. CASE NoJudge
    BY <1>6, SameAttempts DEF NoJudge, VerdictInv, verdictVars
<1>7. CASE StartJudge
    BY <1>7, SameAttempts DEF StartJudge, VerdictInv
<1>8. CASE JudgeSpecRaises
    BY <1>8, SameAttempts DEF JudgeSpecRaises, VerdictInv
<1>9. CASE ParseJudge
    BY <1>9, SameAttempts DEF ParseJudge, VerdictInv
<1>10. CASE Classify
    <2>1. classification' = Verdict /\ Verdict' = Verdict
        BY <1>10, SameAttempts DEF Classify, Verdict, JudgeFailure
    <2> QED
        BY <1>10, <2>1, SameAttempts DEF Classify, VerdictInv
<1>11. CASE SealArtifact
    <2>1. Verdict' = Verdict
        BY <1>11, SameAttempts DEF SealArtifact, Verdict, JudgeFailure
    <2>2. stage' = "sealed" => artifact'.classification = classification'
        BY <1>11 DEF SealArtifact
    <2> QED
        BY <1>11, <2>1, <2>2, SameAttempts DEF SealArtifact, VerdictInv
<1>12. CASE Escape
    BY <1>12, SameAttempts DEF Escape, VerdictInv, verdictVars
<1>13. CASE UNCHANGED vars
    <2>1. Verdict' = Verdict
        BY <1>13, SameAttempts DEF vars, Verdict, JudgeFailure
    <2> QED
        BY <1>13, <2>1, SameAttempts DEF vars, VerdictInv
<1> QED
    BY <1>1, <1>3, <1>4, <1>5, <1>6, <1>7, <1>8, <1>9, <1>10, <1>11, <1>12, <1>13, NextCases DEF EngineStep

LEMMA VerdictInvariant == Spec => [](TypeOK /\ VerdictInv)
<1>1. Init => VerdictInv
    BY DEF Init, VerdictInv, Phases
<1>2. TypeOK /\ LoopInv /\ VerdictInv /\ [Next]_vars => VerdictInv'
    BY VerdictStep
<1> QED
    BY <1>1, <1>2, LoopInvariant, PTL DEF Spec

(* A pass or a fail is recorded exactly when the last target attempt and    *)
(* the judge earned it on their own results.                                *)
THEOREM VerdictsAreEarned == Spec => []VerdictIsEarned
<1>1. TypeOK /\ VerdictInv => VerdictIsEarned
    <2> SUFFICES ASSUME TypeOK, VerdictInv, stage = "sealed"
                 PROVE  /\ artifact.classification = "pass" <=>
                              /\ TargetEarned /\ JudgeEarned
                              /\ checks \subseteq {"pass"} /\ semantic # "fail"
                        /\ artifact.classification = "fail" <=>
                              /\ TargetEarned /\ JudgeEarned
                              /\ "fail" \in checks \/ ("non-evidence" \notin checks /\ semantic = "fail")
        BY DEF VerdictIsEarned
    <2>1. artifact.classification = Verdict
        BY DEF VerdictInv
    <2>2. TargetEarned <=> Latest("target").code = "none" /\ readiness = "ready"
        BY DEF VerdictInv, TargetEarned
    <2>3. JudgeEarned <=> ~(judgeRequired /\ (JudgeFailure # "none" \/ semantic = "none"))
        BY DEF VerdictInv, JudgeEarned, JudgeFailure, JudgeClean
    <2>4. /\ semantic \in {"none", "pass", "fail"}
          /\ checks \subseteq {"pass", "fail", "non-evidence"}
        BY DEF TypeOK
    <2>5. semantic = "fail" \/ semantic = "pass" => judgeRequired
        BY DEF VerdictInv
    <2> QED
        BY <2>1, <2>2, <2>3, <2>4, <2>5 DEF Verdict, ClassifyEvaluation
<1> QED
    BY <1>1, VerdictInvariant, PTL

(* No check runs and no judge is invoked unless the last target attempt     *)
(* earned it, whatever an earlier attempt left in final_readiness.          *)
THEOREM JudgesNeedEarnedTargets == Spec => JudgeNeedsEarnedTarget
<1>1. TypeOK /\ VerdictInv /\ [Next]_vars =>
          [attempts'["judge"] # attempts["judge"] \/ checks' # checks => TargetEarned]_vars
    <2> SUFFICES ASSUME TypeOK, VerdictInv, [Next]_vars,
                        attempts'["judge"] # attempts["judge"] \/ checks' # checks
                 PROVE  TargetEarned
        OBVIOUS
    <2>1. CASE \E p \in Phases, record \in AttemptRecords : Invoked(p, record)
        BY <2>1 DEF Invoked, AppendAttempt, Phases, verdictVars, TypeOK, VerdictInv
    <2>2. CASE DeterministicChecks
        BY <2>2 DEF DeterministicChecks, VerdictInv, TargetUsable, TargetEarned
    <2>3. CASE \/ \E p \in Phases : RetryBlocked(p) \/ AskPolicy(p)
               \/ Escape \/ UNCHANGED vars
        BY <2>3 DEF RetryBlocked, AskPolicy, Decide, Escape, vars, verdictVars
    <2>4. CASE SkipUnusableTarget \/ NoJudge \/ StartJudge \/ JudgeSpecRaises
               \/ ParseJudge \/ Classify \/ SealArtifact
        BY <2>4 DEF SkipUnusableTarget, NoJudge, StartJudge, JudgeSpecRaises, ParseJudge,
                    Classify, SealArtifact, verdictVars
    <2> QED
        BY <2>1, <2>2, <2>3, <2>4, NextCases DEF EngineStep
<1> QED
    BY <1>1, VerdictInvariant, PTL DEF Spec, JudgeNeedsEarnedTarget

---------------------------------------------------------------------------
(* The retry history.  At each place of the loop the number of decisions is *)
(* fixed by the attempts; what _attempts_json makes of them follows.        *)

AllFailed(p) == attempts[p] = <<>> \/ Latest(p).code # "none"

DecisionsFollow(p) ==
    /\ stage = p => Len(decisions[p]) = Len(attempts[p])
    /\ stage = Retrying[p] => Len(decisions[p]) + 1 = Len(attempts[p])
    /\ stage \notin {p, Retrying[p], "escaped"} =>
           Len(decisions[p]) = IF AllFailed(p) THEN Len(attempts[p]) ELSE Len(attempts[p]) - 1
    /\ stage # "escaped" =>
           \A k \in DOMAIN decisions[p] :
               decisions[p][k] = IF k = Len(attempts[p]) /\ stage # p THEN "stop" ELSE "retry"

HistoryInv == HistoryExplained /\ \A p \in Phases : DecisionsFollow(p)

LEMMA FailedPrefix ==
    ASSUME NEW p \in Phases, NEW k \in Nat, NEW m \in Nat, m <= k,
           \A i \in 1..k : attempts[p][i].code # "none" <=> i <= m
    PROVE  FailedUpTo(p, k) = m
<1>1. {i \in 1..k : attempts[p][i].code # "none"} = 1..m
    OBVIOUS
<1>2. Cardinality(1..m) = m
    BY FS_Interval
<1> QED
    BY <1>1, <1>2 DEF FailedUpTo

(* What is sealed when every decision has its place.                        *)
LEMMA DecisionsAreHandedOut ==
    ASSUME TypeOK, LoopInv, NEW p \in Phases, DecisionsFollow(p),
           stage \notin {p, Retrying[p], "escaped"}
    PROVE  /\ AttemptsJson(p) = [k \in DOMAIN attempts[p] |->
                                    IF k < Len(attempts[p]) THEN "retry"
                                    ELSE IF attempts[p][k].code # "none" THEN "stop" ELSE "none"]
           /\ ~AttemptsJsonRaises(p)
<1> DEFINE n == Len(attempts[p])
<1>1. /\ attempts[p] \in Seq(AttemptRecords) /\ decisions[p] \in Seq({"retry", "stop"})
      /\ n \in Nat /\ DOMAIN attempts[p] = 1..n /\ DOMAIN decisions[p] = 1..Len(decisions[p])
    BY DEF TypeOK
<1>2. \A i \in 1..n : i < n => attempts[p][i].code # "none"
    BY <1>1 DEF LoopInv, OnlyFailuresAreRepeated
<1>3. Len(decisions[p]) = (IF AllFailed(p) THEN n ELSE n - 1)
    BY DEF DecisionsFollow
<1>4. \A k \in 1..Len(decisions[p]) : decisions[p][k] = IF k = n THEN "stop" ELSE "retry"
    BY <1>1 DEF DecisionsFollow
<1>5. n > 0 => Latest(p) = attempts[p][n] /\ attempts[p] # <<>>
    BY <1>1 DEF Latest
<1>6. n = 0 => AllFailed(p)
    BY <1>1 DEF AllFailed
<1> HIDE DEF n
<1>7. ASSUME NEW k \in 1..n
      PROVE  (IF attempts[p][k].code # "none" /\ FailedUpTo(p, k) <= Len(decisions[p])
              THEN decisions[p][FailedUpTo(p, k)] ELSE "none")
             = IF k < n THEN "retry" ELSE IF attempts[p][k].code # "none" THEN "stop" ELSE "none"
    <2>1. CASE attempts[p][k].code = "none"
        BY <1>1, <1>2, <2>1
    <2>2. CASE attempts[p][k].code # "none"
        <3>a. k \in Nat /\ k <= k /\ \A i \in 1..k : attempts[p][i].code # "none" <=> i <= k
            BY <1>1, <1>2, <2>2
        <3>1. FailedUpTo(p, k) = k
            BY <3>a, FailedPrefix
        <3>2. k <= Len(decisions[p])
            BY <1>1, <1>3, <1>5, <2>2 DEF AllFailed
        <3> QED
            BY <1>1, <1>3, <1>4, <2>2, <3>1, <3>2
    <2> QED
        BY <2>1, <2>2
<1>8. FailedUpTo(p, n) = Len(decisions[p])
    <2>1. CASE AllFailed(p)
        BY <1>1, <1>2, <1>3, <1>5, <2>1, FailedPrefix DEF AllFailed
    <2>2. CASE ~AllFailed(p)
        BY <1>1, <1>2, <1>3, <1>5, <1>6, <2>2, FailedPrefix DEF AllFailed
    <2> QED
        BY <2>1, <2>2
<1>9. ~AttemptsJsonRaises(p)
    BY <1>1, <1>3, <1>8 DEF AttemptsJsonRaises, n
<1> QED
    BY <1>1, <1>7, <1>9 DEF AttemptsJson, n

LEMMA HistoryStep == TypeOK /\ LoopInv /\ HistoryInv /\ [Next]_vars => HistoryInv'
<1> SUFFICES ASSUME TypeOK, LoopInv, HistoryInv, [Next]_vars
             PROVE  HistoryInv'
    OBVIOUS
<1>t. \A p \in Phases : /\ attempts[p] \in Seq(AttemptRecords) /\ decisions[p] \in Seq({"retry", "stop"})
                        /\ Len(attempts[p]) \in Nat /\ Len(decisions[p]) \in Nat
    BY DEF TypeOK
(* A step outside both loops; only a step into "seal" needs more.           *)
<1>s. ASSUME attempts' = attempts, decisions' = decisions, stage' \notin {"target_retry", "judge_retry"},
             \A p \in Phases : stage \notin {p, Retrying[p]} \/ stage' = "escaped",
             \A p \in Phases : stage' = p => attempts[p] = <<>>, stage # "escaped" \/ stage' = "escaped"
      PROVE  \A p \in Phases : DecisionsFollow(p)'
    BY <1>t, <1>s DEF HistoryInv, DecisionsFollow, AllFailed, Latest, Phases, Retrying
<1>1. ASSUME NEW p \in Phases, NEW record \in AttemptRecords, Invoked(p, record)
      PROVE  HistoryInv'
    <2>1. /\ stage = p /\ decisions' = decisions
          /\ attempts' = [attempts EXCEPT ![p] = Append(attempts[p], record)]
          /\ stage' = IF record.code = "none" THEN Leave(p) ELSE Retrying[p]
        BY <1>1 DEF Invoked, AppendAttempt
    <2>a. attempts'[p] = Append(attempts[p], record)
          /\ \A q \in Phases : q # p => attempts'[q] = attempts[q]
        BY <2>1 DEF TypeOK
    <2>2. /\ Len(attempts'[p]) = Len(attempts[p]) + 1 /\ attempts'[p] # <<>>
          /\ attempts'[p][Len(attempts[p]) + 1] = record
        BY <1>t, <2>a, AppendFacts, SMTT(30)
    <2>b. ASSUME NEW q \in Phases, q # p
          PROVE  DecisionsFollow(q)'
        <3>1. /\ stage \notin {q, Retrying[q], "escaped"} /\ stage' \notin {q, Retrying[q], "escaped"}
              /\ attempts'[q] = attempts[q] /\ decisions'[q] = decisions[q]
            BY <2>1, <2>a, <2>b DEF Phases, Retrying, Leave
        <3> QED
            BY <3>1 DEF HistoryInv, DecisionsFollow, AllFailed, Latest
    <2>c. DecisionsFollow(p)'
        <3>1. /\ Len(decisions'[p]) + 1 = Len(attempts'[p])
              /\ \A k \in DOMAIN decisions'[p] :
                     k \in 1..Len(decisions[p]) /\ decisions'[p][k] = "retry"
            <4>1. /\ decisions'[p] = decisions[p] /\ Len(decisions[p]) = Len(attempts[p])
                  /\ stage # "escaped"
                BY <2>1 DEF HistoryInv, DecisionsFollow, Phases
            <4>2. \A k \in DOMAIN decisions[p] : decisions[p][k] = "retry"
                BY <2>1, <4>1 DEF HistoryInv, DecisionsFollow
            <4>3. DOMAIN decisions[p] = 1..Len(decisions[p])
                BY <1>t
            <4> QED
                BY <1>t, <2>2, <4>1, <4>2, <4>3
        <3>2. \A k \in DOMAIN decisions'[p] : k # Len(attempts'[p])
            BY <1>t, <2>1, <2>2, <3>1
        <3>3. AllFailed(p)' <=> record.code # "none"
            BY <2>2 DEF AllFailed, Latest
        <3>4. stage' # p /\ (stage' = Retrying[p] <=> record.code # "none")
            BY <2>1 DEF Phases, Retrying, Leave
        <3>5. Len(decisions'[p]) = Len(attempts'[p]) - 1
            BY <1>t, <2>1, <2>2, <3>1
        <3> QED
            BY <3>1, <3>2, <3>3, <3>4, <3>5 DEF DecisionsFollow
    <2>3. \A q \in Phases : DecisionsFollow(q)'
        BY <2>b, <2>c
    <2>4. HistoryExplained'
        BY <2>1 DEF HistoryExplained, Phases, Retrying, Leave
    <2> QED
        BY <2>3, <2>4 DEF HistoryInv
<1>2. ASSUME NEW p \in Phases, NEW answer \in {"retry", "stop"}, stage = Retrying[p], Decide(p, answer)
      PROVE  HistoryInv'
    <2>1. /\ attempts' = attempts
          /\ decisions' = [decisions EXCEPT ![p] = Append(decisions[p], answer)]
          /\ stage' = IF answer = "retry" THEN p ELSE IF p = "target" THEN "checks" ELSE "classify"
        BY <1>2 DEF Decide
    <2>2. /\ Len(decisions'[p]) = Len(decisions[p]) + 1
          /\ decisions'[p][Len(decisions[p]) + 1] = answer
          /\ \A k \in DOMAIN decisions'[p] : k # Len(decisions[p]) + 1 =>
                 k \in DOMAIN decisions[p] /\ decisions'[p][k] = decisions[p][k]
          /\ \A q \in Phases : q # p => decisions'[q] = decisions[q]
        BY <1>t, <2>1, AppendFacts DEF TypeOK
    <2>3. Latest(p).code # "none" /\ Len(decisions[p]) + 1 = Len(attempts[p])
        BY <1>2 DEF LoopInv, HistoryInv, DecisionsFollow
    <2>b. ASSUME NEW q \in Phases, q # p
          PROVE  DecisionsFollow(q)'
        <3>1. /\ stage \notin {q, Retrying[q], "escaped"} /\ stage' \notin {q, Retrying[q], "escaped"}
              /\ attempts'[q] = attempts[q] /\ decisions'[q] = decisions[q]
            BY <1>2, <2>1, <2>2, <2>b DEF Phases, Retrying
        <3> QED
            BY <3>1 DEF HistoryInv, DecisionsFollow, AllFailed, Latest
    <2>c. DecisionsFollow(p)'
        <3> DEFINE n == Len(attempts[p])
        <3>1. /\ attempts'[p] = attempts[p] /\ n \in Nat /\ Len(decisions'[p]) = n
              /\ decisions'[p][n] = answer
            BY <1>t, <2>1, <2>2, <2>3
        <3>2. \A k \in DOMAIN decisions'[p] : k # n => decisions'[p][k] = "retry"
            BY <1>2, <1>t, <2>2, <2>3 DEF HistoryInv, DecisionsFollow, Phases, Retrying
        <3>3. AllFailed(p)'
            BY <2>3, <3>1 DEF AllFailed, Latest
        <3>4. /\ stage' # Retrying[p]
              /\ stage' = p <=> answer = "retry"
              /\ stage' # p => answer = "stop"
            BY <1>2, <2>1 DEF Phases, Retrying
        <3> HIDE DEF n
        <3>5. Len(attempts'[p]) = n
            BY <3>1 DEF n
        <3> QED
            BY <3>1, <3>2, <3>3, <3>4, <3>5 DEF DecisionsFollow
    <2>4. \A q \in Phases : DecisionsFollow(q)'
        BY <2>b, <2>c
    <2>5. HistoryExplained'
        BY <2>1 DEF HistoryExplained, Phases
    <2> QED
        BY <2>4, <2>5 DEF HistoryInv
<1>3. CASE \E p \in Phases : RetryBlocked(p)
    BY <1>2, <1>3 DEF RetryBlocked
<1>4. CASE \E p \in Phases : AskPolicy(p)
    <2>1. PICK p \in Phases : AskPolicy(p)
        BY <1>4
    <2>2. PICK answer \in {"retry", "stop"} : Decide(p, answer)
        BY <2>1, AskPolicyDecides
    <2> QED
        BY <1>2, <2>1, <2>2 DEF AskPolicy
<1>5. CASE SkipUnusableTarget \/ DeterministicChecks \/ NoJudge \/ StartJudge \/ JudgeSpecRaises \/ ParseJudge
           \/ Escape
    <2>1. /\ attempts' = attempts /\ decisions' = decisions /\ stage' \notin {"sealed", "seal"}
          /\ stage' \notin {"target_retry", "judge_retry"}
          /\ \A p \in Phases : stage \notin {p, Retrying[p]} \/ stage' = "escaped"
          /\ \A p \in Phases : stage' = p => attempts[p] = <<>>
          /\ stage # "escaped" \/ stage' = "escaped"
        BY <1>5 DEF SkipUnusableTarget, DeterministicChecks, NoJudge, StartJudge, JudgeSpecRaises,
                    ParseJudge, Escape, Phases, Retrying, LoopInv
    <2> QED
        BY <1>s, <2>1 DEF HistoryInv, HistoryExplained
<1>6. CASE Classify
    <2>1. stage = "classify" /\ stage' = "seal" /\ attempts' = attempts /\ decisions' = decisions
        BY <1>6 DEF Classify
    <2>2. \A p \in Phases : DecisionsFollow(p)'
        BY <1>s, <2>1 DEF Phases, Retrying
    <2>3. \A p \in Phases : ~AttemptsJsonRaises(p)
        BY <2>1, DecisionsAreHandedOut DEF HistoryInv, Phases, Retrying
    <2> QED
        BY <2>1, <2>2, <2>3 DEF HistoryInv, HistoryExplained, AttemptsJsonRaises, FailedUpTo
<1>7. CASE SealArtifact
    <2>1. stage = "seal" /\ attempts' = attempts /\ decisions' = decisions
        BY <1>7 DEF SealArtifact
    <2>2. \A p \in Phases : ~AttemptsJsonRaises(p)
        BY <2>1 DEF HistoryInv, HistoryExplained
    <2>3. stage' = "sealed" /\ \A p \in Phases : artifact'[p] = AttemptsJson(p)
        BY <1>7, <2>2 DEF SealArtifact, Phases
    <2>4. \A p \in Phases : DecisionsFollow(p)'
        BY <1>s, <2>1, <2>3 DEF Phases, Retrying
    <2> QED
        BY <2>1, <2>3, <2>4, DecisionsAreHandedOut DEF HistoryInv, HistoryExplained, Phases, Retrying
<1>8. CASE UNCHANGED vars
    <2>1. stage' = stage /\ attempts' = attempts /\ decisions' = decisions /\ artifact' = artifact
        BY <1>8 DEF vars
    <2>2. \A p \in Phases : DecisionsFollow(p)'
        BY <2>1 DEF HistoryInv, DecisionsFollow, AllFailed, Latest
    <2>3. HistoryExplained'
        BY <2>1 DEF HistoryInv, HistoryExplained, AttemptsJsonRaises, FailedUpTo
    <2> QED
        BY <2>2, <2>3 DEF HistoryInv
<1> QED
    BY <1>1, <1>3, <1>4, <1>5, <1>6, <1>7, <1>8, NextCases DEF EngineStep

LEMMA HistoryInvariant == Spec => [](TypeOK /\ LoopInv /\ HistoryInv)
<1>1. Init => HistoryInv
    BY DEF Init, HistoryInv, HistoryExplained, DecisionsFollow, AllFailed, Phases, Retrying
<1>2. TypeOK /\ LoopInv /\ HistoryInv /\ [Next]_vars => HistoryInv'
    BY HistoryStep
<1> QED
    BY <1>1, <1>2, LoopInvariant, PTL DEF Spec

(* The artifact tells the whole retry story of each phase: the decisions    *)
(* _run_attempts records are those _attempts_json expects, one per failed   *)
(* attempt, for every budget and policy.                                    *)
THEOREM HistoriesAreExplained == Spec => []HistoryExplained
<1>1. HistoryInv => HistoryExplained
    BY DEF HistoryInv
<1> QED
    BY <1>1, HistoryInvariant, PTL

(***************************************************************************)
(* FamilyResult: the report of a case.                                     *)
(***************************************************************************)

(* What the report needs beside the histories and the verdict: a judge      *)
(* whose specification raised was never invoked, and the judge of an        *)
(* agent-runtime case was asked only after all of its checks passed.        *)
JudgeInv ==
    /\ contractFailure = "judge_spec_invalid" => attempts["judge"] = <<>>
    /\ job.gate = "agent_runtime" /\ judgeRequired => checks \subseteq {"pass"}

LEMMA JudgeStep == TypeOK /\ LoopInv /\ VerdictInv /\ JudgeInv /\ [Next]_vars => JudgeInv'
<1> SUFFICES ASSUME TypeOK, LoopInv, VerdictInv, JudgeInv, [Next]_vars
             PROVE  JudgeInv'
    OBVIOUS
<1>1. ASSUME NEW p \in Phases, NEW record \in AttemptRecords, Invoked(p, record)
      PROVE  JudgeInv'
    <2>1. /\ UNCHANGED <<job, checks, judgeRequired, contractFailure>>
          /\ attempts' = [attempts EXCEPT ![p] = Append(@, record)]
          /\ stage = p
        BY <1>1 DEF Invoked, AppendAttempt, verdictVars
    <2>2. CASE p = "target"
        BY <2>1, <2>2 DEF JudgeInv, TypeOK, Phases
    <2>3. CASE p = "judge"
        BY <2>1, <2>3 DEF JudgeInv, VerdictInv
    <2> QED
        BY <2>2, <2>3 DEF Phases
<1>2. CASE \E p \in Phases : RetryBlocked(p) \/ AskPolicy(p)
    BY <1>2 DEF RetryBlocked, AskPolicy, Decide, JudgeInv, verdictVars
<1>3. CASE SkipUnusableTarget \/ NoJudge \/ Escape
    BY <1>3 DEF SkipUnusableTarget, NoJudge, Escape, JudgeInv, verdictVars
<1>4. CASE DeterministicChecks
    BY <1>4 DEF DeterministicChecks, JudgeInv, VerdictInv
<1>5. CASE StartJudge
    BY <1>5 DEF StartJudge, GateOpen, JudgeInv
<1>6. CASE JudgeSpecRaises
    BY <1>6 DEF JudgeSpecRaises, GateOpen, JudgeInv, LoopInv
<1>7. CASE ParseJudge
    BY <1>7 DEF ParseJudge, JudgeInv
<1>8. CASE Classify \/ SealArtifact
    BY <1>8 DEF Classify, SealArtifact, JudgeInv
<1>9. CASE UNCHANGED vars
    BY <1>9 DEF vars, JudgeInv
<1> QED
    BY <1>1, <1>2, <1>3, <1>4, <1>5, <1>6, <1>7, <1>8, <1>9, NextCases DEF EngineStep

LEMMA ReportInvariant == Spec => [](TypeOK /\ LoopInv /\ VerdictInv /\ HistoryInv /\ JudgeInv)
<1>1. Init => JudgeInv
    BY DEF Init, JudgeInv, Phases
<1>2. TypeOK /\ LoopInv /\ VerdictInv /\ JudgeInv /\ [Next]_vars => JudgeInv'
    BY JudgeStep
<1> QED
    BY <1>1, <1>2, HistoryInvariant, VerdictInvariant, PTL DEF Spec

---------------------------------------------------------------------------
(* The attempts.                                                            *)

LEMMA SumFacts ==
    ASSUME NEW m \in Nat, NEW n \in Nat
    PROVE  /\ \A k \in 1 .. m : k \in 1 .. (m + n) /\ k <= m
           /\ \A k \in 1 .. n : m + k \in 1 .. (m + n) /\ ~(m + k <= m)
OBVIOUS

(* Every attempt is given the record of its own phase's invocation.         *)
LEMMA RecordsAreTheirs ==
    ASSUME TypeOK, VerdictInv, JudgeInv, NEW p \in Phases, NEW k \in DOMAIN attempts[p]
    PROVE  Invocations[Place(p, k)] = p
<1>1. /\ Len(attempts["target"]) \in Nat /\ Len(attempts["judge"]) \in Nat
      /\ k \in 1 .. Len(attempts[p])
      /\ attempts["judge"] = <<>> => Len(attempts["judge"]) = 0
    BY DEF TypeOK, Phases
<1>2. /\ Recorded \in {<<"target">> \o <<"judge">>, <<"target">> \o <<>>}
      /\ judgeRequired /\ contractFailure # "judge_spec_invalid" =>
             Recorded = <<"target">> \o <<"judge">>
    BY DEF Recorded
<1>3. CASE p = "target"
    <2>1. Place(p, k) = k
        BY <1>3 DEF Place
    <2>2. k \in 1 .. (Len(attempts["target"]) + Len(attempts["judge"])) /\ k <= Len(attempts["target"])
        <3>1. k \in 1 .. Len(attempts["target"])
            BY <1>1, <1>3
        <3> QED
            BY <1>1, <3>1, SumFacts
    <2>3. Recorded[1] = "target"
        BY <1>2
    <2> QED
        BY <1>3, <2>1, <2>2, <2>3 DEF Invocations, ExpandInvocations
<1>4. CASE p = "judge"
    <2>1. Place(p, k) = Len(attempts["target"]) + k
        BY <1>4 DEF Place
    <2>2. /\ Place(p, k) \in 1 .. (Len(attempts["target"]) + Len(attempts["judge"]))
          /\ ~(Place(p, k) <= Len(attempts["target"]))
        <3>1. k \in 1 .. Len(attempts["judge"])
            BY <1>1, <1>4
        <3>2. \A i \in 1 .. Len(attempts["judge"]) :
                  /\ Len(attempts["target"]) + i \in 1 .. (Len(attempts["target"]) + Len(attempts["judge"]))
                  /\ ~(Len(attempts["target"]) + i <= Len(attempts["target"]))
            BY <1>1, SumFacts
        <3> QED
            BY <2>1, <3>1, <3>2
    <2>3. judgeRequired /\ contractFailure # "judge_spec_invalid"
        BY <1>1, <1>4 DEF VerdictInv, JudgeInv
    <2>4. Len(Recorded) = 2 /\ Recorded[2] = "judge"
        BY <1>2, <2>3
    <2> QED
        BY <1>4, <2>2, <2>4 DEF Invocations, ExpandInvocations
<1> QED
    BY <1>3, <1>4 DEF Phases

(* What the report must say of the k-th attempt of a phase.                 *)
Story(p, k) ==
    [invocation |-> p,
     decision |-> IF k < Len(attempts[p]) THEN "retry"
                  ELSE IF attempts[p][k].code # "none" THEN "stop" ELSE "none"]

LEMMA AgentsStory ==
    ASSUME TypeOK, VerdictInv, HistoryInv, JudgeInv, stage = "sealed", NEW p \in Phases
    PROVE  AgentAttempts(p) = [k \in DOMAIN attempts[p] |-> Story(p, k)]
<1>1. artifact[p] = [k \in DOMAIN attempts[p] |->
                        IF k < Len(attempts[p]) THEN "retry"
                        ELSE IF attempts[p][k].code # "none" THEN "stop" ELSE "none"]
    BY DEF HistoryInv, HistoryExplained
<1>2. \A k \in DOMAIN attempts[p] : Invocations[Place(p, k)] = p
    BY RecordsAreTheirs
<1> QED
    BY <1>1, <1>2 DEF AgentAttempts, Story

LEMMA SkillsStory ==
    ASSUME TypeOK, LoopInv, VerdictInv, HistoryInv, JudgeInv, stage = "sealed", NEW p \in Phases
    PROVE  SkillAttempts(p) = [k \in DOMAIN attempts[p] |-> Story(p, k)]
<1>1. /\ attempts[p] \in Seq(AttemptRecords) /\ decisions[p] \in Seq({"retry", "stop"})
      /\ DecisionsFollow(p)
    BY DEF TypeOK, HistoryInv
<1>2. stage # p /\ stage # Retrying[p] /\ stage # "escaped"
    BY DEF Phases, Retrying
<1>3. \A k \in DOMAIN attempts[p] : Invocations[Place(p, k)] = p
    BY RecordsAreTheirs
<1>4. ASSUME NEW k \in DOMAIN attempts[p]
      PROVE  [invocation |-> Invocations[Place(p, k)],
              decision |-> IF k <= Len(decisions[p]) THEN decisions[p][k] ELSE "none"] = Story(p, k)
    <2>1. k \in 1 .. Len(attempts[p])
        BY <1>1
    <2>2. CASE k < Len(attempts[p])
        <3>1. k \in DOMAIN decisions[p] /\ k <= Len(decisions[p])
            BY <1>1, <1>2, <2>1, <2>2 DEF DecisionsFollow
        <3>2. decisions[p][k] = "retry"
            BY <1>1, <1>2, <2>1, <2>2, <3>1 DEF DecisionsFollow
        <3> QED
            BY <1>3, <2>2, <3>1, <3>2 DEF Story
    <2>3. CASE k = Len(attempts[p]) /\ attempts[p][k].code # "none"
        <3>1. AllFailed(p)
            BY <2>3 DEF AllFailed, Latest
        <3>2. k \in DOMAIN decisions[p] /\ k <= Len(decisions[p])
            BY <1>1, <1>2, <2>1, <2>3, <3>1 DEF DecisionsFollow
        <3>3. decisions[p][k] = "stop"
            BY <1>1, <1>2, <2>3, <3>2 DEF DecisionsFollow
        <3> QED
            BY <1>3, <2>1, <2>3, <3>2, <3>3 DEF Story
    <2>4. CASE k = Len(attempts[p]) /\ attempts[p][k].code = "none"
        <3>1. ~AllFailed(p)
            BY <1>1, <2>1, <2>4 DEF AllFailed, Latest
        <3>2. ~(k <= Len(decisions[p]))
            BY <1>1, <1>2, <2>1, <2>4, <3>1 DEF DecisionsFollow
        <3> QED
            BY <1>3, <2>1, <2>4, <3>2 DEF Story
    <2> QED
        BY <1>1, <2>1, <2>2, <2>3, <2>4
<1> QED
    BY <1>4 DEF SkillAttempts

(* The report of a case tells its attempts as they were, with the decision  *)
(* that followed each and the invocation it was made with, and shows the    *)
(* evidence a verdict rests on, for every budget and policy.                *)
THEOREM ReportsTellTheAttempts == Spec => []ReportTellsTheAttempts
<1>1. TypeOK /\ LoopInv /\ VerdictInv /\ HistoryInv /\ JudgeInv => ReportTellsTheAttempts
    <2> SUFFICES ASSUME TypeOK, LoopInv, VerdictInv, HistoryInv, JudgeInv, Reported
                 PROVE  ReportTellsTheAttempts
        BY DEF ReportTellsTheAttempts
    <2>1. stage = "sealed"
        BY DEF Reported
    <2>2. ASSUME NEW p \in Phases
          PROVE  /\ Len(Attempts(p)) = Len(attempts[p])
                 /\ \A k \in DOMAIN attempts[p] : Attempts(p)[k] = Story(p, k)
        <3>1. Attempts(p) = [k \in DOMAIN attempts[p] |-> Story(p, k)]
            BY <2>1, AgentsStory, SkillsStory DEF Attempts
        <3>2. Len(attempts[p]) \in Nat /\ DOMAIN attempts[p] = 1 .. Len(attempts[p])
            BY DEF TypeOK
        <3> QED
            BY <3>1, <3>2
    <2>3. ASSUME artifact.classification # "non-evidence"
          PROVE  Len(attempts["target"]) \in ShownEvidence
        <3>1. classification = Verdict /\ artifact.classification = classification
            BY <2>1 DEF VerdictInv
        <3>2. Latest("target").code = "none"
            BY <2>3, <3>1 DEF Verdict, ClassifyEvaluation
        <3>3. attempts["target"] # <<>> /\ Latest("target").own = "ready"
            BY <2>1, <3>2 DEF VerdictInv
        <3>4. attempts["target"] \in Seq(AttemptRecords)
            BY DEF TypeOK, Phases
        <3>5. Len(attempts["target"]) \in DOMAIN attempts["target"]
            BY <3>3, <3>4
        <3> QED
            BY <3>3, <3>5 DEF ShownEvidence, Latest
    <2> QED
        BY <2>2, <2>3 DEF ReportTellsTheAttempts, Story
<1> QED
    BY <1>1, ReportInvariant, PTL

---------------------------------------------------------------------------
(* The assertions.                                                          *)

(* The three kinds of outcome the checks of a case can have.                *)
LEMMA OutcomeKinds ==
    ASSUME NEW c \in AuthoredCases, NEW o \in OutcomesOf(c)
    PROVE  \/ o.assertions = <<>> /\ o.literals = {} /\ ~TargetUsable
           \/ o.assertions = <<>> /\ o.literals = {} /\ TargetUsable /\ checks = {"non-evidence"}
           \/ /\ TargetUsable
              /\ o.assertions \in [c.asserted -> CheckStatuses]
              /\ c.output = "literals" => o.literals # {}
              /\ {o.assertions[a] : a \in c.asserted} \cup o.literals = checks
<1>1. CASE ~TargetUsable
    BY <1>1 DEF OutcomesOf
<1>2. CASE TargetUsable
    <2>0. \A x \in LiteralStatuses["literals"] : x # {}
        BY DEF LiteralStatuses
    <2>1. CASE o = [assertions |-> <<>>, literals |-> {}] /\ checks = {"non-evidence"}
        BY <1>2, <2>1
    <2>2. CASE /\ o \in [assertions: [c.asserted -> CheckStatuses], literals: LiteralStatuses[c.output]]
               /\ {o.assertions[a] : a \in c.asserted} \cup o.literals = checks
        BY <1>2, <2>0, <2>2
    <2> QED
        BY <1>2, <2>1, <2>2 DEF OutcomesOf
<1> QED
    BY <1>1, <1>2

(* One entry for each authored assertion and for the output group.          *)
LEMMA EntriesAreSingle ==
    ASSUME NEW c \in AuthoredCases, NEW o \in OutcomesOf(c),
           NEW a \in c.asserted \cup (IF c.output = "absent" THEN {} ELSE {"output"})
    PROVE  Cardinality({e \in ReportedAssertions(c, o) : e.assertion = a}) = 1
<1> DEFINE own == {e \in ReportedAssertions(c, o) : e.assertion = a}
<1>1. c.asserted \subseteq Assertions /\ c.output \in {"absent", "empty", "literals"}
    BY DEF AuthoredCases
<1>2. \A x, status, from : Entry(x, status, from).assertion = x
    BY DEF Entry
<1>3. DOMAIN <<>> = {}
    OBVIOUS
<1>4. \/ DOMAIN o.assertions = {}
      \/ DOMAIN o.assertions = c.asserted
    BY <1>3, OutcomeKinds
<1>5. CASE a = "output"
    <2>1. own = {Entry("output", OutputStatus(c, o), "output")}
        BY <1>1, <1>2, <1>4, <1>5, AssertionsAssumption DEF ReportedAssertions
    <2> QED
        BY <2>1, FS_Singleton
<1>6. CASE a \in c.asserted /\ a \in DOMAIN o.assertions
    <2>1. ~ListedAsAuthored(c, o)
        BY <1>3, <1>6, OutcomeKinds DEF ListedAsAuthored, AssertionsUnavailable, Known
    <2>2. own = {Entry(a, o.assertions[a], "check")}
        BY <1>1, <1>2, <1>6, <2>1, AssertionsAssumption DEF ReportedAssertions
    <2> QED
        BY <2>2, FS_Singleton
<1>7. CASE a \in c.asserted /\ a \notin DOMAIN o.assertions
    <2>1. DOMAIN o.assertions = {} /\ o.literals = {}
        BY <1>3, <1>4, <1>7, OutcomeKinds
    <2>2. ListedAsAuthored(c, o)
        BY <1>7, <2>1 DEF ListedAsAuthored, AssertionsUnavailable, HasAssertions, Known
    <2>3. own = {Entry(a, "non-evidence", "authored")}
        BY <1>1, <1>2, <1>7, <2>1, <2>2, AssertionsAssumption DEF ReportedAssertions
    <2> QED
        BY <2>3, FS_Singleton
<1> QED
    BY <1>1, <1>5, <1>6, <1>7

(* The outcomes agree with the verdict: in a case that passed, of which no  *)
(* output group is empty, all of them pass.                                 *)
LEMMA EntriesOfAPass ==
    ASSUME NEW c \in AuthoredCases, NEW o \in OutcomesOf(c), c.output # "empty",
           TargetUsable, checks \subseteq {"pass"}, NEW e \in ReportedAssertions(c, o)
    PROVE  e.status = "pass"
<1>1. /\ o.assertions \in [c.asserted -> CheckStatuses]
      /\ c.output = "literals" => o.literals # {}
      /\ {o.assertions[a] : a \in c.asserted} \cup o.literals \subseteq {"pass"}
    BY OutcomeKinds
<1>2. \A x, status, from : Entry(x, status, from).status = status
    BY DEF Entry
<1>3. CASE \E a \in DOMAIN o.assertions : e = Entry(a, o.assertions[a], "check")
    BY <1>1, <1>2, <1>3
<1>4. CASE c.output # "absent" /\ e = Entry("output", OutputStatus(c, o), "output")
    <2>1. c.output = "literals"
        BY <1>4 DEF AuthoredCases
    <2>2. OutputStatus(c, o) = "pass"
        BY <1>1, <2>1 DEF OutputStatus
    <2> QED
        BY <1>2, <1>4, <2>2
<1>5. CASE ListedAsAuthored(c, o) /\ \E a \in c.asserted : e = Entry(a, "non-evidence", "authored")
    <2>1. DOMAIN o.assertions = c.asserted /\ c.asserted # {}
        BY <1>1, <1>5
    <2> QED
        BY <1>5, <2>1 DEF ListedAsAuthored, AssertionsUnavailable, Known
<1> QED
    BY <1>3, <1>4, <1>5 DEF ReportedAssertions

LEMMA EntriesOfAFail ==
    ASSUME NEW c \in AuthoredCases, NEW o \in OutcomesOf(c),
           NEW e \in ReportedAssertions(c, o), e.status = "fail"
    PROVE  TargetUsable /\ "fail" \in checks
<1>1. \A x, status, from : Entry(x, status, from).status = status
    BY DEF Entry
<1>2. DOMAIN <<>> = {}
    OBVIOUS
<1>3. CASE \E a \in DOMAIN o.assertions : e = Entry(a, o.assertions[a], "check")
    BY <1>1, <1>2, <1>3, OutcomeKinds
<1>4. CASE c.output # "absent" /\ e = Entry("output", OutputStatus(c, o), "output")
    <2>1. "fail" \in o.literals
        BY <1>1, <1>4 DEF OutputStatus
    <2> QED
        BY <2>1, OutcomeKinds
<1>5. CASE \E a \in c.asserted : e = Entry(a, "non-evidence", "authored")
    BY <1>1, <1>5
<1> QED
    BY <1>3, <1>4, <1>5 DEF ReportedAssertions

(* Every authored assertion is reported exactly once and in agreement with  *)
(* the verdict, for any set of assertions: whatever the target, its         *)
(* evidence, a callback that raised or the checks left for the report.      *)
THEOREM AssertionsAreReported == Spec => []EveryAssertionIsReported
<1>1. TypeOK /\ VerdictInv /\ JudgeInv => EveryAssertionIsReported
    <2> SUFFICES ASSUME TypeOK, VerdictInv, JudgeInv, Reported, job.gate = "agent_runtime",
                        NEW c \in AuthoredCases, c.output # "empty", NEW o \in OutcomesOf(c)
                 PROVE  LET entries == ReportedAssertions(c, o) IN
                        /\ \A a \in c.asserted \cup (IF c.output = "absent" THEN {} ELSE {"output"}) :
                               Cardinality({e \in entries : e.assertion = a}) = 1
                        /\ artifact.classification = "pass" => \A e \in entries : e.status = "pass"
                        /\ (\E e \in entries : e.status = "fail") => artifact.classification = "fail"
        BY DEF EveryAssertionIsReported
    <2>1. artifact.classification = Verdict
        BY DEF VerdictInv, Reported
    <2>2. artifact.classification = "pass" => TargetUsable /\ checks \subseteq {"pass"}
        BY <2>1 DEF Verdict, ClassifyEvaluation, TargetUsable
    <2>3. TargetUsable /\ "fail" \in checks => artifact.classification = "fail"
        BY <2>1 DEF Verdict, ClassifyEvaluation, TargetUsable, JudgeInv, TypeOK
    <2> QED
        BY <2>2, <2>3, EntriesAreSingle, EntriesOfAPass, EntriesOfAFail
<1> QED
    BY <1>1, ReportInvariant, PTL
=============================================================================
