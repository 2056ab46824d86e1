----------------------- MODULE PairedEvaluationProofs -----------------------
(***************************************************************************)
(* Proofs about PairedEvaluation, for every set of pairs.                   *)
(***************************************************************************)
EXTENDS PairedEvaluation, TLAPS

(* Where a side can be, and what the pair says of the order.                *)
PlacesOK ==
    /\ pair \in Pairs
    /\ stage \in {"run", "build", "persist", "over", "raised"}
    /\ at \in [Sides -> {"waiting", "target", "checked", "judge", "judged", "done", "raised"}]

(* The inductive form of SidesRunInTurn: a side that was ever started was    *)
(* started in its turn, whether it still works or has raised since.         *)
StartedInTurn ==
    \A s \in Sides : at[s] # "waiting" /\ pair.mode = "sequential" /\ s # pair.first
                     => at[pair.first] = "done"

(* No side works once the pair is over.                                     *)
NobodyLeftBehind == \A s \in Sides : Invoking(s) => stage = "run"

TurnInv == PlacesOK /\ StartedInTurn /\ NobodyLeftBehind

LEMMA PairFacts ==
    ASSUME PlacesOK
    PROVE  pair.first \in Sides /\ pair.mode \in {"sequential", "parallel"}
BY PairsAssumption DEF PlacesOK

LEMMA TurnInvInit == Init => TurnInv
<1>1. ASSUME Init PROVE TurnInv
  BY <1>1 DEF Init, TurnInv, PlacesOK, StartedInTurn, NobodyLeftBehind, Invoking
<1> QED BY <1>1

(* A step of one side that moves it from a place it works at, or out of      *)
(* waiting in its turn, while the pair runs.                                *)
LEMMA SideMoves ==
    ASSUME TurnInv, NEW s \in Sides, NEW place,
           place \in {"target", "checked", "judge", "judged", "done", "raised"},
           at' = [at EXCEPT ![s] = place], UNCHANGED <<pair, stage>>,
           \/ Invoking(s)
           \/ /\ stage = "run" /\ at[s] = "waiting"
              /\ pair.mode = "sequential" /\ s # pair.first => at[pair.first] = "done"
    PROVE  TurnInv'
<1>1. PlacesOK' BY DEF TurnInv, PlacesOK
<1>2. stage = "run" BY DEF TurnInv, NobodyLeftBehind
<1>3. NobodyLeftBehind' BY <1>2 DEF NobodyLeftBehind
<1>4. StartedInTurn'
  <2> SUFFICES ASSUME NEW r \in Sides, at'[r] # "waiting", pair.mode = "sequential", r # pair.first
               PROVE  at'[pair.first] = "done"
    BY DEF StartedInTurn
  <2>1. pair.first \in Sides BY PairFacts DEF TurnInv
  <2>2. at[s] # "done" BY DEF Invoking
  <2>3. at[r] # "waiting" => at[pair.first] = "done" BY DEF TurnInv, StartedInTurn
  <2>4. CASE r = s BY <2>1, <2>3, <2>4 DEF Invoking, TurnInv, PlacesOK
  <2>5. CASE r # s BY <2>1, <2>2, <2>3, <2>5 DEF TurnInv, PlacesOK
  <2> QED BY <2>4, <2>5
<1> QED BY <1>1, <1>3, <1>4 DEF TurnInv

LEMMA TurnInvStep == TurnInv /\ [Next]_vars => TurnInv'
<1> SUFFICES ASSUME TurnInv, [Next]_vars PROVE TurnInv' OBVIOUS
<1>1. ASSUME NEW s \in Sides, Side(s) PROVE TurnInv'
  <2>1. CASE StartSide(s) BY <2>1, SideMoves DEF StartSide, callerVars
  <2>2. CASE TargetEnds(s) BY <2>2, SideMoves DEF TargetEnds, callerVars, Invoking
  <2>3. CASE StartJudge(s) BY <2>3, SideMoves DEF StartJudge, callerVars, Invoking
  <2>4. CASE JudgeEnds(s) BY <2>4, SideMoves DEF JudgeEnds, callerVars, Invoking
  <2>5. CASE Classify(s) BY <2>5, SideMoves DEF Classify, callerVars, Invoking
  <2>6. CASE ProjectSideEnds(s) BY <2>6, SideMoves DEF ProjectSideEnds, callerVars, Invoking
  <2>7. CASE SideRaises(s) BY <2>7, SideMoves DEF SideRaises, callerVars, Invoking
  <2> QED BY <1>1, <2>1, <2>2, <2>3, <2>4, <2>5, <2>6, <2>7 DEF Side
<1>2. CASE PairFails
  <2>1. PICK t \in Sides : at[t] = "raised" BY <1>2 DEF PairFails
  <2>2. pair.first \in Sides /\ pair.mode \in {"sequential", "parallel"}
    BY PairFacts DEF TurnInv
  <2>3. ASSUME NEW s \in Sides PROVE ~Invoking(s)
    <3>1. CASE pair.mode = "parallel" BY <1>2, <3>1 DEF PairFails, Invoking
    <3>2. CASE pair.mode = "sequential"
      <4>1. CASE t = pair.first
        BY <2>1, <3>2, <4>1 DEF TurnInv, StartedInTurn, Invoking
      <4>2. CASE t # pair.first
        <5>1. at[pair.first] = "done" BY <2>1, <3>2, <4>2 DEF TurnInv, StartedInTurn
        <5>2. s = t \/ s = pair.first BY <2>2, <4>2 DEF Sides
        <5> QED BY <2>1, <5>1, <5>2 DEF Invoking
      <4> QED BY <4>1, <4>2
    <3> QED BY <2>2, <3>1, <3>2
  <2>4. PlacesOK' /\ StartedInTurn'
    BY <1>2 DEF PairFails, TurnInv, PlacesOK, StartedInTurn
  <2>5. NobodyLeftBehind' BY <1>2, <2>3 DEF PairFails, NobodyLeftBehind, Invoking
  <2> QED BY <2>4, <2>5 DEF TurnInv
<1>3. CASE Compare
  BY <1>3 DEF Compare, TurnInv, PlacesOK, StartedInTurn, NobodyLeftBehind, Invoking
<1>4. CASE BuildArtifact
  BY <1>4 DEF BuildArtifact, TurnInv, PlacesOK, StartedInTurn, NobodyLeftBehind, Invoking
<1>5. CASE Persist
  BY <1>5 DEF Persist, TurnInv, PlacesOK, StartedInTurn, NobodyLeftBehind, Invoking
<1>6. CASE UNCHANGED vars
  BY <1>6 DEF vars, TurnInv, PlacesOK, StartedInTurn, NobodyLeftBehind, Invoking
<1> QED BY <1>1, <1>2, <1>3, <1>4, <1>5, <1>6 DEF Next, Caller, Over

LEMMA TurnInvHolds == Spec => []TurnInv
<1> QED BY TurnInvInit, TurnInvStep, PTL DEF Spec

(* No side works after the pair is over, and the second side of a            *)
(* sequential pair only after the first was completed                       *)
(* (run_paired_evaluation), for every set of pairs.                         *)
THEOREM SidesInTurn == Spec => []SidesRunInTurn
<1>1. TurnInv => SidesRunInTurn
  BY DEF TurnInv, StartedInTurn, NobodyLeftBehind, SidesRunInTurn, Invoking
<1> QED BY <1>1, TurnInvHolds, PTL

---------------------------------------------------------------------------
(* What the checks and the classification can say.                          *)

LEMMA SkillCheckFacts ==
    ASSUME NEW s \in Sides, NEW t \in Targets
    PROVE  /\ SkillCheck(s, t) \in Verdicts
           /\ SkillCheck(s, t) \in {"pass", "fail"} <=>
                /\ t.complete /\ "unreadable" \notin t.observed
                /\ t.projected <=> "load" \in t.observed
                /\ s = "baseline" => "load" \notin t.observed
           /\ SkillCheck(s, t) = "pass" /\ s = "candidate" => "load" \in t.observed
           /\ SkillCheck(s, t) = "fail" =>
                s = "candidate" /\ "load" \notin t.observed
BY DEF SkillCheck, NativeSkillObservation, Sides, Targets, Verdicts

LEMMA SemanticFacts ==
    ASSUME TypeOK, NEW s \in Sides
    PROVE  Semantic(s) \in {"none", "pass", "fail"}
BY DEF Semantic

LEMMA NoGradeIsAGrade ==
    ASSUME pair \in Pairs
    PROVE  NoGrade \in Grades
BY PairsAssumption DEF NoGrade, Grades

(* _persist_lane reads the decision of a comparison that was made, which is  *)
(* there because the artifact's envelope was validated.                     *)
DecisionIsThere == stage = "persist" /\ comparison.status = "compared" => comparison.decision # "none"

LEMMA DecisionStep ==
    ASSUME DecisionIsThere, [Next]_vars
    PROVE  DecisionIsThere'
<1>1. ASSUME NEW s \in Sides, Side(s) PROVE DecisionIsThere'
  BY <1>1 DEF Side, StartSide, TargetEnds, StartJudge, JudgeEnds, Classify, ProjectSideEnds,
              SideRaises, callerVars, DecisionIsThere
<1>2. CASE BuildArtifact BY <1>2 DEF BuildArtifact, EnvelopeIsValid, DecisionIsThere
<1>3. CASE PairFails BY <1>3 DEF PairFails, DecisionIsThere
<1>4. CASE Compare BY <1>4 DEF Compare, DecisionIsThere
<1>5. CASE Persist BY <1>5 DEF Persist, DecisionIsThere
<1>6. CASE UNCHANGED vars BY <1>6 DEF vars, DecisionIsThere
<1> QED BY <1>1, <1>2, <1>3, <1>4, <1>5, <1>6 DEF Next, Caller, Over

(* Every variable of a pair keeps its type, for every set of pairs.          *)
THEOREM TypeCorrect == Spec => []TypeOK
<1>1. Init => TypeOK /\ DecisionIsThere
  <2> SUFFICES ASSUME Init PROVE TypeOK /\ DecisionIsThere OBVIOUS
  <2>1. grade \in [Sides -> Grades] BY NoGradeIsAGrade DEF Init
  <2>2. target \in [Sides -> Targets] BY DEF Init, NoTarget, Targets
  <2> QED BY <2>1, <2>2 DEF Init, TypeOK, Verdicts, DecisionIsThere
<1>2. TypeOK /\ DecisionIsThere /\ [Next]_vars => TypeOK'
  <2> SUFFICES ASSUME TypeOK, DecisionIsThere, [Next]_vars PROVE TypeOK' OBVIOUS
  <2> USE DEF callerVars
  <2>0. Grades' = Grades \/ pair' # pair BY DEF Grades
  <2>1. ASSUME NEW s \in Sides, Side(s) PROVE TypeOK'
    <3>0. pair' = pair /\ Grades' = Grades
      BY <2>0, <2>1 DEF Side, StartSide, TargetEnds, StartJudge, JudgeEnds, Classify, ProjectSideEnds, SideRaises
    <3>1. CASE StartSide(s) BY <3>0, <3>1 DEF StartSide, TypeOK
    <3>2. CASE TargetEnds(s)
      <4>1. PICK t \in Targets :
               /\ target' = [target EXCEPT ![s] = t]
               /\ check' = [check EXCEPT ![s] = IF t.usable THEN SkillCheck(s, t) ELSE "none"]
        BY <3>2 DEF TargetEnds
      <4>2. SkillCheck(s, t) \in Verdicts BY SkillCheckFacts
      <4> QED BY <3>0, <3>2, <4>1, <4>2 DEF TargetEnds, TypeOK
    <3>3. CASE StartJudge(s) BY <3>0, <3>3 DEF StartJudge, TypeOK
    <3>4. CASE JudgeEnds(s) BY <3>0, <3>4 DEF JudgeEnds, TypeOK
    <3>5. CASE Classify(s)
      <4>1. check[s] \in Verdicts \cup {"none"} BY DEF TypeOK
      <4>2. ClassifyEvaluation("none", "ready", {check[s]}, at[s] = "judged", "none", Semantic(s)) \in Verdicts
        BY <4>1, SemanticFacts DEF ClassifyEvaluation, Verdicts
      <4> QED BY <3>0, <3>5, <4>2 DEF Classify, TypeOK, Verdicts
    <3>6. CASE ProjectSideEnds(s) BY <3>0, <3>6 DEF ProjectSideEnds, TypeOK
    <3>7. CASE SideRaises(s) BY <3>0, <3>7 DEF SideRaises, TypeOK
    <3> QED BY <2>1, <3>1, <3>2, <3>3, <3>4, <3>5, <3>6, <3>7 DEF Side
  <2>2. CASE PairFails BY <2>0, <2>2 DEF PairFails, TypeOK
  <2>3. CASE Compare
    <3>1. comparison' \in
            [status: {"omitted", "compared", "non-evidence", "invalid"},
             baseline: Verdicts \cup {"none"}, candidate: Verdicts \cup {"none"},
             decision: Verdicts \cup {"none", "own"},
             value: {"none", "regression", "neutral", "improvement", "material-improvement"}]
      BY <2>3 DEF Compare, Comparisons, SkillComparison, ProjectComparisons, SkillValue, Result,
                  TypeOK, Verdicts, Sides
    <3> QED BY <2>0, <2>3, <3>1 DEF Compare, TypeOK
  <2>4. CASE BuildArtifact BY <2>0, <2>4 DEF BuildArtifact, TypeOK
  <2>5. CASE Persist
    <3>1. status' \in Verdicts \cup {"pending", "own", "error"}
      BY <2>5 DEF Persist, DecisionIsThere, TypeOK, Verdicts
    <3> QED BY <2>0, <2>5, <3>1 DEF Persist, TypeOK
  <2>6. CASE UNCHANGED vars BY <2>0, <2>6 DEF vars, TypeOK
  <2> QED BY <2>1, <2>2, <2>3, <2>4, <2>5, <2>6 DEF Next, Caller, Over
<1>3. DecisionIsThere /\ [Next]_vars => DecisionIsThere' BY DecisionStep
<1> QED BY <1>1, <1>2, <1>3, PTL DEF Spec

---------------------------------------------------------------------------
(* The verdict of a skill pair.                                             *)

(* What a skill side's check, grade and classification say of its evidence  *)
(* at each place.                                                           *)
Judged(s) == at[s] \in {"judged", "done"}
Checked(s) == at[s] \in {"checked", "judge"} \/ Judged(s)

SideVerdict(s) ==
    IF ~Usable(s) THEN "non-evidence"
    ELSE IF check[s] = "pass" /\ Flawless(s) THEN "pass" ELSE "fail"

SideInv(s) ==
    /\ Checked(s) => check[s] = IF target[s].usable THEN SkillCheck(s, target[s]) ELSE "none"
    /\ at[s] \in {"judge", "judged"} => JudgeIsAsked(s)
    /\ grade[s].given => /\ Accepts(grade[s])
                         /\ at[s] = "raised" \/ (Judged(s) /\ JudgeIsAsked(s))
    /\ at[s] = "done" => classification[s] = SideVerdict(s)

PairVerdict ==
    IF \E s \in Sides : ~Usable(s) THEN "non-evidence"
    ELSE IF Loaded("candidate") /\ Flawless("candidate") THEN "pass" ELSE "fail"

(* What is left of it on the way to the status.                             *)
ComparisonTells ==
    /\ \A s \in Sides : at[s] = "done"
    /\ comparison.baseline = classification["baseline"]
    /\ comparison.candidate = classification["candidate"]
    /\ \/ comparison.status = "non-evidence" /\ comparison.decision = "none"
          /\ PairVerdict = "non-evidence"
       \/ comparison.status = "compared" /\ comparison.decision = PairVerdict
          /\ PairVerdict # "non-evidence"

PairInv ==
    /\ \A s \in Sides : SideInv(s)
    /\ stage \in {"build", "persist"} => ComparisonTells
    /\ stage = "over" => (\A s \in Sides : at[s] = "done") /\ status = PairVerdict
    /\ stage = "raised" => \E s \in Sides : at[s] = "raised"

VerdictInv == pair.extension = "skill" => PairInv

(* A side that its step leaves alone keeps its invariant.                   *)
LEMMA SideFrame ==
    ASSUME NEW r \in Sides, SideInv(r), pair' = pair, at'[r] = at[r], target'[r] = target[r],
           check'[r] = check[r], grade'[r] = grade[r], classification'[r] = classification[r]
    PROVE  SideInv(r)'
BY DEF SideInv, Judged, Checked, SideVerdict, Usable, Loaded, Flawless, JudgeIsAsked, Accepts

(* The classification of a side that reaches its end.                       *)
LEMMA SideIsClassified ==
    ASSUME TypeOK, NEW s \in Sides, SideInv(s),
           at[s] = "judged" \/ (at[s] = "checked" /\ ~JudgeIsAsked(s))
    PROVE  SideVerdict(s) =
             IF ~target[s].usable THEN "non-evidence"
             ELSE ClassifyEvaluation("none", "ready", {check[s]}, at[s] = "judged", "none", Semantic(s))
<1> DEFINE verdict == ClassifyEvaluation("none", "ready", {check[s]}, at[s] = "judged", "none", Semantic(s))
<1>1. target[s] \in Targets BY DEF TypeOK
<1>2. CASE ~target[s].usable BY <1>2 DEF SideVerdict, Usable
<1>3. CASE target[s].usable
  <2>1. check[s] = SkillCheck(s, target[s]) BY <1>3 DEF SideInv, Checked, Judged
  <2>2. check[s] \in Verdicts BY <1>1, <2>1, SkillCheckFacts
  <2>3. CASE at[s] = "checked" /\ ~JudgeIsAsked(s)
    <3>1. ~grade[s].given BY <2>3 DEF SideInv, Judged
    <3>2. SideVerdict(s) = "non-evidence" BY <3>1 DEF SideVerdict, Usable
    <3>3. check[s] = "non-evidence" BY <2>2, <2>3 DEF JudgeIsAsked, Verdicts
    <3>4. verdict = "non-evidence" BY <2>3, <3>1, <3>3 DEF ClassifyEvaluation, Semantic
    <3> QED BY <1>3, <3>2, <3>4
  <2>4. CASE at[s] = "judged"
    <3>1. check[s] \in {"pass", "fail"} BY <2>4 DEF SideInv, JudgeIsAsked
    <3>2. Usable(s) <=> grade[s].given
      BY <1>1, <1>3, <2>1, <3>1, SkillCheckFacts DEF Usable, Loaded
    <3>3. CASE ~grade[s].given
      BY <1>3, <2>4, <3>2, <3>3 DEF SideVerdict, ClassifyEvaluation, Semantic
    <3>4. CASE grade[s].given
      <4>1. grade[s].passed <=> Flawless(s) BY <3>4 DEF SideInv, Accepts, Flawless
      <4> QED BY <1>3, <2>4, <3>1, <3>2, <3>4, <4>1 DEF SideVerdict, ClassifyEvaluation, Semantic
    <3> QED BY <3>3, <3>4
  <2> QED BY <2>3, <2>4
<1> QED BY <1>2, <1>3

(* A step of a skill side keeps the invariant of the side.                   *)
LEMMA SideStep ==
    ASSUME TypeOK, pair.extension = "skill", NEW s \in Sides, SideInv(s), Side(s)
    PROVE  SideInv(s)'
<1> USE DEF callerVars
<1>1. CASE StartSide(s)
  BY <1>1 DEF StartSide, SideInv, Judged, Checked, SideVerdict, Usable, Loaded, Flawless,
              JudgeIsAsked, Accepts, TypeOK
<1>2. CASE TargetEnds(s)
  <2>1. PICK t \in Targets :
           /\ target' = [target EXCEPT ![s] = t]
           /\ check' = [check EXCEPT ![s] = IF t.usable THEN SkillCheck(s, t) ELSE "none"]
    BY <1>2 DEF TargetEnds
  <2>2. /\ at'[s] = "checked" /\ target'[s] = t /\ grade' = grade
        /\ check'[s] = IF t.usable THEN SkillCheck(s, t) ELSE "none"
    BY <1>2, <2>1 DEF TargetEnds, TypeOK
  <2>3. ~grade[s].given BY <1>2 DEF TargetEnds, SideInv, Judged
  <2>4. (check[s] = IF target[s].usable THEN SkillCheck(s, target[s]) ELSE "none")'
    BY <2>2 DEF SkillCheck, NativeSkillObservation
  <2> QED BY <2>2, <2>3, <2>4 DEF SideInv, Judged, Checked
<1>3. CASE StartJudge(s)
  <2>1. UNCHANGED <<pair, target, check, grade>> /\ at[s] = "checked" /\ at'[s] = "judge" /\ JudgeIsAsked(s)
    BY <1>3 DEF StartJudge, TypeOK
  <2>2. JudgeIsAsked(s)' BY <2>1 DEF JudgeIsAsked
  <2>3. ~grade[s].given BY <2>1 DEF SideInv, Judged
  <2> QED BY <2>1, <2>2, <2>3 DEF SideInv, Judged, Checked
<1>4. CASE JudgeEnds(s)
  <2>1. UNCHANGED <<pair, target, check>> /\ at[s] = "judge" /\ at'[s] = "judged"
    BY <1>4 DEF JudgeEnds, TypeOK
  <2>2. JudgeIsAsked(s) /\ JudgeIsAsked(s)' BY <2>1 DEF SideInv, JudgeIsAsked
  <2>3. grade'[s].given => Accepts(grade'[s])
    <3>1. CASE grade' = grade BY <3>1, <2>1 DEF SideInv, Judged
    <3>2. CASE \E answer \in Grades : answer.given /\ Accepts(answer) /\ grade' = [grade EXCEPT ![s] = answer]
      BY <3>2 DEF TypeOK
    <3> QED BY <1>4, <3>1, <3>2 DEF JudgeEnds
  <2>4. Accepts(grade[s])' <=> Accepts(grade'[s]) BY <2>1 DEF Accepts
  <2> QED BY <2>1, <2>2, <2>3, <2>4 DEF SideInv, Judged, Checked
<1>5. CASE Classify(s)
  <2>1. /\ UNCHANGED <<pair, target, check, grade>> /\ at'[s] = "done"
        /\ at[s] = "judged" \/ (at[s] = "checked" /\ ~JudgeIsAsked(s))
    BY <1>5 DEF Classify, TypeOK
  <2>2. classification'[s] = SideVerdict(s)
    BY <1>5, <2>1, SideIsClassified DEF Classify, TypeOK
  <2>3. SideVerdict(s)' = SideVerdict(s) BY <2>1 DEF SideVerdict, Usable, Loaded, Flawless
  <2>4. JudgeIsAsked(s)' <=> JudgeIsAsked(s) BY <2>1 DEF JudgeIsAsked
  <2>5. Accepts(grade[s])' <=> Accepts(grade[s]) BY <2>1 DEF Accepts
  <2>6. grade[s].given => JudgeIsAsked(s) BY <2>1 DEF SideInv, Judged
  <2> QED BY <2>1, <2>2, <2>3, <2>4, <2>5, <2>6 DEF SideInv, Judged, Checked
<1>6. CASE ProjectSideEnds(s) BY <1>6 DEF ProjectSideEnds
<1>7. CASE SideRaises(s)
  <2>1. UNCHANGED <<pair, target, check, grade>> /\ at'[s] = "raised" BY <1>7 DEF SideRaises, TypeOK
  <2>2. Accepts(grade[s])' <=> Accepts(grade[s]) BY <2>1 DEF Accepts
  <2> QED BY <2>1, <2>2 DEF SideInv, Judged, Checked
<1> QED BY <1>1, <1>2, <1>3, <1>4, <1>5, <1>6, <1>7 DEF Side

(* PairVerdict is the candidate's own classification, unless a side lacks    *)
(* evidence.                                                                *)
LEMMA CandidateDecides ==
    ASSUME TypeOK, \A s \in Sides : SideInv(s) /\ at[s] = "done"
    PROVE  /\ \A s \in Sides : classification[s] = SideVerdict(s)
           /\ (\E s \in Sides : ~Usable(s)) <=> \E s \in Sides : classification[s] = "non-evidence"
           /\ (\A s \in Sides : Usable(s)) => PairVerdict = classification["candidate"]
<1>1. \A s \in Sides : classification[s] = SideVerdict(s) BY DEF SideInv
<1>2. \A s \in Sides : SideVerdict(s) = "non-evidence" <=> ~Usable(s) BY DEF SideVerdict
<1>3. ASSUME \A s \in Sides : Usable(s) PROVE PairVerdict = classification["candidate"]
  <2>1. "candidate" \in Sides BY DEF Sides
  <2>2. target["candidate"] \in Targets BY <2>1 DEF TypeOK
  <2>3. target["candidate"].usable BY <1>3, <2>1 DEF Usable
  <2>4. check["candidate"] = SkillCheck("candidate", target["candidate"])
    BY <2>1, <2>3 DEF SideInv, Checked, Judged
  <2>5. check["candidate"] \in {"pass", "fail"}
    BY <1>3, <2>1, <2>2, <2>4, SkillCheckFacts DEF Usable, Loaded
  <2>6. check["candidate"] = "pass" <=> Loaded("candidate")
    BY <2>1, <2>2, <2>4, <2>5, SkillCheckFacts DEF Loaded
  <2> QED BY <1>1, <1>3, <2>1, <2>6 DEF PairVerdict, SideVerdict
<1> QED BY <1>1, <1>2, <1>3

LEMMA VerdictInvInit == Init => VerdictInv
<1> SUFFICES ASSUME Init PROVE VerdictInv OBVIOUS
<1>1. ASSUME NEW s \in Sides PROVE SideInv(s)
  BY DEF Init, SideInv, Judged, Checked, NoGrade
<1> QED BY <1>1 DEF Init, VerdictInv, PairInv

(* Once both sides are over the comparison tells the pair's verdict: it is   *)
(* never invalid, and its envelope is never refused.                        *)
LEMMA CompareStep ==
    ASSUME TypeOK, pair.extension = "skill", PairInv, Compare
    PROVE  PairInv'
<1> USE DEF callerVars
<1>1. UNCHANGED <<pair, at, target, check, grade, classification, status>> /\ stage' = "build"
  BY DEF Compare
<1>2. \A s \in Sides : SideInv(s) /\ at[s] = "done" BY DEF Compare, PairInv
<1>3. ASSUME NEW s \in Sides PROVE SideInv(s)' BY <1>1, <1>2, <1>3, SideFrame
<1>4. "baseline" \in Sides /\ "candidate" \in Sides BY DEF Sides
<1>5. /\ comparison'.baseline = classification["baseline"]
      /\ comparison'.candidate = classification["candidate"]
      /\ \/ comparison'.status = "non-evidence" /\ comparison'.decision = "none"
            /\ PairVerdict = "non-evidence"
         \/ comparison'.status = "compared" /\ comparison'.decision = PairVerdict
            /\ PairVerdict # "non-evidence"
  <2>1. CASE \E s \in Sides : classification[s] = "non-evidence"
    <3>1. comparison' = Result("non-evidence", "none", "none") BY <2>1 DEF Compare, Comparisons
    <3>2. PairVerdict = "non-evidence" BY <1>2, <2>1, CandidateDecides DEF PairVerdict
    <3> QED BY <3>1, <3>2 DEF Result
  <2>2. CASE ~ \E s \in Sides : classification[s] = "non-evidence"
    <3>1. \A s \in Sides : Usable(s) BY <1>2, <2>2, CandidateDecides
    <3>2. \A s \in Sides : grade[s].given BY <3>1 DEF Usable
    <3>3. PairVerdict = classification["candidate"] BY <1>2, <3>1, CandidateDecides
    <3>4. classification["candidate"] \in {"pass", "fail"}
      BY <1>2, <1>4, <3>1, CandidateDecides DEF SideVerdict
    <3>5. comparison' = Result("compared", classification["candidate"], SkillValue)
      BY <2>2, <3>2, <3>4 DEF Compare, Comparisons, SkillComparison
    <3> QED BY <3>3, <3>4, <3>5 DEF Result
  <2> QED BY <2>1, <2>2
<1>6. PairVerdict' = PairVerdict BY <1>1 DEF PairVerdict, Usable, Loaded, Flawless
<1>7. ComparisonTells' BY <1>1, <1>2, <1>5, <1>6 DEF ComparisonTells
<1> QED BY <1>1, <1>3, <1>7 DEF PairInv

LEMMA VerdictInvStep ==
    ASSUME TypeOK, TurnInv, VerdictInv, [Next]_vars
    PROVE  VerdictInv'
<1> USE DEF callerVars
<1> SUFFICES ASSUME pair.extension = "skill", pair' = pair PROVE PairInv'
  BY DEF VerdictInv, Next, Caller, Over, vars, PairFails, Compare, BuildArtifact, Persist, Side,
         StartSide, TargetEnds, StartJudge, JudgeEnds, Classify, ProjectSideEnds, SideRaises
<1>0. PairInv BY DEF VerdictInv
<1>1. ASSUME NEW s \in Sides, Side(s) PROVE PairInv'
  <2>1. stage = "run" /\ stage' = "run"
    BY <1>1 DEF TurnInv, NobodyLeftBehind, Invoking, Side, StartSide, TargetEnds, StartJudge,
                JudgeEnds, Classify, ProjectSideEnds, SideRaises
  <2>2. SideInv(s)' BY <1>0, <1>1, SideStep DEF PairInv
  <2>3. ASSUME NEW r \in Sides, r # s PROVE SideInv(r)'
    <3>1. /\ at'[r] = at[r] /\ target'[r] = target[r] /\ check'[r] = check[r]
          /\ grade'[r] = grade[r] /\ classification'[r] = classification[r]
      BY <1>1, <2>3 DEF TypeOK, Side, StartSide, TargetEnds, StartJudge, JudgeEnds, Classify,
                        ProjectSideEnds, SideRaises
    <3> QED BY <1>0, <3>1, SideFrame DEF PairInv
  <2> QED BY <2>1, <2>2, <2>3 DEF PairInv
<1>2. CASE Compare BY <1>0, <1>2, CompareStep
<1>3. ASSUME UNCHANGED <<at, target, check, grade, classification>>
      PROVE  (\A s \in Sides : SideInv(s)') /\ PairVerdict' = PairVerdict
  <2>1. ASSUME NEW s \in Sides PROVE SideInv(s)' BY <1>0, <1>3, SideFrame DEF PairInv
  <2> QED BY <1>3, <2>1 DEF PairVerdict, Usable, Loaded, Flawless
<1>4. CASE PairFails BY <1>3, <1>4 DEF PairFails, PairInv
<1>5. CASE BuildArtifact
  <2>1. ComparisonTells BY <1>0, <1>5 DEF BuildArtifact, PairInv
  <2>2. \A s \in Sides : classification[s] \in Verdicts
    BY <1>0, <2>1 DEF PairInv, SideInv, SideVerdict, ComparisonTells, Verdicts
  <2>3. EnvelopeIsValid(comparison)
    <3>1. "baseline" \in Sides /\ "candidate" \in Sides BY DEF Sides
    <3>2. \A s \in Sides : SideInv(s) /\ at[s] = "done" BY <1>0, <2>1 DEF PairInv, ComparisonTells
    <3>3. CASE PairVerdict = "non-evidence"
      <4>1. \E s \in Sides : classification[s] = "non-evidence"
        BY <3>2, <3>3, CandidateDecides DEF PairVerdict
      <4> QED BY <2>1, <3>3, <4>1 DEF ComparisonTells, EnvelopeIsValid, Sides
    <3>4. CASE PairVerdict # "non-evidence"
      <4>1. \A s \in Sides : classification[s] # "non-evidence"
        BY <3>2, <3>4, CandidateDecides DEF PairVerdict
      <4>2. PairVerdict \in {"pass", "fail"} BY <3>4 DEF PairVerdict
      <4> QED BY <2>1, <2>2, <3>1, <3>4, <4>1, <4>2 DEF ComparisonTells, EnvelopeIsValid, Verdicts
    <3> QED BY <3>3, <3>4
  <2>4. stage' = "persist" BY <1>5, <2>3 DEF BuildArtifact
  <2>5. ComparisonTells' BY <1>3, <1>5, <2>1 DEF BuildArtifact, ComparisonTells
  <2> QED BY <1>3, <1>5, <2>4, <2>5 DEF BuildArtifact, PairInv
<1>6. CASE Persist
  <2>1. ComparisonTells BY <1>0, <1>6 DEF Persist, PairInv
  <2>2. status' = PairVerdict BY <1>6, <2>1 DEF Persist, ComparisonTells
  <2> QED BY <1>3, <1>6, <2>1, <2>2 DEF Persist, PairInv, ComparisonTells
<1>7. CASE UNCHANGED vars
  <2>1. ComparisonTells' <=> ComparisonTells BY <1>3, <1>7 DEF vars, ComparisonTells
  <2> QED BY <1>0, <1>3, <1>7, <2>1 DEF vars, PairInv
<1> QED BY <1>1, <1>2, <1>4, <1>5, <1>6, <1>7 DEF Next, Caller, Over

(* A completed skill pair passes, fails or is non-evidence exactly as the    *)
(* evidence and the judgments of its sides say, and is never an error       *)
(* (deterministic_checks, judge_spec, compare_pair, _persist_lane), for     *)
(* every set of pairs.                                                      *)
THEOREM PairVerdictsAreEarned == Spec => []PairVerdictIsEarned
<1>1. VerdictInv => PairVerdictIsEarned
  BY DEF VerdictInv, PairInv, PairVerdictIsEarned, PairVerdict
<1> QED BY <1>1, TypeCorrect, TurnInvHolds, VerdictInvInit, VerdictInvStep, PTL DEF Spec

---------------------------------------------------------------------------
(* The label of a skill pair.                                               *)

LabelInv ==
    pair.extension = "skill" /\ comparison.status = "compared" =>
        /\ stage # "run"
        /\ \A s \in Sides : at[s] = "done" /\ grade[s].given
        /\ comparison.decision = "pass" => classification["candidate"] = "pass"
        /\ comparison.value = SkillValue

LEMMA LabelInvStep ==
    ASSUME TurnInv, LabelInv, [Next]_vars
    PROVE  LabelInv'
<1> USE DEF callerVars
<1>1. ASSUME NEW s \in Sides, Side(s) PROVE LabelInv'
  <2>1. stage = "run" /\ UNCHANGED <<pair, stage, comparison>>
    BY <1>1 DEF TurnInv, NobodyLeftBehind, Invoking, Side, StartSide, TargetEnds, StartJudge,
                JudgeEnds, Classify, ProjectSideEnds, SideRaises
  <2> QED BY <2>1 DEF LabelInv
<1>2. CASE Compare
  <2> SUFFICES ASSUME pair.extension = "skill", comparison'.status = "compared" PROVE LabelInv'
    BY <1>2 DEF LabelInv, Compare
  <2>1. UNCHANGED <<pair, at, grade, classification>> /\ stage' = "build" /\ \A s \in Sides : at[s] = "done"
    BY <1>2 DEF Compare
  <2>2. comparison' = SkillComparison BY <1>2 DEF Compare, Comparisons, Result
  <2>3. \A s \in Sides : grade[s].given BY <2>2 DEF SkillComparison, Result
  <2>4. comparison'.value = SkillValue
        /\ (comparison'.decision = "pass" => classification["candidate"] = "pass")
    BY <2>2, <2>3 DEF SkillComparison, Result
  <2>5. SkillValue' = SkillValue BY <2>1 DEF SkillValue, Score, Items
  <2> QED BY <2>1, <2>3, <2>4, <2>5 DEF LabelInv
<1>3. ASSUME UNCHANGED <<pair, at, grade, classification, comparison>>, stage' = stage \/ stage' # "run"
      PROVE  LabelInv'
  <2>1. SkillValue' = SkillValue BY <1>3 DEF SkillValue, Score, Items
  <2> QED BY <1>3, <2>1 DEF LabelInv
<1>4. CASE PairFails BY <1>4 DEF PairFails, LabelInv
<1>5. CASE BuildArtifact BY <1>3, <1>5 DEF BuildArtifact
<1>6. CASE Persist BY <1>3, <1>6 DEF Persist
<1>7. CASE UNCHANGED vars BY <1>3, <1>7 DEF vars
<1> QED BY <1>1, <1>2, <1>4, <1>5, <1>6, <1>7 DEF Next, Caller, Over

(* A flawless grade has every item, and no grade has more.                   *)
LEMMA ScoreFacts ==
    ASSUME TypeOK, NEW s \in Sides
    PROVE  /\ Score(s) \in Int /\ Items \in Int /\ Score(s) =< Items
           /\ Flawless(s) => Score(s) = Items
           /\ Score(s) = Items /\ (grade[s].trap_observed => pair.trap) => Flawless(s)
<1>1. pair.expectations \in Nat /\ pair.rules \in Nat /\ pair.trap \in BOOLEAN
  BY PairsAssumption DEF TypeOK
<1>2. /\ grade[s].met \in 0..pair.expectations /\ grade[s].violated \in 0..pair.rules
      /\ grade[s].trap_observed \in BOOLEAN
  BY DEF TypeOK, Grades
<1> QED BY <1>1, <1>2 DEF Score, Items, Flawless

(* The label never contradicts the verdict (compare_pair), for every set of  *)
(* pairs: it is a relation between the judge's own verdict, which _grade     *)
(* ties to its details, and the scores, which parse_judge counts from them.  *)
THEOREM PassesAreNoRegressions == Spec => []PassIsNoRegression
<1>1. ASSUME TypeOK, VerdictInv, LabelInv PROVE PassIsNoRegression
  <2> SUFFICES ASSUME pair.extension = "skill", comparison.status = "compared"
               PROVE  /\ comparison.decision = "pass" => comparison.value # "regression"
                      /\ Flawless("baseline") /\ ~Flawless("candidate") => comparison.value = "regression"
    BY DEF PassIsNoRegression
  <2>1. "baseline" \in Sides /\ "candidate" \in Sides BY DEF Sides
  <2>2. \A s \in Sides : SideInv(s) /\ at[s] = "done" /\ grade[s].given
    BY <1>1 DEF VerdictInv, PairInv, LabelInv
  <2>3. comparison.value = SkillValue BY <1>1 DEF LabelInv
  <2>4. \A s \in Sides : /\ Score(s) \in Int /\ Items \in Int /\ Score(s) =< Items
                         /\ Flawless(s) => Score(s) = Items /\ ~grade[s].trap_observed
                         /\ Score(s) = Items => Flawless(s)
    BY <1>1, <2>2, ScoreFacts DEF SideInv, Accepts, Flawless
  <2>5. ASSUME comparison.decision = "pass" PROVE SkillValue # "regression"
    <3>1. SideVerdict("candidate") = "pass" BY <1>1, <2>1, <2>2, <2>5 DEF LabelInv, SideInv
    <3>2. Flawless("candidate") BY <3>1 DEF SideVerdict
    <3>3. /\ Score("candidate") - Score("baseline") >= 0
          /\ ~grade["candidate"].trap_observed
      BY <2>1, <2>4, <3>2
    <3> QED BY <2>1, <2>4, <3>3 DEF SkillValue
  <2>6. ASSUME Flawless("baseline"), ~Flawless("candidate") PROVE SkillValue = "regression"
    <3>1. Score("candidate") - Score("baseline") < 0 BY <2>1, <2>4, <2>6
    <3> QED BY <3>1 DEF SkillValue
  <2> QED BY <2>3, <2>5, <2>6
<1>2. Init => LabelInv BY DEF Init, LabelInv
<1> QED BY <1>1, <1>2, LabelInvStep, TypeCorrect, TurnInvHolds, VerdictInvInit, VerdictInvStep, PTL DEF Spec
=============================================================================
