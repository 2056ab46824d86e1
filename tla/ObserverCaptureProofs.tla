------------------------ MODULE ObserverCaptureProofs ------------------------
(***************************************************************************)
(* Proofs about RuntimeAssertions, for every set of observations and every *)
(* check, and about ObserverCapture, for every alphabet of tool lines and  *)
(* every bound.                                                            *)
(***************************************************************************)
EXTENDS ObserverCapture, EvidenceProofs, SequenceTheorems

(***************************************************************************)
(* RuntimeAssertions: what a check decides.                                *)
(***************************************************************************)

States == {"yes", "no", "unknown"}

LEMMA StatesAreThree ==
    ASSUME NEW observations, NEW o, NEW assertion
    PROVE  /\ ToolState(o, assertion.tool) \in States
           /\ CallState(o, assertion) \in States
           /\ ResultState(o, assertion) \in States
           /\ ResultMatch(observations, assertion) \in States
<1>1. ToolState(o, assertion.tool) \in States
    BY DEF ToolState, Known, States
<1>2. CallState(o, assertion) \in States
    BY <1>1 DEF CallState, Known, States
<1>3. ResultState(o, assertion) \in States
    BY DEF ResultState, Known, States
<1>4. ResultMatch(observations, assertion) \in States
    BY DEF ResultMatch, States
<1> QED
    BY <1>1, <1>2, <1>3, <1>4

(***************************************************************************)
(* Ready evidence decides.                                                 *)
(***************************************************************************)

LEMMA ReadyFields ==
    ASSUME NEW observations, NEW fields \in SUBSET ObservationFields,
           FieldsReadiness(observations, fields) = "ready",
           NEW o \in observations, NEW f \in fields
    PROVE  FieldReadiness(o)[f] = "ready"
<1> DEFINE statuses == {FieldReadiness(x)[g] : x \in observations, g \in fields}
<1>1. FieldReadiness(o)[f] \in statuses
    OBVIOUS
<1>2. FieldReadiness(o)[f] \in {"ready", "incomplete", "unsupported", "invalid"}
    BY DEF FieldReadiness, CheckFieldReadiness, ObservationFields
<1>3. Worst(statuses, "ready") = "ready"
    BY DEF FieldsReadiness
<1> QED
    BY <1>1, <1>2, <1>3 DEF Worst

(* The fields of the evidence requirement are the ones the checks read: on  *)
(* evidence that is ready for them, and whose inputs are objects, every     *)
(* authored check passes or fails (target_evidence_requirement against      *)
(* deterministic_checks).  So a case whose evidence was accepted is only    *)
(* left open by an input that is no object.                                 *)
THEOREM ReadyEvidenceDecides ==
    ASSUME NEW observations, NEW checks,
           \A check \in checks : check.family \in {"tools", "actions", "tool_results"},
           \A o \in observations : o.input # NoObject,
           FieldsReadiness(observations, TargetEvidenceRequirement(checks).fields) = "ready"
    PROVE  Outcomes(observations, checks) \subseteq {"pass", "fail"}
<1> DEFINE fields == TargetEvidenceRequirement(checks).fields
<1>1. fields \in SUBSET ObservationFields
    BY DEF TargetEvidenceRequirement, RequiredFields, ObservationFields
<1>2. {"tool", "input", "outcome"} \subseteq fields
    BY DEF TargetEvidenceRequirement, RequiredFields, ObservationFields
<1>3. ASSUME NEW o \in observations
      PROVE  o.tool # "hidden" /\ o.input \notin Unavailable /\ o.outcome # "missing"
    <2>1. /\ FieldReadiness(o)["tool"] = "ready"
          /\ FieldReadiness(o)["input"] = "ready"
          /\ FieldReadiness(o)["outcome"] = "ready"
        BY <1>1, <1>2, ReadyFields
    <2> QED
        BY <2>1 DEF FieldReadiness, CheckFieldReadiness
<1>4. ASSUME NEW o \in observations, NEW assertion
      PROVE  ToolState(o, assertion.tool) # "unknown" /\ CallState(o, assertion) # "unknown"
    BY <1>3 DEF ToolState, CallState, Known
<1>5. ASSUME NEW check \in checks, check.family = "tool_results", NEW assertion
      PROVE  ResultMatch(observations, assertion) # "unknown"
    <2>1. "result_or_error" \in fields
        BY <1>5 DEF TargetEvidenceRequirement, RequiredFields, ObservationFields
    <2>2. ASSUME NEW o \in observations
          PROVE  ResultState(o, assertion) # "unknown"
        <3>1. FieldReadiness(o)["result_or_error"] = "ready"
            BY <1>1, <2>1, ReadyFields
        <3>2. o.result \notin Unavailable
            BY <1>3, <3>1 DEF FieldReadiness, CheckFieldReadiness
        <3> QED
            BY <1>3, <3>2 DEF ResultState, Known
    <2>3. Calls(observations, assertion, "unknown") = {}
        BY <1>4 DEF Calls
    <2>4. PerhapsPlaced(observations, assertion) = {}
        BY <1>4 DEF PerhapsPlaced, Follows
    <2>5. Placed(observations, assertion) \subseteq observations
        BY DEF Placed, Occurrences, Calls
    <2> QED
        BY <2>2, <2>3, <2>4, <2>5 DEF ResultMatch
<1>6. ASSUME NEW check \in checks
      PROVE  "unknown" \notin CheckStates(observations, check)
    <2>1. CASE check.family = "tool_results"
        BY <2>1, <1>5 DEF CheckStates
    <2>2. CASE check.family # "tool_results"
        BY <2>2, <1>4 DEF CheckStates
    <2> QED
        BY <2>1, <2>2
<1> QED
    BY <1>6 DEF Outcomes, CheckStatus

(***************************************************************************)
(* Decisions are sound.  `full` gives each observation with nothing        *)
(* withheld: it has what the observation shows and anything else where a   *)
(* tool, an input, a result or the whole terminal is not available.        *)
(***************************************************************************)

Reveals(full, o) ==
    /\ full[o].start = o.start
    /\ o.tool # "hidden" => full[o].tool = o.tool
    /\ o.input \notin Unavailable \cup {NoObject} => full[o].input = o.input
    /\ o.outcome # "missing" => /\ full[o].outcome = o.outcome
                                /\ o.result \notin Unavailable => full[o].result = o.result

Revealed(full, observations) == {full[o] : o \in observations}

(* What the validator guarantees of observations: their start sequences are *)
(* distinct.                                                                *)
Ordered(observations) ==
    /\ IsFiniteSet(observations)
    /\ \A o \in observations : o.start \in Nat
    /\ \A o, p \in observations : o.start = p.start => o = p

LEMMA KnownStatesStay ==
    ASSUME NEW full, NEW o, Reveals(full, o), NEW assertion
    PROVE  /\ ToolState(o, assertion.tool) # "unknown" =>
                  ToolState(full[o], assertion.tool) = ToolState(o, assertion.tool)
           /\ CallState(o, assertion) # "unknown" => CallState(full[o], assertion) = CallState(o, assertion)
           /\ ResultState(o, assertion) # "unknown" =>
                  ResultState(full[o], assertion) = ResultState(o, assertion)
<1>1. ToolState(o, assertion.tool) # "unknown" =>
          ToolState(full[o], assertion.tool) = ToolState(o, assertion.tool)
    BY DEF ToolState, Known, Reveals
<1>2. CallState(o, assertion) # "unknown" => CallState(full[o], assertion) = CallState(o, assertion)
    BY <1>1 DEF CallState, ToolState, Known, Reveals
<1>3. ResultState(o, assertion) # "unknown" => ResultState(full[o], assertion) = ResultState(o, assertion)
    BY DEF ResultState, Known, Reveals
<1> QED
    BY <1>1, <1>2, <1>3

LEMMA RevealedCalls ==
    ASSUME NEW observations, NEW full, NEW assertion,
           \A o \in observations : Reveals(full, o)
    PROVE  /\ \A o \in Calls(observations, assertion, "yes") :
                  full[o] \in Calls(Revealed(full, observations), assertion, "yes")
           /\ Calls(observations, assertion, "unknown") = {} =>
                  /\ Calls(Revealed(full, observations), assertion, "unknown") = {}
                  /\ Calls(Revealed(full, observations), assertion, "yes")
                         = {full[o] : o \in Calls(observations, assertion, "yes")}
<1>1. ASSUME NEW o \in observations, CallState(o, assertion) # "unknown"
      PROVE  CallState(full[o], assertion) = CallState(o, assertion)
    BY <1>1, KnownStatesStay
<1>2. ASSUME NEW o \in Calls(observations, assertion, "yes")
      PROVE  full[o] \in Calls(Revealed(full, observations), assertion, "yes")
    BY <1>1, <1>2 DEF Calls, Revealed
<1>3. ASSUME Calls(observations, assertion, "unknown") = {}
      PROVE  \A o \in observations : CallState(full[o], assertion) = CallState(o, assertion)
    BY <1>1, <1>3 DEF Calls
<1>4. ASSUME Calls(observations, assertion, "unknown") = {}
      PROVE  /\ Calls(Revealed(full, observations), assertion, "unknown") = {}
             /\ Calls(Revealed(full, observations), assertion, "yes")
                    = {full[o] : o \in Calls(observations, assertion, "yes")}
    BY <1>3, <1>4 DEF Calls, Revealed
<1> QED
    BY <1>2, <1>4

(* Revealing keeps the start sequences, so it is one-to-one and keeps the   *)
(* number of calls up to some point.                                        *)
LEMMA RevealedCount ==
    ASSUME NEW observations, NEW full, Ordered(observations),
           \A o \in observations : Reveals(full, o),
           NEW calls \in SUBSET observations, NEW n \in Nat
    PROVE  Cardinality({p \in {full[o] : o \in calls} : p.start <= n})
               = Cardinality({p \in calls : p.start <= n})
<1> DEFINE before == {p \in calls : p.start <= n}
           after  == {p \in {full[o] : o \in calls} : p.start <= n}
           f      == [p \in before |-> full[p]]
<1>1. \A p \in before : p \in observations /\ full[p].start = p.start
    BY DEF Reveals
<1>2. IsFiniteSet(before)
    BY FS_Subset DEF Ordered
<1>3. after = {full[p] : p \in before}
    BY DEF Reveals
<1>4. f \in [before -> after]
    BY <1>3
<1>5. \A p, q \in before : f[p] = f[q] => p = q
    BY <1>1 DEF Ordered
<1>6. \A t \in after : \E p \in before : f[p] = t
    BY <1>3
<1>7. f \in Bijection(before, after)
    BY <1>4, <1>5, <1>6 DEF Bijection, Injection, Surjection, IsInjective
<1>8. ExistsBijection(before, after)
    BY <1>7 DEF ExistsBijection
<1> HIDE DEF before, after
<1>9. Cardinality(after) = Cardinality(before)
    BY <1>2, <1>8, FS_Bijection
<1> QED
    BY <1>9 DEF before, after

LEMMA RevealedOccurrences ==
    ASSUME NEW observations, NEW full, NEW assertion, Ordered(observations),
           \A o \in observations : Reveals(full, o)
    PROVE  LET image == Revealed(full, observations) IN
           /\ assertion.occurrence = 0 \/ Calls(observations, assertion, "unknown") = {} =>
                  \A o \in Occurrences(observations, assertion) : full[o] \in Occurrences(image, assertion)
           /\ Calls(observations, assertion, "unknown") = {} =>
                  \A x \in Occurrences(image, assertion) :
                      \E o \in Occurrences(observations, assertion) : x = full[o]
<1> DEFINE image == Revealed(full, observations)
           calls == Calls(observations, assertion, "yes")
<1>1. CASE assertion.occurrence = 0
    BY <1>1, RevealedCalls DEF Occurrences
<1>2. ASSUME assertion.occurrence # 0, Calls(observations, assertion, "unknown") = {}
      PROVE  \A o \in calls :
                 full[o] \in Occurrences(image, assertion) <=> o \in Occurrences(observations, assertion)
    <2>1. Calls(image, assertion, "yes") = {full[o] : o \in calls}
        BY <1>2, RevealedCalls
    <2>2. SUFFICES ASSUME NEW o \in calls
                   PROVE  full[o] \in Occurrences(image, assertion)
                              <=> o \in Occurrences(observations, assertion)
        OBVIOUS
    <2>3. o \in observations /\ calls \subseteq observations
        BY DEF Calls
    <2>4. full[o].start = o.start /\ o.start \in Nat
        BY <2>3 DEF Reveals, Ordered
    <2>5. Cardinality({p \in {full[q] : q \in calls} : p.start <= o.start})
              = Cardinality({p \in calls : p.start <= o.start})
        BY <2>3, <2>4, RevealedCount, SMTT(30)
    <2>6. full[o] \in Occurrences(image, assertion)
              <=> Cardinality({p \in {full[q] : q \in calls} : p.start <= o.start}) = assertion.occurrence
        BY <1>2, <2>1, <2>4 DEF Occurrences
    <2>7. o \in Occurrences(observations, assertion)
              <=> Cardinality({p \in calls : p.start <= o.start}) = assertion.occurrence
        BY <1>2 DEF Occurrences
    <2> QED
        BY <2>5, <2>6, <2>7
<1>3. ASSUME assertion.occurrence # 0, Calls(observations, assertion, "unknown") = {}
      PROVE  /\ \A o \in Occurrences(observations, assertion) : full[o] \in Occurrences(image, assertion)
             /\ \A x \in Occurrences(image, assertion) :
                    \E o \in Occurrences(observations, assertion) : x = full[o]
    <2>1. Occurrences(observations, assertion) \subseteq calls
        BY <1>3 DEF Occurrences
    <2>2. Occurrences(image, assertion) \subseteq {full[o] : o \in calls}
        BY <1>3, RevealedCalls DEF Occurrences
    <2> QED
        BY <1>2, <1>3, <2>1, <2>2
<1> QED
    BY <1>1, <1>3

LEMMA RevealedOrder ==
    ASSUME NEW observations, NEW full, NEW assertion, NEW o \in observations,
           \A x \in observations : Reveals(full, x)
    PROVE  LET image == Revealed(full, observations) IN
           /\ Follows(observations, o, assertion, "yes") => Follows(image, full[o], assertion, "yes")
           /\ Follows(image, full[o], assertion, "yes") =>
                  \/ Follows(observations, o, assertion, "yes")
                  \/ Follows(observations, o, assertion, "unknown")
           /\ Follows(image, full[o], assertion, "unknown") =>
                  Follows(observations, o, assertion, "unknown")
<1> DEFINE image == Revealed(full, observations)
<1>1. \A x \in observations : full[x].start = x.start
    BY DEF Reveals
<1>2. ASSUME NEW x \in observations, NEW earlier
      PROVE  /\ CallState(x, earlier) \in States
             /\ CallState(x, earlier) # "unknown" => CallState(full[x], earlier) = CallState(x, earlier)
    BY StatesAreThree, KnownStatesStay
<1>3. Follows(observations, o, assertion, "yes") => Follows(image, full[o], assertion, "yes")
    BY <1>1, <1>2 DEF Follows, Revealed
<1>4. ASSUME NEW state \in {"yes", "unknown"}, Follows(image, full[o], assertion, state)
      PROVE  Follows(observations, o, assertion, state) \/ Follows(observations, o, assertion, "unknown")
    <2>1. PICK earlier \in assertion.after, x \in observations :
              full[x].start < full[o].start /\ CallState(full[x], earlier) = state
        BY <1>4 DEF Follows, Revealed
    <2>2. x.start < o.start
        BY <1>1, <2>1
    <2>3. CallState(x, earlier) \in {state, "unknown"}
        BY <1>2, <2>1
    <2> QED
        BY <2>2, <2>3 DEF Follows
<1> QED
    BY <1>3, <1>4

LEMMA RevealedMatch ==
    ASSUME NEW observations, NEW full, NEW assertion, Ordered(observations),
           \A o \in observations : Reveals(full, o),
           ResultMatch(observations, assertion) # "unknown"
    PROVE  ResultMatch(Revealed(full, observations), assertion) = ResultMatch(observations, assertion)
<1> DEFINE image == Revealed(full, observations)
<1>1. /\ Placed(observations, assertion) \subseteq Occurrences(observations, assertion)
      /\ Occurrences(observations, assertion) \subseteq observations
    BY DEF Placed, Occurrences, Calls
<1>2. assertion.occurrence = 0 \/ Calls(observations, assertion, "unknown") = {}
    BY DEF ResultMatch
<1>3. ~(Calls(image, assertion, "unknown") # {} /\ assertion.occurrence # 0)
    BY <1>2, RevealedCalls
<1>4. ASSUME NEW o \in Placed(observations, assertion)
      PROVE  full[o] \in Placed(image, assertion)
    <2>1. full[o] \in Occurrences(image, assertion)
        BY <1>1, <1>2, RevealedOccurrences
    <2> QED
        BY <1>1, <2>1, RevealedOrder DEF Placed
<1>5. CASE ResultMatch(observations, assertion) = "yes"
    <2>1. PICK o \in Placed(observations, assertion) : ResultState(o, assertion) = "yes"
        BY <1>5 DEF ResultMatch
    <2>2. ResultState(full[o], assertion) = "yes"
        BY <1>1, <2>1, KnownStatesStay
    <2>3. "yes" \in {ResultState(x, assertion) : x \in Placed(image, assertion)}
        BY <1>4, <2>2
    <2> QED
        BY <1>3, <1>5, <2>3 DEF ResultMatch
<1>6. CASE ResultMatch(observations, assertion) = "no"
    <2>1. /\ Calls(observations, assertion, "unknown") = {}
          /\ PerhapsPlaced(observations, assertion) = {}
          /\ \A o \in Placed(observations, assertion) : ResultState(o, assertion) \notin {"yes", "unknown"}
        BY <1>6 DEF ResultMatch
    <2>2. \A o \in Placed(observations, assertion) : ResultState(o, assertion) = "no"
        BY <2>1, StatesAreThree DEF States
    <2>3. ASSUME NEW x \in Occurrences(image, assertion)
          PROVE  \E o \in Occurrences(observations, assertion) : x = full[o]
        BY <2>1, RevealedOccurrences
    <2>4. ASSUME NEW x \in Placed(image, assertion)
          PROVE  ResultState(x, assertion) = "no"
        <3>1. PICK o \in Occurrences(observations, assertion) : x = full[o]
            BY <2>3 DEF Placed
        <3>2. assertion.after = {} \/ Follows(image, full[o], assertion, "yes")
            BY <3>1 DEF Placed
        <3>3. o \in Placed(observations, assertion)
            <4>1. CASE assertion.after = {}
                BY <4>1 DEF Placed
            <4>2. CASE assertion.after # {}
                <5>1. \/ Follows(observations, o, assertion, "yes")
                      \/ Follows(observations, o, assertion, "unknown")
                    BY <1>1, <3>2, <4>2, RevealedOrder
                <5> QED
                    BY <2>1, <5>1 DEF Placed, PerhapsPlaced
            <4> QED
                BY <4>1, <4>2
        <3> QED
            BY <1>1, <2>2, <3>1, <3>3, KnownStatesStay
    <2>5. ASSUME NEW x \in PerhapsPlaced(image, assertion)
          PROVE  FALSE
        <3>1. PICK o \in Occurrences(observations, assertion) : x = full[o]
            BY <2>3 DEF PerhapsPlaced
        <3>2. Follows(image, full[o], assertion, "unknown") /\ full[o] \notin Placed(image, assertion)
            BY <3>1 DEF PerhapsPlaced
        <3>3. o \notin Placed(observations, assertion)
            BY <1>4, <3>2
        <3>4. Follows(observations, o, assertion, "unknown")
            BY <1>1, <3>2, RevealedOrder
        <3> QED
            BY <2>1, <3>3, <3>4 DEF PerhapsPlaced
    <2>6. Calls(image, assertion, "unknown") = {}
        BY <2>1, RevealedCalls
    <2> QED
        BY <1>6, <2>4, <2>5, <2>6 DEF ResultMatch
<1> QED
    BY <1>5, <1>6, StatesAreThree DEF States

(* What a check decided stays so whatever the fields hold that were         *)
(* withheld: a redacted or missing value never counts as a match or as a    *)
(* mismatch, in a call, in the calls before it or in the choice of an       *)
(* occurrence (_existence, _any_of, _result_match).                         *)
THEOREM DecisionsAreSound ==
    ASSUME NEW observations, NEW full, NEW check, Ordered(observations),
           \A o \in observations : Reveals(full, o),
           CheckStatus(observations, check) # "non-evidence"
    PROVE  CheckStatus(Revealed(full, observations), check) = CheckStatus(observations, check)
<1> DEFINE image  == Revealed(full, observations)
           states == CheckStates(observations, check)
           truth  == CheckStates(image, check)
<1>1. ("yes" \in states => "yes" \in truth)
      /\ (states \subseteq {"no"} => truth \subseteq {"no"})
    <2>1. CASE check.family = "tool_results"
        <3>1. ASSUME NEW assertion \in check.alternatives, ResultMatch(observations, assertion) # "unknown"
              PROVE  ResultMatch(image, assertion) = ResultMatch(observations, assertion)
            BY <3>1, RevealedMatch
        <3>2. /\ states = {ResultMatch(observations, assertion) : assertion \in check.alternatives}
              /\ truth = {ResultMatch(image, assertion) : assertion \in check.alternatives}
            BY <2>1 DEF CheckStates
        <3> QED
            BY <3>1, <3>2
    <2>2. CASE check.family = "tools"
        <3>1. ASSUME NEW o \in observations, NEW assertion, ToolState(o, assertion.tool) # "unknown"
              PROVE  ToolState(full[o], assertion.tool) = ToolState(o, assertion.tool)
            BY <3>1, KnownStatesStay
        <3>2. /\ states = {ToolState(o, assertion.tool) : o \in observations, assertion \in check.alternatives}
              /\ truth = {ToolState(o, assertion.tool) : o \in image, assertion \in check.alternatives}
            BY <2>2 DEF CheckStates
        <3>3. ASSUME "yes" \in states
              PROVE  "yes" \in truth
            <4>1. PICK o \in observations, assertion \in check.alternatives :
                      ToolState(o, assertion.tool) = "yes"
                BY <3>2, <3>3
            <4>2. full[o] \in image /\ ToolState(full[o], assertion.tool) = "yes"
                BY <3>1, <4>1 DEF Revealed
            <4> QED
                BY <3>2, <4>2
        <3>4. ASSUME states \subseteq {"no"}, NEW truly \in truth
              PROVE  truly = "no"
            <4>1. PICK o \in observations, assertion \in check.alternatives :
                      truly = ToolState(full[o], assertion.tool)
                BY <3>2 DEF Revealed
            <4>2. ToolState(o, assertion.tool) \in states
                BY <3>2
            <4>3. ToolState(o, assertion.tool) = "no"
                BY <3>4, <4>2
            <4>4. ToolState(full[o], assertion.tool) = "no"
                BY <3>1, <4>3
            <4> QED
                BY <4>1, <4>4
        <3> QED
            BY <3>3, <3>4
    <2>3. CASE check.family \notin {"tool_results", "tools"}
        <3>1. ASSUME NEW o \in observations, NEW assertion, CallState(o, assertion) # "unknown"
              PROVE  CallState(full[o], assertion) = CallState(o, assertion)
            BY <3>1, KnownStatesStay
        <3>2. /\ states = {CallState(o, assertion) : o \in observations, assertion \in check.alternatives}
              /\ truth = {CallState(o, assertion) : o \in image, assertion \in check.alternatives}
            BY <2>3 DEF CheckStates
        <3> QED
            BY <3>1, <3>2 DEF Revealed
    <2> QED
        BY <2>1, <2>2, <2>3
<1>2. states \subseteq States /\ truth \subseteq States
    BY StatesAreThree DEF CheckStates
<1>3. "yes" \in states \/ states \subseteq {"no"}
    BY <1>2 DEF CheckStatus, States
<1> HIDE DEF states, truth
<1>4. CheckStatus(observations, check) =
          IF "yes" \in states THEN (IF check.forbids THEN "fail" ELSE "pass")
          ELSE IF "unknown" \in states THEN "non-evidence"
          ELSE (IF check.forbids THEN "pass" ELSE "fail")
    BY DEF CheckStatus, states
<1>5. CheckStatus(image, check) =
          IF "yes" \in truth THEN (IF check.forbids THEN "fail" ELSE "pass")
          ELSE IF "unknown" \in truth THEN "non-evidence"
          ELSE (IF check.forbids THEN "pass" ELSE "fail")
    BY DEF CheckStatus, truth
<1> QED
    BY <1>1, <1>3, <1>4, <1>5

(***************************************************************************)
(* ObserverCapture: what the loader makes of the lines.                    *)
(***************************************************************************)

(***************************************************************************)
(* The lines.                                                              *)
(***************************************************************************)

Contents == UNION Alphabets

(* What may arrive: a tool line, the start or the end of a capture, or a    *)
(* fault.                                                                  *)
ToolLines == {Sequenced(content, n) : content \in Contents, n \in Nat}
CaptureStarts == [form: {"ok"}, seq: Nat, counted: {TRUE}, kind: {"capture_start"}]
CaptureEnds ==
    [form: {"ok"}, seq: Nat, counted: {TRUE}, kind: {"capture_end"}, failures: BOOLEAN,
     totals: [ToolKinds -> Nat]]
FaultyLines ==
    [form: {"ok", "malformed", "wrong_schema"}, seq: Nat, counted: BOOLEAN, kind: {"other"}]

Lines == ToolLines \cup CaptureStarts \cup CaptureEnds \cup FaultyLines

LinesInv == lines \in Seq(Lines)

LEMMA LinesAreLines ==
    ASSUME NEW line \in Lines
    PROVE  /\ IsLine(line)
           /\ line.form \in {"ok", "malformed", "wrong_schema"}
           /\ line.counted \in BOOLEAN
<1>1. \A k \in ToolKinds : k # "capture_end"
    BY DEF ToolKinds, StartKinds, TerminalKinds
<1>2. CASE line \in ToolLines
    <2>1. PICK content \in Contents, n \in Nat : line = Sequenced(content, n)
        BY <1>2 DEF ToolLines
    <2>2. /\ {"form", "seq", "counted", "kind"} \subseteq DOMAIN content
          /\ content.form = "ok" /\ content.counted = TRUE /\ content.kind \in ToolKinds
        BY AlphabetsAssumption DEF Contents
    <2>3. line.seq = n /\ line.form = "ok" /\ line.counted = TRUE /\ line.kind \in ToolKinds
        BY <2>1, <2>2 DEF Sequenced
    <2> QED
        BY <1>1, <2>3 DEF IsLine
<1>3. CASE line \in CaptureStarts
    BY <1>3 DEF CaptureStarts, IsLine
<1>4. CASE line \in CaptureEnds
    BY <1>4 DEF CaptureEnds, IsLine
<1>5. CASE line \in FaultyLines
    BY <1>5 DEF FaultyLines, IsLine
<1> QED
    BY <1>2, <1>3, <1>4, <1>5 DEF Lines

LEMMA LinesAreAStream ==
    ASSUME NEW S, NEW stream \in Seq(S), S \subseteq Lines
    PROVE  IsStream(stream)
<1>1. \A i \in DOMAIN stream : stream[i] \in Lines
    BY ElementOfSeq, LenProperties
<1>2. Len(stream) \in Nat /\ DOMAIN stream = 1..Len(stream)
    BY LenProperties
<1> QED
    BY <1>1, <1>2, LinesAreLines DEF IsStream

LEMMA CountsAreNumbers ==
    ASSUME NEW stream, IsStream(stream)
    PROVE  /\ IsFiniteSet(Records(stream))
           /\ CountsOf(Records(stream)) \in [ToolKinds -> Nat]
           /\ \A k \in ToolKinds : CountsOf(Records(stream))[k] =
                  Cardinality({i \in Body(stream) : stream[i].kind = k})
<1> DEFINE records == Records(stream)
           body == Body(stream)
<1>1. IsFiniteSet(body)
    <2>1. body \subseteq 2..Len(stream) /\ Len(stream) \in Nat
        BY EndAtFacts DEF IsStream
    <2>2. IsFiniteSet(2..Len(stream))
        BY <2>1, FS_Interval
    <2> HIDE DEF body
    <2> QED
        BY <2>1, <2>2, FS_Subset
<1>2. /\ \A i \in body : i \in Nat /\ stream[i].seq = i - 1
      /\ records = {stream[i] : i \in {j \in body : stream[j].kind \in ToolKinds}}
    BY EndAtFacts DEF Records, IsStream
<1> HIDE DEF records, body
<1>3. ASSUME NEW k \in ToolKinds
      PROVE  /\ Cardinality({r \in records : r.kind = k}) = Cardinality({i \in body : stream[i].kind = k})
             /\ Cardinality({r \in records : r.kind = k}) \in Nat
    <2> DEFINE at == {i \in body : stream[i].kind = k}
               those == {r \in records : r.kind = k}
               f == [i \in at |-> stream[i]]
    <2>1. f \in [at -> those]
        BY <1>2
    <2>2. \A i, j \in at : f[i] = f[j] => i = j
        BY <1>2
    <2>3. \A r \in those : \E i \in at : f[i] = r
        BY <1>2
    <2>4. ExistsBijection(at, those)
        BY <2>1, <2>2, <2>3 DEF ExistsBijection, Bijection, Injection, Surjection, IsInjective
    <2>5. IsFiniteSet(at)
        BY <1>1, FS_Subset
    <2> HIDE DEF at, those
    <2>6. Cardinality(those) = Cardinality(at) /\ Cardinality(at) \in Nat
        BY <2>4, <2>5, FS_Bijection, FS_CardinalityType
    <2> QED
        BY <2>6 DEF at, those
<1>4. IsFiniteSet(records)
    <2> DEFINE at == {j \in body : stream[j].kind \in ToolKinds}
               f == [i \in at |-> stream[i]]
    <2>1. f \in Surjection(at, records)
        BY <1>2 DEF Surjection
    <2>2. IsFiniteSet(at)
        BY <1>1, FS_Subset
    <2> HIDE DEF at, f
    <2> QED
        BY <2>1, <2>2, FS_Surjection
<1>5. CountsOf(records) = [k \in ToolKinds |-> Cardinality({r \in records : r.kind = k})]
    BY DEF CountsOf
<1>6. CountsOf(records) \in [ToolKinds -> Nat]
    BY <1>3, <1>5
<1>7. \A k \in ToolKinds : CountsOf(records)[k] = Cardinality({i \in body : stream[i].kind = k})
    BY <1>3, <1>5
<1> QED
    BY <1>4, <1>6, <1>7 DEF records, body

LEMMA LinesStep == LinesInv /\ [Next]_lines => LinesInv'
<1> SUFFICES ASSUME LinesInv, [Next]_lines
             PROVE  LinesInv'
    OBVIOUS
<1>1. ASSUME NEW line \in Lines, Arrive(line)
      PROVE  LinesInv'
    BY <1>1, AppendProperties DEF Arrive, LinesInv
<1>2. Len(lines) \in Nat
    BY LenProperties DEF LinesInv
<1>3. CASE StartLine
    <2> DEFINE line == [form |-> "ok", seq |-> Len(lines), counted |-> TRUE, kind |-> "capture_start"]
    <2>1. line \in CaptureStarts
        BY <1>2 DEF CaptureStarts
    <2>2. line \in Lines
        BY <2>1 DEF Lines
    <2>3. Arrive(line)
        BY <1>3 DEF StartLine
    <2> QED
        BY <1>1, <2>2, <2>3
<1>4. CASE ToolLine
    <2>1. PICK content \in Contents : Arrive(Sequenced(content, Len(lines)))
        BY <1>4 DEF ToolLine, Contents
    <2>2. Sequenced(content, Len(lines)) \in Lines
        BY <1>2, <2>1 DEF Lines, ToolLines
    <2> QED
        BY <1>1, <2>1, <2>2
<1>5. CASE EndLine
    <2> DEFINE counted == CountsOf(Records(lines))
    <2>1. counted \in [ToolKinds -> Nat]
        BY CountsAreNumbers, LinesAreAStream DEF LinesInv
    <2>2. PICK failures \in BOOLEAN, missed \in {0, 1} :
              Arrive([form |-> "ok", seq |-> Len(lines), counted |-> TRUE, kind |-> "capture_end",
                      failures |-> failures, totals |-> [counted EXCEPT !["native_start"] = @ + missed]])
        BY <1>5 DEF EndLine
    <2> HIDE DEF counted
    <2> DEFINE totals == [counted EXCEPT !["native_start"] = @ + missed]
               line == [form |-> "ok", seq |-> Len(lines), counted |-> TRUE, kind |-> "capture_end",
                        failures |-> failures, totals |-> totals]
    <2>3. totals \in [ToolKinds -> Nat]
        BY <2>1, <2>2 DEF ToolKinds, StartKinds
    <2>4. Arrive(line)
        BY <2>2
    <2> HIDE DEF totals
    <2>5. line \in CaptureEnds
        BY <1>2, <2>3 DEF CaptureEnds
    <2>6. line \in Lines
        BY <2>5 DEF Lines
    <2> QED
        BY <1>1, <2>4, <2>6
<1>6. CASE FaultyLine
    <2> DEFINE n == Len(lines)
               torn == [form |-> "malformed", seq |-> 0, counted |-> FALSE, kind |-> "other"]
               alien == [form |-> "wrong_schema", seq |-> 0, counted |-> FALSE, kind |-> "other"]
               uncounted == [form |-> "ok", seq |-> n, counted |-> FALSE, kind |-> "other"]
               late == [form |-> "ok", seq |-> n + 1, counted |-> TRUE, kind |-> "capture_start"]
               unknown == [form |-> "ok", seq |-> n, counted |-> TRUE, kind |-> "other"]
    <2>1. {torn, alien, uncounted, unknown} \subseteq FaultyLines
        BY <1>2 DEF FaultyLines
    <2>2. late \in CaptureStarts
        BY <1>2 DEF CaptureStarts
    <2>3. \E line \in {torn, alien, uncounted, late, unknown} : Arrive(line)
        BY <1>6 DEF FaultyLine
    <2> HIDE DEF torn, alien, uncounted, late, unknown
    <2> QED
        BY <1>1, <2>1, <2>2, <2>3 DEF Lines
<1>7. CASE UNCHANGED lines
    BY <1>7 DEF LinesInv
<1> QED
    BY <1>3, <1>4, <1>5, <1>6, <1>7 DEF Next

(* What arrives are lines, on which the loader's lemmas rest.               *)
THEOREM LinesAreTyped == Spec => []LinesInv
<1>1. Init => LinesInv
    BY EmptySeq DEF Init, LinesInv
<1> QED
    BY <1>1, LinesStep, PTL DEF Spec

(* Whatever arrives, in any order and cut anywhere, the evidence built from *)
(* it passes the builder's own validation and has a shape the host knows    *)
(* (load_runtime_observations, build_runtime_evidence and                   *)
(* validate_runtime_evidence).                                              *)
THEOREM EveryCaptureIsAccepted == Spec => []BuiltEvidenceIsAccepted
<1>1. LinesInv => BuiltEvidenceIsAccepted
    <2> SUFFICES ASSUME LinesInv, NEW terminated \in BOOLEAN, NEW process \in ProcessStates
                 PROVE  /\ Validates(BuildRuntimeEvidence(Load(lines, terminated), process))
                        /\ ShapeOf(BuildRuntimeEvidence(Load(lines, terminated), process)) \in Evidence
        BY DEF BuiltEvidenceIsAccepted
    <2>1. IsCapture(Load(lines, terminated))
        BY LinesAreAStream, LoadedIsACapture DEF LinesInv
    <2> QED
        BY <2>1, BuiltEvidenceValidates, BuiltEvidenceHasAShape
<1> QED
    BY <1>1, LinesAreTyped, PTL

(***************************************************************************)
(* Complete evidence and faultless captures.                               *)
(***************************************************************************)

LEMMA LineFacts ==
    ASSUME LinesInv
    PROVE  /\ Len(lines) \in Nat /\ DOMAIN lines = 1..Len(lines)
           /\ IsStream(lines)
           /\ \A i \in DOMAIN lines :
                  /\ IsLine(lines[i])
                  /\ lines[i].form \in {"ok", "malformed", "wrong_schema"}
                  /\ lines[i].counted \in BOOLEAN
<1>1. Len(lines) \in Nat /\ DOMAIN lines = 1..Len(lines)
    BY LenProperties DEF LinesInv
<1>2. \A i \in DOMAIN lines : lines[i] \in Lines
    BY <1>1, ElementOfSeq DEF LinesInv
<1> QED
    BY <1>1, <1>2, LinesAreLines, LinesAreAStream DEF LinesInv

(* The parts of Faultless that make the loader raise no issue.              *)
Undisturbed ==
    /\ Len(lines) \in 2..MaxRecords
    /\ \A i \in DOMAIN lines : Usable(lines, i)
    /\ lines[1].kind = "capture_start"
    /\ lines[Len(lines)].kind = "capture_end"
    /\ \A i \in Inner : lines[i].kind \in ToolKinds
    /\ \A k \in ToolKinds :
           lines[Len(lines)].totals[k] = Cardinality({i \in Inner : lines[i].kind = k})

LEMMA UndisturbedBody ==
    ASSUME LinesInv, Len(lines) >= 2, \A i \in DOMAIN lines : Usable(lines, i),
           EndAt(lines) = Len(lines)
    PROVE  Body(lines) = Inner /\ EndLines(lines) # {}
BY LineFacts, EndAtFacts DEF Body, Inner

LEMMA LoadedWhole ==
    ASSUME LinesInv, lines # <<>>, ~(Len(lines) > MaxRecords), NEW terminated \in BOOLEAN
    PROVE  LET c == Load(lines, terminated) IN
           /\ c.started = Started(lines) /\ c.ended = (EndLines(lines) # {})
           /\ c.records = Records(lines)
           /\ c.failures = (EndLines(lines) # {} /\ lines[EndAt(lines)].failures)
           /\ c.issues = LoadIssues(lines, terminated)
BY DEF Load

LEMMA NoIssueWhenUndisturbed ==
    ASSUME LinesInv, lines # <<>>, ~(Len(lines) > MaxRecords), NEW terminated \in BOOLEAN
    PROVE  LoadIssues(lines, terminated) = {} <=> terminated /\ Undisturbed
<1> DEFINE issues == LoadIssues(lines, terminated)
<1>1. MaxRecords \in Nat /\ Len(lines) \in Nat \ {0} /\ DOMAIN lines = 1..Len(lines)
    BY LineFacts, EmptySeq, MaxRecordsAssumption DEF LinesInv
<1>2. ASSUME issues = {}
      PROVE  terminated /\ Undisturbed
    <2>1. /\ terminated /\ Started(lines) /\ EndLines(lines) # {} /\ ~CountsDiffer(lines)
          /\ \A i \in DOMAIN lines : /\ lines[i].form # "malformed" /\ lines[i].form # "wrong_schema"
                                     /\ lines[i].form = "ok" => lines[i].seq = i - 1
                                     /\ lines[i].form = "ok" /\ lines[i].seq = i - 1 => lines[i].counted
          /\ \A i \in DOMAIN lines : ~(i > EndAt(lines) /\ Usable(lines, i))
          /\ \A i \in Body(lines) : lines[i].kind \in ToolKinds
        <3> HIDE DEF issues
        <3>1. LoadIssues(lines, terminated) = {}
            BY <1>2 DEF issues
        <3> QED
            BY <3>1, LoadIssuesFacts
    <2>2. \A i \in DOMAIN lines : Usable(lines, i)
        BY <2>1, LineFacts DEF Usable
    <2>3. /\ EndAt(lines) \in 2..Len(lines) /\ lines[EndAt(lines)].kind = "capture_end"
          /\ EndAt(lines) = Len(lines)
        <3>1. EndAt(lines) \in 2..Len(lines) /\ lines[EndAt(lines)].kind = "capture_end"
            BY <2>1, LineFacts, EndAtFacts
        <3>2. Len(lines) \in DOMAIN lines
            BY <1>1
        <3>3. ~(Len(lines) > EndAt(lines))
            BY <2>1, <2>2, <3>2
        <3> QED
            BY <1>1, <3>1, <3>3
    <2>4. Len(lines) >= 2 /\ Len(lines) \in 2..MaxRecords
        BY <1>1, <2>3
    <2>5. Body(lines) = Inner
        BY <2>2, <2>3, <2>4, UndisturbedBody
    <2>6. lines[Len(lines)].totals = CountsOf(Records(lines))
        BY <2>1, <2>3 DEF CountsDiffer
    <2>7. \A k \in ToolKinds :
              lines[Len(lines)].totals[k] = Cardinality({i \in Inner : lines[i].kind = k})
        BY <2>5, <2>6, LineFacts, CountsAreNumbers
    <2>8. lines[1].kind = "capture_start"
        BY <2>1 DEF Started
    <2> QED
        BY <2>1, <2>2, <2>3, <2>4, <2>5, <2>7, <2>8 DEF Undisturbed
<1>3. ASSUME terminated, Undisturbed
      PROVE  issues = {}
    <2>1. /\ Len(lines) \in 2..MaxRecords
          /\ \A i \in DOMAIN lines : Usable(lines, i)
          /\ lines[1].kind = "capture_start"
          /\ lines[Len(lines)].kind = "capture_end"
          /\ \A i \in Inner : lines[i].kind \in ToolKinds
          /\ \A k \in ToolKinds :
                 lines[Len(lines)].totals[k] = Cardinality({i \in Inner : lines[i].kind = k})
        BY <1>3 DEF Undisturbed
    <2>2. EndLines(lines) = {Len(lines)}
        <3>1. Len(lines) \in EndLines(lines)
            BY <1>1, <2>1 DEF EndLines
        <3>2. ASSUME NEW i \in EndLines(lines)
              PROVE  i = Len(lines)
            <4>1. i \in 2..Len(lines) /\ lines[i].kind = "capture_end"
                BY DEF EndLines
            <4>2. i \notin 2..(Len(lines) - 1)
                BY <2>1, <4>1 DEF ToolKinds, StartKinds, TerminalKinds, Inner
            <4>3. i \in 2..Len(lines) /\ Len(lines) \in Int
                BY <1>1, <4>1
            <4> QED
                BY <4>2, <4>3
        <3> QED
            BY <3>1, <3>2
    <2>3. EndAt(lines) = Len(lines)
        BY <2>2, LineFacts, EndAtFacts
    <2>4. Body(lines) = Inner
        BY <1>1, <2>1, <2>3, UndisturbedBody
    <2>5. ~CountsDiffer(lines)
        <3>1. CountsOf(Records(lines)) \in [ToolKinds -> Nat]
              /\ \A k \in ToolKinds : CountsOf(Records(lines))[k] =
                     Cardinality({i \in Inner : lines[i].kind = k})
            BY <2>4, LineFacts, CountsAreNumbers
        <3>2. lines[Len(lines)].totals \in [ToolKinds -> Nat]
            BY <1>1, <2>1, LineFacts DEF IsLine
        <3>3. \A k \in ToolKinds : lines[Len(lines)].totals[k] = CountsOf(Records(lines))[k]
            BY <2>1, <3>1
        <3> DEFINE totals == lines[Len(lines)].totals
                   counted == CountsOf(Records(lines))
        <3>4. totals = counted
            <4>1. /\ totals \in [ToolKinds -> Nat] /\ counted \in [ToolKinds -> Nat]
                  /\ \A k \in ToolKinds : totals[k] = counted[k]
                BY <3>1, <3>2, <3>3
            <4> HIDE DEF totals, counted
            <4> QED
                BY <4>1
        <3> QED
            BY <2>3, <3>4 DEF CountsDiffer
    <2>6. Started(lines)
        BY <1>1, <2>1 DEF Started
    <2>7. \A i \in DOMAIN lines : lines[i].form = "ok" /\ lines[i].seq = i - 1 /\ lines[i].counted
        BY <2>1 DEF Usable
    <2>8. \A i \in DOMAIN lines : ~(i > EndAt(lines))
        BY <1>1, <2>3
    <2> HIDE DEF issues
    <2>9. /\ "unterminated_capture" \notin issues /\ "malformed_capture" \notin issues
          /\ "wrong_schema" \notin issues /\ "ambiguous_order" \notin issues
          /\ "invalid_capture_start" \notin issues /\ "records_after_capture_end" \notin issues
          /\ "invalid_record" \notin issues /\ "missing_capture_end" \notin issues
          /\ "count_mismatch" \notin issues
        BY <1>3, <2>1, <2>2, <2>4, <2>5, <2>6, <2>7, <2>8, LoadIssuesFacts DEF issues
    <2>10. issues \subseteq LoadIssueCodes
        BY LoadIssuesFacts DEF issues
    <2> QED
        BY <2>9, <2>10 DEF LoadIssueCodes
<1> QED
    BY <1>2, <1>3

LEMMA UndisturbedRecords ==
    ASSUME LinesInv, Undisturbed
    PROVE  /\ Records(lines) = {lines[i] : i \in Inner}
           /\ \A i \in Inner : /\ i \in Nat /\ lines[i].seq = i - 1
                               /\ lines[i].kind \in StartKinds \cup TerminalKinds
           /\ EndAt(lines) = Len(lines) /\ EndLines(lines) # {}
<1>1. MaxRecords \in Nat /\ Len(lines) \in Nat /\ Len(lines) >= 2 /\ DOMAIN lines = 1..Len(lines)
    BY LineFacts, MaxRecordsAssumption DEF Undisturbed
<1>2. lines # <<>> /\ ~(Len(lines) > MaxRecords)
    BY <1>1, EmptySeq DEF Undisturbed
<1>3. LoadIssues(lines, TRUE) = {}
    BY <1>2, NoIssueWhenUndisturbed
<1>4. EndLines(lines) # {} /\ \A i \in DOMAIN lines : ~(i > EndAt(lines) /\ Usable(lines, i))
    BY <1>3, LoadIssuesFacts
<1>5. EndAt(lines) = Len(lines)
    <2>1. EndAt(lines) \in 2..Len(lines)
        BY <1>4, LineFacts, EndAtFacts
    <2>2. Len(lines) \in DOMAIN lines
        BY <1>1
    <2>3. ~(Len(lines) > EndAt(lines))
        BY <1>4, <2>2 DEF Undisturbed
    <2> QED
        BY <1>1, <2>1, <2>3
<1>6. Body(lines) = Inner
    BY <1>1, <1>5, UndisturbedBody DEF Undisturbed
<1>7. \A i \in Inner : lines[i].kind \in ToolKinds
    BY DEF Undisturbed
<1>8. \A i \in Inner : i \in Nat /\ lines[i].seq = i - 1
    <2>1. \A i \in Inner : i \in 2..Len(lines) /\ lines[i].seq = i - 1
        BY <1>6, LineFacts, EndAtFacts
    <2> QED
        BY <1>1, <2>1
<1> QED
    BY <1>4, <1>5, <1>6, <1>7, <1>8 DEF Records, ToolKinds

(* No two starts and no two terminals share an invocation.                  *)
Distinct ==
    \A i, j \in Inner : i # j /\ lines[i].id = lines[j].id =>
        {lines[i].kind, lines[j].kind} \notin (SUBSET StartKinds) \cup (SUBSET TerminalKinds)

LEMMA DistinctRecords ==
    ASSUME LinesInv, Undisturbed, NEW capture, capture.records = Records(lines)
    PROVE  /\ capture.records = Starts(capture) \cup Terminals(capture) <=> Distinct
           /\ Distinct => /\ Starts(capture) = {r \in capture.records : r.kind \in StartKinds}
                          /\ Terminals(capture) = {r \in capture.records : r.kind \in TerminalKinds}
<1> DEFINE records == capture.records
<1>1. /\ records = {lines[i] : i \in Inner}
      /\ \A i \in Inner : /\ i \in Nat /\ lines[i].seq = i - 1
                          /\ lines[i].kind \in StartKinds \cup TerminalKinds
    BY UndisturbedRecords
<1>2. StartKinds \cap TerminalKinds = {}
    BY DEF StartKinds, TerminalKinds
<1> HIDE DEF records
<1>3. ASSUME Distinct
      PROVE  /\ FirstOf(records, StartKinds) = {r \in records : r.kind \in StartKinds}
             /\ FirstOf(records, TerminalKinds) = {r \in records : r.kind \in TerminalKinds}
    <2>1. ASSUME NEW kinds \in {StartKinds, TerminalKinds}, NEW r \in records, NEW q \in records,
                 r.kind \in kinds, q.kind \in kinds, q.id = r.id
          PROVE  r.seq <= q.seq
        <3>1. PICK i \in Inner : r = lines[i]
            BY <1>1
        <3>2. PICK j \in Inner : q = lines[j]
            BY <1>1
        <3>3. i = j
            BY <1>3, <2>1, <3>1, <3>2 DEF Distinct
        <3> QED
            BY <1>1, <3>1, <3>2, <3>3
    <2> QED
        BY <2>1 DEF FirstOf
<1>4. ASSUME records = FirstOf(records, StartKinds) \cup FirstOf(records, TerminalKinds)
      PROVE  Distinct
    <2> SUFFICES ASSUME NEW i \in Inner, NEW j \in Inner, i # j, lines[i].id = lines[j].id,
                        NEW kinds \in {StartKinds, TerminalKinds},
                        lines[i].kind \in kinds, lines[j].kind \in kinds
                 PROVE  FALSE
        BY DEF Distinct
    <2>1. lines[i] \in FirstOf(records, kinds) /\ lines[j] \in FirstOf(records, kinds)
        <3>1. lines[i] \in records /\ lines[j] \in records
            BY <1>1
        <3> QED
            BY <1>2, <1>4, <3>1 DEF FirstOf
    <2>2. lines[i].seq <= lines[j].seq /\ lines[j].seq <= lines[i].seq
        BY <2>1 DEF FirstOf
    <2> QED
        BY <1>1, <2>2
<1>5. {r \in records : r.kind \in StartKinds} \cup {r \in records : r.kind \in TerminalKinds} = records
    BY <1>1
<1> QED
    BY <1>3, <1>4, <1>5 DEF Starts, Terminals, records

LEMMA SettlingLines ==
    ASSUME LinesInv, Undisturbed, NEW i \in Inner, NEW j \in Inner,
           lines[i].kind \in StartKinds, lines[j].kind \in TerminalKinds
    PROVE  Settles(lines[j], lines[i]) <=> Pairs(i, j)
<1> DEFINE s == lines[i]
           t == lines[j]
<1>1. i \in Nat /\ j \in Nat /\ s.seq = i - 1 /\ t.seq = j - 1
    BY UndisturbedRecords
<1>2. t.seq > s.seq <=> i < j
    BY <1>1
<1> DEFINE tuple == <<s.kind, t.kind, t.outcome, t.boundary>>
<1>3. ASSUME s.kind = "native_start"
      PROVE  /\ t.kind = "native_terminal"
             /\ t.outcome \in {"success", "error"}
             /\ t.boundary = [success |-> "session.tool.success", error |-> "session.tool.failed"][t.outcome]
             <=> tuple \in
                     {<<"native_start", "native_terminal", "success", "session.tool.success">>,
                      <<"native_start", "native_terminal", "error", "session.tool.failed">>,
                      <<"code_start", "code_terminal", "success", "tool-handler-return">>,
                      <<"code_start", "code_terminal", "error", "tool-handler-throw">>}
    BY <1>3
<1>4. ASSUME s.kind = "code_start"
      PROVE  /\ t.kind = "code_terminal"
             /\ t.outcome \in {"success", "error"}
             /\ t.boundary = [success |-> "tool-handler-return", error |-> "tool-handler-throw"][t.outcome]
             <=> tuple \in
                     {<<"native_start", "native_terminal", "success", "session.tool.success">>,
                      <<"native_start", "native_terminal", "error", "session.tool.failed">>,
                      <<"code_start", "code_terminal", "success", "tool-handler-return">>,
                      <<"code_start", "code_terminal", "error", "tool-handler-throw">>}
    BY <1>4
<1>5. CASE s.kind = "native_start"
    BY <1>2, <1>3, <1>5 DEF Settles, Pairs, Mode, ExpectedBoundary
<1>6. CASE s.kind = "code_start"
    BY <1>2, <1>4, <1>6 DEF Settles, Pairs, Mode, ExpectedBoundary
<1> QED
    BY <1>5, <1>6 DEF StartKinds

(* The rest of Faultless: what the builder asks of the records.             *)
WellPaired ==
    /\ \A i \in Inner : lines[i].kind \in StartKinds =>
           \E t \in Inner : Pairs(i, t) /\ ~(lines[t].kind = "native_terminal" /\ lines[t].value = "omitted")
    /\ \A i \in Inner : lines[i].kind \in TerminalKinds => \E s \in Inner : Pairs(s, i)
    /\ \A i \in Inner : lines[i].kind \in StartKinds => lines[i].value # "omitted"
    /\ \A i \in Inner : lines[i].kind = "code_start" =>
           \E o \in Inner : /\ o < i /\ lines[o].kind = "native_start" /\ lines[o].id = lines[i].parent
                            /\ lines[o].boundary = "tool-execute-before"
                            /\ lines[o].tool \in {"execute", "hidden"} /\ lines[o].who = lines[i].who

LEMMA FaultlessParts ==
    Faultless <=> Undisturbed /\ ~lines[Len(lines)].failures /\ Distinct /\ WellPaired
BY DEF Faultless, Undisturbed, Distinct, WellPaired

LEMMA PairedRecords ==
    ASSUME LinesInv, Undisturbed, Distinct, NEW capture, capture.records = Records(lines),
           capture.issues = {}
    PROVE  WellPaired <=>
               /\ ~Malformed(capture)
               /\ \A s \in Starts(capture) :
                      /\ s.value # "omitted"
                      /\ \E t \in Settling(s, Terminals(capture)) :
                             ~(s.kind = "native_start" /\ t.value = "omitted")
<1> DEFINE starts == Starts(capture)
           terminals == Terminals(capture)
<1>1. /\ \A i \in Inner : /\ i \in Nat /\ lines[i].seq = i - 1
                          /\ lines[i].kind \in StartKinds \cup TerminalKinds
      /\ Records(lines) = {lines[i] : i \in Inner}
    BY UndisturbedRecords
<1>2. /\ capture.records = starts \cup terminals
      /\ starts = {lines[i] : i \in {j \in Inner : lines[j].kind \in StartKinds}}
      /\ terminals = {lines[i] : i \in {j \in Inner : lines[j].kind \in TerminalKinds}}
    BY <1>1, DistinctRecords
<1>3. \A i, t \in Inner : Pairs(i, t) => lines[i].kind \in StartKinds /\ lines[t].kind \in TerminalKinds
                                         /\ (lines[i].kind = "native_start" <=>
                                                 lines[t].kind = "native_terminal")
    BY DEF Pairs, StartKinds, TerminalKinds
<1>4. \A i, t \in Inner : lines[i].kind \in StartKinds /\ lines[t].kind \in TerminalKinds =>
          (Settles(lines[t], lines[i]) <=> Pairs(i, t))
    BY SettlingLines
<1>5. "code_start" \in StartKinds /\ "native_start" \in StartKinds
    BY DEF StartKinds
<1> HIDE DEF starts, terminals
<1>6. ASSUME NEW i \in Inner, lines[i].kind = "code_start"
      PROVE  CodeParentIsObserved(lines[i], starts) <=>
                 \E o \in Inner : /\ o < i /\ lines[o].kind = "native_start"
                                  /\ lines[o].id = lines[i].parent
                                  /\ lines[o].boundary = "tool-execute-before"
                                  /\ lines[o].tool \in {"execute", "hidden"}
                                  /\ lines[o].who = lines[i].who
    <2>1. \A o \in Inner : lines[o].seq < lines[i].seq <=> o < i
        BY <1>1
    <2>2. CodeParentIsObserved(lines[i], starts) <=>
              \E o \in Inner : /\ lines[o].kind \in StartKinds
                               /\ lines[o].id = lines[i].parent /\ lines[o].kind = "native_start"
                               /\ lines[o].boundary = "tool-execute-before"
                               /\ lines[o].seq < lines[i].seq
                               /\ lines[o].tool \in {"execute", "hidden"}
                               /\ lines[o].who = lines[i].who
        BY <1>2 DEF CodeParentIsObserved
    <2> QED
        BY <1>5, <2>1, <2>2
<1>7. (\A s \in starts : ~(s.kind = "code_start" /\ ~CodeParentIsObserved(s, starts))) <=>
          \A i \in Inner : lines[i].kind = "code_start" => CodeParentIsObserved(lines[i], starts)
    BY <1>2, <1>5
<1>8. (\A t \in terminals : \E s \in starts : Settles(t, s)) <=>
          \A i \in Inner : lines[i].kind \in TerminalKinds => \E s \in Inner : Pairs(s, i)
    <2>1. ASSUME NEW i \in Inner, lines[i].kind \in TerminalKinds
          PROVE  (\E s \in starts : Settles(lines[i], s)) <=> \E s \in Inner : Pairs(s, i)
        BY <1>2, <1>3, <1>4, <2>1
    <2>2. \A t \in terminals : \E i \in Inner : t = lines[i] /\ lines[i].kind \in TerminalKinds
        BY <1>2
    <2>3. \A i \in Inner : lines[i].kind \in TerminalKinds => lines[i] \in terminals
        BY <1>2
    <2> QED
        BY <2>1, <2>2, <2>3
<1>9. (\A s \in starts : \E t \in Settling(s, terminals) : ~(s.kind = "native_start" /\ t.value = "omitted"))
      <=> \A i \in Inner : lines[i].kind \in StartKinds =>
              \E t \in Inner : Pairs(i, t) /\ ~(lines[t].kind = "native_terminal" /\ lines[t].value = "omitted")
    <2>1. ASSUME NEW i \in Inner, lines[i].kind \in StartKinds
          PROVE  (\E t \in Settling(lines[i], terminals) :
                      ~(lines[i].kind = "native_start" /\ t.value = "omitted")) <=>
                 \E t \in Inner : Pairs(i, t) /\ ~(lines[t].kind = "native_terminal"
                                                   /\ lines[t].value = "omitted")
        BY <1>2, <1>3, <1>4, <2>1 DEF Settling
    <2>2. \A s \in starts : \E i \in Inner : s = lines[i] /\ lines[i].kind \in StartKinds
        BY <1>2
    <2>3. \A i \in Inner : lines[i].kind \in StartKinds => lines[i] \in starts
        BY <1>2
    <2> QED
        BY <2>1, <2>2, <2>3
<1>10. (\A s \in starts : s.value # "omitted") <=>
           \A i \in Inner : lines[i].kind \in StartKinds => lines[i].value # "omitted"
    BY <1>2
<1>11. Malformed(capture) <=>
           \/ \E s \in starts : s.kind = "code_start" /\ ~CodeParentIsObserved(s, starts)
           \/ \E t \in terminals : ~\E s \in starts : Settles(t, s)
    BY <1>2 DEF Malformed, starts, terminals
<1>12. WellPaired <=>
           /\ \A i \in Inner : lines[i].kind \in StartKinds =>
                  \E t \in Inner : Pairs(i, t) /\ ~(lines[t].kind = "native_terminal"
                                                    /\ lines[t].value = "omitted")
           /\ \A i \in Inner : lines[i].kind \in TerminalKinds => \E s \in Inner : Pairs(s, i)
           /\ \A i \in Inner : lines[i].kind \in StartKinds => lines[i].value # "omitted"
           /\ \A i \in Inner : lines[i].kind = "code_start" => CodeParentIsObserved(lines[i], starts)
    BY <1>6 DEF WellPaired
<1> QED
    BY <1>7, <1>8, <1>9, <1>10, <1>11, <1>12 DEF starts, terminals

LEMMA PerfectIsFaultless ==
    ASSUME LinesInv, NEW terminated \in BOOLEAN
    PROVE  Perfect(Load(lines, terminated)) <=> terminated /\ Faultless
<1> DEFINE capture == Load(lines, terminated)
<1>1. CASE lines = <<>>
    <2>1. capture.issues # {}
        BY <1>1 DEF Load, EmptyCapture
    <2>2. Len(lines) = 0
        BY <1>1
    <2> QED
        BY <2>1, <2>2, MaxRecordsAssumption DEF Perfect, Faultless
<1>2. CASE lines # <<>> /\ Len(lines) > MaxRecords
    <2>1. capture.issues # {}
        BY <1>2 DEF Load, EmptyCapture
    <2>2. Len(lines) \notin 2..MaxRecords
        BY <1>2, LineFacts, MaxRecordsAssumption
    <2> QED
        BY <2>1, <2>2 DEF Perfect, Faultless
<1>3. CASE lines # <<>> /\ ~(Len(lines) > MaxRecords)
    <2>1. /\ capture.ended = (EndLines(lines) # {})
          /\ capture.records = Records(lines)
          /\ capture.failures = (EndLines(lines) # {} /\ lines[EndAt(lines)].failures)
          /\ capture.issues = LoadIssues(lines, terminated)
        BY <1>3, LoadedWhole
    <2>2. capture.issues = {} <=> terminated /\ Undisturbed
        BY <1>3, <2>1, NoIssueWhenUndisturbed
    <2> HIDE DEF capture
    <2>3. ASSUME terminated, Undisturbed
          PROVE  Perfect(capture) <=> Faultless
        <3>1. capture.ended /\ (capture.failures <=> lines[Len(lines)].failures)
            BY <2>1, <2>3, UndisturbedRecords
        <3>2. Malformed(capture) \/ Distinct
            BY <2>1, <2>3, DistinctRecords DEF Malformed
        <3>3. Distinct => (WellPaired <=>
                  /\ ~Malformed(capture)
                  /\ \A s \in Starts(capture) :
                         /\ s.value # "omitted"
                         /\ \E t \in Settling(s, Terminals(capture)) :
                                ~(s.kind = "native_start" /\ t.value = "omitted"))
            BY <2>1, <2>2, <2>3, PairedRecords
        <3> QED
            BY <2>2, <2>3, <3>1, <3>2, <3>3, FaultlessParts DEF Perfect
    <2>4. ASSUME ~(terminated /\ Undisturbed)
          PROVE  ~Perfect(capture) /\ ~(terminated /\ Faultless)
        BY <2>2, <2>4, FaultlessParts DEF Perfect
    <2> QED
        BY <2>3, <2>4 DEF capture
<1> QED
    BY <1>1, <1>2, <1>3

(* Evidence is complete for a faultless capture of a process that completed *)
(* and for nothing else, whatever the writer sent and however it was cut.   *)
THEOREM CompleteMeansFaultless == Spec => []CompleteExactlyWhenFaultless
<1>1. LinesInv => CompleteExactlyWhenFaultless
    <2> SUFFICES ASSUME LinesInv, NEW terminated \in BOOLEAN, NEW process \in ProcessStates
                 PROVE  BuildRuntimeEvidence(Load(lines, terminated), process).status = "complete"
                            <=> terminated /\ process = "completed" /\ Faultless
        BY DEF CompleteExactlyWhenFaultless
    <2>1. IsCapture(Load(lines, terminated))
        BY LineFacts, LoadedIsACapture
    <2>2. BuildRuntimeEvidence(Load(lines, terminated), process).status = "complete"
              <=> process = "completed" /\ Perfect(Load(lines, terminated))
        BY <2>1, BuiltStatus
    <2> QED
        BY <2>2, PerfectIsFaultless
<1> QED
    BY <1>1, LinesAreTyped, PTL

(* No later line repairs a capture that is invalid: a duplicate, an orphan, *)
(* a child without its parent and a fault of the stream stay, and so does   *)
(* the capture that is too long (build_runtime_evidence).                   *)
THEOREM InvalidIsFinal == Spec => []InvalidStaysInvalid
<1>1. LinesInv => InvalidStaysInvalid
    <2> DEFINE old == SubSeq(lines, 1, Len(lines) - 1)
    <2> SUFFICES ASSUME LinesInv, lines # <<>>,
                        BuildRuntimeEvidence(Load(old, TRUE), "completed").status = "invalid"
                 PROVE  BuildRuntimeEvidence(Load(lines, TRUE), "completed").status = "invalid"
        BY DEF InvalidStaysInvalid, Built, BuiltFrom
    <2>1. Len(lines) \in Nat /\ Len(lines) # 0 /\ IsStream(lines)
        BY LineFacts, EmptySeq DEF LinesInv
    <2>2. /\ old \in Seq(Lines) /\ Len(old) = Len(lines) - 1
          /\ \A i \in 1..Len(old) : old[i] = lines[i]
        <3>1. 1 \in 1..(Len(lines) + 1) /\ Len(lines) - 1 \in 0..Len(lines)
            BY <2>1
        <3>2. /\ old \in Seq(Lines)
              /\ Len(old) = IF 1 <= Len(lines) - 1 THEN Len(lines) - 1 - 1 + 1 ELSE 0
              /\ \A i \in 1..(Len(lines) - 1 - 1 + 1) : old[i] = lines[1 + i - 1]
            BY <3>1, SubSeqProperties DEF LinesInv
        <3> HIDE DEF old
        <3>3. Len(old) = Len(lines) - 1
            <4>1. \A n \in Nat : n # 0 => (IF 1 <= n - 1 THEN n - 1 - 1 + 1 ELSE 0) = n - 1
                OBVIOUS
            <4>2. Len(lines) \in Nat /\ Len(lines) # 0
                BY <2>1
            <4> QED
                BY <3>2, <4>1, <4>2
        <3>4. \A i \in 1..Len(old) : i \in 1..(Len(lines) - 1 - 1 + 1) /\ 1 + i - 1 = i
            BY <2>1, <3>3
        <3>5. \A i \in 1..Len(old) : old[i] = lines[i]
            BY <3>2, <3>4
        <3> QED
            BY <3>2, <3>3, <3>5
    <2> HIDE DEF old
    <2>3. IsStream(old)
        BY <2>2, LinesAreAStream
    <2>4. IsCapture(Load(old, TRUE)) /\ IsCapture(Load(lines, TRUE))
        BY <2>1, <2>3, LoadedIsACapture
    <2>5. Malformed(Load(old, TRUE))
        BY <2>4, BuiltStatus DEF ProcessStates
    <2>6. old # <<>>
        <3> SUFFICES ASSUME old = <<>>
                     PROVE  FALSE
            OBVIOUS
        <3> DEFINE capture == Load(old, TRUE)
        <3>1. capture.issues = {"empty_capture"} /\ capture.records = {}
            BY DEF Load, EmptyCapture
        <3>2. Starts(capture) = {} /\ Terminals(capture) = {}
            BY <3>1 DEF Starts, Terminals, FirstOf
        <3> QED
            BY <2>5, <3>1, <3>2 DEF Malformed, InvalidIssues
    <2>7. Extends(lines, old)
        <3>1. Len(old) # 0
            BY <2>2, <2>6, EmptySeq
        <3> QED
            BY <2>1, <2>2, <3>1 DEF Extends
    <2>8. Malformed(Load(lines, TRUE))
        BY <2>1, <2>3, <2>5, <2>7, MalformedStaysMalformed
    <2> QED
        BY <2>4, <2>8, BuiltStatus DEF ProcessStates
<1> QED
    BY <1>1, LinesAreTyped, PTL

(***************************************************************************)
(* What the checks say of a faultless capture.                             *)
(***************************************************************************)

(* What an observation shows of the call that starts at a line.             *)
Shows(o, i) ==
    /\ o.start = i - 1 /\ o.tool = lines[i].tool /\ o.input = lines[i].value
    /\ o.outcome \in {"success", "error"}
    /\ \E t \in Inner : Pairs(i, t)
    /\ \A t \in Inner : Pairs(i, t) =>
           /\ o.outcome = lines[t].outcome
           /\ o.result = IF lines[i].kind = "code_start" THEN "unsupported" ELSE lines[t].value

LEMMA FaultlessObservations ==
    ASSUME LinesInv, Faultless, NEW process
    PROVE  \E seen : /\ BuildRuntimeEvidence(Load(lines, TRUE), process).observations =
                            {seen[i] : i \in CallLines}
                     /\ \A i \in CallLines : Shows(seen[i], i)
<1> DEFINE capture == Load(lines, TRUE)
           starts == Starts(capture)
           terminals == Terminals(capture)
           seen == [i \in CallLines |-> Observation(lines[i], terminals)]
<1>1. Undisturbed /\ Distinct /\ WellPaired
    BY FaultlessParts
<1>2. capture.records = Records(lines)
    <2>1. MaxRecords \in Nat /\ Len(lines) \in 2..MaxRecords
        BY MaxRecordsAssumption DEF Faultless
    <2>2. lines # <<>> /\ ~(Len(lines) > MaxRecords)
        BY <2>1
    <2> QED
        BY <2>2, LoadedWhole
<1>3. /\ \A i \in Inner : /\ i \in Nat /\ lines[i].seq = i - 1
                          /\ lines[i].kind \in StartKinds \cup TerminalKinds
      /\ capture.records = {lines[i] : i \in Inner}
    BY <1>1, <1>2, UndisturbedRecords
<1> HIDE DEF capture
<1>4. /\ starts = {r \in capture.records : r.kind \in StartKinds}
      /\ terminals = {r \in capture.records : r.kind \in TerminalKinds}
    BY <1>1, <1>2, DistinctRecords
<1>5. starts = {lines[i] : i \in CallLines}
    BY <1>3, <1>4 DEF CallLines
<1>6. terminals = {lines[t] : t \in {u \in Inner : lines[u].kind \in TerminalKinds}}
    BY <1>3, <1>4
<1>7. BuildRuntimeEvidence(capture, process).observations = {seen[i] : i \in CallLines}
    BY <1>5, BuiltFields DEF ObservationsOf
<1>8. ASSUME NEW i \in CallLines
      PROVE  Shows(seen[i], i)
    <2> DEFINE o == Observation(lines[i], terminals)
               settling == Settling(lines[i], terminals)
    <2>1. i \in Inner /\ lines[i].kind \in StartKinds
        BY DEF CallLines
    <2>2. PICK t \in Inner : Pairs(i, t)
        BY <1>1, <2>1 DEF WellPaired
    <2>3. \A u \in Inner : Pairs(i, u) => lines[u].kind \in TerminalKinds /\ lines[u].id = lines[i].id
                                          /\ lines[u].outcome \in {"success", "error"}
        BY DEF Pairs, TerminalKinds
    <2>4. ASSUME NEW u \in Inner, Pairs(i, u)
          PROVE  u = t
        <3>1. {lines[u].kind, lines[t].kind} \in SUBSET TerminalKinds /\ lines[u].id = lines[t].id
            BY <2>2, <2>3, <2>4
        <3> QED
            BY <1>1, <3>1 DEF Distinct
    <2>5. settling = {lines[t]}
        <3>1. \A u \in Inner : lines[u].kind \in TerminalKinds =>
                  (Settles(lines[u], lines[i]) <=> Pairs(i, u))
            BY <1>1, <2>1, SettlingLines
        <3> QED
            BY <1>6, <2>2, <2>3, <2>4, <3>1 DEF Settling
    <2>6. /\ o.tool = lines[i].tool /\ o.start = lines[i].seq /\ o.input = lines[i].value
          /\ \E x \in settling :
                 /\ o.outcome = x.outcome
                 /\ o.result = IF Mode(lines[i]) = "code_mode" THEN "unsupported" ELSE x.value
        <3> HIDE DEF settling, o
        <3>1. Settling(lines[i], terminals) # {}
            BY <2>5 DEF settling
        <3> QED
            BY <3>1, ObservationFacts DEF settling, o
    <2>7. Mode(lines[i]) = "code_mode" <=> lines[i].kind = "code_start"
        BY <2>1 DEF Mode, StartKinds
    <2>8. /\ o.start = i - 1 /\ o.outcome = lines[t].outcome
          /\ o.result = IF lines[i].kind = "code_start" THEN "unsupported" ELSE lines[t].value
        BY <1>3, <2>1, <2>5, <2>6, <2>7
    <2> HIDE DEF o
    <2>9. Shows(o, i)
        BY <2>2, <2>3, <2>4, <2>6, <2>8 DEF Shows
    <2> QED
        BY <2>9 DEF o
<1> QED
    BY <1>7, <1>8 DEF capture

LEMMA CallsAreSeen ==
    ASSUME NEW o, NEW i, Shows(o, i), NEW assertion
    PROVE  /\ CallState(o, assertion) = "yes" => Matches(i, assertion)
           /\ CallState(o, assertion) = "no" => ~Matches(i, assertion)
BY DEF Shows, CallState, ToolState, Known, Matches

Ends(i, assertion) ==
    \E t \in Inner : /\ Pairs(i, t) /\ lines[t].value = assertion.result
                     /\ assertion.status \in {"any", lines[t].outcome}

LEMMA ResultsAreSeen ==
    ASSUME NEW o, NEW i, Shows(o, i), NEW assertion
    PROVE  /\ ResultState(o, assertion) = "yes" => Ends(i, assertion)
           /\ ResultState(o, assertion) = "no" => ~Ends(i, assertion)
<1>1. PICK t \in Inner : Pairs(i, t)
    BY DEF Shows
<1>2. o.outcome # "missing" /\ "unsupported" \in Unavailable
    BY DEF Shows, Unavailable
<1>3. \A u \in Inner : Pairs(i, u) =>
          /\ o.outcome = lines[u].outcome
          /\ o.result \notin Unavailable => o.result = lines[u].value
    BY <1>2 DEF Shows
<1>4. ResultState(o, assertion) = "yes" =>
          /\ assertion.status \in {"any", o.outcome}
          /\ o.result \notin Unavailable /\ o.result = assertion.result
    BY <1>2 DEF ResultState, Known
<1>5. ResultState(o, assertion) = "no" =>
          \/ assertion.status \notin {"any", o.outcome}
          \/ o.result \notin Unavailable /\ o.result # assertion.result
    BY <1>2 DEF ResultState, Known
<1>6. CASE ResultState(o, assertion) = "yes"
    BY <1>1, <1>3, <1>4, <1>6 DEF Ends
<1>7. CASE ResultState(o, assertion) = "no"
    BY <1>3, <1>5, <1>7 DEF Ends
<1> QED
    BY <1>6, <1>7


LEMMA InnerIsFinite ==
    ASSUME LinesInv
    PROVE  IsFiniteSet(CallLines) /\ CallLines \subseteq Nat
<1>1. Len(lines) \in Nat
    BY LineFacts
<1>2. IsFiniteSet(2..(Len(lines) - 1))
    BY <1>1, FS_Interval
<1> QED
    BY <1>1, <1>2, FS_Subset DEF CallLines, Inner

HeldUpTo(observations, assertion, start) ==
    Cardinality({p \in Calls(observations, assertion, "yes") : p.start <= start})
ToldUpTo(i, assertion) == Cardinality({j \in CallLines : j <= i /\ Matches(j, assertion)})

(* Without a call that may or may not match, the observations count the     *)
(* matching ones as the lines do.                                           *)
LEMMA OccurrencesAreSeen ==
    ASSUME LinesInv, NEW seen, \A i \in CallLines : Shows(seen[i], i),
           NEW observations, observations = {seen[i] : i \in CallLines},
           NEW assertion, Calls(observations, assertion, "unknown") = {},
           NEW i \in CallLines
    PROVE  /\ CallState(seen[i], assertion) = "yes" <=> Matches(i, assertion)
           /\ HeldUpTo(observations, assertion, seen[i].start) = ToldUpTo(i, assertion)
<1>1. ASSUME NEW j \in CallLines
      PROVE  CallState(seen[j], assertion) = "yes" <=> Matches(j, assertion)
    <2>1. CallState(seen[j], assertion) \in {"yes", "no"}
        BY StatesAreThree DEF Calls, States
    <2> QED
        BY <2>1, CallsAreSeen
<1> DEFINE lower == {j \in CallLines : j <= i /\ Matches(j, assertion)}
           earlier == {p \in Calls(observations, assertion, "yes") : p.start <= seen[i].start}
           f == [j \in lower |-> seen[j]]
<1>2. \A j \in CallLines : j \in Nat /\ seen[j].start = j - 1
    BY InnerIsFinite DEF Shows
<1>3. \A j \in CallLines : seen[j].start <= seen[i].start <=> j <= i
    BY <1>2
<1>4. earlier = {seen[j] : j \in lower}
    BY <1>1, <1>3 DEF Calls
<1>5. lower \subseteq CallLines
    OBVIOUS
<1> HIDE DEF earlier, lower
<1>6. f \in [lower -> earlier] /\ \A p \in earlier : \E j \in lower : f[j] = p
    BY <1>4
<1>7. \A j, k \in lower : f[j] = f[k] => j = k
    BY <1>2, <1>5
<1>8. ExistsBijection(lower, earlier)
    BY <1>6, <1>7 DEF ExistsBijection, Bijection, Injection, Surjection, IsInjective
<1>9. IsFiniteSet(lower)
    BY <1>5, InnerIsFinite, FS_Subset
<1>10. Cardinality(earlier) = Cardinality(lower)
    BY <1>8, <1>9, FS_Bijection
<1> QED
    BY <1>1, <1>10 DEF earlier, lower, HeldUpTo, ToldUpTo

LEMMA DeliveriesAreSeen ==
    ASSUME LinesInv, NEW seen, \A i \in CallLines : Shows(seen[i], i),
           NEW observations, observations = {seen[i] : i \in CallLines},
           NEW assertion, \A call, other \in assertion.after : call = other
    PROVE  /\ ResultMatch(observations, assertion) = "yes" => \E i \in CallLines : Delivers(i, assertion)
           /\ ResultMatch(observations, assertion) = "no" => \A i \in CallLines : ~Delivers(i, assertion)
<1> DEFINE unsure == Calls(observations, assertion, "unknown") # {}
           placed == Placed(observations, assertion)
           perhaps == PerhapsPlaced(observations, assertion)
           occurs == Occurrences(observations, assertion)
           after(i) == \A earlier \in assertion.after : \E j \in CallLines : j < i /\ Matches(j, earlier)
           ordinal(i) ==
               assertion.occurrence \in {0, Cardinality({j \in CallLines : j <= i /\ Matches(j, assertion)})}
<1>1. \A i \in CallLines : Delivers(i, assertion) <=>
          Matches(i, assertion) /\ ordinal(i) /\ after(i) /\ Ends(i, assertion)
    BY DEF Delivers, Ends
<1>2. ASSUME NEW i \in CallLines, unsure => assertion.occurrence = 0
      PROVE  /\ seen[i] \in occurs => Matches(i, assertion) /\ ordinal(i)
             /\ Matches(i, assertion) /\ ordinal(i) /\ ~unsure => seen[i] \in occurs
    <2>1. seen[i] \in occurs <=>
              /\ CallState(seen[i], assertion) = "yes"
              /\ \/ assertion.occurrence = 0
                 \/ Cardinality({p \in Calls(observations, assertion, "yes") : p.start <= seen[i].start})
                        = assertion.occurrence
        BY DEF Occurrences, Calls
    <2>2. CASE unsure
        BY <1>2, <2>1, <2>2, CallsAreSeen
    <2>3. CASE ~unsure
        <3> DEFINE held == HeldUpTo(observations, assertion, seen[i].start)
                   told == ToldUpTo(i, assertion)
        <3>1. Calls(observations, assertion, "unknown") = {}
            BY <2>3
        <3>2. (CallState(seen[i], assertion) = "yes" <=> Matches(i, assertion)) /\ held = told
            BY <3>1, OccurrencesAreSeen
        <3>3. seen[i] \in occurs <=>
                  CallState(seen[i], assertion) = "yes" /\ (assertion.occurrence = 0 \/ held = assertion.occurrence)
            BY <2>1 DEF HeldUpTo
        <3>4. ordinal(i) <=> assertion.occurrence \in {0, told}
            BY DEF ToldUpTo
        <3> HIDE DEF held, told, occurs, ordinal, unsure
        <3> QED
            BY <2>3, <3>2, <3>3, <3>4
    <2> QED
        BY <2>2, <2>3
<1>3. \A i, j \in CallLines : seen[j].start < seen[i].start <=> j < i
    BY InnerIsFinite DEF Shows
<1>4. ASSUME NEW i \in CallLines
      PROVE  /\ assertion.after = {} \/ Follows(observations, seen[i], assertion, "yes") => after(i)
             /\ after(i) => \/ assertion.after = {}
                            \/ Follows(observations, seen[i], assertion, "yes")
                            \/ Follows(observations, seen[i], assertion, "unknown")
    <2>1. CASE assertion.after = {}
        BY <2>1
    <2>2. CASE assertion.after # {}
        <3>1. PICK earlier \in assertion.after : assertion.after = {earlier}
            BY <2>2
        <3>2. \A state : Follows(observations, seen[i], assertion, state) <=>
                  \E j \in CallLines : j < i /\ CallState(seen[j], earlier) = state
            BY <1>3, <3>1 DEF Follows
        <3>3. \A j \in CallLines : /\ CallState(seen[j], earlier) \in {"yes", "no", "unknown"}
                                   /\ CallState(seen[j], earlier) = "yes" => Matches(j, earlier)
                                   /\ CallState(seen[j], earlier) = "no" => ~Matches(j, earlier)
            BY CallsAreSeen, StatesAreThree DEF States
        <3>4. after(i) <=> \E j \in CallLines : j < i /\ Matches(j, earlier)
            BY <3>1
        <3> QED
            BY <2>2, <3>2, <3>3, <3>4
    <2> QED
        BY <2>1, <2>2
<1>5. \A o : o \in placed <=>
          o \in occurs /\ (assertion.after = {} \/ Follows(observations, o, assertion, "yes"))
    BY DEF Placed
<1>6. \A o : o \in perhaps <=>
          o \in occurs /\ o \notin placed /\ Follows(observations, o, assertion, "unknown")
    BY DEF PerhapsPlaced
<1>7. \A o \in placed : \E i \in CallLines : o = seen[i]
    BY DEF Placed, Occurrences, Calls
<1>8. /\ ResultMatch(observations, assertion) = "yes" =>
              /\ unsure => assertion.occurrence = 0
              /\ \E o \in placed : ResultState(o, assertion) = "yes"
      /\ ResultMatch(observations, assertion) = "no" =>
              ~unsure /\ perhaps = {} /\ \A o \in placed : ResultState(o, assertion) = "no"
    <2>1. \A o : ResultState(o, assertion) \in {"yes", "no", "unknown"}
        BY StatesAreThree DEF States
    <2> HIDE DEF placed, perhaps, unsure
    <2>2. ResultMatch(observations, assertion) =
              LET ends == {ResultState(o, assertion) : o \in placed} IN
              IF unsure /\ assertion.occurrence # 0 THEN "unknown"
              ELSE IF "yes" \in ends THEN "yes"
              ELSE IF unsure \/ "unknown" \in ends \/ perhaps # {} THEN "unknown"
              ELSE "no"
        BY DEF ResultMatch, placed, perhaps, unsure
    <2> QED
        BY <2>1, <2>2
<1>9. \A i \in CallLines :
          /\ ResultState(seen[i], assertion) = "yes" => Ends(i, assertion)
          /\ ResultState(seen[i], assertion) = "no" => ~Ends(i, assertion)
    BY ResultsAreSeen
<1> HIDE DEF unsure, placed, perhaps, occurs, after, ordinal
<1>10. ASSUME ResultMatch(observations, assertion) = "yes"
       PROVE  \E i \in CallLines : Delivers(i, assertion)
    <2>1. PICK i \in CallLines : seen[i] \in placed /\ ResultState(seen[i], assertion) = "yes"
        BY <1>7, <1>8, <1>10
    <2> QED
        BY <1>1, <1>2, <1>4, <1>5, <1>8, <1>9, <1>10, <2>1
<1>11. ASSUME ResultMatch(observations, assertion) = "no", NEW i \in CallLines, Delivers(i, assertion)
       PROVE  FALSE
    <2>1. ~unsure /\ perhaps = {} /\ \A o \in placed : ResultState(o, assertion) = "no"
        BY <1>8, <1>11
    <2>2. seen[i] \in occurs
        BY <1>1, <1>2, <1>11, <2>1
    <2>3. seen[i] \in placed
        BY <1>1, <1>4, <1>5, <1>6, <1>11, <2>1, <2>2
    <2> QED
        BY <1>1, <1>9, <1>11, <2>1, <2>3
<1> QED
    BY <1>10, <1>11

(* A check that passed holds of the lines, and one that failed does not.    *)
LEMMA ChecksAreSeen ==
    ASSUME LinesInv, NEW seen, \A i \in CallLines : Shows(seen[i], i),
           NEW observations, observations = {seen[i] : i \in CallLines},
           NEW checks \in Cases, NEW check \in checks
    PROVE  /\ CheckStatus(observations, check) = "pass" => Holds(check)
           /\ CheckStatus(observations, check) = "fail" => ~Holds(check)
<1> DEFINE states == CheckStates(observations, check)
           found == \E i \in CallLines, assertion \in check.alternatives :
                        IF check.family = "tool_results" THEN Delivers(i, assertion)
                                                         ELSE Matches(i, assertion)
<1>1. /\ check.family \in {"tools", "actions", "tool_results"} /\ check.forbids \in BOOLEAN
      /\ check.family = "tools" => \A assertion \in check.alternatives : assertion.input = "any"
      /\ check.family = "tool_results" =>
             \A assertion \in check.alternatives : \A call, other \in assertion.after : call = other
    BY CasesAssumption
<1>2. /\ "yes" \in states => found
      /\ "yes" \notin states /\ "unknown" \notin states => ~found
    <2>1. CASE check.family = "tool_results"
        <3>1. states = {ResultMatch(observations, assertion) : assertion \in check.alternatives}
            BY <2>1 DEF CheckStates
        <3>2. \A assertion \in check.alternatives :
                  /\ ResultMatch(observations, assertion) \in {"yes", "no", "unknown"}
                  /\ ResultMatch(observations, assertion) = "yes" =>
                         \E i \in CallLines : Delivers(i, assertion)
                  /\ ResultMatch(observations, assertion) = "no" =>
                         \A i \in CallLines : ~Delivers(i, assertion)
            BY <1>1, <2>1, StatesAreThree, DeliveriesAreSeen DEF States
        <3> HIDE DEF states
        <3> QED
            BY <2>1, <3>1, <3>2
    <2>2. CASE check.family # "tool_results"
        <3>1. states = {CallState(o, assertion) : o \in observations, assertion \in check.alternatives}
            <4>1. CASE check.family = "tools"
                <5>1. \A o, assertion : assertion.input = "any" =>
                          CallState(o, assertion) = ToolState(o, assertion.tool)
                    BY DEF CallState
                <5>2. states = {ToolState(o, assertion.tool) :
                                    o \in observations, assertion \in check.alternatives}
                    BY <4>1 DEF CheckStates
                <5> HIDE DEF states
                <5>3. \A o \in observations, assertion \in check.alternatives :
                          CallState(o, assertion) = ToolState(o, assertion.tool)
                    BY <1>1, <4>1, <5>1
                <5> QED
                    BY <5>2, <5>3
            <4>2. CASE check.family = "actions"
                BY <4>2 DEF CheckStates
            <4> QED
                BY <1>1, <2>2, <4>1, <4>2
        <3>2. \A i \in CallLines, assertion \in check.alternatives :
                  /\ CallState(seen[i], assertion) \in {"yes", "no", "unknown"}
                  /\ CallState(seen[i], assertion) = "yes" => Matches(i, assertion)
                  /\ CallState(seen[i], assertion) = "no" => ~Matches(i, assertion)
            BY CallsAreSeen, StatesAreThree DEF States
        <3> HIDE DEF states
        <3>3. states = {CallState(seen[i], assertion) : i \in CallLines, assertion \in check.alternatives}
            BY <3>1
        <3> QED
            BY <2>2, <3>2, <3>3
    <2> QED
        BY <2>1, <2>2
<1>3. CheckStatus(observations, check) =
          IF "yes" \in states THEN (IF check.forbids THEN "fail" ELSE "pass")
          ELSE IF "unknown" \in states THEN "non-evidence"
          ELSE (IF check.forbids THEN "pass" ELSE "fail")
    BY DEF CheckStatus
<1>4. IF check.forbids THEN Holds(check) <=> ~found ELSE Holds(check) <=> found
    <2>1. Holds(check) = (check.forbids # found) /\ found \in BOOLEAN
        BY DEF Holds
    <2> HIDE DEF found
    <2>2. CASE check.forbids = TRUE
        BY <2>1, <2>2
    <2>3. CASE check.forbids = FALSE
        BY <2>1, <2>3
    <2> QED
        BY <1>1, <2>2, <2>3
<1> HIDE DEF states, found
<1>5. CASE check.forbids = TRUE
    BY <1>2, <1>3, <1>4, <1>5
<1>6. CASE check.forbids = FALSE
    BY <1>2, <1>3, <1>4, <1>6
<1> QED
    BY <1>1, <1>5, <1>6


LEMMA LegibleEvidenceIsReady ==
    ASSUME LinesInv, NEW seen, \A i \in CallLines : Shows(seen[i], i),
           NEW observations, observations = {seen[i] : i \in CallLines},
           NEW checks, Legible(checks),
           \A check \in checks : check.family \in {"tools", "actions", "tool_results"}
    PROVE  FieldsReadiness(observations, TargetEvidenceRequirement(checks).fields) = "ready"
<1> DEFINE fields == TargetEvidenceRequirement(checks).fields
           statuses == {FieldReadiness(o)[f] : o \in observations, f \in fields}
<1>1. fields \subseteq ObservationFields
    BY DEF TargetEvidenceRequirement, RequiredFields, ObservationFields
<1>2. "result_or_error" \in fields => \E check \in checks : check.family = "tool_results"
    BY DEF TargetEvidenceRequirement, RequiredFields, ObservationFields
<1>3. ASSUME NEW i \in CallLines, NEW f \in fields
      PROVE  FieldReadiness(seen[i])[f] = "ready"
    <2> DEFINE o == seen[i]
    <2>1. /\ o.start = i - 1 /\ o.tool = lines[i].tool /\ o.input = lines[i].value
          /\ o.outcome # "missing"
          /\ \E t \in Inner : /\ Pairs(i, t)
                              /\ o.result = IF lines[i].kind = "code_start" THEN "unsupported"
                                            ELSE lines[t].value
        BY DEF Shows
    <2>2. i \in Inner /\ o.start > 0
        <3>1. Len(lines) \in Nat /\ i \in Inner
            BY LineFacts DEF CallLines
        <3> QED
            BY <2>1, <3>1 DEF Inner
    <2>3. o.tool # "hidden" /\ o.input \notin Unavailable
        BY <2>1 DEF Legible
    <2>4. "result_or_error" \in fields => o.result \notin Unavailable
        BY <1>2, <2>1, <2>2 DEF Legible
    <2>5. f \in ObservationFields
        BY <1>1
    <2> HIDE DEF o, fields
    <2>6. f = "result_or_error" => FieldReadiness(o)[f] = "ready"
        BY <2>1, <2>4 DEF FieldReadiness, CheckFieldReadiness
    <2>7. f # "result_or_error" => FieldReadiness(o)[f] = "ready"
        BY <2>1, <2>2, <2>3, <2>5 DEF FieldReadiness, CheckFieldReadiness, ObservationFields
    <2> QED
        BY <2>6, <2>7 DEF o
<1>4. statuses \subseteq {"ready"}
    BY <1>3
<1>5. FieldsReadiness(observations, fields) = Worst(statuses, "ready")
    BY DEF FieldsReadiness
<1> HIDE DEF statuses
<1> QED
    BY <1>4, <1>5 DEF Worst

(* A verdict needs complete evidence.                                       *)
LEMMA BoundariesOfTheRequirement ==
    ASSUME NEW capture, IsCapture(capture), NEW process \in ProcessStates,
           NEW e, e = BuildRuntimeEvidence(capture, process), NEW checks
    PROVE  BoundaryReadiness(e, TargetEvidenceRequirement(checks)) = "ready" <=> e.status = "complete"
<1> DEFINE observed == {e.boundary[b] : b \in ObservedBoundaries}
<1>1. TargetEvidenceRequirement(checks).boundaries = ObservedBoundaries /\ ObservedBoundaries # {}
    BY DEF TargetEvidenceRequirement, ObservedBoundaries
<1>2. e.status = Worst(observed, "complete") /\ observed \subseteq {"complete", "incomplete", "invalid"}
    <2>1. /\ e.status = AccountOf(capture, process).status
          /\ e.boundary = AccountOf(capture, process).boundary
        BY BuiltFields
    <2> DEFINE account == AccountOf(capture, process)
    <2>2. /\ account.boundary \in [ObservedBoundaries -> {"complete", "incomplete", "invalid"}]
          /\ account.status = Worst({account.boundary[b] : b \in ObservedBoundaries}, "complete")
        <3>1. IsAccount(account, ObservationsOf(capture), Malformed(capture),
                        Whole(capture.ended, capture.failures, capture.issues \ InvalidIssues # {}, process))
            BY BuiltAccount
        <3> HIDE DEF account
        <3> QED
            BY <3>1 DEF IsAccount
    <2> HIDE DEF account
    <2>3. e.status = account.status /\ e.boundary = account.boundary
        BY <2>1 DEF account
    <2> QED
        BY <2>2, <2>3
<1>3. BoundaryReadiness(e, TargetEvidenceRequirement(checks)) =
          IF e.status \in {"invalid", "incomplete"} THEN e.status ELSE Worst(observed, "ready")
    BY <1>1 DEF BoundaryReadiness
<1> HIDE DEF observed
<1> QED
    BY <1>2, <1>3 DEF Worst

(* From the lines to the verdict: the checks of a case pass or fail only on *)
(* a faultless capture of a completed process and then as the lines say,    *)
(* and a capture that shows what they read is decided, for every alphabet,  *)
(* every limit and every case (load_runtime_observations,                   *)
(* build_runtime_evidence, target_evidence_requirement and                  *)
(* deterministic_checks taken together).                                    *)
THEOREM ChecksAreToldByLines == Spec => []ChecksTellTheLines
<1>1. LinesInv => ChecksTellTheLines
    <2> DEFINE e(terminated, process) == BuildRuntimeEvidence(Load(lines, terminated), process)
               sound(terminated, process) == terminated /\ process = "completed" /\ Faultless
    <2> SUFFICES ASSUME LinesInv, NEW terminated \in BOOLEAN, NEW process \in ProcessStates,
                        NEW checks \in Cases
                 PROVE  LET verdict == ChecksVerdict(e(terminated, process), checks) IN
                        /\ verdict # "non-evidence" => sound(terminated, process)
                        /\ verdict = "pass" => \A check \in checks : Holds(check)
                        /\ verdict = "fail" => \E check \in checks : ~Holds(check)
                        /\ sound(terminated, process) /\ Legible(checks) => verdict # "non-evidence"
        BY DEF ChecksTellTheLines
    <2> DEFINE built == e(terminated, process)
               verdict == ChecksVerdict(built, checks)
               needs == TargetEvidenceRequirement(checks)
               ready == CheckEvidenceReadiness(built, needs)
               outcomes == Outcomes(built.observations, checks)
    <2>1. IsCapture(Load(lines, terminated))
        BY LineFacts, LoadedIsACapture
    <2>2. BoundaryReadiness(built, needs) = "ready" <=> built.status = "complete"
        BY <2>1, BoundariesOfTheRequirement
    <2>3. built.status = "complete" <=> sound(terminated, process)
        BY <2>1, BuiltStatus, PerfectIsFaultless
    <2>4. verdict = IF ready # "ready" THEN "non-evidence"
                    ELSE IF "fail" \in outcomes THEN "fail"
                    ELSE IF ~(outcomes \subseteq {"pass"}) THEN "non-evidence"
                    ELSE "pass"
        BY DEF ChecksVerdict, ClassifyEvaluation
    <2>5. ready = IF BoundaryReadiness(built, needs) # "ready" THEN BoundaryReadiness(built, needs)
                  ELSE FieldsReadiness(built.observations, needs.fields)
        BY DEF CheckEvidenceReadiness
    <2>6. outcomes = {CheckStatus(built.observations, check) : check \in checks}
        BY DEF Outcomes
    <2>7. \A check \in checks : check.family \in {"tools", "actions", "tool_results"}
        BY CasesAssumption
    <2>8. CASE ~sound(terminated, process)
        <3> HIDE DEF verdict, ready, built, needs, outcomes
        <3>1. verdict = "non-evidence"
            BY <2>2, <2>3, <2>4, <2>5, <2>8
        <3> QED
            BY <2>8, <3>1 DEF verdict, built
    <2>9. CASE sound(terminated, process)
        <3>1. terminated = TRUE /\ Faultless
            BY <2>9
        <3>2. PICK seen : /\ built.observations = {seen[i] : i \in CallLines}
                          /\ \A i \in CallLines : Shows(seen[i], i)
            BY <3>1, FaultlessObservations
        <3>3. \A check \in checks :
                  /\ CheckStatus(built.observations, check) = "pass" => Holds(check)
                  /\ CheckStatus(built.observations, check) = "fail" => ~Holds(check)
            BY <3>2, ChecksAreSeen
        <3>4. Legible(checks) => ready = "ready" /\ outcomes \subseteq {"pass", "fail"}
            <4> SUFFICES ASSUME Legible(checks)
                         PROVE  ready = "ready" /\ outcomes \subseteq {"pass", "fail"}
                OBVIOUS
            <4>1. FieldsReadiness(built.observations, needs.fields) = "ready"
                <5> DEFINE observations == built.observations
                <5> HIDE DEF built
                <5>1. observations = {seen[i] : i \in CallLines}
                    BY <3>2 DEF built
                <5> HIDE DEF observations
                <5>2. FieldsReadiness(observations, TargetEvidenceRequirement(checks).fields) = "ready"
                    BY <2>7, <3>2, <5>1, LegibleEvidenceIsReady
                <5> QED
                    BY <5>2 DEF observations
            <4>2. \A o \in built.observations : o.input # NoObject
                BY <3>2 DEF Legible, Shows
            <4>3. outcomes \subseteq {"pass", "fail"}
                BY <2>7, <4>1, <4>2, ReadyEvidenceDecides
            <4> HIDE DEF ready, built, needs, outcomes
            <4> QED
                BY <2>2, <2>3, <2>5, <2>9, <4>1, <4>3
        <3> HIDE DEF verdict, ready, built, needs, outcomes
        <3>5. verdict = "pass" => \A check \in checks : Holds(check)
            BY <2>4, <2>6, <3>3
        <3>6. verdict = "fail" => \E check \in checks : ~Holds(check)
            BY <2>4, <2>6, <3>3
        <3>7. Legible(checks) => verdict # "non-evidence"
            BY <2>4, <3>4
        <3> QED
            BY <2>9, <3>5, <3>6, <3>7 DEF verdict, built
    <2> QED
        BY <2>8, <2>9
<1> QED
    BY <1>1, LinesAreTyped, PTL

=============================================================================
