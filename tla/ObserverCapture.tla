-------------------------- MODULE ObserverCapture --------------------------
(***************************************************************************)
(* The runner's view of the observer stream: lines arrive one by one on    *)
(* the only connection, in any shape, and at any moment the transport may  *)
(* be finished and the capture built into evidence, with or without the    *)
(* last newline and with any process state.  The writer is unconstrained   *)
(* here (NativeObserver models the real one): the loader and the builder   *)
(* must fail closed on every stream.                                       *)
(***************************************************************************)
EXTENDS RuntimeEvidence, RuntimeAssertions

CONSTANTS Alphabets,   \* sets of contents of tool lines that come up together
          Cases,       \* sets of checks that may be asked of the evidence
          Budget       \* bound on the lines that arrive, see Arrive

(* A content is a whole tool line, but for its place in the stream.         *)
ASSUME AlphabetsAssumption ==
    \A alphabet \in Alphabets : \A content \in alphabet :
        /\ {"form", "seq", "counted", "kind"} \subseteq DOMAIN content
        /\ content.form = "ok" /\ content.counted = TRUE /\ content.kind \in ToolKinds

(* What a check is, see RuntimeAssertions.                                  *)
ASSUME CasesAssumption ==
    \A checks \in Cases : \A check \in checks :
        /\ check.family \in {"tools", "actions", "tool_results"} /\ check.forbids \in BOOLEAN
        /\ check.family = "tools" => \A assertion \in check.alternatives : assertion.input = "any"
        /\ check.family = "tool_results" => \A assertion \in check.alternatives :
               /\ assertion.occurrence \in Nat
               /\ \A call, other \in assertion.after : call = other

VARIABLE lines

Sequenced(content, n) == [f \in DOMAIN content |-> IF f = "seq" THEN n ELSE content[f]]

(* Lines that leave an issue whatever the others are.                       *)
Faults(stream) ==
    LET end == EndAt(stream) IN
    {i \in DOMAIN stream :
        \/ ~Usable(stream, i) \/ stream[i].kind = "other"
        \/ (i = 1) # (stream[i].kind = "capture_start")
        \/ i > end}

ToolsOf(stream) == {i \in DOMAIN stream : stream[i].kind \in ToolKinds}

(* The bound: a fault counts as two tool lines, because one is enough to     *)
(* make the capture faulty and what follows adds little.                    *)
Arrive(line) ==
    LET stream == Append(lines, line) IN
    /\ Cardinality(ToolsOf(stream)) + 2 * Cardinality(Faults(stream)) <= Budget
    /\ lines' = stream

StartLine ==
    Arrive([form |-> "ok", seq |-> Len(lines), counted |-> TRUE, kind |-> "capture_start"])

ToolLine ==
    \E alphabet \in Alphabets :
        /\ \A i \in ToolsOf(lines) :
               \E content \in alphabet : lines[i] = Sequenced(content, lines[i].seq)
        /\ \E content \in alphabet : Arrive(Sequenced(content, Len(lines)))

(* The end of a writer that met no trouble, of one that counted a failure,  *)
(* and of one that counted a start more than arrived.                       *)
EndLine ==
    \E failures \in BOOLEAN, missed \in {0, 1} :
        /\ missed = 1 => ~failures
        /\ Arrive([form |-> "ok", seq |-> Len(lines), counted |-> TRUE, kind |-> "capture_end",
                   failures |-> failures,
                   totals |-> [CountsOf(Records(lines)) EXCEPT !["native_start"] = @ + missed]])

FaultyLine ==
    \E line \in {[form |-> "malformed", seq |-> 0, counted |-> FALSE, kind |-> "other"],
                 [form |-> "wrong_schema", seq |-> 0, counted |-> FALSE, kind |-> "other"],
                 [form |-> "ok", seq |-> Len(lines), counted |-> FALSE, kind |-> "other"],
                 [form |-> "ok", seq |-> Len(lines) + 1, counted |-> TRUE, kind |-> "capture_start"],
                 [form |-> "ok", seq |-> Len(lines), counted |-> TRUE, kind |-> "other"]} :
        Arrive(line)

Init == lines = <<>>
Next == StartLine \/ ToolLine \/ EndLine \/ FaultyLine
Spec == Init /\ [][Next]_lines

BuiltFrom(stream, terminated, process) == BuildRuntimeEvidence(Load(stream, terminated), process)
Built(terminated, process) == BuiltFrom(lines, terminated, process)

---------------------------------------------------------------------------
(* Properties.                                                              *)

(* What the builder produces, whatever arrived, is accepted by both its     *)
(* readers: by its own validator (build_runtime_evidence ends in            *)
(* validate_runtime_evidence, and a rejection there would cost the whole    *)
(* result), and by the host, whose model knows every shape that comes up    *)
(* (InvocationOutcome!Evidence).                                            *)
BuiltEvidenceIsAccepted ==
    \A terminated \in BOOLEAN :
        LET capture == Load(lines, terminated) IN
        \A process \in ProcessStates :
            LET e == BuildRuntimeEvidence(capture, process) IN
            Validates(e) /\ ShapeOf(e) \in Evidence

(* A faultless capture, stated on the lines alone: it opens and closes,     *)
(* nothing is out of order or after the end, the end counts what came, each *)
(* start has one terminal of its own later on, each terminal one start, and *)
(* each Code Mode start follows the observed execute it belongs to.         *)
Inner == 2..(Len(lines) - 1)
Pairs(s, t) ==
    /\ s < t /\ lines[s].id = lines[t].id
    /\ lines[s].tool = lines[t].tool /\ lines[s].who = lines[t].who
    /\ <<lines[s].kind, lines[t].kind, lines[t].outcome, lines[t].boundary>> \in
           {<<"native_start", "native_terminal", "success", "session.tool.success">>,
            <<"native_start", "native_terminal", "error", "session.tool.failed">>,
            <<"code_start", "code_terminal", "success", "tool-handler-return">>,
            <<"code_start", "code_terminal", "error", "tool-handler-throw">>}

Faultless ==
    /\ Len(lines) \in 2..MaxRecords
    /\ \A i \in DOMAIN lines : Usable(lines, i)
    /\ lines[1].kind = "capture_start"
    /\ lines[Len(lines)].kind = "capture_end" /\ ~lines[Len(lines)].failures
    /\ \A i \in Inner : lines[i].kind \in ToolKinds
    /\ \A k \in ToolKinds :
           lines[Len(lines)].totals[k] = Cardinality({i \in Inner : lines[i].kind = k})
    /\ \A i \in Inner : lines[i].kind \in StartKinds =>
           \E t \in Inner : Pairs(i, t) /\ ~(lines[t].kind = "native_terminal" /\ lines[t].value = "omitted")
    /\ \A i \in Inner : lines[i].kind \in TerminalKinds => \E s \in Inner : Pairs(s, i)
    /\ \A i, j \in Inner : i # j /\ lines[i].id = lines[j].id =>
           {lines[i].kind, lines[j].kind} \notin (SUBSET StartKinds) \cup (SUBSET TerminalKinds)
    /\ \A i \in Inner : lines[i].kind \in StartKinds => lines[i].value # "omitted"
    /\ \A i \in Inner : lines[i].kind = "code_start" =>
           \E o \in Inner : /\ o < i /\ lines[o].kind = "native_start" /\ lines[o].id = lines[i].parent
                            /\ lines[o].boundary = "tool-execute-before"
                            /\ lines[o].tool \in {"execute", "hidden"} /\ lines[o].who = lines[i].who

(* Evidence is complete exactly for a faultless capture of a process that   *)
(* completed: everything else fails closed, and nothing faultless is lost.  *)
CompleteExactlyWhenFaultless ==
    \A terminated \in BOOLEAN :
        LET capture == Load(lines, terminated) IN
        \A process \in ProcessStates :
            BuildRuntimeEvidence(capture, process).status = "complete" <=>
                terminated /\ process = "completed" /\ Faultless

(* No later line repairs an invalid capture: what was ambiguous, orphaned   *)
(* or unparented when it arrived stays so, and the end of the capture does  *)
(* not launder it.  (The state before holds all the lines but the last.)    *)
InvalidStaysInvalid ==
    lines # <<>> /\ BuiltFrom(SubSeq(lines, 1, Len(lines) - 1), TRUE, "completed").status = "invalid" =>
        Built(TRUE, "completed").status = "invalid"

(* What a check says of a faultless capture, read off the lines in the      *)
(* order they arrived in.                                                   *)
CallLines == {i \in Inner : lines[i].kind \in StartKinds}
Matches(i, assertion) ==
    lines[i].tool = assertion.tool /\ assertion.input \in {"any", lines[i].value}
Delivers(i, assertion) ==
    /\ Matches(i, assertion)
    /\ assertion.occurrence \in {0, Cardinality({j \in CallLines : j <= i /\ Matches(j, assertion)})}
    /\ \A earlier \in assertion.after : \E j \in CallLines : j < i /\ Matches(j, earlier)
    /\ \E t \in Inner : /\ Pairs(i, t) /\ lines[t].value = assertion.result
                        /\ assertion.status \in {"any", lines[t].outcome}
Holds(check) ==
    check.forbids # \E i \in CallLines, assertion \in check.alternatives :
        IF check.family = "tool_results" THEN Delivers(i, assertion) ELSE Matches(i, assertion)

(* The parts of a faultless capture that a case with these checks reads     *)
(* are all there: no tool or input is redacted, inputs are objects and,     *)
(* for checks of results, every result is there, which those of Code Mode   *)
(* never are.                                                               *)
Legible(checks) ==
    /\ \A i \in CallLines : lines[i].tool # "hidden" /\ lines[i].value \notin Unavailable \cup {NoObject}
    /\ (\E check \in checks : check.family = "tool_results") =>
           \A t \in Inner : lines[t].kind # "code_start" /\ lines[t].value \notin Unavailable

(* From the lines to the verdict: the checks of a case pass or fail only on *)
(* a faultless capture of a completed process and then as the lines say,    *)
(* however the loader, the builder, the evidence requirement, the readiness *)
(* test and the checks share the work; and a capture that shows all a case  *)
(* reads is never turned away.                                              *)
ChecksTellTheLines ==
    \A terminated \in BOOLEAN :
        LET capture == Load(lines, terminated) IN
        \A process \in ProcessStates :
            LET e     == BuildRuntimeEvidence(capture, process)
                sound == terminated /\ process = "completed" /\ Faultless IN
            \A checks \in Cases :
                LET verdict == ChecksVerdict(e, checks) IN
                /\ verdict # "non-evidence" => sound
                /\ verdict = "pass" => \A check \in checks : Holds(check)
                /\ verdict = "fail" => \E check \in checks : ~Holds(check)
                /\ sound /\ Legible(checks) => verdict # "non-evidence"
=============================================================================
