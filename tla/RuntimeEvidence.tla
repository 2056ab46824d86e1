--------------------------- MODULE RuntimeEvidence ---------------------------
(***************************************************************************)
(* The pure half of runtime evidence: how a captured stream of observer    *)
(* lines is loaded (container/native_observer.py), turned into a           *)
(* runtime_evidence/v1 object, accounted for and validated again           *)
(* (container/runtime_evidence.py).                                        *)
(*                                                                         *)
(* A line of the stream is a record:                                       *)
(*   form      "ok", "malformed" (no JSON object) or "wrong_schema"        *)
(*   seq       its sequence number                                         *)
(*   counted   whether its two failure counters are counts                 *)
(*   kind      capture_start, capture_end, a tool kind or "other"          *)
(* a tool line also has                                                    *)
(*   id, tool  the invocation and the tool ("hidden" when redacted)        *)
(*   who       session, message, call and agent: the runtime identity      *)
(*   boundary, outcome, parent                                             *)
(*   value     the input of a start, the result or error of a terminal,    *)
(*             or "redacted" or "omitted" where that is not available     *)
(* and a capture_end line has `totals`, the counts per tool kind, and       *)
(* `failures`, whether one of its failure counters is positive.  A          *)
(* capture_end whose counts are no counts is a line of kind "other": both   *)
(* are skipped and leave an issue that makes the evidence invalid.          *)
(***************************************************************************)
EXTENDS InvocationOutcome, FiniteSetsExt

CONSTANT MaxRecords    \* MAX_RECORDS, the limit on the lines of a capture
ASSUME MaxRecordsAssumption == MaxRecords \in Nat \ {0}

StartKinds == {"native_start", "code_start"}
TerminalKinds == {"native_terminal", "code_terminal"}
ToolKinds == StartKinds \cup TerminalKinds

---------------------------------------------------------------------------
(* load_runtime_observations.                                               *)

Usable(stream, i) == stream[i].form = "ok" /\ stream[i].seq = i - 1 /\ stream[i].counted
Started(stream) == Usable(stream, 1) /\ stream[1].kind = "capture_start"
EndLines(stream) == {i \in 2..Len(stream) : Usable(stream, i) /\ stream[i].kind = "capture_end"}

(* The first capture_end closes the capture; lines after it are not records. *)
EndAt(stream) == IF EndLines(stream) = {} THEN Len(stream) + 1 ELSE Min(EndLines(stream))
Body(stream) == {i \in 2..(EndAt(stream) - 1) : Usable(stream, i)}
Records(stream) == {stream[i] : i \in {j \in Body(stream) : stream[j].kind \in ToolKinds}}

CountsOf(records) == [k \in ToolKinds |-> Cardinality({r \in records : r.kind = k})]

(* Mutation: only the terminals are counted.                                *)
TerminalCountsDiffer(stream) ==
    /\ EndLines(stream) # {}
    /\ \E k \in TerminalKinds : stream[EndAt(stream)].totals[k] # CountsOf(Records(stream))[k]

CountsDiffer(stream) ==
    EndLines(stream) # {} /\ stream[EndAt(stream)].totals # CountsOf(Records(stream))

LoadIssues(stream, terminated) ==
    LET raised ==
        [unterminated_capture |-> ~terminated,
         malformed_capture |-> \E i \in DOMAIN stream :
             \/ stream[i].form = "malformed"
             \/ stream[i].form = "ok" /\ stream[i].seq = i - 1 /\ ~stream[i].counted,
         wrong_schema |-> \E i \in DOMAIN stream : stream[i].form = "wrong_schema",
         ambiguous_order |-> \E i \in DOMAIN stream : stream[i].form = "ok" /\ stream[i].seq # i - 1,
         invalid_capture_start |-> ~Started(stream),
         records_after_capture_end |-> \E i \in DOMAIN stream : i > EndAt(stream) /\ Usable(stream, i),
         invalid_record |-> \E i \in Body(stream) : stream[i].kind \notin ToolKinds,
         missing_capture_end |-> EndLines(stream) = {},
         count_mismatch |-> CountsDiffer(stream)]
    IN {code \in DOMAIN raised : raised[code]}

(* The failure counters of a capture without an end are unknown, which the  *)
(* accounting reads as no failure: the missing end is an issue of its own.  *)
EmptyCapture(reason) ==
    [started |-> FALSE, ended |-> FALSE, records |-> {}, failures |-> FALSE, issues |-> {reason}]

Load(stream, terminated) ==
    IF stream = <<>> THEN EmptyCapture("empty_capture")
    ELSE IF Len(stream) > MaxRecords THEN EmptyCapture("malformed_capture")
    ELSE LET ended == EndLines(stream) # {} IN
         [started |-> Started(stream), ended |-> ended, records |-> Records(stream),
          failures |-> ended /\ stream[EndAt(stream)].failures,
          issues |-> LoadIssues(stream, terminated)]

---------------------------------------------------------------------------
(* account_runtime_evidence, over the observations both of its callers make  *)
(* up: their invocations and sequences are already unique, so what remains   *)
(* of its own duplicate handling is `malformed`, the empty event a caller    *)
(* adds for anything it cannot represent.                                    *)

BoundaryOf(o) == IF o.mode = "native" THEN "native" ELSE "code_mode_execution"

(* Mutation: evidence is judged without the state of the process.           *)
IncompleteWhateverProcess(closed, failures, losses, process) == ~closed \/ failures \/ losses

GloballyIncomplete(closed, failures, losses, process) ==
    ~closed \/ failures \/ losses \/ process # "completed"

Account(observations, malformed, closed, failures, losses, process) ==
    LET globallyIncomplete == GloballyIncomplete(closed, failures, losses, process)
        unsettled(o) == o.omitted \/ o.outcome = "missing"
        boundary == [b \in ObservedBoundaries |->
            IF malformed THEN "invalid"
            ELSE IF globallyIncomplete \/ \E o \in observations : BoundaryOf(o) = b /\ unsettled(o)
                 THEN "incomplete" ELSE "complete"]
        issues == [malformed_observation |-> malformed,
                   observation_not_closed |-> ~closed,
                   observer_failure |-> failures,
                   observation_loss |-> losses,
                   runtime_timeout |-> process = "timeout",
                   process_interrupted |-> process = "interrupted",
                   missing_terminal |-> \E o \in observations : o.outcome = "missing",
                   required_field_omitted |-> \E o \in observations : o.omitted]
    IN [boundary |-> boundary,
        status |-> Worst({boundary[b] : b \in ObservedBoundaries}, "complete"),
        issues |-> {code \in DOMAIN issues : issues[code]}]

---------------------------------------------------------------------------
(* build_runtime_evidence.                                                  *)

ProcessStates == {"completed", "timeout", "interrupted"}

(* _capture_issue_kind: these make the evidence invalid, every other code   *)
(* makes it incomplete.                                                     *)
InvalidIssues ==
    {"malformed_capture", "malformed_observation", "wrong_schema", "ambiguous_order",
     "records_after_capture_end", "invalid_capture_start", "invalid_record", "count_mismatch",
     "unterminated_capture"}

FirstOf(records, kinds) ==
    {r \in records : /\ r.kind \in kinds
                     /\ \A q \in records : q.kind \in kinds /\ q.id = r.id => r.seq <= q.seq}

Mode(start) == IF start.kind = "native_start" THEN "native" ELSE "code_mode"

(* Mutation: the parent may also start later.                               *)
CodeParentIsAnywhere(start, starts) ==
    \E outer \in starts :
        /\ outer.id = start.parent /\ outer.kind = "native_start"
        /\ outer.boundary = "tool-execute-before"
        /\ outer.tool \in {"execute", "hidden"}
        /\ outer.who = start.who

(* _code_parent_is_observed: the parent is the outer execute, seen at its    *)
(* hook, earlier, with the same runtime identity.                            *)
CodeParentIsObserved(start, starts) ==
    \E outer \in starts :
        /\ outer.id = start.parent /\ outer.kind = "native_start"
        /\ outer.boundary = "tool-execute-before"
        /\ outer.seq < start.seq
        /\ outer.tool \in {"execute", "hidden"}
        /\ outer.who = start.who

ExpectedBoundary ==
    [native |-> [success |-> "session.tool.success", error |-> "session.tool.failed"],
     code_mode |-> [success |-> "tool-handler-return", error |-> "tool-handler-throw"]]

Settles(t, start) ==
    /\ t.id = start.id
    /\ t.kind = (IF Mode(start) = "native" THEN "native_terminal" ELSE "code_terminal")
    /\ t.tool = start.tool /\ t.who = start.who
    /\ t.outcome \in {"success", "error"}
    /\ t.boundary = ExpectedBoundary[Mode(start)][t.outcome]
    /\ t.seq > start.seq

Observation(start, terminals) ==
    LET settling == {t \in terminals : Settles(t, start)}
        missing  == settling = {}
        t        == CHOOSE x \in settling : TRUE IN
    [id |-> start.id, mode |-> Mode(start), tool |-> start.tool, who |-> start.who,
     parent |-> start.parent, start |-> start.seq,
     outcome |-> IF missing THEN "missing" ELSE t.outcome,
     terminal |-> IF missing THEN 0 ELSE t.seq,
     input |-> start.value,
     result |-> IF missing THEN "omitted"
                ELSE IF Mode(start) = "code_mode" THEN "unsupported" ELSE t.value,
     \* only a native terminal carries a required result or error
     omitted |-> \/ start.value = "omitted"
                 \/ ~missing /\ Mode(start) = "native" /\ t.value = "omitted"]

BuildRuntimeEvidence(capture, process) ==
    LET starts       == FirstOf(capture.records, StartKinds)
        terminals    == FirstOf(capture.records, TerminalKinds)
        observations == {Observation(s, terminals) : s \in starts}
        invalidCapture == \/ capture.issues \cap InvalidIssues # {}
                          \/ capture.records # starts \cup terminals
        malformed ==
            \/ invalidCapture
            \/ \E s \in starts : s.kind = "code_start" /\ ~CodeParentIsObserved(s, starts)
            \/ \E t \in terminals : ~\E s \in starts : Settles(t, s)
        accounting == Account(observations, malformed, capture.ended, capture.failures,
                              capture.issues \ InvalidIssues # {}, process)
    IN [status |-> accounting.status, boundary |-> accounting.boundary,
        observations |-> observations, closed |-> capture.ended, failures |-> capture.failures,
        process |-> process, counts_known |-> capture.started,
        losses |-> capture.issues \cup accounting.issues
                   \cup IF invalidCapture THEN {"malformed_observation"} ELSE {}]

---------------------------------------------------------------------------
(* validate_runtime_evidence, for an observed transport.                    *)

CountedLosses == {"missing_capture", "empty_capture", "unterminated_capture",
                  "missing_capture_end", "capture_io_error"}

OuterOf(o, e) == {x \in e.observations : x.id = o.parent /\ x.start < o.start}

ObservationsAreConsistent(e) ==
    /\ \A o \in e.observations :
           /\ \A x \in e.observations \ {o} : x.id # o.id /\ x.start # o.start
           /\ o.outcome # "missing" =>
                  /\ o.terminal > o.start
                  /\ \A x \in e.observations :
                         x.start # o.terminal /\ (x # o => x.terminal # o.terminal)
           /\ o.mode = "code_mode" /\ e.status # "invalid" =>
                  \E outer \in OuterOf(o, e) :
                      outer.mode = "native" /\ outer.tool \in {"execute", "hidden"} /\ outer.who = o.who

Validates(e) ==
    LET accounting == Account(e.observations, e.losses \cap InvalidIssues # {}, e.closed,
                              e.failures, e.losses \cap CountedLosses # {}, e.process)
    IN /\ e.counts_known \/ (e.status \in {"incomplete", "invalid"} /\ e.losses # {})
       /\ ObservationsAreConsistent(e)
       /\ e.status = accounting.status
       /\ e.boundary = accounting.boundary

(* What the host tells apart of a built object; `empty` also needs the       *)
(* counts to be known, as _runtime_evidence_proves_no_invocation does.       *)
ShapeOf(e) ==
    [status |-> e.status,
     boundary |-> [b \in Boundaries |-> IF b \in ObservedBoundaries THEN e.boundary[b] ELSE "unsupported"],
     empty |-> e.observations = {} /\ e.counts_known,
     field |-> FieldsReadiness(e.observations, ObservationFields),
     process |-> e.process]
=============================================================================
