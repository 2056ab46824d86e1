--------------------------- MODULE NativeObserver ---------------------------
(***************************************************************************)
(* The observer plugin in the OpenCode process (container/                 *)
(* native_observer.ts), the loopback stream it writes and the runner's     *)
(* receiving thread (container/native_observer.py, invoke_opencode).       *)
(*                                                                         *)
(* The plugin is single-threaded, but its callbacks interleave at every    *)
(* await: tool handlers, hooks, the event subscription and the teardown.   *)
(* Between the processes there is one FIFO connection that may break, and  *)
(* the process may stop at any moment.  OpenCode is the environment: it    *)
(* dispatches tool calls and publishes one terminal Session event for each *)
(* (a cancelled call's at any moment), starts an inner Code Mode call only *)
(* while its outer execute runs and is not cancelled, and dispatches no    *)
(* native call once the plugin is being disposed of.                       *)
(*                                                                         *)
(* Abstracted: every field has the value "v" (ObserverCapture covers        *)
(* redacted and omitted ones), and the failure counters are reduced to whether one is    *)
(* positive, which is all the loader's readers tell apart.                  *)
(***************************************************************************)
EXTENDS RuntimeEvidence

CONSTANTS
    NativeCalls, InnerCalls,  \* the tool calls OpenCode may make
    Key,        \* of a native call: its (session, message, call) identity
    Outer,      \* of an inner call: the native call it belongs to
    MaxFaults,  \* bound on the faults of the environment before the process stops
    Settings    \* the settings considered, each one a member of AllSettings

(* What one behaviour is run with.                                          *)
(*   tool        of a native call: a "plain" registered tool, the           *)
(*               "synthetic" Code Mode execute, or a "registered" tool      *)
(*               named execute                                              *)
(*   maxCapture  MAX_CAPTURE_BYTES, in lines                                *)
(*   maxChunk    bound on the lines of one recv                             *)
(*   deferred    bound on the interleavings: whether the receiving thread   *)
(*               waits for the process to stop; the plugin never notices,   *)
(*               and what it has not received can still be lost             *)
AllSettings ==
    [tool: [NativeCalls -> {"plain", "synthetic", "registered"}],
     maxCapture: Nat \ {0}, maxChunk: Nat \ {0}, deferred: BOOLEAN]

ASSUME SettingsAssumption == \A s \in Settings : s \in AllSettings
ASSUME CallsAssumption ==
    /\ NativeCalls \cap InnerCalls = {}
    /\ DOMAIN Key = NativeCalls
    /\ \A s \in Settings : Outer \in [InnerCalls -> {c \in NativeCalls : s.tool[c] # "plain"}]
ASSUME FaultsAssumption == MaxFaults \in Nat

VARIABLES
    setting,    \* what this behaviour is run with, never changed
    phase,      \* of each call: where its handler or hook is
    published,  \* of each native call: the outcome of its terminal event
    events,     \* the Session events not yet handled
    observer,   \* where setup and teardown are
    subscribed, \* whether the event subscription still delivers
    active,     \* nativeActive
    outer,      \* activeOuter
    counts,     \* nativeStarts, nativeTerminals, codeStarts, codeTerminals
    troubled,   \* observerFailures + callbackFailures > 0
    sequence,   \* the next sequence number
    socket,     \* the plugin's end of the connection
    wire,       \* lines written and not yet received
    process,    \* the OpenCode process, as subprocess.run sees it
    accepted,   \* whether the receiving thread has the connection
    received,   \* _data, in lines
    issue,      \* _issue
    evidence,   \* the runtime evidence once it is built: a set of at most one
    faults      \* history: how many faults the environment made

callVars     == <<phase, published>>
observerVars == <<observer, subscribed, active, outer, counts, troubled, sequence>>
streamVars   == <<socket, wire>>
runnerVars   == <<accepted, received, issue, evidence>>
vars == <<setting, callVars, events, observerVars, streamVars, process, runnerVars, faults>>

Tool == setting.tool
MaxCapture == setting.maxCapture
MaxChunk == setting.maxChunk
Deferred == setting.deferred

Keys == {Key[c] : c \in NativeCalls}
None == <<"none", "none">>
NoIssue == "none"
Outcomes == {"success", "error"}

Alive == process = "running"
Fault == faults < MaxFaults /\ faults' = faults + 1

---------------------------------------------------------------------------
(* The lines.  An invocation id names the call and where it was observed.   *)

(* What is left of a line whose end never arrived.                          *)
CutLine == [form |-> "malformed", seq |-> 0, counted |-> FALSE, kind |-> "other"]

ToolName(c) == IF Tool[c] = "plain" THEN "read" ELSE "execute"

ToolLine(kind, id, tool, who, boundary, parent, outcome, value) ==
    [form |-> "ok", seq |-> sequence, counted |-> TRUE, kind |-> kind, id |-> id, tool |-> tool,
     who |-> who, boundary |-> boundary, parent |-> parent, outcome |-> outcome, value |-> value]

NativeStart(id, boundary, value) ==
    ToolLine("native_start", id, ToolName(id[2]), Key[id[2]], boundary, None, "none", value)
NativeTerminal(id, outcome) ==
    ToolLine("native_terminal", id, ToolName(id[2]), Key[id[2]],
             ExpectedBoundary["native"][outcome], None, outcome, "v")
CodeStart(i, parent) ==
    ToolLine("code_start", <<"code", i>>, "inner", Key[Outer[i]],
             "decoded-code-tool-handler", parent, "none", "v")
CodeTerminal(i, outcome) ==
    ToolLine("code_terminal", <<"code", i>>, "inner", Key[Outer[i]],
             ExpectedBoundary["code_mode"][outcome], None, outcome, "v")
CaptureStart ==
    [form |-> "ok", seq |-> sequence, counted |-> TRUE, kind |-> "capture_start"]
CaptureEnd ==
    [form |-> "ok", seq |-> sequence, counted |-> TRUE, kind |-> "capture_end",
     totals |-> counts, failures |-> troubled]

(* write: a line that cannot go out takes a sequence number and counts as a *)
(* failure.  `failure` is whether the caller counts one of its own.         *)
Write(line, failure) ==
    /\ sequence' = sequence + 1
    /\ wire' = IF socket = "up" THEN Append(wire, line) ELSE wire
    /\ troubled' = (troubled \/ failure \/ socket # "up")

---------------------------------------------------------------------------
(* setup, and the callbacks of a native call.                               *)

Setup ==
    /\ Alive /\ observer = "unloaded"
    /\ observer' = "observing" /\ subscribed' = TRUE
    /\ Write(CaptureStart, FALSE)
    /\ UNCHANGED <<setting, callVars, events, active, outer, counts, socket, process, runnerVars,
                   faults>>

(* Mutation: an active identity is taken for the same invocation, as in the *)
(* execute.before hook.                                                     *)
EnterWrapperMerging(c) ==
    /\ Alive /\ observer = "observing"
    /\ phase[c] = [plain |-> "idle", registered |-> "hooked", synthetic |-> "never"][Tool[c]]
    /\ IF active[Key[c]] # None
       THEN phase' = [phase EXCEPT ![c] = "running"] /\ UNCHANGED <<counts, active>>
       ELSE /\ phase' = [phase EXCEPT ![c] = "wrapping"]
            /\ counts' = [counts EXCEPT !["native_start"] = @ + 1]
            /\ active' = [active EXCEPT ![Key[c]] = <<"wrapper", c>>]
    /\ UNCHANGED <<setting, published, events, observer, subscribed, outer, troubled, sequence,
                   streamVars,
                   process, runnerVars, faults>>

(* The wrapper of a registered tool, up to its await of the session.  A     *)
(* registered execute has been through the execute.before hook first.       *)
EnterWrapper(c) ==
    /\ Alive /\ observer = "observing"
    /\ phase[c] = [plain |-> "idle", registered |-> "hooked", synthetic |-> "never"][Tool[c]]
    /\ phase' = [phase EXCEPT ![c] = "wrapping"]
    /\ counts' = [counts EXCEPT !["native_start"] = @ + 1]
    /\ troubled' = (troubled \/ active[Key[c]] # None)
    /\ active' = [active EXCEPT ![Key[c]] = <<"wrapper", c>>]
    /\ outer' = IF Tool[c] = "plain" THEN outer ELSE [outer EXCEPT ![Key[c]] = <<"wrapper", c>>]
    /\ UNCHANGED <<setting, published, events, observer, subscribed, sequence, streamVars, process,
                   runnerVars, faults>>

(* The execute.before hook, up to its await of the session.  An identity    *)
(* that is active already is taken for the same invocation.                 *)
AfterHook(c) == IF Tool[c] = "synthetic" THEN "running" ELSE "hooked"

(* Mutation: nativeStarts is left to the write after the await.             *)
EnterHookUncounted(c) ==
    /\ Alive /\ observer = "observing"
    /\ Tool[c] # "plain" /\ phase[c] = "idle" /\ active[Key[c]] = None
    /\ active' = [active EXCEPT ![Key[c]] = <<"hook", c>>]
    /\ outer' = [outer EXCEPT ![Key[c]] = <<"hook", c>>]
    /\ phase' = [phase EXCEPT ![c] = "hooking"]
    /\ UNCHANGED <<setting, published, events, observer, subscribed, counts, troubled, sequence,
                   streamVars,
                   process, runnerVars, faults>>

EnterHook(c) ==
    /\ Alive /\ observer = "observing"
    /\ Tool[c] # "plain" /\ phase[c] = "idle"
    /\ IF active[Key[c]] # None
       THEN /\ outer' = [outer EXCEPT ![Key[c]] = active[Key[c]]]
            /\ phase' = [phase EXCEPT ![c] = AfterHook(c)]
            /\ UNCHANGED <<counts, active>>
       ELSE /\ counts' = [counts EXCEPT !["native_start"] = @ + 1]
            /\ active' = [active EXCEPT ![Key[c]] = <<"hook", c>>]
            /\ outer' = [outer EXCEPT ![Key[c]] = <<"hook", c>>]
            /\ phase' = [phase EXCEPT ![c] = "hooking"]
    /\ UNCHANGED <<setting, published, events, observer, subscribed, troubled, sequence, streamVars,
                   process, runnerVars, faults>>

(* parentSession answered, or failed, and the start is written.             *)
StartIsWritten(c, place, boundary, next) ==
    /\ Alive
    /\ phase' = [phase EXCEPT ![c] = next]
    /\ \E failed \in BOOLEAN :
          /\ Write(NativeStart(<<place, c>>, boundary, IF failed THEN "omitted" ELSE "v"), failed)
          /\ IF failed THEN Fault ELSE UNCHANGED faults
    /\ UNCHANGED <<setting, published, events, observer, subscribed, active, outer, counts, socket,
                   process, runnerVars>>

WrapperStarts(c) ==
    phase[c] = "wrapping" /\ StartIsWritten(c, "wrapper", "decoded-tool-execute", "running")
HookStarts(c) ==
    phase[c] = "hooking" /\ StartIsWritten(c, "hook", "tool-execute-before", AfterHook(c))

(* The tool is over.  execute.after, or the wrapper's finally, closes the   *)
(* outer execute; a rejected synthetic execute may bypass execute.after.    *)
HandlerReturns(c) ==
    /\ Alive /\ phase[c] = "running"
    /\ \E outcome \in Outcomes :
          /\ phase' = [phase EXCEPT ![c] = outcome]
          /\ \/ Tool[c] # "plain" /\ outer' = [outer EXCEPT ![Key[c]] = None]
             \/ (Tool[c] = "plain" \/ (Tool[c] = "synthetic" /\ outcome = "error")) /\ outer' = outer
    /\ UNCHANGED <<setting, published, events, observer, subscribed, active, counts, troubled,
                   sequence,
                   streamVars, process, runnerVars, faults>>

Publish(c, outcome, malformed) ==
    /\ Alive /\ published[c] = "none"
    /\ published' = [published EXCEPT ![c] = outcome]
    /\ events' = Append(events, [key |-> Key[c], outcome |-> outcome, malformed |-> malformed])
    /\ UNCHANGED <<setting, phase, observerVars, streamVars, process, runnerVars>>

(* OpenCode settles a call: with its outcome, or, when it cancels it, as    *)
(* failed while hook, wrapper or tool are still at work.                    *)
Settle(c) ==
    /\ phase[c] \in Outcomes
    /\ \/ Publish(c, phase[c], FALSE) /\ UNCHANGED faults
       \/ Publish(c, phase[c], TRUE) /\ Fault
Cancel(c) ==
    /\ phase[c] \in {"hooking", "hooked", "wrapping", "running"}
    /\ Publish(c, "error", FALSE) /\ Fault

(* Mutation: nativeTerminals is left alone.                                 *)
HandleEventUncounted ==
    /\ Alive /\ subscribed /\ events # <<>>
    /\ events' = Tail(events)
    /\ LET event == Head(events)
           id    == active[event.key] IN
       IF event.malformed \/ id = None
       THEN /\ troubled' = (troubled \/ event.malformed)
            /\ UNCHANGED <<active, sequence, wire>>
       ELSE /\ active' = [active EXCEPT ![event.key] = None]
            /\ Write(NativeTerminal(id, event.outcome), FALSE)
    /\ UNCHANGED <<setting, callVars, observer, subscribed, outer, counts, socket, process, runnerVars,
                   faults>>

(* The event task takes the next event: terminal().                         *)
HandleEvent ==
    /\ Alive /\ subscribed /\ events # <<>>
    /\ events' = Tail(events)
    /\ LET event == Head(events)
           id    == active[event.key] IN
       IF event.malformed \/ id = None
       THEN /\ troubled' = (troubled \/ event.malformed)
            /\ UNCHANGED <<active, counts, sequence, wire>>
       ELSE /\ active' = [active EXCEPT ![event.key] = None]
            /\ counts' = [counts EXCEPT !["native_terminal"] = @ + 1]
            /\ Write(NativeTerminal(id, event.outcome), FALSE)
    /\ UNCHANGED <<setting, callVars, observer, subscribed, outer, socket, process, runnerVars,
                   faults>>

---------------------------------------------------------------------------
(* The wrapper of a Code Mode tool.  Without an open outer execute the call *)
(* runs unobserved.                                                         *)

EnterInner(i) ==
    /\ Alive /\ phase[i] = "idle"
    /\ phase[Outer[i]] = "running" /\ published[Outer[i]] = "none"
    /\ LET parent == outer[Key[Outer[i]]] IN
       IF parent = None
       THEN phase' = [phase EXCEPT ![i] = "unobserved"] /\ UNCHANGED <<counts, troubled, sequence, wire>>
       ELSE /\ phase' = [phase EXCEPT ![i] = "running"]
            /\ counts' = [counts EXCEPT !["code_start"] = @ + 1]
            /\ Write(CodeStart(i, parent), FALSE)
    /\ UNCHANGED <<setting, published, events, observer, subscribed, active, outer, socket, process,
                   runnerVars, faults>>

InnerReturns(i) ==
    /\ Alive /\ phase[i] = "running"
    /\ \E outcome \in Outcomes :
          /\ phase' = [phase EXCEPT ![i] = outcome]
          /\ counts' = [counts EXCEPT !["code_terminal"] = @ + 1]
          /\ Write(CodeTerminal(i, outcome), FALSE)
    /\ UNCHANGED <<setting, published, events, observer, subscribed, active, outer, socket, process,
                   runnerVars, faults>>

---------------------------------------------------------------------------
(* Teardown: a turn of the event loop, the abort, the event task's end, and *)
(* then capture_end, with other callbacks in between.                       *)

Dispose ==
    /\ Alive /\ observer = "observing"
    /\ observer' = "disposing"
    /\ UNCHANGED <<setting, callVars, events, subscribed, active, outer, counts, troubled, sequence,
                   streamVars, process, runnerVars, faults>>

Abort ==
    /\ Alive /\ observer = "disposing"
    /\ observer' = "aborted" /\ subscribed' = FALSE
    /\ UNCHANGED <<setting, callVars, events, active, outer, counts, troubled, sequence, streamVars,
                   process, runnerVars, faults>>

WriteCaptureEnd ==
    /\ Alive /\ observer = "aborted"
    /\ observer' = "ended"
    /\ Write(CaptureEnd, FALSE)
    /\ socket' = IF socket = "up" THEN "ended" ELSE socket
    /\ UNCHANGED <<setting, callVars, events, subscribed, active, outer, counts, process,
                   runnerVars, faults>>

---------------------------------------------------------------------------
(* Faults, and the end of the process.                                      *)

(* The subscription throws.                                                 *)
SubscriptionFails ==
    /\ Alive /\ subscribed /\ Fault
    /\ subscribed' = FALSE /\ troubled' = TRUE
    /\ UNCHANGED <<setting, callVars, events, observer, active, outer, counts, sequence, streamVars,
                   process, runnerVars>>

(* Some prefix of what was written still arrives, perhaps cut in a line.    *)
LoseTail ==
    \E n \in 0..Len(wire) :
        wire' \in {SubSeq(wire, 1, n)} \cup
                  IF n < Len(wire) THEN {Append(SubSeq(wire, 1, n), CutLine)} ELSE {}

(* The connection breaks; the runner may see an error or just its end.      *)
SocketBreaks ==
    /\ Alive /\ socket # "broken" /\ Fault
    /\ socket' = "broken" /\ troubled' = TRUE
    /\ LoseTail
    /\ issue' \in {issue, IF accepted THEN "capture_io_error" ELSE issue}
    /\ UNCHANGED <<setting, callVars, events, observer, subscribed, active, outer, counts, sequence,
                   process, accepted, received, evidence>>

(* The process exits after its teardown, everything flushed, or at any      *)
(* moment otherwise.                                                        *)
ExitCleanly ==
    /\ Alive /\ observer = "ended"
    /\ process' = "exited"
    /\ UNCHANGED <<setting, callVars, events, observerVars, streamVars, runnerVars, faults>>
ExitAbruptly ==
    /\ Alive
    /\ process' = "exited" /\ faults' = faults + 1
    /\ LoseTail
    /\ UNCHANGED <<setting, callVars, events, observerVars, socket, runnerVars>>

(* subprocess.run kills the process when its timeout expires.               *)
TimeOut ==
    /\ Alive
    /\ process' = "timeout" /\ faults' = faults + 1
    /\ LoseTail
    /\ UNCHANGED <<setting, callVars, events, observerVars, socket, runnerVars>>

---------------------------------------------------------------------------
(* The receiving thread, and finish().                                      *)

Accept ==
    /\ ~accepted /\ observer # "unloaded" /\ evidence = {}
    /\ Deferred => ~Alive
    /\ accepted' = TRUE
    /\ UNCHANGED <<setting, callVars, events, observerVars, streamVars, process, received, issue,
                   evidence, faults>>

(* Mutation: a chunk beyond the limit is dropped in silence.                *)
ReceiveSilently ==
    /\ accepted /\ evidence = {}
    /\ \E n \in 1..MaxChunk :
          /\ n <= Len(wire)
          /\ wire' = SubSeq(wire, n + 1, Len(wire))
          /\ received' = IF Len(received) + n > MaxCapture THEN received
                         ELSE received \o SubSeq(wire, 1, n)
    /\ UNCHANGED <<setting, callVars, events, observerVars, socket, process, accepted, issue,
                   evidence, faults>>

(* One recv.  A chunk beyond the limit is dropped and the thread goes on.    *)
Receive ==
    /\ accepted /\ evidence = {}
    /\ \E n \in 1..MaxChunk :
          /\ n <= Len(wire)
          /\ wire' = SubSeq(wire, n + 1, Len(wire))
          /\ IF Len(received) + n > MaxCapture
             THEN issue' = "malformed_capture" /\ UNCHANGED received
             ELSE received' = received \o SubSeq(wire, 1, n) /\ UNCHANGED issue
    /\ UNCHANGED <<setting, callVars, events, observerVars, socket, process, accepted, evidence,
                   faults>>

Terminated == received = <<>> \/ received[Len(received)] # CutLine

Capture(finalIssue) ==
    LET loaded == Load(received, Terminated) IN
    [loaded EXCEPT !.issues = @ \cup ({finalIssue} \ {NoIssue})]

ProcessState(capture) ==
    IF process = "timeout" THEN "timeout"
    ELSE IF capture.ended THEN "completed" ELSE "interrupted"

(* Mutation: finish() joins the thread without a timeout.                   *)
FinishWhenDrained ==
    /\ ~Alive /\ evidence = {} /\ accepted /\ wire = <<>>
    /\ \E capture \in {Capture(issue)} :
          evidence' = {BuildRuntimeEvidence(capture, ProcessState(capture))}
    /\ UNCHANGED <<setting, callVars, events, observerVars, streamVars, process, accepted,
                   received, issue, faults>>

(* finish() after the process: the thread drained the connection, or the    *)
(* join timed out, or the closed listener left it without a connection.     *)
Finish ==
    /\ ~Alive /\ evidence = {}
    /\ \E final \in IF accepted /\ wire = <<>> THEN {issue}
                   ELSE IF accepted THEN {"capture_io_error"}
                   ELSE {issue, "capture_io_error"} :
          /\ issue' = final
          /\ \E capture \in {Capture(final)} :
                evidence' = {BuildRuntimeEvidence(capture, ProcessState(capture))}
    /\ UNCHANGED <<setting, callVars, events, observerVars, streamVars, process, accepted,
                   received, faults>>

---------------------------------------------------------------------------
Init ==
    /\ setting \in Settings
    /\ phase = [c \in NativeCalls \cup InnerCalls |-> "idle"]
    /\ published = [c \in NativeCalls |-> "none"]
    /\ events = <<>>
    /\ observer = "unloaded" /\ subscribed = FALSE
    /\ active = [k \in Keys |-> None] /\ outer = [k \in Keys |-> None]
    /\ counts = [k \in ToolKinds |-> 0]
    /\ troubled = FALSE /\ sequence = 0
    /\ socket = "up" /\ wire = <<>>
    /\ process = "running"
    /\ accepted = FALSE /\ received = <<>> /\ issue = NoIssue
    /\ evidence = {} /\ faults = 0

NativeStep(c) ==
    \/ EnterWrapper(c) \/ EnterHook(c) \/ WrapperStarts(c) \/ HookStarts(c)
    \/ HandlerReturns(c) \/ Settle(c) \/ Cancel(c)
Plugin ==
    \/ Setup \/ HandleEvent \/ Dispose \/ Abort \/ WriteCaptureEnd
    \/ \E c \in NativeCalls : NativeStep(c)
    \/ \E i \in InnerCalls : EnterInner(i) \/ InnerReturns(i)
Environment == SubscriptionFails \/ SocketBreaks \/ ExitCleanly \/ ExitAbruptly \/ TimeOut
Runner == Accept \/ Receive \/ Finish
Next == Plugin \/ Environment \/ Runner

Spec == Init /\ [][Next]_vars

(* The runner bounds the process with a timeout and then finishes, whatever *)
(* the plugin and the receiving thread do; nothing else is assumed fair.    *)
FairSpec == Spec /\ WF_vars(TimeOut) /\ WF_vars(Finish)

---------------------------------------------------------------------------
(* Properties.                                                              *)

Dispatched(c) == phase[c] # "idle"
NativePhases == {"idle", "hooking", "hooked", "wrapping", "running"} \cup Outcomes
InnerPhases == {"idle", "running", "unobserved"} \cup Outcomes
Ids == {None} \cup ({"wrapper", "hook"} \X NativeCalls)

(* Every variable has its type, and the capture stays within its limit.     *)
TypeOK ==
    /\ setting \in Settings
    /\ \A c \in NativeCalls : phase[c] \in NativePhases
    /\ \A i \in InnerCalls : phase[i] \in InnerPhases
    /\ published \in [NativeCalls -> {"none"} \cup Outcomes]
    /\ \A i \in DOMAIN events : events[i].key \in Keys /\ events[i].outcome \in Outcomes
    /\ observer \in {"unloaded", "observing", "disposing", "aborted", "ended"}
    /\ active \in [Keys -> Ids] /\ outer \in [Keys -> Ids]
    /\ counts \in [ToolKinds -> Nat] /\ sequence \in Nat
    /\ {subscribed, troubled, accepted} \subseteq BOOLEAN
    /\ socket \in {"up", "ended", "broken"} /\ process \in {"running", "exited", "timeout"}
    /\ issue \in {NoIssue, "malformed_capture", "capture_io_error"}
    /\ Len(received) <= MaxCapture
    /\ \A e \in evidence : ShapeOf(e) \in Evidence

(* Complete evidence tells the whole truth: every tool call that was ever   *)
(* dispatched, inner calls included, is observed with the outcome it really *)
(* had, and nothing else is.  This is what an assertion that needs evidence *)
(* relies on.                                                               *)
Called(o) == o.id[2]
TrueOutcome(c) == IF c \in NativeCalls THEN published[c] ELSE phase[c]
CompleteIsTheWholeTruth ==
    \A e \in evidence : e.status = "complete" =>
        /\ \A c \in NativeCalls \cup InnerCalls :
               Dispatched(c) => \E o \in e.observations : Called(o) = c /\ o.outcome = TrueOutcome(c)
        /\ \A o \in e.observations : Dispatched(Called(o))
        /\ Cardinality(e.observations) = Cardinality({Called(o) : o \in e.observations})

(* Evidence that is taken as the proof that an attempt may be repeated is   *)
(* one: no tool call was ever dispatched.  This is the assumption the       *)
(* attempt loop makes of its replies (EvaluationPhase!Replies).             *)
NoInvocationProofIsSound ==
    \A e \in evidence :
        EvidenceProvesNoInvocation(ShapeOf(e)) => \A c \in NativeCalls \cup InnerCalls : ~Dispatched(c)

(* Two invocations with one identity at the same time are ambiguous and     *)
(* must fail closed (docs/native-tool-observer.md:60): evidence that is      *)
(* complete observes each of them on its own.                               *)
DuplicatesFailClosed ==
    \A e \in evidence : e.status = "complete" =>
        \A c, d \in NativeCalls :
            c # d /\ Key[c] = Key[d] /\ Dispatched(c) /\ Dispatched(d) =>
                {c, d} \subseteq {Called(o) : o \in e.observations}

(* Failing closed costs nothing when nothing fails: a run without a fault   *)
(* whose calls had all settled, and whose events had been handled, before   *)
(* the abort yields complete evidence unless the capture was too large, the *)
(* runner did not drain it, or an identity was used twice at once.          *)
Ambiguous ==
    \/ \E c \in NativeCalls : Dispatched(c) /\ Tool[c] = "registered"
    \/ \E c, d \in NativeCalls : c # d /\ Key[c] = Key[d] /\ Dispatched(c) /\ Dispatched(d)
CleanRunsAreComplete ==
    \A e \in evidence :
        /\ faults = 0 /\ ~Ambiguous /\ issue = NoIssue /\ accepted /\ Len(received) <= MaxRecords
        /\ \A c \in NativeCalls \cup InnerCalls : phase[c] \in {"idle"} \cup Outcomes
        /\ \A c \in NativeCalls : Dispatched(c) => published[c] # "none"
        /\ \A i \in DOMAIN received : received[i].kind = "capture_end" =>
               \A k \in ToolKinds : received[i].totals[k] = counts[k]
        /\ active = [k \in Keys |-> None]
        => e.status = "complete"

(* The stream reports what it lost: the lines the runner holds are in the   *)
(* writer's order without a gap, unless it dropped a chunk and says so.     *)
GapsAreReported ==
    (\E i \in DOMAIN received : received[i] # CutLine /\ received[i].seq # i - 1) =>
        issue # NoIssue

(* The runner never waits forever for the plugin: the evidence of every     *)
(* invocation is built in the end, whether or not the plugin connected,     *)
(* closed its end, or was heard at all.                                     *)
EvidenceIsBuilt == <>(evidence # {})
=============================================================================
