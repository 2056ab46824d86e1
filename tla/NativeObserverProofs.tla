------------------------ MODULE NativeObserverProofs ------------------------
(***************************************************************************)
(* Proofs about NativeObserver, for every set of calls, every setting and  *)
(* every number of faults.                                                 *)
(***************************************************************************)
EXTENDS NativeObserver, EvidenceProofs, SequenceTheorems

(***************************************************************************)
(* The inductive invariant.                                                *)
(***************************************************************************)

NativeIds == {"hook", "wrapper"} \X NativeCalls
CodeIds   == {"code"} \X InnerCalls
Calls     == NativeCalls \cup InnerCalls

ToolNames == {"read", "execute", "inner"}
LineBoundaries ==
    {"decoded-tool-execute", "tool-execute-before", "session.tool.success", "session.tool.failed",
     "decoded-code-tool-handler", "tool-handler-return", "tool-handler-throw"}

ToolLines ==
    [form: {"ok"}, seq: Nat, counted: {TRUE}, kind: ToolKinds, id: NativeIds \cup CodeIds,
     tool: ToolNames, who: Keys, boundary: LineBoundaries, parent: Ids, outcome: {"none"} \cup Outcomes,
     value: {"v", "omitted"}]
CaptureStarts == [form: {"ok"}, seq: Nat, counted: {TRUE}, kind: {"capture_start"}]
CaptureEnds ==
    [form: {"ok"}, seq: Nat, counted: {TRUE}, kind: {"capture_end"},
     totals: [ToolKinds -> Nat], failures: BOOLEAN]
Lines == ToolLines \cup CaptureStarts \cup CaptureEnds \cup {CutLine}

Events == [key: Keys, outcome: Outcomes, malformed: BOOLEAN]

(* The variables have their types, the streams being sequences of lines and *)
(* the phases those of the call's tool.                                     *)
CallTypes ==
    /\ setting \in Settings
    /\ phase \in [Calls -> NativePhases \cup InnerPhases]
    /\ \A c \in NativeCalls :
           /\ phase[c] \in NativePhases
           /\ phase[c] \in {"hooking", "hooked"} => Tool[c] # "plain"
           /\ phase[c] = "wrapping" => Tool[c] # "synthetic"
           /\ phase[c] = "hooked" => Tool[c] = "registered"
    /\ \A i \in InnerCalls : phase[i] \in InnerPhases
    /\ published \in [NativeCalls -> {"none"} \cup Outcomes]
    /\ events \in Seq(Events)
PluginTypes ==
    /\ observer \in {"unloaded", "observing", "disposing", "aborted", "ended"}
    /\ active \in [Keys -> Ids] /\ outer \in [Keys -> Ids]
    /\ counts \in [ToolKinds -> Nat] /\ sequence \in Nat
    /\ {subscribed, troubled} \subseteq BOOLEAN
StreamTypes ==
    /\ socket \in {"up", "ended", "broken"} /\ process \in {"running", "exited", "timeout"}
    /\ issue \in {NoIssue, "malformed_capture", "capture_io_error"} /\ accepted \in BOOLEAN
    /\ wire \in Seq(Lines) /\ received \in Seq(Lines)
    /\ Len(received) <= MaxCapture
Types == CallTypes /\ PluginTypes /\ StreamTypes

(* The lines that are under way or arrived, in any order.                   *)
Held == {wire[i] : i \in DOMAIN wire} \cup {received[i] : i \in DOMAIN received}

(* The teardown ends the connection and the subscription.                   *)
TeardownInv ==
    /\ observer = "ended" => socket # "up"
    /\ subscribed => observer \in {"observing", "disposing"}

(* The evidence is built from the capture as it stays.                      *)
BuiltInv ==
    \A e \in evidence :
        ~Alive /\ e = BuildRuntimeEvidence(Capture(issue), ProcessState(Capture(issue)))

(* The lines keep the writer's order.                                       *)
OrderInv ==
    issue = NoIssue =>
        /\ \A i \in DOMAIN received : received[i] = CutLine \/ received[i].seq = i - 1
        /\ \A i \in DOMAIN wire : wire[i] = CutLine \/ wire[i].seq = Len(received) + i - 1
        /\ socket = "up" /\ Alive => Len(received) + Len(wire) = sequence

(* The invocations that were entered: of a registered execute its hook and, *)
(* later, its wrapper.                                                      *)
Entered ==
    {id \in NativeIds :
        IF id[1] = "hook" THEN Tool[id[2]] # "plain" /\ phase[id[2]] # "idle"
        ELSE /\ Tool[id[2]] # "synthetic"
             /\ phase[id[2]] \in {"wrapping", "running"} \cup Outcomes}
InnerEntered == {i \in InnerCalls : phase[i] \in {"running"} \cup Outcomes}

(* What a line says is so, and stays so.                                    *)
Tells(line) ==
    /\ line.kind = "native_start" => line.id \in Entered
    /\ line.kind = "native_terminal" => line.id \in NativeIds /\ line.outcome \in Outcomes
    /\ line.kind = "code_start" => line.id \in CodeIds /\ line.id[2] \in InnerEntered
    /\ line.kind = "code_terminal" =>
           line.id \in CodeIds /\ line.outcome \in Outcomes /\ phase[line.id[2]] = line.outcome
    /\ line.kind = "capture_end" =>
           observer = "ended" /\ line.totals["native_start"] = counts["native_start"]

(* What is dispatched is counted, before anything of it can be lost.        *)
CountInv ==
    /\ \A c \in NativeCalls : Dispatched(c) => counts["native_start"] > 0
    /\ \A k \in Keys : active[k] # None =>
           /\ counts["native_start"] > 0
           /\ active[k] \in Entered /\ Key[active[k][2]] = k
    /\ \A i \in InnerCalls : Dispatched(i) => Dispatched(Outer[i])
    /\ \A line \in Held : Tells(line)

(***************************************************************************)
(* While calls other than the registered plain ones have an identity of    *)
(* their own, a capture that ended well misled nobody.                     *)
(***************************************************************************)

OwnIdentities ==
    \A s \in Settings : \A c, d \in NativeCalls : c # d /\ Key[c] = Key[d] => s.tool[c] = "plain"

(* No failure was counted before capture_end was written.                   *)
Clean ==
    \/ observer # "ended" /\ ~troubled
    \/ \E line \in Held : line.kind = "capture_end" /\ ~line.failures

(* An open call is the active one of its identity.                          *)
OpenCallsAreActive ==
    \A c \in NativeCalls :
        Dispatched(c) /\ published[c] = "none" =>
            active[Key[c]] # None /\ active[Key[c]][2] = c

(* An event finds the call it is about.                                     *)
EventsFindTheirCalls ==
    \A i \in DOMAIN events :
        /\ active[events[i].key] # None
        /\ published[active[events[i].key][2]] = events[i].outcome
        /\ \A j \in DOMAIN events : events[j].key = events[i].key => j = i

(* A wrapper that its hook's terminal overtook gets none of its own.        *)
LateWrappersStayOpen ==
    \A c \in NativeCalls :
        Tool[c] = "registered" /\ <<"wrapper", c>> \in Entered =>
            /\ published[c] # "none"
            /\ \A i \in DOMAIN events : events[i].key # Key[c]

(* A terminal line tells what was published.                                *)
TerminalsAreTrue ==
    \A line \in Held :
        line.kind = "native_terminal" =>
            /\ line.outcome = published[line.id[2]]
            /\ line.id[1] = "wrapper" => Tool[line.id[2]] # "registered"

MatchInv ==
    OpenCallsAreActive /\ EventsFindTheirCalls /\ LateWrappersStayOpen /\ TerminalsAreTrue

(* Every entered call was told of, so an inner call cannot start any more.  *)
AllTold ==
    \A id \in Entered : \E line \in Held : line.kind = "native_terminal" /\ line.id = id

(* Every invocation is counted on its own.                                  *)
StartsAreCounted == IsFiniteSet(Entered) /\ counts["native_start"] = Cardinality(Entered)
InnerStartsAreCounted ==
    IsFiniteSet(InnerEntered) /\ counts["code_start"] = Cardinality(InnerEntered)

(* An outer execute at work is open, and so no inner call goes unobserved.  *)
OutersAreOpen ==
    /\ \A c \in NativeCalls :
           Tool[c] # "plain" /\ phase[c] \in {"hooking", "hooked", "wrapping", "running"} =>
               outer[Key[c]] # None
    /\ \A i \in InnerCalls : phase[i] # "unobserved"

(* The end of a capture that told of every call counts the inner ones.      *)
EndsCountInnerCalls ==
    AllTold => \A line \in Held :
        line.kind = "capture_end" /\ ~line.failures =>
            line.totals["code_start"] = counts["code_start"]

TruthInv ==
    /\ StartsAreCounted /\ InnerStartsAreCounted /\ OutersAreOpen
    /\ Clean => MatchInv
    /\ EndsCountInnerCalls

(***************************************************************************)
(* The lines and the streams they are in.                                  *)
(***************************************************************************)

LEMMA Kinds ==
    /\ \A kind \in ToolKinds : kind \notin {"capture_start", "capture_end", "other"}
    /\ StartKinds \subseteq ToolKinds /\ TerminalKinds \subseteq ToolKinds
    /\ "native_start" \in ToolKinds /\ "native_terminal" \in ToolKinds
    /\ "code_start" \in ToolKinds /\ "code_terminal" \in ToolKinds
BY DEF ToolKinds, StartKinds, TerminalKinds

LEMMA LineFacts ==
    ASSUME NEW line \in Lines
    PROVE  /\ IsLine(line)
           /\ line.form = "ok" => line.counted
           /\ line.kind \in ToolKinds => line \in ToolLines
           /\ line.kind = "capture_end" => line \in CaptureEnds
           /\ line.form = "ok" \/ line = CutLine
<1>1. CASE line \in ToolLines
    BY <1>1, Kinds DEF ToolLines, IsLine
<1>2. CASE line \in CaptureStarts
    BY <1>2, Kinds DEF CaptureStarts, IsLine
<1>3. CASE line \in CaptureEnds
    BY <1>3, Kinds DEF CaptureEnds, IsLine
<1>4. CASE line = CutLine
    BY <1>4, Kinds DEF CutLine, IsLine
<1> QED
    BY <1>1, <1>2, <1>3, <1>4 DEF Lines

LEMMA LinesAreAStream ==
    ASSUME NEW stream \in Seq(Lines)
    PROVE  IsStream(stream)
<1>1. \A i \in DOMAIN stream : stream[i] \in Lines
    BY ElementOfSeq, LenProperties
<1>2. Len(stream) \in Nat /\ DOMAIN stream = 1..Len(stream)
    BY LenProperties
<1> QED
    BY <1>1, <1>2, LineFacts DEF IsStream

(* What the plugin writes are lines.                                        *)
LEMMA PluginLines ==
    ASSUME Types
    PROVE  /\ \A place \in {"hook", "wrapper"}, c \in NativeCalls, boundary \in LineBoundaries,
                  value \in {"v", "omitted"} :
                  NativeStart(<<place, c>>, boundary, value) \in ToolLines
           /\ \A id \in NativeIds, outcome \in Outcomes : NativeTerminal(id, outcome) \in ToolLines
           /\ \A i \in InnerCalls, parent \in Ids : CodeStart(i, parent) \in ToolLines
           /\ \A i \in InnerCalls, outcome \in Outcomes : CodeTerminal(i, outcome) \in ToolLines
           /\ CaptureStart \in CaptureStarts
           /\ CaptureEnd \in CaptureEnds
<1>1. sequence \in Nat /\ counts \in [ToolKinds -> Nat] /\ troubled \in BOOLEAN
    BY DEF Types, PluginTypes, StreamTypes
<1>2. \A c \in NativeCalls : Key[c] \in Keys /\ ToolName(c) \in ToolNames
    BY DEF Keys, ToolName, ToolNames
<1>3. \A i \in InnerCalls : Key[Outer[i]] \in Keys
    BY CallsAssumption DEF Types, CallTypes, Keys
<1>4. None \in Ids
    BY DEF Ids
<1>5. \A mode \in {"native", "code_mode"}, outcome \in Outcomes :
          ExpectedBoundary[mode][outcome] \in LineBoundaries
    BY DEF ExpectedBoundary, Outcomes, LineBoundaries
<1>6. ASSUME NEW kind \in ToolKinds, NEW id \in NativeIds \cup CodeIds, NEW tool \in ToolNames,
             NEW who \in Keys, NEW boundary \in LineBoundaries, NEW parent \in Ids,
             NEW outcome \in {"none"} \cup Outcomes, NEW value \in {"v", "omitted"}
      PROVE  ToolLine(kind, id, tool, who, boundary, parent, outcome, value) \in ToolLines
    BY <1>1, <1>6 DEF ToolLine, ToolLines
<1>7. ASSUME NEW place \in {"hook", "wrapper"}, NEW c \in NativeCalls, NEW boundary \in LineBoundaries,
             NEW value \in {"v", "omitted"}
      PROVE  NativeStart(<<place, c>>, boundary, value) \in ToolLines
    <2>1. <<place, c>> \in NativeIds /\ <<place, c>>[2] = c
        BY DEF NativeIds
    <2> QED
        BY <1>2, <1>4, <1>6, <2>1, Kinds DEF NativeStart
<1>8. ASSUME NEW id \in NativeIds, NEW outcome \in Outcomes
      PROVE  NativeTerminal(id, outcome) \in ToolLines
    <2>1. id[2] \in NativeCalls
        BY DEF NativeIds
    <2> QED
        BY <1>2, <1>4, <1>5, <1>6, <2>1, Kinds DEF NativeTerminal
<1>9. /\ "decoded-code-tool-handler" \in LineBoundaries /\ "inner" \in ToolNames
      /\ \A i \in InnerCalls : <<"code", i>> \in CodeIds
    BY DEF CodeIds, LineBoundaries, ToolNames
<1>10. ASSUME NEW i \in InnerCalls, NEW parent \in Ids
       PROVE  CodeStart(i, parent) \in ToolLines
    BY <1>3, <1>6, <1>9, Kinds DEF CodeStart
<1>11. ASSUME NEW i \in InnerCalls, NEW outcome \in Outcomes
       PROVE  CodeTerminal(i, outcome) \in ToolLines
    BY <1>3, <1>4, <1>5, <1>6, <1>9, Kinds DEF CodeTerminal
<1>12. CaptureStart \in CaptureStarts /\ CaptureEnd \in CaptureEnds
    BY <1>1 DEF CaptureStart, CaptureStarts, CaptureEnd, CaptureEnds
<1> QED
    BY <1>7, <1>8, <1>10, <1>11, <1>12

LEMMA PluginLinesAreLines ==
    ToolLines \subseteq Lines /\ CaptureStarts \subseteq Lines /\ CaptureEnds \subseteq Lines
BY DEF Lines

(* A line that is written goes to the end of what is under way, or is lost. *)
LEMMA WriteFacts ==
    ASSUME Types, NEW line \in Lines, NEW failure \in BOOLEAN, Write(line, failure)
    PROVE  /\ sequence' = sequence + 1 /\ sequence' \in Nat /\ troubled' \in BOOLEAN
           /\ troubled \/ failure \/ socket # "up" <=> troubled'
           /\ wire' \in Seq(Lines)
           /\ socket # "up" => wire' = wire
           /\ socket = "up" =>
                  /\ Len(wire') = Len(wire) + 1 /\ wire'[Len(wire) + 1] = line
                  /\ \A i \in 1..Len(wire) : wire'[i] = wire[i]
           /\ received' = received => Held' \subseteq Held \cup {line} /\ Held \subseteq Held'
<1>1. wire \in Seq(Lines) /\ sequence \in Nat /\ troubled \in BOOLEAN
    BY DEF Types, PluginTypes, StreamTypes
<1>2. /\ sequence' = sequence + 1
      /\ wire' = IF socket = "up" THEN Append(wire, line) ELSE wire
      /\ troubled' = (troubled \/ failure \/ socket # "up")
    BY DEF Write
<1>3. (troubled \/ failure \/ socket # "up" <=> troubled') /\ troubled' \in BOOLEAN
    BY <1>1, <1>2
<1>4. CASE socket # "up"
    <2>1. wire' = wire
        BY <1>2, <1>4
    <2>2. received' = received => Held' = Held
        BY <2>1 DEF Held
    <2> QED
        BY <1>1, <1>2, <1>3, <1>4, <2>1, <2>2
<1>5. CASE socket = "up"
    <2>1. /\ wire' \in Seq(Lines) /\ Len(wire') = Len(wire) + 1 /\ wire'[Len(wire) + 1] = line
          /\ \A i \in 1..Len(wire) : wire'[i] = wire[i]
        BY <1>1, <1>2, <1>5, AppendProperties
    <2>2. /\ Len(wire) \in Nat /\ DOMAIN wire = 1..Len(wire)
          /\ DOMAIN wire' = 1..(Len(wire) + 1)
        BY <1>1, <2>1, LenProperties
    <2>3. \A i \in DOMAIN wire' : i \in DOMAIN wire \/ i = Len(wire) + 1
        BY <2>2
    <2>4. \A i \in DOMAIN wire : i \in DOMAIN wire'
        BY <2>2
    <2>5. received' = received => Held' \subseteq Held \cup {line} /\ Held \subseteq Held'
        BY <2>1, <2>2, <2>3, <2>4 DEF Held
    <2> QED
        BY <1>1, <1>2, <1>3, <1>5, <2>1, <2>5
<1> QED
    BY <1>4, <1>5

(* Of a connection or a process that ends a prefix still arrives, perhaps   *)
(* with a part of the next line.                                            *)
LEMMA LoseTailFacts ==
    ASSUME Types, LoseTail
    PROVE  /\ wire' \in Seq(Lines)
           /\ \A i \in DOMAIN wire' : wire'[i] = CutLine \/ (i \in DOMAIN wire /\ wire'[i] = wire[i])
           /\ received' = received => Held' \subseteq Held \cup {CutLine}
<1>1. PICK n \in 0..Len(wire) :
          wire' \in {SubSeq(wire, 1, n)} \cup
                    IF n < Len(wire) THEN {Append(SubSeq(wire, 1, n), CutLine)} ELSE {}
    BY DEF LoseTail
<1> DEFINE kept == SubSeq(wire, 1, n)
<1>2. wire \in Seq(Lines) /\ Len(wire) \in Nat /\ DOMAIN wire = 1..Len(wire) /\ CutLine \in Lines
    BY LenProperties DEF Types, StreamTypes, Lines
<1>3. \A i \in 1..n : wire[i] \in Lines /\ i \in DOMAIN wire
    BY <1>2, ElementOfSeq
<1>4. /\ kept \in Seq(Lines) /\ Len(kept) = IF 1 <= n THEN n - 1 + 1 ELSE 0
      /\ \A i \in 1..(n - 1 + 1) : kept[i] = wire[1 + i - 1]
    BY <1>2, <1>3, SubSeqProperties
<1> HIDE DEF kept
<1>5. /\ Len(kept) = n /\ DOMAIN kept = 1..n
      /\ \A i \in 1..n : i \in 1..(n - 1 + 1) /\ 1 + i - 1 = i
    BY <1>2, <1>4, LenProperties
<1>6. \A i \in DOMAIN kept : i \in DOMAIN wire /\ kept[i] = wire[i]
    BY <1>3, <1>4, <1>5
<1>7. wire' = kept \/ wire' = Append(kept, CutLine)
    BY <1>1 DEF kept
<1>8. /\ wire' \in Seq(Lines)
      /\ \A i \in DOMAIN wire' : wire'[i] = CutLine \/ (i \in DOMAIN wire /\ wire'[i] = wire[i])
    <2>1. CASE wire' = kept
        BY <1>4, <1>6, <2>1
    <2>2. CASE wire' = Append(kept, CutLine)
        <3>1. /\ wire' \in Seq(Lines) /\ Len(wire') = n + 1 /\ wire'[n + 1] = CutLine
              /\ \A i \in 1..n : wire'[i] = kept[i]
            BY <1>2, <1>4, <1>5, <2>2, AppendProperties
        <3>2. \A i \in DOMAIN wire' : i \in 1..n \/ i = n + 1
            BY <3>1, LenProperties
        <3> QED
            BY <1>5, <1>6, <3>1, <3>2
    <2> QED
        BY <1>7, <2>1, <2>2
<1>9. received' = received => Held' \subseteq Held \cup {CutLine}
    BY <1>8 DEF Held
<1> QED
    BY <1>8, <1>9

(* A recv moves the first lines to the capture, or drops them and says so.  *)
LEMMA ReceiveFacts ==
    ASSUME Types, Receive
    PROVE  /\ wire' \in Seq(Lines) /\ received' \in Seq(Lines)
           /\ Len(received') <= MaxCapture
           /\ Held' \subseteq Held
           /\ issue' # NoIssue =>  issue' \in {issue, "malformed_capture"}
           /\ issue' = NoIssue => issue = NoIssue
           /\ issue' = NoIssue => \E n \in Nat :
                  /\ Len(received') = Len(received) + n /\ Len(wire') = Len(wire) - n
                  /\ n <= Len(wire)
                  /\ \A i \in DOMAIN received' : IF i \in DOMAIN received THEN received'[i] = received[i]
                         ELSE i - Len(received) \in DOMAIN wire /\ received'[i] = wire[i - Len(received)]
                  /\ \A i \in DOMAIN wire' : i + n \in DOMAIN wire /\ wire'[i] = wire[i + n]
<1>1. PICK n \in 1..MaxChunk :
          /\ n <= Len(wire)
          /\ wire' = SubSeq(wire, n + 1, Len(wire))
          /\ IF Len(received) + n > MaxCapture
             THEN issue' = "malformed_capture" /\ UNCHANGED received
             ELSE received' = received \o SubSeq(wire, 1, n) /\ UNCHANGED issue
    BY DEF Receive
<1> DEFINE head == SubSeq(wire, 1, n)
<1>2. /\ wire \in Seq(Lines) /\ Len(wire) \in Nat /\ DOMAIN wire = 1..Len(wire)
      /\ received \in Seq(Lines) /\ Len(received) \in Nat /\ DOMAIN received = 1..Len(received)
      /\ Len(received) <= MaxCapture
      /\ issue \in {NoIssue, "malformed_capture", "capture_io_error"}
    BY LenProperties DEF Types, StreamTypes
<1>3. n \in Nat \ {0} /\ MaxCapture \in Nat
    BY SettingsAssumption DEF Types, CallTypes, AllSettings, MaxCapture, MaxChunk
<1>4. \A i \in 1..Len(wire) : wire[i] \in Lines
    BY <1>2, ElementOfSeq
<1>5. /\ head \in Seq(Lines) /\ Len(head) = n
      /\ \A i \in 1..n : head[i] = wire[i]
    <2>1. \A i \in 1..n : i \in 1..Len(wire)
        BY <1>1, <1>2, <1>3
    <2>2. /\ head \in Seq(Lines) /\ Len(head) = IF 1 <= n THEN n - 1 + 1 ELSE 0
          /\ \A i \in 1..(n - 1 + 1) : head[i] = wire[1 + i - 1]
        BY <1>3, <1>4, <2>1, SubSeqProperties
    <2> HIDE DEF head
    <2>3. Len(head) = n /\ \A i \in 1..n : i \in 1..(n - 1 + 1) /\ 1 + i - 1 = i
        BY <1>3, <2>2
    <2> QED
        BY <2>2, <2>3
<1>6. /\ wire' \in Seq(Lines) /\ Len(wire') = Len(wire) - n
      /\ \A i \in DOMAIN wire' : i + n \in DOMAIN wire /\ wire'[i] = wire[i + n]
    <2>1. \A i \in (n + 1)..Len(wire) : i \in 1..Len(wire)
        BY <1>2, <1>3
    <2>2. /\ wire' \in Seq(Lines)
          /\ Len(wire') = IF n + 1 <= Len(wire) THEN Len(wire) - (n + 1) + 1 ELSE 0
          /\ \A i \in 1..(Len(wire) - (n + 1) + 1) : wire'[i] = wire[(n + 1) + i - 1]
        BY <1>1, <1>2, <1>3, <1>4, <2>1, SubSeqProperties
    <2>3. Len(wire') = Len(wire) - n
        <3>1. \A m \in Nat : n <= m =>
                  (IF n + 1 <= m THEN m - (n + 1) + 1 ELSE 0) = m - n
            BY <1>3
        <3>2. Len(wire) \in Nat /\ n <= Len(wire)
            BY <1>1, <1>2
        <3> QED
            BY <2>2, <3>1, <3>2
    <2>4. DOMAIN wire' = 1..(Len(wire) - n)
        BY <2>2, <2>3, LenProperties
    <2>5. \A i \in 1..(Len(wire) - n) :
              /\ i \in 1..(Len(wire) - (n + 1) + 1) /\ (n + 1) + i - 1 = i + n
              /\ i + n \in 1..Len(wire)
        BY <1>2, <1>3
    <2> QED
        BY <1>2, <2>2, <2>3, <2>4, <2>5
<1> HIDE DEF head
<1>a. (\A i \in DOMAIN wire : wire[i] \in Held) /\ (\A i \in DOMAIN received : received[i] \in Held)
    BY Zenon DEF Held
<1>b. \A i \in DOMAIN wire' : wire'[i] \in Held
    BY <1>6, <1>a
<1>c. (\A i \in DOMAIN received' : received'[i] \in Held) => Held' \subseteq Held
    BY <1>b, Zenon DEF Held
<1>7. CASE Len(received) + n > MaxCapture
    <2>1. received' = received /\ issue' = "malformed_capture"
        BY <1>1, <1>7
    <2>2. Held' \subseteq Held
        BY <1>a, <1>c, <2>1
    <2> QED
        BY <1>2, <1>6, <2>1, <2>2 DEF NoIssue
<1>8. CASE ~(Len(received) + n > MaxCapture)
    <2>1. received' = received \o head /\ issue' = issue
        BY <1>1, <1>8 DEF head
    <2>2. /\ received' \in Seq(Lines) /\ Len(received') = Len(received) + n
          /\ \A i \in 1..(Len(received) + n) :
                 received'[i] = IF i <= Len(received) THEN received[i] ELSE head[i - Len(received)]
        BY <1>2, <1>5, <2>1, ConcatProperties
    <2>3. DOMAIN received' = 1..(Len(received) + n)
        BY <2>2, LenProperties
    <2>4. \A i \in DOMAIN received' : IF i \in DOMAIN received THEN received'[i] = received[i]
              ELSE i - Len(received) \in DOMAIN wire /\ received'[i] = wire[i - Len(received)]
        <3> SUFFICES ASSUME NEW i \in DOMAIN received'
                     PROVE  IF i \in DOMAIN received THEN received'[i] = received[i]
                            ELSE i - Len(received) \in DOMAIN wire
                                 /\ received'[i] = wire[i - Len(received)]
            OBVIOUS
        <3>1. i \in 1..(Len(received) + n)
            BY <2>3
        <3>2. i \in DOMAIN received <=> i <= Len(received)
            BY <1>2, <3>1
        <3>3. ~(i <= Len(received)) => i - Len(received) \in 1..n /\ i - Len(received) \in 1..Len(wire)
            BY <1>1, <1>2, <1>3, <3>1
        <3> QED
            BY <1>2, <1>5, <2>2, <3>1, <3>2, <3>3
    <2>5. Held' \subseteq Held
        <3>1. \A i \in DOMAIN received' : received'[i] \in Held
            BY <1>a, <2>4
        <3> QED
            BY <1>c, <3>1
    <2>6. Len(received') <= MaxCapture
        BY <1>2, <1>3, <1>8, <2>2
    <2> QED
        BY <1>1, <1>2, <1>3, <1>6, <2>1, <2>2, <2>4, <2>5, <2>6
<1> QED
    BY <1>7, <1>8

(***************************************************************************)
(* Type correctness.                                                       *)
(***************************************************************************)

LEMMA CallFacts ==
    ASSUME CallTypes
    PROVE  /\ \A c \in NativeCalls : Tool[c] \in {"plain", "synthetic", "registered"} /\ Key[c] \in Keys
           /\ \A i \in InnerCalls : Outer[i] \in NativeCalls /\ Tool[Outer[i]] # "plain"
           /\ \A c \in NativeCalls : c \in Calls /\ c \notin InnerCalls
           /\ \A i \in InnerCalls : i \in Calls /\ i \notin NativeCalls
           /\ \A id \in NativeIds : id[2] \in NativeCalls /\ id[1] \in {"hook", "wrapper"} /\ id # None
           /\ \A c \in NativeCalls : <<"hook", c>> \in NativeIds /\ <<"wrapper", c>> \in NativeIds
           /\ NativeIds \subseteq Ids /\ None \in Ids /\ \A id \in Ids : id # None => id \in NativeIds
           /\ \A id \in CodeIds : id[2] \in InnerCalls
           /\ MaxCapture \in Nat \ {0} /\ MaxChunk \in Nat \ {0}
<1>1. setting \in AllSettings
    BY SettingsAssumption DEF CallTypes
<1>2. \A c \in NativeCalls : Tool[c] \in {"plain", "synthetic", "registered"} /\ Key[c] \in Keys
    BY <1>1 DEF AllSettings, Tool, Keys
<1>3. \A i \in InnerCalls : Outer[i] \in NativeCalls /\ Tool[Outer[i]] # "plain"
    BY CallsAssumption DEF CallTypes, Tool
<1>4. /\ \A c \in NativeCalls : c \in Calls /\ c \notin InnerCalls
      /\ \A i \in InnerCalls : i \in Calls /\ i \notin NativeCalls
    BY CallsAssumption DEF Calls
<1>5. /\ \A id \in NativeIds : id[2] \in NativeCalls /\ id[1] \in {"hook", "wrapper"} /\ id # None
      /\ \A c \in NativeCalls : <<"hook", c>> \in NativeIds /\ <<"wrapper", c>> \in NativeIds
      /\ \A id \in CodeIds : id[2] \in InnerCalls
    BY DEF NativeIds, CodeIds, None
<1>6. NativeIds \subseteq Ids /\ None \in Ids /\ \A id \in Ids : id # None => id \in NativeIds
    BY DEF NativeIds, Ids
<1>7. MaxCapture \in Nat \ {0} /\ MaxChunk \in Nat \ {0}
    BY <1>1 DEF AllSettings, MaxCapture, MaxChunk
<1> QED
    BY <1>2, <1>3, <1>4, <1>5, <1>6, <1>7

LEMMA InitTypes == Init => Types
<1> SUFFICES ASSUME Init
             PROVE  Types
    OBVIOUS
<1>1. CallTypes
    BY EmptySeq DEF Init, CallTypes, Calls, NativePhases, InnerPhases, Outcomes
<1>2. PluginTypes
    BY DEF Init, PluginTypes, Ids
<1>3. StreamTypes
    <2>1. received = <<>> /\ wire = <<>> /\ <<>> \in Seq(Lines) /\ Len(<<>>) = 0
        BY EmptySeq DEF Init
    <2>2. MaxCapture \in Nat \ {0}
        BY <1>1, CallFacts
    <2>3. Len(received) <= MaxCapture
        BY <2>1, <2>2
    <2> QED
        BY <2>1, <2>3 DEF Init, StreamTypes
<1> QED
    BY <1>1, <1>2, <1>3 DEF Types

(* One call goes on to another of its phases.                               *)
LEMMA PhaseStep ==
    ASSUME CallTypes, NEW c \in Calls, NEW next,
           phase' = [phase EXCEPT ![c] = next], UNCHANGED <<setting, published, events>>,
           c \in NativeCalls =>
               /\ next \in NativePhases
               /\ next \in {"hooking", "hooked"} => Tool[c] # "plain"
               /\ next = "wrapping" => Tool[c] # "synthetic"
               /\ next = "hooked" => Tool[c] = "registered",
           c \in InnerCalls => next \in InnerPhases
    PROVE  CallTypes' /\ phase'[c] = next /\ \A d \in Calls : d # c => phase'[d] = phase[d]
<1>1. phase \in [Calls -> NativePhases \cup InnerPhases]
    BY DEF CallTypes
<1>2. /\ phase' \in [Calls -> NativePhases \cup InnerPhases]
      /\ phase'[c] = next /\ \A d \in Calls : d # c => phase'[d] = phase[d]
    BY <1>1 DEF Calls
<1>3. Tool' = Tool
    BY DEF Tool
<1> QED
    BY <1>2, <1>3 DEF CallTypes, Calls

LEMMA TypesHold == Types /\ [Next]_vars => Types'
<1> SUFFICES ASSUME Types, [Next]_vars
             PROVE  Types'
    OBVIOUS
<1>a. CallTypes /\ PluginTypes /\ StreamTypes
    BY DEF Types
<1>u. ASSUME UNCHANGED <<setting, callVars, events>>
      PROVE  CallTypes'
    BY <1>a, <1>u DEF CallTypes, callVars, Tool, NativePhases, InnerPhases
<1>v. ASSUME UNCHANGED observerVars
      PROVE  PluginTypes'
    BY <1>a, <1>v DEF PluginTypes, observerVars
<1>m. setting' = setting => MaxCapture' = MaxCapture
    BY DEF MaxCapture
<1>w. ASSUME UNCHANGED <<setting, streamVars, process, runnerVars>>
      PROVE  StreamTypes'
    BY <1>a, <1>w, <1>m DEF StreamTypes, streamVars, runnerVars
<1>x. ASSUME wire' \in Seq(Lines), UNCHANGED <<setting, socket, process, runnerVars>>
      PROVE  StreamTypes'
    BY <1>a, <1>x, <1>m DEF StreamTypes, runnerVars
<1>1. CASE UNCHANGED vars
    BY <1>1, <1>u, <1>v, <1>w DEF vars, Types
<1>2. CASE Setup
    <2>1. CaptureStart \in Lines
        BY PluginLines, PluginLinesAreLines
    <2>2. sequence' \in Nat /\ troubled' \in BOOLEAN /\ wire' \in Seq(Lines)
        BY <1>2, <2>1, WriteFacts DEF Setup
    <2>3. PluginTypes'
        BY <1>a, <1>2, <2>2 DEF Setup, PluginTypes
    <2> QED
        BY <1>2, <1>u, <1>x, <2>2, <2>3 DEF Setup, Types
<1>3. ASSUME NEW c \in NativeCalls, EnterWrapper(c)
      PROVE  Types'
    <2>1. /\ Tool[c] # "synthetic" /\ phase' = [phase EXCEPT ![c] = "wrapping"]
        <3>1. phase[c] \in NativePhases /\ Tool[c] \in {"plain", "synthetic", "registered"}
            BY <1>a, CallFacts DEF CallTypes
        <3> QED
            BY <1>3, <3>1 DEF EnterWrapper, NativePhases, Outcomes
    <2>2. CallTypes'
        <3>1. /\ UNCHANGED <<setting, published, events>> /\ c \in Calls /\ c \notin InnerCalls
              /\ "wrapping" \in NativePhases
            BY <1>a, <1>3, CallFacts DEF EnterWrapper, NativePhases
        <3> QED
            BY <1>a, <2>1, <3>1, PhaseStep
    <2>3. PluginTypes'
        <3>1. Key[c] \in Keys /\ <<"wrapper", c>> \in Ids
            BY <1>a, CallFacts
        <3>2. "native_start" \in ToolKinds
            BY Kinds
        <3> QED
            BY <1>a, <1>3, <3>1, <3>2 DEF EnterWrapper, PluginTypes
    <2> QED
        BY <1>3, <1>w, <2>2, <2>3 DEF EnterWrapper, Types
<1>4. ASSUME NEW c \in NativeCalls, EnterHook(c)
      PROVE  Types'
    <2>1. Tool[c] \in {"synthetic", "registered"}
        BY <1>a, <1>4, CallFacts DEF EnterHook
    <2>2. PICK next \in {AfterHook(c), "hooking"} : phase' = [phase EXCEPT ![c] = next]
        BY <1>4, Zenon DEF EnterHook
    <2>3. CallTypes'
        <3>1. /\ next \in NativePhases /\ next # "wrapping"
              /\ next = "hooked" => Tool[c] = "registered"
            BY <2>1 DEF AfterHook, NativePhases
        <3>2. UNCHANGED <<setting, published, events>> /\ c \in Calls /\ c \notin InnerCalls
            BY <1>a, <1>4, CallFacts DEF EnterHook
        <3> QED
            BY <1>a, <2>1, <2>2, <3>1, <3>2, PhaseStep
    <2>4. PluginTypes'
        <3>1. Key[c] \in Keys /\ <<"hook", c>> \in Ids
            BY <1>a, CallFacts
        <3>2. "native_start" \in ToolKinds
            BY Kinds
        <3> QED
            BY <1>a, <1>4, <3>1, <3>2 DEF EnterHook, PluginTypes
    <2> QED
        BY <1>4, <1>w, <2>3, <2>4 DEF EnterHook, Types
<1>5. ASSUME NEW c \in NativeCalls, NEW place \in {"hook", "wrapper"},
             NEW boundary \in LineBoundaries, NEW next \in {"running", "hooked"},
             next = "hooked" => Tool[c] = "registered",
             StartIsWritten(c, place, boundary, next)
      PROVE  Types'
    <2>1. PICK failed \in BOOLEAN :
              Write(NativeStart(<<place, c>>, boundary, IF failed THEN "omitted" ELSE "v"), failed)
        BY <1>5, Zenon DEF StartIsWritten
    <2>2. NativeStart(<<place, c>>, boundary, IF failed THEN "omitted" ELSE "v") \in Lines
        BY PluginLines, PluginLinesAreLines
    <2>3. sequence' \in Nat /\ troubled' \in BOOLEAN /\ wire' \in Seq(Lines)
        BY <2>1, <2>2, WriteFacts
    <2>4. CallTypes'
        <3>1. /\ UNCHANGED <<setting, published, events>> /\ c \in Calls /\ c \notin InnerCalls
              /\ phase' = [phase EXCEPT ![c] = next] /\ next \in NativePhases
              /\ next \notin {"hooking", "wrapping"}
            BY <1>a, <1>5, CallFacts DEF StartIsWritten, NativePhases
        <3>2. next = "hooked" => Tool[c] # "plain"
            BY <1>5
        <3> QED
            BY <1>a, <1>5, <3>1, <3>2, PhaseStep
    <2>5. PluginTypes'
        BY <1>a, <1>5, <2>3 DEF StartIsWritten, PluginTypes
    <2> QED
        BY <1>5, <1>x, <2>3, <2>4, <2>5 DEF StartIsWritten, Types
<1>6. ASSUME NEW c \in NativeCalls, WrapperStarts(c) \/ HookStarts(c)
      PROVE  Types'
    <2>1. {"decoded-tool-execute", "tool-execute-before"} \subseteq LineBoundaries
        BY DEF LineBoundaries
    <2>2. AfterHook(c) \in {"running", "hooked"}
        BY DEF AfterHook
    <2>3. phase[c] = "hooking" /\ AfterHook(c) = "hooked" => Tool[c] = "registered"
        BY <1>a, CallFacts DEF AfterHook, CallTypes
    <2> QED
        BY <1>5, <1>6, <2>1, <2>2, <2>3 DEF WrapperStarts, HookStarts
<1>7. ASSUME NEW c \in NativeCalls, HandlerReturns(c)
      PROVE  Types'
    <2>1. PICK outcome \in Outcomes : phase' = [phase EXCEPT ![c] = outcome]
        BY <1>7 DEF HandlerReturns
    <2>2. CallTypes'
        <3>1. /\ UNCHANGED <<setting, published, events>> /\ c \in Calls /\ c \notin InnerCalls
              /\ outcome \in NativePhases /\ outcome \notin {"hooking", "wrapping", "hooked"}
            BY <1>a, <1>7, CallFacts DEF HandlerReturns, NativePhases, Outcomes
        <3> QED
            BY <1>a, <2>1, <3>1, PhaseStep
    <2>3. PluginTypes'
        BY <1>a, <1>7, CallFacts DEF HandlerReturns, PluginTypes
    <2> QED
        BY <1>7, <1>w, <2>2, <2>3 DEF HandlerReturns, Types
<1>8. ASSUME NEW c \in NativeCalls, Settle(c) \/ Cancel(c)
      PROVE  Types'
    <2>1. PICK outcome \in Outcomes, malformed \in BOOLEAN : Publish(c, outcome, malformed)
        BY <1>8 DEF Settle, Cancel, Outcomes
    <2>2. CallTypes'
        <3>1. [key |-> Key[c], outcome |-> outcome, malformed |-> malformed] \in Events
            BY <1>a, CallFacts DEF Events
        <3>2. events' \in Seq(Events)
            BY <1>a, <2>1, <3>1, AppendProperties DEF Publish, CallTypes
        <3>3. published' \in [NativeCalls -> {"none"} \cup Outcomes]
            BY <1>a, <2>1 DEF Publish, CallTypes
        <3> QED
            BY <1>a, <2>1, <3>2, <3>3 DEF Publish, CallTypes, Tool
    <2> QED
        BY <1>v, <1>w, <2>1, <2>2 DEF Publish, Types
<1>9. CASE HandleEvent
    <2> DEFINE event == Head(events)
               id == active[event.key]
    <2>1. event \in Events /\ events' \in Seq(Events)
        BY <1>a, <1>9, HeadTailProperties DEF HandleEvent, CallTypes
    <2>2. CallTypes'
        BY <1>a, <1>9, <2>1 DEF HandleEvent, CallTypes, callVars, Tool
    <2>3. event.key \in Keys /\ event.outcome \in Outcomes /\ event.malformed \in BOOLEAN
        BY <2>1 DEF Events
    <2> HIDE DEF event
    <2>4. CASE event.malformed \/ id = None
        <3>1. /\ troubled' = (troubled \/ event.malformed)
              /\ UNCHANGED <<active, counts, sequence, wire>>
            BY <1>9, <2>4 DEF HandleEvent, event
        <3>2. troubled' \in BOOLEAN
            BY <1>a, <2>3, <3>1 DEF PluginTypes
        <3>3. PluginTypes'
            BY <1>a, <1>9, <3>1, <3>2 DEF HandleEvent, PluginTypes
        <3> QED
            BY <1>9, <1>w, <2>2, <3>1, <3>3 DEF HandleEvent, Types, streamVars
    <2>5. CASE ~(event.malformed \/ id = None)
        <3>1. /\ active' = [active EXCEPT ![event.key] = None]
              /\ counts' = [counts EXCEPT !["native_terminal"] = @ + 1]
              /\ Write(NativeTerminal(id, event.outcome), FALSE)
            BY <1>9, <2>5 DEF HandleEvent, event
        <3>2. id \in NativeIds
            BY <1>a, <2>3, <2>5, CallFacts DEF PluginTypes
        <3>3. NativeTerminal(id, event.outcome) \in Lines
            BY <2>3, <3>2, PluginLines, PluginLinesAreLines
        <3>4. sequence' \in Nat /\ troubled' \in BOOLEAN /\ wire' \in Seq(Lines)
            BY <3>1, <3>3, WriteFacts
        <3>5. active' \in [Keys -> Ids] /\ counts' \in [ToolKinds -> Nat]
            <4>1. None \in Ids /\ "native_terminal" \in ToolKinds
                BY <1>a, CallFacts, Kinds
            <4>2. active \in [Keys -> Ids] /\ counts \in [ToolKinds -> Nat]
                BY <1>a DEF PluginTypes
            <4>3. counts["native_terminal"] + 1 \in Nat
                BY <4>1, <4>2
            <4>4. counts' = [counts EXCEPT !["native_terminal"] = counts["native_terminal"] + 1]
                BY <3>1
            <4>5. counts' \in [ToolKinds -> Nat]
                BY <4>1, <4>2, <4>3, <4>4
            <4>6. active' \in [Keys -> Ids]
                BY <3>1, <4>1, <4>2
            <4> QED
                BY <4>5, <4>6
        <3>6. PluginTypes'
            BY <1>a, <1>9, <3>4, <3>5 DEF HandleEvent, PluginTypes
        <3> QED
            BY <1>9, <1>x, <2>2, <3>4, <3>6 DEF HandleEvent, Types
    <2> QED
        BY <2>4, <2>5
<1>10. ASSUME NEW i \in InnerCalls, EnterInner(i)
       PROVE  Types'
    <2> DEFINE parent == outer[Key[Outer[i]]]
    <2>1. parent \in Ids
        BY <1>a, CallFacts DEF PluginTypes
    <2>2. PICK next \in {"unobserved", "running"} : phase' = [phase EXCEPT ![i] = next]
        BY <1>10, Zenon DEF EnterInner
    <2>3. CallTypes'
        BY <1>a, <1>10, <2>2, PhaseStep, CallFacts DEF EnterInner, Calls, CallTypes, InnerPhases
    <2>4. CASE parent = None
        <3>1. UNCHANGED <<counts, troubled, sequence, wire>>
            BY <1>10, <2>4 DEF EnterInner
        <3>2. PluginTypes'
            BY <1>a, <1>10, <3>1 DEF EnterInner, PluginTypes
        <3> QED
            BY <1>10, <1>w, <2>3, <3>1, <3>2 DEF EnterInner, Types, streamVars
    <2>5. CASE parent # None
        <3>1. counts' = [counts EXCEPT !["code_start"] = @ + 1] /\ Write(CodeStart(i, parent), FALSE)
            BY <1>10, <2>5 DEF EnterInner
        <3>2. CodeStart(i, parent) \in Lines
            BY <2>1, PluginLines, PluginLinesAreLines
        <3>3. sequence' \in Nat /\ troubled' \in BOOLEAN /\ wire' \in Seq(Lines)
            BY <3>1, <3>2, WriteFacts
        <3>4. PluginTypes'
            BY <1>a, <1>10, <3>1, <3>3, Kinds DEF EnterInner, PluginTypes
        <3> QED
            BY <1>10, <1>x, <2>3, <3>3, <3>4 DEF EnterInner, Types
    <2> QED
        BY <2>4, <2>5
<1>11. ASSUME NEW i \in InnerCalls, InnerReturns(i)
       PROVE  Types'
    <2>1. PICK outcome \in Outcomes :
              /\ phase' = [phase EXCEPT ![i] = outcome]
              /\ counts' = [counts EXCEPT !["code_terminal"] = @ + 1]
              /\ Write(CodeTerminal(i, outcome), FALSE)
        BY <1>11 DEF InnerReturns
    <2>2. CodeTerminal(i, outcome) \in Lines
        BY PluginLines, PluginLinesAreLines
    <2>3. sequence' \in Nat /\ troubled' \in BOOLEAN /\ wire' \in Seq(Lines)
        BY <2>1, <2>2, WriteFacts
    <2>4. CallTypes'
        BY <1>a, <1>11, <2>1, PhaseStep, CallFacts DEF InnerReturns, Calls, CallTypes, InnerPhases
    <2>5. PluginTypes'
        BY <1>a, <1>11, <2>1, <2>3, Kinds DEF InnerReturns, PluginTypes
    <2> QED
        BY <1>11, <1>x, <2>3, <2>4, <2>5 DEF InnerReturns, Types
<1>12. CASE Dispose \/ Abort
    <2>1. PluginTypes'
        BY <1>a, <1>12 DEF Dispose, Abort, PluginTypes
    <2> QED
        BY <1>12, <1>u, <1>w, <2>1 DEF Dispose, Abort, Types
<1>13. CASE WriteCaptureEnd
    <2>1. CaptureEnd \in Lines
        BY PluginLines, PluginLinesAreLines
    <2>2. sequence' \in Nat /\ troubled' \in BOOLEAN /\ wire' \in Seq(Lines)
        BY <1>13, <2>1, WriteFacts DEF WriteCaptureEnd
    <2>3. PluginTypes'
        BY <1>a, <1>13, <2>2 DEF WriteCaptureEnd, PluginTypes
    <2>4. StreamTypes'
        BY <1>a, <1>13, <1>m, <2>2 DEF WriteCaptureEnd, StreamTypes, runnerVars
    <2> QED
        BY <1>13, <1>u, <2>3, <2>4 DEF WriteCaptureEnd, Types
<1>14. CASE SubscriptionFails
    <2>1. PluginTypes'
        BY <1>a, <1>14 DEF SubscriptionFails, PluginTypes
    <2> QED
        BY <1>14, <1>u, <1>w, <2>1 DEF SubscriptionFails, Types
<1>15. CASE SocketBreaks
    <2>1. wire' \in Seq(Lines)
        BY <1>15, LoseTailFacts DEF SocketBreaks
    <2>2. PluginTypes'
        BY <1>a, <1>15 DEF SocketBreaks, PluginTypes
    <2>3. StreamTypes'
        BY <1>a, <1>15, <1>m, <2>1 DEF SocketBreaks, StreamTypes
    <2> QED
        BY <1>15, <1>u, <2>2, <2>3 DEF SocketBreaks, Types
<1>16. CASE ExitCleanly
    <2>1. StreamTypes'
        BY <1>a, <1>16, <1>m DEF ExitCleanly, StreamTypes, streamVars, runnerVars
    <2> QED
        BY <1>16, <1>u, <1>v, <2>1 DEF ExitCleanly, Types
<1>17. CASE ExitAbruptly \/ TimeOut
    <2>1. wire' \in Seq(Lines)
        BY <1>17, LoseTailFacts DEF ExitAbruptly, TimeOut
    <2>2. StreamTypes'
        BY <1>a, <1>17, <1>m, <2>1 DEF ExitAbruptly, TimeOut, StreamTypes, runnerVars
    <2> QED
        BY <1>17, <1>u, <1>v, <2>2 DEF ExitAbruptly, TimeOut, Types
<1>18. CASE Accept
    <2>1. StreamTypes'
        BY <1>a, <1>18, <1>m DEF Accept, StreamTypes, streamVars
    <2> QED
        BY <1>18, <1>u, <1>v, <2>1 DEF Accept, Types
<1>19. CASE Receive
    <2>1. /\ wire' \in Seq(Lines) /\ received' \in Seq(Lines) /\ Len(received') <= MaxCapture
          /\ issue' \in {NoIssue, "malformed_capture", "capture_io_error"}
        BY <1>a, <1>19, ReceiveFacts DEF StreamTypes
    <2>2. StreamTypes'
        BY <1>a, <1>19, <1>m, <2>1 DEF Receive, StreamTypes
    <2> QED
        BY <1>19, <1>u, <1>v, <2>2 DEF Receive, Types
<1>20. CASE Finish
    <2>1. issue' \in {NoIssue, "malformed_capture", "capture_io_error"}
        BY <1>a, <1>20, Zenon DEF Finish, StreamTypes
    <2>2. StreamTypes'
        BY <1>a, <1>20, <1>m, <2>1 DEF Finish, StreamTypes, streamVars
    <2> QED
        BY <1>20, <1>u, <1>v, <2>2 DEF Finish, Types
<1> QED
    BY <1>1, <1>2, <1>3, <1>4, <1>6, <1>7, <1>8, <1>9, <1>10, <1>11, <1>12, <1>13, <1>14, <1>15,
       <1>16, <1>17, <1>18, <1>19, <1>20
       DEF Next, Plugin, NativeStep, Environment, Runner

(***************************************************************************)
(* The teardown and the evidence.                                          *)
(***************************************************************************)

LEMMA TeardownHolds == Types /\ TeardownInv /\ [Next]_vars => TeardownInv'
<1> SUFFICES ASSUME Types, TeardownInv, [Next]_vars
             PROVE  TeardownInv'
    OBVIOUS
<1>1. ASSUME UNCHANGED <<observer, subscribed, socket>>
      PROVE  TeardownInv'
    BY <1>1 DEF TeardownInv
<1>2. CASE Setup
    BY <1>2 DEF Setup, TeardownInv
<1>3. CASE Dispose \/ Abort \/ WriteCaptureEnd
    <2>1. subscribed \in BOOLEAN
        BY DEF Types, PluginTypes
    <2>2. CASE Dispose
        BY <2>1, <2>2 DEF Dispose, TeardownInv
    <2>3. CASE Abort
        BY <2>3 DEF Abort, TeardownInv
    <2>4. CASE WriteCaptureEnd
        BY <2>1, <2>4 DEF WriteCaptureEnd, TeardownInv
    <2> QED
        BY <1>3, <2>2, <2>3, <2>4
<1>4. CASE SubscriptionFails \/ SocketBreaks
    BY <1>4 DEF SubscriptionFails, SocketBreaks, TeardownInv, streamVars
<1>5. CASE UNCHANGED vars
    BY <1>1, <1>5 DEF vars, observerVars, streamVars
<1>6. ASSUME NEW c \in NativeCalls, NativeStep(c)
      PROVE  TeardownInv'
    <2>1. CASE EnterWrapper(c) \/ EnterHook(c) \/ HandlerReturns(c)
        BY <1>1, <2>1 DEF EnterWrapper, EnterHook, HandlerReturns, streamVars
    <2>2. CASE WrapperStarts(c) \/ HookStarts(c)
        BY <1>1, <2>2 DEF WrapperStarts, HookStarts, StartIsWritten
    <2>3. CASE Settle(c) \/ Cancel(c)
        BY <1>1, <2>3 DEF Settle, Cancel, Publish, observerVars, streamVars
    <2> QED
        BY <1>6, <2>1, <2>2, <2>3 DEF NativeStep
<1>7. CASE HandleEvent
    BY <1>1, <1>7 DEF HandleEvent
<1>8. ASSUME NEW i \in InnerCalls, EnterInner(i) \/ InnerReturns(i)
      PROVE  TeardownInv'
    BY <1>1, <1>8 DEF EnterInner, InnerReturns
<1>9. CASE ExitCleanly \/ ExitAbruptly \/ TimeOut
    BY <1>1, <1>9 DEF ExitCleanly, ExitAbruptly, TimeOut, observerVars, streamVars
<1>10. CASE Runner
    BY <1>1, <1>10 DEF Runner, Accept, Receive, Finish, observerVars, streamVars
<1> QED
    BY <1>2, <1>3, <1>4, <1>5, <1>6, <1>7, <1>8, <1>9, <1>10 DEF Next, Plugin, Environment

(* Everything but the receiving thread and finish() needs a live process.   *)
LEMMA StepsOfTheLiving ==
    ASSUME [Next]_vars
    PROVE  \/ UNCHANGED vars
           \/ Alive /\ evidence' = evidence
           \/ evidence = {} /\ evidence' = {}
           \/ Finish
<1>1. CASE Plugin
    <2>1. Setup \/ HandleEvent \/ Dispose \/ Abort \/ WriteCaptureEnd => Alive /\ evidence' = evidence
        BY DEF Setup, HandleEvent, Dispose, Abort, WriteCaptureEnd, runnerVars
    <2>2. \A c \in NativeCalls : EnterWrapper(c) \/ EnterHook(c) \/ HandlerReturns(c)
              => Alive /\ evidence' = evidence
        BY DEF EnterWrapper, EnterHook, HandlerReturns, runnerVars
    <2>3. \A c \in NativeCalls : WrapperStarts(c) \/ HookStarts(c) => Alive /\ evidence' = evidence
        BY DEF WrapperStarts, HookStarts, StartIsWritten, runnerVars
    <2>4. \A c \in NativeCalls : Settle(c) \/ Cancel(c) => Alive /\ evidence' = evidence
        BY DEF Settle, Cancel, Publish, runnerVars
    <2>5. \A i \in InnerCalls : EnterInner(i) \/ InnerReturns(i) => Alive /\ evidence' = evidence
        BY DEF EnterInner, InnerReturns, runnerVars
    <2> QED
        BY <1>1, <2>1, <2>2, <2>3, <2>4, <2>5 DEF Plugin, NativeStep
<1>2. CASE Environment
    BY <1>2 DEF Environment, SubscriptionFails, SocketBreaks, ExitCleanly, ExitAbruptly, TimeOut,
                runnerVars
<1>3. CASE Runner
    BY <1>3 DEF Runner, Accept, Receive
<1> QED
    BY <1>1, <1>2, <1>3 DEF Next

LEMMA BuiltHolds == BuiltInv /\ [Next]_vars => BuiltInv'
<1> SUFFICES ASSUME BuiltInv, [Next]_vars
             PROVE  BuiltInv'
    OBVIOUS
<1>1. CASE Finish
    <2>1. ~Alive' /\ received' = received /\ process' = process
        BY <1>1 DEF Finish, Alive
    <2>2. evidence' = {BuildRuntimeEvidence(Capture(issue'), ProcessState(Capture(issue')))}
        BY <1>1, Zenon DEF Finish
    <2>3. \A final : Capture(final)' = Capture(final)
        BY <2>1 DEF Capture, Terminated
    <2>4. \A capture : ProcessState(capture)' = ProcessState(capture)
        BY <2>1 DEF ProcessState
    <2> QED
        BY <2>1, <2>2, <2>3, <2>4 DEF BuiltInv
<1>2. CASE UNCHANGED vars
    BY <1>2 DEF vars, runnerVars, BuiltInv, Alive, Capture, ProcessState, Terminated
<1>3. CASE (Alive /\ evidence' = evidence) \/ (evidence = {} /\ evidence' = {})
    BY <1>3 DEF BuiltInv
<1> QED
    BY <1>1, <1>2, <1>3, StepsOfTheLiving

LEMMA CaptureFacts ==
    ASSUME Types, NEW capture, capture = Capture(issue)
    PROVE  /\ IsStream(received) /\ IsCapture(capture) /\ ProcessState(capture) \in ProcessStates
           /\ capture.started = Load(received, Terminated).started
           /\ capture.ended = Load(received, Terminated).ended
           /\ capture.records = Load(received, Terminated).records
           /\ capture.failures = Load(received, Terminated).failures
           /\ capture.issues = Load(received, Terminated).issues \cup ({issue} \ {NoIssue})
<1> DEFINE loaded == Load(received, Terminated)
<1>1. IsStream(received) /\ issue \in {NoIssue, "malformed_capture", "capture_io_error"}
    BY LinesAreAStream DEF Types, StreamTypes
<1>2. IsCapture(loaded)
    BY <1>1, LoadedIsACapture
<1>3. /\ loaded = [started |-> loaded.started, ended |-> loaded.ended, records |-> loaded.records,
                   failures |-> loaded.failures, issues |-> loaded.issues]
    BY DEF Load, EmptyCapture
<1>4. capture = [loaded EXCEPT !.issues = loaded.issues \cup ({issue} \ {NoIssue})]
    BY DEF Capture
<1> HIDE DEF loaded
<1>5. /\ capture.started = loaded.started /\ capture.ended = loaded.ended
      /\ capture.records = loaded.records /\ capture.failures = loaded.failures
      /\ capture.issues = loaded.issues \cup ({issue} \ {NoIssue})
    BY <1>3, <1>4
<1>6. IsCapture(capture)
    BY <1>1, <1>2, <1>5 DEF IsCapture, InvalidIssues, NoIssue
<1>7. ProcessState(capture) \in ProcessStates
    BY DEF ProcessState, ProcessStates
<1> QED
    BY <1>1, <1>5, <1>6, <1>7 DEF loaded

LEMMA EvidenceHasAShape == Types /\ BuiltInv => \A e \in evidence : ShapeOf(e) \in Evidence
<1> SUFFICES ASSUME Types, BuiltInv, NEW e \in evidence
             PROVE  ShapeOf(e) \in Evidence
    OBVIOUS
<1>1. e = BuildRuntimeEvidence(Capture(issue), ProcessState(Capture(issue)))
    BY DEF BuiltInv
<1>2. IsCapture(Capture(issue)) /\ ProcessState(Capture(issue)) \in ProcessStates
    BY CaptureFacts
<1> QED
    BY <1>1, <1>2, BuiltEvidenceHasAShape

BaseInv == Types /\ TeardownInv /\ BuiltInv

LEMMA BaseInvariance == Spec => []BaseInv
<1>1. Init => BaseInv
    <2>1. Init => TeardownInv /\ BuiltInv
        BY DEF Init, TeardownInv, BuiltInv
    <2> QED
        BY <2>1, InitTypes DEF BaseInv
<1>2. BaseInv /\ [Next]_vars => BaseInv'
    BY TypesHold, TeardownHolds, BuiltHolds DEF BaseInv
<1> QED
    BY <1>1, <1>2, PTL DEF Spec

(* Every variable keeps its type, and whatever the runner received and      *)
(* however the process ended, the evidence it builds has a shape the host   *)
(* accepts (build_runtime_evidence, validate_runtime_evidence).             *)
THEOREM TypesAreKept == Spec => []TypeOK
<1>1. BaseInv => TypeOK
    <2> SUFFICES ASSUME BaseInv
                 PROVE  TypeOK
        OBVIOUS
    <2>1. CallTypes /\ PluginTypes /\ StreamTypes
        BY DEF BaseInv, Types
    <2>2. \A i \in DOMAIN events : events[i].key \in Keys /\ events[i].outcome \in Outcomes
        <3>1. \A i \in DOMAIN events : events[i] \in Events
            BY <2>1, ElementOfSeq, LenProperties DEF CallTypes
        <3> QED
            BY <3>1 DEF Events
    <2>3. \A e \in evidence : ShapeOf(e) \in Evidence
        BY EvidenceHasAShape DEF BaseInv
    <2> QED
        BY <2>1, <2>2, <2>3 DEF TypeOK, CallTypes, PluginTypes, StreamTypes
<1> QED
    BY <1>1, BaseInvariance, PTL

(***************************************************************************)
(* The order of the stream.                                                *)
(***************************************************************************)

LEMMA WriteKeepsOrder ==
    ASSUME Types, OrderInv, Alive, NEW line \in Lines, NEW failure \in BOOLEAN,
           line.seq = sequence, Write(line, failure), UNCHANGED <<received, issue>>,
           socket' = socket \/ socket' # "up"
    PROVE  OrderInv'
<1>1. /\ sequence \in Nat /\ Len(received) \in Nat /\ Len(wire) \in Nat
      /\ DOMAIN wire = 1..Len(wire)
    BY LenProperties DEF Types, PluginTypes, StreamTypes
<1>2. /\ sequence' = sequence + 1 /\ wire' \in Seq(Lines)
      /\ socket # "up" => wire' = wire
      /\ socket = "up" =>
             /\ Len(wire') = Len(wire) + 1 /\ wire'[Len(wire) + 1] = line
             /\ \A i \in 1..Len(wire) : wire'[i] = wire[i]
    BY WriteFacts
<1>3. CASE socket # "up" \/ issue # NoIssue
    BY <1>2, <1>3 DEF OrderInv
<1>4. CASE socket = "up" /\ issue = NoIssue
    <2>1. /\ Len(received) + Len(wire) = sequence
          /\ \A i \in DOMAIN wire : wire[i] = CutLine \/ wire[i].seq = Len(received) + i - 1
          /\ \A i \in DOMAIN received : received[i] = CutLine \/ received[i].seq = i - 1
        BY <1>4 DEF OrderInv
    <2>2. DOMAIN wire' = 1..(Len(wire) + 1)
        BY <1>2, <1>4, LenProperties
    <2>3. \A i \in DOMAIN wire' : wire'[i] = CutLine \/ wire'[i].seq = Len(received) + i - 1
        <3> SUFFICES ASSUME NEW i \in DOMAIN wire'
                     PROVE  wire'[i] = CutLine \/ wire'[i].seq = Len(received) + i - 1
            OBVIOUS
        <3>1. CASE i \in 1..Len(wire)
            BY <1>1, <1>2, <1>4, <2>1, <3>1
        <3>2. CASE i = Len(wire) + 1
            <4>1. Len(received) + i - 1 = sequence
                BY <1>1, <2>1, <3>2
            <4> QED
                BY <1>2, <1>4, <3>2, <4>1
        <3> QED
            BY <1>1, <2>2, <3>1, <3>2
    <2>4. Len(received) + Len(wire') = sequence'
        <3>1. Len(wire') = Len(wire) + 1
            BY <1>2, <1>4
        <3>2. Len(received) + Len(wire) = sequence /\ sequence' = sequence + 1
            BY <1>2, <2>1
        <3>3. Len(received) + (Len(wire) + 1) = (Len(received) + Len(wire)) + 1
            BY <1>1
        <3> QED
            BY <3>1, <3>2, <3>3, Zenon
    <2> QED
        BY <2>1, <2>3, <2>4 DEF OrderInv
<1> QED
    BY <1>3, <1>4

LEMMA OrderHolds == Types /\ TeardownInv /\ OrderInv /\ [Next]_vars => OrderInv'
<1> SUFFICES ASSUME Types, TeardownInv, OrderInv, [Next]_vars
             PROVE  OrderInv'
    OBVIOUS
<1>1. ASSUME UNCHANGED <<wire, received, issue>>,
             socket' = socket \/ socket' # "up", process' = process \/ ~Alive',
             sequence' = sequence
      PROVE  OrderInv'
    BY <1>1 DEF OrderInv, Alive
<1>2. /\ CaptureStart \in Lines /\ CaptureStart.seq = sequence
      /\ CaptureEnd \in Lines /\ CaptureEnd.seq = sequence
    BY PluginLines, PluginLinesAreLines DEF CaptureStart, CaptureEnd
<1>3. CASE Setup
    BY <1>2, <1>3, WriteKeepsOrder DEF Setup, runnerVars
<1>4. CASE WriteCaptureEnd
    BY <1>2, <1>4, WriteKeepsOrder DEF WriteCaptureEnd, runnerVars
<1>5. ASSUME NEW c \in NativeCalls, EnterWrapper(c) \/ EnterHook(c) \/ HandlerReturns(c)
      PROVE  OrderInv'
    BY <1>1, <1>5 DEF EnterWrapper, EnterHook, HandlerReturns, streamVars, runnerVars
<1>6. ASSUME NEW c \in NativeCalls, Settle(c) \/ Cancel(c)
      PROVE  OrderInv'
    BY <1>1, <1>6 DEF Settle, Cancel, Publish, streamVars, runnerVars, observerVars
<1>7. ASSUME NEW c \in NativeCalls, NEW place \in {"hook", "wrapper"},
             NEW boundary \in LineBoundaries, NEW next,
             StartIsWritten(c, place, boundary, next)
      PROVE  OrderInv'
    <2>1. PICK failed \in BOOLEAN :
              Write(NativeStart(<<place, c>>, boundary, IF failed THEN "omitted" ELSE "v"), failed)
        BY <1>7, Zenon DEF StartIsWritten
    <2>2. Alive /\ UNCHANGED <<socket, received, issue>>
        BY <1>7 DEF StartIsWritten, runnerVars
    <2>3. /\ NativeStart(<<place, c>>, boundary, IF failed THEN "omitted" ELSE "v") \in Lines
          /\ NativeStart(<<place, c>>, boundary, IF failed THEN "omitted" ELSE "v").seq = sequence
        BY PluginLines, PluginLinesAreLines DEF NativeStart, ToolLine
    <2> QED
        BY <2>1, <2>2, <2>3, WriteKeepsOrder
<1>8. ASSUME NEW c \in NativeCalls, WrapperStarts(c) \/ HookStarts(c)
      PROVE  OrderInv'
    BY <1>7, <1>8 DEF WrapperStarts, HookStarts, LineBoundaries
<1>9. CASE HandleEvent
    <2> DEFINE event == Head(events)
               id == active[event.key]
    <2>1. event \in Events
        BY <1>9, HeadTailProperties DEF HandleEvent, Types, CallTypes
    <2>2. event.key \in Keys /\ event.outcome \in Outcomes
        BY <2>1 DEF Events
    <2>3. Alive /\ UNCHANGED <<socket, process, received, issue>>
        BY <1>9 DEF HandleEvent, runnerVars
    <2> HIDE DEF event
    <2>4. CASE event.malformed \/ id = None
        BY <1>1, <1>9, <2>3, <2>4 DEF HandleEvent, event
    <2>5. CASE ~(event.malformed \/ id = None)
        <3>1. Write(NativeTerminal(id, event.outcome), FALSE)
            BY <1>9, <2>5 DEF HandleEvent, event
        <3>2. id \in NativeIds
            BY <2>2, <2>5, CallFacts DEF Types, PluginTypes
        <3>3. /\ NativeTerminal(id, event.outcome) \in Lines
              /\ NativeTerminal(id, event.outcome).seq = sequence
            BY <2>2, <3>2, PluginLines, PluginLinesAreLines DEF NativeTerminal, ToolLine
        <3> QED
            BY <2>3, <3>1, <3>3, WriteKeepsOrder
    <2> QED
        BY <2>4, <2>5
<1>10. ASSUME NEW i \in InnerCalls, EnterInner(i)
       PROVE  OrderInv'
    <2> DEFINE parent == outer[Key[Outer[i]]]
    <2>1. parent \in Ids
        BY CallFacts DEF Types, PluginTypes
    <2>2. Alive /\ UNCHANGED <<socket, process, received, issue>>
        BY <1>10 DEF EnterInner, runnerVars
    <2>3. CASE parent = None
        BY <1>1, <1>10, <2>2, <2>3 DEF EnterInner
    <2>4. CASE parent # None
        <3>1. Write(CodeStart(i, parent), FALSE)
            BY <1>10, <2>4 DEF EnterInner
        <3>2. CodeStart(i, parent) \in Lines /\ CodeStart(i, parent).seq = sequence
            BY <2>1, PluginLines, PluginLinesAreLines DEF CodeStart, ToolLine
        <3> QED
            BY <2>2, <3>1, <3>2, WriteKeepsOrder
    <2> QED
        BY <2>3, <2>4
<1>11. ASSUME NEW i \in InnerCalls, InnerReturns(i)
       PROVE  OrderInv'
    <2>1. PICK outcome \in Outcomes : Write(CodeTerminal(i, outcome), FALSE)
        BY <1>11 DEF InnerReturns
    <2>2. CodeTerminal(i, outcome) \in Lines /\ CodeTerminal(i, outcome).seq = sequence
        BY PluginLines, PluginLinesAreLines DEF CodeTerminal, ToolLine
    <2>3. Alive /\ UNCHANGED <<socket, received, issue>>
        BY <1>11 DEF InnerReturns, runnerVars
    <2> QED
        BY <2>1, <2>2, <2>3, WriteKeepsOrder
<1>12. CASE Dispose \/ Abort \/ SubscriptionFails \/ ExitCleanly
    BY <1>1, <1>12 DEF Dispose, Abort, SubscriptionFails, ExitCleanly, streamVars, runnerVars,
                       observerVars, Alive
<1>13. CASE SocketBreaks \/ ExitAbruptly \/ TimeOut
    <2>1. /\ \A i \in DOMAIN wire' : wire'[i] = CutLine \/ (i \in DOMAIN wire /\ wire'[i] = wire[i])
        BY <1>13, LoseTailFacts DEF SocketBreaks, ExitAbruptly, TimeOut
    <2>2. received' = received /\ (issue' = NoIssue => issue = NoIssue)
        BY <1>13 DEF SocketBreaks, ExitAbruptly, TimeOut, runnerVars, NoIssue
    <2>3. ~(socket' = "up" /\ Alive')
        BY <1>13 DEF SocketBreaks, ExitAbruptly, TimeOut, Alive
    <2> QED
        BY <2>1, <2>2, <2>3 DEF OrderInv
<1>14. CASE Accept \/ UNCHANGED vars
    BY <1>1, <1>14 DEF Accept, vars, streamVars, runnerVars, observerVars
<1>15. CASE Receive
    <2>1. UNCHANGED <<socket, process, sequence>>
        BY <1>15 DEF Receive, observerVars
    <2>2. CASE issue' # NoIssue
        BY <2>2 DEF OrderInv
    <2>3. CASE issue' = NoIssue
        <3>1. /\ issue = NoIssue /\ wire \in Seq(Lines) /\ received \in Seq(Lines)
              /\ wire' \in Seq(Lines) /\ received' \in Seq(Lines)
            BY <1>15, <2>3, ReceiveFacts DEF Types, StreamTypes
        <3>2. PICK n \in Nat :
                  /\ Len(received') = Len(received) + n /\ Len(wire') = Len(wire) - n
                  /\ n <= Len(wire)
                  /\ \A i \in DOMAIN received' : IF i \in DOMAIN received THEN received'[i] = received[i]
                         ELSE i - Len(received) \in DOMAIN wire /\ received'[i] = wire[i - Len(received)]
                  /\ \A i \in DOMAIN wire' : i + n \in DOMAIN wire /\ wire'[i] = wire[i + n]
            BY <1>15, <2>3, ReceiveFacts
        <3>3. /\ Len(received) \in Nat /\ Len(wire) \in Nat /\ sequence \in Nat
              /\ \A i \in DOMAIN received' : i \in Nat
              /\ \A i \in DOMAIN wire' : i \in Nat
            BY <3>1, LenProperties DEF Types, PluginTypes
        <3>4. /\ \A i \in DOMAIN received : received[i] = CutLine \/ received[i].seq = i - 1
              /\ \A i \in DOMAIN wire : wire[i] = CutLine \/ wire[i].seq = Len(received) + i - 1
              /\ socket = "up" /\ Alive => Len(received) + Len(wire) = sequence
            BY <3>1 DEF OrderInv
        <3>5. ASSUME NEW i \in DOMAIN received'
              PROVE  received'[i] = CutLine \/ received'[i].seq = i - 1
            <4>1. CASE i \in DOMAIN received
                BY <3>2, <3>4, <4>1
            <4>2. CASE i \notin DOMAIN received
                <5>1. /\ i - Len(received) \in DOMAIN wire
                      /\ received'[i] = wire[i - Len(received)]
                    BY <3>2, <4>2
                <5>2. Len(received) + (i - Len(received)) - 1 = i - 1
                    BY <3>3
                <5> QED
                    BY <3>4, <5>1, <5>2
            <4> QED
                BY <4>1, <4>2
        <3>6. ASSUME NEW i \in DOMAIN wire'
              PROVE  wire'[i] = CutLine \/ wire'[i].seq = Len(received') + i - 1
            <4>1. i + n \in DOMAIN wire /\ wire'[i] = wire[i + n]
                BY <3>2
            <4>2. Len(received) + (i + n) - 1 = (Len(received) + n) + i - 1
                BY <3>3
            <4> QED
                BY <3>2, <3>4, <4>1, <4>2
        <3>7. socket' = "up" /\ Alive' => Len(received') + Len(wire') = sequence'
            <4>1. (Len(received) + n) + (Len(wire) - n) = Len(received) + Len(wire)
                BY <3>3
            <4> QED
                BY <2>1, <3>2, <3>4, <4>1 DEF Alive
        <3> QED
            BY <3>5, <3>6, <3>7 DEF OrderInv
    <2> QED
        BY <2>2, <2>3
<1>16. CASE Finish
    <2>1. UNCHANGED <<wire, received, socket, process, sequence>>
        BY <1>16 DEF Finish, streamVars, observerVars
    <2>2. issue' = NoIssue => issue = NoIssue
        BY <1>16, Zenon DEF Finish, NoIssue
    <2> QED
        BY <2>1, <2>2 DEF OrderInv, Alive
<1> QED
    BY <1>3, <1>4, <1>5, <1>6, <1>8, <1>9, <1>10, <1>11, <1>12, <1>13, <1>14, <1>15, <1>16
       DEF Next, Plugin, NativeStep, Environment, Runner

LEMMA OrderInvariance == Spec => []OrderInv
<1>1. Init => OrderInv
    <2> SUFFICES ASSUME Init
                 PROVE  OrderInv
        OBVIOUS
    <2>1. received = <<>> /\ wire = <<>> /\ sequence = 0
        BY DEF Init
    <2>2. Len(received) = 0 /\ Len(wire) = 0 /\ DOMAIN received = {} /\ DOMAIN wire = {}
        BY <2>1
    <2> QED
        BY <2>1, <2>2 DEF OrderInv
<1>2. BaseInv /\ OrderInv /\ [Next]_vars => OrderInv'
    BY OrderHolds DEF BaseInv
<1> QED
    BY <1>1, <1>2, BaseInvariance, PTL DEF Spec

(* The lines the runner holds are in the writer's order and without a gap,  *)
(* unless it dropped a chunk, or lost the connection, and says so           *)
(* (the writer's sequence numbers, and _issue of the receiving thread).     *)
THEOREM LostLinesAreReported == Spec => []GapsAreReported
<1>1. OrderInv => GapsAreReported
    BY DEF OrderInv, GapsAreReported
<1> QED
    BY <1>1, OrderInvariance, PTL

(***************************************************************************)
(* What the steps have in common.                                          *)
(***************************************************************************)

(* A step of the connection, the processes or the teardown: no call moves,  *)
(* and no line tells of one.                                                *)
Quiet ==
    /\ UNCHANGED <<setting, callVars, events, active, outer, counts>>
    /\ observer' = "ended" <=> observer = "ended"
    /\ troubled => troubled'
    /\ \A line \in Held' : line \in Held \/ line.kind \in {"capture_start", "other"}

LEMMA QuietSteps ==
    ASSUME Types,
           \/ Setup \/ Dispose \/ Abort \/ Environment \/ Runner \/ UNCHANGED vars
    PROVE  Quiet
<1>1. CutLine.kind = "other" /\ CaptureStart.kind = "capture_start" /\ CaptureStart \in Lines
    BY PluginLines, PluginLinesAreLines DEF CutLine, CaptureStart
<1>2. ASSUME UNCHANGED <<wire, received>>
      PROVE  Held' = Held
    BY <1>2 DEF Held
<1>3. CASE Setup
    <2>1. Held' \subseteq Held \cup {CaptureStart} /\ (troubled => troubled')
        BY <1>1, <1>3, WriteFacts DEF Setup, runnerVars
    <2> QED
        BY <1>1, <1>3, <2>1 DEF Setup, Quiet
<1>4. CASE Dispose \/ Abort \/ UNCHANGED vars
    BY <1>2, <1>4 DEF Dispose, Abort, vars, observerVars, streamVars, runnerVars, Quiet
<1>5. CASE SubscriptionFails \/ ExitCleanly
    BY <1>2, <1>5 DEF SubscriptionFails, ExitCleanly, observerVars, streamVars, runnerVars, Quiet
<1>6. CASE SocketBreaks
    <2>1. Held' \subseteq Held \cup {CutLine}
        BY <1>6, LoseTailFacts DEF SocketBreaks
    <2> QED
        BY <1>1, <1>6, <2>1 DEF SocketBreaks, Quiet
<1>7. CASE ExitAbruptly \/ TimeOut
    <2>1. Held' \subseteq Held \cup {CutLine}
        BY <1>7, LoseTailFacts DEF ExitAbruptly, TimeOut, runnerVars
    <2> QED
        BY <1>1, <1>7, <2>1 DEF ExitAbruptly, TimeOut, observerVars, Quiet
<1>8. CASE Accept \/ Finish
    BY <1>2, <1>8 DEF Accept, Finish, observerVars, streamVars, Quiet
<1>9. CASE Receive
    <2>1. Held' \subseteq Held
        BY <1>9, ReceiveFacts
    <2> QED
        BY <1>9, <2>1 DEF Receive, observerVars, Quiet
<1> QED
    BY <1>3, <1>4, <1>5, <1>6, <1>7, <1>8, <1>9 DEF Environment, Runner

(* What a step may do to the phase of a call.                               *)
NativeMove(c) ==
    \/ phase'[c] = phase[c]
    \/ /\ phase[c] = "idle" /\ Tool[c] # "plain"
       /\ phase'[c] = "hooking" \/ (phase'[c] = AfterHook(c) /\ active[Key[c]] # None)
    \/ /\ phase[c] \in {"idle", "hooked"} /\ Tool[c] # "synthetic" /\ phase'[c] = "wrapping"
    \/ phase[c] = "hooking" /\ phase'[c] = AfterHook(c)
    \/ phase[c] = "wrapping" /\ phase'[c] = "running"
    \/ phase[c] = "running" /\ phase'[c] \in Outcomes
InnerMove(i) ==
    \/ phase'[i] = phase[i]
    \/ phase[i] = "idle" /\ phase'[i] \in {"unobserved", "running"}
    \/ phase[i] = "running" /\ phase'[i] \in Outcomes

LEMMA Moves ==
    ASSUME Types, [Next]_vars
    PROVE  /\ setting' = setting
           /\ \A c \in NativeCalls : NativeMove(c)
           /\ \A i \in InnerCalls : InnerMove(i)
<1>a. CallTypes
    BY DEF Types
<1>1. DOMAIN phase = Calls
    BY <1>a DEF CallTypes
<1>2. ASSUME Quiet
      PROVE  /\ setting' = setting
             /\ \A c \in NativeCalls : NativeMove(c)
             /\ \A i \in InnerCalls : InnerMove(i)
    BY <1>2 DEF Quiet, callVars, NativeMove, InnerMove
<1>3. ASSUME NEW c \in NativeCalls, NEW next, setting' = setting,
             phase' = [phase EXCEPT ![c] = next],
             phase'[c] = next => NativeMove(c)
      PROVE  /\ setting' = setting
             /\ \A d \in NativeCalls : NativeMove(d)
             /\ \A i \in InnerCalls : InnerMove(i)
    <2>0. c \in Calls
        BY <1>a, CallFacts
    <2>1. phase'[c] = next /\ \A d \in Calls : d # c => phase'[d] = phase[d]
        BY <1>1, <1>3, <2>0
    <2>2. c \notin InnerCalls /\ NativeCalls \subseteq Calls /\ InnerCalls \subseteq Calls
        BY <1>a, CallFacts
    <2> QED
        BY <1>3, <2>1, <2>2 DEF NativeMove, InnerMove
<1>4. ASSUME NEW i \in InnerCalls, NEW next, setting' = setting,
             phase' = [phase EXCEPT ![i] = next],
             phase'[i] = next => InnerMove(i)
      PROVE  /\ setting' = setting
             /\ \A d \in NativeCalls : NativeMove(d)
             /\ \A j \in InnerCalls : InnerMove(j)
    <2>0. i \in Calls
        BY <1>a, CallFacts
    <2>1. phase'[i] = next /\ \A d \in Calls : d # i => phase'[d] = phase[d]
        BY <1>1, <1>4, <2>0
    <2>2. i \notin NativeCalls /\ NativeCalls \subseteq Calls /\ InnerCalls \subseteq Calls
        BY <1>a, CallFacts
    <2> QED
        BY <1>4, <2>1, <2>2 DEF NativeMove, InnerMove
<1>5. ASSUME NEW c \in NativeCalls, EnterWrapper(c)
      PROVE  /\ setting' = setting
             /\ \A d \in NativeCalls : NativeMove(d)
             /\ \A i \in InnerCalls : InnerMove(i)
    <2>1. phase[c] \in NativePhases /\ Tool[c] \in {"plain", "synthetic", "registered"}
        BY <1>a, CallFacts DEF CallTypes
    <2>2. phase[c] \in {"idle", "hooked"} /\ Tool[c] # "synthetic"
        BY <1>5, <2>1 DEF EnterWrapper, NativePhases, Outcomes
    <2>3. setting' = setting /\ phase' = [phase EXCEPT ![c] = "wrapping"]
        BY <1>5 DEF EnterWrapper
    <2> QED
        BY <1>3, <2>2, <2>3 DEF NativeMove
<1>6. ASSUME NEW c \in NativeCalls, EnterHook(c)
      PROVE  /\ setting' = setting
             /\ \A d \in NativeCalls : NativeMove(d)
             /\ \A i \in InnerCalls : InnerMove(i)
    <2>1. setting' = setting /\ Tool[c] # "plain" /\ phase[c] = "idle"
        BY <1>6 DEF EnterHook
    <2>2. CASE active[Key[c]] # None
        <3>1. phase' = [phase EXCEPT ![c] = AfterHook(c)]
            BY <1>6, <2>2 DEF EnterHook
        <3> QED
            BY <1>3, <2>1, <2>2, <3>1 DEF NativeMove
    <2>3. CASE active[Key[c]] = None
        <3>1. phase' = [phase EXCEPT ![c] = "hooking"]
            BY <1>6, <2>3 DEF EnterHook
        <3> QED
            BY <1>3, <2>1, <3>1 DEF NativeMove
    <2> QED
        BY <2>2, <2>3
<1>7. ASSUME NEW c \in NativeCalls, WrapperStarts(c) \/ HookStarts(c)
      PROVE  /\ setting' = setting
             /\ \A d \in NativeCalls : NativeMove(d)
             /\ \A i \in InnerCalls : InnerMove(i)
    <2>1. CASE WrapperStarts(c)
        BY <1>3, <2>1 DEF WrapperStarts, StartIsWritten, NativeMove
    <2>2. CASE HookStarts(c)
        BY <1>3, <2>2 DEF HookStarts, StartIsWritten, NativeMove
    <2> QED
        BY <1>7, <2>1, <2>2
<1>8. ASSUME NEW c \in NativeCalls, HandlerReturns(c)
      PROVE  /\ setting' = setting
             /\ \A d \in NativeCalls : NativeMove(d)
             /\ \A i \in InnerCalls : InnerMove(i)
    <2>1. PICK outcome \in Outcomes : phase' = [phase EXCEPT ![c] = outcome]
        BY <1>8 DEF HandlerReturns
    <2> QED
        BY <1>3, <1>8, <2>1 DEF HandlerReturns, NativeMove
<1>9. ASSUME NEW c \in NativeCalls, Settle(c) \/ Cancel(c)
      PROVE  setting' = setting /\ phase' = phase
    BY <1>9 DEF Settle, Cancel, Publish
<1>10. CASE HandleEvent \/ WriteCaptureEnd
    BY <1>10 DEF HandleEvent, WriteCaptureEnd, callVars, NativeMove, InnerMove
<1>11. ASSUME NEW i \in InnerCalls, EnterInner(i) \/ InnerReturns(i)
       PROVE  /\ setting' = setting
              /\ \A d \in NativeCalls : NativeMove(d)
              /\ \A j \in InnerCalls : InnerMove(j)
    <2>1. CASE EnterInner(i)
        <3>1. PICK next \in {"unobserved", "running"} : phase' = [phase EXCEPT ![i] = next]
            BY <2>1, Zenon DEF EnterInner
        <3> QED
            BY <1>4, <2>1, <3>1 DEF EnterInner, InnerMove
    <2>2. CASE InnerReturns(i)
        <3>1. PICK outcome \in Outcomes : phase' = [phase EXCEPT ![i] = outcome]
            BY <2>2 DEF InnerReturns
        <3> QED
            BY <1>4, <2>2, <3>1 DEF InnerReturns, InnerMove
    <2> QED
        BY <1>11, <2>1, <2>2
<1> QED
    BY <1>2, <1>5, <1>6, <1>7, <1>8, <1>9, <1>10, <1>11, QuietSteps
       DEF Next, Plugin, NativeStep, NativeMove, InnerMove

(* What was entered stays entered, and what was counted stays counted.      *)
LEMMA Progress ==
    ASSUME Types, [Next]_vars
    PROVE  /\ Entered \subseteq Entered' /\ InnerEntered \subseteq InnerEntered'
           /\ \A c \in Calls : phase[c] # "idle" => phase'[c] # "idle"
           /\ \A i \in InnerCalls : phase[i] \in Outcomes => phase'[i] = phase[i]
<1>1. /\ setting' = setting
      /\ \A c \in NativeCalls : NativeMove(c)
      /\ \A i \in InnerCalls : InnerMove(i)
    BY Moves
<1>2. Tool' = Tool
    BY <1>1 DEF Tool
<1>3. \A id \in NativeIds : id[2] \in NativeCalls
    BY CallFacts DEF Types
<1>4. \A c \in NativeCalls : AfterHook(c) \in {"running", "hooked"}
    BY DEF AfterHook
<1>5. \A c \in NativeCalls :
          /\ phase[c] # "idle" => phase'[c] # "idle"
          /\ phase[c] \in {"wrapping", "running"} \cup Outcomes =>
                 phase'[c] \in {"wrapping", "running"} \cup Outcomes
    BY <1>1, <1>4 DEF NativeMove, Outcomes
<1>6. \A i \in InnerCalls :
          /\ phase[i] # "idle" => phase'[i] # "idle"
          /\ phase[i] \in {"running"} \cup Outcomes => phase'[i] \in {"running"} \cup Outcomes
          /\ phase[i] \in Outcomes => phase'[i] = phase[i]
    BY <1>1 DEF InnerMove, Outcomes
<1>7. Entered \subseteq Entered'
    BY <1>2, <1>3, <1>5 DEF Entered
<1>8. InnerEntered \subseteq InnerEntered'
    BY <1>6 DEF InnerEntered
<1> QED
    BY <1>5, <1>6, <1>7, <1>8 DEF Calls

(* Invocations are counted while the plugin observes, and only then.        *)
LEMMA StartCounts ==
    ASSUME Types, [Next]_vars
    PROVE  \/ /\ counts'["native_start"] = counts["native_start"]
              /\ observer = "ended" => observer' = "ended"
           \/ /\ observer = "observing" /\ observer' = "observing"
              /\ counts'["native_start"] = counts["native_start"] + 1
<1>1. /\ counts \in [ToolKinds -> Nat]
      /\ {"native_start", "native_terminal", "code_start", "code_terminal"} \subseteq ToolKinds
    BY Kinds DEF Types, PluginTypes
<1>2. CASE Quiet
    BY <1>2 DEF Quiet
<1>3. ASSUME NEW c \in NativeCalls, EnterWrapper(c) \/ EnterHook(c)
      PROVE  \/ /\ counts' = counts /\ observer' = observer
             \/ /\ observer = "observing" /\ observer' = "observing"
                /\ counts' = [counts EXCEPT !["native_start"] = @ + 1]
    BY <1>3 DEF EnterWrapper, EnterHook
<1>4. ASSUME NEW c \in NativeCalls, WrapperStarts(c) \/ HookStarts(c) \/ HandlerReturns(c)
      PROVE  counts' = counts /\ observer' = observer
    BY <1>4 DEF WrapperStarts, HookStarts, StartIsWritten, HandlerReturns
<1>5. ASSUME NEW c \in NativeCalls, Settle(c) \/ Cancel(c)
      PROVE  counts' = counts /\ observer' = observer
    BY <1>5 DEF Settle, Cancel, Publish, observerVars
<1>6. CASE HandleEvent
    <2>1. counts' = counts \/ counts' = [counts EXCEPT !["native_terminal"] = @ + 1]
        BY <1>6, Zenon DEF HandleEvent
    <2> QED
        BY <1>1, <1>6, <2>1 DEF HandleEvent
<1>7. ASSUME NEW i \in InnerCalls, EnterInner(i) \/ InnerReturns(i)
      PROVE  /\ counts'["native_start"] = counts["native_start"]
             /\ observer' = observer
    <2>1. \/ counts' = counts
          \/ counts' = [counts EXCEPT !["code_start"] = @ + 1]
          \/ counts' = [counts EXCEPT !["code_terminal"] = @ + 1]
        BY <1>7, Zenon DEF EnterInner, InnerReturns
    <2> QED
        BY <1>1, <1>7, <2>1 DEF EnterInner, InnerReturns
<1>8. CASE WriteCaptureEnd
    BY <1>8 DEF WriteCaptureEnd
<1>9. ASSUME counts' = [counts EXCEPT !["native_start"] = @ + 1]
      PROVE  counts'["native_start"] = counts["native_start"] + 1
    BY <1>1, <1>9
<1> QED
    BY <1>2, <1>3, <1>4, <1>5, <1>6, <1>7, <1>8, <1>9, QuietSteps
       DEF Next, Plugin, NativeStep

(* What a line tells stays so.                                              *)
LEMMA TellsStays ==
    ASSUME Types, [Next]_vars, NEW line, Tells(line)
    PROVE  Tells(line)'
<1>1. /\ Entered \subseteq Entered' /\ InnerEntered \subseteq InnerEntered'
      /\ \A i \in InnerCalls : phase[i] \in Outcomes => phase'[i] = phase[i]
    BY Progress
<1>2. observer = "ended" =>
          observer' = "ended" /\ counts'["native_start"] = counts["native_start"]
    BY StartCounts
<1>3. \A id \in CodeIds : id[2] \in InnerCalls
    BY CallFacts DEF Types
<1>4. /\ line.kind = "native_start" => line.id \in Entered'
      /\ line.kind = "native_terminal" => line.id \in NativeIds /\ line.outcome \in Outcomes
      /\ line.kind = "code_start" => line.id \in CodeIds /\ line.id[2] \in InnerEntered'
      /\ line.kind = "code_terminal" =>
             line.id \in CodeIds /\ line.outcome \in Outcomes /\ phase'[line.id[2]] = line.outcome
      /\ line.kind = "capture_end" =>
             observer' = "ended" /\ line.totals["native_start"] = counts'["native_start"]
    BY <1>1, <1>2, <1>3 DEF Tells
<1> QED
    BY <1>4 DEF Tells

(***************************************************************************)
(* What the lines tell, and what the counts count.                         *)
(***************************************************************************)

LEMMA HeldStays ==
    ASSUME UNCHANGED <<wire, received>>
    PROVE  Held' = Held
BY DEF Held

(* Of the lines that matter at the end, what brings them about.             *)
Fresh(line) ==
    /\ line.kind = "native_terminal" =>
           /\ HandleEvent
           /\ line.id = active[Head(events).key] /\ line.id # None
           /\ line.outcome = Head(events).outcome
    /\ line.kind = "capture_end" =>
           /\ WriteCaptureEnd
           /\ line.failures = troubled /\ line.totals = counts

LEMMA LinesHold ==
    ASSUME Types, [Next]_vars, \A line \in Held : Tells(line),
           \A k \in Keys : active[k] # None => active[k] \in Entered
    PROVE  \A line \in Held' : Tells(line)' /\ (line \in Held \/ Fresh(line))
<1>a. CallTypes /\ PluginTypes /\ StreamTypes
    BY DEF Types
<1>1. CASE Quiet
    <2>1. \A line \in Held' : line \in Held \/ line.kind \in {"capture_start", "other"}
        BY <1>1 DEF Quiet
    <2>2. \A line : line.kind \in {"capture_start", "other"} => Tells(line) /\ Fresh(line)
        BY DEF Tells, Fresh
    <2> QED
        BY <2>1, <2>2, TellsStays
<1>2. ASSUME Held' = Held
      PROVE  \A line \in Held' : Tells(line)' /\ (line \in Held \/ Fresh(line))
    BY <1>2, TellsStays
<1>3. ASSUME NEW c \in NativeCalls,
             \/ EnterWrapper(c) \/ EnterHook(c) \/ HandlerReturns(c) \/ Settle(c) \/ Cancel(c)
      PROVE  Held' = Held
    <2>1. CASE EnterWrapper(c) \/ EnterHook(c) \/ HandlerReturns(c)
        BY <2>1, HeldStays DEF EnterWrapper, EnterHook, HandlerReturns, streamVars, runnerVars
    <2>2. CASE Settle(c) \/ Cancel(c)
        BY <2>2, HeldStays DEF Settle, Cancel, Publish, streamVars, runnerVars
    <2> QED
        BY <1>3, <2>1, <2>2
<1>4. ASSUME NEW c \in NativeCalls, NEW place \in {"hook", "wrapper"},
             NEW boundary \in LineBoundaries, NEW next,
             StartIsWritten(c, place, boundary, next), <<place, c>> \in Entered
      PROVE  \A line \in Held' : Tells(line)' /\ (line \in Held \/ Fresh(line))
    <2>1. PICK failed \in BOOLEAN :
              Write(NativeStart(<<place, c>>, boundary, IF failed THEN "omitted" ELSE "v"), failed)
        BY <1>4, Zenon DEF StartIsWritten
    <2> DEFINE new == NativeStart(<<place, c>>, boundary, IF failed THEN "omitted" ELSE "v")
    <2>2. new \in Lines /\ new.kind = "native_start" /\ new.id = <<place, c>>
        BY PluginLines, PluginLinesAreLines DEF NativeStart, ToolLine
    <2>3. received' = received
        BY <1>4 DEF StartIsWritten, runnerVars
    <2> HIDE DEF new
    <2>4. Held' \subseteq Held \cup {new}
        BY <2>1, <2>2, <2>3, WriteFacts DEF new
    <2>5. <<place, c>> \in Entered'
        BY <1>4, Progress
    <2>6. \A line : line = new => Tells(line)' /\ Fresh(line)
        BY <2>2, <2>5 DEF Tells, Fresh
    <2> QED
        BY <2>4, <2>6, TellsStays
<1>5. ASSUME NEW c \in NativeCalls, WrapperStarts(c) \/ HookStarts(c)
      PROVE  \A line \in Held' : Tells(line)' /\ (line \in Held \/ Fresh(line))
    <2>1. {"decoded-tool-execute", "tool-execute-before"} \subseteq LineBoundaries
        BY DEF LineBoundaries
    <2>2. CASE WrapperStarts(c)
        <3>1. phase[c] = "wrapping"
            BY <2>2 DEF WrapperStarts
        <3>2. <<"wrapper", c>> \in Entered
            BY <1>a, <3>1 DEF CallTypes, Entered, NativeIds
        <3> QED
            BY <1>4, <2>1, <2>2, <3>2 DEF WrapperStarts
    <2>3. CASE HookStarts(c)
        <3>1. phase[c] = "hooking"
            BY <2>3 DEF HookStarts
        <3>2. <<"hook", c>> \in Entered
            BY <1>a, <3>1 DEF CallTypes, Entered, NativeIds
        <3> QED
            BY <1>4, <2>1, <2>3, <3>2 DEF HookStarts
    <2> QED
        BY <1>5, <2>2, <2>3
<1>6. CASE HandleEvent
    <2> DEFINE event == Head(events)
               id == active[event.key]
    <2>1. event.key \in Keys /\ event.outcome \in Outcomes
        <3>1. event \in Events
            BY <1>a, <1>6, HeadTailProperties DEF HandleEvent, CallTypes
        <3> QED
            BY <3>1 DEF Events
    <2>2. received' = received
        BY <1>6 DEF HandleEvent, runnerVars
    <2> HIDE DEF event
    <2>3. CASE event.malformed \/ id = None
        BY <1>2, <1>6, <2>2, <2>3, HeldStays DEF HandleEvent, event
    <2>4. CASE ~(event.malformed \/ id = None)
        <3> DEFINE new == NativeTerminal(id, event.outcome)
        <3>1. Write(new, FALSE)
            BY <1>6, <2>4 DEF HandleEvent, event
        <3>2. id \in NativeIds
            BY <1>a, <2>1, <2>4, CallFacts DEF PluginTypes
        <3>3. /\ new \in Lines /\ new.kind = "native_terminal" /\ new.id = id
              /\ new.outcome = event.outcome
            BY <2>1, <3>2, PluginLines, PluginLinesAreLines DEF NativeTerminal, ToolLine
        <3> HIDE DEF new
        <3>4. Held' \subseteq Held \cup {new}
            BY <2>2, <3>1, <3>3, WriteFacts
        <3>5. \A line : line = new => Tells(line)' /\ Fresh(line)
            BY <1>6, <2>1, <2>4, <3>2, <3>3 DEF Tells, Fresh, event
        <3> QED
            BY <3>4, <3>5, TellsStays
    <2> QED
        BY <2>3, <2>4
<1>7. ASSUME NEW i \in InnerCalls, EnterInner(i)
      PROVE  \A line \in Held' : Tells(line)' /\ (line \in Held \/ Fresh(line))
    <2> DEFINE parent == outer[Key[Outer[i]]]
    <2>1. parent \in Ids
        BY <1>a, CallFacts DEF PluginTypes
    <2>2. received' = received
        BY <1>7 DEF EnterInner, runnerVars
    <2>3. CASE parent = None
        BY <1>2, <1>7, <2>2, <2>3, HeldStays DEF EnterInner
    <2>4. CASE parent # None
        <3> DEFINE new == CodeStart(i, parent)
        <3>1. Write(new, FALSE) /\ phase' = [phase EXCEPT ![i] = "running"]
            BY <1>7, <2>4 DEF EnterInner
        <3>2. new \in Lines /\ new.kind = "code_start" /\ new.id = <<"code", i>>
            BY <2>1, PluginLines, PluginLinesAreLines DEF CodeStart, ToolLine
        <3> HIDE DEF new
        <3>3. Held' \subseteq Held \cup {new}
            BY <2>2, <3>1, <3>2, WriteFacts
        <3>4. phase'[i] = "running"
            BY <1>a, <3>1, CallFacts DEF CallTypes
        <3>5. <<"code", i>> \in CodeIds /\ i \in InnerEntered'
            BY <3>4 DEF CodeIds, InnerEntered
        <3>6. \A line : line = new => Tells(line)' /\ Fresh(line)
            BY <3>2, <3>5 DEF Tells, Fresh
        <3> QED
            BY <3>3, <3>6, TellsStays
    <2> QED
        BY <2>3, <2>4
<1>8. ASSUME NEW i \in InnerCalls, InnerReturns(i)
      PROVE  \A line \in Held' : Tells(line)' /\ (line \in Held \/ Fresh(line))
    <2>1. PICK outcome \in Outcomes :
              phase' = [phase EXCEPT ![i] = outcome] /\ Write(CodeTerminal(i, outcome), FALSE)
        BY <1>8 DEF InnerReturns
    <2> DEFINE new == CodeTerminal(i, outcome)
    <2>2. /\ new \in Lines /\ new.kind = "code_terminal" /\ new.id = <<"code", i>>
          /\ new.outcome = outcome
        BY PluginLines, PluginLinesAreLines DEF CodeTerminal, ToolLine
    <2>3. received' = received
        BY <1>8 DEF InnerReturns, runnerVars
    <2>4. Held' \subseteq Held \cup {new}
        BY <2>1, <2>2, <2>3, WriteFacts
    <2> HIDE DEF new
    <2>5. phase'[i] = outcome /\ <<"code", i>> \in CodeIds
        BY <1>a, <2>1, CallFacts DEF CallTypes, CodeIds
    <2>6. \A line : line = new => Tells(line)' /\ Fresh(line)
        BY <2>2, <2>5 DEF Tells, Fresh
    <2> QED
        BY <2>4, <2>6, TellsStays
<1>9. CASE WriteCaptureEnd
    <2> DEFINE new == CaptureEnd
    <2>1. /\ new \in Lines /\ new.kind = "capture_end" /\ new.totals = counts
          /\ new.failures = troubled
        BY PluginLines, PluginLinesAreLines DEF CaptureEnd
    <2>2. Write(new, FALSE) /\ received' = received /\ observer' = "ended" /\ counts' = counts
        BY <1>9 DEF WriteCaptureEnd, runnerVars
    <2> HIDE DEF new
    <2>3. Held' \subseteq Held \cup {new}
        BY <2>1, <2>2, WriteFacts
    <2>4. \A line : line = new => Tells(line)' /\ Fresh(line)
        BY <1>9, <2>1, <2>2 DEF Tells, Fresh
    <2> QED
        BY <2>3, <2>4, TellsStays
<1> QED
    BY <1>1, <1>2, <1>3, <1>5, <1>6, <1>7, <1>8, <1>9, QuietSteps
       DEF Next, Plugin, NativeStep

(* What the active map may turn into.                                       *)
LEMMA ActiveMoves ==
    ASSUME Types, [Next]_vars
    PROVE  \A k \in Keys :
               \/ active'[k] = active[k] \/ active'[k] = None
               \/ \E c \in NativeCalls :
                      /\ Key[c] = k /\ counts'["native_start"] = counts["native_start"] + 1
                      /\ active'[k] \in {<<"hook", c>>, <<"wrapper", c>>} /\ active'[k] \in Entered'
<1>a. /\ active \in [Keys -> Ids] /\ counts \in [ToolKinds -> Nat]
      /\ phase \in [Calls -> NativePhases \cup InnerPhases]
      /\ "native_start" \in ToolKinds
    BY Kinds DEF Types, PluginTypes, CallTypes
<1>b. \A c \in NativeCalls : c \in Calls /\ Key[c] \in Keys
    BY CallFacts DEF Types
<1>1. CASE Quiet
    BY <1>1 DEF Quiet
<1>2. ASSUME NEW c \in NativeCalls,
             \/ WrapperStarts(c) \/ HookStarts(c) \/ HandlerReturns(c) \/ Settle(c) \/ Cancel(c)
      PROVE  active' = active
    <2>1. CASE WrapperStarts(c) \/ HookStarts(c) \/ HandlerReturns(c)
        BY <2>1 DEF WrapperStarts, HookStarts, StartIsWritten, HandlerReturns
    <2>2. CASE Settle(c) \/ Cancel(c)
        BY <2>2 DEF Settle, Cancel, Publish, observerVars
    <2> QED
        BY <1>2, <2>1, <2>2
<1>3. ASSUME NEW i \in InnerCalls, EnterInner(i) \/ InnerReturns(i)
      PROVE  active' = active
    BY <1>3 DEF EnterInner, InnerReturns
<1>4. CASE WriteCaptureEnd
    BY <1>4 DEF WriteCaptureEnd
<1>5. CASE HandleEvent
    <2>1. active' = active \/ \E k : active' = [active EXCEPT ![k] = None]
        BY <1>5, Zenon DEF HandleEvent
    <2> QED
        BY <1>a, <2>1
<1>6. ASSUME NEW c \in NativeCalls, EnterWrapper(c)
      PROVE  \A k \in Keys :
                 \/ active'[k] = active[k]
                 \/ /\ Key[c] = k /\ counts'["native_start"] = counts["native_start"] + 1
                    /\ active'[k] \in {<<"hook", c>>, <<"wrapper", c>>} /\ active'[k] \in Entered'
    <2>1. /\ active' = [active EXCEPT ![Key[c]] = <<"wrapper", c>>]
          /\ counts' = [counts EXCEPT !["native_start"] = @ + 1]
          /\ phase' = [phase EXCEPT ![c] = "wrapping"] /\ setting' = setting
        BY <1>6 DEF EnterWrapper
    <2>2. Tool'[c] # "synthetic"
        <3>1. phase[c] \in NativePhases /\ Tool[c] \in {"plain", "synthetic", "registered"}
            BY CallFacts DEF Types, CallTypes
        <3> QED
            BY <1>6, <2>1, <3>1 DEF EnterWrapper, NativePhases, Outcomes, Tool
    <2>3. phase'[c] = "wrapping"
        BY <1>a, <1>b, <2>1
    <2>4. <<"wrapper", c>> \in Entered'
        BY <2>2, <2>3 DEF Entered, NativeIds
    <2>5. counts'["native_start"] = counts["native_start"] + 1
        BY <1>a, <2>1
    <2> QED
        BY <1>a, <1>b, <2>1, <2>4, <2>5
<1>7. ASSUME NEW c \in NativeCalls, EnterHook(c)
      PROVE  \A k \in Keys :
                 \/ active'[k] = active[k]
                 \/ /\ Key[c] = k /\ counts'["native_start"] = counts["native_start"] + 1
                    /\ active'[k] \in {<<"hook", c>>, <<"wrapper", c>>} /\ active'[k] \in Entered'
    <2>1. CASE active[Key[c]] # None
        BY <1>7, <2>1 DEF EnterHook
    <2>2. CASE active[Key[c]] = None
        <3>1. /\ active' = [active EXCEPT ![Key[c]] = <<"hook", c>>]
              /\ counts' = [counts EXCEPT !["native_start"] = @ + 1]
              /\ phase' = [phase EXCEPT ![c] = "hooking"] /\ setting' = setting /\ Tool[c] # "plain"
            BY <1>7, <2>2 DEF EnterHook
        <3>2. phase'[c] = "hooking" /\ Tool'[c] # "plain"
            BY <1>a, <1>b, <3>1 DEF Tool
        <3>3. <<"hook", c>> \in Entered'
            BY <3>2 DEF Entered, NativeIds
        <3>4. counts'["native_start"] = counts["native_start"] + 1
            BY <1>a, <3>1
        <3> QED
            BY <1>a, <1>b, <3>1, <3>3, <3>4
    <2> QED
        BY <2>1, <2>2
<1> QED
    BY <1>1, <1>2, <1>3, <1>4, <1>5, <1>6, <1>7, QuietSteps DEF Next, Plugin, NativeStep

LEMMA CountHolds == Types /\ CountInv /\ [Next]_vars => CountInv'
<1> SUFFICES ASSUME Types, CountInv, [Next]_vars
             PROVE  CountInv'
    OBVIOUS
<1>a. counts["native_start"] \in Nat
    BY Kinds DEF Types, PluginTypes
<1>b. \/ counts'["native_start"] = counts["native_start"]
      \/ counts'["native_start"] = counts["native_start"] + 1
    BY StartCounts
<1>c. /\ Entered \subseteq Entered'
      /\ \A c \in Calls : phase[c] # "idle" => phase'[c] # "idle"
    BY Progress
<1>d. /\ \A c \in NativeCalls : c \in Calls /\ Key[c] \in Keys
      /\ \A i \in InnerCalls : i \in Calls /\ Outer[i] \in Calls /\ i \notin NativeCalls
    BY CallFacts DEF Types
<1>e. /\ \A c \in NativeCalls : NativeMove(c)
      /\ \A i \in InnerCalls : InnerMove(i)
    BY Moves
<1>1. ASSUME NEW c \in NativeCalls, phase'[c] # "idle"
      PROVE  counts'["native_start"] > 0
    <2>1. CASE phase[c] # "idle"
        BY <1>a, <1>b, <2>1 DEF CountInv, Dispatched
    <2>2. CASE phase[c] = "idle"
        <3>1. CASE active[Key[c]] # None
            BY <1>a, <1>b, <1>d, <3>1 DEF CountInv
        <3>2. CASE active[Key[c]] = None
            <4>1. phase'[c] # phase[c]
                BY <1>1, <2>2
            <4>2. ASSUME NEW d \in NativeCalls, EnterWrapper(d) \/ EnterHook(d), d = c
                  PROVE  counts' = [counts EXCEPT !["native_start"] = @ + 1]
                BY <3>2, <4>2 DEF EnterWrapper, EnterHook
            <4>3. ASSUME NEW d \in Calls, d # c, NEW next, phase' = [phase EXCEPT ![d] = next]
                  PROVE  FALSE
                BY <1>d, <4>1, <4>3 DEF Types, CallTypes
            <4>4. ASSUME NEW d \in NativeCalls, EnterWrapper(d) \/ EnterHook(d)
                  PROVE  d = c
                BY <1>d, <4>3, <4>4, Zenon DEF EnterWrapper, EnterHook
            <4>5. ASSUME NEW d \in NativeCalls, WrapperStarts(d) \/ HookStarts(d) \/ HandlerReturns(d)
                  PROVE  FALSE
                <5>1. phase[d] \in {"wrapping", "hooking", "running"}
                    BY <4>5 DEF WrapperStarts, HookStarts, HandlerReturns
                <5>2. d # c
                    BY <2>2, <5>1
                <5>3. \E next : phase' = [phase EXCEPT ![d] = next]
                    BY <4>5, Zenon DEF WrapperStarts, HookStarts, StartIsWritten, HandlerReturns
                <5> QED
                    BY <1>d, <4>3, <5>2, <5>3
            <4>6. ASSUME NEW i \in InnerCalls, EnterInner(i) \/ InnerReturns(i)
                  PROVE  FALSE
                <5>1. i # c /\ i \in Calls
                    BY <1>d
                <5>2. \E next : phase' = [phase EXCEPT ![i] = next]
                    BY <4>6, Zenon DEF EnterInner, InnerReturns
                <5> QED
                    BY <4>3, <5>1, <5>2
            <4>7. ASSUME NEW d \in NativeCalls, Settle(d) \/ Cancel(d)
                  PROVE  FALSE
                BY <4>1, <4>7 DEF Settle, Cancel, Publish
            <4>8. ~Quiet /\ ~HandleEvent /\ ~WriteCaptureEnd
                BY <4>1 DEF Quiet, HandleEvent, WriteCaptureEnd, callVars
            <4>9. counts' = [counts EXCEPT !["native_start"] = @ + 1]
                BY <4>2, <4>4, <4>5, <4>6, <4>7, <4>8, QuietSteps DEF Next, Plugin, NativeStep
            <4> QED
                BY <1>a, <4>9, Kinds DEF Types, PluginTypes
        <3> QED
            BY <3>1, <3>2
    <2> QED
        BY <2>1, <2>2
<1>2. ASSUME NEW k \in Keys, active'[k] # None
      PROVE  /\ counts'["native_start"] > 0
             /\ active'[k] \in Entered' /\ Key[active'[k][2]] = k
    <2>1. CASE active'[k] = active[k]
        BY <1>2, <1>a, <1>b, <1>c, <2>1 DEF CountInv
    <2>2. CASE active'[k] # active[k]
        BY <1>2, <1>a, <2>2, ActiveMoves
    <2> QED
        BY <2>1, <2>2
<1>3. ASSUME NEW i \in InnerCalls, phase'[i] # "idle"
      PROVE  phase'[Outer[i]] # "idle"
    <2>1. CASE phase[i] # "idle"
        BY <1>c, <1>d, <2>1 DEF CountInv, Dispatched
    <2>2. CASE phase[i] = "idle"
        <3>1. phase'[i] # phase[i]
            BY <1>3, <2>2
        <3>2. ASSUME NEW d \in Calls, d # i, NEW next, phase' = [phase EXCEPT ![d] = next]
              PROVE  FALSE
            BY <1>d, <3>1, <3>2 DEF Types, CallTypes
        <3>3. ASSUME NEW j \in InnerCalls, EnterInner(j)
              PROVE  phase[Outer[j]] # "idle" /\ j = i
            <4>1. \E next : phase' = [phase EXCEPT ![j] = next]
                BY <3>3, Zenon DEF EnterInner
            <4> QED
                BY <1>d, <3>2, <3>3, <4>1 DEF EnterInner
        <3>4. ASSUME NEW j \in InnerCalls, InnerReturns(j)
              PROVE  FALSE
            <4>1. \E next : phase' = [phase EXCEPT ![j] = next]
                BY <3>4, Zenon DEF InnerReturns
            <4> QED
                BY <1>d, <2>2, <3>2, <3>4, <4>1 DEF InnerReturns
        <3>5. ASSUME NEW c \in NativeCalls, NativeStep(c)
              PROVE  FALSE
            <4>1. (\E next : phase' = [phase EXCEPT ![c] = next]) \/ phase' = phase
                BY <3>5, Zenon DEF NativeStep, EnterWrapper, EnterHook, WrapperStarts, HookStarts,
                                   StartIsWritten, HandlerReturns, Settle, Cancel, Publish
            <4> QED
                BY <1>d, <3>1, <3>2, <4>1
        <3>6. ~Quiet /\ ~HandleEvent /\ ~WriteCaptureEnd
            BY <3>1 DEF Quiet, HandleEvent, WriteCaptureEnd, callVars
        <3>7. EnterInner(i)
            BY <3>3, <3>4, <3>5, <3>6, QuietSteps DEF Next, Plugin
        <3> QED
            BY <1>c, <1>d, <3>3, <3>7
    <2> QED
        BY <2>1, <2>2
<1>4. \A line \in Held' : Tells(line)'
    BY LinesHold DEF CountInv
<1>5. /\ \A c \in NativeCalls : phase'[c] # "idle" => counts'["native_start"] > 0
      /\ \A k \in Keys : active'[k] # None =>
             counts'["native_start"] > 0 /\ active'[k] \in Entered' /\ Key[active'[k][2]] = k
      /\ \A i \in InnerCalls : phase'[i] # "idle" => phase'[Outer[i]] # "idle"
    BY <1>1, <1>2, <1>3
<1> QED
    BY <1>4, <1>5 DEF CountInv, Dispatched

(***************************************************************************)
(* Complete evidence, and the proof that nothing was invoked.              *)
(***************************************************************************)

(* The capture that complete evidence is built from: its records are lines  *)
(* that arrived, each a first start or a first terminal, and the last line  *)
(* counts them and reports no failure.                                      *)
StartsHeld    == FirstOf(Records(received), StartKinds)
TerminalsHeld == FirstOf(Records(received), TerminalKinds)

LEMMA CompleteCapture ==
    ASSUME BaseInv, NEW e \in evidence, e.status = "complete"
    PROVE  /\ issue = NoIssue
           /\ Records(received) = StartsHeld \cup TerminalsHeld
           /\ Records(received) \subseteq {line \in Held : line \in ToolLines}
           /\ StartsHeld \subseteq {r \in Records(received) : r.kind \in StartKinds}
           /\ TerminalsHeld \subseteq {r \in Records(received) : r.kind \in TerminalKinds}
           /\ \A r, q \in StartsHeld : r.id = q.id => r = q
           /\ \A t \in TerminalsHeld : \E s \in StartsHeld : Settles(t, s)
           /\ \A s \in StartsHeld : \E t \in TerminalsHeld : Settles(t, s)
           /\ e.observations = {Observation(s, TerminalsHeld) : s \in StartsHeld}
           /\ \E end \in Held :
                  /\ end.kind = "capture_end" /\ ~end.failures
                  /\ end.totals = CountsOf(Records(received))
<1> DEFINE capture == Capture(issue)
           loaded == Load(received, Terminated)
<1>1. Types /\ e = BuildRuntimeEvidence(capture, ProcessState(capture))
    BY DEF BaseInv, BuiltInv
<1>2. /\ IsStream(received) /\ IsCapture(capture) /\ ProcessState(capture) \in ProcessStates
      /\ capture.ended = loaded.ended /\ capture.records = loaded.records
      /\ capture.failures = loaded.failures
      /\ capture.issues = loaded.issues \cup ({issue} \ {NoIssue})
    BY <1>1, CaptureFacts
<1>3. Perfect(capture)
    BY <1>1, <1>2, BuiltStatus
<1>4. loaded.issues = {} /\ issue = NoIssue
    BY <1>2, <1>3 DEF Perfect
<1>5. /\ loaded.records = Records(received) /\ loaded.ended = (EndLines(received) # {})
      /\ loaded.failures = (EndLines(received) # {} /\ received[EndAt(received)].failures)
      /\ loaded.issues = LoadIssues(received, Terminated)
    BY <1>4 DEF Load, EmptyCapture
<1> HIDE DEF loaded
<1>6. EndLines(received) # {} /\ ~CountsDiffer(received)
    BY <1>4, <1>5, LoadIssuesFacts
<1>7. Starts(capture) = StartsHeld /\ Terminals(capture) = TerminalsHeld
    BY <1>2, <1>5 DEF Starts, Terminals, StartsHeld, TerminalsHeld
<1>8. e.observations = {Observation(s, TerminalsHeld) : s \in StartsHeld}
    BY <1>1, <1>7, BuiltFields DEF ObservationsOf
<1> HIDE DEF capture
<1>9. /\ StartsHeld \subseteq {r \in Records(received) : r.kind \in StartKinds}
      /\ TerminalsHeld \subseteq {r \in Records(received) : r.kind \in TerminalKinds}
      /\ \A r, q \in StartsHeld : r.id = q.id => r = q
    BY <1>2, <1>5, <1>7, FirstOfFacts
<1>10. /\ Records(received) = StartsHeld \cup TerminalsHeld
       /\ \A t \in TerminalsHeld : \E s \in StartsHeld : Settles(t, s)
       /\ \A s \in StartsHeld : \E t \in TerminalsHeld : Settles(t, s)
    BY <1>2, <1>3, <1>5, <1>7 DEF Perfect, Malformed, Settling
<1>11. ASSUME NEW i \in DOMAIN received
       PROVE  received[i] \in Lines /\ received[i] \in Held
    <2>1. received \in Seq(Lines)
        BY <1>1 DEF Types, StreamTypes
    <2>2. i \in 1..Len(received)
        BY <1>11, <2>1, LenProperties
    <2>3. received[i] \in Lines
        BY <2>1, <2>2, ElementOfSeq, Zenon
    <2>4. received[i] \in Held
        BY <1>11, Zenon DEF Held
    <2> QED
        BY <2>3, <2>4
<1>12. Records(received) \subseteq {line \in Held : line \in ToolLines}
    <2> SUFFICES ASSUME NEW r \in Records(received)
                 PROVE  r \in Held /\ r \in ToolLines
        OBVIOUS
    <2>1. PICK i \in Body(received) : r = received[i] /\ r.kind \in ToolKinds
        BY <1>2, EndAtFacts
    <2>2. i \in DOMAIN received
        <3>1. i \in 2..Len(received)
            BY <1>2, <2>1, EndAtFacts
        <3>2. Len(received) \in Nat /\ DOMAIN received = 1..Len(received)
            BY <1>2 DEF IsStream
        <3> QED
            BY <3>1, <3>2
    <2> QED
        BY <1>11, <2>1, <2>2, LineFacts
<1>13. \E end \in Held :
           /\ end.kind = "capture_end" /\ ~end.failures
           /\ end.totals = CountsOf(Records(received))
    <2>1. EndAt(received) \in DOMAIN received /\ received[EndAt(received)].kind = "capture_end"
        <3>1. /\ EndAt(received) \in 2..Len(received)
              /\ received[EndAt(received)].kind = "capture_end"
            BY <1>2, <1>6, EndAtFacts
        <3>2. Len(received) \in Nat /\ DOMAIN received = 1..Len(received)
            BY <1>2 DEF IsStream
        <3> QED
            BY <3>1, <3>2
    <2>2. ~received[EndAt(received)].failures
        BY <1>2, <1>3, <1>5, <1>6 DEF Perfect
    <2>3. received[EndAt(received)].totals = CountsOf(Records(received))
        BY <1>6 DEF CountsDiffer
    <2> QED
        BY <1>11, <2>1, <2>2, <2>3
<1> QED
    BY <1>4, <1>8, <1>9, <1>10, <1>12, <1>13

LEMMA CountInvariance == Spec => []CountInv
<1>1. Init => CountInv
    <2> SUFFICES ASSUME Init
                 PROVE  CountInv
        OBVIOUS
    <2>1. Types
        BY InitTypes
    <2>2. \A c \in Calls : phase[c] = "idle"
        BY DEF Init, Calls
    <2>3. \A k \in Keys : active[k] = None
        BY DEF Init
    <2>4. Held = {}
        BY DEF Init, Held
    <2> QED
        BY <2>2, <2>3, <2>4 DEF CountInv, Dispatched, Calls
<1>2. BaseInv /\ CountInv /\ [Next]_vars => CountInv'
    BY CountHolds DEF BaseInv
<1> QED
    BY <1>1, <1>2, BaseInvariance, PTL DEF Spec

(* Evidence that lets an attempt be repeated is right: complete evidence    *)
(* without an observation means that no call was ever dispatched, because   *)
(* a call is counted before anything about it can be lost and the counts    *)
(* travel with the end of the capture (nativeStarts, capture_end,           *)
(* load_runtime_observations).                                              *)
THEOREM RepetitionIsSafe == Spec => []NoInvocationProofIsSound
<1>1. BaseInv /\ CountInv => NoInvocationProofIsSound
    <2> SUFFICES ASSUME BaseInv, CountInv, NEW e \in evidence,
                        EvidenceProvesNoInvocation(ShapeOf(e)),
                        NEW c \in NativeCalls \cup InnerCalls
                 PROVE  ~Dispatched(c)
        BY DEF NoInvocationProofIsSound
    <2>1. e.status = "complete" /\ e.observations = {}
        BY DEF EvidenceProvesNoInvocation, ShapeOf
    <2>2. StartsHeld = {} /\ TerminalsHeld = {}
        <3>1. /\ e.observations = {Observation(s, TerminalsHeld) : s \in StartsHeld}
              /\ \A t \in TerminalsHeld : \E s \in StartsHeld : Settles(t, s)
            BY <2>1, CompleteCapture
        <3>2. \A s \in StartsHeld : Observation(s, TerminalsHeld) \in e.observations
            BY <3>1
        <3> QED
            BY <2>1, <3>1, <3>2
    <2>3. Records(received) = {}
        BY <2>1, <2>2, CompleteCapture
    <2>4. PICK end \in Held :
              end.kind = "capture_end" /\ end.totals = CountsOf(Records(received))
        BY <2>1, CompleteCapture
    <2>5. end.totals["native_start"] = 0
        <3>1. {r \in Records(received) : r.kind = "native_start"} = {}
            BY <2>3
        <3>2. CountsOf(Records(received))["native_start"]
                  = Cardinality({r \in Records(received) : r.kind = "native_start"})
            BY Kinds DEF CountsOf
        <3> QED
            BY <2>4, <3>1, <3>2, FS_EmptySet
    <2>6. counts["native_start"] = 0
        BY <2>4, <2>5 DEF CountInv, Tells
    <2>7. \A d \in NativeCalls : ~Dispatched(d)
        BY <2>6 DEF CountInv
    <2>8. \A i \in InnerCalls : Outer[i] \in NativeCalls
        BY CallFacts DEF BaseInv, Types
    <2> QED
        BY <2>7, <2>8 DEF CountInv
<1> QED
    BY <1>1, BaseInvariance, CountInvariance, PTL

(* What the entry point can make of the evidence of a run: whatever it says *)
(* of the exit, and whatever becomes of the call on the way to the host.    *)
ActedInTheRun == \E c \in Calls : Dispatched(c)
ResultsOn(e) == {r \in Results : r.evidence = ShapeOf(e)}
RunIsAReply ==
    \A e \in evidence :
        /\ ShapeOf(e) \in Evidence
        /\ \A r \in ResultsOn(e), ok \in BOOLEAN :
               [result |-> r, hostOk |-> ok, acted |-> ActedInTheRun] \in Replies

(* The run a container made is one the attempt loop is modelled with: its   *)
(* evidence has a shape the host knows, and every result on it, returned by *)
(* a host call that succeeded or not, is with what the model did one of the *)
(* Replies.  So EvaluationPhase, ContainerInvocation and PairedEvaluation,  *)
(* which take a reply to be one of them, leave out nothing that plugin and  *)
(* builder can bring about (emit_result, _classify_result).                 *)
THEOREM RunsAreReplies == Spec => []RunIsAReply
<1>1. ASSUME TypeOK, NoInvocationProofIsSound, NEW e \in evidence,
             NEW r \in ResultsOn(e), NEW ok \in BOOLEAN
      PROVE  [result |-> r, hostOk |-> ok, acted |-> ActedInTheRun] \in Replies
    <2>1. r \in Results /\ r.evidence = ShapeOf(e)
        BY <1>1 DEF ResultsOn
    <2>2. ActedInTheRun \in BOOLEAN
        BY DEF ActedInTheRun
    <2>3. EvidenceProvesNoInvocation(r.evidence) => ~ActedInTheRun
        BY <1>1, <2>1 DEF NoInvocationProofIsSound, ActedInTheRun, Calls
    <2> QED
        BY <2>1, <2>2, <2>3 DEF Replies
<1>2. TypeOK => \A e \in evidence : ShapeOf(e) \in Evidence
    BY DEF TypeOK
<1>3. TypeOK /\ NoInvocationProofIsSound => RunIsAReply
    BY <1>1, <1>2 DEF RunIsAReply
<1> QED
    BY <1>3, TypesAreKept, RepetitionIsSafe, PTL

(***************************************************************************)
(* Calls with an identity of their own.                                    *)
(***************************************************************************)

LEMMA OwnKeys ==
    ASSUME OwnIdentities, CallTypes, NEW c \in NativeCalls, NEW d \in NativeCalls,
           Key[c] = Key[d], Tool[c] # "plain"
    PROVE  c = d
BY DEF OwnIdentities, CallTypes, Tool

(* A hook never finds its own call active.                                  *)
LEMMA HooksFindNone ==
    ASSUME OwnIdentities, Types, CountInv, NEW c \in NativeCalls, EnterHook(c)
    PROVE  active[Key[c]] = None
<1> SUFFICES ASSUME active[Key[c]] # None
             PROVE  FALSE
    OBVIOUS
<1>1. Tool[c] # "plain" /\ phase[c] = "idle" /\ Key[c] \in Keys
    BY CallFacts DEF EnterHook, Types
<1> DEFINE id == active[Key[c]]
<1>2. id \in Entered /\ Key[id[2]] = Key[c]
    BY <1>1 DEF CountInv
<1> HIDE DEF id
<1>3. id[2] \in NativeCalls /\ phase[id[2]] # "idle"
    BY <1>2, CallFacts DEF Entered, Outcomes, Types
<1>4. id[2] = c
    BY <1>1, <1>2, <1>3, OwnKeys DEF Types
<1> QED
    BY <1>1, <1>3, <1>4

(* Steps of calls that were entered already.                                *)
LateMove(c) ==
    \/ phase'[c] = phase[c]
    \/ phase[c] = "hooking" /\ phase'[c] = AfterHook(c)
    \/ phase[c] = "wrapping" /\ phase'[c] = "running"
    \/ phase[c] = "running" /\ phase'[c] \in Outcomes

LEMMA LateMoves ==
    ASSUME Types, [Next]_vars
    PROVE  \/ \E c \in NativeCalls : EnterWrapper(c) \/ EnterHook(c)
           \/ (\A c \in NativeCalls : LateMove(c)) /\ active' = active
           \/ (\A c \in NativeCalls : LateMove(c)) /\ HandleEvent
<1>a. phase \in [Calls -> NativePhases \cup InnerPhases]
    BY DEF Types, CallTypes
<1>b. /\ \A c \in NativeCalls : c \in Calls /\ c \notin InnerCalls
      /\ \A i \in InnerCalls : i \in Calls /\ i \notin NativeCalls
    BY CallFacts DEF Types
<1>1. CASE Quiet
    BY <1>1 DEF Quiet, callVars, LateMove
<1>2. ASSUME NEW c \in NativeCalls, WrapperStarts(c) \/ HookStarts(c) \/ HandlerReturns(c)
      PROVE  (\A d \in NativeCalls : LateMove(d)) /\ active' = active
    <2>1. active' = active
        BY <1>2 DEF WrapperStarts, HookStarts, StartIsWritten, HandlerReturns
    <2>2. PICK next : /\ phase' = [phase EXCEPT ![c] = next]
                      /\ \/ phase[c] = "hooking" /\ next = AfterHook(c)
                         \/ phase[c] = "wrapping" /\ next = "running"
                         \/ phase[c] = "running" /\ next \in Outcomes
        BY <1>2, Zenon DEF WrapperStarts, HookStarts, StartIsWritten, HandlerReturns
    <2>3. phase'[c] = next /\ \A d \in NativeCalls : d # c => phase'[d] = phase[d]
        BY <1>a, <1>b, <2>2
    <2> QED
        BY <2>1, <2>2, <2>3 DEF LateMove
<1>3. ASSUME NEW c \in NativeCalls, Settle(c) \/ Cancel(c)
      PROVE  (\A d \in NativeCalls : LateMove(d)) /\ active' = active
    BY <1>3 DEF Settle, Cancel, Publish, observerVars, LateMove
<1>4. CASE HandleEvent
    BY <1>4 DEF HandleEvent, callVars, LateMove
<1>5. CASE WriteCaptureEnd
    BY <1>5 DEF WriteCaptureEnd, callVars, LateMove
<1>6. ASSUME NEW i \in InnerCalls, EnterInner(i) \/ InnerReturns(i)
      PROVE  (\A d \in NativeCalls : LateMove(d)) /\ active' = active
    <2>1. active' = active /\ \E next : phase' = [phase EXCEPT ![i] = next]
        BY <1>6, Zenon DEF EnterInner, InnerReturns
    <2> QED
        BY <1>a, <1>b, <2>1 DEF LateMove
<1> QED
    BY <1>1, <1>2, <1>3, <1>4, <1>5, <1>6, QuietSteps DEF Next, Plugin, NativeStep

LEMMA LateMovesEnterNothing ==
    ASSUME Types, setting' = setting, \A c \in NativeCalls : LateMove(c)
    PROVE  /\ Entered' = Entered
           /\ \A c \in NativeCalls : phase'[c] = "idle" <=> phase[c] = "idle"
<1>1. Tool' = Tool
    BY DEF Tool
<1>2. \A c \in NativeCalls :
          /\ Tool[c] \in {"plain", "synthetic", "registered"}
          /\ phase[c] = "hooking" => Tool[c] # "plain"
    BY CallFacts DEF Types, CallTypes
<1>3. \A c \in NativeCalls :
          /\ phase'[c] = "idle" <=> phase[c] = "idle"
          /\ Tool[c] # "synthetic" =>
                 (phase'[c] \in {"wrapping", "running"} \cup Outcomes
                      <=> phase[c] \in {"wrapping", "running"} \cup Outcomes)
    BY <1>2 DEF LateMove, AfterHook, Outcomes
<1>4. \A id \in NativeIds : id[2] \in NativeCalls
    BY CallFacts DEF Types
<1> QED
    BY <1>1, <1>3, <1>4 DEF Entered

(* A step enters one invocation and counts it, or enters and counts none.   *)
LEMMA EnteredMoves ==
    ASSUME OwnIdentities, Types, CountInv, [Next]_vars
    PROVE  \/ Entered' = Entered /\ counts'["native_start"] = counts["native_start"]
           \/ \E id \in NativeIds :
                  /\ id \notin Entered /\ Entered' = Entered \cup {id}
                  /\ counts'["native_start"] = counts["native_start"] + 1
<1>a. /\ counts \in [ToolKinds -> Nat] /\ "native_start" \in ToolKinds
      /\ phase \in [Calls -> NativePhases \cup InnerPhases]
    BY Kinds DEF Types, PluginTypes, CallTypes
<1>b. /\ \A c \in NativeCalls : c \in Calls
      /\ \A id \in NativeIds : id[2] \in NativeCalls
      /\ \A id \in NativeIds : id = <<"hook", id[2]>> \/ id = <<"wrapper", id[2]>>
    BY CallFacts DEF Types, NativeIds
<1>c. setting' = setting /\ Tool' = Tool
    BY Moves DEF Tool
<1>1. ASSUME NEW c \in NativeCalls, EnterWrapper(c)
      PROVE  \E id \in NativeIds :
                 /\ id \notin Entered /\ Entered' = Entered \cup {id}
                 /\ counts'["native_start"] = counts["native_start"] + 1
    <2>1. /\ phase' = [phase EXCEPT ![c] = "wrapping"]
          /\ counts' = [counts EXCEPT !["native_start"] = @ + 1]
        BY <1>1 DEF EnterWrapper
    <2>2. phase[c] \in {"idle", "hooked"} /\ Tool[c] # "synthetic" /\ (phase[c] = "idle" => Tool[c] = "plain")
        <3>1. phase[c] \in NativePhases /\ Tool[c] \in {"plain", "synthetic", "registered"}
            BY CallFacts DEF Types, CallTypes
        <3> QED
            BY <1>1, <3>1 DEF EnterWrapper, NativePhases, Outcomes
    <2>3. phase'[c] = "wrapping" /\ \A d \in NativeCalls : d # c => phase'[d] = phase[d]
        BY <1>a, <1>b, <2>1
    <2> DEFINE id == <<"wrapper", c>>
    <2>4. id \in NativeIds /\ id[1] = "wrapper" /\ id[2] = c
        BY DEF NativeIds
    <2>5. id \notin Entered
        BY <2>2, <2>4 DEF Entered, Outcomes
    <2>6. \A x \in NativeIds : x # id => (x \in Entered' <=> x \in Entered)
        <3>1. \A x \in NativeIds : x # id /\ x[2] = c => x[1] = "hook"
            BY <1>b
        <3> QED
            BY <1>b, <1>c, <2>2, <2>3, <3>1 DEF Entered
    <2>7. id \in Entered'
        BY <1>c, <2>2, <2>3, <2>4 DEF Entered
    <2>8. Entered \subseteq NativeIds /\ Entered' \subseteq NativeIds
        BY DEF Entered
    <2> HIDE DEF id
    <2>9. Entered' = Entered \cup {id}
        BY <2>6, <2>7, <2>8
    <2> QED
        BY <1>a, <2>1, <2>4, <2>5, <2>9
<1>2. ASSUME NEW c \in NativeCalls, EnterHook(c)
      PROVE  \E id \in NativeIds :
                 /\ id \notin Entered /\ Entered' = Entered \cup {id}
                 /\ counts'["native_start"] = counts["native_start"] + 1
    <2>0. active[Key[c]] = None
        BY <1>2, HooksFindNone
    <2>1. /\ phase' = [phase EXCEPT ![c] = "hooking"]
          /\ counts' = [counts EXCEPT !["native_start"] = @ + 1]
          /\ phase[c] = "idle" /\ Tool[c] # "plain"
        BY <1>2, <2>0 DEF EnterHook
    <2>3. phase'[c] = "hooking" /\ \A d \in NativeCalls : d # c => phase'[d] = phase[d]
        BY <1>a, <1>b, <2>1
    <2> DEFINE id == <<"hook", c>>
    <2>4. id \in NativeIds /\ id[1] = "hook" /\ id[2] = c
        BY DEF NativeIds
    <2>5. id \notin Entered
        BY <2>1, <2>4 DEF Entered
    <2>6. \A x \in NativeIds : x # id => (x \in Entered' <=> x \in Entered)
        <3>1. \A x \in NativeIds : x # id /\ x[2] = c => x[1] # "hook"
            BY <1>b
        <3> QED
            BY <1>b, <1>c, <2>1, <2>3, <3>1 DEF Entered, Outcomes
    <2>7. id \in Entered'
        BY <1>c, <2>1, <2>3, <2>4 DEF Entered
    <2>8. Entered \subseteq NativeIds /\ Entered' \subseteq NativeIds
        BY DEF Entered
    <2> HIDE DEF id
    <2>9. Entered' = Entered \cup {id}
        BY <2>6, <2>7, <2>8
    <2> QED
        BY <1>a, <2>1, <2>4, <2>5, <2>9
<1>3. ASSUME \A c \in NativeCalls : LateMove(c)
      PROVE  Entered' = Entered
    BY <1>3, <1>c, LateMovesEnterNothing
<1>4. ASSUME ~\E c \in NativeCalls : EnterWrapper(c) \/ EnterHook(c)
      PROVE  counts'["native_start"] = counts["native_start"]
    <2>1. CASE Quiet
        BY <2>1 DEF Quiet
    <2>2. ASSUME NEW c \in NativeCalls,
                 \/ WrapperStarts(c) \/ HookStarts(c) \/ HandlerReturns(c) \/ Settle(c) \/ Cancel(c)
          PROVE  counts' = counts
        <3>1. CASE WrapperStarts(c) \/ HookStarts(c) \/ HandlerReturns(c)
            BY <3>1 DEF WrapperStarts, HookStarts, StartIsWritten, HandlerReturns
        <3>2. CASE Settle(c) \/ Cancel(c)
            BY <3>2 DEF Settle, Cancel, Publish, observerVars
        <3> QED
            BY <2>2, <3>1, <3>2
    <2>3. CASE HandleEvent \/ WriteCaptureEnd
        <3>1. counts' = counts \/ counts' = [counts EXCEPT !["native_terminal"] = @ + 1]
            BY <2>3, Zenon DEF HandleEvent, WriteCaptureEnd
        <3> QED
            BY <1>a, <3>1
    <2>4. ASSUME NEW i \in InnerCalls, EnterInner(i) \/ InnerReturns(i)
          PROVE  counts'["native_start"] = counts["native_start"]
        <3>1. \/ counts' = counts
              \/ counts' = [counts EXCEPT !["code_start"] = @ + 1]
              \/ counts' = [counts EXCEPT !["code_terminal"] = @ + 1]
            BY <2>4, Zenon DEF EnterInner, InnerReturns
        <3> QED
            BY <1>a, <3>1
    <2> QED
        BY <1>4, <2>1, <2>2, <2>3, <2>4, QuietSteps DEF Next, Plugin, NativeStep
<1> QED
    BY <1>1, <1>2, <1>3, <1>4, LateMoves

(* The same of the inner calls.                                             *)
LEMMA InnerEnteredMoves ==
    ASSUME OutersAreOpen, Types, [Next]_vars
    PROVE  \/ InnerEntered' = InnerEntered /\ counts'["code_start"] = counts["code_start"]
           \/ \E i \in InnerCalls :
                  /\ EnterInner(i)
                  /\ i \notin InnerEntered /\ InnerEntered' = InnerEntered \cup {i}
                  /\ counts'["code_start"] = counts["code_start"] + 1
<1>a. /\ counts \in [ToolKinds -> Nat]
      /\ {"native_start", "native_terminal", "code_start", "code_terminal"} \subseteq ToolKinds
      /\ phase \in [Calls -> NativePhases \cup InnerPhases]
    BY Kinds DEF Types, PluginTypes, CallTypes
<1>b. /\ \A c \in NativeCalls : c \in Calls /\ c \notin InnerCalls
      /\ \A i \in InnerCalls : i \in Calls
    BY CallFacts DEF Types
<1>1. ASSUME phase' = phase \/ \E c \in NativeCalls : \E next : phase' = [phase EXCEPT ![c] = next]
      PROVE  InnerEntered' = InnerEntered
    <2>1. \A i \in InnerCalls : phase'[i] = phase[i]
        BY <1>a, <1>b, <1>1
    <2> QED
        BY <2>1 DEF InnerEntered
<1>2. CASE Quiet
    BY <1>1, <1>2 DEF Quiet, callVars
<1>3. ASSUME NEW c \in NativeCalls, NativeStep(c)
      PROVE  InnerEntered' = InnerEntered /\ counts'["code_start"] = counts["code_start"]
    <2>1. phase' = phase \/ \E next : phase' = [phase EXCEPT ![c] = next]
        BY <1>3, Zenon DEF NativeStep, EnterWrapper, EnterHook, WrapperStarts, HookStarts,
                           StartIsWritten, HandlerReturns, Settle, Cancel, Publish
    <2>2. counts' = counts \/ counts' = [counts EXCEPT !["native_start"] = @ + 1]
        BY <1>3, Zenon DEF NativeStep, EnterWrapper, EnterHook, WrapperStarts, HookStarts,
                           StartIsWritten, HandlerReturns, Settle, Cancel, Publish, observerVars
    <2>3. counts'["code_start"] = counts["code_start"]
        BY <1>a, <2>2
    <2> QED
        BY <1>1, <2>1, <2>3
<1>4. CASE HandleEvent \/ WriteCaptureEnd
    <2>1. counts' = counts \/ counts' = [counts EXCEPT !["native_terminal"] = @ + 1]
        BY <1>4, Zenon DEF HandleEvent, WriteCaptureEnd
    <2>2. phase' = phase
        BY <1>4 DEF HandleEvent, WriteCaptureEnd, callVars
    <2> QED
        BY <1>a, <1>1, <2>1, <2>2
<1>5. ASSUME NEW i \in InnerCalls, EnterInner(i)
      PROVE  /\ i \notin InnerEntered /\ InnerEntered' = InnerEntered \cup {i}
             /\ counts'["code_start"] = counts["code_start"] + 1
    <2> DEFINE parent == outer[Key[Outer[i]]]
    <2>1. parent # None
        <3>1. Outer[i] \in NativeCalls /\ Tool[Outer[i]] # "plain"
            BY CallFacts DEF Types
        <3> QED
            BY <1>5, <3>1 DEF EnterInner, OutersAreOpen
    <2>2. /\ phase' = [phase EXCEPT ![i] = "running"] /\ phase[i] = "idle"
          /\ counts' = [counts EXCEPT !["code_start"] = @ + 1]
        BY <1>5, <2>1 DEF EnterInner
    <2>3. phase'[i] = "running" /\ \A j \in InnerCalls : j # i => phase'[j] = phase[j]
        BY <1>a, <1>b, <2>2
    <2>4. i \notin InnerEntered /\ InnerEntered' = InnerEntered \cup {i}
        BY <2>2, <2>3 DEF InnerEntered, Outcomes
    <2> QED
        BY <1>a, <2>2, <2>4
<1>6. ASSUME NEW i \in InnerCalls, InnerReturns(i)
      PROVE  InnerEntered' = InnerEntered /\ counts'["code_start"] = counts["code_start"]
    <2>1. PICK outcome \in Outcomes :
              /\ phase' = [phase EXCEPT ![i] = outcome] /\ phase[i] = "running"
              /\ counts' = [counts EXCEPT !["code_terminal"] = @ + 1]
        BY <1>6 DEF InnerReturns
    <2>2. phase'[i] = outcome /\ \A j \in InnerCalls : j # i => phase'[j] = phase[j]
        BY <1>a, <1>b, <2>1
    <2>3. InnerEntered' = InnerEntered
        BY <2>1, <2>2 DEF InnerEntered
    <2> QED
        BY <1>a, <2>1, <2>3
<1> QED
    BY <1>2, <1>3, <1>4, <1>5, <1>6, QuietSteps DEF Next, Plugin, Quiet

LEMMA CountsAgree ==
    ASSUME OwnIdentities, Types, CountInv, StartsAreCounted, InnerStartsAreCounted, OutersAreOpen,
           [Next]_vars
    PROVE  StartsAreCounted' /\ InnerStartsAreCounted'
<1>1. StartsAreCounted'
    <2>1. CASE Entered' = Entered /\ counts'["native_start"] = counts["native_start"]
        BY <2>1 DEF StartsAreCounted
    <2>2. CASE \E id \in NativeIds :
                   /\ id \notin Entered /\ Entered' = Entered \cup {id}
                   /\ counts'["native_start"] = counts["native_start"] + 1
        <3>1. PICK id \in NativeIds :
                  /\ id \notin Entered /\ Entered' = Entered \cup {id}
                  /\ counts'["native_start"] = counts["native_start"] + 1
            BY <2>2
        <3>2. /\ IsFiniteSet(Entered \cup {id})
              /\ Cardinality(Entered \cup {id}) = Cardinality(Entered) + 1
            BY <3>1, FS_AddElement DEF StartsAreCounted
        <3> QED
            BY <3>1, <3>2 DEF StartsAreCounted
    <2> QED
        BY <2>1, <2>2, EnteredMoves
<1>2. InnerStartsAreCounted'
    <2>1. CASE InnerEntered' = InnerEntered /\ counts'["code_start"] = counts["code_start"]
        BY <2>1 DEF InnerStartsAreCounted
    <2>2. CASE \E i \in InnerCalls :
                   /\ i \notin InnerEntered /\ InnerEntered' = InnerEntered \cup {i}
                   /\ counts'["code_start"] = counts["code_start"] + 1
        <3>1. PICK i \in InnerCalls :
                  /\ i \notin InnerEntered /\ InnerEntered' = InnerEntered \cup {i}
                  /\ counts'["code_start"] = counts["code_start"] + 1
            BY <2>2
        <3>2. /\ IsFiniteSet(InnerEntered \cup {i})
              /\ Cardinality(InnerEntered \cup {i}) = Cardinality(InnerEntered) + 1
            BY <3>1, FS_AddElement DEF InnerStartsAreCounted
        <3> QED
            BY <3>1, <3>2 DEF InnerStartsAreCounted
    <2> QED
        BY <2>1, <2>2, InnerEnteredMoves
<1> QED
    BY <1>1, <1>2

LEMMA OutersStayOpen ==
    ASSUME OwnIdentities, Types, CountInv, OutersAreOpen, [Next]_vars
    PROVE  OutersAreOpen'
<1>a. /\ phase \in [Calls -> NativePhases \cup InnerPhases] /\ outer \in [Keys -> Ids]
      /\ setting' = setting /\ Tool' = Tool
    BY Moves DEF Types, PluginTypes, CallTypes, Tool
<1>b. /\ \A c \in NativeCalls : c \in Calls /\ c \notin InnerCalls /\ Key[c] \in Keys
      /\ \A i \in InnerCalls : i \in Calls /\ i \notin NativeCalls
    BY CallFacts DEF Types
<1> DEFINE AtWork == {"hooking", "hooked", "wrapping", "running"}
<1>1. ASSUME NEW i \in InnerCalls, phase'[i] = "unobserved"
      PROVE  FALSE
    <2>1. phase'[i] # phase[i]
        BY <1>1 DEF OutersAreOpen
    <2>2. ASSUME NEW j \in InnerCalls, EnterInner(j)
          PROVE  FALSE
        <3>1. Outer[j] \in NativeCalls /\ Tool[Outer[j]] # "plain"
            BY CallFacts DEF Types
        <3>2. outer[Key[Outer[j]]] # None
            BY <2>2, <3>1 DEF EnterInner, OutersAreOpen
        <3>3. phase' = [phase EXCEPT ![j] = "running"]
            BY <2>2, <3>2 DEF EnterInner
        <3> QED
            BY <1>a, <1>b, <1>1, <2>1, <3>3
    <2>3. ASSUME NEW j \in InnerCalls, InnerReturns(j)
          PROVE  FALSE
        <3>1. \E outcome \in Outcomes : phase' = [phase EXCEPT ![j] = outcome]
            BY <2>3 DEF InnerReturns
        <3> QED
            BY <1>a, <1>b, <1>1, <2>1, <3>1 DEF Outcomes
    <2>4. ASSUME NEW c \in NativeCalls, NativeStep(c)
          PROVE  FALSE
        <3>1. phase' = phase \/ \E next : phase' = [phase EXCEPT ![c] = next]
            BY <2>4, Zenon DEF NativeStep, EnterWrapper, EnterHook, WrapperStarts, HookStarts,
                               StartIsWritten, HandlerReturns, Settle, Cancel, Publish
        <3> QED
            BY <1>a, <1>b, <2>1, <3>1
    <2>5. ~HandleEvent /\ ~WriteCaptureEnd /\ ~Quiet
        BY <2>1 DEF HandleEvent, WriteCaptureEnd, Quiet, callVars
    <2> QED
        BY <2>2, <2>3, <2>4, <2>5, QuietSteps DEF Next, Plugin
<1>2. ASSUME NEW c \in NativeCalls, Tool[c] # "plain", phase'[c] \in AtWork
      PROVE  outer'[Key[c]] # None
    <2>1. ASSUME phase'[c] = phase[c], outer' = outer
          PROVE  outer'[Key[c]] # None
        BY <1>2, <2>1 DEF OutersAreOpen
    <2>2. CASE Quiet
        BY <2>1, <2>2 DEF Quiet, callVars
    <2>3. ASSUME NEW d \in NativeCalls, EnterWrapper(d)
          PROVE  outer'[Key[c]] # None
        <3>1. \/ outer' = outer /\ Tool[d] = "plain"
              \/ outer' = [outer EXCEPT ![Key[d]] = <<"wrapper", d>>] /\ Tool[d] # "plain"
            BY <2>3 DEF EnterWrapper
        <3>2. phase' = [phase EXCEPT ![d] = "wrapping"]
            BY <2>3 DEF EnterWrapper
        <3>3. CASE Key[d] = Key[c] /\ Tool[d] # "plain"
            BY <1>a, <1>b, <3>1, <3>3 DEF None
        <3>4. CASE ~(Key[d] = Key[c] /\ Tool[d] # "plain")
            <4>1. d # c
                BY <1>2, <3>4
            <4>2. phase'[c] = phase[c]
                BY <1>a, <1>b, <3>2, <4>1
            <4>3. outer'[Key[c]] = outer[Key[c]]
                BY <1>a, <1>b, <3>1, <3>4
            <4> QED
                BY <1>2, <4>2, <4>3 DEF OutersAreOpen
        <3> QED
            BY <3>3, <3>4
    <2>4. ASSUME NEW d \in NativeCalls, EnterHook(d)
          PROVE  outer'[Key[c]] # None
        <3>1. active[Key[d]] = None
            BY <2>4, HooksFindNone
        <3>2. /\ outer' = [outer EXCEPT ![Key[d]] = <<"hook", d>>]
              /\ phase' = [phase EXCEPT ![d] = "hooking"]
            BY <2>4, <3>1 DEF EnterHook
        <3>3. CASE Key[d] = Key[c]
            BY <1>a, <1>b, <3>2, <3>3 DEF None
        <3>4. CASE Key[d] # Key[c]
            <4>1. phase'[c] = phase[c] /\ outer'[Key[c]] = outer[Key[c]]
                BY <1>a, <1>b, <3>2, <3>4
            <4> QED
                BY <1>2, <4>1 DEF OutersAreOpen
        <3> QED
            BY <3>3, <3>4
    <2>5. ASSUME NEW d \in NativeCalls, WrapperStarts(d) \/ HookStarts(d)
          PROVE  outer'[Key[c]] # None
        <3>1. outer' = outer /\ phase[d] \in AtWork
            BY <2>5 DEF WrapperStarts, HookStarts, StartIsWritten
        <3>2. \E next : phase' = [phase EXCEPT ![d] = next]
            BY <2>5, Zenon DEF WrapperStarts, HookStarts, StartIsWritten
        <3>3. phase[c] \in AtWork
            BY <1>a, <1>b, <1>2, <3>1, <3>2
        <3> QED
            BY <1>2, <3>1, <3>3 DEF OutersAreOpen
    <2>6. ASSUME NEW d \in NativeCalls, HandlerReturns(d)
          PROVE  outer'[Key[c]] # None
        <3>1. PICK outcome \in Outcomes : phase' = [phase EXCEPT ![d] = outcome]
            BY <2>6 DEF HandlerReturns
        <3>2. d # c
            BY <1>a, <1>b, <1>2, <3>1 DEF Outcomes
        <3>3. phase'[c] = phase[c]
            BY <1>a, <1>b, <3>1, <3>2
        <3>4. Key[d] # Key[c] \/ Tool[d] = "plain"
            BY <3>2, OwnKeys DEF Types
        <3>5. outer'[Key[c]] = outer[Key[c]]
            <4>1. outer' = outer \/ (outer' = [outer EXCEPT ![Key[d]] = None] /\ Tool[d] # "plain")
                BY <2>6 DEF HandlerReturns
            <4> QED
                BY <1>a, <1>b, <3>4, <4>1
        <3> QED
            BY <1>2, <3>3, <3>5 DEF OutersAreOpen
    <2>7. ASSUME NEW d \in NativeCalls, Settle(d) \/ Cancel(d)
          PROVE  outer'[Key[c]] # None
        BY <2>1, <2>7 DEF Settle, Cancel, Publish, observerVars
    <2>8. CASE HandleEvent \/ WriteCaptureEnd
        BY <2>1, <2>8 DEF HandleEvent, WriteCaptureEnd, callVars
    <2>9. ASSUME NEW i \in InnerCalls, EnterInner(i) \/ InnerReturns(i)
          PROVE  outer'[Key[c]] # None
        <3>1. outer' = outer /\ \E next : phase' = [phase EXCEPT ![i] = next]
            BY <2>9, Zenon DEF EnterInner, InnerReturns
        <3>2. phase'[c] = phase[c]
            BY <1>a, <1>b, <3>1
        <3> QED
            BY <2>1, <3>1, <3>2
    <2> QED
        BY <2>2, <2>3, <2>4, <2>5, <2>6, <2>7, <2>8, <2>9, QuietSteps
           DEF Next, Plugin, NativeStep
<1> HIDE DEF AtWork
<1>3. /\ \A c \in NativeCalls : Tool'[c] # "plain" /\ phase'[c] \in AtWork => outer'[Key[c]] # None
      /\ \A i \in InnerCalls : phase'[i] # "unobserved"
    BY <1>a, <1>1, <1>2
<1> QED
    BY <1>3 DEF OutersAreOpen, AtWork

(***************************************************************************)
(* While no failure was counted, the lines, the events and the active map  *)
(* agree.                                                                  *)
(***************************************************************************)

LEMMA TroubleStays ==
    ASSUME Types, [Next]_vars
    PROVE  troubled => troubled'
<1>1. CASE Quiet
    BY <1>1 DEF Quiet
<1>2. ASSUME NEW c \in NativeCalls, EnterWrapper(c) \/ EnterHook(c) \/ HandlerReturns(c)
      PROVE  troubled => troubled'
    BY <1>2 DEF EnterWrapper, EnterHook, HandlerReturns
<1>3. ASSUME NEW c \in NativeCalls, WrapperStarts(c) \/ HookStarts(c)
      PROVE  troubled => troubled'
    BY <1>3 DEF WrapperStarts, HookStarts, StartIsWritten, Write
<1>4. ASSUME NEW c \in NativeCalls, Settle(c) \/ Cancel(c)
      PROVE  troubled' = troubled
    BY <1>4 DEF Settle, Cancel, Publish, observerVars
<1>5. CASE HandleEvent
    BY <1>5 DEF HandleEvent, Write
<1>6. ASSUME NEW i \in InnerCalls, EnterInner(i) \/ InnerReturns(i)
      PROVE  troubled => troubled'
    BY <1>6 DEF EnterInner, InnerReturns, Write
<1>7. CASE WriteCaptureEnd
    BY <1>7 DEF WriteCaptureEnd, Write
<1> QED
    BY <1>1, <1>2, <1>3, <1>4, <1>5, <1>6, <1>7, QuietSteps DEF Next, Plugin, NativeStep

(* A failure is never forgotten, and capture_end tells of it.               *)
LEMMA CleanBefore ==
    ASSUME Types, CountInv, [Next]_vars, Clean'
    PROVE  Clean /\ (observer' # "ended" => ~troubled')
<1>1. /\ \A line \in Held' : Tells(line)' /\ (line \in Held \/ Fresh(line))
      /\ observer = "ended" => observer' = "ended"
      /\ troubled => troubled'
    BY LinesHold, StartCounts, TroubleStays DEF CountInv
<1>2. CASE observer' # "ended" /\ ~troubled'
    BY <1>1, <1>2 DEF Clean
<1>3. ASSUME NEW line \in Held', line.kind = "capture_end", ~line.failures
      PROVE  Clean /\ observer' = "ended"
    <2>1. observer' = "ended"
        BY <1>1, <1>3 DEF Tells
    <2>2. CASE line \in Held
        BY <1>3, <2>1, <2>2 DEF Clean
    <2>3. CASE Fresh(line)
        BY <1>3, <2>1, <2>3 DEF Fresh, WriteCaptureEnd, Clean
    <2> QED
        BY <1>1, <2>1, <2>2, <2>3
<1>4. (observer' # "ended" /\ ~troubled') \/ \E line \in Held' : line.kind = "capture_end" /\ ~line.failures
    BY DEF Clean
<1> QED
    BY <1>2, <1>3, <1>4

(* The terminals under way were there before, unless an event is handled.   *)
LEMMA OldTerminals ==
    ASSUME Types, CountInv, TerminalsAreTrue, [Next]_vars, ~HandleEvent
    PROVE  \A line \in Held' :
               line.kind = "native_terminal" =>
                   /\ line.outcome = published[line.id[2]] /\ line.outcome # "none"
                   /\ line.id[2] \in NativeCalls
                   /\ line.id[1] = "wrapper" => Tool[line.id[2]] # "registered"
<1> SUFFICES ASSUME NEW line \in Held', line.kind = "native_terminal"
             PROVE  /\ line.outcome = published[line.id[2]] /\ line.outcome # "none"
                    /\ line.id[2] \in NativeCalls
                    /\ line.id[1] = "wrapper" => Tool[line.id[2]] # "registered"
    OBVIOUS
<1>1. line \in Held
    BY LinesHold DEF CountInv, Fresh
<1>2. line.id \in NativeIds /\ line.outcome \in Outcomes
    BY <1>1 DEF CountInv, Tells
<1>3. line.id[2] \in NativeCalls /\ line.outcome # "none"
    BY <1>2, CallFacts DEF Outcomes, Types
<1> QED
    BY <1>1, <1>3 DEF TerminalsAreTrue

(* A step that takes no part in the matching.                               *)
LEMMA BystandersMatch ==
    ASSUME Types, CountInv, MatchInv, [Next]_vars, ~HandleEvent,
           UNCHANGED <<setting, published, events, active>>, \A c \in NativeCalls : LateMove(c)
    PROVE  MatchInv'
<1>1. Tool' = Tool /\ Entered' = Entered
      /\ \A c \in NativeCalls : phase'[c] = "idle" <=> phase[c] = "idle"
    BY LateMovesEnterNothing DEF Tool
<1>2. OpenCallsAreActive'
    BY <1>1 DEF MatchInv, OpenCallsAreActive, Dispatched
<1>3. EventsFindTheirCalls'
    BY DEF MatchInv, EventsFindTheirCalls
<1>4. LateWrappersStayOpen'
    BY <1>1 DEF MatchInv, LateWrappersStayOpen
<1>5. TerminalsAreTrue'
    BY <1>1, OldTerminals DEF MatchInv, TerminalsAreTrue
<1> QED
    BY <1>2, <1>3, <1>4, <1>5 DEF MatchInv

LEMMA EventsAreEvents ==
    ASSUME Types
    PROVE  \A i \in DOMAIN events : events[i] \in Events
BY ElementOfSeq, LenProperties DEF Types, CallTypes

(* A call is entered whose identity is not active.                          *)
LEMMA EnteredCallsMatch ==
    ASSUME Types, CountInv, MatchInv, [Next]_vars, ~HandleEvent,
           UNCHANGED <<setting, published, events>>,
           NEW c \in NativeCalls, NEW place \in {"hook", "wrapper"}, NEW next,
           active[Key[c]] = None, active' = [active EXCEPT ![Key[c]] = <<place, c>>],
           phase' = [phase EXCEPT ![c] = next],
           place = "wrapper" /\ Tool[c] = "registered" => Dispatched(c),
           place = "hook" => next = "hooking" /\ phase[c] = "idle"
    PROVE  MatchInv'
<1>a. /\ active \in [Keys -> Ids] /\ phase \in [Calls -> NativePhases \cup InnerPhases]
      /\ Tool' = Tool /\ events \in Seq(Events)
    BY DEF Types, PluginTypes, CallTypes, Tool
<1>b. /\ \A d \in NativeCalls : d \in Calls /\ Key[d] \in Keys /\ <<"wrapper", d>> \in NativeIds
      /\ \A d \in NativeCalls : <<"wrapper", d>>[1] = "wrapper" /\ <<"wrapper", d>>[2] = d
      /\ <<place, c>> \in NativeIds /\ <<place, c>> # None /\ <<place, c>>[2] = c
    BY CallFacts DEF Types
<1>1. /\ active'[Key[c]] = <<place, c>>
      /\ \A k \in Keys : k # Key[c] => active'[k] = active[k]
      /\ \A d \in NativeCalls : d # c => phase'[d] = phase[d]
    BY <1>a, <1>b
<1>2. \A i \in DOMAIN events : events[i].key \in Keys
    BY EventsAreEvents DEF Events
<1>3. \A d \in NativeCalls : phase'[d] # "idle" /\ published'[d] = "none" =>
          active'[Key[d]] # None /\ active'[Key[d]][2] = d
    <2> SUFFICES ASSUME NEW d \in NativeCalls, phase'[d] # "idle", published'[d] = "none"
                 PROVE  active'[Key[d]] # None /\ active'[Key[d]][2] = d
        OBVIOUS
    <2>1. CASE d = c
        BY <1>b, <1>1, <2>1
    <2>2. CASE d # c
        <3>1. active[Key[d]] # None /\ active[Key[d]][2] = d
            BY <1>1, <2>2 DEF MatchInv, OpenCallsAreActive, Dispatched
        <3> QED
            BY <1>b, <1>1, <3>1
    <2> QED
        BY <2>1, <2>2
<1>4. EventsFindTheirCalls'
    <2>1. \A i \in DOMAIN events : active'[events[i].key] = active[events[i].key]
        BY <1>1, <1>2 DEF MatchInv, EventsFindTheirCalls
    <2> QED
        BY <2>1 DEF MatchInv, EventsFindTheirCalls
<1>5. ASSUME NEW d \in NativeCalls, Tool[d] = "registered", <<"wrapper", d>> \in Entered'
      PROVE  published[d] # "none" /\ \A i \in DOMAIN events : events[i].key # Key[d]
    <2>1. CASE <<"wrapper", d>> \in Entered
        BY <1>5, <2>1 DEF MatchInv, LateWrappersStayOpen
    <2>2. CASE <<"wrapper", d>> \notin Entered
        <3>1. d = c
            BY <1>a, <1>b, <1>1, <1>5, <2>2 DEF Entered
        <3>2. place = "wrapper"
            <4>1. phase'[d] \in {"wrapping", "running"} \cup Outcomes
                BY <1>b, <1>5 DEF Entered
            <4>2. phase'[d] = next
                BY <1>a, <1>b, <3>1
            <4> QED
                BY <4>1, <4>2 DEF Outcomes
        <3>3. published[c] # "none"
            BY <1>5, <3>1, <3>2 DEF MatchInv, OpenCallsAreActive
        <3>4. \A i \in DOMAIN events : events[i].key # Key[c]
            BY DEF MatchInv, EventsFindTheirCalls
        <3> QED
            BY <3>1, <3>3, <3>4
    <2> QED
        BY <2>1, <2>2
<1>6. TerminalsAreTrue'
    BY <1>a, OldTerminals DEF MatchInv, TerminalsAreTrue
<1>7. OpenCallsAreActive' /\ LateWrappersStayOpen'
    BY <1>a, <1>3, <1>5 DEF OpenCallsAreActive, LateWrappersStayOpen, Dispatched
<1> QED
    BY <1>4, <1>6, <1>7 DEF MatchInv

(* A call is settled or cancelled: its event is on the way.                 *)
LEMMA PublishedCallsMatch ==
    ASSUME OwnIdentities, Types, CountInv, MatchInv, [Next]_vars, ~HandleEvent,
           NEW c \in NativeCalls, Dispatched(c), NEW outcome \in Outcomes, NEW malformed \in BOOLEAN,
           Publish(c, outcome, malformed)
    PROVE  MatchInv'
<1> DEFINE event == [key |-> Key[c], outcome |-> outcome, malformed |-> malformed]
<1>a. /\ published' = [published EXCEPT ![c] = outcome] /\ published[c] = "none"
      /\ events' = Append(events, event)
      /\ UNCHANGED <<setting, phase, active>> /\ Tool' = Tool /\ Entered' = Entered
    BY DEF Publish, observerVars, Tool, Entered
<1>b. /\ published \in [NativeCalls -> {"none"} \cup Outcomes] /\ active \in [Keys -> Ids]
      /\ \A id \in Ids : id # None => id[2] \in NativeCalls
      /\ \A i \in DOMAIN events : events[i].key \in Keys /\ events[i].outcome \in Outcomes
    BY CallFacts, EventsAreEvents DEF Types, CallTypes, PluginTypes, Events
<1>c. outcome # "none" /\ "none" \notin Outcomes /\ event.key = Key[c] /\ event.outcome = outcome
    BY DEF Outcomes
<1> HIDE DEF event
<1>d. active[Key[c]] # None /\ active[Key[c]][2] = c
    BY <1>a DEF MatchInv, OpenCallsAreActive
<1>e. published'[c] = outcome /\ \A d \in NativeCalls : d # c => published'[d] = published[d]
    BY <1>a, <1>b
<1>f. \A i \in DOMAIN events' : IF i = Len(events) + 1 THEN events'[i] = event
                                 ELSE i \in DOMAIN events /\ events'[i] = events[i]
    <2>1. events \in Seq(Events) /\ event \in Events
        BY CallFacts DEF Types, CallTypes, Events, event
    <2>2. /\ events' \in Seq(Events) /\ Len(events') = Len(events) + 1
          /\ events'[Len(events) + 1] = event
          /\ \A i \in 1..Len(events) : events'[i] = events[i]
        BY <1>a, <2>1, AppendProperties
    <2>3. /\ DOMAIN events = 1..Len(events) /\ DOMAIN events' = 1..(Len(events) + 1)
          /\ Len(events) \in Nat
        BY <2>1, <2>2, LenProperties
    <2>4. \A i \in DOMAIN events' : i \in DOMAIN events \/ i = Len(events) + 1
        BY <2>3
    <2> QED
        BY <2>2, <2>3, <2>4
<1>1. \A i \in DOMAIN events : /\ events[i].key # Key[c]
                               /\ active[events[i].key][2] \in NativeCalls \ {c}
    <2> SUFFICES ASSUME NEW i \in DOMAIN events
                 PROVE  /\ events[i].key # Key[c]
                        /\ active[events[i].key][2] \in NativeCalls \ {c}
        OBVIOUS
    <2>1. active[events[i].key] # None /\ published[active[events[i].key][2]] # "none"
        BY <1>b, <1>c DEF MatchInv, EventsFindTheirCalls
    <2>2. active[events[i].key][2] \in NativeCalls
        BY <1>b, <2>1
    <2> QED
        BY <1>a, <1>d, <2>1, <2>2
<1>2. OpenCallsAreActive'
    <2>1. \A d \in NativeCalls : published'[d] = "none" => published[d] = "none"
        BY <1>c, <1>e
    <2> QED
        BY <1>a, <2>1 DEF MatchInv, OpenCallsAreActive, Dispatched
<1>3. EventsFindTheirCalls'
    <2>1. \A i \in DOMAIN events' : /\ active'[events'[i].key] # None
                                    /\ published'[active'[events'[i].key][2]] = events'[i].outcome
        <3> SUFFICES ASSUME NEW i \in DOMAIN events'
                     PROVE  /\ active'[events'[i].key] # None
                            /\ published'[active'[events'[i].key][2]] = events'[i].outcome
            OBVIOUS
        <3>1. CASE i = Len(events) + 1
            BY <1>a, <1>c, <1>d, <1>e, <1>f, <3>1
        <3>2. CASE i # Len(events) + 1
            BY <1>a, <1>e, <1>f, <1>1, <3>2 DEF MatchInv, EventsFindTheirCalls
        <3> QED
            BY <3>1, <3>2
    <2>2. \A i, j \in DOMAIN events' : events'[j].key = events'[i].key => j = i
        <3>1. \A i, j \in DOMAIN events : events[j].key = events[i].key => j = i
            BY DEF MatchInv, EventsFindTheirCalls
        <3>2. \A i, j \in DOMAIN events' :
                  j # i /\ i \in DOMAIN events /\ events'[i] = events[i] =>
                      events'[j].key # events'[i].key
            BY <1>c, <1>f, <1>1, <3>1
        <3> QED
            BY <1>f, <3>2
    <2> QED
        BY <2>1, <2>2 DEF EventsFindTheirCalls
<1>4. LateWrappersStayOpen'
    <2>1. ASSUME NEW d \in NativeCalls, Tool[d] = "registered", <<"wrapper", d>> \in Entered
          PROVE  published'[d] # "none" /\ \A i \in DOMAIN events' : events'[i].key # Key[d]
        <3>1. published[d] # "none" /\ \A i \in DOMAIN events : events[i].key # Key[d]
            BY <2>1 DEF MatchInv, LateWrappersStayOpen
        <3>2. d # c
            BY <1>a, <3>1
        <3>3. Key[d] # Key[c]
            BY <2>1, <3>2, OwnKeys DEF Types
        <3> QED
            BY <1>c, <1>e, <1>f, <3>1, <3>2, <3>3
    <2> QED
        BY <1>a, <2>1 DEF LateWrappersStayOpen
<1>5. TerminalsAreTrue'
    <2>1. \A line \in Held' : line.kind = "native_terminal" =>
              /\ line.outcome = published'[line.id[2]]
              /\ line.id[1] = "wrapper" => Tool[line.id[2]] # "registered"
        BY <1>a, <1>e, OldTerminals DEF MatchInv
    <2> QED
        BY <1>a, <2>1 DEF TerminalsAreTrue
<1> QED
    BY <1>2, <1>3, <1>4, <1>5 DEF MatchInv

(* An event is handled, and nothing fails: it finds its call.               *)
LEMMA HandledEventsMatch ==
    ASSUME Types, TeardownInv, CountInv, MatchInv, [Next]_vars, HandleEvent,
           observer' # "ended" => ~troubled'
    PROVE  MatchInv'
<1> DEFINE event == Head(events)
           id == active[event.key]
<1>a. /\ UNCHANGED <<setting, phase, published>> /\ Tool' = Tool /\ Entered' = Entered
      /\ events \in Seq(Events) /\ events # <<>> /\ events' = Tail(events)
    BY DEF HandleEvent, callVars, Tool, Entered, Types, CallTypes
<1>b. /\ Len(events) \in Nat \ {0} /\ DOMAIN events = 1..Len(events)
      /\ event = events[1] /\ event \in Events
      /\ events' \in Seq(Events) /\ Len(events') = Len(events) - 1
      /\ \A i \in 1..(Len(events) - 1) : events'[i] = events[i + 1]
    BY <1>a, HeadTailProperties, EmptySeq, LenProperties
<1>c. 1 \in DOMAIN events /\ \A i \in DOMAIN events' :
          i \in Nat /\ i + 1 \in DOMAIN events /\ i + 1 # 1 /\ events'[i] = events[i + 1]
    <2>1. DOMAIN events' = 1..(Len(events) - 1)
        BY <1>b, LenProperties
    <2>2. 1 \in 1..Len(events) /\ \A i \in 1..(Len(events) - 1) :
              i \in Nat /\ i + 1 \in 1..Len(events) /\ i + 1 # 1
        BY <1>b
    <2> QED
        BY <1>b, <2>1, <2>2
<1>d. event.key \in Keys
    BY <1>b DEF Events
<1> HIDE DEF event
<1>1. id # None /\ published[id[2]] = event.outcome
    BY <1>b, <1>c DEF MatchInv, EventsFindTheirCalls
<1>2. ~event.malformed
    <2>1. observer' # "ended"
        BY DEF HandleEvent, TeardownInv
    <2> QED
        BY <2>1 DEF HandleEvent, event
<1>3. active' = [active EXCEPT ![event.key] = None]
    BY <1>1, <1>2, Zenon DEF HandleEvent, event
<1>4. id \in Entered /\ id \in NativeIds /\ Key[id[2]] = event.key /\ id[2] \in NativeCalls
    BY <1>1, <1>d, CallFacts DEF CountInv, Types, PluginTypes
<1>5. \A k \in Keys : k # event.key => active'[k] = active[k]
    BY <1>3 DEF Types, PluginTypes
<1> HIDE DEF id
<1>6. OpenCallsAreActive'
    <2>1. ASSUME NEW d \in NativeCalls, phase[d] # "idle", published[d] = "none"
          PROVE  active'[Key[d]] # None /\ active'[Key[d]][2] = d
        <3>1. active[Key[d]] # None /\ active[Key[d]][2] = d /\ Key[d] \in Keys
            BY <2>1, CallFacts DEF MatchInv, OpenCallsAreActive, Dispatched, Types
        <3>2. Key[d] # event.key
            <4>1. event.outcome # "none"
                BY <1>b DEF Events, Outcomes
            <4> QED
                BY <1>1, <2>1, <3>1, <4>1 DEF id
        <3> QED
            BY <1>5, <3>1, <3>2
    <2> QED
        BY <1>a, <2>1 DEF OpenCallsAreActive, Dispatched
<1>7. EventsFindTheirCalls'
    <2>1. \A i, j \in DOMAIN events : events[j].key = events[i].key => j = i
        BY DEF MatchInv, EventsFindTheirCalls
    <2>2. \A i \in DOMAIN events' : events'[i].key \in Keys /\ events'[i].key # event.key
        BY <1>b, <1>c, <2>1, EventsAreEvents DEF Events
    <2>3. \A i \in DOMAIN events' : /\ active'[events'[i].key] # None
                                    /\ published'[active'[events'[i].key][2]] = events'[i].outcome
        BY <1>a, <1>c, <1>5, <2>2 DEF MatchInv, EventsFindTheirCalls
    <2>4. \A i, j \in DOMAIN events' : events'[j].key = events'[i].key => j = i
        <3>1. \A i, j \in DOMAIN events' : events'[j].key = events'[i].key => j + 1 = i + 1
            BY <1>c, <2>1
        <3>2. \A i, j \in Nat : j + 1 = i + 1 => j = i
            OBVIOUS
        <3> QED
            BY <1>c, <3>1, <3>2
    <2> QED
        BY <2>3, <2>4 DEF EventsFindTheirCalls
<1>8. LateWrappersStayOpen'
    BY <1>a, <1>c DEF MatchInv, LateWrappersStayOpen
<1>9. TerminalsAreTrue'
    <2>1. ASSUME NEW line \in Held', line.kind = "native_terminal"
          PROVE  /\ line.outcome = published[line.id[2]]
                 /\ line.id[1] = "wrapper" => Tool[line.id[2]] # "registered"
        <3>1. CASE line \in Held
            BY <2>1, <3>1 DEF MatchInv, TerminalsAreTrue
        <3>2. CASE Fresh(line)
            <4>1. line.id = id /\ line.outcome = event.outcome
                BY <2>1, <3>2 DEF Fresh, id, event
            <4>2. ASSUME id[1] = "wrapper", Tool[id[2]] = "registered"
                  PROVE  FALSE
                <5>1. id = <<"wrapper", id[2]>>
                    BY <1>4, <4>2 DEF NativeIds
                <5>2. \A i \in DOMAIN events : events[i].key # Key[id[2]]
                    BY <1>4, <4>2, <5>1 DEF MatchInv, LateWrappersStayOpen
                <5> QED
                    BY <1>4, <1>b, <1>c, <5>2
            <4> QED
                BY <1>1, <4>1, <4>2
        <3> QED
            BY <2>1, <3>1, <3>2, LinesHold DEF CountInv
    <2> QED
        BY <1>a, <2>1 DEF TerminalsAreTrue
<1> QED
    BY <1>6, <1>7, <1>8, <1>9 DEF MatchInv

LEMMA MatchHolds ==
    ASSUME OwnIdentities, Types, TeardownInv, CountInv, Clean => MatchInv, [Next]_vars, Clean'
    PROVE  MatchInv'
<1>a. MatchInv /\ (observer' # "ended" => ~troubled')
    BY CleanBefore
<1>b. setting' = setting
    BY Moves
<1>c. CallTypes
    BY DEF Types
<1>1. CASE HandleEvent
    BY <1>a, <1>1, HandledEventsMatch
<1>2. ASSUME NEW c \in NativeCalls, EnterWrapper(c), ~HandleEvent
      PROVE  MatchInv'
    <2>1. /\ active' = [active EXCEPT ![Key[c]] = <<"wrapper", c>>]
          /\ phase' = [phase EXCEPT ![c] = "wrapping"]
          /\ UNCHANGED <<setting, published, events>>
          /\ observer' # "ended" /\ troubled' = (troubled \/ active[Key[c]] # None)
        BY <1>2 DEF EnterWrapper
    <2>2. active[Key[c]] = None
        BY <1>a, <2>1
    <2>3. Tool[c] = "registered" => Dispatched(c)
        BY <1>2 DEF EnterWrapper, Dispatched
    <2> QED
        BY <1>a, <1>2, <2>1, <2>2, <2>3, EnteredCallsMatch
<1>3. ASSUME NEW c \in NativeCalls, EnterHook(c), ~HandleEvent
      PROVE  MatchInv'
    <2>1. active[Key[c]] = None
        BY <1>3, HooksFindNone
    <2>2. /\ active' = [active EXCEPT ![Key[c]] = <<"hook", c>>]
          /\ phase' = [phase EXCEPT ![c] = "hooking"] /\ phase[c] = "idle"
          /\ UNCHANGED <<setting, published, events>>
        BY <1>3, <2>1 DEF EnterHook
    <2> QED
        BY <1>a, <1>3, <2>1, <2>2, EnteredCallsMatch
<1>4. ASSUME NEW c \in NativeCalls, Settle(c) \/ Cancel(c), ~HandleEvent
      PROVE  MatchInv'
    <2>1. Dispatched(c)
        BY <1>4 DEF Settle, Cancel, Dispatched, Outcomes
    <2>2. PICK outcome \in Outcomes, malformed \in BOOLEAN : Publish(c, outcome, malformed)
        BY <1>4 DEF Settle, Cancel, Outcomes
    <2> QED
        BY <1>a, <1>4, <2>1, <2>2, PublishedCallsMatch
<1>5. ASSUME ~HandleEvent, active' = active, published' = published, events' = events,
             \A c \in NativeCalls : LateMove(c)
      PROVE  MatchInv'
    BY <1>a, <1>b, <1>5, BystandersMatch
<1>6. \/ HandleEvent
      \/ \E c \in NativeCalls : EnterWrapper(c) \/ EnterHook(c)
      \/ active' = active /\ \A c \in NativeCalls : LateMove(c)
    BY LateMoves
<1>7. \/ HandleEvent
      \/ \E c \in NativeCalls : EnterWrapper(c) \/ EnterHook(c) \/ Settle(c) \/ Cancel(c)
      \/ published' = published /\ events' = events
    <2>1. CASE Quiet \/ WriteCaptureEnd
        BY <2>1 DEF Quiet, WriteCaptureEnd, callVars
    <2>2. ASSUME NEW c \in NativeCalls, WrapperStarts(c) \/ HookStarts(c) \/ HandlerReturns(c)
          PROVE  published' = published /\ events' = events
        BY <2>2 DEF WrapperStarts, HookStarts, StartIsWritten, HandlerReturns
    <2>3. ASSUME NEW i \in InnerCalls, EnterInner(i) \/ InnerReturns(i)
          PROVE  published' = published /\ events' = events
        BY <2>3 DEF EnterInner, InnerReturns
    <2> QED
        BY <2>1, <2>2, <2>3, QuietSteps DEF Next, Plugin, NativeStep
<1> QED
    BY <1>1, <1>2, <1>3, <1>4, <1>5, <1>6, <1>7

(* Once every call was told of, no inner call can start any more: the event *)
(* that told of its outer execute was published before.                     *)
LEMMA EndsStayRight ==
    ASSUME Types, TeardownInv, CountInv, OutersAreOpen, Clean => MatchInv, EndsCountInnerCalls,
           [Next]_vars
    PROVE  EndsCountInnerCalls'
<1> SUFFICES ASSUME AllTold', NEW line \in Held', line.kind = "capture_end", ~line.failures
             PROVE  line.totals["code_start"] = counts'["code_start"]
    BY DEF EndsCountInnerCalls
<1>a. /\ \A l \in Held' : Tells(l)' /\ (l \in Held \/ Fresh(l))
      /\ Entered \subseteq Entered'
    BY LinesHold, Progress DEF CountInv
<1>1. CASE line \notin Held
    BY <1>a, <1>1 DEF Fresh, WriteCaptureEnd
<1>2. CASE line \in Held
    <2>1. observer = "ended"
        BY <1>2 DEF CountInv, Tells
    <2>2. ~HandleEvent
        BY <2>1 DEF TeardownInv, HandleEvent
    <2>3. AllTold
        <3> SUFFICES ASSUME NEW id \in Entered
                     PROVE  \E l \in Held : l.kind = "native_terminal" /\ l.id = id
            BY DEF AllTold
        <3>1. PICK l \in Held' : l.kind = "native_terminal" /\ l.id = id
            BY <1>a DEF AllTold
        <3> QED
            BY <1>a, <2>2, <3>1 DEF Fresh
    <2>4. line.totals["code_start"] = counts["code_start"]
        BY <1>2, <2>3 DEF EndsCountInnerCalls
    <2>5. ASSUME NEW i \in InnerCalls, EnterInner(i)
          PROVE  FALSE
        <3> DEFINE c == Outer[i]
                   id == <<"hook", c>>
        <3>1. c \in NativeCalls /\ Tool[c] # "plain" /\ phase[c] = "running" /\ published[c] = "none"
            BY <2>5, CallFacts DEF EnterInner, Types
        <3>2. id \in NativeIds /\ id[1] = "hook" /\ id[2] = c
            BY <3>1 DEF NativeIds
        <3> HIDE DEF c, id
        <3>3. id \in Entered
            BY <3>1, <3>2 DEF Entered
        <3>4. PICK l \in Held : l.kind = "native_terminal" /\ l.id = id
            BY <2>3, <3>3 DEF AllTold
        <3>5. Clean
            BY <1>2 DEF Clean
        <3>6. l.outcome = "none"
            BY <3>1, <3>2, <3>4, <3>5 DEF MatchInv, TerminalsAreTrue
        <3> QED
            BY <3>4, <3>6 DEF CountInv, Tells, Outcomes
    <2> QED
        BY <2>4, <2>5, InnerEnteredMoves
<1> QED
    BY <1>1, <1>2

LEMMA TruthInvariance == OwnIdentities => (Spec => []TruthInv)
<1> SUFFICES ASSUME OwnIdentities
             PROVE  Spec => []TruthInv
    OBVIOUS
<1>1. Init => TruthInv
    <2> SUFFICES ASSUME Init
                 PROVE  TruthInv
        OBVIOUS
    <2>1. /\ \A c \in NativeCalls : phase[c] = "idle"
          /\ \A i \in InnerCalls : phase[i] = "idle"
          /\ \A id \in NativeIds : id[2] \in NativeCalls
        BY InitTypes, CallFacts DEF Init, Types
    <2>2. Entered = {} /\ InnerEntered = {}
        BY <2>1 DEF Entered, InnerEntered, Outcomes
    <2>3. StartsAreCounted /\ InnerStartsAreCounted
        BY <2>2, FS_EmptySet, Kinds DEF Init, StartsAreCounted, InnerStartsAreCounted
    <2>4. Held = {} /\ DOMAIN events = {}
        BY DEF Init, Held
    <2>5. OutersAreOpen
        BY <2>1 DEF OutersAreOpen
    <2>6. MatchInv /\ EndsCountInnerCalls
        BY <2>1, <2>2, <2>4 DEF MatchInv, OpenCallsAreActive, EventsFindTheirCalls,
               LateWrappersStayOpen, TerminalsAreTrue, EndsCountInnerCalls, Dispatched
    <2> QED
        BY <2>3, <2>5, <2>6 DEF TruthInv
<1>2. BaseInv /\ CountInv /\ TruthInv /\ [Next]_vars => TruthInv'
    <2> SUFFICES ASSUME BaseInv, CountInv, TruthInv, [Next]_vars
                 PROVE  TruthInv'
        OBVIOUS
    <2>1. Types /\ TeardownInv
        BY DEF BaseInv
    <2>2. StartsAreCounted' /\ InnerStartsAreCounted'
        BY <2>1, CountsAgree DEF TruthInv
    <2>3. OutersAreOpen'
        BY <2>1, OutersStayOpen DEF TruthInv
    <2>4. Clean' => MatchInv'
        BY <2>1, MatchHolds DEF TruthInv
    <2>5. EndsCountInnerCalls'
        BY <2>1, EndsStayRight DEF TruthInv
    <2> QED
        BY <2>2, <2>3, <2>4, <2>5 DEF TruthInv
<1> QED
    BY <1>1, <1>2, BaseInvariance, CountInvariance, PTL DEF Spec

(***************************************************************************)
(* Complete evidence.                                                      *)
(***************************************************************************)

(* A start line tells of an entered call.                                   *)
StartIsTrue(s) ==
    \/ s.kind = "native_start" /\ s.id \in Entered
    \/ s.kind = "code_start" /\ s.id \in CodeIds /\ s.id[2] \in InnerEntered

(* The starts of complete evidence are exactly the calls that were entered: *)
(* none is told of twice, and as many are told of as were counted.          *)
LEMMA EveryStartIsHeld ==
    ASSUME BaseInv, CountInv, TruthInv, NEW e \in evidence, e.status = "complete"
    PROVE  /\ IsFiniteSet(StartsHeld) /\ MatchInv
           /\ \A s \in StartsHeld : StartIsTrue(s)
           /\ \A id \in Entered : \E s \in StartsHeld : s.kind = "native_start" /\ s.id = id
           /\ \A i \in InnerEntered : \E s \in StartsHeld : s.kind = "code_start" /\ s.id[2] = i
<1> DEFINE records == Records(received)
           natives == {s \in StartsHeld : s.kind = "native_start"}
           codes   == {s \in StartsHeld : s.kind = "code_start"}
<1>1. /\ records = StartsHeld \cup TerminalsHeld
      /\ records \subseteq Held
      /\ StartsHeld \subseteq {r \in records : r.kind \in StartKinds}
      /\ TerminalsHeld \subseteq {r \in records : r.kind \in TerminalKinds}
      /\ \A r, q \in StartsHeld : r.id = q.id => r = q
      /\ \A s \in StartsHeld : \E t \in TerminalsHeld : Settles(t, s)
    BY CompleteCapture
<1>2. PICK end \in Held :
          end.kind = "capture_end" /\ ~end.failures /\ end.totals = CountsOf(records)
    BY CompleteCapture
<1> HIDE DEF records
<1>3. MatchInv
    BY <1>2 DEF Clean, TruthInv
<1>4. \A s \in StartsHeld : StartIsTrue(s)
    BY <1>1 DEF CountInv, Tells, StartKinds, StartIsTrue
<1>5. natives = {r \in records : r.kind = "native_start"} /\ codes = {r \in records : r.kind = "code_start"}
    BY <1>1 DEF TerminalKinds
<1>6. /\ CountsOf(records)["native_start"] = Cardinality(natives)
      /\ CountsOf(records)["code_start"] = Cardinality(codes)
    BY <1>5, Kinds DEF CountsOf
<1>7. IsFiniteSet(natives) /\ \A id \in Entered : \E s \in natives : s.id = id
    <2> DEFINE f == [s \in natives |-> s.id]
    <2>1. f \in Injection(natives, Entered)
        BY <1>1, <1>4 DEF Injection, IsInjective, StartIsTrue
    <2>2. IsFiniteSet(Entered) /\ Cardinality(natives) = Cardinality(Entered)
        BY <1>2, <1>6 DEF CountInv, Tells, TruthInv, StartsAreCounted
    <2>3. IsFiniteSet(natives) /\ f \in Surjection(natives, Entered)
        BY <2>1, <2>2, FS_Injection
    <2> QED
        BY <2>3 DEF Surjection
<1>8. AllTold
    <2> SUFFICES ASSUME NEW id \in Entered
                 PROVE  \E line \in Held : line.kind = "native_terminal" /\ line.id = id
        BY DEF AllTold
    <2>1. PICK s \in natives : s.id = id
        BY <1>7
    <2>2. PICK t \in TerminalsHeld : Settles(t, s)
        BY <1>1
    <2> QED
        BY <1>1, <2>1, <2>2 DEF Settles, Mode
<1>9. IsFiniteSet(codes) /\ \A i \in InnerEntered : \E s \in codes : s.id[2] = i
    <2> DEFINE f == [s \in codes |-> s.id[2]]
    <2>1. \A id, other \in CodeIds : id[2] = other[2] => id = other
        BY DEF CodeIds
    <2>2. f \in Injection(codes, InnerEntered)
        BY <1>1, <1>4, <2>1 DEF Injection, IsInjective, StartIsTrue
    <2>3. IsFiniteSet(InnerEntered) /\ Cardinality(codes) = Cardinality(InnerEntered)
        BY <1>2, <1>6, <1>8 DEF EndsCountInnerCalls, TruthInv, InnerStartsAreCounted
    <2>4. IsFiniteSet(codes) /\ f \in Surjection(codes, InnerEntered)
        BY <2>2, <2>3, FS_Injection
    <2> QED
        BY <2>4 DEF Surjection
<1>10. StartsHeld = natives \cup codes
    BY <1>4 DEF StartIsTrue
<1> HIDE DEF natives, codes
<1>11. IsFiniteSet(StartsHeld)
    BY <1>7, <1>9, <1>10, FS_Union
<1> QED
    BY <1>3, <1>4, <1>7, <1>9, <1>11 DEF natives, codes

(* What complete evidence says of a call that it observed.                  *)
LEMMA ObservedOutcomes ==
    ASSUME BaseInv, CountInv, TruthInv, NEW e \in evidence, e.status = "complete",
           NEW s \in StartsHeld, NEW o, o = Observation(s, TerminalsHeld)
    PROVE  /\ o.id = s.id
           /\ s.kind = "native_start" =>
                  /\ o.outcome = published[s.id[2]]
                  /\ s.id[1] = "wrapper" => Tool[s.id[2]] # "registered"
           /\ s.kind = "code_start" => o.outcome = phase[s.id[2]]
<1>1. /\ TerminalsHeld \subseteq Held /\ s.kind \in StartKinds
      /\ \E t \in TerminalsHeld : Settles(t, s)
    BY CompleteCapture
<1>2. MatchInv
    BY EveryStartIsHeld
<1>3. Settling(s, TerminalsHeld) # {}
    BY <1>1 DEF Settling
<1>4. o.id = s.id
    BY ObservationFacts
<1>5. PICK t \in Settling(s, TerminalsHeld) : o.outcome = t.outcome
    BY <1>3, ObservationFacts
<1>6. t \in Held /\ Settles(t, s)
    BY <1>1, <1>5 DEF Settling
<1>7. CASE s.kind = "native_start"
    <2>1. t.kind = "native_terminal" /\ t.id = s.id
        BY <1>6, <1>7 DEF Settles, Mode
    <2> QED
        BY <1>2, <1>4, <1>5, <1>6, <1>7, <2>1 DEF MatchInv, TerminalsAreTrue
<1>8. CASE s.kind = "code_start"
    <2>1. t.kind = "code_terminal" /\ t.id = s.id
        BY <1>6, <1>8 DEF Settles, Mode
    <2> QED
        BY <1>4, <1>5, <1>6, <1>8, <2>1 DEF CountInv, Tells
<1> QED
    BY <1>1, <1>7, <1>8 DEF StartKinds

(* Complete evidence tells the whole truth, whatever was lost, whatever    *)
(* failed and in whatever order the callbacks ran: every call that was     *)
(* dispatched is observed once, with the outcome it had, and nothing else  *)
(* is.  Only the calls of plain tools may share an identity: they are the  *)
(* ones the wrapper tells apart (active identities in register, terminal,  *)
(* execute.before).                                                        *)
THEOREM CompleteEvidenceIsTrue == OwnIdentities => (Spec => []CompleteIsTheWholeTruth)
<1> SUFFICES ASSUME OwnIdentities
             PROVE  Spec => []CompleteIsTheWholeTruth
    OBVIOUS
<1>1. BaseInv /\ CountInv /\ TruthInv => CompleteIsTheWholeTruth
    <2> SUFFICES ASSUME BaseInv, CountInv, TruthInv, NEW e \in evidence, e.status = "complete"
                 PROVE  /\ \A c \in NativeCalls \cup InnerCalls : Dispatched(c) =>
                               \E o \in e.observations : Called(o) = c /\ o.outcome = TrueOutcome(c)
                        /\ \A o \in e.observations : Dispatched(Called(o))
                        /\ Cardinality(e.observations) = Cardinality({Called(o) : o \in e.observations})
        BY DEF CompleteIsTheWholeTruth
    <2> DEFINE seen(s) == Observation(s, TerminalsHeld)
    <2>a. Types
        BY DEF BaseInv
    <2>b. e.observations = {seen(s) : s \in StartsHeld} /\ \A r, q \in StartsHeld : r.id = q.id => r = q
        BY CompleteCapture
    <2>c. /\ IsFiniteSet(StartsHeld)
          /\ \A s \in StartsHeld : StartIsTrue(s)
          /\ \A id \in Entered : \E s \in StartsHeld : s.kind = "native_start" /\ s.id = id
          /\ \A i \in InnerEntered : \E s \in StartsHeld : s.kind = "code_start" /\ s.id[2] = i
        BY EveryStartIsHeld
    <2>d. \A s \in StartsHeld :
              /\ Called(seen(s)) = s.id[2]
              /\ s.kind = "native_start" =>
                     /\ seen(s).outcome = published[s.id[2]]
                     /\ s.id[1] = "wrapper" => Tool[s.id[2]] # "registered"
              /\ s.kind = "code_start" => seen(s).outcome = phase[s.id[2]]
        BY ObservedOutcomes DEF Called
    <2> HIDE DEF seen
    <2>e. /\ \A c \in NativeCalls :
                 c \notin InnerCalls /\ <<"hook", c>> \in NativeIds /\ <<"wrapper", c>> \in NativeIds
          /\ \A i \in InnerCalls : i \notin NativeCalls
          /\ \A id \in NativeIds : id[2] \in NativeCalls /\ id[1] \in {"hook", "wrapper"}
          /\ \A c \in NativeCalls :
                 /\ Tool[c] \in {"plain", "synthetic", "registered"}
                 /\ phase[c] \in NativePhases
                 /\ phase[c] \in {"hooking", "hooked"} => Tool[c] # "plain"
          /\ \A i \in InnerCalls : phase[i] \in InnerPhases
        BY <2>a, CallFacts DEF Types, CallTypes
    <2>1. ASSUME NEW c \in NativeCalls, Dispatched(c)
          PROVE  \E o \in e.observations : Called(o) = c /\ o.outcome = TrueOutcome(c)
        <3>1. \E id \in Entered : id[2] = c
            <4>1. CASE Tool[c] # "plain"
                <5>1. <<"hook", c>> \in Entered
                    BY <2>1, <2>e, <4>1 DEF Entered, Dispatched
                <5> QED
                    BY <5>1
            <4>2. CASE Tool[c] = "plain"
                <5>1. phase[c] \in NativePhases \ {"idle", "hooking", "hooked"}
                    BY <2>1, <2>e, <4>2 DEF Dispatched
                <5>2. phase[c] \in {"wrapping", "running"} \cup Outcomes
                    BY <5>1 DEF NativePhases
                <5>3. <<"wrapper", c>> \in Entered
                    BY <2>e, <4>2, <5>2 DEF Entered
                <5> QED
                    BY <5>3
            <4> QED
                BY <4>1, <4>2
        <3>2. PICK s \in StartsHeld : s.kind = "native_start" /\ s.id[2] = c
            BY <2>c, <3>1
        <3>3. seen(s) \in e.observations
            BY <2>b
        <3> QED
            BY <2>d, <3>2, <3>3 DEF TrueOutcome
    <2>2. ASSUME NEW i \in InnerCalls, Dispatched(i)
          PROVE  \E o \in e.observations : Called(o) = i /\ o.outcome = TrueOutcome(i)
        <3>1. i \in InnerEntered
            BY <2>2, <2>e DEF TruthInv, OutersAreOpen, Dispatched, InnerPhases, InnerEntered
        <3>2. PICK s \in StartsHeld : s.kind = "code_start" /\ s.id[2] = i
            BY <2>c, <3>1
        <3>3. seen(s) \in e.observations
            BY <2>b
        <3> QED
            BY <2>d, <2>e, <3>2, <3>3 DEF TrueOutcome
    <2>3. ASSUME NEW s \in StartsHeld
          PROVE  Dispatched(s.id[2])
        BY <2>c, <2>e DEF StartIsTrue, Entered, InnerEntered, Outcomes, Dispatched
    <2>4. \A o \in e.observations : Dispatched(Called(o))
        BY <2>b, <2>d, <2>3
    <2>5. ASSUME NEW r \in StartsHeld, NEW s \in StartsHeld, r.id[2] = s.id[2]
          PROVE  r = s
        <3>1. CASE r.kind = "code_start" \/ s.kind = "code_start"
            <4>1. r.id \in CodeIds /\ s.id \in CodeIds
                BY <2>5, <2>c, <2>e, <3>1 DEF StartIsTrue, Entered, InnerEntered
            <4>2. r.id = s.id
                BY <2>5, <4>1 DEF CodeIds
            <4> QED
                BY <2>b, <4>2
        <3>2. CASE r.kind = "native_start" /\ s.kind = "native_start"
            <4>1. r.id \in Entered /\ s.id \in Entered
                BY <2>c, <3>2 DEF StartIsTrue
            <4>2. r.id[1] = s.id[1]
                <5>1. \A id, other \in Entered : id[1] = "hook" /\ other[1] = "wrapper" /\ id[2] = other[2]
                          => Tool[other[2]] = "registered"
                    <6> SUFFICES ASSUME NEW id \in Entered, NEW other \in Entered, id[1] = "hook",
                                        other[1] = "wrapper", id[2] = other[2]
                                 PROVE  Tool[other[2]] = "registered"
                        OBVIOUS
                    <6>1. Tool[id[2]] # "plain" /\ Tool[other[2]] # "synthetic" /\ other[2] \in NativeCalls
                        BY <2>e DEF Entered
                    <6> QED
                        BY <2>e, <6>1
                <5>2. r.id[1] \in {"hook", "wrapper"} /\ s.id[1] \in {"hook", "wrapper"}
                    BY <2>e, <4>1 DEF Entered
                <5> QED
                    BY <2>5, <2>d, <3>2, <4>1, <5>1, <5>2
            <4>3. r.id = s.id
                BY <2>5, <4>1, <4>2 DEF Entered, NativeIds
            <4> QED
                BY <2>b, <4>3
        <3> QED
            BY <2>c, <3>1, <3>2 DEF StartIsTrue
    <2>6. IsFiniteSet(e.observations)
        <3> DEFINE f == [s \in StartsHeld |-> seen(s)]
        <3>1. f \in Surjection(StartsHeld, e.observations)
            BY <2>b DEF Surjection
        <3> QED
            BY <2>c, <3>1, FS_Surjection
    <2>7. Cardinality(e.observations) = Cardinality({Called(o) : o \in e.observations})
        <3> DEFINE calls == {Called(o) : o \in e.observations}
                   f == [o \in e.observations |-> Called(o)]
        <3>1. f \in Surjection(e.observations, calls)
            BY DEF Surjection
        <3>2. \A o, p \in e.observations : Called(o) = Called(p) => o = p
            BY <2>b, <2>d, <2>5
        <3>3. f \in Injection(e.observations, calls)
            BY <3>2 DEF Injection, IsInjective
        <3> QED
            BY <2>6, <3>1, <3>3, FS_Surjection
    <2> QED
        BY <2>1, <2>2, <2>4, <2>7
<1> QED
    BY <1>1, BaseInvariance, CountInvariance, TruthInvariance, PTL

(***************************************************************************)
(* A run in which nothing fails.                                           *)
(***************************************************************************)

(* Nothing failed, no invocation was mistaken for another, and nothing was  *)
(* left open when the capture was closed.                                   *)
Settled ==
    \A end \in Held : end.kind = "capture_end" =>
        end.totals = counts /\ \A k \in Keys : active[k] = None
Calm == faults = 0 /\ ~Ambiguous /\ issue = NoIssue /\ Settled

(* The end of the capture counts no more than what was counted.             *)
EndsLagBehind ==
    \A end \in Held : end.kind = "capture_end" =>
        \A k \in ToolKinds : end.totals[k] <= counts[k]

(* What a line of a calm run is: the one that its invocation writes.        *)
IdOf(c) == IF Tool[c] = "plain" THEN <<"wrapper", c>> ELSE <<"hook", c>>
Proper(line) ==
    /\ line # CutLine /\ (line.kind = "capture_start" <=> line.seq = 0)
    /\ line.kind \in ToolKinds => line.value = "v"
    /\ line.kind = "native_start" =>
           \E c \in NativeCalls :
               /\ line.id = IdOf(c) /\ line.tool = ToolName(c) /\ line.who = Key[c]
               /\ line.boundary = IF Tool[c] = "plain" THEN "decoded-tool-execute"
                                  ELSE "tool-execute-before"
    /\ line.kind = "native_terminal" =>
           \E c \in NativeCalls :
               /\ line.id = IdOf(c) /\ line.tool = ToolName(c) /\ line.who = Key[c]
               /\ line.outcome \in Outcomes
               /\ line.boundary = ExpectedBoundary["native"][line.outcome]
    /\ line.kind = "code_start" =>
           \E i \in InnerCalls :
               /\ line.id = <<"code", i>> /\ line.tool = "inner" /\ line.who = Key[Outer[i]]
               /\ line.parent = <<"hook", Outer[i]>>
    /\ line.kind = "code_terminal" =>
           \E i \in InnerCalls :
               /\ line.id = <<"code", i>> /\ line.tool = "inner" /\ line.who = Key[Outer[i]]
               /\ line.outcome \in Outcomes
               /\ line.boundary = ExpectedBoundary["code_mode"][line.outcome]

LinesOf(kind) == {line \in Held : line.kind = kind}
HasLine(kind, id) == \E line \in Held : line.kind = kind /\ line.id = id
NativeHas(kind, c) == HasLine(kind, IdOf(c))
InnerHas(kind, i)  == HasLine(kind, <<"code", i>>)

(* A line follows the line it refers to.                                    *)
Refers(line, kind, id) == \E s \in Held : s.kind = kind /\ s.id = id /\ s.seq < line.seq
Follows(line) ==
    /\ line.kind = "native_terminal" => Refers(line, "native_start", line.id)
    /\ line.kind = "code_start" => Refers(line, "native_start", line.parent)
    /\ line.kind = "code_terminal" => Refers(line, "code_start", line.id)

(* Each line is there once and in its place.                                *)
CalmLines ==
    /\ \A line \in Held : Proper(line) /\ Follows(line) /\ line.seq < sequence
    /\ \A line, other \in Held :
           line.kind = other.kind /\ line.kind \in ToolKinds /\ line.id = other.id => line = other
    /\ \A k \in ToolKinds : IsFiniteSet(LinesOf(k))
    /\ \A k \in ToolKinds \ {"native_start"} : counts[k] = Cardinality(LinesOf(k))

(* Each call has the lines of its phase.                                    *)
NativeCalm(c) ==
    /\ NativeHas("native_start", c) <=> phase[c] \in {"running"} \cup Outcomes
    /\ NativeHas("native_terminal", c) <=> Dispatched(c) /\ active[Key[c]] = None
    /\ published[c] # "none" => phase[c] = published[c]
    /\ Dispatched(c) /\ published[c] = "none" => active[Key[c]] # None
    /\ Tool[c] = "synthetic" /\ phase[c] \in {"hooking", "running"} =>
           outer[Key[c]] = <<"hook", c>>
InnerCalm(i) ==
    /\ InnerHas("code_start", i) <=> phase[i] \in {"running"} \cup Outcomes
    /\ InnerHas("code_terminal", i) <=> phase[i] \in Outcomes
    /\ phase[i] # "unobserved"
CalmCalls == (\A c \in NativeCalls : NativeCalm(c)) /\ (\A i \in InnerCalls : InnerCalm(i))

(* Each event waits for its call, which is still active.                    *)
CalmEvents ==
    \A i \in DOMAIN events :
        /\ ~events[i].malformed /\ active[events[i].key] # None
        /\ \E c \in NativeCalls : Key[c] = events[i].key /\ Dispatched(c) /\ published[c] # "none"
        /\ \A j \in DOMAIN events : events[j].key = events[i].key => j = i

(* The teardown comes last, and nothing fails before it.                    *)
DispatchedCalls == {c \in NativeCalls : Dispatched(c)}
CalmEnd ==
    /\ observer # "ended" => ~troubled /\ socket = "up" /\ Alive
    /\ process # "timeout"
    /\ observer = "unloaded" <=> sequence = 0
    /\ \A c \in NativeCalls : Dispatched(c) => sequence > 0
    /\ observer = "ended" => \E end \in Held : end.kind = "capture_end"
    /\ \A end \in Held : end.kind = "capture_end" =>
           observer = "ended" /\ ~end.failures /\ end.seq = sequence - 1
    /\ IsFiniteSet(DispatchedCalls) /\ counts["native_start"] = Cardinality(DispatchedCalls)

CalmBody == CalmLines /\ CalmCalls /\ CalmEvents /\ CalmEnd
CalmInv == Calm => CalmBody

(* What the runner holds when it has finished is all there is.              *)
DrainInv == evidence # {} /\ accepted /\ issue = NoIssue => wire = <<>>

(* Lines are never withdrawn, nor counted before they are written.          *)
BoundInv == faults \in Nat /\ EndsLagBehind /\ DrainInv

(* The steps without a fault.                                               *)
StartsCleanly(c, place, boundary, next) ==
    /\ Alive /\ phase' = [phase EXCEPT ![c] = next]
    /\ Write(NativeStart(<<place, c>>, boundary, "v"), FALSE)
    /\ UNCHANGED <<setting, published, events, observer, subscribed, active, outer, counts, socket,
                   process, runnerVars, faults>>
CleanStart(c) ==
    \/ phase[c] = "wrapping" /\ StartsCleanly(c, "wrapper", "decoded-tool-execute", "running")
    \/ phase[c] = "hooking" /\ StartsCleanly(c, "hook", "tool-execute-before", AfterHook(c))
CleanSettle(c) == phase[c] \in Outcomes /\ Publish(c, phase[c], FALSE) /\ UNCHANGED faults
CleanStep ==
    \/ Setup \/ Dispose \/ Abort \/ WriteCaptureEnd \/ HandleEvent
    \/ ExitCleanly \/ Runner \/ UNCHANGED vars
    \/ \E c \in NativeCalls :
           EnterWrapper(c) \/ EnterHook(c) \/ CleanStart(c) \/ HandlerReturns(c) \/ CleanSettle(c)
    \/ \E i \in InnerCalls : EnterInner(i) \/ InnerReturns(i)

LEMMA FaultlessSteps ==
    ASSUME faults \in Nat, [Next]_vars
    PROVE  faults' \in Nat /\ (faults' = 0 => faults = 0 /\ CleanStep)
<1>1. /\ faults' = faults + 1 => faults' \in Nat /\ faults' # 0
      /\ faults' = faults => faults' \in Nat /\ (faults' = 0 => faults = 0)
    OBVIOUS
<1>2. Fault => faults' = faults + 1
    BY DEF Fault
<1>3. ASSUME NEW c, NEW place, NEW boundary, NEW next, StartIsWritten(c, place, boundary, next)
      PROVE  faults' = faults + 1 \/ (faults' = faults /\ StartsCleanly(c, place, boundary, next))
    <2>1. PICK failed \in BOOLEAN :
              /\ Write(NativeStart(<<place, c>>, boundary, IF failed THEN "omitted" ELSE "v"), failed)
              /\ IF failed THEN Fault ELSE UNCHANGED faults
        BY <1>3, Zenon DEF StartIsWritten
    <2>2. CASE failed = TRUE
        BY <1>2, <2>1, <2>2
    <2>3. CASE failed = FALSE
        <3>1. Write(NativeStart(<<place, c>>, boundary, "v"), FALSE) /\ faults' = faults
            BY <2>1, <2>3
        <3> QED
            BY <1>3, <3>1 DEF StartIsWritten, StartsCleanly
    <2> QED
        BY <2>2, <2>3
<1>4. ASSUME NEW c \in NativeCalls, NativeStep(c)
      PROVE  faults' = faults + 1 \/ (faults' = faults /\ CleanStep)
    <2>1. CASE EnterWrapper(c) \/ EnterHook(c) \/ HandlerReturns(c)
        <3>1. faults' = faults
            BY <2>1 DEF EnterWrapper, EnterHook, HandlerReturns
        <3> QED
            BY <2>1, <3>1 DEF CleanStep
    <2>2. CASE WrapperStarts(c) \/ HookStarts(c)
        <3>1. faults' = faults + 1 \/ (faults' = faults /\ CleanStart(c))
            BY <1>3, <2>2 DEF WrapperStarts, HookStarts, CleanStart
        <3> QED
            BY <3>1 DEF CleanStep
    <2>3. CASE Settle(c)
        <3>1. faults' = faults + 1 \/ (faults' = faults /\ CleanSettle(c))
            BY <1>2, <2>3 DEF Settle, CleanSettle
        <3> QED
            BY <3>1 DEF CleanStep
    <2>4. CASE Cancel(c)
        BY <1>2, <2>4 DEF Cancel
    <2> QED
        BY <1>4, <2>1, <2>2, <2>3, <2>4 DEF NativeStep
<1>5. ASSUME NEW i \in InnerCalls, EnterInner(i) \/ InnerReturns(i)
      PROVE  faults' = faults /\ CleanStep
    <2>1. faults' = faults
        BY <1>5 DEF EnterInner, InnerReturns
    <2> QED
        BY <1>5, <2>1 DEF CleanStep
<1>6. CASE Setup \/ HandleEvent \/ Dispose \/ Abort \/ WriteCaptureEnd
    <2>1. faults' = faults
        BY <1>6 DEF Setup, HandleEvent, Dispose, Abort, WriteCaptureEnd
    <2> QED
        BY <1>1, <1>6, <2>1 DEF CleanStep
<1>7. CASE SubscriptionFails \/ SocketBreaks \/ ExitAbruptly \/ TimeOut
    BY <1>1, <1>2, <1>7 DEF SubscriptionFails, SocketBreaks, ExitAbruptly, TimeOut
<1>8. CASE ExitCleanly \/ Runner \/ UNCHANGED vars
    <2>1. faults' = faults
        BY <1>8 DEF ExitCleanly, Runner, Accept, Receive, Finish, vars
    <2> QED
        BY <1>1, <1>8, <2>1 DEF CleanStep
<1> QED
    BY <1>1, <1>4, <1>5, <1>6, <1>7, <1>8 DEF Next, Plugin, Environment

(* A line that is written to a connection that is up is under way.          *)
LEMMA Appends ==
    ASSUME Types, NEW line \in Lines, Write(line, FALSE), received' = received
    PROVE  /\ Held \subseteq Held' /\ sequence' = sequence + 1
           /\ socket = "up" => Held' = Held \cup {line} /\ troubled' = troubled
<1>1. /\ Held' \subseteq Held \cup {line} /\ Held \subseteq Held' /\ sequence' = sequence + 1
      /\ wire \in Seq(Lines) /\ wire' \in Seq(Lines) /\ troubled \in BOOLEAN
    BY WriteFacts DEF Types, PluginTypes, StreamTypes
<1>2. ASSUME socket = "up"
      PROVE  line \in Held' /\ troubled' = troubled
    <2>1. Len(wire') = Len(wire) + 1 /\ wire'[Len(wire) + 1] = line
        BY <1>2, WriteFacts
    <2>2. Len(wire) \in Nat /\ DOMAIN wire' = 1..Len(wire')
        BY <1>1, LenProperties
    <2>3. Len(wire) + 1 \in DOMAIN wire'
        BY <2>1, <2>2
    <2>4. line \in Held'
        BY <2>1, <2>3, Zenon DEF Held
    <2>5. troubled' = troubled
        BY <1>1, <1>2 DEF Write
    <2> QED
        BY <2>4, <2>5
<1> QED
    BY <1>1, <1>2

(* What is received is moved, unless it is dropped.                         *)
LEMMA ReceivingKeepsLines ==
    ASSUME Types, Receive, issue' = NoIssue
    PROVE  Held' = Held
<1>1. /\ wire \in Seq(Lines) /\ Len(wire) \in Nat /\ DOMAIN wire = 1..Len(wire)
      /\ received \in Seq(Lines) /\ Len(received) \in Nat /\ DOMAIN received = 1..Len(received)
    BY LenProperties DEF Types, StreamTypes
<1>2. /\ Held' \subseteq Held
      /\ wire' \in Seq(Lines) /\ DOMAIN wire' = 1..Len(wire')
      /\ received' \in Seq(Lines) /\ DOMAIN received' = 1..Len(received')
    BY ReceiveFacts, LenProperties
<1>3. PICK n \in Nat :
          /\ Len(received') = Len(received) + n /\ Len(wire') = Len(wire) - n
          /\ n <= Len(wire)
          /\ \A i \in DOMAIN received' : IF i \in DOMAIN received THEN received'[i] = received[i]
                 ELSE i - Len(received) \in DOMAIN wire /\ received'[i] = wire[i - Len(received)]
          /\ \A i \in DOMAIN wire' : i + n \in DOMAIN wire /\ wire'[i] = wire[i + n]
    BY ReceiveFacts
<1>4. ASSUME NEW i \in DOMAIN received
      PROVE  received[i] \in Held'
    <2>1. i \in DOMAIN received'
        BY <1>1, <1>2, <1>3
    <2>2. received'[i] = received[i]
        BY <1>3, <2>1
    <2> QED
        BY <2>1, <2>2, Zenon DEF Held
<1>5. ASSUME NEW i \in DOMAIN wire
      PROVE  wire[i] \in Held'
    <2>1. CASE i <= n
        <3> DEFINE j == Len(received) + i
        <3>1. j \in DOMAIN received' /\ ~(j \in DOMAIN received) /\ j - Len(received) = i
            BY <1>1, <1>2, <1>3, <2>1
        <3> HIDE DEF j
        <3>2. received'[j] = wire[i]
            BY <1>3, <3>1
        <3> QED
            BY <3>1, <3>2, Zenon DEF Held
    <2>2. CASE ~(i <= n)
        <3>1. i - n \in DOMAIN wire' /\ (i - n) + n = i
            BY <1>1, <1>2, <1>3, <2>2
        <3>2. wire'[i - n] = wire[i]
            BY <1>3, <3>1
        <3> QED
            BY <3>1, <3>2, Zenon DEF Held
    <2> QED
        BY <2>1, <2>2
<1>6. Held \subseteq Held'
    <2> SUFFICES ASSUME NEW line \in Held
                 PROVE  line \in Held'
        OBVIOUS
    <2>1. (\E i \in DOMAIN wire : line = wire[i]) \/ (\E i \in DOMAIN received : line = received[i])
        BY Zenon DEF Held
    <2> QED
        BY <1>4, <1>5, <2>1
<1> QED
    BY <1>2, <1>6

LEMMA HeldAreLines ==
    ASSUME Types
    PROVE  Held \subseteq Lines
<1>1. wire \in Seq(Lines) /\ received \in Seq(Lines)
    BY DEF Types, StreamTypes
<1>2. /\ \A i \in DOMAIN wire : wire[i] \in Lines
      /\ \A i \in DOMAIN received : received[i] \in Lines
    BY <1>1, ElementOfSeq, LenProperties
<1> QED
    BY <1>2, Zenon DEF Held

(* What an event handler finds.                                             *)
LEMMA HandledEvent ==
    ASSUME Types, HandleEvent
    PROVE  /\ Head(events) \in Events /\ events' = Tail(events) /\ events # <<>>
           /\ active[Head(events).key] \in Ids
           /\ active[Head(events).key] # None =>
                  /\ active[Head(events).key] \in NativeIds
                  /\ NativeTerminal(active[Head(events).key], Head(events).outcome) \in Lines
<1> DEFINE event == Head(events)
<1>1. event \in Events /\ events # <<>> /\ events' = Tail(events)
    BY HeadTailProperties DEF HandleEvent, Types, CallTypes
<1> HIDE DEF event
<1>2. event.key \in Keys /\ event.outcome \in Outcomes
    BY <1>1 DEF Events
<1>3. active[event.key] \in Ids /\ (active[event.key] # None => active[event.key] \in NativeIds)
    BY <1>2, CallFacts DEF Types, PluginTypes
<1>4. active[event.key] # None => NativeTerminal(active[event.key], event.outcome) \in Lines
    BY <1>2, <1>3, PluginLines, PluginLinesAreLines
<1> QED
    BY <1>1, <1>3, <1>4 DEF event

LEMMA LinesStay ==
    ASSUME Types, CleanStep, issue' = NoIssue
    PROVE  Held \subseteq Held'
<1>1. CASE Setup \/ WriteCaptureEnd
    <2>1. CaptureStart \in Lines /\ CaptureEnd \in Lines
        BY PluginLines, PluginLinesAreLines
    <2> QED
        BY <1>1, <2>1, Appends DEF Setup, WriteCaptureEnd, runnerVars
<1>2. CASE Dispose \/ Abort \/ ExitCleanly \/ UNCHANGED vars
    BY <1>2, HeldStays DEF Dispose, Abort, ExitCleanly, vars, streamVars, runnerVars
<1>3. CASE HandleEvent
    <2> DEFINE event == Head(events)
               id == active[event.key]
    <2>1. received' = received
        BY <1>3 DEF HandleEvent, runnerVars
    <2>2. CASE event.malformed \/ id = None
        BY <1>3, <2>1, <2>2, HeldStays DEF HandleEvent
    <2>3. CASE ~(event.malformed \/ id = None)
        <3>1. Write(NativeTerminal(id, event.outcome), FALSE)
            BY <1>3, <2>3 DEF HandleEvent
        <3>2. NativeTerminal(id, event.outcome) \in Lines
            BY <1>3, <2>3, HandledEvent
        <3> QED
            BY <2>1, <3>1, <3>2, Appends
    <2> QED
        BY <2>2, <2>3
<1>4. CASE Runner
    <2>1. CASE Accept \/ Finish
        BY <2>1, HeldStays DEF Accept, Finish, streamVars
    <2> QED
        BY <1>4, <2>1, ReceivingKeepsLines DEF Runner
<1>5. ASSUME NEW c \in NativeCalls, EnterWrapper(c) \/ EnterHook(c) \/ HandlerReturns(c) \/ CleanSettle(c)
      PROVE  Held' = Held
    <2>1. CASE CleanSettle(c)
        BY <2>1, HeldStays DEF CleanSettle, Publish, streamVars, runnerVars
    <2> QED
        BY <1>5, <2>1, HeldStays DEF EnterWrapper, EnterHook, HandlerReturns, streamVars, runnerVars
<1>6. ASSUME NEW c \in NativeCalls, CleanStart(c)
      PROVE  Held \subseteq Held'
    <2>1. \A place \in {"hook", "wrapper"}, boundary \in {"decoded-tool-execute", "tool-execute-before"} :
              NativeStart(<<place, c>>, boundary, "v") \in Lines
        BY PluginLines, PluginLinesAreLines DEF LineBoundaries
    <2> QED
        BY <1>6, <2>1, Appends DEF CleanStart, StartsCleanly, runnerVars
<1>7. ASSUME NEW i \in InnerCalls, EnterInner(i)
      PROVE  Held \subseteq Held'
    <2> DEFINE parent == outer[Key[Outer[i]]]
    <2>1. received' = received
        BY <1>7 DEF EnterInner, runnerVars
    <2>2. CASE parent = None
        BY <1>7, <2>1, <2>2, HeldStays DEF EnterInner
    <2>3. CASE parent # None
        <3>1. Write(CodeStart(i, parent), FALSE)
            BY <1>7, <2>3 DEF EnterInner
        <3>2. parent \in Ids
            BY CallFacts DEF Types, PluginTypes
        <3>3. CodeStart(i, parent) \in Lines
            BY <3>2, PluginLines, PluginLinesAreLines
        <3> QED
            BY <2>1, <3>1, <3>3, Appends
    <2> QED
        BY <2>2, <2>3
<1>8. ASSUME NEW i \in InnerCalls, InnerReturns(i)
      PROVE  Held \subseteq Held'
    <2>1. PICK outcome \in Outcomes : Write(CodeTerminal(i, outcome), FALSE)
        BY <1>8 DEF InnerReturns
    <2>2. CodeTerminal(i, outcome) \in Lines
        BY PluginLines, PluginLinesAreLines
    <2> QED
        BY <1>8, <2>1, <2>2, Appends DEF InnerReturns, runnerVars
<1> QED
    BY <1>1, <1>2, <1>3, <1>4, <1>5, <1>6, <1>7, <1>8 DEF CleanStep

(* What a step may count.                                                   *)
LEMMA CountMoves ==
    ASSUME Types, [Next]_vars
    PROVE  \/ counts' = counts
           \/ \E k \in ToolKinds :
                  /\ counts' = [counts EXCEPT ![k] = counts[k] + 1]
                  /\ k = "native_start" => observer = "observing"
                  /\ k = "native_terminal" => subscribed
<1>1. CASE Quiet
    BY <1>1 DEF Quiet
<1>2. CASE WriteCaptureEnd
    BY <1>2 DEF WriteCaptureEnd
<1>3. CASE HandleEvent
    <2>1. counts' = counts \/ counts' = [counts EXCEPT !["native_terminal"] = counts["native_terminal"] + 1]
        BY <1>3, Zenon DEF HandleEvent
    <2>2. subscribed
        BY <1>3 DEF HandleEvent
    <2> QED
        BY <2>1, <2>2, Kinds
<1>4. ASSUME NEW c \in NativeCalls, EnterWrapper(c) \/ EnterHook(c)
      PROVE  /\ observer = "observing"
             /\ \/ counts' = counts
                \/ counts' = [counts EXCEPT !["native_start"] = counts["native_start"] + 1]
    BY <1>4, Zenon DEF EnterWrapper, EnterHook
<1>5. ASSUME NEW c \in NativeCalls,
             \/ WrapperStarts(c) \/ HookStarts(c) \/ HandlerReturns(c) \/ Settle(c) \/ Cancel(c)
      PROVE  counts' = counts
    <2>1. CASE WrapperStarts(c) \/ HookStarts(c) \/ HandlerReturns(c)
        BY <2>1 DEF WrapperStarts, HookStarts, StartIsWritten, HandlerReturns
    <2>2. CASE Settle(c) \/ Cancel(c)
        BY <2>2 DEF Settle, Cancel, Publish, observerVars
    <2> QED
        BY <1>5, <2>1, <2>2
<1>6. ASSUME NEW i \in InnerCalls, EnterInner(i) \/ InnerReturns(i)
      PROVE  \/ counts' = counts
             \/ counts' = [counts EXCEPT !["code_start"] = counts["code_start"] + 1]
             \/ counts' = [counts EXCEPT !["code_terminal"] = counts["code_terminal"] + 1]
    BY <1>6, Zenon DEF EnterInner, InnerReturns
<1>7. {"code_start", "code_terminal", "native_start", "native_terminal"} \subseteq ToolKinds
    BY Kinds
<1> QED
    BY <1>1, <1>2, <1>3, <1>4, <1>5, <1>6, <1>7, QuietSteps DEF Next, Plugin, NativeStep

LEMMA CountsGrow ==
    ASSUME Types, [Next]_vars
    PROVE  \A k \in ToolKinds :
               counts[k] \in Nat /\ counts'[k] \in Nat /\ counts[k] <= counts'[k]
<1>1. counts \in [ToolKinds -> Nat]
    BY DEF Types, PluginTypes
<1> QED
    BY <1>1, CountMoves

LEMMA BoundHolds == Types /\ BuiltInv /\ CountInv /\ BoundInv /\ [Next]_vars => BoundInv'
<1> SUFFICES ASSUME Types, BuiltInv, CountInv, BoundInv, [Next]_vars
             PROVE  BoundInv'
    OBVIOUS
<1>1. faults' \in Nat
    BY FaultlessSteps DEF BoundInv
<1>2. EndsLagBehind'
    <2> SUFFICES ASSUME NEW end \in Held', end.kind = "capture_end", NEW k \in ToolKinds
                 PROVE  end.totals[k] <= counts'[k]
        BY DEF EndsLagBehind
    <2>1. end \in Held \/ Fresh(end)
        BY LinesHold DEF CountInv
    <2>2. CASE end \in Held
        <3>1. end \in Lines
            BY <2>2, HeldAreLines
        <3>2. end.totals[k] \in Nat
            BY <3>1, LineFacts DEF CaptureEnds
        <3> QED
            BY <2>2, <3>2, CountsGrow DEF BoundInv, EndsLagBehind
    <2>3. CASE Fresh(end)
        <3>1. end.totals = counts
            BY <2>3 DEF Fresh
        <3> QED
            BY <3>1, CountsGrow
    <2> QED
        BY <2>1, <2>2, <2>3
<1>3. DrainInv'
    <2>1. CASE UNCHANGED vars
        BY <2>1 DEF vars, runnerVars, streamVars, BoundInv, DrainInv
    <2>2. CASE Alive /\ evidence' = evidence
        <3>1. evidence = {}
            BY <2>2 DEF BuiltInv
        <3> QED
            BY <2>2, <3>1 DEF DrainInv
    <2>3. CASE evidence' = {}
        BY <2>3 DEF DrainInv
    <2>4. CASE Finish
        <3>1. PICK final \in IF accepted /\ wire = <<>> THEN {issue}
                             ELSE IF accepted THEN {"capture_io_error"}
                             ELSE {issue, "capture_io_error"} : issue' = final
            BY <2>4, Zenon DEF Finish
        <3>2. accepted /\ wire # <<>> => issue' # NoIssue
            BY <3>1 DEF NoIssue
        <3>3. accepted' = accepted /\ wire' = wire
            BY <2>4 DEF Finish, streamVars
        <3> QED
            BY <3>2, <3>3 DEF DrainInv
    <2> QED
        BY <2>1, <2>2, <2>3, <2>4, StepsOfTheLiving
<1> QED
    BY <1>1, <1>2, <1>3 DEF BoundInv

(* A run that is calm was calm all the time.                                *)
LEMMA CalmBefore ==
    ASSUME Types, TeardownInv, CountInv, BoundInv, [Next]_vars, Calm'
    PROVE  /\ Calm /\ CleanStep /\ Held \subseteq Held' /\ faults' = faults
           /\ observer = "ended" /\ (\E end \in Held : end.kind = "capture_end") => counts' = counts
<1>1. faults = 0 /\ faults' = 0 /\ CleanStep
    BY FaultlessSteps DEF BoundInv, Calm
<1>2. issue = NoIssue
    <2>1. issue' = NoIssue
        BY DEF Calm
    <2>2. CASE Receive
        BY <2>1, <2>2, ReceiveFacts
    <2>3. CASE Finish
        <3>1. PICK final \in IF accepted /\ wire = <<>> THEN {issue}
                             ELSE IF accepted THEN {"capture_io_error"}
                             ELSE {issue, "capture_io_error"} : issue' = final
            BY <2>3, Zenon DEF Finish
        <3> QED
            BY <2>1, <3>1 DEF NoIssue
    <2>4. CASE ~(Receive \/ Finish)
        <3>1. \A c \in NativeCalls : EnterWrapper(c) \/ EnterHook(c) \/ HandlerReturns(c) => issue' = issue
            BY DEF EnterWrapper, EnterHook, HandlerReturns, runnerVars
        <3>2. \A c \in NativeCalls : CleanStart(c) \/ CleanSettle(c) => issue' = issue
            BY DEF CleanStart, StartsCleanly, CleanSettle, Publish, runnerVars
        <3>3. \A i \in InnerCalls : EnterInner(i) \/ InnerReturns(i) => issue' = issue
            BY DEF EnterInner, InnerReturns, runnerVars
        <3>4. Setup \/ Dispose \/ Abort \/ WriteCaptureEnd \/ HandleEvent => issue' = issue
            BY DEF Setup, Dispose, Abort, WriteCaptureEnd, HandleEvent, runnerVars
        <3>5. ExitCleanly \/ Accept \/ UNCHANGED vars => issue' = issue
            BY DEF ExitCleanly, Accept, vars, runnerVars
        <3> QED
            BY <1>1, <2>1, <2>4, <3>1, <3>2, <3>3, <3>4, <3>5 DEF CleanStep, Runner
    <2> QED
        BY <2>2, <2>3, <2>4
<1>3. ~Ambiguous
    <2>1. ~Ambiguous' /\ Tool' = Tool
        BY Moves DEF Calm, Tool
    <2>2. \A c \in NativeCalls : Dispatched(c) => Dispatched(c)'
        BY Progress, CallFacts DEF Dispatched, Types
    <2> QED
        BY <2>1, <2>2 DEF Ambiguous
<1>4. Held \subseteq Held'
    BY <1>1, LinesStay DEF Calm
<1>5. ASSUME NEW end \in Held, end.kind = "capture_end"
      PROVE  /\ end.totals = counts /\ counts' = counts
             /\ \A k \in Keys : active[k] = None
    <2>1. observer = "ended"
        BY <1>5 DEF CountInv, Tells
    <2>2. end.totals = counts' /\ \A k \in Keys : active'[k] = None
        BY <1>4, <1>5 DEF Calm, Settled
    <2>3. ~subscribed
        BY <2>1 DEF TeardownInv
    <2>4. active' = active
        BY <2>1, <2>3, LateMoves DEF EnterWrapper, EnterHook, HandleEvent
    <2>5. counts' = counts
        <3>1. ASSUME NEW k \in ToolKinds, counts' = [counts EXCEPT ![k] = counts[k] + 1]
              PROVE  FALSE
            <4>1. counts \in [ToolKinds -> Nat]
                BY DEF Types, PluginTypes
            <4>2. counts'[k] = counts[k] + 1 /\ counts[k] \in Nat
                BY <3>1, <4>1
            <4>3. end.totals[k] <= counts[k]
                BY <1>5 DEF BoundInv, EndsLagBehind
            <4>4. end.totals[k] = counts'[k]
                BY <2>2
            <4> QED
                BY <4>2, <4>3, <4>4
        <3> QED
            BY <3>1, CountMoves
    <2> QED
        BY <2>2, <2>4, <2>5
<1>6. Settled
    BY <1>5 DEF Settled
<1> QED
    BY <1>1, <1>2, <1>3, <1>4, <1>5, <1>6 DEF Calm

LEMMA CalmFacts ==
    ASSUME Types, CountInv, Calm, CalmBody
    PROVE  /\ \A c \in NativeCalls : Dispatched(c) => Tool[c] \in {"plain", "synthetic"}
           /\ \A c, d \in NativeCalls : Dispatched(c) /\ Dispatched(d) /\ Key[c] = Key[d] => c = d
           /\ \A k \in Keys : active[k] # None =>
                  \E c \in NativeCalls : Key[c] = k /\ Dispatched(c) /\ active[k] = IdOf(c)
           /\ observer = "ended" =>
                  /\ \A c \in NativeCalls : Dispatched(c) => phase[c] \in Outcomes /\ published[c] # "none"
                  /\ \A k \in Keys : active[k] = None
<1>1. \A c \in NativeCalls : Dispatched(c) => Tool[c] \in {"plain", "synthetic"}
    BY CallFacts DEF Types, Calm, Ambiguous
<1>2. \A c, d \in NativeCalls : Dispatched(c) /\ Dispatched(d) /\ Key[c] = Key[d] => c = d
    BY DEF Calm, Ambiguous
<1>3. ASSUME NEW k \in Keys, active[k] # None
      PROVE  \E c \in NativeCalls : Key[c] = k /\ Dispatched(c) /\ active[k] = IdOf(c)
    <2> DEFINE id == active[k]
    <2>1. id \in Entered /\ Key[id[2]] = k
        BY <1>3 DEF CountInv
    <2>2. id \in NativeIds /\ id[2] \in NativeCalls /\ id[1] \in {"hook", "wrapper"} /\ id = <<id[1], id[2]>>
        BY <2>1 DEF Entered, NativeIds
    <2> HIDE DEF id
    <2>3. Dispatched(id[2])
        BY <2>1, <2>2 DEF Entered, Dispatched, Outcomes
    <2>4. id = IdOf(id[2])
        BY <1>1, <2>1, <2>2, <2>3 DEF Entered, IdOf
    <2> QED
        BY <2>1, <2>2, <2>3, <2>4 DEF id
<1>4. ASSUME observer = "ended"
      PROVE  /\ \A k \in Keys : active[k] = None
             /\ \A c \in NativeCalls : Dispatched(c) => phase[c] \in Outcomes /\ published[c] # "none"
    <2>1. \A k \in Keys : active[k] = None
        BY <1>4 DEF CalmBody, CalmEnd, Calm, Settled
    <2>2. ASSUME NEW c \in NativeCalls, Dispatched(c)
          PROVE  phase[c] \in Outcomes /\ published[c] # "none"
        <3>1. Key[c] \in Keys /\ published[c] \in {"none"} \cup Outcomes
            BY CallFacts DEF Types, CallTypes
        <3>2. published[c] # "none"
            BY <2>1, <2>2, <3>1 DEF CalmBody, CalmCalls, NativeCalm
        <3> QED
            BY <3>1, <3>2 DEF CalmBody, CalmCalls, NativeCalm
    <2> QED
        BY <2>1, <2>2
<1> QED
    BY <1>1, <1>2, <1>3, <1>4

(* No call is ambiguous after the step either.                              *)
LEMMA CalmAfter ==
    ASSUME setting' = setting, Calm'
    PROVE  /\ Tool' = Tool
           /\ \A c \in NativeCalls : phase'[c] # "idle" => Tool[c] # "registered"
           /\ \A c, d \in NativeCalls :
                  phase'[c] # "idle" /\ phase'[d] # "idle" /\ Key[c] = Key[d] => c = d
<1>1. Tool' = Tool
    BY DEF Tool
<1> QED
    BY <1>1 DEF Calm, Ambiguous, Dispatched

(***************************************************************************)
(* The parts of the invariant that a step leaves alone.                    *)
(***************************************************************************)

LEMMA ProperStays ==
    ASSUME setting' = setting
    PROVE  /\ \A line : Proper(line)' <=> Proper(line)
           /\ \A c \in NativeCalls : IdOf(c)' = IdOf(c)
BY DEF Proper, IdOf, ToolName, Tool

LEMMA SameLines ==
    ASSUME CalmLines, Held' = Held, UNCHANGED <<setting, sequence>>,
           \A k \in ToolKinds \ {"native_start"} : counts'[k] = counts[k]
    PROVE  /\ CalmLines'
           /\ \A kind \in ToolKinds, c \in NativeCalls : NativeHas(kind, c)' <=> NativeHas(kind, c)
           /\ \A kind \in ToolKinds, i \in InnerCalls : InnerHas(kind, i)' <=> InnerHas(kind, i)
<1>1. \A k : LinesOf(k)' = LinesOf(k)
    BY DEF LinesOf
<1>2. \A line : Follows(line)' <=> Follows(line)
    BY DEF Follows, Refers
<1>3. CalmLines'
    BY <1>1, <1>2, ProperStays DEF CalmLines
<1> QED
    BY <1>3, ProperStays DEF NativeHas, InnerHas, HasLine

LEMMA NewLine ==
    ASSUME Types, CalmLines, NEW line \in Lines, line.seq = sequence,
           Held' = Held \cup {line}, sequence' = sequence + 1, setting' = setting,
           Proper(line), Follows(line),
           line.kind \in ToolKinds => ~HasLine(line.kind, line.id),
           \A k \in ToolKinds \ {"native_start"} :
               counts'[k] = IF k = line.kind THEN counts[k] + 1 ELSE counts[k]
    PROVE  /\ CalmLines'
           /\ \A kind \in ToolKinds, c \in NativeCalls :
                  NativeHas(kind, c)' <=> NativeHas(kind, c) \/ (line.kind = kind /\ line.id = IdOf(c))
           /\ \A kind \in ToolKinds, i \in InnerCalls :
                  InnerHas(kind, i)' <=> InnerHas(kind, i) \/ (line.kind = kind /\ line.id = <<"code", i>>)
<1>1. sequence \in Nat /\ Held \subseteq Lines
    BY HeldAreLines DEF Types, PluginTypes
<1>2. ASSUME NEW x \in Held'
      PROVE  Proper(x)' /\ Follows(x)' /\ x.seq < sequence'
    <2>1. Proper(x) /\ Follows(x)
        BY <1>2 DEF CalmLines
    <2>2. Follows(x)'
        BY <2>1 DEF Follows, Refers
    <2>3. x.seq \in Nat
        BY <1>1, <1>2, LineFacts DEF IsLine
    <2>4. x.seq < sequence \/ x.seq = sequence
        BY <1>2 DEF CalmLines
    <2>5. x.seq < sequence'
        BY <1>1, <2>3, <2>4
    <2> QED
        BY <2>1, <2>2, <2>5, ProperStays
<1>3. ASSUME NEW x \in Held', NEW y \in Held', x.kind = y.kind, x.kind \in ToolKinds, x.id = y.id
      PROVE  x = y
    BY <1>3 DEF CalmLines, HasLine
<1>4. line \notin Held
    BY <1>1 DEF CalmLines
<1>5. \A k : LinesOf(k)' = IF k = line.kind THEN LinesOf(k) \cup {line} ELSE LinesOf(k)
    BY DEF LinesOf
<1>6. ASSUME NEW k \in ToolKinds
      PROVE  /\ IsFiniteSet(LinesOf(k)')
             /\ k # "native_start" => counts'[k] = Cardinality(LinesOf(k)')
    <2> DEFINE old == LinesOf(k)
    <2>1. IsFiniteSet(old) /\ (k # "native_start" => counts[k] = Cardinality(old)) /\ line \notin old
        BY <1>4 DEF CalmLines, LinesOf
    <2>2. CASE k = line.kind
        <3> HIDE DEF old
        <3>1. IsFiniteSet(old \cup {line}) /\ Cardinality(old \cup {line}) = Cardinality(old) + 1
            BY <2>1, FS_AddElement
        <3>2. LinesOf(k)' = old \cup {line}
            BY <1>5, <2>2 DEF old
        <3>3. k # "native_start" => counts'[k] = counts[k] + 1
            BY <2>2
        <3> QED
            BY <2>1, <3>1, <3>2, <3>3
    <2>3. CASE k # line.kind
        <3>1. LinesOf(k)' = LinesOf(k)
            BY <1>5, <2>3
        <3>2. k # "native_start" => counts'[k] = counts[k]
            BY <2>3
        <3> QED
            BY <2>1, <3>1, <3>2
    <2> QED
        BY <2>2, <2>3
<1>7. CalmLines'
    BY <1>2, <1>3, <1>6 DEF CalmLines
<1>8. \A kind, id : HasLine(kind, id)' <=> HasLine(kind, id) \/ (line.kind = kind /\ line.id = id)
    BY DEF HasLine
<1> QED
    BY <1>7, <1>8, ProperStays DEF NativeHas, InnerHas, HasLine

(* A call that takes no part in the step.                                   *)
LEMMA BystanderCall ==
    ASSUME Types, NEW d \in NativeCalls, NativeCalm(d), setting' = setting,
           phase'[d] = phase[d], published'[d] = published[d],
           phase[d] = "idle" \/ (active'[Key[d]] = active[Key[d]] /\ outer'[Key[d]] = outer[Key[d]]),
           NativeHas("native_start", d)' <=> NativeHas("native_start", d),
           NativeHas("native_terminal", d)' <=> NativeHas("native_terminal", d)
    PROVE  NativeCalm(d)'
<1>1. Tool' = Tool
    BY DEF Tool
<1> QED
    BY <1>1 DEF NativeCalm, Dispatched, Outcomes

LEMMA SameEvents ==
    ASSUME CalmEvents, UNCHANGED <<events, published>>,
           \A c \in NativeCalls : Dispatched(c) => phase'[c] # "idle",
           \A i \in DOMAIN events : active[events[i].key] # None => active'[events[i].key] # None
    PROVE  CalmEvents'
BY DEF CalmEvents, Dispatched

LEMMA SameEnd ==
    ASSUME Types, CountInv, CalmEnd, observer # "ended", UNCHANGED <<observer, socket, process, troubled>>,
           \/ Held' = Held /\ sequence' = sequence
           \/ /\ \E line : Held' = Held \cup {line} /\ line.kind # "capture_end"
              /\ sequence' = sequence + 1 /\ sequence > 0,
           \/ /\ \A c \in NativeCalls : phase'[c] # "idle" <=> phase[c] # "idle"
              /\ counts'["native_start"] = counts["native_start"]
           \/ /\ sequence > 0
              /\ \E c \in NativeCalls :
                     /\ phase[c] = "idle" /\ phase'[c] # "idle"
                     /\ \A d \in NativeCalls : d # c => (phase'[d] # "idle" <=> phase[d] # "idle")
              /\ counts'["native_start"] = counts["native_start"] + 1
    PROVE  CalmEnd'
<1>1. sequence \in Nat
    BY DEF Types, PluginTypes
<1>2. \A end \in Held : end.kind # "capture_end"
    BY DEF CountInv, Tells
<1>3. \A end \in Held' : end.kind # "capture_end"
    BY <1>2
<1>4. Alive' <=> Alive
    BY DEF Alive
<1>5. (sequence' = 0 <=> sequence = 0) /\ (sequence > 0 => sequence' > 0)
    BY <1>1
<1>6. /\ IsFiniteSet(DispatchedCalls') /\ counts'["native_start"] = Cardinality(DispatchedCalls')
      /\ \A c \in NativeCalls : phase'[c] # "idle" => sequence' > 0
    <2>1. CASE /\ \A c \in NativeCalls : phase'[c] # "idle" <=> phase[c] # "idle"
               /\ counts'["native_start"] = counts["native_start"]
        <3>1. DispatchedCalls' = DispatchedCalls
            BY <2>1 DEF DispatchedCalls, Dispatched
        <3> QED
            BY <1>5, <2>1, <3>1 DEF CalmEnd, Dispatched
    <2>2. CASE /\ sequence > 0
               /\ \E c \in NativeCalls :
                      /\ phase[c] = "idle" /\ phase'[c] # "idle"
                      /\ \A d \in NativeCalls : d # c => (phase'[d] # "idle" <=> phase[d] # "idle")
               /\ counts'["native_start"] = counts["native_start"] + 1
        <3>1. PICK c \in NativeCalls :
                  /\ phase[c] = "idle" /\ phase'[c] # "idle"
                  /\ \A d \in NativeCalls : d # c => (phase'[d] # "idle" <=> phase[d] # "idle")
            BY <2>2
        <3>2. c \notin DispatchedCalls /\ DispatchedCalls' = DispatchedCalls \cup {c}
            BY <3>1 DEF DispatchedCalls, Dispatched
        <3>3. IsFiniteSet(DispatchedCalls) /\ counts["native_start"] = Cardinality(DispatchedCalls)
            BY DEF CalmEnd
        <3>4. /\ IsFiniteSet(DispatchedCalls \cup {c})
              /\ Cardinality(DispatchedCalls \cup {c}) = Cardinality(DispatchedCalls) + 1
            BY <3>2, <3>3, FS_AddElement
        <3> QED
            BY <1>5, <2>2, <3>2, <3>3, <3>4
    <2> QED
        BY <2>1, <2>2
<1> QED
    BY <1>3, <1>4, <1>5, <1>6 DEF CalmEnd, Dispatched

(***************************************************************************)
(* The steps of a calm run.                                                *)
(***************************************************************************)

LEMMA CalmParts ==
    ASSUME Types, CalmBody
    PROVE  /\ CalmLines /\ CalmCalls /\ CalmEvents /\ CalmEnd
           /\ \A c \in NativeCalls : NativeCalm(c) /\ published[c] \in {"none"} \cup Outcomes
           /\ \A i \in InnerCalls : InnerCalm(i)
           /\ observer # "ended" => ~troubled /\ socket = "up" /\ Alive
           /\ \A c \in NativeCalls : Dispatched(c) => sequence > 0
           /\ sequence \in Nat /\ counts \in [ToolKinds -> Nat]
BY DEF CalmBody, CalmCalls, CalmEnd, Types, CallTypes, PluginTypes

(* A native call is dispatched: its start is counted and active at once.    *)
LEMMA CallEntered ==
    ASSUME Types, CountInv, Calm, CalmBody, Calm', NEW c \in NativeCalls,
           observer = "observing", phase[c] = "idle", Tool[c] # "registered",
           NEW next \in {"wrapping", "hooking"}, phase' = [phase EXCEPT ![c] = next],
           counts' = [counts EXCEPT !["native_start"] = counts["native_start"] + 1],
           active' = [active EXCEPT ![Key[c]] = IdOf(c)],
           Tool[c] = "synthetic" => outer'[Key[c]] = <<"hook", c>>,
           \A k \in Keys : k # Key[c] => outer'[k] = outer[k],
           UNCHANGED <<setting, published, events, observer, troubled, sequence, streamVars, process,
                       runnerVars>>
    PROVE  CalmBody'
<1>1. Held' = Held
    BY HeldStays DEF streamVars, runnerVars
<1>2. /\ c \in Calls /\ Key[c] \in Keys /\ c \notin InnerCalls /\ IdOf(c) \in NativeIds /\ IdOf(c) # None
      /\ \A d \in NativeCalls : d \in Calls /\ Key[d] \in Keys
      /\ \A i \in InnerCalls : i \in Calls
    BY CallFacts DEF Types, IdOf
<1>3. /\ phase'[c] = next /\ active'[Key[c]] = IdOf(c)
      /\ \A x \in Calls : x # c => phase'[x] = phase[x]
      /\ \A k \in Keys : k # Key[c] => active'[k] = active[k]
      /\ counts'["native_start"] = counts["native_start"] + 1
      /\ \A k \in ToolKinds \ {"native_start"} : counts'[k] = counts[k]
    BY <1>2, Kinds DEF Types, CallTypes, PluginTypes
<1>4. CalmLines' /\ /\ \A kind \in ToolKinds, d \in NativeCalls : NativeHas(kind, d)' <=> NativeHas(kind, d)
                    /\ \A kind \in ToolKinds, i \in InnerCalls : InnerHas(kind, i)' <=> InnerHas(kind, i)
    BY <1>1, <1>3, CalmParts, SameLines
<1>5. ASSUME NEW d \in NativeCalls
      PROVE  NativeCalm(d)'
    <2>1. NativeCalm(d) /\ published[d] \in {"none"} \cup Outcomes
        BY CalmParts
    <2>2. /\ NativeHas("native_start", d)' <=> NativeHas("native_start", d)
          /\ NativeHas("native_terminal", d)' <=> NativeHas("native_terminal", d)
        BY <1>4, Kinds
    <2>3. CASE d = c
        <3>1. ~NativeHas("native_start", c) /\ ~NativeHas("native_terminal", c) /\ published[c] = "none"
            BY <2>1, <2>3 DEF NativeCalm, Dispatched, Outcomes
        <3>2. published'[c] = "none" /\ Tool' = Tool
            BY <3>1 DEF Tool
        <3> QED
            BY <1>2, <1>3, <2>2, <2>3, <3>1, <3>2 DEF NativeCalm, Dispatched, Outcomes
    <2>4. CASE d # c
        <3>1. phase'[d] = phase[d]
            BY <1>2, <1>3, <2>4
        <3>2. phase[d] = "idle" \/ Key[d] # Key[c]
            BY <1>3, <2>4, <3>1, CalmAfter
        <3>3. phase[d] = "idle" \/ (active'[Key[d]] = active[Key[d]] /\ outer'[Key[d]] = outer[Key[d]])
            BY <1>2, <1>3, <3>2
        <3> QED
            BY <2>1, <2>2, <3>1, <3>3, BystanderCall
    <2> QED
        BY <2>3, <2>4
<1>6. ASSUME NEW i \in InnerCalls
      PROVE  InnerCalm(i)'
    <2>1. phase'[i] = phase[i] /\ InnerCalm(i)
        BY <1>2, <1>3, CalmParts
    <2> QED
        BY <1>4, <2>1, Kinds DEF InnerCalm
<1>7. CalmEvents'
    <2>1. \A d \in NativeCalls : Dispatched(d) => phase'[d] # "idle"
        BY <1>2, <1>3 DEF Dispatched
    <2>2. \A i \in DOMAIN events : events[i].key \in Keys
        BY EventsAreEvents DEF Events
    <2> QED
        BY <1>2, <1>3, <2>1, <2>2, CalmParts, SameEvents
<1>8. CalmEnd'
    <2>1. sequence > 0
        BY CalmParts DEF CalmEnd
    <2>2. /\ phase[c] = "idle" /\ phase'[c] # "idle"
          /\ \A d \in NativeCalls : d # c => (phase'[d] # "idle" <=> phase[d] # "idle")
        BY <1>2, <1>3
    <2>3. observer # "ended" /\ UNCHANGED <<observer, socket, process, troubled>> /\ sequence' = sequence
        BY DEF streamVars
    <2> QED
        BY <1>1, <1>3, <2>1, <2>2, <2>3, CalmParts, SameEnd
<1> QED
    BY <1>4, <1>5, <1>6, <1>7, <1>8 DEF CalmBody, CalmCalls

(* A call that is entered has an identity that nobody else has.             *)
LEMMA EntersAlone ==
    ASSUME Types, CountInv, Calm, CalmBody, Calm', setting' = setting, NEW c \in NativeCalls,
           phase[c] \in {"idle", "hooked"}, phase'[c] # "idle",
           \A d \in NativeCalls : d # c => phase'[d] = phase[d]
    PROVE  Tool[c] # "registered" /\ phase[c] = "idle" /\ active[Key[c]] = None
<1>1. Tool[c] # "registered"
    BY CalmAfter
<1>2. phase[c] = "idle"
    BY <1>1 DEF Types, CallTypes
<1>3. ASSUME active[Key[c]] # None
      PROVE  FALSE
    <2>1. Key[c] \in Keys
        BY CallFacts DEF Types
    <2>2. PICK d \in NativeCalls : Key[d] = Key[c] /\ Dispatched(d)
        BY <1>3, <2>1, CalmFacts
    <2>3. d # c
        BY <1>2, <2>2 DEF Dispatched
    <2> QED
        BY <2>2, <2>3, CalmAfter DEF Dispatched
<1> QED
    BY <1>1, <1>2, <1>3

LEMMA CalmEnterWrapper ==
    ASSUME Types, CountInv, Calm, CalmBody, Calm', NEW c \in NativeCalls, EnterWrapper(c)
    PROVE  CalmBody'
<1>1. /\ observer = "observing" /\ phase' = [phase EXCEPT ![c] = "wrapping"] /\ setting' = setting
      /\ phase[c] = [plain |-> "idle", registered |-> "hooked", synthetic |-> "never"][Tool[c]]
    BY DEF EnterWrapper
<1>2. Tool[c] \in {"plain", "synthetic", "registered"} /\ c \in Calls /\ Key[c] \in Keys
    BY CallFacts DEF Types
<1>3. phase[c] \in {"idle", "hooked"} /\ (phase[c] = "idle" => Tool[c] = "plain")
    <2>1. phase[c] \in NativePhases
        BY DEF Types, CallTypes
    <2> QED
        BY <1>1, <1>2, <2>1 DEF NativePhases, Outcomes
<1>4. /\ phase'[c] = "wrapping" /\ \A d \in NativeCalls : d # c => phase'[d] = phase[d]
    BY <1>1, <1>2 DEF Types, CallTypes, Calls
<1>5. Tool[c] = "plain" /\ phase[c] = "idle" /\ active[Key[c]] = None
    BY <1>1, <1>3, <1>4, EntersAlone
<1>6. IdOf(c) = <<"wrapper", c>>
    BY <1>5 DEF IdOf
<1>7. troubled' = troubled /\ outer' = outer
    <2>1. troubled \in BOOLEAN /\ troubled' = (troubled \/ active[Key[c]] # None)
        BY DEF EnterWrapper, Types, PluginTypes
    <2> QED
        BY <1>5, <2>1 DEF EnterWrapper
<1>8. /\ counts' = [counts EXCEPT !["native_start"] = counts["native_start"] + 1]
      /\ active' = [active EXCEPT ![Key[c]] = IdOf(c)]
      /\ UNCHANGED <<setting, published, events, observer, sequence, streamVars, process, runnerVars>>
    BY <1>6 DEF EnterWrapper
<1> QED
    BY <1>1, <1>5, <1>7, <1>8, CallEntered

LEMMA CalmEnterHook ==
    ASSUME Types, CountInv, Calm, CalmBody, Calm', NEW c \in NativeCalls, EnterHook(c)
    PROVE  CalmBody'
<1>1. /\ observer = "observing" /\ setting' = setting /\ Tool[c] # "plain" /\ phase[c] = "idle"
      /\ phase' = [phase EXCEPT ![c] = "hooking"] \/ phase' = [phase EXCEPT ![c] = AfterHook(c)]
    BY DEF EnterHook
<1>2. Tool[c] \in {"plain", "synthetic", "registered"} /\ c \in Calls /\ Key[c] \in Keys
    BY CallFacts DEF Types
<1>3. phase'[c] # "idle" /\ \A d \in NativeCalls : d # c => phase'[d] = phase[d]
    BY <1>1, <1>2 DEF Types, CallTypes, Calls, AfterHook
<1>4. Tool[c] = "synthetic" /\ active[Key[c]] = None
    BY <1>1, <1>2, <1>3, EntersAlone
<1>5. IdOf(c) = <<"hook", c>>
    BY <1>4 DEF IdOf
<1>6. /\ counts' = [counts EXCEPT !["native_start"] = counts["native_start"] + 1]
      /\ active' = [active EXCEPT ![Key[c]] = IdOf(c)]
      /\ outer' = [outer EXCEPT ![Key[c]] = <<"hook", c>>]
      /\ phase' = [phase EXCEPT ![c] = "hooking"]
      /\ UNCHANGED <<setting, published, events, observer, troubled, sequence, streamVars, process,
                     runnerVars>>
    BY <1>4, <1>5 DEF EnterHook
<1>7. outer'[Key[c]] = <<"hook", c>> /\ \A k \in Keys : k # Key[c] => outer'[k] = outer[k]
    BY <1>2, <1>6 DEF Types, PluginTypes
<1> QED
    BY <1>1, <1>4, <1>6, <1>7, CallEntered

(* What every other call keeps when one native call moves on.               *)
LEMMA OthersStay ==
    ASSUME Types, Calm, Calm', CalmBody, NEW c \in NativeCalls, phase'[c] # "idle",
           setting' = setting, \A x \in Calls : x # c => phase'[x] = phase[x],
           \A d \in NativeCalls : d # c =>
               /\ published'[d] = published[d]
               /\ Key[d] # Key[c] => active'[Key[d]] = active[Key[d]] /\ outer'[Key[d]] = outer[Key[d]]
               /\ NativeHas("native_start", d)' <=> NativeHas("native_start", d)
               /\ NativeHas("native_terminal", d)' <=> NativeHas("native_terminal", d),
           \A kind \in {"code_start", "code_terminal"}, i \in InnerCalls :
               InnerHas(kind, i)' <=> InnerHas(kind, i)
    PROVE  /\ \A d \in NativeCalls : d # c => NativeCalm(d)'
           /\ \A i \in InnerCalls : InnerCalm(i)'
<1>1. /\ \A d \in NativeCalls : d \in Calls
      /\ \A i \in InnerCalls : i \in Calls /\ i # c
    BY CallFacts DEF Types
<1>2. ASSUME NEW d \in NativeCalls, d # c
      PROVE  NativeCalm(d)'
    <2>1. phase'[d] = phase[d]
        BY <1>1, <1>2
    <2>2. phase[d] = "idle" \/ Key[d] # Key[c]
        BY <1>2, <2>1, CalmAfter
    <2> QED
        BY <1>2, <2>1, <2>2, CalmParts, BystanderCall
<1>3. ASSUME NEW i \in InnerCalls
      PROVE  InnerCalm(i)'
    <2>1. phase'[i] = phase[i] /\ InnerCalm(i)
        BY <1>1, CalmParts
    <2> QED
        BY <2>1 DEF InnerCalm
<1> QED
    BY <1>2, <1>3

LEMMA OwnIds ==
    ASSUME Types
    PROVE  /\ \A c, d \in NativeCalls : IdOf(c) = IdOf(d) => c = d
           /\ \A c \in NativeCalls : IdOf(c)[2] = c /\ IdOf(c) \in NativeIds /\ IdOf(c) # None
           /\ \A i, j \in InnerCalls : <<"code", i>> = <<"code", j>> => i = j
BY CallFacts DEF Types, IdOf

LEMMA CalmStart ==
    ASSUME Types, CountInv, Calm, CalmBody, Calm', NEW c \in NativeCalls, CleanStart(c)
    PROVE  CalmBody'
<1> DEFINE line == NativeStart(IdOf(c), IF Tool[c] = "plain" THEN "decoded-tool-execute"
                                        ELSE "tool-execute-before", "v")
<1>1. c \in Calls /\ Key[c] \in Keys /\ Tool[c] \in {"plain", "synthetic", "registered"}
    BY CallFacts DEF Types
<1>2. phase[c] \in {"wrapping", "hooking"}
    BY DEF CleanStart
<1>3. Dispatched(c) /\ Tool[c] # "registered"
    BY <1>2, CalmFacts DEF Dispatched
<1>4. IF phase[c] = "wrapping" THEN Tool[c] = "plain" ELSE Tool[c] = "synthetic"
    BY <1>1, <1>2, <1>3 DEF Types, CallTypes
<1>5. /\ phase' = [phase EXCEPT ![c] = "running"] /\ Write(line, FALSE)
      /\ UNCHANGED <<setting, published, events, observer, subscribed, active, outer, counts, socket,
                     process, runnerVars>>
    <2>1. CASE phase[c] = "wrapping"
        <3>1. IdOf(c) = <<"wrapper", c>> /\ line = NativeStart(<<"wrapper", c>>, "decoded-tool-execute", "v")
            BY <1>4, <2>1 DEF IdOf
        <3> HIDE DEF line
        <3> QED
            BY <2>1, <3>1 DEF CleanStart, StartsCleanly
    <2>2. CASE phase[c] = "hooking"
        <3>1. IdOf(c) = <<"hook", c>> /\ line = NativeStart(<<"hook", c>>, "tool-execute-before", "v")
            BY <1>4, <2>2 DEF IdOf
        <3>2. AfterHook(c) = "running"
            BY <1>4, <2>2 DEF AfterHook
        <3> HIDE DEF line
        <3> QED
            BY <2>2, <3>1, <3>2 DEF CleanStart, StartsCleanly
    <2> QED
        BY <1>2, <2>1, <2>2
<1>6. observer # "ended" /\ socket = "up" /\ sequence > 0 /\ sequence \in Nat
    BY <1>2, <1>3, CalmFacts, CalmParts DEF Outcomes
<1>7. /\ line \in Lines /\ line # CutLine /\ line.kind = "native_start" /\ line.id = IdOf(c)
      /\ line.seq = sequence /\ line.tool = ToolName(c) /\ line.who = Key[c] /\ line.value = "v"
      /\ line.boundary = IF Tool[c] = "plain" THEN "decoded-tool-execute" ELSE "tool-execute-before"
    <2>1. IdOf(c) = <<"wrapper", c>> \/ IdOf(c) = <<"hook", c>>
        BY DEF IdOf
    <2>2. line \in Lines
        BY <2>1, PluginLines, PluginLinesAreLines DEF LineBoundaries
    <2>3. IdOf(c)[2] = c
        BY <2>1
    <2> QED
        BY <2>2, <2>3 DEF NativeStart, ToolLine, CutLine
<1> HIDE DEF line
<1>8. /\ Held' = Held \cup {line} /\ sequence' = sequence + 1 /\ troubled' = troubled
    BY <1>5, <1>6, <1>7, Appends DEF runnerVars
<1>9. ~NativeHas("native_start", c) /\ ~NativeHas("native_terminal", c) /\ published[c] = "none"
      /\ active[Key[c]] # None
    <2>1. NativeCalm(c) /\ published[c] \in {"none"} \cup Outcomes
        BY CalmParts
    <2> QED
        BY <1>2, <1>3, <2>1 DEF NativeCalm, Outcomes
<1>10. Proper(line) /\ Follows(line)
    BY <1>6, <1>7 DEF Proper, Follows
<1>11. /\ CalmLines'
       /\ \A kind \in ToolKinds, d \in NativeCalls :
              NativeHas(kind, d)' <=> NativeHas(kind, d) \/ (line.kind = kind /\ line.id = IdOf(d))
       /\ \A kind \in ToolKinds, i \in InnerCalls :
              InnerHas(kind, i)' <=> InnerHas(kind, i) \/ (line.kind = kind /\ line.id = <<"code", i>>)
    BY <1>5, <1>7, <1>8, <1>9, <1>10, CalmParts, NewLine DEF NativeHas
<1>12. phase'[c] = "running" /\ \A x \in Calls : x # c => phase'[x] = phase[x]
    BY <1>1, <1>5 DEF Types, CallTypes
<1>13. /\ \A d \in NativeCalls : d # c => NativeCalm(d)'
       /\ \A i \in InnerCalls : InnerCalm(i)'
    BY <1>5, <1>7, <1>11, <1>12, OthersStay, OwnIds, Kinds
<1>14. NativeCalm(c)'
    <2>1. NativeHas("native_start", c)' /\ ~NativeHas("native_terminal", c)'
        BY <1>7, <1>9, <1>11, Kinds
    <2>2. NativeCalm(c) /\ Tool' = Tool
        BY <1>5, CalmParts DEF Tool
    <2>3. Tool[c] = "synthetic" => outer[Key[c]] = <<"hook", c>>
        BY <1>2, <1>4, <2>2 DEF NativeCalm
    <2> QED
        BY <1>5, <1>9, <1>12, <2>1, <2>2, <2>3 DEF NativeCalm, Dispatched
<1>15. CalmEvents'
    BY <1>5, <1>12, CalmParts, CallFacts, SameEvents DEF Dispatched, Types
<1>16. CalmEnd'
    <2>1. \A d \in NativeCalls : phase'[d] # "idle" <=> phase[d] # "idle"
        BY <1>3, <1>12, CallFacts DEF Dispatched, Types
    <2> QED
        BY <1>5, <1>6, <1>7, <1>8, <2>1, CalmParts, SameEnd
<1> QED
    BY <1>11, <1>13, <1>14, <1>15, <1>16 DEF CalmBody, CalmCalls

LEMMA CalmReturn ==
    ASSUME Types, CountInv, Calm, CalmBody, Calm', NEW c \in NativeCalls, HandlerReturns(c)
    PROVE  CalmBody'
<1>1. c \in Calls /\ Key[c] \in Keys
    BY CallFacts DEF Types
<1>2. PICK outcome \in Outcomes :
          /\ phase' = [phase EXCEPT ![c] = outcome]
          /\ \/ outer' = [outer EXCEPT ![Key[c]] = None]
             \/ outer' = outer
    BY Zenon DEF HandlerReturns
<1>3. /\ phase[c] = "running"
      /\ UNCHANGED <<setting, published, events, observer, subscribed, active, counts, troubled,
                     sequence, socket, wire, process, received>>
    BY DEF HandlerReturns, streamVars, runnerVars
<1>4. /\ phase'[c] = outcome /\ \A x \in Calls : x # c => phase'[x] = phase[x]
      /\ \A k \in Keys : k # Key[c] => outer'[k] = outer[k]
    BY <1>1, <1>2 DEF Types, CallTypes, PluginTypes
<1>5. Dispatched(c) /\ observer # "ended" /\ outcome \notin {"idle", "hooking", "running"}
    BY <1>3, CalmFacts DEF Dispatched, Outcomes
<1>6. Held' = Held
    BY <1>3, HeldStays
<1>7. CalmLines' /\ /\ \A kind \in ToolKinds, d \in NativeCalls : NativeHas(kind, d)' <=> NativeHas(kind, d)
                    /\ \A kind \in ToolKinds, i \in InnerCalls : InnerHas(kind, i)' <=> InnerHas(kind, i)
    BY <1>3, <1>6, CalmParts, SameLines
<1>8. /\ \A d \in NativeCalls : d # c => NativeCalm(d)'
      /\ \A i \in InnerCalls : InnerCalm(i)'
    <2>1. \A d \in NativeCalls : Key[d] \in Keys
        BY CallFacts DEF Types
    <2> QED
        BY <1>3, <1>4, <1>5, <1>7, <2>1, OthersStay, Kinds
<1>9. NativeCalm(c)'
    <2>1. NativeCalm(c) /\ published[c] = "none"
        BY <1>3, CalmParts DEF NativeCalm, Outcomes
    <2>2. NativeHas("native_start", c)' /\ (NativeHas("native_terminal", c)' <=> active[Key[c]] = None)
        BY <1>3, <1>5, <1>7, <2>1, Kinds DEF NativeCalm
    <2> QED
        BY <1>3, <1>4, <1>5, <2>1, <2>2 DEF NativeCalm, Dispatched
<1>10. CalmEvents'
    <2>1. \A d \in NativeCalls : Dispatched(d) => phase'[d] # "idle"
        BY <1>4, <1>5, CallFacts DEF Dispatched, Types
    <2> QED
        BY <1>3, <2>1, CalmParts, SameEvents
<1>11. CalmEnd'
    <2>1. \A d \in NativeCalls : phase'[d] # "idle" <=> phase[d] # "idle"
        BY <1>4, <1>5, CallFacts DEF Dispatched, Types
    <2> QED
        BY <1>3, <1>5, <1>6, <2>1, CalmParts, SameEnd
<1> QED
    BY <1>7, <1>8, <1>9, <1>10, <1>11 DEF CalmBody, CalmCalls

LEMMA CalmSettle ==
    ASSUME Types, CountInv, Calm, CalmBody, Calm', NEW c \in NativeCalls, CleanSettle(c)
    PROVE  CalmBody'
<1> DEFINE event == [key |-> Key[c], outcome |-> phase[c], malformed |-> FALSE]
<1>1. c \in Calls /\ Key[c] \in Keys
    BY CallFacts DEF Types
<1>2. /\ phase[c] \in Outcomes /\ published[c] = "none"
      /\ published' = [published EXCEPT ![c] = phase[c]] /\ events' = Append(events, event)
      /\ UNCHANGED <<setting, phase, observer, subscribed, active, outer, counts, troubled,
                     sequence, socket, wire, process, received>>
    BY DEF CleanSettle, Publish, observerVars, streamVars, runnerVars
<1>3. event \in Events /\ event.key = Key[c] /\ ~event.malformed
    BY <1>1, <1>2 DEF Events
<1> HIDE DEF event
<1>4. /\ published'[c] = phase[c] /\ phase[c] # "none" /\ phase[c] # "idle"
      /\ \A d \in NativeCalls : d # c => published'[d] = published[d]
    BY <1>2 DEF Types, CallTypes, Outcomes
<1>5. Dispatched(c) /\ observer # "ended" /\ active[Key[c]] # None
    <2>1. Dispatched(c)
        BY <1>4 DEF Dispatched
    <2>2. active[Key[c]] # None
        BY <1>2, <2>1, CalmParts DEF NativeCalm
    <2> QED
        BY <1>2, <2>1, <2>2, CalmFacts
<1>6. Held' = Held
    BY <1>2, HeldStays
<1>7. CalmLines' /\ /\ \A kind \in ToolKinds, d \in NativeCalls : NativeHas(kind, d)' <=> NativeHas(kind, d)
                    /\ \A kind \in ToolKinds, i \in InnerCalls : InnerHas(kind, i)' <=> InnerHas(kind, i)
    BY <1>2, <1>6, CalmParts, SameLines
<1>8. /\ \A d \in NativeCalls : d # c => NativeCalm(d)'
      /\ \A i \in InnerCalls : InnerCalm(i)'
    BY <1>2, <1>4, <1>7, OthersStay, Kinds
<1>9. NativeCalm(c)'
    <2>1. NativeCalm(c) /\ Tool' = Tool
        BY <1>2, CalmParts DEF Tool
    <2>2. /\ NativeHas("native_start", c)' <=> NativeHas("native_start", c)
          /\ NativeHas("native_terminal", c)' <=> NativeHas("native_terminal", c)
        BY <1>7, Kinds
    <2> QED
        BY <1>2, <1>4, <2>1, <2>2 DEF NativeCalm, Dispatched
<1>10. CalmEvents'
    <2>1. /\ events \in Seq(Events) /\ Len(events) \in Nat /\ DOMAIN events = 1..Len(events)
          /\ DOMAIN events' = 1..(Len(events) + 1) /\ events'[Len(events) + 1] = event
          /\ \A i \in DOMAIN events : events'[i] = events[i]
        <3>1. events \in Seq(Events)
            BY DEF Types, CallTypes
        <3>2. /\ events' \in Seq(Events) /\ Len(events') = Len(events) + 1
              /\ \A i \in 1..Len(events) : events'[i] = events[i]
              /\ events'[Len(events) + 1] = event
            BY <1>2, <1>3, <3>1, AppendProperties
        <3> QED
            BY <3>1, <3>2, LenProperties
    <2>2. ASSUME NEW i \in DOMAIN events
          PROVE  /\ ~events[i].malformed /\ active[events[i].key] # None /\ events[i].key # Key[c]
                 /\ \E d \in NativeCalls : Key[d] = events[i].key /\ Dispatched(d) /\ published'[d] # "none"
        <3>1. PICK d \in NativeCalls : Key[d] = events[i].key /\ Dispatched(d) /\ published[d] # "none"
            BY CalmParts DEF CalmEvents
        <3>2. d # c
            BY <1>2, <3>1
        <3>3. Key[d] # Key[c]
            BY <1>5, <3>1, <3>2, CalmFacts
        <3> QED
            BY <1>4, <3>1, <3>2, <3>3, CalmParts DEF CalmEvents
    <2>3. ASSUME NEW i \in DOMAIN events'
          PROVE  /\ ~events'[i].malformed /\ active'[events'[i].key] # None
                 /\ \E d \in NativeCalls :
                        Key[d] = events'[i].key /\ Dispatched(d)' /\ published'[d] # "none"
                 /\ \A j \in DOMAIN events' : events'[j].key = events'[i].key => j = i
        <3>1. \A d : Dispatched(d)' <=> Dispatched(d)
            BY <1>2 DEF Dispatched
        <3>2. CASE i \in DOMAIN events
            <4>1. events'[i] = events[i]
                BY <2>1, <3>2
            <4>2. \A j \in DOMAIN events' : events'[j].key = events'[i].key => j = i
                <5> SUFFICES ASSUME NEW j \in DOMAIN events', events'[j].key = events'[i].key
                             PROVE  j = i
                    OBVIOUS
                <5>1. j \in DOMAIN events
                    BY <1>3, <2>1, <2>2, <3>2, <4>1
                <5> QED
                    BY <2>1, <3>2, <4>1, <5>1, CalmParts DEF CalmEvents
            <4> QED
                BY <1>2, <2>2, <3>1, <3>2, <4>1, <4>2
        <3>3. CASE i = Len(events) + 1
            <4>1. events'[i] = event
                BY <2>1, <3>3
            <4>2. \A j \in DOMAIN events' : events'[j].key = event.key => j = i
                BY <1>3, <2>1, <2>2, <3>3
            <4>3. published'[c] # "none"
                BY <1>4
            <4> QED
                BY <1>2, <1>3, <1>5, <3>1, <4>1, <4>2, <4>3
        <3> QED
            BY <2>1, <3>2, <3>3
    <2> QED
        BY <2>3 DEF CalmEvents
<1>11. CalmEnd'
    BY <1>2, <1>5, <1>6, CalmParts, SameEnd
<1> QED
    BY <1>7, <1>8, <1>9, <1>10, <1>11 DEF CalmBody, CalmCalls

LEMMA CalmTerminal ==
    ASSUME Types, TeardownInv, CountInv, Calm, CalmBody, Calm', HandleEvent
    PROVE  CalmBody'
<1> DEFINE event == Head(events)
           line == NativeTerminal(active[event.key], event.outcome)
<1>1. event \in Events /\ events' = Tail(events) /\ events # <<>> /\ event.key \in Keys
      /\ event.outcome \in Outcomes
    BY HandledEvent DEF Events
<1>2. /\ events \in Seq(Events) /\ Len(events) \in Nat /\ DOMAIN events = 1..Len(events)
      /\ Len(events) > 0 /\ event = events[1]
      /\ DOMAIN events' = 1..(Len(events) - 1) /\ \A i \in DOMAIN events' : events'[i] = events[i + 1]
    <2>1. events \in Seq(Events)
        BY DEF Types, CallTypes
    <2>2. Len(events) \in Nat /\ DOMAIN events = 1..Len(events) /\ Len(events) > 0
        BY <1>1, <2>1, EmptySeq, LenProperties
    <2>3. /\ events' \in Seq(Events) /\ Len(events') = Len(events) - 1
          /\ \A i \in 1..Len(events') : events'[i] = events[i + 1]
        BY <1>1, <2>1, HeadTailProperties
    <2> QED
        BY <2>1, <2>2, <2>3, LenProperties
<1>3. PICK c \in NativeCalls : Key[c] = event.key /\ Dispatched(c) /\ published[c] # "none"
    BY <1>2, CalmParts DEF CalmEvents
<1>4. ~event.malformed /\ active[event.key] # None
    BY <1>2, CalmParts DEF CalmEvents
<1>5. active[event.key] = IdOf(c) /\ c \in Calls /\ Key[c] \in Keys
    <2>1. PICK d \in NativeCalls : Key[d] = event.key /\ Dispatched(d) /\ active[event.key] = IdOf(d)
        BY <1>1, <1>4, CalmFacts
    <2>2. d = c
        BY <1>3, <2>1, CalmFacts
    <2> QED
        BY <2>1, <2>2, CallFacts DEF Types
<1>6. /\ active' = [active EXCEPT ![Key[c]] = None]
      /\ counts' = [counts EXCEPT !["native_terminal"] = counts["native_terminal"] + 1]
      /\ Write(line, FALSE)
      /\ subscribed
      /\ UNCHANGED <<setting, phase, published, observer, subscribed, outer, socket, process, received>>
    <2>1. ~(event.malformed \/ active[event.key] = None)
        BY <1>4
    <2> QED
        BY <1>3, <2>1 DEF HandleEvent, callVars, runnerVars
<1>7. observer # "ended" /\ socket = "up" /\ sequence > 0 /\ sequence \in Nat
    BY <1>3, <1>6, CalmParts DEF TeardownInv
<1>8. /\ line \in Lines /\ line # CutLine /\ line.kind = "native_terminal" /\ line.id = IdOf(c)
      /\ line.seq = sequence /\ line.tool = ToolName(c) /\ line.who = Key[c] /\ line.value = "v"
      /\ line.outcome \in Outcomes /\ line.boundary = ExpectedBoundary["native"][line.outcome]
    <2>1. line \in Lines
        BY <1>4, HandledEvent
    <2>2. IdOf(c)[2] = c
        BY OwnIds
    <2> QED
        BY <1>1, <1>5, <2>1, <2>2 DEF NativeTerminal, ToolLine, CutLine
<1> HIDE DEF line, event
<1>9. /\ Held' = Held \cup {line} /\ sequence' = sequence + 1 /\ troubled' = troubled
    BY <1>6, <1>7, <1>8, Appends
<1>10. NativeHas("native_start", c) /\ ~NativeHas("native_terminal", c)
    <2>1. NativeCalm(c) /\ published[c] \in {"none"} \cup Outcomes
        BY CalmParts
    <2> QED
        BY <1>3, <1>4, <2>1 DEF NativeCalm, Outcomes
<1>11. Proper(line) /\ Follows(line)
    <2>1. Proper(line)
        BY <1>7, <1>8 DEF Proper
    <2>2. PICK s \in Held : s.kind = "native_start" /\ s.id = IdOf(c)
        BY <1>10 DEF NativeHas, HasLine
    <2>3. s.seq < sequence
        BY CalmParts DEF CalmLines
    <2> QED
        BY <1>8, <2>1, <2>2, <2>3 DEF Follows, Refers
<1>12. /\ counts'["native_terminal"] = counts["native_terminal"] + 1
       /\ \A k \in ToolKinds : k # "native_terminal" => counts'[k] = counts[k]
       /\ active'[Key[c]] = None /\ \A k \in Keys : k # Key[c] => active'[k] = active[k]
    BY <1>5, <1>6, Kinds DEF Types, PluginTypes
<1>13. /\ CalmLines'
       /\ \A kind \in ToolKinds, d \in NativeCalls :
              NativeHas(kind, d)' <=> NativeHas(kind, d) \/ (line.kind = kind /\ line.id = IdOf(d))
       /\ \A kind \in ToolKinds, i \in InnerCalls :
              InnerHas(kind, i)' <=> InnerHas(kind, i) \/ (line.kind = kind /\ line.id = <<"code", i>>)
    BY <1>6, <1>8, <1>9, <1>10, <1>11, <1>12, CalmParts, NewLine, ZenonT(40) DEF NativeHas
<1>14. /\ \A d \in NativeCalls : d # c => NativeCalm(d)'
       /\ \A i \in InnerCalls : InnerCalm(i)'
    <2>1. \A d \in NativeCalls : Key[d] \in Keys
        BY CallFacts DEF Types
    <2>2. phase'[c] # "idle"
        BY <1>3, <1>6 DEF Dispatched
    <2> QED
        BY <1>6, <1>8, <1>12, <1>13, <2>1, <2>2, OthersStay, OwnIds, Kinds
<1>15. NativeCalm(c)'
    <2>1. NativeHas("native_start", c)' /\ NativeHas("native_terminal", c)'
        BY <1>8, <1>10, <1>13, Kinds
    <2>2. NativeCalm(c) /\ Tool' = Tool /\ phase[c] \in Outcomes
        <3>1. published[c] \in {"none"} \cup Outcomes /\ NativeCalm(c)
            BY CalmParts
        <3> QED
            BY <1>3, <1>6, <3>1 DEF Tool, NativeCalm
    <2> QED
        BY <1>3, <1>6, <1>12, <2>1, <2>2 DEF NativeCalm, Dispatched, Outcomes
<1>16. CalmEvents'
    <2>1. ASSUME NEW i \in DOMAIN events'
          PROVE  i + 1 \in DOMAIN events /\ events'[i] = events[i + 1] /\ events[i + 1].key # Key[c]
        <3>1. i + 1 \in DOMAIN events /\ events'[i] = events[i + 1] /\ 1 \in DOMAIN events /\ i + 1 # 1
            BY <1>2
        <3> QED
            BY <1>2, <1>3, <3>1, CalmParts DEF CalmEvents
    <2>2. ASSUME NEW i \in DOMAIN events', NEW j \in DOMAIN events', events'[j].key = events'[i].key
          PROVE  j = i
        <3>1. j + 1 = i + 1
            BY <2>1, <2>2, CalmParts DEF CalmEvents
        <3> QED
            BY <1>2, <3>1
    <2>3. ASSUME NEW i \in DOMAIN events'
          PROVE  /\ ~events'[i].malformed /\ active'[events'[i].key] # None
                 /\ \E d \in NativeCalls :
                        Key[d] = events'[i].key /\ phase'[d] # "idle" /\ published'[d] # "none"
        <3>1. PICK d \in NativeCalls :
                  Key[d] = events[i + 1].key /\ phase[d] # "idle" /\ published[d] # "none"
            BY <2>1, CalmParts DEF CalmEvents, Dispatched
        <3>2. Key[d] \in Keys
            BY CallFacts DEF Types
        <3> QED
            BY <1>6, <1>12, <2>1, <3>1, <3>2, CalmParts DEF CalmEvents
    <2> QED
        BY <2>2, <2>3 DEF CalmEvents, Dispatched
<1>17. CalmEnd'
    BY <1>6, <1>7, <1>8, <1>9, <1>12, Kinds, CalmParts, SameEnd
<1> QED
    BY <1>13, <1>14, <1>15, <1>16, <1>17 DEF CalmBody, CalmCalls

(* An inner call writes a line; no native call takes part.                  *)
LEMMA CalmInner ==
    ASSUME Types, CountInv, Calm, CalmBody, Calm', NEW i \in InnerCalls, observer # "ended",
           NEW next \in {"running"} \cup Outcomes, phase' = [phase EXCEPT ![i] = next],
           NEW line \in Lines, Write(line, FALSE), line.kind \in {"code_start", "code_terminal"},
           line.id = <<"code", i>>, line.seq = sequence, Proper(line), Follows(line), sequence > 0,
           counts' = [counts EXCEPT ![line.kind] = counts[line.kind] + 1],
           ~InnerHas(line.kind, i),
           line.kind = "code_start" => next = "running" /\ ~InnerHas("code_terminal", i),
           line.kind = "code_terminal" => next \in Outcomes /\ InnerHas("code_start", i),
           UNCHANGED <<setting, published, events, observer, active, outer, socket, process, received>>
    PROVE  CalmBody'
<1>1. /\ i \in Calls /\ i \notin NativeCalls
      /\ \A d \in NativeCalls : d \in Calls /\ d # i
      /\ \A j \in InnerCalls : j \in Calls
    BY CallFacts DEF Types
<1>2. phase'[i] = next /\ \A x \in Calls : x # i => phase'[x] = phase[x]
    BY <1>1 DEF Types, CallTypes
<1>3. socket = "up" /\ sequence \in Nat
    BY CalmParts
<1>4. Held' = Held \cup {line} /\ sequence' = sequence + 1 /\ troubled' = troubled
    BY <1>3, Appends
<1>5. line.kind \in ToolKinds /\ line.kind # "native_start" /\ line.kind # "native_terminal"
    BY Kinds
<1>6. \A k \in ToolKinds : counts'[k] = IF k = line.kind THEN counts[k] + 1 ELSE counts[k]
    BY <1>5 DEF Types, PluginTypes
<1>7. /\ CalmLines'
      /\ \A kind \in ToolKinds, d \in NativeCalls :
             NativeHas(kind, d)' <=> NativeHas(kind, d) \/ (line.kind = kind /\ line.id = IdOf(d))
      /\ \A kind \in ToolKinds, j \in InnerCalls :
             InnerHas(kind, j)' <=> InnerHas(kind, j) \/ (line.kind = kind /\ line.id = <<"code", j>>)
    BY <1>4, <1>6, CalmParts, NewLine DEF InnerHas
<1>8. ASSUME NEW d \in NativeCalls
      PROVE  NativeCalm(d)'
    <2>1. phase'[d] = phase[d]
        BY <1>1, <1>2
    <2>2. /\ NativeHas("native_start", d)' <=> NativeHas("native_start", d)
          /\ NativeHas("native_terminal", d)' <=> NativeHas("native_terminal", d)
        BY <1>5, <1>7, Kinds
    <2> QED
        BY <2>1, <2>2, CalmParts, BystanderCall
<1>9. ASSUME NEW j \in InnerCalls
      PROVE  InnerCalm(j)'
    <2>1. InnerCalm(j)
        BY CalmParts
    <2>2. CASE j = i
        BY <1>2, <1>5, <1>7, <2>1, <2>2, Kinds DEF InnerCalm, Outcomes
    <2>3. CASE j # i
        <3>1. phase'[j] = phase[j] /\ <<"code", j>> # <<"code", i>>
            BY <1>1, <1>2, <2>3, OwnIds
        <3> QED
            BY <1>7, <2>1, <3>1, Kinds DEF InnerCalm
    <2> QED
        BY <2>2, <2>3
<1>10. CalmEvents'
    BY <1>1, <1>2, CalmParts, SameEvents DEF Dispatched
<1>11. CalmEnd'
    <2>1. counts'["native_start"] = counts["native_start"]
        BY <1>5, <1>6, Kinds
    <2>2. \A d \in NativeCalls : phase'[d] # "idle" <=> phase[d] # "idle"
        BY <1>1, <1>2
    <2> QED
        BY <1>4, <1>5, <2>1, <2>2, CalmParts, SameEnd
<1> QED
    BY <1>7, <1>8, <1>9, <1>10, <1>11 DEF CalmBody, CalmCalls

LEMMA CalmEnterInner ==
    ASSUME Types, CountInv, Calm, CalmBody, Calm', NEW i \in InnerCalls, EnterInner(i)
    PROVE  CalmBody'
<1> DEFINE c == Outer[i]
           parent == <<"hook", c>>
           line == CodeStart(i, parent)
<1>1. c \in NativeCalls /\ Tool[c] # "plain" /\ phase[c] = "running" /\ phase[i] = "idle"
    BY CallFacts DEF Types, EnterInner
<1>2. Dispatched(c) /\ observer # "ended" /\ sequence > 0 /\ sequence \in Nat
    BY <1>1, CalmFacts, CalmParts DEF Dispatched, Outcomes
<1>3. Tool[c] = "synthetic" /\ IdOf(c) = parent
    BY <1>1, <1>2, CalmFacts DEF IdOf
<1>4. NativeCalm(c) /\ InnerCalm(i)
    BY <1>1, CalmParts
<1>5. outer[Key[c]] = parent /\ parent \in Ids /\ parent # None
    BY <1>1, <1>3, <1>4, CallFacts DEF NativeCalm, None, Types
<1>6. /\ phase' = [phase EXCEPT ![i] = "running"]
      /\ counts' = [counts EXCEPT !["code_start"] = counts["code_start"] + 1]
      /\ Write(line, FALSE)
      /\ UNCHANGED <<setting, published, events, observer, active, outer, socket, process, received>>
    BY <1>5 DEF EnterInner, runnerVars
<1>7. /\ line \in Lines /\ line # CutLine /\ line.kind = "code_start" /\ line.id = <<"code", i>>
      /\ line.seq = sequence /\ line.tool = "inner" /\ line.who = Key[c] /\ line.value = "v"
      /\ line.parent = parent
    <2>1. line \in Lines
        BY <1>5, PluginLines, PluginLinesAreLines
    <2> QED
        BY <2>1 DEF CodeStart, ToolLine, CutLine
<1> HIDE DEF line, parent
<1>8. Proper(line)
    BY <1>2, <1>3, <1>7 DEF Proper, parent
<1>9. Follows(line)
    <2>1. PICK s \in Held : s.kind = "native_start" /\ s.id = parent
        BY <1>1, <1>3, <1>4 DEF NativeCalm, NativeHas, HasLine
    <2>2. s.seq < sequence
        BY CalmParts DEF CalmLines
    <2> QED
        BY <1>7, <2>1, <2>2 DEF Follows, Refers
<1>10. ~InnerHas("code_start", i) /\ ~InnerHas("code_terminal", i)
    BY <1>1, <1>4 DEF InnerCalm, Outcomes
<1> QED
    BY <1>2, <1>6, <1>7, <1>8, <1>9, <1>10, CalmInner

LEMMA CalmInnerReturn ==
    ASSUME Types, TeardownInv, CountInv, BoundInv, [Next]_vars, Calm, CalmBody, Calm',
           NEW i \in InnerCalls, InnerReturns(i)
    PROVE  CalmBody'
<1>1. PICK outcome \in Outcomes :
          /\ phase' = [phase EXCEPT ![i] = outcome]
          /\ counts' = [counts EXCEPT !["code_terminal"] = counts["code_terminal"] + 1]
          /\ Write(CodeTerminal(i, outcome), FALSE)
    BY Zenon DEF InnerReturns
<1> DEFINE line == CodeTerminal(i, outcome)
<1>2. /\ phase[i] = "running"
      /\ UNCHANGED <<setting, published, events, observer, active, outer, socket, process, received>>
    BY DEF InnerReturns, runnerVars
<1>3. observer # "ended"
    <2> SUFFICES ASSUME observer = "ended"
                 PROVE  FALSE
        OBVIOUS
    <2>1. counts' = counts
        BY CalmBefore, CalmParts DEF CalmEnd
    <2>2. counts'["code_terminal"] = counts["code_terminal"] + 1 /\ counts["code_terminal"] \in Nat
        BY <1>1, CalmParts, Kinds
    <2> QED
        BY <2>1, <2>2
<1>4. sequence > 0 /\ sequence \in Nat
    <2>1. Dispatched(i) /\ Outer[i] \in NativeCalls
        BY <1>2, CallFacts DEF Dispatched, Types
    <2> QED
        BY <2>1, CalmParts DEF CountInv
<1>5. /\ line \in Lines /\ line # CutLine /\ line.kind = "code_terminal" /\ line.id = <<"code", i>>
      /\ line.seq = sequence /\ line.tool = "inner" /\ line.who = Key[Outer[i]] /\ line.value = "v"
      /\ line.outcome = outcome /\ line.boundary = ExpectedBoundary["code_mode"][outcome]
    <2>1. line \in Lines
        BY PluginLines, PluginLinesAreLines
    <2> QED
        BY <2>1 DEF CodeTerminal, ToolLine, CutLine
<1>6. Write(line, FALSE)
    BY <1>1
<1> HIDE DEF line
<1>7. Proper(line)
    BY <1>4, <1>5 DEF Proper
<1>8. InnerHas("code_start", i) /\ ~InnerHas("code_terminal", i)
    <2>1. InnerCalm(i)
        BY CalmParts
    <2> QED
        BY <1>2, <2>1 DEF InnerCalm, Outcomes
<1>9. Follows(line)
    <2>1. PICK s \in Held : s.kind = "code_start" /\ s.id = <<"code", i>>
        BY <1>8 DEF InnerHas, HasLine
    <2>2. s.seq < sequence
        BY CalmParts DEF CalmLines
    <2> QED
        BY <1>5, <2>1, <2>2 DEF Follows, Refers
<1> QED
    BY <1>1, <1>2, <1>3, <1>4, <1>5, <1>6, <1>7, <1>8, <1>9, CalmInner

(* The capture starts or ends; no call takes part.                          *)
LEMMA CalmCapture ==
    ASSUME Types, CountInv, Calm, CalmBody, Setup \/ WriteCaptureEnd
    PROVE  CalmBody'
<1> DEFINE line == IF observer = "unloaded" THEN CaptureStart ELSE CaptureEnd
<1>1. /\ Setup <=> observer = "unloaded"
      /\ WriteCaptureEnd <=> observer = "aborted"
      /\ Write(line, FALSE)
      /\ UNCHANGED <<setting, phase, published, events, active, outer, counts, process, received>>
    BY Zenon DEF Setup, WriteCaptureEnd, callVars, runnerVars
<1>2. /\ observer # "ended" /\ socket = "up" /\ ~troubled /\ sequence \in Nat
      /\ observer = "unloaded" <=> sequence = 0
    BY <1>1, CalmParts DEF CalmEnd
<1>3. /\ line \in Lines /\ line # CutLine /\ line.seq = sequence
      /\ line.kind = IF observer = "unloaded" THEN "capture_start" ELSE "capture_end"
      /\ line.kind = "capture_end" => ~line.failures
    <2>1. line \in Lines
        BY PluginLines, PluginLinesAreLines
    <2> QED
        BY <1>2, <2>1 DEF CaptureStart, CaptureEnd, CutLine
<1> HIDE DEF line
<1>4. Held' = Held \cup {line} /\ sequence' = sequence + 1 /\ troubled' = troubled
    BY <1>1, <1>2, <1>3, Appends
<1>5. line.kind \notin ToolKinds
    BY <1>3, Kinds
<1>6. Proper(line) /\ Follows(line)
    BY <1>2, <1>3, <1>5 DEF Proper, Follows
<1>7. /\ CalmLines'
      /\ \A kind \in ToolKinds, d \in NativeCalls : NativeHas(kind, d)' <=> NativeHas(kind, d)
      /\ \A kind \in ToolKinds, i \in InnerCalls : InnerHas(kind, i)' <=> InnerHas(kind, i)
    BY <1>1, <1>3, <1>4, <1>5, <1>6, CalmParts, NewLine
<1>8. \A d \in NativeCalls : NativeCalm(d)'
    BY <1>1, <1>7, CalmParts, BystanderCall, Kinds
<1>9. \A i \in InnerCalls : InnerCalm(i)'
    BY <1>1, <1>7, CalmParts, Kinds DEF InnerCalm
<1>10. CalmEvents'
    BY <1>1, CalmParts, SameEvents DEF Dispatched
<1>11. CalmEnd'
    <2>1. \A end \in Held : end.kind # "capture_end"
        BY <1>2 DEF CountInv, Tells
    <2>2. DispatchedCalls' = DispatchedCalls /\ \A c \in NativeCalls : Dispatched(c)' <=> Dispatched(c)
        BY <1>1 DEF DispatchedCalls, Dispatched
    <2>3. observer' = IF observer = "unloaded" THEN "observing" ELSE "ended"
        BY <1>1, Zenon DEF Setup, WriteCaptureEnd
    <2>4. Setup => socket' = socket
        BY DEF Setup
    <2>5. Alive' <=> Alive
        BY <1>1 DEF Alive
    <2>6. \A end \in Held' : end.kind = "capture_end" =>
              end = line /\ observer' = "ended" /\ ~end.failures /\ end.seq = sequence' - 1
        BY <1>2, <1>3, <1>4, <2>1, <2>3
    <2>7. observer' = "ended" => \E end \in Held' : end.kind = "capture_end"
        BY <1>3, <1>4, <2>3
    <2>8. observer' # "ended" => ~troubled' /\ socket' = "up" /\ Alive'
        BY <1>1, <1>2, <1>4, <2>3, <2>4, <2>5, CalmParts
    <2>9. (observer' = "unloaded" <=> sequence' = 0) /\ sequence' > 0
        BY <1>2, <1>4, <2>3
    <2> QED
        BY <1>1, <2>2, <2>6, <2>7, <2>8, <2>9, CalmParts DEF CalmEnd
<1> QED
    BY <1>7, <1>8, <1>9, <1>10, <1>11 DEF CalmBody, CalmCalls

(* A step that moves no call and writes no line.                            *)
LEMMA CalmStill ==
    ASSUME Types, CountInv, Calm, CalmBody, Calm',
           Dispose \/ Abort \/ ExitCleanly \/ Runner \/ UNCHANGED vars
    PROVE  CalmBody'
<1>1. UNCHANGED <<setting, phase, published, events, active, outer, counts, troubled, sequence, socket>>
    BY DEF Dispose, Abort, ExitCleanly, Runner, Accept, Receive, Finish, vars, callVars, observerVars,
           streamVars
<1>2. Held' = Held
    <2>1. CASE Receive
        BY <2>1, ReceivingKeepsLines DEF Calm
    <2>2. CASE ~Receive
        BY <2>2, HeldStays DEF Dispose, Abort, ExitCleanly, Runner, Accept, Finish, vars, streamVars,
                               runnerVars
    <2> QED
        BY <2>1, <2>2
<1>3. /\ CalmLines'
      /\ \A kind \in ToolKinds, d \in NativeCalls : NativeHas(kind, d)' <=> NativeHas(kind, d)
      /\ \A kind \in ToolKinds, i \in InnerCalls : InnerHas(kind, i)' <=> InnerHas(kind, i)
    BY <1>1, <1>2, CalmParts, SameLines
<1>4. \A d \in NativeCalls : NativeCalm(d)'
    BY <1>1, <1>3, CalmParts, BystanderCall, Kinds
<1>5. \A i \in InnerCalls : InnerCalm(i)'
    BY <1>1, <1>3, CalmParts, Kinds DEF InnerCalm
<1>6. CalmEvents'
    BY <1>1, CalmParts, SameEvents DEF Dispatched
<1>7. CalmEnd'
    <2>1. DispatchedCalls' = DispatchedCalls /\ \A c \in NativeCalls : Dispatched(c)' <=> Dispatched(c)
        BY <1>1 DEF DispatchedCalls, Dispatched
    <2>2. /\ observer' = "ended" <=> observer = "ended"
          /\ observer' = "unloaded" <=> observer = "unloaded"
        BY DEF Dispose, Abort, ExitCleanly, Runner, Accept, Receive, Finish, vars, observerVars
    <2>3. process' = process \/ (observer = "ended" /\ process' = "exited")
        BY DEF Dispose, Abort, ExitCleanly, Runner, Accept, Receive, Finish, vars
    <2>4. process' = process => (Alive' <=> Alive)
        BY DEF Alive
    <2> QED
        BY <1>1, <1>2, <2>1, <2>2, <2>3, <2>4, CalmParts DEF CalmEnd
<1> QED
    BY <1>3, <1>4, <1>5, <1>6, <1>7 DEF CalmBody, CalmCalls

LEMMA CalmHolds ==
    Types /\ TeardownInv /\ CountInv /\ BoundInv /\ CalmInv /\ [Next]_vars => CalmInv'
<1> SUFFICES ASSUME Types, TeardownInv, CountInv, BoundInv, CalmInv, [Next]_vars, Calm'
             PROVE  CalmBody'
    BY DEF CalmInv
<1>1. Calm /\ CalmBody /\ CleanStep
    BY CalmBefore DEF CalmInv
<1>2. CASE Setup \/ WriteCaptureEnd
    BY <1>1, <1>2, CalmCapture
<1>3. CASE Dispose \/ Abort \/ ExitCleanly \/ Runner \/ UNCHANGED vars
    BY <1>1, <1>3, CalmStill
<1>4. CASE HandleEvent
    BY <1>1, <1>4, CalmTerminal
<1>5. ASSUME NEW c \in NativeCalls,
             EnterWrapper(c) \/ EnterHook(c) \/ CleanStart(c) \/ HandlerReturns(c) \/ CleanSettle(c)
      PROVE  CalmBody'
    BY <1>1, <1>5, CalmEnterWrapper, CalmEnterHook, CalmStart, CalmReturn, CalmSettle
<1>6. ASSUME NEW i \in InnerCalls, EnterInner(i) \/ InnerReturns(i)
      PROVE  CalmBody'
    BY <1>1, <1>6, CalmEnterInner, CalmInnerReturn
<1> QED
    BY <1>1, <1>2, <1>3, <1>4, <1>5, <1>6 DEF CleanStep

(* The whole of it, with the order of the lines and what was counted.      *)
CleanInv == OrderInv /\ CountInv /\ BoundInv /\ CalmInv

LEMMA CleanInvariance == Spec => [](BaseInv /\ CleanInv)
<1>1. Init => BoundInv /\ CalmInv
    <2> SUFFICES ASSUME Init
                 PROVE  BoundInv /\ CalmInv
        OBVIOUS
    <2>1. \A c \in Calls : phase[c] = "idle"
        BY DEF Init, Calls
    <2>2. received = <<>> /\ wire = <<>> /\ Held = {} /\ events = <<>> /\ DOMAIN events = {}
        BY DEF Init, Held
    <2>3. BoundInv
        BY <2>2 DEF BoundInv, EndsLagBehind, DrainInv, Init
    <2>4. CalmLines
        <3>1. \A k : LinesOf(k) = {}
            BY <2>2 DEF LinesOf
        <3> QED
            BY <2>2, <3>1, FS_EmptySet DEF CalmLines, Init
    <2>5. CalmCalls
        BY <2>1, <2>2 DEF CalmCalls, NativeCalm, InnerCalm, NativeHas, InnerHas, HasLine, Dispatched,
                          Calls, Outcomes, Init
    <2>6. CalmEnd
        <3>1. DispatchedCalls = {}
            BY <2>1 DEF DispatchedCalls, Dispatched, Calls
        <3> QED
            BY <2>1, <2>2, <3>1, FS_EmptySet, Kinds DEF CalmEnd, Dispatched, Calls, Alive, Init
    <2>7. CalmEvents
        BY <2>2 DEF CalmEvents
    <2> QED
        BY <2>3, <2>4, <2>5, <2>6, <2>7 DEF CalmInv, CalmBody
<1>2. BaseInv /\ CountInv /\ BoundInv /\ CalmInv /\ [Next]_vars => BoundInv' /\ CalmInv'
    BY BoundHolds, CalmHolds DEF BaseInv
<1>3. OrderInv /\ CountInv /\ BoundInv /\ CalmInv => CleanInv
    BY DEF CleanInv
<1> QED
    BY <1>1, <1>2, <1>3, BaseInvariance, OrderInvariance, CountInvariance, PTL DEF Spec

(***************************************************************************)
(* What the runner has when a calm run is over.                            *)
(***************************************************************************)

(* The capture is closed and everything in it was received.                 *)
IsDrained ==
    /\ wire = <<>> /\ issue = NoIssue /\ observer = "ended" /\ process # "timeout"
    /\ Len(received) <= MaxRecords
    /\ \A c \in NativeCalls \cup InnerCalls : phase[c] \in {"idle"} \cup Outcomes
    /\ \A c \in NativeCalls : Dispatched(c) => published[c] # "none"
    /\ Calm

LEMMA DrainedFacts ==
    ASSUME BaseInv, CleanInv, IsDrained
    PROVE  /\ CalmBody /\ Held = {received[i] : i \in DOMAIN received}
           /\ IsStream(received) /\ Len(received) = sequence /\ sequence > 1
           /\ \A i \in DOMAIN received :
                  /\ received[i] \in Lines /\ received[i] # CutLine /\ received[i].form = "ok"
                  /\ received[i].counted /\ received[i].seq = i - 1
                  /\ received[i].kind = "capture_start" <=> i = 1
                  /\ received[i].kind = "capture_end" <=> i = sequence
                  /\ i \in 2..(sequence - 1) => received[i].kind \in ToolKinds
           /\ received[sequence].totals = counts /\ ~received[sequence].failures
<1>1. Types /\ CalmBody /\ CountInv /\ OrderInv
    BY DEF BaseInv, CleanInv, CalmInv, IsDrained
<1>2. Held = {received[i] : i \in DOMAIN received}
    <2>1. DOMAIN wire = {}
        BY DEF IsDrained
    <2> QED
        BY <2>1 DEF Held
<1>3. IsStream(received) /\ Len(received) \in Nat /\ DOMAIN received = 1..Len(received) /\ sequence \in Nat
    BY <1>1, LinesAreAStream, LenProperties DEF Types, StreamTypes, PluginTypes
<1>4. ASSUME NEW i \in DOMAIN received
      PROVE  /\ received[i] \in Lines /\ received[i] # CutLine /\ received[i].seq = i - 1
             /\ received[i].kind = "capture_start" <=> i = 1
             /\ i <= sequence
    <2>1. received[i] \in Held
        BY <1>2
    <2>2. received[i] \in Lines
        BY <1>1, <2>1, HeldAreLines
    <2>3. Proper(received[i]) /\ received[i].seq < sequence
        BY <1>1, <2>1, CalmParts DEF CalmLines
    <2>4. received[i] # CutLine /\ (received[i].kind = "capture_start" <=> received[i].seq = 0)
        BY <2>3 DEF Proper
    <2>5. received[i].seq = i - 1
        BY <1>1, <2>4 DEF OrderInv, IsDrained
    <2> QED
        BY <1>3, <2>2, <2>3, <2>4, <2>5
<1>5. \A i \in DOMAIN received : received[i].kind = "capture_end" =>
          ~received[i].failures /\ received[i].seq = sequence - 1 /\ received[i].totals = counts
    BY <1>1, <1>2, CalmParts DEF CalmEnd, IsDrained, Calm, Settled
<1>6. PICK n \in DOMAIN received : received[n].kind = "capture_end"
    BY <1>1, <1>2, CalmParts DEF CalmEnd, IsDrained
<1>7. n = sequence /\ n # 1 /\ Len(received) = sequence
    <2>1. received[n].seq = sequence - 1 /\ received[n].seq = n - 1
        BY <1>4, <1>5, <1>6
    <2>2. n = sequence
        BY <1>3, <2>1
    <2>3. n # 1
        BY <1>4, <1>6
    <2>4. Len(received) \in DOMAIN received
        BY <1>3
    <2>5. Len(received) <= sequence
        BY <1>4, <2>4
    <2>6. n <= Len(received)
        BY <1>3, <1>6
    <2>7. Len(received) = sequence
        <3>1. sequence <= Len(received) /\ Len(received) \in Nat /\ sequence \in Nat
            BY <1>3, <2>2, <2>6
        <3> QED
            BY <2>5, <3>1
    <2> QED
        BY <2>2, <2>3, <2>7
<1>8. ASSUME NEW i \in DOMAIN received
      PROVE  /\ received[i].kind = "capture_end" <=> i = sequence
             /\ i \in 2..(sequence - 1) => received[i].kind \in ToolKinds
             /\ received[i].form = "ok" /\ received[i].counted
    <2>1. received[i].kind = "capture_end" => i = sequence
        BY <1>3, <1>4, <1>5
    <2>2. i \in 2..(sequence - 1) => received[i].kind \notin {"capture_start", "capture_end"}
        BY <1>3, <1>4, <2>1
    <2>3. received[i] \in ToolLines \cup CaptureStarts \cup CaptureEnds
        BY <1>4 DEF Lines
    <2>4. \/ received[i].kind \in ToolKinds
          \/ received[i].kind \in {"capture_start", "capture_end"}
        BY <2>3 DEF ToolLines, CaptureStarts, CaptureEnds
    <2>5. received[i].form = "ok" /\ received[i].counted
        BY <2>3 DEF ToolLines, CaptureStarts, CaptureEnds
    <2> QED
        BY <1>6, <1>7, <2>1, <2>2, <2>4, <2>5
<1> QED
    BY <1>1, <1>2, <1>3, <1>4, <1>5, <1>6, <1>7, <1>8

(* Each dispatched call has the one line that tells of it.                  *)
LEMMA DrainedCounts ==
    ASSUME BaseInv, CleanInv, IsDrained
    PROVE  \A k \in ToolKinds : counts[k] = Cardinality(LinesOf(k))
<1>1. Types /\ CalmBody /\ CountInv /\ Calm
    BY DrainedFacts DEF BaseInv, CleanInv, IsDrained
<1>2. CalmLines /\ CalmEnd
    BY <1>1, CalmParts
<1> DEFINE starts == LinesOf("native_start")
           f == [s \in starts |-> s.id[2]]
<1>3. IsFiniteSet(starts) /\ counts["native_start"] = Cardinality(DispatchedCalls)
    BY <1>2, Kinds DEF CalmLines, CalmEnd
<1>4. ASSUME NEW s \in starts
      PROVE  /\ s.id[2] \in DispatchedCalls
             /\ \A t \in starts : t.id[2] = s.id[2] => t = s
    <2>1. ASSUME NEW t \in starts
          PROVE  t.id[2] \in NativeCalls /\ t.id = IdOf(t.id[2])
        <3>1. t \in Held /\ t.kind = "native_start"
            BY DEF LinesOf
        <3>2. PICK c \in NativeCalls : t.id = IdOf(c)
            BY <1>2, <3>1 DEF CalmLines, Proper
        <3> QED
            BY <1>1, <3>2, OwnIds
    <2>2. s \in Held /\ s.kind = "native_start"
        BY DEF LinesOf
    <2>3. NativeHas("native_start", s.id[2])
        BY <2>1, <2>2 DEF NativeHas, HasLine
    <2>4. phase[s.id[2]] \in {"running"} \cup Outcomes
        BY <1>1, <2>1, <2>3, CalmParts DEF NativeCalm
    <2>5. s.id[2] \in DispatchedCalls
        BY <2>1, <2>4 DEF DispatchedCalls, Dispatched, Outcomes
    <2>6. ASSUME NEW t \in starts, t.id[2] = s.id[2]
          PROVE  t = s
        <3>1. t.id = s.id
            BY <2>1, <2>6
        <3> QED
            BY <1>2, <2>2, <3>1, Kinds DEF CalmLines, LinesOf
    <2> QED
        BY <2>5, <2>6
<1>5. ASSUME NEW c \in DispatchedCalls
      PROVE  \E s \in starts : s.id[2] = c
    <2>1. c \in NativeCalls /\ Dispatched(c)
        BY DEF DispatchedCalls
    <2>2. phase[c] \in Outcomes
        BY <2>1 DEF IsDrained, Dispatched
    <2>3. NativeHas("native_start", c)
        BY <1>1, <2>1, <2>2, CalmParts DEF NativeCalm
    <2>4. PICK s \in Held : s.kind = "native_start" /\ s.id = IdOf(c)
        BY <2>3 DEF NativeHas, HasLine
    <2> QED
        BY <1>1, <2>1, <2>4, OwnIds DEF LinesOf
<1>6. f \in Bijection(starts, DispatchedCalls)
    <2> HIDE DEF starts
    <2>1. f \in [starts -> DispatchedCalls]
        BY <1>4
    <2>2. f \in Injection(starts, DispatchedCalls)
        BY <1>4, <2>1 DEF Injection, IsInjective
    <2>3. f \in Surjection(starts, DispatchedCalls)
        BY <1>5, <2>1 DEF Surjection
    <2> QED
        BY <2>2, <2>3 DEF Bijection
<1>7. Cardinality(DispatchedCalls) = Cardinality(starts)
    <2> HIDE DEF starts, f
    <2> QED
        BY <1>3, <1>6, FS_Bijection DEF ExistsBijection
<1> QED
    BY <1>2, <1>3, <1>7 DEF CalmLines

LEMMA DrainedLoads ==
    ASSUME BaseInv, CleanInv, IsDrained, NEW capture, capture = Capture(issue)
    PROVE  /\ capture.issues = {} /\ capture.ended /\ ~capture.failures
           /\ capture.records = {line \in Held : line.kind \in ToolKinds}
           /\ ProcessState(capture) = "completed"
<1> DEFINE stream == received
           n == sequence
<1>1. /\ IsStream(stream) /\ Len(stream) = n /\ n > 1 /\ n \in Nat
      /\ Held = {stream[i] : i \in DOMAIN stream}
      /\ \A i \in DOMAIN stream :
             /\ stream[i] \in Lines /\ stream[i] # CutLine /\ stream[i].form = "ok"
             /\ stream[i].counted /\ stream[i].seq = i - 1
             /\ stream[i].kind = "capture_start" <=> i = 1
             /\ stream[i].kind = "capture_end" <=> i = n
             /\ i \in 2..(n - 1) => stream[i].kind \in ToolKinds
      /\ stream[n].totals = counts /\ ~stream[n].failures
    BY DrainedFacts DEF BaseInv, Types, PluginTypes
<1>2. DOMAIN stream = 1..n /\ stream # <<>> /\ n <= MaxRecords /\ MaxRecords \in Nat
    BY <1>1, MaxRecordsAssumption DEF IsDrained, IsStream
<1>3. \A k \in ToolKinds : counts[k] = Cardinality(LinesOf(k))
    BY DrainedCounts
<1>4. Held = {stream[i] : i \in 1..n} /\ counts \in [ToolKinds -> Nat]
    BY <1>1, <1>2 DEF BaseInv, Types, PluginTypes
<1>5. Terminated
    BY <1>1, <1>2 DEF Terminated
<1> HIDE DEF stream, n
<1>6. \A i \in 1..n : Usable(stream, i)
    BY <1>1, <1>2 DEF Usable
<1>7. EndLines(stream) = {n}
    BY <1>1, <1>2, <1>6 DEF EndLines
<1>8. EndAt(stream) = n
    BY <1>1, <1>7, EndAtFacts
<1>9. Body(stream) = 2..(n - 1)
    BY <1>1, <1>2, <1>6, <1>8 DEF Body
<1>10. Records(stream) = {line \in Held : line.kind \in ToolKinds}
    <2>1. \A i \in 1..n : stream[i].kind \in ToolKinds <=> i \in 2..(n - 1)
        BY <1>1, <1>2, Kinds
    <2>2. \A i \in 2..(n - 1) : i \in 1..n
        BY <1>1
    <2>3. {i \in Body(stream) : stream[i].kind \in ToolKinds} = 2..(n - 1)
        BY <1>9, <2>1, <2>2
    <2>4. Records(stream) = {stream[i] : i \in 2..(n - 1)}
        BY <2>3 DEF Records
    <2> QED
        BY <1>4, <2>1, <2>2, <2>4
<1>11. CountsOf(Records(stream)) = counts
    <2>1. \A k \in ToolKinds : {r \in Records(stream) : r.kind = k} = LinesOf(k)
        BY <1>10 DEF LinesOf
    <2> QED
        BY <1>3, <1>4, <2>1 DEF CountsOf
<1>12. ~CountsDiffer(stream)
    BY <1>1, <1>8, <1>11 DEF CountsDiffer
<1>13. Started(stream)
    BY <1>1, <1>2, <1>6 DEF Started
<1>14. LoadIssues(stream, TRUE) = {}
    <2> DEFINE issues == LoadIssues(stream, TRUE)
    <2>1. issues \subseteq LoadIssueCodes
        BY LoadIssuesFacts
    <2>2. /\ "unterminated_capture" \notin issues /\ "malformed_capture" \notin issues
          /\ "wrong_schema" \notin issues /\ "ambiguous_order" \notin issues
        BY <1>1, LoadIssuesFacts
    <2>3. /\ "invalid_capture_start" \notin issues /\ "missing_capture_end" \notin issues
          /\ "count_mismatch" \notin issues
        BY <1>7, <1>12, <1>13, LoadIssuesFacts
    <2>4. "records_after_capture_end" \notin issues
        <3>1. n \in Nat
            BY <1>1
        <3>2. \A i \in DOMAIN stream : ~(i > EndAt(stream))
            BY <1>2, <1>8, <3>1
        <3> QED
            BY <3>2, LoadIssuesFacts
    <2>5. "invalid_record" \notin issues
        <3>1. \A i \in 2..(n - 1) : stream[i].kind \in ToolKinds
            BY <1>1, <1>2
        <3> QED
            BY <1>9, <3>1, LoadIssuesFacts
    <2> HIDE DEF issues
    <2>6. issues = {}
        BY <2>1, <2>2, <2>3, <2>4, <2>5 DEF LoadIssueCodes
    <2> QED
        BY <2>6 DEF issues
<1>15. Terminated = TRUE
    BY <1>5 DEF Terminated
<1>16. Load(stream, Terminated) =
          [started |-> Started(stream), ended |-> EndLines(stream) # {}, records |-> Records(stream),
           failures |-> EndLines(stream) # {} /\ stream[EndAt(stream)].failures,
           issues |-> LoadIssues(stream, TRUE)]
    BY <1>1, <1>2, <1>15 DEF Load
<1>17. /\ capture.ended = (EndLines(stream) # {})
       /\ capture.records = Records(stream)
       /\ capture.failures = (EndLines(stream) # {} /\ stream[EndAt(stream)].failures)
       /\ capture.issues = LoadIssues(stream, TRUE) \cup ({issue} \ {NoIssue})
    <2> DEFINE loaded == Load(stream, Terminated)
    <2>1. /\ loaded.ended = (EndLines(stream) # {}) /\ loaded.records = Records(stream)
          /\ loaded.failures = (EndLines(stream) # {} /\ stream[EndAt(stream)].failures)
          /\ loaded.issues = LoadIssues(stream, TRUE)
        BY <1>16
    <2> HIDE DEF loaded
    <2>2. /\ capture.ended = loaded.ended /\ capture.records = loaded.records
          /\ capture.failures = loaded.failures
          /\ capture.issues = loaded.issues \cup ({issue} \ {NoIssue})
        BY CaptureFacts DEF BaseInv, stream, loaded
    <2> QED
        BY <2>1, <2>2
<1>18. capture.ended /\ ~capture.failures /\ capture.issues = {}
    BY <1>1, <1>7, <1>8, <1>14, <1>17 DEF IsDrained
<1>19. ProcessState(capture) = "completed"
    BY <1>18 DEF ProcessState, IsDrained
<1> QED
    BY <1>10, <1>17, <1>18, <1>19

(* Every record is the only one of its kind for its invocation, starts      *)
(* after its parent, and settles or is settled.                             *)
LEMMA DrainedIsPerfect ==
    ASSUME BaseInv, CleanInv, IsDrained, NEW capture, capture = Capture(issue)
    PROVE  Perfect(capture)
<1> DEFINE records == {line \in Held : line.kind \in ToolKinds}
           starts == {r \in records : r.kind \in StartKinds}
           terminals == {r \in records : r.kind \in TerminalKinds}
<1>1. /\ capture.issues = {} /\ capture.ended /\ ~capture.failures /\ capture.records = records
    BY DrainedLoads
<1>2. Types /\ CalmBody /\ CalmLines /\ \A k \in Keys : active[k] = None
    <2>1. Types /\ CalmBody /\ Calm
        BY DrainedFacts DEF BaseInv, IsDrained
    <2>2. CountInv /\ observer = "ended"
        BY DEF CleanInv, IsDrained
    <2> QED
        BY <2>1, <2>2, CalmParts, CalmFacts
<1>3. ASSUME NEW r \in records
      PROVE  /\ r \in Held /\ r.kind \in ToolKinds /\ Proper(r) /\ Follows(r) /\ r.value = "v"
             /\ r.kind = "native_start" \/ r.kind = "native_terminal" =>
                    r.id \in NativeIds
             /\ r.kind = "code_start" \/ r.kind = "code_terminal" => r.id \in CodeIds
             /\ r.seq \in Nat
    <2>1. r \in Held /\ r.kind \in ToolKinds /\ Proper(r) /\ Follows(r)
        BY <1>2 DEF CalmLines
    <2>2. r.seq \in Nat
        BY <1>2, <2>1, HeldAreLines, LineFacts DEF IsLine
    <2>3. r.value = "v"
        BY <2>1 DEF Proper
    <2>4. r.kind = "native_start" \/ r.kind = "native_terminal" => r.id \in NativeIds
        <3>1. r.kind = "native_start" \/ r.kind = "native_terminal" => \E c \in NativeCalls : r.id = IdOf(c)
            BY <2>1 DEF Proper
        <3> QED
            BY <1>2, <3>1, OwnIds
    <2>5. r.kind = "code_start" \/ r.kind = "code_terminal" => r.id \in CodeIds
        <3>1. r.kind = "code_start" \/ r.kind = "code_terminal" => \E i \in InnerCalls : r.id = <<"code", i>>
            BY <2>1 DEF Proper
        <3> QED
            BY <3>1 DEF CodeIds
    <2> QED
        BY <2>1, <2>2, <2>3, <2>4, <2>5
<1>4. NativeIds \cap CodeIds = {}
    BY DEF NativeIds, CodeIds
<1>5. ASSUME NEW r \in records, NEW q \in records, r.id = q.id,
             \/ r.kind \in StartKinds /\ q.kind \in StartKinds
             \/ r.kind \in TerminalKinds /\ q.kind \in TerminalKinds
      PROVE  r = q
    <2>1. r.kind = q.kind
        BY <1>3, <1>4, <1>5 DEF StartKinds, TerminalKinds
    <2> QED
        BY <1>2, <1>3, <1>5, <2>1 DEF CalmLines
<1> HIDE DEF records
<1>6. Starts(capture) = starts /\ Terminals(capture) = terminals
    <2>1. \A r \in records : r.seq <= r.seq
        BY <1>3
    <2>2. FirstOf(records, StartKinds) = starts /\ FirstOf(records, TerminalKinds) = terminals
        BY <1>5, <2>1 DEF FirstOf
    <2> QED
        BY <1>1, <2>2 DEF Starts, Terminals
<1>7. records = starts \cup terminals
    <2>1. \A r \in records : r.kind \in StartKinds \/ r.kind \in TerminalKinds
        BY <1>3 DEF ToolKinds
    <2> QED
        BY <2>1
<1>8. ASSUME NEW s \in starts, s.kind = "code_start"
      PROVE  CodeParentIsObserved(s, starts)
    <2>1. PICK i \in InnerCalls : s.who = Key[Outer[i]] /\ s.parent = <<"hook", Outer[i]>>
        BY <1>3, <1>8 DEF Proper
    <2>2. PICK outermost \in Held :
              outermost.kind = "native_start" /\ outermost.id = s.parent /\ outermost.seq < s.seq
        BY <1>3, <1>8 DEF Follows, Refers
    <2>3. outermost \in records /\ outermost \in starts
        BY <2>2, Kinds DEF records, StartKinds
    <2>4. PICK c \in NativeCalls :
              /\ outermost.id = IdOf(c) /\ outermost.tool = ToolName(c) /\ outermost.who = Key[c]
              /\ outermost.boundary = IF Tool[c] = "plain" THEN "decoded-tool-execute"
                                      ELSE "tool-execute-before"
        BY <1>3, <2>2, <2>3 DEF Proper
    <2>5. Tool[c] # "plain" /\ c = Outer[i]
        BY <2>1, <2>2, <2>4 DEF IdOf
    <2>6. outermost.tool = "execute" /\ outermost.boundary = "tool-execute-before"
        BY <2>4, <2>5 DEF ToolName
    <2> QED
        BY <2>1, <2>2, <2>3, <2>4, <2>5, <2>6 DEF CodeParentIsObserved
<1>9. ASSUME NEW t \in terminals
      PROVE  \E s \in starts : Settles(t, s) /\ s.id = t.id
                               /\ (s.kind = "native_start" <=> t.kind = "native_terminal")
    <2>1. t \in records /\ (t.kind = "native_terminal" \/ t.kind = "code_terminal")
        BY DEF TerminalKinds
    <2>2. CASE t.kind = "native_terminal"
        <3>1. PICK s \in Held : s.kind = "native_start" /\ s.id = t.id /\ s.seq < t.seq
            BY <1>3, <2>1, <2>2 DEF Follows, Refers
        <3>2. s \in records /\ s \in starts
            BY <3>1, Kinds DEF records, StartKinds
        <3>3. PICK c \in NativeCalls : s.id = IdOf(c) /\ s.tool = ToolName(c) /\ s.who = Key[c]
            BY <1>3, <3>1, <3>2 DEF Proper
        <3>4. PICK d \in NativeCalls :
                  /\ t.id = IdOf(d) /\ t.tool = ToolName(d) /\ t.who = Key[d] /\ t.outcome \in Outcomes
                  /\ t.boundary = ExpectedBoundary["native"][t.outcome]
            BY <1>3, <2>1, <2>2 DEF Proper
        <3>5. c = d
            BY <1>2, <3>1, <3>3, <3>4, OwnIds
        <3>6. Settles(t, s)
            BY <1>3, <2>1, <2>2, <3>1, <3>2, <3>3, <3>4, <3>5 DEF Settles, Mode, Outcomes
        <3> QED
            BY <2>2, <3>1, <3>2, <3>6
    <2>3. CASE t.kind = "code_terminal"
        <3>1. PICK s \in Held : s.kind = "code_start" /\ s.id = t.id /\ s.seq < t.seq
            BY <1>3, <2>1, <2>3 DEF Follows, Refers
        <3>2. s \in records /\ s \in starts
            BY <3>1, Kinds DEF records, StartKinds
        <3>3. PICK i \in InnerCalls : s.id = <<"code", i>> /\ s.tool = "inner" /\ s.who = Key[Outer[i]]
            BY <1>3, <3>1, <3>2 DEF Proper
        <3>4. PICK j \in InnerCalls :
                  /\ t.id = <<"code", j>> /\ t.tool = "inner" /\ t.who = Key[Outer[j]]
                  /\ t.outcome \in Outcomes /\ t.boundary = ExpectedBoundary["code_mode"][t.outcome]
            BY <1>3, <2>1, <2>3 DEF Proper
        <3>5. i = j
            <4>1. <<"code", i>> = <<"code", j>>
                BY <3>1, <3>3, <3>4
            <4> QED
                BY <4>1
        <3>6. Settles(t, s)
            BY <1>3, <2>1, <2>3, <3>1, <3>2, <3>3, <3>4, <3>5 DEF Settles, Mode, Outcomes
        <3> QED
            BY <2>3, <3>1, <3>2, <3>6
    <2> QED
        BY <2>1, <2>2, <2>3
<1>10. ASSUME NEW s \in starts
       PROVE  s.value # "omitted" /\ \E t \in Settling(s, terminals) : t.value # "omitted"
    <2>1. s \in records /\ s.value = "v" /\ (s.kind = "native_start" \/ s.kind = "code_start")
        BY <1>3 DEF StartKinds
    <2>2. \E t \in terminals : t.id = s.id
        <3>1. CASE s.kind = "native_start"
            <4>1. PICK c \in NativeCalls : s.id = IdOf(c)
                BY <1>3, <2>1, <3>1 DEF Proper
            <4>2. NativeHas("native_start", c)
                BY <1>3, <2>1, <3>1, <4>1 DEF NativeHas, HasLine
            <4>3. Dispatched(c) /\ Key[c] \in Keys
                BY <1>2, <4>2, CalmParts, CallFacts DEF NativeCalm, Dispatched, Outcomes, Types
            <4>4. NativeHas("native_terminal", c)
                BY <1>2, <4>3, CalmParts DEF NativeCalm
            <4>5. PICK t \in Held : t.kind = "native_terminal" /\ t.id = IdOf(c)
                BY <4>4 DEF NativeHas, HasLine
            <4> QED
                BY <4>1, <4>5, Kinds DEF records, TerminalKinds
        <3>2. CASE s.kind = "code_start"
            <4>1. PICK i \in InnerCalls : s.id = <<"code", i>>
                BY <1>3, <2>1, <3>2 DEF Proper
            <4>2. InnerHas("code_start", i)
                BY <1>3, <2>1, <3>2, <4>1 DEF InnerHas, HasLine
            <4>3. phase[i] \in Outcomes
                BY <1>2, <4>2, CalmParts DEF InnerCalm, IsDrained, Outcomes
            <4>4. InnerHas("code_terminal", i)
                BY <1>2, <4>3, CalmParts DEF InnerCalm
            <4>5. PICK t \in Held : t.kind = "code_terminal" /\ t.id = <<"code", i>>
                BY <4>4 DEF InnerHas, HasLine
            <4> QED
                BY <4>1, <4>5, Kinds DEF records, TerminalKinds
        <3> QED
            BY <2>1, <3>1, <3>2
    <2>3. PICK t \in terminals : t.id = s.id
        BY <2>2
    <2>4. PICK other \in starts : Settles(t, other) /\ other.id = t.id
        BY <1>9
    <2>5. other = s
        BY <1>5, <2>3, <2>4
    <2>6. t.value = "v"
        BY <1>3
    <2> QED
        BY <2>1, <2>3, <2>4, <2>5, <2>6 DEF Settling
<1> HIDE DEF starts, terminals
<1>11. ~Malformed(capture)
    <2>1. /\ capture.issues \cap InvalidIssues = {}
          /\ capture.records = Starts(capture) \cup Terminals(capture)
        BY <1>1, <1>6, <1>7
    <2>2. \A t \in Terminals(capture) : \E s \in Starts(capture) : Settles(t, s)
        BY <1>6, <1>9
    <2> QED
        BY <1>6, <1>8, <2>1, <2>2 DEF Malformed
<1> QED
    BY <1>1, <1>6, <1>10, <1>11 DEF Perfect

(* Failing closed costs nothing when nothing fails: a run in which no fault *)
(* occurs and no identity is used twice, whose calls had all settled before *)
(* the abort, whose capture the runner drained and which is not too large   *)
(* gives complete evidence, whatever the interleaving of handlers, events   *)
(* and teardown (native_observer.ts; finish, build_runtime_evidence).       *)
THEOREM CleanCapturesAreComplete == Spec => []CleanRunsAreComplete
<1>1. BaseInv /\ CleanInv => CleanRunsAreComplete
    <2> SUFFICES ASSUME BaseInv, CleanInv, NEW e \in evidence,
                        faults = 0, ~Ambiguous, issue = NoIssue, accepted, Len(received) <= MaxRecords,
                        \A c \in NativeCalls \cup InnerCalls : phase[c] \in {"idle"} \cup Outcomes,
                        \A c \in NativeCalls : Dispatched(c) => published[c] # "none",
                        \A i \in DOMAIN received : received[i].kind = "capture_end" =>
                            \A k \in ToolKinds : received[i].totals[k] = counts[k],
                        active = [k \in Keys |-> None]
                 PROVE  e.status = "complete"
        BY DEF CleanRunsAreComplete
    <2> DEFINE capture == Capture(issue)
    <2>1. Types /\ ~Alive /\ e = BuildRuntimeEvidence(capture, ProcessState(capture))
        BY DEF BaseInv, BuiltInv
    <2> HIDE DEF capture
    <2>2. wire = <<>>
        BY DEF CleanInv, BoundInv, DrainInv
    <2>3. Settled
        <3> SUFFICES ASSUME NEW end \in Held, end.kind = "capture_end"
                     PROVE  end.totals = counts /\ \A k \in Keys : active[k] = None
            BY DEF Settled
        <3>1. DOMAIN wire = {}
            BY <2>2
        <3>2. PICK i \in DOMAIN received : end = received[i]
            BY <3>1 DEF Held
        <3>3. end.totals \in [ToolKinds -> Nat] /\ counts \in [ToolKinds -> Nat]
            BY <2>1, HeldAreLines, LineFacts DEF CaptureEnds, Types, PluginTypes
        <3>4. \A k \in ToolKinds : end.totals[k] = counts[k]
            BY <3>2
        <3> QED
            BY <3>3, <3>4
    <2>4. Calm
        BY <2>3 DEF Calm
    <2>5. IsDrained
        <3>1. CalmBody
            BY <2>4 DEF CleanInv, CalmInv
        <3>2. observer = "ended" /\ process # "timeout"
            BY <2>1, <3>1 DEF CalmBody, CalmEnd
        <3> QED
            BY <2>2, <2>4, <3>2 DEF IsDrained
    <2>6. Perfect(capture) /\ ProcessState(capture) = "completed"
        BY <2>5, DrainedIsPerfect, DrainedLoads DEF capture
    <2>7. IsCapture(capture) /\ ProcessState(capture) \in ProcessStates
        BY <2>1, CaptureFacts DEF capture
    <2> QED
        BY <2>1, <2>6, <2>7, BuiltStatus
<1> QED
    BY <1>1, CleanInvariance, PTL
=============================================================================
