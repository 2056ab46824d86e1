------------------------ MODULE MC_ObserverCapture ------------------------
(***************************************************************************)
(* Small alphabets of tool lines for TLC: an execute `a` with an inner call *)
(* `b`, and a plain tool call `b`; each line in its right form and with the *)
(* one detail wrong that the builder must notice.  The cases ask for the    *)
(* read `b` and its order, occurrence, status and result.                   *)
(***************************************************************************)
EXTENDS ObserverCapture

Start(kind, id, tool, who, boundary, parent, value) ==
    [form |-> "ok", seq |-> 0, counted |-> TRUE, kind |-> kind, id |-> id, tool |-> tool, who |-> who,
     boundary |-> boundary, parent |-> parent, outcome |-> "none", value |-> value]
Terminal(kind, id, tool, who, boundary, outcome, value) ==
    [form |-> "ok", seq |-> 0, counted |-> TRUE, kind |-> kind, id |-> id, tool |-> tool, who |-> who,
     boundary |-> boundary, parent |-> "none", outcome |-> outcome, value |-> value]

CodeModeLines ==
    {Start("native_start", "a", "execute", 1, boundary, "none", "v") :
        boundary \in {"tool-execute-before", "decoded-tool-execute"}}
    \cup {Start("native_start", "a", "read", 1, "tool-execute-before", "none", "v")}
    \cup {Start("code_start", "b", "read", who, "decoded-code-tool-handler", "a", "v") : who \in {1, 2}}
    \cup {Start("code_start", "b", "read", 1, "decoded-code-tool-handler", "b", "v")}
    \cup {Terminal("code_terminal", "b", "read", 1, boundary, "success", "v") :
        boundary \in {"tool-handler-return", "tool-handler-throw"}}
    \cup {Terminal("native_terminal", "a", tool, 1, "session.tool.success", "success", "v") :
        tool \in {"execute", "read"}}

NativeLines ==
    {Start("native_start", id, "read", 1, "decoded-tool-execute", "none", "v") : id \in {"a", "b"}}
    \cup {Start("native_start", "a", "read", 1, "decoded-tool-execute", "none", value) :
        value \in {"omitted", "no_object"}}
    \cup {Terminal("native_terminal", "b", "read", 1, "session.tool.success", "success", "v"),
          Terminal("code_terminal", "a", "read", 1, "tool-handler-throw", "error", "w")}
    \cup {Terminal("native_terminal", "a", "read", 1, "session.tool.failed", "error", value) :
        value \in {"w", "omitted", "redacted"}}

Alphabet == {CodeModeLines, NativeLines}

Call(tool, input) == [tool |-> tool, input |-> input]
Result(occurrence, after, status, result) ==
    [tool |-> "read", input |-> "v", occurrence |-> occurrence, after |-> after,
     status |-> status, result |-> result]
Check(family, forbids, alternatives) ==
    [family |-> family, forbids |-> forbids, alternatives |-> alternatives]

MCCases ==
    {{},
     {Check("tools", FALSE, {Call("read", "any")}), Check("tools", TRUE, {Call("execute", "any")})},
     {Check("actions", FALSE, {Call("execute", "v"), Call("read", "v")})},
     {Check("actions", TRUE, {Call("read", "w")})},
     {Check("tool_results", FALSE, {Result(0, {}, "any", "w")})},
     {Check("tool_results", TRUE, {Result(2, {}, "error", "w")})},
     {Check("tool_results", FALSE, {Result(0, {Call("read", "v")}, "success", "v")})}}
=============================================================================
