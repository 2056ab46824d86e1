----------------------------- MODULE MC_EvalRun -----------------------------
(***************************************************************************)
(* Small instances of EvalRun for TLC.                                     *)
(***************************************************************************)
EXTENDS EvalRun

Case(id, aliases, lane) == [id |-> id, selectors |-> {id} \cup aliases, lane |-> lane]

(* Two standard cases with a runtime case between them, which shares an      *)
(* alias with the first.                                                    *)
Mixed == <<Case("a", {"group"}, "standard"), Case("b", {"group"}, "runtime"), Case("c", {}, "standard")>>
Pairs == <<Case("p", {}, "runtime"), Case("q", {}, "runtime")>>

Asked(family, suite, all, selectors) ==
    [family |-> family, suite |-> suite, all |-> all, selectors |-> selectors,
     iterations |-> 1, parallel |-> 1, runtime_parallel |-> 1]

(* A profile with two standard jobs at once and a runtime job; two repeated  *)
(* jobs one by one; an agent-runtime input with a job in each lane; a skill  *)
(* input with two pairs at once.                                            *)
Profile  == [Asked("profile", Mixed, TRUE, {}) EXCEPT !.parallel = 0]
Repeated == [Asked("profile", Mixed, FALSE, {"c"}) EXCEPT !.iterations = 2]
Agent    == Asked("agent_runtime", Tail(Mixed), TRUE, {})
Group    == Asked("agent_runtime", Mixed, FALSE, {"group", "a"})
Skill    == [Asked("skill", Pairs, FALSE, {"q"}) EXCEPT !.runtime_parallel = 2, !.iterations = 2]

(* Commands that must be refused before anything runs.                      *)
Refused ==
    {Asked("profile", Mixed, FALSE, {}), Asked("skill", Pairs, TRUE, {"p"}),
     Asked("profile", Mixed, TRUE, {"x"}), Asked("profile", <<>>, TRUE, {}),
     Asked("profile", Pairs \o Pairs, FALSE, {"p"}),
     Asked("profile", <<Case("o", {}, "other")>>, TRUE, {}),
     [Asked("profile", Mixed, TRUE, {}) EXCEPT !.iterations = 0],
     [Asked("profile", Mixed, TRUE, {}) EXCEPT !.parallel = -1],
     [Asked("profile", Mixed, TRUE, {}) EXCEPT !.runtime_parallel = 0]}

MCRequests == {Profile, Repeated, Agent, Group, Skill} \cup Refused
OneProfile == {Profile}
=============================================================================
