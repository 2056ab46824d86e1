------------------------------ MODULE RunPlan ------------------------------
(***************************************************************************)
(* The plan of a run (runner/eval_plan.py and the selection rules of       *)
(* run_eval): which jobs a command's cases and selectors come to, and in   *)
(* which order.  Pure operators on a request: the suite of discovered      *)
(* cases, the selectors, --all, --iterations, --parallel and               *)
(* --runtime-parallel.                                                     *)
(***************************************************************************)
EXTENDS Integers, Sequences

Lanes == {"standard", "runtime"}

CasesOf(suite) == {suite[i] : i \in DOMAIN suite}

(* What one pass over s collects: its members at the positions in keep, in  *)
(* their order.  This is SelectSeq, over a set and not an operator, and     *)
(* written out so that it can be reasoned about.                            *)
Only(s, keep) ==
    LET pass[n \in 0..Len(s)] ==
            IF n = 0 THEN <<>>
            ELSE IF n \in keep THEN Append(pass[n - 1], s[n]) ELSE pass[n - 1]
    IN pass[Len(s)]

(* Mutation: the suite may name a case twice.                               *)
SuiteIsValidWithTwins(suite) == \A c \in CasesOf(suite) : c.id \in c.selectors

(* validate_normalized_cases: ids are unique, an alias may be shared.       *)
SuiteIsValid(suite) ==
    /\ \A c \in CasesOf(suite) : c.id \in c.selectors
    /\ \A i, j \in DOMAIN suite : suite[i].id = suite[j].id => i = j

(* run_eval and select_cases refuse a command that selects nothing; an input *)
(* must either be run as a whole or by selectors.                           *)
SelectionIsMissing(r) ==
    IF r.family = "profile" THEN ~r.all /\ r.selectors = {} ELSE r.all <=> r.selectors # {}

Named(r) == {i \in DOMAIN r.suite : r.suite[i].selectors \cap r.selectors # {}}
Selected(r) == IF r.all THEN r.suite ELSE Only(r.suite, Named(r))

(* expand_jobs: every case with all its iterations, in suite order.         *)
Expanded(cases, iterations) ==
    [k \in 1..(Len(cases) * iterations) |->
        [case |-> cases[((k - 1) \div iterations) + 1], iteration |-> ((k - 1) % iterations) + 1]]

(* What build_run_plan and the check after it refuse.                       *)
PlanIsRefused(r) ==
    \/ ~SuiteIsValid(r.suite)
    \/ ~(r.selectors \subseteq UNION {c.selectors : c \in CasesOf(r.suite)})
    \/ r.iterations < 1 \/ r.parallel < 0 \/ r.runtime_parallel < 1
    \/ \E c \in CasesOf(Selected(r)) : c.lane \notin Lanes
    \/ Selected(r) = <<>>

(* resolve_run_schedule: the standard lane first, each lane in suite order.  *)
OfLane(jobs, lane) == {k \in DOMAIN jobs : jobs[k].case.lane = lane}
Schedule(jobs) == Only(jobs, OfLane(jobs, "standard")) \o Only(jobs, OfLane(jobs, "runtime"))

Plan(r) == Schedule(Expanded(Selected(r), r.iterations))
=============================================================================
