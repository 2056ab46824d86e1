----------------------------- MODULE AtMostOnce -----------------------------
(***************************************************************************)
(* What the attempt loop promises to whoever pays for side effects: a      *)
(* bounded number of tries, and none after one that may have acted.  The   *)
(* abstract specification that EvaluationPhase implements once for the     *)
(* target and once for the judge.                                          *)
(***************************************************************************)
EXTENDS Naturals

CONSTANT Max

VARIABLES tried,    \* tries so far
          acted     \* whether one of them may have had a side effect

Init == tried = 0 /\ acted = FALSE

Try ==
    /\ ~acted
    /\ tried < Max
    /\ tried' = tried + 1
    /\ acted' \in BOOLEAN

Spec == Init /\ [][Try]_<<tried, acted>>
=============================================================================
