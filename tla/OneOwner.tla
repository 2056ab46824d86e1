------------------------------ MODULE OneOwner ------------------------------
(***************************************************************************)
(* What an artifact directory promises: it belongs to one run at a time,   *)
(* only that run's files are put into it, and it changes hands only while  *)
(* it holds none.  Somebody may empty it at any time.                      *)
(***************************************************************************)
CONSTANTS Runs, NoRun

VARIABLES holder,   \* the run that owns the directory, or NoRun
          contents  \* the runs that have files in it

Init == holder = NoRun /\ contents = {}

Claim ==
    /\ holder = NoRun /\ contents = {}
    /\ holder' \in Runs /\ UNCHANGED contents

Release == contents = {} /\ holder' = NoRun /\ UNCHANGED contents

Put ==
    /\ holder \in Runs
    /\ contents' = contents \cup {holder} /\ UNCHANGED holder

Empty == holder' = NoRun /\ contents' = {}

Next == Claim \/ Release \/ Put \/ Empty

Spec == Init /\ [][Next]_<<holder, contents>>
=============================================================================
