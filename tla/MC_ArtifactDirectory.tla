------------------------ MODULE MC_ArtifactDirectory ------------------------
(***************************************************************************)
(* Small instances of ArtifactDirectory for TLC.                           *)
(***************************************************************************)
EXTENDS ArtifactDirectory, TLC

CONSTANTS p1, p2, p3, r1, r2

(* Two processes of one run, one of which may reopen what the other claimed, *)
(* and one of another run.                                                  *)
SharedRun == p1 :> r1 @@ p2 :> r1 @@ p3 :> r2
=============================================================================
