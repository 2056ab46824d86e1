------------------------- MODULE MC_SharedIdentity -------------------------
(***************************************************************************)
(* An instance of NativeObserver for TLC: three plain calls, two of which  *)
(* have one identity and may be under way at once or in turn.              *)
(***************************************************************************)
EXTENDS NativeObserver, TLC

CONSTANTS p, q, r

SharedSettings ==
    {[tool |-> [c \in {p, q, r} |-> "plain"], maxCapture |-> 8, maxChunk |-> 1, deferred |-> TRUE]}
SharedKey == p :> "k1" @@ q :> "k1" @@ r :> "k2"
NoOuter   == <<>>

(* Calls with the same tool and the same identity are interchangeable.      *)
Symmetry == Permutations({p, q})
=============================================================================
