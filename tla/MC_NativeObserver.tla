------------------------- MODULE MC_NativeObserver -------------------------
(***************************************************************************)
(* Small instances of NativeObserver for TLC: an execute with an inner     *)
(* call, and two Code Mode executes with one identity.                     *)
(***************************************************************************)
EXTENDS NativeObserver

ExecuteKey   == [e |-> "k1"]
ExecuteOuter == [i |-> "e"]

(* The execute is the Code Mode one, with a receiving thread that starts    *)
(* late and a capture that may just overflow, or a registered tool of that  *)
(* name, with a thread at work from the start and a capture that is soon    *)
(* full.                                                                    *)
ExecuteSettings ==
    {[tool |-> [e |-> "synthetic"], maxCapture |-> 6, maxChunk |-> 1, deferred |-> TRUE],
     [tool |-> [e |-> "registered"], maxCapture |-> 4, maxChunk |-> 2, deferred |-> FALSE]}

SameExecuteKey == [e |-> "k1", f |-> "k1"]
NoOuter == <<>>
SameExecuteSettings ==
    {[tool |-> [e |-> "synthetic", f |-> "synthetic"],
      maxCapture |-> 6, maxChunk |-> 1, deferred |-> TRUE]}
=============================================================================
