--------------------------- MODULE OneInvocation ---------------------------
(***************************************************************************)
(* What one `invoke` call promises to the attempt loop.  The model may act *)
(* while the call is pending; the call ends once, by returning one reply   *)
(* that is true of what the model did, or by an exception.  After a reply  *)
(* nothing of the call acts any more, which is what makes a replay of it a *)
(* replay; after an exception it still may, and the loop never repeats     *)
(* those.  ContainerInvocation implements this specification, and the      *)
(* actions InvokeReturns, InvokeFails and Escape of EvaluationPhase assume *)
(* nothing more of their environment.                                      *)
(***************************************************************************)
CONSTANTS Replies,     \* the replies that are true of what the model did
          Exceptions   \* the exceptions a call may end with

VARIABLES acted,      \* whether the model ran a tool
          outcome,    \* "pending", "returned" or an exception
          reply       \* the reply, once returned

Init == acted = FALSE /\ outcome = "pending" /\ reply = <<>>

Act ==
    /\ outcome # "returned"
    /\ acted' = TRUE
    /\ UNCHANGED <<outcome, reply>>

Return ==
    /\ outcome = "pending"
    /\ outcome' = "returned"
    /\ reply' = <<reply'[1]>> /\ reply'[1] \in Replies /\ reply'[1].acted = acted
    /\ UNCHANGED acted

Raise ==
    /\ outcome = "pending"
    /\ outcome' \in Exceptions
    /\ UNCHANGED <<acted, reply>>

Spec == Init /\ [][Act \/ Return \/ Raise]_<<acted, outcome, reply>>
=============================================================================
