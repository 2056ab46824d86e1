---------------------- MODULE MC_ContainerInvocation ----------------------
(***************************************************************************)
(* Small instances of ContainerInvocation for TLC: OpenCode calls with and *)
(* without a preflight, a database and an ambiguous reasoning, Copilot     *)
(* calls with and without a token, and one that is refused.                *)
(***************************************************************************)
EXTENDS ContainerInvocation

MCOpencode == {r \in AllRequests :
    /\ r.transport = "opencode" /\ ~r.skill /\ ~r.auth
    /\ r.pinned = r.database
    /\ r.ambiguous => r.agent /\ ~r.plugin}

MCCopilot == {r \in AllRequests :
    /\ r.transport = "copilot" /\ ~r.skill /\ ~r.plugin /\ ~r.agent /\ ~r.database /\ ~r.ambiguous
    /\ r.pinned => r.auth}

MCRequests == MCOpencode \cup MCCopilot
=============================================================================
