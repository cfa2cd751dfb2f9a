--------------------------- MODULE MCSwarmRuntime ---------------------------
(***************************************************************************)
(* Two agents: a1 is new or was left paused, a2 is active at boot and keeps *)
(* the dispatcher busy.                                                     *)
(***************************************************************************)
EXTENDS SwarmRuntime

CONSTANTS a1, a2

MCAgents == {a1, a2}
MCRows == {r \in [MCAgents -> {"absent", "active", "paused"}] : r[a1] # "active" /\ r[a2] = "active"}
PausedRows == {r \in [MCAgents -> {"active", "paused"}] : r[a1] = "paused" /\ r[a2] = "active"}

=============================================================================
