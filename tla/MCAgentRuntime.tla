--------------------------- MODULE MCAgentRuntime ---------------------------
(* One reader that sleeps, and the two that do not. *)
EXTENDS AgentRuntime

CONSTANTS conn, lat, veth

MCReaders == {conn, lat, veth}
=============================================================================
