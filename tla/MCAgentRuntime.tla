--------------------------- MODULE MCAgentRuntime ---------------------------
(***************************************************************************)
(* Two connections of one driver, and one or two runtimes one after the     *)
(* other.                                                                   *)
(***************************************************************************)
EXTENDS AgentRuntime, TLC

CONSTANTS c1, c2

\* The first connection opens, queries and cancels, validates or closes; the
\* second only opens its session.
Uneven == [c \in Clients |-> IF c = c1 THEN 3 ELSE 1]
=============================================================================
