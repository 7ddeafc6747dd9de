--------------------------- MODULE RequestChannel ---------------------------
(***************************************************************************)
(* What the callers of a child process may rely on, one request at a time   *)
(* each: a caller is answered only after the very request it asked has been *)
(* carried out, otherwise it gets an error.  An error says nothing about    *)
(* whether the request was or will be carried out.                          *)
(*                                                                         *)
(* AgentRuntime implements it for the agent processes that connections      *)
(* share.                                                                   *)
(***************************************************************************)
CONSTANT Callers

VARIABLES request,   \* "free", "asked" or "carried"
          last       \* how the last call ended

channelVars == <<request, last>>

ChannelInit ==
    /\ request = [c \in Callers |-> "free"]
    /\ last = [c \in Callers |-> "none"]

Ask(c) ==
    /\ request[c] = "free"
    /\ request' = [request EXCEPT ![c] = "asked"]
    /\ UNCHANGED last

CarryOut(c) ==
    /\ request[c] = "asked"
    /\ request' = [request EXCEPT ![c] = "carried"]
    /\ UNCHANGED last

Answer(c) ==
    /\ request[c] = "carried"
    /\ request' = [request EXCEPT ![c] = "free"]
    /\ last' = [last EXCEPT ![c] = "answered"]

\* Also without asking: nothing is sent to a process known to be gone.
Fail(c) ==
    /\ request' = [request EXCEPT ![c] = "free"]
    /\ last' = [last EXCEPT ![c] = "failed"]

ChannelNext == \E c \in Callers : Ask(c) \/ CarryOut(c) \/ Answer(c) \/ Fail(c)

ChannelSpec == ChannelInit /\ [][ChannelNext]_channelVars
=============================================================================
