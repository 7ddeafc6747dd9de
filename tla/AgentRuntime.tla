---------------------------- MODULE AgentRuntime ----------------------------
(***************************************************************************)
(* The agent processes that connections of one driver share:                *)
(* AgentRuntimeClient and the shared half of AgentDriverClient in           *)
(* crates/dbx-core/src/db/agent_driver.rs, and their registry in            *)
(* agent_runtime.rs.                                                        *)
(*                                                                         *)
(* A client looks its runtime up in the registry or starts it, opens a      *)
(* session on it, makes calls (queries, keepalive validations, a close) and *)
(* is dropped.  Calls of all clients go to one process; a reader thread     *)
(* hands the answers out by request id.  The runtime ends by a crash, by    *)
(* stop_daemons, by a failed keepalive, or some time after its last session *)
(* is gone.  Calls are written with a step per shared variable they touch:  *)
(* they run on several threads.                                             *)
(***************************************************************************)
EXTENDS Naturals, FiniteSets

CONSTANTS
    Clients,     \* connections that share the runtime
    Budget,      \* bound on the calls of each client (u64 ids in the code)
    MaxRuntimes, \* bound on the runtimes in use at a time
    Faults       \* which of "crash", "timeout", "stdout" may happen

Runtimes == 1 .. MaxRuntimes
Ids == UNION {{c} \X (1 .. Budget[c]) : c \in Clients}

ASSUME AgentAssumption ==
    /\ IsFiniteSet(Clients)
    /\ Budget \in [Clients -> Nat \ {0}] /\ MaxRuntimes \in Nat \ {0}
    /\ Faults \subseteq {"crash", "timeout", "stdout"}

VARIABLES
    registry,   \* the entry of connection_runtimes, 0 for none
    cell,       \* the OnceCell of each entry ever made
    failed, count, pending, reader,   \* AgentRuntimeClient
    grace,      \* grace tasks that still sleep
    doomed,     \* runtimes a grace task has found idle and is about to kill
    alive, killed,     \* the processes; which of them have been killed
    sent, out,         \* its requests not answered yet; answers not read yet
    pc, rt, calls, method, outer, got, session,   \* the clients
    carried,    \* history: the clients whose current request the agent has answered
    last        \* history: how the last call of a client ended

runtimeVars == <<registry, cell, failed, count, pending, reader, grace, doomed,
                 alive, killed, sent, out>>
clientVars == <<pc, rt, calls, method, outer, got, session>>
vars == <<registry, cell, failed, count, pending, reader, grace, doomed, alive,
          killed, sent, out, pc, rt, calls, method, outer, got, session, carried, last>>

Init ==
    /\ registry = 0
    /\ cell = [g \in Runtimes |-> "none"]
    /\ failed = [g \in Runtimes |-> FALSE]
    /\ count = [g \in Runtimes |-> 0]
    /\ pending = [g \in Runtimes |-> {}]
    /\ reader = [g \in Runtimes |-> "none"]
    /\ grace = [g \in Runtimes |-> 0]
    /\ doomed = {}
    /\ alive = [g \in Runtimes |-> FALSE]
    /\ killed = {}
    /\ sent = [g \in Runtimes |-> {}]
    /\ out = [g \in Runtimes |-> {}]
    /\ pc = [c \in Clients |-> "idle"]
    /\ rt = [c \in Clients |-> 0]
    /\ calls = [c \in Clients |-> 0]
    /\ method = [c \in Clients |-> "none"]
    /\ outer = [c \in Clients |-> 0]
    /\ got = [c \in Clients |-> "none"]
    /\ session = [c \in Clients |-> FALSE]
    /\ carried = {}
    /\ last = [c \in Clients |-> "none"]

Id(c) == <<c, calls[c]>>

(***************************************************************************)
(* The runtime: fail_pending_requests, kill and decrement_session_count.    *)
(***************************************************************************)
Waiting(c) == pc[c] = "wait"
KeepEntries(g) == UNCHANGED <<pending, got>>
FailPending(g) ==
    /\ pending' = [pending EXCEPT ![g] = {}]
    /\ got' = [c \in Clients |->
                 IF Id(c) \in pending[g] /\ Waiting(c) THEN "gone" ELSE got[c]]

Kill(g) ==
    /\ failed' = [failed EXCEPT ![g] = TRUE]
    /\ killed' = IF alive[g] THEN killed \cup {g} ELSE killed
    /\ FailPending(g)

Decremented(n) == IF n = 0 THEN 0 ELSE n - 1
NoGrace(g) == count' = [count EXCEPT ![g] = Decremented(@)] /\ UNCHANGED grace
DecrementSessionCount(g) ==
    /\ count' = [count EXCEPT ![g] = Decremented(@)]
    /\ grace' = [grace EXCEPT ![g] = IF count[g] <= 1 THEN @ + 1 ELSE @]

(***************************************************************************)
(* spawn_shared_connection_client: the registry entry, whose failed runtime *)
(* is replaced, and the OnceCell that one of the waiting clients            *)
(* initialises.                                                             *)
(***************************************************************************)
Reusable == registry # 0 /\ ~failed[registry]

\* A new entry takes a number never used, or that of a runtime that is gone
\* and in nobody's hands.
Unused(g) ==
    \/ cell[g] = "none"
    \/ /\ ~alive[g] /\ reader[g] # "run"
       /\ grace[g] = 0 /\ g \notin doomed /\ \A c \in Clients : rt[c] # g

Lookup(c) ==
    /\ pc[c] = "idle"
    /\ \/ /\ Reusable
          /\ rt' = [rt EXCEPT ![c] = registry]
          /\ UNCHANGED <<registry, cell, failed, reader>>
       \/ /\ ~Reusable
          /\ \E g \in Runtimes :
                /\ Unused(g) /\ \A h \in Runtimes : h < g => ~Unused(h)
                /\ registry' = g
                /\ cell' = [cell EXCEPT ![g] = "empty"]
                /\ failed' = [failed EXCEPT ![g] = FALSE]
                /\ reader' = [reader EXCEPT ![g] = "none"]
                /\ rt' = [rt EXCEPT ![c] = g]
    /\ pc' = [pc EXCEPT ![c] = "init"]
    /\ UNCHANGED <<count, pending, grace, doomed, alive, killed, sent, out,
                   calls, method, outer, got, session, carried, last>>

\* The head of a call: the next id is its own.
BeginCall(c, m) ==
    /\ pc' = [pc EXCEPT ![c] = "check"]
    /\ method' = [method EXCEPT ![c] = m]
    /\ calls' = [calls EXCEPT ![c] = @ + 1]
    /\ got' = [got EXCEPT ![c] = "none"]

BeginInit(c) ==
    /\ pc[c] = "init" /\ cell[rt[c]] = "empty"
    /\ cell' = [cell EXCEPT ![rt[c]] = "init"]
    /\ pc' = [pc EXCEPT ![c] = "spawn"]
    /\ UNCHANGED <<registry, failed, count, pending, reader, grace, doomed, alive, killed,
                   sent, out, rt, calls, method, outer, got, session, carried, last>>

\* AgentRuntimeClient::spawn with its handshake, which nobody else takes part in.
SpawnReady(c) ==
    /\ pc[c] = "spawn"
    /\ cell' = [cell EXCEPT ![rt[c]] = "ready"]
    /\ alive' = [alive EXCEPT ![rt[c]] = TRUE]
    /\ reader' = [reader EXCEPT ![rt[c]] = "run"]
    /\ pc' = [pc EXCEPT ![c] = "init"]
    /\ UNCHANGED <<registry, failed, count, pending, grace, doomed, killed, sent, out,
                   rt, calls, method, outer, got, session, carried, last>>

SpawnFails(c) ==
    /\ pc[c] = "spawn"
    /\ cell' = [cell EXCEPT ![rt[c]] = "empty"]
    /\ pc' = [pc EXCEPT ![c] = "done"]
    /\ rt' = [rt EXCEPT ![c] = 0]
    /\ UNCHANGED <<registry, failed, count, pending, reader, grace, doomed, alive, killed,
                   sent, out, calls, method, outer, got, session, carried, last>>

OpenSession(c) ==
    /\ pc[c] = "init" /\ cell[rt[c]] = "ready"
    /\ BeginCall(c, "open")
    /\ UNCHANGED <<runtimeVars, rt, outer, session, carried, last>>

(***************************************************************************)
(* What the caller does with the result of its call: the session of         *)
(* OpenSession is counted; a keepalive that fails kills the runtime; a      *)
(* close that succeeds gives its count back and clears the session id, one  *)
(* that fails leaves both to Drop; a cancelled query first drops its entry. *)
(***************************************************************************)
Taken(c) == got' = [got EXCEPT ![c] = "none"]
Finish(c, r) ==
    LET g == rt[c]  m == method[c] IN
    /\ last' = [last EXCEPT ![c] = IF r \in {"ok", "err"} THEN "answered" ELSE "failed"]
    /\ carried' = carried \ {c}
    /\ pc' = [pc EXCEPT ![c] = CASE m = "open" /\ r # "ok" -> "done"
                                 [] m = "close" -> "drop"
                                 [] OTHER -> "ready"]
    /\ rt' = [rt EXCEPT ![c] = IF m = "open" /\ r # "ok" THEN 0 ELSE @]
    /\ session' = [session EXCEPT ![c] = IF r = "ok" /\ m \in {"open", "close"}
                                         THEN m = "open" ELSE @]
    /\ method' = [method EXCEPT ![c] = "none"]
    /\ outer' = [outer EXCEPT ![c] = 0]
    /\ CASE m = "open" /\ r = "ok" ->
              /\ count' = [count EXCEPT ![g] = @ + 1]
              /\ Taken(c) /\ UNCHANGED <<grace, failed, killed, pending>>
         [] m = "close" /\ r = "ok" ->
              /\ DecrementSessionCount(g)
              /\ Taken(c) /\ UNCHANGED <<failed, killed, pending>>
         [] m = "validate" /\ r # "ok" ->
              /\ Kill(g)
              /\ UNCHANGED <<count, grace>>
         [] m = "cancel" ->
              /\ pending' = [pending EXCEPT ![g] = @ \ {<<c, outer[c]>>}]
              /\ Taken(c) /\ UNCHANGED <<count, grace, failed, killed>>
         [] OTHER -> Taken(c) /\ UNCHANGED <<count, grace, failed, killed, pending>>
    /\ UNCHANGED <<registry, cell, reader, doomed, alive, sent, out, calls>>

(***************************************************************************)
(* call: check the flag, enter pending and write, wait.                     *)
(***************************************************************************)
CallCheck(c) ==
    /\ pc[c] = "check"
    /\ \/ failed[rt[c]] /\ Finish(c, "gone")
       \/ /\ ~failed[rt[c]]
          /\ pc' = [pc EXCEPT ![c] = "write"]
          /\ UNCHANGED <<runtimeVars, rt, calls, method, outer, got, session, carried, last>>

\* The entry and the line on stdin.
CallWrite(c) ==
    /\ pc[c] = "write" /\ alive[rt[c]]
    /\ pending' = [pending EXCEPT ![rt[c]] = @ \cup {Id(c)}]
    /\ sent' = [sent EXCEPT ![rt[c]] = @ \cup {Id(c)}]
    /\ pc' = [pc EXCEPT ![c] = "wait"]
    /\ UNCHANGED <<registry, cell, failed, count, reader, grace, doomed, alive, killed,
                   out, rt, calls, method, outer, got, session, carried, last>>

\* The process is gone: the write fails and the entry is taken back.
WriteFails(c) ==
    /\ pc[c] = "write" /\ ~alive[rt[c]]
    /\ Finish(c, "gone")

CallReply(c) ==
    /\ pc[c] = "wait" /\ got[c] # "none"
    /\ Finish(c, got[c])

\* The early return of a timeout leaves the entry in pending.
CallTimeout(c) ==
    /\ pc[c] = "wait" /\ got[c] = "none"
    /\ "timeout" \in Faults
    /\ Finish(c, "timeout")

\* The token of a query fires: its receiver is dropped, and a CancelSession call
\* is made before the entry is removed.
Cancel(c) ==
    /\ pc[c] = "wait" /\ method[c] = "query" /\ calls[c] < Budget[c]
    /\ outer' = [outer EXCEPT ![c] = calls[c]]
    /\ last' = [last EXCEPT ![c] = "failed"]
    /\ carried' = carried \ {c}
    /\ BeginCall(c, "cancel")
    /\ UNCHANGED <<runtimeVars, rt, session>>

(***************************************************************************)
(* The owner of a client with a session: it calls, closes, or just drops it.*)
(***************************************************************************)
Call(c, m) ==
    /\ pc[c] = "ready" /\ calls[c] < Budget[c]
    /\ m \in {"query", "validate", "close"}
    /\ BeginCall(c, m)
    /\ UNCHANGED <<runtimeVars, rt, outer, session, carried, last>>

AlwaysDecrement(c) == TRUE
HasSession(c) == session[c]
KeepSession(c) == UNCHANGED session
TakeSession(c) == session' = [session EXCEPT ![c] = FALSE]
Drop(c) ==
    /\ pc[c] \in {"ready", "drop"}
    /\ IF HasSession(c) THEN DecrementSessionCount(rt[c]) ELSE UNCHANGED <<count, grace>>
    /\ TakeSession(c)
    /\ pc' = [pc EXCEPT ![c] = "done"]
    /\ rt' = [rt EXCEPT ![c] = 0]
    /\ UNCHANGED <<registry, cell, failed, pending, reader, doomed, alive, killed, sent, out,
                   calls, method, outer, got, carried, last>>

(***************************************************************************)
(* The reader thread, the grace tasks and stop_daemons.                     *)
(***************************************************************************)
LeaveEntry(g, r) == UNCHANGED pending
RemoveEntry(g, r) == pending' = [pending EXCEPT ![g] = @ \ {r.id}]
AnyCaller(r) == {c \in Clients : pc[c] = "wait" /\ got[c] = "none"}
CallerOf(r) == {c \in Clients : Waiting(c) /\ Id(c) = r.id}

ReaderDeliver(g) ==
    /\ reader[g] = "run"
    /\ \E r \in out[g] :
        /\ out' = [out EXCEPT ![g] = @ \ {r}]
        /\ RemoveEntry(g, r)
        /\ got' = [c \in Clients |-> IF c \in CallerOf(r) /\ r.id \in pending[g]
                                     THEN r.reply ELSE got[c]]
    /\ UNCHANGED <<registry, cell, failed, count, reader, grace, doomed, alive, killed, sent,
                   pc, rt, calls, method, outer, session, carried, last>>

StreamEnded(g) == ~alive[g] /\ out[g] = {}

ReaderEnd(g) ==
    /\ reader[g] = "run"
    /\ StreamEnded(g) \/ "stdout" \in Faults
    /\ reader' = [reader EXCEPT ![g] = "done"]
    /\ failed' = [failed EXCEPT ![g] = TRUE]
    /\ FailPending(g)
    /\ UNCHANGED <<registry, cell, count, grace, doomed, alive, killed, sent, out,
                   pc, rt, calls, method, outer, session, carried, last>>

\* A grace task wakes up and looks at the count, then kills.
GraceCheck(g) ==
    /\ grace[g] > 0
    /\ grace' = [grace EXCEPT ![g] = @ - 1]
    /\ doomed' = IF count[g] = 0 THEN doomed \cup {g} ELSE doomed
    /\ UNCHANGED <<registry, cell, failed, count, pending, reader, alive, killed, sent, out,
                   clientVars, carried, last>>

GraceKill(g) ==
    /\ g \in doomed
    /\ doomed' = doomed \ {g}
    /\ Kill(g)
    /\ UNCHANGED <<registry, cell, count, reader, grace, alive, sent, out,
                   pc, rt, calls, method, outer, session, carried, last>>

\* stop_daemons and stop_daemon_by_key: a cell still without a runtime is only
\* forgotten.
StopDaemons ==
    /\ registry # 0
    /\ registry' = 0
    /\ IF cell[registry] = "ready" THEN Kill(registry)
                                   ELSE UNCHANGED <<failed, killed, pending, got>>
    /\ UNCHANGED <<cell, count, reader, grace, doomed, alive, sent, out,
                   pc, rt, calls, method, outer, session, carried, last>>

(***************************************************************************)
(* The agent: it works on several requests at once and answers in any       *)
(* order.  It ends when killed, when it crashes, and when its stdin is      *)
(* closed because nobody holds the runtime any more.                        *)
(***************************************************************************)
AgentAnswers(g) ==
    /\ alive[g]
    /\ \E r \in sent[g], reply \in {"ok", "err"} :
        /\ sent' = [sent EXCEPT ![g] = @ \ {r}]
        /\ out' = [out EXCEPT ![g] = @ \cup {[id |-> r, reply |-> reply]}]
        /\ carried' = carried \cup {c \in Clients : Waiting(c) /\ Id(c) = r}
    /\ UNCHANGED <<registry, cell, failed, count, pending, reader, grace, doomed, alive, killed,
                   clientVars, last>>

Held(g) == registry = g \/ grace[g] > 0 \/ g \in doomed \/ \E c \in Clients : rt[c] = g

AgentEnds(g) ==
    /\ alive[g]
    /\ g \in killed \/ ~Held(g) \/ "crash" \in Faults
    /\ alive' = [alive EXCEPT ![g] = FALSE]
    /\ killed' = killed \ {g}
    /\ sent' = [sent EXCEPT ![g] = {}]
    /\ UNCHANGED <<registry, cell, failed, count, pending, reader, grace, doomed, out,
                   clientVars, carried, last>>

ClientStep(c) ==
    \/ BeginInit(c) \/ SpawnReady(c) \/ OpenSession(c)
    \/ CallCheck(c) \/ CallWrite(c) \/ WriteFails(c) \/ CallReply(c)
    \/ pc[c] = "drop" /\ Drop(c)

Next ==
    \/ \E c \in Clients :
        \/ Lookup(c) \/ SpawnFails(c) \/ ClientStep(c) \/ CallTimeout(c) \/ Cancel(c) \/ Drop(c)
        \/ \E m \in {"query", "validate", "close"} : Call(c, m)
    \/ \E g \in Runtimes :
        ReaderDeliver(g) \/ ReaderEnd(g) \/ GraceCheck(g) \/ GraceKill(g)
        \/ AgentAnswers(g) \/ AgentEnds(g)
    \/ StopDaemons

(***************************************************************************)
(* Fairness: tasks are polled, sleeping ones wake up, the reader reads, and *)
(* an agent answers and ends when it is killed.  Nothing is assumed of      *)
(* users, timeouts, crashes and cancellations.                              *)
(***************************************************************************)
Fairness ==
    /\ \A c \in Clients : WF_vars(ClientStep(c))
    /\ \A g \in Runtimes :
        /\ WF_vars(ReaderDeliver(g)) /\ WF_vars(StreamEnded(g) /\ ReaderEnd(g))
        /\ WF_vars(GraceCheck(g)) /\ WF_vars(GraceKill(g))
        /\ WF_vars(AgentAnswers(g)) /\ WF_vars((g \in killed \/ ~Held(g)) /\ AgentEnds(g))

Spec == Init /\ [][Next]_vars
FairSpec == Spec /\ Fairness

----------------------------------------------------------------------------
TypeOK ==
    /\ registry \in 0 .. MaxRuntimes
    /\ cell \in [Runtimes -> {"none", "empty", "init", "ready"}]
    /\ failed \in [Runtimes -> BOOLEAN] /\ alive \in [Runtimes -> BOOLEAN]
    /\ count \in [Runtimes -> 0 .. Cardinality(Clients)]
    /\ pending \in [Runtimes -> SUBSET Ids] /\ sent \in [Runtimes -> SUBSET Ids]
    /\ out \in [Runtimes -> SUBSET [id : Ids, reply : {"ok", "err"}]]
    /\ reader \in [Runtimes -> {"none", "run", "done"}]
    /\ grace \in [Runtimes -> Nat] /\ doomed \subseteq Runtimes
    /\ killed \subseteq Runtimes
    /\ pc \in [Clients -> {"idle", "init", "spawn", "check", "write", "wait",
                           "ready", "drop", "done"}]
    /\ rt \in [Clients -> 0 .. MaxRuntimes]
    /\ calls \in [Clients -> Nat] /\ outer \in [Clients -> Nat]
    /\ method \in [Clients -> {"none", "open", "query", "validate", "close", "cancel"}]
    /\ got \in [Clients -> {"none", "ok", "err", "gone"}]
    /\ session \in [Clients -> BOOLEAN] /\ \A c \in Clients : session[c] => rt[c] # 0
    /\ carried \subseteq Clients /\ last \in [Clients -> {"none", "answered", "failed"}]

(***************************************************************************)
(* A call that waits has an entry in pending and the reader thread that     *)
(* will answer or fail it, however the flag check, the entry, the write, a  *)
(* kill, a crash and the end of the stream interleave.  A query may wait    *)
(* without a timeout, so a call that missed the last fail_pending_requests  *)
(* would never return.                                                      *)
(***************************************************************************)
NoOrphanCall ==
    \A c \in Clients :
        pc[c] = "wait" /\ got[c] = "none" =>
            Id(c) \in pending[rt[c]] /\ reader[rt[c]] = "run"

(***************************************************************************)
(* active_sessions counts the clients that hold a session of the runtime:   *)
(* each is counted back once, by a close that succeeds or by Drop after one *)
(* that fails, and an OpenSession that fails is never counted.              *)
(***************************************************************************)
CountIsSessions ==
    \A g \in Runtimes :
        count[g] = Cardinality({c \in Clients : session[c] /\ rt[c] = g})

(***************************************************************************)
(* An entry whose caller has given up (a timeout returns without removing   *)
(* it) stays only as long as the agent owes the answer or the stream has    *)
(* still to end: pending does not keep what nobody will ever remove.        *)
(***************************************************************************)
Calling(r) == \E c \in Clients : r[1] = c /\ (r[2] = outer[c] \/ (Waiting(c) /\ r[2] = calls[c]))
AbandonedEntriesLeave ==
    \A g \in Runtimes : \A r \in pending[g] :
        \/ Calling(r)
        \/ reader[g] = "run" /\ (alive[g] => r \in sent[g] \/ \E a \in out[g] : a.id = r)

(***************************************************************************)
(* Every call returns, with its CancelSession if it is cancelled, whatever  *)
(* ends the runtime in the meantime.                                        *)
(***************************************************************************)
CallsReturn ==
    \A c \in Clients : pc[c] \in {"init", "spawn", "check", "write", "wait"}
                            ~> pc[c] \in {"ready", "drop", "done"}

(***************************************************************************)
(* A runtime that has lost its last session does not run on for ever: a     *)
(* grace task ends it unless a new session comes.                           *)
(***************************************************************************)
IdleRuntimeEnds ==
    \A g \in Runtimes : count[g] > 0 ~> (~alive[g] \/ []<>(count[g] > 0))

(***************************************************************************)
(* The shared runtime is a RequestChannel: a caller is answered only after  *)
(* the agent has carried out this caller's own request, though answers come *)
(* late, out of order, and after calls that were given up.                  *)
(***************************************************************************)
Channel == INSTANCE RequestChannel WITH
    Callers <- Clients,
    request <- [c \in Clients |-> IF ~Waiting(c) THEN "free"
                                  ELSE IF c \in carried THEN "carried" ELSE "asked"]
ImplementsChannel == Channel!ChannelSpec

(***************************************************************************)
(* "Shared-session clients do not own the runtime process [...] dropping    *)
(* one tab must not kill other tabs": what one client does, or the grace    *)
(* task it leaves behind, never ends a runtime on which another client has  *)
(* a session or is opening one.                                             *)
(***************************************************************************)
Uses(c, g) == rt[c] = g /\ (session[c] \/ method[c] = "open")
KillSparesOthers ==
    [][\A g \in Runtimes :
        killed' # killed /\ (GraceKill(g) \/ \E c \in Clients : Uses(c, g) /\ CallReply(c)) =>
            \A c \in Clients : Uses(c, g) => CallReply(c)]_vars
=============================================================================
