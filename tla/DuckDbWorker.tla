---------------------------- MODULE DuckDbWorker ----------------------------
(***************************************************************************)
(* The DuckDB worker: DuckDbWorkerClient in                                 *)
(* crates/dbx-core/src/db/duckdb_worker_process.rs and the child process it *)
(* talks to over pipes, duckdb_worker_runtime.rs.                           *)
(*                                                                         *)
(* Concurrent calls of one client start the child when it is missing, send  *)
(* it requests, wait for responses a reader task hands out, and kill it on  *)
(* cancellation, timeout and poisoned connections.  Each child has a        *)
(* generation; a pending request belongs to the generation it was written   *)
(* to.  One action is what a task does under one lock, between two awaits.  *)
(***************************************************************************)
EXTENDS Naturals, Sequences, FiniteSets

CONSTANTS
    Execs,       \* calls of execute
    Metas,       \* calls of metadata_request (list_*, attach_database)
    Shutdowns,   \* calls of shutdown
    Retries,     \* connect retries duckdb_connect_file_lock_retry_delay grants
    Limit,       \* permits of the process limiter the client was given
    MaxLimiters, \* bound on the limiters made after it
    MaxGen,      \* bound on the children started (u64 in the code)
    Scenarios,   \* which calls are made, which of "crash", "timeout", "stdout" and
                 \* "lock" may happen, and the limits later clients are opened with
    NoCall       \* holder of a free lock

\* The task register_interrupt spawns for the query of call e when the user
\* cancels it.
Killer(e) == <<"kill", e>>
Killers == {Killer(e) : e \in Execs}
Calls == Execs \cup Metas \cup Shutdowns
Tasks == Calls \cup Killers
Gens == 1 .. MaxGen

ASSUME ConstantAssumption ==
    /\ Retries \in Nat /\ Limit \in Nat \ {0} /\ MaxGen \in Nat \ {0}
    /\ MaxLimiters \in Nat
    /\ \A s \in Scenarios : /\ s.calls \subseteq Calls
                             /\ s.faults \subseteq {"crash", "timeout", "stdout", "lock"}
                             /\ s.limits \subseteq Nat \ {0}
    /\ NoCall \notin Tasks
    /\ Execs \cap (Metas \cup Shutdowns) = {} /\ Metas \cap Shutdowns = {}
    /\ Calls \cap Killers = {}

VARIABLES
    scenario,
    \* WorkerProcessState, behind one mutex
    child,        \* generation of state.child, 0 for None
    connected,
    generation,
    \* the client's other shared state
    connectLock, queryLock,
    pend,         \* generation of a call's entry in pending, 0 if it has none
    others,       \* permits of its limiter held by other clients
    later,        \* the limiters made since, the last one for clients to come
    \* one child process and one reader task per generation
    alive, session, active, inbox, outbox, reader,
    \* the calls
    pc, req, resp, tries, after, killgen, cancelled, result

stateVars == <<child, connected, generation>>
workerVars == <<alive, session, active, inbox, outbox, reader>>
callVars == <<req, resp, tries, after, killgen, cancelled, result>>
vars == <<scenario, child, connected, generation, connectLock, queryLock, pend, others, later,
          alive, session, active, inbox, outbox, reader,
          pc, req, resp, tries, after, killgen, cancelled, result>>

(***************************************************************************)
(* A request carries the call and the number of the request within it,      *)
(* which stands for the unique request id.                                  *)
(***************************************************************************)
Methods == {"connect", "execute", "meta", "shutdown"}
Replies == {"ok", "err", "lock", "poisoned", "unconnected", "busy", "gone"}
Request(c, m) == [call |-> c, n |-> req[c] + 1, method |-> m]
Response(q, r) == [call |-> q.call, n |-> q.n, reply |-> r]
MethodOf(c) == CASE c \in Execs -> "execute"
                 [] c \in Metas -> "meta"
                 [] OTHER -> "shutdown"

Init ==
    /\ scenario \in Scenarios
    /\ child = 0 /\ connected = FALSE /\ generation = 0
    /\ connectLock = NoCall /\ queryLock = NoCall
    /\ pend = [c \in Calls |-> 0]
    /\ others = 0 /\ later = <<>>
    /\ alive = [g \in Gens |-> FALSE]
    /\ session = [g \in Gens |-> "none"]
    /\ active = [g \in Gens |-> <<>>]
    /\ inbox = [g \in Gens |-> <<>>]
    /\ outbox = [g \in Gens |-> <<>>]
    /\ reader = [g \in Gens |-> "none"]
    /\ pc = [t \in Tasks |-> "idle"]
    /\ req = [c \in Calls |-> 0]
    /\ resp = [c \in Calls |-> "none"]
    /\ tries = [c \in Calls |-> 0]
    /\ after = [t \in Tasks |-> "done"]
    /\ killgen = [t \in Tasks |-> 0]
    /\ cancelled = {}
    /\ result = [c \in Calls |-> "none"]

Goto(t, label) == pc' = [pc EXCEPT ![t] = label]
KeptLock(lock, c) == lock
Freed(lock, c) == IF lock = c THEN NoCall ELSE lock

\* A call returns: it drops the guards of the locks it still holds.
Return(c, r) ==
    /\ Goto(c, "done")
    /\ result' = [result EXCEPT ![c] = r]
    /\ connectLock' = Freed(connectLock, c)
    /\ queryLock' = Freed(queryLock, c)

\* A call goes on to kill the child; next says what it does afterwards.
GoKill(c, next) ==
    /\ Goto(c, "take")
    /\ after' = [after EXCEPT ![c] = next]

(***************************************************************************)
(* ensure_started_locked.  A running child is kept.  Otherwise the          *)
(* generation moves on and a permit is awaited: a new child is spawned with *)
(* its reader, or the wait or the spawn fails and there is no child.        *)
(***************************************************************************)
Readers == {g \in Gens : reader[g] = "run"}
Running == child # 0 /\ alive[child]
AlwaysFree == TRUE
PermitFree == Cardinality(Readers) + others < Limit
StartOutcomes ==
    IF Running
    THEN {[ok |-> TRUE, child |-> child, connected |-> connected, generation |-> generation]}
    ELSE {[ok |-> FALSE, child |-> 0, connected |-> FALSE, generation |-> g] :
             g \in {IF generation < MaxGen THEN generation + 1 ELSE MaxGen}}
         \cup {[ok |-> TRUE, child |-> g, connected |-> FALSE, generation |-> g] :
                 g \in {h \in Gens : h = generation + 1 /\ PermitFree}}
SameGeneration(o) ==
    child' = o.child /\ connected' = o.connected /\ generation' = generation
NewState(o) ==
    child' = o.child /\ connected' = o.connected /\ generation' = o.generation
Started(o) ==
    /\ NewState(o)
    /\ IF o.ok /\ o.child # child
       THEN /\ alive' = [alive EXCEPT ![o.child] = TRUE]
            /\ reader' = [reader EXCEPT ![o.child] = "run"]
       ELSE UNCHANGED <<alive, reader>>

\* send_request_structured up to the flush: the pending entry and the line on
\* the child's stdin.
Written(c, m, g) ==
    /\ pend' = [pend EXCEPT ![c] = g]
    /\ inbox' = [inbox EXCEPT ![g] = Append(@, Request(c, m))]
    /\ req' = [req EXCEPT ![c] = @ + 1]
    /\ resp' = [resp EXCEPT ![c] = "none"]

(***************************************************************************)
(* The calls begin.  execute first takes query_lock, outside the select     *)
(* that watches its cancellation; shutdown sends without connecting.        *)
(***************************************************************************)
CallStart(c) ==
    /\ c \in scenario.calls /\ pc[c] = "idle"
    /\ Goto(c, CASE c \in Execs -> "query"
                 [] c \in Metas -> "connect"
                 [] OTHER -> "send")
    /\ UNCHANGED <<scenario, stateVars, connectLock, queryLock, pend, others, later, workerVars, callVars>>

AnyQuery == TRUE
QueryLockFree == queryLock = NoCall
ExecQueryLock(e) ==
    /\ pc[e] = "query" /\ QueryLockFree
    /\ queryLock' = e
    /\ Goto(e, "connect")
    /\ UNCHANGED <<scenario, stateVars, connectLock, pend, others, later, workerVars, callVars>>

(***************************************************************************)
(* ensure_connected, under connect_lock.                                    *)
(***************************************************************************)
EnsureLock(c) ==
    /\ pc[c] = "connect" /\ connectLock = NoCall
    /\ connectLock' = c
    /\ Goto(c, "start")
    /\ UNCHANGED <<scenario, stateVars, queryLock, pend, others, later, workerVars, callVars>>

EnsureStart(c) ==
    /\ pc[c] = "start"
    /\ \E o \in StartOutcomes :
        /\ Started(o)
        /\ \/ ~o.ok /\ Return(c, "err")
           \/ /\ o.ok /\ o.connected
              /\ Goto(c, "send")
              /\ connectLock' = NoCall
              /\ UNCHANGED <<queryLock, result>>
           \/ /\ o.ok /\ ~o.connected
              /\ Goto(c, "csend")
              /\ UNCHANGED <<connectLock, queryLock, result>>
    /\ UNCHANGED <<scenario, pend, others, later, session, active, inbox, outbox,
                   req, resp, tries, after, killgen, cancelled>>

\* The Connect request; a failure to send it ends in a kill like any other.
EnsureSend(c) ==
    /\ pc[c] = "csend"
    /\ \E o \in StartOutcomes :
        /\ Started(o)
        /\ \/ /\ o.ok
              /\ Written(c, "connect", o.child)
              /\ Goto(c, "cresp")
              /\ UNCHANGED after
           \/ /\ ~o.ok
              /\ GoKill(c, "err")
              /\ UNCHANGED <<pend, inbox, req, resp>>
    /\ UNCHANGED <<scenario, connectLock, queryLock, others, later, session, active, outbox,
                   tries, killgen, cancelled, result>>

EnsureReply(c) ==
    /\ pc[c] = "cresp" /\ resp[c] # "none"
    /\ \/ /\ resp[c] = "ok"
          /\ Goto(c, "cset")
          /\ UNCHANGED <<tries, after>>
       \/ /\ resp[c] = "lock" /\ tries[c] < Retries
          /\ GoKill(c, "csend")
          /\ tries' = [tries EXCEPT ![c] = @ + 1]
       \/ /\ resp[c] # "ok" /\ ~(resp[c] = "lock" /\ tries[c] < Retries)
          /\ GoKill(c, "err")
          /\ UNCHANGED tries
    /\ UNCHANGED <<scenario, stateVars, connectLock, queryLock, pend, others, later, workerVars,
                   req, resp, killgen, cancelled, result>>

\* The flag is set whatever happened to the child since its reply.
EnsureSet(c) ==
    /\ pc[c] = "cset"
    /\ connected' = TRUE
    /\ connectLock' = NoCall
    /\ Goto(c, "send")
    /\ UNCHANGED <<scenario, child, generation, queryLock, pend, others, later, workerVars, callVars>>

(***************************************************************************)
(* send_request_structured for the call's own request, and its reply.  A    *)
(* child that has to be started here is not connected, so the call fails.   *)
(***************************************************************************)
SendRequest(c) ==
    /\ pc[c] = "send"
    /\ \E o \in StartOutcomes :
        /\ Started(o)
        /\ \/ /\ o.ok /\ o.connected
              /\ Written(c, MethodOf(c), o.child)
              /\ Goto(c, "resp")
              /\ UNCHANGED <<after, connectLock, queryLock, result>>
           \/ /\ ~(o.ok /\ o.connected)
              /\ IF c \in Shutdowns
                 THEN GoKill(c, "done") /\ UNCHANGED <<connectLock, queryLock, result>>
                 ELSE Return(c, "err") /\ UNCHANGED after
              /\ UNCHANGED <<pend, inbox, req, resp>>
    /\ UNCHANGED <<scenario, others, later, session, active, outbox, tries, killgen, cancelled>>

\* The child died after ensure_started_locked looked: the write fails and the
\* entry is removed again.
WriteFails(c) ==
    /\ pc[c] = "send"
    /\ child # 0 /\ ~alive[child] /\ connected
    /\ IF c \in Shutdowns
       THEN GoKill(c, "done") /\ UNCHANGED <<connectLock, queryLock, result>>
       ELSE Return(c, "err") /\ UNCHANGED after
    /\ UNCHANGED <<scenario, stateVars, pend, others, later, workerVars,
                   req, resp, tries, killgen, cancelled>>

NeverKill(c) == FALSE
KillsAfter(c) == c \in Execs /\ resp[c] = "poisoned"

CallReply(c) ==
    /\ pc[c] = "resp" /\ resp[c] # "none"
    /\ \/ /\ c \in Shutdowns
          /\ GoKill(c, "done")
          /\ UNCHANGED <<connectLock, queryLock, result>>
       \/ /\ c \notin Shutdowns /\ KillsAfter(c)
          /\ GoKill(c, "err")
          /\ UNCHANGED <<connectLock, queryLock, result>>
       \/ /\ c \notin Shutdowns /\ ~KillsAfter(c)
          /\ Return(c, resp[c])
          /\ UNCHANGED after
    /\ UNCHANGED <<scenario, stateVars, pend, others, later, workerVars,
                   req, resp, tries, killgen, cancelled>>

(***************************************************************************)
(* Timeouts and cancellation.  A Connect or Shutdown that times out removes *)
(* its own entry; an execute or metadata call that gives up drops its       *)
(* future, which releases connect_lock and leaves the entry to the kill.    *)
(***************************************************************************)
RequestTimeout(c) ==
    /\ "timeout" \in scenario.faults
    /\ pc[c] = "cresp" \/ (pc[c] = "resp" /\ c \in Shutdowns)
    /\ resp[c] = "none"
    /\ pend' = [pend EXCEPT ![c] = 0]
    /\ GoKill(c, IF c \in Shutdowns THEN "done" ELSE "err")
    /\ UNCHANGED <<scenario, stateVars, connectLock, queryLock, others, later, workerVars,
                   req, resp, tries, killgen, cancelled, result>>

InFuture(c) == /\ pc[c] \in {"connect", "start", "csend", "cresp", "cset",
                             "send", "resp", "take", "fail"}
               /\ after[c] # "abort"

GiveUp(c) ==
    /\ c \in Execs \cup Metas /\ InFuture(c)
    /\ "timeout" \in scenario.faults \/ c \in cancelled
    /\ GoKill(c, "abort")
    /\ connectLock' = Freed(connectLock, c)
    /\ UNCHANGED <<scenario, stateVars, queryLock, pend, others, later, workerVars,
                   req, resp, tries, killgen, cancelled, result>>

\* The user cancels the query of call e: its interrupt spawns a task that kills
\* the worker, and its token fires.
UserCancel(e) ==
    /\ pc[e] \notin {"idle", "done"} /\ e \notin cancelled
    /\ cancelled' = cancelled \cup {e}
    /\ pc' = [pc EXCEPT ![Killer(e)] = "take"]
    /\ UNCHANGED <<scenario, stateVars, connectLock, queryLock, pend, others, later, workerVars,
                   req, resp, tries, after, killgen, result>>

(***************************************************************************)
(* kill: take the child under the state lock, signal it and wait for it at  *)
(* most DEFAULT_WORKER_KILL_WAIT, then fail the requests of the generation  *)
(* that was current when the child was taken.                               *)
(***************************************************************************)
KillTake(t) ==
    /\ pc[t] = "take"
    /\ child' = 0 /\ connected' = FALSE
    /\ killgen' = [killgen EXCEPT ![t] = generation]
    /\ Goto(t, "fail")
    /\ UNCHANGED <<scenario, generation, connectLock, queryLock, pend, others, later, workerVars,
                   req, resp, tries, after, cancelled, result>>

LeavePending(g) == UNCHANGED <<pend, resp>>
FailPending(g) ==
    LET hit == {c \in Calls : pend[c] = g /\ g # 0} IN
    /\ pend' = [c \in Calls |-> IF c \in hit THEN 0 ELSE pend[c]]
    /\ resp' = [c \in Calls |-> IF c \in hit THEN "gone" ELSE resp[c]]

KillFinish(t) ==
    /\ pc[t] = "fail"
    /\ FailPending(killgen[t])
    /\ \/ /\ t \in Killers \cup Shutdowns
          /\ Goto(t, "done")
          /\ UNCHANGED <<connectLock, queryLock, result>>
       \/ /\ t \in Execs \cup Metas /\ after[t] = "csend"
          /\ Goto(t, "csend")
          /\ UNCHANGED <<connectLock, queryLock, result>>
       \/ /\ t \in Execs \cup Metas /\ after[t] # "csend"
          /\ Return(t, after[t])
    /\ UNCHANGED <<scenario, stateVars, others, later, workerVars, req, tries, after, killgen, cancelled>>

(***************************************************************************)
(* spawn_stdout_reader of generation g: hand a response to the pending      *)
(* request of this generation it answers, drop any other; at the end of the *)
(* stream fail what is pending of the generation and release the permit.    *)
(***************************************************************************)
ReaderDeliver(g) ==
    /\ reader[g] = "run" /\ outbox[g] # <<>>
    /\ LET r == Head(outbox[g])
           wanted == pend[r.call] = g /\ req[r.call] = r.n
       IN /\ pend' = IF wanted THEN [pend EXCEPT ![r.call] = 0] ELSE pend
          /\ resp' = IF wanted THEN [resp EXCEPT ![r.call] = r.reply] ELSE resp
    /\ outbox' = [outbox EXCEPT ![g] = Tail(@)]
    /\ UNCHANGED <<scenario, stateVars, connectLock, queryLock, others, later, alive, session, active,
                   inbox, reader, pc, req, tries, after, killgen, cancelled, result>>

StreamEnded(g) == outbox[g] = <<>> /\ ~alive[g]

ReaderEnd(g) ==
    /\ reader[g] = "run"
    /\ StreamEnded(g) \/ "stdout" \in scenario.faults
    /\ reader' = [reader EXCEPT ![g] = "done"]
    /\ FailPending(g)
    /\ UNCHANGED <<scenario, stateVars, connectLock, queryLock, others, later, alive, session, active,
                   inbox, outbox, pc, req, tries, after, killgen, cancelled, result>>

(***************************************************************************)
(* The child process.  Its stdin loop answers every request itself except   *)
(* Execute, which runs beside the loop until WorkerFinish.                  *)
(***************************************************************************)
SessionReplies(g, q) ==
    IF active[g] # <<>> THEN {"busy"}
    ELSE IF q.method = "connect"
         THEN {"ok", "err"} \cup (IF "lock" \in scenario.faults THEN {"lock"} ELSE {})
         ELSE IF session[g] = "open" THEN {"ok", "err"} ELSE {"err"}

WorkerSession(g) ==
    LET q == Head(inbox[g]) IN
    /\ alive[g] /\ inbox[g] # <<>>
    /\ q.method \in {"connect", "meta"}
    /\ \E r \in SessionReplies(g, q) :
        /\ outbox' = [outbox EXCEPT ![g] = Append(@, Response(q, r))]
        /\ session' = [session EXCEPT ![g] =
                          IF q.method = "connect" /\ r = "ok" THEN "open" ELSE @]
    /\ inbox' = [inbox EXCEPT ![g] = Tail(@)]
    /\ UNCHANGED <<scenario, stateVars, connectLock, queryLock, pend, others, later, alive, active,
                   reader, pc, callVars>>

WorkerExecute(g) ==
    LET q == Head(inbox[g]) IN
    /\ alive[g] /\ inbox[g] # <<>>
    /\ q.method = "execute"
    /\ \/ /\ active[g] # <<>>
          /\ outbox' = [outbox EXCEPT ![g] = Append(@, Response(q, "busy"))]
          /\ UNCHANGED active
       \/ /\ active[g] = <<>> /\ session[g] = "none"
          /\ outbox' = [outbox EXCEPT ![g] = Append(@, Response(q, "unconnected"))]
          /\ UNCHANGED active
       \/ /\ active[g] = <<>> /\ session[g] # "none"
          /\ active' = [active EXCEPT ![g] = <<q>>]
          /\ UNCHANGED outbox
    /\ inbox' = [inbox EXCEPT ![g] = Tail(@)]
    /\ UNCHANGED <<scenario, stateVars, connectLock, queryLock, pend, others, later, alive, session,
                   reader, pc, callVars>>

\* The query ends; after an error the connection is probed, and a parser error
\* has poisoned it for good.
WorkerFinish(g) ==
    /\ alive[g] /\ active[g] # <<>>
    /\ \E r \in IF session[g] = "open" THEN {"ok", "err", "poisoned"} ELSE {"poisoned"} :
        /\ outbox' = [outbox EXCEPT ![g] = Append(@, Response(active[g][1], r))]
        /\ session' = [session EXCEPT ![g] = IF r = "poisoned" THEN "poisoned" ELSE @]
    /\ active' = [active EXCEPT ![g] = <<>>]
    /\ UNCHANGED <<scenario, stateVars, connectLock, queryLock, pend, others, later, alive, inbox,
                   reader, pc, callVars>>

\* With the process goes what it had in memory and in its stdin; what it wrote
\* to stdout stays readable.
ProcessEnds(g) ==
    /\ alive' = [alive EXCEPT ![g] = FALSE]
    /\ session' = [session EXCEPT ![g] = "none"]
    /\ active' = [active EXCEPT ![g] = <<>>]
    /\ inbox' = [inbox EXCEPT ![g] = <<>>]

WorkerShutdown(g) ==
    LET q == Head(inbox[g]) IN
    /\ alive[g] /\ inbox[g] # <<>>
    /\ q.method = "shutdown"
    /\ outbox' = [outbox EXCEPT ![g] = Append(@, Response(q, "ok"))]
    /\ ProcessEnds(g)
    /\ UNCHANGED <<scenario, stateVars, connectLock, queryLock, pend, others, later, reader, pc, callVars>>

\* A child that was taken by a kill, or that crashes, ends.
WorkerDies(g) ==
    /\ alive[g]
    /\ child # g \/ "crash" \in scenario.faults
    /\ ProcessEnds(g)
    /\ UNCHANGED <<scenario, stateVars, connectLock, queryLock, pend, others, later, outbox, reader, pc, callVars>>

(***************************************************************************)
(* Other clients.  They share the limiter, until one is opened with another *)
(* limit while no permit of the current limiter is held: it gets a limiter  *)
(* of its own, which those to come share.  Clients keep the one they have.  *)
(***************************************************************************)
Elsewhere == UNCHANGED <<scenario, stateVars, connectLock, queryLock, pend, workerVars, pc, callVars>>

OthersStart ==
    /\ PermitFree
    /\ others' = others + 1
    /\ Elsewhere /\ UNCHANGED later
OthersEnd ==
    /\ others > 0
    /\ others' = others - 1
    /\ Elsewhere /\ UNCHANGED later

Own == [limit |-> Limit, held |-> Cardinality(Readers) + others]
Current == IF later = <<>> THEN Own ELSE later[Len(later)]
NewLimiter(n) ==
    /\ Len(later) < MaxLimiters
    /\ n \in scenario.limits /\ n # Current.limit /\ Current.held = 0
    /\ later' = Append(later, [limit |-> n, held |-> 0])
    /\ Elsewhere /\ UNCHANGED others

LaterStart(i) ==
    /\ later[i].held < later[i].limit
    /\ later' = [later EXCEPT ![i].held = @ + 1]
    /\ Elsewhere /\ UNCHANGED others
LaterEnd(i) ==
    /\ later[i].held > 0
    /\ later' = [later EXCEPT ![i].held = @ - 1]
    /\ Elsewhere /\ UNCHANGED others

CallStep(c) ==
    \/ ExecQueryLock(c) \/ EnsureLock(c) \/ EnsureStart(c) \/ EnsureSend(c)
    \/ EnsureReply(c) \/ EnsureSet(c) \/ SendRequest(c) \/ CallReply(c)
ReaderStep(g) == ReaderDeliver(g) \/ (StreamEnded(g) /\ ReaderEnd(g))
WorkerStep(g) == WorkerSession(g) \/ WorkerExecute(g) \/ WorkerFinish(g) \/ WorkerShutdown(g)

Next ==
    \/ \E c \in Calls : CallStart(c) \/ CallStep(c) \/ WriteFails(c)
                        \/ RequestTimeout(c) \/ GiveUp(c)
    \/ \E e \in Execs : UserCancel(e)
    \/ \E t \in Tasks : KillTake(t) \/ KillFinish(t)
    \/ \E g \in Gens : \/ ReaderDeliver(g) \/ ReaderEnd(g)
                       \/ WorkerStep(g) \/ WorkerDies(g)
    \/ OthersStart \/ OthersEnd
    \/ \E n \in scenario.limits : NewLimiter(n)
    \/ \E i \in DOMAIN later : LaterStart(i) \/ LaterEnd(i)

(***************************************************************************)
(* Fairness: tasks are polled, the reader reads, a child answers what it    *)
(* reads and ends once it is killed.  Nothing is assumed of crashes,        *)
(* timeouts, users and other clients.                                       *)
(***************************************************************************)
Fairness ==
    /\ \A c \in Calls : WF_vars(CallStep(c))
    /\ \A e \in Execs : WF_vars(e \in cancelled /\ GiveUp(e))
    /\ \A t \in Tasks : WF_vars(KillTake(t) \/ KillFinish(t))
    /\ \A g \in Gens : /\ WF_vars(ReaderStep(g))
                       /\ WF_vars(WorkerStep(g))
                       /\ WF_vars(child # g /\ WorkerDies(g))

Spec == Init /\ [][Next]_vars
FairSpec == Spec /\ Fairness

----------------------------------------------------------------------------
TypeOK ==
    /\ child \in 0 .. MaxGen /\ generation \in 0 .. MaxGen /\ child \in {0, generation}
    /\ connected \in BOOLEAN
    /\ connectLock \in Calls \cup {NoCall} /\ queryLock \in Execs \cup {NoCall}
    /\ pend \in [Calls -> 0 .. MaxGen]
    /\ others \in 0 .. Limit
    /\ alive \in [Gens -> BOOLEAN]
    /\ session \in [Gens -> {"none", "open", "poisoned"}]
    /\ reader \in [Gens -> {"none", "run", "done"}]
    /\ pc \in [Tasks -> {"idle", "query", "connect", "start", "csend", "cresp", "cset",
                         "send", "resp", "take", "fail", "done"}]
    /\ req \in [Calls -> Nat] /\ tries \in [Calls -> 0 .. Retries]
    /\ resp \in [Calls -> Replies \cup {"none"}]
    /\ after \in [Tasks -> {"done", "csend", "err", "abort"}]
    /\ killgen \in [Tasks -> 0 .. MaxGen]
    /\ cancelled \subseteq Execs
    /\ result \in [Calls -> Replies \cup {"none", "abort"}]

(***************************************************************************)
(* A call that waits for a response has an entry in pending that somebody   *)
(* will resolve: the reader of the generation it wrote to is still there,   *)
(* to deliver the answer or to fail the entry at the end of the stream.     *)
(* Execute waits without a timeout, so a lost entry would hang it and,      *)
(* through query_lock, every later query.                                   *)
(***************************************************************************)
NoOrphanRequest ==
    \A c \in Calls :
        pc[c] \in {"cresp", "resp"} /\ resp[c] = "none" =>
            pend[c] # 0 /\ reader[pend[c]] = "run"

(***************************************************************************)
(* The permits of a limiter cover every live worker of its clients, also    *)
(* while killed workers are still dying and their successors already run.   *)
(* If all clients are opened with one limit, as the program does, there is  *)
(* one limiter: no worker is alive outside of it.  (With two limits the     *)
(* workers of an old limiter come on top of those of the current one.)      *)
(***************************************************************************)
WorkersWithinLimit ==
    /\ Cardinality({g \in Gens : alive[g]}) + others <= Limit
    /\ \A i \in DOMAIN later : later[i].held <= later[i].limit
    /\ scenario.limits \subseteq {Limit} => \A i \in DOMAIN later : later[i].held = 0

(***************************************************************************)
(* query_lock keeps a second query away from a worker: the current worker   *)
(* never holds two Execute requests, running or queued, so none is refused  *)
(* as busy, even when queries are cancelled and their workers killed.       *)
(***************************************************************************)
QueriesOf(g) ==
    {i \in DOMAIN inbox[g] : inbox[g][i].method = "execute"}
OneQueryPerWorker ==
    child # 0 => Cardinality(QueriesOf(child)) + Len(active[child]) <= 1

(***************************************************************************)
(* "The client kills the worker on this code so the next request starts a   *)
(* fresh one": a worker with a poisoned connection stays current only while *)
(* the query that poisoned it still holds query_lock.                       *)
(***************************************************************************)
PoisonedIsKilled ==
    child # 0 => (session[child] = "poisoned" => queryLock # NoCall)

(***************************************************************************)
(* Every call returns: no lost wake-up, no lock kept by a dropped future.   *)
(***************************************************************************)
CallsReturn ==
    \A c \in Calls : pc[c] # "idle" ~> pc[c] = "done"
=============================================================================
