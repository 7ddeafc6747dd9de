------------------------- MODULE ManualTransaction -------------------------
(***************************************************************************)
(* Manual transaction sessions (crates/dbx-core/src/query.rs, from          *)
(* begin_manual_transaction to rollback_manual_transaction).                *)
(*                                                                         *)
(* A session holds one database connection inside an open transaction.      *)
(* Calls of the user interface (execute, commit, roll back) and background  *)
(* idle watchers run as independent tasks.  They meet in two places: the    *)
(* map AppState.transaction_sessions behind an RwLock, which every task     *)
(* holds only for one look or one update, and the mutex around the          *)
(* session's connection, which a task holds across its database calls.      *)
(* One action below is what a task does between two awaits.                 *)
(***************************************************************************)
EXTENDS Naturals

CONSTANTS
    Sessions,     \* transaction session ids (uuids, never reused)
    Execs,        \* calls of execute_in_manual_transaction
    Commits,      \* calls of commit_manual_transaction
    Rollbacks,    \* calls of rollback_manual_transaction
    Script,       \* Script[e]: number of statements of the SQL of call e
    Target,       \* Target[t]: the session task t is about
    Timeout,      \* TXN_IDLE_TIMEOUT in clock ticks
    NoTask        \* holder of a free connection mutex

(***************************************************************************)
(* A watcher is named after what spawned it: the begin of a session, or an  *)
(* execute call that completed.                                             *)
(***************************************************************************)
Watch(x) == <<"watch", x>>
Watchers == {Watch(x) : x \in Sessions \cup Execs}
Calls == Execs \cup Commits \cup Rollbacks
Tasks == Calls \cup Watchers

ASSUME SessionAssumption ==
    /\ Script \in [Execs -> Nat]
    /\ Timeout \in Nat \ {0}
    /\ NoTask \notin Tasks

ASSUME TaskAssumption ==
    /\ Execs \cap (Commits \cup Rollbacks) = {}
    /\ Commits \cap Rollbacks = {}
    /\ Calls \cap Watchers = {}
    /\ Sessions \cap Execs = {}

ASSUME TargetAssumption ==
    /\ Target \in [Tasks -> Sessions]
    /\ \A s \in Sessions : Target[Watch(s)] = s
    /\ \A e \in Execs : Target[Watch(e)] = Target[e]

VARIABLES
    live,       \* keys of transaction_sessions
    opened,     \* ids begin_manual_transaction has returned
    busy,       \* TransactionSession.busy
    idle,       \* ticks since last_activity, saturating past the timeout
    holder,     \* task holding the session's connection mutex
    txn,        \* what the server thinks of the session's connection
    pend,       \* statements executed and not yet committed on it
    durable,    \* statements whose effect is committed
    auto,       \* statements that ran outside any transaction
    pc,         \* where each task stands
    step,       \* next statement of an execute call
    timer,      \* ticks a sleeping watcher still sleeps
    reply,      \* what a call answered (an execute may still be rolling back)
    connected,  \* the connection's pool is in AppState.connections
    postgres    \* the sessions on Postgres; the others are on MySQL

mapVars == <<live, opened, busy, idle>>
dbVars == <<txn, pend, durable, auto>>
vars == <<live, opened, busy, idle, holder, txn, pend, durable, auto,
          pc, step, timer, reply, connected, postgres>>

Statements == Execs \X Nat

TxnStates == {"new", "open", "aborted", "none", "lost"}
PcStates == {"idle", "mark", "clone", "lock", "run", "fail", "finish",
             "clock", "commit", "rlock", "rollback", "sleep", "done"}
Replies == {"none", "ok", "notfound", "busy", "expired", "failed", "err"}

(***************************************************************************)
(* Helpers of the actions.                                                  *)
(***************************************************************************)
Goto(t, label) == pc' = [pc EXCEPT ![t] = label]
Answer(t, r) == reply' = [reply EXCEPT ![t] = r]
Acquire(t) == /\ holder[Target[t]] = NoTask
              /\ holder' = [holder EXCEPT ![Target[t]] = t]
Release(t) == holder' = [holder EXCEPT ![Target[t]] = NoTask]

\* sessions.remove(id); a mutant looks the session up instead.
LookUpOnly(s) == s \in live /\ UNCHANGED live
Remove(s) == s \in live /\ live' = live \ {s}

\* spawn_txn_idle_watcher: a fresh task that starts to sleep.  In the places
\* that spawn one, another task moves in the same step.
NotSpawned(f, x) == f
Spawned(f, x) == [f EXCEPT ![Watch(x)] = "sleep"]

\* session.busy, read before an execute call and cleared after it.
NeverBusy(s) == FALSE
IsBusy(s) == busy[s]
KeepBusy(s) == busy' = busy
ClearBusy(s) == busy' = [busy EXCEPT ![s] = FALSE]

\* The loop over the statements of the script has one to run.
OneTooMany(e) == step[e] <= Script[e]
MoreStatements(e) == step[e] < Script[e]

\* A failed execute rolls back if it was the one that removed the session.
RollBackIfGone(s) == s \notin live
ShouldRollback(s) == s \in live

\* COMMIT and ROLLBACK as the server executes them on a connection: of an
\* aborted Postgres transaction both discard, on an autocommit connection both
\* do nothing, and a lost connection answers with an error.
ServerCommit(s) ==
    /\ txn' = [txn EXCEPT ![s] = IF @ = "lost" THEN "lost" ELSE "none"]
    /\ pend' = [pend EXCEPT ![s] = {}]
    /\ durable' = durable \cup pend[s]
    /\ UNCHANGED auto
ServerRollback(s) ==
    /\ txn' = [txn EXCEPT ![s] = IF @ = "lost" THEN "lost" ELSE "none"]
    /\ pend' = [pend EXCEPT ![s] = {}]
    /\ UNCHANGED <<durable, auto>>

\* COMMIT and ROLLBACK map a server error to an Err reply.
IgnoredError(s) == "ok"
ServerReply(s) == IF txn[s] = "lost" THEN "err" ELSE "ok"

(***************************************************************************)
(* The initial state: no session, no task started, the connection open, the *)
(* session on either kind of server.                                        *)
(***************************************************************************)
Init ==
    /\ live = {} /\ opened = {}
    /\ busy = [s \in Sessions |-> FALSE]
    /\ idle = [s \in Sessions |-> 0]
    /\ holder = [s \in Sessions |-> NoTask]
    /\ txn = [s \in Sessions |-> "new"]
    /\ pend = [s \in Sessions |-> {}]
    /\ durable = {} /\ auto = {}
    /\ pc = [t \in Tasks |-> "idle"]
    /\ step = [e \in Execs |-> 0]
    /\ timer = [w \in Watchers |-> Timeout]
    /\ reply = [t \in Tasks |-> "none"]
    /\ connected = TRUE
    /\ postgres \in SUBSET Sessions

(***************************************************************************)
(* begin_manual_transaction.  The pool is looked up (recreated after a      *)
(* disconnect, unless the call names no database), a connection is taken,   *)
(* the transaction is opened, the session is inserted and its first watcher *)
(* spawned.  Nobody knows the id before the call returns, so it is one step.*)
(***************************************************************************)
BeginManualTransaction(s) ==
    /\ txn[s] = "new"
    /\ connected' = TRUE
    /\ txn' = [txn EXCEPT ![s] = "open"]
    /\ live' = live \cup {s}
    /\ opened' = opened \cup {s}
    /\ busy' = [busy EXCEPT ![s] = FALSE]
    /\ idle' = [idle EXCEPT ![s] = 0]
    /\ pc' = Spawned(pc, s)
    /\ timer' = [timer EXCEPT ![Watch(s)] = Timeout]
    /\ UNCHANGED <<holder, pend, durable, auto, step, reply, postgres>>

\* SET LOCAL search_path fails after BEGIN: the call returns an error and the
\* connection goes back to the pool as it is, with no session made.
BeginFailsOnSchema(s) ==
    /\ txn[s] = "new" /\ s \in postgres
    /\ connected' = TRUE
    /\ \E state \in {"aborted", "lost"} : txn' = [txn EXCEPT ![s] = state]
    /\ UNCHANGED <<live, opened, busy, idle, holder, pend, durable, auto,
                   pc, step, timer, reply, postgres>>

(***************************************************************************)
(* execute_in_manual_transaction.                                           *)
(***************************************************************************)
\* The first look at the map; then splitting and the read-only check, neither
\* of which touches the session: an empty script is answered at once, and one
\* the check refuses is an error.
ExecLookup(e) ==
    LET s == Target[e] IN
    /\ pc[e] = "idle" /\ s \in opened
    /\ \/ s \notin live /\ Goto(e, "done") /\ Answer(e, "notfound")
       \/ /\ s \in live /\ Goto(e, "done")
          /\ Answer(e, IF Script[e] = 0 THEN "ok" ELSE "err")
       \/ s \in live /\ Script[e] > 0 /\ Goto(e, "mark") /\ UNCHANGED reply
    /\ UNCHANGED <<mapVars, dbVars, holder, step, timer, connected, postgres>>

\* Under the write lock: refuse a missing or a busy session, take an expired
\* one out of the map to roll it back, mark any other busy.
ExecMark(e) ==
    LET s == Target[e] IN
    /\ pc[e] = "mark"
    /\ \/ /\ s \notin live
          /\ Goto(e, "done") /\ Answer(e, "notfound")
          /\ UNCHANGED <<live, busy, idle>>
       \/ /\ s \in live /\ IsBusy(s)
          /\ Goto(e, "done") /\ Answer(e, "busy")
          /\ UNCHANGED <<live, busy, idle>>
       \/ /\ ~IsBusy(s) /\ idle[s] > Timeout
          /\ Remove(s)
          /\ Goto(e, "rlock") /\ Answer(e, "expired")
          /\ UNCHANGED <<busy, idle>>
       \/ /\ s \in live /\ ~IsBusy(s) /\ idle[s] <= Timeout
          /\ busy' = [busy EXCEPT ![s] = TRUE]
          /\ idle' = [idle EXCEPT ![s] = 0]
          /\ Goto(e, "clone")
          /\ UNCHANGED <<live, reply>>
    /\ UNCHANGED <<opened, dbVars, holder, step, timer, connected, postgres>>

\* A second look at the map, to clone the Arc of the connection.
ExecClone(e) ==
    /\ pc[e] = "clone"
    /\ \/ Target[e] \in live /\ Goto(e, "lock") /\ UNCHANGED reply
       \/ Target[e] \notin live /\ Goto(e, "done") /\ Answer(e, "notfound")
    /\ UNCHANGED <<mapVars, dbVars, holder, step, timer, connected, postgres>>

ExecLock(e) ==
    /\ pc[e] = "lock"
    /\ Acquire(e)
    /\ Goto(e, "run")
    /\ UNCHANGED <<mapVars, dbVars, step, timer, reply, connected, postgres>>

\* A statement succeeds: inside the transaction it is pending, on an
\* autocommit connection its effect is durable at once.
ExecStatementOk(e) ==
    LET s == Target[e]
        st == <<e, step[e]>>
    IN
    /\ pc[e] = "run" /\ MoreStatements(e)
    /\ \/ /\ txn[s] = "open"
          /\ pend' = [pend EXCEPT ![s] = @ \cup {st}]
          /\ UNCHANGED <<durable, auto>>
       \/ /\ txn[s] = "none"
          /\ durable' = durable \cup {st} /\ auto' = auto \cup {st}
          /\ UNCHANGED pend
    /\ step' = [step EXCEPT ![e] = @ + 1]
    /\ UNCHANGED <<mapVars, txn, holder, pc, timer, reply, connected, postgres>>

\* A statement fails.  Postgres aborts the transaction; MySQL undoes the
\* statement only, or the whole transaction on a deadlock; the connection may
\* be gone.
ExecStatementErr(e) ==
    LET s == Target[e] IN
    /\ pc[e] = "run" /\ MoreStatements(e)
    /\ \/ txn[s] = "open" /\ s \in postgres
          /\ txn' = [txn EXCEPT ![s] = "aborted"]
          /\ pend' = [pend EXCEPT ![s] = {}]
       \/ txn[s] = "open" /\ s \notin postgres /\ UNCHANGED <<txn, pend>>
       \/ txn[s] = "open" /\ s \notin postgres
          /\ txn' = [txn EXCEPT ![s] = "none"]
          /\ pend' = [pend EXCEPT ![s] = {}]
       \/ txn[s] \in {"none", "aborted", "lost"} /\ UNCHANGED <<txn, pend>>
    /\ Goto(e, "fail")
    /\ UNCHANGED <<mapVars, durable, auto, holder, step, timer, reply,
                   connected, postgres>>

\* After a failed statement the session is removed; the call rolls back only
\* if it was the one to remove it.
ExecFail(e) ==
    LET s == Target[e] IN
    /\ pc[e] = "fail"
    /\ live' = live \ {s}
    /\ \/ ShouldRollback(s) /\ Goto(e, "rollback") /\ UNCHANGED holder
       \/ ~ShouldRollback(s) /\ Goto(e, "done") /\ Release(e)
    /\ Answer(e, "failed")
    /\ UNCHANGED <<opened, busy, idle, dbVars, step, timer, connected, postgres>>

\* drop(conn) once every statement has succeeded.
ExecRelease(e) ==
    /\ pc[e] = "run" /\ ~MoreStatements(e)
    /\ Release(e)
    /\ Goto(e, "finish")
    /\ UNCHANGED <<mapVars, dbVars, step, timer, reply, connected, postgres>>

\* The session, if it is still there, is idle again and gets a new watcher.
ExecFinish(e) ==
    LET s == Target[e] IN
    /\ pc[e] = "finish"
    /\ \/ /\ s \in live
          /\ ClearBusy(s)
          /\ idle' = [idle EXCEPT ![s] = 0]
          /\ pc' = Spawned([pc EXCEPT ![e] = "done"], e)
          /\ timer' = [timer EXCEPT ![Watch(e)] = Timeout]
       \/ /\ s \notin live
          /\ Goto(e, "done")
          /\ UNCHANGED <<busy, idle, timer>>
    /\ Answer(e, "ok")
    /\ UNCHANGED <<live, opened, dbVars, holder, step, connected, postgres>>

(***************************************************************************)
(* commit_manual_transaction and rollback_manual_transaction: take the      *)
(* session out of the map, busy or not, wait for the connection, finish.    *)
(***************************************************************************)
TakeSession(t, next) ==
    LET s == Target[t] IN
    /\ pc[t] = "idle" /\ s \in opened
    /\ \/ /\ Remove(s)
          /\ Goto(t, next) /\ UNCHANGED reply
       \/ /\ s \notin live
          /\ Goto(t, "done") /\ Answer(t, "notfound")
          /\ UNCHANGED live
    /\ UNCHANGED <<opened, busy, idle, dbVars, holder, step, timer, connected, postgres>>

CommitTake(c) == TakeSession(c, "clock")
RollbackTake(r) == TakeSession(r, "rlock")

CommitLock(c) ==
    /\ pc[c] = "clock"
    /\ Acquire(c)
    /\ Goto(c, "commit")
    /\ UNCHANGED <<mapVars, dbVars, step, timer, reply, connected, postgres>>

\* COMMIT.  It reports success whenever the server accepts it, which Postgres
\* does of an aborted transaction too; a connection lost while it is in flight
\* leaves either outcome behind an error.
CommitFinish(c) ==
    LET s == Target[c] IN
    /\ pc[c] = "commit"
    /\ \/ ServerCommit(s) /\ Answer(c, ServerReply(s))
       \/ /\ txn[s] = "open"
          /\ \/ durable' = durable \cup pend[s]
             \/ UNCHANGED durable
          /\ txn' = [txn EXCEPT ![s] = "lost"]
          /\ pend' = [pend EXCEPT ![s] = {}]
          /\ Answer(c, "err")
          /\ UNCHANGED auto
    /\ Release(c)
    /\ Goto(c, "done")
    /\ UNCHANGED <<mapVars, step, timer, connected, postgres>>

(***************************************************************************)
(* Rolling back a session already taken out of the map: the rollback call,  *)
(* an execute call that met an expired session, an idle watcher.  A failed  *)
(* execute enters at FinishRollback, holding the mutex.                     *)
(***************************************************************************)
LockForRollback(t) ==
    /\ pc[t] = "rlock"
    /\ Acquire(t)
    /\ Goto(t, "rollback")
    /\ UNCHANGED <<mapVars, dbVars, step, timer, reply, connected, postgres>>

FinishRollback(t) ==
    LET s == Target[t] IN
    /\ pc[t] = "rollback"
    /\ ServerRollback(s)
    /\ IF t \in Rollbacks
       THEN Answer(t, ServerReply(s))
       ELSE UNCHANGED reply
    /\ Release(t)
    /\ Goto(t, "done")
    /\ UNCHANGED <<mapVars, step, timer, connected, postgres>>

(***************************************************************************)
(* spawn_txn_idle_watcher: after its sleep, a watcher takes the session out *)
(* only if it is not busy and idle for the whole timeout.                   *)
(***************************************************************************)
WatcherWake(w) ==
    LET s == Target[w]
        expired == s \in live /\ ~IsBusy(s) /\ idle[s] >= Timeout
    IN
    /\ pc[w] = "sleep" /\ timer[w] = 0
    /\ \/ expired /\ Remove(s) /\ Goto(w, "rlock")
       \/ ~expired /\ Goto(w, "done") /\ UNCHANGED live
    /\ UNCHANGED <<opened, busy, idle, dbVars, holder, step, timer, reply,
                   connected, postgres>>

(***************************************************************************)
(* The environment: time, the server or network dropping a connection, and  *)
(* disconnect_db, which drains the pools and leaves transaction_sessions    *)
(* alone.                                                                   *)
(***************************************************************************)
Tick ==
    /\ idle' = [s \in Sessions |-> IF idle[s] > Timeout THEN idle[s]
                                   ELSE idle[s] + 1]
    /\ timer' = [w \in Watchers |-> IF pc[w] = "sleep" /\ timer[w] > 0
                                    THEN timer[w] - 1 ELSE timer[w]]
    /\ UNCHANGED <<live, opened, busy, holder, dbVars, pc, step, reply,
                   connected, postgres>>

ConnectionLost(s) ==
    /\ txn[s] \in {"open", "aborted", "none"}
    /\ txn' = [txn EXCEPT ![s] = "lost"]
    /\ pend' = [pend EXCEPT ![s] = {}]
    /\ UNCHANGED <<mapVars, durable, auto, holder, pc, step, timer, reply,
                   connected, postgres>>

DisconnectDb ==
    /\ connected
    /\ connected' = FALSE
    /\ UNCHANGED <<mapVars, dbVars, holder, pc, step, timer, reply, postgres>>

ExecStep(e) ==
    \/ ExecMark(e) \/ ExecClone(e) \/ ExecLock(e)
    \/ ExecStatementOk(e) \/ ExecStatementErr(e) \/ ExecFail(e)
    \/ ExecRelease(e) \/ ExecFinish(e)

Next ==
    \/ \E s \in Sessions : \/ BeginManualTransaction(s)
                           \/ BeginFailsOnSchema(s)
                           \/ ConnectionLost(s)
    \/ \E e \in Execs : ExecLookup(e) \/ ExecStep(e)
    \/ \E c \in Commits : CommitTake(c) \/ CommitLock(c) \/ CommitFinish(c)
    \/ \E r \in Rollbacks : RollbackTake(r)
    \/ \E t \in Tasks : LockForRollback(t) \/ FinishRollback(t)
    \/ \E w \in Watchers : WatcherWake(w)
    \/ Tick
    \/ DisconnectDb

(***************************************************************************)
(* Fairness: the runtime polls every started task, statements terminate and *)
(* time passes.  Nothing obliges a user to call anything or a connection to *)
(* break.                                                                   *)
(***************************************************************************)
StartedStep(t) ==
    \/ t \in Execs /\ ExecStep(t)
    \/ t \in Commits /\ (CommitLock(t) \/ CommitFinish(t))
    \/ t \in Watchers /\ WatcherWake(t)
    \/ LockForRollback(t) \/ FinishRollback(t)

Fairness == (\A t \in Tasks : WF_vars(StartedStep(t))) /\ WF_vars(Tick)

Spec == Init /\ [][Next]_vars
FairSpec == Spec /\ Fairness

----------------------------------------------------------------------------
\* Tasks that took session s out of the map and have not ended it yet.
Owners(s) == {t \in Tasks : /\ Target[t] = s
                            /\ pc[t] \in {"clock", "commit", "rlock", "rollback"}}

\* The execute call between marking session s busy and its last update of it.
Executing(s) == {e \in Execs : /\ Target[e] = s
                               /\ pc[e] \in {"clone", "lock", "run", "fail", "finish"}}

\* The connection of s has gone back to the pool: no session and no task
\* holds its Arc.
Ended(s) == /\ s \in opened \ live
            /\ Owners(s) = {}
            /\ \A e \in Executing(s) : pc[e] = "clone"

TypeOK ==
    /\ live \subseteq opened /\ opened \subseteq Sessions
    /\ busy \in [Sessions -> BOOLEAN]
    /\ idle \in [Sessions -> 0 .. Timeout + 1]
    /\ holder \in [Sessions -> Tasks \cup {NoTask}]
    /\ txn \in [Sessions -> TxnStates]
    /\ pend \in [Sessions -> SUBSET Statements]
    /\ durable \subseteq Statements
    /\ auto \subseteq Statements
    /\ pc \in [Tasks -> PcStates]
    /\ step \in [Execs -> Nat]
    /\ \A e \in Execs : step[e] <= Script[e]
    /\ timer \in [Watchers -> 0 .. Timeout]
    /\ reply \in [Tasks -> Replies]
    /\ connected \in BOOLEAN
    /\ postgres \subseteq Sessions

(***************************************************************************)
(* Removing a session from the map is what entitles a task to end it        *)
(* ("only the one that actually finds the session in the map ... will       *)
(* remove and roll back"): a session in the map has no owner and a removed  *)
(* one never has two, so no commit races a rollback of the same session.    *)
(***************************************************************************)
SingleOwner ==
    \A s \in Sessions :
        /\ s \in live => Owners(s) = {}
        /\ \A t, u \in Owners(s) : t = u

(***************************************************************************)
(* The busy flag admits one execute call at a time to a session's           *)
(* connection, also after the session was taken out of the map under it;    *)
(* and a busy session has a call that will clear the flag or remove it.     *)
(***************************************************************************)
OneExecutor ==
    \A s \in Sessions :
        /\ \A d, e \in Executing(s) : d = e
        /\ s \in live => (busy[s] <=> Executing(s) # {})

(***************************************************************************)
(* A session in the map that nobody executes on always has a sleeping       *)
(* watcher that will find it expired: when that watcher's sleep is over,    *)
(* the session has been idle for the whole timeout.  Execute calls renew    *)
(* last_activity under the older watchers, which then give up, so each must *)
(* leave a new one behind.                                                  *)
(***************************************************************************)
IdleIsWatched ==
    \A s \in live :
        ~busy[s] => \E w \in Watchers : /\ Target[w] = s
                                       /\ pc[w] = "sleep"
                                       /\ timer[w] + idle[s] >= Timeout

(***************************************************************************)
(* A connection goes back to the pool outside any transaction: every path   *)
(* that drops a session's connection first committed or rolled back, or     *)
(* lost it.                                                                 *)
(***************************************************************************)
ReturnedClean ==
    \A s \in Sessions : Ended(s) => txn[s] \in {"none", "lost"} /\ pend[s] = {}

(***************************************************************************)
(* A commit that reports success made every statement durable that an       *)
(* execute call of the session reported as done, unless some execute call   *)
(* reported that the transaction failed.                                    *)
(***************************************************************************)
CommitKeepsStatements ==
    \A c \in Commits, e \in Execs :
        (/\ reply[c] = "ok" /\ reply[e] = "ok"
         /\ Target[c] = Target[e]
         /\ \A d \in Execs : Target[d] = Target[e] => reply[d] # "failed")
        => \A i \in 0 .. Script[e] - 1 : <<e, i>> \in durable

(***************************************************************************)
(* A session the program reported as rolled back left nothing behind: once  *)
(* a roll back call answered success, or an execute call answered that the  *)
(* session had expired and finished its roll back, no statement the session *)
(* ran inside its transaction is durable or ever becomes so, whatever       *)
(* commit raced it.  A failed execute promises the same where no commit     *)
(* call had taken the session before it failed.                             *)
(***************************************************************************)
CommitTook(s) ==
    \E c \in Commits : /\ Target[c] = s
                       /\ pc[c] # "idle" /\ reply[c] # "notfound"

ToldRolledBack(t) ==
    /\ pc[t] = "done"
    /\ \/ t \in Rollbacks /\ reply[t] = "ok"
       \/ t \in Execs /\ reply[t] = "expired"
       \/ t \in Execs /\ reply[t] = "failed" /\ ~CommitTook(Target[t])

RolledBackIsGone ==
    \A t \in Tasks : ToldRolledBack(t) =>
        \A st \in durable \ auto : Target[st[1]] # Target[t]

(***************************************************************************)
(* Every session that was opened is ended and its connection returned, by   *)
(* its user or by an idle watcher, whatever calls race.                     *)
(***************************************************************************)
EventuallyEnded ==
    \A s \in Sessions : s \in opened ~> Ended(s)
=============================================================================
