---------------------------- MODULE ConnectionPools ----------------------------
(***************************************************************************)
(* The pools of one connection: AppState in crates/dbx-core/src/            *)
(* connection.rs and the connect_db and disconnect_db commands on top of it *)
(* (src-tauri/src/commands/connection.rs, crates/dbx-web/src/routes).       *)
(*                                                                         *)
(* connections, keepalive_tasks and postgres_cancel_contexts are maps from  *)
(* pool keys behind a lock each.  Commands, health checks and keepalive     *)
(* tasks read, fill and empty them one lock at a time, with database I/O in *)
(* between; connection attempts are numbered so that an older one notices   *)
(* that a newer one began.  One action is what a task does under one lock.  *)
(***************************************************************************)
EXTENDS Naturals

CONSTANTS
    Keys,          \* pool keys of the connection: its id and its database and tab keys
    Base,          \* the key that is the connection id
    Connects,      \* calls of connect_db; also their client attempt numbers
    Desktop,       \* those through the desktop command, the others through the web route
    Disconnects,   \* calls of disconnect_db
    Names,         \* the client attempt a disconnect names, None for a plain one
    Gets,          \* calls of get_or_create_pool_for_session without an attempt
    Reconnects,    \* those that are calls of reconnect_pool_for_session
    Healths,       \* calls of check_connection_health
    Removers,      \* calls of remove_pool_by_key and close_client_session_pool
    Refreshes,     \* calls of refresh_connections
    KeyOf,         \* the key a Gets or Removers call is for
    Setups,        \* what a run may be about: the calls made (calls), whether the connection
                   \* goes through transport layers (tunnelled), and whether its
                   \* keepalive_interval_secs is not 0 (keepAlive)
    Drops,         \* the server may drop a healthy pool's connections
    Refusing,      \* a closed pool refuses work (MySQL, PostgreSQL, agents); the other
                   \* kinds are only dropped, and a clone of them still answers
    None

\* The pool a call opens bears the call's name, and so does its keepalive task.
Pools == Connects \cup Gets
Tasks == Pools \cup Disconnects \cup Healths \cup Removers \cup Refreshes
Keepers == {<<"keepalive", p>> : p \in Pools}
Background == <<"background">>
Holders == Tasks \cup Keepers \cup {Background}
Key(t) == IF t \in Gets \cup Removers THEN KeyOf[t] ELSE Base

ASSUME ConstantAssumption ==
    /\ Base \in Keys /\ Desktop \subseteq Connects /\ Reconnects \subseteq Gets
    /\ Names \in [Disconnects -> Connects \cup {None}]
    /\ KeyOf \in [Gets \cup Removers -> Keys]
    /\ Setups \subseteq [calls : SUBSET Tasks, tunnelled : BOOLEAN, keepAlive : BOOLEAN]
    /\ {Drops, Refusing} \subseteq BOOLEAN
    /\ None \notin Tasks
    /\ Tasks \cap Keepers = {} /\ Background \notin Tasks \cup Keepers
    /\ Connects \cap Disconnects = {} /\ Gets \cap (Connects \cup Disconnects) = {}
    /\ Healths \cap (Pools \cup Disconnects) = {}
    /\ Removers \cap (Pools \cup Disconnects \cup Healths) = {}
    /\ Refreshes \cap (Pools \cup Disconnects \cup Healths \cup Removers) = {}

VARIABLES
    setup,              \* the setup of this run, which never changes
    attempt, client,    \* ConnectionAttemptState: server_attempt (0: none), client_attempt
    configured,         \* configs holds the connection
    conns,              \* connections: key -> pool
    keepers,            \* keepalive_tasks: key -> pool whose task the handle is of
    contexts,           \* keys of postgres_cancel_contexts
    pool,               \* what became of a pool: "none", "open", "closed"
    broken,             \* pools whose transport was stopped under them
    keeper, aborted,    \* keepalive tasks: where they are, whose handle was aborted
    pc, after,          \* where a task is; where it goes after a removal
    num,                \* the attempt number a task got, 0 if none
    seen,               \* what a task read of connections, at its listing or examination
    removing,           \* keys a task is removing
    hand,               \* pools a task has in its hands
    result

mapVars == <<conns, keepers, contexts>>
poolVars == <<pool, broken>>
keepVars == <<keeper, aborted>>
attemptVars == <<setup, attempt, client, configured, num>>
taskVars == <<after, seen, removing, result>>
vars == <<setup, attempt, client, configured, conns, keepers, contexts, pool, broken,
          keeper, aborted, pc, after, num, seen, removing, hand, result>>

Empty == [k \in Keys |-> None]

Init ==
    /\ setup \in Setups
    /\ attempt = 0 /\ client = None /\ configured \in BOOLEAN
    /\ conns = Empty /\ keepers = Empty /\ contexts = {}
    /\ pool = [p \in Pools |-> "none"] /\ broken = {}
    /\ keeper = [p \in Pools |-> "none"] /\ aborted = {}
    /\ pc = [t \in Tasks |-> "idle"] /\ after = [t \in Tasks |-> "done"]
    /\ num = [t \in Tasks |-> 0]
    /\ seen = [t \in Tasks |-> Empty] /\ removing = [t \in Tasks |-> {}]
    /\ hand = [h \in Holders |-> {}]
    /\ result = [t \in Tasks |-> "none"]

Goto(t, label) == pc' = [pc EXCEPT ![t] = label]
Return(t, r) == Goto(t, "done") /\ result' = [result EXCEPT ![t] = r]

\* abort() of the handles registered under the keys ks.
HandlesOrNone(ks) == {keepers[k] : k \in ks}
Handles(ks) == {keepers[k] : k \in ks} \ {None}
Cleared(f, ks) == [k \in Keys |-> IF k \in ks THEN None ELSE f[k]]
At(f, ks) == {f[k] : k \in ks} \ {None}

\* Closing the pools ps, or dropping their last handle.
Closed(ps) == pool' = [p \in Pools |-> IF p \in ps THEN "closed" ELSE pool[p]]

(***************************************************************************)
(* reset_connection_transport: the tunnels of the connection are stopped,   *)
(* under the pools that use them and the ones being opened through them.    *)
(***************************************************************************)
Connecting == {p \in Pools : pc[p] \in {"check2", "probe", "check3", "open"}}
Reset == broken' = IF setup.tunnelled
                   THEN broken \cup {p \in Pools : pool[p] = "open"} \cup Connecting
                   ELSE broken

(***************************************************************************)
(* Attempts.  connect_db begins a new one; disconnect_db supersedes the     *)
(* current one, if it names an attempt only while that one is current.      *)
(***************************************************************************)
ConnectBegin(c) ==
    /\ c \in Connects \cap setup.calls /\ pc[c] = "idle"
    /\ attempt' = attempt + 1 /\ client' = c
    /\ num' = [num EXCEPT ![c] = attempt + 1]
    /\ Goto(c, "list")
    /\ UNCHANGED <<setup, configured, mapVars, poolVars, keepVars, taskVars, hand>>

AnyAttempt(d) == TRUE
Superseding(d) == Names[d] = None \/ client = Names[d]

DisconnectBegin(d) ==
    /\ d \in Disconnects \cap setup.calls /\ pc[d] = "idle"
    /\ \/ /\ Superseding(d)
          /\ attempt' = attempt + 1 /\ client' = None
          /\ num' = [num EXCEPT ![d] = attempt + 1]
          /\ Goto(d, "list")
          /\ UNCHANGED result
       \/ /\ ~Superseding(d)
          /\ Return(d, "ignored")
          /\ UNCHANGED <<attempt, client, num>>
    /\ UNCHANGED <<setup, configured, mapVars, poolVars, keepVars, after, seen, removing, hand>>

\* The other calls begin; a reconnect first removes the pool it replaces, all
\* pools of the connection if they share its transport.
Begin(t) ==
    /\ t \in setup.calls \ (Connects \cup Disconnects) /\ pc[t] = "idle"
    /\ \/ /\ t \in (Gets \ Reconnects) \cup Healths
          /\ Goto(t, "lookup")
          /\ UNCHANGED <<removing, after>>
       \/ /\ t \in Refreshes
          /\ Goto(t, "examine")
          /\ UNCHANGED <<removing, after>>
       \/ /\ t \in Reconnects /\ setup.tunnelled
          /\ Goto(t, "list")
          /\ UNCHANGED <<removing, after>>
       \/ /\ t \in Removers \cup (IF setup.tunnelled THEN {} ELSE Reconnects)
          /\ Goto(t, "stop")
          /\ removing' = [removing EXCEPT ![t] = {Key(t)}]
          /\ after' = [after EXCEPT ![t] = IF t \in Removers THEN "done" ELSE "lookup"]
    /\ UNCHANGED <<attemptVars, mapVars, poolVars, keepVars, seen, result, hand>>

(***************************************************************************)
(* Removal of pools from the map, in the order every remover follows: list  *)
(* (drain_connection_pools only), stop the keepalive tasks, drop the cancel *)
(* contexts, take the pools out of the map, close them.                     *)
(***************************************************************************)
BaseOnly == {k \in {Base} : conns[k] # None}
Listed == {k \in Keys : conns[k] # None}

List(t) ==
    /\ pc[t] = "list"
    /\ seen' = [seen EXCEPT ![t] = conns]
    /\ removing' = [removing EXCEPT ![t] = Listed]
    /\ after' = [after EXCEPT ![t] = "reset"]
    /\ Goto(t, "stop")
    /\ UNCHANGED <<attemptVars, mapVars, poolVars, keepVars, result, hand>>

Stop(t) ==
    /\ pc[t] = "stop"
    /\ aborted' = aborted \cup Handles(removing[t])
    /\ keepers' = Cleared(keepers, removing[t])
    /\ Goto(t, IF t \in Refreshes THEN "remove" ELSE "context")
    /\ UNCHANGED <<attemptVars, conns, contexts, poolVars, keeper, taskVars, hand>>

DropContext(t) ==
    /\ pc[t] = "context"
    /\ contexts' = contexts \ removing[t]
    /\ Goto(t, "remove")
    /\ UNCHANGED <<attemptVars, conns, keepers, poolVars, keepVars, taskVars, hand>>

\* connect_db and disconnect_db leave the closing of what they drain to a
\* background task.
Detached(t) == t \in Connects \cup Disconnects /\ after[t] = "reset"

Remove(t) ==
    /\ pc[t] = "remove"
    /\ conns' = Cleared(conns, removing[t])
    /\ hand' = [hand EXCEPT ![IF Detached(t) THEN Background ELSE t] =
                    @ \cup At(conns, removing[t])]
    /\ Goto(t, IF Detached(t) THEN "reset" ELSE "close")
    /\ UNCHANGED <<attemptVars, keepers, contexts, poolVars, keepVars, taskVars>>

\* After a failed health check, whether a pool was removed decides: a get opens
\* a new one, a health check reports an error.
Close(t) ==
    /\ pc[t] = "close"
    /\ Closed(hand[t])
    /\ hand' = [hand EXCEPT ![t] = {}]
    /\ \/ /\ after[t] \in {"lookup", "reset"}
          /\ Goto(t, after[t]) /\ UNCHANGED result
       \/ after[t] = "done" /\ Return(t, "ok")
       \/ /\ after[t] = "verdict" /\ hand[t] = {}
          /\ Return(t, "ok")
       \/ /\ after[t] = "verdict" /\ hand[t] # {} /\ t \in Pools
          /\ Goto(t, "check1") /\ UNCHANGED result
       \/ /\ after[t] = "verdict" /\ hand[t] # {} /\ t \in Healths
          /\ Return(t, "err")
    /\ UNCHANGED <<attemptVars, mapVars, broken, keepVars, after, seen, removing>>

BackgroundClose(p) ==
    /\ p \in hand[Background]
    /\ Closed({p})
    /\ hand' = [hand EXCEPT ![Background] = @ \ {p}]
    /\ UNCHANGED <<attemptVars, mapVars, broken, keepVars, pc, taskVars>>

\* The transport is reset after a drain; the web route then stores the config.
ResetTransport(t) ==
    /\ pc[t] = "reset"
    /\ Reset
    /\ \/ /\ t \in Desktop
          /\ Goto(t, "endpoint") /\ UNCHANGED <<configured, result>>
       \/ /\ t \in Connects \ Desktop
          /\ configured' = TRUE
          /\ Goto(t, "lookup") /\ UNCHANGED result
       \/ /\ t \in Reconnects
          /\ Goto(t, "lookup") /\ UNCHANGED <<configured, result>>
       \/ /\ t \in Disconnects \cup Refreshes
          /\ Return(t, "ok") /\ UNCHANGED configured
    /\ UNCHANGED <<setup, attempt, client, num, mapVars, pool, keepVars, after, seen, removing, hand>>

(***************************************************************************)
(* Health checks: get_or_create_pool and check_connection_health for one    *)
(* key, refresh_connections for all.  The handle is read under the lock,    *)
(* pinged without it, and a failed ping removes what the map has by then.   *)
(* A running query (is_pool_active) skips the check.                        *)
(***************************************************************************)
Lookup(t) ==
    /\ pc[t] = "lookup"
    /\ \/ /\ t \in Pools /\ ~configured
          /\ Return(t, "err")
       \/ /\ t \in Pools /\ configured /\ conns[Key(t)] = None
          /\ Goto(t, "check1") /\ UNCHANGED result
       \/ /\ t \in Healths /\ conns[Key(t)] = None
          /\ Return(t, "err")
       \/ /\ conns[Key(t)] # None /\ (t \in Pools => configured)
          /\ Goto(t, "examine") /\ UNCHANGED result
    /\ UNCHANGED <<attemptVars, mapVars, poolVars, keepVars, after, seen, removing, hand>>

Examine(t) ==
    /\ pc[t] = "examine"
    /\ LET keys == IF t \in Refreshes THEN Keys ELSE {Key(t)}
           now == [k \in Keys |-> IF k \in keys THEN conns[k] ELSE None]
       IN \/ /\ t \notin Refreshes /\ now = Empty
             /\ Return(t, "ok") /\ UNCHANGED seen
          \/ /\ t \in Refreshes \/ now # Empty
             /\ seen' = [seen EXCEPT ![t] = now]
             /\ Goto(t, "ping") /\ UNCHANGED result
    /\ UNCHANGED <<attemptVars, mapVars, poolVars, keepVars, after, removing, hand>>

\* Pools that cannot answer a ping.
Unreachable == {p \in Pools : pool[p] = "closed" /\ Refusing} \cup broken

\* The sets of keys a check of the pools f may find dead.
Dead(f) == LET has == {k \in Keys : f[k] # None}
               must == {k \in has : f[k] \in Unreachable}
           IN {d \in SUBSET has : must \subseteq d /\ (~Drops => d = must)}

Ping(t) ==
    /\ pc[t] = "ping"
    /\ \E d \in Dead(seen[t]) :
        /\ removing' = [removing EXCEPT ![t] = d]
        /\ \/ /\ d = {} /\ t \notin Refreshes
              /\ Return(t, "ok") /\ UNCHANGED after
           \/ /\ d = {} /\ t \in Refreshes
              /\ Goto(t, "reset") /\ UNCHANGED <<after, result>>
           \/ /\ d # {}
              /\ Goto(t, "stop")
              /\ after' = [after EXCEPT ![t] = IF t \in Refreshes THEN "reset" ELSE "verdict"]
              /\ UNCHANGED result
    /\ UNCHANGED <<attemptVars, mapVars, poolVars, keepVars, seen, hand>>

PingSkipped(t) ==
    /\ pc[t] = "examine" /\ t \notin Refreshes
    /\ Return(t, "ok")
    /\ UNCHANGED <<attemptVars, mapVars, poolVars, keepVars, after, seen, removing, hand>>

(***************************************************************************)
(* Opening a pool.  An attempt checks that it is still current before and   *)
(* after each piece of I/O; once superseded it resets the transport, drops  *)
(* the pool it may have opened and fails.                                   *)
(***************************************************************************)
Current(t) == t \in Connects => num[t] = attempt
NextStep == [check1 |-> "endpoint", check2 |-> "probe", check3 |-> "open", check4 |-> "istop"]

Check(t) ==
    /\ pc[t] \in DOMAIN NextStep
    /\ \/ /\ Current(t)
          /\ Goto(t, NextStep[pc[t]])
          /\ UNCHANGED <<broken, pool, hand, result>>
       \/ /\ ~Current(t)
          /\ IF pc[t] = "check1" THEN UNCHANGED broken ELSE Reset
          /\ Closed(hand[t])
          /\ hand' = [hand EXCEPT ![t] = {}]
          /\ Return(t, "superseded")
    /\ UNCHANGED <<attemptVars, mapVars, keepVars, after, seen, removing>>

\* connection_host_port and probe_connection_endpoint.
Endpoint(t) ==
    /\ pc[t] \in {"endpoint", "probe"}
    /\ \/ Goto(t, IF pc[t] = "endpoint" THEN "check2" ELSE "check3") /\ UNCHANGED result
       \/ Return(t, "err")
    /\ UNCHANGED <<attemptVars, mapVars, poolVars, keepVars, after, seen, removing, hand>>

\* The desktop command opens its pool itself, the others in get_or_create_pool.
OpenThen(t, label) ==
    /\ pc[t] = "open"
    /\ \/ /\ t \notin broken
          /\ pool' = [pool EXCEPT ![t] = "open"]
          /\ hand' = [hand EXCEPT ![t] = {t}]
          /\ Goto(t, label)
          /\ UNCHANGED result
       \/ Return(t, "err") /\ UNCHANGED <<pool, hand>>
    /\ UNCHANGED <<attemptVars, mapVars, broken, keepVars, after, seen, removing>>

DesktopOpen(t) == t \in Desktop /\ OpenThen(t, "check4")
Open(t) == t \notin Desktop /\ OpenThen(t, "icontext")

InsertContext(t) ==
    /\ pc[t] = "icontext"
    /\ contexts' = contexts \cup {Key(t)}
    /\ Goto(t, "check4")
    /\ UNCHANGED <<attemptVars, conns, keepers, poolVars, keepVars, taskVars, hand>>

(***************************************************************************)
(* insert_connection_pool: stop the keepalive task of the key, start one    *)
(* for the new pool, put the pool into the map, close the one it replaces.  *)
(***************************************************************************)
InsertStop(t) ==
    /\ pc[t] = "istop"
    /\ aborted' = aborted \cup Handles({Key(t)})
    /\ keepers' = Cleared(keepers, {Key(t)})
    /\ Goto(t, IF setup.keepAlive THEN "istart" ELSE "iput")
    /\ UNCHANGED <<attemptVars, conns, contexts, poolVars, keeper, taskVars, hand>>

InsertStart(t) ==
    /\ pc[t] = "istart"
    /\ keeper' = [keeper EXCEPT ![t] = "sleep"]
    /\ aborted' = aborted \cup Handles({Key(t)})
    /\ keepers' = [keepers EXCEPT ![Key(t)] = t]
    /\ Goto(t, "iput")
    /\ UNCHANGED <<attemptVars, conns, contexts, poolVars, taskVars, hand>>

ForgetReplaced(t) == {}
Replaced(t) == At(conns, {Key(t)})

InsertPut(t) ==
    /\ pc[t] = "iput"
    /\ conns' = [conns EXCEPT ![Key(t)] = t]
    /\ hand' = [hand EXCEPT ![t] = Replaced(t)]
    /\ Goto(t, "iclose")
    /\ UNCHANGED <<attemptVars, keepers, contexts, poolVars, keepVars, taskVars>>

InsertClose(t) ==
    /\ pc[t] = "iclose"
    /\ Closed(hand[t])
    /\ hand' = [hand EXCEPT ![t] = {}]
    /\ configured' = (configured \/ t \in Desktop)
    /\ Return(t, "ok")
    /\ UNCHANGED <<setup, attempt, client, num, mapVars, broken, keepVars, after, seen, removing>>

(***************************************************************************)
(* start_keepalive_task: the task of pool p.  When its ping fails it drops  *)
(* the handle registered under its key (without aborting it), the context   *)
(* and the pool, whosever they are by then, closes that pool and ends.      *)
(***************************************************************************)
Keeper(p) == <<"keepalive", p>>
PingFails(p) == p \in Unreachable \/ Drops

KeeperPing(p) ==
    /\ keeper[p] = "sleep" /\ p \notin aborted
    /\ PingFails(p)
    /\ keeper' = [keeper EXCEPT ![p] = "forget"]
    /\ UNCHANGED <<attemptVars, mapVars, poolVars, aborted, pc, taskVars, hand>>

KeeperForget(p) ==
    /\ keeper[p] = "forget"
    /\ keepers' = [keepers EXCEPT ![Key(p)] = None]
    /\ keeper' = [keeper EXCEPT ![p] = "context"]
    /\ UNCHANGED <<attemptVars, conns, contexts, poolVars, aborted, pc, taskVars, hand>>

KeeperContext(p) ==
    /\ keeper[p] = "context"
    /\ contexts' = contexts \ {Key(p)}
    /\ keeper' = [keeper EXCEPT ![p] = "remove"]
    /\ UNCHANGED <<attemptVars, conns, keepers, poolVars, aborted, pc, taskVars, hand>>

KeeperRemove(p) ==
    /\ keeper[p] = "remove"
    /\ hand' = [hand EXCEPT ![Keeper(p)] = At(conns, {Key(p)})]
    /\ conns' = Cleared(conns, {Key(p)})
    /\ keeper' = [keeper EXCEPT ![p] = "close"]
    /\ UNCHANGED <<attemptVars, keepers, contexts, poolVars, aborted, pc, taskVars>>

\* Closing, and the end of an aborted task at one of its awaits.  A task that
\* is not suspended does not notice an abort before it is.
NeverEnds(p) == keeper' = [keeper EXCEPT ![p] = "sleep"]
Ends(p) == keeper' = [keeper EXCEPT ![p] = "done"]

KeeperEnd(p) ==
    /\ \/ keeper[p] = "close"
       \/ p \in aborted /\ keeper[p] \in {"sleep", "forget", "context", "remove"}
    /\ Closed(hand[Keeper(p)])
    /\ hand' = [hand EXCEPT ![Keeper(p)] = {}]
    /\ Ends(p)
    /\ UNCHANGED <<attemptVars, mapVars, broken, aborted, pc, taskVars>>

KeeperStep(p) == KeeperForget(p) \/ KeeperContext(p) \/ KeeperRemove(p) \/ KeeperEnd(p)

Next ==
    \/ \E t \in Tasks :
        \/ ConnectBegin(t) \/ DisconnectBegin(t) \/ Begin(t)
        \/ List(t) \/ Stop(t) \/ DropContext(t) \/ Remove(t) \/ Close(t) \/ ResetTransport(t)
        \/ Lookup(t) \/ Examine(t) \/ Ping(t) \/ PingSkipped(t)
        \/ Check(t) \/ Endpoint(t) \/ DesktopOpen(t) \/ Open(t) \/ InsertContext(t)
        \/ InsertStop(t) \/ InsertStart(t) \/ InsertPut(t) \/ InsertClose(t)
    \/ \E p \in Pools : BackgroundClose(p) \/ KeeperPing(p) \/ KeeperStep(p)

(***************************************************************************)
(* Fairness: spawned tasks are polled; a keepalive timer fires at times no  *)
(* query is active, and a ping of a pool that is gone fails.                *)
(***************************************************************************)
Fairness ==
    \A p \in Pools :
        /\ WF_vars(BackgroundClose(p))
        /\ WF_vars(p \in Unreachable /\ KeeperPing(p))
        /\ WF_vars(KeeperStep(p))

Spec == Init /\ [][Next]_vars
FairSpec == Spec /\ Fairness
----------------------------------------------------------------------------
Labels == {"idle", "list", "stop", "context", "remove", "close", "reset", "lookup",
           "examine", "ping", "check1", "endpoint", "check2", "probe", "check3", "open",
           "icontext", "check4", "istop", "istart", "iput", "iclose", "done"}

TypeOK ==
    /\ setup \in Setups
    /\ attempt \in Nat /\ client \in Connects \cup {None} /\ configured \in BOOLEAN
    /\ conns \in [Keys -> Pools \cup {None}] /\ keepers \in [Keys -> Pools \cup {None}]
    /\ contexts \subseteq Keys
    /\ pool \in [Pools -> {"none", "open", "closed"}] /\ broken \subseteq Pools
    /\ keeper \in [Pools -> {"none", "sleep", "forget", "context", "remove", "close", "done"}]
    /\ aborted \subseteq Pools
    /\ pc \in [Tasks -> Labels] /\ after \in [Tasks -> {"done", "lookup", "reset", "verdict"}]
    /\ num \in [Tasks -> Nat]
    /\ seen \in [Tasks -> [Keys -> Pools \cup {None}]]
    /\ removing \in [Tasks -> SUBSET Keys]
    /\ hand \in [Holders -> SUBSET Pools]
    /\ result \in [Tasks -> {"none", "ok", "err", "superseded", "ignored"}]

(***************************************************************************)
(* Every open pool has exactly one owner, the map under one key or one task *)
(* that will insert or close it, and a closed pool has none: however the    *)
(* removers, inserters and keepalive tasks interleave, no pool is leaked,   *)
(* closed twice, or left in the map after it was closed.                    *)
(***************************************************************************)
Owners(p) == {<<"map", k>> : k \in {k \in Keys : conns[k] = p}}
             \cup {<<"hand", h>> : h \in {h \in Holders : p \in hand[h]}}
OneOwner ==
    \A p \in Pools : IF pool[p] = "open" THEN \E o \in Owners(p) : Owners(p) = {o}
                                          ELSE Owners(p) = {}

(***************************************************************************)
(* What drain_connection_pools found in the map, under the connection's id  *)
(* and under its database and tab keys, is out of the map for good once it  *)
(* has removed the keys it listed, whatever was inserted or replaced since. *)
(***************************************************************************)
Drained(t) == after[t] = "reset" /\ t \notin Refreshes
              /\ pc[t] \in {"close", "reset", "endpoint"}
DrainedStayOut ==
    \A t \in Tasks, k, l \in Keys :
        Drained(t) /\ seen[t][k] # None => conns[l] # seen[t][k]

(***************************************************************************)
(* An attempt fails as superseded only because a newer one began, or it was *)
(* cancelled itself, or the connection was closed after it began: a         *)
(* disconnect that names an older attempt never stops a newer one.          *)
(***************************************************************************)
SupersededHasCause ==
    \A c \in Connects :
        result[c] = "superseded" =>
            \E x \in Connects \cup Disconnects :
                num[x] > num[c] /\ (x \in Disconnects => Names[x] \in {None, c})

(***************************************************************************)
(* No keepalive task outlives its pool for ever: of every pool that is      *)
(* closed the task ends, aborted or because its ping fails, even when its   *)
(* handle was lost.  (For the kinds of pool that refuse work once they are  *)
(* closed.)                                                                 *)
(***************************************************************************)
KeepaliveEnds ==
    <>[](\A p \in Pools : pool[p] = "closed" => keeper[p] \in {"none", "done"})

(***************************************************************************)
(* "stale_connection_attempt_cannot_replace_newer_pool": a pool put into    *)
(* the map over the pool of another attempt is of a newer attempt.          *)
(***************************************************************************)
StaleCannotReplace ==
    [][\A k \in Keys :
          conns'[k] # conns[k] /\ conns[k] \in Connects /\ conns'[k] \in Connects
              => num[conns'[k]] > num[conns[k]]]_vars
=============================================================================
