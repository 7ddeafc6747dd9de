--------------------------- MODULE QueryExecution ---------------------------
(***************************************************************************)
(* Running SQL: execute_multi, execute_sql_statement, do_execute and        *)
(* execute_statements_in_transaction in crates/dbx-core/src/query.rs, and   *)
(* the registry of running queries in query_cancel.rs.                      *)
(*                                                                         *)
(* Queries of several tabs use one key of the pool map.  Its pool is either *)
(* a set of connections, one of which is checked out for a statement, a     *)
(* MySQL batch or a transaction (MySQL, PostgreSQL), or one connection      *)
(* under a mutex that is taken for each statement (SQL Server).  A          *)
(* statement can fail, lose its connection or time out with its effect done *)
(* or not done, and a query can be cancelled at any time.                   *)
(***************************************************************************)
EXTENDS Naturals, Sequences, FiniteSets, SequencesExt

CONSTANTS
    Queries,    \* the executions
    Setups,     \* what each query asks for, and the kind of the database
    MaxPools,   \* bound on the pools ever opened under the key
    PoolSize,   \* connections of a pool
    MaxSets,    \* bound on the result sets of one batch of a SQL Server script
    Faults      \* which of "error", "lost", "timeout", "cancel" may happen

Kinds == {"mysql", "postgres", "sqlserver"}
Pools == 1 .. MaxPools
Conns == Pools \X (0 .. PoolSize)   \* <<pool, 0>> is the connection under the mutex
None == <<0, 0>>

\* A request with no statement is answered before anything else is done.
Requests == [path : {"loop", "batch", "transaction"},
             statements : Seq({"read", "write"}) \ {<<>>},
             continue : BOOLEAN]

ASSUME QueryAssumption ==
    /\ Setups \subseteq [kind : Kinds, request : [Queries -> Requests]]
    /\ MaxPools \in Nat /\ PoolSize \in Nat \ {0} /\ MaxSets \in Nat \ {0}
    /\ Faults \subseteq {"error", "lost", "timeout", "cancel"}

VARIABLES
    setup,      \* [kind, request]
    pool,       \* the pool under the key, 0 for none
    opened,     \* the number of pools opened so far
    registered, token,   \* RunningQueries: the entries, and the cancelled tokens
    pc, path, stmt, attempt, held, conn,   \* the queries
    results,    \* what each query reports
    depth,      \* the server: transaction depth of each connection
    pending,    \* the server: writes of the open transaction of each connection
    committed,  \* the server: writes that are durable
    dead,       \* connections whose socket is gone
    executed,   \* history: how often the server has executed each write
    about,      \* history: the statement each result is about, 0 for all of them
    churn,      \* history: what each query did to the pool since its cancellation
    used        \* history: the connections each transaction has used

serverVars == <<depth, pending, committed, dead>>
history == <<executed, churn, used>>
vars == <<setup, pool, opened, registered, token, pc, path, stmt, attempt, held, conn,
          results, about, serverVars, history>>

Shared == setup.kind = "sqlserver"
InTransaction(q) == path[q] = "transaction"
Statements(q) == setup.request[q].statements

\* The statements a query sends; the last of an explicit transaction is the ROLLBACK
\* that exec_tx_explicit_inner sends after a failure.
Script(q) ==
    IF InTransaction(q) THEN <<"begin">> \o Statements(q) \o <<"commit", "rollback">>
    ELSE Statements(q)
Op(q) == Script(q)[stmt[q]]
Writes(q) == {<<q, i>> : i \in {j \in DOMAIN Script(q) : Script(q)[j] = "write"}}

Init ==
    /\ setup \in Setups
    /\ pool = 0 /\ opened = 0
    /\ registered = {} /\ token = {}
    /\ pc = [q \in Queries |-> "idle"]
    /\ path = [q \in Queries |-> setup.request[q].path]
    /\ stmt = [q \in Queries |-> 1]
    /\ attempt = [q \in Queries |-> 1]
    /\ held = [q \in Queries |-> 0]
    /\ conn = [q \in Queries |-> None]
    /\ results = [q \in Queries |-> <<>>] /\ about = [q \in Queries |-> <<>>]
    /\ depth = [c \in Conns |-> 0]
    /\ pending = [c \in Conns |-> {}]
    /\ committed = {} /\ dead = {}
    /\ executed = [w \in UNION {Writes(q) : q \in Queries} |-> 0]
    /\ churn = [q \in Queries |-> <<>>] /\ used = [q \in Queries |-> {}]

-----------------------------------------------------------------------------
(***************************************************************************)
(* The registry of running queries.                                         *)
(***************************************************************************)
\* register_task.
Register(q) ==
    /\ pc[q] = "idle"
    /\ registered' = registered \cup {q}
    /\ pc' = [pc EXCEPT ![q] = "open"]
    /\ UNCHANGED <<setup, pool, opened, token, path, stmt, attempt, held, conn, results, about,
                   serverVars, history>>

\* RunningQueries::cancel; a query that has ended is not found.  The token of a
\* transaction is left out: execute_statements_in_transaction does not get it.
Cancel(q) ==
    /\ "cancel" \in Faults /\ q \in registered /\ q \notin token /\ ~InTransaction(q)
    /\ token' = token \cup {q}
    /\ UNCHANGED <<setup, pool, opened, registered, pc, path, stmt, attempt, held, conn,
                   results, about, serverVars, history>>

IsCanceled(q) == q \in token

-----------------------------------------------------------------------------
(***************************************************************************)
(* What becomes of a statement.  Its outcome is "ok", "error" (the server   *)
(* refused it), "lost" (any message is_connection_error recognises),        *)
(* "timeout" or "canceled".                                                 *)
(***************************************************************************)
\* pool_error_action is not Keep.
Discards(r) == r \in {"lost", "timeout"}

\* A mutant: every statement that lost its connection is replayed.
RetryAll(q, r) == path[q] = "loop" /\ attempt[q] = 1 /\ r = "lost" /\ ~IsCanceled(q)
\* A mutant: a cancelled read is replayed too.
RetryCancelled(q, r) == path[q] = "loop" /\ attempt[q] = 1 /\ r = "lost" /\ Op(q) = "read"
\* query_pool_error_action: only a read is replayed, once.
Retries(q, r) ==
    /\ path[q] = "loop" /\ attempt[q] = 1
    /\ r = "lost" /\ Op(q) = "read"
    /\ ~IsCanceled(q)

\* Who removes the pool: the caller of do_execute for the first attempt, do_execute
\* itself for SQL Server, and the batch and transaction functions.  A cancelled read
\* that lost its connection leaves the pool alone.
RemovesPool(q, r) ==
    /\ Discards(r)
    /\ \/ Shared \/ path[q] # "loop"
       \/ attempt[q] = 1 /\ (r = "timeout" \/ Op(q) = "write" \/ ~IsCanceled(q))

\* What a cancelled query does to the pool.
Noted(q, what) == [churn EXCEPT ![q] = IF IsCanceled(q) THEN Append(@, what) ELSE @]

\* remove_pool_by_key: whatever pool the key has by now.
Removal(q, remove) ==
    /\ pool' = IF remove THEN 0 ELSE pool
    /\ churn' = IF remove /\ pool # 0 THEN Noted(q, "remove") ELSE churn
    /\ UNCHANGED opened

\* Results of the statement at hand are added to the answer, or an error takes the
\* place of the answer.
Adds(q, r, n) ==
    /\ results' = [results EXCEPT ![q] = @ \o [i \in 1 .. n |-> r]]
    /\ about' = [about EXCEPT ![q] = @ \o [i \in 1 .. n |-> stmt[q]]]
Replaces(q, r) ==
    /\ results' = [results EXCEPT ![q] = <<r>>]
    /\ about' = [about EXCEPT ![q] = <<0>>]

\* A batch of a SQL Server script may return several result sets.
Sets(q, r) == IF Shared /\ path[q] = "batch" /\ r = "ok" THEN 1 .. MaxSets ELSE {1}

\* A transaction has one result, that of its first failure or of COMMIT.
NoResult(q, r) == InTransaction(q) /\ ((r = "ok" /\ Op(q) # "commit") \/ results[q] # <<>>)
\* A mutant: a failed statement of a loop or a batch leaves no result.
OnlySuccesses(q, r) ==
    IF NoResult(q, r) \/ (~InTransaction(q) /\ r # "ok") THEN UNCHANGED <<results, about>>
    ELSE \E n \in Sets(q, r) : Adds(q, r, n)
Reported(q, r) ==
    IF NoResult(q, r) THEN UNCHANGED <<results, about>>
    ELSE \E n \in Sets(q, r) : Adds(q, r, n)

\* A mutant: a failed statement of a transaction does not stop it.
CarryOn(q, r) ==
    CASE path[q] = "loop" -> FALSE
      [] path[q] = "batch" -> Discards(r) \/ (r # "ok" /\ ~Shared /\ ~setup.request[q].continue)
      [] InTransaction(q) -> \/ Op(q) \in {"commit", "rollback"}
                             \/ r # "ok" /\ ~(r = "error" /\ Op(q) = "write")
\* A mutant: a ROLLBACK that fails is sent again.
RollbackAgain(q, r) ==
    CASE path[q] = "loop" -> FALSE
      [] path[q] = "batch" -> Discards(r) \/ (r # "ok" /\ ~Shared /\ ~setup.request[q].continue)
      [] InTransaction(q) -> \/ Op(q) = "commit" \/ (Op(q) = "rollback" /\ r = "ok")
                             \/ r # "ok" /\ (~Shared \/ Op(q) = "begin")
\* After this outcome nothing more is sent: the last statement, the ROLLBACK, or a
\* failure that ends a batch or a transaction.
Ends(q, r) ==
    CASE path[q] = "loop" -> FALSE
      [] path[q] = "batch" -> Discards(r) \/ (r # "ok" /\ ~Shared /\ ~setup.request[q].continue)
      [] InTransaction(q) -> \/ Op(q) \in {"commit", "rollback"}
                             \/ r # "ok" /\ (~Shared \/ Op(q) = "begin")

\* A mutant: a statement is skipped after a failure.
SkipOne(q, r) == stmt[q] + (IF r = "ok" THEN 1 ELSE 2)
\* The next thing to send: an explicit transaction jumps to its ROLLBACK.
NextStmt(q, r) ==
    IF InTransaction(q) /\ Shared /\ r # "ok" THEN Len(Script(q)) ELSE stmt[q] + 1

\* The connection goes back after a statement, except within a batch or a transaction
\* that has a connection of its own.
Keeps(q) == ~Shared /\ path[q] # "loop"

Finish(q) ==
    /\ pc' = [pc EXCEPT ![q] = "end"]
    /\ conn' = [conn EXCEPT ![q] = None]
    /\ registered' = registered \ {q}
    /\ UNCHANGED <<stmt, attempt>>

\* What the callers of do_execute, and the loops of the batches and the transactions,
\* do with the outcome of a statement.
After(q, r) ==
    \/ /\ Retries(q, r)                    \* reconnect_pool_for_session, then once more
       /\ Removal(q, TRUE)
       /\ attempt' = [attempt EXCEPT ![q] = 2]
       /\ pc' = [pc EXCEPT ![q] = "lookup"]
       /\ conn' = [conn EXCEPT ![q] = None]
       /\ UNCHANGED <<stmt, results, about, registered>>
    \/ /\ ~Retries(q, r) /\ Ends(q, r)
       /\ Reported(q, r)
       /\ Removal(q, RemovesPool(q, r) \/ (InTransaction(q) /\ Discards(Last(results'[q]))))
       /\ Finish(q)
    \/ /\ ~Retries(q, r) /\ ~Ends(q, r)
       /\ Reported(q, r)
       /\ Removal(q, RemovesPool(q, r))
       /\ stmt' = [stmt EXCEPT ![q] = NextStmt(q, r)]
       /\ pc' = [pc EXCEPT ![q] = "next"]
       /\ conn' = [conn EXCEPT ![q] = IF Keeps(q) THEN @ ELSE None]
       /\ UNCHANGED <<attempt, registered>>

-----------------------------------------------------------------------------
(***************************************************************************)
(* From the entry point to a connection.                                    *)
(***************************************************************************)
\* get_or_create_pool of the entry point, or of a statement of a loop.
GetOrCreatePool(q) ==
    /\ pc[q] \in {"open", "lookup"}
    /\ \/ pool # 0 /\ UNCHANGED <<pool, opened, churn>>
       \/ /\ pool = 0 /\ opened < MaxPools
          /\ pool' = opened + 1 /\ opened' = opened + 1
          /\ churn' = Noted(q, "open")
    /\ pc' = [pc EXCEPT ![q] = IF @ = "open" THEN "route" ELSE "attach"]
    /\ UNCHANGED <<setup, registered, token, path, stmt, attempt, held, conn, results, about,
                   serverVars, executed, used>>

\* The server cannot be reached, or the bound on the pools is met.  The error of the
\* first statement's lookup may be the whole answer; no pool is removed.
OpenFails(q) ==
    /\ pc[q] \in {"open", "lookup"} /\ pool = 0
    /\ "lost" \in Faults \/ opened = MaxPools
    /\ \/ pc[q] = "open" /\ Replaces(q, "lost") /\ Finish(q)
       \/ /\ pc[q] = "lookup"
          /\ Adds(q, "lost", 1)
          /\ stmt' = [stmt EXCEPT ![q] = @ + 1]
          /\ pc' = [pc EXCEPT ![q] = "next"]
          /\ UNCHANGED <<attempt, conn, registered>>
    /\ UNCHANGED <<setup, pool, opened, token, path, held, serverVars, history>>

\* The map is read for the kind of the pool.  A MySQL batch and a transaction with a
\* connection of its own keep the pool they find; a batch that finds none runs as a loop.
Route(q) ==
    /\ pc[q] = "route"
    /\ \/ /\ pool # 0 \/ ~InTransaction(q)
          /\ path' = [path EXCEPT ![q] = IF pool = 0 THEN "loop" ELSE @]
          /\ held' = [held EXCEPT ![q] = pool]
          /\ pc' = [pc EXCEPT ![q] =
                      IF pool # 0 /\ path[q] # "loop" /\ ~Shared THEN "checkout" ELSE "next"]
          /\ UNCHANGED <<stmt, attempt, conn, results, about, registered>>
       \/ /\ pool = 0 /\ InTransaction(q)
          /\ Replaces(q, "lost") /\ Finish(q)
          /\ UNCHANGED <<path, held>>
    /\ UNCHANGED <<setup, pool, opened, token, serverVars, history>>

\* The head of the loops.
NextStatement(q) ==
    /\ pc[q] = "next"
    /\ \/ /\ stmt[q] > Len(Script(q))
          /\ Finish(q) /\ UNCHANGED <<results, about>>
       \/ /\ stmt[q] <= Len(Script(q)) /\ IsCanceled(q)
          /\ Adds(q, "canceled", 1) /\ Finish(q)
       \/ /\ stmt[q] <= Len(Script(q)) /\ ~IsCanceled(q)
          /\ pc' = [pc EXCEPT ![q] = CASE path[q] = "loop" -> "lookup"
                                       [] Keeps(q) -> "send"
                                       [] OTHER -> "attach"]
          /\ attempt' = [attempt EXCEPT ![q] = 1]
          /\ UNCHANGED <<stmt, conn, results, about, registered>>
    /\ UNCHANGED <<setup, pool, opened, token, path, held, serverVars, history>>

\* The handle of the pool is cloned out of the map.  "Connection not found" counts as
\* a lost connection; in a SQL Server batch it is the answer, in place of the results.
Attach(q) ==
    /\ pc[q] = "attach"
    /\ \/ /\ path[q] = "loop" /\ attempt[q] = 1 /\ IsCanceled(q)
          /\ After(q, "canceled") /\ UNCHANGED held
       \/ /\ ~(path[q] = "loop" /\ attempt[q] = 1 /\ IsCanceled(q)) /\ pool # 0
          /\ held' = [held EXCEPT ![q] = pool]
          /\ pc' = [pc EXCEPT ![q] = "checkout"]
          /\ UNCHANGED <<pool, opened, churn, stmt, attempt, conn, results, about, registered>>
       \/ /\ ~(path[q] = "loop" /\ attempt[q] = 1 /\ IsCanceled(q)) /\ pool = 0
          /\ \/ path[q] # "batch" /\ After(q, "lost")
             \/ /\ path[q] = "batch" /\ Replaces(q, "lost") /\ Finish(q)
                /\ UNCHANGED <<pool, opened, churn>>
          /\ UNCHANGED held
    /\ UNCHANGED <<setup, token, path, serverVars, executed, used>>

Free(q) ==
    {c \in {held[q]} \X (IF Shared THEN {0} ELSE 1 .. PoolSize) :
        \A p \in Queries : conn[p] # c}

\* A connection is checked out, or the mutex taken.  A SQL Server batch then looks
\* whether its client is still the one in the map.
Checkout(q) ==
    /\ pc[q] = "checkout" /\ ~IsCanceled(q)
    /\ \E c \in Free(q) :
        \/ /\ ~(path[q] = "batch" /\ Shared /\ pool # held[q])
           /\ conn' = [conn EXCEPT ![q] = c]
           /\ pc' = [pc EXCEPT ![q] = IF path[q] = "batch" /\ Keeps(q) THEN "next" ELSE "send"]
           /\ UNCHANGED <<stmt, attempt, results, about, registered>>
        \/ /\ path[q] = "batch" /\ Shared /\ pool # held[q]
           /\ Adds(q, "error", 1) /\ Finish(q)
    /\ UNCHANGED <<setup, pool, opened, token, path, held, serverVars, history>>

\* The checkout times out, or meets a pool that was closed meanwhile (an error whose
\* text need not look like a lost connection); a SQL Server batch gives up the wait
\* for the mutex.  Nothing has been sent.
CheckoutFails(q) ==
    /\ pc[q] = "checkout"
    /\ \E r \in {"lost", "error", "timeout"} :
        /\ CASE r = "lost" -> ~Shared /\ "timeout" \in Faults
             [] r = "error" -> ~Shared /\ pool # held[q]
             [] OTHER -> Shared /\ path[q] = "batch" /\ "timeout" \in Faults
        /\ \/ path[q] # "batch" /\ After(q, r)
           \/ path[q] = "batch" /\ Removal(q, r = "lost") /\ Adds(q, r, 1) /\ Finish(q)
    /\ UNCHANGED <<setup, token, path, held, serverVars, executed, used>>

\* Cancelled while it waits: MySQL drops the pool it waited for.
CheckoutCanceled(q) ==
    /\ pc[q] = "checkout" /\ IsCanceled(q)
    /\ Removal(q, setup.kind = "mysql")
    /\ Adds(q, "canceled", 1)
    /\ \/ path[q] = "batch" /\ Finish(q)
       \/ /\ path[q] = "loop"
          /\ stmt' = [stmt EXCEPT ![q] = @ + 1]
          /\ pc' = [pc EXCEPT ![q] = "next"]
          /\ UNCHANGED <<attempt, conn, registered>>
    /\ UNCHANGED <<setup, token, path, held, serverVars, executed, used>>

-----------------------------------------------------------------------------
(***************************************************************************)
(* A statement at the server.                                               *)
(***************************************************************************)
\* wait_for_query_opt: the biased select looks at the token before it polls the
\* statement, which sends it.
Send(q) ==
    /\ pc[q] = "send"
    /\ \/ IsCanceled(q) /\ After(q, "canceled") /\ UNCHANGED used
       \/ /\ ~IsCanceled(q)
          /\ pc' = [pc EXCEPT ![q] = "running"]
          /\ used' = IF InTransaction(q) THEN [used EXCEPT ![q] = @ \cup {conn[q]}] ELSE used
          /\ UNCHANGED <<pool, opened, churn, stmt, attempt, conn, results, about, registered>>
    /\ UNCHANGED <<setup, token, path, held, serverVars, executed>>

\* What the server does with the statement, when it does it: a write inside a
\* transaction is durable once the outermost COMMIT is.
Depth(q, done) ==
    LET d == depth[conn[q]] IN
    IF ~done THEN d
    ELSE CASE Op(q) = "begin" -> d + 1
           [] Op(q) = "commit" -> d - 1
           [] Op(q) = "rollback" -> 0
           [] OTHER -> d

Execute(q, done, rolledBack) ==
    LET c == conn[q]
        w == IF done /\ Op(q) = "write" THEN {<<q, stmt[q]>>} ELSE {}
        all == pending[c] \cup w
        d == Depth(q, done)
    IN  /\ executed' = [x \in DOMAIN executed |-> executed[x] + (IF x \in w THEN 1 ELSE 0)]
        /\ depth' = [depth EXCEPT ![c] = IF rolledBack THEN 0 ELSE d]
        /\ pending' = [pending EXCEPT ![c] = IF rolledBack \/ d = 0 THEN {} ELSE all]
        /\ committed' = IF d = 0 /\ ~(done /\ Op(q) = "rollback")
                        THEN committed \cup all ELSE committed

\* The outcomes the server and the network can produce for the statement on the wire:
\* COMMIT and ROLLBACK fail outside a transaction, nothing arrives on a dead socket,
\* what is lost, timed out or cancelled was carried out or was not, and so was what
\* precedes the error in a batch of a SQL Server script.
Outcomes(q) ==
    LET c == conn[q]
        idle == Op(q) \in {"commit", "rollback"} /\ depth[c] = 0
        maybe == IF idle \/ c \in dead THEN {FALSE} ELSE BOOLEAN
        refused == IF Shared /\ path[q] = "batch" THEN BOOLEAN ELSE {FALSE}
    IN  (IF idle \/ c \in dead THEN {} ELSE {<<"ok", TRUE>>})
        \cup (IF c \notin dead /\ ("error" \in Faults \/ idle) THEN {"error"} \X refused ELSE {})
        \cup (IF "lost" \in Faults \/ c \in dead THEN {"lost"} \X maybe ELSE {})
        \cup (IF "timeout" \in Faults THEN {"timeout"} \X maybe ELSE {})
        \cup (IF IsCanceled(q) THEN {"canceled"} \X maybe ELSE {})

\* A connection of its own goes back to its pool outside any transaction: after a
\* failure it is rolled back, by ROLLBACK, by the drop of the transaction or by the
\* reset of the driver.
Answered(q) ==
    /\ pc[q] = "running"
    /\ \E o \in Outcomes(q) :
        LET r == o[1] IN
        /\ Execute(q, o[2], r = "lost" \/ (InTransaction(q) /\ ~Shared /\ Ends(q, r)))
        /\ dead' = IF Shared /\ r = "lost" THEN dead \cup {conn[q]} ELSE dead
        /\ After(q, r)
    /\ UNCHANGED <<setup, token, path, held, used>>

\* A connection nobody can reach any more is closed, and the server rolls it back.
Disconnect(c) ==
    /\ depth[c] > 0 /\ c[1] # pool
    /\ \A q \in Queries : conn[q] # c /\ ~(held[q] = c[1] /\ pc[q] = "checkout")
    /\ depth' = [depth EXCEPT ![c] = 0] /\ pending' = [pending EXCEPT ![c] = {}]
    /\ UNCHANGED <<setup, pool, opened, registered, token, pc, path, stmt, attempt, held,
                   conn, results, about, committed, dead, history>>

Step(q) ==
    \/ Register(q) \/ GetOrCreatePool(q) \/ OpenFails(q) \/ Route(q) \/ NextStatement(q)
    \/ Attach(q) \/ Checkout(q) \/ CheckoutFails(q) \/ CheckoutCanceled(q)
    \/ Send(q) \/ Answered(q)

Ended == \A q \in Queries : pc[q] = "end"

Next ==
    \/ \E q \in Queries : Step(q) \/ Cancel(q)
    \/ \E c \in Conns : Disconnect(c)
    \/ Ended /\ UNCHANGED vars

Spec == Init /\ [][Next]_vars

\* The runtime polls every task; a statement is answered, or given up, in the end.
FairSpec == Spec /\ \A q \in Queries : WF_vars(Step(q))

-----------------------------------------------------------------------------
TypeOK ==
    /\ pool \in 0 .. opened /\ opened \in 0 .. MaxPools
    /\ registered \subseteq Queries /\ token \subseteq Queries
    /\ pc \in [Queries -> {"idle", "open", "route", "next", "lookup", "attach", "checkout",
                           "send", "running", "end"}]
    /\ path \in [Queries -> {"loop", "batch", "transaction"}]
    /\ \A q \in Queries : stmt[q] \in 1 .. Len(Script(q)) + 1 /\ attempt[q] \in 1 .. 2
    /\ held \in [Queries -> 0 .. MaxPools]
    /\ conn \in [Queries -> Conns \cup {None}]
    /\ depth \in [Conns -> Nat] /\ dead \subseteq Conns
    /\ about \in [Queries -> Seq(Nat)]

\* A write is executed at most once, whatever is lost, timed out, cancelled or retried:
\* the server may have carried out a statement whose connection was lost, and only
\* reads are replayed (query_pool_error_action).
WriteOnce == \A w \in DOMAIN executed : executed[w] <= 1

\* The results of a loop or a batch are those of its statements from the first one
\* on, in their order and with none left out, one of each; only a batch of a SQL Server
\* script may have several.  (The answer may be one error instead.)
InOrder(q) ==
    \/ about[q] = <<0>> /\ results[q] # <<"ok">>
    \/ \A i \in DOMAIN results[q] :
          LET last == IF i = 1 THEN 0 ELSE about[q][i - 1] IN
          about[q][i] = last + 1 \/ (about[q][i] = last /\ Shared /\ path[q] = "batch" /\ i > 1)

\* A write reported as done is durable.  (SQL Server is left out when somebody runs a
\* transaction on its connection: see TxOwnsConnection.)
Durable(q) ==
    ~(Shared /\ \E p \in Queries : InTransaction(p)) =>
        \A i \in DOMAIN results[q] :
            results[q][i] = "ok" /\ Statements(q)[about[q][i]] = "write" =>
                <<q, about[q][i]>> \in committed

\* What a query reports is true: neither a retry, a discarded pool nor a statement of
\* another tab shifts the results or takes a write back.
ResultsTrue == \A q \in Queries : ~InTransaction(q) => InOrder(q) /\ Durable(q)

\* A transaction on a connection of its own is all or nothing, whenever its connection
\* is lost, COMMIT included, and all of it is durable when it reports success.
TxAtomic ==
    \A q \in Queries :
        InTransaction(q) /\ ~Shared =>
            /\ committed \cap Writes(q) \in {{}, Writes(q)}
            /\ results[q] = <<"ok">> => Writes(q) \subseteq committed

\* A cancelled query gives up: it may still get the pool it was about to look up, and
\* take away the pool its statement or its checkout failed on, but it does not open one
\* again afterwards, nor take the next one away from the other tabs.
CancelGivesUp ==
    \A q \in Queries : churn[q] \in {<<>>, <<"open">>, <<"remove">>, <<"open", "remove">>}

\* Every query returns: nobody waits for ever for the mutex, a connection or the pool.
EveryQueryEnds == \A q \in Queries : <>(pc[q] = "end")

\* What the comment above exec_tx_pg_inner says of every transaction: one connection
\* runs all its statements, and nobody else uses it meanwhile.
TxOwnsConnection ==
    \A t \in Queries :
        InTransaction(t) /\ pc[t] # "end" =>
            /\ Cardinality(used[t]) <= 1
            /\ \A p \in Queries \ {t} : conn[p] \in used[t] => depth[conn[p]] = 0
=============================================================================
