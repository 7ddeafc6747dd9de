------------------------------ MODULE Transfer ------------------------------
(***************************************************************************)
(* Copying tables from one database to another: start_transfer of the       *)
(* desktop and web back ends, and transfer_table, transfer_mongodb_table    *)
(* and the PostgreSQL schema steps of crates/dbx-core/src/transfer.rs.      *)
(*                                                                         *)
(* The tables are visited in the order of TableOrder.  Each is created and  *)
(* cleared as the request says and filled page by page; a page is written   *)
(* in several statements.  A statement can be refused, and a connection can *)
(* be lost with a statement done or not done; the pool is then discarded    *)
(* and the statement is not sent again.  A cancellation may come at any     *)
(* time.  Rows are abstracted to the keys they have: a row of the target is *)
(* an old one or a copy.                                                    *)
(***************************************************************************)
EXTENDS TableOrder

CONSTANTS
    Size,     \* the number of rows of each source table
    Batch,    \* batch_size, the rows a page is asked to have
    RowCap,   \* MAX_ROWS, the rows a SQL driver returns when no limit is passed
    Chunk,    \* the rows of one write statement
    Steps,    \* the statements of each PostgreSQL schema phase
    Setups,   \* the requests and databases to start from
    Faults    \* which of "error", "lost", "cancel" may happen

Rows(t) == 1 .. Size[t]
Keys == {0} \cup UNION {Rows(t) : t \in Names}

ASSUME TransferAssumption ==
    /\ Size \in [Names -> Nat] /\ Batch \in Nat \ {0} /\ RowCap \in Nat \ {0} /\ Chunk \in Nat \ {0}
    /\ Steps \in Nat /\ Faults \subseteq {"error", "lost", "cancel"}

ASSUME SetupAssumption ==
    \A s \in Setups :
        /\ s.fks \subseteq Names \X Names \X Nat /\ IsFiniteSet(s.fks)
        /\ s.mode \in {"append", "overwrite", "upsert"}
        /\ s.kind \in {"sql", "postgres", "from_mongo", "to_mongo"}
        /\ s.old \in [Names -> SUBSET Keys]

VARIABLES
    setup,      \* the request: its mode, kind, whether it creates tables, and the
                \* databases: which tables have keys, which exist, the rows they have
    index,      \* the table being transferred
    steps,      \* schema statements left in this phase
    page, rowCount, offset, prepared, preexisting, effective,   \* transfer_table
    pools,      \* which of the pools "source", "target" are in the map
    exists, old, copies,   \* the target tables and their rows
    cancelled,  \* the entry of CANCELLED
    failed,     \* failed_tables
    reported,   \* the last event of each table
    status,     \* the terminal event
    asked,      \* history: a cancellation was asked for
    late,       \* history: rows written since then
    blamed      \* history: tables of which a step met a fault or a conflict

tableVars == <<page, rowCount, offset, prepared, preexisting, effective>>
targetVars == <<exists, old, copies>>
reportVars == <<failed, reported, status>>
history == <<asked, late, blamed>>
vars == <<sortVars, setup, index, steps, tableVars, pools, targetVars, cancelled,
          reportVars, history>>

Init ==
    /\ setup \in Setups
    /\ fks = setup.fks /\ parentsFirst = setup.parentsFirst
    /\ SortInit
    /\ index = 1 /\ steps = 0
    /\ page = <<>> /\ rowCount = 0 /\ offset = 0 /\ prepared = FALSE
    /\ preexisting = FALSE /\ effective = "append"
    /\ pools = {"source", "target"}
    /\ exists = setup.exists
    /\ old = setup.old
    /\ copies = [t \in Names |-> [k \in Keys |-> 0]]
    /\ cancelled = FALSE
    /\ failed = {} /\ reported = [t \in Names |-> "none"] /\ status = "running"
    /\ asked = FALSE /\ late = 0 /\ blamed = {}

table == sorted[index]
MongoSource == setup.kind = "from_mongo"
MongoTarget == setup.kind = "to_mongo"
Postgres == setup.kind = "postgres"
IsMongo(p) == IF p = "source" THEN MongoSource ELSE MongoTarget

NeverAsked == FALSE
IsCancelled == cancelled

-----------------------------------------------------------------------------
(***************************************************************************)
(* How the task ends, and how it goes from one table to the next.           *)
(***************************************************************************)
Terminate(s) ==
    /\ stage' = "end"
    /\ status' = s
    /\ cancelled' = FALSE

\* Ok of transfer_table is the event TableDone; Err is an event Error and an
\* entry of failed_tables, and the loop goes on.
NextTable(result) ==
    /\ reported' = [reported EXCEPT ![table] = result]
    /\ failed' = IF result = "error" THEN failed \cup {table} ELSE failed
    /\ index' = index + 1
    /\ stage' = "table"
    /\ page' = <<>>

Fail == NextTable("error") /\ UNCHANGED status

(***************************************************************************)
(* execute_on_pool: what can become of one statement.                       *)
(***************************************************************************)
\* WriteNoReplay: a lost connection discards the pool, and the statement fails.
\* MongoDB's driver keeps its own connections: the pool stays.
ErrorAction(p) == pools' = IF IsMongo(p) THEN pools ELSE pools \ {p}

Accepted(p) == p \in pools /\ UNCHANGED <<pools, blamed>>

\* A statement the server refuses, for a reason of its own or for this cause, or
\* whose pool is gone.
Refused(p, cause) ==
    /\ "error" \in Faults \/ p \notin pools \/ cause
    /\ blamed' = IF p \in pools THEN blamed \cup {table} ELSE blamed
    /\ UNCHANGED pools

LostConnection(p) ==
    /\ "lost" \in Faults /\ p \in pools
    /\ blamed' = blamed \cup {table}

-----------------------------------------------------------------------------
(***************************************************************************)
(* start_transfer.                                                          *)
(***************************************************************************)
TransferUnchanged == UNCHANGED <<setup, index, steps, tableVars, pools, targetVars,
                                 cancelled, reportVars, history>>

SortTables == Sort /\ TransferUnchanged

\* The commands sort_tables_by_fk_dependency only return the order; an export and a
\* drop go their own way with it.
ReturnOrder ==
    /\ stage = "sorted" /\ ~setup.transfer
    /\ stage' = "end" /\ fks' = {}
    /\ UNCHANGED <<parentsFirst, degree, queue, sorted>>
    /\ TransferUnchanged

SchemaPhase == Postgres /\ setup.create

StartTables ==
    /\ stage = "sorted" /\ setup.transfer
    /\ stage' = IF SchemaPhase THEN "dependencies" ELSE "table"
    /\ steps' = IF SchemaPhase THEN Steps ELSE 0
    /\ fks' = {}
    /\ UNCHANGED <<parentsFirst, degree, queue, sorted, setup, index, tableVars, pools,
                   targetVars, cancelled, reportVars, history>>

\* transfer_postgres_schema_dependencies and transfer_postgres_schema_objects: a
\* cancellation is looked for before each statement.
SchemaUnchanged == UNCHANGED <<fks, parentsFirst, degree, queue, sorted, setup, index,
                               tableVars, targetVars, history>>

\* The definitions are read from the source before the first statement for the target.
SchemaReachable == pools = {"source", "target"}
\* A statement that fails, with its connection or without.
SchemaFailure ==
    \/ ("error" \in Faults \/ ~SchemaReachable) /\ UNCHANGED pools
    \/ "lost" \in Faults /\ "target" \in pools /\ ErrorAction("target")

\* A failure ends the transfer before its first table.
DependencyStep ==
    /\ stage = "dependencies" /\ steps > 0
    /\ \/ IsCancelled /\ Terminate("cancelled") /\ UNCHANGED <<steps, pools>>
       \/ /\ ~IsCancelled /\ SchemaReachable
          /\ steps' = steps - 1
          /\ UNCHANGED <<stage, pools, cancelled, status>>
       \/ /\ ~IsCancelled /\ SchemaFailure
          /\ Terminate("error")
          /\ UNCHANGED steps
    /\ UNCHANGED <<failed, reported>>
    /\ SchemaUnchanged

\* A failure skips the other objects, and the transfer ends with an error.
ObjectStep ==
    /\ stage = "objects" /\ steps > 0
    /\ \/ IsCancelled /\ Terminate("cancelled") /\ UNCHANGED <<steps, pools, failed>>
       \/ /\ ~IsCancelled /\ SchemaReachable
          /\ steps' = steps - 1
          /\ UNCHANGED <<stage, pools, cancelled, status, failed>>
       \/ /\ ~IsCancelled /\ SchemaFailure
          /\ failed' = failed \cup {"schema objects"}
          /\ steps' = 0
          /\ UNCHANGED <<stage, cancelled, status>>
    /\ UNCHANGED reported
    /\ SchemaUnchanged

RetryFailed ==
    /\ stage \in {"dependencies", "objects"} /\ steps = 0
    /\ \/ (stage = "dependencies" \/ failed # {}) /\ stage' = "table" /\ UNCHANGED <<cancelled, status>>
       \/ stage = "objects" /\ failed = {} /\ Terminate("done")
    /\ UNCHANGED <<steps, pools, failed, reported>>
    /\ SchemaUnchanged

SchemaDone ==
    /\ stage \in {"dependencies", "objects"} /\ steps = 0
    /\ \/ stage = "dependencies" /\ stage' = "table" /\ UNCHANGED <<cancelled, status>>
       \/ stage = "objects" /\ Terminate(IF failed = {} THEN "done" ELSE "error")
    /\ UNCHANGED <<steps, pools, failed, reported>>
    /\ SchemaUnchanged

NextIndex ==
    /\ stage = "table"
    /\ \/ /\ index > Len(sorted)
          /\ stage' = "objects"
          /\ steps' = IF SchemaPhase THEN Steps ELSE 0
          /\ UNCHANGED <<cancelled, status>>
       \/ /\ index <= Len(sorted) /\ IsCancelled
          /\ Terminate("cancelled")
          /\ UNCHANGED steps
       \/ /\ index <= Len(sorted) /\ ~IsCancelled
          /\ stage' = "resolve"
          /\ UNCHANGED <<steps, cancelled, status>>
    /\ UNCHANGED <<fks, parentsFirst, degree, queue, sorted, setup, index, tableVars,
                   pools, targetVars, failed, reported, history>>

-----------------------------------------------------------------------------
(***************************************************************************)
(* transfer_table and transfer_mongodb_table.                               *)
(***************************************************************************)
TableUnchanged == UNCHANGED <<fks, parentsFirst, degree, queue, sorted, setup, steps,
                              cancelled, asked>>

Goto(s) == stage' = s /\ UNCHANGED <<index, failed, reported, status>>
FailTable == Fail /\ UNCHANGED <<rowCount, offset, prepared, preexisting, effective>>

\* The statement whose connection was lost is not sent again: its table fails.
Replay(p) == Goto(stage) /\ UNCHANGED <<pools, tableVars>>
NoReplay(p) == ErrorAction(p) /\ FailTable

\* resolve_transfer_target_table_name: the lookup goes through get_or_create_pool,
\* so it brings a discarded pool back; a failed lookup counts as no table.
NotReopened == {}
Reopened == {"target"}
Resolve ==
    /\ stage = "resolve"
    /\ \/ /\ preexisting' = (~MongoTarget /\ table \in exists)
          /\ pools' = IF MongoTarget THEN pools ELSE pools \cup Reopened
          /\ UNCHANGED blamed
       \/ /\ ~MongoTarget
          /\ preexisting' = FALSE
          /\ \/ "error" \in Faults /\ pools' = pools \cup Reopened
             \/ "lost" \in Faults /\ pools' = pools \ {"target"}
          /\ blamed' = blamed \cup {table}
    /\ Goto(IF MongoTarget THEN "clear" ELSE IF MongoSource THEN "page" ELSE "columns")
    /\ offset' = 0 /\ prepared' = FALSE /\ effective' = "append"
    /\ UNCHANGED <<page, rowCount, targetVars, late>>
    /\ TableUnchanged

\* The columns, and the indexes and foreign keys of a PostgreSQL table.
ReadColumns ==
    /\ stage = "columns"
    /\ \/ Accepted("source") /\ Goto("count") /\ UNCHANGED tableVars
       \/ Refused("source", FALSE) /\ FailTable
    /\ UNCHANGED <<targetVars, late>>
    /\ TableUnchanged

\* A failed count is only logged, whatever it does to the pool.
CountRows ==
    /\ stage = "count"
    /\ \/ Accepted("source")
       \/ Refused("source", FALSE)
       \/ LostConnection("source") /\ ErrorAction("source")
    /\ Goto("create")
    /\ UNCHANGED <<tableVars, targetVars, late>>
    /\ TableUnchanged

Created == exists' = exists \cup {table} /\ UNCHANGED <<old, copies>>

CreateTable ==
    /\ stage = "create"
    /\ LET sends == setup.create /\ (Postgres \/ ~preexisting) IN
       \/ /\ ~sends /\ Goto("clear")
          /\ UNCHANGED <<pools, blamed, tableVars, targetVars>>
       \/ /\ sends /\ Accepted("target")
          /\ Created
          /\ preexisting' = (table \in exists)
          /\ Goto("clear")
          /\ UNCHANGED <<page, rowCount, offset, prepared, effective>>
       \/ /\ sends /\ Refused("target", FALSE) /\ UNCHANGED targetVars /\ FailTable
       \/ /\ sends /\ LostConnection("target")
          /\ Created \/ UNCHANGED targetVars
          /\ NoReplay("target")
    /\ UNCHANGED late
    /\ TableUnchanged

Cleared ==
    /\ old' = [old EXCEPT ![table] = {}]
    /\ copies' = [copies EXCEPT ![table] = [k \in Keys |-> 0]]
    /\ UNCHANGED exists

\* A collection that is copied to a SQL table is read before the table is prepared.
AfterClear == IF MongoSource THEN "write" ELSE IF MongoTarget THEN "page" ELSE "mode"
Exists(t) == MongoTarget \/ t \in exists

ClearTable ==
    /\ stage = "clear"
    /\ \/ /\ setup.mode # "overwrite" /\ Goto(AfterClear)
          /\ prepared' = TRUE
          /\ UNCHANGED <<pools, blamed, targetVars, page, rowCount, offset, preexisting, effective>>
       \/ /\ setup.mode = "overwrite" /\ Accepted("target") /\ Exists(table)
          /\ Cleared /\ Goto(AfterClear)
          /\ prepared' = TRUE
          /\ UNCHANGED <<page, rowCount, offset, preexisting, effective>>
       \/ /\ setup.mode = "overwrite" /\ Refused("target", ~Exists(table))
          /\ UNCHANGED targetVars /\ FailTable
       \/ /\ setup.mode = "overwrite" /\ LostConnection("target")
          /\ (Exists(table) /\ Cleared) \/ UNCHANGED targetVars
          /\ NoReplay("target")
    /\ UNCHANGED late
    /\ TableUnchanged

\* A table this transfer creates has the primary key of its source.
Keyed(t) == IF t \in setup.exists THEN t \in setup.targetKeys
            ELSE t \in setup.sourceKeys /\ ~MongoSource

\* Upsert needs the primary key of the target; a key that cannot be read is no key.
ChooseMode ==
    /\ stage = "mode"
    /\ effective' \in (IF setup.mode = "upsert" /\ Keyed(table) /\ "target" \in pools
                       THEN {"upsert"} ELSE {"append"})
                      \cup (IF "error" \in Faults THEN {"append"} ELSE {})
    /\ Goto("page")
    /\ UNCHANGED <<page, rowCount, offset, prepared, preexisting, pools, blamed, targetVars, late>>
    /\ TableUnchanged

Ordered(t) == MongoSource \/ t \in setup.sourceKeys

\* No page is cut short: MongoDB's cursor has no cap, and the drivers' is no less
\* than a batch.
Uncapped == MongoSource \/ Batch <= RowCap

\* execute_on_pool passes no max_rows: whatever LIMIT the statement has, a SQL
\* driver stops at its cap.
PageLimit == IF Uncapped THEN Batch ELSE RowCap
PageSize(t) == IF Size[t] - offset < PageLimit THEN Size[t] - offset ELSE PageLimit

\* LIMIT Batch OFFSET offset, by primary key; without one the server may
\* return the rows of each page in an order of its own.
Pages(t) ==
    IF Ordered(t) THEN {[i \in 1 .. PageSize(t) |-> offset + i]}
    ELSE {p \in [1 .. PageSize(t) -> Rows(t)] : IsInjective(p)}

AfterRead(n) == IF n = 0 THEN "finish" ELSE IF MongoSource /\ ~prepared THEN "create" ELSE "write"

ReadPage ==
    /\ stage = "page"
    /\ \/ /\ IsCancelled
          /\ Terminate("cancelled")
          /\ UNCHANGED <<index, failed, reported, pools, blamed, tableVars>>
       \/ /\ ~IsCancelled /\ Accepted("source")
          /\ page' \in Pages(table)
          /\ rowCount' = Len(page')
          /\ Goto(AfterRead(rowCount'))
          /\ UNCHANGED <<cancelled, offset, prepared, preexisting, effective>>
       \/ ~IsCancelled /\ Refused("source", FALSE) /\ FailTable /\ UNCHANGED cancelled
       \/ ~IsCancelled /\ LostConnection("source") /\ NoReplay("source") /\ UNCHANGED cancelled
    /\ UNCHANGED <<fks, parentsFirst, degree, queue, sorted, setup, steps, asked, targetVars, late>>

-----------------------------------------------------------------------------
(***************************************************************************)
(* The write statements of a page.                                          *)
(***************************************************************************)
\* The rows of the next statement: MongoDB takes the page in one call.
NextChunk == IF MongoTarget THEN page ELSE SubSeq(page, 1, IF Len(page) < Chunk THEN Len(page) ELSE Chunk)

Present(t, k) == k \in old[t] \/ copies[t][k] > 0
Conflicts(t, rows) == effective = "append" /\ Keyed(t) /\ \E i \in DOMAIN rows : Present(t, rows[i])

Written(t, rows) ==
    /\ copies' = [copies EXCEPT ![t] = [k \in Keys |->
            IF k \notin ToSet(rows) THEN @[k]
            ELSE IF effective = "upsert" THEN 1 ELSE @[k] + 1]]
    /\ old' = [old EXCEPT ![t] = IF effective = "upsert" THEN @ \ ToSet(rows) ELSE @]
    /\ late' = IF asked THEN late + Len(rows) ELSE late
    /\ UNCHANGED exists

NotWritten == UNCHANGED <<targetVars, late>>

\* What a failed statement may have left: nothing or everything where a statement
\* is atomic, and the first documents of an insertMany.
LeftWritten(t, rows) ==
    \/ NotWritten
    \/ ~Conflicts(t, rows) /\ Written(t, rows)
    \/ /\ MongoTarget
       /\ \E n \in 1 .. Len(rows) :
             ~Conflicts(t, SubSeq(rows, 1, n)) /\ Written(t, SubSeq(rows, 1, n))

StopsEarly(rest) ==
    /\ page' = rest
    /\ IF rest # <<>> THEN Goto("write") /\ UNCHANGED offset
       ELSE /\ Goto(IF rowCount <= Batch THEN "finish" ELSE "page")
            /\ offset' = offset + rowCount
EndOfPage(rest) ==
    /\ page' = rest
    /\ IF rest # <<>> THEN Goto("write") /\ UNCHANGED offset
       ELSE /\ Goto(IF rowCount < Batch THEN "finish" ELSE "page")
            /\ offset' = offset + rowCount

WriteRows ==
    /\ stage = "write"
    /\ LET rows == NextChunk IN
       \/ /\ Accepted("target") /\ Exists(table) /\ ~Conflicts(table, rows)
          /\ Written(table, rows)
          /\ EndOfPage(SubSeq(page, Len(rows) + 1, Len(page)))
          /\ UNCHANGED <<rowCount, prepared, preexisting, effective>>
       \/ /\ Refused("target", ~Exists(table) \/ Conflicts(table, rows))
          /\ IF MongoTarget THEN LeftWritten(table, rows) ELSE NotWritten
          /\ FailTable
       \/ /\ LostConnection("target")
          /\ IF Exists(table) THEN LeftWritten(table, rows) ELSE NotWritten
          /\ NoReplay("target")
    /\ TableUnchanged

\* A PostgreSQL table gets its sequences, indexes and foreign keys last.
FinishTable ==
    /\ stage = "finish"
    /\ \/ /\ ~Postgres \/ Accepted("target")
          /\ NextTable("done")
          /\ UNCHANGED <<status, pools, blamed, rowCount, offset, prepared, preexisting, effective>>
       \/ Postgres /\ Refused("target", FALSE) /\ FailTable
       \/ Postgres /\ LostConnection("target") /\ NoReplay("target")
    /\ UNCHANGED <<targetVars, late>>
    /\ TableUnchanged

\* cancel_transfer, from another request.
Cancel ==
    /\ "cancel" \in Faults /\ ~asked
    /\ asked' = TRUE /\ cancelled' = TRUE
    /\ UNCHANGED <<sortVars, setup, index, steps, tableVars, pools, targetVars,
                   reportVars, late, blamed>>

Task == \/ SortTables \/ ReturnOrder \/ StartTables \/ DependencyStep \/ ObjectStep \/ SchemaDone \/ NextIndex
        \/ Resolve \/ ReadColumns \/ CountRows \/ CreateTable \/ ClearTable \/ ChooseMode
        \/ ReadPage \/ WriteRows \/ FinishTable

Next == Task \/ Cancel

Spec == Init /\ [][Next]_vars
FairSpec == Spec /\ WF_vars(Task)

-----------------------------------------------------------------------------
Total(t) == FoldFunction(+, 0, copies[t])
KeepsOld(t) == CASE setup.mode = "overwrite" -> {}
                 [] setup.mode = "upsert" /\ Keyed(t) /\ ~MongoSource /\ ~MongoTarget ->
                        setup.old[t] \ Rows(t)
                 [] OTHER -> setup.old[t]
SkippedClear(t) == MongoSource /\ setup.mode = "overwrite" /\ Size[t] = 0

\* A table that was reported as done holds what the mode promises, however often
\* connections were lost and re-opened on the way: every source row once, and of
\* the old rows those the mode keeps.  (Without a primary key to order the pages
\* only the number of rows is right; an empty collection is done without clearing
\* its table: SkippedClear.)  A transfer ends as done only with all tables done.
\* It depends on a batch of at most RowCap rows, the most the field of the dialog
\* allows; nothing else enforces it.
DoneIsComplete ==
    /\ \A t \in Names : reported[t] = "done" =>
         /\ Ordered(t) => \A k \in Keys : copies[t][k] = IF k \in Rows(t) THEN 1 ELSE 0
         /\ Ordered(t) \/ Keyed(t) \/ Total(t) = Size[t]
         /\ Ordered(t) /\ ~SkippedClear(t) => old[t] = KeepsOld(t)
    /\ status = "done" => \A t \in Names : reported[t] = "done"

\* No row of an ordered table is ever in the target twice, in any state the
\* transfer passes through or gives up in: a write whose connection was lost is
\* not sent again.
NeverTwice == \A t \in Names : Ordered(t) => \A k \in Keys : copies[t][k] <= 1

\* Once a cancellation was asked for, at most the page in hand is still written.
CancelStopsInBatch == late <= Batch

\* A table fails through a statement of its own, or because the source is gone: a
\* target connection lost with one table does not take the next ones down, which the
\* loop goes on to.
FailureIsLocal ==
    \A t \in Names : reported[t] = "error" => t \in blamed \/ "source" \notin pools

\* What the guide to data transfer says of a failure: it stops the transfer, so no
\* table after the failed one gets a report of its own.
FailureStopsTransfer ==
    \A i, j \in DOMAIN sorted :
        i < j /\ reported[sorted[i]] = "error" => reported[sorted[j]] = "none"

\* The task ends: every page read either advances the offset or is the last.
TransferEnds == <>(stage = "end")
=============================================================================
