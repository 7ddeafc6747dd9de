--------------------------- MODULE TransferProofs ---------------------------
(***************************************************************************)
(* Proofs about Transfer, for any tables, sizes, page and statement sizes,  *)
(* requests and faults.                                                     *)
(*                                                                         *)
(* The invariant follows the table being transferred.  What its offset and  *)
(* the rest of its page say is what the target holds of it: the rows up to  *)
(* there once and no other.  Tables that were not reached are untouched,    *)
(* and those that were left are not touched again, because the order has    *)
(* each table once.                                                         *)
(***************************************************************************)
EXTENDS Transfer, TableOrderProofs

InTable == {"resolve", "columns", "count", "create", "clear", "mode", "page", "write", "finish"}
Stages == InTable \cup {"sort", "rounds", "sorted", "dependencies", "table", "objects", "end"}

TypeInv ==
    /\ setup \in Setups /\ stage \in Stages
    /\ index \in Nat \ {0} /\ steps \in Nat
    /\ page \in Seq(Keys) /\ rowCount \in Nat /\ offset \in Nat
    /\ prepared \in BOOLEAN /\ effective \in {"append", "upsert"}
    /\ pools \subseteq {"source", "target"}
    /\ old \in [Names -> SUBSET Keys] /\ copies \in [Names -> [Keys -> Nat]]
    /\ cancelled \in BOOLEAN /\ asked \in BOOLEAN /\ late \in Nat
    /\ reported \in [Names -> {"none", "done", "error"}]

IndexInv ==
    /\ stage \in {"sort", "rounds", "sorted", "dependencies"} => index = 1
    /\ stage \in InTable => index <= Len(sorted)
    /\ stage = "objects" => index > Len(sorted)

\* A table has a report exactly if its turn is over; all are done when the task is.
ReportInv ==
    /\ \A t \in Names : reported[t] # "none" => \E i \in DOMAIN sorted : i < index /\ sorted[i] = t
    /\ \A i \in DOMAIN sorted : i < index => reported[sorted[i]] # "none"
    /\ \A t \in Names : reported[t] = "error" => t \in failed
    /\ stage # "end" => status = "running"
    /\ status = "done" => \A t \in Names : reported[t] = "done"

\* A request to cancel is remembered until the task ends; what was written since then
\* and what is still in hand make at most a page.
CancelInv ==
    /\ ~asked => ~cancelled /\ late = 0
    /\ asked /\ stage # "end" => cancelled
    /\ late + Len(page) <= Batch

\* The target's pool was lost, if at all, with the table at hand.
PoolInv ==
    /\ MongoTarget => "target" \in pools
    /\ stage \in InTable \ {"resolve"} => "target" \in pools \/ table \in blamed
    /\ FailureIsLocal

Fresh(t) == \A i \in DOMAIN sorted : sorted[i] = t =>
                i > index \/ (i = index /\ stage \notin InTable \cup {"end"})
Untouched(t) == (\A k \in Keys : copies[t][k] = 0) /\ old[t] = setup.old[t]
FreshInv == \A t \in Names : Fresh(t) => Untouched(t)

\* The rows that arrive of a table: all of them, unless the driver cuts a page; that
\* page is short and so the last, and it was the first.
Arrives(t) == IF Uncapped \/ Size[t] <= RowCap THEN Size[t] ELSE RowCap

\* The page of the table at hand: where it starts, what is left of it, and that only
\* the last one is short.
InHand == stage = "write" \/ (stage \in {"create", "clear"} /\ MongoSource)
HandInv ==
    /\ offset + rowCount <= Arrives(table)
    /\ rowCount < Batch => offset + rowCount = Arrives(table)
    /\ ~Uncapped => rowCount < Batch
    /\ page # <<>> /\ Len(page) <= rowCount
    /\ stage # "write" => Len(page) = rowCount
    /\ Ordered(table) => \A i \in DOMAIN page : page[i] = offset + rowCount - Len(page) + i
PageInv ==
    /\ stage \in {"columns", "count", "mode"} => ~MongoSource /\ ~MongoTarget
    /\ stage \in {"columns", "count", "create", "clear", "mode"} => offset = 0
    /\ stage \in {"page", "finish"} /\ ~prepared => offset = 0
    /\ stage \in {"page", "finish"} => prepared \/ MongoSource
    /\ stage \in {"mode", "write"} => prepared
    /\ stage = "page" => offset <= Arrives(table) /\ (Uncapped \/ offset = 0)
    /\ stage = "finish" => offset = Arrives(table)
    /\ InHand => HandInv

ModeInv ==
    effective = "upsert" => /\ setup.mode = "upsert" /\ ~MongoSource /\ ~MongoTarget
                            /\ stage \in {"page", "write", "finish"} => Keyed(table)

\* The target rows of the table at hand: Filled rows of the source are there.
Filled == IF stage = "write" THEN offset + rowCount - Len(page) ELSE offset
Base(t) == IF prepared /\ setup.mode = "overwrite" THEN {} ELSE setup.old[t]
RowsInv ==
    /\ \A k \in Keys : copies[table][k] = IF k \in 1 .. Filled THEN 1 ELSE 0
    /\ effective = "upsert" => old[table] = Base(table) \ (1 .. Filled)
    /\ effective = "append" => /\ old[table] = Base(table)
                               /\ Keyed(table) => old[table] \cap (1 .. Filled) = {}
FillInv ==
    /\ stage \in InTable \ {"mode", "page", "write", "finish"} => Untouched(table)
    /\ stage = "mode" => (\A k \in Keys : copies[table][k] = 0) /\ old[table] = Base(table)
    /\ stage \in {"page", "write", "finish"} /\ Ordered(table) => RowsInv

\* What a table holds that was reported as done: the rows that arrived, and of the
\* old ones those the mode keeps.
Kept(t) == CASE setup.mode = "overwrite" -> {}
             [] setup.mode = "upsert" /\ Keyed(t) /\ ~MongoSource /\ ~MongoTarget ->
                    setup.old[t] \ (1 .. Arrives(t))
             [] OTHER -> setup.old[t]
DoneInv ==
    \A t \in Names : reported[t] = "done" /\ Ordered(t) =>
        /\ \A k \in Keys : copies[t][k] = IF k \in 1 .. Arrives(t) THEN 1 ELSE 0
        /\ ~SkippedClear(t) => old[t] = Kept(t)

LocalInv == PageInv /\ ModeInv /\ FillInv
IInv == /\ SortInv /\ TypeInv /\ IndexInv /\ ReportInv /\ CancelInv /\ PoolInv
        /\ FreshInv /\ NeverTwice /\ DoneInv /\ LocalInv

----------------------------------------------------------------------------
\* The sizes are natural numbers, and the keys hold all rows and are natural numbers.
LEMMA KeyFacts ==
    /\ Keys \subseteq Nat /\ 0 \in Keys
    /\ \A t \in Names : Size[t] \in Nat /\ Rows(t) = 1 .. Size[t] /\ Rows(t) \subseteq Keys
<1>1. \A t \in Names : Size[t] \in Nat /\ Rows(t) = 1 .. Size[t]
  BY TransferAssumption DEF Rows
<1>2. \A t \in Names : Rows(t) \subseteq Keys /\ Rows(t) \subseteq Nat
  BY <1>1 DEF Keys
<1>3. \A k \in Keys : k = 0 \/ \E t \in Names : k \in Rows(t)
  BY DEF Keys
<1>4. Keys \subseteq Nat /\ 0 \in Keys
  BY <1>2, <1>3 DEF Keys
<1> QED BY <1>1, <1>2, <1>4

\* What arrives of a table is at most the table, and all of it where no page is cut.
LEMMA ArriveFacts ==
    ASSUME NEW t \in Names
    PROVE  /\ Arrives(t) \in Nat /\ Arrives(t) <= Size[t]
           /\ (Uncapped \/ Size[t] <= RowCap) => Arrives(t) = Size[t]
BY TransferAssumption DEF Arrives, Uncapped, MongoSource

\* It is the same as long as the table is.
LEMMA ArriveSame ==
    ASSUME setup' = setup, table' = table, table \in Names
    PROVE  /\ Arrives(table)' = Arrives(table) /\ (Uncapped' <=> Uncapped)
           /\ Arrives(table) \in Nat /\ 0 <= Arrives(table)
BY ArriveFacts DEF Arrives, Uncapped, MongoSource

\* The table at hand is one of the request, and is at no other place of the order.
LEMMA TableFacts ==
    ASSUME SortInv, TypeInv, IndexInv, stage \in InTable
    PROVE  /\ index \in DOMAIN sorted /\ table \in Names /\ sorted[index] = table
           /\ \A i \in DOMAIN sorted : sorted[i] = table => i = index
           /\ Size[table] \in Nat
<1>1. sorted \in Seq(Names) /\ IsInjective(sorted)
  BY DEF SortInv
<1>2. index \in 1 .. Len(sorted)
  BY <1>1 DEF TypeInv, IndexInv
<1>3. index \in DOMAIN sorted /\ table \in Names /\ sorted[index] = table
  BY <1>1, <1>2 DEF table
<1> QED BY <1>1, <1>3, KeyFacts DEF IsInjective

----------------------------------------------------------------------------
(***************************************************************************)
(* The ways on from a step of the table at hand.                            *)
(***************************************************************************)
\* What every step of a table leaves alone, and what it may do to pools and rows.
TableStep ==
    /\ stage \in InTable
    /\ UNCHANGED <<fks, parentsFirst, degree, queue, sorted, setup, steps, asked>>
    /\ rowCount' \in Nat /\ offset' \in Nat /\ prepared' \in BOOLEAN
    /\ effective' \in {"append", "upsert"} /\ page' \in Seq(Keys)
    /\ pools' \subseteq {"source", "target"}
    /\ MongoTarget => "target" \in pools'
    /\ "source" \in pools' => "source" \in pools
    /\ blamed \subseteq blamed'
    /\ old' \in [Names -> SUBSET Keys] /\ copies' \in [Names -> [Keys -> Nat]]
    /\ \A t \in Names \ {table} : copies'[t] = copies[t] /\ old'[t] = old[t]
    /\ Ordered(table) => \A k \in Keys : copies'[table][k] <= 1
    /\ late' \in Nat /\ (~asked => late' = 0) /\ late' + Len(page') <= Batch

Stays == /\ stage' \in InTable \ {"resolve"}
         /\ UNCHANGED <<index, failed, reported, status, cancelled>>
         /\ "target" \in pools' \/ table \in blamed'
Leaves(r) == /\ stage' = "table" /\ index' = index + 1
             /\ reported' = [reported EXCEPT ![table] = r]
             /\ failed \subseteq failed' /\ (r = "error" => table \in failed')
             /\ UNCHANGED <<status, cancelled>>
Stops == /\ stage' = "end" /\ status' = "cancelled" /\ cancelled' = FALSE
         /\ UNCHANGED <<index, failed, reported>>

\* A step that goes on with the table.
LEMMA StayKeeps ==
    ASSUME IInv, TableStep, Stays, LocalInv'
    PROVE  IInv'
<1> USE DEF TableStep, Stays
<1>1. SortInv /\ TypeInv /\ IndexInv /\ ReportInv /\ CancelInv /\ PoolInv /\ FreshInv /\ NeverTwice /\ DoneInv
  BY DEF IInv
<1>2. /\ stage \in InTable /\ stage' \in InTable /\ UNCHANGED <<fks, sorted, setup, index>>
      /\ table' = table /\ table \in Names /\ index \in DOMAIN sorted /\ sorted[index] = table
      /\ index \in Nat /\ \A i \in DOMAIN sorted : sorted[i] = table => i = index
  BY <1>1, TableFacts DEF table, TypeInv
<1>3. SortInv'
  BY <1>1, <1>2 DEF SortInv, InTable
<1>4. TypeInv'
  BY <1>1, <1>2 DEF TypeInv, Stages
<1>5. IndexInv'
  BY <1>1, <1>2 DEF IndexInv, InTable
<1>6. ReportInv'
  BY <1>1, <1>2 DEF ReportInv, InTable
<1>7. CancelInv'
  BY <1>1, <1>2 DEF CancelInv, InTable
<1>8. PoolInv'
  BY <1>1, <1>2 DEF PoolInv, FailureIsLocal, MongoTarget
<1>9. FreshInv'
  <2> SUFFICES ASSUME NEW t \in Names, Fresh(t)' PROVE Untouched(t)'
    BY DEF FreshInv
  <2>0. \A i \in DOMAIN sorted : sorted[i] = t => i > index
    BY <1>2 DEF Fresh
  <2>1. Fresh(t) /\ t # table
    BY <1>2, <2>0 DEF Fresh
  <2>2. Untouched(t)
    BY <1>1, <2>1 DEF FreshInv
  <2> QED BY <1>2, <2>1, <2>2 DEF Untouched
<1>10. NeverTwice'
  BY <1>1, <1>2 DEF NeverTwice, Ordered, MongoSource
<1>11. DoneInv'
  <2> SUFFICES ASSUME NEW t \in Names, reported[t] = "done", Ordered(t)
               PROVE  /\ \A k \in Keys : copies'[t][k] = IF k \in 1 .. Arrives(t) THEN 1 ELSE 0
                      /\ ~SkippedClear(t) => old'[t] = Kept(t)
    BY <1>2 DEF DoneInv, Ordered, SkippedClear, Kept, Arrives, Uncapped, MongoSource, MongoTarget, Keyed
  <2>1. t # table
    <3>1. PICK i \in DOMAIN sorted : i < index /\ sorted[i] = t
      BY <1>1 DEF ReportInv
    <3>2. i # index
      BY <1>2, <3>1
    <3> QED BY <1>2, <3>1, <3>2
  <2> QED BY <1>1, <2>1, ZenonT(30) DEF DoneInv
<1> QED BY <1>3, <1>4, <1>5, <1>6, <1>7, <1>8, <1>9, <1>10, <1>11 DEF IInv

\* A step that ends the task in the middle of a table.
LEMMA StopKeeps ==
    ASSUME IInv, TableStep, Stops, UNCHANGED <<page, rowCount, offset, prepared, effective>>
    PROVE  IInv'
<1> USE DEF TableStep, Stops
<1>1. SortInv /\ TypeInv /\ IndexInv /\ ReportInv /\ CancelInv /\ PoolInv /\ FreshInv /\ NeverTwice /\ DoneInv /\ LocalInv
  BY DEF IInv
<1>2. /\ stage \in InTable /\ stage' = "end" /\ UNCHANGED <<fks, sorted, setup, index>>
      /\ table' = table /\ table \in Names /\ index \in DOMAIN sorted /\ sorted[index] = table
      /\ index \in Nat /\ \A i \in DOMAIN sorted : sorted[i] = table => i = index
  BY <1>1, TableFacts DEF table, TypeInv
<1>3. SortInv'
  BY <1>1, <1>2 DEF SortInv, InTable
<1>4. TypeInv'
  BY <1>1, <1>2 DEF TypeInv, Stages
<1>5. IndexInv'
  BY <1>2 DEF IndexInv, InTable
<1>6. ReportInv'
  BY <1>1, <1>2 DEF ReportInv, InTable
<1>7. CancelInv'
  BY <1>1, <1>2 DEF CancelInv, InTable
<1>8. PoolInv'
  BY <1>1, <1>2 DEF PoolInv, FailureIsLocal, MongoTarget, InTable
<1>9. FreshInv'
  <2> SUFFICES ASSUME NEW t \in Names, Fresh(t)' PROVE Untouched(t)'
    BY DEF FreshInv
  <2>0. \A i \in DOMAIN sorted : sorted[i] = t => i > index
    BY <1>2 DEF Fresh
  <2>1. Fresh(t) /\ t # table
    BY <1>2, <2>0 DEF Fresh
  <2>2. Untouched(t)
    BY <1>1, <2>1 DEF FreshInv
  <2> QED BY <1>2, <2>1, <2>2 DEF Untouched
<1>10. NeverTwice'
  BY <1>1, <1>2 DEF NeverTwice, Ordered, MongoSource
<1>11. DoneInv'
  <2> SUFFICES ASSUME NEW t \in Names, reported[t] = "done", Ordered(t)
               PROVE  /\ \A k \in Keys : copies'[t][k] = IF k \in 1 .. Arrives(t) THEN 1 ELSE 0
                      /\ ~SkippedClear(t) => old'[t] = Kept(t)
    BY <1>2 DEF DoneInv, Ordered, SkippedClear, Kept, Arrives, Uncapped, MongoSource, MongoTarget, Keyed
  <2>1. t # table
    <3>1. PICK i \in DOMAIN sorted : i < index /\ sorted[i] = t
      BY <1>1 DEF ReportInv
    <3>2. i # index
      BY <1>2, <3>1
    <3> QED BY <1>2, <3>1, <3>2
  <2> QED BY <1>1, <2>1, ZenonT(30) DEF DoneInv
<1>12. LocalInv'
  BY <1>1, <1>2 DEF LocalInv, PageInv, InHand, ModeInv, FillInv, InTable, MongoSource, MongoTarget
<1> QED BY <1>3, <1>4, <1>5, <1>6, <1>7, <1>8, <1>9, <1>10, <1>11, <1>12 DEF IInv

\* A step that goes on with the next table.
LEMMA LeaveKeeps ==
    ASSUME IInv, TableStep, NEW r \in {"done", "error"}, Leaves(r),
           UNCHANGED <<rowCount, offset, prepared, effective>>,
           r = "error" => table \in blamed' \/ "source" \notin pools',
           r = "done" /\ Ordered(table) =>
               /\ \A k \in Keys : copies'[table][k] = IF k \in 1 .. Arrives(table) THEN 1 ELSE 0
               /\ ~SkippedClear(table) => old'[table] = Kept(table)
    PROVE  IInv'
<1> USE DEF TableStep, Leaves
<1>1. SortInv /\ TypeInv /\ IndexInv /\ ReportInv /\ CancelInv /\ PoolInv /\ FreshInv /\ NeverTwice /\ DoneInv /\ LocalInv
  BY DEF IInv
<1>2. /\ stage \in InTable /\ stage' = "table" /\ UNCHANGED <<fks, sorted, setup>>
      /\ table \in Names /\ index \in DOMAIN sorted /\ sorted[index] = table
      /\ index \in Nat /\ index' \in Nat \ {0} /\ sorted \in Seq(Names)
      /\ \A i \in DOMAIN sorted : i \in Nat /\ (i < index' <=> i < index \/ i = index)
      /\ \A i \in DOMAIN sorted : sorted[i] = table => i = index
  <2>1. sorted \in Seq(Names) /\ index \in Nat
    BY <1>1 DEF SortInv, TypeInv
  <2> QED BY <1>1, <2>1, TableFacts
<1>a. /\ reported'[table] = r /\ reported' \in [Names -> {"none", "done", "error"}]
      /\ \A t \in Names \ {table} : reported'[t] = reported[t]
  BY <1>1, <1>2 DEF TypeInv
<1>3. SortInv'
  BY <1>1, <1>2 DEF SortInv, InTable
<1>4. TypeInv'
  BY <1>1, <1>2, <1>a DEF TypeInv, Stages
<1>5. IndexInv'
  BY <1>2 DEF IndexInv, InTable
<1>6. ReportInv'
  <2>1. stage # "end" /\ status' = "running"
    BY <1>1, <1>2 DEF ReportInv, InTable
  <2>2. \A t \in Names : reported'[t] # "none" => \E i \in DOMAIN sorted : i < index' /\ sorted[i] = t
    BY <1>1, <1>2, <1>a DEF ReportInv
  <2>3. \A i \in DOMAIN sorted : i < index' => reported'[sorted[i]] # "none"
    BY <1>1, <1>2, <1>a DEF ReportInv
  <2>4. \A t \in Names : reported'[t] = "error" => t \in failed'
    BY <1>1, <1>2, <1>a DEF ReportInv
  <2> QED BY <1>2, <2>1, <2>2, <2>3, <2>4 DEF ReportInv
<1>7. CancelInv'
  BY <1>1, <1>2 DEF CancelInv, InTable
<1>8. PoolInv'
  BY <1>1, <1>2, <1>a DEF PoolInv, FailureIsLocal, MongoTarget, InTable
<1>9. FreshInv'
  <2> SUFFICES ASSUME NEW t \in Names, Fresh(t)' PROVE Untouched(t)'
    BY DEF FreshInv
  <2>0. \A i \in DOMAIN sorted : sorted[i] = t => i > index' \/ i = index'
    BY <1>2 DEF Fresh
  <2>1. \A i \in DOMAIN sorted : sorted[i] = t => ~(i < index')
    <3> SUFFICES ASSUME NEW i \in DOMAIN sorted, sorted[i] = t PROVE ~(i < index')
      OBVIOUS
    <3>1. i \in Nat /\ index' \in Nat
      BY <1>2
    <3>2. i > index' \/ i = index'
      BY <2>0
    <3> QED BY ONLY <3>1, <3>2
  <2>2. \A i \in DOMAIN sorted : sorted[i] = t => i > index
    BY <1>2, <2>1
  <2>3. Fresh(t) /\ t # table
    BY <1>2, <2>2 DEF Fresh
  <2>4. Untouched(t)
    BY <1>1, <2>3 DEF FreshInv
  <2> QED BY <1>2, <2>3, <2>4 DEF Untouched
<1>10. NeverTwice'
  BY <1>1, <1>2 DEF NeverTwice, Ordered, MongoSource
<1>11. DoneInv'
  <2> SUFFICES ASSUME NEW t \in Names, reported'[t] = "done", Ordered(t)
               PROVE  /\ \A k \in Keys : copies'[t][k] = IF k \in 1 .. Arrives(t) THEN 1 ELSE 0
                      /\ ~SkippedClear(t) => old'[t] = Kept(t)
    BY <1>2 DEF DoneInv, Ordered, SkippedClear, Kept, Arrives, Uncapped, MongoSource, MongoTarget, Keyed
  <2>1. CASE t = table
    BY <1>a, <2>1
  <2>2. CASE t # table
    <3>1. t \in Names \ {table} /\ reported[t] = "done"
      BY <1>a, <2>2
    <3>2. copies'[t] = copies[t] /\ old'[t] = old[t]
      BY <3>1
    <3> QED BY <1>1, <3>1, <3>2 DEF DoneInv
  <2> QED BY <2>1, <2>2
<1>12. LocalInv'
  BY <1>1, <1>2 DEF LocalInv, PageInv, InHand, ModeInv, FillInv, InTable, MongoSource, MongoTarget
<1> QED BY <1>3, <1>4, <1>5, <1>6, <1>7, <1>8, <1>9, <1>10, <1>11, <1>12 DEF IInv

----------------------------------------------------------------------------
(***************************************************************************)
(* What a statement does to the pools, and the steps that write no rows.    *)
(***************************************************************************)
PoolStep == /\ pools' \subseteq {"source", "target"}
            /\ MongoTarget => "target" \in pools'
            /\ "source" \in pools' => "source" \in pools
            /\ blamed \subseteq blamed'

\* The pools are known, and that of a MongoDB target is there.
LEMMA PoolsNow ==
    ASSUME IInv
    PROVE  pools \subseteq {"source", "target"} /\ (MongoTarget => "target" \in pools)
BY DEF IInv, TypeInv, PoolInv

\* A statement that is accepted.
LEMMA AcceptedStep ==
    ASSUME IInv, NEW p, Accepted(p)
    PROVE  PoolStep /\ pools' = pools /\ blamed' = blamed
BY PoolsNow DEF PoolStep, Accepted

\* A statement that is refused has a fault of the table at hand, or its source is gone.
LEMMA RefusedStep ==
    ASSUME IInv, stage \in InTable \ {"resolve"}, NEW p \in {"source", "target"}, NEW c, Refused(p, c)
    PROVE  PoolStep /\ pools' = pools /\ (table \in blamed' \/ "source" \notin pools')
<1>1. pools' = pools /\ blamed \subseteq blamed' /\ (p \in pools => table \in blamed')
  BY DEF Refused
<1>2. "target" \in pools \/ table \in blamed
  BY DEF IInv, PoolInv
<1> QED BY <1>1, <1>2, PoolsNow DEF PoolStep

\* A connection is lost with a statement of the table at hand.
LEMMA LostStep ==
    ASSUME IInv, NEW p \in {"source", "target"}, LostConnection(p), ErrorAction(p)
    PROVE  PoolStep /\ table \in blamed' /\ blamed' = blamed \cup {table}
<1>1. blamed' = blamed \cup {table}
  BY DEF LostConnection
<1>2. pools' = pools \/ (pools' = pools \ {p} /\ ~IsMongo(p))
  BY DEF ErrorAction
<1>3. MongoTarget /\ p = "target" => IsMongo(p)
  BY DEF IsMongo
<1> QED BY <1>1, <1>2, <1>3, PoolsNow DEF PoolStep

Unmoved == UNCHANGED <<fks, parentsFirst, degree, queue, sorted, setup, steps, cancelled, asked>>
Quiet == UNCHANGED <<old, copies, late>>

\* What the invariant says of the variables of the table at hand.
LEMMA Typed ==
    ASSUME IInv
    PROVE  /\ rowCount \in Nat /\ offset \in Nat /\ prepared \in BOOLEAN /\ page \in Seq(Keys)
           /\ effective \in {"append", "upsert"} /\ late \in Nat /\ Len(page) \in Nat
           /\ old \in [Names -> SUBSET Keys] /\ copies \in [Names -> [Keys -> Nat]]
           /\ (~asked => late = 0) /\ late + Len(page) <= Batch /\ Batch \in Nat \ {0}
           /\ \A t \in Names : Ordered(t) => \A k \in Keys : copies[t][k] <= 1
<1>1. /\ rowCount \in Nat /\ offset \in Nat /\ prepared \in BOOLEAN /\ page \in Seq(Keys)
      /\ effective \in {"append", "upsert"} /\ late \in Nat
      /\ old \in [Names -> SUBSET Keys] /\ copies \in [Names -> [Keys -> Nat]]
  BY DEF IInv, TypeInv
<1>2. (~asked => late = 0) /\ late + Len(page) <= Batch
  BY DEF IInv, CancelInv
<1>3. \A t \in Names : Ordered(t) => \A k \in Keys : copies[t][k] <= 1
  BY DEF IInv, NeverTwice
<1>4. Len(page) \in Nat /\ Batch \in Nat \ {0}
  BY <1>1, TransferAssumption
<1> QED BY <1>1, <1>2, <1>3, <1>4

\* A step that fails the table and writes nothing.
LEMMA QuietFail ==
    ASSUME IInv, stage \in InTable, Unmoved, Quiet, FailTable, PoolStep,
           table \in blamed' \/ "source" \notin pools'
    PROVE  IInv'
<1>1. /\ Leaves("error") /\ page' = <<>> /\ UNCHANGED <<rowCount, offset, prepared, effective>>
  BY DEF FailTable, Fail, NextTable, Leaves, Unmoved
<1>2. table \in Names
  BY TableFacts DEF IInv
<1>3. page' \in Seq(Keys) /\ Len(page') = 0
  BY <1>1
<1>4. late' \in Nat /\ (~asked => late' = 0) /\ late' + Len(page') <= Batch
  BY <1>3, Typed DEF Quiet
<1>5. TableStep
  BY <1>1, <1>2, <1>3, <1>4, Typed DEF TableStep, Unmoved, Quiet, PoolStep
<1> QED BY <1>1, <1>5, LeaveKeeps

\* A step that goes on with the table and writes nothing.
LEMMA QuietStay ==
    ASSUME IInv, stage \in InTable, Unmoved, Quiet, UNCHANGED <<page, rowCount>>,
           offset' \in Nat, prepared' \in BOOLEAN, effective' \in {"append", "upsert"},
           NEW s \in InTable \ {"resolve"}, Goto(s), PoolStep,
           "target" \in pools' \/ table \in blamed', LocalInv'
    PROVE  IInv'
<1>1. Stays
  BY DEF Goto, Stays, Unmoved
<1>2. table \in Names
  BY TableFacts DEF IInv
<1>3. late' \in Nat /\ (~asked => late' = 0) /\ late' + Len(page') <= Batch
  BY Typed DEF Quiet
<1>4. TableStep
  BY <1>2, <1>3, Typed DEF TableStep, Unmoved, Quiet, PoolStep
<1> QED BY <1>1, <1>4, StayKeeps

\* What the invariant says of the rows of the table at hand.
LEMMA Local ==
    ASSUME IInv
    PROVE  SortInv /\ TypeInv /\ IndexInv /\ PageInv /\ ModeInv /\ FillInv
BY DEF IInv, LocalInv

----------------------------------------------------------------------------
(***************************************************************************)
(* The steps of a table, one lemma for each.                                *)
(***************************************************************************)
\* resolve_transfer_target_table_name.
LEMMA ResolveKeeps ==
    ASSUME IInv, Resolve
    PROVE  IInv'
<1>1. /\ stage = "resolve" /\ stage \in InTable /\ Unmoved /\ Quiet /\ UNCHANGED <<page, rowCount>>
      /\ offset' = 0 /\ prepared' = FALSE /\ effective' = "append"
  BY DEF Resolve, TableUnchanged, Unmoved, Quiet, targetVars, InTable
<1>2. PICK s \in {"clear", "page", "columns"} :
        /\ Goto(s) /\ s \in InTable \ {"resolve"}
        /\ (s = "clear" <=> MongoTarget) /\ (s = "page" => MongoSource)
        /\ (s = "columns" => ~MongoSource /\ ~MongoTarget)
  BY DEF Resolve, InTable
<1>3. MongoTarget => ~MongoSource
  BY DEF MongoTarget, MongoSource
<1>4. PoolStep /\ ("target" \in pools' \/ table \in blamed')
  BY PoolsNow DEF Resolve, Reopened, PoolStep
<1>5. table' = table /\ table \in Names /\ Size[table] \in Nat /\ setup' = setup /\ stage' = s
  BY <1>1, <1>2, Local, TableFacts DEF table, Goto, Unmoved
<1>6. Untouched(table)
  BY <1>1, Local DEF FillInv
<1>7. PageInv'
  BY <1>1, <1>2, <1>3, <1>5, ArriveSame DEF PageInv, InHand, MongoSource, MongoTarget
<1>8. ModeInv'
  BY <1>1 DEF ModeInv
<1>9. FillInv'
  <2>1. Untouched(table)'
    BY <1>1, <1>5, <1>6 DEF Untouched, Quiet
  <2>2. CASE s = "page"
    <3>1. Filled' = 0 /\ Base(table)' = setup.old[table] /\ 1 .. 0 = {}
      BY <1>1, <1>5, <2>2 DEF Filled, Base
    <3>2. RowsInv'
      BY <1>1, <1>5, <2>1, <3>1 DEF RowsInv, Untouched
    <3> QED BY <1>5, <2>2, <3>2 DEF FillInv
  <2> QED BY <1>2, <1>5, <2>1, <2>2 DEF FillInv
<1> QED BY <1>1, <1>2, <1>4, <1>7, <1>8, <1>9, QuietStay DEF LocalInv

\* The columns are read.
LEMMA ReadColumnsKeeps ==
    ASSUME IInv, ReadColumns
    PROVE  IInv'
<1>1. stage = "columns" /\ stage \in InTable \ {"resolve"} /\ Unmoved /\ Quiet
  BY DEF ReadColumns, TableUnchanged, Unmoved, Quiet, targetVars, InTable
<1>2. CASE Refused("source", FALSE) /\ FailTable
  BY <1>1, <1>2, RefusedStep, QuietFail
<1>3. CASE Accepted("source") /\ Goto("count") /\ UNCHANGED tableVars
  <2>1. PoolStep /\ ("target" \in pools' \/ table \in blamed')
    BY <1>1, <1>3, AcceptedStep DEF IInv, PoolInv
  <2>2. UNCHANGED <<page, rowCount, offset, prepared, effective>> /\ stage' = "count" /\ table' = table /\ setup' = setup
    BY <1>1, <1>3 DEF tableVars, Goto, table, Unmoved
  <2>3. LocalInv'
    BY <1>1, <2>2, Local DEF LocalInv, PageInv, InHand, ModeInv, FillInv, Untouched, Quiet, MongoSource, MongoTarget, InTable
  <2> QED BY <1>1, <1>3, <2>1, <2>2, <2>3, Typed, QuietStay DEF InTable
<1> QED BY <1>2, <1>3 DEF ReadColumns

\* The rows are counted, or not.
LEMMA CountRowsKeeps ==
    ASSUME IInv, CountRows
    PROVE  IInv'
<1>1. stage = "count" /\ stage \in InTable \ {"resolve"} /\ Unmoved /\ Quiet /\ Goto("create")
  BY DEF CountRows, TableUnchanged, Unmoved, Quiet, targetVars, InTable
<1>2. PoolStep /\ ("target" \in pools' \/ table \in blamed')
  <2>1. "target" \in pools \/ table \in blamed
    BY <1>1 DEF IInv, PoolInv
  <2>2. CASE Accepted("source")
    BY <2>1, <2>2, AcceptedStep
  <2>3. CASE Refused("source", FALSE)
    BY <1>1, <2>1, <2>3, RefusedStep DEF PoolStep
  <2>4. CASE LostConnection("source") /\ ErrorAction("source")
    BY <2>4, LostStep
  <2> QED BY <2>2, <2>3, <2>4 DEF CountRows
<1>3. /\ UNCHANGED <<page, rowCount, offset, prepared, effective>> /\ stage' = "create"
      /\ table' = table /\ setup' = setup
  BY <1>1 DEF CountRows, tableVars, Goto, table, Unmoved
<1>4. ~MongoSource
  BY <1>1, Local DEF PageInv
<1>5. LocalInv'
  BY <1>1, <1>3, <1>4, Local DEF LocalInv, PageInv, InHand, ModeInv, FillInv, Untouched, Quiet, MongoSource, MongoTarget, InTable
<1> QED BY <1>1, <1>2, <1>3, <1>5, Typed, QuietStay DEF InTable

\* The target table is created, if it has to be.
LEMMA CreateTableKeeps ==
    ASSUME IInv, CreateTable
    PROVE  IInv'
<1>1. stage = "create" /\ stage \in InTable \ {"resolve"} /\ Unmoved /\ Quiet
  BY DEF CreateTable, TableUnchanged, Unmoved, Quiet, targetVars, Created, InTable
<1>2. \/ FailTable /\ Refused("target", FALSE)
      \/ FailTable /\ LostConnection("target") /\ ErrorAction("target")
      \/ /\ Goto("clear") /\ UNCHANGED <<page, rowCount, offset, prepared, effective>>
         /\ Accepted("target") \/ UNCHANGED <<pools, blamed>>
  BY DEF CreateTable, NoReplay, tableVars
<1>3. CASE FailTable /\ Refused("target", FALSE)
  BY <1>1, <1>3, RefusedStep, QuietFail
<1>4. CASE FailTable /\ LostConnection("target") /\ ErrorAction("target")
  BY <1>1, <1>4, LostStep, QuietFail
<1>5. CASE /\ Goto("clear") /\ UNCHANGED <<page, rowCount, offset, prepared, effective>>
           /\ Accepted("target") \/ UNCHANGED <<pools, blamed>>
  <2>1. PoolStep /\ pools' = pools /\ blamed' = blamed
    BY <1>5, AcceptedStep, PoolsNow DEF PoolStep
  <2>2. "target" \in pools' \/ table \in blamed'
    BY <1>1, <2>1 DEF IInv, PoolInv
  <2>3. stage' = "clear" /\ table' = table /\ setup' = setup
    BY <1>1, <1>5 DEF Goto, table, Unmoved
  <2>4. PageInv'
    BY <1>1, <1>5, <2>3, Local, TableFacts, ArriveSame
       DEF PageInv, HandInv, InHand, Ordered, MongoSource, MongoTarget
  <2>5. ModeInv' /\ FillInv'
    BY <1>1, <1>5, <2>3, Local DEF ModeInv, FillInv, Untouched, Quiet, MongoSource, MongoTarget, InTable
  <2> QED BY <1>1, <1>5, <2>1, <2>2, <2>4, <2>5, Typed, QuietStay DEF InTable, LocalInv
<1> QED BY <1>2, <1>3, <1>4, <1>5

\* What clearing the table at hand does to the target.
LEMMA ClearedFacts ==
    ASSUME IInv, stage \in InTable, Cleared
    PROVE  /\ old' \in [Names -> SUBSET Keys] /\ copies' \in [Names -> [Keys -> Nat]]
           /\ \A t \in Names \ {table} : copies'[t] = copies[t] /\ old'[t] = old[t]
           /\ (\A k \in Keys : copies'[table][k] = 0) /\ old'[table] = {}
<1>1. table \in Names
  BY Local, TableFacts
<1>2. old \in [Names -> SUBSET Keys] /\ copies \in [Names -> [Keys -> Nat]]
  BY Typed
<1>3. [k \in Keys |-> 0] \in [Keys -> Nat]
  OBVIOUS
<1> QED BY <1>1, <1>2, <1>3 DEF Cleared

\* After a table was cleared, or did not have to be, it is as its mode wants it.
LEMMA ClearedLocal ==
    ASSUME IInv, stage = "clear", Unmoved, Goto(AfterClear), prepared' = TRUE,
           UNCHANGED <<page, rowCount, offset, effective>>,
           \A k \in Keys : copies'[table][k] = 0, old'[table] = Base(table)'
    PROVE  LocalInv' /\ AfterClear \in InTable \ {"resolve"}
<1>1. /\ stage' = AfterClear /\ table' = table /\ setup' = setup /\ offset' = 0 /\ offset = 0
      /\ table \in Names /\ Size[table] \in Nat /\ rowCount \in Nat /\ Len(page) \in Nat
  BY Local, TableFacts, Typed DEF Goto, table, Unmoved, PageInv, InTable
<1>2. \/ AfterClear = "write" /\ MongoSource
      \/ AfterClear = "page" /\ MongoTarget
      \/ AfterClear = "mode" /\ ~MongoSource /\ ~MongoTarget
  BY DEF AfterClear
<1>3. MongoSource => HandInv /\ Len(page) = rowCount
  BY Local DEF PageInv, InHand, HandInv
<1>4. PageInv'
  <2>1. CASE AfterClear = "write" /\ MongoSource
    <3>1. HandInv'
      BY <1>1, <1>3, <2>1, ArriveSame DEF HandInv, Ordered, MongoSource
    <3> QED BY <1>1, <2>1, <3>1 DEF PageInv
  <2>2. CASE AfterClear = "page"
    BY <1>1, <2>2, ArriveSame DEF PageInv, InHand
  <2>3. CASE AfterClear = "mode" /\ ~MongoSource /\ ~MongoTarget
    BY <1>1, <2>3 DEF PageInv, InHand, MongoSource, MongoTarget
  <2> QED BY <1>2, <2>1, <2>2, <2>3
<1>5. ModeInv'
  BY <1>1, <1>2, Local DEF ModeInv, MongoSource, MongoTarget
<1>6. FillInv'
  <2>1. CASE AfterClear = "mode"
    BY <1>1, <2>1 DEF FillInv
  <2>2. CASE AfterClear \in {"write", "page"}
    <3>1. Filled' = 0 /\ 1 .. 0 = {}
      BY <1>1, <1>2, <1>3, <2>2 DEF Filled
    <3>2. effective' = "append"
      BY <1>2, <2>2, Local, Typed DEF ModeInv
    <3>3. RowsInv'
      BY <1>1, <3>1, <3>2 DEF RowsInv
    <3> QED BY <1>1, <2>2, <3>3 DEF FillInv
  <2> QED BY <1>2, <2>1, <2>2
<1> QED BY <1>2, <1>4, <1>5, <1>6 DEF LocalInv, InTable

\* The target table is cleared, if it has to be.
LEMMA ClearTableKeeps ==
    ASSUME IInv, ClearTable
    PROVE  IInv'
<1>1. stage = "clear" /\ stage \in InTable \ {"resolve"} /\ Unmoved /\ late' = late
  BY DEF ClearTable, TableUnchanged, Unmoved, InTable
<1>2. \/ FailTable /\ UNCHANGED <<old, copies>> /\ Refused("target", ~Exists(table))
      \/ /\ FailTable /\ LostConnection("target") /\ ErrorAction("target")
         /\ Cleared \/ UNCHANGED <<old, copies>>
      \/ /\ Goto(AfterClear) /\ prepared' = TRUE /\ UNCHANGED <<page, rowCount, offset, effective>>
         /\ \/ setup.mode # "overwrite" /\ UNCHANGED <<pools, blamed, old, copies>>
            \/ setup.mode = "overwrite" /\ Accepted("target") /\ Cleared
  BY DEF ClearTable, NoReplay, targetVars
<1>3. CASE FailTable /\ UNCHANGED <<old, copies>> /\ Refused("target", ~Exists(table))
  BY <1>1, <1>3, RefusedStep, QuietFail DEF Quiet
<1>4. CASE /\ FailTable /\ LostConnection("target") /\ ErrorAction("target")
           /\ Cleared \/ UNCHANGED <<old, copies>>
  <2>1. PoolStep /\ table \in blamed'
    BY <1>4, LostStep
  <2>2. CASE UNCHANGED <<old, copies>>
    BY <1>1, <1>4, <2>1, <2>2, QuietFail DEF Quiet
  <2>3. CASE Cleared
    <3>1. /\ Leaves("error") /\ page' = <<>> /\ UNCHANGED <<rowCount, offset, prepared, effective>>
      BY <1>1, <1>4 DEF FailTable, Fail, NextTable, Leaves, Unmoved
    <3>2. page' \in Seq(Keys) /\ late' + Len(page') <= Batch
      BY <1>1, <3>1, Typed
    <3>3. TableStep
      BY <1>1, <2>1, <2>3, <3>1, <3>2, Typed, ClearedFacts DEF TableStep, Unmoved, PoolStep
    <3> QED BY <2>1, <3>1, <3>3, LeaveKeeps
  <2> QED BY <1>4, <2>2, <2>3
<1>5. CASE /\ Goto(AfterClear) /\ prepared' = TRUE /\ UNCHANGED <<page, rowCount, offset, effective>>
           /\ \/ setup.mode # "overwrite" /\ UNCHANGED <<pools, blamed, old, copies>>
              \/ setup.mode = "overwrite" /\ Accepted("target") /\ Cleared
  <2>1. PoolStep /\ pools' = pools /\ blamed' = blamed
    BY <1>5, AcceptedStep, PoolsNow DEF PoolStep
  <2>2. "target" \in pools' \/ table \in blamed'
    BY <1>1, <2>1 DEF IInv, PoolInv
  <2>3. Untouched(table) /\ table \in Names /\ setup' = setup
    BY <1>1, Local, TableFacts DEF FillInv, Unmoved
  <2>4. /\ old' \in [Names -> SUBSET Keys] /\ copies' \in [Names -> [Keys -> Nat]]
        /\ \A t \in Names \ {table} : copies'[t] = copies[t] /\ old'[t] = old[t]
        /\ (\A k \in Keys : copies'[table][k] = 0) /\ old'[table] = Base(table)'
    <3>1. CASE setup.mode # "overwrite" /\ UNCHANGED <<pools, blamed, old, copies>>
      <4>1. Base(table)' = setup.old[table]
        BY <1>1, <1>5, <2>3, <3>1 DEF Base, table, Goto, Unmoved
      <4>2. (\A k \in Keys : copies[table][k] = 0) /\ old[table] = setup.old[table]
        BY <2>3 DEF Untouched
      <4>3. old \in [Names -> SUBSET Keys] /\ copies \in [Names -> [Keys -> Nat]]
        BY Typed
      <4> QED BY <3>1, <4>1, <4>2, <4>3
    <3>2. CASE setup.mode = "overwrite" /\ Cleared
      BY <1>1, <1>5, <2>3, <3>2, ClearedFacts DEF Base
    <3> QED BY <1>5, <3>1, <3>2
  <2>5. LocalInv' /\ AfterClear \in InTable \ {"resolve"}
    BY <1>1, <1>5, <2>4, ClearedLocal
  <2>6. Stays
    BY <1>1, <1>5, <2>2, <2>5 DEF Goto, Stays, Unmoved
  <2>7. Ordered(table) => \A k \in Keys : copies'[table][k] <= 1
    BY <2>4
  <2>8. late' + Len(page') <= Batch
    BY <1>1, <1>5, Typed
  <2>9. TableStep
    BY <1>1, <1>5, <2>1, <2>4, <2>7, <2>8, Typed DEF TableStep, Unmoved, PoolStep
  <2> QED BY <2>5, <2>6, <2>9, StayKeeps
<1> QED BY <1>2, <1>3, <1>4, <1>5

\* The write mode is chosen.
LEMMA ChooseModeKeeps ==
    ASSUME IInv, ChooseMode
    PROVE  IInv'
<1>1. /\ stage = "mode" /\ stage \in InTable \ {"resolve"} /\ Unmoved /\ Quiet /\ Goto("page")
      /\ UNCHANGED <<page, rowCount, offset, prepared, pools, blamed>>
      /\ effective' \in {"append", "upsert"}
      /\ effective' = "upsert" => setup.mode = "upsert" /\ Keyed(table)
  BY DEF ChooseMode, TableUnchanged, Unmoved, Quiet, targetVars, InTable
<1>2. PoolStep /\ ("target" \in pools' \/ table \in blamed')
  BY <1>1, PoolsNow DEF PoolStep, IInv, PoolInv
<1>3. /\ stage' = "page" /\ table' = table /\ setup' = setup /\ table \in Names /\ Size[table] \in Nat
      /\ offset = 0 /\ prepared /\ ~MongoSource /\ ~MongoTarget
  BY <1>1, Local, TableFacts DEF Goto, table, Unmoved, PageInv
<1>4. PageInv'
  BY <1>1, <1>3, ArriveSame DEF PageInv, InHand
<1>5. ModeInv'
  BY <1>1, <1>3 DEF ModeInv, Keyed, MongoSource, MongoTarget
<1>6. FillInv'
  <2>1. (\A k \in Keys : copies'[table][k] = 0) /\ old'[table] = Base(table)'
    BY <1>1, <1>3, Local DEF FillInv, Base, Quiet
  <2>2. Filled' = 0 /\ 1 .. 0 = {}
    BY <1>1, <1>3 DEF Filled
  <2>3. RowsInv'
    BY <1>3, <2>1, <2>2 DEF RowsInv
  <2> QED BY <1>3, <2>3 DEF FillInv
<1> QED BY <1>1, <1>2, <1>3, <1>4, <1>5, <1>6, Typed, QuietStay DEF InTable, LocalInv

\* A page: its rows, where it starts and ends, and that only the last one is short.
LEMMA PageFacts ==
    ASSUME IInv, stage = "page", NEW p \in Pages(table)
    PROVE  /\ p \in Seq(Keys) /\ Len(p) \in Nat /\ Len(p) <= Batch
           /\ offset + Len(p) <= Arrives(table)
           /\ Len(p) < Batch => offset + Len(p) = Arrives(table)
           /\ Uncapped \/ Len(p) < Batch
           /\ DOMAIN p = 1 .. Len(p)
           /\ Ordered(table) => \A i \in DOMAIN p : p[i] = offset + i
<1>1. /\ table \in Names /\ Size[table] \in Nat /\ offset \in Nat /\ offset <= Arrives(table)
      /\ Batch \in Nat \ {0} /\ Rows(table) = 1 .. Size[table] /\ Rows(table) \subseteq Keys
      /\ RowCap \in Nat \ {0} /\ (Uncapped \/ offset = 0)
      /\ Arrives(table) \in Nat /\ Arrives(table) <= Size[table]
  BY Local, TableFacts, Typed, KeyFacts, ArriveFacts, TransferAssumption DEF PageInv, InTable
<1> DEFINE n == PageSize(table)
<1>2. /\ n \in Nat /\ n <= Batch /\ offset + n <= Arrives(table)
      /\ n < Batch => offset + n = Arrives(table)
      /\ Uncapped \/ n < Batch
  <2>1. CASE Uncapped
    BY <1>1, <2>1 DEF PageSize, PageLimit, Arrives
  <2>2. CASE ~Uncapped
    <3>1. RowCap < Batch
      BY <1>1, <2>2 DEF Uncapped
    <3> QED BY <1>1, <2>2, <3>1 DEF PageSize, PageLimit, Arrives
  <2> QED BY <2>1, <2>2
<1>3. p \in [1 .. n -> Rows(table)] /\ (Ordered(table) => \A i \in 1 .. n : p[i] = offset + i)
  <2>1. CASE Ordered(table)
    <3>1. p = [i \in 1 .. n |-> offset + i]
      BY <2>1 DEF Pages
    <3>2. \A i \in 1 .. n : offset + i \in Rows(table)
      BY <1>1, <1>2
    <3> QED BY <3>1, <3>2
  <2>2. CASE ~Ordered(table)
    BY <2>2 DEF Pages
  <2> QED BY <2>1, <2>2
<1> HIDE DEF n
<1>4. p \in [1 .. n -> Keys]
  BY <1>1, <1>3
<1>5. p \in Seq(Keys) /\ Len(p) = n /\ DOMAIN p = 1 .. n
  BY <1>2, <1>4
<1> QED BY <1>2, <1>3, <1>5

\* A page is read, or a cancellation is noticed.
LEMMA ReadPageKeeps ==
    ASSUME IInv, ReadPage
    PROVE  IInv'
<1>1. /\ stage = "page" /\ stage \in InTable \ {"resolve"} /\ Quiet
      /\ UNCHANGED <<fks, parentsFirst, degree, queue, sorted, setup, steps, asked>>
  BY DEF ReadPage, Quiet, targetVars, InTable
<1>2. \/ Stops /\ UNCHANGED <<pools, blamed, page, rowCount, offset, prepared, effective>>
      \/ /\ ~cancelled /\ Accepted("source") /\ page' \in Pages(table) /\ rowCount' = Len(page')
         /\ Goto(AfterRead(rowCount')) /\ UNCHANGED <<cancelled, offset, prepared, effective>>
      \/ Unmoved /\ FailTable /\ Refused("source", FALSE)
      \/ Unmoved /\ FailTable /\ LostConnection("source") /\ ErrorAction("source")
  BY <1>1 DEF ReadPage, IsCancelled, Terminate, Stops, tableVars, NoReplay, Unmoved
<1>3. CASE Unmoved /\ FailTable /\ Refused("source", FALSE)
  BY <1>1, <1>3, RefusedStep, QuietFail
<1>4. CASE Unmoved /\ FailTable /\ LostConnection("source") /\ ErrorAction("source")
  BY <1>1, <1>4, LostStep, QuietFail
<1>5. table \in Names /\ Size[table] \in Nat
  BY <1>1, Local, TableFacts
<1>6. CASE Stops /\ UNCHANGED <<pools, blamed, page, rowCount, offset, prepared, effective>>
  <2>1. TableStep
    BY <1>1, <1>5, <1>6, Typed, PoolsNow DEF TableStep, Quiet
  <2> QED BY <1>6, <2>1, StopKeeps
<1>7. CASE /\ ~cancelled /\ Accepted("source") /\ page' \in Pages(table) /\ rowCount' = Len(page')
           /\ Goto(AfterRead(rowCount')) /\ UNCHANGED <<cancelled, offset, prepared, effective>>
  <2>1. /\ page' \in Seq(Keys) /\ Len(page') \in Nat /\ Len(page') <= Batch
        /\ offset + Len(page') <= Arrives(table)
        /\ Len(page') < Batch => offset + Len(page') = Arrives(table)
        /\ Uncapped \/ Len(page') < Batch
        /\ DOMAIN page' = 1 .. Len(page')
        /\ Ordered(table) => \A i \in DOMAIN page' : page'[i] = offset + i
    BY <1>1, <1>7, PageFacts
  <2>2. /\ rowCount' = Len(page') /\ table' = table /\ setup' = setup /\ offset' = offset
        /\ prepared' = prepared /\ effective' = effective /\ stage' = AfterRead(rowCount')
        /\ offset \in Nat /\ Batch \in Nat \ {0} /\ effective \in {"append", "upsert"}
    BY <1>1, <1>7, Typed DEF Goto, table
  <2>3. /\ prepared \/ (MongoSource /\ offset = 0)
        /\ FillInv /\ ModeInv
    BY <1>1, Local DEF PageInv
  <2>4. \/ stage' = "finish" /\ Len(page') = 0
        \/ stage' = "create" /\ Len(page') > 0 /\ MongoSource /\ ~prepared /\ offset = 0
        \/ stage' = "write" /\ Len(page') > 0 /\ prepared
    BY <2>1, <2>2, <2>3 DEF AfterRead
  <2>5. Len(page') > 0 => HandInv'
    <3> HAVE Len(page') > 0
    <3>1. page' # <<>>
      BY <2>1
    <3>2. \A i \in DOMAIN page' : i \in Nat /\ offset + i = offset' + rowCount' - Len(page') + i
      BY <2>1, <2>2
    <3>3. Ordered(table)' <=> Ordered(table)
      BY <2>2 DEF Ordered, MongoSource
    <3> QED BY <1>5, <2>1, <2>2, <3>1, <3>2, <3>3, ArriveSame DEF HandInv
  <2>6. PageInv'
    BY <1>5, <2>1, <2>2, <2>3, <2>4, <2>5, ArriveSame DEF PageInv, InHand, MongoSource, MongoTarget
  <2>7. ModeInv'
    BY <1>1, <2>2, <2>3 DEF ModeInv, Keyed, MongoSource, MongoTarget
  <2>8. FillInv'
    <3>1. Filled = offset /\ Filled' = (IF stage' = "create" THEN 0 ELSE offset)
      BY <1>1, <2>1, <2>2, <2>4 DEF Filled
    <3>2. /\ Base(table)' = Base(table) /\ (Ordered(table)' <=> Ordered(table))
          /\ (Keyed(table)' <=> Keyed(table)) /\ UNCHANGED <<old, copies>>
      BY <1>1, <2>2 DEF Base, Ordered, Keyed, MongoSource, Quiet
    <3>3. CASE stage' = "create"
      <4>1. Ordered(table) /\ offset = 0 /\ effective = "append" /\ ~prepared
        BY <2>2, <2>3, <2>4, <3>3 DEF Ordered, ModeInv
      <4>2. RowsInv /\ Base(table) = setup.old[table] /\ 1 .. 0 = {}
        BY <1>1, <2>3, <4>1 DEF FillInv, Base
      <4>3. Untouched(table)'
        BY <2>2, <3>1, <3>2, <4>1, <4>2 DEF RowsInv, Untouched
      <4> QED BY <2>2, <3>3, <4>3 DEF FillInv
    <3>4. CASE stage' \in {"finish", "write"}
      <4>1. Ordered(table) => RowsInv
        BY <1>1, <2>3 DEF FillInv
      <4>2. Filled' = Filled
        BY <3>1, <3>4
      <4>3. Ordered(table) => RowsInv'
        BY <2>2, <3>2, <4>1, <4>2 DEF RowsInv
      <4> QED BY <2>2, <3>2, <3>4, <4>3 DEF FillInv
    <3> QED BY <2>4, <3>3, <3>4
  <2>9. PoolStep /\ ("target" \in pools' \/ table \in blamed')
    BY <1>1, <1>7, AcceptedStep DEF IInv, PoolInv
  <2>10. late' = 0 /\ late = 0
    BY <1>1, <1>7 DEF IInv, CancelInv, Quiet
  <2>11. Stays
    BY <1>7, <2>2, <2>4, <2>9 DEF Stays, Goto, InTable
  <2>12. TableStep
    BY <1>1, <1>5, <2>1, <2>2, <2>9, <2>10, Typed DEF TableStep, Quiet, PoolStep
  <2> QED BY <2>6, <2>7, <2>8, <2>11, <2>12, StayKeeps DEF LocalInv
<1> QED BY <1>2, <1>3, <1>4, <1>6, <1>7

----------------------------------------------------------------------------
(***************************************************************************)
(* Writing the rows of a page.                                              *)
(***************************************************************************)
\* The first m items of a sequence, and the others.
LEMMA SplitFacts ==
    ASSUME NEW S, NEW p \in Seq(S), NEW m \in 1 .. Len(p)
    PROVE  /\ SubSeq(p, 1, m) \in Seq(S) /\ Len(SubSeq(p, 1, m)) = m
           /\ DOMAIN SubSeq(p, 1, m) = 1 .. m
           /\ \A i \in 1 .. m : i \in 1 .. Len(p) /\ SubSeq(p, 1, m)[i] = p[i]
           /\ SubSeq(p, m + 1, Len(p)) \in Seq(S)
           /\ Len(SubSeq(p, m + 1, Len(p))) = Len(p) - m
           /\ DOMAIN SubSeq(p, m + 1, Len(p)) = 1 .. Len(p) - m
           /\ \A i \in 1 .. Len(p) - m : m + i \in 1 .. Len(p) /\ SubSeq(p, m + 1, Len(p))[i] = p[m + i]
<1>1. m \in Nat /\ Len(p) \in Nat /\ m <= Len(p) /\ 1 <= m /\ \A i \in 1 .. Len(p) : p[i] \in S
  OBVIOUS
<1> DEFINE a == SubSeq(p, 1, m)
           b == SubSeq(p, m + 1, Len(p))
<1>2. a = [i \in 1 .. m |-> p[i]]
  BY <1>1
<1>3. \A i \in 1 .. m : i \in 1 .. Len(p)
  BY <1>1
<1>4. a \in [1 .. m -> S]
  BY <1>1, <1>2, <1>3
<1>5. b \in Seq(S) /\ Len(b) = Len(p) - m /\ \A i \in 1 .. Len(p) - m : b[i] = p[m + i]
  <2>1. Len(p) - m \in Nat
    BY <1>1
  <2>2. Len(b) = Len(p) - m
    BY <1>1
  <2>3. \A i \in 1 .. Len(p) - m : b[i] = p[m + i]
    BY <1>1
  <2> QED BY <1>1, <2>1, <2>2, <2>3
<1>6. \A i \in 1 .. Len(p) - m : m + i \in 1 .. Len(p)
  BY <1>1
<1>7. a \in Seq(S) /\ Len(a) = m /\ DOMAIN a = 1 .. m
  BY <1>1, <1>4
<1>8. DOMAIN b = 1 .. Len(p) - m
  BY <1>5
<1> QED BY <1>2, <1>3, <1>5, <1>6, <1>7, <1>8

\* The next statement takes some of the first rows of the page.
LEMMA ChunkFacts ==
    ASSUME page \in Seq(Keys), page # <<>>
    PROVE  \E m \in 1 .. Len(page) :
              NextChunk = SubSeq(page, 1, m) /\ (MongoTarget => m = Len(page) /\ NextChunk = page)
<1>1. Len(page) \in Nat \ {0} /\ Chunk \in Nat \ {0}
  BY TransferAssumption
<1>2. CASE MongoTarget
  <2>1. NextChunk = page
    BY <1>2 DEF NextChunk
  <2>2. page = SubSeq(page, 1, Len(page))
    <3>1. SubSeq(page, 1, Len(page)) = [i \in 1 .. Len(page) |-> page[i]]
      BY <1>1
    <3>2. page = [i \in 1 .. Len(page) |-> page[i]]
      OBVIOUS
    <3> QED BY <3>1, <3>2
  <2>3. NextChunk = SubSeq(page, 1, Len(page))
    BY <2>1, <2>2, Zenon
  <2>4. Len(page) \in 1 .. Len(page)
    BY <1>1
  <2> QED BY <2>1, <2>3, <2>4, Zenon
<1>3. CASE ~MongoTarget
  <2>1. NextChunk = SubSeq(page, 1, IF Len(page) < Chunk THEN Len(page) ELSE Chunk)
    BY <1>3 DEF NextChunk
  <2>2. (IF Len(page) < Chunk THEN Len(page) ELSE Chunk) \in 1 .. Len(page)
    BY <1>1
  <2> QED BY <1>3, <2>1, <2>2
<1> QED BY <1>2, <1>3

\* While a page is written, what is known of the table at hand.
LEMMA WriteFacts ==
    ASSUME IInv, stage = "write"
    PROVE  /\ table \in Names /\ Size[table] \in Nat /\ offset \in Nat /\ rowCount \in Nat
           /\ page \in Seq(Keys) /\ page # <<>> /\ Len(page) \in Nat /\ Len(page) <= rowCount
           /\ DOMAIN page = 1 .. Len(page)
           /\ HandInv /\ prepared /\ Filled = offset + rowCount - Len(page) /\ Filled \in Nat
           /\ Ordered(table) => RowsInv /\ \A i \in DOMAIN page : page[i] = Filled + i
<1>1. table \in Names /\ Size[table] \in Nat
  BY Local, TableFacts DEF InTable
<1>2. offset \in Nat /\ rowCount \in Nat /\ page \in Seq(Keys) /\ Len(page) \in Nat /\ DOMAIN page = 1 .. Len(page)
  BY Typed
<1>3. HandInv /\ prepared
  BY Local DEF PageInv, InHand
<1>4. Filled = offset + rowCount - Len(page)
  BY DEF Filled
<1>5. page # <<>> /\ Len(page) <= rowCount
  BY <1>3 DEF HandInv
<1>6. Filled \in Nat
  BY <1>2, <1>4, <1>5
<1>7. Ordered(table) => RowsInv
  BY Local DEF FillInv
<1>8. Ordered(table) => \A i \in DOMAIN page : page[i] = Filled + i
  BY <1>3, <1>4 DEF HandInv
<1> QED BY <1>1, <1>2, <1>3, <1>4, <1>5, <1>6, <1>7, <1>8

\* What a statement with the first m rows of the page does to the target: an ordered
\* table holds m more rows.
LEMMA WrittenFacts ==
    ASSUME IInv, stage = "write", NEW m \in 1 .. Len(page),
           ~Conflicts(table, SubSeq(page, 1, m)), Written(table, SubSeq(page, 1, m))
    PROVE  /\ old' \in [Names -> SUBSET Keys] /\ copies' \in [Names -> [Keys -> Nat]]
           /\ \A t \in Names \ {table} : copies'[t] = copies[t] /\ old'[t] = old[t]
           /\ late' \in Nat /\ (~asked => late' = 0) /\ late' <= late + m
           /\ Ordered(table) =>
                /\ \A k \in Keys : copies'[table][k] = IF k \in 1 .. Filled + m THEN 1 ELSE 0
                /\ effective = "upsert" => old'[table] = Base(table) \ (1 .. Filled + m)
                /\ effective = "append" => /\ old'[table] = Base(table)
                                           /\ Keyed(table) => old'[table] \cap (1 .. Filled + m) = {}
<1> DEFINE rows == SubSeq(page, 1, m)
           S == ToSet(rows)
<1>1. /\ table \in Names /\ page \in Seq(Keys) /\ Len(page) \in Nat /\ m \in Nat /\ DOMAIN page = 1 .. Len(page)
      /\ Filled \in Nat /\ (Ordered(table) => RowsInv /\ \A i \in DOMAIN page : page[i] = Filled + i)
  BY WriteFacts
<1>2. /\ old \in [Names -> SUBSET Keys] /\ copies \in [Names -> [Keys -> Nat]]
      /\ effective \in {"append", "upsert"} /\ late \in Nat /\ (~asked => late = 0)
  BY Typed
<1>3. /\ Len(rows) = m /\ DOMAIN rows = 1 .. m
      /\ \A i \in 1 .. m : i \in DOMAIN page /\ rows[i] = page[i]
  BY <1>1, SplitFacts
<1>4. /\ copies' = [copies EXCEPT ![table] = [k \in Keys |->
              IF k \notin S THEN copies[table][k] ELSE IF effective = "upsert" THEN 1 ELSE copies[table][k] + 1]]
      /\ old' = [old EXCEPT ![table] = IF effective = "upsert" THEN old[table] \ S ELSE old[table]]
      /\ late' = IF asked THEN late + m ELSE late
  BY <1>3 DEF Written
<1>5. late' \in Nat /\ (~asked => late' = 0) /\ late' <= late + m
  BY <1>1, <1>2, <1>4
<1>6. \A k \in S : \E i \in 1 .. m : k = rows[i]
  BY <1>3 DEF ToSet
<1>7. \A i \in 1 .. m : rows[i] \in S
  BY <1>3 DEF ToSet
<1> HIDE DEF S, rows
<1>8. \A k \in Keys : copies[table][k] \in Nat
  BY <1>1, <1>2
<1>9. /\ \A k \in Keys : copies'[table][k] =
              IF k \notin S THEN copies[table][k] ELSE IF effective = "upsert" THEN 1 ELSE copies[table][k] + 1
      /\ old'[table] = IF effective = "upsert" THEN old[table] \ S ELSE old[table]
      /\ \A t \in Names \ {table} : copies'[t] = copies[t] /\ old'[t] = old[t]
  BY <1>1, <1>2, <1>4
<1>10. old' \in [Names -> SUBSET Keys]
  <2>1. old[table] \in SUBSET Keys
    BY <1>1, <1>2
  <2> QED BY <1>2, <1>4, <2>1
<1>11. copies' \in [Names -> [Keys -> Nat]]
  <2>1. [k \in Keys |-> IF k \notin S THEN copies[table][k] ELSE IF effective = "upsert" THEN 1 ELSE copies[table][k] + 1]
            \in [Keys -> Nat]
    BY <1>8
  <2> QED BY <1>2, <1>4, <2>1
<1>12. ASSUME Ordered(table)
       PROVE  /\ \A k \in Keys : copies'[table][k] = IF k \in 1 .. Filled + m THEN 1 ELSE 0
              /\ effective = "upsert" => old'[table] = Base(table) \ (1 .. Filled + m)
              /\ effective = "append" => /\ old'[table] = Base(table)
                                         /\ Keyed(table) => old'[table] \cap (1 .. Filled + m) = {}
  <2>1. RowsInv /\ \A i \in 1 .. m : rows[i] = Filled + i
    BY <1>1, <1>3, <1>12
  <2>2. \A k \in S : k \in (Filled + 1) .. (Filled + m)
    BY <1>1, <1>6, <2>1
  <2>3. \A k \in (Filled + 1) .. (Filled + m) : k \in S
    <3> SUFFICES ASSUME NEW k \in (Filled + 1) .. (Filled + m) PROVE k \in S
      OBVIOUS
    <3>1. k - Filled \in 1 .. m /\ k = Filled + (k - Filled)
      BY <1>1
    <3> QED BY <1>7, <2>1, <3>1
  <2>4. \A k \in Nat : /\ k \in 1 .. Filled + m <=> (k \in 1 .. Filled \/ k \in S)
                       /\ ~(k \in 1 .. Filled /\ k \in S)
    BY <1>1, <2>2, <2>3
  <2>5. Keys \subseteq Nat /\ 1 .. Filled \subseteq Nat /\ 1 .. Filled + m \subseteq Nat /\ S \subseteq Nat
    BY <1>1, <2>2, KeyFacts
  <2>6. /\ \A k \in Keys : copies[table][k] = IF k \in 1 .. Filled THEN 1 ELSE 0
        /\ effective = "upsert" => old[table] = Base(table) \ (1 .. Filled)
        /\ effective = "append" => /\ old[table] = Base(table)
                                   /\ Keyed(table) => old[table] \cap (1 .. Filled) = {}
    BY <2>1 DEF RowsInv
  <2>7. \A k \in Keys : copies'[table][k] = IF k \in 1 .. Filled + m THEN 1 ELSE 0
    <3> SUFFICES ASSUME NEW k \in Keys PROVE copies'[table][k] = IF k \in 1 .. Filled + m THEN 1 ELSE 0
      OBVIOUS
    <3>1. /\ copies[table][k] = IF k \in 1 .. Filled THEN 1 ELSE 0
          /\ copies'[table][k] = IF k \notin S THEN copies[table][k]
                                 ELSE IF effective = "upsert" THEN 1 ELSE copies[table][k] + 1
          /\ k \in 1 .. Filled + m <=> (k \in 1 .. Filled \/ k \in S)
          /\ ~(k \in 1 .. Filled /\ k \in S)
      BY <1>9, <2>4, <2>5, <2>6
    <3> QED BY ONLY <3>1
  <2>8. effective = "upsert" => old'[table] = Base(table) \ (1 .. Filled + m)
    <3> HAVE effective = "upsert"
    <3>1. old'[table] = (Base(table) \ (1 .. Filled)) \ S
      BY <1>9, <2>6
    <3>2. \A k : k \in 1 .. Filled + m <=> (k \in 1 .. Filled \/ k \in S)
      BY <2>4, <2>5
    <3> QED BY ONLY <3>1, <3>2
  <2>9. effective = "append" => old'[table] = Base(table) /\ old'[table] = old[table]
    BY <1>9, <2>6
  <2>10. effective = "append" /\ Keyed(table) => old'[table] \cap (1 .. Filled + m) = {}
    <3> HAVE effective = "append" /\ Keyed(table)
    <3>1. \A i \in 1 .. m : rows[i] \notin old[table]
      BY <1>3 DEF Conflicts, Present, rows
    <3>2. \A k \in S : k \notin old[table]
      BY <1>6, <3>1
    <3>3. \A k \in 1 .. Filled : k \notin old[table]
      BY <2>6
    <3> QED BY <2>4, <2>5, <2>9, <3>2, <3>3
  <2> QED BY <2>7, <2>8, <2>9, <2>10
<1> QED BY <1>5, <1>9, <1>10, <1>11, <1>12

\* A statement that wrote the first m rows of the page and goes on with the page, or
\* with the next one.
LEMMA WrittenOn ==
    ASSUME IInv, stage = "write", Unmoved, NEW m \in 1 .. Len(page), Accepted("target"),
           ~Conflicts(table, SubSeq(page, 1, m)), Written(table, SubSeq(page, 1, m)),
           EndOfPage(SubSeq(page, m + 1, Len(page))),
           UNCHANGED <<rowCount, prepared, effective>>
    PROVE  IInv'
<1>1. /\ table \in Names /\ Size[table] \in Nat /\ offset \in Nat /\ rowCount \in Nat
      /\ page \in Seq(Keys) /\ Len(page) \in Nat /\ Len(page) <= rowCount
      /\ DOMAIN page = 1 .. Len(page)
      /\ HandInv /\ prepared /\ Filled = offset + rowCount - Len(page) /\ Filled \in Nat
      /\ Ordered(table) => \A i \in DOMAIN page : page[i] = Filled + i
  BY WriteFacts
<1>2. m \in Nat /\ 1 <= m /\ m <= Len(page)
  BY <1>1
<1>3. /\ page' \in Seq(Keys) /\ Len(page') = Len(page) - m /\ Len(page') \in Nat
      /\ DOMAIN page' = 1 .. Len(page')
      /\ \A i \in 1 .. Len(page') : m + i \in DOMAIN page /\ page'[i] = page[m + i]
      /\ page' = <<>> <=> Len(page') = 0
  <2> DEFINE rest == SubSeq(page, m + 1, Len(page))
  <2>1. page' = rest
    BY DEF EndOfPage
  <2>2. /\ rest \in Seq(Keys) /\ Len(rest) = Len(page) - m
        /\ \A i \in 1 .. Len(page) - m : m + i \in 1 .. Len(page) /\ rest[i] = page[m + i]
    BY <1>1, SplitFacts, ZenonT(30)
  <2> HIDE DEF rest
  <2>3. page' \in Seq(Keys) /\ Len(page') = Len(page) - m
    BY <2>1, <2>2, Zenon
  <2>4. \A i \in 1 .. Len(page) - m : m + i \in DOMAIN page /\ page'[i] = page[m + i]
    BY <1>1, <2>1, <2>2, Zenon
  <2> QED BY <2>3, <2>4
<1>4. /\ setup' = setup /\ table' = table /\ rowCount' = rowCount /\ prepared' /\ effective' = effective
      /\ UNCHANGED <<index, failed, reported, status>>
      /\ \/ stage' = "write" /\ Len(page') # 0 /\ offset' = offset
         \/ stage' = "finish" /\ Len(page') = 0 /\ offset' = offset + rowCount /\ rowCount < Batch
         \/ stage' = "page" /\ Len(page') = 0 /\ offset' = offset + rowCount /\ ~(rowCount < Batch)
  <2> DEFINE rest == SubSeq(page, m + 1, Len(page))
  <2>1. page' = rest /\ EndOfPage(rest)
    BY DEF EndOfPage
  <2> HIDE DEF rest
  <2>2. /\ UNCHANGED <<index, failed, reported, status>>
        /\ \/ stage' = "write" /\ rest # <<>> /\ offset' = offset
           \/ stage' = "finish" /\ rest = <<>> /\ offset' = offset + rowCount /\ rowCount < Batch
           \/ stage' = "page" /\ rest = <<>> /\ offset' = offset + rowCount /\ ~(rowCount < Batch)
    BY <2>1 DEF EndOfPage, Goto
  <2>3. /\ setup' = setup /\ table' = table /\ rowCount' = rowCount /\ prepared' /\ effective' = effective
    BY <1>1, <2>2 DEF Unmoved, table
  <2>4. \/ stage' = "write" /\ Len(page') # 0 /\ offset' = offset
        \/ stage' = "finish" /\ Len(page') = 0 /\ offset' = offset + rowCount /\ rowCount < Batch
        \/ stage' = "page" /\ Len(page') = 0 /\ offset' = offset + rowCount /\ ~(rowCount < Batch)
    BY <1>3, <2>1, <2>2, Zenon
  <2> QED BY <2>2, <2>3, <2>4
<1>a. /\ offset \in Nat /\ rowCount \in Nat /\ Len(page) \in Nat /\ m \in Nat /\ Filled \in Nat
      /\ 1 <= m /\ m <= Len(page) /\ Len(page) <= rowCount
      /\ Filled = offset + rowCount - Len(page)
      /\ Len(page') = Len(page) - m /\ Len(page') \in Nat
  BY <1>1, <1>2, <1>3
<1>5. offset' \in Nat /\ Filled' = Filled + m
  <2>1. offset' \in Nat
    BY <1>4, <1>a
  <2>2. Filled' = IF stage' = "write" THEN offset' + rowCount' - Len(page') ELSE offset'
    BY DEF Filled
  <2>3. CASE stage' = "write"
    <3>1. Filled' = offset + rowCount - Len(page')
      BY <1>4, <2>2, <2>3
    <3> QED BY ONLY <1>a, <2>1, <3>1, <1>4
  <2>4. CASE stage' # "write"
    <3>1. Filled' = offset + rowCount /\ Len(page') = 0
      BY <1>4, <2>2, <2>4
    <3> QED BY ONLY <1>a, <2>1, <3>1
  <2> QED BY <2>3, <2>4
<1>6. (Ordered(table)' <=> Ordered(table)) /\ (Keyed(table)' <=> Keyed(table)) /\ Base(table)' = Base(table)
  BY <1>1, <1>4 DEF Ordered, Keyed, Base, MongoSource
<1>7. /\ offset + rowCount <= Arrives(table)
      /\ rowCount < Batch => offset + rowCount = Arrives(table)
      /\ ~Uncapped => rowCount < Batch
  BY <1>1 DEF HandInv
<1>8. stage' = "write" => HandInv'
  <2> HAVE stage' = "write"
  <2>1. offset' = offset /\ page' # <<>> /\ Len(page') <= rowCount
    <3>1. offset' = offset /\ page' # <<>>
      BY <1>3, <1>4
    <3>2. Len(page') <= rowCount
      BY ONLY <1>a
    <3> QED BY <3>1, <3>2
  <2>2. Ordered(table) => \A i \in DOMAIN page' : page'[i] = offset + rowCount - Len(page') + i
    <3> SUFFICES ASSUME Ordered(table), NEW i \in 1 .. Len(page')
                 PROVE  page'[i] = offset + rowCount - Len(page') + i
      BY <1>3
    <3>1. page'[i] = Filled + (m + i)
      BY <1>1, <1>3
    <3>2. i \in Nat
      BY <1>3
    <3> QED BY ONLY <1>a, <3>1, <3>2
  <2> QED BY <1>1, <1>4, <1>6, <1>7, <2>1, <2>2, ArriveSame DEF HandInv
<1>9. PageInv'
  BY <1>1, <1>4, <1>7, <1>8, ArriveSame DEF PageInv, InHand
<1>10. ModeInv'
  BY <1>4, <1>6, Local DEF ModeInv, MongoSource, MongoTarget
<1>11. /\ old' \in [Names -> SUBSET Keys] /\ copies' \in [Names -> [Keys -> Nat]]
       /\ \A t \in Names \ {table} : copies'[t] = copies[t] /\ old'[t] = old[t]
       /\ late' \in Nat /\ (~asked => late' = 0) /\ late' <= late + m
  BY WrittenFacts
<1>12. Ordered(table) =>
         /\ \A k \in Keys : copies'[table][k] = IF k \in 1 .. Filled + m THEN 1 ELSE 0
         /\ effective = "upsert" => old'[table] = Base(table) \ (1 .. Filled + m)
         /\ effective = "append" => /\ old'[table] = Base(table)
                                    /\ Keyed(table) => old'[table] \cap (1 .. Filled + m) = {}
  BY WrittenFacts
<1>13. FillInv'
  <2>1. Ordered(table) => RowsInv'
    BY <1>4, <1>5, <1>6, <1>12 DEF RowsInv
  <2> QED BY <1>4, <1>6, <2>1 DEF FillInv
<1>14. PoolStep /\ ("target" \in pools' \/ table \in blamed')
  BY AcceptedStep DEF IInv, PoolInv, InTable
<1>15. Stays
  BY <1>4, <1>14 DEF Stays, Unmoved, InTable
<1>16. late' + Len(page') <= Batch
  <2>1. late \in Nat /\ late + Len(page) <= Batch /\ Batch \in Nat
    BY Typed
  <2> QED BY ONLY <1>a, <1>11, <2>1, SMTT(30)
<1>17. Ordered(table) => \A k \in Keys : copies'[table][k] <= 1
  BY <1>12
<1>18. TableStep
  BY <1>3, <1>4, <1>5, <1>11, <1>14, <1>16, <1>17, Typed DEF TableStep, Unmoved, PoolStep, InTable
<1> QED BY <1>9, <1>10, <1>13, <1>15, <1>18, StayKeeps DEF LocalInv

\* A statement that failed, whatever of the page it left written.
LEMMA WrittenFail ==
    ASSUME IInv, stage = "write", Unmoved, PoolStep, FailTable,
           table \in blamed' \/ "source" \notin pools',
           NEW m \in 1 .. Len(page),
           ~Conflicts(table, SubSeq(page, 1, m)), Written(table, SubSeq(page, 1, m))
    PROVE  IInv'
<1>1. /\ Leaves("error") /\ page' = <<>> /\ UNCHANGED <<rowCount, offset, prepared, effective>>
  BY DEF FailTable, Fail, NextTable, Leaves, Unmoved
<1>2. /\ old' \in [Names -> SUBSET Keys] /\ copies' \in [Names -> [Keys -> Nat]]
      /\ \A t \in Names \ {table} : copies'[t] = copies[t] /\ old'[t] = old[t]
      /\ late' \in Nat /\ (~asked => late' = 0) /\ late' <= late + m
      /\ Ordered(table) => \A k \in Keys : copies'[table][k] = IF k \in 1 .. Filled + m THEN 1 ELSE 0
  BY WrittenFacts
<1>3. page' \in Seq(Keys) /\ Len(page') = 0
  BY <1>1
<1>4. m \in Nat /\ m <= Len(page)
  BY Typed
<1>5. late' + Len(page') <= Batch
  BY <1>2, <1>3, <1>4, Typed
<1>6. Ordered(table) => \A k \in Keys : copies'[table][k] <= 1
  BY <1>2
<1>7. TableStep
  BY <1>1, <1>2, <1>3, <1>5, <1>6, Typed DEF TableStep, Unmoved, PoolStep, InTable
<1> QED BY <1>1, <1>7, LeaveKeeps

\* The next statement of a page.
LEMMA WriteRowsKeeps ==
    ASSUME IInv, WriteRows
    PROVE  IInv'
<1>1. stage = "write" /\ stage \in InTable \ {"resolve"} /\ Unmoved
  BY DEF WriteRows, TableUnchanged, Unmoved, InTable
<1>2. page \in Seq(Keys) /\ page # <<>> /\ Len(page) \in Nat
  BY <1>1, WriteFacts
<1>3. PICK m \in 1 .. Len(page) :
        NextChunk = SubSeq(page, 1, m) /\ (MongoTarget => m = Len(page) /\ NextChunk = page)
  BY <1>2, ChunkFacts
<1>4. Len(NextChunk) = m
  BY <1>2, <1>3, SplitFacts
<1>5. ASSUME LeftWritten(table, NextChunk)
      PROVE  \/ Quiet
             \/ \E n \in 1 .. Len(page) : ~Conflicts(table, SubSeq(page, 1, n)) /\ Written(table, SubSeq(page, 1, n))
  <2>1. CASE NotWritten
    BY <2>1 DEF NotWritten, Quiet, targetVars
  <2>2. CASE ~Conflicts(table, NextChunk) /\ Written(table, NextChunk)
    BY <1>3, <2>2
  <2>3. CASE /\ MongoTarget
             /\ \E n \in 1 .. Len(NextChunk) :
                   ~Conflicts(table, SubSeq(NextChunk, 1, n)) /\ Written(table, SubSeq(NextChunk, 1, n))
    BY <1>3, <2>3
  <2> QED BY <1>5, <2>1, <2>2, <2>3 DEF LeftWritten
<1>6. \/ /\ Accepted("target") /\ ~Conflicts(table, NextChunk) /\ Written(table, NextChunk)
         /\ EndOfPage(SubSeq(page, Len(NextChunk) + 1, Len(page)))
         /\ UNCHANGED <<rowCount, prepared, effective>>
      \/ /\ Refused("target", ~Exists(table) \/ Conflicts(table, NextChunk)) /\ FailTable
         /\ LeftWritten(table, NextChunk) \/ NotWritten
      \/ /\ LostConnection("target") /\ ErrorAction("target") /\ FailTable
         /\ LeftWritten(table, NextChunk) \/ NotWritten
  BY DEF WriteRows, NoReplay
<1>7. CASE /\ Accepted("target") /\ ~Conflicts(table, NextChunk) /\ Written(table, NextChunk)
           /\ EndOfPage(SubSeq(page, Len(NextChunk) + 1, Len(page)))
           /\ UNCHANGED <<rowCount, prepared, effective>>
  BY <1>1, <1>3, <1>4, <1>7, WrittenOn
<1>8. ASSUME PoolStep, FailTable, table \in blamed' \/ "source" \notin pools',
             LeftWritten(table, NextChunk) \/ NotWritten
      PROVE  IInv'
  <2>1. CASE Quiet
    BY <1>1, <1>8, <2>1, QuietFail
  <2>2. CASE \E n \in 1 .. Len(page) : ~Conflicts(table, SubSeq(page, 1, n)) /\ Written(table, SubSeq(page, 1, n))
    BY <1>1, <1>8, <2>2, WrittenFail
  <2>3. NotWritten => Quiet
    BY DEF NotWritten, Quiet, targetVars
  <2> QED BY <1>5, <1>8, <2>1, <2>2, <2>3
<1>9. CASE /\ Refused("target", ~Exists(table) \/ Conflicts(table, NextChunk)) /\ FailTable
           /\ LeftWritten(table, NextChunk) \/ NotWritten
  BY <1>1, <1>8, <1>9, RefusedStep
<1>10. CASE /\ LostConnection("target") /\ ErrorAction("target") /\ FailTable
            /\ LeftWritten(table, NextChunk) \/ NotWritten
  BY <1>8, <1>10, LostStep
<1> QED BY <1>6, <1>7, <1>9, <1>10

\* A PostgreSQL table gets its sequences, indexes and keys, and a table is done.
LEMMA FinishTableKeeps ==
    ASSUME IInv, FinishTable
    PROVE  IInv'
<1>1. stage = "finish" /\ stage \in InTable \ {"resolve"} /\ Unmoved /\ Quiet
  BY DEF FinishTable, TableUnchanged, Unmoved, Quiet, targetVars, InTable
<1>2. \/ FailTable /\ Refused("target", FALSE)
      \/ FailTable /\ LostConnection("target") /\ ErrorAction("target")
      \/ /\ NextTable("done") /\ UNCHANGED <<status, pools, blamed, rowCount, offset, prepared, effective>>
  BY DEF FinishTable, NoReplay
<1>3. CASE FailTable /\ Refused("target", FALSE)
  BY <1>1, <1>3, RefusedStep, QuietFail
<1>4. CASE FailTable /\ LostConnection("target") /\ ErrorAction("target")
  BY <1>1, <1>4, LostStep, QuietFail
<1>5. CASE NextTable("done") /\ UNCHANGED <<status, pools, blamed, rowCount, offset, prepared, effective>>
  <2>1. Leaves("done") /\ page' = <<>>
    BY <1>1, <1>5 DEF NextTable, Leaves, Unmoved
  <2>2. /\ table \in Names /\ Size[table] \in Nat /\ offset = Arrives(table) /\ Filled = Arrives(table)
        /\ MongoSource => offset = Size[table]
        /\ prepared \in BOOLEAN
        /\ effective \in {"append", "upsert"}
        /\ prepared \/ (MongoSource /\ offset = 0)
    BY <1>1, Local, TableFacts, ArriveFacts, Typed DEF PageInv, Filled, Uncapped
  <2>3. ASSUME Ordered(table)
        PROVE  /\ \A k \in Keys : copies[table][k] = IF k \in 1 .. Arrives(table) THEN 1 ELSE 0
               /\ ~SkippedClear(table) => old[table] = Kept(table)
    <3>1. RowsInv
      BY <1>1, <2>3, Local DEF FillInv
    <3>2. /\ \A k \in Keys : copies[table][k] = IF k \in 1 .. Arrives(table) THEN 1 ELSE 0
          /\ effective = "upsert" => old[table] = Base(table) \ (1 .. Arrives(table))
          /\ effective = "append" => old[table] = Base(table)
          /\ effective = "append" /\ Keyed(table) => old[table] \cap (1 .. Arrives(table)) = {}
      BY <2>2, <3>1 DEF RowsInv
    <3>3. ASSUME ~SkippedClear(table) PROVE old[table] = Kept(table)
      <4>1. CASE setup.mode = "overwrite"
        <5>1. prepared /\ Kept(table) = {}
          BY <2>2, <3>3, <4>1 DEF SkippedClear, Kept
        <5>2. Base(table) = {} /\ effective = "append"
          BY <1>1, <2>2, <4>1, <5>1, Local DEF Base, ModeInv
        <5> QED BY <3>2, <5>1, <5>2
      <4>2. CASE setup.mode = "upsert" /\ Keyed(table) /\ ~MongoSource /\ ~MongoTarget
        <5>1. Kept(table) = setup.old[table] \ (1 .. Arrives(table)) /\ Base(table) = setup.old[table]
          BY <4>2 DEF Kept, Base
        <5>2. CASE effective = "upsert"
          BY <3>2, <5>1, <5>2
        <5>3. CASE effective = "append"
          <6>1. old[table] = setup.old[table] /\ old[table] \cap (1 .. Arrives(table)) = {}
            BY <3>2, <4>2, <5>1, <5>3
          <6> QED BY ONLY <5>1, <6>1
        <5> QED BY <2>2, <5>2, <5>3
      <4>3. CASE /\ setup.mode # "overwrite"
                 /\ ~(setup.mode = "upsert" /\ Keyed(table) /\ ~MongoSource /\ ~MongoTarget)
        <5>1. Kept(table) = setup.old[table] /\ Base(table) = setup.old[table]
          BY <4>3 DEF Kept, Base
        <5>2. effective = "append"
          BY <1>1, <2>2, <4>3, Local DEF ModeInv
        <5> QED BY <3>2, <5>1, <5>2
      <4> QED BY <4>1, <4>2, <4>3
    <3> QED BY <3>2, <3>3
  <2>4. PoolStep
    BY <1>5, PoolsNow DEF PoolStep
  <2>5. page' \in Seq(Keys) /\ Len(page') = 0
    BY <2>1
  <2>6. late' \in Nat /\ (~asked => late' = 0) /\ late' + Len(page') <= Batch
    BY <1>1, <2>5, Typed DEF Quiet
  <2>7. TableStep
    BY <1>1, <1>5, <2>2, <2>4, <2>5, <2>6, Typed DEF TableStep, Unmoved, Quiet, PoolStep
  <2>8. UNCHANGED <<old, copies, rowCount, offset, prepared, effective>>
    BY <1>1, <1>5 DEF Quiet
  <2> QED BY <2>1, <2>3, <2>7, <2>8, LeaveKeeps
<1> QED BY <1>2, <1>3, <1>4, <1>5

----------------------------------------------------------------------------
(***************************************************************************)
(* The steps between the tables.                                            *)
(***************************************************************************)
\* A step outside of a table writes no rows; the order changes only before the first one.
Between ==
    /\ stage \in Stages \ (InTable \cup {"end"})
    /\ stage' \in (Stages \ InTable) \cup {"resolve"}
    /\ UNCHANGED <<setup, index, page, rowCount, offset, prepared, effective, old, copies,
                   asked, late, blamed, reported>>
    /\ \/ sorted' = sorted
       \/ index = 1 /\ stage' \notin InTable \cup {"end"}
    /\ steps' \in Nat /\ failed \subseteq failed'
    /\ PoolStep
    /\ cancelled' = cancelled \/ (cancelled' = FALSE /\ stage' = "end")
    /\ stage' # "end" => status' = status
    /\ status' = "done" => \A t \in Names : reported[t] = "done"

\* Such a step keeps the invariant, if it keeps the part about the order and the index.
LEMMA BetweenKeeps ==
    ASSUME IInv, Between, SortInv', IndexInv'
    PROVE  IInv'
<1> USE DEF Between
<1>1. SortInv /\ TypeInv /\ IndexInv /\ ReportInv /\ CancelInv /\ PoolInv /\ FreshInv /\ NeverTwice /\ DoneInv /\ LocalInv
  BY DEF IInv
<1>2. /\ index \in Nat \ {0} /\ sorted \in Seq(Names) /\ sorted' \in Seq(Names)
      /\ IsInjective(sorted) /\ index' = index
  BY <1>1 DEF TypeInv, SortInv
<1>3. \A i \in DOMAIN sorted : i \in Nat \ {0}
  BY <1>2
<1>3a. \A i \in DOMAIN sorted' : i \in Nat \ {0}
  BY <1>2
<1>4. index = 1 => \A t \in Names : reported[t] = "none" /\ Untouched(t)
  <2> SUFFICES ASSUME index = 1, NEW t \in Names PROVE reported[t] = "none" /\ Untouched(t)
    OBVIOUS
  <2>1. \A i \in DOMAIN sorted : ~(i < index) /\ (i > index \/ i = index)
    BY <1>3
  <2>2. reported[t] = "none"
    BY <1>1, <2>1 DEF ReportInv
  <2>3. Fresh(t)
    BY <2>1 DEF Fresh
  <2> QED BY <1>1, <2>2, <2>3 DEF FreshInv
<1>5. TypeInv'
  BY <1>1 DEF TypeInv, Stages, InTable, PoolStep
<1>6. ReportInv'
  <2>1. \A t \in Names : reported'[t] # "none" => \E i \in DOMAIN sorted' : i < index' /\ sorted'[i] = t
    BY <1>1, <1>4 DEF ReportInv
  <2>2. \A i \in DOMAIN sorted' : i < index' => reported'[sorted'[i]] # "none"
    <3>1. CASE sorted' = sorted
      BY <1>1, <3>1 DEF ReportInv
    <3>2. CASE index = 1
      <4>1. \A i \in DOMAIN sorted' : ~(i < index')
        BY <1>3a, <3>2
      <4> QED BY <4>1
    <3> QED BY <3>1, <3>2
  <2>3. \A t \in Names : reported'[t] = "error" => t \in failed'
    BY <1>1 DEF ReportInv
  <2>4. stage' # "end" => status' = "running"
    BY <1>1 DEF ReportInv
  <2> QED BY <2>1, <2>2, <2>3, <2>4 DEF ReportInv
<1>7. CancelInv'
  BY <1>1 DEF CancelInv
<1>8. PoolInv'
  BY <1>1 DEF PoolInv, FailureIsLocal, MongoTarget, PoolStep, InTable
<1>9. FreshInv'
  <2> SUFFICES ASSUME NEW t \in Names, Fresh(t)' PROVE Untouched(t)
    BY DEF FreshInv, Untouched
  <2>1. CASE sorted' = sorted
    <3>1. Fresh(t)
      BY <2>1 DEF Fresh
    <3> QED BY <1>1, <3>1 DEF FreshInv
  <2>2. CASE index = 1
    BY <1>4, <2>2
  <2> QED BY <2>1, <2>2
<1>10. NeverTwice'
  BY <1>1 DEF NeverTwice, Ordered, MongoSource
<1>11. DoneInv'
  BY <1>1 DEF DoneInv, Ordered, SkippedClear, Kept, Arrives, Uncapped, MongoSource, MongoTarget, Keyed
<1>12. LocalInv'
  <2>1. PageInv'
    BY DEF PageInv, InHand, InTable
  <2>2. ModeInv'
    BY <1>1 DEF LocalInv, ModeInv, InTable, MongoSource, MongoTarget
  <2>3. stage' = "resolve" => Untouched(table)'
    <3> HAVE stage' = "resolve"
    <3>1. sorted' = sorted /\ index <= Len(sorted) /\ table' = table
      BY DEF IndexInv, InTable, table
    <3>2. index \in DOMAIN sorted /\ table \in Names /\ sorted[index] = table
      BY <1>2, <3>1 DEF table
    <3>3. \A i \in DOMAIN sorted : sorted[i] = table => i = index
      BY <1>2, <3>2 DEF IsInjective
    <3>4. Fresh(table)
      BY <3>3 DEF Fresh
    <3>5. Untouched(table)
      BY <1>1, <3>2, <3>4 DEF FreshInv
    <3> QED BY <3>1, <3>5 DEF Untouched
  <2>4. FillInv'
    BY <2>3 DEF FillInv, InTable
  <2> QED BY <2>1, <2>2, <2>4 DEF LocalInv
<1> QED BY <1>5, <1>6, <1>7, <1>8, <1>9, <1>10, <1>11, <1>12 DEF IInv

\* The order of the tables is kept once it is found.
LEMMA OrderKept ==
    ASSUME SortInv, stage \notin {"sort", "rounds"}, stage' \notin {"sort", "rounds", "sorted"},
           sorted' = sorted, fks' = fks \/ fks' = {}
    PROVE  SortInv'
<1>1. IsFiniteSet({})
  BY FS_EmptySet
<1> QED BY <1>1 DEF SortInv

\* sort_tables_by_fk_dependency.
LEMMA SortTablesKeeps ==
    ASSUME IInv, SortTables
    PROVE  IInv'
<1>1. Sort /\ TransferUnchanged /\ SortInv
  BY DEF SortTables, IInv
<1>2. SortInv'
  BY <1>1, SortInductive
<1>3. stage \in {"sort", "rounds"} /\ stage' \in {"rounds", "sorted"}
  BY <1>1 DEF Sort, SortFails, SortBegin, SortRound, SortEnd
<1>4. index = 1 /\ index' = 1
  BY <1>1, <1>3 DEF IInv, IndexInv, TransferUnchanged
<1>5. IndexInv'
  BY <1>3, <1>4 DEF IndexInv, InTable
<1>6. Between
  BY <1>1, <1>3, <1>4, PoolsNow
     DEF Between, Stages, InTable, TransferUnchanged, tableVars, targetVars, reportVars, history,
         PoolStep, IInv, TypeInv, ReportInv
<1> QED BY <1>2, <1>5, <1>6, BetweenKeeps

\* The order is returned, or the tables are started.
LEMMA SortedKeeps ==
    ASSUME IInv, ReturnOrder \/ StartTables
    PROVE  IInv'
<1>1. /\ stage = "sorted" /\ stage' \in {"end", "dependencies", "table"}
      /\ fks' = {} /\ sorted' = sorted /\ steps' \in Nat
      /\ UNCHANGED <<setup, index, page, rowCount, offset, prepared, effective, old, copies,
                     asked, late, blamed, reported, pools, cancelled, status, failed>>
  BY TransferAssumption
     DEF ReturnOrder, StartTables, TransferUnchanged, tableVars, targetVars, reportVars, history,
         IInv, TypeInv
<1>2. SortInv'
  BY <1>1, OrderKept DEF IInv
<1>3. index = 1 /\ index' = 1
  BY <1>1 DEF IInv, IndexInv
<1>4. IndexInv'
  BY <1>1, <1>3 DEF IndexInv, InTable
<1>5. Between
  BY <1>1, PoolsNow DEF Between, Stages, InTable, PoolStep, IInv, ReportInv
<1> QED BY <1>2, <1>4, <1>5, BetweenKeeps

\* What a schema statement that fails does to the pools.
LEMMA SchemaFailureStep ==
    ASSUME IInv, SchemaFailure, blamed' = blamed
    PROVE  PoolStep
<1>1. pools' = pools \/ (pools' = pools \ {"target"} /\ ~MongoTarget)
  BY DEF SchemaFailure, ErrorAction, IsMongo
<1> QED BY <1>1, PoolsNow DEF PoolStep

\* When the loop over the tables is over, each has a report, and none is missing.
LEMMA AllReported ==
    ASSUME IInv, stage = "objects", failed = {}, NEW t \in Names
    PROVE  reported[t] = "done"
<1>1. SortInv /\ TypeInv /\ IndexInv /\ ReportInv
  BY DEF IInv
<1>2. /\ sorted \in Seq(Names) /\ ToSet(sorted) = Names /\ index \in Nat /\ index > Len(sorted)
  BY <1>1 DEF SortInv, TypeInv, IndexInv
<1>3. PICK i \in DOMAIN sorted : sorted[i] = t
  BY <1>2 DEF ToSet
<1>4. i < index
  BY <1>2, <1>3
<1> QED BY <1>1, <1>3, <1>4 DEF ReportInv, TypeInv

\* The statements of the PostgreSQL schema, before and after the tables.
LEMMA SchemaKeeps ==
    ASSUME IInv, DependencyStep \/ ObjectStep \/ SchemaDone
    PROVE  IInv'
<1>1. /\ stage \in {"dependencies", "objects"}
      /\ UNCHANGED <<fks, sorted, setup, index, page, rowCount, offset, prepared, effective,
                     old, copies, asked, late, blamed, reported>>
  BY DEF DependencyStep, ObjectStep, SchemaDone, SchemaUnchanged, tableVars, targetVars, history
<1>2. /\ stage' = stage \/ stage' = "end" \/ (stage = "dependencies" /\ stage' = "table")
      /\ cancelled' = cancelled \/ (cancelled' = FALSE /\ stage' = "end")
      /\ stage' # "end" => status' = status
      /\ status' = "done" => status = "done" \/ (stage = "objects" /\ failed = {})
      /\ failed \subseteq failed'
  BY DEF DependencyStep, ObjectStep, SchemaDone, Terminate
<1>3. steps' \in Nat
  <2>1. steps \in Nat
    BY DEF IInv, TypeInv
  <2>2. steps' = steps \/ steps' = 0 \/ (steps > 0 /\ steps' = steps - 1)
    BY DEF DependencyStep, ObjectStep, SchemaDone
  <2> QED BY ONLY <2>1, <2>2
<1>4. PoolStep
  <2>1. pools' = pools \/ SchemaFailure
    BY DEF DependencyStep, ObjectStep, SchemaDone
  <2> QED BY <1>1, <2>1, PoolsNow, SchemaFailureStep DEF PoolStep
<1>5. SortInv'
  BY <1>1, <1>2, OrderKept DEF IInv
<1>6. IndexInv'
  BY <1>1, <1>2 DEF IInv, IndexInv, InTable
<1>7. status' = "done" => \A t \in Names : reported[t] = "done"
  BY <1>1, <1>2, AllReported DEF IInv, ReportInv
<1>8. Between
  BY <1>1, <1>2, <1>3, <1>4, <1>7 DEF Between, Stages, InTable
<1> QED BY <1>5, <1>6, <1>8, BetweenKeeps

\* The loop over the tables.
LEMMA NextIndexKeeps ==
    ASSUME IInv, NextIndex
    PROVE  IInv'
<1>1. /\ stage = "table" /\ stage' \in {"objects", "end", "resolve"}
      /\ UNCHANGED <<fks, sorted, setup, index, page, rowCount, offset, prepared, effective,
                     old, copies, asked, late, blamed, reported, pools, failed>>
      /\ stage' = "objects" => index > Len(sorted)
      /\ stage' = "resolve" => index <= Len(sorted)
      /\ cancelled' = cancelled \/ (cancelled' = FALSE /\ stage' = "end")
      /\ stage' # "end" => status' = status
      /\ status' = "cancelled" \/ status' = status
  BY DEF NextIndex, Terminate, tableVars, targetVars, history
<1>2. steps' \in Nat
  BY TransferAssumption DEF NextIndex, IInv, TypeInv
<1>3. SortInv'
  BY <1>1, OrderKept DEF IInv
<1>4. IndexInv'
  BY <1>1 DEF IndexInv, InTable
<1>5. status' = "done" => \A t \in Names : reported[t] = "done"
  BY <1>1 DEF IInv, ReportInv
<1>6. Between
  BY <1>1, <1>2, <1>5, PoolsNow DEF Between, Stages, InTable, PoolStep
<1> QED BY <1>3, <1>4, <1>6, BetweenKeeps

\* What a cancellation, or no step at all, leaves as it is.
Same == UNCHANGED <<sortVars, setup, index, steps, tableVars, pools, targetVars,
                    reportVars, late, blamed>>

\* A cancellation asked for while the task runs, and a step that changes nothing.
LEMMA SameKeeps ==
    ASSUME IInv, Same, (asked' = TRUE /\ cancelled' = TRUE) \/ UNCHANGED <<asked, cancelled>>
    PROVE  IInv'
<1> USE DEF Same, sortVars, tableVars, targetVars, reportVars
<1>1. SortInv'
  <2>1. UNCHANGED <<fks, parentsFirst, stage, degree, queue, sorted>> /\ SortInv
    BY DEF IInv
  <2>2. /\ \A fk : Source(fk)' = Source(fk) /\ Dependent(fk)' = Dependent(fk)
        /\ \A d : Waiting(d)' = Waiting(d) /\ Sources(d)' = Sources(d)
    BY <2>1 DEF Source, Dependent, Waiting, Sources
  <2>3. RoundInv => RoundInv'
    BY <2>1, <2>2 DEF RoundInv
  <2>4. LeftInv => LeftInv'
    <3> HAVE LeftInv
    <3>1. PICK left \in SUBSET Names :
            /\ \A x \in left : \E y \in left : y \in Sources(x)
            /\ \A fk \in fks : \/ Dependent(fk) \in left
                               \/ \E i, j \in DOMAIN sorted :
                                     i < j /\ sorted[i] = Source(fk) /\ sorted[j] = Dependent(fk)
      BY DEF LeftInv
    <3>2. /\ \A x \in left : \E y \in left : y \in Sources(x)'
          /\ \A fk \in fks' : \/ Dependent(fk)' \in left
                              \/ \E i, j \in DOMAIN sorted' :
                                    i < j /\ sorted'[i] = Source(fk)' /\ sorted'[j] = Dependent(fk)'
      BY <2>1, <2>2, <3>1
    <3> QED BY <3>2 DEF LeftInv
  <2> QED BY <2>1, <2>3, <2>4 DEF SortInv
<1>2. TypeInv'
  BY DEF IInv, TypeInv
<1>3. IndexInv' /\ ReportInv'
  BY DEF IInv, IndexInv, ReportInv
<1>4. CancelInv'
  BY DEF IInv, CancelInv
<1>5. PoolInv'
  BY DEF IInv, PoolInv, FailureIsLocal, MongoTarget, table
<1>6. FreshInv' /\ NeverTwice'
  BY DEF IInv, FreshInv, Fresh, Untouched, NeverTwice, Ordered, MongoSource
<1>7. DoneInv'
  BY DEF IInv, DoneInv, Ordered, SkippedClear, Kept, Arrives, Uncapped, MongoSource, MongoTarget, Keyed
<1>8. table' = table /\ LocalInv
  BY DEF table, IInv
<1>9. PageInv' /\ ModeInv'
  BY <1>8 DEF LocalInv, PageInv, HandInv, InHand, ModeInv, Keyed, Ordered, Arrives, Uncapped,
              MongoSource, MongoTarget
<1>10. FillInv'
  BY <1>8 DEF LocalInv, FillInv, RowsInv, Filled, Base, Untouched, Keyed, Ordered, MongoSource
<1> QED BY <1>1, <1>2, <1>3, <1>4, <1>5, <1>6, <1>7, <1>9, <1>10 DEF IInv, LocalInv

----------------------------------------------------------------------------
\* The first state: the request, and the target as it is.
LEMMA InitEstablishes ==
    ASSUME Init
    PROVE  IInv
<1> USE DEF Init, SortInit
<1>1. /\ setup \in Setups /\ setup.fks \subseteq Names \X Names \X Nat /\ IsFiniteSet(setup.fks)
      /\ setup.old \in [Names -> SUBSET Keys]
  BY SetupAssumption
<1>2. SortInv
  <2>1. sorted \in Seq(Names) /\ IsInjective(sorted)
    BY DEF IsInjective
  <2> QED BY <1>1, <2>1 DEF SortInv
<1>3. TypeInv
  <2>1. copies \in [Names -> [Keys -> Nat]] /\ page \in Seq(Keys)
    OBVIOUS
  <2>2. reported \in [Names -> {"none", "done", "error"}] /\ old \in [Names -> SUBSET Keys]
    BY <1>1
  <2>3. stage \in Stages /\ index \in Nat \ {0} /\ steps \in Nat /\ rowCount \in Nat /\ offset \in Nat
    BY DEF Stages
  <2>4. /\ prepared \in BOOLEAN /\ effective \in {"append", "upsert"} /\ pools \subseteq {"source", "target"}
        /\ cancelled \in BOOLEAN /\ asked \in BOOLEAN /\ late \in Nat
    OBVIOUS
  <2> QED BY <1>1, <2>1, <2>2, <2>3, <2>4 DEF TypeInv
<1>4. IndexInv /\ ReportInv
  BY DEF IndexInv, ReportInv, InTable
<1>5. CancelInv
  <2>1. Len(page) = 0 /\ Batch \in Nat
    BY TransferAssumption
  <2> QED BY <2>1 DEF CancelInv
<1>6. PoolInv
  BY DEF PoolInv, FailureIsLocal, InTable
<1>7. FreshInv /\ NeverTwice /\ DoneInv
  BY DEF FreshInv, Untouched, NeverTwice, DoneInv
<1>8. LocalInv
  BY DEF LocalInv, PageInv, InHand, ModeInv, FillInv, InTable
<1> QED BY <1>2, <1>3, <1>4, <1>5, <1>6, <1>7, <1>8 DEF IInv

\* Every step of the task, every cancellation and every pause keeps the invariant.
LEMMA NextKeeps ==
    ASSUME IInv, [Next]_vars
    PROVE  IInv'
<1>1. CASE SortTables
  BY <1>1, SortTablesKeeps
<1>2. CASE ReturnOrder \/ StartTables
  BY <1>2, SortedKeeps
<1>3. CASE DependencyStep \/ ObjectStep \/ SchemaDone
  BY <1>3, SchemaKeeps
<1>4. CASE NextIndex
  BY <1>4, NextIndexKeeps
<1>5. CASE Resolve
  BY <1>5, ResolveKeeps
<1>6. CASE ReadColumns
  BY <1>6, ReadColumnsKeeps
<1>7. CASE CountRows
  BY <1>7, CountRowsKeeps
<1>8. CASE CreateTable
  BY <1>8, CreateTableKeeps
<1>9. CASE ClearTable
  BY <1>9, ClearTableKeeps
<1>10. CASE ChooseMode
  BY <1>10, ChooseModeKeeps
<1>11. CASE ReadPage
  BY <1>11, ReadPageKeeps
<1>12. CASE WriteRows
  BY <1>12, WriteRowsKeeps
<1>13. CASE FinishTable
  BY <1>13, FinishTableKeeps
<1>14. CASE Cancel
  BY <1>14, SameKeeps DEF Cancel, Same
<1>15. CASE UNCHANGED vars
  BY <1>15, SameKeeps DEF vars, Same, history
<1> QED
  BY <1>1, <1>2, <1>3, <1>4, <1>5, <1>6, <1>7, <1>8, <1>9, <1>10, <1>11, <1>12, <1>13, <1>14, <1>15
     DEF Next, Task

\* The invariant holds whatever the server refuses, wherever a connection is lost and
\* whenever the transfer is cancelled.
THEOREM Invariance == Spec => []IInv
<1>1. Init => IInv
  BY InitEstablishes
<1>2. IInv /\ [Next]_vars => IInv'
  BY NextKeeps
<1> QED BY <1>1, <1>2, PTL DEF Spec

\* sort_tables_by_fk_dependency places every table once, and a table that no cycle of
\* foreign keys keeps back after all tables it depends on, for every set of foreign
\* keys and every order the hash map gives its keys.
THEOREM TablesInOrder == Spec => []AcyclicParentsFirst
<1>1. IInv => AcyclicParentsFirst
  BY OrderIsRight DEF IInv
<1> QED BY <1>1, Invariance, PTL

\* No source row of an ordered table is in the target twice, in any state, because no
\* statement is sent again after its connection was lost.
THEOREM NeverCopiedTwice == Spec => []NeverTwice
<1>1. IInv => NeverTwice
  BY DEF IInv
<1> QED BY <1>1, Invariance, PTL

\* After a cancellation at most the page in hand is written, whatever the sizes of pages,
\* statements and tables.
THEOREM CancelIsPrompt == Spec => []CancelStopsInBatch
<1>1. IInv => CancelStopsInBatch
  <2> SUFFICES ASSUME IInv PROVE late <= Batch
    BY DEF CancelStopsInBatch
  <2>1. late \in Nat /\ Len(page) \in Nat /\ Batch \in Nat /\ late + Len(page) <= Batch
    BY Typed
  <2> QED BY ONLY <2>1
<1> QED BY <1>1, Invariance, PTL

\* A table fails only through a fault of its own or the loss of the source's pool: the
\* lookup of the next table re-opens the target's.
THEOREM FailuresAreLocal == Spec => []FailureIsLocal
<1>1. IInv => FailureIsLocal
  BY DEF IInv, PoolInv
<1> QED BY <1>1, Invariance, PTL

\* A table that is read by primary key, or from MongoDB, and that was reported as done
\* holds each source row that arrived once, no other, and of the old rows those that its
\* mode keeps: all rows, or the first RowCap of a larger table if a batch is larger than
\* that.  A transfer is done only with all tables done.
THEOREM DoneTablesHoldWhatArrives ==
    Spec => [](DoneInv /\ (status = "done" => \A t \in Names : reported[t] = "done"))
<1>1. IInv => DoneInv /\ (status = "done" => \A t \in Names : reported[t] = "done")
  BY DEF IInv, ReportInv
<1> QED BY <1>1, Invariance, PTL

\* Every table has a primary key, at the source or in the target it is copied to.
EveryTableHasKey ==
    \A s \in Setups, t \in Names :
        s.kind = "from_mongo" \/ t \in s.sourceKeys \/ (t \in s.exists /\ t \in s.targetKeys)

\* No driver cuts a page: the field of the dialog allows no batch above its cap.
NoPageIsCut ==
    \A s \in Setups, t \in Names :
        s.kind = "from_mongo" \/ Batch <= RowCap \/ Size[t] <= RowCap

\* Where every table has a key and no page is cut, a done transfer is complete.  (That
\* as many rows were copied as the source has, where there is no key at all, is a sum
\* over the rows: an induction over data.)
THEOREM DoneTablesAreComplete ==
    ASSUME EveryTableHasKey, NoPageIsCut
    PROVE  Spec => []DoneIsComplete
<1>1. IInv => DoneIsComplete
  <2> SUFFICES ASSUME IInv PROVE DoneIsComplete
    OBVIOUS
  <2>1. \A t \in Names : Ordered(t) \/ Keyed(t)
    BY DEF EveryTableHasKey, IInv, TypeInv, Ordered, Keyed, MongoSource
  <2>2. status = "done" => \A t \in Names : reported[t] = "done"
    BY DEF IInv, ReportInv
  <2>3. \A t \in Names : 1 .. Arrives(t) = Rows(t)
    <3>1. \A t \in Names : Uncapped \/ Size[t] <= RowCap
      BY DEF NoPageIsCut, IInv, TypeInv, Uncapped, MongoSource
    <3> QED BY <3>1, ArriveFacts DEF Rows
  <2>4. \A t \in Names : Kept(t) = KeepsOld(t)
    BY <2>3 DEF Kept, KeepsOld
  <2>5. \A t \in Names : reported[t] = "done" /\ Ordered(t) =>
          /\ \A k \in Keys : copies[t][k] = IF k \in Rows(t) THEN 1 ELSE 0
          /\ ~SkippedClear(t) => old[t] = KeepsOld(t)
    <3>1. DoneInv
      BY DEF IInv
    <3> QED BY <2>3, <2>4, <3>1, Zenon DEF DoneInv
  <2> QED BY <2>1, <2>2, <2>5 DEF DoneIsComplete
<1> QED BY <1>1, Invariance, PTL
=============================================================================
