----------------------------- MODULE TableOrder -----------------------------
(***************************************************************************)
(* sort_tables_by_fk_dependency in crates/dbx-core/src/transfer.rs: the      *)
(* order in which a transfer, an export or a batch drop visits its tables.  *)
(*                                                                         *)
(* Kahn's algorithm, one action per round of its loop.  The queue starts in *)
(* the order a hash map gives its keys, which is any order; tables that no  *)
(* round reaches are appended as they were listed.                          *)
(***************************************************************************)
EXTENDS Naturals, Sequences, FiniteSets, SequencesExt

CONSTANT Tables   \* the tables of the request, in the order of the request

Names == ToSet(Tables)

ASSUME TablesAssumption == Tables \in Seq(Names) /\ Cardinality(Names) = Len(Tables)

VARIABLES
    fks,            \* foreign keys <<table, referenced table, n>> between the tables
    parentsFirst,   \* the direction asked for
    stage,          \* where the caller is
    degree, queue,  \* in_degree and queue
    sorted          \* the tables placed so far

sortVars == <<fks, parentsFirst, stage, degree, queue, sorted>>

\* An edge leads from the table that comes first to the one that depends on it.
Source(fk) == IF parentsFirst THEN fk[2] ELSE fk[1]
Dependent(fk) == IF parentsFirst THEN fk[1] ELSE fk[2]
Edges(p, d) == {fk \in fks : Source(fk) = p /\ Dependent(fk) = d}

SortInit ==
    /\ stage = "sort"
    /\ degree = [t \in Names |-> 0]
    /\ queue = <<>>
    /\ sorted = <<>>

\* The foreign keys cannot be read: the callers go on with the listed order.
SortFails ==
    /\ stage = "sort"
    /\ sorted' = Tables
    /\ fks' = {}
    /\ stage' = "sorted"
    /\ UNCHANGED <<parentsFirst, degree, queue>>

InDegree(t) == Cardinality({fk \in fks : Dependent(fk) = t})

\* (A request of one table skips the rounds, which would give the same order.)
SortBegin ==
    /\ stage = "sort"
    /\ degree' = [t \in Names |-> InDegree(t)]
    /\ queue' \in SetToSeqs({t \in Names : InDegree(t) = 0})
    /\ stage' = "rounds"
    /\ UNCHANGED <<fks, parentsFirst, sorted>>

\* The one sequence of these tables in the order of the request.
ListOrder(names) ==
    {q \in SetToSeqs(names) : \A i, j \in DOMAIN q, k, l \in DOMAIN Tables :
                                 i < j /\ Tables[k] = q[i] /\ Tables[l] = q[j] => k < l}

\* The dependents of a parent are listed by table, those of a child in the
\* order of its foreign keys.
QueueOrders(freed) == IF parentsFirst THEN ListOrder(freed) ELSE SetToSeqs(freed)

ForgetLast(p) == {d \in Names : Edges(p, d) # {} /\ degree[d] <= 1}
Freed(p) == {d \in Names : Edges(p, d) # {} /\ degree[d] = Cardinality(Edges(p, d))}

SortRound ==
    /\ stage = "rounds" /\ queue # <<>>
    /\ LET p == Head(queue) IN
         /\ sorted' = Append(sorted, p)
         /\ degree' = [d \in Names |-> degree[d] - Cardinality(Edges(p, d))]
         /\ \E more \in QueueOrders(Freed(p)) : queue' = Tail(queue) \o more
    /\ UNCHANGED <<fks, parentsFirst, stage>>

LeftBehind == Names \ ToSet(sorted)

SortEnd ==
    /\ stage = "rounds" /\ queue = <<>>
    /\ \E rest \in ListOrder(LeftBehind) : sorted' = sorted \o rest
    /\ stage' = "sorted"
    /\ UNCHANGED <<fks, parentsFirst, degree, queue>>

Sort == SortFails \/ SortBegin \/ SortRound \/ SortEnd

-----------------------------------------------------------------------------
\* The position of t in the order.
Place(t) == CHOOSE i \in DOMAIN sorted : sorted[i] = t

\* The tables t must wait for, directly or not: the least set that holds the sources of
\* t and, with a table, the sources of that table.
Sources(t) == {Source(fk) : fk \in {f \in fks : Dependent(f) = t}}
Above(t) == {a \in Names : \A C \in SUBSET Names :
                 Sources(t) \subseteq C /\ (\A x \in C : Sources(x) \subseteq C) => a \in C}
OnCycle(t) == t \in Above(t)

\* Every table is placed exactly once, and a table none of whose direct or indirect
\* parents is on a cycle comes after all of its parents, however the hash map
\* orders the queue and however many keys lead to one parent.
AcyclicParentsFirst ==
    stage = "sorted" =>
        /\ Len(sorted) = Len(Tables) /\ ToSet(sorted) = Names
        /\ \A fk \in fks :
             LET d == Dependent(fk) IN
             ~OnCycle(d) /\ (\A a \in Above(d) : ~OnCycle(a)) => Place(Source(fk)) < Place(d)
=============================================================================
