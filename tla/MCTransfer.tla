----------------------------- MODULE MCTransfer -----------------------------
(* Three tables: an empty one, one of an odd and one of an even number of rows. *)
EXTENDS Transfer

ThreeTables == <<"a", "b", "c">>
Sizes == [t \in {"a", "b", "c"} |-> IF t = "a" THEN 0 ELSE IF t = "b" THEN 3 ELSE 2]

NoRows == [t \in Names |-> {}]
Plain == [fks |-> {}, parentsFirst |-> TRUE, transfer |-> FALSE, mode |-> "append",
          kind |-> "sql", create |-> FALSE, sourceKeys |-> {}, targetKeys |-> {},
          exists |-> {}, old |-> NoRows]

\* Every graph of foreign keys, and those with one key doubled.
Graphs == {{<<e[1], e[2], 1>> : e \in g} : g \in SUBSET (Names \X Names)}
Doubled == {g \cup {<<"b", "c", 2>>} : g \in {h \in Graphs : <<"b", "c", 1>> \in h}}
SortSetups == {[Plain EXCEPT !.fks = g, !.parentsFirst = d] : g \in Graphs, d \in BOOLEAN}
              \cup {[Plain EXCEPT !.fks = g] : g \in Doubled}

\* c refers to b, a to c.
Chain == {<<"c", "b", 1>>, <<"a", "c", 1>>}
\* The target databases: empty, or with the tables there and one old row of a key
\* of its own (0) and one that the source has too.
Empty == [exists |-> {}, targetKeys |-> {}, old |-> NoRows]
Full(keys) == [exists |-> Names, targetKeys |-> keys,
               old |-> [t \in Names |-> IF t = "c" THEN {0} ELSE {0, 1}]]
Copy(m, kind, cr, keys, db) ==
    [fks |-> Chain, parentsFirst |-> TRUE, transfer |-> TRUE, mode |-> m, kind |-> kind,
     create |-> cr, sourceKeys |-> keys, targetKeys |-> db.targetKeys,
     exists |-> db.exists, old |-> db.old]
Modes == {"append", "overwrite", "upsert"}
Kinds == {"sql", "postgres", "from_mongo", "to_mongo"}
CopySetups ==
    {Copy(m, kind, TRUE, Names, Empty) : m \in Modes, kind \in Kinds}
    \cup {Copy(m, kind, FALSE, Names, Full(Names)) : m \in Modes, kind \in Kinds}
    \cup {Copy(m, "sql", TRUE, {"b"}, Full({})) : m \in Modes}

AllSetups == SortSetups \cup CopySetups
OneSetup == {Copy("append", "sql", TRUE, Names, Empty)}
=============================================================================
