-------------------------- MODULE MCQueryExecution --------------------------
EXTENDS QueryExecution

Request(p, s, c) == [path |-> p, statements |-> s, continue |-> c]

\* Two tabs on one key: each statement on its own, batches, and transactions.
Loop == Request("loop", <<"read", "write">>, FALSE)
Batch == Request("batch", <<"write", "write">>, FALSE)
Script2 == Request("batch", <<"write", "write">>, TRUE)
Tx == Request("transaction", <<"write", "write">>, FALSE)

Pair(k, a, b) == [kind |-> k, request |-> [q \in Queries |-> IF q = 1 THEN a ELSE b]]

AllSetups ==
    {Pair("postgres", Loop, Tx), Pair("mysql", Loop, Batch), Pair("mysql", Tx, Script2),
     Pair("sqlserver", Loop, Batch), Pair("sqlserver", Tx, Loop)}

SharedSetups == {Pair("sqlserver", Tx, Loop)}
=============================================================================
