------------------------ MODULE MCManualTransaction ------------------------
(***************************************************************************)
(* A small instance of ManualTransaction.  Sessions share nothing but the   *)
(* map, so one session, on either kind of server, with every kind of task   *)
(* racing on it shows every interleaving.                                   *)
(***************************************************************************)
EXTENDS ManualTransaction

CONSTANTS s1, e1, e2, c1, r1

\* e1 runs two statements, so that it can fail half way, and e2 one.
MCScript == [e \in Execs |-> IF e = e1 THEN 2 ELSE 1]
MCTarget == [t \in Tasks |-> s1]
=============================================================================
