--------------------------- MODULE MCDuckDbWorker ---------------------------
(***************************************************************************)
(* Small instances of DuckDbWorker: the calls are model values, and each    *)
(* scenario says which of them are made and which faults may happen.        *)
(***************************************************************************)
EXTENDS DuckDbWorker, TLC

CONSTANTS e1, e2, m1, x1

Scenario(c, f) == [calls |-> c, faults |-> f, limits |-> {Limit}]
AllFaults == {"crash", "timeout", "lock"}

\* Clients opened with another limit, beside a metadata request.
TwoLimits == [calls |-> {m1}, faults |-> {"crash"}, limits |-> {Limit, Limit + 1}]

\* Two queries; a query beside a metadata request.  The queries are alike, so
\* that states which differ in their names only are one.
CallScenarios ==
    {Scenario({e1, e2}, {"crash"})}
    \cup {Scenario({e, m1}, {"crash", f}) : e \in Execs, f \in {"timeout", "lock"}}
    \cup {TwoLimits}
QuerySymmetry == Permutations(Execs)

\* A query or a metadata request racing a shutdown.
ShutdownScenarios == {Scenario({e1, x1}, {"crash", "timeout"}), Scenario({m1, x1}, AllFaults)}
=============================================================================
