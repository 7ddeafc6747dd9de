-------------------------- MODULE MCConnectionPools --------------------------
(***************************************************************************)
(* Instances of ConnectionPools for TLC: two pool keys of one connection,   *)
(* the connection itself and one of its databases, and a few calls each.    *)
(***************************************************************************)
EXTENDS ConnectionPools, TLC

CONSTANTS conn, db, c1, c2, d1, g1, r1, h1, f1

\* The disconnect cancels the first attempt, or is a plain one.
CancelFirst == [d \in Disconnects |-> c1]
Plain == [d \in Disconnects |-> None]

\* g1 and r1 are for the database's key, the others for the connection's.
SomeOnDatabase ==
    [t \in Gets \cup Removers |-> IF t \in {g1, r1} /\ db \in Keys THEN db ELSE conn]
AllOnConnection == [t \in Gets \cup Removers |-> conn]

\* A web and a desktop connect, a disconnect and keepalive tasks; or, through a
\* tunnel, a web connect with a reconnect, a health check, a removal and a
\* refresh.
Attempts == [calls |-> {c1, c2, d1}, tunnelled |-> FALSE, keepAlive |-> TRUE]
Web == [calls |-> {c1, g1, h1, r1, f1}, tunnelled |-> TRUE, keepAlive |-> FALSE]
BothSetups == {Attempts, Web}

\* Two connects, every call of the instance.
TwoConnects == {[calls |-> {c1, c2}, tunnelled |-> FALSE, keepAlive |-> TRUE]}
=============================================================================
