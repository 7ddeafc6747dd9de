------------------------- MODULE QueryExecutionProofs -------------------------
(***************************************************************************)
(* Proofs about QueryExecution, for any number of queries, statements,      *)
(* pools and connections: type correctness, that no write is executed       *)
(* twice, that the results tell the truth, and that a transaction on a      *)
(* connection of its own is all or nothing.                                 *)
(***************************************************************************)
EXTENDS QueryExecution, TLAPS

(***************************************************************************)
(* The inductive invariant.                                                 *)
(***************************************************************************)
Ops == {"begin", "read", "write", "commit", "rollback"}
Results == {"ok", "error", "lost", "timeout", "canceled"}
IsTx(q) == setup.request[q].path = "transaction"

\* The shape of the state beyond TypeOK.
ShapeInv ==
    /\ setup \in Setups
    /\ \A q \in Queries : InTransaction(q) <=> IsTx(q)
    /\ stmt \in [Queries -> Nat] /\ attempt \in [Queries -> Nat]
    /\ results \in [Queries -> Seq(Results)]
    /\ pending \in [Conns -> SUBSET (Queries \X Nat)] /\ committed \subseteq Queries \X Nat
    /\ executed \in [UNION {Writes(q) : q \in Queries} -> Nat]

\* A query by its label: where it is in its script, how many results it has, and
\* whether it has a connection.
Sending == {"lookup", "attach", "checkout", "send", "running"}
Early == {"idle", "open", "route"}
ScriptOk(q) ==
    /\ pc[q] \in Sending => stmt[q] <= Len(Script(q))
    /\ pc[q] \in Early => stmt[q] = 1
    /\ IsTx(q) => stmt[q] <= Len(Script(q)) /\ q \notin token
\* The results so far are about the statements before the one at hand.
PlacesOk(q) ==
    /\ \A i \in 1 .. Len(about[q]) : about[q][i] \in 1 .. stmt[q] - 1
    /\ stmt[q] = 1 => about[q] = <<>>
    /\ stmt[q] # 1 => Len(about[q]) >= 1 /\ about[q][Len(about[q])] = stmt[q] - 1
ResultOk(q) ==
    /\ Len(about[q]) = Len(results[q])
    /\ ~IsTx(q) /\ pc[q] # "end" => PlacesOk(q)
    /\ IsTx(q) => Len(results[q]) <= 1
    /\ IsTx(q) /\ (~Shared \/ pc[q] \in Early) /\ pc[q] # "end" => results[q] = <<>>
ConnOk(q) ==
    /\ pc[q] = "lookup" => path[q] = "loop"
    /\ pc[q] = "attach" => ~Keeps(q)
    /\ pc[q] = "checkout" => held[q] \in Pools
    /\ pc[q] \in {"send", "running"} \/ (pc[q] = "next" /\ Keeps(q)) <=> conn[q] # None
QueryInv == \A q \in Queries : ScriptOk(q) /\ ResultOk(q) /\ ConnOk(q)

\* Nobody shares a connection, and an open transaction is somebody's: on connections
\* of their own the one who has it checked out.
ConnInv == \A p, q \in Queries : p # q /\ conn[p] # None => conn[p] # conn[q]
DepthInv ==
    /\ \A c \in Conns : depth[c] = 0 => pending[c] = {}
    /\ \A c \in Conns : depth[c] > 0 => \E q \in Queries : IsTx(q) /\ (~Shared => conn[q] = c)
\* What is not durable yet belongs to the transaction that has the connection.
PendingInv ==
    ~Shared => \A c \in Conns, p \in Queries, i \in Nat :
                   <<p, i>> \in pending[c] => IsTx(p) /\ conn[p] = c

\* A transaction with a connection of its own: nothing of it is durable while it
\* runs, and all it has written waits for its COMMIT.
TxOk(q) ==
    /\ pc[q] # "end" => committed \cap Writes(q) = {}
    /\ conn[q] = None /\ pc[q] # "end" => stmt[q] = 1
    /\ conn[q] # None =>
           /\ depth[conn[q]] = IF stmt[q] = 1 THEN 0 ELSE 1
           /\ {w \in Writes(q) : w[2] < stmt[q]} \subseteq pending[conn[q]]
TxInv == \A q \in Queries : IsTx(q) /\ ~Shared => TxOk(q)

\* No statement that is still to come has been executed.
ExecInv ==
    \A q \in Queries : \A w \in Writes(q) :
        w[2] >= stmt[q] /\ pc[q] # "end" => executed[w] = 0

ControlInv == TypeOK /\ ShapeInv /\ QueryInv
ServerInv == ConnInv /\ DepthInv /\ PendingInv /\ TxInv
IInv == ControlInv /\ ServerInv /\ ExecInv /\ WriteOnce /\ ResultsTrue /\ TxAtomic

(***************************************************************************)
(* Constants, scripts.                                                      *)
(***************************************************************************)
\* The connection numbers, and the value that is none of them.
LEMMA ConstantFacts ==
    /\ MaxPools \in Nat /\ PoolSize \in Nat
    /\ None \notin Conns
    /\ \A g : g \in Pools <=> g \in 0 .. MaxPools /\ g # 0
    /\ \A c \in Conns : c = <<c[1], c[2]>> /\ c[1] \in Pools
BY QueryAssumption DEF None, Conns, Pools

\* What a request is made of.
LEMMA SetupFacts ==
    ASSUME setup \in Setups, NEW q \in Queries
    PROVE  /\ setup.kind \in Kinds
           /\ setup.request[q].path \in {"loop", "batch", "transaction"}
           /\ Statements(q) \in Seq({"read", "write"}) /\ Len(Statements(q)) \in Nat
           /\ Len(Statements(q)) >= 1
<1>1. setup.kind \in Kinds /\ setup.request[q] \in Requests
  BY QueryAssumption
<1>2. Statements(q) \in Seq({"read", "write"}) /\ Statements(q) # <<>>
  BY <1>1 DEF Requests, Statements
<1>3. Len(Statements(q)) \in Nat /\ Len(Statements(q)) # 0
  BY <1>2
<1> QED BY <1>1, <1>2, <1>3 DEF Requests

\* BEGIN and the statements.
LEMMA BeginFacts ==
    ASSUME NEW s \in Seq({"read", "write"}), NEW a, a = <<"begin">> \o s
    PROVE  /\ a \in Seq(Ops) /\ Len(a) = Len(s) + 1 /\ a[1] = "begin"
           /\ \A i \in 2 .. Len(s) + 1 : a[i] \in {"read", "write"}
BY DEF Ops

\* COMMIT and ROLLBACK after them.
LEMMA CommitFacts ==
    ASSUME NEW n \in Nat, NEW a \in Seq(Ops), Len(a) = n,
           NEW x, x = a \o <<"commit", "rollback">>
    PROVE  /\ x \in Seq(Ops) /\ Len(x) = n + 2
           /\ \A i \in 1 .. n : x[i] = a[i]
           /\ x[n + 1] = "commit" /\ x[n + 2] = "rollback"
<1>1. <<"commit", "rollback">> \in Seq(Ops)
  BY DEF Ops
<1>2. x \in Seq(Ops)
  BY <1>1
<1>3. Len(x) = n + 2
  BY <1>1
<1>4. \A i \in 1 .. n : x[i] = a[i]
  BY <1>1
<1>5. x[n + 1] = "commit"
  BY <1>1
<1>6. x[n + 2] = "rollback"
  BY <1>1
<1> QED BY <1>2, <1>3, <1>4, <1>5, <1>6

\* The script of a loop or a batch is its statements; that of a transaction puts BEGIN
\* before them, and COMMIT and the ROLLBACK of a failure after them.
LEMMA ScriptFacts ==
    ASSUME setup \in Setups, NEW q \in Queries
    PROVE  /\ Len(Script(q)) \in Nat /\ Len(Script(q)) >= 1
           /\ DOMAIN Script(q) = 1 .. Len(Script(q))
           /\ \A i \in 1 .. Len(Script(q)) : Script(q)[i] \in Ops
           /\ ~InTransaction(q) =>
                  /\ Script(q) = Statements(q)
                  /\ \A i \in 1 .. Len(Script(q)) : Script(q)[i] \in {"read", "write"}
           /\ InTransaction(q) =>
                  /\ Len(Script(q)) >= 4 /\ Script(q)[1] = "begin"
                  /\ Script(q)[Len(Script(q)) - 1] = "commit"
                  /\ Script(q)[Len(Script(q))] = "rollback"
                  /\ \A i \in 2 .. Len(Script(q)) - 2 : Script(q)[i] \in {"read", "write"}
<1> DEFINE s == Statements(q)
<1>1. s \in Seq({"read", "write"}) /\ Len(s) \in Nat /\ Len(s) >= 1
  BY SetupFacts
<1> HIDE DEF s
<1>2. CASE ~InTransaction(q)
  <2>1. Script(q) = s
    BY <1>2 DEF Script, s
  <2>2. DOMAIN s = 1 .. Len(s) /\ \A i \in 1 .. Len(s) : s[i] \in {"read", "write"}
    BY <1>1
  <2> QED BY <1>1, <1>2, <2>1, <2>2 DEF Ops, s
<1>3. CASE InTransaction(q)
  <2>1. PICK a : a = <<"begin">> \o s
    OBVIOUS
  <2>2. PICK x : x = a \o <<"commit", "rollback">>
    OBVIOUS
  <2>3. Script(q) = x
    BY <1>3, <2>1, <2>2 DEF Script, s
  <2>4. /\ a \in Seq(Ops) /\ Len(a) = Len(s) + 1 /\ a[1] = "begin"
        /\ \A i \in 2 .. Len(s) + 1 : a[i] \in {"read", "write"}
    BY <1>1, <2>1, BeginFacts
  <2>5. PICK n \in Nat : n = Len(s) + 1
    BY <1>1
  <2>6. /\ x \in Seq(Ops) /\ Len(x) = n + 2
        /\ \A i \in 1 .. n : x[i] = a[i]
        /\ x[n + 1] = "commit" /\ x[n + 2] = "rollback"
    BY <2>2, <2>4, <2>5, CommitFacts, SMTT(30)
  <2>7. DOMAIN x = 1 .. Len(x) /\ \A i \in 1 .. Len(x) : x[i] \in Ops
    BY <2>6
  <2>8. /\ x[1] = "begin" /\ x[Len(x) - 1] = "commit" /\ x[Len(x)] = "rollback"
        /\ \A i \in 2 .. Len(x) - 2 : x[i] \in {"read", "write"}
    BY <1>1, <2>4, <2>5, <2>6
  <2>9. Len(x) \in Nat /\ Len(x) >= 4
    BY <1>1, <2>5, <2>6
  <2> QED BY <1>3, <2>3, <2>7, <2>8, <2>9
<1> QED BY <1>2, <1>3

\* The script of a query is what its request makes it, whatever happens.
LEMMA ScriptSame ==
    ASSUME setup' = setup, NEW q \in Queries, InTransaction(q)' <=> InTransaction(q)
    PROVE  /\ Script(q)' = Script(q) /\ Writes(q)' = Writes(q) /\ Statements(q)' = Statements(q)
           /\ (IsTx(q)' <=> IsTx(q)) /\ (Shared' <=> Shared)
<1>1. Statements(q)' = Statements(q) /\ (IsTx(q)' <=> IsTx(q)) /\ (Shared' <=> Shared)
  BY DEF Statements, IsTx, Shared
<1>2. Script(q)' = Script(q)
  BY <1>1 DEF Script
<1>3. Writes(q)' = Writes(q)
  BY <1>2 DEF Writes
<1> QED BY <1>1, <1>2, <1>3

\* A write is the number of a query and the place of the write in its script.
LEMMA WriteFacts ==
    ASSUME setup \in Setups, NEW q \in Queries
    PROVE  \A w \in Writes(q) : /\ w = <<q, w[2]>> /\ w[2] \in 1 .. Len(Script(q))
                                /\ Script(q)[w[2]] = "write"
BY ScriptFacts DEF Writes

\* Every write in the script of a query is one.
LEMMA WriteIn ==
    ASSUME setup \in Setups, NEW q \in Queries, NEW i \in 1 .. Len(Script(q)),
           Script(q)[i] = "write"
    PROVE  <<q, i>> \in Writes(q)
BY ScriptFacts DEF Writes

(***************************************************************************)
(* A step changes the control state of one query.                           *)
(***************************************************************************)
Local(q) ==
    /\ setup' = setup
    /\ pc' = [pc EXCEPT ![q] = pc'[q]] /\ path' = [path EXCEPT ![q] = path'[q]]
    /\ stmt' = [stmt EXCEPT ![q] = stmt'[q]] /\ attempt' = [attempt EXCEPT ![q] = attempt'[q]]
    /\ held' = [held EXCEPT ![q] = held'[q]] /\ conn' = [conn EXCEPT ![q] = conn'[q]]
    /\ results' = [results EXCEPT ![q] = results'[q]] /\ about' = [about EXCEPT ![q] = about'[q]]

Labels == {"idle", "open", "route", "next", "lookup", "attach", "checkout", "send",
           "running", "end"}
FieldsOk(q) ==
    /\ pc[q] \in Labels /\ path[q] \in {"loop", "batch", "transaction"}
    /\ InTransaction(q) <=> IsTx(q)
    /\ stmt[q] \in 1 .. Len(Script(q)) + 1 /\ attempt[q] \in 1 .. 2
    /\ held[q] \in 0 .. MaxPools /\ conn[q] \in Conns \cup {None}
    /\ results[q] \in Seq(Results) /\ about[q] \in Seq(Nat)
QueryOk(q) == FieldsOk(q) /\ ScriptOk(q) /\ ResultOk(q) /\ ConnOk(q)

\* What is not about one query.
PoolOk ==
    /\ pool \in 0 .. opened /\ opened \in 0 .. MaxPools
    /\ registered \subseteq Queries /\ token \subseteq Queries
    /\ \A q \in Queries : IsTx(q) => q \notin token
ServerOk ==
    /\ dead \subseteq Conns /\ depth \in [Conns -> Nat]
    /\ pending \in [Conns -> SUBSET (Queries \X Nat)] /\ committed \subseteq Queries \X Nat
    /\ executed \in [UNION {Writes(q) : q \in Queries} -> Nat]

\* The invariant of the control state, query by query.
LEMMA ControlSplit ==
    ASSUME ControlInv
    PROVE  /\ setup \in Setups /\ PoolOk /\ ServerOk /\ \A q \in Queries : QueryOk(q)
           /\ pc \in [Queries -> Labels] /\ path \in [Queries -> {"loop", "batch", "transaction"}]
           /\ stmt \in [Queries -> Nat] /\ attempt \in [Queries -> Nat]
           /\ held \in [Queries -> 0 .. MaxPools] /\ conn \in [Queries -> Conns \cup {None}]
           /\ results \in [Queries -> Seq(Results)] /\ about \in [Queries -> Seq(Nat)]
<1> USE DEF ControlInv
<1>1. setup \in Setups /\ PoolOk /\ ServerOk
  BY DEF TypeOK, ShapeInv, QueryInv, ScriptOk, PoolOk, ServerOk
<1>2. \A q \in Queries : FieldsOk(q)
  BY DEF TypeOK, ShapeInv, FieldsOk, Labels
<1>3. \A q \in Queries : QueryOk(q)
  BY <1>2 DEF QueryInv, QueryOk
<1> QED BY <1>1, <1>3 DEF TypeOK, ShapeInv, Labels

\* A step of one query keeps it if it keeps it for this query.
LEMMA ControlLift ==
    ASSUME ControlInv, NEW q \in Queries, Local(q), QueryOk(q)', PoolOk', ServerOk'
    PROVE  ControlInv'
<1>1. \A p \in Queries \ {q} : /\ pc'[p] = pc[p] /\ path'[p] = path[p] /\ stmt'[p] = stmt[p]
                               /\ attempt'[p] = attempt[p] /\ held'[p] = held[p]
                               /\ conn'[p] = conn[p] /\ results'[p] = results[p]
                               /\ about'[p] = about[p]
  BY ControlSplit DEF Local
<1>2. setup' = setup /\ setup \in Setups
  BY ControlSplit DEF Local
<1>3. ASSUME NEW p \in Queries, p # q PROVE QueryOk(p)'
  <2>1. InTransaction(p)' <=> InTransaction(p)
    BY <1>1, <1>3 DEF InTransaction
  <2>2. /\ Script(p)' = Script(p) /\ (IsTx(p)' <=> IsTx(p)) /\ (Shared' <=> Shared)
    BY <1>2, <2>1, ScriptSame
  <2>3. Keeps(p)' <=> Keeps(p)
    BY <1>1, <1>3, <2>2 DEF Keeps
  <2>4. QueryOk(p)
    BY ControlSplit
  <2>5. FieldsOk(p)'
    BY <1>1, <1>3, <2>1, <2>2, <2>4 DEF QueryOk, FieldsOk
  <2>6. ScriptOk(p)'
    BY <1>1, <1>3, <2>2, <2>4 DEF QueryOk, ScriptOk, PoolOk
  <2>7. ResultOk(p)'
    BY <1>1, <1>3, <2>2, <2>4 DEF QueryOk, ResultOk, PlacesOk
  <2>8. ConnOk(p)'
    BY <1>1, <1>3, <2>3, <2>4 DEF QueryOk, ConnOk
  <2> QED BY <2>5, <2>6, <2>7, <2>8 DEF QueryOk
<1>4. \A p \in Queries : QueryOk(p)'
  BY <1>3
<1>5. QueryInv'
  BY <1>4 DEF QueryInv, QueryOk
<1>6. /\ pc' \in [Queries -> Labels] /\ path' \in [Queries -> {"loop", "batch", "transaction"}]
      /\ held' \in [Queries -> 0 .. MaxPools] /\ conn' \in [Queries -> Conns \cup {None}]
  BY <1>4, ControlSplit DEF Local, QueryOk, FieldsOk
<1>7. /\ stmt' \in [Queries -> Nat] /\ attempt' \in [Queries -> Nat]
      /\ results' \in [Queries -> Seq(Results)] /\ about' \in [Queries -> Seq(Nat)]
  <2>1. /\ stmt'[q] \in Nat /\ attempt'[q] \in Nat
        /\ results'[q] \in Seq(Results) /\ about'[q] \in Seq(Nat)
    BY DEF QueryOk, FieldsOk
  <2> QED BY <2>1, ControlSplit DEF Local
<1>8. TypeOK'
  BY <1>4, <1>6, <1>7 DEF TypeOK, PoolOk, ServerOk, QueryOk, FieldsOk, Labels
<1>9. ShapeInv'
  BY <1>2, <1>4, <1>7 DEF ShapeInv, ServerOk, QueryOk, FieldsOk
<1> QED BY <1>5, <1>8, <1>9 DEF ControlInv

\* When a query that sent a statement with this outcome is done.
LEMMA EndsFacts ==
    ASSUME NEW q \in Queries, NEW r
    PROVE  /\ path[q] = "loop" => ~Ends(q, r)
           /\ InTransaction(q) =>
                  (Ends(q, r) <=> (\/ Op(q) \in {"commit", "rollback"}
                                   \/ r # "ok" /\ (~Shared \/ Op(q) = "begin")))
BY DEF Ends, InTransaction

\* A sequence and n times an element after it.
Grow(s, e, n) == s \o [i \in 1 .. n |-> e]
Grows(s, e, n, t) ==
    /\ Len(t) = Len(s) + n /\ Len(s) \in Nat
    /\ \A i \in 1 .. Len(s) : t[i] = s[i]
    /\ \A i \in Len(s) + 1 .. Len(s) + n : t[i] = e
    /\ s = <<>> /\ n = 1 => t = <<e>>
LEMMA GrowFacts ==
    ASSUME NEW S, NEW s \in Seq(S), NEW e \in S, NEW n \in Nat, n >= 1
    PROVE  Grow(s, e, n) \in Seq(S) /\ Grows(s, e, n, Grow(s, e, n))
<1> DEFINE t == Grow(s, e, n)
<1> DEFINE u == [i \in 1 .. n |-> e]
<1>1. u \in Seq(S) /\ Len(u) = n /\ \A i \in 1 .. n : u[i] = e
  OBVIOUS
<1> HIDE DEF u
<1>2. t = s \o u
  BY DEF u, Grow
<1> HIDE DEF t
<1>3. t \in Seq(S) /\ Len(t) = Len(s) + n /\ Len(s) \in Nat
  <2>1. Len(s) \in Nat
    OBVIOUS
  <2>2. u \in Seq(S)
    BY <1>1
  <2>3. Len(t) = Len(s) + Len(u)
    BY <1>2, <2>2
  <2>4. t \in Seq(S)
    BY <1>2, <2>2
  <2> QED BY <1>1, <2>1, <2>3, <2>4
<1>4. \A i \in 1 .. Len(s) : t[i] = s[i]
  BY <1>1, <1>2
<1>5. \A i \in Len(s) + 1 .. Len(s) + n : t[i] = e
  <2> SUFFICES ASSUME NEW i \in Len(s) + 1 .. Len(s) + n PROVE t[i] = e
    OBVIOUS
  <2>1. t[i] = u[i - Len(s)]
    BY <1>1, <1>2, <1>3
  <2> QED BY <1>1, <1>3, <2>1
<1>6. s = <<>> /\ n = 1 => t = <<e>>
  <2> SUFFICES ASSUME s = <<>>, n = 1 PROVE t = <<e>>
    OBVIOUS
  <2>1. Len(t) = 1 /\ t[1] = e
    BY <1>3, <1>5
  <2> QED BY <1>3, <2>1
<1> QED BY <1>3, <1>4, <1>5, <1>6 DEF Grows, t

\* What it reports: nothing, or n results of the statement at hand.
Silent(q) == results'[q] = results[q] /\ about'[q] = about[q]
Grown(q, r, n) ==
    /\ results'[q] = Grow(results[q], r, n)
    /\ about'[q] = Grow(about[q], stmt[q], n)
Said(q, r) == IF NoResult(q, r) THEN Silent(q) ELSE \E n \in Sets(q, r) : Grown(q, r, n)

\* How many there are.
LEMMA SetsFacts ==
    ASSUME NEW q \in Queries, NEW r, NEW n \in Sets(q, r)
    PROVE  /\ n \in Nat /\ n >= 1 /\ (n # 1 => Shared /\ path[q] = "batch")
           /\ r # "ok" \/ InTransaction(q) => n = 1
BY QueryAssumption DEF Sets, InTransaction

\* The results and their places after it.
LEMMA GrownFacts ==
    ASSUME NEW q \in Queries, NEW r \in Results, NEW n \in Nat, n >= 1, Grown(q, r, n),
           results[q] \in Seq(Results), about[q] \in Seq(Nat), stmt[q] \in Nat,
           Len(about[q]) = Len(results[q])
    PROVE  /\ results'[q] \in Seq(Results) /\ about'[q] \in Seq(Nat)
           /\ Len(results[q]) \in Nat /\ Len(results'[q]) = Len(results[q]) + n
           /\ Len(about'[q]) = Len(results'[q])
           /\ \A i \in 1 .. Len(results[q]) : /\ results'[q][i] = results[q][i]
                                              /\ about'[q][i] = about[q][i]
           /\ \A i \in Len(results[q]) + 1 .. Len(results[q]) + n :
                  results'[q][i] = r /\ about'[q][i] = stmt[q]
           /\ results[q] = <<>> /\ n = 1 => results'[q] = <<r>>
<1>1. /\ results'[q] \in Seq(Results) /\ Len(results'[q]) = Len(results[q]) + n
      /\ Len(results[q]) \in Nat
      /\ \A i \in 1 .. Len(results[q]) : results'[q][i] = results[q][i]
      /\ \A i \in Len(results[q]) + 1 .. Len(results[q]) + n : results'[q][i] = r
      /\ results[q] = <<>> /\ n = 1 => results'[q] = <<r>>
  <2>1. results'[q] \in Seq(Results) /\ Grows(results[q], r, n, results'[q])
    BY GrowFacts DEF Grown
  <2> QED BY <2>1 DEF Grows
<1>2. /\ about'[q] \in Seq(Nat) /\ Len(about'[q]) = Len(about[q]) + n
      /\ \A i \in 1 .. Len(about[q]) : about'[q][i] = about[q][i]
      /\ \A i \in Len(about[q]) + 1 .. Len(about[q]) + n : about'[q][i] = stmt[q]
  <2>1. about'[q] \in Seq(Nat) /\ Grows(about[q], stmt[q], n, about'[q])
    BY GrowFacts DEF Grown
  <2> QED BY <2>1 DEF Grows
<1> QED BY <1>1, <1>2

\* With the statement at hand done, the results are about those before the next one.
LEMMA GrownPlaces ==
    ASSUME NEW q \in Queries, NEW r \in Results, NEW n \in Nat, n >= 1, Grown(q, r, n),
           results[q] \in Seq(Results), about[q] \in Seq(Nat), stmt[q] \in Nat, stmt[q] >= 1,
           Len(about[q]) = Len(results[q]), PlacesOk(q), stmt'[q] = stmt[q] + 1
    PROVE  PlacesOk(q)'
<1>1. /\ Len(about[q]) \in Nat /\ Len(about'[q]) = Len(about[q]) + n
      /\ \A i \in 1 .. Len(about[q]) : about'[q][i] = about[q][i]
      /\ \A i \in Len(about[q]) + 1 .. Len(about[q]) + n : about'[q][i] = stmt[q]
  BY GrownFacts
<1>2. \A i \in 1 .. Len(about'[q]) : i \in 1 .. Len(about[q]) \/ i \in Len(about[q]) + 1 .. Len(about[q]) + n
  BY <1>1
<1>3. Len(about'[q]) \in Len(about[q]) + 1 .. Len(about[q]) + n
  BY <1>1
<1>4. ASSUME NEW i \in 1 .. Len(about'[q]) PROVE about'[q][i] \in 1 .. stmt[q]
  <2>1. CASE i \in 1 .. Len(about[q])
    <3>1. about[q][i] \in 1 .. stmt[q] - 1
      BY <2>1 DEF PlacesOk
    <3>2. about'[q][i] = about[q][i]
      BY <1>1, <2>1
    <3>3. \A x \in 1 .. stmt[q] - 1 : x \in 1 .. stmt[q]
      OBVIOUS
    <3> QED BY <3>1, <3>2, <3>3
  <2>2. CASE i \in Len(about[q]) + 1 .. Len(about[q]) + n
    BY <1>1, <2>2
  <2> QED BY <1>2, <2>1, <2>2
<1>5. about'[q][Len(about'[q])] = stmt[q] /\ Len(about'[q]) >= 1
  BY <1>1, <1>3
<1>6. stmt'[q] - 1 = stmt[q] /\ stmt'[q] # 1
  OBVIOUS
<1> QED BY <1>4, <1>5, <1>6 DEF PlacesOk

\* What the report of an outcome does to the results of a query.
LEMMA SaidFacts ==
    ASSUME NEW q \in Queries, NEW r \in Results, Said(q, r),
           results[q] \in Seq(Results), about[q] \in Seq(Nat), stmt[q] \in Nat,
           Len(about[q]) = Len(results[q])
    PROVE  /\ results'[q] \in Seq(Results) /\ about'[q] \in Seq(Nat)
           /\ Len(about'[q]) = Len(results'[q])
           /\ ~InTransaction(q) => \E n \in Sets(q, r) : Grown(q, r, n)
           /\ InTransaction(q) /\ Len(results[q]) <= 1 => Len(results'[q]) <= 1
           /\ InTransaction(q) /\ r = "ok" /\ Op(q) # "commit" => results'[q] = results[q]
           /\ InTransaction(q) /\ results[q] = <<>> /\ results'[q] # <<>> => results'[q] = <<r>>
<1>1. CASE NoResult(q, r)
  BY <1>1 DEF Said, Silent, NoResult
<1>2. CASE ~NoResult(q, r)
  <2>1. PICK n \in Sets(q, r) : Grown(q, r, n)
    BY <1>2 DEF Said
  <2>2. n \in Nat /\ n >= 1 /\ (InTransaction(q) => n = 1)
    BY SetsFacts
  <2>3. /\ results'[q] \in Seq(Results) /\ about'[q] \in Seq(Nat)
        /\ Len(results'[q]) = Len(results[q]) + n /\ Len(about'[q]) = Len(results'[q])
        /\ results[q] = <<>> /\ n = 1 => results'[q] = <<r>>
    BY <2>1, <2>2, GrownFacts
  <2>4. InTransaction(q) => results[q] = <<>> /\ ~(r = "ok" /\ Op(q) # "commit")
    BY <1>2 DEF NoResult
  <2>5. InTransaction(q) => results'[q] = <<r>> /\ Len(results'[q]) <= 1
    BY <2>2, <2>3, <2>4
  <2> QED BY <2>1, <2>3, <2>4, <2>5
<1> QED BY <1>1, <1>2

\* The next statement is a later one, within the script of a transaction.
LEMMA NextStmtFacts ==
    ASSUME setup \in Setups, NEW q \in Queries, NEW r, stmt[q] \in 1 .. Len(Script(q)), ~Ends(q, r)
    PROVE  /\ NextStmt(q, r) \in 1 .. Len(Script(q)) + 1 /\ NextStmt(q, r) > stmt[q]
           /\ InTransaction(q) => NextStmt(q, r) <= Len(Script(q))
           /\ ~(InTransaction(q) /\ Shared /\ r # "ok") => NextStmt(q, r) = stmt[q] + 1
<1>1. CASE InTransaction(q)
  <2>1. Op(q) \notin {"commit", "rollback"}
    BY <1>1, EndsFacts
  <2>2. stmt[q] # Len(Script(q)) /\ stmt[q] # Len(Script(q)) - 1
    BY <1>1, <2>1, ScriptFacts DEF Op
  <2>3. Len(Script(q)) \in Nat
    BY ScriptFacts
  <2> QED BY <2>2, <2>3 DEF NextStmt
<1>2. CASE ~InTransaction(q)
  <2>1. Len(Script(q)) \in Nat
    BY ScriptFacts
  <2> QED BY <1>2, <2>1 DEF NextStmt
<1> QED BY <1>1, <1>2

\* The three things that can become of a query with the outcome of its statement.
Again(q) == /\ path[q] = "loop" /\ Op(q) = "read" /\ pc'[q] = "lookup" /\ conn'[q] = None
            /\ attempt'[q] = 2 /\ stmt'[q] = stmt[q] /\ Silent(q)
Over(q) == /\ pc'[q] = "end" /\ conn'[q] = None
           /\ stmt'[q] = stmt[q] /\ attempt'[q] = attempt[q]
Onward(q, r) == /\ ~Ends(q, r) /\ pc'[q] = "next" /\ Said(q, r)
                /\ stmt'[q] = NextStmt(q, r) /\ attempt'[q] = attempt[q]
                /\ Keeps(q) => conn'[q] = conn[q]
                /\ ~Keeps(q) => conn'[q] = None

\* The reports, field by field.
LocalResults(q) ==
    results' = [results EXCEPT ![q] = results'[q]] /\ about' = [about EXCEPT ![q] = about'[q]]
LEMMA ReportFacts ==
    ASSUME ControlInv, NEW q \in Queries, NEW r
    PROVE  /\ \A n : Adds(q, r, n) => LocalResults(q) /\ Grown(q, r, n)
           /\ Replaces(q, r) => LocalResults(q) /\ results'[q] = <<r>> /\ about'[q] = <<0>>
           /\ UNCHANGED <<results, about>> => LocalResults(q) /\ Silent(q)
           /\ Reported(q, r) => LocalResults(q) /\ Said(q, r)
<1> USE ControlSplit
<1>1. ASSUME NEW n, Adds(q, r, n) PROVE LocalResults(q) /\ Grown(q, r, n)
  BY <1>1 DEF Adds, LocalResults, Grown, Grow
<1>2. Replaces(q, r) => LocalResults(q) /\ results'[q] = <<r>> /\ about'[q] = <<0>>
  BY DEF Replaces, LocalResults
<1>3. UNCHANGED <<results, about>> => LocalResults(q) /\ Silent(q)
  BY DEF LocalResults, Silent
<1>4. Reported(q, r) => LocalResults(q) /\ Said(q, r)
  BY <1>1, <1>3 DEF Reported, Said
<1> QED BY <1>1, <1>2, <1>3, <1>4

\* What After does, by the part of the state it does it to.
LEMMA AfterFacts ==
    ASSUME ControlInv, NEW q \in Queries, NEW r, After(q, r)
    PROVE  /\ pool' \in {pool, 0} /\ opened' = opened /\ registered' \subseteq registered
           /\ pc' = [pc EXCEPT ![q] = pc'[q]] /\ stmt' = [stmt EXCEPT ![q] = stmt'[q]]
           /\ attempt' = [attempt EXCEPT ![q] = attempt'[q]]
           /\ conn' = [conn EXCEPT ![q] = conn'[q]]
           /\ LocalResults(q)
           /\ Again(q) \/ (Ends(q, r) /\ Over(q) /\ Said(q, r)) \/ Onward(q, r)
<1> USE ControlSplit
<1>1. CASE /\ Retries(q, r) /\ Removal(q, TRUE)
           /\ attempt' = [attempt EXCEPT ![q] = 2] /\ pc' = [pc EXCEPT ![q] = "lookup"]
           /\ conn' = [conn EXCEPT ![q] = None] /\ UNCHANGED <<stmt, results, about, registered>>
  BY <1>1, ReportFacts DEF Retries, Removal, Again
<1>2. CASE /\ ~Retries(q, r) /\ Ends(q, r) /\ Reported(q, r)
           /\ Removal(q, RemovesPool(q, r) \/ (InTransaction(q) /\ Discards(Last(results'[q]))))
           /\ Finish(q)
  BY <1>2, ReportFacts DEF Finish, Removal, Over
<1>3. CASE /\ ~Retries(q, r) /\ ~Ends(q, r) /\ Reported(q, r)
           /\ Removal(q, RemovesPool(q, r))
           /\ stmt' = [stmt EXCEPT ![q] = NextStmt(q, r)]
           /\ pc' = [pc EXCEPT ![q] = "next"]
           /\ conn' = [conn EXCEPT ![q] = IF Keeps(q) THEN @ ELSE None]
           /\ UNCHANGED <<attempt, registered>>
  BY <1>3, ReportFacts DEF Removal, Onward
<1> QED BY <1>1, <1>2, <1>3 DEF After

\* Whichever of the three it is, the query is in order.
LEMMA AfterOk ==
    ASSUME ControlInv, NEW q \in Queries, NEW r \in Results, After(q, r),
           UNCHANGED <<setup, path, held, token>>,
           pc[q] \in {"attach", "checkout", "send", "running"},
           Keeps(q) /\ conn[q] = None => Ends(q, r)
    PROVE  Local(q) /\ QueryOk(q)' /\ PoolOk'
<1>1. Local(q)
  <2>1. path' = [path EXCEPT ![q] = path'[q]] /\ held' = [held EXCEPT ![q] = held'[q]]
    BY ControlSplit
  <2> QED BY <2>1, AfterFacts DEF Local, LocalResults
<1>2. PoolOk'
  <2>1. \A p \in Queries : IsTx(p)' <=> IsTx(p)
    BY DEF IsTx
  <2>2. PoolOk
    BY ControlSplit
  <2>3. pool' \in {pool, 0} /\ opened' = opened /\ registered' \subseteq registered
    BY AfterFacts
  <2>4. 0 \in 0 .. opened
    BY <2>2, ConstantFacts DEF PoolOk
  <2> QED BY <2>1, <2>2, <2>3, <2>4 DEF PoolOk
<1>3. QueryOk(q) /\ setup \in Setups
  BY ControlSplit
<1>4. /\ Script(q)' = Script(q) /\ (IsTx(q)' <=> IsTx(q)) /\ (Shared' <=> Shared)
      /\ (InTransaction(q)' <=> InTransaction(q)) /\ (InTransaction(q) <=> IsTx(q))
      /\ (Keeps(q)' <=> Keeps(q)) /\ path'[q] = path[q] /\ held'[q] = held[q]
  <2>1. InTransaction(q)' <=> InTransaction(q)
    BY DEF InTransaction
  <2>2. Script(q)' = Script(q) /\ (IsTx(q)' <=> IsTx(q)) /\ (Shared' <=> Shared)
    BY <2>1, ScriptSame
  <2>3. Keeps(q)' <=> Keeps(q)
    BY <2>2 DEF Keeps
  <2> QED BY <1>3, <2>1, <2>2, <2>3 DEF QueryOk, FieldsOk
<1>5. stmt[q] \in 1 .. Len(Script(q)) /\ Len(Script(q)) \in Nat /\ Len(Script(q)) >= 1
  BY <1>3, ScriptFacts DEF QueryOk, FieldsOk, ScriptOk, Sending
<1>6. /\ results[q] \in Seq(Results) /\ Len(results[q]) \in Nat /\ attempt[q] \in 1 .. 2
      /\ about[q] \in Seq(Nat) /\ Len(about[q]) = Len(results[q]) /\ stmt[q] \in Nat
      /\ path[q] \in {"loop", "batch", "transaction"} /\ held[q] \in 0 .. MaxPools
      /\ conn[q] \in Conns \cup {None}
      /\ ~IsTx(q) => PlacesOk(q)
      /\ IsTx(q) => Len(results[q]) <= 1 /\ q \notin token
      /\ IsTx(q) /\ ~Shared => results[q] = <<>>
  BY <1>3 DEF QueryOk, FieldsOk, ResultOk, ScriptOk
<1>7. Said(q, r) => /\ results'[q] \in Seq(Results) /\ about'[q] \in Seq(Nat)
                    /\ Len(about'[q]) = Len(results'[q])
                    /\ IsTx(q) => Len(results'[q]) <= 1
  BY <1>4, <1>6, SaidFacts
<1>8. CASE Again(q)
  <2>1. FieldsOk(q)'
    BY <1>4, <1>5, <1>6, <1>8 DEF FieldsOk, Again, Silent, Labels
  <2>2. ~IsTx(q)
    BY <1>4, <1>8 DEF Again, InTransaction
  <2>3. ScriptOk(q)' /\ ConnOk(q)'
    BY <1>4, <1>5, <1>6, <1>8, <2>2 DEF ScriptOk, ConnOk, Again, Early, Sending
  <2>4. ResultOk(q)'
    BY <1>4, <1>6, <1>8, <2>2 DEF ResultOk, PlacesOk, Again, Silent
  <2> QED BY <1>1, <1>2, <2>1, <2>3, <2>4 DEF QueryOk
<1>9. CASE Over(q) /\ Said(q, r)
  <2>1. FieldsOk(q)'
    BY <1>4, <1>5, <1>6, <1>7, <1>9 DEF FieldsOk, Over, Labels
  <2>2. ScriptOk(q)' /\ ResultOk(q)' /\ ConnOk(q)'
    BY <1>4, <1>5, <1>6, <1>7, <1>9 DEF ScriptOk, ResultOk, ConnOk, Over, Early, Sending
  <2> QED BY <1>1, <1>2, <2>1, <2>2 DEF QueryOk
<1>10. CASE Onward(q, r)
  <2>1. /\ NextStmt(q, r) \in 1 .. Len(Script(q)) + 1
        /\ IsTx(q) => NextStmt(q, r) <= Len(Script(q))
        /\ ~IsTx(q) => NextStmt(q, r) = stmt[q] + 1
    BY <1>3, <1>4, <1>5, <1>10, NextStmtFacts DEF Onward
  <2>2. IsTx(q) /\ ~Shared => results'[q] = <<>>
    <3> SUFFICES ASSUME IsTx(q), ~Shared PROVE results'[q] = <<>>
      OBVIOUS
    <3>1. r = "ok" /\ Op(q) # "commit"
      BY <1>4, <1>10, EndsFacts DEF Onward
    <3> QED BY <1>4, <1>6, <1>10, <3>1, SaidFacts DEF Onward
  <2>3. FieldsOk(q)'
    BY <1>4, <1>5, <1>6, <1>7, <1>10, <2>1 DEF FieldsOk, Onward, Labels
  <2>4. ScriptOk(q)'
    BY <1>4, <1>5, <1>6, <1>10, <2>1 DEF ScriptOk, Onward, Early, Sending
  <2>5. ResultOk(q)'
    <3>1. ASSUME ~IsTx(q) PROVE PlacesOk(q)'
      <4>1. PICK n \in Sets(q, r) : Grown(q, r, n)
        BY <1>4, <1>6, <1>10, <3>1, SaidFacts DEF Onward
      <4>2. n \in Nat /\ n >= 1 /\ stmt'[q] = stmt[q] + 1 /\ stmt[q] >= 1
        BY <1>5, <1>10, <2>1, <3>1, SetsFacts DEF Onward
      <4> QED BY <1>6, <3>1, <4>1, <4>2, GrownPlaces
    <3> QED BY <1>4, <1>6, <1>7, <1>10, <2>2, <3>1 DEF ResultOk, Onward, Early
  <2>6. ConnOk(q)'
    BY <1>4, <1>6, <1>10 DEF ConnOk, Onward
  <2> QED BY <1>1, <1>2, <2>3, <2>4, <2>5, <2>6 DEF QueryOk
<1> QED BY <1>8, <1>9, <1>10, AfterFacts

\* What the invariant says of the fields of a query.
LEMMA FieldFacts ==
    ASSUME ControlInv, NEW q \in Queries
    PROVE  /\ setup \in Setups /\ pc[q] \in Labels /\ path[q] \in {"loop", "batch", "transaction"}
           /\ Len(Script(q)) \in Nat /\ Len(Script(q)) >= 1
           /\ stmt[q] \in 1 .. Len(Script(q)) + 1 /\ attempt[q] \in 1 .. 2
           /\ held[q] \in 0 .. MaxPools /\ conn[q] \in Conns \cup {None}
           /\ results[q] \in Seq(Results) /\ Len(results[q]) \in Nat
           /\ about[q] \in Seq(Nat) /\ Len(about[q]) = Len(results[q]) /\ stmt[q] \in Nat
           /\ InTransaction(q) <=> IsTx(q)
           /\ ScriptOk(q) /\ ResultOk(q) /\ ConnOk(q)
<1>1. QueryOk(q)
  BY ControlSplit
<1> QED BY <1>1, ControlSplit, ScriptFacts DEF QueryOk, FieldsOk, ResultOk

\* A query never turns into a transaction or from one into something else.
SamePath(q) == setup' = setup /\ (path'[q] = path[q] \/ (~IsTx(q) /\ path'[q] = "loop"))
LEMMA PathFrame ==
    ASSUME ControlInv, NEW q \in Queries, SamePath(q)
    PROVE  /\ Script(q)' = Script(q) /\ (IsTx(q)' <=> IsTx(q)) /\ (Shared' <=> Shared)
           /\ InTransaction(q)' <=> IsTx(q)
           /\ path'[q] \in {"loop", "batch", "transaction"}
           /\ path'[q] = path[q] => (Keeps(q)' <=> Keeps(q))
<1>1. InTransaction(q)' <=> InTransaction(q)
  BY FieldFacts DEF SamePath, InTransaction
<1>2. Script(q)' = Script(q) /\ (IsTx(q)' <=> IsTx(q)) /\ (Shared' <=> Shared)
  BY <1>1, ScriptSame DEF SamePath
<1>3. path'[q] = path[q] => (Keeps(q)' <=> Keeps(q))
  BY <1>2 DEF Keeps
<1> QED BY <1>1, <1>2, <1>3, FieldFacts DEF SamePath

\* A query that returns is in order.
LEMMA OverOk ==
    ASSUME ControlInv, NEW q \in Queries, SamePath(q), held'[q] = held[q], PoolOk', Over(q),
           results'[q] \in Seq(Results), about'[q] \in Seq(Nat),
           Len(about'[q]) = Len(results'[q]), IsTx(q) => Len(results'[q]) <= 1
    PROVE  QueryOk(q)'
<1>1. FieldsOk(q)'
  BY FieldFacts, PathFrame DEF FieldsOk, Over, Labels
<1>2. ScriptOk(q)'
  BY FieldFacts, PathFrame DEF ScriptOk, Over, Early, Sending, PoolOk
<1>3. ResultOk(q)' /\ ConnOk(q)'
  BY FieldFacts, PathFrame DEF ResultOk, ConnOk, Over
<1> QED BY <1>1, <1>2, <1>3 DEF QueryOk

\* One that reports a failed statement of its loop and goes on.
Skipped(q, r) == /\ pc'[q] = "next" /\ Grown(q, r, 1)
                 /\ stmt'[q] = stmt[q] + 1 /\ attempt'[q] = attempt[q] /\ conn'[q] = conn[q]
LEMMA SkippedOk ==
    ASSUME ControlInv, NEW q \in Queries, setup' = setup, path'[q] = path[q], held'[q] = held[q],
           PoolOk', NEW r \in Results, Skipped(q, r), path[q] = "loop",
           pc[q] \in {"lookup", "checkout"}
    PROVE  QueryOk(q)'
<1>1. /\ results'[q] \in Seq(Results) /\ about'[q] \in Seq(Nat)
      /\ Len(about'[q]) = Len(results'[q])
  BY FieldFacts, GrownFacts DEF Skipped
<1>2. SamePath(q) /\ ~IsTx(q) /\ ~Keeps(q) /\ conn[q] = None
  BY FieldFacts DEF SamePath, InTransaction, Keeps, ConnOk
<1>3. stmt[q] <= Len(Script(q)) /\ PlacesOk(q) /\ stmt[q] >= 1
  BY <1>2, FieldFacts DEF ScriptOk, ResultOk, Sending
<1>4. FieldsOk(q)'
  BY <1>1, <1>2, <1>3, FieldFacts, PathFrame DEF FieldsOk, Skipped, Labels
<1>5. ScriptOk(q)'
  BY <1>2, <1>3, FieldFacts, PathFrame DEF ScriptOk, Skipped, Early, Sending
<1>6. PlacesOk(q)'
  BY <1>3, FieldFacts, GrownPlaces DEF Skipped
<1>7. ResultOk(q)' /\ ConnOk(q)'
  BY <1>1, <1>2, <1>6, FieldFacts, PathFrame DEF ResultOk, ConnOk, Skipped, Early
<1> QED BY <1>4, <1>5, <1>7 DEF QueryOk

\* One that only moves on to another label.
Moved(q) == stmt'[q] = stmt[q] /\ Silent(q)
LEMMA MovedOk ==
    ASSUME ControlInv, NEW q \in Queries, SamePath(q), PoolOk', Moved(q), pc[q] # "end",
           pc'[q] \in Labels \ {"end"}, attempt'[q] \in 1 .. 2, held'[q] \in 0 .. MaxPools,
           conn'[q] \in Conns \cup {None}, ConnOk(q)',
           pc'[q] \in Early => pc[q] \in Early,
           pc'[q] \in Sending => stmt[q] <= Len(Script(q))
    PROVE  QueryOk(q)'
<1>1. FieldsOk(q)'
  BY FieldFacts, PathFrame DEF FieldsOk, Moved, Silent, Labels
<1>2. ScriptOk(q)'
  BY FieldFacts, PathFrame DEF ScriptOk, Moved, Early, Sending, PoolOk
<1>3. ResultOk(q)'
  BY FieldFacts, PathFrame DEF ResultOk, PlacesOk, Moved, Silent
<1> QED BY <1>1, <1>2, <1>3 DEF QueryOk

(***************************************************************************)
(* A step at the client: the server does nothing, no success is reported,   *)
(* and a transaction keeps its place and its connection.                    *)
(***************************************************************************)
Quiet(q) ==
    /\ UNCHANGED <<depth, pending, committed, dead, executed>>
    /\ pc[q] # "end" /\ (pc'[q] # "end" => stmt'[q] >= stmt[q])
    /\ \/ Silent(q)
       \/ \E r \in Results \ {"ok"} : Grown(q, r, 1)
       \/ \E r \in Results \ {"ok"} : results'[q] = <<r>> /\ about'[q] = <<0>>
    /\ path'[q] # path[q] => Silent(q) /\ about[q] = <<>>
    /\ IsTx(q) /\ ~Shared => /\ stmt'[q] = stmt[q]
                             /\ conn[q] # None => conn'[q] = conn[q] /\ pc'[q] # "end"
    /\ conn'[q] = conn[q] \/ conn'[q] = None \/ conn'[q] \in Free(q)
ClientStep(q) == SamePath(q) /\ Local(q) /\ QueryOk(q)' /\ PoolOk' /\ Quiet(q)

\* Registering and cancelling.
LEMMA RegisterStep ==
    ASSUME ControlInv, NEW q \in Queries, Register(q)
    PROVE  ClientStep(q)
<1>1. /\ pc[q] = "idle" /\ pc' = [pc EXCEPT ![q] = "open"] /\ registered' = registered \cup {q}
      /\ UNCHANGED <<setup, pool, opened, token, path, stmt, attempt, held, conn, results, about,
                     depth, pending, committed, dead, executed>>
  BY DEF Register, serverVars, history
<1>2. Local(q) /\ SamePath(q)
  BY <1>1, ControlSplit DEF Local, LocalResults, SamePath
<1>3. PoolOk'
  <2>1. \A p \in Queries : IsTx(p)' <=> IsTx(p)
    BY <1>1 DEF IsTx
  <2> QED BY <1>1, <2>1, ControlSplit DEF PoolOk
<1>4. pc'[q] = "open"
  BY <1>1, ControlSplit
<1>5. ConnOk(q)'
  BY <1>1, <1>4, FieldFacts DEF ConnOk
<1>6. QueryOk(q)'
  BY <1>1, <1>2, <1>3, <1>4, <1>5, MovedOk, FieldFacts DEF Moved, Silent, Labels, Early, Sending
<1>7. Quiet(q)
  BY <1>1, <1>4, FieldFacts DEF Quiet, Silent
<1> QED BY <1>2, <1>3, <1>6, <1>7 DEF ClientStep

\* A step that at most drops the pool.
LEMMA PoolKept ==
    ASSUME ControlInv, setup' = setup, token' = token, registered' \subseteq registered,
           pool' \in {pool, 0}, opened' = opened
    PROVE  PoolOk'
<1>1. \A p \in Queries : IsTx(p)' <=> IsTx(p)
  BY DEF IsTx
<1>2. PoolOk
  BY ControlSplit
<1>3. 0 \in 0 .. opened
  BY <1>2, ConstantFacts DEF PoolOk
<1> QED BY <1>1, <1>2, <1>3 DEF PoolOk

\* Finish, field by field.
LEMMA FinishFacts ==
    ASSUME ControlInv, NEW q \in Queries, Finish(q)
    PROVE  /\ Over(q) /\ registered' \subseteq registered
           /\ pc' = [pc EXCEPT ![q] = pc'[q]] /\ stmt' = [stmt EXCEPT ![q] = stmt'[q]]
           /\ attempt' = [attempt EXCEPT ![q] = attempt'[q]]
           /\ conn' = [conn EXCEPT ![q] = conn'[q]]
BY ControlSplit DEF Finish, Over

\* A query that has nothing at the server returns, with a failure at the end of its
\* results or as the whole answer.
LEMMA FinishStep ==
    ASSUME ControlInv, NEW q \in Queries, Finish(q), pc[q] # "end",
           UNCHANGED <<setup, token, path, held, depth, pending, committed, dead, executed>>,
           pool' \in {pool, 0}, opened' = opened,
           IsTx(q) /\ ~Shared => conn[q] = None,
           \/ UNCHANGED <<results, about>> /\ ~IsTx(q)
           \/ \E r \in Results \ {"ok"} : Adds(q, r, 1) /\ ~IsTx(q)
           \/ \E r \in Results \ {"ok"} : Replaces(q, r)
    PROVE  ClientStep(q)
<1>1. \/ LocalResults(q) /\ Silent(q) /\ ~IsTx(q)
      \/ \E r \in Results \ {"ok"} : LocalResults(q) /\ Grown(q, r, 1) /\ ~IsTx(q)
      \/ \E r \in Results \ {"ok"} : LocalResults(q) /\ results'[q] = <<r>> /\ about'[q] = <<0>>
  BY ReportFacts
<1>2. Over(q) /\ Local(q) /\ SamePath(q)
  BY <1>1, FinishFacts, ControlSplit DEF Local, LocalResults, SamePath
<1>3. PoolOk'
  BY PoolKept, FinishFacts
<1>4. /\ results'[q] \in Seq(Results) /\ about'[q] \in Seq(Nat)
      /\ Len(about'[q]) = Len(results'[q]) /\ (IsTx(q) => Len(results'[q]) <= 1)
  <2>1. CASE Silent(q) /\ ~IsTx(q)
    BY <2>1, FieldFacts DEF Silent
  <2>2. CASE \E r \in Results \ {"ok"} : Grown(q, r, 1) /\ ~IsTx(q)
    BY <2>2, FieldFacts, GrownFacts
  <2>3. CASE \E r \in Results \ {"ok"} : results'[q] = <<r>> /\ about'[q] = <<0>>
    <3>1. PICK r \in Results : results'[q] = <<r>> /\ about'[q] = <<0>>
      BY <2>3
    <3>2. <<r>> \in Seq(Results) /\ <<0>> \in Seq(Nat) /\ Len(<<r>>) = 1 /\ Len(<<0>>) = 1
      OBVIOUS
    <3> QED BY <3>1, <3>2
  <2> QED BY <1>1, <2>1, <2>2, <2>3
<1>5. QueryOk(q)'
  BY <1>2, <1>3, <1>4, OverOk
<1>6. Quiet(q)
  BY <1>1, <1>2, FieldFacts DEF Quiet, Over
<1> QED BY <1>2, <1>3, <1>5, <1>6 DEF ClientStep

\* What After makes of a failure before anything was sent.
LEMMA AfterStep ==
    ASSUME ControlInv, NEW q \in Queries, NEW r \in Results \ {"ok"}, After(q, r),
           UNCHANGED <<setup, path, held, token, depth, pending, committed, dead, executed>>,
           pc[q] \in {"attach", "checkout", "send"},
           Keeps(q) /\ conn[q] = None => Ends(q, r),
           IsTx(q) /\ ~Shared => conn[q] = None
    PROVE  ClientStep(q)
<1>1. Local(q) /\ QueryOk(q)' /\ PoolOk'
  BY AfterOk
<1>2. SamePath(q)
  BY DEF SamePath
<1>3. stmt[q] \in 1 .. Len(Script(q))
  BY FieldFacts DEF ScriptOk, Sending
<1>4. Said(q, r) => Silent(q) \/ Grown(q, r, 1)
  BY SetsFacts DEF Said
<1>5. Quiet(q)
  <2>1. CASE Again(q)
    BY <1>3, <2>1, FieldFacts DEF Quiet, Again, InTransaction
  <2>2. CASE Over(q) /\ Said(q, r)
    BY <1>3, <1>4, <2>2, FieldFacts DEF Quiet, Over
  <2>3. CASE Onward(q, r)
    <3>1. NextStmt(q, r) \in 1 .. Len(Script(q)) + 1 /\ NextStmt(q, r) > stmt[q]
      BY <1>3, <2>3, FieldFacts, NextStmtFacts DEF Onward
    <3>2. ~(IsTx(q) /\ ~Shared)
      <4>1. IsTx(q) /\ ~Shared => Ends(q, r)
        BY FieldFacts, EndsFacts
      <4> QED BY <2>3, <4>1 DEF Onward
    <3>3. NextStmt(q, r) >= stmt[q]
      BY <1>3, <3>1, FieldFacts
    <3> QED BY <1>4, <2>3, <3>2, <3>3, FieldFacts DEF Quiet, Onward
  <2> QED BY <2>1, <2>2, <2>3, AfterFacts
<1> QED BY <1>1, <1>2, <1>5 DEF ClientStep

\* A statement that fails without a connection is reported, and the loop goes on.
LEMMA SkippedStep ==
    ASSUME ControlInv, NEW q \in Queries, NEW r \in Results \ {"ok"},
           path[q] = "loop", pc[q] \in {"lookup", "checkout"},
           Adds(q, r, 1),
           stmt' = [stmt EXCEPT ![q] = @ + 1], pc' = [pc EXCEPT ![q] = "next"],
           UNCHANGED <<attempt, conn, registered, setup, token, path, held>>,
           UNCHANGED <<depth, pending, committed, dead, executed>>,
           pool' \in {pool, 0}, opened' = opened
    PROVE  ClientStep(q)
<1>1. Local(q) /\ SamePath(q) /\ Skipped(q, r)
  BY ReportFacts, ControlSplit DEF Local, LocalResults, SamePath, Skipped
<1>2. PoolOk'
  BY PoolKept
<1>3. QueryOk(q)'
  BY <1>1, <1>2, SkippedOk
<1>4. ~IsTx(q) /\ stmt[q] \in Nat
  BY FieldFacts, ControlSplit DEF InTransaction
<1>5. Quiet(q)
  BY <1>1, <1>4 DEF Quiet, Skipped
<1> QED BY <1>1, <1>2, <1>3, <1>5 DEF ClientStep

\* The pool is found or opened.
LEMMA OpenStep ==
    ASSUME ControlInv, NEW q \in Queries, GetOrCreatePool(q)
    PROVE  ClientStep(q)
<1>1. /\ pc[q] \in {"open", "lookup"}
      /\ \/ pool' = pool /\ opened' = opened
         \/ pool' = opened + 1 /\ opened' = opened + 1 /\ opened < MaxPools
      /\ UNCHANGED <<setup, registered, token, path, stmt, attempt, held, conn, results, about,
                     depth, pending, committed, dead, executed>>
  BY DEF GetOrCreatePool, serverVars, history
<1>2. /\ pc' = [pc EXCEPT ![q] = pc'[q]] /\ pc'[q] \in {"route", "attach"}
      /\ pc'[q] = "route" <=> pc[q] = "open"
  BY <1>1, ControlSplit DEF GetOrCreatePool
<1>3. Local(q) /\ SamePath(q)
  BY <1>1, <1>2, ControlSplit DEF Local, LocalResults, SamePath
<1>4. PoolOk'
  <2>1. \A p \in Queries : IsTx(p)' <=> IsTx(p)
    BY <1>1 DEF IsTx
  <2>2. pool' \in 0 .. opened' /\ opened' \in 0 .. MaxPools
    BY <1>1, ControlSplit, ConstantFacts DEF PoolOk
  <2> QED BY <1>1, <2>1, <2>2, ControlSplit DEF PoolOk
<1>5. ConnOk(q)'
  <2>1. pc[q] = "lookup" => ~Keeps(q)
    BY FieldFacts DEF ConnOk, Keeps
  <2>2. Keeps(q)' <=> Keeps(q)
    BY <1>1, <1>3, PathFrame
  <2> QED BY <1>1, <1>2, <2>1, <2>2, FieldFacts DEF ConnOk
<1>6. QueryOk(q)'
  <2>1. pc[q] = "lookup" => stmt[q] <= Len(Script(q))
    BY FieldFacts DEF ScriptOk, Sending
  <2> QED BY <1>1, <1>2, <1>3, <1>4, <1>5, <2>1, MovedOk, FieldFacts DEF Moved, Silent, Labels, Early, Sending
<1>7. Quiet(q)
  BY <1>1, <1>2, FieldFacts DEF Quiet, Silent
<1> QED BY <1>3, <1>4, <1>6, <1>7 DEF ClientStep

\* Or it is not.
LEMMA OpenFailsStep ==
    ASSUME ControlInv, NEW q \in Queries, OpenFails(q)
    PROVE  ClientStep(q)
<1>1. /\ pc[q] \in {"open", "lookup"} /\ conn[q] = None /\ "lost" \in Results \ {"ok"}
      /\ UNCHANGED <<setup, pool, opened, token, path, held, depth, pending, committed, dead, executed>>
  BY FieldFacts DEF OpenFails, serverVars, history, ConnOk, Results
<1>2. CASE pc[q] = "open" /\ Replaces(q, "lost") /\ Finish(q)
  BY <1>1, <1>2, FinishStep
<1>3. CASE /\ pc[q] = "lookup"
           /\ Adds(q, "lost", 1)
           /\ stmt' = [stmt EXCEPT ![q] = @ + 1]
           /\ pc' = [pc EXCEPT ![q] = "next"]
           /\ UNCHANGED <<attempt, conn, registered>>
  <2>1. path[q] = "loop"
    BY <1>3, FieldFacts DEF ConnOk
  <2> QED BY <1>1, <1>3, <2>1, SkippedStep
<1> QED BY <1>2, <1>3 DEF OpenFails

\* The way of the query is chosen.
LEMMA RouteStep ==
    ASSUME ControlInv, NEW q \in Queries, Route(q)
    PROVE  ClientStep(q)
<1>1. /\ pc[q] = "route" /\ conn[q] = None /\ stmt[q] = 1 /\ "lost" \in Results \ {"ok"}
      /\ UNCHANGED <<setup, pool, opened, token, depth, pending, committed, dead, executed>>
  BY FieldFacts DEF Route, serverVars, history, ConnOk, ScriptOk, Early, Results
<1>2. CASE pool = 0 /\ InTransaction(q) /\ Replaces(q, "lost") /\ Finish(q) /\ UNCHANGED <<path, held>>
  BY <1>1, <1>2, FinishStep
<1>3. CASE /\ pool # 0 \/ ~InTransaction(q)
           /\ path' = [path EXCEPT ![q] = IF pool = 0 THEN "loop" ELSE @]
           /\ held' = [held EXCEPT ![q] = pool]
           /\ pc' = [pc EXCEPT ![q] =
                      IF pool # 0 /\ path[q] # "loop" /\ ~Shared THEN "checkout" ELSE "next"]
           /\ UNCHANGED <<stmt, attempt, conn, results, about, registered>>
  <2>1. /\ pool = 0 => path'[q] = "loop"
        /\ pool # 0 => path'[q] = path[q]
        /\ pc'[q] \in {"checkout", "next"}
        /\ pc'[q] = "checkout" <=> pool # 0 /\ path[q] # "loop" /\ ~Shared
        /\ held'[q] = pool
    BY <1>3, ControlSplit
  <2>2. Local(q) /\ SamePath(q)
    BY <1>1, <1>3, <2>1, ControlSplit, FieldFacts DEF Local, SamePath
  <2>3. PoolOk' /\ pool \in 0 .. MaxPools
    BY <1>1, <1>3, PoolKept, ControlSplit, ConstantFacts DEF PoolOk
  <2>4. Keeps(q)' <=> pc'[q] = "checkout"
    BY <2>1, <2>2, PathFrame DEF Keeps
  <2>5. ConnOk(q)'
    BY <1>1, <1>3, <2>1, <2>3, <2>4, ConstantFacts DEF ConnOk
  <2>6. QueryOk(q)'
    BY <1>1, <1>3, <2>1, <2>2, <2>3, <2>5, MovedOk, FieldFacts DEF Moved, Silent, Labels, Early, Sending
  <2>7. about[q] = <<>> \/ IsTx(q)
    BY <1>1, FieldFacts DEF ResultOk, PlacesOk
  <2>8. path'[q] # path[q] => ~IsTx(q)
    BY <1>3, <2>1, FieldFacts
  <2>9. Quiet(q)
    BY <1>1, <1>3, <2>1, <2>7, <2>8 DEF Quiet, Silent
  <2> QED BY <2>2, <2>3, <2>6, <2>9 DEF ClientStep
<1> QED BY <1>2, <1>3 DEF Route

\* The head of the loop.
LEMMA NextStep ==
    ASSUME ControlInv, NEW q \in Queries, NextStatement(q)
    PROVE  ClientStep(q)
<1>1. /\ pc[q] = "next" /\ "canceled" \in Results \ {"ok"}
      /\ UNCHANGED <<setup, pool, opened, token, path, held, depth, pending, committed, dead, executed>>
  BY DEF NextStatement, serverVars, history, Results
<1>2. IsTx(q) => stmt[q] <= Len(Script(q)) /\ ~IsCanceled(q)
  BY FieldFacts DEF ScriptOk, IsCanceled
<1>3. CASE stmt[q] > Len(Script(q)) /\ Finish(q) /\ UNCHANGED <<results, about>>
  <2>1. ~IsTx(q)
    BY <1>2, <1>3, FieldFacts
  <2> QED BY <1>1, <1>3, <2>1, FinishStep
<1>4. CASE /\ stmt[q] <= Len(Script(q)) /\ IsCanceled(q)
           /\ Adds(q, "canceled", 1) /\ Finish(q)
  <2>1. ~IsTx(q)
    BY <1>2, <1>4
  <2> QED BY <1>1, <1>4, <2>1, FinishStep
<1>5. CASE /\ stmt[q] <= Len(Script(q)) /\ ~IsCanceled(q)
           /\ pc' = [pc EXCEPT ![q] = CASE path[q] = "loop" -> "lookup"
                                        [] Keeps(q) -> "send"
                                        [] OTHER -> "attach"]
           /\ attempt' = [attempt EXCEPT ![q] = 1]
           /\ UNCHANGED <<stmt, conn, results, about, registered>>
  <2>1. PICK l \in {"lookup", "send", "attach"} :
            /\ pc' = [pc EXCEPT ![q] = l]
            /\ l = "lookup" => path[q] = "loop"
            /\ l = "send" <=> Keeps(q)
    <3>1. CASE path[q] = "loop"
      BY <1>5, <3>1 DEF Keeps
    <3>2. CASE path[q] # "loop" /\ Keeps(q)
      BY <1>5, <3>2
    <3>3. CASE path[q] # "loop" /\ ~Keeps(q)
      BY <1>5, <3>3
    <3> QED BY <3>1, <3>2, <3>3
  <2>2. pc'[q] = l /\ attempt'[q] = 1
    BY <1>5, <2>1, ControlSplit
  <2>3. Local(q) /\ SamePath(q)
    BY <1>1, <1>5, <2>1, ControlSplit DEF Local, LocalResults, SamePath
  <2>4. PoolOk'
    BY <1>1, <1>5, PoolKept
  <2>5. Keeps(q)' <=> Keeps(q)
    BY <1>1, <2>3, PathFrame
  <2>6. ConnOk(q)'
    BY <1>1, <1>5, <2>1, <2>2, <2>5, FieldFacts DEF ConnOk
  <2>7. QueryOk(q)'
    BY <1>1, <1>5, <2>1, <2>2, <2>3, <2>4, <2>6, MovedOk, FieldFacts DEF Moved, Silent, Labels, Early, Sending
  <2>8. Quiet(q)
    BY <1>1, <1>5, <2>1, <2>2, FieldFacts DEF Quiet, Silent
  <2> QED BY <2>3, <2>4, <2>7, <2>8 DEF ClientStep
<1> QED BY <1>3, <1>4, <1>5 DEF NextStatement

\* The handle of the pool.
LEMMA AttachStep ==
    ASSUME ControlInv, NEW q \in Queries, Attach(q)
    PROVE  ClientStep(q)
<1>1. /\ pc[q] = "attach" /\ conn[q] = None /\ ~Keeps(q) /\ {"lost", "canceled"} \subseteq Results \ {"ok"}
      /\ UNCHANGED <<setup, token, path, depth, pending, committed, dead, executed>>
  BY FieldFacts DEF Attach, serverVars, history, ConnOk, Results
<1>2. CASE \E r \in {"lost", "canceled"} : After(q, r) /\ UNCHANGED held
  <2>1. PICK r \in {"lost", "canceled"} : After(q, r) /\ UNCHANGED held
    BY <1>2
  <2> QED BY <1>1, <2>1, AfterStep
<1>3. CASE Replaces(q, "lost") /\ Finish(q) /\ UNCHANGED <<pool, opened, held>>
  BY <1>1, <1>3, FinishStep
<1>4. CASE /\ pool # 0 /\ held' = [held EXCEPT ![q] = pool] /\ pc' = [pc EXCEPT ![q] = "checkout"]
           /\ UNCHANGED <<pool, opened, stmt, attempt, conn, results, about, registered>>
  <2>1. pc'[q] = "checkout" /\ held'[q] = pool
    BY <1>4, ControlSplit
  <2>2. Local(q) /\ SamePath(q)
    BY <1>1, <1>4, ControlSplit DEF Local, LocalResults, SamePath
  <2>3. PoolOk' /\ pool \in Pools /\ pool \in 0 .. MaxPools
    BY <1>1, <1>4, PoolKept, ControlSplit, ConstantFacts DEF PoolOk
  <2>4. ConnOk(q)'
    BY <1>1, <1>4, <2>1, <2>3 DEF ConnOk
  <2>5. stmt[q] <= Len(Script(q))
    BY <1>1, FieldFacts DEF ScriptOk, Sending
  <2>6. QueryOk(q)'
    BY <1>1, <1>4, <2>1, <2>2, <2>3, <2>4, <2>5, MovedOk, FieldFacts DEF Moved, Silent, Labels, Early, Sending
  <2>7. Quiet(q)
    BY <1>1, <1>4, <2>1, FieldFacts DEF Quiet, Silent
  <2> QED BY <2>2, <2>3, <2>6, <2>7 DEF ClientStep
<1> QED BY <1>2, <1>3, <1>4 DEF Attach

\* A connection of the pool.
LEMMA CheckoutStep ==
    ASSUME ControlInv, NEW q \in Queries, Checkout(q)
    PROVE  ClientStep(q)
<1>1. /\ pc[q] = "checkout" /\ conn[q] = None /\ held[q] \in Pools /\ "error" \in Results \ {"ok"}
      /\ stmt[q] <= Len(Script(q))
      /\ UNCHANGED <<setup, pool, opened, token, path, held, depth, pending, committed, dead, executed>>
  BY FieldFacts DEF Checkout, serverVars, history, ConnOk, ScriptOk, Sending, Results
<1>2. CASE path[q] = "batch" /\ Shared /\ Adds(q, "error", 1) /\ Finish(q)
  <2>1. ~IsTx(q)
    BY <1>2, FieldFacts DEF InTransaction
  <2> QED BY <1>1, <1>2, <2>1, FinishStep
<1>3. ASSUME NEW c \in Free(q), conn' = [conn EXCEPT ![q] = c],
             pc' = [pc EXCEPT ![q] = IF path[q] = "batch" /\ Keeps(q) THEN "next" ELSE "send"],
             UNCHANGED <<stmt, attempt, results, about, registered>>
      PROVE  ClientStep(q)
  <2>1. c \in Conns /\ c # None
    BY <1>1, ConstantFacts, QueryAssumption DEF Free, Conns, None, Pools
  <2>2. /\ conn'[q] = c /\ pc'[q] \in {"next", "send"}
        /\ pc'[q] = "next" => Keeps(q)
    BY <1>3, ControlSplit
  <2>3. Local(q) /\ SamePath(q)
    BY <1>1, <1>3, ControlSplit DEF Local, LocalResults, SamePath
  <2>4. PoolOk'
    BY <1>1, <1>3, PoolKept
  <2>5. Keeps(q)' <=> Keeps(q)
    BY <1>1, <2>3, PathFrame
  <2>6. ConnOk(q)'
    BY <2>1, <2>2, <2>5 DEF ConnOk
  <2>7. QueryOk(q)'
    BY <1>1, <1>3, <2>1, <2>2, <2>3, <2>4, <2>6, MovedOk, FieldFacts DEF Moved, Silent, Labels, Early, Sending
  <2>8. Quiet(q)
    BY <1>1, <1>3, <2>2, FieldFacts DEF Quiet, Silent
  <2> QED BY <2>3, <2>4, <2>7, <2>8 DEF ClientStep
<1> QED BY <1>2, <1>3 DEF Checkout

\* Or none.
LEMMA CheckoutFailsStep ==
    ASSUME ControlInv, NEW q \in Queries, CheckoutFails(q)
    PROVE  ClientStep(q)
<1>1. /\ pc[q] = "checkout" /\ conn[q] = None /\ stmt[q] <= Len(Script(q))
      /\ UNCHANGED <<setup, token, path, held, depth, pending, committed, dead, executed>>
  BY FieldFacts DEF CheckoutFails, serverVars, history, ConnOk, ScriptOk, Sending
<1>2. PICK r \in {"lost", "error", "timeout"} :
          \/ path[q] # "batch" /\ After(q, r)
          \/ path[q] = "batch" /\ Removal(q, r = "lost") /\ Adds(q, r, 1) /\ Finish(q)
  BY DEF CheckoutFails
<1>3. r \in Results \ {"ok"}
  BY <1>2 DEF Results
<1>4. CASE path[q] # "batch" /\ After(q, r)
  <2>1. Keeps(q) => Ends(q, r)
    BY <1>3, <1>4, FieldFacts, EndsFacts DEF Keeps, InTransaction
  <2> QED BY <1>1, <1>3, <1>4, <2>1, AfterStep
<1>5. CASE path[q] = "batch" /\ Removal(q, r = "lost") /\ Adds(q, r, 1) /\ Finish(q)
  <2>1. ~IsTx(q) /\ pool' \in {pool, 0} /\ opened' = opened
    BY <1>5, FieldFacts DEF InTransaction, Removal
  <2> QED BY <1>1, <1>3, <1>5, <2>1, FinishStep
<1> QED BY <1>2, <1>4, <1>5

\* Or the query is cancelled while it waits for one.
LEMMA CheckoutCanceledStep ==
    ASSUME ControlInv, NEW q \in Queries, CheckoutCanceled(q)
    PROVE  ClientStep(q)
<1>1. /\ pc[q] = "checkout" /\ conn[q] = None /\ stmt[q] <= Len(Script(q))
      /\ pool' \in {pool, 0} /\ opened' = opened /\ "canceled" \in Results \ {"ok"}
      /\ UNCHANGED <<setup, token, path, held, depth, pending, committed, dead, executed>>
  BY FieldFacts DEF CheckoutCanceled, serverVars, history, ConnOk, ScriptOk, Sending, Removal, Results
<1>2. CASE path[q] = "batch" /\ Adds(q, "canceled", 1) /\ Finish(q)
  <2>1. ~IsTx(q)
    BY <1>2, FieldFacts DEF InTransaction
  <2> QED BY <1>1, <1>2, <2>1, FinishStep
<1>3. CASE /\ path[q] = "loop" /\ Adds(q, "canceled", 1)
           /\ stmt' = [stmt EXCEPT ![q] = @ + 1]
           /\ pc' = [pc EXCEPT ![q] = "next"]
           /\ UNCHANGED <<attempt, conn, registered>>
  BY <1>1, <1>3, SkippedStep
<1> QED BY <1>2, <1>3 DEF CheckoutCanceled

\* The statement is sent, unless the token has fired.
LEMMA SendStep ==
    ASSUME ControlInv, NEW q \in Queries, Send(q)
    PROVE  ClientStep(q)
<1>1. /\ pc[q] = "send" /\ conn[q] # None /\ stmt[q] <= Len(Script(q)) /\ "canceled" \in Results \ {"ok"}
      /\ UNCHANGED <<setup, token, path, held, depth, pending, committed, dead, executed>>
  BY FieldFacts DEF Send, serverVars, history, ConnOk, ScriptOk, Sending, Results
<1>2. CASE IsCanceled(q) /\ After(q, "canceled")
  <2>1. ~IsTx(q)
    BY <1>2, FieldFacts DEF IsCanceled, ScriptOk
  <2> QED BY <1>1, <1>2, <2>1, AfterStep
<1>3. CASE /\ pc' = [pc EXCEPT ![q] = "running"]
           /\ UNCHANGED <<pool, opened, stmt, attempt, conn, results, about, registered>>
  <2>1. pc'[q] = "running"
    BY <1>3, ControlSplit
  <2>2. Local(q) /\ SamePath(q)
    BY <1>1, <1>3, ControlSplit DEF Local, LocalResults, SamePath
  <2>3. PoolOk'
    BY <1>1, <1>3, PoolKept
  <2>4. ConnOk(q)'
    BY <1>1, <1>3, <2>1 DEF ConnOk
  <2>5. QueryOk(q)'
    BY <1>1, <1>3, <2>1, <2>2, <2>3, <2>4, MovedOk, FieldFacts DEF Moved, Silent, Labels, Early, Sending
  <2>6. Quiet(q)
    BY <1>1, <1>3, <2>1, FieldFacts DEF Quiet, Silent
  <2> QED BY <2>2, <2>3, <2>5, <2>6 DEF ClientStep
<1> QED BY <1>2, <1>3 DEF Send

(***************************************************************************)
(* The server.                                                              *)
(***************************************************************************)
\* A step leaves the scripts, and the fields of the other queries, as they are.
LEMMA OthersSame ==
    ASSUME ControlInv, NEW q \in Queries, SamePath(q), Local(q)
    PROVE  /\ \A p \in Queries : /\ Script(p)' = Script(p) /\ Writes(p)' = Writes(p)
                                 /\ Statements(p)' = Statements(p)
                                 /\ (IsTx(p)' <=> IsTx(p)) /\ (InTransaction(p)' <=> IsTx(p))
           /\ Shared' <=> Shared
           /\ \A p \in Queries \ {q} : /\ pc'[p] = pc[p] /\ stmt'[p] = stmt[p]
                                       /\ conn'[p] = conn[p] /\ results'[p] = results[p]
                                       /\ about'[p] = about[p] /\ path'[p] = path[p]
<1>1. \A p \in Queries \ {q} : /\ pc'[p] = pc[p] /\ stmt'[p] = stmt[p] /\ path'[p] = path[p]
                               /\ conn'[p] = conn[p] /\ results'[p] = results[p]
                               /\ about'[p] = about[p]
  BY ControlSplit DEF Local
<1>2. \A p \in Queries : (InTransaction(p)' <=> InTransaction(p)) /\ (InTransaction(p) <=> IsTx(p))
  BY <1>1, FieldFacts, PathFrame DEF InTransaction
<1>3. setup' = setup
  BY DEF Local
<1>4. \A p \in Queries : /\ Script(p)' = Script(p) /\ Writes(p)' = Writes(p)
                         /\ Statements(p)' = Statements(p) /\ (IsTx(p)' <=> IsTx(p))
  BY <1>2, <1>3, ScriptSame
<1>5. Shared' <=> Shared
  BY <1>3 DEF Shared
<1> QED BY <1>1, <1>2, <1>4, <1>5

\* The connection of a query that has nothing open: its transaction, if it has one,
\* has not begun.
LEMMA NoDepth ==
    ASSUME ControlInv, ConnInv, DepthInv, NEW q \in Queries, ~IsTx(q), conn[q] \in Conns,
           ~(Shared /\ \E p \in Queries : IsTx(p))
    PROVE  depth[conn[q]] = 0 /\ pending[conn[q]] = {}
<1>1. depth[conn[q]] \in Nat
  BY ControlSplit DEF ServerOk
<1>2. ~(depth[conn[q]] > 0)
  <2> SUFFICES ASSUME depth[conn[q]] > 0 PROVE FALSE
    OBVIOUS
  <2>1. PICK p \in Queries : IsTx(p) /\ (~Shared => conn[p] = conn[q])
    BY DEF DepthInv
  <2>2. p # q /\ conn[q] # None
    BY <2>1, ConstantFacts
  <2> QED BY <2>1, <2>2 DEF ConnInv
<1>3. depth[conn[q]] = 0
  BY <1>1, <1>2
<1> QED BY <1>3 DEF DepthInv

\* The i-th result is about the statement after that of the one before it, or about
\* the same batch of a SQL Server script.
InPlace(q, i) ==
    LET last == IF i = 1 THEN 0 ELSE about[q][i - 1] IN
    about[q][i] = last + 1 \/ (about[q][i] = last /\ Shared /\ path[q] = "batch" /\ i > 1)
DurableAt(q, i) ==
    results[q][i] = "ok" /\ Statements(q)[about[q][i]] = "write" => <<q, about[q][i]>> \in committed

\* What ResultsTrue says, result by result.
LEMMA TrueSplit ==
    ASSUME ControlInv, NEW q \in Queries
    PROVE  /\ DOMAIN results[q] = 1 .. Len(results[q])
           /\ InOrder(q) <=> (\/ about[q] = <<0>> /\ results[q] # <<"ok">>
                             \/ \A i \in 1 .. Len(results[q]) : InPlace(q, i))
           /\ Durable(q) <=> (~(Shared /\ \E p \in Queries : IsTx(p)) =>
                                  \A i \in 1 .. Len(results[q]) : DurableAt(q, i))
<1>1. DOMAIN results[q] = 1 .. Len(results[q])
  BY FieldFacts
<1>2. (\E p \in Queries : InTransaction(p)) <=> (\E p \in Queries : IsTx(p))
  BY FieldFacts
<1> QED BY <1>1, <1>2 DEF InOrder, InPlace, Durable, DurableAt

\* And in the next state.
LEMMA NextSplit ==
    ASSUME ControlInv', NEW q \in Queries
    PROVE  /\ DOMAIN results'[q] = 1 .. Len(results'[q])
           /\ (\A i \in 1 .. Len(results[q]) : InPlace(q, i))' => InOrder(q)'
           /\ (~(Shared /\ \E p \in Queries : IsTx(p)) =>
                  \A i \in 1 .. Len(results[q]) : DurableAt(q, i))' => Durable(q)'
<1>1. /\ results' \in [Queries -> Seq(Results)]
      /\ \A p \in Queries : (InTransaction(p) <=> IsTx(p))'
  BY DEF ControlInv, ShapeInv
<1>2. DOMAIN results'[q] = 1 .. Len(results'[q])
  BY <1>1
<1>3. (\A i \in 1 .. Len(results[q]) : InPlace(q, i))' => InOrder(q)'
  BY <1>2 DEF InOrder, InPlace
<1>4. (\E p \in Queries : InTransaction(p))' <=> (\E p \in Queries : IsTx(p))'
  BY <1>1
<1>5. (~(Shared /\ \E p \in Queries : IsTx(p)) =>
          \A i \in 1 .. Len(results[q]) : DurableAt(q, i))' => Durable(q)'
  BY <1>2, <1>4 DEF Durable, DurableAt
<1> QED BY <1>2, <1>3, <1>5

\* A query that has not returned has the results of its statements, and no error in
\* their place.
LEMMA PlaceByPlace ==
    ASSUME ControlInv, NEW q \in Queries, ~IsTx(q), pc[q] # "end", InOrder(q)
    PROVE  \A i \in 1 .. Len(results[q]) : InPlace(q, i)
<1>1. PlacesOk(q) /\ about[q] \in Seq(Nat) /\ stmt[q] \in Nat /\ Len(about[q]) \in Nat
  BY FieldFacts DEF ResultOk
<1>2. about[q] = <<0>> => Len(about[q]) = 1 /\ about[q][1] = 0
  OBVIOUS
<1>3. about[q] # <<0>>
  BY <1>1, <1>2 DEF PlacesOk
<1> QED BY <1>3, TrueSplit

\* Results of the statement at hand are in their place.
LEMMA GrownInPlace ==
    ASSUME ControlInv, ControlInv', NEW q \in Queries, ~IsTx(q), pc[q] # "end", InOrder(q),
           NEW r \in Results, NEW n \in Nat, n >= 1, n # 1 => Shared /\ path[q] = "batch",
           Grown(q, r, n), path'[q] = path[q], Shared' <=> Shared
    PROVE  /\ InOrder(q)'
           /\ \A i \in 1 .. Len(results'[q]) :
                  \/ /\ i \in 1 .. Len(results[q])
                     /\ results'[q][i] = results[q][i] /\ about'[q][i] = about[q][i]
                  \/ results'[q][i] = r /\ about'[q][i] = stmt[q]
<1> DEFINE k == Len(results[q])
<1>1. /\ PlacesOk(q) /\ stmt[q] \in Nat /\ stmt[q] >= 1 /\ k \in Nat /\ Len(about[q]) = k
      /\ about[q] = <<>> => k = 0
  BY FieldFacts DEF ResultOk
<1>2. /\ Len(results'[q]) = k + n
      /\ \A i \in 1 .. k : results'[q][i] = results[q][i] /\ about'[q][i] = about[q][i]
      /\ \A i \in k + 1 .. k + n : results'[q][i] = r /\ about'[q][i] = stmt[q]
  BY FieldFacts, GrownFacts
<1> HIDE DEF k
<1>3. \A i \in 1 .. k : InPlace(q, i)
  BY PlaceByPlace DEF k
<1>4. ASSUME NEW i \in 1 .. k + n PROVE InPlace(q, i)'
  <2>1. CASE i \in 1 .. k
    <3>1. about'[q][i] = about[q][i]
      BY <1>2, <2>1
    <3>2. i # 1 => i - 1 \in 1 .. k
      BY <1>1, <2>1
    <3>3. i # 1 => about'[q][i - 1] = about[q][i - 1]
      BY <1>2, <3>2
    <3> QED BY <1>3, <2>1, <3>1, <3>3 DEF InPlace
  <2>2. CASE i = k + 1
    <3>1. about'[q][i] = stmt[q]
      BY <1>1, <1>2, <2>2
    <3>2. CASE i = 1
      <4>1. stmt[q] = 1
        BY <1>1, <2>2, <3>2 DEF PlacesOk
      <4> QED BY <3>1, <3>2, <4>1 DEF InPlace
    <3>3. CASE i # 1
      <4>1. k >= 1 /\ i - 1 = k
        BY <1>1, <2>2, <3>3
      <4>2. about'[q][k] = about[q][k] /\ about[q][k] = stmt[q] - 1
        BY <1>1, <1>2, <4>1 DEF PlacesOk
      <4> QED BY <1>1, <3>1, <3>3, <4>1, <4>2 DEF InPlace
    <3> QED BY <3>2, <3>3
  <2>3. CASE i \in k + 2 .. k + n
    <3>1. i > 1 /\ i # 1 /\ i \in k + 1 .. k + n /\ i - 1 \in k + 1 .. k + n /\ n # 1
      BY <1>1, <2>3
    <3>2. about'[q][i] = stmt[q] /\ about'[q][i - 1] = stmt[q]
      BY <1>2, <3>1
    <3> QED BY <3>1, <3>2 DEF InPlace
  <2> QED BY <1>1, <2>1, <2>2, <2>3
<1>5. InOrder(q)'
  <2>1. (\A i \in 1 .. Len(results[q]) : InPlace(q, i))' => InOrder(q)'
    BY NextSplit
  <2> QED BY <1>2, <1>4, <2>1
<1>6. \A i \in 1 .. k + n : i \in 1 .. k \/ i \in k + 1 .. k + n
  BY <1>1
<1> QED BY <1>2, <1>5, <1>6 DEF k

\* What keeps the results of a query true: it says nothing.
LEMMA OrderSame ==
    ASSUME NEW q \in Queries, Statements(q)' = Statements(q), Shared' <=> Shared,
           \A p \in Queries : InTransaction(p)' <=> InTransaction(p),
           results'[q] = results[q], about'[q] = about[q], path'[q] = path[q],
           committed \subseteq committed', InOrder(q), Durable(q)
    PROVE  InOrder(q)' /\ Durable(q)'
<1>1. InOrder(q)'
  BY DEF InOrder
<1>2. Durable(q)'
  BY DEF Durable
<1> QED BY <1>1, <1>2

\* It has said nothing.
LEMMA NothingTrue ==
    ASSUME ControlInv', NEW q \in Queries, Len(results[q])' = 0
    PROVE  InOrder(q)' /\ Durable(q)'
<1>1. DOMAIN results'[q] = 1 .. Len(results'[q])
  BY NextSplit
<1>2. DOMAIN results'[q] = {}
  BY <1>1
<1> QED BY <1>2 DEF InOrder, Durable

\* An error is its whole answer.
NoPlace == <<0>>
LEMMA ErrorTrue ==
    ASSUME ControlInv', NEW q \in Queries, about'[q] = NoPlace, results'[q] # <<"ok">>,
           \A i \in 1 .. Len(results'[q]) : results'[q][i] # "ok"
    PROVE  InOrder(q)' /\ Durable(q)'
<1>1. DOMAIN results'[q] = 1 .. Len(results'[q])
  BY NextSplit
<1> QED BY <1>1 DEF InOrder, Durable, NoPlace

\* What it says of the statement at hand is durable.
LEMMA DurableOn ==
    ASSUME ControlInv, ControlInv', NEW q \in Queries, Durable(q), Statements(q)' = Statements(q),
           Shared' <=> Shared, (\E x \in Queries : IsTx(x))' <=> \E x \in Queries : IsTx(x),
           committed \subseteq committed', NEW r,
           r = "ok" /\ ~(Shared /\ \E x \in Queries : IsTx(x)) /\ Statements(q)[stmt[q]] = "write" =>
               <<q, stmt[q]>> \in committed',
           \A i \in 1 .. Len(results'[q]) :
               \/ /\ i \in 1 .. Len(results[q])
                  /\ results'[q][i] = results[q][i] /\ about'[q][i] = about[q][i]
               \/ results'[q][i] = r /\ about'[q][i] = stmt[q]
    PROVE  Durable(q)'
<1>1. (~(Shared /\ \E p \in Queries : IsTx(p)) =>
          \A i \in 1 .. Len(results[q]) : DurableAt(q, i))' => Durable(q)'
  BY NextSplit
<1>2. ~(Shared /\ \E p \in Queries : IsTx(p)) => \A i \in 1 .. Len(results[q]) : DurableAt(q, i)
  BY TrueSplit
<1>3. ASSUME ~(Shared /\ \E p \in Queries : IsTx(p)), NEW i \in 1 .. Len(results'[q])
      PROVE  DurableAt(q, i)'
  BY <1>2, <1>3 DEF DurableAt
<1> QED BY <1>1, <1>3

\* A step at the client keeps the invariant.
LEMMA QuietInductive ==
    ASSUME IInv, NEW q \in Queries, ClientStep(q)
    PROVE  IInv'
<1> USE DEF IInv, ServerInv
<1>1. ControlInv /\ SamePath(q) /\ Local(q) /\ Quiet(q)
  BY DEF ClientStep
<1>2. /\ \A p \in Queries : /\ Script(p)' = Script(p) /\ Writes(p)' = Writes(p)
                            /\ Statements(p)' = Statements(p)
                            /\ (IsTx(p)' <=> IsTx(p)) /\ (InTransaction(p)' <=> IsTx(p))
      /\ Shared' <=> Shared
      /\ \A p \in Queries \ {q} : /\ pc'[p] = pc[p] /\ stmt'[p] = stmt[p]
                                  /\ conn'[p] = conn[p] /\ results'[p] = results[p]
                                  /\ about'[p] = about[p] /\ path'[p] = path[p]
  BY <1>1, OthersSame
<1>3. UNCHANGED <<depth, pending, committed, dead, executed>>
  BY <1>1 DEF Quiet
<1>4. ControlInv'
  <2>1. ServerOk'
    BY <1>2, <1>3, ControlSplit, SMTT(30) DEF ServerOk
  <2> QED BY <1>1, <2>1, ControlLift DEF ClientStep
<1>5. conn'[q] = conn[q] \/ conn'[q] = None \/ (\A p \in Queries : conn[p] # conn'[q])
  BY <1>1 DEF Quiet, Free
<1>6. ConnInv'
  BY <1>2, <1>5 DEF ConnInv
<1>7. ASSUME IsTx(q), ~Shared
      PROVE  /\ stmt'[q] = stmt[q] /\ pc[q] # "end"
             /\ conn[q] # None => conn'[q] = conn[q] /\ pc'[q] # "end"
  BY <1>1, <1>7 DEF Quiet
<1>8. DepthInv'
  <2>1. ASSUME NEW c \in Conns, depth[c] > 0
        PROVE  \E p \in Queries : IsTx(p) /\ (~Shared => conn'[p] = c)
    <3>1. PICK p \in Queries : IsTx(p) /\ (~Shared => conn[p] = c)
      BY <2>1 DEF DepthInv
    <3>2. ~Shared => conn'[p] = c
      BY <1>2, <1>7, <3>1, ConstantFacts
    <3> QED BY <3>1, <3>2
  <2> QED BY <1>2, <1>3, <2>1 DEF DepthInv
<1>9. PendingInv'
  <2> SUFFICES ASSUME ~Shared, NEW c \in Conns, NEW p \in Queries, NEW i \in Nat, <<p, i>> \in pending[c]
               PROVE  IsTx(p) /\ conn'[p] = c
    BY <1>2, <1>3 DEF PendingInv
  <2>1. IsTx(p) /\ conn[p] = c /\ c # None
    BY ConstantFacts DEF PendingInv
  <2> QED BY <1>2, <1>7, <2>1
<1>10. TxInv'
  <2>1. ASSUME NEW p \in Queries, IsTx(p), ~Shared, p # q PROVE TxOk(p)'
    BY <1>2, <1>3, <2>1 DEF TxInv, TxOk
  <2>2. ASSUME IsTx(q), ~Shared PROVE TxOk(q)'
    <3>1. TxOk(q) /\ pc[q] # "end" /\ stmt'[q] = stmt[q]
      BY <1>7, <2>2 DEF TxInv
    <3>2. CASE conn[q] # None
      BY <1>2, <1>3, <1>7, <2>2, <3>1, <3>2 DEF TxOk
    <3>3. CASE conn[q] = None /\ conn'[q] = None
      BY <1>2, <1>3, <3>1, <3>3 DEF TxOk
    <3>4. CASE conn[q] = None /\ conn'[q] # None
      <4>1. stmt[q] = 1
        BY <3>1, <3>4 DEF TxOk
      <4>2. conn'[q] \in Conns /\ depth[conn'[q]] \in Nat
        BY <1>4, <3>4, ControlSplit DEF ServerOk, ControlInv, TypeOK
      <4>3. ~(depth[conn'[q]] > 0)
        BY <1>5, <2>2, <3>4, <4>2 DEF DepthInv
      <4>4. \A w \in Writes(q) : ~(w[2] < 1)
        BY <1>1, FieldFacts, WriteFacts
      <4> QED BY <1>2, <1>3, <3>1, <3>4, <4>1, <4>2, <4>3, <4>4 DEF TxOk
    <3> QED BY <3>2, <3>3, <3>4
  <2> QED BY <1>2, <2>1, <2>2 DEF TxInv
<1>11. ExecInv'
  <2> SUFFICES ASSUME NEW p \in Queries, NEW w \in Writes(p), w[2] >= stmt'[p], pc'[p] # "end"
               PROVE  executed[w] = 0
    BY <1>2, <1>3 DEF ExecInv
  <2>1. CASE p # q
    BY <1>2, <2>1 DEF ExecInv
  <2>2. CASE p = q
    <3>1. stmt'[q] >= stmt[q] /\ pc[q] # "end"
      BY <1>1, <2>2 DEF Quiet
    <3>2. w[2] \in Nat /\ stmt[q] \in Nat /\ stmt'[q] \in Nat
      BY <1>4, <2>2, WriteFacts, ScriptFacts, ControlSplit DEF ControlInv, ShapeInv
    <3>3. w[2] >= stmt[q]
      BY <2>2, <3>1, <3>2
    <3> QED BY <2>2, <3>1, <3>3 DEF ExecInv
  <2> QED BY <2>1, <2>2
<1>12. WriteOnce'
  BY <1>3 DEF WriteOnce
<1>13. ResultsTrue'
  <2> SUFFICES ASSUME NEW p \in Queries, ~IsTx(p) PROVE InOrder(p)' /\ Durable(p)'
    BY <1>2 DEF ResultsTrue
  <2>1. InOrder(p) /\ Durable(p)
    BY FieldFacts DEF ResultsTrue
  <2>2. (\E x \in Queries : IsTx(x))' <=> \E x \in Queries : IsTx(x)
    BY <1>2
  <2>3. \A x \in Queries : InTransaction(x)' <=> InTransaction(x)
    BY <1>2, FieldFacts
  <2>4. CASE p # q
    BY <1>2, <1>3, <2>1, <2>4, <2>3, OrderSame
  <2>5. CASE p = q /\ Silent(q)
    <3>1. about[q] = <<>> => Len(results[q]) = 0 /\ Len(results[q])' = 0
      BY <1>4, <2>5, FieldFacts DEF Silent
    <3>2. CASE path'[q] = path[q]
      BY <1>2, <1>3, <2>1, <2>5, <2>3, <3>2, OrderSame DEF Silent
    <3>3. CASE path'[q] # path[q]
      <4>1. Len(results[q])' = 0
        BY <1>1, <3>1, <3>3 DEF Quiet
      <4> QED BY <1>4, <2>5, <4>1, NothingTrue
    <3> QED BY <3>2, <3>3
  <2>6. ASSUME NEW r \in Results \ {"ok"}, Grown(q, r, 1), p = q
        PROVE  InOrder(p)' /\ Durable(p)'
    <3>1. pc[q] # "end" /\ path'[q] = path[q]
      <4>1. Len(results'[q]) = Len(results[q]) + 1 /\ Len(results[q]) \in Nat
        BY <2>6, FieldFacts, GrownFacts
      <4>2. results'[q] # results[q]
        BY <4>1
      <4> QED BY <1>1, <4>2 DEF Quiet, Silent
    <3>2. /\ InOrder(q)'
          /\ \A i \in 1 .. Len(results'[q]) :
                 \/ /\ i \in 1 .. Len(results[q])
                    /\ results'[q][i] = results[q][i] /\ about'[q][i] = about[q][i]
                 \/ results'[q][i] = r /\ about'[q][i] = stmt[q]
      BY <1>2, <1>4, <2>1, <2>6, <3>1, GrownInPlace
    <3> QED BY <1>2, <1>3, <1>4, <2>1, <2>2, <2>6, <3>2, DurableOn
  <2>7. ASSUME NEW r \in Results \ {"ok"}, results'[q] = <<r>>, about'[q] = NoPlace, p = q
        PROVE  InOrder(p)' /\ Durable(p)'
    <3>1. <<r>> # <<"ok">> /\ Len(<<r>>) = 1 /\ <<r>>[1] # "ok"
      BY <2>7
    <3>2. \A i \in 1 .. Len(results'[q]) : results'[q][i] # "ok"
      BY <2>7, <3>1
    <3> QED BY <1>4, <2>7, <3>1, <3>2, ErrorTrue
  <2> QED BY <1>1, <2>4, <2>5, <2>6, <2>7 DEF Quiet, NoPlace
<1>14. TxAtomic'
  <2> SUFFICES ASSUME NEW p \in Queries, IsTx(p), ~Shared
               PROVE  /\ committed \cap Writes(p) \in {{}, Writes(p)}
                      /\ results'[p] = <<"ok">> => Writes(p) \subseteq committed
    BY <1>2, <1>3 DEF TxAtomic
  <2>1. /\ committed \cap Writes(p) \in {{}, Writes(p)}
        /\ results[p] = <<"ok">> => Writes(p) \subseteq committed
    BY FieldFacts DEF TxAtomic
  <2>2. CASE p # q
    BY <1>2, <2>1, <2>2
  <2>3. CASE p = q
    <3>1. results[q] = <<>>
      BY <1>7, <2>3, FieldFacts DEF ResultOk
    <3>2. <<>> # <<"ok">> /\ \A r \in Results \ {"ok"} : <<r>> # <<"ok">>
      OBVIOUS
    <3>3. \A r \in Results : Grown(q, r, 1) => results'[q] = <<r>>
      BY <1>1, <3>1, FieldFacts, GrownFacts
    <3>4. results'[q] # <<"ok">>
      BY <1>1, <3>1, <3>2, <3>3 DEF Quiet, Silent
    <3> QED BY <2>1, <2>3, <3>4
  <2> QED BY <2>2, <2>3
<1> QED BY <1>4, <1>6, <1>8, <1>9, <1>10, <1>11, <1>12, <1>13, <1>14

(***************************************************************************)
(* An answer of the server.                                                 *)
(***************************************************************************)
\* The write the server carried out, if it did and it is one.
Wrote(q, done) == IF done /\ Op(q) = "write" THEN {<<q, stmt[q]>>} ELSE {}
RolledBack(q, r) == r = "lost" \/ (InTransaction(q) /\ ~Shared /\ Ends(q, r))
Commits(q, done) == Depth(q, done) = 0 /\ ~(done /\ Op(q) = "rollback")

\* The transaction depth: a COMMIT or ROLLBACK that is carried out meets a transaction.
LEMMA DepthFacts ==
    ASSUME NEW q \in Queries, NEW done \in BOOLEAN, depth[conn[q]] \in Nat, Op(q) \in Ops,
           done /\ Op(q) \in {"commit", "rollback"} => depth[conn[q]] # 0
    PROVE  /\ Depth(q, done) \in Nat
           /\ ~done \/ Op(q) \in {"read", "write"} => Depth(q, done) = depth[conn[q]]
           /\ done /\ Op(q) = "begin" => Depth(q, done) = depth[conn[q]] + 1
           /\ done /\ Op(q) = "commit" => Depth(q, done) = depth[conn[q]] - 1
<1>1. CASE ~done
  BY <1>1 DEF Depth
<1>2. CASE done /\ Op(q) = "begin"
  BY <1>2 DEF Depth
<1>3. CASE done /\ Op(q) = "commit"
  BY <1>3 DEF Depth
<1>4. CASE done /\ Op(q) = "rollback"
  BY <1>4 DEF Depth
<1>5. CASE done /\ Op(q) \in {"read", "write"}
  BY <1>5 DEF Depth
<1> QED BY <1>1, <1>2, <1>3, <1>4, <1>5 DEF Ops

\* The outcome of a statement and what the server did for it.
Served(q, r, done) ==
    /\ r \in Results /\ done \in BOOLEAN /\ (r = "ok" => done)
    /\ done /\ Op(q) \in {"commit", "rollback"} => depth[conn[q]] # 0
    /\ r = "canceled" => IsCanceled(q)
    /\ After(q, r)
    /\ dead' \subseteq dead \cup {conn[q]}
    /\ executed' = [x \in DOMAIN executed |-> executed[x] + (IF x \in Wrote(q, done) THEN 1 ELSE 0)]
    /\ depth' = [depth EXCEPT ![conn[q]] = IF RolledBack(q, r) THEN 0 ELSE Depth(q, done)]
    /\ pending' = [pending EXCEPT ![conn[q]] =
                     IF RolledBack(q, r) \/ Depth(q, done) = 0 THEN {} ELSE @ \cup Wrote(q, done)]
    /\ committed' = IF Commits(q, done) THEN committed \cup (pending[conn[q]] \cup Wrote(q, done))
                    ELSE committed

\* Every answer is one of these.
LEMMA AnsweredServes ==
    ASSUME ControlInv, NEW q \in Queries, pc[q] = "running", Answered(q)
    PROVE  \E r \in Results, done \in BOOLEAN : Served(q, r, done)
<1>1. PICK o \in Outcomes(q) :
          /\ Execute(q, o[2], o[1] = "lost" \/ (InTransaction(q) /\ ~Shared /\ Ends(q, o[1])))
          /\ dead' = IF Shared /\ o[1] = "lost" THEN dead \cup {conn[q]} ELSE dead
          /\ After(q, o[1])
  BY DEF Answered
<1>2. /\ o[1] \in Results /\ o[2] \in BOOLEAN /\ (o[1] = "ok" => o[2])
      /\ o[2] /\ Op(q) \in {"commit", "rollback"} => depth[conn[q]] # 0
      /\ o[1] = "canceled" => IsCanceled(q)
  <2> DEFINE idle == Op(q) \in {"commit", "rollback"} /\ depth[conn[q]] = 0
             maybe == IF idle \/ conn[q] \in dead THEN {FALSE} ELSE BOOLEAN
  <2>1. maybe \subseteq BOOLEAN /\ (idle => TRUE \notin maybe)
    OBVIOUS
  <2>2. path[q] = "batch" => Op(q) \in {"read", "write"}
    <3>1. path[q] = "batch" => ~InTransaction(q)
      BY DEF InTransaction
    <3> QED BY <3>1, FieldFacts, ScriptFacts DEF Op, ScriptOk, Sending
  <2>3. CASE ~(idle \/ conn[q] \in dead) /\ o = <<"ok", TRUE>>
    BY <2>3 DEF Results
  <2>4. CASE o \in {"error"} \X (IF Shared /\ path[q] = "batch" THEN BOOLEAN ELSE {FALSE})
    BY <2>4, <2>2 DEF Results
  <2>5. CASE o \in {"lost"} \X maybe
    BY <2>1, <2>5 DEF Results
  <2>6. CASE o \in {"timeout"} \X maybe
    BY <2>1, <2>6 DEF Results
  <2>7. CASE IsCanceled(q) /\ o \in {"canceled"} \X maybe
    BY <2>1, <2>7 DEF Results
  <2> QED BY <1>1, <2>3, <2>4, <2>5, <2>6, <2>7 DEF Outcomes
<1>3. dead' \subseteq dead \cup {conn[q]}
  BY <1>1
<1>4. Served(q, o[1], o[2])
  BY <1>1, <1>2, <1>3 DEF Served, Execute, Wrote, RolledBack, Commits
<1> QED BY <1>2, <1>4

\* An answer to a statement of a query keeps the control state in order.
LEMMA ServedControl ==
    ASSUME ControlInv, NEW q \in Queries, NEW r \in Results, NEW done \in BOOLEAN,
           pc[q] = "running", UNCHANGED <<setup, token, path, held>>, Served(q, r, done)
    PROVE  /\ conn[q] \in Conns /\ stmt[q] \in 1 .. Len(Script(q)) /\ Op(q) \in Ops
           /\ SamePath(q) /\ Local(q) /\ ControlInv'
           /\ IsTx(q) => r # "canceled"
<1>1. conn[q] \in Conns /\ conn[q] # None
  BY FieldFacts DEF ConnOk
<1>2. stmt[q] \in 1 .. Len(Script(q)) /\ Op(q) \in Ops
  BY FieldFacts, ScriptFacts DEF ScriptOk, Sending, Op
<1>3. Local(q) /\ QueryOk(q)' /\ PoolOk' /\ SamePath(q)
  BY <1>1, AfterOk DEF Served, SamePath
<1>4. \A p \in Queries : Writes(p)' = Writes(p)
  BY <1>3, OthersSame
<1>5. ServerOk'
  <2>1. ServerOk /\ depth[conn[q]] \in Nat
    BY <1>1, ControlSplit DEF ServerOk
  <2>2. Depth(q, done) \in Nat
    BY <1>2, <2>1, DepthFacts DEF Served
  <2>3. depth' \in [Conns -> Nat]
    BY <2>1, <2>2 DEF Served, ServerOk
  <2>4. Wrote(q, done) \subseteq Queries \X Nat
    BY <1>2, FieldFacts DEF Wrote
  <2>5. pending' \in [Conns -> SUBSET (Queries \X Nat)]
    BY <2>1, <2>4 DEF Served, ServerOk
  <2>6. committed' \subseteq Queries \X Nat
    BY <1>1, <2>1, <2>4 DEF Served, ServerOk
  <2>7. dead' \subseteq Conns
    BY <1>1, <2>1 DEF Served, ServerOk
  <2>8. executed' \in [UNION {Writes(p) : p \in Queries} -> Nat]
    <3>1. DOMAIN executed = UNION {Writes(p) : p \in Queries}
      BY <2>1 DEF ServerOk
    <3>2. \A x \in DOMAIN executed : executed[x] + (IF x \in Wrote(q, done) THEN 1 ELSE 0) \in Nat
      BY <2>1 DEF ServerOk
    <3> QED BY <3>1, <3>2 DEF Served
  <2>9. (UNION {Writes(p) : p \in Queries})' = UNION {Writes(p) : p \in Queries}
    BY <1>4
  <2> QED BY <2>3, <2>5, <2>6, <2>7, <2>8, <2>9 DEF ServerOk
<1>6. ControlInv'
  BY <1>3, <1>5, ControlLift
<1>7. IsTx(q) => r # "canceled"
  BY FieldFacts DEF Served, IsCanceled, ScriptOk
<1> QED BY <1>1, <1>2, <1>3, <1>6, <1>7

\* An answer keeps the invariant.
LEMMA ServedInductive ==
    ASSUME IInv, NEW q \in Queries, NEW r \in Results, NEW done \in BOOLEAN,
           pc[q] = "running", UNCHANGED <<setup, token, path, held>>, Served(q, r, done)
    PROVE  IInv'
<1> USE DEF IInv, ServerInv
<1> DEFINE c == conn[q]
<1>1. /\ c \in Conns /\ c # None /\ stmt[q] \in 1 .. Len(Script(q)) /\ Op(q) \in Ops
      /\ SamePath(q) /\ Local(q) /\ ControlInv' /\ (IsTx(q) => r # "canceled")
  BY ServedControl, ConstantFacts
<1>2. /\ \A p \in Queries : /\ Script(p)' = Script(p) /\ Writes(p)' = Writes(p)
                            /\ Statements(p)' = Statements(p)
                            /\ (IsTx(p)' <=> IsTx(p)) /\ (InTransaction(p)' <=> IsTx(p))
      /\ Shared' <=> Shared
      /\ \A p \in Queries \ {q} : /\ pc'[p] = pc[p] /\ stmt'[p] = stmt[p]
                                  /\ conn'[p] = conn[p] /\ results'[p] = results[p]
                                  /\ about'[p] = about[p] /\ path'[p] = path[p]
  BY <1>1, OthersSame
<1>3. Again(q) \/ (Ends(q, r) /\ Over(q) /\ Said(q, r)) \/ Onward(q, r)
  BY AfterFacts DEF Served
<1>4. conn'[q] \in {c, None}
  BY <1>3 DEF Again, Over, Onward
<1>5. /\ depth[c] \in Nat /\ Depth(q, done) \in Nat
      /\ ~done \/ Op(q) \in {"read", "write"} => Depth(q, done) = depth[c]
      /\ done /\ Op(q) = "begin" => Depth(q, done) = depth[c] + 1
      /\ done /\ Op(q) = "commit" => Depth(q, done) = depth[c] - 1
  <2>1. depth[c] \in Nat
    BY <1>1, ControlSplit DEF ServerOk
  <2> QED BY <1>1, <2>1, DepthFacts DEF Served
<1>6. /\ \A b \in Conns : b # c => depth'[b] = depth[b] /\ pending'[b] = pending[b]
      /\ depth'[c] = IF RolledBack(q, r) THEN 0 ELSE Depth(q, done)
      /\ pending'[c] = IF RolledBack(q, r) \/ Depth(q, done) = 0 THEN {}
                       ELSE pending[c] \cup Wrote(q, done)
      /\ committed' = IF Commits(q, done) THEN committed \cup (pending[c] \cup Wrote(q, done))
                      ELSE committed
  BY <1>1, ControlSplit DEF Served, ServerOk
<1>7. \A w \in Wrote(q, done) : w = <<q, stmt[q]>> /\ done /\ Op(q) = "write"
  BY DEF Wrote
<1> HIDE DEF c
<1>8. \A p \in Queries : p # q => conn[p] # c
  BY <1>1 DEF ConnInv, c
<1>9. /\ InTransaction(q) <=> IsTx(q)
      /\ ~IsTx(q) => Op(q) \in {"read", "write"}
  BY <1>1, FieldFacts, ScriptFacts DEF Op
<1>10. ~IsTx(q) /\ ~(Shared /\ \E p \in Queries : IsTx(p)) =>
           depth[c] = 0 /\ pending[c] = {} /\ Depth(q, done) = 0 /\ Commits(q, done)
  <2>1. ~IsTx(q) /\ ~(Shared /\ \E p \in Queries : IsTx(p)) => depth[c] = 0 /\ pending[c] = {}
    BY <1>1, NoDepth DEF c
  <2> QED BY <1>5, <1>9, <2>1 DEF Commits
<1>11. IsTx(q) /\ ~Shared /\ ~RolledBack(q, r) => Onward(q, r) /\ conn'[q] = c
  BY <1>3, <1>9 DEF RolledBack, Again, Onward, InTransaction, Keeps, c
<1>12. ~Shared => \A p \in Queries, i \in Nat : <<p, i>> \in pending[c] => p = q /\ IsTx(q)
  BY <1>1, <1>8 DEF PendingInv
<1>13. ConnInv'
  BY <1>2, <1>4, <1>8 DEF ConnInv, c
<1>14. DepthInv'
  <2>1. \A b \in Conns : depth'[b] = 0 => pending'[b] = {}
    BY <1>5, <1>6 DEF DepthInv
  <2>2. ASSUME NEW b \in Conns, depth'[b] > 0
        PROVE  \E p \in Queries : IsTx(p) /\ (~Shared => conn'[p] = b)
    <3>1. CASE IsTx(q) /\ (Shared \/ (b = c /\ ~RolledBack(q, r)))
      BY <1>11, <3>1
    <3>2. CASE b # c
      <4>1. PICK p \in Queries : IsTx(p) /\ (~Shared => conn[p] = b)
        BY <1>6, <2>2, <3>2 DEF DepthInv
      <4> QED BY <1>2, <3>2, <4>1 DEF c
    <3>3. CASE b = c /\ ~IsTx(q)
      <4>1. depth[c] > 0
        BY <1>5, <1>6, <1>9, <2>2, <3>3
      <4>2. PICK p \in Queries : IsTx(p) /\ (~Shared => conn[p] = c)
        BY <1>1, <4>1 DEF DepthInv
      <4>3. Shared
        BY <1>8, <3>3, <4>2
      <4> QED BY <4>2, <4>3
    <3>4. CASE b = c /\ RolledBack(q, r)
      BY <1>6, <2>2, <3>4
    <3> QED BY <3>1, <3>2, <3>3, <3>4
  <2> QED BY <1>2, <2>1, <2>2 DEF DepthInv
<1>15. PendingInv'
  <2> SUFFICES ASSUME ~Shared, NEW b \in Conns, NEW p \in Queries, NEW i \in Nat, <<p, i>> \in pending'[b]
               PROVE  IsTx(p) /\ conn'[p] = b
    BY <1>2 DEF PendingInv
  <2>1. CASE b # c
    <3>1. IsTx(p) /\ conn[p] = b
      BY <1>6, <2>1 DEF PendingInv
    <3> QED BY <1>2, <2>1, <3>1 DEF c
  <2>2. CASE b = c
    <3>1. ~RolledBack(q, r) /\ Depth(q, done) # 0 /\ <<p, i>> \in pending[c] \cup Wrote(q, done)
      BY <1>6, <2>2
    <3>2. IsTx(q)
      BY <1>10, <3>1
    <3>3. p = q
      BY <1>7, <1>12, <3>1
    <3> QED BY <1>11, <2>2, <3>1, <3>2, <3>3
  <2> QED BY <2>1, <2>2
<1>16. ASSUME NEW p \in Queries, p # q, ~Shared
       PROVE  committed' \cap Writes(p) = committed \cap Writes(p)
  <2>1. \A w \in Writes(p) : w = <<p, w[2]>> /\ w[2] \in Nat
    BY <1>1, FieldFacts, WriteFacts, ScriptFacts
  <2>2. \A w \in Writes(p) : w \notin pending[c] /\ w \notin Wrote(q, done)
    BY <1>7, <1>12, <1>16, <2>1
  <2> QED BY <1>6, <2>2
<1>17. ASSUME IsTx(q), ~Shared
       PROVE  /\ TxOk(q) /\ results[q] = <<>> /\ committed \cap Writes(q) = {}
              /\ stmt[q] = 1 <=> Op(q) = "begin"
              /\ depth[c] = IF stmt[q] = 1 THEN 0 ELSE 1
              /\ {w \in Writes(q) : w[2] < stmt[q]} \subseteq pending[c]
              /\ depth[c] = 0 => pending[c] = {}
              /\ (Op(q) = "begin" => depth[c] = 0) /\ (Op(q) # "begin" => depth[c] = 1)
              /\ Again(q) => FALSE
              /\ Len(Script(q)) \in Nat
  <2>1. TxOk(q)
    BY <1>17 DEF TxInv
  <2>2. results[q] = <<>> /\ setup \in Setups /\ Len(Script(q)) \in Nat
    BY <1>17, FieldFacts DEF ResultOk
  <2>3. stmt[q] = 1 <=> Op(q) = "begin"
    <3>1. /\ Script(q)[1] = "begin" /\ Script(q)[Len(Script(q)) - 1] = "commit"
          /\ Script(q)[Len(Script(q))] = "rollback"
          /\ \A i \in 2 .. Len(Script(q)) - 2 : Script(q)[i] \in {"read", "write"}
      BY <1>9, <1>17, <2>2, ScriptFacts
    <3>2. \/ stmt[q] = 1 \/ stmt[q] = Len(Script(q)) - 1 \/ stmt[q] = Len(Script(q))
          \/ stmt[q] \in 2 .. Len(Script(q)) - 2
      BY <1>1, <2>2
    <3>3. Len(Script(q)) >= 4
      BY <1>9, <1>17, <2>2, ScriptFacts
    <3> QED BY <2>2, <3>1, <3>2, <3>3 DEF Op
  <2>4. ~Again(q)
    BY <1>9, <1>17 DEF Again, InTransaction
  <2>5. (Op(q) = "begin" => depth[c] = 0) /\ (Op(q) # "begin" => depth[c] = 1)
    BY <1>1, <2>1, <2>3 DEF TxOk, c
  <2> QED BY <1>1, <2>1, <2>2, <2>3, <2>4, <2>5 DEF TxOk, c, DepthInv
<1>18. TxInv'
  <2>1. ASSUME NEW p \in Queries, IsTx(p), ~Shared, p # q PROVE TxOk(p)'
    <3>1. TxOk(p) /\ committed' \cap Writes(p) = committed \cap Writes(p)
      BY <1>16, <2>1 DEF TxInv
    <3>2. /\ pc'[p] = pc[p] /\ stmt'[p] = stmt[p] /\ conn'[p] = conn[p]
          /\ Writes(p)' = Writes(p)
      BY <1>2, <2>1
    <3>3. conn[p] # None => conn[p] \in Conns /\ conn[p] # c
      BY <1>8, <2>1, FieldFacts
    <3> QED BY <1>6, <3>1, <3>2, <3>3 DEF TxOk
  <2>2. ASSUME IsTx(q), ~Shared PROVE TxOk(q)'
    <3>1. CASE Ends(q, r) /\ Over(q)
      BY <3>1 DEF TxOk, Over
    <3>2. CASE Onward(q, r)
      <4>1. /\ ~Ends(q, r) /\ pc'[q] = "next" /\ conn'[q] = c /\ stmt'[q] = stmt[q] + 1
        <5>1. NextStmt(q, r) = stmt[q] + 1
          BY <1>1, <2>2, <3>2, FieldFacts, NextStmtFacts DEF Onward
        <5>2. Keeps(q)
          BY <1>9, <2>2 DEF Keeps, InTransaction
        <5> QED BY <3>2, <5>1, <5>2 DEF Onward, c
      <4>2. r = "ok" /\ Op(q) \notin {"commit", "rollback"} /\ done /\ ~RolledBack(q, r)
        BY <1>9, <2>2, <4>1, EndsFacts DEF RolledBack, Served
      <4>3. Depth(q, done) = 1
        <5>1. CASE Op(q) = "begin"
          <6>1. depth[c] = 0
            BY <1>17, <2>2, <5>1
          <6>2. Depth(q, done) = depth[c] + 1
            BY <1>5, <4>2, <5>1
          <6> QED BY <6>1, <6>2
        <5>2. CASE Op(q) \in {"read", "write"}
          <6>1. depth[c] = 1
            BY <1>17, <2>2, <5>2
          <6> QED BY <1>5, <5>2, <6>1
        <5> QED BY <1>1, <4>2, <5>1, <5>2 DEF Ops
      <4>4. /\ depth'[c] = 1 /\ pending'[c] = pending[c] \cup Wrote(q, done)
            /\ committed' = committed
        <5>1. Depth(q, done) # 0 /\ ~Commits(q, done)
          BY <4>3 DEF Commits
        <5>2. depth'[c] = 1
          BY <1>6, <4>2, <4>3
        <5>3. pending'[c] = pending[c] \cup Wrote(q, done)
          BY <1>6, <4>2, <5>1
        <5> QED BY <1>6, <5>1, <5>2, <5>3
      <4>5. \A w \in Writes(q) : w[2] < stmt[q] + 1 => w \in pending'[c]
        <5> SUFFICES ASSUME NEW w \in Writes(q), w[2] < stmt[q] + 1 PROVE w \in pending'[c]
          OBVIOUS
        <5>1. w = <<q, w[2]>> /\ w[2] \in Nat /\ Script(q)[w[2]] = "write"
          BY FieldFacts, WriteFacts, ScriptFacts
        <5>2. CASE w[2] = stmt[q]
          BY <4>2, <4>4, <5>1, <5>2 DEF Wrote, Op
        <5>3. CASE w[2] # stmt[q]
          <6>1. w[2] < stmt[q]
            BY <1>1, <5>1, <5>3
          <6> QED BY <1>17, <2>2, <4>4, <6>1
        <5> QED BY <5>2, <5>3
      <4>6. stmt[q] + 1 # 1
        BY <1>1
      <4>7. Writes(q)' = Writes(q)
        BY <1>2
      <4> QED BY <1>1, <1>17, <2>2, <4>1, <4>4, <4>5, <4>6, <4>7 DEF TxOk
    <3> QED BY <1>3, <1>17, <2>2, <3>1, <3>2
  <2> QED BY <1>2, <2>1, <2>2 DEF TxInv
<1>19. /\ DOMAIN executed = UNION {Writes(p) : p \in Queries}
       /\ executed' = [x \in DOMAIN executed |-> executed[x] + (IF x \in Wrote(q, done) THEN 1 ELSE 0)]
  BY ControlSplit DEF Served, ServerOk
<1>20. ExecInv'
  <2> SUFFICES ASSUME NEW p \in Queries, NEW w \in Writes(p), w[2] >= stmt'[p], pc'[p] # "end"
               PROVE  executed'[w] = 0
    BY <1>2 DEF ExecInv
  <2>1. w \in DOMAIN executed /\ w = <<p, w[2]>> /\ w[2] \in Nat
    BY <1>19, FieldFacts, WriteFacts, ScriptFacts
  <2>2. executed[w] = 0 /\ w \notin Wrote(q, done)
    <3>1. CASE p # q
      BY <1>2, <1>7, <2>1, <3>1 DEF ExecInv
    <3>2. CASE p = q /\ Again(q)
      BY <1>7, <3>2 DEF ExecInv, Again
    <3>3. CASE p = q /\ Onward(q, r)
      <4>1. NextStmt(q, r) > stmt[q] /\ NextStmt(q, r) \in Nat /\ stmt'[q] = NextStmt(q, r)
        BY <1>1, <3>3, FieldFacts, NextStmtFacts DEF Onward
      <4>2. w[2] >= stmt[q] /\ w[2] # stmt[q]
        BY <1>1, <2>1, <3>3, <4>1
      <4> QED BY <1>7, <2>1, <3>3, <4>2 DEF ExecInv
    <3> QED BY <1>3, <3>1, <3>2, <3>3 DEF Over
  <2> QED BY <1>19, <2>1, <2>2
<1>21. WriteOnce'
  <2> SUFFICES ASSUME NEW w \in DOMAIN executed PROVE executed'[w] <= 1
    BY <1>19 DEF WriteOnce
  <2>1. executed[w] \in Nat /\ executed[w] <= 1
    BY ControlSplit DEF WriteOnce, ServerOk
  <2>2. CASE w \notin Wrote(q, done)
    BY <1>19, <2>1, <2>2
  <2>3. CASE w \in Wrote(q, done)
    <3>1. w = <<q, stmt[q]>> /\ Script(q)[stmt[q]] = "write"
      BY <1>7, <2>3 DEF Op
    <3>2. w \in Writes(q)
      BY <1>1, <3>1, FieldFacts, WriteIn
    <3>3. executed[w] = 0
      BY <1>1, <3>1, <3>2, FieldFacts DEF ExecInv
    <3> QED BY <1>19, <2>3, <3>3
  <2> QED BY <2>2, <2>3
<1>22. ResultsTrue'
  <2> SUFFICES ASSUME NEW p \in Queries, ~IsTx(p) PROVE InOrder(p)' /\ Durable(p)'
    BY <1>2 DEF ResultsTrue
  <2>1. InOrder(p) /\ Durable(p) /\ committed \subseteq committed'
    BY <1>6, FieldFacts DEF ResultsTrue
  <2>2. \A x \in Queries : InTransaction(x)' <=> InTransaction(x)
    BY <1>2, FieldFacts
  <2>3. CASE p # q
    BY <1>2, <2>1, <2>2, <2>3, OrderSame
  <2>4. CASE p = q /\ Again(q)
    BY <1>2, <2>1, <2>2, <2>4, OrderSame DEF Again, Silent
  <2>5. CASE p = q /\ Said(q, r)
    <3>1. PICK n \in Sets(q, r) : Grown(q, r, n)
      BY <1>9, <2>5, FieldFacts, SaidFacts
    <3>2. n \in Nat /\ n >= 1 /\ (n # 1 => Shared /\ path[q] = "batch")
      BY SetsFacts
    <3>3. /\ InOrder(q)'
          /\ \A i \in 1 .. Len(results'[q]) :
                 \/ /\ i \in 1 .. Len(results[q])
                    /\ results'[q][i] = results[q][i] /\ about'[q][i] = about[q][i]
                 \/ results'[q][i] = r /\ about'[q][i] = stmt[q]
      BY <1>1, <1>2, <2>1, <2>5, <3>1, <3>2, GrownInPlace
    <3>4. ASSUME r = "ok", ~(Shared /\ \E x \in Queries : IsTx(x)), Statements(q)[stmt[q]] = "write"
          PROVE  <<q, stmt[q]>> \in committed'
      <4>1. done /\ Op(q) = "write"
        BY <1>9, <2>5, <3>4, FieldFacts, ScriptFacts DEF Op, Served
      <4>2. <<q, stmt[q]>> \in Wrote(q, done)
        BY <4>1 DEF Wrote
      <4> QED BY <1>6, <1>10, <2>5, <3>4, <4>2
    <3>5. (\E x \in Queries : IsTx(x))' <=> \E x \in Queries : IsTx(x)
      BY <1>2
    <3>6. Durable(q)'
      BY <1>1, <1>2, <2>1, <2>5, <3>3, <3>4, <3>5, DurableOn
    <3> QED BY <2>5, <3>3, <3>6
  <2> QED BY <1>3, <2>3, <2>4, <2>5 DEF Onward
<1>23. TxAtomic'
  <2> SUFFICES ASSUME NEW p \in Queries, IsTx(p), ~Shared
               PROVE  /\ committed' \cap Writes(p) \in {{}, Writes(p)}
                      /\ results'[p] = <<"ok">> => Writes(p) \subseteq committed'
    BY <1>2 DEF TxAtomic
  <2>1. CASE p # q
    <3>1. /\ committed \cap Writes(p) \in {{}, Writes(p)}
          /\ results[p] = <<"ok">> => Writes(p) \subseteq committed
      BY FieldFacts DEF TxAtomic
    <3>2. committed' \cap Writes(p) = committed \cap Writes(p) /\ results'[p] = results[p]
      BY <1>2, <1>16, <2>1
    <3> QED BY <3>1, <3>2
  <2>2. CASE p = q
    <3>1. CASE Op(q) = "commit" /\ done
      <4>1. depth[c] = 1 /\ Commits(q, done)
        <5>1. depth[c] = 1
          BY <1>17, <2>2, <3>1
        <5>2. Depth(q, done) = 0
          <6>1. Depth(q, done) = depth[c] - 1
            BY <1>5, <3>1
          <6> QED BY <5>1, <6>1
        <5> QED BY <3>1, <5>1, <5>2 DEF Commits
      <4>2. \A w \in Writes(q) : w[2] < stmt[q]
        <5> SUFFICES ASSUME NEW w \in Writes(q) PROVE w[2] < stmt[q]
          OBVIOUS
        <5>1. w[2] \in 1 .. Len(Script(q)) /\ Script(q)[w[2]] = "write"
          BY FieldFacts, WriteFacts
        <5>2. /\ Script(q)[Len(Script(q)) - 1] = "commit" /\ Script(q)[Len(Script(q))] = "rollback"
              /\ Script(q)[1] = "begin" /\ Len(Script(q)) >= 4
              /\ \A i \in 2 .. Len(Script(q)) - 2 : Script(q)[i] \in {"read", "write"}
          BY <1>9, <2>2, FieldFacts, ScriptFacts
        <5>3. w[2] # Len(Script(q)) /\ w[2] # Len(Script(q)) - 1
          BY <5>1, <5>2
        <5>4. stmt[q] = Len(Script(q)) - 1
          BY <1>1, <1>17, <2>2, <3>1, <5>2 DEF Op
        <5> QED BY <1>17, <2>2, <5>1, <5>3, <5>4
      <4>3. Writes(q) \subseteq committed'
        BY <1>6, <1>17, <2>2, <4>1, <4>2
      <4> QED BY <2>2, <4>3
    <3>2. CASE ~(Op(q) = "commit" /\ done)
      <4>1. Commits(q, done) => pending[c] \cup Wrote(q, done) = {}
        <5> SUFFICES ASSUME Commits(q, done) PROVE pending[c] \cup Wrote(q, done) = {}
          OBVIOUS
        <5>1. ~(done /\ Op(q) \in {"commit", "rollback"}) /\ Depth(q, done) = 0
          BY <3>2 DEF Commits
        <5>2. depth[c] = 0
          BY <1>1, <1>5, <5>1 DEF Ops
        <5>3. Op(q) = "begin" /\ pending[c] = {}
          BY <1>17, <2>2, <5>2
        <5> QED BY <5>3 DEF Wrote
      <4>2. committed' \cap Writes(q) = {}
        BY <1>6, <1>17, <2>2, <4>1
      <4>3. results'[q] # <<"ok">>
        <5>1. Said(q, r)
          BY <1>3, <1>17, <2>2 DEF Onward
        <5>2. <<>> # <<"ok">> /\ (r # "ok" => <<r>> # <<"ok">>)
          OBVIOUS
        <5>3. CASE r = "ok"
          <6>1. Op(q) # "commit"
            BY <3>2, <5>3 DEF Served
          <6> QED BY <1>9, <1>17, <2>2, <5>1, <5>2, <5>3, <6>1, FieldFacts, SaidFacts
        <5>4. CASE r # "ok"
          BY <1>9, <1>17, <2>2, <5>1, <5>2, <5>4, FieldFacts, SaidFacts
        <5> QED BY <5>3, <5>4
      <4> QED BY <2>2, <4>2, <4>3
    <3> QED BY <3>1, <3>2
  <2> QED BY <2>1, <2>2
<1> QED BY <1>1, <1>13, <1>14, <1>15, <1>18, <1>20, <1>21, <1>22, <1>23

(***************************************************************************)
(* Steps that leave the queries alone, the initial state, and the theorems. *)
(***************************************************************************)
\* A cancellation, a closed connection nobody has, and a stutter keep the invariant.
LEMMA StillInductive ==
    ASSUME IInv,
           UNCHANGED <<setup, pool, opened, registered, pc, path, stmt, attempt, held, conn,
                       results, about, committed, dead, executed>>,
           token' \subseteq Queries, \A q \in Queries : IsTx(q) => q \notin token',
           depth' \in [Conns -> Nat], pending' \in [Conns -> SUBSET (Queries \X Nat)],
           \A c \in Conns : \/ depth'[c] = depth[c] /\ pending'[c] = pending[c]
                            \/ /\ depth'[c] = 0 /\ pending'[c] = {}
                               /\ \A q \in Queries : conn[q] # c
    PROVE  IInv'
<1> USE DEF IInv, ServerInv
<1>1. /\ \A q \in Queries : /\ Script(q)' = Script(q) /\ Writes(q)' = Writes(q)
                            /\ Statements(q)' = Statements(q)
                            /\ (InTransaction(q)' <=> InTransaction(q))
                            /\ (IsTx(q)' <=> IsTx(q)) /\ (Keeps(q)' <=> Keeps(q))
      /\ Shared' <=> Shared
  <2>1. \A q \in Queries : InTransaction(q)' <=> InTransaction(q)
    BY DEF InTransaction
  <2>2. Shared' <=> Shared
    BY DEF Shared
  <2>3. \A q \in Queries : Keeps(q)' <=> Keeps(q)
    BY <2>2 DEF Keeps
  <2> QED BY <2>1, <2>2, <2>3, ScriptSame
<1>2. ControlInv'
  <2>1. TypeOK'
    BY <1>1 DEF TypeOK, ControlInv
  <2>2. ShapeInv'
    <3>1. UNION {Writes(q)' : q \in Queries} = UNION {Writes(q) : q \in Queries}
      BY <1>1
    <3> QED BY <1>1, <3>1 DEF ShapeInv, ControlInv
  <2>3. ASSUME NEW q \in Queries PROVE (ScriptOk(q) /\ ResultOk(q) /\ ConnOk(q))'
    <3>1. ScriptOk(q) /\ ResultOk(q) /\ ConnOk(q)
      BY FieldFacts
    <3>2. ScriptOk(q)'
      BY <1>1, <3>1 DEF ScriptOk
    <3>3. ResultOk(q)'
      BY <1>1, <3>1 DEF ResultOk, PlacesOk
    <3>4. ConnOk(q)'
      BY <1>1, <3>1 DEF ConnOk
    <3> QED BY <3>2, <3>3, <3>4
  <2> QED BY <2>1, <2>2, <2>3 DEF ControlInv, QueryInv
<1>3. ConnInv'
  BY DEF ConnInv
<1>4. DepthInv'
  BY <1>1 DEF DepthInv
<1>5. PendingInv'
  BY <1>1 DEF PendingInv
<1>6. TxInv'
  <2>1. ASSUME NEW q \in Queries, IsTx(q), ~Shared PROVE TxOk(q)'
    <3>1. TxOk(q)
      BY <2>1 DEF TxInv
    <3>2. conn[q] # None => /\ conn[q] \in Conns /\ depth'[conn[q]] = depth[conn[q]]
                            /\ pending'[conn[q]] = pending[conn[q]]
      BY FieldFacts
    <3> QED BY <1>1, <3>1, <3>2 DEF TxOk
  <2> QED BY <1>1, <2>1 DEF TxInv
<1>7. ExecInv' /\ WriteOnce'
  BY <1>1 DEF ExecInv, WriteOnce
<1>8. ResultsTrue'
  BY <1>1, OrderSame DEF ResultsTrue
<1>9. TxAtomic'
  BY <1>1 DEF TxAtomic
<1> QED BY <1>2, <1>3, <1>4, <1>5, <1>6, <1>7, <1>8, <1>9

\* A cancellation.
LEMMA CancelInductive ==
    ASSUME IInv, NEW q \in Queries, Cancel(q)
    PROVE  IInv'
<1>1. ControlInv /\ ~IsTx(q)
  BY FieldFacts DEF Cancel, IInv
<1>2. /\ token' = token \cup {q}
      /\ UNCHANGED <<setup, pool, opened, registered, pc, path, stmt, attempt, held, conn,
                     results, about, committed, dead, executed, depth, pending>>
  BY DEF Cancel, serverVars, history
<1>3. token' \subseteq Queries /\ \A p \in Queries : IsTx(p) => p \notin token'
  BY <1>1, <1>2, ControlSplit DEF PoolOk
<1>4. depth' \in [Conns -> Nat] /\ pending' \in [Conns -> SUBSET (Queries \X Nat)]
  BY <1>1, <1>2, ControlSplit DEF ServerOk
<1> QED BY <1>2, <1>3, <1>4, StillInductive

\* The end of a connection.
LEMMA DisconnectInductive ==
    ASSUME IInv, NEW c \in Conns, Disconnect(c)
    PROVE  IInv'
<1>1. /\ \A q \in Queries : conn[q] # c
      /\ depth' = [depth EXCEPT ![c] = 0] /\ pending' = [pending EXCEPT ![c] = {}]
      /\ UNCHANGED <<setup, pool, opened, registered, token, pc, path, stmt, attempt, held,
                     conn, results, about, committed, dead, executed>>
  BY DEF Disconnect, history
<1>2. ControlInv
  BY DEF IInv
<1>3. token' \subseteq Queries /\ \A p \in Queries : IsTx(p) => p \notin token'
  BY <1>1, <1>2, ControlSplit DEF PoolOk
<1>4. /\ depth' \in [Conns -> Nat] /\ pending' \in [Conns -> SUBSET (Queries \X Nat)]
      /\ \A b \in Conns : \/ depth'[b] = depth[b] /\ pending'[b] = pending[b]
                          \/ b = c /\ depth'[b] = 0 /\ pending'[b] = {}
  BY <1>1, <1>2, ControlSplit DEF ServerOk
<1> QED BY <1>1, <1>3, <1>4, StillInductive

\* A stutter.
LEMMA StutterInductive ==
    ASSUME IInv, UNCHANGED vars
    PROVE  IInv'
<1>1. UNCHANGED <<setup, pool, opened, registered, token, pc, path, stmt, attempt, held, conn,
                  results, about, committed, dead, executed, depth, pending>>
  BY DEF vars, serverVars, history
<1>2. ControlInv
  BY DEF IInv
<1>3. token' \subseteq Queries /\ \A p \in Queries : IsTx(p) => p \notin token'
  BY <1>1, <1>2, ControlSplit DEF PoolOk
<1>4. depth' \in [Conns -> Nat] /\ pending' \in [Conns -> SUBSET (Queries \X Nat)]
  BY <1>1, <1>2, ControlSplit DEF ServerOk
<1> QED BY <1>1, <1>3, <1>4, StillInductive

\* A step of a query.
LEMMA StepInductive ==
    ASSUME IInv, NEW q \in Queries, Step(q)
    PROVE  IInv'
<1>1. ControlInv
  BY DEF IInv
<1>2. CASE Answered(q)
  <2>1. pc[q] = "running" /\ UNCHANGED <<setup, token, path, held>>
    BY <1>2 DEF Answered
  <2>2. PICK r \in Results, done \in BOOLEAN : Served(q, r, done)
    BY <1>1, <1>2, <2>1, AnsweredServes
  <2> QED BY <2>1, <2>2, ServedInductive
<1>3. CASE ~Answered(q)
  <2>1. ClientStep(q)
    BY <1>1, <1>3, RegisterStep, OpenStep, OpenFailsStep, RouteStep, NextStep, AttachStep,
       CheckoutStep, CheckoutFailsStep, CheckoutCanceledStep, SendStep DEF Step
  <2> QED BY <2>1, QuietInductive
<1> QED BY <1>2, <1>3

\* Every step.
LEMMA Inductive ==
    ASSUME IInv, [Next]_vars
    PROVE  IInv'
BY StepInductive, CancelInductive, DisconnectInductive, StutterInductive DEF Next

\* It holds before the first query is registered.
LEMMA InitIInv ==
    ASSUME Init
    PROVE  IInv
<1>1. setup \in Setups /\ \A q \in Queries : setup.request[q].path \in {"loop", "batch", "transaction"}
  BY SetupFacts DEF Init
<1>2. \A q \in Queries : /\ pc[q] = "idle" /\ path[q] = setup.request[q].path /\ stmt[q] = 1
                         /\ attempt[q] = 1 /\ held[q] = 0 /\ conn[q] = None /\ results[q] = <<>>
                         /\ about[q] = <<>>
  BY DEF Init
<1>3. \A q \in Queries : /\ InTransaction(q) <=> IsTx(q)
                         /\ Len(Script(q)) \in Nat /\ Len(Script(q)) >= 1
  BY <1>1, <1>2, ScriptFacts DEF InTransaction, IsTx
<1>4. \A c \in Conns : depth[c] = 0 /\ pending[c] = {}
  BY DEF Init
<1>5. TypeOK
  <2>1. /\ pool \in 0 .. opened /\ opened \in 0 .. MaxPools
        /\ registered \subseteq Queries /\ token \subseteq Queries /\ dead \subseteq Conns
    BY ConstantFacts DEF Init
  <2>2. /\ pc \in [Queries -> {"idle", "open", "route", "next", "lookup", "attach", "checkout",
                               "send", "running", "end"}]
        /\ path \in [Queries -> {"loop", "batch", "transaction"}]
        /\ held \in [Queries -> 0 .. MaxPools]
        /\ conn \in [Queries -> Conns \cup {None}]
        /\ depth \in [Conns -> Nat]
    BY <1>1, ConstantFacts DEF Init
  <2>3. \A q \in Queries : stmt[q] \in 1 .. Len(Script(q)) + 1 /\ attempt[q] \in 1 .. 2
    BY <1>2, <1>3
  <2>4. about \in [Queries -> Seq(Nat)]
    BY DEF Init
  <2> QED BY <2>1, <2>2, <2>3, <2>4 DEF TypeOK
<1>6. ShapeInv
  <2>1. /\ stmt \in [Queries -> Nat] /\ attempt \in [Queries -> Nat]
        /\ results \in [Queries -> Seq(Results)]
    BY DEF Init
  <2>2. pending \in [Conns -> SUBSET (Queries \X Nat)] /\ committed \subseteq Queries \X Nat
    BY DEF Init
  <2>3. executed \in [UNION {Writes(q) : q \in Queries} -> Nat]
    BY DEF Init
  <2> QED BY <1>1, <1>3, <2>1, <2>2, <2>3 DEF ShapeInv
<1>7. QueryInv
  <2>1. \A q \in Queries : q \notin token
    BY DEF Init
  <2>2. ASSUME NEW q \in Queries PROVE ScriptOk(q) /\ ResultOk(q) /\ ConnOk(q)
    <3>1. Len(results[q]) = 0 /\ Len(about[q]) = 0
      BY <1>2
    <3>2. ScriptOk(q) /\ ConnOk(q)
      BY <1>2, <1>3, <2>1 DEF ScriptOk, ConnOk, Sending, Early
    <3>3. ResultOk(q)
      BY <1>2, <3>1 DEF ResultOk, PlacesOk
    <3> QED BY <3>2, <3>3
  <2> QED BY <2>2 DEF QueryInv
<1>8. ServerInv
  <2>1. ConnInv /\ DepthInv /\ PendingInv
    BY <1>2, <1>4 DEF ConnInv, DepthInv, PendingInv
  <2>2. committed = {}
    BY DEF Init
  <2>3. TxInv
    BY <1>2, <2>2 DEF TxInv, TxOk
  <2> QED BY <2>1, <2>3 DEF ServerInv
<1>9. ExecInv /\ WriteOnce
  <2>1. \A w \in DOMAIN executed : executed[w] = 0
    BY DEF Init
  <2>2. \A q \in Queries : Writes(q) \subseteq DOMAIN executed
    BY DEF Init
  <2> QED BY <2>1, <2>2 DEF ExecInv, WriteOnce
<1>10. ResultsTrue
  BY <1>2 DEF ResultsTrue, InOrder, Durable
<1>11. TxAtomic
  <2>1. committed = {} /\ <<>> # <<"ok">>
    BY DEF Init
  <2> QED BY <1>2, <2>1 DEF TxAtomic
<1> QED BY <1>5, <1>6, <1>7, <1>8, <1>9, <1>10, <1>11 DEF IInv, ControlInv

\* The inductive invariant holds in every reachable state of every instance.
THEOREM Invariance == Spec => []IInv
<1>1. Init => IInv
  BY InitIInv
<1>2. IInv /\ [Next]_vars => IInv'
  BY Inductive
<1> QED BY <1>1, <1>2, PTL DEF Spec

\* Every variable keeps its type, and no query leaves its script.
THEOREM TypeCorrect == Spec => []TypeOK
<1>1. IInv => TypeOK
  BY DEF IInv, ControlInv
<1> QED BY <1>1, Invariance, PTL

\* A write is executed at most once, whatever is lost, timed out, cancelled or retried
\* (query_pool_error_action replays reads only).
THEOREM WritesExecuteOnce == Spec => []WriteOnce
<1>1. IInv => WriteOnce
  BY DEF IInv
<1> QED BY <1>1, Invariance, PTL

\* The results of execute_multi are those of its statements, in their order and with none
\* left out, several of them only for a batch of a SQL Server script, and a write
\* reported as done is durable.
THEOREM ResultsTellTheTruth == Spec => []ResultsTrue
<1>1. IInv => ResultsTrue
  BY DEF IInv
<1> QED BY <1>1, Invariance, PTL

\* execute_statements_in_transaction on a connection of its own is all or nothing,
\* whatever is lost and whenever, and durable when it reports success.
THEOREM TransactionsAreAtomic == Spec => []TxAtomic
<1>1. IInv => TxAtomic
  BY DEF IInv
<1> QED BY <1>1, Invariance, PTL

(***************************************************************************)
(* What a cancelled query does to the pool.                                 *)
(***************************************************************************)
\* A query that opened a pool after its cancellation looks none up again, and one that
\* removed a pool is done with pools.
Traces == {<<>>, <<"open">>, <<"remove">>, <<"open", "remove">>}
ChurnInv ==
    /\ churn \in [Queries -> Traces]
    /\ \A q \in Queries :
          /\ churn[q] # <<>> => q \in token
          /\ churn[q] # <<>> => pc[q] \in {"route", "next", "attach", "checkout", "end"}
          /\ churn[q] \notin {<<>>, <<"open">>} => pc[q] \in {"next", "end"}

\* Appending to a trace.
LEMMA AppendFacts ==
    ASSUME NEW S, NEW s \in Seq(S), NEW e \in S
    PROVE  /\ Append(s, e) \in Seq(S) /\ Len(Append(s, e)) = Len(s) + 1
           /\ \A i \in 1 .. Len(s) : Append(s, e)[i] = s[i]
           /\ Append(s, e)[Len(s) + 1] = e
OBVIOUS

\* The trace of a query that opened a pool and removed one.
LEMMA AppendTwo == Append(<<"open">>, "remove") = <<"open", "remove">>
<1> DEFINE S == {"open", "remove"}
<1>1. PICK s \in Seq(S) : s = <<"open">>
  <2>1. <<"open">> \in Seq(S)
    OBVIOUS
  <2> QED BY <2>1
<1>2. Len(s) = 1 /\ s[1] = "open"
  BY <1>1
<1>3. PICK t : t = Append(s, "remove")
  OBVIOUS
<1>4. /\ t \in Seq(S) /\ Len(t) = Len(s) + 1
      /\ \A i \in 1 .. Len(s) : t[i] = s[i]
      /\ t[Len(s) + 1] = "remove"
  BY <1>3, AppendFacts
<1>5. Len(t) = 2 /\ t[1] = "open" /\ t[2] = "remove"
  BY <1>2, <1>4
<1>6. t = <<"open", "remove">>
  BY <1>4, <1>5
<1> QED BY <1>1, <1>3, <1>6

\* Removing a pool, and opening one.
LEMMA NotedFacts ==
    ASSUME ChurnInv, NEW q \in Queries
    PROVE  /\ churn[q] \in {<<>>, <<"open">>} =>
                  /\ Noted(q, "remove") \in [Queries -> Traces]
                  /\ Noted(q, "remove")[q] # <<>> => q \in token
           /\ churn[q] = <<>> =>
                  /\ Noted(q, "open") \in [Queries -> Traces]
                  /\ Noted(q, "open")[q] \in {<<>>, <<"open">>}
                  /\ Noted(q, "open")[q] # <<>> => q \in token
           /\ \A x : \A p \in Queries \ {q} : Noted(q, x)[p] = churn[p]
<1>1. /\ Append(<<>>, "open") = <<"open">> /\ Append(<<>>, "remove") = <<"remove">>
      /\ Append(<<"open">>, "remove") = <<"open", "remove">>
  <2>1. Append(<<>>, "open") = <<"open">>
    OBVIOUS
  <2>2. Append(<<>>, "remove") = <<"remove">>
    OBVIOUS
  <2>3. Append(<<"open">>, "remove") = <<"open", "remove">>
    BY AppendTwo
  <2> QED BY <2>1, <2>2, <2>3
<1>2. churn \in [Queries -> Traces]
  BY DEF ChurnInv
<1>3. \A x : /\ Noted(q, x) = [churn EXCEPT ![q] = Noted(q, x)[q]]
             /\ Noted(q, x)[q] = IF q \in token THEN Append(churn[q], x) ELSE churn[q]
  BY <1>2 DEF Noted, IsCanceled
<1>4. churn[q] \in {<<>>, <<"open">>} => Noted(q, "remove")[q] \in Traces
  BY <1>1, <1>3 DEF Traces
<1>5. churn[q] = <<>> => Noted(q, "open")[q] \in Traces /\ Noted(q, "open")[q] \in {<<>>, <<"open">>}
  BY <1>1, <1>3 DEF Traces
<1>6. churn[q] # <<>> => q \in token
  BY DEF ChurnInv
<1> QED BY <1>2, <1>3, <1>4, <1>5, <1>6

\* A step of one query.
LEMMA ChurnLift ==
    ASSUME ChurnInv, NEW q \in Queries, token' = token, pc' \in [Queries -> Labels],
           \A p \in Queries \ {q} : pc'[p] = pc[p],
           \/ churn' = churn
           \/ churn[q] \in {<<>>, <<"open">>} /\ churn' = Noted(q, "remove") /\ pc'[q] \in {"next", "end"}
           \/ churn[q] = <<>> /\ churn' = Noted(q, "open") /\ pc'[q] \in {"route", "attach"},
           churn' = churn /\ churn[q] # <<>> => pc'[q] \in {"next", "attach", "checkout", "end"},
           churn' = churn /\ churn[q] \notin {<<>>, <<"open">>} => pc'[q] \in {"next", "end"}
    PROVE  ChurnInv'
<1>1. churn' \in [Queries -> Traces]
  BY NotedFacts DEF ChurnInv
<1>2. ASSUME NEW p \in Queries, p # q
      PROVE  /\ churn'[p] # <<>> => p \in token'
             /\ churn'[p] # <<>> => pc'[p] \in {"route", "next", "attach", "checkout", "end"}
             /\ churn'[p] \notin {<<>>, <<"open">>} => pc'[p] \in {"next", "end"}
  BY <1>2, NotedFacts DEF ChurnInv
<1>3. /\ churn'[q] # <<>> => q \in token'
      /\ churn'[q] # <<>> => pc'[q] \in {"route", "next", "attach", "checkout", "end"}
      /\ churn'[q] \notin {<<>>, <<"open">>} => pc'[q] \in {"next", "end"}
  BY NotedFacts DEF ChurnInv
<1> QED BY <1>1, <1>2, <1>3 DEF ChurnInv

\* What becomes of the pool with the outcome of a statement: a cancelled query is not
\* sent round again.
LEMMA ChurnAfter ==
    ASSUME ControlInv, ChurnInv, NEW q \in Queries, NEW r, After(q, r), token' = token,
           pc[q] \in {"attach", "checkout", "send", "running"}
    PROVE  ChurnInv'
<1>1. churn[q] \in {<<>>, <<"open">>} /\ (churn[q] # <<>> => q \in token)
  BY DEF ChurnInv
<1>2. \E l \in {"next", "end", "lookup"} : pc' = [pc EXCEPT ![q] = l] /\ (l = "lookup" => q \notin token)
  BY DEF After, Finish, Retries, IsCanceled
<1>3. /\ pc' \in [Queries -> Labels] /\ (\A p \in Queries \ {q} : pc'[p] = pc[p])
      /\ pc'[q] \in {"next", "end", "lookup"} /\ (pc'[q] = "lookup" => q \notin token)
  BY <1>2, ControlSplit DEF Labels
<1>4. churn' = churn \/ churn' = Noted(q, "remove")
  BY DEF After, Removal
<1>5. q \notin token => Noted(q, "remove") = churn
  BY DEF Noted, IsCanceled, ChurnInv
<1> QED BY <1>1, <1>3, <1>4, <1>5, ChurnLift

\* A step that leaves the pool alone.
LEMMA ChurnStill ==
    ASSUME ControlInv, ChurnInv, NEW q \in Queries, churn' = churn, token' = token,
           NEW l \in Labels, pc' = [pc EXCEPT ![q] = l],
           \/ l \in {"next", "end"}
           \/ l \in {"attach", "checkout"} /\ pc[q] \in {"route", "attach"}
           \/ churn[q] = <<>>
    PROVE  ChurnInv'
<1>1. /\ pc' \in [Queries -> Labels] /\ (\A p \in Queries \ {q} : pc'[p] = pc[p]) /\ pc'[q] = l
  BY ControlSplit
<1>2. pc[q] \in {"route", "attach"} => churn[q] \in {<<>>, <<"open">>}
  BY DEF ChurnInv
<1> QED BY <1>1, <1>2, ChurnLift

\* Every step of a query.
LEMMA ChurnStep ==
    ASSUME ControlInv, ChurnInv, NEW q \in Queries, Step(q)
    PROVE  ChurnInv'
<1> USE DEF Labels
<1>1. pc[q] \in {"idle", "open", "lookup", "send", "running"} \/ ~IsCanceled(q) => churn[q] = <<>>
  BY DEF ChurnInv, IsCanceled
<1>2. pc[q] \in {"route", "attach", "checkout"} => churn[q] \in {<<>>, <<"open">>}
  BY DEF ChurnInv
<1>3. CASE Register(q)
  BY <1>1, <1>3, ChurnStill DEF Register, history
<1>4. CASE GetOrCreatePool(q)
  <2>1. PICK l \in {"route", "attach"} : pc' = [pc EXCEPT ![q] = l]
    BY <1>4 DEF GetOrCreatePool
  <2>2. /\ pc' \in [Queries -> Labels] /\ (\A p \in Queries \ {q} : pc'[p] = pc[p])
        /\ pc'[q] \in {"route", "attach"}
    BY <2>1, ControlSplit
  <2>3. token' = token /\ (churn' = churn \/ churn' = Noted(q, "open")) /\ churn[q] = <<>>
    BY <1>1, <1>4 DEF GetOrCreatePool
  <2> QED BY <2>2, <2>3, ChurnLift
<1>5. CASE OpenFails(q)
  BY <1>5, ChurnStill DEF OpenFails, Finish, history
<1>6. CASE Route(q)
  BY <1>6, ChurnStill DEF Route, Finish, history
<1>7. CASE NextStatement(q)
  <2>1. token' = token /\ churn' = churn
    BY <1>7 DEF NextStatement, history
  <2>2. CASE Finish(q)
    BY <2>1, <2>2, ChurnStill DEF Finish
  <2>3. CASE ~Finish(q)
    <3>1. ~IsCanceled(q)
      BY <1>7, <2>3 DEF NextStatement
    <3>2. \E l \in {"lookup", "send", "attach"} : pc' = [pc EXCEPT ![q] = l]
      BY <1>7, <2>3 DEF NextStatement
    <3> QED BY <1>1, <2>1, <3>1, <3>2, ChurnStill
  <2> QED BY <2>2, <2>3
<1>8. CASE Attach(q)
  <2>1. pc[q] = "attach" /\ token' = token
    BY <1>8 DEF Attach
  <2>2. CASE \E r : After(q, r)
    BY <2>1, <2>2, ChurnAfter
  <2>3. CASE ~\E r : After(q, r)
    <3>1. churn' = churn /\ (pc' = [pc EXCEPT ![q] = "checkout"] \/ pc' = [pc EXCEPT ![q] = "end"])
      BY <1>8, <2>3 DEF Attach, Finish
    <3> QED BY <2>1, <3>1, ChurnStill
  <2> QED BY <2>2, <2>3
<1>9. CASE Checkout(q)
  <2>1. token' = token /\ churn' = churn /\ churn[q] = <<>>
    BY <1>1, <1>9 DEF Checkout, history
  <2>2. \E l \in {"next", "send", "end"} : pc' = [pc EXCEPT ![q] = l]
    BY <1>9 DEF Checkout, Finish
  <2> QED BY <2>1, <2>2, ChurnStill
<1>10. CASE CheckoutFails(q)
  <2>1. pc[q] = "checkout" /\ token' = token
    BY <1>10 DEF CheckoutFails
  <2>2. CASE \E r : After(q, r)
    BY <2>1, <2>2, ChurnAfter
  <2>3. CASE ~\E r : After(q, r)
    <3>1. pc' = [pc EXCEPT ![q] = "end"] /\ (churn' = churn \/ churn' = Noted(q, "remove"))
      BY <1>10, <2>3 DEF CheckoutFails, Removal, Finish
    <3>2. /\ pc' \in [Queries -> Labels] /\ (\A p \in Queries \ {q} : pc'[p] = pc[p])
          /\ pc'[q] = "end"
      BY <3>1, ControlSplit
    <3> QED BY <1>2, <2>1, <3>1, <3>2, ChurnLift
  <2> QED BY <2>2, <2>3
<1>11. CASE CheckoutCanceled(q)
  <2>1. /\ pc[q] = "checkout" /\ token' = token
        /\ \E l \in {"next", "end"} : pc' = [pc EXCEPT ![q] = l]
        /\ churn' = churn \/ churn' = Noted(q, "remove")
    BY <1>11 DEF CheckoutCanceled, Removal, Finish
  <2>2. /\ pc' \in [Queries -> Labels] /\ (\A p \in Queries \ {q} : pc'[p] = pc[p])
        /\ pc'[q] \in {"next", "end"}
    BY <2>1, ControlSplit
  <2> QED BY <1>2, <2>1, <2>2, ChurnLift
<1>12. CASE Send(q)
  <2>1. pc[q] = "send" /\ token' = token
    BY <1>12 DEF Send
  <2>2. CASE IsCanceled(q)
    BY <1>12, <2>1, <2>2, ChurnAfter DEF Send
  <2>3. CASE ~IsCanceled(q)
    BY <1>1, <1>12, <2>3, ChurnStill DEF Send
  <2> QED BY <2>2, <2>3
<1>13. CASE Answered(q)
  <2>1. pc[q] = "running" /\ token' = token /\ \E r : After(q, r)
    BY <1>13 DEF Answered
  <2> QED BY <2>1, ChurnAfter
<1> QED BY <1>3, <1>4, <1>5, <1>6, <1>7, <1>8, <1>9, <1>10, <1>11, <1>12, <1>13 DEF Step

\* A cancelled query opens at most the pool it was about to look up and then removes at
\* most one: query_pool_error_action asks for no retry once the token has fired, and the
\* loops look at the token before they look up a pool.
THEOREM CancelledQueriesGiveUp == Spec => []CancelGivesUp
<1>1. Init => ChurnInv
  <2> SUFFICES ASSUME Init PROVE ChurnInv
    OBVIOUS
  <2>1. churn = [q \in Queries |-> <<>>]
    BY DEF Init
  <2>2. churn \in [Queries -> Traces] /\ \A q \in Queries : churn[q] = <<>>
    BY <2>1 DEF Traces
  <2> QED BY <2>2 DEF ChurnInv
<1>2. IInv /\ ChurnInv /\ [Next]_vars => ChurnInv'
  <2> SUFFICES ASSUME IInv, ChurnInv, [Next]_vars PROVE ChurnInv'
    OBVIOUS
  <2>1. ControlInv
    BY DEF IInv
  <2>2. ASSUME NEW q \in Queries, Step(q) PROVE ChurnInv'
    BY <2>1, <2>2, ChurnStep
  <2>3. ASSUME token \subseteq token', churn' = churn, pc' = pc PROVE ChurnInv'
    BY <2>3 DEF ChurnInv
  <2>4. ASSUME NEW q \in Queries, Cancel(q) PROVE ChurnInv'
    BY <2>3, <2>4 DEF Cancel, history
  <2>5. ASSUME NEW c \in Conns, Disconnect(c) PROVE ChurnInv'
    BY <2>3, <2>5 DEF Disconnect, history
  <2>6. CASE UNCHANGED vars
    BY <2>3, <2>6 DEF vars, history
  <2> QED BY <2>2, <2>4, <2>5, <2>6 DEF Next
<1>3. ChurnInv => CancelGivesUp
  BY DEF ChurnInv, CancelGivesUp, Traces
<1> QED BY <1>1, <1>2, <1>3, Invariance, PTL DEF Spec
=============================================================================
