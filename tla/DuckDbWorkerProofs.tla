------------------------- MODULE DuckDbWorkerProofs -------------------------
(***************************************************************************)
(* Proofs about DuckDbWorker, for any number of calls, generations, permits *)
(* and connect retries.                                                     *)
(*                                                                         *)
(* The safety properties are proved for scenarios in which the reader ends  *)
(* only at the end of the stream: when it gives up on an unreadable line it *)
(* leaves a live child without a reader and without a permit, and they do   *)
(* not hold.                                                                *)
(***************************************************************************)
EXTENDS DuckDbWorker, FiniteSetTheorems, TLAPS

(***************************************************************************)
(* The inductive invariant.                                                 *)
(***************************************************************************)
Requests == [call : Calls, n : Nat, method : Methods]
Responses == [call : Calls, n : Nat, reply : Replies]

\* What the pipes carry and the child runs.
PipeInv ==
    /\ scenario \in Scenarios
    /\ inbox \in [Gens -> Seq(Requests)] /\ outbox \in [Gens -> Seq(Responses)]
    /\ active \in [Gens -> Seq(Requests)]
    /\ \A g \in Gens : Len(active[g]) <= 1 /\ (active[g] # <<>> => active[g][1].method = "execute")
\* What a kill goes back to; query_lock is for queries.
LabelInv == \A c \in Calls : /\ c \notin Shutdowns /\ pc[c] \in {"take", "fail"} => after[c] # "done"
                             /\ pc[c] = "query" => c \in Execs

\* A child that is not started yet, or has ended, holds nothing; the reader of a live
\* child is there.
GenInv ==
    /\ \A g \in Gens : g > generation => ~alive[g] /\ reader[g] = "none" /\ outbox[g] = <<>>
    /\ \A g \in Gens : ~alive[g] => session[g] = "none" /\ active[g] = <<>> /\ inbox[g] = <<>>
    /\ \A g \in Gens : alive[g] => reader[g] = "run"
\* A kill never fails the requests of the current child.
KillInv == \A t \in Tasks : killgen[t] <= generation /\ (child # 0 => killgen[t] # child)
\* An entry in pending is an answer that is still to come.
PendInv == \A c \in Calls : pend[c] # 0 => resp[c] = "none" /\ pend[c] <= generation
PermitInv == Cardinality(Readers) + others <= Limit

\* No two requests at a child, waiting, running or answered, are the same.
SameId(x, y) == x.call = y.call /\ x.n = y.n
Distinct(in, out, run, r) ==
    /\ \A i, j \in DOMAIN in : i # j => ~SameId(in[i], in[j])
    /\ \A i, j \in DOMAIN out : i # j => ~SameId(out[i], out[j])
    /\ \A i \in DOMAIN in, j \in DOMAIN out : ~SameId(in[i], out[j])
    /\ run # <<>> => /\ \A i \in DOMAIN in : ~SameId(in[i], run[1])
                     /\ \A i \in DOMAIN out : ~SameId(out[i], run[1])
    /\ \A i \in DOMAIN in : in[i].n <= r[in[i].call]
    /\ \A i \in DOMAIN out : out[i].n <= r[out[i].call]
    /\ run # <<>> => run[1].n <= r[run[1].call]
IdInv == \A g \in Gens : Distinct(inbox[g], outbox[g], active[g], req)

\* A query that is under way holds query_lock.
LockInv == \A e \in Execs : pc[e] \notin {"idle", "query", "done"} => queryLock = e

\* A query at the current child, queued or running, is the one that holds query_lock,
\* and its call waits for it or is about to kill the child.
QueriesAt(g) == {q \in {inbox[g][i] : i \in DOMAIN inbox[g]} \cup {active[g][i] : i \in DOMAIN active[g]} :
                    q.method = "execute"}
Waits(e) == pc[e] = "resp" /\ resp[e] = "none" /\ pend[e] = child
Owned(q) == /\ q.call \in Execs /\ q.call = queryLock /\ q.n = req[q.call]
            /\ pc[q.call] = "take" \/ Waits(q.call)
OwnInv == child # 0 => \A q \in QueriesAt(child) : Owned(q)

\* The query that poisoned the current child holds query_lock until it has killed it.
Poisoned(e) == \E i \in DOMAIN outbox[child] : /\ outbox[child][i].call = e
                                               /\ outbox[child][i].n = req[e]
                                               /\ outbox[child][i].reply = "poisoned"
PoisonInv ==
    child # 0 /\ session[child] = "poisoned" =>
        \E e \in Execs : /\ queryLock = e
                         /\ \/ pc[e] = "take"
                            \/ pc[e] = "resp" /\ resp[e] = "poisoned"
                            \/ Waits(e) /\ Poisoned(e)

BaseInv == TypeOK /\ PipeInv /\ LabelInv
WorkerInv == GenInv /\ KillInv /\ PendInv /\ PermitInv /\ IdInv
IInv == BaseInv /\ WorkerInv /\ LockInv /\ NoOrphanRequest /\ OwnInv /\ PoisonInv

\* The reader reads to the end of the stream.
ReadsToTheEnd == \A s \in Scenarios : "stdout" \notin s.faults

(***************************************************************************)
(* Facts about constants, sequences and the start of a child.               *)
(***************************************************************************)
\* The kinds of calls and the killers are apart, and NoCall is none of them.
LEMMA ConstantFacts ==
    /\ Retries \in Nat /\ Limit \in Nat /\ MaxGen \in Nat
    /\ \A c \in Calls : c \in Tasks /\ c \notin Killers /\ c # NoCall
    /\ \A c \in Calls : c \in Execs \/ c \in Metas \/ c \in Shutdowns
    /\ \A e \in Execs : e \in Calls /\ e \notin Metas /\ e \notin Shutdowns
    /\ \A m \in Metas : m \in Calls /\ m \notin Shutdowns
    /\ \A x \in Shutdowns : x \in Calls
    /\ \A e \in Execs : Killer(e) \in Killers
    /\ \A k \in Killers : k \in Tasks /\ k \notin Calls
    /\ \A t \in Tasks : t \in Calls \/ t \in Killers
    /\ \A g : g \in Gens <=> g \in 0 .. MaxGen /\ g # 0
BY ConstantAssumption DEF Calls, Tasks, Killers, Gens

\* A sequence after an element is appended to it.
LEMMA AppendFacts ==
    ASSUME NEW T, NEW s \in Seq(T), NEW x \in T
    PROVE  /\ Append(s, x) \in Seq(T) /\ Len(s) \in Nat /\ DOMAIN s = 1 .. Len(s)
           /\ DOMAIN Append(s, x) = 1 .. Len(s) + 1
           /\ \A i \in DOMAIN s : Append(s, x)[i] = s[i]
           /\ Append(s, x)[Len(s) + 1] = x
           /\ \A i \in DOMAIN Append(s, x) : i \in DOMAIN s \/ i = Len(s) + 1
OBVIOUS

\* A sequence after its first element is taken.
LEMMA TailFacts ==
    ASSUME NEW T, NEW s \in Seq(T), s # <<>>
    PROVE  /\ Tail(s) \in Seq(T) /\ Head(s) \in T /\ Head(s) = s[1] /\ 1 \in DOMAIN s
           /\ Len(s) \in Nat /\ DOMAIN s = 1 .. Len(s)
           /\ \A i \in DOMAIN Tail(s) : i + 1 \in DOMAIN s /\ Tail(s)[i] = s[i + 1] /\ i + 1 # 1
           /\ \A i \in DOMAIN s : i # 1 => i - 1 \in DOMAIN Tail(s) /\ Tail(s)[i - 1] = s[i]
OBVIOUS

\* ensure_started_locked keeps the child, has none, or starts one.
KeptChild(o) ==
    /\ o.ok /\ child # 0 /\ alive[child] /\ o.child = child
    /\ child' = child /\ connected' = connected /\ o.connected = connected
    /\ generation' = generation /\ UNCHANGED <<alive, reader>>
NoChild(o) ==
    /\ ~o.ok /\ child' = 0 /\ connected' = FALSE
    /\ generation' \in 0 .. MaxGen /\ generation' >= generation /\ UNCHANGED <<alive, reader>>
NewChild(o) ==
    /\ o.ok /\ o.connected = FALSE /\ connected' = FALSE
    /\ generation + 1 \in Gens /\ o.child = generation + 1
    /\ child' = generation + 1 /\ generation' = generation + 1 /\ PermitFree
    /\ alive' = [alive EXCEPT ![generation + 1] = TRUE]
    /\ reader' = [reader EXCEPT ![generation + 1] = "run"]
LEMMA StartFacts ==
    ASSUME TypeOK, NEW o \in StartOutcomes, Started(o)
    PROVE  KeptChild(o) \/ NoChild(o) \/ NewChild(o)
<1>1. /\ child \in 0 .. MaxGen /\ generation \in 0 .. MaxGen /\ child \in {0, generation}
      /\ MaxGen \in Nat
  BY ConstantFacts DEF TypeOK
<1>2. CASE Running
  <2>1. o = [ok |-> TRUE, child |-> child, connected |-> connected, generation |-> generation]
    BY <1>2 DEF StartOutcomes
  <2>2. o.ok /\ o.child = child /\ o.connected = connected /\ o.generation = generation
    BY <2>1
  <2> QED BY <1>2, <2>2 DEF Started, NewState, KeptChild, Running
<1>3. CASE ~Running
  <2>1. CASE \E g \in {IF generation < MaxGen THEN generation + 1 ELSE MaxGen} :
                 o = [ok |-> FALSE, child |-> 0, connected |-> FALSE, generation |-> g]
    <3>1. PICK g : /\ g = (IF generation < MaxGen THEN generation + 1 ELSE MaxGen)
                   /\ o = [ok |-> FALSE, child |-> 0, connected |-> FALSE, generation |-> g]
      BY <2>1
    <3>2. ~o.ok /\ o.child = 0 /\ o.connected = FALSE /\ o.generation = g
      BY <3>1
    <3>3. g \in 0 .. MaxGen /\ g >= generation
      BY <1>1, <3>1
    <3> QED BY <3>2, <3>3 DEF Started, NewState, NoChild
  <2>2. CASE \E g \in {h \in Gens : h = generation + 1 /\ PermitFree} :
                 o = [ok |-> TRUE, child |-> g, connected |-> FALSE, generation |-> g]
    <3>1. PICK g \in Gens : /\ g = generation + 1 /\ PermitFree
                            /\ o = [ok |-> TRUE, child |-> g, connected |-> FALSE, generation |-> g]
      BY <2>2
    <3>2. o.ok /\ o.child = g /\ o.connected = FALSE /\ o.generation = g
      BY <3>1
    <3>3. g # child
      BY <1>1, <3>1
    <3> QED BY <3>1, <3>2, <3>3 DEF Started, NewState, NewChild
  <2> QED BY <1>3, <2>1, <2>2 DEF StartOutcomes
<1> QED BY <1>2, <1>3

\* What the start leaves behind has its type.
LEMMA StartTyped ==
    ASSUME TypeOK, NEW o \in StartOutcomes, Started(o)
    PROVE  /\ child' \in 0 .. MaxGen /\ generation' \in 0 .. MaxGen /\ child' \in {0, generation'}
           /\ connected' \in BOOLEAN /\ alive' \in [Gens -> BOOLEAN]
           /\ reader' \in [Gens -> {"none", "run", "done"}]
           /\ o.ok => o.child = child' /\ child' \in Gens
<1>1. /\ child \in 0 .. MaxGen /\ generation \in 0 .. MaxGen /\ child \in {0, generation}
      /\ connected \in BOOLEAN /\ alive \in [Gens -> BOOLEAN]
      /\ reader \in [Gens -> {"none", "run", "done"}]
  BY DEF TypeOK
<1>2. CASE KeptChild(o)
  BY <1>1, <1>2, ConstantFacts DEF KeptChild
<1>3. CASE NoChild(o)
  <2>1. ~o.ok
    BY <1>3 DEF NoChild
  <2>2. /\ child' = 0 /\ connected' = FALSE /\ generation' \in 0 .. MaxGen
        /\ alive' = alive /\ reader' = reader
    BY <1>3 DEF NoChild
  <2>3. 0 \in 0 .. MaxGen
    BY ConstantFacts
  <2> QED BY <1>1, <2>1, <2>2, <2>3
<1>4. CASE NewChild(o)
  BY <1>1, <1>4, ConstantFacts DEF NewChild
<1> QED BY <1>2, <1>3, <1>4, StartFacts

\* A sent request has its type.
LEMMA WrittenTyped ==
    ASSUME TypeOK, PipeInv, NEW c \in Calls, NEW m \in Methods, NEW g \in Gens, Written(c, m, g)
    PROVE  /\ Request(c, m) \in Requests /\ Request(c, m).call = c
           /\ Request(c, m).n = req[c] + 1 /\ Request(c, m).method = m
           /\ pend' \in [Calls -> 0 .. MaxGen] /\ inbox' \in [Gens -> Seq(Requests)]
           /\ req' \in [Calls -> Nat] /\ resp' \in [Calls -> Replies \cup {"none"}]
<1>1. /\ pend \in [Calls -> 0 .. MaxGen] /\ inbox \in [Gens -> Seq(Requests)]
      /\ req \in [Calls -> Nat] /\ resp \in [Calls -> Replies \cup {"none"}]
      /\ g \in 0 .. MaxGen
  BY ConstantFacts DEF TypeOK, PipeInv
<1>2. Request(c, m) \in Requests
  BY <1>1 DEF Request, Requests
<1>3. Append(inbox[g], Request(c, m)) \in Seq(Requests)
  BY <1>1, <1>2, AppendFacts
<1> QED BY <1>1, <1>2, <1>3 DEF Written, Request

\* A call begins.
LEMMA CallStartBase ==
    ASSUME BaseInv, NEW c \in Calls, CallStart(c)
    PROVE  BaseInv'
<1> USE DEF BaseInv
<1>1. TypeOK'
  BY ConstantFacts DEF TypeOK, Goto, CallStart, vars, stateVars, workerVars, callVars
<1>2. PipeInv'
  BY DEF PipeInv, Goto, CallStart, vars, stateVars, workerVars, callVars
<1>3. LabelInv'
  BY ConstantFacts DEF TypeOK, LabelInv, Goto, CallStart, vars, stateVars, workerVars, callVars
<1> QED BY <1>1, <1>2, <1>3

\* A query takes query_lock.
LEMMA ExecQueryLockBase ==
    ASSUME BaseInv, NEW c \in Execs, ExecQueryLock(c)
    PROVE  BaseInv'
<1> USE DEF BaseInv
<1>1. TypeOK'
  BY ConstantFacts DEF TypeOK, Goto, ExecQueryLock, vars, stateVars, workerVars, callVars
<1>2. PipeInv'
  BY DEF PipeInv, Goto, ExecQueryLock, vars, stateVars, workerVars, callVars
<1>3. LabelInv'
  BY ConstantFacts DEF TypeOK, LabelInv, Goto, ExecQueryLock, vars, stateVars, workerVars, callVars
<1> QED BY <1>1, <1>2, <1>3

\* A call takes connect_lock.
LEMMA EnsureLockBase ==
    ASSUME BaseInv, NEW c \in Calls, EnsureLock(c)
    PROVE  BaseInv'
<1> USE DEF BaseInv
<1>1. TypeOK'
  BY ConstantFacts DEF TypeOK, Goto, EnsureLock, vars, stateVars, workerVars, callVars
<1>2. PipeInv'
  BY DEF PipeInv, Goto, EnsureLock, vars, stateVars, workerVars, callVars
<1>3. LabelInv'
  BY ConstantFacts DEF TypeOK, LabelInv, Goto, EnsureLock, vars, stateVars, workerVars, callVars
<1> QED BY <1>1, <1>2, <1>3

\* The answer to Connect.
LEMMA EnsureReplyBase ==
    ASSUME BaseInv, NEW c \in Calls, EnsureReply(c)
    PROVE  BaseInv'
<1> USE DEF BaseInv
<1>1. TypeOK'
  BY ConstantFacts DEF TypeOK, Goto, GoKill, EnsureReply, vars, stateVars, workerVars, callVars
<1>2. PipeInv'
  BY DEF PipeInv, Goto, GoKill, EnsureReply, vars, stateVars, workerVars, callVars
<1>3. LabelInv'
  BY ConstantFacts DEF TypeOK, LabelInv, Goto, GoKill, EnsureReply, vars, stateVars, workerVars, callVars
<1> QED BY <1>1, <1>2, <1>3

\* connected is set.
LEMMA EnsureSetBase ==
    ASSUME BaseInv, NEW c \in Calls, EnsureSet(c)
    PROVE  BaseInv'
<1> USE DEF BaseInv
<1>1. TypeOK'
  BY ConstantFacts DEF TypeOK, Goto, EnsureSet, vars, stateVars, workerVars, callVars
<1>2. PipeInv'
  BY DEF PipeInv, Goto, EnsureSet, vars, stateVars, workerVars, callVars
<1>3. LabelInv'
  BY ConstantFacts DEF TypeOK, LabelInv, Goto, EnsureSet, vars, stateVars, workerVars, callVars
<1> QED BY <1>1, <1>2, <1>3

\* A write fails.
LEMMA WriteFailsBase ==
    ASSUME BaseInv, NEW c \in Calls, WriteFails(c)
    PROVE  BaseInv'
<1> USE DEF BaseInv
<1>1. TypeOK'
  <2>1. CASE c \in Shutdowns
    BY <2>1, ConstantFacts DEF TypeOK, Goto, GoKill, WriteFails, stateVars, workerVars
  <2>2. CASE c \notin Shutdowns
    BY <2>2, ConstantFacts, SMTT(30) DEF TypeOK, Goto, Return, Freed, WriteFails, stateVars, workerVars, Replies
  <2> QED BY <2>1, <2>2
<1>2. PipeInv'
  BY DEF PipeInv, Goto, GoKill, Return, Freed, WriteFails, vars, stateVars, workerVars, callVars
<1>3. LabelInv'
  BY ConstantFacts DEF TypeOK, LabelInv, Goto, GoKill, Return, Freed, WriteFails, vars, stateVars, workerVars, callVars
<1> QED BY <1>1, <1>2, <1>3

\* The answer to a request.
LEMMA CallReplyBase ==
    ASSUME BaseInv, NEW c \in Calls, CallReply(c)
    PROVE  BaseInv'
<1> USE DEF BaseInv
<1>1. TypeOK'
  BY ConstantFacts DEF TypeOK, Goto, GoKill, Return, Freed, CallReply, vars, stateVars, workerVars, callVars
<1>2. PipeInv'
  BY DEF PipeInv, Goto, GoKill, Return, Freed, CallReply, vars, stateVars, workerVars, callVars
<1>3. LabelInv'
  BY ConstantFacts DEF TypeOK, LabelInv, Goto, GoKill, Return, Freed, CallReply, vars, stateVars, workerVars, callVars
<1> QED BY <1>1, <1>2, <1>3

\* A request times out.
LEMMA RequestTimeoutBase ==
    ASSUME BaseInv, NEW c \in Calls, RequestTimeout(c)
    PROVE  BaseInv'
<1> USE DEF BaseInv
<1>1. TypeOK'
  BY ConstantFacts DEF TypeOK, Goto, GoKill, RequestTimeout, vars, stateVars, workerVars, callVars
<1>2. PipeInv'
  BY DEF PipeInv, Goto, GoKill, RequestTimeout, vars, stateVars, workerVars, callVars
<1>3. LabelInv'
  BY ConstantFacts DEF TypeOK, LabelInv, Goto, GoKill, RequestTimeout, vars, stateVars, workerVars, callVars
<1> QED BY <1>1, <1>2, <1>3

\* A call is given up.
LEMMA GiveUpBase ==
    ASSUME BaseInv, NEW c \in Calls, GiveUp(c)
    PROVE  BaseInv'
<1> USE DEF BaseInv
<1>1. TypeOK'
  BY ConstantFacts DEF TypeOK, Goto, GoKill, Freed, InFuture, GiveUp, vars, stateVars, workerVars, callVars
<1>2. PipeInv'
  BY DEF PipeInv, Goto, GoKill, Freed, InFuture, GiveUp, vars, stateVars, workerVars, callVars
<1>3. LabelInv'
  BY ConstantFacts DEF TypeOK, LabelInv, Goto, GoKill, Freed, InFuture, GiveUp, vars, stateVars, workerVars, callVars
<1> QED BY <1>1, <1>2, <1>3

\* The user cancels.
LEMMA UserCancelBase ==
    ASSUME BaseInv, NEW c \in Execs, UserCancel(c)
    PROVE  BaseInv'
<1> USE DEF BaseInv
<1>1. TypeOK'
  BY ConstantFacts DEF TypeOK, UserCancel, vars, stateVars, workerVars, callVars
<1>2. PipeInv'
  BY DEF PipeInv, UserCancel, vars, stateVars, workerVars, callVars
<1>3. LabelInv'
  BY ConstantFacts DEF TypeOK, LabelInv, UserCancel, vars, stateVars, workerVars, callVars
<1> QED BY <1>1, <1>2, <1>3

\* A kill takes the child.
LEMMA KillTakeBase ==
    ASSUME BaseInv, NEW c \in Tasks, KillTake(c)
    PROVE  BaseInv'
<1> USE DEF BaseInv
<1>1. TypeOK'
  <2>1. /\ pc' = [pc EXCEPT ![c] = "fail"] /\ killgen' = [killgen EXCEPT ![c] = generation]
        /\ child' = 0 /\ connected' = FALSE
        /\ UNCHANGED <<generation, connectLock, queryLock, pend, others, alive, session, reader,
                       req, resp, tries, after, cancelled, result>>
    BY DEF Goto, KillTake, workerVars
  <2>2. 0 \in 0 .. MaxGen
    BY ConstantFacts
  <2> QED BY <2>1, <2>2 DEF TypeOK
<1>2. PipeInv'
  BY DEF PipeInv, Goto, KillTake, vars, stateVars, workerVars, callVars
<1>3. LabelInv'
  BY ConstantFacts DEF TypeOK, LabelInv, Goto, KillTake, vars, stateVars, workerVars, callVars
<1> QED BY <1>1, <1>2, <1>3

\* Another client ends its worker.
LEMMA OthersEndBase ==
    ASSUME BaseInv, OthersEnd
    PROVE  BaseInv'
<1> USE DEF BaseInv
<1>1. TypeOK'
  BY ConstantFacts DEF TypeOK, OthersEnd, Elsewhere, vars, stateVars, workerVars, callVars
<1>2. PipeInv'
  BY DEF PipeInv, OthersEnd, Elsewhere, vars, stateVars, workerVars, callVars
<1>3. LabelInv'
  BY ConstantFacts DEF TypeOK, LabelInv, OthersEnd, Elsewhere, vars, stateVars, workerVars, callVars
<1> QED BY <1>1, <1>2, <1>3

\* Another client starts its worker.
LEMMA OthersStartBase ==
    ASSUME BaseInv, OthersStart
    PROVE  BaseInv'
<1> USE DEF BaseInv
<1>1. Cardinality(Readers) \in Nat
  <2>1. IsFiniteSet(Gens)
    BY ConstantFacts, FS_Interval DEF Gens
  <2> QED BY <2>1, FS_Subset, FS_CardinalityType DEF Readers
<1>2. others' = others + 1 /\ others' \in 0 .. Limit
  BY <1>1, ConstantFacts DEF OthersStart, PermitFree, TypeOK
<1>3. UNCHANGED <<scenario, child, connected, generation, connectLock, queryLock, pend, alive,
                  session, active, inbox, outbox, reader, pc, req, resp, tries, after, killgen,
                  cancelled, result>>
  BY DEF OthersStart, Elsewhere, stateVars, workerVars, callVars
<1>4. TypeOK'
  BY <1>2, <1>3 DEF TypeOK
<1>5. PipeInv' /\ LabelInv'
  BY <1>3 DEF PipeInv, LabelInv
<1> QED BY <1>4, <1>5

\* A child is there, or a call fails without one.
LEMMA EnsureStartBase ==
    ASSUME BaseInv, NEW c \in Calls, EnsureStart(c)
    PROVE  BaseInv'
<1> USE DEF BaseInv
<1>1. PICK o \in StartOutcomes : 
        /\ Started(o)
        /\ \/ ~o.ok /\ Return(c, "err")
           \/ /\ o.ok /\ o.connected
              /\ Goto(c, "send")
              /\ connectLock' = NoCall
              /\ UNCHANGED <<queryLock, result>>
           \/ /\ o.ok /\ ~o.connected
              /\ Goto(c, "csend")
              /\ UNCHANGED <<connectLock, queryLock, result>>
  BY DEF EnsureStart
<1>2. PICK l \in {"done", "send", "csend"} : pc' = [pc EXCEPT ![c] = l]
  BY <1>1 DEF Return, Goto
<1>3. /\ connectLock' \in {connectLock, NoCall} /\ queryLock' \in {queryLock, NoCall}
      /\ result' \in {result, [result EXCEPT ![c] = "err"]}
  BY <1>1 DEF Return, Freed
<1>4. UNCHANGED <<scenario, pend, others, session, active, inbox, outbox,
                  req, resp, tries, after, killgen, cancelled>>
  BY DEF EnsureStart
<1>5. TypeOK'
  <2>1. result' \in [Calls -> Replies \cup {"none", "abort"}]
    BY <1>3 DEF TypeOK, Replies
  <2> QED BY <1>1, <1>2, <1>3, <1>4, <2>1, StartTyped, ConstantFacts DEF TypeOK
<1>6. PipeInv' /\ LabelInv'
  BY <1>2, <1>4, ConstantFacts DEF PipeInv, LabelInv, TypeOK
<1> QED BY <1>5, <1>6

\* The Connect request is sent, or the call goes on to kill.
LEMMA EnsureSendBase ==
    ASSUME BaseInv, NEW c \in Calls, EnsureSend(c)
    PROVE  BaseInv'
<1> USE DEF BaseInv
<1>1. PICK o \in StartOutcomes : 
        /\ Started(o)
        /\ \/ /\ o.ok
              /\ Written(c, "connect", o.child)
              /\ Goto(c, "cresp")
              /\ UNCHANGED after
           \/ /\ ~o.ok
              /\ GoKill(c, "err")
              /\ UNCHANGED <<pend, inbox, req, resp>>
  BY DEF EnsureSend
<1>0. /\ child' \in 0 .. MaxGen /\ generation' \in 0 .. MaxGen /\ child' \in {0, generation'}
      /\ connected' \in BOOLEAN /\ alive' \in [Gens -> BOOLEAN]
      /\ reader' \in [Gens -> {"none", "run", "done"}]
      /\ o.ok => o.child \in Gens
  BY <1>1, StartTyped
<1>2. /\ pend' \in [Calls -> 0 .. MaxGen] /\ inbox' \in [Gens -> Seq(Requests)]
      /\ req' \in [Calls -> Nat] /\ resp' \in [Calls -> Replies \cup {"none"}]
  <2>1. CASE o.ok /\ Written(c, "connect", o.child)
    BY <1>0, <2>1, WrittenTyped DEF Methods
  <2>2. CASE UNCHANGED <<pend, inbox, req, resp>>
    BY <2>2 DEF TypeOK, PipeInv
  <2> QED BY <1>1, <2>1, <2>2
<1>3. \/ pc' = [pc EXCEPT ![c] = "cresp"] /\ after' = after
      \/ pc' = [pc EXCEPT ![c] = "take"] /\ after' = [after EXCEPT ![c] = "err"]
  BY <1>1 DEF GoKill, Goto
<1>4. UNCHANGED <<scenario, connectLock, queryLock, others, session, active, outbox,
                  tries, killgen, cancelled, result>>
  BY DEF EnsureSend
<1>5. TypeOK'
  <2>1. /\ pc' \in [Tasks -> {"idle", "query", "connect", "start", "csend", "cresp", "cset",
                            "send", "resp", "take", "fail", "done"}]
        /\ after' \in [Tasks -> {"done", "csend", "err", "abort"}]
    BY <1>3, ConstantFacts DEF TypeOK
  <2> QED BY <1>0, <1>2, <1>4, <2>1 DEF TypeOK
<1>6. PipeInv'
  BY <1>2, <1>4 DEF PipeInv
<1>7. LabelInv'
  BY <1>3, ConstantFacts DEF LabelInv, TypeOK
<1> QED BY <1>5, <1>6, <1>7

\* The request of a call is sent, or the call fails.
LEMMA SendRequestBase ==
    ASSUME BaseInv, NEW c \in Calls, SendRequest(c)
    PROVE  BaseInv'
<1> USE DEF BaseInv
<1>1. PICK o \in StartOutcomes : 
        /\ Started(o)
        /\ \/ /\ o.ok /\ o.connected
              /\ Written(c, MethodOf(c), o.child)
              /\ Goto(c, "resp")
              /\ UNCHANGED <<after, connectLock, queryLock, result>>
           \/ /\ ~(o.ok /\ o.connected)
              /\ IF c \in Shutdowns
                 THEN GoKill(c, "done") /\ UNCHANGED <<connectLock, queryLock, result>>
                 ELSE Return(c, "err") /\ UNCHANGED after
              /\ UNCHANGED <<pend, inbox, req, resp>>
  BY DEF SendRequest
<1>2. MethodOf(c) \in Methods
  BY DEF MethodOf, Methods
<1>0. /\ child' \in 0 .. MaxGen /\ generation' \in 0 .. MaxGen /\ child' \in {0, generation'}
      /\ connected' \in BOOLEAN /\ alive' \in [Gens -> BOOLEAN]
      /\ reader' \in [Gens -> {"none", "run", "done"}]
      /\ o.ok => o.child \in Gens
  BY <1>1, StartTyped
<1>3. /\ pend' \in [Calls -> 0 .. MaxGen] /\ inbox' \in [Gens -> Seq(Requests)]
      /\ req' \in [Calls -> Nat] /\ resp' \in [Calls -> Replies \cup {"none"}]
  <2>1. CASE o.ok /\ Written(c, MethodOf(c), o.child)
    BY <1>0, <1>2, <2>1, WrittenTyped DEF Methods
  <2>2. CASE UNCHANGED <<pend, inbox, req, resp>>
    BY <2>2 DEF TypeOK, PipeInv
  <2> QED BY <1>1, <2>1, <2>2
<1>4. \/ pc' = [pc EXCEPT ![c] = "resp"] /\ after' = after
      \/ pc' = [pc EXCEPT ![c] = "done"] /\ after' = after
      \/ c \in Shutdowns /\ pc' = [pc EXCEPT ![c] = "take"] /\ after' = [after EXCEPT ![c] = "done"]
  BY <1>1 DEF GoKill, Goto, Return
<1>5. /\ connectLock' \in {connectLock, NoCall} /\ queryLock' \in {queryLock, NoCall}
      /\ result' \in {result, [result EXCEPT ![c] = "err"]}
  BY <1>1 DEF Return, Freed
<1>6. UNCHANGED <<scenario, others, session, active, outbox, tries, killgen, cancelled>>
  BY DEF SendRequest
<1>7. TypeOK'
  <2>1. result' \in [Calls -> Replies \cup {"none", "abort"}]
    BY <1>5 DEF TypeOK, Replies
  <2>2. /\ pc' \in [Tasks -> {"idle", "query", "connect", "start", "csend", "cresp", "cset",
                         "send", "resp", "take", "fail", "done"}]
        /\ after' \in [Tasks -> {"done", "csend", "err", "abort"}]
    BY <1>4, ConstantFacts DEF TypeOK
  <2>3. connectLock' \in Calls \cup {NoCall} /\ queryLock' \in Execs \cup {NoCall}
    BY <1>5 DEF TypeOK
  <2> QED BY <1>0, <1>3, <1>6, <2>1, <2>2, <2>3 DEF TypeOK
<1>8. PipeInv'
  BY <1>3, <1>6 DEF PipeInv
<1>9. LabelInv'
  BY <1>4, ConstantFacts DEF LabelInv, TypeOK
<1> QED BY <1>7, <1>8, <1>9

\* The state of the pipes, child by child.
LEMMA PipeFacts ==
    ASSUME PipeInv, NEW g \in Gens
    PROVE  /\ inbox[g] \in Seq(Requests) /\ outbox[g] \in Seq(Responses) /\ active[g] \in Seq(Requests)
           /\ inbox[g] # <<>> => /\ Head(inbox[g]) \in Requests /\ Head(inbox[g]) = inbox[g][1]
                                 /\ 1 \in DOMAIN inbox[g] /\ Tail(inbox[g]) \in Seq(Requests)
           /\ outbox[g] # <<>> => /\ Head(outbox[g]) \in Responses /\ Head(outbox[g]) = outbox[g][1]
                                  /\ 1 \in DOMAIN outbox[g] /\ Tail(outbox[g]) \in Seq(Responses)
           /\ active[g] # <<>> => /\ active[g][1] \in Requests /\ active[g] = <<active[g][1]>>
                                  /\ active[g][1].method = "execute"
<1>1. /\ inbox[g] \in Seq(Requests) /\ outbox[g] \in Seq(Responses) /\ active[g] \in Seq(Requests)
      /\ Len(active[g]) <= 1 /\ (active[g] # <<>> => active[g][1].method = "execute")
  BY DEF PipeInv
<1>2. PICK s \in Seq(Requests) : s = active[g]
  BY <1>1
<1>3. s # <<>> /\ Len(s) <= 1 => s[1] \in Requests /\ s = <<s[1]>>
  OBVIOUS
<1>4. inbox[g] # <<>> => /\ Head(inbox[g]) \in Requests /\ Head(inbox[g]) = inbox[g][1]
                         /\ 1 \in DOMAIN inbox[g] /\ Tail(inbox[g]) \in Seq(Requests)
  BY <1>1, TailFacts
<1>5. outbox[g] # <<>> => /\ Head(outbox[g]) \in Responses /\ Head(outbox[g]) = outbox[g][1]
                          /\ 1 \in DOMAIN outbox[g] /\ Tail(outbox[g]) \in Seq(Responses)
  BY <1>1, TailFacts
<1> QED BY <1>1, <1>2, <1>3, <1>4, <1>5

\* An answer has its type and the number of its request.
LEMMA ResponseFacts ==
    ASSUME NEW q \in Requests, NEW r \in Replies
    PROVE  /\ Response(q, r) \in Responses /\ Response(q, r).call = q.call
           /\ Response(q, r).n = q.n /\ Response(q, r).reply = r
BY DEF Requests, Responses, Response

\* A kill ends.
LEMMA KillFinishBase ==
    ASSUME BaseInv, NEW t \in Tasks, KillFinish(t)
    PROVE  BaseInv'
<1> USE DEF BaseInv
<1>1. /\ pend' \in [Calls -> 0 .. MaxGen] /\ resp' \in [Calls -> Replies \cup {"none"}]
  <2>1. 0 \in 0 .. MaxGen /\ "gone" \in Replies
    BY ConstantFacts DEF Replies
  <2>2. /\ pend' = [c \in Calls |-> IF pend[c] = killgen[t] /\ killgen[t] # 0 THEN 0 ELSE pend[c]]
        /\ resp' = [c \in Calls |-> IF pend[c] = killgen[t] /\ killgen[t] # 0 THEN "gone" ELSE resp[c]]
    BY DEF KillFinish, FailPending
  <2> QED BY <2>1, <2>2 DEF TypeOK
<1>2. PICK l \in {"done", "csend"} : pc' = [pc EXCEPT ![t] = l]
  BY DEF KillFinish, Goto, Return
<1>3. /\ connectLock' \in {connectLock, NoCall} /\ queryLock' \in {queryLock, NoCall}
      /\ result' \in [Calls -> Replies \cup {"none", "abort"}]
  <2>1. CASE t \in Execs \cup Metas /\ after[t] # "csend" /\ Return(t, after[t])
    <3>1. after[t] \in {"err", "abort"}
      BY <2>1, ConstantFacts DEF LabelInv, KillFinish, TypeOK
    <3>2. result' = [result EXCEPT ![t] = after[t]]
      BY <2>1 DEF Return
    <3>3. result' \in [Calls -> Replies \cup {"none", "abort"}]
      BY <3>1, <3>2 DEF TypeOK, Replies
    <3> QED BY <2>1, <3>3 DEF Return, Freed
  <2>2. CASE UNCHANGED <<connectLock, queryLock, result>>
    BY <2>2 DEF TypeOK
  <2> QED BY <2>1, <2>2 DEF KillFinish
<1>4. UNCHANGED <<scenario, child, connected, generation, others, alive, session, active, inbox,
                  outbox, reader, req, tries, after, killgen, cancelled>>
  BY DEF KillFinish, stateVars, workerVars
<1>5. TypeOK'
  BY <1>1, <1>2, <1>3, <1>4 DEF TypeOK
<1>6. PipeInv' /\ LabelInv'
  BY <1>2, <1>4, ConstantFacts DEF PipeInv, LabelInv, TypeOK
<1> QED BY <1>5, <1>6

\* A response is handed out or dropped.
LEMMA ReaderDeliverBase ==
    ASSUME BaseInv, NEW g \in Gens, ReaderDeliver(g)
    PROVE  BaseInv'
<1> USE DEF BaseInv
<1>1. PICK r \in Responses : r = Head(outbox[g])
  BY PipeFacts DEF ReaderDeliver
<1>2. r.call \in Calls /\ r.reply \in Replies
  BY <1>1 DEF Responses
<1>3. \/ pend' = pend /\ resp' = resp
      \/ pend' = [pend EXCEPT ![r.call] = 0] /\ resp' = [resp EXCEPT ![r.call] = r.reply]
  BY <1>1 DEF ReaderDeliver
<1>4. /\ outbox' = [outbox EXCEPT ![g] = Tail(outbox[g])] /\ outbox[g] # <<>>
      /\ UNCHANGED <<scenario, child, connected, generation, connectLock, queryLock, others, alive,
                     session, active, inbox, reader, pc, req, tries, after, killgen, cancelled, result>>
  BY DEF ReaderDeliver, stateVars
<1>5. TypeOK'
  <2>1. 0 \in 0 .. MaxGen
    BY ConstantFacts
  <2>2. pend' \in [Calls -> 0 .. MaxGen] /\ resp' \in [Calls -> Replies \cup {"none"}]
    BY <1>2, <1>3, <2>1 DEF TypeOK
  <2> QED BY <1>4, <2>2 DEF TypeOK
<1>6. PipeInv'
  <2>1. outbox' \in [Gens -> Seq(Responses)]
    BY <1>4, PipeFacts DEF PipeInv
  <2> QED BY <1>4, <2>1 DEF PipeInv
<1>7. LabelInv'
  BY <1>4 DEF LabelInv
<1> QED BY <1>5, <1>6, <1>7

\* The reader ends.
LEMMA ReaderEndBase ==
    ASSUME BaseInv, NEW g \in Gens, ReaderEnd(g)
    PROVE  BaseInv'
<1> USE DEF BaseInv
<1>1. /\ pend' \in [Calls -> 0 .. MaxGen] /\ resp' \in [Calls -> Replies \cup {"none"}]
  <2>1. 0 \in 0 .. MaxGen /\ "gone" \in Replies
    BY ConstantFacts DEF Replies
  <2>2. /\ pend' = [c \in Calls |-> IF pend[c] = g /\ g # 0 THEN 0 ELSE pend[c]]
        /\ resp' = [c \in Calls |-> IF pend[c] = g /\ g # 0 THEN "gone" ELSE resp[c]]
    BY DEF ReaderEnd, FailPending
  <2> QED BY <2>1, <2>2 DEF TypeOK
<1>2. /\ reader' = [reader EXCEPT ![g] = "done"]
      /\ UNCHANGED <<scenario, child, connected, generation, connectLock, queryLock, others, alive,
                     session, active, inbox, outbox, pc, req, tries, after, killgen, cancelled, result>>
  BY DEF ReaderEnd, stateVars
<1>3. TypeOK'
  BY <1>1, <1>2 DEF TypeOK
<1>4. PipeInv' /\ LabelInv'
  BY <1>2 DEF PipeInv, LabelInv
<1> QED BY <1>3, <1>4

(***************************************************************************)
(* What a child does, in four forms: it answers the head of its stdin, it   *)
(* starts a query, it answers the query, or it ends.                        *)
(***************************************************************************)
ClientSame == UNCHANGED <<scenario, child, connected, generation, connectLock, queryLock, pend,
                          others, reader, pc, req, resp, tries, after, killgen, cancelled, result>>
Answers(g, q, r) == outbox' = [outbox EXCEPT ![g] = Append(@, Response(q, r))]
AnswersHead(g, r) ==
    /\ alive[g] /\ inbox[g] # <<>> /\ Answers(g, Head(inbox[g]), r)
    /\ inbox' = [inbox EXCEPT ![g] = Tail(@)] /\ UNCHANGED <<alive, active>>
    /\ session' \in [Gens -> {"none", "open", "poisoned"}]
    /\ \A h \in Gens : session'[h] = session[h] \/ (h = g /\ session'[h] = "open")
StartsQuery(g) ==
    /\ alive[g] /\ inbox[g] # <<>> /\ Head(inbox[g]).method = "execute" /\ active[g] = <<>>
    /\ active' = [active EXCEPT ![g] = <<Head(inbox[g])>>]
    /\ inbox' = [inbox EXCEPT ![g] = Tail(@)] /\ UNCHANGED <<alive, outbox, session>>
AnswersQuery(g, r) ==
    /\ alive[g] /\ active[g] # <<>> /\ Answers(g, active[g][1], r)
    /\ active' = [active EXCEPT ![g] = <<>>] /\ UNCHANGED <<alive, inbox>>
    /\ session' \in [Gens -> {"none", "open", "poisoned"}]
    /\ \A h \in Gens : session'[h] = session[h] \/ (h = g /\ r = "poisoned")
    /\ session[g] = "poisoned" => r = "poisoned"
Ends(g) ==
    /\ alive[g] /\ ProcessEnds(g)
    /\ \/ outbox' = outbox
       \/ inbox[g] # <<>> /\ Answers(g, Head(inbox[g]), "ok")

\* Every step of a child has one of the forms.
LEMMA WorkerForms ==
    ASSUME BaseInv, NEW g \in Gens, WorkerStep(g) \/ WorkerDies(g)
    PROVE  /\ ClientSame
           /\ \/ \E r \in Replies : AnswersHead(g, r)
              \/ StartsQuery(g)
              \/ \E r \in Replies : AnswersQuery(g, r)
              \/ Ends(g)
<1>1. session \in [Gens -> {"none", "open", "poisoned"}]
  BY DEF BaseInv, TypeOK
<1>2. CASE WorkerSession(g)
  <2>1. PICK r \in SessionReplies(g, Head(inbox[g])) :
          /\ outbox' = [outbox EXCEPT ![g] = Append(@, Response(Head(inbox[g]), r))]
          /\ session' = [session EXCEPT ![g] =
                            IF Head(inbox[g]).method = "connect" /\ r = "ok" THEN "open" ELSE @]
    BY <1>2 DEF WorkerSession
  <2>2. r \in Replies
    BY DEF SessionReplies, Replies
  <2>3. /\ session' \in [Gens -> {"none", "open", "poisoned"}]
        /\ \A h \in Gens : session'[h] = session[h] \/ (h = g /\ session'[h] = "open")
    BY <1>1, <2>1
  <2>4. ClientSame
    BY <1>2 DEF WorkerSession, stateVars, callVars, ClientSame
  <2>5. AnswersHead(g, r)
    BY <1>2, <2>1, <2>3 DEF WorkerSession, AnswersHead, Answers
  <2> QED BY <2>2, <2>4, <2>5
<1>3. CASE WorkerExecute(g)
  <2>1. ClientSame
    BY <1>3 DEF WorkerExecute, stateVars, callVars, ClientSame
  <2>2. "busy" \in Replies /\ "unconnected" \in Replies
    BY DEF Replies
  <2>3. AnswersHead(g, "busy") \/ AnswersHead(g, "unconnected") \/ StartsQuery(g)
    BY <1>1, <1>3 DEF WorkerExecute, AnswersHead, Answers, StartsQuery
  <2> QED BY <2>1, <2>2, <2>3
<1>4. CASE WorkerFinish(g)
  <2>1. PICK r \in IF session[g] = "open" THEN {"ok", "err", "poisoned"} ELSE {"poisoned"} :
          /\ outbox' = [outbox EXCEPT ![g] = Append(@, Response(active[g][1], r))]
          /\ session' = [session EXCEPT ![g] = IF r = "poisoned" THEN "poisoned" ELSE @]
    BY <1>4 DEF WorkerFinish
  <2>2. r \in Replies /\ (session[g] = "poisoned" => r = "poisoned")
    BY DEF Replies
  <2>3. /\ session' \in [Gens -> {"none", "open", "poisoned"}]
        /\ \A h \in Gens : session'[h] = session[h] \/ (h = g /\ r = "poisoned")
    BY <1>1, <2>1
  <2>4. ClientSame
    BY <1>4 DEF WorkerFinish, stateVars, callVars, ClientSame
  <2>5. AnswersQuery(g, r)
    BY <1>4, <2>1, <2>2, <2>3 DEF WorkerFinish, AnswersQuery, Answers
  <2> QED BY <2>2, <2>4, <2>5
<1>5. CASE WorkerShutdown(g)
  <2>1. ClientSame
    BY <1>5 DEF WorkerShutdown, stateVars, callVars, ClientSame
  <2> QED BY <1>5, <2>1 DEF WorkerShutdown, Ends, Answers
<1>6. CASE WorkerDies(g)
  <2>1. ClientSame
    BY <1>6 DEF WorkerDies, stateVars, callVars, ClientSame
  <2> QED BY <1>6, <2>1 DEF WorkerDies, Ends
<1> QED BY <1>2, <1>3, <1>4, <1>5, <1>6 DEF WorkerStep

\* A step of a child keeps the types.
LEMMA WorkerBase ==
    ASSUME BaseInv, NEW g \in Gens, WorkerStep(g) \/ WorkerDies(g)
    PROVE  BaseInv'
<1> USE DEF BaseInv
<1>1. /\ inbox[g] \in Seq(Requests) /\ outbox[g] \in Seq(Responses)
      /\ \A q \in Requests, r \in Replies : Append(outbox[g], Response(q, r)) \in Seq(Responses)
  BY PipeFacts, ResponseFacts, AppendFacts
<1>2. \A q \in Requests : <<q>> \in Seq(Requests) /\ Len(<<q>>) = 1 /\ <<q>>[1] = q
  OBVIOUS
<1>3. /\ <<>> \in Seq(Requests) /\ Len(<<>>) = 0
  OBVIOUS
<1>4. /\ alive \in [Gens -> BOOLEAN] /\ session \in [Gens -> {"none", "open", "poisoned"}]
      /\ inbox \in [Gens -> Seq(Requests)] /\ outbox \in [Gens -> Seq(Responses)]
      /\ active \in [Gens -> Seq(Requests)]
      /\ \A h \in Gens : /\ Len(active[h]) <= 1
                         /\ active[h] # <<>> => active[h][1].method = "execute"
  BY DEF TypeOK, PipeInv
<1>5. ClientSame
  BY WorkerForms
<1>6. ASSUME /\ alive' \in [Gens -> BOOLEAN] /\ session' \in [Gens -> {"none", "open", "poisoned"}]
             /\ inbox' \in [Gens -> Seq(Requests)] /\ outbox' \in [Gens -> Seq(Responses)]
             /\ active' \in [Gens -> Seq(Requests)]
             /\ \A h \in Gens : /\ Len(active'[h]) <= 1
                                /\ active'[h] # <<>> => active'[h][1].method = "execute"
      PROVE  BaseInv'
  <2>1. TypeOK'
    BY <1>5, <1>6 DEF TypeOK, ClientSame
  <2>2. PipeInv' /\ LabelInv'
    BY <1>5, <1>6 DEF PipeInv, LabelInv, ClientSame
  <2> QED BY <2>1, <2>2
<1>7. ASSUME NEW r \in Replies, AnswersHead(g, r) PROVE BaseInv'
  BY <1>1, <1>4, <1>6, <1>7, PipeFacts DEF AnswersHead, Answers
<1>8. CASE StartsQuery(g)
  <2>1. active' \in [Gens -> Seq(Requests)]
    BY <1>2, <1>4, <1>8, PipeFacts DEF StartsQuery
  <2>2. \A h \in Gens : /\ Len(active'[h]) <= 1
                        /\ active'[h] # <<>> => active'[h][1].method = "execute"
    BY <1>2, <1>4, <1>8, PipeFacts DEF StartsQuery
  <2>3. inbox' \in [Gens -> Seq(Requests)]
    BY <1>4, <1>8, PipeFacts DEF StartsQuery
  <2> QED BY <1>4, <1>6, <1>8, <2>1, <2>2, <2>3 DEF StartsQuery
<1>9. ASSUME NEW r \in Replies, AnswersQuery(g, r) PROVE BaseInv'
  BY <1>1, <1>3, <1>4, <1>6, <1>9, PipeFacts DEF AnswersQuery, Answers
<1>10. CASE Ends(g)
  <2>1. /\ alive' \in [Gens -> BOOLEAN] /\ session' \in [Gens -> {"none", "open", "poisoned"}]
        /\ inbox' \in [Gens -> Seq(Requests)] /\ active' \in [Gens -> Seq(Requests)]
        /\ \A h \in Gens : /\ Len(active'[h]) <= 1
                           /\ active'[h] # <<>> => active'[h][1].method = "execute"
    BY <1>3, <1>4, <1>10 DEF Ends, ProcessEnds
  <2>2. outbox' \in [Gens -> Seq(Responses)]
    <3>1. "ok" \in Replies
      BY DEF Replies
    <3>2. CASE inbox[g] # <<>> /\ Answers(g, Head(inbox[g]), "ok")
      <4>1. Append(outbox[g], Response(Head(inbox[g]), "ok")) \in Seq(Responses)
        BY <1>1, <3>1, <3>2, PipeFacts
      <4> QED BY <1>4, <3>2, <4>1 DEF Answers
    <3> QED BY <1>4, <1>10, <3>2 DEF Ends
  <2> QED BY <1>6, <2>1, <2>2
<1> QED BY <1>7, <1>8, <1>9, <1>10, WorkerForms

\* A step of the clients of a later limiter leaves this client and its limiter alone.
Aside == \/ \E n \in scenario.limits : NewLimiter(n)
         \/ \E i \in DOMAIN later : LaterStart(i) \/ LaterEnd(i)
SameClient == UNCHANGED <<scenario, child, connected, generation, connectLock, queryLock, pend,
                          others, alive, session, active, inbox, outbox, reader, pc, req, resp,
                          tries, after, killgen, cancelled, result>>
LEMMA AsideSame ==
    ASSUME Aside
    PROVE  SameClient
BY DEF Aside, SameClient, NewLimiter, LaterStart, LaterEnd, Elsewhere, stateVars, workerVars, callVars

\* Every step keeps the types.
LEMMA BaseInductive ==
    ASSUME BaseInv, [Next]_vars
    PROVE  BaseInv'
<1>1. CASE UNCHANGED vars \/ Aside
  <2>1. SameClient
    BY <1>1, AsideSame DEF vars, SameClient
  <2> QED BY <2>1 DEF SameClient, BaseInv, TypeOK, PipeInv, LabelInv
<1>2. ASSUME NEW c \in Calls, ExecQueryLock(c) PROVE BaseInv'
  <2>1. c \in Execs
    BY <1>2 DEF ExecQueryLock, BaseInv, LabelInv
  <2> QED BY <1>2, <2>1, ExecQueryLockBase
<1>3. ASSUME NEW c \in Calls,
             CallStart(c) \/ CallStep(c) \/ WriteFails(c) \/ RequestTimeout(c) \/ GiveUp(c)
      PROVE  BaseInv'
  BY <1>2, <1>3, CallStartBase, EnsureLockBase, EnsureStartBase, EnsureSendBase, EnsureReplyBase,
     EnsureSetBase, SendRequestBase, CallReplyBase, WriteFailsBase, RequestTimeoutBase, GiveUpBase
  DEF CallStep
<1>4. ASSUME NEW g \in Gens, ReaderDeliver(g) \/ ReaderEnd(g) \/ WorkerStep(g) \/ WorkerDies(g)
      PROVE  BaseInv'
  BY <1>4, ReaderDeliverBase, ReaderEndBase, WorkerBase
<1> QED BY <1>1, <1>3, <1>4, UserCancelBase, KillTakeBase, KillFinishBase, OthersStartBase,
           OthersEndBase DEF Next, Aside

(***************************************************************************)
(* What the calls do to the child: they leave it, lose it or start one.     *)
(***************************************************************************)
ChildKept == UNCHANGED <<child, generation, alive, reader>>
ChildNone == child' = 0 /\ generation' \in Nat /\ generation' >= generation /\ UNCHANGED <<alive, reader>>
ChildNew ==
    /\ generation + 1 \in Gens /\ PermitFree
    /\ child' = generation + 1 /\ generation' = generation + 1
    /\ alive' = [alive EXCEPT ![generation + 1] = TRUE]
    /\ reader' = [reader EXCEPT ![generation + 1] = "run"]
ChildMoves == ChildKept \/ ChildNone \/ ChildNew

\* The start of a child in these terms; a child that is there is alive.
LEMMA StartMoves ==
    ASSUME TypeOK, NEW o \in StartOutcomes, Started(o)
    PROVE  /\ ChildMoves
           /\ o.ok => o.child = child' /\ child' \in Gens /\ alive'[child'] /\ (ChildKept \/ ChildNew)
           /\ o.ok /\ o.connected => ChildKept
<1>1. /\ child \in 0 .. MaxGen /\ generation \in 0 .. MaxGen /\ alive \in [Gens -> BOOLEAN]
  BY DEF TypeOK
<1>2. CASE KeptChild(o)
  BY <1>1, <1>2, ConstantFacts DEF KeptChild, ChildMoves, ChildKept
<1>3. CASE NoChild(o)
  <2>1. ~o.ok
    BY <1>3 DEF NoChild
  <2>2. generation' \in Nat
    BY <1>3, ConstantFacts DEF NoChild
  <2>3. ChildNone
    BY <1>3, <2>2 DEF NoChild, ChildNone
  <2> QED BY <2>1, <2>3 DEF ChildMoves
<1>4. CASE NewChild(o)
  <2>1. ChildNew
    BY <1>4 DEF NewChild, ChildNew
  <2>2. o.connected = FALSE
    BY <1>4 DEF NewChild
  <2>3. o.child = child' /\ child' \in Gens /\ alive'[child']
    BY <1>1, <1>4 DEF NewChild
  <2> QED BY <2>1, <2>2, <2>3 DEF ChildMoves
<1> QED BY <1>2, <1>3, <1>4, StartFacts

\* Numbers of children.
LEMMA GenFacts ==
    ASSUME TypeOK
    PROVE  /\ generation \in Nat /\ child \in Nat /\ child <= generation
           /\ child # 0 => child \in Gens
           /\ \A g \in Gens : g \in Nat
BY ConstantFacts DEF TypeOK, Gens

\* The readers are finitely many.
LEMMA ReaderCount ==
    /\ IsFiniteSet(Gens) /\ IsFiniteSet(Readers) /\ Cardinality(Readers) \in Nat
<1>1. IsFiniteSet(Gens)
  BY ConstantFacts, FS_Interval DEF Gens
<1> QED BY <1>1, FS_Subset, FS_CardinalityType DEF Readers

\* A move of the calls keeps the invariants of the children.
LEMMA ChildWorker ==
    ASSUME TypeOK, TypeOK', GenInv, KillInv, PermitInv, ChildMoves,
           UNCHANGED <<session, active, outbox, killgen, others>>,
           \A g \in Gens : inbox'[g] = inbox[g] \/ alive'[g]
    PROVE  GenInv' /\ KillInv' /\ PermitInv'
<1>1. /\ alive \in [Gens -> BOOLEAN] /\ reader \in [Gens -> {"none", "run", "done"}]
      /\ killgen \in [Tasks -> 0 .. MaxGen]
  BY DEF TypeOK
<1>2. CASE ChildKept \/ ChildNone
  <2>1. GenInv'
    BY <1>2, GenFacts DEF GenInv, ChildKept, ChildNone
  <2>2. KillInv'
    BY <1>1, <1>2, GenFacts, ConstantFacts DEF KillInv, ChildKept, ChildNone
  <2>3. PermitInv'
    BY <1>2 DEF PermitInv, ChildKept, ChildNone, Readers
  <2> QED BY <2>1, <2>2, <2>3
<1>3. CASE ChildNew
  <2> DEFINE g == generation + 1
  <2>1. g \in Gens /\ g \in Nat /\ g > generation
    BY <1>3, GenFacts DEF ChildNew
  <2>2. \A h \in Gens : h # g => alive'[h] = alive[h] /\ reader'[h] = reader[h]
    BY <1>1, <1>3 DEF ChildNew
  <2>3. alive'[g] = TRUE /\ reader'[g] = "run"
    BY <1>1, <1>3, <2>1 DEF ChildNew
  <2>4. generation' = g /\ child' = g
    BY <1>3 DEF ChildNew
  <2>5. \A h \in Gens : h > g => h > generation /\ h # g
    BY <2>1, GenFacts
  <2>6. reader[g] = "none" /\ outbox[g] = <<>>
    BY <2>1 DEF GenInv
  <2>7. GenInv'
    <3>1. \A h \in Gens : h > generation' => ~alive'[h] /\ reader'[h] = "none" /\ outbox'[h] = <<>>
      BY <2>2, <2>4, <2>5 DEF GenInv
    <3>2. \A h \in Gens : ~alive'[h] => session'[h] = "none" /\ active'[h] = <<>> /\ inbox'[h] = <<>>
      BY <2>2, <2>3 DEF GenInv
    <3>3. \A h \in Gens : alive'[h] => reader'[h] = "run"
      BY <2>2, <2>3 DEF GenInv
    <3> QED BY <3>1, <3>2, <3>3 DEF GenInv
  <2>8. KillInv'
    <3> SUFFICES ASSUME NEW t \in Tasks PROVE killgen'[t] <= generation' /\ killgen'[t] # child'
      BY DEF KillInv
    <3>1. killgen[t] <= generation /\ killgen[t] \in Nat
      BY <1>1, ConstantFacts DEF KillInv
    <3> QED BY <2>1, <2>4, <3>1, GenFacts
  <2>9. PermitInv'
    <3>1. Readers' = Readers \cup {g} /\ g \notin Readers
      BY <2>1, <2>2, <2>3, <2>6 DEF Readers
    <3>2. Cardinality(Readers') = Cardinality(Readers) + 1
      BY <3>1, ReaderCount, FS_AddElement
    <3>3. Cardinality(Readers) + others < Limit /\ others \in Nat /\ Limit \in Nat
      BY <1>3, ConstantFacts DEF ChildNew, PermitFree, TypeOK
    <3>4. others' = others
      OBVIOUS
    <3> QED BY <3>2, <3>3, <3>4, ReaderCount DEF PermitInv
  <2> QED BY <2>7, <2>8, <2>9
<1> QED BY <1>2, <1>3 DEF ChildMoves

(***************************************************************************)
(* What the calls do to the call that owns the query of the child.          *)
(***************************************************************************)
Busy(e) == pc[e] = "take" \/ (pc[e] = "resp" /\ resp[e] \in {"none", "poisoned"})
Undisturbed(e) ==
    /\ queryLock' = e /\ pc'[e] \in {pc[e], "take"} /\ req'[e] = req[e]
    /\ resp[e] = "poisoned" \/ (resp[e] = "none" /\ pend[e] = child) =>
           resp'[e] = resp[e] /\ pend'[e] = pend[e]
OwnerKept == \A e \in Execs : queryLock = e /\ Busy(e) => Undisturbed(e)

\* A call that owns the query of the child, or has poisoned it, is busy.
LEMMA OwnerKeptInductive ==
    ASSUME BaseInv, GenInv, OwnInv, PoisonInv, OwnerKept,
           child' = child \/ child' = 0 \/ ChildNew,
           UNCHANGED <<session, active, outbox, inbox>>
    PROVE  OwnInv' /\ PoisonInv'
<1>1. TypeOK /\ PipeInv
  BY DEF BaseInv
<1>2. CASE child' = 0
  BY <1>2 DEF OwnInv, PoisonInv
<1>3. CASE ChildNew
  <2>1. child' \in Gens /\ child' > generation
    BY <1>1, <1>3, GenFacts DEF ChildNew
  <2>2. ~alive[child']
    BY <2>1 DEF GenInv
  <2>3. session[child'] = "none" /\ active[child'] = <<>> /\ inbox[child'] = <<>>
    BY <2>1, <2>2 DEF GenInv
  <2>4. QueriesAt(child)' = {}
    BY <2>3 DEF QueriesAt
  <2>5. OwnInv'
    BY <2>4 DEF OwnInv
  <2>6. PoisonInv'
    BY <2>3 DEF PoisonInv
  <2> QED BY <2>5, <2>6
<1>4. CASE child' = child
  <2>1. child' = child /\ (child # 0 => child \in Gens)
    BY <1>1, <1>4, GenFacts
  <2>2. ASSUME NEW q, Owned(q) PROVE Owned(q)'
    <3>1. q.call \in Execs /\ queryLock = q.call /\ Busy(q.call)
      BY <2>2 DEF Owned, Waits, Busy
    <3>2. Undisturbed(q.call)
      BY <3>1 DEF OwnerKept
    <3>3. pc'[q.call] = "take" \/ Waits(q.call)'
      BY <2>1, <2>2, <3>2 DEF Undisturbed, Waits, Owned
    <3> QED BY <2>2, <3>2, <3>3 DEF Owned, Undisturbed
  <2>3. OwnInv'
    <3>1. QueriesAt(child)' = QueriesAt(child)
      BY <2>1 DEF QueriesAt
    <3> QED BY <2>1, <2>2, <3>1 DEF OwnInv
  <2>4. PoisonInv'
    <3> SUFFICES ASSUME child # 0, session[child] = "poisoned" PROVE PoisonInv'
      BY <2>1 DEF PoisonInv
    <3>1. PICK e \in Execs : /\ queryLock = e
                             /\ \/ pc[e] = "take"
                                \/ pc[e] = "resp" /\ resp[e] = "poisoned"
                                \/ Waits(e) /\ Poisoned(e)
      BY DEF PoisonInv
    <3>2. Busy(e)
      BY <3>1 DEF Busy, Waits
    <3>3. Undisturbed(e)
      BY <3>1, <3>2 DEF OwnerKept
    <3>4. Poisoned(e) => Poisoned(e)'
      BY <2>1, <3>3 DEF Poisoned, Undisturbed
    <3>5. \/ pc'[e] = "take"
          \/ pc'[e] = "resp" /\ resp'[e] = "poisoned"
          \/ Waits(e)' /\ Poisoned(e)'
      BY <2>1, <3>1, <3>3, <3>4 DEF Undisturbed, Waits
    <3> QED BY <3>3, <3>5 DEF PoisonInv, Undisturbed
  <2> QED BY <2>3, <2>4
<1> QED BY <1>2, <1>3, <1>4

\* A step in which no call sends or is answered.
QuietCalls ==
    /\ LockInv' /\ OwnerKept /\ ChildMoves
    /\ \A c \in Calls : pc'[c] \in {"cresp", "resp"} => pc'[c] = pc[c]
    /\ UNCHANGED <<pend, req, resp, session, active, inbox, outbox, killgen, others>>
LEMMA QuietInductive ==
    ASSUME IInv, BaseInv', QuietCalls
    PROVE  IInv'
<1> USE DEF IInv, WorkerInv, BaseInv, QuietCalls
<1>1. GenInv' /\ KillInv' /\ PermitInv'
  BY ChildWorker
<1>2. OwnInv' /\ PoisonInv'
  <2>1. child' = child \/ child' = 0 \/ ChildNew
    BY DEF ChildMoves, ChildKept, ChildNone
  <2> QED BY <2>1, OwnerKeptInductive
<1>3. PendInv'
  <2>1. generation' \in Nat /\ generation' >= generation /\ generation \in Nat
    BY GenFacts DEF ChildMoves, ChildKept, ChildNone, ChildNew
  <2>2. pend \in [Calls -> 0 .. MaxGen] /\ MaxGen \in Nat
    BY ConstantFacts DEF TypeOK
  <2> QED BY <2>1, <2>2 DEF PendInv
<1>4. IdInv'
  BY DEF IdInv, Distinct
<1>5. NoOrphanRequest'
  <2>1. \A g \in Gens : reader[g] = "run" => reader'[g] = "run"
    BY DEF ChildMoves, ChildKept, ChildNone, ChildNew, TypeOK
  <2>2. \A c \in Calls : pend[c] \in 0 .. MaxGen
    BY DEF TypeOK
  <2> QED BY <2>1, <2>2, ConstantFacts DEF NoOrphanRequest
<1> QED BY <1>1, <1>2, <1>3, <1>4, <1>5

(***************************************************************************)
(* The steps of the calls that neither send nor are answered.               *)
(***************************************************************************)
\* A call begins.
LEMMA CallStartQuiet ==
    ASSUME BaseInv, LockInv, NEW c \in Calls, CallStart(c)
    PROVE  QuietCalls
<1> USE DEF BaseInv
<1>1. /\ ChildKept
      /\ UNCHANGED <<pend, req, resp, session, active, inbox, outbox, killgen, others>>
  BY DEF ChildKept, Goto, CallStart, stateVars, workerVars, callVars
<1>2. \A b \in Calls : pc'[b] \in {"cresp", "resp"} => pc'[b] = pc[b]
  BY ConstantFacts DEF TypeOK, Goto, CallStart, stateVars, workerVars, callVars
<1>3. LockInv'
  BY ConstantFacts DEF TypeOK, LockInv, Goto, CallStart, stateVars, workerVars, callVars
<1>4. OwnerKept
  <2> SUFFICES ASSUME NEW e \in Execs, queryLock = e, Busy(e) PROVE queryLock' = e /\ pc'[e] \in {pc[e], "take"}
    BY <1>1 DEF OwnerKept, Undisturbed
  <2> QED BY ConstantFacts DEF TypeOK, Busy, Goto, CallStart, stateVars, workerVars, callVars
<1> QED BY <1>1, <1>2, <1>3, <1>4 DEF QuietCalls, ChildMoves

\* A query takes query_lock.
LEMMA ExecQueryLockQuiet ==
    ASSUME BaseInv, LockInv, NEW c \in Execs, ExecQueryLock(c)
    PROVE  QuietCalls
<1> USE DEF BaseInv
<1>1. /\ ChildKept
      /\ UNCHANGED <<pend, req, resp, session, active, inbox, outbox, killgen, others>>
  BY DEF ChildKept, Goto, QueryLockFree, ExecQueryLock, stateVars, workerVars, callVars
<1>2. \A b \in Calls : pc'[b] \in {"cresp", "resp"} => pc'[b] = pc[b]
  BY ConstantFacts DEF TypeOK, Goto, QueryLockFree, ExecQueryLock, stateVars, workerVars, callVars
<1>3. LockInv'
  BY ConstantFacts DEF TypeOK, LockInv, Goto, QueryLockFree, ExecQueryLock, stateVars, workerVars, callVars
<1>4. OwnerKept
  <2> SUFFICES ASSUME NEW e \in Execs, queryLock = e, Busy(e) PROVE queryLock' = e /\ pc'[e] \in {pc[e], "take"}
    BY <1>1 DEF OwnerKept, Undisturbed
  <2> QED BY ConstantFacts DEF TypeOK, Busy, Goto, QueryLockFree, ExecQueryLock, stateVars, workerVars, callVars
<1> QED BY <1>1, <1>2, <1>3, <1>4 DEF QuietCalls, ChildMoves

\* A call takes connect_lock.
LEMMA EnsureLockQuiet ==
    ASSUME BaseInv, LockInv, NEW c \in Calls, EnsureLock(c)
    PROVE  QuietCalls
<1> USE DEF BaseInv
<1>1. /\ ChildKept
      /\ UNCHANGED <<pend, req, resp, session, active, inbox, outbox, killgen, others>>
  BY DEF ChildKept, Goto, EnsureLock, stateVars, workerVars, callVars
<1>2. \A b \in Calls : pc'[b] \in {"cresp", "resp"} => pc'[b] = pc[b]
  BY ConstantFacts DEF TypeOK, Goto, EnsureLock, stateVars, workerVars, callVars
<1>3. LockInv'
  BY ConstantFacts DEF TypeOK, LockInv, Goto, EnsureLock, stateVars, workerVars, callVars
<1>4. OwnerKept
  <2> SUFFICES ASSUME NEW e \in Execs, queryLock = e, Busy(e) PROVE queryLock' = e /\ pc'[e] \in {pc[e], "take"}
    BY <1>1 DEF OwnerKept, Undisturbed
  <2> QED BY ConstantFacts DEF TypeOK, Busy, Goto, EnsureLock, stateVars, workerVars, callVars
<1> QED BY <1>1, <1>2, <1>3, <1>4 DEF QuietCalls, ChildMoves

\* The answer to Connect.
LEMMA EnsureReplyQuiet ==
    ASSUME BaseInv, LockInv, NEW c \in Calls, EnsureReply(c)
    PROVE  QuietCalls
<1> USE DEF BaseInv
<1>1. /\ ChildKept
      /\ UNCHANGED <<pend, req, resp, session, active, inbox, outbox, killgen, others>>
  BY DEF ChildKept, Goto, GoKill, EnsureReply, stateVars, workerVars, callVars
<1>2. \A b \in Calls : pc'[b] \in {"cresp", "resp"} => pc'[b] = pc[b]
  BY ConstantFacts DEF TypeOK, Goto, GoKill, EnsureReply, stateVars, workerVars, callVars
<1>3. LockInv'
  BY ConstantFacts DEF TypeOK, LockInv, Goto, GoKill, EnsureReply, stateVars, workerVars, callVars
<1>4. OwnerKept
  <2> SUFFICES ASSUME NEW e \in Execs, queryLock = e, Busy(e) PROVE queryLock' = e /\ pc'[e] \in {pc[e], "take"}
    BY <1>1 DEF OwnerKept, Undisturbed
  <2> QED BY ConstantFacts DEF TypeOK, Busy, Goto, GoKill, EnsureReply, stateVars, workerVars, callVars
<1> QED BY <1>1, <1>2, <1>3, <1>4 DEF QuietCalls, ChildMoves

\* connected is set.
LEMMA EnsureSetQuiet ==
    ASSUME BaseInv, LockInv, NEW c \in Calls, EnsureSet(c)
    PROVE  QuietCalls
<1> USE DEF BaseInv
<1>1. /\ ChildKept
      /\ UNCHANGED <<pend, req, resp, session, active, inbox, outbox, killgen, others>>
  BY DEF ChildKept, Goto, EnsureSet, stateVars, workerVars, callVars
<1>2. \A b \in Calls : pc'[b] \in {"cresp", "resp"} => pc'[b] = pc[b]
  BY ConstantFacts DEF TypeOK, Goto, EnsureSet, stateVars, workerVars, callVars
<1>3. LockInv'
  BY ConstantFacts DEF TypeOK, LockInv, Goto, EnsureSet, stateVars, workerVars, callVars
<1>4. OwnerKept
  <2> SUFFICES ASSUME NEW e \in Execs, queryLock = e, Busy(e) PROVE queryLock' = e /\ pc'[e] \in {pc[e], "take"}
    BY <1>1 DEF OwnerKept, Undisturbed
  <2> QED BY ConstantFacts DEF TypeOK, Busy, Goto, EnsureSet, stateVars, workerVars, callVars
<1> QED BY <1>1, <1>2, <1>3, <1>4 DEF QuietCalls, ChildMoves

\* A write fails.
LEMMA WriteFailsQuiet ==
    ASSUME BaseInv, LockInv, NEW c \in Calls, WriteFails(c)
    PROVE  QuietCalls
<1> USE DEF BaseInv
<1>1. /\ ChildKept
      /\ UNCHANGED <<pend, req, resp, session, active, inbox, outbox, killgen, others>>
  BY DEF ChildKept, Goto, GoKill, Return, Freed, WriteFails, stateVars, workerVars, callVars
<1>2. \A b \in Calls : pc'[b] \in {"cresp", "resp"} => pc'[b] = pc[b]
  BY ConstantFacts DEF TypeOK, Goto, GoKill, Return, Freed, WriteFails, stateVars, workerVars, callVars
<1>3. LockInv'
  BY ConstantFacts DEF TypeOK, LockInv, Goto, GoKill, Return, Freed, WriteFails, stateVars, workerVars, callVars
<1>4. OwnerKept
  <2> SUFFICES ASSUME NEW e \in Execs, queryLock = e, Busy(e) PROVE queryLock' = e /\ pc'[e] \in {pc[e], "take"}
    BY <1>1 DEF OwnerKept, Undisturbed
  <2> QED BY ConstantFacts DEF TypeOK, Busy, Goto, GoKill, Return, Freed, WriteFails, stateVars, workerVars, callVars
<1> QED BY <1>1, <1>2, <1>3, <1>4 DEF QuietCalls, ChildMoves

\* The answer to a request.
LEMMA CallReplyQuiet ==
    ASSUME BaseInv, LockInv, NEW c \in Calls, CallReply(c)
    PROVE  QuietCalls
<1> USE DEF BaseInv
<1>1. /\ ChildKept
      /\ UNCHANGED <<pend, req, resp, session, active, inbox, outbox, killgen, others>>
  BY DEF ChildKept, Goto, GoKill, Return, Freed, KillsAfter, CallReply, stateVars, workerVars, callVars
<1>2. \A b \in Calls : pc'[b] \in {"cresp", "resp"} => pc'[b] = pc[b]
  BY ConstantFacts DEF TypeOK, Goto, GoKill, Return, Freed, KillsAfter, CallReply, stateVars, workerVars, callVars
<1>3. LockInv'
  BY ConstantFacts DEF TypeOK, LockInv, Goto, GoKill, Return, Freed, KillsAfter, CallReply, stateVars, workerVars, callVars
<1>4. OwnerKept
  <2> SUFFICES ASSUME NEW e \in Execs, queryLock = e, Busy(e) PROVE queryLock' = e /\ pc'[e] \in {pc[e], "take"}
    BY <1>1 DEF OwnerKept, Undisturbed
  <2> QED BY ConstantFacts DEF TypeOK, Busy, Goto, GoKill, Return, Freed, KillsAfter, CallReply, stateVars, workerVars, callVars
<1> QED BY <1>1, <1>2, <1>3, <1>4 DEF QuietCalls, ChildMoves

\* A call is given up.
LEMMA GiveUpQuiet ==
    ASSUME BaseInv, LockInv, NEW c \in Calls, GiveUp(c)
    PROVE  QuietCalls
<1> USE DEF BaseInv
<1>1. /\ ChildKept
      /\ UNCHANGED <<pend, req, resp, session, active, inbox, outbox, killgen, others>>
  BY DEF ChildKept, Goto, GoKill, Freed, InFuture, GiveUp, stateVars, workerVars, callVars
<1>2. \A b \in Calls : pc'[b] \in {"cresp", "resp"} => pc'[b] = pc[b]
  BY ConstantFacts DEF TypeOK, Goto, GoKill, Freed, InFuture, GiveUp, stateVars, workerVars, callVars
<1>3. LockInv'
  BY ConstantFacts DEF TypeOK, LockInv, Goto, GoKill, Freed, InFuture, GiveUp, stateVars, workerVars, callVars
<1>4. OwnerKept
  <2> SUFFICES ASSUME NEW e \in Execs, queryLock = e, Busy(e) PROVE queryLock' = e /\ pc'[e] \in {pc[e], "take"}
    BY <1>1 DEF OwnerKept, Undisturbed
  <2> QED BY ConstantFacts DEF TypeOK, Busy, Goto, GoKill, Freed, InFuture, GiveUp, stateVars, workerVars, callVars
<1> QED BY <1>1, <1>2, <1>3, <1>4 DEF QuietCalls, ChildMoves

\* The user cancels.
LEMMA UserCancelQuiet ==
    ASSUME BaseInv, LockInv, NEW c \in Execs, UserCancel(c)
    PROVE  QuietCalls
<1> USE DEF BaseInv
<1>1. /\ ChildKept
      /\ UNCHANGED <<pend, req, resp, session, active, inbox, outbox, killgen, others>>
  BY DEF ChildKept, UserCancel, stateVars, workerVars, callVars
<1>2. \A b \in Calls : pc'[b] \in {"cresp", "resp"} => pc'[b] = pc[b]
  BY ConstantFacts DEF TypeOK, UserCancel, stateVars, workerVars, callVars
<1>3. LockInv'
  BY ConstantFacts DEF TypeOK, LockInv, UserCancel, stateVars, workerVars, callVars
<1>4. OwnerKept
  <2> SUFFICES ASSUME NEW e \in Execs, queryLock = e, Busy(e) PROVE queryLock' = e /\ pc'[e] \in {pc[e], "take"}
    BY <1>1 DEF OwnerKept, Undisturbed
  <2> QED BY ConstantFacts DEF TypeOK, Busy, UserCancel, stateVars, workerVars, callVars
<1> QED BY <1>1, <1>2, <1>3, <1>4 DEF QuietCalls, ChildMoves

\* A call that leaves send or csend without having sent, or start with or without a child.
LEMMA LeavesQuiet ==
    ASSUME BaseInv, LockInv, NEW c \in Calls, NEW l \in {"done", "send", "csend", "take"},
           pc[c] \in {"start", "csend", "send"}, pc' = [pc EXCEPT ![c] = l], ChildMoves,
           queryLock' = queryLock \/ (l = "done" /\ queryLock' = Freed(queryLock, c)),
           UNCHANGED <<pend, req, resp, session, active, inbox, outbox, killgen, others>>
    PROVE  QuietCalls
<1>1. pc \in [Tasks -> {"idle", "query", "connect", "start", "csend", "cresp", "cset",
                        "send", "resp", "take", "fail", "done"}] /\ c \in Tasks
  BY ConstantFacts DEF BaseInv, TypeOK
<1>2. \A b \in Calls : pc'[b] \in {"cresp", "resp"} => pc'[b] = pc[b]
  BY <1>1, ConstantFacts
<1>3. LockInv'
  BY <1>1, ConstantFacts DEF LockInv, Freed
<1>4. OwnerKept
  <2> SUFFICES ASSUME NEW e \in Execs, queryLock = e, Busy(e) PROVE queryLock' = e /\ pc'[e] \in {pc[e], "take"}
    BY DEF OwnerKept, Undisturbed
  <2> QED BY <1>1, ConstantFacts DEF Busy, Freed
<1> QED BY <1>2, <1>3, <1>4 DEF QuietCalls

\* A child is there, or a call fails without one.
LEMMA EnsureStartQuiet ==
    ASSUME BaseInv, LockInv, NEW c \in Calls, EnsureStart(c)
    PROVE  QuietCalls
<1>1. PICK o \in StartOutcomes :
        /\ Started(o)
        /\ \/ ~o.ok /\ Return(c, "err")
           \/ /\ o.ok /\ o.connected
              /\ Goto(c, "send")
              /\ connectLock' = NoCall
              /\ UNCHANGED <<queryLock, result>>
           \/ /\ o.ok /\ ~o.connected
              /\ Goto(c, "csend")
              /\ UNCHANGED <<connectLock, queryLock, result>>
  BY DEF EnsureStart
<1>2. ChildMoves
  BY <1>1, StartMoves DEF BaseInv
<1>3. PICK l \in {"done", "send", "csend"} :
        /\ pc' = [pc EXCEPT ![c] = l]
        /\ queryLock' = queryLock \/ (l = "done" /\ queryLock' = Freed(queryLock, c))
  BY <1>1 DEF Return, Goto
<1>4. /\ pc[c] = "start"
      /\ UNCHANGED <<pend, req, resp, session, active, inbox, outbox, killgen, others>>
  BY DEF EnsureStart
<1>5. l \in {"done", "send", "csend", "take"} /\ pc[c] \in {"start", "csend", "send"}
  BY <1>4
<1> QED BY <1>2, <1>3, <1>4, <1>5, LeavesQuiet

(***************************************************************************)
(* A request is sent.                                                       *)
(***************************************************************************)
Sends(c, m) ==
    /\ m \in Methods /\ (m = "execute" <=> c \in Execs /\ pc[c] = "send")
    /\ ChildKept \/ ChildNew
    /\ child' \in Gens /\ alive'[child'] /\ (pc[c] = "send" => ChildKept)
    /\ Written(c, m, child')
    /\ \/ pc[c] = "csend" /\ pc' = [pc EXCEPT ![c] = "cresp"]
       \/ pc[c] = "send" /\ pc' = [pc EXCEPT ![c] = "resp"]
    /\ UNCHANGED <<queryLock, session, active, outbox, killgen, others>>

\* The Connect request is sent, or the call goes on to kill.
LEMMA EnsureSendForms ==
    ASSUME BaseInv, LockInv, NEW c \in Calls, EnsureSend(c)
    PROVE  QuietCalls \/ \E m \in Methods : Sends(c, m)
<1>1. PICK o \in StartOutcomes :
        /\ Started(o)
        /\ \/ /\ o.ok
              /\ Written(c, "connect", o.child)
              /\ Goto(c, "cresp")
              /\ UNCHANGED after
           \/ /\ ~o.ok
              /\ GoKill(c, "err")
              /\ UNCHANGED <<pend, inbox, req, resp>>
  BY DEF EnsureSend
<1>2. /\ ChildMoves
      /\ o.ok => o.child = child' /\ child' \in Gens /\ alive'[child'] /\ (ChildKept \/ ChildNew)
  BY <1>1, StartMoves DEF BaseInv
<1>3. /\ pc[c] = "csend" /\ "connect" \in Methods
      /\ UNCHANGED <<queryLock, session, active, outbox, killgen, others>>
  BY DEF EnsureSend, Methods
<1>4. CASE o.ok /\ Written(c, "connect", o.child) /\ Goto(c, "cresp")
  <2>1. o.child = child' /\ child' \in Gens /\ alive'[child'] /\ (ChildKept \/ ChildNew)
    BY <1>2, <1>4
  <2>2. Sends(c, "connect")
    BY <1>3, <1>4, <2>1 DEF Sends, Goto
  <2> QED BY <1>3, <2>2
<1>5. CASE GoKill(c, "err") /\ UNCHANGED <<pend, inbox, req, resp>>
  <2>1. pc' = [pc EXCEPT ![c] = "take"]
    BY <1>5 DEF GoKill, Goto
  <2>2. "take" \in {"done", "send", "csend", "take"} /\ pc[c] \in {"start", "csend", "send"}
    BY <1>3
  <2> QED BY <1>2, <1>3, <1>5, <2>1, <2>2, LeavesQuiet
<1> QED BY <1>1, <1>4, <1>5

\* The request of a call is sent, or the call fails.
LEMMA SendRequestForms ==
    ASSUME BaseInv, LockInv, NEW c \in Calls, SendRequest(c)
    PROVE  QuietCalls \/ \E m \in Methods : Sends(c, m)
<1>1. PICK o \in StartOutcomes :
        /\ Started(o)
        /\ \/ /\ o.ok /\ o.connected
              /\ Written(c, MethodOf(c), o.child)
              /\ Goto(c, "resp")
              /\ UNCHANGED <<after, connectLock, queryLock, result>>
           \/ /\ ~(o.ok /\ o.connected)
              /\ IF c \in Shutdowns
                 THEN GoKill(c, "done") /\ UNCHANGED <<connectLock, queryLock, result>>
                 ELSE Return(c, "err") /\ UNCHANGED after
              /\ UNCHANGED <<pend, inbox, req, resp>>
  BY DEF SendRequest
<1>2. /\ ChildMoves
      /\ o.ok => o.child = child' /\ child' \in Gens /\ alive'[child']
      /\ o.ok /\ o.connected => ChildKept
  BY <1>1, StartMoves DEF BaseInv
<1>3. /\ pc[c] = "send" /\ MethodOf(c) \in Methods /\ (MethodOf(c) = "execute" <=> c \in Execs)
      /\ UNCHANGED <<session, active, outbox, killgen, others>>
  BY ConstantFacts DEF SendRequest, Methods, MethodOf
<1>4. CASE /\ o.ok /\ o.connected /\ Written(c, MethodOf(c), o.child) /\ Goto(c, "resp")
           /\ UNCHANGED queryLock
  <2>1. o.child = child' /\ child' \in Gens /\ alive'[child'] /\ ChildKept
    BY <1>2, <1>4
  <2>2. Sends(c, MethodOf(c))
    BY <1>3, <1>4, <2>1 DEF Sends, Goto
  <2> QED BY <1>3, <2>2
<1>5. CASE UNCHANGED <<pend, inbox, req, resp>> /\ GoKill(c, "done") /\ UNCHANGED queryLock
  <2>1. pc' = [pc EXCEPT ![c] = "take"]
    BY <1>5 DEF GoKill, Goto
  <2>2. "take" \in {"done", "send", "csend", "take"} /\ pc[c] \in {"start", "csend", "send"}
    BY <1>3
  <2> QED BY <1>2, <1>3, <1>5, <2>1, <2>2, LeavesQuiet
<1>6. CASE UNCHANGED <<pend, inbox, req, resp>> /\ Return(c, "err")
  <2>1. pc' = [pc EXCEPT ![c] = "done"] /\ queryLock' = Freed(queryLock, c)
    BY <1>6 DEF Return, Goto
  <2>2. "done" \in {"done", "send", "csend", "take"} /\ pc[c] \in {"start", "csend", "send"}
    BY <1>3
  <2> QED BY <1>2, <1>3, <1>6, <2>1, <2>2, LeavesQuiet
<1> QED BY <1>1, <1>4, <1>5, <1>6

\* Who and which request the messages at a child are about.
LEMMA PipeNumbers ==
    ASSUME PipeInv, NEW g \in Gens
    PROVE  /\ \A i \in DOMAIN inbox[g] : inbox[g][i].call \in Calls /\ inbox[g][i].n \in Nat
           /\ \A i \in DOMAIN outbox[g] : outbox[g][i].call \in Calls /\ outbox[g][i].n \in Nat
           /\ active[g] # <<>> => active[g][1].call \in Calls /\ active[g][1].n \in Nat
<1>1. \A i \in DOMAIN inbox[g] : inbox[g][i] \in Requests
  BY PipeFacts
<1>2. \A i \in DOMAIN outbox[g] : outbox[g][i] \in Responses
  BY PipeFacts
<1>3. active[g] # <<>> => active[g][1] \in Requests
  BY PipeFacts
<1> QED BY <1>1, <1>2, <1>3 DEF Requests, Responses

\* The elements of a sequence after one is appended.
LEMMA AppendRange ==
    ASSUME NEW T, NEW s \in Seq(T), NEW x \in T
    PROVE  {Append(s, x)[i] : i \in DOMAIN Append(s, x)} = {s[i] : i \in DOMAIN s} \cup {x}
<1>1. Len(s) + 1 \in DOMAIN Append(s, x) /\ \A i \in DOMAIN s : i \in DOMAIN Append(s, x)
  BY AppendFacts
<1> QED BY <1>1, AppendFacts

\* The elements of a sequence are its first one and those of its tail.
LEMMA TailRange ==
    ASSUME NEW T, NEW s \in Seq(T), s # <<>>
    PROVE  /\ {Tail(s)[i] : i \in DOMAIN Tail(s)} \subseteq {s[i] : i \in DOMAIN s}
           /\ \A i \in DOMAIN s : s[i] = Head(s) \/ s[i] \in {Tail(s)[j] : j \in DOMAIN Tail(s)}
<1>1. {Tail(s)[i] : i \in DOMAIN Tail(s)} \subseteq {s[i] : i \in DOMAIN s}
  BY TailFacts
<1>2. ASSUME NEW i \in DOMAIN s, i # 1 PROVE s[i] \in {Tail(s)[j] : j \in DOMAIN Tail(s)}
  BY <1>2, TailFacts
<1> QED BY <1>1, <1>2, TailFacts

\* The sending of a request keeps the invariant.
LEMMA SendsInductive ==
    ASSUME IInv, BaseInv', NEW c \in Calls, NEW m \in Methods, Sends(c, m)
    PROVE  IInv'
<1> USE DEF IInv, WorkerInv, BaseInv
<1> DEFINE g == child'
<1>1. g \in Gens /\ alive'[g] /\ Written(c, m, g) /\ ChildMoves /\ pc[c] \in {"csend", "send"}
  BY DEF Sends, ChildMoves
<1>2. PICK x \in Requests : x = Request(c, m) /\ x.call = c /\ x.n = req[c] + 1 /\ x.method = m
  BY <1>1, WrittenTyped
<1>3. /\ pend \in [Calls -> 0 .. MaxGen] /\ inbox \in [Gens -> Seq(Requests)]
      /\ req \in [Calls -> Nat] /\ resp \in [Calls -> Replies \cup {"none"}]
      /\ c \in Tasks
      /\ pc \in [Tasks -> {"idle", "query", "connect", "start", "csend", "cresp", "cset",
                           "send", "resp", "take", "fail", "done"}]
  BY ConstantFacts DEF TypeOK, PipeInv
<1>4. PICK s \in Seq(Requests) : s = inbox[g]
  BY <1>1, PipeFacts
<1>5. /\ inbox'[g] = Append(s, x) /\ \A h \in Gens : h # g => inbox'[h] = inbox[h]
      /\ pend'[c] = g /\ resp'[c] = "none" /\ req'[c] = req[c] + 1
      /\ \A b \in Calls : b # c => pend'[b] = pend[b] /\ resp'[b] = resp[b] /\ req'[b] = req[b]
  BY <1>1, <1>2, <1>3, <1>4 DEF Written
<1>6. /\ pc'[c] \in {"cresp", "resp"} /\ (pc'[c] = "resp" <=> pc[c] = "send")
      /\ \A b \in Calls : b # c => pc'[b] = pc[b]
      /\ UNCHANGED <<queryLock, session, active, outbox, killgen, others>>
  BY <1>3, ConstantFacts DEF Sends
<1>7. /\ \A i \in DOMAIN Append(s, x) : i \in DOMAIN s \/ i = Len(s) + 1
      /\ \A i \in DOMAIN s : Append(s, x)[i] = s[i] /\ i # Len(s) + 1
      /\ Append(s, x)[Len(s) + 1] = x
  BY AppendFacts
<1> HIDE DEF g
<1>8. GenInv' /\ KillInv' /\ PermitInv'
  <2>1. \A h \in Gens : inbox'[h] = inbox[h] \/ alive'[h]
    BY <1>1, <1>5
  <2> QED BY <1>1, <1>6, <2>1, ChildWorker
<1>9. PendInv'
  <2>1. generation' \in Nat /\ generation' >= generation /\ generation \in Nat /\ g <= generation'
    BY <1>1, GenFacts DEF ChildMoves, ChildKept, ChildNone, ChildNew, g
  <2>2. \A b \in Calls : pend[b] \in Nat
    BY <1>3, ConstantFacts
  <2> QED BY <1>5, <2>1, <2>2 DEF PendInv
<1>10. IdInv'
  <2> SUFFICES ASSUME NEW h \in Gens
               PROVE  Distinct(inbox[h], outbox[h], active[h], req)'
    BY DEF IdInv
  <2>1. /\ \A b \in Calls : req[b] \in Nat /\ req'[b] \in Nat /\ req[b] <= req'[b]
        /\ req'[c] = req[c] + 1 /\ req[c] \in Nat
    BY <1>3, <1>5
  <2>2. /\ \A i \in DOMAIN inbox[h] : inbox[h][i].call \in Calls /\ inbox[h][i].n \in Nat
        /\ \A i \in DOMAIN outbox[h] : outbox[h][i].call \in Calls /\ outbox[h][i].n \in Nat
        /\ active[h] # <<>> => active[h][1].call \in Calls /\ active[h][1].n \in Nat
    BY PipeNumbers
  <2>3. /\ \A i \in DOMAIN inbox[h] : inbox[h][i].n <= req[inbox[h][i].call]
        /\ \A i \in DOMAIN outbox[h] : outbox[h][i].n <= req[outbox[h][i].call]
        /\ active[h] # <<>> => active[h][1].n <= req[active[h][1].call]
    BY DEF IdInv, Distinct
  <2>7. ASSUME NEW b \in Calls, NEW n \in Nat, n <= req[b]
        PROVE  n <= req'[b] /\ ~(c = b /\ req[c] + 1 = n)
    BY <2>1, <2>7
  <2>4. /\ \A i \in DOMAIN outbox[h] : /\ outbox[h][i].n <= req'[outbox[h][i].call]
                                       /\ ~SameId(x, outbox[h][i]) /\ ~SameId(outbox[h][i], x)
        /\ active[h] # <<>> => active[h][1].n <= req'[active[h][1].call] /\ ~SameId(x, active[h][1])
        /\ \A i \in DOMAIN inbox[h] : /\ inbox[h][i].n <= req'[inbox[h][i].call]
                                      /\ ~SameId(x, inbox[h][i]) /\ ~SameId(inbox[h][i], x)
    BY <1>2, <2>2, <2>3, <2>7 DEF SameId
  <2>5. CASE h # g
    BY <1>5, <1>6, <2>4, <2>5 DEF IdInv, Distinct
  <2>6. CASE h = g
    <3>1. inbox'[h] = Append(s, x) /\ s = inbox[h] /\ outbox'[h] = outbox[h] /\ active'[h] = active[h]
      BY <1>4, <1>5, <1>6, <2>6
    <3>2. \A i, j \in DOMAIN inbox'[h] : i # j => ~SameId(inbox'[h][i], inbox'[h][j])
      BY <1>7, <2>4, <3>1 DEF IdInv, Distinct
    <3>3. \A i \in DOMAIN inbox'[h], j \in DOMAIN outbox'[h] : ~SameId(inbox'[h][i], outbox'[h][j])
      BY <1>7, <2>4, <3>1 DEF IdInv, Distinct
    <3>4. active'[h] # <<>> => \A i \in DOMAIN inbox'[h] : ~SameId(inbox'[h][i], active'[h][1])
      BY <1>7, <2>4, <3>1 DEF IdInv, Distinct
    <3>5. \A i \in DOMAIN inbox'[h] : inbox'[h][i].n <= req'[inbox'[h][i].call]
      BY <1>2, <1>7, <2>1, <2>4, <3>1
    <3> QED BY <2>4, <3>1, <3>2, <3>3, <3>4, <3>5 DEF IdInv, Distinct, SameId
  <2> QED BY <2>5, <2>6
<1>11. LockInv'
  BY <1>1, <1>6, ConstantFacts DEF LockInv
<1>12. NoOrphanRequest'
  <2>1. \A h \in Gens : reader[h] = "run" => reader'[h] = "run"
    BY <1>1, SMTT(30) DEF ChildMoves, ChildKept, ChildNone, ChildNew, TypeOK
  <2>2. g # 0 /\ reader'[g] = "run"
    BY <1>1, <1>8, ConstantFacts DEF GenInv
  <2>3. \A b \in Calls : pend[b] # 0 => pend[b] \in Gens
    BY <1>3, ConstantFacts
  <2> QED BY <1>5, <1>6, <2>1, <2>2, <2>3 DEF NoOrphanRequest
<1>13. ASSUME NEW q, Owned(q), ChildKept PROVE Owned(q)'
  <2>1. q.call # c /\ q.call \in Calls
    BY <1>1, <1>13, ConstantFacts DEF Waits, Owned
  <2> QED BY <1>5, <1>6, <1>13, <2>1 DEF Owned, Waits, ChildKept
<1>14. ChildKept \/ (ChildNew /\ pc[c] = "csend" /\ m # "execute")
  BY DEF Sends
<1>15. ASSUME m = "execute" PROVE Owned(x)'
  <2>1. c \in Execs /\ pc[c] = "send"
    BY <1>15 DEF Sends
  <2>2. queryLock = c
    BY <2>1 DEF LockInv
  <2> QED BY <1>2, <1>5, <1>6, <2>1, <2>2 DEF Owned, Waits, g
<1>16. ChildNew => session[g] = "none" /\ active[g] = <<>> /\ inbox[g] = <<>>
  <2>1. ChildNew => g > generation
    BY GenFacts DEF ChildNew, g
  <2> QED BY <1>1, <2>1 DEF GenInv
<1>17. OwnInv'
  <2>1. QueriesAt(child)' = QueriesAt(g) \cup (IF m = "execute" THEN {x} ELSE {})
    <3>1. inbox'[child'] = Append(s, x) /\ s = inbox[g] /\ active'[child'] = active[g]
      BY <1>4, <1>5, <1>6 DEF g
    <3>2. {Append(s, x)[i] : i \in DOMAIN Append(s, x)} = {s[i] : i \in DOMAIN s} \cup {x}
      BY AppendRange
    <3> QED BY <1>2, <3>1, <3>2, SMTT(30) DEF QueriesAt
  <2>2. CASE ChildKept
    <3>1. g = child /\ child # 0
      BY <1>1, <2>2, ConstantFacts DEF ChildKept, g
    <3> QED BY <1>13, <1>15, <2>1, <2>2, <3>1 DEF OwnInv
  <2>3. CASE ChildNew /\ m # "execute"
    <3>1. QueriesAt(g) = {}
      BY <1>16, <2>3 DEF QueriesAt
    <3> QED BY <2>1, <2>3, <3>1 DEF OwnInv
  <2> QED BY <1>14, <2>2, <2>3
<1>18. PoisonInv'
  <2>1. CASE ChildNew
    BY <1>6, <1>16, <2>1 DEF PoisonInv, g
  <2>2. CASE ChildKept
    <3> SUFFICES ASSUME child # 0, session[child] = "poisoned" PROVE PoisonInv'
      BY <1>6, <2>2 DEF PoisonInv, ChildKept
    <3>1. PICK e \in Execs : /\ queryLock = e
                             /\ \/ pc[e] = "take"
                                \/ pc[e] = "resp" /\ resp[e] = "poisoned"
                                \/ Waits(e) /\ Poisoned(e)
      BY DEF PoisonInv
    <3>2. e # c /\ e \in Calls
      BY <1>1, <3>1, ConstantFacts DEF Waits
    <3>3. /\ pc'[e] = pc[e] /\ resp'[e] = resp[e] /\ pend'[e] = pend[e] /\ req'[e] = req[e]
          /\ queryLock' = queryLock /\ outbox' = outbox /\ child' = child
      BY <1>5, <1>6, <2>2, <3>2 DEF ChildKept
    <3>4. \/ pc'[e] = "take"
          \/ pc'[e] = "resp" /\ resp'[e] = "poisoned"
          \/ Waits(e)' /\ Poisoned(e)'
      BY <3>1, <3>3 DEF Waits, Poisoned
    <3> QED BY <3>1, <3>3, <3>4 DEF PoisonInv
  <2> QED BY <1>14, <2>1, <2>2
<1> QED BY <1>8, <1>9, <1>10, <1>11, <1>12, <1>17, <1>18

(***************************************************************************)
(* Timeouts and kills.                                                      *)
(***************************************************************************)
\* The fields of a call.
LEMMA CallTypes ==
    ASSUME TypeOK
    PROVE  /\ pend \in [Calls -> 0 .. MaxGen] /\ req \in [Calls -> Nat]
           /\ resp \in [Calls -> Replies \cup {"none"}] /\ killgen \in [Tasks -> 0 .. MaxGen]
           /\ pc \in [Tasks -> {"idle", "query", "connect", "start", "csend", "cresp", "cset",
                                "send", "resp", "take", "fail", "done"}]
           /\ reader \in [Gens -> {"none", "run", "done"}]
           /\ \A c \in Calls : pend[c] \in Nat /\ (pend[c] # 0 => pend[c] \in Gens)
BY ConstantFacts DEF TypeOK

\* A request times out.
LEMMA RequestTimeoutInductive ==
    ASSUME IInv, BaseInv', NEW c \in Calls, RequestTimeout(c)
    PROVE  IInv'
<1> USE DEF IInv, WorkerInv, BaseInv
<1>1. /\ pc' = [pc EXCEPT ![c] = "take"] /\ pend' = [pend EXCEPT ![c] = 0]
      /\ pc[c] = "cresp" \/ (pc[c] = "resp" /\ c \in Shutdowns)
      /\ UNCHANGED <<child, generation, queryLock, others, alive, session, active, inbox, outbox,
                     reader, req, resp, killgen>>
  BY DEF RequestTimeout, GoKill, Goto, stateVars, workerVars
<1>2. /\ pc'[c] = "take" /\ pend'[c] = 0 /\ c \in Tasks
      /\ \A b \in Calls : b # c => pc'[b] = pc[b] /\ pend'[b] = pend[b]
  BY <1>1, CallTypes, ConstantFacts
<1>3. GenInv' /\ KillInv' /\ PermitInv' /\ IdInv'
  BY <1>1 DEF GenInv, KillInv, PermitInv, Readers, IdInv, Distinct
<1>4. PendInv' /\ NoOrphanRequest'
  BY <1>1, <1>2 DEF PendInv, NoOrphanRequest
<1>5. LockInv'
  BY <1>1, <1>2, ConstantFacts DEF LockInv
<1>6. OwnerKept
  <2> SUFFICES ASSUME NEW e \in Execs, queryLock = e, Busy(e) PROVE Undisturbed(e)
    BY DEF OwnerKept
  <2>1. e # c /\ e \in Calls
    BY <1>1, ConstantFacts DEF Busy
  <2> QED BY <1>1, <1>2, <2>1 DEF Undisturbed
<1>7. OwnInv' /\ PoisonInv'
  BY <1>1, <1>6, OwnerKeptInductive
<1> QED BY <1>3, <1>4, <1>5, <1>7

\* A kill takes the child.
LEMMA KillTakeInductive ==
    ASSUME IInv, BaseInv', NEW t \in Tasks, KillTake(t)
    PROVE  IInv'
<1> USE DEF IInv, WorkerInv, BaseInv
<1>1. /\ pc' = [pc EXCEPT ![t] = "fail"] /\ killgen' = [killgen EXCEPT ![t] = generation]
      /\ child' = 0 /\ pc[t] = "take"
      /\ UNCHANGED <<generation, queryLock, others, pend, alive, session, active, inbox, outbox,
                     reader, req, resp>>
  BY DEF KillTake, Goto, workerVars
<1>2. GenInv' /\ PermitInv' /\ IdInv' /\ PendInv' /\ OwnInv' /\ PoisonInv'
  BY <1>1 DEF GenInv, PermitInv, Readers, IdInv, Distinct, PendInv, OwnInv, PoisonInv
<1>3. KillInv'
  BY <1>1, CallTypes, GenFacts DEF KillInv
<1>4. LockInv'
  BY <1>1, CallTypes, ConstantFacts DEF LockInv
<1>5. NoOrphanRequest'
  BY <1>1, CallTypes, ConstantFacts DEF NoOrphanRequest
<1> QED BY <1>2, <1>3, <1>4, <1>5

\* The requests of a child are failed.
LEMMA FailFacts ==
    ASSUME TypeOK, NEW g, FailPending(g)
    PROVE  \A c \in Calls :
               /\ pend[c] = g /\ g # 0 => pend'[c] = 0 /\ resp'[c] = "gone"
               /\ ~(pend[c] = g /\ g # 0) => pend'[c] = pend[c] /\ resp'[c] = resp[c]
BY DEF FailPending

\* Failing the requests of another child disturbs no owner.
LEMMA FailOwner ==
    ASSUME TypeOK, PendInv, NEW g, FailPending(g), g # child, req' = req,
           \A e \in Execs : queryLock = e /\ Busy(e) => queryLock' = e /\ pc'[e] \in {pc[e], "take"}
    PROVE  OwnerKept
<1> SUFFICES ASSUME NEW e \in Execs, queryLock = e, Busy(e) PROVE Undisturbed(e)
  BY DEF OwnerKept
<1>1. e \in Calls
  BY ConstantFacts
<1>2. resp[e] = "poisoned" => pend[e] = 0
  BY <1>1 DEF PendInv
<1>3. resp[e] = "poisoned" \/ (resp[e] = "none" /\ pend[e] = child) => ~(pend[e] = g /\ g # 0)
  BY <1>2
<1>4. ~(pend[e] = g /\ g # 0) => pend'[e] = pend[e] /\ resp'[e] = resp[e]
  BY <1>1, FailFacts
<1> QED BY <1>3, <1>4 DEF Undisturbed

\* A kill ends.
LEMMA KillFinishInductive ==
    ASSUME IInv, BaseInv', NEW t \in Tasks, KillFinish(t)
    PROVE  IInv'
<1> USE DEF IInv, WorkerInv, BaseInv
<1>1. PICK l \in {"done", "csend"} :
        /\ pc' = [pc EXCEPT ![t] = l]
        /\ queryLock' = queryLock \/ (l = "done" /\ queryLock' = Freed(queryLock, t))
  BY DEF KillFinish, Goto, Return
<1>2. /\ pc[t] = "fail" /\ FailPending(killgen[t])
      /\ UNCHANGED <<child, generation, others, alive, session, active, inbox, outbox,
                     reader, req, killgen>>
  BY DEF KillFinish, stateVars, workerVars
<1>3. /\ pc'[t] = l /\ \A b \in Tasks : b # t => pc'[b] = pc[b]
  BY <1>1, CallTypes
<1>4. GenInv' /\ KillInv' /\ PermitInv' /\ IdInv'
  BY <1>2 DEF GenInv, KillInv, PermitInv, Readers, IdInv, Distinct
<1>5. PendInv'
  BY <1>2, FailFacts DEF PendInv
<1>6. NoOrphanRequest'
  <2> SUFFICES ASSUME NEW b \in Calls, pc'[b] \in {"cresp", "resp"}, resp'[b] = "none"
               PROVE  pend'[b] # 0 /\ reader[pend'[b]] = "run"
    BY <1>2 DEF NoOrphanRequest
  <2>1. b # t /\ b \in Tasks
    BY <1>3, ConstantFacts
  <2>2. pc'[b] = pc[b] /\ pend'[b] = pend[b] /\ resp'[b] = resp[b]
    BY <1>2, <1>3, <2>1, FailFacts
  <2> QED BY <2>2 DEF NoOrphanRequest
<1>7. LockInv'
  <2> SUFFICES ASSUME NEW e \in Execs, pc'[e] \notin {"idle", "query", "done"} PROVE queryLock' = e
    BY DEF LockInv
  <2>1. e \in Tasks
    BY ConstantFacts
  <2>2. CASE e = t
    BY <1>1, <1>2, <1>3, <2>2 DEF LockInv
  <2>3. CASE e # t
    BY <1>1, <1>3, <2>1, <2>3 DEF LockInv, Freed
  <2> QED BY <2>2, <2>3
<1>8. OwnerKept
  <2>1. CASE killgen[t] # child
    <3>1. \A e \in Execs : queryLock = e /\ Busy(e) => queryLock' = e /\ pc'[e] \in {pc[e], "take"}
      BY <1>1, <1>2, <1>3, ConstantFacts DEF Busy, Freed
    <3> QED BY <1>2, <2>1, <3>1, FailOwner
  <2>2. CASE killgen[t] = child
    <3>1. child = 0
      BY <2>2 DEF KillInv
    <3>2. ASSUME NEW e \in Execs, queryLock = e, Busy(e) PROVE Undisturbed(e)
      <4>1. e \in Calls /\ e \in Tasks /\ e # t
        BY <1>2, <3>2, ConstantFacts DEF Busy
      <4>2. pend'[e] = pend[e] /\ resp'[e] = resp[e]
        BY <1>2, <2>2, <3>1, <4>1, FailFacts
      <4> QED BY <1>1, <1>2, <1>3, <3>2, <4>1, <4>2 DEF Undisturbed, Freed
    <3> QED BY <3>2 DEF OwnerKept
  <2> QED BY <2>1, <2>2
<1>9. OwnInv' /\ PoisonInv'
  BY <1>2, <1>8, OwnerKeptInductive
<1> QED BY <1>4, <1>5, <1>6, <1>7, <1>9

(***************************************************************************)
(* The reader.                                                              *)
(***************************************************************************)
\* The reader ends, at the end of the stream of a child that has ended.
LEMMA ReaderEndInductive ==
    ASSUME ReadsToTheEnd, IInv, BaseInv', NEW g \in Gens, ReaderEnd(g)
    PROVE  IInv'
<1> USE DEF IInv, WorkerInv, BaseInv
<1>1. /\ reader[g] = "run" /\ FailPending(g) /\ reader' = [reader EXCEPT ![g] = "done"]
      /\ UNCHANGED <<child, generation, queryLock, others, alive, session, active, inbox, outbox,
                     pc, req, killgen>>
  BY DEF ReaderEnd, stateVars
<1>2. ~alive[g]
  BY DEF ReaderEnd, StreamEnded, ReadsToTheEnd, PipeInv
<1>3. reader'[g] = "done" /\ \A h \in Gens : h # g => reader'[h] = reader[h]
  BY <1>1, CallTypes
<1>4. session[g] = "none" /\ active[g] = <<>> /\ inbox[g] = <<>> /\ ~(g > generation)
  BY <1>1, <1>2 DEF GenInv
<1>5. GenInv'
  BY <1>1, <1>2, <1>3, <1>4 DEF GenInv
<1>6. KillInv' /\ IdInv' /\ LockInv'
  BY <1>1 DEF KillInv, IdInv, Distinct, LockInv
<1>7. PendInv'
  BY <1>1, FailFacts DEF PendInv
<1>8. PermitInv'
  <2>1. Readers' \subseteq Readers
    BY <1>1, <1>3 DEF Readers
  <2>2. Cardinality(Readers') <= Cardinality(Readers) /\ Cardinality(Readers') \in Nat
    BY <2>1, ReaderCount, FS_Subset, FS_CardinalityType
  <2>3. others \in Nat /\ Limit \in Nat
    BY ConstantFacts DEF TypeOK
  <2> QED BY <1>1, <2>2, <2>3, ReaderCount DEF PermitInv
<1>9. NoOrphanRequest'
  <2> SUFFICES ASSUME NEW b \in Calls, pc'[b] \in {"cresp", "resp"}, resp'[b] = "none"
               PROVE  pend'[b] # 0 /\ reader'[pend'[b]] = "run"
    BY DEF NoOrphanRequest
  <2>1. g # 0
    BY ConstantFacts
  <2>2. pend[b] # g /\ pend'[b] = pend[b] /\ resp'[b] = resp[b]
    BY <1>1, <2>1, FailFacts
  <2>3. pend[b] # 0 /\ reader[pend[b]] = "run"
    BY <1>1, <2>2 DEF NoOrphanRequest
  <2>4. pend[b] \in Gens
    BY <2>3, CallTypes
  <2> QED BY <1>3, <2>2, <2>3, <2>4
<1>10. OwnInv' /\ PoisonInv'
  <2>1. CASE g = child
    <3>1. QueriesAt(child)' = {} /\ session'[child'] = "none"
      BY <1>1, <1>4, <2>1 DEF QueriesAt
    <3> QED BY <3>1 DEF OwnInv, PoisonInv
  <2>2. CASE g # child
    <3>1. OwnerKept
      BY <1>1, <2>2, FailOwner
    <3> QED BY <1>1, <3>1, OwnerKeptInductive
  <2> QED BY <2>1, <2>2
<1> QED BY <1>5, <1>6, <1>7, <1>8, <1>9, <1>10

\* A response is handed out or dropped.
LEMMA ReaderDeliverInductive ==
    ASSUME IInv, BaseInv', NEW g \in Gens, ReaderDeliver(g)
    PROVE  IInv'
<1> USE DEF IInv, WorkerInv, BaseInv
<1>1. PICK s \in Seq(Responses) : s = outbox[g]
  BY PipeFacts
<1>2. PICK r \in Responses : r = Head(s)
  BY <1>1, PipeFacts DEF ReaderDeliver
<1>3. r.call \in Calls /\ r.reply \in Replies /\ "none" \notin Replies
  BY <1>2 DEF Responses, Replies
<1>4. /\ s # <<>> /\ outbox'[g] = Tail(s) /\ \A h \in Gens : h # g => outbox'[h] = outbox[h]
      /\ UNCHANGED <<child, generation, queryLock, others, alive, session, active, inbox,
                     reader, pc, req, killgen>>
  BY <1>1 DEF ReaderDeliver, stateVars, PipeInv
<1>5. /\ pend[r.call] = g /\ req[r.call] = r.n => pend'[r.call] = 0 /\ resp'[r.call] = r.reply
      /\ \A b \in Calls : ~(b = r.call /\ pend[b] = g /\ req[b] = r.n) =>
             pend'[b] = pend[b] /\ resp'[b] = resp[b]
  BY <1>1, <1>2, <1>3, CallTypes DEF ReaderDeliver
<1>6. /\ \A i \in DOMAIN Tail(s) : i + 1 \in DOMAIN s /\ Tail(s)[i] = s[i + 1]
      /\ \A i \in DOMAIN Tail(s) : i \in Nat
      /\ \A i \in DOMAIN s : i # 1 => i - 1 \in DOMAIN Tail(s) /\ Tail(s)[i - 1] = s[i]
      /\ r = s[1] /\ 1 \in DOMAIN s
  BY <1>2, <1>4, TailFacts
<1>7. GenInv' /\ KillInv' /\ PermitInv' /\ LockInv'
  <2>1. ~(g > generation)
    BY <1>1, <1>4 DEF GenInv
  <2>2. GenInv'
    BY <1>4, <2>1 DEF GenInv
  <2> QED BY <1>4, <2>2 DEF KillInv, PermitInv, Readers, LockInv
<1>8. IdInv'
  <2>1. \A i, j \in DOMAIN Tail(s) : i # j => i + 1 # j + 1
    BY <1>6
  <2>2. /\ \A i, j \in DOMAIN outbox'[g] : i # j => ~SameId(outbox'[g][i], outbox'[g][j])
        /\ \A i \in DOMAIN inbox[g], j \in DOMAIN outbox'[g] : ~SameId(inbox[g][i], outbox'[g][j])
        /\ active[g] # <<>> => \A i \in DOMAIN outbox'[g] : ~SameId(outbox'[g][i], active[g][1])
        /\ \A i \in DOMAIN outbox'[g] : outbox'[g][i].n <= req[outbox'[g][i].call]
    BY <1>1, <1>4, <1>6, <2>1 DEF IdInv, Distinct
  <2> QED BY <1>4, <2>2, SMTT(30) DEF IdInv, Distinct
<1>9. PendInv' /\ NoOrphanRequest'
  BY <1>3, <1>4, <1>5 DEF PendInv, NoOrphanRequest
<1>10. OwnInv'
  <2>1. QueriesAt(child)' = QueriesAt(child) /\ child' = child
    BY <1>4 DEF QueriesAt
  <2>2. ASSUME child # 0, NEW q \in QueriesAt(child), Owned(q) PROVE Owned(q)'
    <3>1. CASE ~(q.call = r.call /\ pend[q.call] = g /\ req[q.call] = r.n)
      <4>1. pend'[q.call] = pend[q.call] /\ resp'[q.call] = resp[q.call]
        BY <1>5, <2>2, <3>1, ConstantFacts DEF Owned
      <4> QED BY <1>4, <2>2, <4>1 DEF Owned, Waits
    <3>2. CASE pc[q.call] = "take"
      BY <1>4, <2>2, <3>2 DEF Owned
    <3>3. CASE q.call = r.call /\ pend[q.call] = g /\ req[q.call] = r.n /\ Waits(q.call)
      <4>1. g = child /\ SameId(q, r) /\ SameId(r, q)
        BY <2>2, <3>3 DEF Waits, Owned, SameId
      <4>2. r = outbox[g][1] /\ 1 \in DOMAIN outbox[g]
        BY <1>1, <1>6
      <4>3. CASE \E i \in DOMAIN inbox[g] : q = inbox[g][i]
        BY <4>1, <4>2, <4>3 DEF IdInv, Distinct
      <4>4. CASE \E i \in DOMAIN active[g] : q = active[g][i]
        <5>1. active[g] # <<>> /\ q = active[g][1]
          BY <4>4, PipeFacts
        <5> QED BY <4>1, <4>2, <5>1 DEF IdInv, Distinct
      <4> QED BY <2>2, <4>1, <4>3, <4>4 DEF QueriesAt
    <3> QED BY <2>2, <3>1, <3>2, <3>3 DEF Owned
  <2> QED BY <2>1, <2>2 DEF OwnInv
<1>11. PoisonInv'
  <2> SUFFICES ASSUME child # 0, session[child] = "poisoned"
               PROVE  \E e \in Execs : /\ queryLock = e
                                       /\ \/ pc'[e] = "take"
                                          \/ pc'[e] = "resp" /\ resp'[e] = "poisoned"
                                          \/ Waits(e)' /\ Poisoned(e)'
    BY <1>4 DEF PoisonInv
  <2>1. PICK e \in Execs : /\ queryLock = e
                           /\ \/ pc[e] = "take"
                              \/ pc[e] = "resp" /\ resp[e] = "poisoned"
                              \/ Waits(e) /\ Poisoned(e)
    BY DEF PoisonInv
  <2>2. e \in Calls /\ g # 0 /\ child \in Gens
    BY ConstantFacts, GenFacts
  <2>3. CASE pc[e] = "take"
    BY <1>4, <2>1, <2>3
  <2>4. CASE pc[e] = "resp" /\ resp[e] = "poisoned"
    <3>1. pend[e] = 0
      BY <2>2, <2>4 DEF PendInv
    <3>2. resp'[e] = resp[e]
      BY <1>5, <2>2, <3>1
    <3> QED BY <1>4, <2>1, <2>4, <3>2
  <2>5. CASE Waits(e) /\ Poisoned(e)
    <3>1. PICK i \in DOMAIN outbox[child] : /\ outbox[child][i].call = e
                                            /\ outbox[child][i].n = req[e]
                                            /\ outbox[child][i].reply = "poisoned"
      BY <2>5 DEF Poisoned
    <3>2. CASE g # child
      <4>1. outbox'[child] = outbox[child] /\ pend'[e] = pend[e] /\ resp'[e] = resp[e]
        BY <1>4, <1>5, <2>2, <2>5, <3>2 DEF Waits
      <4> QED BY <1>4, <2>1, <2>5, <4>1 DEF Waits, Poisoned
    <3>3. CASE g = child /\ i = 1
      <4>1. r.call = e /\ r.n = req[e] /\ r.reply = "poisoned"
        BY <1>1, <1>6, <3>1, <3>3
      <4>2. resp'[e] = "poisoned"
        BY <1>5, <2>5, <3>3, <4>1 DEF Waits
      <4> QED BY <1>4, <2>1, <2>5, <4>2 DEF Waits
    <3>4. CASE g = child /\ i # 1
      <4>1. ~SameId(s[1], s[i])
        BY <1>1, <1>6, <3>1, <3>4 DEF IdInv, Distinct
      <4>2. ~(e = r.call /\ req[e] = r.n)
        BY <1>1, <1>6, <3>1, <3>4, <4>1 DEF SameId
      <4>3. pend'[e] = pend[e] /\ resp'[e] = resp[e]
        BY <1>5, <2>2, <4>2
      <4>4. i - 1 \in DOMAIN outbox'[child'] /\ outbox'[child'][i - 1] = outbox[child][i]
        BY <1>1, <1>4, <1>6, <3>1, <3>4, ZenonT(30)
      <4>5. Poisoned(e)'
        BY <1>4, <3>1, <4>4 DEF Poisoned
      <4> QED BY <1>4, <2>1, <2>5, <4>3, <4>5 DEF Waits
    <3> QED BY <3>2, <3>3, <3>4
  <2> QED BY <2>1, <2>3, <2>4, <2>5
<1> QED BY <1>7, <1>8, <1>9, <1>10, <1>11

(***************************************************************************)
(* The child.                                                               *)
(***************************************************************************)
\* The head of the stdin is answered.
LEMMA DistinctAnswer ==
    ASSUME NEW in \in Seq(Requests), NEW out \in Seq(Responses), NEW run, NEW r,
           in # <<>>, Distinct(in, out, run, r),
           NEW x \in Responses, x.call = Head(in).call, x.n = Head(in).n
    PROVE  Distinct(Tail(in), Append(out, x), run, r)
<1>1. /\ \A i \in DOMAIN Tail(in) : i + 1 \in DOMAIN in /\ Tail(in)[i] = in[i + 1] /\ i + 1 # 1
      /\ \A i, j \in DOMAIN Tail(in) : i # j => i + 1 # j + 1
      /\ Head(in) = in[1] /\ 1 \in DOMAIN in
  BY TailFacts
<1>2. /\ \A i \in DOMAIN Append(out, x) : i \in DOMAIN out \/ i = Len(out) + 1
      /\ \A i \in DOMAIN out : Append(out, x)[i] = out[i]
      /\ Append(out, x)[Len(out) + 1] = x
  BY AppendFacts
<1>3. /\ \A i \in DOMAIN out : ~SameId(out[i], x) /\ ~SameId(x, out[i])
      /\ \A i \in DOMAIN Tail(in) : ~SameId(Tail(in)[i], x)
      /\ run # <<>> => ~SameId(x, run[1])
      /\ x.n <= r[x.call]
  BY <1>1 DEF Distinct, SameId
<1>4. /\ \A i, j \in DOMAIN Tail(in) : i # j => ~SameId(Tail(in)[i], Tail(in)[j])
      /\ \A i \in DOMAIN Tail(in), j \in DOMAIN out : ~SameId(Tail(in)[i], out[j])
      /\ run # <<>> => \A i \in DOMAIN Tail(in) : ~SameId(Tail(in)[i], run[1])
      /\ \A i \in DOMAIN Tail(in) : Tail(in)[i].n <= r[Tail(in)[i].call]
  BY <1>1 DEF Distinct
<1>5. \A i, j \in DOMAIN Append(out, x) : i # j => ~SameId(Append(out, x)[i], Append(out, x)[j])
  BY <1>2, <1>3 DEF Distinct
<1>6. /\ \A i \in DOMAIN Tail(in), j \in DOMAIN Append(out, x) : ~SameId(Tail(in)[i], Append(out, x)[j])
      /\ run # <<>> => \A i \in DOMAIN Append(out, x) : ~SameId(Append(out, x)[i], run[1])
      /\ \A i \in DOMAIN Append(out, x) : Append(out, x)[i].n <= r[Append(out, x)[i].call]
  BY <1>2, <1>3, <1>4 DEF Distinct
<1>7. run # <<>> => run[1].n <= r[run[1].call]
  BY DEF Distinct
<1> QED BY <1>4, <1>5, <1>6, <1>7 DEF Distinct

\* The head of the stdin is a query that starts.
LEMMA DistinctStart ==
    ASSUME NEW in \in Seq(Requests), NEW out, NEW r, in # <<>>, Distinct(in, out, <<>>, r)
    PROVE  Distinct(Tail(in), out, <<Head(in)>>, r)
<1>1. /\ \A i \in DOMAIN Tail(in) : i + 1 \in DOMAIN in /\ Tail(in)[i] = in[i + 1] /\ i + 1 # 1
      /\ \A i, j \in DOMAIN Tail(in) : i # j => i + 1 # j + 1
      /\ Head(in) = in[1] /\ 1 \in DOMAIN in
  BY TailFacts
<1>2. <<Head(in)>>[1] = Head(in)
  OBVIOUS
<1>3. /\ \A i, j \in DOMAIN Tail(in) : i # j => ~SameId(Tail(in)[i], Tail(in)[j])
      /\ \A i \in DOMAIN Tail(in), j \in DOMAIN out : ~SameId(Tail(in)[i], out[j])
      /\ \A i \in DOMAIN Tail(in) : Tail(in)[i].n <= r[Tail(in)[i].call]
      /\ \A i \in DOMAIN Tail(in) : ~SameId(Tail(in)[i], Head(in))
      /\ \A i \in DOMAIN out : ~SameId(out[i], Head(in))
      /\ Head(in).n <= r[Head(in).call]
  BY <1>1 DEF Distinct, SameId
<1> QED BY <1>2, <1>3 DEF Distinct

\* The query is answered.
LEMMA DistinctFinish ==
    ASSUME NEW in, NEW out \in Seq(Responses), NEW run, NEW r, run # <<>>, Distinct(in, out, run, r),
           NEW x \in Responses, x.call = run[1].call, x.n = run[1].n
    PROVE  Distinct(in, Append(out, x), <<>>, r)
<1>1. /\ \A i \in DOMAIN Append(out, x) : i \in DOMAIN out \/ i = Len(out) + 1
      /\ \A i \in DOMAIN out : Append(out, x)[i] = out[i]
      /\ Append(out, x)[Len(out) + 1] = x
  BY AppendFacts
<1>2. /\ \A i \in DOMAIN out : ~SameId(out[i], x) /\ ~SameId(x, out[i])
      /\ \A i \in DOMAIN in : ~SameId(in[i], x)
      /\ x.n <= r[x.call]
  BY DEF Distinct, SameId
<1>3. \A i, j \in DOMAIN Append(out, x) : i # j => ~SameId(Append(out, x)[i], Append(out, x)[j])
  BY <1>1, <1>2 DEF Distinct
<1>4. /\ \A i \in DOMAIN in, j \in DOMAIN Append(out, x) : ~SameId(in[i], Append(out, x)[j])
      /\ \A i \in DOMAIN Append(out, x) : Append(out, x)[i].n <= r[Append(out, x)[i].call]
  BY <1>1, <1>2 DEF Distinct
<1> QED BY <1>3, <1>4 DEF Distinct

\* The child ends.
LEMMA DistinctEnd ==
    ASSUME NEW in, NEW out, NEW run, NEW r, Distinct(in, out, run, r)
    PROVE  Distinct(<<>>, out, <<>>, r)
<1>1. DOMAIN <<>> = {}
  OBVIOUS
<1> QED BY <1>1 DEF Distinct

\* A step of a child leaves the calls alone, so only what is about the child is at stake.
LEMMA WorkerFrame ==
    ASSUME IInv, BaseInv', ClientSame, GenInv', IdInv', PoisonInv',
           child # 0 => QueriesAt(child)' \subseteq QueriesAt(child)
    PROVE  IInv'
<1> USE DEF IInv, WorkerInv, ClientSame
<1>1. KillInv' /\ PendInv' /\ PermitInv' /\ LockInv' /\ NoOrphanRequest'
  BY DEF KillInv, PendInv, PermitInv, Readers, LockInv, NoOrphanRequest
<1>2. \A q : Owned(q) => Owned(q)'
  BY DEF Owned, Waits
<1>3. OwnInv'
  BY <1>2 DEF OwnInv
<1> QED BY <1>1, <1>3

\* A poisoned child stays owned when its stdout only grows.
LEMMA PoisonFrame ==
    ASSUME BaseInv, PoisonInv, ClientSame,
           child # 0 /\ session'[child] = "poisoned" => session[child] = "poisoned",
           child # 0 => \A i \in DOMAIN outbox[child] : /\ i \in DOMAIN outbox'[child]
                                                        /\ outbox'[child][i] = outbox[child][i]
    PROVE  PoisonInv'
<1> USE DEF ClientSame
<1> SUFFICES ASSUME child # 0, session[child] = "poisoned" PROVE PoisonInv'
  BY DEF PoisonInv
<1>1. PICK e \in Execs : /\ queryLock = e
                         /\ \/ pc[e] = "take"
                            \/ pc[e] = "resp" /\ resp[e] = "poisoned"
                            \/ Waits(e) /\ Poisoned(e)
  BY DEF PoisonInv
<1>2. Poisoned(e) => Poisoned(e)'
  BY DEF Poisoned
<1>3. Waits(e) => Waits(e)'
  BY DEF Waits
<1> QED BY <1>1, <1>2, <1>3 DEF PoisonInv

\* The stdout of a child after an answer.
LEMMA AnswerFacts ==
    ASSUME PipeInv, NEW g \in Gens, NEW q \in Requests, NEW r \in Replies, Answers(g, q, r)
    PROVE  \E x \in Responses :
               /\ x.call = q.call /\ x.n = q.n /\ x.reply = r
               /\ outbox'[g] = Append(outbox[g], x)
               /\ \A h \in Gens : h # g => outbox'[h] = outbox[h]
               /\ \A h \in Gens : \A i \in DOMAIN outbox[h] : /\ i \in DOMAIN outbox'[h]
                                                              /\ outbox'[h][i] = outbox[h][i]
               /\ Len(outbox[g]) + 1 \in DOMAIN outbox'[g] /\ outbox'[g][Len(outbox[g]) + 1] = x
<1>1. PICK x \in Responses : /\ x = Response(q, r) /\ x.call = q.call /\ x.n = q.n /\ x.reply = r
  BY ResponseFacts
<1>2. /\ outbox'[g] = Append(outbox[g], x) /\ \A h \in Gens : h # g => outbox'[h] = outbox[h]
  BY <1>1 DEF Answers, PipeInv
<1>3. outbox[g] \in Seq(Responses)
  BY PipeFacts
<1>4. /\ \A i \in DOMAIN outbox[g] : i \in DOMAIN outbox'[g] /\ outbox'[g][i] = outbox[g][i]
      /\ Len(outbox[g]) + 1 \in DOMAIN outbox'[g] /\ outbox'[g][Len(outbox[g]) + 1] = x
  BY <1>2, <1>3, AppendFacts
<1> QED BY <1>1, <1>2, <1>4

\* The child answers the head of its stdin.
LEMMA AnswersHeadInductive ==
    ASSUME IInv, BaseInv', ClientSame, NEW g \in Gens, NEW r \in Replies, AnswersHead(g, r)
    PROVE  IInv'
<1> USE DEF IInv, WorkerInv, BaseInv
<1>1. PICK s \in Seq(Requests) : s = inbox[g]
  BY PipeFacts
<1>2. /\ alive[g] /\ s # <<>> /\ Answers(g, Head(s), r) /\ UNCHANGED <<alive, active>>
      /\ \A h \in Gens : session'[h] = session[h] \/ (h = g /\ session'[h] = "open")
      /\ inbox'[g] = Tail(s) /\ \A h \in Gens : h # g => inbox'[h] = inbox[h]
  BY <1>1 DEF AnswersHead, PipeInv
<1>3. Head(s) \in Requests
  BY <1>2, TailFacts
<1>4. PICK x \in Responses :
         /\ x.call = Head(s).call /\ x.n = Head(s).n /\ x.reply = r
         /\ outbox'[g] = Append(outbox[g], x)
         /\ \A h \in Gens : h # g => outbox'[h] = outbox[h]
         /\ \A h \in Gens : \A i \in DOMAIN outbox[h] : /\ i \in DOMAIN outbox'[h]
                                                        /\ outbox'[h][i] = outbox[h][i]
  BY <1>2, <1>3, AnswerFacts
<1>5. GenInv'
  BY <1>2, <1>4 DEF GenInv, ClientSame
<1>6. IdInv'
  <2>1. Distinct(s, outbox[g], active[g], req) /\ outbox[g] \in Seq(Responses)
    BY <1>1, PipeFacts DEF IdInv
  <2>2. Distinct(Tail(s), Append(outbox[g], x), active[g], req)
    BY <1>2, <1>4, <2>1, DistinctAnswer
  <2> QED BY <1>2, <1>4, <2>2, ZenonT(30) DEF IdInv, ClientSame
<1>7. child # 0 => QueriesAt(child)' \subseteq QueriesAt(child)
  <2>1. {Tail(s)[i] : i \in DOMAIN Tail(s)} \subseteq {s[i] : i \in DOMAIN s}
    BY <1>2, TailRange
  <2>2. child # 0 => child \in Gens /\ child' = child
    BY GenFacts DEF ClientSame
  <2>3. QueriesAt(g)' \subseteq QueriesAt(g)
    BY <1>1, <1>2, <2>1 DEF QueriesAt
  <2>4. \A h \in Gens : h # g => QueriesAt(h)' = QueriesAt(h)
    BY <1>2 DEF QueriesAt
  <2> QED BY <2>2, <2>3, <2>4 DEF QueriesAt
<1>8. PoisonInv'
  BY <1>2, <1>4, GenFacts, PoisonFrame
<1> QED BY <1>5, <1>6, <1>7, <1>8, WorkerFrame

\* The child starts a query.
LEMMA StartsQueryInductive ==
    ASSUME IInv, BaseInv', ClientSame, NEW g \in Gens, StartsQuery(g)
    PROVE  IInv'
<1> USE DEF IInv, WorkerInv, BaseInv
<1>1. PICK s \in Seq(Requests) : s = inbox[g]
  BY PipeFacts
<1>2. /\ alive[g] /\ s # <<>> /\ active[g] = <<>> /\ UNCHANGED <<alive, outbox, session>>
      /\ inbox'[g] = Tail(s) /\ active'[g] = <<Head(s)>>
      /\ \A h \in Gens : h # g => inbox'[h] = inbox[h] /\ active'[h] = active[h]
  BY <1>1 DEF StartsQuery, PipeInv
<1>3. GenInv'
  BY <1>2 DEF GenInv, ClientSame
<1>4. IdInv'
  <2>1. Distinct(s, outbox[g], <<>>, req)
    BY <1>1, <1>2 DEF IdInv
  <2>2. Distinct(Tail(s), outbox[g], <<Head(s)>>, req)
    BY <1>2, <2>1, DistinctStart
  <2> QED BY <1>2, <2>2 DEF IdInv, ClientSame
<1>5. child # 0 => QueriesAt(child)' \subseteq QueriesAt(child)
  <2>1. /\ {Tail(s)[i] : i \in DOMAIN Tail(s)} \subseteq {s[i] : i \in DOMAIN s}
        /\ Head(s) \in {s[i] : i \in DOMAIN s}
    BY <1>2, TailRange, TailFacts
  <2>2. {<<Head(s)>>[i] : i \in DOMAIN <<Head(s)>>} = {Head(s)}
    OBVIOUS
  <2>3. QueriesAt(g)' \subseteq QueriesAt(g)
    BY <1>1, <1>2, <2>1, <2>2 DEF QueriesAt
  <2>4. \A h \in Gens : h # g => QueriesAt(h)' = QueriesAt(h)
    BY <1>2 DEF QueriesAt
  <2>5. child # 0 => child \in Gens /\ child' = child
    BY GenFacts DEF ClientSame
  <2> QED BY <2>3, <2>4, <2>5 DEF QueriesAt
<1>6. PoisonInv'
  BY <1>2, PoisonFrame
<1> QED BY <1>3, <1>4, <1>5, <1>6, WorkerFrame

\* The child answers the query; the one it poisons is owned.
LEMMA AnswersQueryInductive ==
    ASSUME IInv, BaseInv', ClientSame, NEW g \in Gens, NEW r \in Replies, AnswersQuery(g, r)
    PROVE  IInv'
<1> USE DEF IInv, WorkerInv, BaseInv
<1>1. /\ alive[g] /\ active[g] # <<>> /\ Answers(g, active[g][1], r) /\ UNCHANGED <<alive, inbox>>
      /\ \A h \in Gens : session'[h] = session[h] \/ (h = g /\ r = "poisoned")
      /\ session[g] = "poisoned" => r = "poisoned"
      /\ active'[g] = <<>> /\ \A h \in Gens : h # g => active'[h] = active[h]
  BY DEF AnswersQuery, PipeInv
<1>2. PICK q \in Requests : q = active[g][1] /\ active[g] = <<q>> /\ q.method = "execute"
  BY <1>1, PipeFacts
<1>3. PICK x \in Responses :
         /\ x.call = q.call /\ x.n = q.n /\ x.reply = r
         /\ outbox'[g] = Append(outbox[g], x)
         /\ \A h \in Gens : h # g => outbox'[h] = outbox[h]
         /\ \A h \in Gens : \A i \in DOMAIN outbox[h] : /\ i \in DOMAIN outbox'[h]
                                                        /\ outbox'[h][i] = outbox[h][i]
         /\ Len(outbox[g]) + 1 \in DOMAIN outbox'[g] /\ outbox'[g][Len(outbox[g]) + 1] = x
  BY <1>1, <1>2, AnswerFacts
<1>4. GenInv'
  BY <1>1, <1>3 DEF GenInv, ClientSame
<1>5. IdInv'
  <2>1. Distinct(inbox[g], outbox[g], active[g], req) /\ outbox[g] \in Seq(Responses)
    BY PipeFacts DEF IdInv
  <2>2. Distinct(inbox[g], Append(outbox[g], x), <<>>, req)
    BY <1>1, <1>2, <1>3, <2>1, DistinctFinish
  <2> QED BY <1>1, <1>3, <2>2 DEF IdInv, ClientSame
<1>6. child # 0 => child \in Gens /\ child' = child
  BY GenFacts DEF ClientSame
<1>7. child # 0 => QueriesAt(child)' \subseteq QueriesAt(child)
  <2>1. DOMAIN <<>> = {}
    OBVIOUS
  <2>2. \A h \in Gens : QueriesAt(h)' \subseteq QueriesAt(h)
    BY <1>1, <2>1 DEF QueriesAt
  <2> QED BY <1>6, <2>2 DEF QueriesAt
<1>8. PoisonInv'
  <2>1. CASE child # 0 /\ g = child /\ r = "poisoned"
    <3>1. q \in QueriesAt(child)
      <4>1. 1 \in DOMAIN <<q>> /\ <<q>>[1] = q
        OBVIOUS
      <4> QED BY <1>2, <2>1, <4>1 DEF QueriesAt
    <3>2. Owned(q)
      BY <2>1, <3>1 DEF OwnInv
    <3>3. Poisoned(q.call)'
      BY <1>3, <1>6, <2>1, <3>2 DEF Poisoned, Owned, ClientSame
    <3>4. Waits(q.call) => Waits(q.call)'
      BY DEF Waits, ClientSame
    <3> QED BY <3>2, <3>3, <3>4 DEF PoisonInv, Owned, ClientSame
  <2>2. CASE ~(child # 0 /\ g = child /\ r = "poisoned")
    BY <1>1, <1>3, <1>6, <2>2, PoisonFrame
  <2> QED BY <2>1, <2>2
<1> QED BY <1>4, <1>5, <1>7, <1>8, WorkerFrame

\* The child ends.
LEMMA EndsInductive ==
    ASSUME IInv, BaseInv', ClientSame, NEW g \in Gens, Ends(g)
    PROVE  IInv'
<1> USE DEF IInv, WorkerInv, BaseInv
<1>1. /\ alive[g] /\ alive'[g] = FALSE /\ session'[g] = "none" /\ active'[g] = <<>> /\ inbox'[g] = <<>>
      /\ \A h \in Gens : h # g => /\ alive'[h] = alive[h] /\ session'[h] = session[h]
                                  /\ active'[h] = active[h] /\ inbox'[h] = inbox[h]
  BY DEF Ends, ProcessEnds, PipeInv, TypeOK
<1>2. /\ \A h \in Gens : h # g => outbox'[h] = outbox[h]
      /\ \A h \in Gens : \A i \in DOMAIN outbox[h] : /\ i \in DOMAIN outbox'[h]
                                                     /\ outbox'[h][i] = outbox[h][i]
      /\ Distinct(<<>>, outbox'[g], <<>>, req)
  <2>1. Distinct(inbox[g], outbox[g], active[g], req) /\ outbox[g] \in Seq(Responses)
    BY PipeFacts DEF IdInv
  <2>2. CASE outbox' = outbox
    BY <2>1, <2>2, DistinctEnd
  <2>3. CASE inbox[g] # <<>> /\ Answers(g, Head(inbox[g]), "ok")
    <3>1. "ok" \in Replies /\ Head(inbox[g]) \in Requests /\ inbox[g] \in Seq(Requests)
      BY <2>3, PipeFacts DEF Replies
    <3>2. PICK x \in Responses :
             /\ x.call = Head(inbox[g]).call /\ x.n = Head(inbox[g]).n
             /\ outbox'[g] = Append(outbox[g], x)
             /\ \A h \in Gens : h # g => outbox'[h] = outbox[h]
             /\ \A h \in Gens : \A i \in DOMAIN outbox[h] : /\ i \in DOMAIN outbox'[h]
                                                            /\ outbox'[h][i] = outbox[h][i]
      BY <2>3, <3>1, AnswerFacts
    <3>3. Distinct(Tail(inbox[g]), Append(outbox[g], x), active[g], req)
      BY <2>1, <2>3, <3>1, <3>2, DistinctAnswer
    <3> QED BY <3>2, <3>3, DistinctEnd
  <2> QED BY <2>2, <2>3 DEF Ends
<1>3. GenInv'
  BY <1>1, <1>2 DEF GenInv, ClientSame
<1>4. IdInv'
  BY <1>1, <1>2 DEF IdInv, ClientSame
<1>5. child # 0 => child \in Gens /\ child' = child
  BY GenFacts DEF ClientSame
<1>6. child # 0 => QueriesAt(child)' \subseteq QueriesAt(child)
  <2>1. DOMAIN <<>> = {}
    OBVIOUS
  <2>2. \A h \in Gens : QueriesAt(h)' \subseteq QueriesAt(h)
    BY <1>1, <2>1 DEF QueriesAt
  <2> QED BY <1>5, <2>2 DEF QueriesAt
<1>7. PoisonInv'
  <2>1. child # 0 /\ session'[child] = "poisoned" => session[child] = "poisoned"
    BY <1>1, <1>5
  <2> QED BY <1>2, <1>5, <2>1, PoisonFrame
<1> QED BY <1>3, <1>4, <1>6, <1>7, WorkerFrame

(***************************************************************************)
(* Every step, the initial state, and the theorems.                         *)
(***************************************************************************)
\* Other clients come and go.
LEMMA OthersInductive ==
    ASSUME IInv, BaseInv', OthersStart \/ OthersEnd
    PROVE  IInv'
<1> USE DEF IInv, WorkerInv
<1>1. UNCHANGED <<child, generation, queryLock, pend, alive, session, active, inbox, outbox,
                  reader, pc, req, resp, killgen>>
  BY DEF OthersStart, OthersEnd, Elsewhere, stateVars, workerVars, callVars
<1>2. PermitInv'
  <2>1. Cardinality(Readers) \in Nat /\ Limit \in Nat /\ others \in Nat
    BY ReaderCount, ConstantFacts DEF BaseInv, TypeOK
  <2>2. \/ others' = others + 1 /\ Cardinality(Readers) + others < Limit
        \/ others' = others - 1 /\ others > 0
    BY DEF OthersStart, OthersEnd, PermitFree
  <2>3. Readers' = Readers
    BY <1>1 DEF Readers
  <2> QED BY <2>1, <2>2, <2>3 DEF PermitInv
<1>3. GenInv' /\ KillInv' /\ PendInv' /\ IdInv' /\ LockInv' /\ NoOrphanRequest'
  BY <1>1 DEF GenInv, KillInv, PendInv, IdInv, LockInv, NoOrphanRequest
<1>4. OwnInv' /\ PoisonInv'
  BY <1>1 DEF OwnInv, PoisonInv, QueriesAt, Owned, Waits, Poisoned
<1> QED BY <1>2, <1>3, <1>4

\* A stutter, or a step of others that does not concern this client.
LEMMA StutterInductive ==
    ASSUME IInv, BaseInv', SameClient
    PROVE  IInv'
<1> USE DEF IInv, WorkerInv, SameClient
<1>1. GenInv' /\ KillInv' /\ PendInv' /\ PermitInv' /\ IdInv' /\ LockInv' /\ NoOrphanRequest'
  BY DEF GenInv, KillInv, PendInv, PermitInv, Readers, IdInv, LockInv, NoOrphanRequest
<1>2. OwnInv' /\ PoisonInv'
  BY DEF OwnInv, PoisonInv, QueriesAt, Owned, Waits, Poisoned
<1> QED BY <1>1, <1>2

\* Every step keeps the invariant.
LEMMA Inductive ==
    ASSUME ReadsToTheEnd, IInv, [Next]_vars
    PROVE  IInv'
<1>1. BaseInv /\ LockInv
  BY DEF IInv
<1>2. BaseInv'
  BY <1>1, BaseInductive
<1>3. CASE UNCHANGED vars \/ Aside
  <2>1. SameClient
    BY <1>3, AsideSame DEF vars, SameClient
  <2> QED BY <1>2, <2>1, StutterInductive
<1>4. ASSUME NEW c \in Calls, ExecQueryLock(c) PROVE QuietCalls
  <2>1. c \in Execs
    BY <1>1, <1>4 DEF ExecQueryLock, BaseInv, LabelInv
  <2> QED BY <1>1, <1>4, <2>1, ExecQueryLockQuiet
<1>5. ASSUME NEW c \in Calls,
             CallStart(c) \/ CallStep(c) \/ WriteFails(c) \/ RequestTimeout(c) \/ GiveUp(c)
      PROVE  IInv'
  <2>1. RequestTimeout(c) \/ QuietCalls \/ \E m \in Methods : Sends(c, m)
    BY <1>1, <1>4, <1>5, CallStartQuiet, EnsureLockQuiet, EnsureStartQuiet, EnsureReplyQuiet,
       EnsureSetQuiet, CallReplyQuiet, WriteFailsQuiet, GiveUpQuiet, EnsureSendForms,
       SendRequestForms DEF CallStep
  <2> QED BY <1>2, <2>1, RequestTimeoutInductive, QuietInductive, SendsInductive
<1>6. ASSUME NEW e \in Execs, UserCancel(e) PROVE IInv'
  BY <1>1, <1>2, <1>6, UserCancelQuiet, QuietInductive
<1>7. ASSUME NEW t \in Tasks, KillTake(t) \/ KillFinish(t) PROVE IInv'
  BY <1>2, <1>7, KillTakeInductive, KillFinishInductive
<1>8. ASSUME NEW g \in Gens, ReaderDeliver(g) \/ ReaderEnd(g) PROVE IInv'
  BY <1>2, <1>8, ReaderDeliverInductive, ReaderEndInductive
<1>9. ASSUME NEW g \in Gens, WorkerStep(g) \/ WorkerDies(g) PROVE IInv'
  BY <1>1, <1>2, <1>9, WorkerForms, AnswersHeadInductive, StartsQueryInductive,
     AnswersQueryInductive, EndsInductive
<1>10. CASE OthersStart \/ OthersEnd
  BY <1>2, <1>10, OthersInductive
<1> QED BY <1>3, <1>5, <1>6, <1>7, <1>8, <1>9, <1>10 DEF Next, Aside

\* The types hold at first.
LEMMA InitBase ==
    ASSUME Init
    PROVE  BaseInv
<1>1. TypeOK
  <2>1. 0 \in 0 .. MaxGen /\ 0 \in 0 .. Limit /\ 0 \in 0 .. Retries
    BY ConstantFacts
  <2> QED BY <2>1 DEF Init, TypeOK
<1>2. PipeInv
  <2>1. <<>> \in Seq(Requests) /\ <<>> \in Seq(Responses) /\ Len(<<>>) <= 1
    OBVIOUS
  <2>2. /\ inbox = [g \in Gens |-> <<>>] /\ outbox = [g \in Gens |-> <<>>]
        /\ active = [g \in Gens |-> <<>>] /\ scenario \in Scenarios
    BY DEF Init
  <2> QED BY <2>1, <2>2 DEF PipeInv
<1>3. LabelInv
  BY ConstantFacts DEF Init, LabelInv
<1> QED BY <1>1, <1>2, <1>3 DEF BaseInv

\* The invariant holds before the first call.
LEMMA InitIInv ==
    ASSUME Init
    PROVE  IInv
<1>1. BaseInv
  BY InitBase
<1>2. /\ \A g \in Gens : /\ ~alive[g] /\ reader[g] = "none" /\ outbox[g] = <<>> /\ inbox[g] = <<>>
                         /\ active[g] = <<>> /\ session[g] = "none"
      /\ child = 0 /\ others = 0 /\ generation = 0
      /\ \A c \in Calls : pend[c] = 0 /\ \A t \in Tasks : pc[t] = "idle" /\ killgen[t] = 0
      /\ \A t \in Tasks : pc[t] = "idle" /\ killgen[t] = 0
  BY DEF Init
<1>3. GenInv /\ KillInv /\ PendInv
  BY <1>2 DEF GenInv, KillInv, PendInv
<1>4. PermitInv
  <2>1. Readers = {}
    BY <1>2 DEF Readers
  <2> QED BY <1>2, <2>1, FS_EmptySet, ConstantFacts DEF PermitInv
<1>5. IdInv
  <2>1. DOMAIN <<>> = {}
    OBVIOUS
  <2> QED BY <1>2, <2>1 DEF IdInv, Distinct
<1>6. LockInv /\ NoOrphanRequest
  BY <1>2, ConstantFacts DEF LockInv, NoOrphanRequest
<1>7. OwnInv /\ PoisonInv
  BY <1>2 DEF OwnInv, PoisonInv
<1> QED BY <1>1, <1>3, <1>4, <1>5, <1>6, <1>7 DEF IInv, WorkerInv

\* Every live child has a permit.
LEMMA LimitKept ==
    ASSUME IInv
    PROVE  Cardinality({g \in Gens : alive[g]}) + others <= Limit
<1>1. {g \in Gens : alive[g]} \subseteq Readers
  BY DEF IInv, WorkerInv, GenInv, Readers
<1>2. /\ Cardinality({g \in Gens : alive[g]}) <= Cardinality(Readers)
      /\ Cardinality({g \in Gens : alive[g]}) \in Nat
  BY <1>1, ReaderCount, FS_Subset, FS_CardinalityType
<1>3. Cardinality(Readers) + others <= Limit /\ others \in Nat /\ Limit \in Nat
  BY ConstantFacts DEF IInv, WorkerInv, PermitInv, BaseInv, TypeOK
<1> QED BY <1>2, <1>3, ReaderCount

(***************************************************************************)
(* The limiters made after the client's.                                    *)
(***************************************************************************)
Limiters == [limit : Nat \ {0}, held : Nat]
\* No limiter gives more permits than it has, and there is no second one while all
\* clients are opened with the limit of the first.
LimiterInv ==
    /\ scenario \in Scenarios /\ later \in Seq(Limiters)
    /\ \A i \in DOMAIN later : later[i].held <= later[i].limit
    /\ scenario.limits \subseteq {Limit} => later = <<>>

\* The calls, the readers, the worker and the clients of the first limiter make none.
LEMMA LimitersLeft ==
    ASSUME [Next]_vars
    PROVE  Aside \/ UNCHANGED <<scenario, later>>
<1>1. ASSUME NEW c \in Calls,
             CallStart(c) \/ CallStep(c) \/ WriteFails(c) \/ RequestTimeout(c) \/ GiveUp(c)
      PROVE  UNCHANGED <<scenario, later>>
  <2>1. CASE CallStart(c) \/ WriteFails(c) \/ RequestTimeout(c) \/ GiveUp(c)
    BY <2>1 DEF CallStart, WriteFails, RequestTimeout, GiveUp
  <2>2. CASE ExecQueryLock(c) \/ EnsureLock(c) \/ EnsureStart(c) \/ EnsureSend(c)
    BY <2>2 DEF ExecQueryLock, EnsureLock, EnsureStart, EnsureSend
  <2>3. CASE EnsureReply(c) \/ EnsureSet(c) \/ SendRequest(c) \/ CallReply(c)
    BY <2>3 DEF EnsureReply, EnsureSet, SendRequest, CallReply
  <2> QED BY <1>1, <2>1, <2>2, <2>3 DEF CallStep
<1>2. ASSUME NEW t \in Tasks, KillTake(t) \/ KillFinish(t) \/ \E e \in Execs : UserCancel(e)
      PROVE  UNCHANGED <<scenario, later>>
  BY <1>2 DEF KillTake, KillFinish, UserCancel
<1>3. ASSUME NEW g \in Gens, ReaderDeliver(g) \/ ReaderEnd(g) \/ WorkerStep(g) \/ WorkerDies(g)
      PROVE  UNCHANGED <<scenario, later>>
  BY <1>3 DEF ReaderDeliver, ReaderEnd, WorkerStep, WorkerSession, WorkerExecute, WorkerFinish,
              WorkerShutdown, WorkerDies
<1>4. CASE OthersStart \/ OthersEnd
  BY <1>4 DEF OthersStart, OthersEnd, Elsewhere
<1>5. ASSUME NEW e \in Execs, UserCancel(e) PROVE UNCHANGED <<scenario, later>>
  BY <1>5 DEF UserCancel
<1> QED BY <1>1, <1>2, <1>3, <1>4, <1>5 DEF Next, Aside, vars

\* A new limiter has another limit than the current one and no permit out; a permit
\* is given while there is one.
LEMMA LimiterKeeps ==
    ASSUME LimiterInv, [Next]_vars
    PROVE  LimiterInv'
<1> USE DEF LimiterInv
<1>1. CASE UNCHANGED <<scenario, later>>
  BY <1>1
<1>2. ASSUME NEW n \in scenario.limits, NewLimiter(n) PROVE LimiterInv'
  <2> DEFINE new == [limit |-> n, held |-> 0]
  <2>1. /\ later' = Append(later, new) /\ scenario' = scenario
        /\ n # Current.limit /\ later \in Seq(Limiters)
    BY <1>2 DEF NewLimiter, Elsewhere
  <2>2. n \in Nat \ {0}
    BY ConstantAssumption
  <2>3. new \in Limiters /\ new.held <= new.limit
    BY <2>2 DEF Limiters
  <2>4. ~(scenario.limits \subseteq {Limit})
    <3> SUFFICES ASSUME scenario.limits \subseteq {Limit} PROVE FALSE
      OBVIOUS
    <3>1. later = <<>> /\ n = Limit
      OBVIOUS
    <3> QED BY <2>1, <3>1 DEF Current, Own
  <2> HIDE DEF new
  <2>5. later' \in Seq(Limiters) /\ DOMAIN later = 1 .. Len(later) /\ Len(later) \in Nat
    BY <2>1, <2>3
  <2>6. \A i \in DOMAIN later' : later'[i] = new \/ (i \in DOMAIN later /\ later'[i] = later[i])
    BY <2>1, <2>3, <2>5
  <2> QED BY <2>1, <2>3, <2>4, <2>5, <2>6
<1>3. ASSUME NEW i \in DOMAIN later, LaterStart(i) \/ LaterEnd(i) PROVE LimiterInv'
  <2>1. /\ later \in Seq(Limiters) /\ later[i] \in Limiters /\ scenario' = scenario
        /\ later # <<>>
    BY <1>3 DEF LaterStart, LaterEnd, Elsewhere
  <2>2. /\ later[i].held \in Nat /\ later[i].limit \in Nat \ {0}
        /\ later[i].held <= later[i].limit
    BY <2>1 DEF Limiters
  <2>3. PICK h \in Nat : h <= later[i].limit /\ later' = [later EXCEPT ![i].held = h]
    <3>1. CASE LaterStart(i)
      <4>1. later[i].held + 1 \in Nat /\ later[i].held + 1 <= later[i].limit
        BY <2>2, <3>1 DEF LaterStart
      <4>2. later' = [later EXCEPT ![i].held = later[i].held + 1]
        BY <3>1 DEF LaterStart
      <4> QED BY <4>1, <4>2
    <3>2. CASE LaterEnd(i)
      <4>1. later[i].held - 1 \in Nat /\ later[i].held - 1 <= later[i].limit
        BY <2>2, <3>2 DEF LaterEnd
      <4>2. later' = [later EXCEPT ![i].held = later[i].held - 1]
        BY <3>2 DEF LaterEnd
      <4> QED BY <4>1, <4>2
    <3> QED BY <1>3, <3>1, <3>2
  <2>4. /\ DOMAIN later' = DOMAIN later /\ later'[i].held = h /\ later'[i].limit = later[i].limit
        /\ \A j \in DOMAIN later : j # i => later'[j] = later[j]
    BY <2>1, <2>3 DEF Limiters
  <2>5. later' \in Seq(Limiters)
    BY <2>1, <2>3 DEF Limiters
  <2> QED BY <2>1, <2>3, <2>4, <2>5
<1> QED BY <1>1, <1>2, <1>3, LimitersLeft DEF Aside

\* All queries at the current child are one.
LEMMA OneQuery ==
    ASSUME IInv
    PROVE  OneQueryPerWorker
<1> USE DEF IInv, WorkerInv, BaseInv
<1> SUFFICES ASSUME child # 0 PROVE Cardinality(QueriesOf(child)) + Len(active[child]) <= 1
  BY DEF OneQueryPerWorker
<1>1. child \in Gens
  BY GenFacts
<1>2. PICK s \in Seq(Requests) : s = inbox[child]
  BY <1>1, PipeFacts
<1>3. QueriesOf(child) = {i \in DOMAIN s : s[i].method = "execute"}
  BY <1>2 DEF QueriesOf
<1>4. Distinct(s, outbox[child], active[child], req)
  BY <1>1, <1>2 DEF IdInv
<1>5. \A i \in QueriesOf(child) : s[i].call = queryLock /\ s[i].n = req[queryLock]
  BY <1>2, <1>3 DEF OwnInv, QueriesAt, Owned
<1>6. \A i, j \in QueriesOf(child) : i = j
  BY <1>3, <1>4, <1>5 DEF Distinct, SameId
<1>7. CASE active[child] = <<>>
  <2>1. Len(active[child]) = 0
    BY <1>7
  <2>2. CASE QueriesOf(child) = {}
    BY <2>1, <2>2, FS_EmptySet
  <2>3. CASE QueriesOf(child) # {}
    <3>1. PICK i : QueriesOf(child) = {i}
      BY <1>6, <2>3
    <3>2. Cardinality({i}) = 1
      BY FS_Singleton
    <3>3. Cardinality(QueriesOf(child)) = 1
      BY <3>1, <3>2
    <3> QED BY <2>1, <3>3
  <2> QED BY <2>2, <2>3
<1>8. CASE active[child] # <<>>
  <2>1. PICK q \in Requests : q = active[child][1] /\ active[child] = <<q>> /\ q.method = "execute"
    BY <1>1, <1>8, PipeFacts
  <2>2. Len(active[child]) = 1
    BY <2>1
  <2>3. q \in QueriesAt(child)
    <3>1. 1 \in DOMAIN <<q>> /\ <<q>>[1] = q
      OBVIOUS
    <3> QED BY <2>1, <3>1 DEF QueriesAt
  <2>4. q.call = queryLock /\ q.n = req[queryLock]
    BY <2>3 DEF OwnInv, Owned
  <2>5. QueriesOf(child) = {}
    BY <1>3, <1>4, <1>5, <1>8, <2>1, <2>4 DEF Distinct, SameId
  <2> QED BY <2>2, <2>5, FS_EmptySet
<1> QED BY <1>7, <1>8

\* Every variable of the client and the children keeps its type, whatever the reader does.
THEOREM TypeCorrect == Spec => []TypeOK
<1>1. Init => BaseInv
  BY InitBase
<1>2. BaseInv /\ [Next]_vars => BaseInv'
  BY BaseInductive
<1>3. BaseInv => TypeOK
  BY DEF BaseInv
<1> QED BY <1>1, <1>2, <1>3, PTL DEF Spec

\* The inductive invariant holds when the reader reads to the end of the stream.
THEOREM Invariance ==
    ASSUME ReadsToTheEnd
    PROVE  Spec => []IInv
<1>1. Init => IInv
  BY InitIInv
<1>2. IInv /\ [Next]_vars => IInv'
  BY Inductive
<1> QED BY <1>1, <1>2, PTL DEF Spec

\* A call that waits for a response has an entry the reader of its child will resolve.
THEOREM RequestsAreNotOrphaned ==
    ASSUME ReadsToTheEnd
    PROVE  Spec => []NoOrphanRequest
<1>1. IInv => NoOrphanRequest
  BY DEF IInv
<1> QED BY <1>1, Invariance, PTL

\* The permits of each limiter cover the live workers of its clients, whatever limits
\* clients are opened with, and with one limit they cover all live workers.
THEOREM WorkersAreLimited ==
    ASSUME ReadsToTheEnd
    PROVE  Spec => []WorkersWithinLimit
<1>1. Init => LimiterInv
  BY DEF Init, LimiterInv
<1>2. LimiterInv /\ [Next]_vars => LimiterInv'
  BY LimiterKeeps
<1>3. IInv /\ LimiterInv => WorkersWithinLimit
  <2> SUFFICES ASSUME IInv, LimiterInv PROVE WorkersWithinLimit
    OBVIOUS
  <2>1. DOMAIN <<>> = {}
    OBVIOUS
  <2> QED BY <2>1, LimitKept DEF LimiterInv, WorkersWithinLimit
<1> QED BY <1>1, <1>2, <1>3, Invariance, PTL DEF Spec

\* The current worker never holds two queries.
THEOREM QueriesDoNotMeet ==
    ASSUME ReadsToTheEnd
    PROVE  Spec => []OneQueryPerWorker
<1>1. IInv => OneQueryPerWorker
  BY OneQuery
<1> QED BY <1>1, Invariance, PTL

\* A poisoned worker is current only while the query that poisoned it holds query_lock.
THEOREM PoisonedWorkersAreKilled ==
    ASSUME ReadsToTheEnd
    PROVE  Spec => []PoisonedIsKilled
<1>1. IInv => PoisonedIsKilled
  BY ConstantFacts DEF IInv, PoisonInv, PoisonedIsKilled
<1> QED BY <1>1, Invariance, PTL
=============================================================================
