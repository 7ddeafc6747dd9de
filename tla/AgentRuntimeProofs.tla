-------------------------- MODULE AgentRuntimeProofs --------------------------
(***************************************************************************)
(* Proofs about AgentRuntime, for any number of connections, of calls of    *)
(* each and of runtimes: type correctness, the count of the sessions and    *)
(* the refinement of RequestChannel whatever fails; and, where the reader   *)
(* thread ends only with its stream, that no call is left waiting and no    *)
(* entry is left behind.                                                    *)
(***************************************************************************)
EXTENDS AgentRuntime, FiniteSetTheorems, TLAPS

(***************************************************************************)
(* The inductive invariant.                                                 *)
(***************************************************************************)
InCall == {"check", "write", "wait"}
Outside == {"idle", "init", "spawn", "done"}

\* A client by its label: a method while it calls, a session from the answer of
\* OpenSession to that of the close, a runtime from the lookup to the end.
ClientOk(c) ==
    /\ pc[c] \in InCall <=> method[c] # "none"
    /\ pc[c] \in Outside \/ method[c] = "open" => ~session[c]
    /\ method[c] \in {"query", "validate", "close", "cancel"} \/ pc[c] = "ready" => session[c]
    /\ rt[c] = 0 <=> pc[c] \in {"idle", "done"}
    /\ calls[c] <= Budget[c] /\ (pc[c] \in InCall => calls[c] >= 1)
    /\ pc[c] \in {"idle", "init", "spawn"} => calls[c] = 0
    /\ method[c] # "cancel" => outer[c] = 0
    /\ outer[c] # 0 => outer[c] < calls[c]
    /\ pc[c] \in {"check", "write"} => got[c] = "none"
    /\ c \in carried => pc[c] = "wait"
ClientInv == \A c \in Clients : ClientOk(c)

\* The cell of a client's runtime, and who initialises it.
CellInv ==
    /\ registry # 0 => cell[registry] # "none"
    /\ \A c \in Clients : rt[c] # 0 => cell[rt[c]] # "none"
    /\ \A c \in Clients : pc[c] \notin Outside => cell[rt[c]] = "ready"
    /\ \A c \in Clients : pc[c] = "spawn" => cell[rt[c]] = "init"
    /\ \A c, d \in Clients : pc[c] = "spawn" /\ pc[d] = "spawn" /\ rt[c] = rt[d] => c = d

\* No id is in flight before its call has written it, and what the agent has
\* answered of a call that waits it has carried out.
InFlight(r, g) == r \in pending[g] \/ r \in sent[g] \/ \E a \in out[g] : a.id = r
NumberInv ==
    \A g \in Runtimes, c \in Clients, n \in Nat :
        InFlight(<<c, n>>, g) =>
            n <= calls[c] /\ (n = calls[c] => pc[c] \notin {"check", "write"})
CarriedInv ==
    /\ \A g \in Runtimes : \A a \in out[g], c \in Clients :
           pc[c] = "wait" /\ a.id = Id(c) => c \in carried
    /\ \A c \in Clients : pc[c] = "wait" /\ got[c] \in {"ok", "err"} => c \in carried

\* While the reader ends only with its stream.
ReaderInv == \A g \in Runtimes : alive[g] => reader[g] = "run" /\ cell[g] = "ready"
HomeInv ==
    \A g \in Runtimes, c \in Clients, n \in Nat :
        <<c, n>> \in pending[g] => cell[g] = "ready" /\ (pc[c] # "done" => rt[c] = g)
Owed(r, g) == reader[g] = "run" /\ (alive[g] => r \in sent[g] \/ \E a \in out[g] : a.id = r)
WaitInv ==
    \A c \in Clients :
        pc[c] = "wait" =>
            \/ got[c] = "none" /\ Id(c) \in pending[rt[c]] /\ Owed(Id(c), rt[c])
            \/ got[c] # "none" /\ \A g \in Runtimes : Id(c) \notin pending[g]
EntryInv ==
    \A g \in Runtimes, c \in Clients, n \in Nat :
        <<c, n>> \in pending[g] =>
            n = outer[c] \/ (pc[c] = "wait" /\ n = calls[c]) \/ Owed(<<c, n>>, g)

BaseInv == TypeOK /\ ClientInv /\ CountIsSessions /\ CellInv /\ NumberInv /\ CarriedInv
StreamInv == ReaderInv /\ HomeInv /\ WaitInv /\ EntryInv

(***************************************************************************)
(* Steps by what they do.  Ends: a call returns r to its caller; Passes:    *)
(* the check of the flag lets it through.                                   *)
(***************************************************************************)
Results == {"ok", "err", "gone", "timeout"}
Passes(c) ==
    /\ pc[c] = "check"
    /\ pc' = [pc EXCEPT ![c] = "write"]
    /\ UNCHANGED <<runtimeVars, rt, calls, method, outer, got, session, carried, last>>
Ends(c, r) ==
    /\ pc[c] \in InCall
    /\ r \in {"ok", "err"} => pc[c] = "wait" /\ got[c] = r
    /\ pc[c] = "wait" /\ got[c] # "none" => r = got[c]
    /\ Finish(c, r)

\* The next-state relation as one disjunct per step.
LEMMA NextCases ==
    ASSUME TypeOK, Next
    PROVE  \/ \E c \in Clients : Lookup(c)
           \/ \E c \in Clients : BeginInit(c)
           \/ \E c \in Clients : SpawnReady(c)
           \/ \E c \in Clients : SpawnFails(c)
           \/ \E c \in Clients : OpenSession(c)
           \/ \E c \in Clients : Passes(c)
           \/ \E c \in Clients : CallWrite(c)
           \/ \E c \in Clients : \E r \in Results : Ends(c, r)
           \/ \E c \in Clients : Cancel(c)
           \/ \E c \in Clients : \E m \in {"query", "validate", "close"} : Call(c, m)
           \/ \E c \in Clients : Drop(c)
           \/ \E g \in Runtimes : ReaderDeliver(g)
           \/ \E g \in Runtimes : ReaderEnd(g)
           \/ \E g \in Runtimes : GraceCheck(g)
           \/ \E g \in Runtimes : GraceKill(g)
           \/ \E g \in Runtimes : AgentAnswers(g)
           \/ \E g \in Runtimes : AgentEnds(g)
           \/ StopDaemons
<1>1. ASSUME NEW c \in Clients, CallCheck(c)
      PROVE  Passes(c) \/ \E r \in Results : Ends(c, r)
  <2>1. pc[c] = "check" /\ (Finish(c, "gone") \/ Passes(c))
    BY <1>1 DEF CallCheck, Passes
  <2>2. Finish(c, "gone") => Ends(c, "gone")
    BY <2>1 DEF Ends, InCall
  <2> QED BY <2>1, <2>2 DEF Results
<1>2. ASSUME NEW c \in Clients, WriteFails(c) PROVE \E r \in Results : Ends(c, r)
  <2>1. Ends(c, "gone")
    BY <1>2 DEF WriteFails, Ends, InCall
  <2> QED BY <2>1 DEF Results
<1>3. ASSUME NEW c \in Clients, CallReply(c) PROVE \E r \in Results : Ends(c, r)
  <2>1. got[c] \in Results
    BY <1>3 DEF CallReply, TypeOK, Results
  <2>2. Ends(c, got[c])
    BY <1>3 DEF CallReply, Ends, InCall
  <2> QED BY <2>1, <2>2
<1>4. ASSUME NEW c \in Clients, CallTimeout(c) PROVE \E r \in Results : Ends(c, r)
  <2>1. Ends(c, "timeout")
    BY <1>4 DEF CallTimeout, Ends, InCall
  <2> QED BY <2>1 DEF Results
<1> QED BY <1>1, <1>2, <1>3, <1>4 DEF Next, ClientStep

\* The runtimes are numbered from one; an id names its client and its call.
LEMMA ConstantFacts ==
    /\ 0 \notin Runtimes /\ Runtimes \subseteq Nat
    /\ \A g : g \in 0 .. MaxRuntimes <=> g = 0 \/ g \in Runtimes
    /\ IsFiniteSet(Clients)
    /\ Budget \in [Clients -> Nat] /\ \A c \in Clients : Budget[c] >= 1
BY AgentAssumption DEF Runtimes

\* An id is a client and the number of a call within its budget.
LEMMA IdFacts ==
    /\ \A c \in Clients, n \in Nat : <<c, n>> \in Ids <=> 1 <= n /\ n <= Budget[c]
    /\ \A r \in Ids : r = <<r[1], r[2]>> /\ r[1] \in Clients /\ r[2] \in Nat /\ r[2] >= 1
BY ConstantFacts DEF Ids

(***************************************************************************)
(* What a call that returns does, by the part of the state it does it to.   *)
(***************************************************************************)
LEMMA FinishControl ==
    ASSUME TypeOK, NEW c \in Clients, NEW r \in Results, Finish(c, r)
    PROVE  /\ UNCHANGED <<registry, cell, reader, doomed, alive, sent, out, calls>>
           /\ carried' = carried \ {c}
           /\ \E v \in {"answered", "failed"} :
                  last' = [last EXCEPT ![c] = v] /\ (v = "answered" <=> r \in {"ok", "err"})
           /\ method' = [method EXCEPT ![c] = "none"] /\ outer' = [outer EXCEPT ![c] = 0]
           /\ \E l \in {"done", "drop", "ready"} :
                  /\ pc' = [pc EXCEPT ![c] = l]
                  /\ l = "done" <=> method[c] = "open" /\ r # "ok"
                  /\ l = "drop" <=> method[c] = "close"
           /\ method[c] = "open" /\ r # "ok" => rt' = [rt EXCEPT ![c] = 0]
           /\ ~(method[c] = "open" /\ r # "ok") => rt' = rt
<1>1. UNCHANGED <<registry, cell, reader, doomed, alive, sent, out, calls>>
  BY DEF Finish
<1>2. carried' = carried \ {c}
  BY DEF Finish
<1>3. \E v \in {"answered", "failed"} :
         last' = [last EXCEPT ![c] = v] /\ (v = "answered" <=> r \in {"ok", "err"})
  BY DEF Finish
<1>4. method' = [method EXCEPT ![c] = "none"] /\ outer' = [outer EXCEPT ![c] = 0]
  BY DEF Finish
<1>5. \E l \in {"done", "drop", "ready"} :
         /\ pc' = [pc EXCEPT ![c] = l]
         /\ l = "done" <=> method[c] = "open" /\ r # "ok"
         /\ l = "drop" <=> method[c] = "close"
  <2>1. CASE method[c] = "open" /\ r # "ok"
    BY <2>1 DEF Finish
  <2>2. CASE method[c] = "close"
    BY <2>2 DEF Finish
  <2>3. CASE ~(method[c] = "open" /\ r # "ok") /\ method[c] # "close"
    BY <2>3 DEF Finish
  <2> QED BY <2>1, <2>2, <2>3
<1>6. method[c] = "open" /\ r # "ok" => rt' = [rt EXCEPT ![c] = 0]
  BY DEF Finish
<1>7. ~(method[c] = "open" /\ r # "ok") => rt' = rt
  BY DEF Finish, TypeOK
<1> QED BY <1>1, <1>2, <1>3, <1>4, <1>5, <1>6, <1>7

\* Its session and its part in the count.
LEMMA FinishSession ==
    ASSUME TypeOK, NEW c \in Clients, NEW r \in Results, Finish(c, r)
    PROVE  /\ method[c] = "open" /\ r = "ok" =>
                  /\ session' = [session EXCEPT ![c] = TRUE]
                  /\ count' = [count EXCEPT ![rt[c]] = @ + 1] /\ UNCHANGED grace
           /\ method[c] = "close" /\ r = "ok" =>
                  session' = [session EXCEPT ![c] = FALSE] /\ DecrementSessionCount(rt[c])
           /\ ~(method[c] \in {"open", "close"} /\ r = "ok") =>
                  UNCHANGED <<session, count, grace>>
<1>1. method[c] = "open" /\ r = "ok" =>
         /\ session' = [session EXCEPT ![c] = TRUE]
         /\ count' = [count EXCEPT ![rt[c]] = @ + 1] /\ UNCHANGED grace
  BY DEF Finish
<1>2. method[c] = "close" /\ r = "ok" =>
         session' = [session EXCEPT ![c] = FALSE] /\ DecrementSessionCount(rt[c])
  BY DEF Finish
<1>3. ~(method[c] \in {"open", "close"} /\ r = "ok") => UNCHANGED session
  BY DEF Finish, TypeOK
<1>4. ~(method[c] \in {"open", "close"} /\ r = "ok") => UNCHANGED <<count, grace>>
  BY DEF Finish
<1> QED BY <1>1, <1>2, <1>3, <1>4

\* The entries of the calls.
LEMMA FinishEntries ==
    ASSUME TypeOK, NEW c \in Clients, NEW r \in Results, Finish(c, r)
    PROVE  /\ method[c] = "validate" /\ r # "ok" => Kill(rt[c])
           /\ ~(method[c] = "validate" /\ r # "ok") => UNCHANGED <<failed, killed>> /\ Taken(c)
           /\ method[c] = "cancel" =>
                  pending' = [pending EXCEPT ![rt[c]] = @ \ {<<c, outer[c]>>}]
           /\ ~(method[c] = "validate" /\ r # "ok") /\ method[c] # "cancel" => UNCHANGED pending
<1>1. method[c] = "validate" /\ r # "ok" => Kill(rt[c])
  BY DEF Finish
<1>2. ~(method[c] = "validate" /\ r # "ok") => UNCHANGED <<failed, killed>> /\ Taken(c)
  BY DEF Finish
<1>3. method[c] = "cancel" => pending' = [pending EXCEPT ![rt[c]] = @ \ {<<c, outer[c]>>}]
  BY DEF Finish
<1>4. ~(method[c] = "validate" /\ r # "ok") /\ method[c] # "cancel" => UNCHANGED pending
  BY DEF Finish
<1> QED BY <1>1, <1>2, <1>3, <1>4

\* Failing the entries of a runtime answers those of their callers that wait.
LEMMA FailFacts ==
    ASSUME TypeOK, NEW g \in Runtimes, FailPending(g)
    PROVE  /\ pending' \in [Runtimes -> SUBSET Ids]
           /\ got' \in [Clients -> {"none", "ok", "err", "gone"}]
           /\ pending'[g] = {} /\ \A h \in Runtimes : h # g => pending'[h] = pending[h]
           /\ \A d \in Clients : got'[d] = got[d] \/ pc[d] = "wait"
           /\ \A d \in Clients : pc[d] = "wait" /\ Id(d) \in pending[g] => got'[d] = "gone"
           /\ \A d \in Clients : Id(d) \notin pending[g] => got'[d] = got[d]
BY DEF TypeOK, FailPending, Waiting

\* Killing a runtime fails its entries.
LEMMA KillFacts ==
    ASSUME TypeOK, NEW g \in Runtimes, Kill(g)
    PROVE  /\ failed' \in [Runtimes -> BOOLEAN] /\ killed' \subseteq Runtimes
           /\ FailPending(g)
BY DEF TypeOK, Kill

\* A step keeps what the label of a client says of it.
LEMMA ClientInductive ==
    ASSUME TypeOK, ClientInv, [Next]_vars
    PROVE  ClientInv'
<1> USE ConstantFacts DEF TypeOK, ClientInv, ClientOk, InCall, Outside
<1>1. CASE UNCHANGED vars
  BY <1>1 DEF vars
<1>2. ASSUME NEW c \in Clients, Lookup(c) PROVE ClientInv'
  BY <1>2 DEF Lookup, Reusable, Unused
<1>3. ASSUME NEW c \in Clients, BeginInit(c) PROVE ClientInv'
  BY <1>3 DEF BeginInit
<1>4. ASSUME NEW c \in Clients, SpawnReady(c) PROVE ClientInv'
  BY <1>4 DEF SpawnReady
<1>5. ASSUME NEW c \in Clients, SpawnFails(c) PROVE ClientInv'
  BY <1>5 DEF SpawnFails
<1>6. ASSUME NEW c \in Clients, OpenSession(c) PROVE ClientInv'
  BY <1>6 DEF OpenSession, BeginCall, runtimeVars
<1>7. ASSUME NEW c \in Clients, Passes(c) PROVE ClientInv'
  BY <1>7 DEF Passes, runtimeVars
<1>8. ASSUME NEW c \in Clients, CallWrite(c) PROVE ClientInv'
  BY <1>8 DEF CallWrite
<1>9. ASSUME NEW c \in Clients, NEW r \in Results, Ends(c, r) PROVE ClientInv'
  <2>1. pc[c] \in InCall /\ Finish(c, r) /\ method[c] # "none" /\ rt[c] \in Runtimes
    BY <1>9 DEF Ends
  <2>2. /\ UNCHANGED calls /\ carried' = carried \ {c}
        /\ method' = [method EXCEPT ![c] = "none"] /\ outer' = [outer EXCEPT ![c] = 0]
        /\ method[c] = "open" /\ r # "ok" => rt' = [rt EXCEPT ![c] = 0]
        /\ ~(method[c] = "open" /\ r # "ok") => rt' = rt
    BY <2>1, FinishControl
  <2>3. PICK l \in {"done", "drop", "ready"} :
            /\ pc' = [pc EXCEPT ![c] = l]
            /\ l = "done" <=> method[c] = "open" /\ r # "ok"
            /\ l = "drop" <=> method[c] = "close"
    BY <2>1, FinishControl
  <2>4. /\ method[c] = "open" /\ r = "ok" => session' = [session EXCEPT ![c] = TRUE]
        /\ method[c] = "close" /\ r = "ok" => session' = [session EXCEPT ![c] = FALSE]
        /\ ~(method[c] \in {"open", "close"} /\ r = "ok") => session' = session
    BY <2>1, FinishSession
  <2>5. \A d \in Clients \ {c} : got'[d] = got[d] \/ pc[d] = "wait"
    <3>1. CASE method[c] = "validate" /\ r # "ok"
      BY <2>1, <3>1, FinishEntries, KillFacts, FailFacts
    <3>2. CASE ~(method[c] = "validate" /\ r # "ok")
      BY <2>1, <3>2, FinishEntries DEF Taken
    <3> QED BY <3>1, <3>2
  <2>6. \A d \in Clients \ {c} : /\ pc'[d] = pc[d] /\ method'[d] = method[d] /\ session'[d] = session[d]
                              /\ rt'[d] = rt[d] /\ outer'[d] = outer[d]
    BY <2>2, <2>3, <2>4
  <2>7. /\ pc'[c] = l /\ method'[c] = "none" /\ outer'[c] = 0
        /\ rt'[c] = 0 <=> l = "done"
        /\ l = "done" => ~session'[c]
        /\ l = "ready" => session'[c]
    BY <2>1, <2>2, <2>3, <2>4
  <2>8. ASSUME NEW d \in Clients \ {c}
        PROVE  ClientOk(d)'
    BY <2>2, <2>5, <2>6
  <2>9. ClientOk(c)'
    BY <2>1, <2>2, <2>7
  <2> QED BY <2>8, <2>9
<1>10. ASSUME NEW c \in Clients, Cancel(c) PROVE ClientInv'
  BY <1>10 DEF Cancel, BeginCall, runtimeVars
<1>11. ASSUME NEW c \in Clients, NEW m \in {"query", "validate", "close"}, Call(c, m) PROVE ClientInv'
  BY <1>11 DEF Call, BeginCall, runtimeVars
<1>12. ASSUME NEW c \in Clients, Drop(c) PROVE ClientInv'
  BY <1>12 DEF Drop, HasSession, DecrementSessionCount, TakeSession, Decremented
<1>13. ASSUME NEW g \in Runtimes, ReaderDeliver(g) PROVE ClientInv'
  <2>1. UNCHANGED <<pc, rt, calls, method, outer, session>>
    BY <1>13 DEF ReaderDeliver, clientVars
  <2>2. \A d \in Clients : got'[d] = got[d] \/ pc[d] = "wait"
    BY <1>13 DEF ReaderDeliver, CallerOf, Waiting
  <2>3. \A d \in carried' : d \in carried \/ pc[d] = "wait"
    BY <1>13 DEF ReaderDeliver, Waiting
  <2> QED BY <2>1, <2>2, <2>3
<1>14. ASSUME NEW g \in Runtimes, ReaderEnd(g) PROVE ClientInv'
  <2>1. UNCHANGED <<pc, rt, calls, method, outer, session>>
    BY <1>14 DEF ReaderEnd, clientVars
  <2>2. \A d \in Clients : got'[d] = got[d] \/ pc[d] = "wait"
    BY <1>14, FailFacts DEF ReaderEnd
  <2>3. \A d \in carried' : d \in carried \/ pc[d] = "wait"
    BY <1>14 DEF ReaderEnd, Waiting
  <2> QED BY <2>1, <2>2, <2>3
<1>15. ASSUME NEW g \in Runtimes, GraceCheck(g) PROVE ClientInv'
  BY <1>15 DEF GraceCheck, clientVars
<1>16. ASSUME NEW g \in Runtimes, GraceKill(g) PROVE ClientInv'
  <2>1. UNCHANGED <<pc, rt, calls, method, outer, session>>
    BY <1>16 DEF GraceKill, clientVars
  <2>2. \A d \in Clients : got'[d] = got[d] \/ pc[d] = "wait"
    BY <1>16, KillFacts, FailFacts DEF GraceKill
  <2>3. \A d \in carried' : d \in carried \/ pc[d] = "wait"
    BY <1>16 DEF GraceKill, Waiting
  <2> QED BY <2>1, <2>2, <2>3
<1>17. ASSUME NEW g \in Runtimes, AgentAnswers(g) PROVE ClientInv'
  <2>1. UNCHANGED <<pc, rt, calls, method, outer, session>>
    BY <1>17 DEF AgentAnswers, clientVars
  <2>2. \A d \in Clients : got'[d] = got[d] \/ pc[d] = "wait"
    BY <1>17 DEF AgentAnswers, clientVars
  <2>3. \A d \in carried' : d \in carried \/ pc[d] = "wait"
    BY <1>17 DEF AgentAnswers, Waiting
  <2> QED BY <2>1, <2>2, <2>3
<1>18. ASSUME NEW g \in Runtimes, AgentEnds(g) PROVE ClientInv'
  BY <1>18 DEF AgentEnds, Held, clientVars
<1>19. CASE StopDaemons
  <2>1. UNCHANGED <<pc, rt, calls, method, outer, session>>
    BY <1>19 DEF StopDaemons, clientVars
  <2>2. \A d \in Clients : got'[d] = got[d] \/ pc[d] = "wait"
    <3>1. CASE cell[registry] = "ready"
      BY <1>19, <3>1, KillFacts, FailFacts DEF StopDaemons
    <3>2. CASE cell[registry] # "ready"
      BY <1>19, <3>2 DEF StopDaemons
    <3> QED BY <3>1, <3>2
  <2>3. \A d \in carried' : d \in carried \/ pc[d] = "wait"
    BY <1>19 DEF StopDaemons, Waiting
  <2> QED BY <2>1, <2>2, <2>3
<1> HIDE DEF TypeOK, ClientInv, ClientOk, InCall, Outside
<1> QED
  BY <1>1, <1>2, <1>3, <1>4, <1>5, <1>6, <1>7, <1>8, <1>9, <1>10, <1>11, <1>12, <1>13, <1>14,
     <1>15, <1>16, <1>17, <1>18, <1>19, NextCases

\* The clients a runtime counts.
SessionsOf(g) == {c \in Clients : session[c] /\ rt[c] = g}

\* A set of clients is finite, with no more elements than there are clients.
LEMMA ClientSets ==
    ASSUME NEW S \in SUBSET Clients
    PROVE  IsFiniteSet(S) /\ Cardinality(S) \in 0 .. Cardinality(Clients)
<1>1. IsFiniteSet(S) /\ Cardinality(S) <= Cardinality(Clients)
  BY ConstantFacts, FS_Subset
<1>2. Cardinality(S) \in Nat /\ Cardinality(Clients) \in Nat
  BY <1>1, ConstantFacts, FS_CardinalityType
<1> QED BY <1>1, <1>2

\* A step that changes nobody's session, and the runtime only of clients without one,
\* keeps the counts right.
LEMMA CountSame ==
    ASSUME CountIsSessions, count' = count,
           \A d \in Clients : /\ session'[d] <=> session[d]
                              /\ session[d] => rt'[d] = rt[d]
    PROVE  CountIsSessions'
<1>1. \A g \in Runtimes : SessionsOf(g)' = SessionsOf(g)
  BY DEF SessionsOf
<1> QED BY <1>1 DEF CountIsSessions, SessionsOf

\* A new session is counted once.
LEMMA CountUp ==
    ASSUME TypeOK, CountIsSessions, NEW c \in Clients, rt[c] \in Runtimes, ~session[c], rt' = rt,
           session' = [session EXCEPT ![c] = TRUE], count' = [count EXCEPT ![rt[c]] = @ + 1]
    PROVE  CountIsSessions'
<1> SUFFICES ASSUME NEW g \in Runtimes PROVE count'[g] = Cardinality(SessionsOf(g)')
  BY DEF CountIsSessions, SessionsOf
<1>1. count[g] = Cardinality(SessionsOf(g)) /\ IsFiniteSet(SessionsOf(g))
  <2>1. SessionsOf(g) \in SUBSET Clients
    BY DEF SessionsOf
  <2> QED BY <2>1, ClientSets DEF CountIsSessions, SessionsOf
<1>2. CASE g = rt[c]
  <2>1. SessionsOf(g)' = SessionsOf(g) \cup {c} /\ c \notin SessionsOf(g)
    BY <1>2 DEF SessionsOf, TypeOK
  <2>2. Cardinality(SessionsOf(g) \cup {c}) = Cardinality(SessionsOf(g)) + 1
    BY <1>1, <2>1, FS_AddElement
  <2>3. count'[g] = count[g] + 1
    BY <1>2 DEF TypeOK
  <2> QED BY <1>1, <2>1, <2>2, <2>3
<1>3. CASE g # rt[c]
  <2>1. SessionsOf(g)' = SessionsOf(g)
    BY <1>3 DEF SessionsOf, TypeOK
  <2>2. count'[g] = count[g]
    BY <1>3 DEF TypeOK
  <2> QED BY <1>1, <2>1, <2>2
<1> QED BY <1>2, <1>3

\* One that ends is counted back once, whether or not its client lets the runtime go.
LEMMA CountDown ==
    ASSUME TypeOK, CountIsSessions, NEW c \in Clients, rt[c] \in Runtimes, session[c],
           \A d \in Clients : d # c => rt'[d] = rt[d],
           session' = [session EXCEPT ![c] = FALSE], DecrementSessionCount(rt[c])
    PROVE  CountIsSessions'
<1> SUFFICES ASSUME NEW g \in Runtimes PROVE count'[g] = Cardinality(SessionsOf(g)')
  BY DEF CountIsSessions, SessionsOf
<1>1. count[g] = Cardinality(SessionsOf(g)) /\ IsFiniteSet(SessionsOf(g))
  <2>1. SessionsOf(g) \in SUBSET Clients
    BY DEF SessionsOf
  <2> QED BY <2>1, ClientSets DEF CountIsSessions, SessionsOf
<1>2. CASE g = rt[c]
  <2>1. SessionsOf(g)' = SessionsOf(g) \ {c} /\ c \in SessionsOf(g)
    BY <1>2 DEF SessionsOf, TypeOK
  <2>2. Cardinality(SessionsOf(g) \ {c}) = Cardinality(SessionsOf(g)) - 1
    BY <1>1, <2>1, FS_RemoveElement
  <2>3. Cardinality(SessionsOf(g) \ {c}) \in Nat /\ Cardinality(SessionsOf(g)) \in Nat
    BY <1>1, FS_RemoveElement, FS_CardinalityType
  <2>4. count'[g] = Decremented(count[g])
    BY <1>2 DEF TypeOK, DecrementSessionCount
  <2> QED BY <1>1, <2>1, <2>2, <2>3, <2>4 DEF Decremented
<1>3. CASE g # rt[c]
  <2>1. SessionsOf(g)' = SessionsOf(g)
    BY <1>3 DEF SessionsOf, TypeOK
  <2>2. count'[g] = count[g]
    BY <1>3 DEF TypeOK, DecrementSessionCount
  <2> QED BY <1>1, <2>1, <2>2
<1> QED BY <1>2, <1>3

\* A step keeps the counts right.
LEMMA CountInductive ==
    ASSUME TypeOK, ClientInv, CountIsSessions, [Next]_vars
    PROVE  CountIsSessions'
<1>1. CASE UNCHANGED vars
  BY <1>1 DEF vars, CountIsSessions
<1>2. ASSUME NEW c \in Clients, Lookup(c) PROVE CountIsSessions'
  <2>1. count' = count /\ session' = session
    BY <1>2 DEF Lookup
  <2>2. \A d \in Clients : session[d] => rt'[d] = rt[d]
    BY <1>2 DEF Lookup, ClientInv, ClientOk, Outside, TypeOK
  <2> QED BY <2>1, <2>2, CountSame
<1>3. ASSUME NEW c \in Clients, BeginInit(c) PROVE CountIsSessions'
  <2>1. count' = count /\ session' = session
    BY <1>3 DEF BeginInit
  <2>2. \A d \in Clients : session[d] => rt'[d] = rt[d]
    BY <1>3 DEF BeginInit
  <2> QED BY <2>1, <2>2, CountSame
<1>4. ASSUME NEW c \in Clients, SpawnReady(c) PROVE CountIsSessions'
  <2>1. count' = count /\ session' = session
    BY <1>4 DEF SpawnReady
  <2>2. \A d \in Clients : session[d] => rt'[d] = rt[d]
    BY <1>4 DEF SpawnReady
  <2> QED BY <2>1, <2>2, CountSame
<1>5. ASSUME NEW c \in Clients, SpawnFails(c) PROVE CountIsSessions'
  <2>1. count' = count /\ session' = session
    BY <1>5 DEF SpawnFails
  <2>2. \A d \in Clients : session[d] => rt'[d] = rt[d]
    BY <1>5 DEF SpawnFails, ClientInv, ClientOk, Outside, TypeOK
  <2> QED BY <2>1, <2>2, CountSame
<1>6. ASSUME NEW c \in Clients, OpenSession(c) PROVE CountIsSessions'
  <2>1. count' = count /\ session' = session
    BY <1>6 DEF OpenSession, runtimeVars
  <2>2. \A d \in Clients : session[d] => rt'[d] = rt[d]
    BY <1>6 DEF OpenSession, runtimeVars
  <2> QED BY <2>1, <2>2, CountSame
<1>7. ASSUME NEW c \in Clients, Passes(c) PROVE CountIsSessions'
  <2>1. count' = count /\ session' = session
    BY <1>7 DEF Passes, runtimeVars
  <2>2. \A d \in Clients : session[d] => rt'[d] = rt[d]
    BY <1>7 DEF Passes, runtimeVars
  <2> QED BY <2>1, <2>2, CountSame
<1>8. ASSUME NEW c \in Clients, CallWrite(c) PROVE CountIsSessions'
  <2>1. count' = count /\ session' = session
    BY <1>8 DEF CallWrite
  <2>2. \A d \in Clients : session[d] => rt'[d] = rt[d]
    BY <1>8 DEF CallWrite
  <2> QED BY <2>1, <2>2, CountSame
<1>9. ASSUME NEW c \in Clients, NEW r \in Results, Ends(c, r) PROVE CountIsSessions'
  <2>1. pc[c] \in InCall /\ Finish(c, r) /\ rt[c] \in Runtimes
    BY <1>9, ConstantFacts DEF Ends, ClientInv, ClientOk, TypeOK, InCall
  <2>2. CASE method[c] = "open" /\ r = "ok"
    <3>1. rt' = rt /\ ~session[c]
      BY <2>1, <2>2, FinishControl DEF ClientInv, ClientOk
    <3>2. session' = [session EXCEPT ![c] = TRUE] /\ count' = [count EXCEPT ![rt[c]] = @ + 1]
      BY <2>1, <2>2, FinishSession
    <3> QED BY <2>1, <3>1, <3>2, CountUp
  <2>3. CASE method[c] = "close" /\ r = "ok"
    <3>1. rt' = rt /\ session[c]
      BY <2>1, <2>3, FinishControl DEF ClientInv, ClientOk
    <3>2. session' = [session EXCEPT ![c] = FALSE] /\ DecrementSessionCount(rt[c])
      BY <2>1, <2>3, FinishSession
    <3> QED BY <2>1, <3>1, <3>2, CountDown
  <2>4. CASE ~(method[c] \in {"open", "close"} /\ r = "ok")
    <3>1. UNCHANGED <<session, count>>
      BY <2>1, <2>4, FinishSession
    <3>2. \A d \in Clients : session[d] => rt'[d] = rt[d]
      <4>1. CASE method[c] = "open"
        <5>1. ~session[c] /\ \A d \in Clients : d # c => rt'[d] = rt[d]
          BY <2>1, <4>1, FinishControl DEF ClientInv, ClientOk, TypeOK
        <5> QED BY <5>1
      <4>2. CASE method[c] # "open"
        BY <2>1, <4>2, FinishControl
      <4> QED BY <4>1, <4>2
    <3> QED BY <3>1, <3>2, CountSame
  <2> QED BY <2>2, <2>3, <2>4
<1>10. ASSUME NEW c \in Clients, Cancel(c) PROVE CountIsSessions'
  <2>1. count' = count /\ session' = session
    BY <1>10 DEF Cancel, runtimeVars
  <2>2. \A d \in Clients : session[d] => rt'[d] = rt[d]
    BY <1>10 DEF Cancel, runtimeVars
  <2> QED BY <2>1, <2>2, CountSame
<1>11. ASSUME NEW c \in Clients, NEW m \in {"query", "validate", "close"}, Call(c, m) PROVE CountIsSessions'
  <2>1. count' = count /\ session' = session
    BY <1>11 DEF Call, runtimeVars
  <2>2. \A d \in Clients : session[d] => rt'[d] = rt[d]
    BY <1>11 DEF Call, runtimeVars
  <2> QED BY <2>1, <2>2, CountSame
<1>12. ASSUME NEW c \in Clients, Drop(c) PROVE CountIsSessions'
  <2>1. pc[c] \in {"ready", "drop"} /\ rt[c] \in Runtimes
    BY <1>12, ConstantFacts DEF Drop, ClientInv, ClientOk, TypeOK
  <2>2. session' = [session EXCEPT ![c] = FALSE] /\ rt' = [rt EXCEPT ![c] = 0]
    BY <1>12 DEF Drop, TakeSession
  <2>3. CASE session[c]
    <3>1. DecrementSessionCount(rt[c])
      BY <1>12, <2>3 DEF Drop, HasSession
    <3>2. \A d \in Clients : d # c => rt'[d] = rt[d]
      BY <2>2 DEF TypeOK
    <3> QED BY <2>1, <2>2, <2>3, <3>1, <3>2, CountDown
  <2>4. CASE ~session[c]
    <3>1. count' = count
      BY <1>12, <2>4 DEF Drop, HasSession
    <3>2. \A d \in Clients : (session'[d] <=> session[d]) /\ (session[d] => rt'[d] = rt[d])
      BY <2>2, <2>4 DEF TypeOK
    <3> QED BY <3>1, <3>2, CountSame
  <2> QED BY <2>3, <2>4
<1>13. ASSUME NEW g \in Runtimes, ReaderDeliver(g) PROVE CountIsSessions'
  <2>1. count' = count /\ session' = session
    BY <1>13 DEF ReaderDeliver
  <2>2. \A d \in Clients : session[d] => rt'[d] = rt[d]
    BY <1>13 DEF ReaderDeliver
  <2> QED BY <2>1, <2>2, CountSame
<1>14. ASSUME NEW g \in Runtimes, ReaderEnd(g) PROVE CountIsSessions'
  <2>1. count' = count /\ session' = session
    BY <1>14 DEF ReaderEnd
  <2>2. \A d \in Clients : session[d] => rt'[d] = rt[d]
    BY <1>14 DEF ReaderEnd
  <2> QED BY <2>1, <2>2, CountSame
<1>15. ASSUME NEW g \in Runtimes, GraceCheck(g) PROVE CountIsSessions'
  <2>1. count' = count /\ session' = session
    BY <1>15 DEF GraceCheck, clientVars
  <2>2. \A d \in Clients : session[d] => rt'[d] = rt[d]
    BY <1>15 DEF GraceCheck, clientVars
  <2> QED BY <2>1, <2>2, CountSame
<1>16. ASSUME NEW g \in Runtimes, GraceKill(g) PROVE CountIsSessions'
  <2>1. count' = count /\ session' = session
    BY <1>16 DEF GraceKill
  <2>2. \A d \in Clients : session[d] => rt'[d] = rt[d]
    BY <1>16 DEF GraceKill
  <2> QED BY <2>1, <2>2, CountSame
<1>17. ASSUME NEW g \in Runtimes, AgentAnswers(g) PROVE CountIsSessions'
  <2>1. count' = count /\ session' = session
    BY <1>17 DEF AgentAnswers, clientVars
  <2>2. \A d \in Clients : session[d] => rt'[d] = rt[d]
    BY <1>17 DEF AgentAnswers, clientVars
  <2> QED BY <2>1, <2>2, CountSame
<1>18. ASSUME NEW g \in Runtimes, AgentEnds(g) PROVE CountIsSessions'
  <2>1. count' = count /\ session' = session
    BY <1>18 DEF AgentEnds, clientVars
  <2>2. \A d \in Clients : session[d] => rt'[d] = rt[d]
    BY <1>18 DEF AgentEnds, clientVars
  <2> QED BY <2>1, <2>2, CountSame
<1>19. CASE StopDaemons
  <2>1. count' = count /\ session' = session
    BY <1>19 DEF StopDaemons
  <2>2. \A d \in Clients : session[d] => rt'[d] = rt[d]
    BY <1>19 DEF StopDaemons
  <2> QED BY <2>1, <2>2, CountSame
<1> QED
  BY <1>1, <1>2, <1>3, <1>4, <1>5, <1>6, <1>7, <1>8, <1>9, <1>10, <1>11, <1>12, <1>13, <1>14,
     <1>15, <1>16, <1>17, <1>18, <1>19, NextCases

\* Where the counts are right they are in their range.
LEMMA CountRange ==
    ASSUME CountIsSessions'
    PROVE  \A g \in Runtimes : count'[g] \in 0 .. Cardinality(Clients)
<1> SUFFICES ASSUME NEW g \in Runtimes PROVE count'[g] \in 0 .. Cardinality(Clients)
  OBVIOUS
<1>1. {c \in Clients : session'[c] /\ rt'[c] = g} \in SUBSET Clients
  OBVIOUS
<1> QED BY <1>1, ClientSets DEF CountIsSessions

\* A step preserves the types.
LEMMA TypeInductive ==
    ASSUME TypeOK, ClientInv, ClientInv', CountIsSessions', [Next]_vars
    PROVE  TypeOK'
<1> USE ConstantFacts, IdFacts, CountRange DEF TypeOK
<1>1. CASE UNCHANGED vars
  BY <1>1 DEF vars
<1>2. ASSUME NEW c \in Clients, Lookup(c) PROVE TypeOK'
  <2>1. rt' \in [Clients -> 0 .. MaxRuntimes] /\ registry' \in 0 .. MaxRuntimes
    BY <1>2 DEF Lookup, Reusable
  <2>2. cell' \in [Runtimes -> {"none", "empty", "init", "ready"}]
    BY <1>2 DEF Lookup
  <2>3. failed' \in [Runtimes -> BOOLEAN]
    BY <1>2 DEF Lookup
  <2>4. reader' \in [Runtimes -> {"none", "run", "done"}]
    BY <1>2 DEF Lookup
  <2>5. UNCHANGED <<count, pending, grace, doomed, alive, killed, sent, out,
                    calls, method, outer, got, session, carried, last>>
        /\ pc' = [pc EXCEPT ![c] = "init"]
    BY <1>2 DEF Lookup
  <2>6. \A d \in Clients : session'[d] => rt'[d] # 0
    BY DEF ClientInv, ClientOk, Outside
  <2> QED BY <2>1, <2>2, <2>3, <2>4, <2>5, <2>6
<1>3. ASSUME NEW c \in Clients, BeginInit(c) PROVE TypeOK'
  BY <1>3 DEF BeginInit
<1>4. ASSUME NEW c \in Clients, SpawnReady(c) PROVE TypeOK'
  BY <1>4 DEF SpawnReady
<1>5. ASSUME NEW c \in Clients, SpawnFails(c) PROVE TypeOK'
  <2>1. \A d \in Clients : session'[d] => rt'[d] # 0
    BY DEF ClientInv, ClientOk, Outside
  <2> QED BY <1>5, <2>1 DEF SpawnFails
<1>6. ASSUME NEW c \in Clients, OpenSession(c) PROVE TypeOK'
  BY <1>6 DEF OpenSession, BeginCall, runtimeVars
<1>7. ASSUME NEW c \in Clients, Passes(c) PROVE TypeOK'
  BY <1>7 DEF Passes, runtimeVars
<1>8. ASSUME NEW c \in Clients, CallWrite(c) PROVE TypeOK'
  <2>1. rt[c] \in Runtimes /\ calls[c] \in Nat /\ 1 <= calls[c] /\ calls[c] <= Budget[c]
    BY <1>8 DEF CallWrite, ClientInv, ClientOk, InCall
  <2>2. Id(c) \in Ids
    BY <2>1 DEF Id
  <2> QED BY <1>8, <2>1, <2>2 DEF CallWrite
<1>9. ASSUME NEW c \in Clients, NEW r \in Results, Ends(c, r) PROVE TypeOK'
  <2>1. Finish(c, r) /\ rt[c] \in Runtimes
    BY <1>9 DEF Ends, ClientInv, ClientOk, InCall
  <2>2. UNCHANGED <<registry, cell, reader, doomed, alive, sent, out, calls>>
    BY <2>1, FinishControl
  <2>3. carried' \subseteq Clients /\ method' = [method EXCEPT ![c] = "none"]
        /\ outer' = [outer EXCEPT ![c] = 0]
    BY <2>1, FinishControl
  <2>4. last' \in [Clients -> {"none", "answered", "failed"}]
    <3>1. PICK v \in {"answered", "failed"} : last' = [last EXCEPT ![c] = v]
      BY <2>1, FinishControl
    <3> QED BY <3>1
  <2>5. pc' \in [Clients -> {"idle", "init", "spawn", "check", "write", "wait",
                           "ready", "drop", "done"}]
    BY <2>1, FinishControl, SMTT(30)
  <2>6. rt' \in [Clients -> 0 .. MaxRuntimes]
    BY <2>1, FinishControl, SMTT(30)
  <2>7. /\ session' \in [Clients -> BOOLEAN]
        /\ \A d \in Clients : session'[d] => rt'[d] # 0
    <3>1. session' = session \/ \E b \in BOOLEAN : session' = [session EXCEPT ![c] = b]
      BY <2>1, FinishSession
    <3>2. session' \in [Clients -> BOOLEAN]
      BY <3>1
    <3>3. \A d \in Clients : session'[d] => rt'[d] # 0
      BY DEF ClientInv, ClientOk, Outside
    <3> QED BY <3>2, <3>3
  <2>8. /\ count' \in [Runtimes -> 0 .. Cardinality(Clients)]
        /\ grace' \in [Runtimes -> Nat]
    <3>1. CASE method[c] = "open" /\ r = "ok"
      BY <2>1, <3>1, FinishSession
    <3>2. CASE method[c] = "close" /\ r = "ok"
      BY <2>1, <3>2, FinishSession DEF DecrementSessionCount
    <3>3. CASE ~(method[c] \in {"open", "close"} /\ r = "ok")
      BY <2>1, <3>3, FinishSession
    <3> QED BY <3>1, <3>2, <3>3
  <2>9. /\ pending' \in [Runtimes -> SUBSET Ids] /\ failed' \in [Runtimes -> BOOLEAN]
        /\ got' \in [Clients -> {"none", "ok", "err", "gone"}] /\ killed' \subseteq Runtimes
    <3>1. CASE method[c] = "validate" /\ r # "ok"
      BY <2>1, <3>1, FinishEntries, KillFacts, FailFacts
    <3>2. CASE method[c] = "cancel"
      <4>1. UNCHANGED <<failed, killed>> /\ Taken(c)
        BY <2>1, <3>2, FinishEntries
      <4>2. pending' = [pending EXCEPT ![rt[c]] = @ \ {<<c, outer[c]>>}]
        BY <2>1, <3>2, FinishEntries
      <4> QED BY <2>1, <4>1, <4>2 DEF Taken
    <3>3. CASE ~(method[c] = "validate" /\ r # "ok") /\ method[c] # "cancel"
      BY <2>1, <3>3, FinishEntries, SMTT(30) DEF Taken
    <3> QED BY <3>1, <3>2, <3>3
  <2> QED BY <2>2, <2>3, <2>4, <2>5, <2>6, <2>7, <2>8, <2>9
<1>10. ASSUME NEW c \in Clients, Cancel(c) PROVE TypeOK'
  BY <1>10 DEF Cancel, BeginCall, runtimeVars
<1>11. ASSUME NEW c \in Clients, NEW m \in {"query", "validate", "close"}, Call(c, m) PROVE TypeOK'
  BY <1>11 DEF Call, BeginCall, runtimeVars
<1>12. ASSUME NEW c \in Clients, Drop(c) PROVE TypeOK'
  <2>1. \A d \in Clients : session'[d] => rt'[d] # 0
    BY DEF ClientInv, ClientOk, Outside
  <2>2. /\ count' \in [Runtimes -> 0 .. Cardinality(Clients)]
        /\ grace' \in [Runtimes -> Nat]
    <3>1. CASE session[c]
      <4>1. DecrementSessionCount(rt[c]) /\ rt[c] \in Runtimes
        BY <1>12, <3>1 DEF Drop, HasSession
      <4> QED BY <4>1 DEF DecrementSessionCount
    <3>2. CASE ~session[c]
      BY <1>12, <3>2 DEF Drop, HasSession
    <3> QED BY <3>1, <3>2
  <2> QED BY <1>12, <2>1, <2>2 DEF Drop, TakeSession
<1>13. ASSUME NEW g \in Runtimes, ReaderDeliver(g) PROVE TypeOK'
  BY <1>13 DEF ReaderDeliver, RemoveEntry, CallerOf
<1>14. ASSUME NEW g \in Runtimes, ReaderEnd(g) PROVE TypeOK'
  BY <1>14 DEF ReaderEnd, StreamEnded, FailPending
<1>15. ASSUME NEW g \in Runtimes, GraceCheck(g) PROVE TypeOK'
  BY <1>15 DEF GraceCheck, clientVars
<1>16. ASSUME NEW g \in Runtimes, GraceKill(g) PROVE TypeOK'
  BY <1>16 DEF GraceKill, Kill, FailPending
<1>17. ASSUME NEW g \in Runtimes, AgentAnswers(g) PROVE TypeOK'
  BY <1>17 DEF AgentAnswers, clientVars
<1>18. ASSUME NEW g \in Runtimes, AgentEnds(g) PROVE TypeOK'
  BY <1>18 DEF AgentEnds, Held, clientVars
<1>19. CASE StopDaemons
  <2>1. registry \in Runtimes /\ registry' \in 0 .. MaxRuntimes
    BY <1>19 DEF StopDaemons
  <2>2. CASE cell[registry] = "ready"
    <3>1. Kill(registry)
      BY <1>19, <2>2 DEF StopDaemons
    <3> QED BY <1>19, <2>1, <3>1, KillFacts, FailFacts DEF StopDaemons
  <2>3. CASE cell[registry] # "ready"
    BY <1>19, <2>1, <2>3 DEF StopDaemons
  <2> QED BY <2>2, <2>3
<1> QED
  BY <1>1, <1>2, <1>3, <1>4, <1>5, <1>6, <1>7, <1>8, <1>9, <1>10, <1>11, <1>12, <1>13, <1>14,
     <1>15, <1>16, <1>17, <1>18, <1>19, NextCases

\* A step keeps the cells of the runtimes in use.
LEMMA CellInductive ==
    ASSUME TypeOK, ClientInv, CellInv, [Next]_vars
    PROVE  CellInv'
<1> USE ConstantFacts DEF TypeOK, CellInv, Outside
<1>1. CASE UNCHANGED vars
  BY <1>1 DEF vars
<1>2. ASSUME NEW c \in Clients, Lookup(c) PROVE CellInv'
  <2>1. pc' = [pc EXCEPT ![c] = "init"]
    BY <1>2 DEF Lookup
  <2>2. CASE Reusable
    <3>1. registry \in Runtimes /\ rt' = [rt EXCEPT ![c] = registry] /\ UNCHANGED <<registry, cell>>
      BY <1>2, <2>2 DEF Lookup, Reusable
    <3> QED BY <2>1, <3>1
  <2>3. CASE ~Reusable
    <3>1. PICK g \in Runtimes :
              /\ Unused(g) /\ registry' = g /\ cell' = [cell EXCEPT ![g] = "empty"]
              /\ rt' = [rt EXCEPT ![c] = g]
      BY <1>2, <2>3 DEF Lookup
    <3>2. \A d \in Clients : rt[d] # g
      BY <3>1 DEF Unused
    <3> QED BY <2>1, <3>1, <3>2
  <2> QED BY <2>2, <2>3
<1>3. ASSUME NEW c \in Clients, BeginInit(c) PROVE CellInv'
  <2>1. rt[c] \in Runtimes /\ cell[rt[c]] = "empty"
    BY <1>3 DEF BeginInit, ClientInv, ClientOk
  <2>2. /\ cell' = [cell EXCEPT ![rt[c]] = "init"] /\ pc' = [pc EXCEPT ![c] = "spawn"]
        /\ UNCHANGED <<registry, rt>>
    BY <1>3 DEF BeginInit
  <2>3. \A d \in Clients : rt[d] = rt[c] => pc[d] \in Outside /\ pc[d] # "spawn"
    BY <2>1
  <2> QED BY <2>1, <2>2, <2>3
<1>4. ASSUME NEW c \in Clients, SpawnReady(c) PROVE CellInv'
  BY <1>4 DEF SpawnReady
<1>5. ASSUME NEW c \in Clients, SpawnFails(c) PROVE CellInv'
  BY <1>5 DEF SpawnFails
<1>6. ASSUME NEW c \in Clients, OpenSession(c) PROVE CellInv'
  BY <1>6 DEF OpenSession, BeginCall, runtimeVars
<1>7. ASSUME NEW c \in Clients, Passes(c) PROVE CellInv'
  BY <1>7 DEF Passes, runtimeVars
<1>8. ASSUME NEW c \in Clients, CallWrite(c) PROVE CellInv'
  BY <1>8 DEF CallWrite
<1>9. ASSUME NEW c \in Clients, NEW r \in Results, Ends(c, r) PROVE CellInv'
  <2>1. Finish(c, r) /\ pc[c] \in InCall
    BY <1>9 DEF Ends
  <2>2. UNCHANGED <<cell, registry>> /\ \A d \in Clients : rt'[d] = rt[d] \/ rt'[d] = 0
    BY <2>1, FinishControl
  <2>3. \E l \in {"done", "drop", "ready"} : pc' = [pc EXCEPT ![c] = l] /\ (l # "done" => rt' = rt)
    BY <2>1, FinishControl
  <2>4. \A d \in Clients : d # c => rt'[d] = rt[d] /\ pc'[d] = pc[d]
    <3>1. rt' = rt \/ rt' = [rt EXCEPT ![c] = 0]
      BY <2>1, FinishControl
    <3> QED BY <2>3, <3>1
  <2> QED BY <2>1, <2>2, <2>3, <2>4 DEF InCall
<1>10. ASSUME NEW c \in Clients, Cancel(c) PROVE CellInv'
  BY <1>10 DEF Cancel, BeginCall, runtimeVars
<1>11. ASSUME NEW c \in Clients, NEW m \in {"query", "validate", "close"}, Call(c, m) PROVE CellInv'
  BY <1>11 DEF Call, BeginCall, runtimeVars
<1>12. ASSUME NEW c \in Clients, Drop(c) PROVE CellInv'
  BY <1>12 DEF Drop, HasSession, DecrementSessionCount, TakeSession, Decremented
<1>13. ASSUME NEW g \in Runtimes, ReaderDeliver(g) PROVE CellInv'
  <2>1. UNCHANGED <<pc, rt, cell>> /\ registry' \in {0, registry}
    BY <1>13 DEF ReaderDeliver
  <2> QED BY <2>1
<1>14. ASSUME NEW g \in Runtimes, ReaderEnd(g) PROVE CellInv'
  <2>1. UNCHANGED <<pc, rt, cell>> /\ registry' \in {0, registry}
    BY <1>14 DEF ReaderEnd
  <2> QED BY <2>1
<1>15. ASSUME NEW g \in Runtimes, GraceCheck(g) PROVE CellInv'
  <2>1. UNCHANGED <<pc, rt, cell>> /\ registry' \in {0, registry}
    BY <1>15 DEF GraceCheck, clientVars
  <2> QED BY <2>1
<1>16. ASSUME NEW g \in Runtimes, GraceKill(g) PROVE CellInv'
  <2>1. UNCHANGED <<pc, rt, cell>> /\ registry' \in {0, registry}
    BY <1>16 DEF GraceKill
  <2> QED BY <2>1
<1>17. ASSUME NEW g \in Runtimes, AgentAnswers(g) PROVE CellInv'
  <2>1. UNCHANGED <<pc, rt, cell>> /\ registry' \in {0, registry}
    BY <1>17 DEF AgentAnswers, clientVars
  <2> QED BY <2>1
<1>18. ASSUME NEW g \in Runtimes, AgentEnds(g) PROVE CellInv'
  <2>1. UNCHANGED <<pc, rt, cell>> /\ registry' \in {0, registry}
    BY <1>18 DEF AgentEnds, clientVars
  <2> QED BY <2>1
<1>19. CASE StopDaemons
  <2>1. UNCHANGED <<pc, rt, cell>> /\ registry' \in {0, registry}
    BY <1>19 DEF StopDaemons
  <2> QED BY <2>1
<1> QED
  BY SMTT(30), <1>1, <1>2, <1>3, <1>4, <1>5, <1>6, <1>7, <1>8, <1>9, <1>10, <1>11, <1>12, <1>13, <1>14,
     <1>15, <1>16, <1>17, <1>18, <1>19, NextCases

(***************************************************************************)
(* Requests and answers in flight.  Most steps bring none into being and    *)
(* let no client start to wait.                                             *)
(***************************************************************************)
Shrinks == \A g \in Runtimes : /\ pending'[g] \subseteq pending[g]
                               /\ sent'[g] \subseteq sent[g] /\ out'[g] \subseteq out[g]
NoNewWait ==
    \A c \in Clients :
        /\ \/ /\ calls'[c] = calls[c]
              /\ pc'[c] \in {"check", "write"} => pc[c] \in {"check", "write"}
           \/ calls'[c] = calls[c] + 1 /\ pc'[c] # "wait"
        /\ pc'[c] = "wait" => pc[c] = "wait"
        /\ pc'[c] = "wait" /\ got'[c] \in {"ok", "err"} => got[c] = got'[c]
        /\ pc'[c] = "wait" /\ c \in carried => c \in carried'

\* They keep the numbers in flight and what has been carried out.
LEMMA FlightKept ==
    ASSUME TypeOK, NumberInv, CarriedInv, Shrinks, NoNewWait
    PROVE  NumberInv' /\ CarriedInv'
<1>1. NumberInv'
  <2> SUFFICES ASSUME NEW g \in Runtimes, NEW c \in Clients, NEW n \in Nat, InFlight(<<c, n>>, g)'
               PROVE  n <= calls'[c] /\ (n = calls'[c] => pc'[c] \notin {"check", "write"})
    BY DEF NumberInv
  <2>1. InFlight(<<c, n>>, g)
    BY DEF InFlight, Shrinks
  <2>2. n <= calls[c] /\ (n = calls[c] => pc[c] \notin {"check", "write"}) /\ calls[c] \in Nat
    BY <2>1 DEF NumberInv, TypeOK
  <2> QED BY <2>2 DEF NoNewWait
<1>2. CarriedInv'
  <2>1. ASSUME NEW g \in Runtimes, NEW a \in out'[g], NEW c \in Clients, pc'[c] = "wait",
               a.id = Id(c)'
        PROVE  c \in carried'
    <3>1. a \in out[g] /\ pc[c] = "wait" /\ calls'[c] = calls[c]
      BY <2>1 DEF Shrinks, NoNewWait
    <3>2. a.id = Id(c)
      BY <2>1, <3>1 DEF Id
    <3> QED BY <2>1, <3>1, <3>2 DEF CarriedInv, NoNewWait
  <2>2. ASSUME NEW c \in Clients, pc'[c] = "wait", got'[c] \in {"ok", "err"}
        PROVE  c \in carried'
    BY <2>2 DEF CarriedInv, NoNewWait
  <2> QED BY <2>1, <2>2 DEF CarriedInv
<1> QED BY <1>1, <1>2

\* Failing entries and finishing calls only take entries away.
LEMMA FailShrinks ==
    ASSUME TypeOK, NEW g \in Runtimes, FailPending(g)
    PROVE  \A h \in Runtimes : pending'[h] \subseteq pending[h]
BY DEF TypeOK, FailPending

\* So does a call that returns.
LEMMA FinishShrinks ==
    ASSUME TypeOK, NEW c \in Clients, NEW r \in Results, Finish(c, r), rt[c] \in Runtimes
    PROVE  \A h \in Runtimes : pending'[h] \subseteq pending[h]
<1>1. CASE method[c] = "validate" /\ r # "ok"
  BY <1>1, FinishEntries, KillFacts, FailShrinks
<1>2. CASE method[c] = "cancel"
  <2>1. pending' = [pending EXCEPT ![rt[c]] = @ \ {<<c, outer[c]>>}]
    BY <1>2, FinishEntries
  <2> QED BY <2>1 DEF TypeOK
<1>3. CASE ~(method[c] = "validate" /\ r # "ok") /\ method[c] # "cancel"
  BY <1>3, FinishEntries
<1> QED BY <1>1, <1>2, <1>3

\* A step keeps the numbers in flight and what has been carried out.
LEMMA FlightInductive ==
    ASSUME TypeOK, ClientInv, NumberInv, CarriedInv, [Next]_vars
    PROVE  (NumberInv /\ CarriedInv)'
<1>1. CASE UNCHANGED vars
  BY <1>1 DEF vars, NumberInv, CarriedInv, InFlight, Id
<1>2. ASSUME NEW c \in Clients, Lookup(c) PROVE (NumberInv /\ CarriedInv)'
  <2>1. Shrinks
    BY <1>2 DEF Shrinks, Lookup
  <2>2. NoNewWait
    BY <1>2 DEF NoNewWait, Lookup, TypeOK
  <2> QED BY <2>1, <2>2, FlightKept
<1>3. ASSUME NEW c \in Clients, BeginInit(c) PROVE (NumberInv /\ CarriedInv)'
  <2>1. Shrinks
    BY <1>3 DEF Shrinks, BeginInit
  <2>2. NoNewWait
    BY <1>3 DEF NoNewWait, BeginInit, TypeOK
  <2> QED BY <2>1, <2>2, FlightKept
<1>4. ASSUME NEW c \in Clients, SpawnReady(c) PROVE (NumberInv /\ CarriedInv)'
  <2>1. Shrinks
    BY <1>4 DEF Shrinks, SpawnReady
  <2>2. NoNewWait
    BY <1>4 DEF NoNewWait, SpawnReady, TypeOK
  <2> QED BY <2>1, <2>2, FlightKept
<1>5. ASSUME NEW c \in Clients, SpawnFails(c) PROVE (NumberInv /\ CarriedInv)'
  <2>1. Shrinks
    BY <1>5 DEF Shrinks, SpawnFails
  <2>2. NoNewWait
    BY <1>5 DEF NoNewWait, SpawnFails, TypeOK
  <2> QED BY <2>1, <2>2, FlightKept
<1>6. ASSUME NEW c \in Clients, OpenSession(c) PROVE (NumberInv /\ CarriedInv)'
  <2>1. Shrinks
    BY <1>6 DEF Shrinks, OpenSession, runtimeVars, BeginCall
  <2>2. NoNewWait
    BY <1>6 DEF NoNewWait, OpenSession, runtimeVars, BeginCall, TypeOK
  <2> QED BY <2>1, <2>2, FlightKept
<1>7. ASSUME NEW c \in Clients, Passes(c) PROVE (NumberInv /\ CarriedInv)'
  <2>1. Shrinks
    BY <1>7 DEF Shrinks, Passes, runtimeVars
  <2>2. NoNewWait
    BY <1>7 DEF NoNewWait, Passes, runtimeVars, TypeOK
  <2> QED BY <2>1, <2>2, FlightKept
<1>8. ASSUME NEW c \in Clients, CallWrite(c) PROVE (NumberInv /\ CarriedInv)'
  <2>1. /\ pc[c] = "write" /\ rt[c] \in Runtimes /\ pc' = [pc EXCEPT ![c] = "wait"]
        /\ pending' = [pending EXCEPT ![rt[c]] = @ \cup {Id(c)}]
        /\ sent' = [sent EXCEPT ![rt[c]] = @ \cup {Id(c)}]
        /\ UNCHANGED <<out, calls, got, carried>>
    BY <1>8, ConstantFacts DEF CallWrite, ClientInv, ClientOk, TypeOK
  <2>2. NumberInv'
    <3> SUFFICES ASSUME NEW g \in Runtimes, NEW d \in Clients, NEW n \in Nat, InFlight(<<d, n>>, g)'
                 PROVE  n <= calls[d] /\ (n = calls[d] => pc'[d] \notin {"check", "write"})
      BY <2>1 DEF NumberInv
    <3>1. CASE InFlight(<<d, n>>, g)
      BY <2>1, <3>1 DEF NumberInv, TypeOK
    <3>2. CASE ~InFlight(<<d, n>>, g)
      <4>1. <<d, n>> = Id(c)
        BY <2>1, <3>2 DEF InFlight, TypeOK
      <4>2. d = c /\ n = calls[c] /\ calls[c] \in Nat
        BY <4>1 DEF Id, TypeOK
      <4> QED BY <2>1, <4>2 DEF TypeOK
    <3> QED BY <3>1, <3>2
  <2>3. CarriedInv'
    <3>1. ASSUME NEW g \in Runtimes, NEW a \in out[g], a.id = Id(c)
          PROVE  FALSE
      <4>1. InFlight(<<c, calls[c]>>, g) /\ calls[c] \in Nat
        BY <3>1 DEF InFlight, Id, TypeOK
      <4> QED BY <2>1, <4>1 DEF NumberInv
    <3>2. got[c] = "none"
      BY <2>1 DEF ClientInv, ClientOk
    <3>3. \A d \in Clients : Id(d)' = Id(d)
      BY <2>1 DEF Id
    <3>4. \A d \in Clients : d # c => pc'[d] = pc[d]
      BY <2>1 DEF TypeOK
    <3>5. ASSUME NEW g \in Runtimes, NEW a \in out'[g], NEW d \in Clients, pc'[d] = "wait",
                 a.id = Id(d)'
          PROVE  d \in carried'
      BY <2>1, <3>1, <3>3, <3>4, <3>5 DEF CarriedInv
    <3>6. ASSUME NEW d \in Clients, pc'[d] = "wait", got'[d] \in {"ok", "err"}
          PROVE  d \in carried'
      BY <2>1, <3>2, <3>4, <3>6 DEF CarriedInv
    <3> QED BY <3>5, <3>6 DEF CarriedInv
  <2> QED BY <2>2, <2>3
<1>9. ASSUME NEW c \in Clients, NEW r \in Results, Ends(c, r) PROVE (NumberInv /\ CarriedInv)'
  <2>1. Finish(c, r) /\ rt[c] \in Runtimes
    BY <1>9, ConstantFacts DEF Ends, ClientInv, ClientOk, InCall, TypeOK
  <2>2. Shrinks
    BY <2>1, FinishControl, FinishShrinks DEF Shrinks
  <2>3. PICK l \in {"done", "drop", "ready"} : pc' = [pc EXCEPT ![c] = l]
    BY <2>1, FinishControl
  <2>4. calls' = calls /\ carried' = carried \ {c}
    BY <2>1, FinishControl
  <2>5. \A d \in Clients \ {c} : got'[d] = got[d] \/ got'[d] = "gone"
    <3>1. CASE method[c] = "validate" /\ r # "ok"
      BY <2>1, <3>1, FinishEntries DEF Kill, FailPending
    <3>2. CASE ~(method[c] = "validate" /\ r # "ok")
      BY <2>1, <3>2, FinishEntries DEF Taken, TypeOK
    <3> QED BY <3>1, <3>2
  <2>6. NoNewWait
    BY <2>3, <2>4, <2>5 DEF NoNewWait, TypeOK
  <2> QED BY <2>2, <2>6, FlightKept
<1>10. ASSUME NEW c \in Clients, Cancel(c) PROVE (NumberInv /\ CarriedInv)'
  <2>1. Shrinks
    BY <1>10 DEF Shrinks, Cancel, runtimeVars, BeginCall
  <2>2. NoNewWait
    BY <1>10 DEF NoNewWait, Cancel, runtimeVars, BeginCall, TypeOK
  <2> QED BY <2>1, <2>2, FlightKept
<1>11. ASSUME NEW c \in Clients, NEW m \in {"query", "validate", "close"}, Call(c, m) PROVE (NumberInv /\ CarriedInv)'
  <2>1. Shrinks
    BY <1>11 DEF Shrinks, Call, runtimeVars, BeginCall
  <2>2. NoNewWait
    BY <1>11 DEF NoNewWait, Call, runtimeVars, BeginCall, TypeOK
  <2> QED BY <2>1, <2>2, FlightKept
<1>12. ASSUME NEW c \in Clients, Drop(c) PROVE (NumberInv /\ CarriedInv)'
  <2>1. Shrinks
    BY <1>12 DEF Shrinks, Drop
  <2>2. NoNewWait
    BY <1>12 DEF NoNewWait, Drop, TypeOK
  <2> QED BY <2>1, <2>2, FlightKept
<1>13. ASSUME NEW g \in Runtimes, ReaderDeliver(g) PROVE (NumberInv /\ CarriedInv)'
  <2>1. PICK a \in out[g] :
            /\ out' = [out EXCEPT ![g] = @ \ {a}] /\ pending' = [pending EXCEPT ![g] = @ \ {a.id}]
            /\ got' = [c \in Clients |-> IF c \in CallerOf(a) /\ a.id \in pending[g]
                                         THEN a.reply ELSE got[c]]
    BY <1>13 DEF ReaderDeliver, RemoveEntry
  <2>2. UNCHANGED <<sent, pc, calls, carried>>
    BY <1>13 DEF ReaderDeliver
  <2>3. Shrinks
    BY <2>1, <2>2 DEF Shrinks, TypeOK
  <2>4. NumberInv'
    <3> SUFFICES ASSUME NEW h \in Runtimes, NEW c \in Clients, NEW n \in Nat, InFlight(<<c, n>>, h)'
                 PROVE  n <= calls'[c] /\ (n = calls'[c] => pc'[c] \notin {"check", "write"})
      BY DEF NumberInv
    <3>1. InFlight(<<c, n>>, h)
      BY <2>3 DEF InFlight, Shrinks
    <3> QED BY <2>2, <3>1 DEF NumberInv
  <2>5. CarriedInv'
    <3>1. ASSUME NEW c \in Clients, pc[c] = "wait", got'[c] \in {"ok", "err"}
          PROVE  c \in carried
      <4>1. CASE c \in CallerOf(a)
        BY <3>1, <4>1 DEF CallerOf, CarriedInv
      <4>2. CASE c \notin CallerOf(a)
        BY <2>1, <3>1, <4>2 DEF CarriedInv
      <4> QED BY <4>1, <4>2
    <3>2. \A c \in Clients : Id(c)' = Id(c)
      BY <2>2 DEF Id
    <3>3. ASSUME NEW h \in Runtimes, NEW b \in out'[h], NEW c \in Clients, pc[c] = "wait",
                 b.id = Id(c)'
          PROVE  c \in carried
      BY <2>3, <3>2, <3>3 DEF CarriedInv, Shrinks
    <3> QED BY <2>2, <3>1, <3>3 DEF CarriedInv
  <2> QED BY <2>4, <2>5
<1>14. ASSUME NEW g \in Runtimes, ReaderEnd(g) PROVE (NumberInv /\ CarriedInv)'
  <2>1. Shrinks
    BY <1>14, FailShrinks DEF Shrinks, ReaderEnd
  <2>2. NoNewWait
    <3>1. \A d \in Clients : got'[d] = got[d] \/ got'[d] = "gone"
      BY <1>14 DEF ReaderEnd, FailPending
    <3> QED BY <1>14, <3>1 DEF NoNewWait, ReaderEnd
  <2> QED BY <2>1, <2>2, FlightKept
<1>15. ASSUME NEW g \in Runtimes, GraceCheck(g) PROVE (NumberInv /\ CarriedInv)'
  <2>1. Shrinks
    BY <1>15 DEF Shrinks, GraceCheck, clientVars
  <2>2. NoNewWait
    BY <1>15 DEF NoNewWait, GraceCheck, clientVars, TypeOK
  <2> QED BY <2>1, <2>2, FlightKept
<1>16. ASSUME NEW g \in Runtimes, GraceKill(g) PROVE (NumberInv /\ CarriedInv)'
  <2>1. Shrinks
    BY <1>16, KillFacts, FailShrinks DEF Shrinks, GraceKill
  <2>2. NoNewWait
    <3>1. \A d \in Clients : got'[d] = got[d] \/ got'[d] = "gone"
      BY <1>16 DEF GraceKill, Kill, FailPending
    <3> QED BY <1>16, <3>1 DEF NoNewWait, GraceKill
  <2> QED BY <2>1, <2>2, FlightKept
<1>17. ASSUME NEW g \in Runtimes, AgentAnswers(g) PROVE (NumberInv /\ CarriedInv)'
  <2>1. PICK r \in sent[g], reply \in {"ok", "err"} :
            /\ sent' = [sent EXCEPT ![g] = @ \ {r}]
            /\ out' = [out EXCEPT ![g] = @ \cup {[id |-> r, reply |-> reply]}]
            /\ carried' = carried \cup {c \in Clients : Waiting(c) /\ Id(c) = r}
    BY <1>17 DEF AgentAnswers
  <2>2. UNCHANGED <<pending, pc, calls, got>>
    BY <1>17 DEF AgentAnswers, clientVars
  <2>3. NumberInv'
    <3> SUFFICES ASSUME NEW h \in Runtimes, NEW c \in Clients, NEW n \in Nat, InFlight(<<c, n>>, h)'
                 PROVE  n <= calls'[c] /\ (n = calls'[c] => pc'[c] \notin {"check", "write"})
      BY DEF NumberInv
    <3>1. \A b \in out'[h] : b \in out[h] \/ (h = g /\ b.id = r)
      BY <2>1 DEF TypeOK
    <3>2. sent'[h] \subseteq sent[h]
      BY <2>1 DEF TypeOK
    <3>3. InFlight(<<c, n>>, h)
      BY <2>2, <3>1, <3>2 DEF InFlight
    <3> QED BY <2>2, <3>3 DEF NumberInv
  <2>4. CarriedInv'
    <3>1. \A c \in Clients : Id(c)' = Id(c)
      BY <2>2 DEF Id
    <3>2. ASSUME NEW h \in Runtimes, NEW b \in out'[h], NEW c \in Clients, pc[c] = "wait",
                 b.id = Id(c)'
          PROVE  c \in carried'
      <4>1. CASE b \in out[h]
        BY <2>1, <3>1, <3>2, <4>1 DEF CarriedInv
      <4>2. CASE b \notin out[h]
        <5>1. b.id = r
          BY <2>1, <4>2 DEF TypeOK
        <5> QED BY <2>1, <3>1, <3>2, <5>1 DEF Waiting
      <4> QED BY <4>1, <4>2
    <3>3. ASSUME NEW c \in Clients, pc[c] = "wait", got[c] \in {"ok", "err"}
          PROVE  c \in carried'
      BY <2>1, <3>3 DEF CarriedInv
    <3> QED BY <2>2, <3>2, <3>3 DEF CarriedInv
  <2> QED BY <2>3, <2>4
<1>18. ASSUME NEW g \in Runtimes, AgentEnds(g) PROVE (NumberInv /\ CarriedInv)'
  <2>1. Shrinks
    BY <1>18 DEF Shrinks, AgentEnds, TypeOK
  <2>2. NoNewWait
    BY <1>18 DEF NoNewWait, AgentEnds, clientVars, TypeOK
  <2> QED BY <2>1, <2>2, FlightKept
<1>19. CASE StopDaemons
  <2>1. registry \in Runtimes
    BY <1>19, ConstantFacts DEF StopDaemons, TypeOK
  <2>2. CASE cell[registry] = "ready"
    <3>1. Kill(registry) /\ UNCHANGED <<sent, out, pc, calls, carried>>
      BY <1>19, <2>2 DEF StopDaemons
    <3>2. Shrinks
      BY <2>1, <3>1, KillFacts, FailShrinks DEF Shrinks
    <3>3. \A d \in Clients : got'[d] = got[d] \/ got'[d] = "gone"
      BY <3>1 DEF Kill, FailPending
    <3>4. NoNewWait
      BY <3>1, <3>3 DEF NoNewWait
    <3> QED BY <3>2, <3>4, FlightKept
  <2>3. CASE cell[registry] # "ready"
    <3>1. Shrinks /\ NoNewWait
      BY <1>19, <2>3 DEF StopDaemons, Shrinks, NoNewWait
    <3> QED BY <3>1, FlightKept
  <2> QED BY <2>2, <2>3
<1> QED
  BY <1>1, <1>2, <1>3, <1>4, <1>5, <1>6, <1>7, <1>8, <1>9, <1>10, <1>11, <1>12, <1>13, <1>14,
     <1>15, <1>16, <1>17, <1>18, <1>19, NextCases

(***************************************************************************)
(* The invariants that hold whatever fails.                                 *)
(***************************************************************************)
\* They hold of a program that has started nothing yet.
LEMMA InitBase == Init => BaseInv
<1> SUFFICES ASSUME Init PROVE BaseInv
  OBVIOUS
<1>1. TypeOK
  <2>1. Cardinality(Clients) \in Nat
    BY ConstantFacts, FS_CardinalityType
  <2> QED BY <2>1, ConstantFacts DEF Init, TypeOK
<1>2. ClientInv
  BY ConstantFacts DEF Init, ClientInv, ClientOk, InCall, Outside
<1>3. CountIsSessions
  <2>1. \A g \in Runtimes : SessionsOf(g) = {}
    BY DEF Init, SessionsOf
  <2>2. Cardinality({}) = 0
    BY FS_EmptySet
  <2> QED BY <2>1, <2>2 DEF Init, CountIsSessions, SessionsOf
<1>4. CellInv
  BY DEF Init, CellInv, Outside
<1>5. NumberInv
  BY DEF Init, NumberInv, InFlight
<1>6. CarriedInv
  BY DEF Init, CarriedInv
<1> QED BY <1>1, <1>2, <1>3, <1>4, <1>5, <1>6 DEF BaseInv

\* Every step keeps them.
LEMMA BaseInductive == BaseInv /\ [Next]_vars => BaseInv'
<1> SUFFICES ASSUME BaseInv, [Next]_vars PROVE BaseInv'
  OBVIOUS
<1> USE DEF BaseInv
<1>1. ClientInv'
  BY ClientInductive
<1>2. CountIsSessions'
  BY CountInductive
<1>3. TypeOK'
  BY <1>1, <1>2, TypeInductive
<1>4. CellInv'
  BY CellInductive
<1>5. NumberInv' /\ CarriedInv'
  BY FlightInductive
<1> QED BY <1>1, <1>2, <1>3, <1>4, <1>5

\* The inductive invariant of clients, counts, cells and requests in flight holds in
\* every reachable state, whichever faults may happen.
THEOREM BaseInvariance == Spec => []BaseInv
<1>1. Init => BaseInv
  BY InitBase
<1>2. BaseInv /\ [Next]_vars => BaseInv'
  BY BaseInductive
<1> QED BY <1>1, <1>2, PTL DEF Spec

\* Every variable keeps its type: the ids in pending, sent and out are ids that some
\* client made, and no count exceeds the number of clients.
THEOREM TypeCorrect == Spec => []TypeOK
<1>1. BaseInv => TypeOK
  BY DEF BaseInv
<1> QED BY <1>1, BaseInvariance, PTL

\* active_sessions is the number of clients with a session of the runtime, however
\* opens, closes, failed closes, drops and kills interleave.
THEOREM SessionsCounted == Spec => []CountIsSessions
<1>1. BaseInv => CountIsSessions
  BY DEF BaseInv
<1> QED BY <1>1, BaseInvariance, PTL

(***************************************************************************)
(* The refinement of RequestChannel.                                        *)
(***************************************************************************)
ReqOf(c) == IF ~Waiting(c) THEN "free" ELSE IF c \in carried THEN "carried" ELSE "asked"
Reqs == [c \in Clients |-> ReqOf(c)]

\* A step that changes the state of one request alone.
LEMMA OneRequest ==
    ASSUME NEW c \in Clients, NEW v, ReqOf(c)' = v,
           \A d \in Clients : d # c => ReqOf(d)' = ReqOf(d)
    PROVE  Reqs' = [Reqs EXCEPT ![c] = v]
BY DEF Reqs

\* A step that changes none, and answers nobody, is a stuttering step of the channel.
LEMMA ChannelQuiet ==
    ASSUME last' = last, \A d \in Clients : ReqOf(d)' = ReqOf(d)
    PROVE  UNCHANGED Channel!channelVars
<1>1. Reqs' = Reqs
  BY DEF Reqs
<1> QED BY <1>1 DEF Channel!channelVars, Reqs, ReqOf

\* A call that returns answers the request carried out, or fails it.
LEMMA EndsMaps ==
    ASSUME TypeOK, ClientInv, CarriedInv, NEW c \in Clients, NEW r \in Results, Ends(c, r)
    PROVE  Channel!ChannelNext
<1>1. Finish(c, r)
  BY DEF Ends
<1>2. PICK l \in {"done", "drop", "ready"} : pc' = [pc EXCEPT ![c] = l]
  BY <1>1, FinishControl
<1>3. carried' = carried \ {c}
  BY <1>1, FinishControl
<1>4. \A d \in Clients : d # c => ReqOf(d)' = ReqOf(d)
  BY <1>2, <1>3 DEF ReqOf, Waiting, TypeOK
<1>5. ReqOf(c)' = "free"
  BY <1>2 DEF ReqOf, Waiting, TypeOK
<1>6. Reqs' = [Reqs EXCEPT ![c] = "free"]
  BY <1>4, <1>5, OneRequest
<1>7. CASE r \in {"ok", "err"}
  <2>1. Reqs[c] = "carried"
    BY <1>7 DEF Ends, CarriedInv, Reqs, ReqOf, Waiting
  <2>2. last' = [last EXCEPT ![c] = "answered"]
    BY <1>1, <1>7, FinishControl
  <2>3. Channel!Answer(c)
    BY <1>6, <2>1, <2>2 DEF Channel!Answer, Reqs, ReqOf
  <2> QED BY <2>3 DEF Channel!ChannelNext
<1>8. CASE r \notin {"ok", "err"}
  <2>1. last' = [last EXCEPT ![c] = "failed"]
    BY <1>1, <1>8, FinishControl
  <2>2. Channel!Fail(c)
    BY <1>6, <2>1 DEF Channel!Fail, Reqs, ReqOf
  <2> QED BY <2>2 DEF Channel!ChannelNext
<1> QED BY <1>7, <1>8

\* A query that is cancelled fails, whether or not the agent has carried it out.
LEMMA CancelMaps ==
    ASSUME TypeOK, NEW c \in Clients, Cancel(c)
    PROVE  Channel!ChannelNext
<1>1. pc' = [pc EXCEPT ![c] = "check"] /\ carried' = carried \ {c}
  BY DEF Cancel, BeginCall
<1>2. \A d \in Clients : d # c => ReqOf(d)' = ReqOf(d)
  BY <1>1 DEF ReqOf, Waiting, TypeOK
<1>3. ReqOf(c)' = "free"
  BY <1>1 DEF ReqOf, Waiting, TypeOK
<1>4. Reqs' = [Reqs EXCEPT ![c] = "free"]
  BY <1>2, <1>3, OneRequest
<1>5. last' = [last EXCEPT ![c] = "failed"]
  BY DEF Cancel
<1>6. Channel!Fail(c)
  BY <1>4, <1>5 DEF Channel!Fail, Reqs, ReqOf
<1> QED BY <1>6 DEF Channel!ChannelNext

\* The line on stdin asks.
LEMMA WriteMaps ==
    ASSUME TypeOK, ClientInv, NEW c \in Clients, CallWrite(c)
    PROVE  Channel!ChannelNext
<1>1. pc[c] = "write" /\ pc' = [pc EXCEPT ![c] = "wait"] /\ carried' = carried /\ last' = last
  BY DEF CallWrite
<1>2. c \notin carried
  BY <1>1 DEF ClientInv, ClientOk
<1>3. \A d \in Clients : d # c => ReqOf(d)' = ReqOf(d)
  BY <1>1 DEF ReqOf, Waiting, TypeOK
<1>4. ReqOf(c)' = "asked"
  BY <1>1, <1>2 DEF ReqOf, Waiting, TypeOK
<1>5. Reqs' = [Reqs EXCEPT ![c] = "asked"] /\ Reqs[c] = "free"
  BY <1>1, <1>3, <1>4, OneRequest DEF Reqs, ReqOf, Waiting
<1>6. Channel!Ask(c)
  BY <1>1, <1>5 DEF Channel!Ask, Reqs, ReqOf
<1> QED BY <1>6 DEF Channel!ChannelNext

\* An answer of the agent carries out the request of at most one caller: of none when
\* the caller has given up, whose id is then a later one.
LEMMA AnswersMaps ==
    ASSUME TypeOK, NEW g \in Runtimes, AgentAnswers(g)
    PROVE  Channel!ChannelNext \/ UNCHANGED Channel!channelVars
<1>1. PICK r \in sent[g] : carried' = carried \cup {c \in Clients : Waiting(c) /\ Id(c) = r}
  BY DEF AgentAnswers
<1>2. pc' = pc /\ last' = last
  BY DEF AgentAnswers, clientVars
<1>3. CASE \E c \in Clients : Waiting(c) /\ Id(c) = r /\ c \notin carried
  <2>1. PICK c \in Clients : Waiting(c) /\ Id(c) = r /\ c \notin carried
    BY <1>3
  <2>2. carried' = carried \cup {c}
    BY <1>1, <2>1 DEF Id
  <2>3. \A d \in Clients : d # c => ReqOf(d)' = ReqOf(d)
    BY <1>2, <2>2 DEF ReqOf, Waiting
  <2>4. ReqOf(c)' = "carried" /\ Reqs[c] = "asked"
    BY <1>2, <2>1, <2>2 DEF ReqOf, Reqs, Waiting
  <2>5. Reqs' = [Reqs EXCEPT ![c] = "carried"]
    BY <2>3, <2>4, OneRequest
  <2>6. Channel!CarryOut(c)
    BY <1>2, <2>4, <2>5 DEF Channel!CarryOut, Reqs, ReqOf
  <2> QED BY <2>6 DEF Channel!ChannelNext
<1>4. CASE ~\E c \in Clients : Waiting(c) /\ Id(c) = r /\ c \notin carried
  <2>1. \A c \in Clients : c \in carried' <=> c \in carried
    BY <1>1, <1>4
  <2>2. \A d \in Clients : ReqOf(d)' = ReqOf(d)
    BY <1>2, <2>1 DEF ReqOf, Waiting
  <2> QED BY <1>2, <2>2, ChannelQuiet
<1> QED BY <1>3, <1>4

\* Every step of the runtime is one of the channel or changes nothing of it.
LEMMA StepMaps ==
    ASSUME TypeOK, ClientInv, CarriedInv, [Next]_vars
    PROVE  Channel!ChannelNext \/ UNCHANGED Channel!channelVars
<1>1. CASE UNCHANGED vars
  <2>1. \A d \in Clients : ReqOf(d)' = ReqOf(d)
    BY <1>1 DEF vars, ReqOf, Waiting
  <2> QED BY <1>1, <2>1, ChannelQuiet DEF vars
<1>2. ASSUME NEW c \in Clients, Lookup(c) PROVE Channel!ChannelNext \/ UNCHANGED Channel!channelVars
  <2>1. last' = last /\ carried' = carried /\ \A d \in Clients : pc'[d] = "wait" <=> pc[d] = "wait"
    BY <1>2 DEF Lookup, TypeOK
  <2>2. \A d \in Clients : ReqOf(d)' = ReqOf(d)
    BY <2>1 DEF ReqOf, Waiting
  <2> QED BY <2>1, <2>2, ChannelQuiet
<1>3. ASSUME NEW c \in Clients, BeginInit(c) PROVE Channel!ChannelNext \/ UNCHANGED Channel!channelVars
  <2>1. last' = last /\ carried' = carried /\ \A d \in Clients : pc'[d] = "wait" <=> pc[d] = "wait"
    BY <1>3 DEF BeginInit, TypeOK
  <2>2. \A d \in Clients : ReqOf(d)' = ReqOf(d)
    BY <2>1 DEF ReqOf, Waiting
  <2> QED BY <2>1, <2>2, ChannelQuiet
<1>4. ASSUME NEW c \in Clients, SpawnReady(c) PROVE Channel!ChannelNext \/ UNCHANGED Channel!channelVars
  <2>1. last' = last /\ carried' = carried /\ \A d \in Clients : pc'[d] = "wait" <=> pc[d] = "wait"
    BY <1>4 DEF SpawnReady, TypeOK
  <2>2. \A d \in Clients : ReqOf(d)' = ReqOf(d)
    BY <2>1 DEF ReqOf, Waiting
  <2> QED BY <2>1, <2>2, ChannelQuiet
<1>5. ASSUME NEW c \in Clients, SpawnFails(c) PROVE Channel!ChannelNext \/ UNCHANGED Channel!channelVars
  <2>1. last' = last /\ carried' = carried /\ \A d \in Clients : pc'[d] = "wait" <=> pc[d] = "wait"
    BY <1>5 DEF SpawnFails, TypeOK
  <2>2. \A d \in Clients : ReqOf(d)' = ReqOf(d)
    BY <2>1 DEF ReqOf, Waiting
  <2> QED BY <2>1, <2>2, ChannelQuiet
<1>6. ASSUME NEW c \in Clients, OpenSession(c) PROVE Channel!ChannelNext \/ UNCHANGED Channel!channelVars
  <2>1. last' = last /\ carried' = carried /\ \A d \in Clients : pc'[d] = "wait" <=> pc[d] = "wait"
    BY <1>6 DEF OpenSession, BeginCall, TypeOK
  <2>2. \A d \in Clients : ReqOf(d)' = ReqOf(d)
    BY <2>1 DEF ReqOf, Waiting
  <2> QED BY <2>1, <2>2, ChannelQuiet
<1>7. ASSUME NEW c \in Clients, Passes(c) PROVE Channel!ChannelNext \/ UNCHANGED Channel!channelVars
  <2>1. last' = last /\ carried' = carried /\ \A d \in Clients : pc'[d] = "wait" <=> pc[d] = "wait"
    BY <1>7 DEF Passes, TypeOK
  <2>2. \A d \in Clients : ReqOf(d)' = ReqOf(d)
    BY <2>1 DEF ReqOf, Waiting
  <2> QED BY <2>1, <2>2, ChannelQuiet
<1>8. ASSUME NEW c \in Clients, CallWrite(c) PROVE Channel!ChannelNext \/ UNCHANGED Channel!channelVars
  BY <1>8, WriteMaps
<1>9. ASSUME NEW c \in Clients, NEW r \in Results, Ends(c, r) PROVE Channel!ChannelNext \/ UNCHANGED Channel!channelVars
  BY <1>9, EndsMaps
<1>10. ASSUME NEW c \in Clients, Cancel(c) PROVE Channel!ChannelNext \/ UNCHANGED Channel!channelVars
  BY <1>10, CancelMaps
<1>11. ASSUME NEW c \in Clients, NEW m \in {"query", "validate", "close"}, Call(c, m) PROVE Channel!ChannelNext \/ UNCHANGED Channel!channelVars
  <2>1. last' = last /\ carried' = carried /\ \A d \in Clients : pc'[d] = "wait" <=> pc[d] = "wait"
    BY <1>11 DEF Call, BeginCall, TypeOK
  <2>2. \A d \in Clients : ReqOf(d)' = ReqOf(d)
    BY <2>1 DEF ReqOf, Waiting
  <2> QED BY <2>1, <2>2, ChannelQuiet
<1>12. ASSUME NEW c \in Clients, Drop(c) PROVE Channel!ChannelNext \/ UNCHANGED Channel!channelVars
  <2>1. last' = last /\ carried' = carried /\ \A d \in Clients : pc'[d] = "wait" <=> pc[d] = "wait"
    BY <1>12 DEF Drop, TypeOK
  <2>2. \A d \in Clients : ReqOf(d)' = ReqOf(d)
    BY <2>1 DEF ReqOf, Waiting
  <2> QED BY <2>1, <2>2, ChannelQuiet
<1>13. ASSUME NEW g \in Runtimes, ReaderDeliver(g) PROVE Channel!ChannelNext \/ UNCHANGED Channel!channelVars
  <2>1. last' = last /\ carried' = carried /\ \A d \in Clients : pc'[d] = "wait" <=> pc[d] = "wait"
    BY <1>13 DEF ReaderDeliver, TypeOK
  <2>2. \A d \in Clients : ReqOf(d)' = ReqOf(d)
    BY <2>1 DEF ReqOf, Waiting
  <2> QED BY <2>1, <2>2, ChannelQuiet
<1>14. ASSUME NEW g \in Runtimes, ReaderEnd(g) PROVE Channel!ChannelNext \/ UNCHANGED Channel!channelVars
  <2>1. last' = last /\ carried' = carried /\ \A d \in Clients : pc'[d] = "wait" <=> pc[d] = "wait"
    BY <1>14 DEF ReaderEnd, TypeOK
  <2>2. \A d \in Clients : ReqOf(d)' = ReqOf(d)
    BY <2>1 DEF ReqOf, Waiting
  <2> QED BY <2>1, <2>2, ChannelQuiet
<1>15. ASSUME NEW g \in Runtimes, GraceCheck(g) PROVE Channel!ChannelNext \/ UNCHANGED Channel!channelVars
  <2>1. last' = last /\ carried' = carried /\ \A d \in Clients : pc'[d] = "wait" <=> pc[d] = "wait"
    BY <1>15 DEF GraceCheck, clientVars, TypeOK
  <2>2. \A d \in Clients : ReqOf(d)' = ReqOf(d)
    BY <2>1 DEF ReqOf, Waiting
  <2> QED BY <2>1, <2>2, ChannelQuiet
<1>16. ASSUME NEW g \in Runtimes, GraceKill(g) PROVE Channel!ChannelNext \/ UNCHANGED Channel!channelVars
  <2>1. last' = last /\ carried' = carried /\ \A d \in Clients : pc'[d] = "wait" <=> pc[d] = "wait"
    BY <1>16 DEF GraceKill, TypeOK
  <2>2. \A d \in Clients : ReqOf(d)' = ReqOf(d)
    BY <2>1 DEF ReqOf, Waiting
  <2> QED BY <2>1, <2>2, ChannelQuiet
<1>17. ASSUME NEW g \in Runtimes, AgentAnswers(g) PROVE Channel!ChannelNext \/ UNCHANGED Channel!channelVars
  BY <1>17, AnswersMaps
<1>18. ASSUME NEW g \in Runtimes, AgentEnds(g) PROVE Channel!ChannelNext \/ UNCHANGED Channel!channelVars
  <2>1. last' = last /\ carried' = carried /\ \A d \in Clients : pc'[d] = "wait" <=> pc[d] = "wait"
    BY <1>18 DEF AgentEnds, clientVars, TypeOK
  <2>2. \A d \in Clients : ReqOf(d)' = ReqOf(d)
    BY <2>1 DEF ReqOf, Waiting
  <2> QED BY <2>1, <2>2, ChannelQuiet
<1>19. CASE StopDaemons
  <2>1. last' = last /\ carried' = carried /\ \A d \in Clients : pc'[d] = "wait" <=> pc[d] = "wait"
    BY <1>19 DEF StopDaemons, TypeOK
  <2>2. \A d \in Clients : ReqOf(d)' = ReqOf(d)
    BY <2>1 DEF ReqOf, Waiting
  <2> QED BY <2>1, <2>2, ChannelQuiet
<1> QED
  BY <1>1, <1>2, <1>3, <1>4, <1>5, <1>6, <1>7, <1>8, <1>9, <1>10, <1>11, <1>12, <1>13, <1>14,
     <1>15, <1>16, <1>17, <1>18, <1>19, NextCases

\* The shared runtime implements the channel: a caller is answered only after the agent
\* has carried out this caller's own request, with late answers, timeouts, cancellations,
\* crashes and a reader that gives up its stream.
THEOREM RefinesChannel == Spec => ImplementsChannel
<1>1. Init => Channel!ChannelInit
  <2> SUFFICES ASSUME Init PROVE Channel!ChannelInit
    OBVIOUS
  <2>1. Reqs = [c \in Clients |-> "free"] /\ last = [c \in Clients |-> "none"]
    BY DEF Init, Reqs, ReqOf, Waiting
  <2> QED BY <2>1 DEF Channel!ChannelInit, Reqs, ReqOf
<1>2. BaseInv /\ [Next]_vars => [Channel!ChannelNext]_(Channel!channelVars)
  BY StepMaps DEF BaseInv
<1> QED BY <1>1, <1>2, BaseInvariance, PTL DEF Spec, ImplementsChannel, Channel!ChannelSpec

(***************************************************************************)
(* Where the reader thread ends only with its stream: the entries of the    *)
(* calls and who answers them.                                              *)
(***************************************************************************)
\* The entries of a step: none is added, what is owed to those that stay is still owed,
\* their runtime and its cell stay, and the client of one that goes is told.
NoEntryAdded == \A g \in Runtimes : pending'[g] \subseteq pending[g]
CellsStay == \A g \in Runtimes : pending'[g] # {} => cell'[g] = cell[g]
DebtsStay == \A g \in Runtimes : \A r \in pending'[g] : Owed(r, g) => Owed(r, g)'
HomesStay ==
    \A g \in Runtimes, d \in Clients, n \in Nat :
        <<d, n>> \in pending'[g] => pc'[d] = "done" \/ (pc[d] # "done" /\ rt'[d] = rt[d])
WaitersStay ==
    \A d \in Clients :
        pc'[d] = "wait" => /\ pc[d] = "wait" /\ calls'[d] = calls[d] /\ rt'[d] = rt[d]
                           /\ \/ /\ got'[d] = got[d]
                                 /\ Id(d) \in pending[rt[d]] => Id(d) \in pending'[rt[d]]
                              \/ got'[d] # "none" /\ Id(d) \notin pending'[rt[d]]
CallersStay ==
    \A g \in Runtimes, d \in Clients, n \in Nat :
        <<d, n>> \in pending'[g] /\ (n = outer[d] \/ (pc[d] = "wait" /\ n = calls[d])) =>
            n = outer'[d] \/ (pc'[d] = "wait" /\ n = calls'[d]) \/ Owed(<<d, n>>, g)
EntriesStay == NoEntryAdded /\ CellsStay /\ DebtsStay /\ HomesStay /\ WaitersStay /\ CallersStay

\* Such a step keeps the invariants of the entries.
LEMMA StreamKept ==
    ASSUME TypeOK, ClientInv, HomeInv, WaitInv, EntryInv, EntriesStay
    PROVE  HomeInv' /\ WaitInv' /\ EntryInv'
<1> USE DEF EntriesStay
<1>1. HomeInv'
  BY DEF HomeInv, NoEntryAdded, CellsStay, HomesStay
<1>2. WaitInv'
  <2> SUFFICES ASSUME NEW d \in Clients, pc'[d] = "wait"
               PROVE  \/ got'[d] = "none" /\ Id(d)' \in pending'[rt'[d]] /\ Owed(Id(d), rt[d])'
                      \/ got'[d] # "none" /\ \A g \in Runtimes : Id(d)' \notin pending'[g]
    BY DEF WaitInv
  <2>1. /\ pc[d] = "wait" /\ Id(d)' = Id(d) /\ rt'[d] = rt[d] /\ rt[d] \in Runtimes
        /\ Id(d) = <<d, calls[d]>> /\ calls[d] \in Nat
    BY ConstantFacts DEF WaitersStay, Id, TypeOK, ClientInv, ClientOk
  <2>2. \A g \in Runtimes : Id(d) \in pending'[g] => Id(d) \in pending[g] /\ rt[d] = g
    BY <2>1 DEF HomeInv, NoEntryAdded
  <2>3. CASE got[d] = "none" /\ Id(d) \in pending[rt[d]] /\ Owed(Id(d), rt[d])
    <3>1. CASE got'[d] = got[d] /\ Id(d) \in pending'[rt[d]]
      <4>1. Owed(Id(d), rt[d])'
        BY <2>1, <2>3, <3>1 DEF DebtsStay, Owed
      <4> QED BY <2>1, <2>3, <3>1, <4>1
    <3>2. CASE got'[d] # "none" /\ Id(d) \notin pending'[rt[d]]
      BY <2>1, <2>2, <3>2
    <3> QED BY <2>1, <2>3, <3>1, <3>2 DEF WaitersStay
  <2>4. CASE got[d] # "none" /\ \A g \in Runtimes : Id(d) \notin pending[g]
    BY <2>1, <2>2, <2>4 DEF WaitersStay
  <2> QED BY <2>1, <2>3, <2>4 DEF WaitInv
<1>3. EntryInv'
  <2> SUFFICES ASSUME NEW g \in Runtimes, NEW d \in Clients, NEW n \in Nat, <<d, n>> \in pending'[g]
               PROVE  n = outer'[d] \/ (pc'[d] = "wait" /\ n = calls'[d]) \/ Owed(<<d, n>>, g)'
    BY DEF EntryInv
  <2>1. n = outer[d] \/ (pc[d] = "wait" /\ n = calls[d]) \/ Owed(<<d, n>>, g)
    BY DEF EntryInv, NoEntryAdded
  <2>2. n = outer'[d] \/ (pc'[d] = "wait" /\ n = calls'[d]) \/ Owed(<<d, n>>, g)
    BY <2>1 DEF CallersStay
  <2> QED BY <2>2 DEF DebtsStay
<1> QED BY <1>1, <1>2, <1>3

\* A runtime that has not been spawned has no entries.
LEMMA NotReadyEmpty ==
    ASSUME TypeOK, HomeInv, NEW g \in Runtimes, cell[g] # "ready"
    PROVE  pending[g] = {}
<1>1. \A r \in pending[g] : r = <<r[1], r[2]>> /\ r[1] \in Clients /\ r[2] \in Nat
  BY IdFacts DEF TypeOK
<1> QED BY <1>1 DEF HomeInv

\* Nor has one that is gone and in nobody's hands.
LEMMA UnusedEmpty ==
    ASSUME TypeOK, ClientInv, HomeInv, EntryInv, NEW g \in Runtimes, Unused(g)
    PROVE  pending[g] = {}
<1>1. CASE cell[g] = "none"
  BY <1>1, NotReadyEmpty
<1>2. CASE reader[g] # "run" /\ \A c \in Clients : rt[c] # g
  <2> SUFFICES ASSUME NEW r \in pending[g] PROVE FALSE
    OBVIOUS
  <2>1. r = <<r[1], r[2]>> /\ r[1] \in Clients /\ r[2] \in Nat /\ r[2] >= 1
    BY IdFacts DEF TypeOK
  <2>2. PICK c \in Clients, n \in Nat : r = <<c, n>> /\ n >= 1
    BY <2>1
  <2>3. pc[c] = "done"
    BY <1>2, <2>2 DEF HomeInv
  <2>4. outer[c] = 0
    BY <2>3 DEF ClientInv, ClientOk, InCall
  <2>5. n = outer[c] \/ pc[c] = "wait" \/ reader[g] = "run"
    BY <2>2 DEF EntryInv, Owed
  <2> QED BY <1>2, <2>2, <2>3, <2>4, <2>5
<1> QED BY <1>1, <1>2 DEF Unused

\* A client that has called nothing has none.
LEMMA NoEntryYet ==
    ASSUME TypeOK, NumberInv, NEW c \in Clients, calls[c] = 0
    PROVE  \A g \in Runtimes, n \in Nat : <<c, n>> \notin pending[g]
<1> SUFFICES ASSUME NEW g \in Runtimes, NEW n \in Nat, <<c, n>> \in pending[g] PROVE FALSE
  OBVIOUS
<1>1. n >= 1
  BY IdFacts DEF TypeOK
<1>2. n <= calls[c]
  BY DEF NumberInv, InFlight
<1> QED BY <1>1, <1>2

\* Failing the entries of a runtime tells everyone who waits for them.
LEMMA FailStays ==
    ASSUME TypeOK, ClientInv, HomeInv, NEW g \in Runtimes, FailPending(g),
           UNCHANGED <<cell, alive, sent, out, pc, rt, calls, outer>>,
           \A h \in Runtimes : h # g => reader'[h] = reader[h]
    PROVE  EntriesStay
<1>1. NoEntryAdded
  BY FailShrinks DEF NoEntryAdded
<1>2. CellsStay /\ HomesStay /\ CallersStay
  BY <1>1 DEF CellsStay, HomesStay, CallersStay, NoEntryAdded, HomeInv
<1>3. DebtsStay
  BY FailFacts DEF DebtsStay, Owed
<1>4. WaitersStay
  <2> SUFFICES ASSUME NEW d \in Clients, pc[d] = "wait"
               PROVE  \/ /\ got'[d] = got[d]
                         /\ Id(d) \in pending[rt[d]] => Id(d) \in pending'[rt[d]]
                      \/ got'[d] # "none" /\ Id(d) \notin pending'[rt[d]]
    BY DEF WaitersStay
  <2>1. rt[d] \in Runtimes /\ Id(d) = <<d, calls[d]>> /\ calls[d] \in Nat
    BY ConstantFacts DEF TypeOK, ClientInv, ClientOk, Id
  <2>2. CASE Id(d) \in pending[g]
    <3>1. rt[d] = g
      BY <2>1, <2>2 DEF HomeInv
    <3> QED BY <2>2, <3>1, FailFacts
  <2>3. CASE Id(d) \notin pending[g]
    BY <2>1, <2>3, FailFacts
  <2> QED BY <2>2, <2>3
<1> QED BY <1>1, <1>2, <1>3, <1>4 DEF EntriesStay

\* The reader thread ends only with its stream.
NoStdout == "stdout" \notin Faults

\* A process that runs has its reader.
LEMMA ReaderInductive ==
    ASSUME NoStdout, TypeOK, CellInv, ReaderInv, [Next]_vars
    PROVE  ReaderInv'
<1> USE DEF ReaderInv
<1>1. CASE UNCHANGED vars
  BY <1>1 DEF vars
<1>2. ASSUME NEW c \in Clients, Lookup(c) PROVE ReaderInv'
  BY <1>2 DEF Lookup, Unused, TypeOK
<1>3. ASSUME NEW c \in Clients, BeginInit(c) PROVE ReaderInv'
  BY <1>3 DEF BeginInit, TypeOK
<1>4. ASSUME NEW c \in Clients, SpawnReady(c) PROVE ReaderInv'
  BY <1>4 DEF SpawnReady, TypeOK
<1>5. ASSUME NEW c \in Clients, SpawnFails(c) PROVE ReaderInv'
  BY <1>5 DEF SpawnFails, TypeOK, CellInv
<1>6. ASSUME NEW c \in Clients, OpenSession(c) PROVE ReaderInv'
  BY <1>6 DEF OpenSession, runtimeVars
<1>7. ASSUME NEW c \in Clients, Passes(c) PROVE ReaderInv'
  BY <1>7 DEF Passes, runtimeVars
<1>8. ASSUME NEW c \in Clients, CallWrite(c) PROVE ReaderInv'
  BY <1>8 DEF CallWrite
<1>9. ASSUME NEW c \in Clients, NEW r \in Results, Ends(c, r) PROVE ReaderInv'
  BY <1>9, FinishControl DEF Ends
<1>10. ASSUME NEW c \in Clients, Cancel(c) PROVE ReaderInv'
  BY <1>10 DEF Cancel, runtimeVars
<1>11. ASSUME NEW c \in Clients, NEW m \in {"query", "validate", "close"}, Call(c, m) PROVE ReaderInv'
  BY <1>11 DEF Call, runtimeVars
<1>12. ASSUME NEW c \in Clients, Drop(c) PROVE ReaderInv'
  BY <1>12 DEF Drop
<1>13. ASSUME NEW g \in Runtimes, ReaderDeliver(g) PROVE ReaderInv'
  BY <1>13 DEF ReaderDeliver
<1>14. ASSUME NEW g \in Runtimes, ReaderEnd(g) PROVE ReaderInv'
  BY <1>14 DEF ReaderEnd, StreamEnded, TypeOK, NoStdout
<1>15. ASSUME NEW g \in Runtimes, GraceCheck(g) PROVE ReaderInv'
  BY <1>15 DEF GraceCheck
<1>16. ASSUME NEW g \in Runtimes, GraceKill(g) PROVE ReaderInv'
  BY <1>16 DEF GraceKill
<1>17. ASSUME NEW g \in Runtimes, AgentAnswers(g) PROVE ReaderInv'
  BY <1>17 DEF AgentAnswers
<1>18. ASSUME NEW g \in Runtimes, AgentEnds(g) PROVE ReaderInv'
  BY <1>18 DEF AgentEnds, TypeOK
<1>19. CASE StopDaemons
  BY <1>19 DEF StopDaemons
<1> QED
  BY <1>1, <1>2, <1>3, <1>4, <1>5, <1>6, <1>7, <1>8, <1>9, <1>10, <1>11, <1>12, <1>13, <1>14,
     <1>15, <1>16, <1>17, <1>18, <1>19, NextCases

\* A step keeps what the entries and those who wait for them can rely on.
LEMMA EntriesInductive ==
    ASSUME TypeOK, ClientInv, CellInv, NumberInv,
           ReaderInv, HomeInv, WaitInv, EntryInv, [Next]_vars
    PROVE  (HomeInv /\ WaitInv /\ EntryInv)'
<1>1. CASE UNCHANGED vars
  <2>1. HomeInv'
    BY <1>1 DEF vars, HomeInv
  <2>2. \A d \in Clients : Owed(Id(d), rt[d]) => Owed(Id(d), rt[d])'
    BY <1>1 DEF vars, Owed, Id
  <2>3. \A d \in Clients : Id(d)' = Id(d)
    BY <1>1 DEF vars, Id
  <2>4. WaitInv'
    BY <1>1, <2>2, <2>3 DEF vars, WaitInv
  <2>5. EntryInv'
    BY <1>1 DEF vars, EntryInv, Owed
  <2> QED BY <2>1, <2>4, <2>5
<1>2. ASSUME NEW c \in Clients, Lookup(c) PROVE (HomeInv /\ WaitInv /\ EntryInv)'
  <2>1. UNCHANGED <<pending, alive, sent, out, calls, outer, got>> /\ pc[c] = "idle" /\ calls[c] = 0
    BY <1>2 DEF Lookup, ClientInv, ClientOk
  <2>2. \A d \in Clients \ {c} : pc'[d] = pc[d] /\ rt'[d] = rt[d]
    BY <1>2 DEF Lookup, TypeOK
  <2>3. pc'[c] = "init"
    BY <1>2 DEF Lookup, TypeOK
  <2>4. \A g \in Runtimes, n \in Nat : <<c, n>> \notin pending[g]
    BY <2>1, NoEntryYet
  <2>5. \A g \in Runtimes : pending[g] # {} => cell'[g] = cell[g] /\ reader'[g] = reader[g]
    BY <1>2, UnusedEmpty DEF Lookup, TypeOK
  <2>6. NoEntryAdded /\ CellsStay
    BY <2>1, <2>5 DEF NoEntryAdded, CellsStay
  <2>7. DebtsStay
    BY <2>1, <2>5 DEF DebtsStay, Owed
  <2>8. HomesStay
    BY <2>1, <2>2, <2>4 DEF HomesStay, HomeInv
  <2>9. WaitersStay
    BY <2>1, <2>2, <2>3 DEF WaitersStay
  <2>10. CallersStay
    BY <2>1, <2>2, <2>4 DEF CallersStay
  <2> QED BY <2>6, <2>7, <2>8, <2>9, <2>10, StreamKept DEF EntriesStay
<1>3. ASSUME NEW c \in Clients, BeginInit(c) PROVE (HomeInv /\ WaitInv /\ EntryInv)'
  <2>0. pending[rt[c]] = {} /\ rt[c] \in Runtimes
    BY <1>3, ConstantFacts, NotReadyEmpty DEF BeginInit, CellInv, ClientInv, ClientOk, TypeOK
  <2>1. NoEntryAdded /\ CellsStay
    BY <1>3, <2>0 DEF BeginInit, NoEntryAdded, CellsStay, TypeOK
  <2>2. DebtsStay
    BY <1>3, <2>0 DEF BeginInit, DebtsStay, Owed, TypeOK
  <2>3. HomesStay
    BY <1>3, <2>0 DEF BeginInit, HomesStay, HomeInv, TypeOK
  <2>4. WaitersStay
    BY <1>3, <2>0 DEF BeginInit, WaitersStay, TypeOK
  <2>5. CallersStay
    BY <1>3, <2>0 DEF BeginInit, CallersStay, TypeOK
  <2> QED BY <2>1, <2>2, <2>3, <2>4, <2>5, StreamKept DEF EntriesStay
<1>4. ASSUME NEW c \in Clients, SpawnReady(c) PROVE (HomeInv /\ WaitInv /\ EntryInv)'
  <2>0. pending[rt[c]] = {} /\ rt[c] \in Runtimes
    BY <1>4, ConstantFacts, NotReadyEmpty DEF SpawnReady, CellInv, ClientInv, ClientOk, TypeOK
  <2>1. NoEntryAdded /\ CellsStay
    BY <1>4, <2>0 DEF SpawnReady, NoEntryAdded, CellsStay, TypeOK
  <2>2. DebtsStay
    BY <1>4, <2>0 DEF SpawnReady, DebtsStay, Owed, TypeOK
  <2>3. HomesStay
    BY <1>4, <2>0 DEF SpawnReady, HomesStay, HomeInv, TypeOK
  <2>4. WaitersStay
    BY <1>4, <2>0 DEF SpawnReady, WaitersStay, TypeOK
  <2>5. CallersStay
    BY <1>4, <2>0 DEF SpawnReady, CallersStay, TypeOK
  <2> QED BY <2>1, <2>2, <2>3, <2>4, <2>5, StreamKept DEF EntriesStay
<1>5. ASSUME NEW c \in Clients, SpawnFails(c) PROVE (HomeInv /\ WaitInv /\ EntryInv)'
  <2>0. pending[rt[c]] = {} /\ rt[c] \in Runtimes
    BY <1>5, ConstantFacts, NotReadyEmpty DEF SpawnFails, CellInv, ClientInv, ClientOk, TypeOK
  <2>1. NoEntryAdded /\ CellsStay
    BY <1>5, <2>0 DEF SpawnFails, NoEntryAdded, CellsStay, TypeOK
  <2>2. DebtsStay
    BY <1>5, <2>0 DEF SpawnFails, DebtsStay, Owed, TypeOK
  <2>3. HomesStay
    BY <1>5, <2>0 DEF SpawnFails, HomesStay, HomeInv, TypeOK
  <2>4. WaitersStay
    BY <1>5, <2>0 DEF SpawnFails, WaitersStay, TypeOK
  <2>5. CallersStay
    BY <1>5, <2>0 DEF SpawnFails, CallersStay, TypeOK
  <2> QED BY <2>1, <2>2, <2>3, <2>4, <2>5, StreamKept DEF EntriesStay
<1>6. ASSUME NEW c \in Clients, OpenSession(c) PROVE (HomeInv /\ WaitInv /\ EntryInv)'
  <2>1. NoEntryAdded /\ CellsStay
    BY <1>6 DEF OpenSession, runtimeVars, BeginCall, NoEntryAdded, CellsStay, TypeOK
  <2>2. DebtsStay
    BY <1>6 DEF OpenSession, runtimeVars, BeginCall, DebtsStay, Owed, TypeOK
  <2>3. HomesStay
    BY <1>6 DEF OpenSession, runtimeVars, BeginCall, HomesStay, HomeInv, TypeOK
  <2>4. WaitersStay
    BY <1>6 DEF OpenSession, runtimeVars, BeginCall, WaitersStay, TypeOK
  <2>5. CallersStay
    BY <1>6 DEF OpenSession, runtimeVars, BeginCall, CallersStay, TypeOK
  <2> QED BY <2>1, <2>2, <2>3, <2>4, <2>5, StreamKept DEF EntriesStay
<1>7. ASSUME NEW c \in Clients, Passes(c) PROVE (HomeInv /\ WaitInv /\ EntryInv)'
  <2>1. NoEntryAdded /\ CellsStay
    BY <1>7 DEF Passes, runtimeVars, NoEntryAdded, CellsStay, TypeOK
  <2>2. DebtsStay
    BY <1>7 DEF Passes, runtimeVars, DebtsStay, Owed, TypeOK
  <2>3. HomesStay
    BY <1>7 DEF Passes, runtimeVars, HomesStay, HomeInv, TypeOK
  <2>4. WaitersStay
    BY <1>7 DEF Passes, runtimeVars, WaitersStay, TypeOK
  <2>5. CallersStay
    BY <1>7 DEF Passes, runtimeVars, CallersStay, TypeOK
  <2> QED BY <2>1, <2>2, <2>3, <2>4, <2>5, StreamKept DEF EntriesStay
<1>8. ASSUME NEW c \in Clients, CallWrite(c) PROVE (HomeInv /\ WaitInv /\ EntryInv)'
  <2>1. /\ pc[c] = "write" /\ rt[c] \in Runtimes /\ pc' = [pc EXCEPT ![c] = "wait"]
        /\ alive[rt[c]] /\ reader[rt[c]] = "run" /\ cell[rt[c]] = "ready" /\ got[c] = "none"
        /\ pending' = [pending EXCEPT ![rt[c]] = @ \cup {Id(c)}]
        /\ sent' = [sent EXCEPT ![rt[c]] = @ \cup {Id(c)}]
        /\ UNCHANGED <<cell, reader, alive, out, rt, calls, outer, got>>
    BY <1>8, ConstantFacts DEF CallWrite, ClientInv, ClientOk, TypeOK, ReaderInv
  <2>2. /\ \A g \in Runtimes : \A q \in pending'[g] : q \in pending[g] \/ (g = rt[c] /\ q = Id(c))
        /\ \A g \in Runtimes : pending[g] \subseteq pending'[g] /\ sent[g] \subseteq sent'[g]
        /\ Id(c) \in pending'[rt[c]] /\ Id(c) \in sent'[rt[c]]
    BY <2>1 DEF TypeOK
  <2>3. \A d \in Clients : Id(d)' = Id(d) /\ Id(d) = <<d, calls[d]>> /\ calls[d] \in Nat
    BY <2>1 DEF Id, TypeOK
  <2>4. \A g, q : Owed(q, g) /\ g \in Runtimes => Owed(q, g)'
    BY <2>1, <2>2 DEF Owed
  <2>5. \A d \in Clients : d # c => pc'[d] = pc[d]
    BY <2>1 DEF TypeOK
  <2>6. pc'[c] = "wait"
    BY <2>1 DEF TypeOK
  <2>7. HomeInv'
    <3> SUFFICES ASSUME NEW g \in Runtimes, NEW d \in Clients, NEW n \in Nat, <<d, n>> \in pending'[g]
                 PROVE  cell[g] = "ready" /\ (pc'[d] # "done" => rt[d] = g)
      BY <2>1 DEF HomeInv
    <3>1. CASE <<d, n>> \in pending[g]
      BY <2>1, <2>5, <3>1 DEF HomeInv
    <3>2. CASE g = rt[c] /\ <<d, n>> = Id(c)
      BY <2>1, <2>3, <3>2
    <3> QED BY <2>2, <3>1, <3>2
  <2>8. WaitInv'
    <3> SUFFICES ASSUME NEW d \in Clients, pc'[d] = "wait"
                 PROVE  \/ got[d] = "none" /\ Id(d) \in pending'[rt[d]] /\ Owed(Id(d), rt[d])'
                        \/ got[d] # "none" /\ \A g \in Runtimes : Id(d) \notin pending'[g]
      BY <2>1, <2>3 DEF WaitInv
    <3>1. CASE d = c
      BY <2>1, <2>2, <2>3, <3>1 DEF Owed
    <3>2. CASE d # c
      <4>1. pc[d] = "wait" /\ rt[d] \in Runtimes /\ Id(d) # Id(c)
        BY <2>3, <2>5, <3>2, ConstantFacts DEF ClientInv, ClientOk, TypeOK
      <4>2. Owed(Id(d), rt[d]) => Owed(Id(d), rt[d])'
        BY <2>1, <2>2, <2>3, <4>1 DEF Owed
      <4>3. \A g \in Runtimes : Id(d) \in pending'[g] <=> Id(d) \in pending[g]
        BY <2>2, <4>1
      <4> QED BY <4>1, <4>2, <4>3 DEF WaitInv
    <3> QED BY <3>1, <3>2
  <2>9. EntryInv'
    <3> SUFFICES ASSUME NEW g \in Runtimes, NEW d \in Clients, NEW n \in Nat, <<d, n>> \in pending'[g]
                 PROVE  n = outer[d] \/ (pc'[d] = "wait" /\ n = calls[d]) \/ Owed(<<d, n>>, g)'
      BY <2>1 DEF EntryInv
    <3>1. CASE <<d, n>> \in pending[g]
      BY <2>1, <2>4, <2>5, <3>1 DEF EntryInv
    <3>2. CASE g = rt[c] /\ <<d, n>> = Id(c)
      BY <2>3, <2>6, <3>2
    <3> QED BY <2>2, <3>1, <3>2
  <2> QED BY <2>7, <2>8, <2>9
<1>9. ASSUME NEW c \in Clients, NEW r \in Results, Ends(c, r) PROVE (HomeInv /\ WaitInv /\ EntryInv)'
  <2>1. Finish(c, r) /\ rt[c] \in Runtimes /\ pc[c] \in InCall
    BY <1>9, ConstantFacts DEF Ends, ClientInv, ClientOk, InCall, TypeOK
  <2>2. UNCHANGED <<cell, reader, alive, sent, out, calls>> /\ outer' = [outer EXCEPT ![c] = 0]
    BY <2>1, FinishControl
  <2>3. \E l \in {"done", "drop", "ready"} :
            /\ pc' = [pc EXCEPT ![c] = l]
            /\ l = "done" <=> method[c] = "open" /\ r # "ok"
    BY <2>1, FinishControl
  <2>4. pc'[c] # "wait" /\ (pc'[c] = "done" \/ rt'[c] = rt[c])
    <3>1. CASE method[c] = "open" /\ r # "ok"
      BY <2>3, <3>1 DEF TypeOK
    <3>2. CASE ~(method[c] = "open" /\ r # "ok")
      <4>1. rt' = rt
        BY <2>1, <3>2, FinishControl
      <4> QED BY <2>3, <4>1 DEF TypeOK
    <3> QED BY <3>1, <3>2
  <2>5. \A d \in Clients : d # c => pc'[d] = pc[d] /\ rt'[d] = rt[d] /\ outer'[d] = outer[d]
    <3>1. \A d \in Clients : d # c => pc'[d] = pc[d]
      BY <2>3 DEF TypeOK
    <3>2. rt' = rt \/ rt' = [rt EXCEPT ![c] = 0]
      BY <2>1, FinishControl
    <3> QED BY <2>2, <3>1, <3>2 DEF TypeOK
  <2>6. NoEntryAdded
    BY <2>1, FinishShrinks DEF NoEntryAdded
  <2>7. CellsStay /\ DebtsStay
    BY <2>2 DEF CellsStay, DebtsStay, Owed
  <2>8. HomesStay
    BY <2>1, <2>4, <2>5, <2>6 DEF HomesStay, HomeInv, NoEntryAdded, InCall
  <2>9. WaitersStay
    <3> SUFFICES ASSUME NEW d \in Clients, d # c, pc[d] = "wait"
                 PROVE  \/ /\ got'[d] = got[d]
                           /\ Id(d) \in pending[rt[d]] => Id(d) \in pending'[rt[d]]
                        \/ got'[d] # "none" /\ Id(d) \notin pending'[rt[d]]
      BY <2>2, <2>4, <2>5 DEF WaitersStay
    <3>1. rt[d] \in Runtimes /\ Id(d) = <<d, calls[d]>> /\ calls[d] \in Nat
      BY ConstantFacts DEF TypeOK, ClientInv, ClientOk, Id
    <3>2. CASE method[c] = "validate" /\ r # "ok"
      <4>1. FailPending(rt[c])
        BY <2>1, <3>2, FinishEntries DEF Kill
      <4>2. CASE Id(d) \in pending[rt[c]]
        <5>1. rt[d] = rt[c]
          BY <2>1, <3>1, <4>2 DEF HomeInv
        <5> QED BY <2>1, <4>1, <4>2, <5>1, FailFacts
      <4>3. CASE Id(d) \notin pending[rt[c]]
        BY <2>1, <3>1, <4>1, <4>3, FailFacts
      <4> QED BY <4>2, <4>3
    <3>3. CASE ~(method[c] = "validate" /\ r # "ok")
      <4>1. got'[d] = got[d]
        BY <2>1, <3>3, FinishEntries DEF Taken, TypeOK
      <4>2. pending' = pending \/ pending' = [pending EXCEPT ![rt[c]] = @ \ {<<c, outer[c]>>}]
        BY <2>1, <3>3, FinishEntries
      <4>3. Id(d) # <<c, outer[c]>>
        BY <3>1
      <4>4. Id(d) \in pending[rt[d]] => Id(d) \in pending'[rt[d]]
        BY <3>1, <4>2, <4>3 DEF TypeOK
      <4> QED BY <4>1, <4>4
    <3> QED BY <3>2, <3>3
  <2>10. CallersStay
    <3> SUFFICES ASSUME NEW g \in Runtimes, NEW n \in Nat, <<c, n>> \in pending'[g],
                        n = outer[c] \/ (pc[c] = "wait" /\ n = calls[c])
                 PROVE  Owed(<<c, n>>, g)
      BY <2>2, <2>5 DEF CallersStay
    <3>1. <<c, n>> \in pending[g] /\ rt[c] = g
      BY <2>1, <2>6 DEF NoEntryAdded, HomeInv, InCall
    <3>2. n >= 1
      BY <3>1, IdFacts DEF TypeOK
    <3>3. CASE n = outer[c]
      <4>1. method[c] = "cancel"
        BY <3>2, <3>3 DEF ClientInv, ClientOk
      <4>2. pending' = [pending EXCEPT ![rt[c]] = @ \ {<<c, outer[c]>>}]
        BY <2>1, <4>1, FinishEntries
      <4> QED BY <3>1, <3>3, <4>2 DEF TypeOK
    <3>4. CASE pc[c] = "wait" /\ n = calls[c]
      BY <3>1, <3>4 DEF WaitInv, Id
    <3> QED BY <3>3, <3>4
  <2> QED BY <2>6, <2>7, <2>8, <2>9, <2>10, StreamKept DEF EntriesStay
<1>10. ASSUME NEW c \in Clients, Cancel(c) PROVE (HomeInv /\ WaitInv /\ EntryInv)'
  <2>1. /\ pc[c] = "wait" /\ outer[c] = 0 /\ outer' = [outer EXCEPT ![c] = calls[c]]
        /\ pc' = [pc EXCEPT ![c] = "check"] /\ calls' = [calls EXCEPT ![c] = @ + 1]
        /\ UNCHANGED <<pending, cell, reader, alive, sent, out, rt>>
        /\ \A d \in Clients : d # c => got'[d] = got[d]
    BY <1>10 DEF Cancel, BeginCall, runtimeVars, ClientInv, ClientOk, TypeOK
  <2>2. NoEntryAdded /\ CellsStay
    BY <2>1 DEF NoEntryAdded, CellsStay
  <2>3. DebtsStay
    BY <2>1 DEF DebtsStay, Owed
  <2>4. HomesStay
    BY <2>1 DEF HomesStay, HomeInv, TypeOK
  <2>5. WaitersStay
    BY <2>1 DEF WaitersStay, TypeOK
  <2>6. CallersStay
    <3> SUFFICES ASSUME NEW g \in Runtimes, NEW d \in Clients, NEW n \in Nat, <<d, n>> \in pending[g],
                        n = outer[d] \/ (pc[d] = "wait" /\ n = calls[d])
                 PROVE  n = outer'[d] \/ (pc'[d] = "wait" /\ n = calls'[d])
      BY <2>1 DEF CallersStay
    <3>1. n >= 1
      BY IdFacts DEF TypeOK
    <3> QED BY <2>1, <3>1 DEF TypeOK
  <2> QED BY <2>2, <2>3, <2>4, <2>5, <2>6, StreamKept DEF EntriesStay
<1>11. ASSUME NEW c \in Clients, NEW m \in {"query", "validate", "close"}, Call(c, m) PROVE (HomeInv /\ WaitInv /\ EntryInv)'
  <2>1. NoEntryAdded /\ CellsStay
    BY <1>11 DEF Call, runtimeVars, BeginCall, NoEntryAdded, CellsStay, TypeOK
  <2>2. DebtsStay
    BY <1>11 DEF Call, runtimeVars, BeginCall, DebtsStay, Owed, TypeOK
  <2>3. HomesStay
    BY <1>11 DEF Call, runtimeVars, BeginCall, HomesStay, HomeInv, TypeOK
  <2>4. WaitersStay
    BY <1>11 DEF Call, runtimeVars, BeginCall, WaitersStay, TypeOK
  <2>5. CallersStay
    BY <1>11 DEF Call, runtimeVars, BeginCall, CallersStay, TypeOK
  <2> QED BY <2>1, <2>2, <2>3, <2>4, <2>5, StreamKept DEF EntriesStay
<1>12. ASSUME NEW c \in Clients, Drop(c) PROVE (HomeInv /\ WaitInv /\ EntryInv)'
  <2>1. NoEntryAdded /\ CellsStay
    BY <1>12 DEF Drop, NoEntryAdded, CellsStay, TypeOK
  <2>2. DebtsStay
    BY <1>12 DEF Drop, DebtsStay, Owed, TypeOK
  <2>3. HomesStay
    BY <1>12 DEF Drop, HomesStay, HomeInv, TypeOK
  <2>4. WaitersStay
    BY <1>12 DEF Drop, WaitersStay, TypeOK
  <2>5. CallersStay
    BY <1>12 DEF Drop, CallersStay, TypeOK
  <2> QED BY <2>1, <2>2, <2>3, <2>4, <2>5, StreamKept DEF EntriesStay
<1>13. ASSUME NEW g \in Runtimes, ReaderDeliver(g) PROVE (HomeInv /\ WaitInv /\ EntryInv)'
  <2>1. PICK a \in out[g] :
            /\ out' = [out EXCEPT ![g] = @ \ {a}] /\ pending' = [pending EXCEPT ![g] = @ \ {a.id}]
            /\ got' = [c \in Clients |-> IF c \in CallerOf(a) /\ a.id \in pending[g]
                                         THEN a.reply ELSE got[c]]
    BY <1>13 DEF ReaderDeliver, RemoveEntry
  <2>2. UNCHANGED <<cell, reader, alive, sent, pc, rt, calls, outer>>
    BY <1>13 DEF ReaderDeliver
  <2>3. a.reply # "none" /\ a.id \in Ids
    BY <2>1 DEF TypeOK
  <2>4. NoEntryAdded
    BY <2>1 DEF NoEntryAdded, TypeOK
  <2>5. CellsStay /\ HomesStay /\ CallersStay
    BY <2>2, <2>4 DEF CellsStay, HomesStay, CallersStay, NoEntryAdded, HomeInv
  <2>6. DebtsStay
    <3> SUFFICES ASSUME NEW h \in Runtimes, NEW q \in pending'[h], Owed(q, h) PROVE Owed(q, h)'
      BY DEF DebtsStay
    <3>1. \A b \in out[h] : b.id = q => b \in out'[h]
      BY <2>1 DEF TypeOK
    <3> QED BY <2>2, <3>1 DEF Owed
  <2>7. WaitersStay
    <3> SUFFICES ASSUME NEW d \in Clients, pc[d] = "wait"
                 PROVE  \/ /\ got'[d] = got[d]
                           /\ Id(d) \in pending[rt[d]] => Id(d) \in pending'[rt[d]]
                        \/ got'[d] # "none" /\ Id(d) \notin pending'[rt[d]]
      BY <2>2 DEF WaitersStay
    <3>1. rt[d] \in Runtimes /\ Id(d) = <<d, calls[d]>> /\ calls[d] \in Nat
      BY ConstantFacts DEF TypeOK, ClientInv, ClientOk, Id
    <3>2. CASE Id(d) = a.id /\ a.id \in pending[g]
      <4>1. rt[d] = g
        BY <3>1, <3>2 DEF HomeInv
      <4>2. Id(d) \notin pending'[g]
        BY <2>1, <3>2 DEF TypeOK
      <4>3. got'[d] = a.reply
        BY <2>1, <3>2 DEF CallerOf, Waiting
      <4> QED BY <2>3, <4>1, <4>2, <4>3
    <3>3. CASE ~(Id(d) = a.id /\ a.id \in pending[g])
      <4>1. got'[d] = got[d]
        BY <2>1, <3>3 DEF CallerOf
      <4>2. Id(d) \in pending[rt[d]] => Id(d) \in pending'[rt[d]]
        BY <2>1, <3>1, <3>3 DEF TypeOK
      <4> QED BY <4>1, <4>2
    <3> QED BY <3>2, <3>3
  <2> QED BY <2>4, <2>5, <2>6, <2>7, StreamKept DEF EntriesStay
<1>14. ASSUME NEW g \in Runtimes, ReaderEnd(g) PROVE (HomeInv /\ WaitInv /\ EntryInv)'
  <2>1. FailPending(g) /\ UNCHANGED <<cell, alive, sent, out, pc, rt, calls, outer>>
    BY <1>14 DEF ReaderEnd
  <2>2. \A h \in Runtimes : h # g => reader'[h] = reader[h]
    BY <1>14 DEF ReaderEnd, TypeOK
  <2> QED BY <2>1, <2>2, FailStays, StreamKept
<1>15. ASSUME NEW g \in Runtimes, GraceCheck(g) PROVE (HomeInv /\ WaitInv /\ EntryInv)'
  <2>1. NoEntryAdded /\ CellsStay
    BY <1>15 DEF GraceCheck, clientVars, NoEntryAdded, CellsStay, TypeOK
  <2>2. DebtsStay
    BY <1>15 DEF GraceCheck, clientVars, DebtsStay, Owed, TypeOK
  <2>3. HomesStay
    BY <1>15 DEF GraceCheck, clientVars, HomesStay, HomeInv, TypeOK
  <2>4. WaitersStay
    BY <1>15 DEF GraceCheck, clientVars, WaitersStay, TypeOK
  <2>5. CallersStay
    BY <1>15 DEF GraceCheck, clientVars, CallersStay, TypeOK
  <2> QED BY <2>1, <2>2, <2>3, <2>4, <2>5, StreamKept DEF EntriesStay
<1>16. ASSUME NEW g \in Runtimes, GraceKill(g) PROVE (HomeInv /\ WaitInv /\ EntryInv)'
  <2>1. FailPending(g) /\ UNCHANGED <<cell, reader, alive, sent, out, pc, rt, calls, outer>>
    BY <1>16 DEF GraceKill, Kill
  <2> QED BY <2>1, FailStays, StreamKept
<1>17. ASSUME NEW g \in Runtimes, AgentAnswers(g) PROVE (HomeInv /\ WaitInv /\ EntryInv)'
  <2>1. PICK r \in sent[g], reply \in {"ok", "err"} :
            /\ sent' = [sent EXCEPT ![g] = @ \ {r}]
            /\ out' = [out EXCEPT ![g] = @ \cup {[id |-> r, reply |-> reply]}]
    BY <1>17 DEF AgentAnswers
  <2>2. UNCHANGED <<pending, cell, reader, alive, pc, rt, calls, outer, got>>
    BY <1>17 DEF AgentAnswers, clientVars
  <2>3. DebtsStay
    <3> SUFFICES ASSUME NEW h \in Runtimes, NEW q \in pending[h], Owed(q, h) PROVE Owed(q, h)'
      BY <2>2 DEF DebtsStay
    <3>1. q \in sent[h] => q \in sent'[h] \/ \E a \in out'[h] : a.id = q
      <4>1. [id |-> r, reply |-> reply] \in out'[g]
        BY <2>1 DEF TypeOK
      <4>2. q \in sent[h] => q \in sent'[h] \/ (q = r /\ h = g)
        BY <2>1 DEF TypeOK
      <4> QED BY <4>1, <4>2
    <3>2. \A a \in out[h] : a \in out'[h]
      BY <2>1 DEF TypeOK
    <3> QED BY <2>2, <3>1, <3>2 DEF Owed
  <2>4. NoEntryAdded /\ CellsStay /\ HomesStay /\ WaitersStay /\ CallersStay
    BY <2>2 DEF NoEntryAdded, CellsStay, HomesStay, WaitersStay, CallersStay, HomeInv
  <2> QED BY <2>3, <2>4, StreamKept DEF EntriesStay
<1>18. ASSUME NEW g \in Runtimes, AgentEnds(g) PROVE (HomeInv /\ WaitInv /\ EntryInv)'
  <2>1. NoEntryAdded /\ CellsStay
    BY <1>18 DEF AgentEnds, clientVars, NoEntryAdded, CellsStay, TypeOK
  <2>2. DebtsStay
    BY <1>18 DEF AgentEnds, clientVars, DebtsStay, Owed, TypeOK
  <2>3. HomesStay
    BY <1>18 DEF AgentEnds, clientVars, HomesStay, HomeInv, TypeOK
  <2>4. WaitersStay
    BY <1>18 DEF AgentEnds, clientVars, WaitersStay, TypeOK
  <2>5. CallersStay
    BY <1>18 DEF AgentEnds, clientVars, CallersStay, TypeOK
  <2> QED BY <2>1, <2>2, <2>3, <2>4, <2>5, StreamKept DEF EntriesStay
<1>19. CASE StopDaemons
  <2>1. registry \in Runtimes
    BY <1>19, ConstantFacts DEF StopDaemons, TypeOK
  <2>2. UNCHANGED <<cell, reader, alive, sent, out, pc, rt, calls, outer>>
    BY <1>19 DEF StopDaemons
  <2>3. CASE cell[registry] = "ready"
    <3>1. FailPending(registry)
      BY <1>19, <2>3 DEF StopDaemons, Kill
    <3> QED BY <2>1, <2>2, <3>1, FailStays, StreamKept
  <2>4. CASE cell[registry] # "ready"
    <3>1. UNCHANGED <<pending, got>>
      BY <1>19, <2>4 DEF StopDaemons
    <3>2. DebtsStay
      BY <2>2, <3>1 DEF DebtsStay, Owed
    <3>3. NoEntryAdded /\ CellsStay /\ HomesStay /\ WaitersStay /\ CallersStay
      BY <2>2, <3>1 DEF NoEntryAdded, CellsStay, HomesStay, WaitersStay, CallersStay, HomeInv
    <3> QED BY <3>2, <3>3, StreamKept DEF EntriesStay
  <2> QED BY <2>3, <2>4
<1> QED
  BY <1>1, <1>2, <1>3, <1>4, <1>5, <1>6, <1>7, <1>8, <1>9, <1>10, <1>11, <1>12, <1>13, <1>14,
     <1>15, <1>16, <1>17, <1>18, <1>19, NextCases

\* Where the reader ends only with its stream, the invariants of the entries hold too.
LEMMA StreamInvariance == ASSUME NoStdout PROVE Spec => []StreamInv
<1>1. Init => StreamInv
  BY DEF Init, StreamInv, ReaderInv, HomeInv, WaitInv, EntryInv
<1>2. BaseInv /\ StreamInv /\ [Next]_vars => StreamInv'
  BY NoStdout, ReaderInductive, EntriesInductive DEF BaseInv, StreamInv
<1> QED BY <1>1, <1>2, BaseInvariance, PTL DEF Spec

\* A call that waits has its entry in pending and the reader that will answer or fail it,
\* unless the reader may give up a stream that goes on ("stdout"): for any number of
\* clients, calls, timeouts, crashes and kills.
THEOREM CallsAreNotOrphaned == ASSUME "stdout" \notin Faults PROVE Spec => []NoOrphanCall
<1>1. StreamInv => NoOrphanCall
  BY DEF StreamInv, WaitInv, Owed, NoOrphanCall
<1>2. NoStdout
  BY DEF NoStdout
<1> QED BY <1>1, <1>2, StreamInvariance, PTL

\* An entry whose caller has given up leaves with the answer or with the stream.
THEOREM AbandonedLeave == ASSUME "stdout" \notin Faults PROVE Spec => []AbandonedEntriesLeave
<1>1. TypeOK /\ StreamInv => AbandonedEntriesLeave
  <2> SUFFICES ASSUME TypeOK, StreamInv, NEW g \in Runtimes, NEW r \in pending[g]
               PROVE  \/ Calling(r)
                      \/ reader[g] = "run" /\ (alive[g] => r \in sent[g] \/ \E a \in out[g] : a.id = r)
    BY DEF AbandonedEntriesLeave
  <2>1. r = <<r[1], r[2]>> /\ r[1] \in Clients /\ r[2] \in Nat
    BY IdFacts DEF TypeOK
  <2>2. \/ r[2] = outer[r[1]] \/ (pc[r[1]] = "wait" /\ r[2] = calls[r[1]])
        \/ Owed(<<r[1], r[2]>>, g)
    BY <2>1 DEF StreamInv, EntryInv
  <2> QED BY <2>1, <2>2 DEF Owed, Calling, Waiting
<1>2. NoStdout
  BY DEF NoStdout
<1> QED BY <1>1, <1>2, StreamInvariance, TypeCorrect, PTL
=============================================================================
