---------------------- MODULE ManualTransactionProofs ----------------------
(***************************************************************************)
(* Proofs about ManualTransaction, for any number of sessions, calls and    *)
(* statements and any timeout.                                              *)
(***************************************************************************)
EXTENDS ManualTransaction, TLAPS

(***************************************************************************)
(* The next-state relation as one disjunct per action, so that the proofs   *)
(* that a step preserves an invariant have one case each.                   *)
(***************************************************************************)
LEMMA NextCases ==
    ASSUME Next
    PROVE  \/ \E s \in Sessions : BeginManualTransaction(s)
           \/ \E s \in Sessions : BeginFailsOnSchema(s)
           \/ \E s \in Sessions : ConnectionLost(s)
           \/ \E e \in Execs : ExecLookup(e)
           \/ \E e \in Execs : ExecMark(e)
           \/ \E e \in Execs : ExecClone(e)
           \/ \E e \in Execs : ExecLock(e)
           \/ \E e \in Execs : ExecStatementOk(e)
           \/ \E e \in Execs : ExecStatementErr(e)
           \/ \E e \in Execs : ExecFail(e)
           \/ \E e \in Execs : ExecRelease(e)
           \/ \E e \in Execs : ExecFinish(e)
           \/ \E c \in Commits : CommitTake(c)
           \/ \E c \in Commits : CommitLock(c)
           \/ \E c \in Commits : CommitFinish(c)
           \/ \E r \in Rollbacks : RollbackTake(r)
           \/ \E t \in Tasks : LockForRollback(t)
           \/ \E t \in Tasks : FinishRollback(t)
           \/ \E w \in Watchers : WatcherWake(w)
           \/ Tick
           \/ DisconnectDb
BY DEF Next, ExecStep

\* Watchers are tasks, and different spawners have different watchers.
LEMMA WatchTasks ==
    /\ Execs \subseteq Tasks /\ Commits \subseteq Tasks
    /\ Rollbacks \subseteq Tasks /\ Watchers \subseteq Tasks
    /\ \A s \in Sessions : Watch(s) \in Watchers
    /\ \A e \in Execs : Watch(e) \in Watchers
    /\ \A x, y : Watch(x) = Watch(y) => x = y
BY DEF Tasks, Calls, Watchers, Watch

\* A step preserves the types.
LEMMA TypeInductive ==
    ASSUME TypeOK, [Next]_vars
    PROVE  TypeOK'
<1> USE SessionAssumption, TargetAssumption, WatchTasks
<1>1. CASE UNCHANGED vars
  BY <1>1 DEF vars, TypeOK
<1>2. ASSUME NEW s \in Sessions, BeginManualTransaction(s) PROVE TypeOK'
  BY <1>2 DEF TypeOK, BeginManualTransaction, Spawned, TxnStates, PcStates
<1>3. ASSUME NEW s \in Sessions, BeginFailsOnSchema(s) PROVE TypeOK'
  BY <1>3 DEF TypeOK, BeginFailsOnSchema, TxnStates
<1>4. ASSUME NEW s \in Sessions, ConnectionLost(s) PROVE TypeOK'
  BY <1>4 DEF TypeOK, ConnectionLost, mapVars, TxnStates
<1>5. ASSUME NEW e \in Execs, ExecLookup(e) PROVE TypeOK'
  BY <1>5 DEF TypeOK, ExecLookup, Goto, Answer, mapVars, dbVars, PcStates, Replies
<1>6. ASSUME NEW e \in Execs, ExecMark(e) PROVE TypeOK'
  <2>1. (busy \in [Sessions -> BOOLEAN])'
    <3>1. busy \in [Sessions -> BOOLEAN] /\ (busy' = busy \/ busy' = [busy EXCEPT ![Target[e]] = TRUE])
      BY <1>6 DEF TypeOK, ExecMark
    <3> QED BY <3>1
  <2>2. live' \subseteq live
    BY <1>6 DEF ExecMark, Remove
  <2>3. (idle \in [Sessions -> 0 .. Timeout + 1])'
    <3>1. idle' = idle \/ idle' = [idle EXCEPT ![Target[e]] = 0]
      BY <1>6 DEF ExecMark
    <3> QED BY <3>1 DEF TypeOK
  <2>4. (pc \in [Tasks -> PcStates] /\ reply \in [Tasks -> Replies])'
    <3>1. /\ \E label \in {"done", "rlock", "clone"} : pc' = [pc EXCEPT ![e] = label]
          /\ \/ reply' = reply
             \/ \E r \in {"notfound", "busy", "expired"} : reply' = [reply EXCEPT ![e] = r]
      BY <1>6 DEF ExecMark, Goto, Answer
    <3> QED BY <3>1 DEF TypeOK, PcStates, Replies
  <2>5. UNCHANGED <<opened, dbVars, holder, step, timer, connected, postgres>>
    BY <1>6 DEF ExecMark
  <2> QED BY <2>1, <2>2, <2>3, <2>4, <2>5 DEF TypeOK, dbVars
<1>7. ASSUME NEW e \in Execs, ExecClone(e) PROVE TypeOK'
  BY <1>7 DEF TypeOK, ExecClone, Goto, Answer, mapVars, dbVars, PcStates, Replies
<1>8. ASSUME NEW e \in Execs, ExecLock(e) PROVE TypeOK'
  BY <1>8 DEF TypeOK, ExecLock, Goto, Acquire, mapVars, dbVars, PcStates
<1>9. ASSUME NEW e \in Execs, ExecStatementOk(e) PROVE TypeOK'
  <2>1. <<e, step[e]>> \in Statements
    BY DEF TypeOK, Statements
  <2>2. (pend \in [Sessions -> SUBSET Statements] /\ durable \subseteq Statements
         /\ auto \subseteq Statements)'
    <3> DEFINE st == <<e, step[e]>>
    <3> HIDE DEF st
    <3>1. \/ pend' = [pend EXCEPT ![Target[e]] = @ \cup {st}] /\ durable' = durable /\ auto' = auto
          \/ pend' = pend /\ durable' = durable \cup {st} /\ auto' = auto \cup {st}
      BY <1>9 DEF ExecStatementOk, st
    <3>2. st \in Statements
      BY <2>1 DEF st
    <3>3. pend \in [Sessions -> SUBSET Statements] /\ durable \subseteq Statements /\ auto \subseteq Statements
      BY DEF TypeOK
    <3> QED BY <3>1, <3>2, <3>3
  <2>3. (step \in [Execs -> Nat] /\ \A d \in Execs : step[d] <= Script[d])'
    BY <1>9 DEF TypeOK, ExecStatementOk, MoreStatements
  <2>4. UNCHANGED <<live, opened, busy, idle, txn, holder, pc, timer, reply, connected, postgres>>
    BY <1>9 DEF ExecStatementOk, mapVars
  <2> QED BY <2>2, <2>3, <2>4 DEF TypeOK
<1>10. ASSUME NEW e \in Execs, ExecStatementErr(e) PROVE TypeOK'
  BY <1>10, SMTT(30) DEF TypeOK, ExecStatementErr, Goto, mapVars, PcStates, TxnStates
<1>11. ASSUME NEW e \in Execs, ExecFail(e) PROVE TypeOK'
  BY <1>11, SMTT(30) DEF TypeOK, ExecFail, ShouldRollback, Goto, Answer, Release, dbVars, PcStates, Replies
<1>12. ASSUME NEW e \in Execs, ExecRelease(e) PROVE TypeOK'
  BY <1>12 DEF TypeOK, ExecRelease, Goto, Release, mapVars, dbVars, PcStates
<1>13. ASSUME NEW e \in Execs, ExecFinish(e) PROVE TypeOK'
  <2>1. (busy \in [Sessions -> BOOLEAN])'
    <3>1. busy \in [Sessions -> BOOLEAN] /\ (busy' = busy \/ busy' = [busy EXCEPT ![Target[e]] = FALSE])
      BY <1>13 DEF TypeOK, ExecFinish, ClearBusy
    <3> QED BY <3>1
  <2>2. (idle \in [Sessions -> 0 .. Timeout + 1])'
    <3>1. idle' = idle \/ idle' = [idle EXCEPT ![Target[e]] = 0]
      BY <1>13 DEF ExecFinish
    <3> QED BY <3>1 DEF TypeOK
  <2>3. (pc \in [Tasks -> PcStates])'
    BY <1>13 DEF TypeOK, ExecFinish, Spawned, Goto, PcStates
  <2>4. (reply \in [Tasks -> Replies])'
    BY <1>13 DEF TypeOK, ExecFinish, Answer, Replies
  <2>5. (timer \in [Watchers -> 0 .. Timeout])'
    BY <1>13 DEF TypeOK, ExecFinish
  <2>6. UNCHANGED <<live, opened, dbVars, holder, step, connected, postgres>>
    BY <1>13 DEF ExecFinish
  <2> QED BY <2>1, <2>2, <2>3, <2>4, <2>5, <2>6 DEF TypeOK, dbVars
<1>14. ASSUME NEW c \in Commits, CommitTake(c) PROVE TypeOK'
  BY <1>14, SMTT(30) DEF TypeOK, CommitTake, TakeSession, Remove, Goto, Answer, dbVars, PcStates, Replies
<1>15. ASSUME NEW c \in Commits, CommitLock(c) PROVE TypeOK'
  BY <1>15 DEF TypeOK, CommitLock, Goto, Acquire, mapVars, dbVars, PcStates
<1>16. ASSUME NEW c \in Commits, CommitFinish(c) PROVE TypeOK'
  <2>1. /\ pc' = [pc EXCEPT ![c] = "done"]
        /\ holder' = [holder EXCEPT ![Target[c]] = NoTask]
        /\ pend' = [pend EXCEPT ![Target[c]] = {}]
        /\ \E r \in {"ok", "err"} : reply' = [reply EXCEPT ![c] = r]
        /\ \E x \in {"none", "lost"} : txn' = [txn EXCEPT ![Target[c]] = x]
        /\ durable' = durable \/ durable' = durable \cup pend[Target[c]]
        /\ UNCHANGED <<mapVars, auto, step, timer, connected, postgres>>
    BY <1>16 DEF TypeOK, CommitFinish, ServerCommit, ServerReply, Goto, Answer, Release
  <2>2. (pc \in [Tasks -> PcStates] /\ reply \in [Tasks -> Replies])'
    BY <2>1 DEF TypeOK, PcStates, Replies
  <2>3. (txn \in [Sessions -> TxnStates] /\ holder \in [Sessions -> Tasks \cup {NoTask}])'
    BY <2>1 DEF TypeOK, TxnStates
  <2>4. (pend \in [Sessions -> SUBSET Statements] /\ durable \subseteq Statements)'
    BY <2>1 DEF TypeOK
  <2> QED BY <2>1, <2>2, <2>3, <2>4 DEF TypeOK, mapVars
<1>17. ASSUME NEW r \in Rollbacks, RollbackTake(r) PROVE TypeOK'
  BY <1>17, SMTT(30) DEF TypeOK, RollbackTake, TakeSession, Remove, Goto, Answer, dbVars, PcStates, Replies
<1>18. ASSUME NEW t \in Tasks, LockForRollback(t) PROVE TypeOK'
  BY <1>18 DEF TypeOK, LockForRollback, Goto, Acquire, mapVars, dbVars, PcStates
<1>19. ASSUME NEW t \in Tasks, FinishRollback(t) PROVE TypeOK'
  <2>1. (txn \in [Sessions -> TxnStates] /\ pend \in [Sessions -> SUBSET Statements])'
    BY <1>19 DEF TypeOK, FinishRollback, ServerRollback, TxnStates
  <2>2. (holder \in [Sessions -> Tasks \cup {NoTask}] /\ pc \in [Tasks -> PcStates])'
    BY <1>19 DEF TypeOK, FinishRollback, Goto, Release, PcStates
  <2>3. (reply \in [Tasks -> Replies])'
    BY <1>19 DEF TypeOK, FinishRollback, ServerReply, Answer, Replies
  <2>4. UNCHANGED <<live, opened, busy, idle, durable, auto, step, timer, connected, postgres>>
    BY <1>19 DEF FinishRollback, ServerRollback, mapVars
  <2> QED BY <2>1, <2>2, <2>3, <2>4 DEF TypeOK
<1>20. ASSUME NEW w \in Watchers, WatcherWake(w) PROVE TypeOK'
  BY <1>20, SMTT(30) DEF TypeOK, WatcherWake, Remove, IsBusy, Goto, dbVars, PcStates
<1>21. CASE Tick
  BY <1>21 DEF TypeOK, Tick, dbVars
<1>22. CASE DisconnectDb
  BY <1>22 DEF TypeOK, DisconnectDb, mapVars, dbVars
<1> QED
  BY <1>1, <1>2, <1>3, <1>4, <1>5, <1>6, <1>7, <1>8, <1>9, <1>10, <1>11, <1>12, <1>13, <1>14,
     <1>15, <1>16, <1>17, <1>18, <1>19, <1>20, <1>21, <1>22, NextCases

(***************************************************************************)
(* Every reachable state is well typed; in particular an execute call never *)
(* runs past the end of its script and a clock never passes its bound.      *)
(***************************************************************************)
THEOREM TypeCorrect == Spec => []TypeOK
<1>1. Init => TypeOK
  BY SessionAssumption DEF Init, TypeOK, TxnStates, PcStates, Replies, Statements
<1>2. TypeOK /\ [Next]_vars => TypeOK'
  BY TypeInductive
<1> QED
  BY <1>1, <1>2, PTL DEF Spec

----------------------------------------------------------------------------
(***************************************************************************)
(* The inductive invariant.  It says of every task which labels it can be   *)
(* at, ties the connection mutex and the busy flag to the labels, and keeps *)
(* the properties in a pointwise form.                                      *)
(***************************************************************************)
Owning(t) == pc[t] \in {"clock", "commit", "rlock", "rollback"}
InExec(e) == pc[e] \in {"clone", "lock", "run", "fail", "finish"}
Holding(t) == pc[t] \in {"run", "fail", "commit", "rollback"}

LabelInv ==
    /\ \A c \in Commits : pc[c] \in {"idle", "clock", "commit", "done"}
    /\ \A r \in Rollbacks : pc[r] \in {"idle", "rlock", "rollback", "done"}
    /\ \A w \in Watchers : pc[w] \in {"idle", "sleep", "rlock", "rollback", "done"}
    /\ \A e \in Execs : pc[e] \notin {"clock", "commit", "sleep"}

MutexInv == \A t \in Tasks : Holding(t) <=> holder[Target[t]] = t

\* Nothing happens to a session before begin returns its id; a watcher is
\* spawned once, by its own begin or by its own execute call.
OpenedInv ==
    /\ \A t \in Tasks : pc[t] # "idle" => Target[t] \in opened
    /\ \A s \in opened : txn[s] # "new"
    /\ \A e \in Execs : pc[Watch(e)] # "idle" => pc[e] = "done"

OwnerInv ==
    /\ \A t \in Tasks : Owning(t) => Target[t] \notin live
    /\ \A t, u \in Tasks : Owning(t) /\ Owning(u) /\ Target[t] = Target[u] => t = u

ExecInv ==
    /\ \A d, e \in Execs : InExec(d) /\ InExec(e) /\ Target[d] = Target[e] => d = e
    /\ \A e \in Execs : InExec(e) /\ Target[e] \in live => busy[Target[e]]
    /\ \A s \in live : busy[s] => \E e \in Execs : InExec(e) /\ Target[e] = s

\* Uncommitted statements exist only inside an open transaction, and a session
\* out of the map is out of its transaction once its owner is done.
CleanInv ==
    /\ \A s \in Sessions : pend[s] # {} => txn[s] = "open"
    /\ \A s \in opened \ live : \/ \E t \in Tasks : Owning(t) /\ Target[t] = s
                                \/ txn[s] \in {"none", "lost"}

ControlInv == LabelInv /\ MutexInv /\ OpenedInv /\ OwnerInv /\ ExecInv
IInv == TypeOK /\ ControlInv /\ IdleIsWatched /\ CleanInv

\* A step moves a task only along the labels of its own kind.
LEMMA LabelInductive ==
    ASSUME TypeOK, LabelInv, [Next]_vars
    PROVE  LabelInv'
<1> USE TaskAssumption, WatchTasks DEF LabelInv, Calls
<1>0. pc \in [Tasks -> PcStates]
  BY DEF TypeOK
<1>1. CASE UNCHANGED vars
  BY <1>1 DEF vars, mapVars, dbVars
<1>2. ASSUME NEW s \in Sessions, BeginManualTransaction(s) PROVE LabelInv'
  BY <1>0, <1>2 DEF BeginManualTransaction, Spawned
<1>3. ASSUME NEW s \in Sessions, BeginFailsOnSchema(s) PROVE LabelInv'
  BY <1>0, <1>3 DEF BeginFailsOnSchema
<1>4. ASSUME NEW s \in Sessions, ConnectionLost(s) PROVE LabelInv'
  BY <1>0, <1>4 DEF ConnectionLost, mapVars
<1>5. ASSUME NEW e \in Execs, ExecLookup(e) PROVE LabelInv'
  BY <1>0, <1>5 DEF ExecLookup, Goto, mapVars, dbVars
<1>6. ASSUME NEW e \in Execs, ExecMark(e) PROVE LabelInv'
  BY <1>0, <1>6 DEF ExecMark, Remove, IsBusy, Goto, dbVars
<1>7. ASSUME NEW e \in Execs, ExecClone(e) PROVE LabelInv'
  BY <1>0, <1>7 DEF ExecClone, Goto, mapVars, dbVars
<1>8. ASSUME NEW e \in Execs, ExecLock(e) PROVE LabelInv'
  BY <1>0, <1>8 DEF ExecLock, Goto, Acquire, mapVars, dbVars
<1>9. ASSUME NEW e \in Execs, ExecStatementOk(e) PROVE LabelInv'
  BY <1>0, <1>9 DEF ExecStatementOk, mapVars
<1>10. ASSUME NEW e \in Execs, ExecStatementErr(e) PROVE LabelInv'
  BY <1>0, <1>10 DEF ExecStatementErr, Goto, mapVars
<1>11. ASSUME NEW e \in Execs, ExecFail(e) PROVE LabelInv'
  BY <1>0, <1>11 DEF ExecFail, ShouldRollback, Goto, Release, dbVars
<1>12. ASSUME NEW e \in Execs, ExecRelease(e) PROVE LabelInv'
  BY <1>0, <1>12 DEF ExecRelease, Goto, Release, mapVars, dbVars
<1>13. ASSUME NEW e \in Execs, ExecFinish(e) PROVE LabelInv'
  BY <1>0, <1>13 DEF ExecFinish, Spawned, ClearBusy, Goto, dbVars
<1>14. ASSUME NEW c \in Commits, CommitTake(c) PROVE LabelInv'
  BY <1>0, <1>14 DEF CommitTake, TakeSession, Remove, Goto, dbVars
<1>15. ASSUME NEW c \in Commits, CommitLock(c) PROVE LabelInv'
  BY <1>0, <1>15 DEF CommitLock, Goto, Acquire, mapVars, dbVars
<1>16. ASSUME NEW c \in Commits, CommitFinish(c) PROVE LabelInv'
  BY <1>0, <1>16 DEF CommitFinish, ServerCommit, Goto, Release, mapVars
<1>17. ASSUME NEW r \in Rollbacks, RollbackTake(r) PROVE LabelInv'
  BY <1>0, <1>17 DEF RollbackTake, TakeSession, Remove, Goto, dbVars
<1>18. ASSUME NEW t \in Tasks, LockForRollback(t) PROVE LabelInv'
  BY <1>0, <1>18 DEF LockForRollback, Goto, Acquire, mapVars, dbVars
<1>19. ASSUME NEW t \in Tasks, FinishRollback(t) PROVE LabelInv'
  BY <1>0, <1>19 DEF FinishRollback, ServerRollback, Goto, Release, mapVars
<1>20. ASSUME NEW w \in Watchers, WatcherWake(w) PROVE LabelInv'
  BY <1>0, <1>20 DEF WatcherWake, Remove, IsBusy, Goto, dbVars
<1>21. CASE Tick
  BY <1>0, <1>21 DEF Tick, dbVars
<1>22. CASE DisconnectDb
  BY <1>0, <1>22 DEF DisconnectDb, mapVars, dbVars
<1> QED
  BY <1>1, <1>2, <1>3, <1>4, <1>5, <1>6, <1>7, <1>8, <1>9, <1>10, <1>11, <1>12, <1>13, <1>14, <1>15, <1>16, <1>17, <1>18, <1>19, <1>20, <1>21, <1>22, NextCases

\* A step touches a session only after begin returned its id.
LEMMA OpenedInductive ==
    ASSUME TypeOK, LabelInv, OpenedInv, [Next]_vars
    PROVE  OpenedInv'
<1> USE TaskAssumption, TargetAssumption, WatchTasks DEF LabelInv, OpenedInv, Calls
<1>0. pc \in [Tasks -> PcStates] /\ txn \in [Sessions -> TxnStates] /\ live \subseteq opened /\ opened \subseteq Sessions
  BY DEF TypeOK
<1>1. CASE UNCHANGED vars
  BY <1>1 DEF vars, mapVars, dbVars
<1>2. ASSUME NEW s \in Sessions, BeginManualTransaction(s) PROVE OpenedInv'
  BY <1>0, <1>2 DEF BeginManualTransaction, Spawned
<1>3. ASSUME NEW s \in Sessions, BeginFailsOnSchema(s) PROVE OpenedInv'
  BY <1>0, <1>3 DEF BeginFailsOnSchema
<1>4. ASSUME NEW s \in Sessions, ConnectionLost(s) PROVE OpenedInv'
  BY <1>0, <1>4 DEF ConnectionLost, mapVars
<1>5. ASSUME NEW e \in Execs, ExecLookup(e) PROVE OpenedInv'
  BY <1>0, <1>5 DEF ExecLookup, Goto, mapVars, dbVars
<1>6. ASSUME NEW e \in Execs, ExecMark(e) PROVE OpenedInv'
  BY <1>0, <1>6 DEF ExecMark, Remove, IsBusy, Goto, dbVars
<1>7. ASSUME NEW e \in Execs, ExecClone(e) PROVE OpenedInv'
  BY <1>0, <1>7 DEF ExecClone, Goto, mapVars, dbVars
<1>8. ASSUME NEW e \in Execs, ExecLock(e) PROVE OpenedInv'
  BY <1>0, <1>8 DEF ExecLock, Goto, Acquire, mapVars, dbVars
<1>9. ASSUME NEW e \in Execs, ExecStatementOk(e) PROVE OpenedInv'
  BY <1>0, <1>9 DEF ExecStatementOk, mapVars
<1>10. ASSUME NEW e \in Execs, ExecStatementErr(e) PROVE OpenedInv'
  BY <1>0, <1>10 DEF ExecStatementErr, Goto, mapVars
<1>11. ASSUME NEW e \in Execs, ExecFail(e) PROVE OpenedInv'
  BY <1>0, <1>11 DEF ExecFail, ShouldRollback, Goto, Release, dbVars
<1>12. ASSUME NEW e \in Execs, ExecRelease(e) PROVE OpenedInv'
  BY <1>0, <1>12 DEF ExecRelease, Goto, Release, mapVars, dbVars
<1>13. ASSUME NEW e \in Execs, ExecFinish(e) PROVE OpenedInv'
  BY <1>0, <1>13 DEF ExecFinish, Spawned, ClearBusy, Goto, dbVars
<1>14. ASSUME NEW c \in Commits, CommitTake(c) PROVE OpenedInv'
  BY <1>0, <1>14 DEF CommitTake, TakeSession, Remove, Goto, dbVars
<1>15. ASSUME NEW c \in Commits, CommitLock(c) PROVE OpenedInv'
  BY <1>0, <1>15 DEF CommitLock, Goto, Acquire, mapVars, dbVars
<1>16. ASSUME NEW c \in Commits, CommitFinish(c) PROVE OpenedInv'
  BY <1>0, <1>16 DEF CommitFinish, ServerCommit, Goto, Release, mapVars
<1>17. ASSUME NEW r \in Rollbacks, RollbackTake(r) PROVE OpenedInv'
  BY <1>0, <1>17 DEF RollbackTake, TakeSession, Remove, Goto, dbVars
<1>18. ASSUME NEW t \in Tasks, LockForRollback(t) PROVE OpenedInv'
  BY <1>0, <1>18 DEF LockForRollback, Goto, Acquire, mapVars, dbVars
<1>19. ASSUME NEW t \in Tasks, FinishRollback(t) PROVE OpenedInv'
  BY <1>0, <1>19 DEF FinishRollback, ServerRollback, Goto, Release, mapVars
<1>20. ASSUME NEW w \in Watchers, WatcherWake(w) PROVE OpenedInv'
  BY <1>0, <1>20 DEF WatcherWake, Remove, IsBusy, Goto, dbVars
<1>21. CASE Tick
  BY <1>0, <1>21 DEF Tick, dbVars
<1>22. CASE DisconnectDb
  BY <1>0, <1>22 DEF DisconnectDb, mapVars, dbVars
<1> QED
  BY <1>1, <1>2, <1>3, <1>4, <1>5, <1>6, <1>7, <1>8, <1>9, <1>10, <1>11, <1>12, <1>13, <1>14, <1>15, <1>16, <1>17, <1>18, <1>19, <1>20, <1>21, <1>22, NextCases

\* A step keeps the connection mutex with the task whose label says so.
LEMMA MutexInductive ==
    ASSUME TypeOK, LabelInv, OpenedInv, MutexInv, [Next]_vars
    PROVE  MutexInv'
<1> USE SessionAssumption, TaskAssumption, TargetAssumption, WatchTasks DEF LabelInv, OpenedInv, MutexInv, Holding
<1>0. pc \in [Tasks -> PcStates] /\ holder \in [Sessions -> Tasks \cup {NoTask}]
  BY DEF TypeOK
<1>1. CASE UNCHANGED vars
  BY <1>1 DEF vars, mapVars, dbVars
<1>2. ASSUME NEW s \in Sessions, BeginManualTransaction(s) PROVE MutexInv'
  BY <1>0, <1>2 DEF BeginManualTransaction, Spawned
<1>3. ASSUME NEW s \in Sessions, BeginFailsOnSchema(s) PROVE MutexInv'
  BY <1>0, <1>3 DEF BeginFailsOnSchema
<1>4. ASSUME NEW s \in Sessions, ConnectionLost(s) PROVE MutexInv'
  BY <1>0, <1>4 DEF ConnectionLost, mapVars
<1>5. ASSUME NEW e \in Execs, ExecLookup(e) PROVE MutexInv'
  BY <1>0, <1>5 DEF ExecLookup, Goto, mapVars, dbVars
<1>6. ASSUME NEW e \in Execs, ExecMark(e) PROVE MutexInv'
  BY <1>0, <1>6 DEF ExecMark, Remove, IsBusy, Goto, dbVars
<1>7. ASSUME NEW e \in Execs, ExecClone(e) PROVE MutexInv'
  BY <1>0, <1>7 DEF ExecClone, Goto, mapVars, dbVars
<1>8. ASSUME NEW e \in Execs, ExecLock(e) PROVE MutexInv'
  BY <1>0, <1>8 DEF ExecLock, Goto, Acquire, mapVars, dbVars
<1>9. ASSUME NEW e \in Execs, ExecStatementOk(e) PROVE MutexInv'
  BY <1>0, <1>9 DEF ExecStatementOk, mapVars
<1>10. ASSUME NEW e \in Execs, ExecStatementErr(e) PROVE MutexInv'
  BY <1>0, <1>10 DEF ExecStatementErr, Goto, mapVars
<1>11. ASSUME NEW e \in Execs, ExecFail(e) PROVE MutexInv'
  BY <1>0, <1>11 DEF ExecFail, ShouldRollback, Goto, Release, dbVars
<1>12. ASSUME NEW e \in Execs, ExecRelease(e) PROVE MutexInv'
  BY <1>0, <1>12 DEF ExecRelease, Goto, Release, mapVars, dbVars
<1>13. ASSUME NEW e \in Execs, ExecFinish(e) PROVE MutexInv'
  BY <1>0, <1>13 DEF ExecFinish, Spawned, ClearBusy, Goto, dbVars
<1>14. ASSUME NEW c \in Commits, CommitTake(c) PROVE MutexInv'
  BY <1>0, <1>14 DEF CommitTake, TakeSession, Remove, Goto, dbVars
<1>15. ASSUME NEW c \in Commits, CommitLock(c) PROVE MutexInv'
  BY <1>0, <1>15 DEF CommitLock, Goto, Acquire, mapVars, dbVars
<1>16. ASSUME NEW c \in Commits, CommitFinish(c) PROVE MutexInv'
  BY <1>0, <1>16 DEF CommitFinish, ServerCommit, Goto, Release, mapVars
<1>17. ASSUME NEW r \in Rollbacks, RollbackTake(r) PROVE MutexInv'
  BY <1>0, <1>17 DEF RollbackTake, TakeSession, Remove, Goto, dbVars
<1>18. ASSUME NEW t \in Tasks, LockForRollback(t) PROVE MutexInv'
  BY <1>0, <1>18 DEF LockForRollback, Goto, Acquire, mapVars, dbVars
<1>19. ASSUME NEW t \in Tasks, FinishRollback(t) PROVE MutexInv'
  BY <1>0, <1>19 DEF FinishRollback, ServerRollback, Goto, Release, mapVars
<1>20. ASSUME NEW w \in Watchers, WatcherWake(w) PROVE MutexInv'
  BY <1>0, <1>20 DEF WatcherWake, Remove, IsBusy, Goto, dbVars
<1>21. CASE Tick
  BY <1>0, <1>21 DEF Tick, dbVars
<1>22. CASE DisconnectDb
  BY <1>0, <1>22 DEF DisconnectDb, mapVars, dbVars
<1> QED
  BY <1>1, <1>2, <1>3, <1>4, <1>5, <1>6, <1>7, <1>8, <1>9, <1>10, <1>11, <1>12, <1>13, <1>14, <1>15, <1>16, <1>17, <1>18, <1>19, <1>20, <1>21, <1>22, NextCases

\* A step leaves a session with at most one owner, none while in the map.
LEMMA OwnerInductive ==
    ASSUME TypeOK, LabelInv, OpenedInv, OwnerInv, [Next]_vars
    PROVE  OwnerInv'
<1> USE TaskAssumption, TargetAssumption, WatchTasks DEF LabelInv, OpenedInv, OwnerInv, Owning
<1>0. pc \in [Tasks -> PcStates] /\ live \subseteq opened
  BY DEF TypeOK
<1>1. CASE UNCHANGED vars
  BY <1>1 DEF vars, mapVars, dbVars
<1>2. ASSUME NEW s \in Sessions, BeginManualTransaction(s) PROVE OwnerInv'
  BY <1>0, <1>2 DEF BeginManualTransaction, Spawned
<1>3. ASSUME NEW s \in Sessions, BeginFailsOnSchema(s) PROVE OwnerInv'
  BY <1>0, <1>3 DEF BeginFailsOnSchema
<1>4. ASSUME NEW s \in Sessions, ConnectionLost(s) PROVE OwnerInv'
  BY <1>0, <1>4 DEF ConnectionLost, mapVars
<1>5. ASSUME NEW e \in Execs, ExecLookup(e) PROVE OwnerInv'
  BY <1>0, <1>5 DEF ExecLookup, Goto, mapVars, dbVars
<1>6. ASSUME NEW e \in Execs, ExecMark(e) PROVE OwnerInv'
  BY <1>0, <1>6 DEF ExecMark, Remove, IsBusy, Goto, dbVars
<1>7. ASSUME NEW e \in Execs, ExecClone(e) PROVE OwnerInv'
  BY <1>0, <1>7 DEF ExecClone, Goto, mapVars, dbVars
<1>8. ASSUME NEW e \in Execs, ExecLock(e) PROVE OwnerInv'
  BY <1>0, <1>8 DEF ExecLock, Goto, Acquire, mapVars, dbVars
<1>9. ASSUME NEW e \in Execs, ExecStatementOk(e) PROVE OwnerInv'
  BY <1>0, <1>9 DEF ExecStatementOk, mapVars
<1>10. ASSUME NEW e \in Execs, ExecStatementErr(e) PROVE OwnerInv'
  BY <1>0, <1>10 DEF ExecStatementErr, Goto, mapVars
<1>11. ASSUME NEW e \in Execs, ExecFail(e) PROVE OwnerInv'
  BY <1>0, <1>11 DEF ExecFail, ShouldRollback, Goto, Release, dbVars
<1>12. ASSUME NEW e \in Execs, ExecRelease(e) PROVE OwnerInv'
  BY <1>0, <1>12 DEF ExecRelease, Goto, Release, mapVars, dbVars
<1>13. ASSUME NEW e \in Execs, ExecFinish(e) PROVE OwnerInv'
  BY <1>0, <1>13 DEF ExecFinish, Spawned, ClearBusy, Goto, dbVars
<1>14. ASSUME NEW c \in Commits, CommitTake(c) PROVE OwnerInv'
  BY <1>0, <1>14 DEF CommitTake, TakeSession, Remove, Goto, dbVars
<1>15. ASSUME NEW c \in Commits, CommitLock(c) PROVE OwnerInv'
  BY <1>0, <1>15 DEF CommitLock, Goto, Acquire, mapVars, dbVars
<1>16. ASSUME NEW c \in Commits, CommitFinish(c) PROVE OwnerInv'
  BY <1>0, <1>16 DEF CommitFinish, ServerCommit, Goto, Release, mapVars
<1>17. ASSUME NEW r \in Rollbacks, RollbackTake(r) PROVE OwnerInv'
  BY <1>0, <1>17 DEF RollbackTake, TakeSession, Remove, Goto, dbVars
<1>18. ASSUME NEW t \in Tasks, LockForRollback(t) PROVE OwnerInv'
  BY <1>0, <1>18 DEF LockForRollback, Goto, Acquire, mapVars, dbVars
<1>19. ASSUME NEW t \in Tasks, FinishRollback(t) PROVE OwnerInv'
  BY <1>0, <1>19 DEF FinishRollback, ServerRollback, Goto, Release, mapVars
<1>20. ASSUME NEW w \in Watchers, WatcherWake(w) PROVE OwnerInv'
  BY <1>0, <1>20 DEF WatcherWake, Remove, IsBusy, Goto, dbVars
<1>21. CASE Tick
  BY <1>0, <1>21 DEF Tick, dbVars
<1>22. CASE DisconnectDb
  BY <1>0, <1>22 DEF DisconnectDb, mapVars, dbVars
<1> QED
  BY <1>1, <1>2, <1>3, <1>4, <1>5, <1>6, <1>7, <1>8, <1>9, <1>10, <1>11, <1>12, <1>13, <1>14, <1>15, <1>16, <1>17, <1>18, <1>19, <1>20, <1>21, <1>22, NextCases

\* A step keeps the busy flag in line with the execute calls.
LEMMA ExecInductive ==
    ASSUME TypeOK, LabelInv, OpenedInv, ExecInv, [Next]_vars
    PROVE  ExecInv'
<1> USE TaskAssumption, TargetAssumption, WatchTasks DEF LabelInv, OpenedInv, ExecInv, InExec
<1>0. pc \in [Tasks -> PcStates]
      /\ live \subseteq opened /\ opened \subseteq Sessions /\ busy \in [Sessions -> BOOLEAN]
  BY DEF TypeOK
<1>1. CASE UNCHANGED vars
  BY <1>1 DEF vars, mapVars, dbVars
<1>2. ASSUME NEW s \in Sessions, BeginManualTransaction(s) PROVE ExecInv'
  BY <1>0, <1>2 DEF BeginManualTransaction, Spawned
<1>3. ASSUME NEW s \in Sessions, BeginFailsOnSchema(s) PROVE ExecInv'
  BY <1>0, <1>3 DEF BeginFailsOnSchema
<1>4. ASSUME NEW s \in Sessions, ConnectionLost(s) PROVE ExecInv'
  BY <1>0, <1>4 DEF ConnectionLost, mapVars
<1>5. ASSUME NEW e \in Execs, ExecLookup(e) PROVE ExecInv'
  BY <1>0, <1>5 DEF ExecLookup, Goto, mapVars, dbVars
<1>6. ASSUME NEW e \in Execs, ExecMark(e) PROVE ExecInv'
  BY <1>0, <1>6 DEF ExecMark, Remove, IsBusy, Goto, dbVars
<1>7. ASSUME NEW e \in Execs, ExecClone(e) PROVE ExecInv'
  BY <1>0, <1>7 DEF ExecClone, Goto, mapVars, dbVars
<1>8. ASSUME NEW e \in Execs, ExecLock(e) PROVE ExecInv'
  BY <1>0, <1>8 DEF ExecLock, Goto, Acquire, mapVars, dbVars
<1>9. ASSUME NEW e \in Execs, ExecStatementOk(e) PROVE ExecInv'
  BY <1>0, <1>9 DEF ExecStatementOk, mapVars
<1>10. ASSUME NEW e \in Execs, ExecStatementErr(e) PROVE ExecInv'
  BY <1>0, <1>10 DEF ExecStatementErr, Goto, mapVars
<1>11. ASSUME NEW e \in Execs, ExecFail(e) PROVE ExecInv'
  BY <1>0, <1>11 DEF ExecFail, ShouldRollback, Goto, Release, dbVars
<1>12. ASSUME NEW e \in Execs, ExecRelease(e) PROVE ExecInv'
  BY <1>0, <1>12 DEF ExecRelease, Goto, Release, mapVars, dbVars
<1>13. ASSUME NEW e \in Execs, ExecFinish(e) PROVE ExecInv'
  BY <1>0, <1>13, SMTT(30) DEF ExecFinish, Spawned, ClearBusy, Goto, dbVars
<1>14. ASSUME NEW c \in Commits, CommitTake(c) PROVE ExecInv'
  BY <1>0, <1>14 DEF CommitTake, TakeSession, Remove, Goto, dbVars
<1>15. ASSUME NEW c \in Commits, CommitLock(c) PROVE ExecInv'
  BY <1>0, <1>15 DEF CommitLock, Goto, Acquire, mapVars, dbVars
<1>16. ASSUME NEW c \in Commits, CommitFinish(c) PROVE ExecInv'
  BY <1>0, <1>16 DEF CommitFinish, ServerCommit, Goto, Release, mapVars
<1>17. ASSUME NEW r \in Rollbacks, RollbackTake(r) PROVE ExecInv'
  BY <1>0, <1>17 DEF RollbackTake, TakeSession, Remove, Goto, dbVars
<1>18. ASSUME NEW t \in Tasks, LockForRollback(t) PROVE ExecInv'
  BY <1>0, <1>18 DEF LockForRollback, Goto, Acquire, mapVars, dbVars
<1>19. ASSUME NEW t \in Tasks, FinishRollback(t) PROVE ExecInv'
  BY <1>0, <1>19 DEF FinishRollback, ServerRollback, Goto, Release, mapVars
<1>20. ASSUME NEW w \in Watchers, WatcherWake(w) PROVE ExecInv'
  BY <1>0, <1>20 DEF WatcherWake, Remove, IsBusy, Goto, dbVars
<1>21. CASE Tick
  BY <1>0, <1>21 DEF Tick, dbVars
<1>22. CASE DisconnectDb
  BY <1>0, <1>22 DEF DisconnectDb, mapVars, dbVars
<1> QED
  BY <1>1, <1>2, <1>3, <1>4, <1>5, <1>6, <1>7, <1>8, <1>9, <1>10, <1>11, <1>12, <1>13, <1>14, <1>15, <1>16, <1>17, <1>18, <1>19, <1>20, <1>21, <1>22, NextCases

\* A step leaves every idle session with a watcher that will expire it.
LEMMA WatchedInductive ==
    ASSUME TypeOK, LabelInv, OpenedInv, ExecInv, IdleIsWatched, [Next]_vars
    PROVE  IdleIsWatched'
<1> USE SessionAssumption, TaskAssumption, TargetAssumption, WatchTasks DEF LabelInv, OpenedInv, IdleIsWatched
<1>0. pc \in [Tasks -> PcStates]
      /\ live \subseteq opened /\ opened \subseteq Sessions /\ busy \in [Sessions -> BOOLEAN]
      /\ idle \in [Sessions -> 0 .. Timeout + 1] /\ timer \in [Watchers -> 0 .. Timeout]
  BY DEF TypeOK
<1>1. CASE UNCHANGED vars
  BY <1>1 DEF vars, mapVars, dbVars
<1>2. ASSUME NEW s \in Sessions, BeginManualTransaction(s) PROVE IdleIsWatched'
  BY <1>0, <1>2 DEF BeginManualTransaction, Spawned
<1>3. ASSUME NEW s \in Sessions, BeginFailsOnSchema(s) PROVE IdleIsWatched'
  BY <1>0, <1>3 DEF BeginFailsOnSchema
<1>4. ASSUME NEW s \in Sessions, ConnectionLost(s) PROVE IdleIsWatched'
  BY <1>0, <1>4 DEF ConnectionLost, mapVars
<1>5. ASSUME NEW e \in Execs, ExecLookup(e) PROVE IdleIsWatched'
  BY <1>0, <1>5 DEF ExecLookup, Goto, mapVars, dbVars
<1>6. ASSUME NEW e \in Execs, ExecMark(e) PROVE IdleIsWatched'
  BY <1>0, <1>6 DEF ExecMark, Remove, IsBusy, Goto, dbVars
<1>7. ASSUME NEW e \in Execs, ExecClone(e) PROVE IdleIsWatched'
  BY <1>0, <1>7 DEF ExecClone, Goto, mapVars, dbVars
<1>8. ASSUME NEW e \in Execs, ExecLock(e) PROVE IdleIsWatched'
  BY <1>0, <1>8 DEF ExecLock, Goto, Acquire, mapVars, dbVars
<1>9. ASSUME NEW e \in Execs, ExecStatementOk(e) PROVE IdleIsWatched'
  BY <1>0, <1>9 DEF ExecStatementOk, mapVars
<1>10. ASSUME NEW e \in Execs, ExecStatementErr(e) PROVE IdleIsWatched'
  BY <1>0, <1>10 DEF ExecStatementErr, Goto, mapVars
<1>11. ASSUME NEW e \in Execs, ExecFail(e) PROVE IdleIsWatched'
  BY <1>0, <1>11 DEF ExecFail, ShouldRollback, Goto, Release, dbVars
<1>12. ASSUME NEW e \in Execs, ExecRelease(e) PROVE IdleIsWatched'
  BY <1>0, <1>12 DEF ExecRelease, Goto, Release, mapVars, dbVars
<1>13. ASSUME NEW e \in Execs, ExecFinish(e) PROVE IdleIsWatched'
  BY <1>0, <1>13 DEF ExecFinish, Spawned, ClearBusy, Goto, dbVars
<1>14. ASSUME NEW c \in Commits, CommitTake(c) PROVE IdleIsWatched'
  BY <1>0, <1>14 DEF CommitTake, TakeSession, Remove, Goto, dbVars
<1>15. ASSUME NEW c \in Commits, CommitLock(c) PROVE IdleIsWatched'
  BY <1>0, <1>15 DEF CommitLock, Goto, Acquire, mapVars, dbVars
<1>16. ASSUME NEW c \in Commits, CommitFinish(c) PROVE IdleIsWatched'
  BY <1>0, <1>16 DEF CommitFinish, ServerCommit, Goto, Release, mapVars
<1>17. ASSUME NEW r \in Rollbacks, RollbackTake(r) PROVE IdleIsWatched'
  BY <1>0, <1>17 DEF RollbackTake, TakeSession, Remove, Goto, dbVars
<1>18. ASSUME NEW t \in Tasks, LockForRollback(t) PROVE IdleIsWatched'
  BY <1>0, <1>18 DEF LockForRollback, Goto, Acquire, mapVars, dbVars
<1>19. ASSUME NEW t \in Tasks, FinishRollback(t) PROVE IdleIsWatched'
  BY <1>0, <1>19 DEF FinishRollback, ServerRollback, Goto, Release, mapVars
<1>20. ASSUME NEW w \in Watchers, WatcherWake(w) PROVE IdleIsWatched'
  BY <1>0, <1>20 DEF WatcherWake, Remove, IsBusy, Goto, dbVars
<1>21. CASE Tick
  <2> SUFFICES ASSUME NEW s \in live, ~busy[s]
               PROVE  \E w \in Watchers : Target[w] = s /\ pc[w] = "sleep"
                                         /\ timer'[w] + idle'[s] >= Timeout
    BY <1>21 DEF Tick
  <2>1. PICK w \in Watchers : Target[w] = s /\ pc[w] = "sleep" /\ timer[w] + idle[s] >= Timeout
    BY DEF IdleIsWatched
  <2>2. /\ idle'[s] = IF idle[s] > Timeout THEN idle[s] ELSE idle[s] + 1
        /\ timer'[w] = IF timer[w] > 0 THEN timer[w] - 1 ELSE timer[w]
        /\ idle[s] \in 0 .. Timeout + 1 /\ timer[w] \in 0 .. Timeout
    BY <1>0, <1>21, <2>1 DEF Tick
  <2>3. timer'[w] + idle'[s] >= Timeout
    BY <2>1, <2>2, SessionAssumption
  <2> QED BY <2>1, <2>3
<1>22. CASE DisconnectDb
  BY <1>0, <1>22 DEF DisconnectDb, mapVars, dbVars
<1> QED
  BY <1>1, <1>2, <1>3, <1>4, <1>5, <1>6, <1>7, <1>8, <1>9, <1>10, <1>11, <1>12, <1>13, <1>14, <1>15, <1>16, <1>17, <1>18, <1>19, <1>20, <1>21, <1>22, NextCases

\* A step leaves a transaction open only with a session or an owner to end it.
LEMMA CleanInductive ==
    ASSUME TypeOK, LabelInv, MutexInv, OpenedInv, OwnerInv, CleanInv, [Next]_vars
    PROVE  CleanInv'
<1> USE SessionAssumption, TaskAssumption, TargetAssumption, WatchTasks DEF LabelInv, OpenedInv, MutexInv, Holding, OwnerInv, Owning, CleanInv
<1>0. pc \in [Tasks -> PcStates] /\ txn \in [Sessions -> TxnStates]
      /\ pend \in [Sessions -> SUBSET Statements] /\ live \subseteq opened /\ opened \subseteq Sessions
  BY DEF TypeOK
<1>1. CASE UNCHANGED vars
  BY <1>1 DEF vars, mapVars, dbVars
<1>2. ASSUME NEW s \in Sessions, BeginManualTransaction(s) PROVE CleanInv'
  BY <1>0, <1>2 DEF BeginManualTransaction, Spawned
<1>3. ASSUME NEW s \in Sessions, BeginFailsOnSchema(s) PROVE CleanInv'
  BY <1>0, <1>3 DEF BeginFailsOnSchema
<1>4. ASSUME NEW s \in Sessions, ConnectionLost(s) PROVE CleanInv'
  BY <1>0, <1>4 DEF ConnectionLost, mapVars
<1>5. ASSUME NEW e \in Execs, ExecLookup(e) PROVE CleanInv'
  BY <1>0, <1>5 DEF ExecLookup, Goto, mapVars, dbVars
<1>6. ASSUME NEW e \in Execs, ExecMark(e) PROVE CleanInv'
  BY <1>0, <1>6 DEF ExecMark, Remove, IsBusy, Goto, dbVars
<1>7. ASSUME NEW e \in Execs, ExecClone(e) PROVE CleanInv'
  BY <1>0, <1>7 DEF ExecClone, Goto, mapVars, dbVars
<1>8. ASSUME NEW e \in Execs, ExecLock(e) PROVE CleanInv'
  BY <1>0, <1>8 DEF ExecLock, Goto, Acquire, mapVars, dbVars
<1>9. ASSUME NEW e \in Execs, ExecStatementOk(e) PROVE CleanInv'
  BY <1>0, <1>9 DEF ExecStatementOk, mapVars
<1>10. ASSUME NEW e \in Execs, ExecStatementErr(e) PROVE CleanInv'
  BY <1>0, <1>10 DEF ExecStatementErr, Goto, mapVars
<1>11. ASSUME NEW e \in Execs, ExecFail(e) PROVE CleanInv'
  BY <1>0, <1>11 DEF ExecFail, ShouldRollback, Goto, Release, dbVars
<1>12. ASSUME NEW e \in Execs, ExecRelease(e) PROVE CleanInv'
  BY <1>0, <1>12 DEF ExecRelease, Goto, Release, mapVars, dbVars
<1>13. ASSUME NEW e \in Execs, ExecFinish(e) PROVE CleanInv'
  BY <1>0, <1>13 DEF ExecFinish, Spawned, ClearBusy, Goto, dbVars
<1>14. ASSUME NEW c \in Commits, CommitTake(c) PROVE CleanInv'
  BY <1>0, <1>14 DEF CommitTake, TakeSession, Remove, Goto, dbVars
<1>15. ASSUME NEW c \in Commits, CommitLock(c) PROVE CleanInv'
  BY <1>0, <1>15 DEF CommitLock, Goto, Acquire, mapVars, dbVars
<1>16. ASSUME NEW c \in Commits, CommitFinish(c) PROVE CleanInv'
  BY <1>0, <1>16 DEF CommitFinish, ServerCommit, Goto, Release, mapVars
<1>17. ASSUME NEW r \in Rollbacks, RollbackTake(r) PROVE CleanInv'
  BY <1>0, <1>17 DEF RollbackTake, TakeSession, Remove, Goto, dbVars
<1>18. ASSUME NEW t \in Tasks, LockForRollback(t) PROVE CleanInv'
  BY <1>0, <1>18 DEF LockForRollback, Goto, Acquire, mapVars, dbVars
<1>19. ASSUME NEW t \in Tasks, FinishRollback(t) PROVE CleanInv'
  BY <1>0, <1>19 DEF FinishRollback, ServerRollback, Goto, Release, mapVars
<1>20. ASSUME NEW w \in Watchers, WatcherWake(w) PROVE CleanInv'
  BY <1>0, <1>20 DEF WatcherWake, Remove, IsBusy, Goto, dbVars
<1>21. CASE Tick
  BY <1>0, <1>21 DEF Tick, dbVars
<1>22. CASE DisconnectDb
  BY <1>0, <1>22 DEF DisconnectDb, mapVars, dbVars
<1> QED
  BY <1>1, <1>2, <1>3, <1>4, <1>5, <1>6, <1>7, <1>8, <1>9, <1>10, <1>11, <1>12, <1>13, <1>14, <1>15, <1>16, <1>17, <1>18, <1>19, <1>20, <1>21, <1>22, NextCases

(***************************************************************************)
(* The invariant holds initially and every step preserves it.               *)
(***************************************************************************)
THEOREM Invariance == Spec => []IInv
<1>1. Init => IInv
  <2> SUFFICES ASSUME Init PROVE IInv
    OBVIOUS
  <2>1. TypeOK
    BY SessionAssumption DEF Init, TypeOK, TxnStates, PcStates, Replies, Statements
  <2>2. LabelInv /\ MutexInv /\ OpenedInv /\ OwnerInv /\ ExecInv
    BY SessionAssumption, TargetAssumption, WatchTasks
    DEF Init, LabelInv, MutexInv, OpenedInv, OwnerInv, ExecInv, Holding, Owning, InExec
  <2>3. IdleIsWatched /\ CleanInv
    BY DEF Init, IdleIsWatched, CleanInv
  <2> QED BY <2>1, <2>2, <2>3 DEF IInv, ControlInv
<1>2. IInv /\ [Next]_vars => IInv'
  BY TypeInductive, LabelInductive, OpenedInductive, MutexInductive, OwnerInductive,
     ExecInductive, WatchedInductive, CleanInductive DEF IInv, ControlInv
<1> QED
  BY <1>1, <1>2, PTL DEF Spec

(***************************************************************************)
(* Whatever calls race on a session, at most one task ever ends it, and     *)
(* only after taking it out of the map.                                     *)
(***************************************************************************)
THEOREM OwnershipIsUnique == Spec => []SingleOwner
<1>1. IInv => SingleOwner
  BY DEF IInv, ControlInv, OwnerInv, Owning, SingleOwner, Owners
<1> QED BY <1>1, Invariance, PTL

(***************************************************************************)
(* At most one execute call is past the busy check of a session, and the    *)
(* busy flag of a session in the map is up exactly while one is.            *)
(***************************************************************************)
THEOREM ExecutorIsUnique == Spec => []OneExecutor
<1>1. IInv => OneExecutor
  <2> SUFFICES ASSUME IInv, NEW s \in Sessions
               PROVE  /\ \A d, e \in Executing(s) : d = e
                      /\ s \in live => (busy[s] <=> Executing(s) # {})
    BY DEF OneExecutor
  <2>1. \A d, e \in Executing(s) : d = e
    BY DEF IInv, ControlInv, ExecInv, InExec, Executing
  <2>2. ASSUME s \in live, busy[s] PROVE Executing(s) # {}
    BY <2>2 DEF IInv, ControlInv, ExecInv, InExec, Executing
  <2>3. ASSUME s \in live, Executing(s) # {} PROVE busy[s]
    BY <2>3 DEF IInv, ControlInv, ExecInv, InExec, Executing
  <2>4. busy[s] \in BOOLEAN
    BY DEF IInv, TypeOK
  <2> QED BY <2>1, <2>2, <2>3, <2>4
<1> QED BY <1>1, Invariance, PTL

(***************************************************************************)
(* A session nobody executes on always has a watcher left that will expire  *)
(* it, however its calls and its older watchers interleave.                 *)
(***************************************************************************)
THEOREM NoIdleSessionForgotten == Spec => []IdleIsWatched
<1>1. IInv => IdleIsWatched
  BY DEF IInv
<1> QED BY <1>1, Invariance, PTL

(***************************************************************************)
(* A connection is never handed back to the pool inside a transaction of a  *)
(* session.                                                                 *)
(***************************************************************************)
THEOREM ConnectionsReturnClean == Spec => []ReturnedClean
<1>1. IInv => ReturnedClean
  BY DEF IInv, CleanInv, Owning, ReturnedClean, Ended, Owners
<1> QED BY <1>1, Invariance, PTL


----------------------------------------------------------------------------
(***************************************************************************)
(* What commits and roll backs keep.  The strengthening follows a statement *)
(* from the execute call that ran it to the commit that makes it durable.   *)
(***************************************************************************)
\* A reply is given once, at the end of a call or, by an execute call that
\* failed, on the way into its roll back.
ReplyInv ==
    /\ \A c \in Commits : reply[c] \in {"ok", "err"} =>
           /\ pc[c] = "done" /\ Target[c] \notin live
           /\ \A t \in Tasks : Target[t] = Target[c] => ~Owning(t)
    /\ \A e \in Execs : reply[e] = "failed" => pc[e] \in {"rollback", "done"}
    /\ \A e \in Execs : reply[e] = "ok" => pc[e] = "done" /\ step[e] = Script[e]
    /\ \A e \in Execs : pc[e] = "finish" => step[e] = Script[e]
    /\ \A e \in Execs : pc[e] \in {"idle", "mark", "clone", "lock"} => step[e] = 0

\* A pending statement belongs to the session, and one that ran inside a
\* transaction is durable only after a commit call that reached the server.
PendInv ==
    /\ \A s \in Sessions : \A st \in pend[s] : Target[st[1]] = s
    /\ \A st \in durable \ auto :
           \E c \in Commits : Target[c] = Target[st[1]] /\ reply[c] \in {"ok", "err"}

\* The call took its session out of the map to commit it or to roll it back.
Took(t) ==
    \/ t \in Commits \cup Rollbacks /\ (Owning(t) \/ reply[t] \in {"ok", "err"})
    \/ t \in Execs /\ reply[t] = "expired"

\* A session is taken once for all: a taken one never returns to the map, so a
\* commit and a roll back never both take it.
TakenInv ==
    /\ \A t \in Tasks : Took(t) => Target[t] \notin live /\ pc[t] # "idle"
    /\ \A c \in Commits, t \in Rollbacks \cup Execs :
           Took(c) /\ Took(t) => Target[c] # Target[t]

\* A step never changes a reply, and gives a good one only at the end.
LEMMA ReplyInductive ==
    ASSUME TypeOK, LabelInv, OpenedInv, OwnerInv, ReplyInv, [Next]_vars
    PROVE  ReplyInv'
<1> USE SessionAssumption, TaskAssumption, TargetAssumption, WatchTasks DEF LabelInv, OpenedInv, OwnerInv, Owning, ReplyInv
<1>0. pc \in [Tasks -> PcStates] /\ reply \in [Tasks -> Replies]
      /\ step \in [Execs -> Nat] /\ (\A e \in Execs : step[e] <= Script[e])
      /\ live \subseteq opened
  BY DEF TypeOK
<1>1. CASE UNCHANGED vars
  BY <1>1 DEF vars, mapVars, dbVars
<1>2. ASSUME NEW s \in Sessions, BeginManualTransaction(s) PROVE ReplyInv'
  BY <1>0, <1>2 DEF BeginManualTransaction, Spawned
<1>3. ASSUME NEW s \in Sessions, BeginFailsOnSchema(s) PROVE ReplyInv'
  BY <1>0, <1>3 DEF BeginFailsOnSchema
<1>4. ASSUME NEW s \in Sessions, ConnectionLost(s) PROVE ReplyInv'
  BY <1>0, <1>4 DEF ConnectionLost, mapVars
<1>5. ASSUME NEW e \in Execs, ExecLookup(e) PROVE ReplyInv'
  BY <1>0, <1>5 DEF ExecLookup, Goto, mapVars, dbVars, Answer
<1>6. ASSUME NEW e \in Execs, ExecMark(e) PROVE ReplyInv'
  BY <1>0, <1>6, SMTT(30) DEF ExecMark, Remove, IsBusy, Goto, dbVars, Answer
<1>7. ASSUME NEW e \in Execs, ExecClone(e) PROVE ReplyInv'
  BY <1>0, <1>7 DEF ExecClone, Goto, mapVars, dbVars, Answer
<1>8. ASSUME NEW e \in Execs, ExecLock(e) PROVE ReplyInv'
  BY <1>0, <1>8 DEF ExecLock, Goto, Acquire, mapVars, dbVars
<1>9. ASSUME NEW e \in Execs, ExecStatementOk(e) PROVE ReplyInv'
  BY <1>0, <1>9 DEF ExecStatementOk, mapVars, MoreStatements
<1>10. ASSUME NEW e \in Execs, ExecStatementErr(e) PROVE ReplyInv'
  BY <1>0, <1>10 DEF ExecStatementErr, Goto, mapVars, MoreStatements
<1>11. ASSUME NEW e \in Execs, ExecFail(e) PROVE ReplyInv'
  BY <1>0, <1>11 DEF ExecFail, ShouldRollback, Goto, Release, dbVars, Answer
<1>12. ASSUME NEW e \in Execs, ExecRelease(e) PROVE ReplyInv'
  <2>1. step[e] \in Nat /\ Script[e] \in Nat /\ step[e] <= Script[e]
    BY <1>0, SessionAssumption
  <2>2. ~(step[e] < Script[e])
    BY <1>12 DEF ExecRelease, MoreStatements
  <2>3. step[e] = Script[e]
    BY ONLY <2>1, <2>2
  <2> QED
    BY <1>0, <1>12, <2>3 DEF ExecRelease, Goto, Release, mapVars, dbVars
<1>13. ASSUME NEW e \in Execs, ExecFinish(e) PROVE ReplyInv'
  BY <1>0, <1>13, SMTT(30) DEF ExecFinish, Spawned, ClearBusy, Goto, dbVars, Answer
<1>14. ASSUME NEW c \in Commits, CommitTake(c) PROVE ReplyInv'
  BY <1>0, <1>14 DEF CommitTake, TakeSession, Remove, Goto, dbVars, Answer
<1>15. ASSUME NEW c \in Commits, CommitLock(c) PROVE ReplyInv'
  BY <1>0, <1>15 DEF CommitLock, Goto, Acquire, mapVars, dbVars
<1>16. ASSUME NEW c \in Commits, CommitFinish(c) PROVE ReplyInv'
  BY <1>0, <1>16 DEF CommitFinish, ServerCommit, Goto, Release, mapVars, Answer, ServerReply
<1>17. ASSUME NEW r \in Rollbacks, RollbackTake(r) PROVE ReplyInv'
  BY <1>0, <1>17 DEF RollbackTake, TakeSession, Remove, Goto, dbVars, Answer
<1>18. ASSUME NEW t \in Tasks, LockForRollback(t) PROVE ReplyInv'
  BY <1>0, <1>18 DEF LockForRollback, Goto, Acquire, mapVars, dbVars
<1>19. ASSUME NEW t \in Tasks, FinishRollback(t) PROVE ReplyInv'
  BY <1>0, <1>19 DEF FinishRollback, ServerRollback, Goto, Release, mapVars, Answer, ServerReply
<1>20. ASSUME NEW w \in Watchers, WatcherWake(w) PROVE ReplyInv'
  BY <1>0, <1>20 DEF WatcherWake, Remove, IsBusy, Goto, dbVars
<1>21. CASE Tick
  BY <1>0, <1>21 DEF Tick, dbVars
<1>22. CASE DisconnectDb
  BY <1>0, <1>22 DEF DisconnectDb, mapVars, dbVars
<1> QED
  BY <1>1, <1>2, <1>3, <1>4, <1>5, <1>6, <1>7, <1>8, <1>9, <1>10, <1>11, <1>12, <1>13, <1>14, <1>15, <1>16, <1>17, <1>18, <1>19, <1>20, <1>21, <1>22, NextCases

\* A step makes transactional statements durable only through a commit.
LEMMA PendInductive ==
    ASSUME TypeOK, LabelInv, ReplyInv, PendInv, [Next]_vars
    PROVE  PendInv'
<1> USE SessionAssumption, TaskAssumption, TargetAssumption, WatchTasks DEF LabelInv, ReplyInv, PendInv
<1>0. pc \in [Tasks -> PcStates] /\ reply \in [Tasks -> Replies]
      /\ pend \in [Sessions -> SUBSET Statements] /\ durable \subseteq Statements
  BY DEF TypeOK
<1>1. CASE UNCHANGED vars
  BY <1>1 DEF vars, mapVars, dbVars
<1>2. ASSUME NEW s \in Sessions, BeginManualTransaction(s) PROVE PendInv'
  BY <1>0, <1>2 DEF BeginManualTransaction, Spawned
<1>3. ASSUME NEW s \in Sessions, BeginFailsOnSchema(s) PROVE PendInv'
  BY <1>0, <1>3 DEF BeginFailsOnSchema
<1>4. ASSUME NEW s \in Sessions, ConnectionLost(s) PROVE PendInv'
  BY <1>0, <1>4 DEF ConnectionLost, mapVars
<1>5. ASSUME NEW e \in Execs, ExecLookup(e) PROVE PendInv'
  BY <1>0, <1>5 DEF ExecLookup, Goto, mapVars, dbVars, Answer
<1>6. ASSUME NEW e \in Execs, ExecMark(e) PROVE PendInv'
  BY <1>0, <1>6 DEF ExecMark, Remove, IsBusy, Goto, dbVars, Answer
<1>7. ASSUME NEW e \in Execs, ExecClone(e) PROVE PendInv'
  BY <1>0, <1>7 DEF ExecClone, Goto, mapVars, dbVars, Answer
<1>8. ASSUME NEW e \in Execs, ExecLock(e) PROVE PendInv'
  BY <1>0, <1>8 DEF ExecLock, Goto, Acquire, mapVars, dbVars
<1>9. ASSUME NEW e \in Execs, ExecStatementOk(e) PROVE PendInv'
  BY <1>0, <1>9 DEF ExecStatementOk, mapVars, MoreStatements
<1>10. ASSUME NEW e \in Execs, ExecStatementErr(e) PROVE PendInv'
  BY <1>0, <1>10 DEF ExecStatementErr, Goto, mapVars, MoreStatements
<1>11. ASSUME NEW e \in Execs, ExecFail(e) PROVE PendInv'
  BY <1>0, <1>11 DEF ExecFail, ShouldRollback, Goto, Release, dbVars, Answer
<1>12. ASSUME NEW e \in Execs, ExecRelease(e) PROVE PendInv'
  BY <1>0, <1>12 DEF ExecRelease, Goto, Release, mapVars, dbVars, MoreStatements
<1>13. ASSUME NEW e \in Execs, ExecFinish(e) PROVE PendInv'
  BY <1>0, <1>13 DEF ExecFinish, Spawned, ClearBusy, Goto, dbVars, Answer
<1>14. ASSUME NEW c \in Commits, CommitTake(c) PROVE PendInv'
  BY <1>0, <1>14 DEF CommitTake, TakeSession, Remove, Goto, dbVars, Answer
<1>15. ASSUME NEW c \in Commits, CommitLock(c) PROVE PendInv'
  BY <1>0, <1>15 DEF CommitLock, Goto, Acquire, mapVars, dbVars
<1>16. ASSUME NEW c \in Commits, CommitFinish(c) PROVE PendInv'
  BY <1>0, <1>16, SMTT(30) DEF CommitFinish, ServerCommit, Goto, Release, mapVars, Answer, ServerReply
<1>17. ASSUME NEW r \in Rollbacks, RollbackTake(r) PROVE PendInv'
  BY <1>0, <1>17 DEF RollbackTake, TakeSession, Remove, Goto, dbVars, Answer
<1>18. ASSUME NEW t \in Tasks, LockForRollback(t) PROVE PendInv'
  BY <1>0, <1>18 DEF LockForRollback, Goto, Acquire, mapVars, dbVars
<1>19. ASSUME NEW t \in Tasks, FinishRollback(t) PROVE PendInv'
  BY <1>0, <1>19 DEF FinishRollback, ServerRollback, Goto, Release, mapVars, Answer, ServerReply
<1>20. ASSUME NEW w \in Watchers, WatcherWake(w) PROVE PendInv'
  BY <1>0, <1>20 DEF WatcherWake, Remove, IsBusy, Goto, dbVars
<1>21. CASE Tick
  BY <1>0, <1>21 DEF Tick, dbVars
<1>22. CASE DisconnectDb
  BY <1>0, <1>22 DEF DisconnectDb, mapVars, dbVars
<1> QED
  BY <1>1, <1>2, <1>3, <1>4, <1>5, <1>6, <1>7, <1>8, <1>9, <1>10, <1>11, <1>12, <1>13, <1>14, <1>15, <1>16, <1>17, <1>18, <1>19, <1>20, <1>21, <1>22, NextCases

\* A step takes a session only out of the map, which it never re-enters.
LEMMA TakenInductive ==
    ASSUME TypeOK, LabelInv, OpenedInv, TakenInv, [Next]_vars
    PROVE  TakenInv'
<1> USE TaskAssumption, TargetAssumption, WatchTasks DEF LabelInv, OpenedInv, TakenInv, Took, Owning, Calls
<1>0. pc \in [Tasks -> PcStates] /\ reply \in [Tasks -> Replies]
      /\ live \subseteq opened /\ opened \subseteq Sessions
  BY DEF TypeOK
<1>1. CASE UNCHANGED vars
  BY <1>1 DEF vars, mapVars, dbVars
<1>2. ASSUME NEW s \in Sessions, BeginManualTransaction(s) PROVE TakenInv'
  BY <1>0, <1>2 DEF BeginManualTransaction, Spawned
<1>3. ASSUME NEW s \in Sessions, BeginFailsOnSchema(s) PROVE TakenInv'
  BY <1>0, <1>3 DEF BeginFailsOnSchema
<1>4. ASSUME NEW s \in Sessions, ConnectionLost(s) PROVE TakenInv'
  BY <1>0, <1>4 DEF ConnectionLost, mapVars
<1>5. ASSUME NEW e \in Execs, ExecLookup(e) PROVE TakenInv'
  BY <1>0, <1>5 DEF ExecLookup, Goto, mapVars, dbVars, Answer
<1>6. ASSUME NEW e \in Execs, ExecMark(e) PROVE TakenInv'
  BY <1>0, <1>6 DEF ExecMark, Remove, IsBusy, Goto, dbVars, Answer
<1>7. ASSUME NEW e \in Execs, ExecClone(e) PROVE TakenInv'
  BY <1>0, <1>7 DEF ExecClone, Goto, mapVars, dbVars, Answer
<1>8. ASSUME NEW e \in Execs, ExecLock(e) PROVE TakenInv'
  BY <1>0, <1>8 DEF ExecLock, Goto, Acquire, mapVars, dbVars
<1>9. ASSUME NEW e \in Execs, ExecStatementOk(e) PROVE TakenInv'
  BY <1>0, <1>9 DEF ExecStatementOk, mapVars, MoreStatements
<1>10. ASSUME NEW e \in Execs, ExecStatementErr(e) PROVE TakenInv'
  BY <1>0, <1>10 DEF ExecStatementErr, Goto, mapVars, MoreStatements
<1>11. ASSUME NEW e \in Execs, ExecFail(e) PROVE TakenInv'
  BY <1>0, <1>11 DEF ExecFail, ShouldRollback, Goto, Release, dbVars, Answer
<1>12. ASSUME NEW e \in Execs, ExecRelease(e) PROVE TakenInv'
  BY <1>0, <1>12 DEF ExecRelease, Goto, Release, mapVars, dbVars, MoreStatements
<1>13. ASSUME NEW e \in Execs, ExecFinish(e) PROVE TakenInv'
  BY <1>0, <1>13 DEF ExecFinish, Spawned, ClearBusy, Goto, dbVars, Answer
<1>14. ASSUME NEW c \in Commits, CommitTake(c) PROVE TakenInv'
  BY <1>0, <1>14 DEF CommitTake, TakeSession, Remove, Goto, dbVars, Answer
<1>15. ASSUME NEW c \in Commits, CommitLock(c) PROVE TakenInv'
  BY <1>0, <1>15 DEF CommitLock, Goto, Acquire, mapVars, dbVars
<1>16. ASSUME NEW c \in Commits, CommitFinish(c) PROVE TakenInv'
  BY <1>0, <1>16, SMTT(30) DEF CommitFinish, ServerCommit, Goto, Release, mapVars, Answer, ServerReply
<1>17. ASSUME NEW r \in Rollbacks, RollbackTake(r) PROVE TakenInv'
  BY <1>0, <1>17 DEF RollbackTake, TakeSession, Remove, Goto, dbVars, Answer
<1>18. ASSUME NEW t \in Tasks, LockForRollback(t) PROVE TakenInv'
  BY <1>0, <1>18 DEF LockForRollback, Goto, Acquire, mapVars, dbVars
<1>19. ASSUME NEW t \in Tasks, FinishRollback(t) PROVE TakenInv'
  BY <1>0, <1>19 DEF FinishRollback, ServerRollback, Goto, Release, mapVars, Answer, ServerReply
<1>20. ASSUME NEW w \in Watchers, WatcherWake(w) PROVE TakenInv'
  BY <1>0, <1>20 DEF WatcherWake, Remove, IsBusy, Goto, dbVars
<1>21. CASE Tick
  BY <1>0, <1>21 DEF Tick, dbVars
<1>22. CASE DisconnectDb
  BY <1>0, <1>22 DEF DisconnectDb, mapVars, dbVars
<1> QED
  BY <1>1, <1>2, <1>3, <1>4, <1>5, <1>6, <1>7, <1>8, <1>9, <1>10, <1>11, <1>12, <1>13, <1>14, <1>15, <1>16, <1>17, <1>18, <1>19, <1>20, <1>21, <1>22, NextCases

(***************************************************************************)
(* A session reported as rolled back, by a roll back call, an execute call  *)
(* that met it expired or a failed execute call with no commit before it,   *)
(* never has a statement of its transaction durable.                        *)
(***************************************************************************)
THEOREM RolledBackStaysGone == Spec => []RolledBackIsGone
<1>1. Init => ReplyInv /\ PendInv /\ TakenInv
  BY SessionAssumption, WatchTasks, TaskAssumption
     DEF Init, ReplyInv, PendInv, TakenInv, Took, Owning, Calls
<1>2. IInv /\ ReplyInv /\ PendInv /\ TakenInv /\ [Next]_vars
        => ReplyInv' /\ PendInv' /\ TakenInv'
  BY ReplyInductive, PendInductive, TakenInductive DEF IInv, ControlInv
<1>3. ReplyInv /\ PendInv /\ TakenInv => RolledBackIsGone
  <2> SUFFICES ASSUME ReplyInv, PendInv, TakenInv, NEW t \in Tasks, ToldRolledBack(t),
                      NEW st \in durable \ auto, Target[st[1]] = Target[t]
               PROVE  FALSE
    BY DEF RolledBackIsGone
  <2>1. PICK c \in Commits : Target[c] = Target[t] /\ reply[c] \in {"ok", "err"}
    BY DEF PendInv
  <2>2. Took(c) /\ CommitTook(Target[t])
    BY <2>1 DEF Took, CommitTook, ReplyInv
  <2>3. t \in Rollbacks \cup Execs /\ Took(t)
    BY <2>2 DEF ToldRolledBack, Took
  <2> QED BY <2>1, <2>2, <2>3 DEF TakenInv
<1> QED
  BY <1>1, <1>2, <1>3, Invariance, PTL DEF Spec

----------------------------------------------------------------------------
(***************************************************************************)
(* What a commit keeps.  While a session can still be committed, a          *)
(* statement that ran is pending, durable or lost with its connection,      *)
(* unless an execute call of the session failed; once a commit has          *)
(* succeeded, every statement is durable, those that ran after it too.      *)
(***************************************************************************)
CanCommit(s) == \/ s \in live
                \/ \E c \in Commits : Target[c] = s /\ pc[c] \in {"clock", "commit"}
ReportedFailure(s) == \E d \in Execs : Target[d] = s /\ reply[d] = "failed"
Failing(s) == \E d \in Execs : Target[d] = s /\ pc[d] = "fail"

KeptInv ==
    \A e \in Execs, i \in Nat :
        \/ ~(i < step[e])
        \/ ~CanCommit(Target[e])
        \/ ReportedFailure(Target[e]) \/ Failing(Target[e])
        \/ <<e, i>> \in pend[Target[e]] \/ <<e, i>> \in durable
        \/ txn[Target[e]] = "lost"

CommittedInv ==
    \A c \in Commits, e \in Execs, i \in Nat :
        \/ ~(reply[c] = "ok" /\ Target[c] = Target[e] /\ i < step[e])
        \/ ReportedFailure(Target[e])
        \/ <<e, i>> \in durable

\* What the steps of a call do to its replies and labels: a failure that was reported
\* or is being handled stays one, and a commit call takes a session out of the map.
ReplyStep ==
    /\ \A d \in Execs : reply[d] = "failed" => reply'[d] = "failed"
    /\ \A d \in Execs : pc[d] = "fail" => pc'[d] = "fail" \/ reply'[d] = "failed"
    /\ \A c \in Commits : pc'[c] \in {"clock", "commit"} =>
           pc[c] \in {"clock", "commit"} \/ Target[c] \in live
    /\ \A s \in live' : s \in live \/ txn[s] = "new"

\* What a step does to the statements of a session.
DataStep ==
    /\ durable \subseteq durable'
    /\ \A s \in Sessions : txn[s] = "lost" => txn'[s] = "lost"
    /\ \A s \in Sessions : \/ pend[s] \subseteq pend'[s] \/ pend[s] \subseteq durable'
                           \/ txn'[s] = "lost"
                           \/ \E d \in Execs : Target[d] = s /\ pc'[d] = "fail"
                           \/ \E t \in Tasks : Target[t] = s /\ pc[t] = "rollback"
    /\ \A e \in Execs : \/ step'[e] = step[e]
                        \/ /\ step'[e] = step[e] + 1 /\ pc[e] = "run"
                           /\ \/ <<e, step[e]>> \in durable'
                              \/ txn[Target[e]] = "open" /\ <<e, step[e]>> \in pend'[Target[e]]
    /\ \A c \in Commits : \/ reply'[c] # "ok" \/ reply[c] = "ok"
                          \/ /\ pc[c] = "commit" /\ pend[Target[c]] \subseteq durable'
                             /\ txn[Target[c]] # "lost" /\ step' = step

\* Every step is a ReplyStep.
LEMMA ReplySteps ==
    ASSUME TypeOK, LabelInv, ReplyInv, [Next]_vars
    PROVE  ReplyStep
<1> USE SessionAssumption, TaskAssumption, TargetAssumption, WatchTasks DEF ReplyStep, LabelInv, ReplyInv, Calls
<1>0. /\ pc \in [Tasks -> PcStates] /\ reply \in [Tasks -> Replies] /\ step \in [Execs -> Nat]
      /\ pend \in [Sessions -> SUBSET Statements] /\ txn \in [Sessions -> TxnStates]
      /\ live \subseteq opened /\ opened \subseteq Sessions
  BY DEF TypeOK
<1>1. CASE UNCHANGED vars
  BY <1>1 DEF vars, mapVars, dbVars
<1>2. ASSUME NEW s \in Sessions, BeginManualTransaction(s) PROVE ReplyStep
  BY <1>0, <1>2 DEF BeginManualTransaction, Spawned
<1>3. ASSUME NEW s \in Sessions, BeginFailsOnSchema(s) PROVE ReplyStep
  BY <1>0, <1>3 DEF BeginFailsOnSchema
<1>4. ASSUME NEW s \in Sessions, ConnectionLost(s) PROVE ReplyStep
  BY <1>0, <1>4 DEF ConnectionLost, mapVars
<1>5. ASSUME NEW e \in Execs, ExecLookup(e) PROVE ReplyStep
  BY <1>0, <1>5 DEF ExecLookup, Goto, mapVars, dbVars, Answer
<1>6. ASSUME NEW e \in Execs, ExecMark(e) PROVE ReplyStep
  BY <1>0, <1>6 DEF ExecMark, Remove, IsBusy, Goto, dbVars, Answer
<1>7. ASSUME NEW e \in Execs, ExecClone(e) PROVE ReplyStep
  BY <1>0, <1>7 DEF ExecClone, Goto, mapVars, dbVars, Answer
<1>8. ASSUME NEW e \in Execs, ExecLock(e) PROVE ReplyStep
  BY <1>0, <1>8 DEF ExecLock, Goto, Acquire, mapVars, dbVars
<1>9. ASSUME NEW e \in Execs, ExecStatementOk(e) PROVE ReplyStep
  BY <1>0, <1>9 DEF ExecStatementOk, mapVars, MoreStatements
<1>10. ASSUME NEW e \in Execs, ExecStatementErr(e) PROVE ReplyStep
  BY <1>0, <1>10 DEF ExecStatementErr, Goto, mapVars, MoreStatements
<1>11. ASSUME NEW e \in Execs, ExecFail(e) PROVE ReplyStep
  BY <1>0, <1>11 DEF ExecFail, ShouldRollback, Goto, Release, dbVars, Answer
<1>12. ASSUME NEW e \in Execs, ExecRelease(e) PROVE ReplyStep
  BY <1>0, <1>12 DEF ExecRelease, Goto, Release, mapVars, dbVars
<1>13. ASSUME NEW e \in Execs, ExecFinish(e) PROVE ReplyStep
  BY <1>0, <1>13 DEF ExecFinish, Spawned, ClearBusy, Goto, dbVars, Answer
<1>14. ASSUME NEW c \in Commits, CommitTake(c) PROVE ReplyStep
  BY <1>0, <1>14 DEF CommitTake, TakeSession, Remove, Goto, dbVars, Answer
<1>15. ASSUME NEW c \in Commits, CommitLock(c) PROVE ReplyStep
  BY <1>0, <1>15 DEF CommitLock, Goto, Acquire, mapVars, dbVars
<1>16. ASSUME NEW c \in Commits, CommitFinish(c) PROVE ReplyStep
  BY <1>0, <1>16 DEF CommitFinish, ServerCommit, Goto, Release, mapVars, Answer, ServerReply
<1>17. ASSUME NEW r \in Rollbacks, RollbackTake(r) PROVE ReplyStep
  BY <1>0, <1>17 DEF RollbackTake, TakeSession, Remove, Goto, dbVars, Answer
<1>18. ASSUME NEW t \in Tasks, LockForRollback(t) PROVE ReplyStep
  BY <1>0, <1>18 DEF LockForRollback, Goto, Acquire, mapVars, dbVars
<1>19. ASSUME NEW t \in Tasks, FinishRollback(t) PROVE ReplyStep
  BY <1>0, <1>19 DEF FinishRollback, ServerRollback, Goto, Release, mapVars, Answer, ServerReply
<1>20. ASSUME NEW w \in Watchers, WatcherWake(w) PROVE ReplyStep
  BY <1>0, <1>20 DEF WatcherWake, Remove, IsBusy, Goto, dbVars
<1>21. CASE Tick
  BY <1>0, <1>21 DEF Tick, dbVars
<1>22. CASE DisconnectDb
  BY <1>0, <1>22 DEF DisconnectDb, mapVars, dbVars
<1> QED
  BY <1>1, <1>2, <1>3, <1>4, <1>5, <1>6, <1>7, <1>8, <1>9, <1>10, <1>11, <1>12, <1>13, <1>14, <1>15, <1>16, <1>17, <1>18, <1>19, <1>20, <1>21, <1>22, NextCases

\* Every step is a DataStep.
LEMMA DataSteps ==
    ASSUME TypeOK, LabelInv, ReplyInv, [Next]_vars
    PROVE  DataStep
<1> USE SessionAssumption, TaskAssumption, TargetAssumption, WatchTasks DEF DataStep, LabelInv, ReplyInv, Calls
<1>0. /\ pc \in [Tasks -> PcStates] /\ reply \in [Tasks -> Replies] /\ step \in [Execs -> Nat]
      /\ pend \in [Sessions -> SUBSET Statements] /\ txn \in [Sessions -> TxnStates]
      /\ live \subseteq opened /\ opened \subseteq Sessions
  BY DEF TypeOK
<1>1. CASE UNCHANGED vars
  BY <1>1 DEF vars, mapVars, dbVars
<1>2. ASSUME NEW s \in Sessions, BeginManualTransaction(s) PROVE DataStep
  BY <1>0, <1>2 DEF BeginManualTransaction, Spawned
<1>3. ASSUME NEW s \in Sessions, BeginFailsOnSchema(s) PROVE DataStep
  BY <1>0, <1>3 DEF BeginFailsOnSchema
<1>4. ASSUME NEW s \in Sessions, ConnectionLost(s) PROVE DataStep
  BY <1>0, <1>4 DEF ConnectionLost, mapVars
<1>5. ASSUME NEW e \in Execs, ExecLookup(e) PROVE DataStep
  BY <1>0, <1>5 DEF ExecLookup, Goto, mapVars, dbVars, Answer
<1>6. ASSUME NEW e \in Execs, ExecMark(e) PROVE DataStep
  BY <1>0, <1>6 DEF ExecMark, Remove, IsBusy, Goto, dbVars, Answer
<1>7. ASSUME NEW e \in Execs, ExecClone(e) PROVE DataStep
  BY <1>0, <1>7 DEF ExecClone, Goto, mapVars, dbVars, Answer
<1>8. ASSUME NEW e \in Execs, ExecLock(e) PROVE DataStep
  BY <1>0, <1>8 DEF ExecLock, Goto, Acquire, mapVars, dbVars
<1>9. ASSUME NEW e \in Execs, ExecStatementOk(e) PROVE DataStep
  BY <1>0, <1>9 DEF ExecStatementOk, mapVars, MoreStatements
<1>10. ASSUME NEW e \in Execs, ExecStatementErr(e) PROVE DataStep
  BY <1>0, <1>10 DEF ExecStatementErr, Goto, mapVars, MoreStatements
<1>11. ASSUME NEW e \in Execs, ExecFail(e) PROVE DataStep
  BY <1>0, <1>11 DEF ExecFail, ShouldRollback, Goto, Release, dbVars, Answer
<1>12. ASSUME NEW e \in Execs, ExecRelease(e) PROVE DataStep
  BY <1>0, <1>12 DEF ExecRelease, Goto, Release, mapVars, dbVars
<1>13. ASSUME NEW e \in Execs, ExecFinish(e) PROVE DataStep
  BY <1>0, <1>13 DEF ExecFinish, Spawned, ClearBusy, Goto, dbVars, Answer
<1>14. ASSUME NEW c \in Commits, CommitTake(c) PROVE DataStep
  BY <1>0, <1>14 DEF CommitTake, TakeSession, Remove, Goto, dbVars, Answer
<1>15. ASSUME NEW c \in Commits, CommitLock(c) PROVE DataStep
  BY <1>0, <1>15 DEF CommitLock, Goto, Acquire, mapVars, dbVars
<1>16. ASSUME NEW c \in Commits, CommitFinish(c) PROVE DataStep
  BY <1>0, <1>16 DEF CommitFinish, ServerCommit, Goto, Release, mapVars, Answer, ServerReply
<1>17. ASSUME NEW r \in Rollbacks, RollbackTake(r) PROVE DataStep
  BY <1>0, <1>17 DEF RollbackTake, TakeSession, Remove, Goto, dbVars, Answer
<1>18. ASSUME NEW t \in Tasks, LockForRollback(t) PROVE DataStep
  BY <1>0, <1>18 DEF LockForRollback, Goto, Acquire, mapVars, dbVars
<1>19. ASSUME NEW t \in Tasks, FinishRollback(t) PROVE DataStep
  BY <1>0, <1>19 DEF FinishRollback, ServerRollback, Goto, Release, mapVars, Answer, ServerReply
<1>20. ASSUME NEW w \in Watchers, WatcherWake(w) PROVE DataStep
  BY <1>0, <1>20 DEF WatcherWake, Remove, IsBusy, Goto, dbVars
<1>21. CASE Tick
  BY <1>0, <1>21 DEF Tick, dbVars
<1>22. CASE DisconnectDb
  BY <1>0, <1>22 DEF DisconnectDb, mapVars, dbVars
<1> QED
  BY <1>1, <1>2, <1>3, <1>4, <1>5, <1>6, <1>7, <1>8, <1>9, <1>10, <1>11, <1>12, <1>13, <1>14, <1>15, <1>16, <1>17, <1>18, <1>19, <1>20, <1>21, <1>22, NextCases

\* The failures of a session stay, and a session that can be committed after a step
\* could be before it, or had not begun.
LEMMA SessionStep ==
    ASSUME ReplyStep, NEW s \in Sessions
    PROVE  /\ ReportedFailure(s) => ReportedFailure(s)'
           /\ Failing(s) => Failing(s)' \/ ReportedFailure(s)'
           /\ CanCommit(s)' => CanCommit(s) \/ txn[s] = "new"
<1>1. ReportedFailure(s) => ReportedFailure(s)'
  BY DEF ReplyStep, ReportedFailure
<1>2. Failing(s) => Failing(s)' \/ ReportedFailure(s)'
  BY DEF ReplyStep, ReportedFailure, Failing
<1>3. CanCommit(s)' => CanCommit(s) \/ txn[s] = "new"
  BY DEF ReplyStep, CanCommit
<1> QED BY <1>1, <1>2, <1>3

\* A step loses no statement that could still be committed, but by a failure or a
\* lost connection.
LEMMA KeptInductive ==
    ASSUME TypeOK, LabelInv, OpenedInv, OwnerInv, ReplyInv, KeptInv, ReplyStep, DataStep
    PROVE  KeptInv'
<1> SUFFICES ASSUME NEW e \in Execs, NEW i \in Nat,
                    i < step'[e], CanCommit(Target[e])', ~ReportedFailure(Target[e])',
                    ~Failing(Target[e])', txn'[Target[e]] # "lost"
             PROVE  <<e, i>> \in pend'[Target[e]] \/ <<e, i>> \in durable'
  BY DEF KeptInv
<1> DEFINE s == Target[e]
<1>1. s \in Sessions /\ e \in Tasks
  BY TargetAssumption, WatchTasks
<1>2. ~ReportedFailure(s) /\ ~Failing(s) /\ (CanCommit(s) \/ txn[s] = "new")
  BY <1>1, SessionStep
<1>3. txn[s] # "lost"
  BY <1>1 DEF DataStep
<1>4. step[e] \in Nat
  BY DEF TypeOK
<1>5. txn[s] # "new"
  <2> SUFFICES ASSUME txn[s] = "new" PROVE FALSE
    OBVIOUS
  <2>1. pc[e] = "idle"
    BY <1>1 DEF OpenedInv
  <2>2. step[e] = 0
    BY <2>1 DEF ReplyInv
  <2>3. step'[e] = step[e]
    BY <2>1 DEF DataStep
  <2> QED BY <2>2, <2>3
<1>6. CASE i < step[e]
  <2>1. <<e, i>> \in pend[s] \/ <<e, i>> \in durable
    BY <1>2, <1>3, <1>5, <1>6 DEF KeptInv
  <2>2. ~\E t \in Tasks : Target[t] = s /\ pc[t] = "rollback"
    BY <1>2, <1>5, WatchTasks DEF CanCommit, OwnerInv, Owning, LabelInv
  <2>3. pend[s] \subseteq pend'[s] \/ pend[s] \subseteq durable'
    BY <1>1, <2>2 DEF DataStep, Failing
  <2> QED BY <2>1, <2>3 DEF DataStep
<1>7. CASE ~(i < step[e])
  <2>1. step'[e] # step[e]
    BY <1>7
  <2>2. step'[e] = step[e] + 1 /\ (<<e, step[e]>> \in durable' \/ <<e, step[e]>> \in pend'[s])
    BY <2>1 DEF DataStep
  <2>3. i = step[e]
    BY <1>4, <1>7, <2>2
  <2> QED BY <2>2, <2>3
<1> QED BY <1>6, <1>7

\* A step leaves every statement of a committed session durable.
LEMMA CommittedInductive ==
    ASSUME TypeOK, LabelInv, MutexInv, OpenedInv, OwnerInv, CleanInv, ReplyInv,
           KeptInv, CommittedInv, ReplyStep, DataStep
    PROVE  CommittedInv'
<1> SUFFICES ASSUME NEW c \in Commits, NEW e \in Execs, NEW i \in Nat,
                    reply'[c] = "ok", Target[c] = Target[e], i < step'[e],
                    ~ReportedFailure(Target[e])'
             PROVE  <<e, i>> \in durable'
  BY DEF CommittedInv
<1> DEFINE s == Target[e]
<1>1. s \in Sessions /\ e \in Tasks /\ c \in Tasks
  BY TargetAssumption, WatchTasks
<1>2. ~ReportedFailure(s)
  BY <1>1, SessionStep
<1>3. step[e] \in Nat
  BY DEF TypeOK
<1>4. CASE reply[c] = "ok"
  <2>1. s \notin live /\ pc[c] = "done" /\ \A t \in Tasks : Target[t] = s => ~Owning(t)
    BY <1>4 DEF ReplyInv
  <2>2. txn[s] \in {"none", "lost"}
    BY <1>1, <2>1 DEF OpenedInv, CleanInv
  <2>3. CASE i < step[e]
    BY <1>2, <1>4, <2>3 DEF CommittedInv, DataStep
  <2>4. CASE ~(i < step[e])
    <3>1. step'[e] # step[e]
      BY <2>4
    <3>2. step'[e] = step[e] + 1 /\ <<e, step[e]>> \in durable'
      BY <2>2, <3>1 DEF DataStep
    <3>3. i = step[e]
      BY <1>3, <2>4, <3>2
    <3> QED BY <3>2, <3>3
  <2> QED BY <2>3, <2>4
<1>5. CASE reply[c] # "ok"
  <2>1. pc[c] = "commit" /\ pend[s] \subseteq durable' /\ txn[s] # "lost" /\ step' = step
    BY <1>5 DEF DataStep
  <2>2. ~Failing(s)
    BY <1>1, <2>1, WatchTasks, TaskAssumption DEF Failing, MutexInv, Holding
  <2>3. CanCommit(s)
    BY <2>1 DEF CanCommit
  <2>4. <<e, i>> \in pend[s] \/ <<e, i>> \in durable
    BY <1>2, <2>1, <2>2, <2>3 DEF KeptInv
  <2> QED BY <2>1, <2>4 DEF DataStep
<1> QED BY <1>4, <1>5

(***************************************************************************)
(* A commit that reports success has made durable every statement that an   *)
(* execute call of its session reported as done, however the two raced for  *)
(* the connection, unless an execute call of the session reported a failure.*)
(***************************************************************************)
THEOREM CommitsKeepStatements == Spec => []CommitKeepsStatements
<1>1. Init => ReplyInv /\ KeptInv /\ CommittedInv
  BY SessionAssumption, WatchTasks DEF Init, ReplyInv, KeptInv, CommittedInv
<1>2. IInv /\ ReplyInv /\ KeptInv /\ CommittedInv /\ [Next]_vars
        => ReplyInv' /\ KeptInv' /\ CommittedInv'
  BY ReplyInductive, ReplySteps, DataSteps, KeptInductive, CommittedInductive
     DEF IInv, ControlInv
<1>3. IInv /\ ReplyInv /\ CommittedInv => CommitKeepsStatements
  <2> SUFFICES ASSUME IInv, ReplyInv, CommittedInv,
                      NEW c \in Commits, NEW e \in Execs,
                      reply[c] = "ok", reply[e] = "ok", Target[c] = Target[e],
                      \A d \in Execs : Target[d] = Target[e] => reply[d] # "failed",
                      NEW i \in 0 .. Script[e] - 1
               PROVE  <<e, i>> \in durable
    BY DEF CommitKeepsStatements
  <2>1. step[e] = Script[e] /\ Script[e] \in Nat
    BY SessionAssumption DEF ReplyInv
  <2>2. i \in Nat /\ i < step[e]
    BY <2>1
  <2> QED BY <2>2 DEF CommittedInv, ReportedFailure
<1> QED
  BY <1>1, <1>2, <1>3, Invariance, PTL DEF Spec
=============================================================================
