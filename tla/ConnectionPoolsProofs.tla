---------------------- MODULE ConnectionPoolsProofs ----------------------
(***************************************************************************)
(* Proofs about ConnectionPools, for any number of keys, pools, attempts    *)
(* and other calls.                                                         *)
(***************************************************************************)
EXTENDS ConnectionPools, TLAPS

\* The next-state relation as one disjunct per action.
LEMMA NextCases ==
    ASSUME Next
    PROVE  \/ \E t \in Tasks : ConnectBegin(t)
           \/ \E t \in Tasks : DisconnectBegin(t)
           \/ \E t \in Tasks : Begin(t)
           \/ \E t \in Tasks : List(t)
           \/ \E t \in Tasks : Stop(t)
           \/ \E t \in Tasks : DropContext(t)
           \/ \E t \in Tasks : Remove(t)
           \/ \E t \in Tasks : Close(t)
           \/ \E t \in Tasks : ResetTransport(t)
           \/ \E t \in Tasks : Lookup(t)
           \/ \E t \in Tasks : Examine(t)
           \/ \E t \in Tasks : Ping(t)
           \/ \E t \in Tasks : PingSkipped(t)
           \/ \E t \in Tasks : Check(t)
           \/ \E t \in Tasks : Endpoint(t)
           \/ \E t \in Tasks : DesktopOpen(t)
           \/ \E t \in Tasks : Open(t)
           \/ \E t \in Tasks : InsertContext(t)
           \/ \E t \in Tasks : InsertStop(t)
           \/ \E t \in Tasks : InsertStart(t)
           \/ \E t \in Tasks : InsertPut(t)
           \/ \E t \in Tasks : InsertClose(t)
           \/ \E p \in Pools : BackgroundClose(p)
           \/ \E p \in Pools : KeeperPing(p)
           \/ \E p \in Pools : KeeperForget(p)
           \/ \E p \in Pools : KeeperContext(p)
           \/ \E p \in Pools : KeeperRemove(p)
           \/ \E p \in Pools : KeeperEnd(p)
BY DEF Next, KeeperStep

\* Pools, keepalive tasks and the background task are holders, all different; the
\* key of a task is a key.
LEMMA HolderFacts ==
    /\ Pools \subseteq Tasks /\ Tasks \subseteq Holders /\ Background \in Holders
    /\ None \notin Pools /\ None \notin Tasks /\ Background \notin Tasks
    /\ \A p \in Pools : Keeper(p) \in Holders /\ Keeper(p) \notin Tasks /\ Keeper(p) # Background
    /\ \A p, q \in Pools : Keeper(p) = Keeper(q) => p = q
    /\ \A t \in Tasks : Key(t) \in Keys
    /\ \A h \in Holders : h \in Tasks \/ h = Background \/ \E p \in Pools : h = Keeper(p)
    /\ Base \in Keys /\ Desktop \subseteq Connects /\ Connects \subseteq Pools
    /\ Reconnects \subseteq Pools
BY ConstantAssumption DEF Pools, Tasks, Keepers, Background, Holders, Key, Keeper

\* The kinds of calls are different.
LEMMA TaskFacts ==
    /\ Connects \cup Disconnects \subseteq Tasks /\ Connects \cap Disconnects = {}
    /\ Names \in [Disconnects -> Connects \cup {None}]
    /\ Reconnects \cap (Connects \cup Disconnects) = {} /\ Connects \cap Refreshes = {}
BY ConstantAssumption DEF Pools, Tasks

\* The check before a piece of I/O leads to that piece.
LEMMA NextStepFacts ==
    /\ DOMAIN NextStep = {"check1", "check2", "check3", "check4"}
    /\ NextStep["check1"] = "endpoint" /\ NextStep["check2"] = "probe"
    /\ NextStep["check3"] = "open" /\ NextStep["check4"] = "istop"
BY DEF NextStep

(***************************************************************************)
(* The inductive invariant.  Opening: a call is on its way to a pool of its *)
(* own; Opened: it has opened the pool and holds it, not inserted yet.      *)
(***************************************************************************)
Opened == {"icontext", "check4", "istop", "istart", "iput"}
Opening == {"check1", "endpoint", "check2", "probe", "check3", "open"} \cup Opened \cup {"iclose"}
Inserted == {"iclose", "done"}

\* Only connects and gets open pools.
LabelInv == \A t \in Tasks : pc[t] \in Opening => t \in Pools

\* What a task has in its hands at its label; a keepalive task has something only
\* between taking the pool out of the map and closing it.
HandInv ==
    /\ \A t \in Tasks : pc[t] \in Opened => hand[t] = {t}
    /\ \A t \in Tasks : pc[t] \notin Opened \cup {"close", "iclose"} => hand[t] = {}
    /\ \A p \in Pools : keeper[p] # "close" => hand[Keeper(p)] = {}

\* A pool does not exist before its call has opened it, its keepalive task not
\* before the insertion starts it, and it is in the map only after the call has put
\* it there.
FreshInv ==
    /\ \A p \in Pools : pc[p] \notin Opened \cup Inserted => pool[p] = "none"
    /\ \A p \in Pools : pc[p] \notin {"iput"} \cup Inserted => keeper[p] = "none"
    /\ \A p \in Pools, k \in Keys : conns[k] = p => pc[p] \in Inserted

\* OneOwner in parts: an open pool is somewhere, what is in the map or in a hand is
\* open, and nothing is in two places.
Owned == \A p \in Pools : pool[p] = "open" =>
             (\E k \in Keys : conns[k] = p) \/ (\E h \in Holders : p \in hand[h])
MapOpen == \A k \in Keys : conns[k] # None => pool[conns[k]] = "open"
HandOpen == \A h \in Holders : \A p \in hand[h] : pool[p] = "open"
OneKey == \A k, l \in Keys : conns[k] = conns[l] /\ conns[k] # None => k = l
OneHand == \A h, i \in Holders : \A p \in hand[h] : p \in hand[i] => h = i
NotBoth == \A k \in Keys, h \in Holders : conns[k] \notin hand[h]
OwnInv == Owned /\ MapOpen /\ HandOpen /\ OneKey /\ OneHand /\ NotBoth

\* The attempt numbers: a call has none before it begins, the newest is the
\* current one and, unless it was superseded by a disconnect, that of the client
\* attempt on record; whoever is not the newest has been superseded for a cause.
Cause(c) == \E x \in Connects \cup Disconnects :
                num[x] > num[c] /\ (x \in Disconnects => Names[x] \in {None, c})
AttemptInv ==
    /\ \A t \in Tasks : num[t] <= attempt /\ (pc[t] = "idle" => num[t] = 0)
    /\ \A c \in Connects : pc[c] # "idle" => num[c] # 0
    /\ \A c \in Connects : num[c] # 0 /\ num[c] = attempt /\ client # None => client = c
    /\ \A c \in Connects : num[c] # 0 /\ num[c] < attempt => Cause(c)
    /\ \A c \in Connects : result[c] = "superseded" => num[c] # 0 /\ num[c] < attempt

\* A drain.  What a task saw was inserted before.  Until a drain removes its keys
\* each pool it saw is under its own key or gone, afterwards it is gone for good.
Draining == {"stop", "context", "remove"}
Gone == {"close", "reset", "lookup", "check1", "endpoint"}
DrainOk(t) ==
    /\ pc[t] = "idle" => \A k \in Keys : seen[t][k] = None
    /\ \A k \in Keys : seen[t][k] # None => pc[seen[t][k]] \in Inserted
    /\ t \notin Refreshes /\ after[t] = "reset" /\ pc[t] \in Draining =>
           \A k \in Keys : seen[t][k] # None =>
               k \in removing[t] /\ \A l \in Keys : conns[l] = seen[t][k] => l = k
    /\ t \notin Refreshes /\ after[t] = "reset" /\ pc[t] \in Gone =>
           \A k, l \in Keys : seen[t][k] # None => conns[l] # seen[t][k]
DrainInv == \A t \in Tasks : DrainOk(t)

PoolInv == LabelInv /\ HandInv /\ FreshInv /\ OwnInv
IInv == TypeOK /\ PoolInv /\ AttemptInv /\ DrainInv


\* A step preserves the types.
LEMMA TypeInductive ==
    ASSUME TypeOK, LabelInv, [Next]_vars
    PROVE  TypeOK'
<1> USE ConstantAssumption, HolderFacts, NextStepFacts DEF TypeOK, Labels
<1>1. CASE UNCHANGED vars
  BY <1>1 DEF vars
<1>2. ASSUME NEW t \in Tasks, ConnectBegin(t) PROVE TypeOK'
  BY <1>2 DEF ConnectBegin, Goto, mapVars, poolVars, keepVars, taskVars
<1>3. ASSUME NEW t \in Tasks, DisconnectBegin(t) PROVE TypeOK'
  <2>1. UNCHANGED <<setup, configured, conns, keepers, contexts, pool, broken, keeper, aborted, after,
     seen, removing, hand>>
    BY <1>3 DEF DisconnectBegin, Superseding, Goto, Return, mapVars, poolVars, keepVars
  <2>2. (attempt \in Nat)'
    BY <1>3 DEF DisconnectBegin, Superseding, Goto, Return, mapVars, poolVars, keepVars
  <2>3. (client \in Connects \cup {None})'
    BY <1>3 DEF DisconnectBegin, Superseding, Goto, Return, mapVars, poolVars, keepVars
  <2>4. (num \in [Tasks -> Nat])'
    <3>1. num' = num \/ num' = [num EXCEPT ![t] = attempt + 1]
      BY <1>3 DEF DisconnectBegin
    <3>2. CASE num' = num
      BY <3>2
    <3>3. CASE num' = [num EXCEPT ![t] = attempt + 1]
      BY <3>3
    <3> QED BY <3>1, <3>2, <3>3
  <2>5. (pc \in [Tasks -> Labels])'
    <3>1. \E l \in {"list", "done"} : pc' = [pc EXCEPT ![t] = l]
      BY <1>3 DEF DisconnectBegin, Superseding, Goto, Return, mapVars, poolVars, keepVars
    <3> QED BY <3>1
  <2>6. (result \in [Tasks -> {"none", "ok", "err", "superseded", "ignored"}])'
    BY <1>3 DEF DisconnectBegin, Superseding, Goto, Return, mapVars, poolVars, keepVars
  <2> QED BY <2>1, <2>2, <2>3, <2>4, <2>5, <2>6
<1>4. ASSUME NEW t \in Tasks, Begin(t) PROVE TypeOK'
  <2>1. UNCHANGED <<setup, attempt, client, configured, conns, keepers, contexts, pool, broken,
     keeper, aborted, num, seen, hand, result>>
    BY <1>4 DEF Begin, Goto, attemptVars, mapVars, poolVars, keepVars
  <2>2. (pc \in [Tasks -> Labels])'
    <3>1. \E l \in {"lookup", "examine", "list", "stop"} : pc' = [pc EXCEPT ![t] = l]
      BY <1>4 DEF Begin, Goto, attemptVars, mapVars, poolVars, keepVars
    <3> QED BY <3>1
  <2>3. (removing \in [Tasks -> SUBSET Keys])'
    <3>1. {Key(t)} \subseteq Keys
      OBVIOUS
    <3>2. removing' = removing \/ removing' = [removing EXCEPT ![t] = {Key(t)}]
      BY <1>4 DEF Begin, Goto
    <3>3. CASE removing' = removing
      BY <3>3
    <3>4. CASE removing' = [removing EXCEPT ![t] = {Key(t)}]
      BY <3>1, <3>4
    <3> QED BY <3>2, <3>3, <3>4
  <2>4. (after \in [Tasks -> {"done", "lookup", "reset", "verdict"}])'
    BY <1>4 DEF Begin, Goto, attemptVars, mapVars, poolVars, keepVars
  <2> QED BY <2>1, <2>2, <2>3, <2>4
<1>5. ASSUME NEW t \in Tasks, List(t) PROVE TypeOK'
  BY <1>5 DEF List, Listed, Goto, attemptVars, mapVars, poolVars, keepVars
<1>6. ASSUME NEW t \in Tasks, Stop(t) PROVE TypeOK'
  BY <1>6 DEF Stop, Handles, Cleared, Goto, attemptVars, poolVars, taskVars
<1>7. ASSUME NEW t \in Tasks, DropContext(t) PROVE TypeOK'
  BY <1>7 DEF DropContext, Goto, attemptVars, poolVars, keepVars, taskVars
<1>8. ASSUME NEW t \in Tasks, Remove(t) PROVE TypeOK'
  BY <1>8 DEF Remove, Cleared, Detached, At, Goto, attemptVars, poolVars, keepVars, taskVars
<1>9. ASSUME NEW t \in Tasks, Close(t) PROVE TypeOK'
  <2>1. UNCHANGED <<setup, attempt, client, configured, conns, keepers, contexts, broken, keeper,
     aborted, after, num, seen, removing>>
    BY <1>9 DEF Close, Closed, Goto, Return, attemptVars, mapVars, keepVars
  <2>2. (pool \in [Pools -> {"none", "open", "closed"}])'
    BY <1>9 DEF Close, Closed, Goto, Return, attemptVars, mapVars, keepVars
  <2>3. (hand \in [Holders -> SUBSET Pools])'
    BY <1>9 DEF Close, Closed, Goto, Return, attemptVars, mapVars, keepVars
  <2>4. (pc \in [Tasks -> Labels])'
    <3>1. \E l \in {"lookup", "reset", "check1", "done"} : pc' = [pc EXCEPT ![t] = l]
      BY <1>9 DEF Close, Closed, Goto, Return, attemptVars, mapVars, keepVars
    <3> QED BY <3>1
  <2>5. (result \in [Tasks -> {"none", "ok", "err", "superseded", "ignored"}])'
    <3>1. result' = result \/ \E x \in {"ok", "err", "superseded", "ignored"} : result' = [result EXCEPT ![t] = x]
      BY <1>9 DEF Close, Closed, Goto, Return, attemptVars, mapVars, keepVars
    <3> QED BY <3>1
  <2> QED BY <2>1, <2>2, <2>3, <2>4, <2>5
<1>10. ASSUME NEW t \in Tasks, ResetTransport(t) PROVE TypeOK'
  <2>1. UNCHANGED <<setup, attempt, client, conns, keepers, contexts, pool, keeper, aborted, after,
     num, seen, removing, hand>>
    BY <1>10 DEF ResetTransport, Reset, Goto, Return, mapVars, keepVars, Connecting
  <2>2. (broken \subseteq Pools)'
    BY <1>10 DEF ResetTransport, Reset, Goto, Return, mapVars, keepVars, Connecting
  <2>3. (configured \in BOOLEAN)'
    BY <1>10 DEF ResetTransport, Reset, Goto, Return, mapVars, keepVars, Connecting
  <2>4. (pc \in [Tasks -> Labels])'
    <3>1. \E l \in {"endpoint", "lookup", "done"} : pc' = [pc EXCEPT ![t] = l]
      BY <1>10 DEF ResetTransport, Reset, Goto, Return, mapVars, keepVars, Connecting
    <3> QED BY <3>1
  <2>5. (result \in [Tasks -> {"none", "ok", "err", "superseded", "ignored"}])'
    BY <1>10 DEF ResetTransport, Reset, Goto, Return, mapVars, keepVars, Connecting
  <2> QED BY <2>1, <2>2, <2>3, <2>4, <2>5
<1>11. ASSUME NEW t \in Tasks, Lookup(t) PROVE TypeOK'
  <2>1. UNCHANGED <<setup, attempt, client, configured, conns, keepers, contexts, pool, broken,
     keeper, aborted, after, num, seen, removing, hand>>
    BY <1>11 DEF Lookup, Return, Goto, attemptVars, mapVars, poolVars, keepVars
  <2>2. (pc \in [Tasks -> Labels])'
    <3>1. \E l \in {"check1", "examine", "done"} : pc' = [pc EXCEPT ![t] = l]
      BY <1>11 DEF Lookup, Return, Goto, attemptVars, mapVars, poolVars, keepVars
    <3> QED BY <3>1
  <2>3. (result \in [Tasks -> {"none", "ok", "err", "superseded", "ignored"}])'
    BY <1>11 DEF Lookup, Return, Goto, attemptVars, mapVars, poolVars, keepVars
  <2> QED BY <2>1, <2>2, <2>3
<1>12. ASSUME NEW t \in Tasks, Examine(t) PROVE TypeOK'
  <2>1. UNCHANGED <<setup, attempt, client, configured, conns, keepers, contexts, pool, broken,
     keeper, aborted, after, num, removing, hand>>
    BY <1>12 DEF Examine, Empty, Return, Goto, attemptVars, mapVars, poolVars, keepVars
  <2>2. (seen \in [Tasks -> [Keys -> Pools \cup {None}]])'
    <3> DEFINE keys == IF t \in Refreshes THEN Keys ELSE {Key(t)}
               now == [k \in Keys |-> IF k \in keys THEN conns[k] ELSE None]
    <3>1. now \in [Keys -> Pools \cup {None}]
      OBVIOUS
    <3>2. seen' = seen \/ seen' = [seen EXCEPT ![t] = now]
      BY <1>12 DEF Examine
    <3> HIDE DEF now
    <3>3. CASE seen' = seen
      BY <3>3
    <3>4. CASE seen' = [seen EXCEPT ![t] = now]
      BY <3>1, <3>4
    <3> QED BY <3>2, <3>3, <3>4
  <2>3. (pc \in [Tasks -> Labels])'
    <3>1. \E l \in {"ping", "done"} : pc' = [pc EXCEPT ![t] = l]
      BY <1>12 DEF Examine, Empty, Return, Goto, attemptVars, mapVars, poolVars, keepVars
    <3> QED BY <3>1
  <2>4. (result \in [Tasks -> {"none", "ok", "err", "superseded", "ignored"}])'
    BY <1>12 DEF Examine, Empty, Return, Goto, attemptVars, mapVars, poolVars, keepVars
  <2> QED BY <2>1, <2>2, <2>3, <2>4
<1>13. ASSUME NEW t \in Tasks, Ping(t) PROVE TypeOK'
  <2>1. UNCHANGED <<setup, attempt, client, configured, conns, keepers, contexts, pool, broken,
     keeper, aborted, num, seen, hand>>
    BY <1>13 DEF Ping, Dead, Return, Goto, attemptVars, mapVars, poolVars, keepVars, Unreachable
  <2>2. (pc \in [Tasks -> Labels])'
    <3>1. \E l \in {"reset", "stop", "done"} : pc' = [pc EXCEPT ![t] = l]
      BY <1>13 DEF Ping, Return, Goto
    <3> QED BY <3>1
  <2>3. (removing \in [Tasks -> SUBSET Keys])'
    BY <1>13 DEF Ping, Dead, Return, Goto, attemptVars, mapVars, poolVars, keepVars, Unreachable
  <2>4. (after \in [Tasks -> {"done", "lookup", "reset", "verdict"}])'
    <3>1. after' = after \/ \E x \in {"reset", "verdict"} : after' = [after EXCEPT ![t] = x]
      BY <1>13 DEF Ping
    <3> QED BY <3>1
  <2>5. (result \in [Tasks -> {"none", "ok", "err", "superseded", "ignored"}])'
    <3>1. result' = result \/ result' = [result EXCEPT ![t] = "ok"]
      BY <1>13 DEF Ping, Return
    <3> QED BY <3>1
  <2> QED BY <2>1, <2>2, <2>3, <2>4, <2>5
<1>14. ASSUME NEW t \in Tasks, PingSkipped(t) PROVE TypeOK'
  BY <1>14 DEF PingSkipped, Return, attemptVars, mapVars, poolVars, keepVars, Goto
<1>15. ASSUME NEW t \in Tasks, Check(t) PROVE TypeOK'
  <2>1. UNCHANGED <<setup, attempt, client, configured, conns, keepers, contexts, keeper, aborted,
     after, num, seen, removing>>
    BY <1>15 DEF Check, Current, Goto, Reset, Closed, Return, attemptVars, mapVars, keepVars,
       Connecting
  <2>2. (pc \in [Tasks -> Labels])'
    <3>1. NextStep[pc[t]] \in Labels \/ pc[t] \notin DOMAIN NextStep
      OBVIOUS
    <3>2. \E l \in Labels : pc' = [pc EXCEPT ![t] = l]
      BY <1>15, <3>1 DEF Check, Goto, Return
    <3> QED BY <3>2
  <2>3. (broken \subseteq Pools)'
    BY <1>15 DEF Check, Current, Goto, Reset, Closed, Return, attemptVars, mapVars, keepVars,
       Connecting
  <2>4. (pool \in [Pools -> {"none", "open", "closed"}])'
    BY <1>15 DEF Check, Current, Goto, Reset, Closed, Return, attemptVars, mapVars, keepVars,
       Connecting
  <2>5. (hand \in [Holders -> SUBSET Pools])'
    BY <1>15 DEF Check, Current, Goto, Reset, Closed, Return, attemptVars, mapVars, keepVars,
       Connecting
  <2>6. (result \in [Tasks -> {"none", "ok", "err", "superseded", "ignored"}])'
    BY <1>15 DEF Check, Current, Goto, Reset, Closed, Return, attemptVars, mapVars, keepVars,
       Connecting
  <2> QED BY <2>1, <2>2, <2>3, <2>4, <2>5, <2>6
<1>16. ASSUME NEW t \in Tasks, Endpoint(t) PROVE TypeOK'
  <2>1. UNCHANGED <<setup, attempt, client, configured, conns, keepers, contexts, pool, broken,
     keeper, aborted, after, num, seen, removing, hand>>
    BY <1>16 DEF Endpoint, Goto, Return, attemptVars, mapVars, poolVars, keepVars
  <2>2. (pc \in [Tasks -> Labels])'
    <3>1. \E l \in {"check2", "check3", "done"} : pc' = [pc EXCEPT ![t] = l]
      BY <1>16 DEF Endpoint, Goto, Return, attemptVars, mapVars, poolVars, keepVars
    <3> QED BY <3>1
  <2>3. (result \in [Tasks -> {"none", "ok", "err", "superseded", "ignored"}])'
    BY <1>16 DEF Endpoint, Goto, Return, attemptVars, mapVars, poolVars, keepVars
  <2> QED BY <2>1, <2>2, <2>3
<1>17. ASSUME NEW t \in Tasks, DesktopOpen(t) PROVE TypeOK'
  <2>1. UNCHANGED <<setup, attempt, client, configured, conns, keepers, contexts, broken, keeper,
     aborted, after, num, seen, removing>>
    BY <1>17 DEF DesktopOpen, OpenThen, Goto, Return, attemptVars, mapVars, keepVars
  <2>2. (pool \in [Pools -> {"none", "open", "closed"}])'
    BY <1>17 DEF DesktopOpen, OpenThen, Goto, Return, attemptVars, mapVars, keepVars
  <2>3. (hand \in [Holders -> SUBSET Pools])'
    <3>1. t \in Pools /\ {t} \subseteq Pools
      BY <1>17 DEF LabelInv, Opening, Opened, DesktopOpen, OpenThen
    <3>2. hand' = hand \/ hand' = [hand EXCEPT ![t] = {t}]
      BY <1>17 DEF DesktopOpen, OpenThen
    <3>3. CASE hand' = hand
      BY <3>3
    <3>4. CASE hand' = [hand EXCEPT ![t] = {t}]
      BY <3>1, <3>4
    <3> QED BY <3>2, <3>3, <3>4
  <2>4. (pc \in [Tasks -> Labels])'
    <3>1. \E l \in {"check4", "done"} : pc' = [pc EXCEPT ![t] = l]
      BY <1>17 DEF DesktopOpen, OpenThen, Goto, Return, attemptVars, mapVars, keepVars
    <3> QED BY <3>1
  <2>5. (result \in [Tasks -> {"none", "ok", "err", "superseded", "ignored"}])'
    BY <1>17 DEF DesktopOpen, OpenThen, Goto, Return, attemptVars, mapVars, keepVars
  <2> QED BY <2>1, <2>2, <2>3, <2>4, <2>5
<1>18. ASSUME NEW t \in Tasks, Open(t) PROVE TypeOK'
  <2>1. UNCHANGED <<setup, attempt, client, configured, conns, keepers, contexts, broken, keeper,
     aborted, after, num, seen, removing>>
    BY <1>18 DEF Open, OpenThen, Goto, Return, attemptVars, mapVars, keepVars
  <2>2. (pool \in [Pools -> {"none", "open", "closed"}])'
    BY <1>18 DEF Open, OpenThen, Goto, Return, attemptVars, mapVars, keepVars
  <2>3. (hand \in [Holders -> SUBSET Pools])'
    <3>1. t \in Pools /\ {t} \subseteq Pools
      BY <1>18 DEF LabelInv, Opening, Opened, Open, OpenThen
    <3>2. hand' = hand \/ hand' = [hand EXCEPT ![t] = {t}]
      BY <1>18 DEF Open, OpenThen
    <3>3. CASE hand' = hand
      BY <3>3
    <3>4. CASE hand' = [hand EXCEPT ![t] = {t}]
      BY <3>1, <3>4
    <3> QED BY <3>2, <3>3, <3>4
  <2>4. (pc \in [Tasks -> Labels])'
    <3>1. \E l \in {"icontext", "done"} : pc' = [pc EXCEPT ![t] = l]
      BY <1>18 DEF Open, OpenThen, Goto, Return, attemptVars, mapVars, keepVars
    <3> QED BY <3>1
  <2>5. (result \in [Tasks -> {"none", "ok", "err", "superseded", "ignored"}])'
    BY <1>18 DEF Open, OpenThen, Goto, Return, attemptVars, mapVars, keepVars
  <2> QED BY <2>1, <2>2, <2>3, <2>4, <2>5
<1>19. ASSUME NEW t \in Tasks, InsertContext(t) PROVE TypeOK'
  BY <1>19 DEF InsertContext, Goto, attemptVars, poolVars, keepVars, taskVars
<1>20. ASSUME NEW t \in Tasks, InsertStop(t) PROVE TypeOK'
  BY <1>20 DEF InsertStop, Handles, Cleared, Goto, attemptVars, poolVars, taskVars
<1>21. ASSUME NEW t \in Tasks, InsertStart(t) PROVE TypeOK'
  <2>1. UNCHANGED <<setup, attempt, client, configured, conns, contexts, pool, broken, after, num,
     seen, removing, hand, result>>
    BY <1>21 DEF InsertStart, Handles, Goto, attemptVars, poolVars, taskVars
  <2>2. (keeper \in [Pools -> {"none", "sleep", "forget", "context", "remove", "close", "done"}])'
    BY <1>21 DEF InsertStart, Handles, Goto, attemptVars, poolVars, taskVars
  <2>3. (aborted \subseteq Pools)'
    BY <1>21 DEF InsertStart, Handles, Goto, attemptVars, poolVars, taskVars
  <2>4. (keepers \in [Keys -> Pools \cup {None}])'
    <3>1. t \in Pools
      BY <1>21 DEF LabelInv, Opening, Opened, InsertStart
    <3>2. keepers' = [keepers EXCEPT ![Key(t)] = t]
      BY <1>21 DEF InsertStart
    <3> QED BY <3>1, <3>2
  <2>5. (pc \in [Tasks -> Labels])'
    BY <1>21 DEF InsertStart, Handles, Goto, attemptVars, poolVars, taskVars
  <2> QED BY <2>1, <2>2, <2>3, <2>4, <2>5
<1>22. ASSUME NEW t \in Tasks, InsertPut(t) PROVE TypeOK'
  <2>1. UNCHANGED <<setup, attempt, client, configured, keepers, contexts, pool, broken, keeper,
     aborted, after, num, seen, removing, result>>
    BY <1>22 DEF InsertPut, Replaced, Goto, attemptVars, poolVars, keepVars, taskVars, At
  <2>2. (conns \in [Keys -> Pools \cup {None}])'
    <3>1. t \in Pools
      BY <1>22 DEF LabelInv, Opening, Opened, InsertPut
    <3>2. conns' = [conns EXCEPT ![Key(t)] = t]
      BY <1>22 DEF InsertPut
    <3> QED BY <3>1, <3>2
  <2>3. (hand \in [Holders -> SUBSET Pools])'
    BY <1>22 DEF InsertPut, Replaced, Goto, attemptVars, poolVars, keepVars, taskVars, At
  <2>4. (pc \in [Tasks -> Labels])'
    BY <1>22 DEF InsertPut, Replaced, Goto, attemptVars, poolVars, keepVars, taskVars, At
  <2> QED BY <2>1, <2>2, <2>3, <2>4
<1>23. ASSUME NEW t \in Tasks, InsertClose(t) PROVE TypeOK'
  <2>1. UNCHANGED <<setup, attempt, client, conns, keepers, contexts, broken, keeper, aborted, after,
     num, seen, removing>>
    BY <1>23 DEF InsertClose, Closed, Return, mapVars, keepVars, Goto
  <2>2. (pool \in [Pools -> {"none", "open", "closed"}])'
    BY <1>23 DEF InsertClose, Closed, Return, mapVars, keepVars, Goto
  <2>3. (hand \in [Holders -> SUBSET Pools])'
    BY <1>23 DEF InsertClose, Closed, Return, mapVars, keepVars, Goto
  <2>4. (configured \in BOOLEAN)'
    BY <1>23 DEF InsertClose, Closed, Return, mapVars, keepVars, Goto
  <2>5. (pc \in [Tasks -> Labels])'
    BY <1>23 DEF InsertClose, Closed, Return, mapVars, keepVars, Goto
  <2>6. (result \in [Tasks -> {"none", "ok", "err", "superseded", "ignored"}])'
    BY <1>23 DEF InsertClose, Closed, Return, mapVars, keepVars, Goto
  <2> QED BY <2>1, <2>2, <2>3, <2>4, <2>5, <2>6
<1>24. ASSUME NEW p \in Pools, BackgroundClose(p) PROVE TypeOK'
  BY <1>24 DEF BackgroundClose, Closed, attemptVars, mapVars, keepVars, taskVars
<1>25. ASSUME NEW p \in Pools, KeeperPing(p) PROVE TypeOK'
  BY <1>25 DEF KeeperPing, PingFails, attemptVars, mapVars, poolVars, taskVars, Unreachable
<1>26. ASSUME NEW p \in Pools, KeeperForget(p) PROVE TypeOK'
  BY <1>26 DEF KeeperForget, attemptVars, poolVars, taskVars
<1>27. ASSUME NEW p \in Pools, KeeperContext(p) PROVE TypeOK'
  BY <1>27 DEF KeeperContext, attemptVars, poolVars, taskVars
<1>28. ASSUME NEW p \in Pools, KeeperRemove(p) PROVE TypeOK'
  BY <1>28 DEF KeeperRemove, At, Cleared, attemptVars, poolVars, taskVars
<1>29. ASSUME NEW p \in Pools, KeeperEnd(p) PROVE TypeOK'
  BY <1>29 DEF KeeperEnd, Closed, Ends, attemptVars, mapVars, taskVars
<1> QED
  BY <1>1, <1>2, <1>3, <1>4, <1>5, <1>6, <1>7, <1>8, <1>9, <1>10, <1>11, <1>12, <1>13, <1>14,
     <1>15, <1>16, <1>17, <1>18, <1>19, <1>20, <1>21, <1>22, <1>23, <1>24, <1>25, <1>26, <1>27,
     <1>28, <1>29, NextCases

\* A step leaves only connects and gets at the labels of the opening.
LEMMA LabelInductive ==
    ASSUME TypeOK, LabelInv, [Next]_vars
    PROVE  LabelInv'
<1> USE ConstantAssumption, HolderFacts, NextStepFacts DEF TypeOK, Labels, LabelInv, Opening, Opened
<1>1. CASE UNCHANGED vars
  BY <1>1 DEF vars
<1>2. ASSUME NEW t \in Tasks, ConnectBegin(t) PROVE LabelInv'
  BY <1>2 DEF ConnectBegin, Goto, mapVars, poolVars, keepVars, taskVars
<1>3. ASSUME NEW t \in Tasks, DisconnectBegin(t) PROVE LabelInv'
  BY <1>3 DEF DisconnectBegin, Superseding, Goto, Return, mapVars, poolVars, keepVars
<1>4. ASSUME NEW t \in Tasks, Begin(t) PROVE LabelInv'
  BY <1>4 DEF Begin, Goto, attemptVars, mapVars, poolVars, keepVars
<1>5. ASSUME NEW t \in Tasks, List(t) PROVE LabelInv'
  BY <1>5 DEF List, Listed, Goto, attemptVars, mapVars, poolVars, keepVars
<1>6. ASSUME NEW t \in Tasks, Stop(t) PROVE LabelInv'
  BY <1>6 DEF Stop, Handles, Cleared, Goto, attemptVars, poolVars, taskVars
<1>7. ASSUME NEW t \in Tasks, DropContext(t) PROVE LabelInv'
  BY <1>7 DEF DropContext, Goto, attemptVars, poolVars, keepVars, taskVars
<1>8. ASSUME NEW t \in Tasks, Remove(t) PROVE LabelInv'
  BY <1>8 DEF Remove, Cleared, Detached, At, Goto, attemptVars, poolVars, keepVars, taskVars
<1>9. ASSUME NEW t \in Tasks, Close(t) PROVE LabelInv'
  BY <1>9 DEF Close, Closed, Goto, Return, attemptVars, mapVars, keepVars
<1>10. ASSUME NEW t \in Tasks, ResetTransport(t) PROVE LabelInv'
  BY <1>10 DEF ResetTransport, Reset, Goto, Return, mapVars, keepVars, Connecting
<1>11. ASSUME NEW t \in Tasks, Lookup(t) PROVE LabelInv'
  BY <1>11 DEF Lookup, Return, Goto, attemptVars, mapVars, poolVars, keepVars
<1>12. ASSUME NEW t \in Tasks, Examine(t) PROVE LabelInv'
  BY <1>12 DEF Examine, Empty, Return, Goto, attemptVars, mapVars, poolVars, keepVars
<1>13. ASSUME NEW t \in Tasks, Ping(t) PROVE LabelInv'
  BY <1>13 DEF Ping, Dead, Return, Goto, attemptVars, mapVars, poolVars, keepVars, Unreachable
<1>14. ASSUME NEW t \in Tasks, PingSkipped(t) PROVE LabelInv'
  BY <1>14 DEF PingSkipped, Return, attemptVars, mapVars, poolVars, keepVars, Goto
<1>15. ASSUME NEW t \in Tasks, Check(t) PROVE LabelInv'
  BY <1>15 DEF Check, Current, Goto, Reset, Closed, Return, attemptVars, mapVars, keepVars,
     Connecting
<1>16. ASSUME NEW t \in Tasks, Endpoint(t) PROVE LabelInv'
  BY <1>16 DEF Endpoint, Goto, Return, attemptVars, mapVars, poolVars, keepVars
<1>17. ASSUME NEW t \in Tasks, DesktopOpen(t) PROVE LabelInv'
  BY <1>17 DEF DesktopOpen, OpenThen, Goto, Return, attemptVars, mapVars, keepVars
<1>18. ASSUME NEW t \in Tasks, Open(t) PROVE LabelInv'
  BY <1>18 DEF Open, OpenThen, Goto, Return, attemptVars, mapVars, keepVars
<1>19. ASSUME NEW t \in Tasks, InsertContext(t) PROVE LabelInv'
  BY <1>19 DEF InsertContext, Goto, attemptVars, poolVars, keepVars, taskVars
<1>20. ASSUME NEW t \in Tasks, InsertStop(t) PROVE LabelInv'
  BY <1>20 DEF InsertStop, Handles, Cleared, Goto, attemptVars, poolVars, taskVars
<1>21. ASSUME NEW t \in Tasks, InsertStart(t) PROVE LabelInv'
  BY <1>21 DEF InsertStart, Handles, Goto, attemptVars, poolVars, taskVars
<1>22. ASSUME NEW t \in Tasks, InsertPut(t) PROVE LabelInv'
  BY <1>22 DEF InsertPut, Replaced, Goto, attemptVars, poolVars, keepVars, taskVars, At
<1>23. ASSUME NEW t \in Tasks, InsertClose(t) PROVE LabelInv'
  BY <1>23 DEF InsertClose, Closed, Return, mapVars, keepVars, Goto
<1>24. ASSUME NEW p \in Pools, BackgroundClose(p) PROVE LabelInv'
  BY <1>24 DEF BackgroundClose, Closed, attemptVars, mapVars, keepVars, taskVars
<1>25. ASSUME NEW p \in Pools, KeeperPing(p) PROVE LabelInv'
  BY <1>25 DEF KeeperPing, PingFails, attemptVars, mapVars, poolVars, taskVars, Unreachable
<1>26. ASSUME NEW p \in Pools, KeeperForget(p) PROVE LabelInv'
  BY <1>26 DEF KeeperForget, attemptVars, poolVars, taskVars
<1>27. ASSUME NEW p \in Pools, KeeperContext(p) PROVE LabelInv'
  BY <1>27 DEF KeeperContext, attemptVars, poolVars, taskVars
<1>28. ASSUME NEW p \in Pools, KeeperRemove(p) PROVE LabelInv'
  BY <1>28 DEF KeeperRemove, At, Cleared, attemptVars, poolVars, taskVars
<1>29. ASSUME NEW p \in Pools, KeeperEnd(p) PROVE LabelInv'
  BY <1>29 DEF KeeperEnd, Closed, Ends, attemptVars, mapVars, taskVars
<1> QED
  BY <1>1, <1>2, <1>3, <1>4, <1>5, <1>6, <1>7, <1>8, <1>9, <1>10, <1>11, <1>12, <1>13, <1>14,
     <1>15, <1>16, <1>17, <1>18, <1>19, <1>20, <1>21, <1>22, <1>23, <1>24, <1>25, <1>26, <1>27,
     <1>28, <1>29, NextCases

(***************************************************************************)
(* The steps that only move a task on: the pools, the map, the hands and    *)
(* the keepalive tasks stay, and the task has opened nothing yet.           *)
(***************************************************************************)
Busy == Opened \cup {"close", "iclose"}
Quiet(t) ==
    /\ UNCHANGED <<conns, pool, hand, keeper>>
    /\ pc[t] \notin Busy \cup Inserted
    /\ \E l \in Labels \ Busy : pc' = [pc EXCEPT ![t] = l]

\* The calls of all tasks up to the opening of a pool are quiet, except the removal
\* of pools and their closing.
LEMMA QuietSteps ==
    ASSUME NEW t \in Tasks
    PROVE  /\ ConnectBegin(t) => Quiet(t)
           /\ DisconnectBegin(t) => Quiet(t)
           /\ Begin(t) => Quiet(t)
           /\ List(t) => Quiet(t)
           /\ Stop(t) => Quiet(t)
           /\ DropContext(t) => Quiet(t)
           /\ ResetTransport(t) => Quiet(t)
           /\ Lookup(t) => Quiet(t)
           /\ Examine(t) => Quiet(t)
           /\ Ping(t) => Quiet(t)
           /\ PingSkipped(t) => Quiet(t)
           /\ Endpoint(t) => Quiet(t)
<1> USE DEF Quiet, Busy, Opened, Inserted, Labels, Goto, Return, mapVars, poolVars, keepVars
<1>1. ConnectBegin(t) => Quiet(t)
  BY DEF ConnectBegin
<1>2. DisconnectBegin(t) => Quiet(t)
  BY DEF DisconnectBegin
<1>3. Begin(t) => Quiet(t)
  BY DEF Begin
<1>4. List(t) => Quiet(t)
  BY DEF List
<1>5. Stop(t) => Quiet(t)
  BY DEF Stop
<1>6. DropContext(t) => Quiet(t)
  BY DEF DropContext
<1>7. ResetTransport(t) => Quiet(t)
  BY DEF ResetTransport
<1>8. Lookup(t) => Quiet(t)
  BY DEF Lookup
<1>9. Examine(t) => Quiet(t)
  <2> SUFFICES ASSUME Examine(t) PROVE Quiet(t)
    OBVIOUS
  <2>1. pc[t] = "examine" /\ UNCHANGED <<conns, pool, hand, keeper>>
    BY DEF Examine
  <2>2. \E l \in {"done", "ping"} : pc' = [pc EXCEPT ![t] = l]
    BY DEF Examine
  <2> QED BY <2>1, <2>2
<1>10. Ping(t) => Quiet(t)
  <2> SUFFICES ASSUME Ping(t) PROVE Quiet(t)
    OBVIOUS
  <2>1. pc[t] = "ping" /\ UNCHANGED <<conns, pool, hand, keeper>>
    BY DEF Ping
  <2>2. \E l \in {"done", "reset", "stop"} : pc' = [pc EXCEPT ![t] = l]
    BY DEF Ping
  <2> QED BY <2>1, <2>2
<1>11. PingSkipped(t) => Quiet(t)
  BY DEF PingSkipped
<1>12. Endpoint(t) => Quiet(t)
  BY DEF Endpoint
<1> QED BY <1>1, <1>2, <1>3, <1>4, <1>5, <1>6, <1>7, <1>8, <1>9, <1>10, <1>11, <1>12

\* Closing what a holder has in its hands and emptying them keeps the ownership.
LEMMA CloseOwn ==
    ASSUME TypeOK, OwnInv, NEW h \in Holders, Closed(hand[h]),
           hand' = [hand EXCEPT ![h] = {}], conns' = conns
    PROVE  OwnInv'
BY DEF TypeOK, OwnInv, Owned, MapOpen, HandOpen, OneKey, OneHand, NotBoth, Closed

\* Taking the pools of some keys out of the map into the hands of a holder keeps it.
LEMMA TakeOwn ==
    ASSUME TypeOK, OwnInv, NEW h \in Holders, NEW ks \in SUBSET Keys,
           conns' = Cleared(conns, ks), pool' = pool,
           hand' = [hand EXCEPT ![h] = @ \cup At(conns, ks)]
    PROVE  OwnInv'
<1> USE HolderFacts DEF TypeOK, OwnInv
<1>1. \A k \in Keys : conns'[k] = IF k \in ks THEN None ELSE conns[k]
  BY DEF Cleared
<1>2. \A i \in Holders : hand'[i] = IF i = h THEN hand[h] \cup At(conns, ks) ELSE hand[i]
  OBVIOUS
<1>3. \A p : p \in At(conns, ks) <=> p # None /\ \E k \in ks : conns[k] = p
  BY DEF At
<1>4. Owned'
  <2> SUFFICES ASSUME NEW p \in Pools, pool[p] = "open"
               PROVE  (\E k \in Keys : conns'[k] = p) \/ (\E i \in Holders : p \in hand'[i])
    BY DEF Owned
  <2>1. CASE \E i \in Holders : p \in hand[i]
    BY <1>2, <2>1
  <2>2. CASE \E k \in Keys : conns[k] = p
    <3>1. PICK k \in Keys : conns[k] = p
      BY <2>2
    <3>2. CASE k \in ks
      <4>1. p \in At(conns, ks)
        BY <3>1, <3>2 DEF At
      <4> QED BY <1>2, <4>1
    <3>3. CASE k \notin ks
      BY <1>1, <3>1, <3>3
    <3> QED BY <3>2, <3>3
  <2> QED BY <2>1, <2>2 DEF Owned
<1>5. MapOpen'
  BY <1>1 DEF MapOpen
<1>6. HandOpen'
  BY <1>2, <1>3 DEF HandOpen, MapOpen
<1>7. OneKey'
  BY <1>1 DEF OneKey
<1>8. OneHand'
  BY <1>2, <1>3 DEF OneHand, NotBoth
<1>9. NotBoth'
  BY <1>1, <1>2, <1>3 DEF NotBoth, OneKey
<1> QED BY <1>4, <1>5, <1>6, <1>7, <1>8, <1>9

\* Opening a pool that is nowhere yet into the hands of its call keeps it.
LEMMA OpenOwn ==
    ASSUME TypeOK, OwnInv, NEW t \in Pools, hand[t] = {}, conns' = conns,
           \A k \in Keys : conns[k] # t, \A h \in Holders : t \notin hand[h],
           pool' = [pool EXCEPT ![t] = "open"], hand' = [hand EXCEPT ![t] = {t}]
    PROVE  OwnInv'
<1> USE HolderFacts DEF TypeOK, OwnInv
<1>1. \A h \in Holders : hand'[h] = IF h = t THEN {t} ELSE hand[h]
  OBVIOUS
<1>2. \A p \in Pools : pool'[p] = IF p = t THEN "open" ELSE pool[p]
  OBVIOUS
<1>3. Owned'
  BY <1>1, <1>2 DEF Owned
<1>4. MapOpen'
  BY <1>2 DEF MapOpen
<1>5. HandOpen'
  BY <1>1, <1>2 DEF HandOpen
<1>6. OneKey'
  BY DEF OneKey
<1>7. OneHand'
  BY <1>1 DEF OneHand
<1>8. NotBoth'
  BY <1>1 DEF NotBoth
<1> QED BY <1>3, <1>4, <1>5, <1>6, <1>7, <1>8

\* Putting the pool a call holds into the map, in exchange for the one it finds
\* there, keeps it.
LEMMA PutOwn ==
    ASSUME TypeOK, OwnInv, NEW t \in Pools, NEW k \in Keys, hand[t] = {t}, pool' = pool,
           conns' = [conns EXCEPT ![k] = t], hand' = [hand EXCEPT ![t] = At(conns, {k})]
    PROVE  OwnInv'
<1> USE HolderFacts DEF TypeOK, OwnInv
<1> DEFINE R == At(conns, {k})
<1>1. t \in Holders /\ hand'[t] = R /\ \A h \in Holders : h # t => hand'[h] = hand[h]
  OBVIOUS
<1>2. \A l \in Keys : conns'[l] = IF l = k THEN t ELSE conns[l]
  OBVIOUS
<1>3. R \subseteq Pools /\ \A p \in Pools : p \in R <=> p = conns[k]
  BY DEF At
<1> HIDE DEF R
<1>4. /\ \A l \in Keys : conns[l] # t
      /\ \A h \in Holders : h # t => t \notin hand[h]
      /\ t \notin R
  <2>1. t \in Holders /\ t \in hand[t]
    OBVIOUS
  <2>2. \A l \in Keys : conns[l] # t
    BY <2>1 DEF NotBoth
  <2>3. \A h \in Holders : h # t => t \notin hand[h]
    BY <2>1 DEF OneHand
  <2> QED BY <1>3, <2>2, <2>3
<1>5. Owned'
  <2> SUFFICES ASSUME NEW p \in Pools, pool[p] = "open"
               PROVE  (\E l \in Keys : conns'[l] = p) \/ (\E h \in Holders : p \in hand'[h])
    BY DEF Owned
  <2>1. CASE p = t
    BY <1>2, <2>1
  <2>2. CASE p # t /\ \E h \in Holders : p \in hand[h]
    BY <1>1, <2>2
  <2>3. CASE \E l \in Keys : conns[l] = p
    <3>1. PICK l \in Keys : conns[l] = p
      BY <2>3
    <3>2. CASE l = k
      <4>1. p \in R
        BY <1>3, <3>1, <3>2
      <4> QED BY <1>1, <4>1
    <3>3. CASE l # k
      BY <1>2, <3>1, <3>3
    <3> QED BY <3>2, <3>3
  <2> QED BY <2>1, <2>2, <2>3 DEF Owned
<1>6. MapOpen'
  BY <1>2 DEF MapOpen, HandOpen
<1>7. HandOpen'
  <2> SUFFICES ASSUME NEW h \in Holders, NEW p \in hand'[h] PROVE pool[p] = "open"
    BY DEF HandOpen
  <2>1. CASE h = t
    <3>1. conns[k] # None /\ p = conns[k]
      BY <1>1, <1>3, <2>1
    <3> QED BY <3>1 DEF MapOpen
  <2>2. CASE h # t
    BY <1>1, <2>2 DEF HandOpen
  <2> QED BY <2>1, <2>2
<1>8. OneKey'
  BY <1>2, <1>4 DEF OneKey
<1>9. OneHand'
  <2>1. \A h \in Holders, p \in R : p \notin hand[h]
    BY <1>3 DEF NotBoth
  <2> SUFFICES ASSUME NEW h \in Holders, NEW i \in Holders, NEW p \in hand'[h],
                      p \in hand'[i]
               PROVE  h = i
    BY DEF OneHand
  <2>2. CASE h # t /\ i # t
    BY <1>1, <2>2 DEF OneHand
  <2>3. CASE h = t \/ i = t
    BY <1>1, <2>1, <2>3
  <2> QED BY <2>2, <2>3
<1>10. NotBoth'
  <2>1. \A l \in Keys : l # k => conns[l] \notin R
    <3> SUFFICES ASSUME NEW l \in Keys, l # k, conns[l] \in R PROVE FALSE
      OBVIOUS
    <3>1. conns[k] # None /\ conns[l] = conns[k]
      BY <1>3
    <3> QED BY <3>1 DEF OneKey
  <2> QED BY <1>1, <1>2, <1>4, <2>1 DEF NotBoth
<1> QED BY <1>5, <1>6, <1>7, <1>8, <1>9, <1>10

\* The background task closing one of its pools keeps it.
LEMMA BackgroundOwn ==
    ASSUME TypeOK, OwnInv, NEW p \in hand[Background], Closed({p}), conns' = conns,
           hand' = [hand EXCEPT ![Background] = @ \ {p}]
    PROVE  OwnInv'
<1> USE HolderFacts DEF TypeOK, OwnInv
<1>1. \A h \in Holders : hand'[h] = IF h = Background THEN hand[h] \ {p} ELSE hand[h]
  <2>1. hand \in [Holders -> SUBSET Pools] /\ hand' = [hand EXCEPT ![Background] = @ \ {p}]
    OBVIOUS
  <2> QED BY ONLY <2>1
<1>2. \A q \in Pools : pool'[q] = IF q = p THEN "closed" ELSE pool[q]
  BY DEF Closed
<1>3. \A k \in Keys : conns[k] # p
  BY DEF NotBoth
<1>4. Owned'
  BY <1>1, <1>2 DEF Owned
<1>5. MapOpen'
  BY <1>2, <1>3 DEF MapOpen
<1>6. HandOpen'
  BY <1>1, <1>2 DEF HandOpen, OneHand
<1>7. OneKey'
  BY DEF OneKey
<1>8. OneHand'
  BY <1>1 DEF OneHand
<1>9. NotBoth'
  BY <1>1 DEF NotBoth
<1> QED BY <1>4, <1>5, <1>6, <1>7, <1>8, <1>9

\* A quiet step keeps the hands, the pools and their owners.
LEMMA QuietInductive ==
    ASSUME TypeOK, PoolInv, NEW t \in Tasks, Quiet(t)
    PROVE  HandInv' /\ FreshInv' /\ OwnInv'
<1> USE HolderFacts DEF TypeOK
<1>0. PICK l \in Labels \ Busy : pc' = [pc EXCEPT ![t] = l]
  BY DEF Quiet
<1>1. \A x \in Tasks : pc'[x] = IF x = t THEN l ELSE pc[x]
  BY <1>0
<1>2. UNCHANGED <<conns, pool, hand, keeper>> /\ pc[t] \notin Busy \cup Inserted
  BY DEF Quiet
<1>3. HandInv'
  BY <1>1, <1>2, ZenonT(30) DEF PoolInv, HandInv, Busy
<1>4. FreshInv'
  BY <1>1, <1>2 DEF PoolInv, FreshInv, Busy, Opened, Inserted
<1>5. OwnInv'
  BY <1>2 DEF PoolInv, OwnInv, Owned, MapOpen, HandOpen, OneKey, OneHand, NotBoth
<1> QED BY <1>3, <1>4, <1>5

\* A step keeps what the labels say of hands, pools and keepalive tasks, and the
\* ownership.
LEMMA PoolInductive ==
    ASSUME TypeOK, PoolInv, [Next]_vars
    PROVE  (HandInv /\ FreshInv /\ OwnInv)'
<1> USE HolderFacts, NextStepFacts DEF TypeOK, PoolInv
<1>1. CASE UNCHANGED vars
  BY <1>1 DEF vars, HandInv, FreshInv, OwnInv, Owned, MapOpen, HandOpen, OneKey, OneHand, NotBoth
<1>2. ASSUME NEW t \in Tasks, ConnectBegin(t) PROVE (HandInv /\ FreshInv /\ OwnInv)'
  BY <1>2, QuietSteps, QuietInductive
<1>3. ASSUME NEW t \in Tasks, DisconnectBegin(t) PROVE (HandInv /\ FreshInv /\ OwnInv)'
  BY <1>3, QuietSteps, QuietInductive
<1>4. ASSUME NEW t \in Tasks, Begin(t) PROVE (HandInv /\ FreshInv /\ OwnInv)'
  BY <1>4, QuietSteps, QuietInductive
<1>5. ASSUME NEW t \in Tasks, List(t) PROVE (HandInv /\ FreshInv /\ OwnInv)'
  BY <1>5, QuietSteps, QuietInductive
<1>6. ASSUME NEW t \in Tasks, Stop(t) PROVE (HandInv /\ FreshInv /\ OwnInv)'
  BY <1>6, QuietSteps, QuietInductive
<1>7. ASSUME NEW t \in Tasks, DropContext(t) PROVE (HandInv /\ FreshInv /\ OwnInv)'
  BY <1>7, QuietSteps, QuietInductive
<1>8. ASSUME NEW t \in Tasks, Remove(t) PROVE (HandInv /\ FreshInv /\ OwnInv)'
  <2>1. pc[t] = "remove" /\ hand[t] = {} /\ UNCHANGED <<pool, keeper>>
    BY <1>8 DEF Remove, HandInv, Opened, poolVars, keepVars
  <2>2. PICK h \in {t, Background} : /\ h = t <=> ~Detached(t)
                                   /\ hand' = [hand EXCEPT ![h] = @ \cup At(conns, removing[t])]
    BY <1>8 DEF Remove
  <2>3. \E l \in {"reset", "close"} : pc' = [pc EXCEPT ![t] = l] /\ (l = "reset" <=> Detached(t))
    BY <1>8 DEF Remove, Goto
  <2>4. conns' = Cleared(conns, removing[t]) /\ removing[t] \in SUBSET Keys
    BY <1>8 DEF Remove
  <2>5. \A k \in Keys : conns'[k] # None => conns'[k] = conns[k]
    BY <2>4 DEF Cleared
  <2>6. HandInv'
    BY <2>1, <2>2, <2>3, <2>4, <2>5 DEF HandInv, Opened
  <2>7. FreshInv'
    BY <2>1, <2>2, <2>3, <2>4, <2>5 DEF FreshInv, Opened, Inserted
  <2>8. OwnInv'
    BY <2>1, <2>2, <2>4, TakeOwn
  <2> QED BY <2>6, <2>7, <2>8
<1>9. ASSUME NEW t \in Tasks, Close(t) PROVE (HandInv /\ FreshInv /\ OwnInv)'
  <2>1. pc[t] = "close" /\ UNCHANGED <<conns, keeper>>
    BY <1>9 DEF Close, mapVars, keepVars
  <2>2. \E l \in {"lookup", "reset", "check1", "done"} : pc' = [pc EXCEPT ![t] = l]
    BY <1>9 DEF Close, Goto, Return
  <2>3. hand' = [hand EXCEPT ![t] = {}] /\ Closed(hand[t])
    BY <1>9 DEF Close
  <2>4. \A q \in Pools : pool[q] = "none" => pool'[q] = "none"
    BY <2>3 DEF OwnInv, HandOpen, Closed
  <2>5. HandInv'
    BY <2>1, <2>2, <2>3, <2>4 DEF HandInv, Opened
  <2>6. FreshInv'
    BY <2>1, <2>2, <2>3, <2>4 DEF FreshInv, Opened, Inserted
  <2>7. OwnInv'
    BY <2>1, <2>2, <2>3, <2>4, CloseOwn
  <2> QED BY <2>5, <2>6, <2>7
<1>10. ASSUME NEW t \in Tasks, ResetTransport(t) PROVE (HandInv /\ FreshInv /\ OwnInv)'
  BY <1>10, QuietSteps, QuietInductive
<1>11. ASSUME NEW t \in Tasks, Lookup(t) PROVE (HandInv /\ FreshInv /\ OwnInv)'
  BY <1>11, QuietSteps, QuietInductive
<1>12. ASSUME NEW t \in Tasks, Examine(t) PROVE (HandInv /\ FreshInv /\ OwnInv)'
  BY <1>12, QuietSteps, QuietInductive
<1>13. ASSUME NEW t \in Tasks, Ping(t) PROVE (HandInv /\ FreshInv /\ OwnInv)'
  BY <1>13, QuietSteps, QuietInductive
<1>14. ASSUME NEW t \in Tasks, PingSkipped(t) PROVE (HandInv /\ FreshInv /\ OwnInv)'
  BY <1>14, QuietSteps, QuietInductive
<1>15. ASSUME NEW t \in Tasks, Check(t) PROVE (HandInv /\ FreshInv /\ OwnInv)'
  <2>1. CASE Current(t) /\ pc[t] # "check4"
    <3>1. Quiet(t)
      BY <1>15, <2>1 DEF Check, Goto, Quiet, Busy, Opened, Inserted, Labels, mapVars, keepVars
    <3> QED BY <3>1, QuietInductive
  <2>2. CASE Current(t) /\ pc[t] = "check4"
    <3>1. pc' = [pc EXCEPT ![t] = "istop"] /\ UNCHANGED <<conns, pool, hand, keeper>>
      BY <1>15, <2>2 DEF Check, Goto, mapVars, keepVars
    <3>2. HandInv'
      BY <2>2, <3>1 DEF HandInv, Opened
    <3>3. FreshInv'
      BY <2>2, <3>1 DEF FreshInv, Opened, Inserted
    <3>4. OwnInv'
      BY <3>1 DEF OwnInv, Owned, MapOpen, HandOpen, OneKey, OneHand, NotBoth
    <3> QED BY <3>2, <3>3, <3>4
  <2>3. CASE ~Current(t)
    <3>1. /\ pc' = [pc EXCEPT ![t] = "done"] /\ UNCHANGED <<conns, keeper>>
          /\ Closed(hand[t]) /\ hand' = [hand EXCEPT ![t] = {}]
      BY <1>15, <2>3 DEF Check, Goto, Return, mapVars, keepVars
    <3>2. \A q \in Pools : pool[q] = "none" => pool'[q] = "none"
      BY <3>1 DEF OwnInv, HandOpen, Closed
    <3>3. pc[t] \notin Inserted /\ pc[t] # "iput"
      BY <1>15 DEF Check, Inserted
    <3>4. HandInv'
      BY <3>1 DEF HandInv, Opened
    <3>5. FreshInv'
      BY <3>1, <3>2, <3>3 DEF FreshInv, Opened, Inserted
    <3>6. OwnInv'
      BY <3>1, CloseOwn
    <3> QED BY <3>4, <3>5, <3>6
  <2> QED BY <2>1, <2>2, <2>3
<1>16. ASSUME NEW t \in Tasks, Endpoint(t) PROVE (HandInv /\ FreshInv /\ OwnInv)'
  BY <1>16, QuietSteps, QuietInductive
<1>17. ASSUME NEW t \in Tasks, DesktopOpen(t) PROVE (HandInv /\ FreshInv /\ OwnInv)'
  <2>0. pc[t] = "open" /\ t \in Pools
    BY <1>17 DEF DesktopOpen, OpenThen, LabelInv, Opening, Opened
  <2>1. CASE Return(t, "err") /\ UNCHANGED <<pool, hand>>
    <3>1. Quiet(t)
      BY <1>17, <2>0, <2>1
         DEF DesktopOpen, OpenThen, Goto, Return, Quiet, Busy, Opened, Inserted, Labels, mapVars, keepVars
    <3> QED BY <3>1, QuietInductive
  <2>2. CASE ~(Return(t, "err") /\ UNCHANGED <<pool, hand>>)
    <3>1. /\ pc' = [pc EXCEPT ![t] = "check4"] /\ UNCHANGED <<conns, keeper>>
          /\ pool' = [pool EXCEPT ![t] = "open"] /\ hand' = [hand EXCEPT ![t] = {t}]
      BY <1>17, <2>2 DEF DesktopOpen, OpenThen, Goto, mapVars, keepVars
    <3>2. pool[t] = "none" /\ \A k \in Keys : conns[k] # t
      BY <2>0 DEF FreshInv, Opened, Inserted
    <3>3. hand[t] = {} /\ \A h \in Holders : t \notin hand[h]
      BY <2>0, <3>2 DEF OwnInv, HandOpen, HandInv, Opened
    <3>4. HandInv'
      BY <2>0, <3>1 DEF HandInv, Opened
    <3>5. FreshInv'
      BY <2>0, <3>1, <3>2 DEF FreshInv, Opened, Inserted
    <3>6. OwnInv'
      BY <2>0, <3>1, <3>2, <3>3, OpenOwn
    <3> QED BY <3>4, <3>5, <3>6
  <2> QED BY <2>1, <2>2
<1>18. ASSUME NEW t \in Tasks, Open(t) PROVE (HandInv /\ FreshInv /\ OwnInv)'
  <2>0. pc[t] = "open" /\ t \in Pools
    BY <1>18 DEF Open, OpenThen, LabelInv, Opening, Opened
  <2>1. CASE Return(t, "err") /\ UNCHANGED <<pool, hand>>
    <3>1. Quiet(t)
      BY <1>18, <2>0, <2>1
         DEF Open, OpenThen, Goto, Return, Quiet, Busy, Opened, Inserted, Labels, mapVars, keepVars
    <3> QED BY <3>1, QuietInductive
  <2>2. CASE ~(Return(t, "err") /\ UNCHANGED <<pool, hand>>)
    <3>1. /\ pc' = [pc EXCEPT ![t] = "icontext"] /\ UNCHANGED <<conns, keeper>>
          /\ pool' = [pool EXCEPT ![t] = "open"] /\ hand' = [hand EXCEPT ![t] = {t}]
      BY <1>18, <2>2 DEF Open, OpenThen, Goto, mapVars, keepVars
    <3>2. pool[t] = "none" /\ \A k \in Keys : conns[k] # t
      BY <2>0 DEF FreshInv, Opened, Inserted
    <3>3. hand[t] = {} /\ \A h \in Holders : t \notin hand[h]
      BY <2>0, <3>2 DEF OwnInv, HandOpen, HandInv, Opened
    <3>4. HandInv'
      BY <2>0, <3>1 DEF HandInv, Opened
    <3>5. FreshInv'
      BY <2>0, <3>1, <3>2 DEF FreshInv, Opened, Inserted
    <3>6. OwnInv'
      BY <2>0, <3>1, <3>2, <3>3, OpenOwn
    <3> QED BY <3>4, <3>5, <3>6
  <2> QED BY <2>1, <2>2
<1>19. ASSUME NEW t \in Tasks, InsertContext(t) PROVE (HandInv /\ FreshInv /\ OwnInv)'
  <2>1. pc[t] = "icontext" /\ UNCHANGED <<conns, pool, hand, keeper>>
    BY <1>19 DEF InsertContext, mapVars, poolVars, keepVars
  <2>2. \E l \in {"check4"} : pc' = [pc EXCEPT ![t] = l]
    BY <1>19 DEF InsertContext, Goto
  <2>3. HandInv'
    BY <2>1, <2>2 DEF HandInv, Opened
  <2>4. FreshInv'
    BY <2>1, <2>2 DEF FreshInv, Opened, Inserted
  <2>5. OwnInv'
    BY <2>1 DEF OwnInv, Owned, MapOpen, HandOpen, OneKey, OneHand, NotBoth
  <2> QED BY <2>3, <2>4, <2>5
<1>20. ASSUME NEW t \in Tasks, InsertStop(t) PROVE (HandInv /\ FreshInv /\ OwnInv)'
  <2>1. pc[t] = "istop" /\ UNCHANGED <<conns, pool, hand, keeper>>
    BY <1>20 DEF InsertStop, mapVars, poolVars, keepVars
  <2>2. \E l \in {"istart", "iput"} : pc' = [pc EXCEPT ![t] = l]
    BY <1>20 DEF InsertStop, Goto
  <2>3. HandInv'
    BY <2>1, <2>2 DEF HandInv, Opened
  <2>4. FreshInv'
    BY <2>1, <2>2 DEF FreshInv, Opened, Inserted
  <2>5. OwnInv'
    BY <2>1 DEF OwnInv, Owned, MapOpen, HandOpen, OneKey, OneHand, NotBoth
  <2> QED BY <2>3, <2>4, <2>5
<1>21. ASSUME NEW t \in Tasks, InsertStart(t) PROVE (HandInv /\ FreshInv /\ OwnInv)'
  <2>1. pc[t] = "istart" /\ UNCHANGED <<conns, pool, hand>>
    BY <1>21 DEF InsertStart, mapVars, poolVars, keepVars
  <2>2. \E l \in {"iput"} : pc' = [pc EXCEPT ![t] = l]
    BY <1>21 DEF InsertStart, Goto
  <2>3. t \in Pools /\ keeper[t] = "none" /\ keeper' = [keeper EXCEPT ![t] = "sleep"]
    BY <1>21 DEF InsertStart, FreshInv, LabelInv, Opening, Opened, Inserted
  <2>4. HandInv'
    BY <2>1, <2>2, <2>3 DEF HandInv, Opened
  <2>5. FreshInv'
    BY <2>1, <2>2, <2>3 DEF FreshInv, Opened, Inserted
  <2>6. OwnInv'
    BY <2>1 DEF OwnInv, Owned, MapOpen, HandOpen, OneKey, OneHand, NotBoth
  <2> QED BY <2>4, <2>5, <2>6
<1>22. ASSUME NEW t \in Tasks, InsertPut(t) PROVE (HandInv /\ FreshInv /\ OwnInv)'
  <2>1. /\ pc[t] = "iput" /\ pc' = [pc EXCEPT ![t] = "iclose"] /\ UNCHANGED <<pool, keeper>>
        /\ conns' = [conns EXCEPT ![Key(t)] = t] /\ hand' = [hand EXCEPT ![t] = Replaced(t)]
    BY <1>22 DEF InsertPut, Goto, poolVars, keepVars
  <2>2. t \in Pools /\ hand[t] = {t} /\ pool[t] = "open"
    BY <2>1 DEF LabelInv, HandInv, OwnInv, HandOpen, Opening, Opened
  <2>4. HandInv'
    BY <2>1, <2>2 DEF HandInv, Opened
  <2>5. FreshInv'
    BY <2>1, <2>2 DEF FreshInv, Opened, Inserted
  <2>6. OwnInv'
    BY <2>1, <2>2, PutOwn DEF Replaced
  <2> QED BY <2>4, <2>5, <2>6
<1>23. ASSUME NEW t \in Tasks, InsertClose(t) PROVE (HandInv /\ FreshInv /\ OwnInv)'
  <2>1. pc[t] = "iclose" /\ UNCHANGED <<conns, keeper>>
    BY <1>23 DEF InsertClose, mapVars, keepVars
  <2>2. pc' = [pc EXCEPT ![t] = "done"]
    BY <1>23 DEF InsertClose, Goto, Return
  <2>3. hand' = [hand EXCEPT ![t] = {}] /\ Closed(hand[t])
    BY <1>23 DEF InsertClose
  <2>4. \A q \in Pools : pool[q] = "none" => pool'[q] = "none"
    BY <2>3 DEF OwnInv, HandOpen, Closed
  <2>5. HandInv'
    BY <2>1, <2>2, <2>3, <2>4 DEF HandInv, Opened
  <2>6. FreshInv'
    BY <2>1, <2>2, <2>3, <2>4 DEF FreshInv, Opened, Inserted
  <2>7. OwnInv'
    BY <2>1, <2>2, <2>3, <2>4, CloseOwn
  <2> QED BY <2>5, <2>6, <2>7
<1>24. ASSUME NEW p \in Pools, BackgroundClose(p) PROVE (HandInv /\ FreshInv /\ OwnInv)'
  <2>1. p \in hand[Background] /\ UNCHANGED <<conns, keeper, pc>>
    BY <1>24 DEF BackgroundClose, mapVars, keepVars
  <2>2. hand' = [hand EXCEPT ![Background] = @ \ {p}] /\ Closed({p})
    BY <1>24 DEF BackgroundClose
  <2>3. \A q \in Pools : pool[q] = "none" => pool'[q] = "none"
    BY <2>1, <2>2 DEF OwnInv, HandOpen, Closed
  <2>4. HandInv'
    BY <2>1, <2>2, <2>3 DEF HandInv, Opened
  <2>5. FreshInv'
    BY <2>1, <2>2, <2>3 DEF FreshInv, Opened, Inserted
  <2>6. OwnInv'
    BY <2>1, <2>2, BackgroundOwn
  <2> QED BY <2>4, <2>5, <2>6
<1>25. ASSUME NEW p \in Pools, KeeperPing(p) PROVE (HandInv /\ FreshInv /\ OwnInv)'
  <2>1. keeper[p] = "sleep" /\ UNCHANGED <<conns, pool, hand, pc>>
    BY <1>25 DEF KeeperPing, mapVars, poolVars
  <2>2. keeper' = [keeper EXCEPT ![p] = "forget"]
    BY <1>25 DEF KeeperPing
  <2>3. HandInv'
    BY <2>1, <2>2 DEF HandInv, Opened
  <2>4. FreshInv'
    BY <2>1, <2>2 DEF FreshInv, Opened, Inserted
  <2>5. OwnInv'
    BY <2>1 DEF OwnInv, Owned, MapOpen, HandOpen, OneKey, OneHand, NotBoth
  <2> QED BY <2>3, <2>4, <2>5
<1>26. ASSUME NEW p \in Pools, KeeperForget(p) PROVE (HandInv /\ FreshInv /\ OwnInv)'
  <2>1. keeper[p] = "forget" /\ UNCHANGED <<conns, pool, hand, pc>>
    BY <1>26 DEF KeeperForget, mapVars, poolVars
  <2>2. keeper' = [keeper EXCEPT ![p] = "context"]
    BY <1>26 DEF KeeperForget
  <2>3. HandInv'
    BY <2>1, <2>2 DEF HandInv, Opened
  <2>4. FreshInv'
    BY <2>1, <2>2 DEF FreshInv, Opened, Inserted
  <2>5. OwnInv'
    BY <2>1 DEF OwnInv, Owned, MapOpen, HandOpen, OneKey, OneHand, NotBoth
  <2> QED BY <2>3, <2>4, <2>5
<1>27. ASSUME NEW p \in Pools, KeeperContext(p) PROVE (HandInv /\ FreshInv /\ OwnInv)'
  <2>1. keeper[p] = "context" /\ UNCHANGED <<conns, pool, hand, pc>>
    BY <1>27 DEF KeeperContext, mapVars, poolVars
  <2>2. keeper' = [keeper EXCEPT ![p] = "remove"]
    BY <1>27 DEF KeeperContext
  <2>3. HandInv'
    BY <2>1, <2>2 DEF HandInv, Opened
  <2>4. FreshInv'
    BY <2>1, <2>2 DEF FreshInv, Opened, Inserted
  <2>5. OwnInv'
    BY <2>1 DEF OwnInv, Owned, MapOpen, HandOpen, OneKey, OneHand, NotBoth
  <2> QED BY <2>3, <2>4, <2>5
<1>28. ASSUME NEW p \in Pools, KeeperRemove(p) PROVE (HandInv /\ FreshInv /\ OwnInv)'
  <2>1. keeper[p] = "remove" /\ hand[Keeper(p)] = {} /\ UNCHANGED <<pool, pc>>
    BY <1>28 DEF KeeperRemove, HandInv, poolVars
  <2>2. keeper' = [keeper EXCEPT ![p] = "close"]
    BY <1>28 DEF KeeperRemove
  <2>3. conns' = Cleared(conns, {Key(p)}) /\ {Key(p)} \in SUBSET Keys
    BY <1>28 DEF KeeperRemove
  <2>4. hand' = [hand EXCEPT ![Keeper(p)] = @ \cup At(conns, {Key(p)})]
    BY <1>28, <2>1 DEF KeeperRemove
  <2>5. \A k \in Keys : conns'[k] = conns[k] \/ conns'[k] = None
    BY <2>3 DEF Cleared
  <2>6. HandInv'
    BY <2>1, <2>2, <2>3, <2>4, <2>5 DEF HandInv, Opened
  <2>7. FreshInv'
    <3>1. \A q \in Pools : pc[q] \notin {"iput"} \cup Inserted => keeper'[q] = "none"
      BY <2>1, <2>2 DEF FreshInv
    <3>2. \A q \in Pools, k \in Keys : conns'[k] = q => pc[q] \in Inserted
      BY <2>5 DEF FreshInv
    <3> QED BY <2>1, <3>1, <3>2 DEF FreshInv
  <2>8. OwnInv'
    BY <2>1, <2>3, <2>4, TakeOwn
  <2> QED BY <2>6, <2>7, <2>8
<1>29. ASSUME NEW p \in Pools, KeeperEnd(p) PROVE (HandInv /\ FreshInv /\ OwnInv)'
  <2>1. keeper[p] # "none" /\ UNCHANGED <<conns, pc>>
    BY <1>29 DEF KeeperEnd, mapVars
  <2>2. keeper' = [keeper EXCEPT ![p] = "done"]
    BY <1>29 DEF KeeperEnd, Ends
  <2>3. hand' = [hand EXCEPT ![Keeper(p)] = {}] /\ Closed(hand[Keeper(p)])
    BY <1>29 DEF KeeperEnd
  <2>4. \A q \in Pools : pool[q] = "none" => pool'[q] = "none"
    BY <2>3 DEF OwnInv, HandOpen, Closed
  <2>5. HandInv'
    BY <2>1, <2>2, <2>3, <2>4 DEF HandInv, Opened
  <2>6. FreshInv'
    BY <2>1, <2>2, <2>3, <2>4 DEF FreshInv, Opened, Inserted
  <2>7. OwnInv'
    BY <2>1, <2>3, CloseOwn
  <2> QED BY <2>5, <2>6, <2>7
<1> QED
  BY <1>1, <1>2, <1>3, <1>4, <1>5, <1>6, <1>7, <1>8, <1>9, <1>10, <1>11, <1>12, <1>13, <1>14,
     <1>15, <1>16, <1>17, <1>18, <1>19, <1>20, <1>21, <1>22, <1>23, <1>24, <1>25, <1>26, <1>27,
     <1>28, <1>29, NextCases

\* A number that is not past the current one is older or the current one.
LEMMA OlderOrCurrent ==
    ASSUME NEW m \in Nat, NEW n \in Nat, m <= n
    PROVE  m < n \/ m = n
OBVIOUS

(***************************************************************************)
(* The steps that begin no attempt and supersede none.                      *)
(***************************************************************************)
Steady ==
    /\ UNCHANGED <<attempt, client, num>>
    /\ \A t \in Tasks : pc'[t] = "idle" => pc[t] = "idle"
    /\ \A c \in Connects : pc[c] = "idle" => pc'[c] = "idle"
    /\ \A c \in Connects : result'[c] = "superseded" => result[c] = "superseded"

\* Moving a task that has begun, or one that is no attempt, is steady.
LEMMA MoveSteady ==
    ASSUME TypeOK, NEW t \in Tasks, UNCHANGED <<attempt, client, num>>,
           pc[t] # "idle" \/ t \notin Connects,
           \E l \in Labels \ {"idle"} : pc' = [pc EXCEPT ![t] = l],
           \/ result' = result
           \/ \E r \in {"ok", "err", "ignored"} : result' = [result EXCEPT ![t] = r]
    PROVE  Steady
<1> USE HolderFacts DEF TypeOK, Steady
<1>1. PICK l \in Labels \ {"idle"} : pc' = [pc EXCEPT ![t] = l]
  OBVIOUS
<1>2. \A x \in Tasks : pc'[x] = pc[x] \/ (x = t /\ pc'[x] = l)
  BY <1>1
<1>3. \A x \in Tasks : result'[x] = result[x] \/ result'[x] # "superseded"
  OBVIOUS
<1> QED BY <1>2, <1>3

\* Steady steps keep the numbers in order.
LEMMA SteadyInductive ==
    ASSUME TypeOK, AttemptInv, Steady
    PROVE  AttemptInv'
<1> USE HolderFacts DEF TypeOK, Steady
<1>1. \A c \in Connects : Cause(c)' <=> Cause(c)
  BY DEF Cause
<1> QED BY <1>1 DEF AttemptInv

\* A step keeps the numbers of the attempts in order, with a cause for every one that
\* is not the newest.
LEMMA AttemptInductive ==
    ASSUME TypeOK, AttemptInv, [Next]_vars
    PROVE  AttemptInv'
<1> USE HolderFacts, NextStepFacts, TaskFacts DEF TypeOK
<1>1. CASE UNCHANGED vars
  BY <1>1 DEF vars, AttemptInv, Cause
<1>2. ASSUME NEW t \in Tasks, ConnectBegin(t) PROVE AttemptInv'
  <2>1. /\ t \in Connects /\ pc[t] = "idle" /\ attempt' = attempt + 1 /\ client' = t
        /\ num' = [num EXCEPT ![t] = attempt + 1] /\ pc' = [pc EXCEPT ![t] = "list"]
        /\ result' = result
    BY <1>2 DEF ConnectBegin, Goto, taskVars
  <2>2. num[t] = 0 /\ \A y \in Tasks : num[y] <= attempt
    BY <2>1 DEF AttemptInv
  <2>3. (\A y \in Tasks : num[y] <= attempt /\ (pc[y] = "idle" => num[y] = 0))'
    BY <2>1, <2>2 DEF AttemptInv
  <2>4. (\A c \in Connects : pc[c] # "idle" => num[c] # 0)'
    BY <2>1, <2>2 DEF AttemptInv
  <2>5. (\A c \in Connects : num[c] # 0 /\ num[c] = attempt /\ client # None => client = c)'
    BY <2>1, <2>2 DEF AttemptInv
  <2>6. (\A c \in Connects : num[c] # 0 /\ num[c] < attempt => Cause(c))'
    <3> SUFFICES ASSUME NEW c \in Connects, num'[c] < attempt + 1
                 PROVE  Cause(c)'
      BY <2>1
    <3>1. num'[t] > num'[c] /\ t \notin Disconnects
      BY <2>1
    <3> QED BY <2>1, <3>1 DEF Cause
  <2>7. (\A c \in Connects : result[c] = "superseded" => num[c] # 0 /\ num[c] < attempt)'
    BY <2>1, <2>2 DEF AttemptInv
  <2> QED BY <2>3, <2>4, <2>5, <2>6, <2>7 DEF AttemptInv
<1>3. ASSUME NEW t \in Tasks, DisconnectBegin(t) PROVE AttemptInv'
  <2>0. t \in Disconnects /\ t \notin Connects /\ pc[t] = "idle"
    BY <1>3 DEF DisconnectBegin
  <2>1. CASE ~Superseding(t)
    <3>1. UNCHANGED <<attempt, client, num>> /\ pc' = [pc EXCEPT ![t] = "done"]
          /\ result' = [result EXCEPT ![t] = "ignored"]
      BY <1>3, <2>1 DEF DisconnectBegin, Goto, Return
    <3>2. Steady
      BY <2>0, <3>1, MoveSteady DEF Labels
    <3> QED BY <3>2, SteadyInductive
  <2>2. CASE Superseding(t)
    <3>1. /\ attempt' = attempt + 1 /\ client' = None /\ result' = result
          /\ num' = [num EXCEPT ![t] = attempt + 1] /\ pc' = [pc EXCEPT ![t] = "list"]
      BY <1>3, <2>2 DEF DisconnectBegin, Goto
    <3>2. num[t] = 0 /\ \A y \in Tasks : num[y] <= attempt
      BY <2>0 DEF AttemptInv
    <3>3. (\A y \in Tasks : num[y] <= attempt /\ (pc[y] = "idle" => num[y] = 0))'
      BY <3>1, <3>2 DEF AttemptInv
    <3>4. (\A c \in Connects : pc[c] # "idle" => num[c] # 0)'
      BY <3>1, <3>2 DEF AttemptInv
    <3>5. (\A c \in Connects : num[c] # 0 /\ num[c] = attempt /\ client # None => client = c)'
      BY <3>1, <3>2 DEF AttemptInv
    <3>6. (\A c \in Connects : num[c] # 0 /\ num[c] < attempt => Cause(c))'
      <4> SUFFICES ASSUME NEW c \in Connects, num'[c] # 0, num'[c] < attempt + 1
                   PROVE  Cause(c)'
        BY <3>1
      <4>1. num'[c] = num[c] /\ c # t /\ num'[t] = attempt + 1
        BY <2>0, <3>1
      <4>2. CASE num[c] < attempt
        <5>1. PICK x \in Connects \cup Disconnects :
                  num[x] > num[c] /\ (x \in Disconnects => Names[x] \in {None, c})
          BY <4>1, <4>2 DEF AttemptInv, Cause
        <5>2. num'[x] > num'[c]
          BY <3>1, <3>2, <4>1, <5>1
        <5> QED BY <5>1, <5>2 DEF Cause
      <4>3. CASE num[c] = attempt
        <5>1. Names[t] \in {None, c}
          BY <2>2, <4>1, <4>3 DEF AttemptInv, Superseding
        <5>2. num'[t] > num'[c]
          BY <4>1, <4>3
        <5> QED BY <2>0, <5>1, <5>2 DEF Cause
      <4>4. num[c] \in Nat /\ attempt \in Nat /\ num[c] <= attempt
        BY <3>2
      <4> QED BY <4>2, <4>3, <4>4, OlderOrCurrent
    <3>7. (\A c \in Connects : result[c] = "superseded" => num[c] # 0 /\ num[c] < attempt)'
      BY <3>1, <3>2 DEF AttemptInv
    <3> QED BY <3>3, <3>4, <3>5, <3>6, <3>7 DEF AttemptInv
  <2> QED BY <2>1, <2>2
<1>4. ASSUME NEW t \in Tasks, Begin(t) PROVE AttemptInv'
  <2>1. UNCHANGED <<attempt, client, num>> /\ (t \notin Connects)
    BY <1>4 DEF Begin, attemptVars
  <2>2. \E l \in {"lookup", "examine", "list", "stop"} : pc' = [pc EXCEPT ![t] = l]
    BY <1>4 DEF Begin, Goto, Return
  <2>3. result' = result \/ \E r \in {"ok", "err", "ignored"} : result' = [result EXCEPT ![t] = r]
    BY <1>4 DEF Begin, Return, taskVars
  <2>4. Steady
    BY <2>1, <2>2, <2>3, MoveSteady DEF Labels
  <2> QED BY <2>4, SteadyInductive
<1>5. ASSUME NEW t \in Tasks, List(t) PROVE AttemptInv'
  <2>1. UNCHANGED <<attempt, client, num>> /\ (pc[t] # "idle")
    BY <1>5 DEF List, attemptVars
  <2>2. \E l \in {"stop"} : pc' = [pc EXCEPT ![t] = l]
    BY <1>5 DEF List, Goto, Return
  <2>3. result' = result \/ \E r \in {"ok", "err", "ignored"} : result' = [result EXCEPT ![t] = r]
    BY <1>5 DEF List, Return, taskVars
  <2>4. Steady
    BY <2>1, <2>2, <2>3, MoveSteady DEF Labels
  <2> QED BY <2>4, SteadyInductive
<1>6. ASSUME NEW t \in Tasks, Stop(t) PROVE AttemptInv'
  <2>1. UNCHANGED <<attempt, client, num>> /\ (pc[t] # "idle")
    BY <1>6 DEF Stop, attemptVars
  <2>2. \E l \in {"remove", "context"} : pc' = [pc EXCEPT ![t] = l]
    BY <1>6 DEF Stop, Goto, Return
  <2>3. result' = result \/ \E r \in {"ok", "err", "ignored"} : result' = [result EXCEPT ![t] = r]
    BY <1>6 DEF Stop, Return, taskVars
  <2>4. Steady
    BY <2>1, <2>2, <2>3, MoveSteady DEF Labels
  <2> QED BY <2>4, SteadyInductive
<1>7. ASSUME NEW t \in Tasks, DropContext(t) PROVE AttemptInv'
  <2>1. UNCHANGED <<attempt, client, num>> /\ (pc[t] # "idle")
    BY <1>7 DEF DropContext, attemptVars
  <2>2. \E l \in {"remove"} : pc' = [pc EXCEPT ![t] = l]
    BY <1>7 DEF DropContext, Goto, Return
  <2>3. result' = result \/ \E r \in {"ok", "err", "ignored"} : result' = [result EXCEPT ![t] = r]
    BY <1>7 DEF DropContext, Return, taskVars
  <2>4. Steady
    BY <2>1, <2>2, <2>3, MoveSteady DEF Labels
  <2> QED BY <2>4, SteadyInductive
<1>8. ASSUME NEW t \in Tasks, Remove(t) PROVE AttemptInv'
  <2>1. UNCHANGED <<attempt, client, num>> /\ (pc[t] # "idle")
    BY <1>8 DEF Remove, attemptVars
  <2>2. \E l \in {"reset", "close"} : pc' = [pc EXCEPT ![t] = l]
    BY <1>8 DEF Remove, Goto, Return
  <2>3. result' = result \/ \E r \in {"ok", "err", "ignored"} : result' = [result EXCEPT ![t] = r]
    BY <1>8 DEF Remove, Return, taskVars
  <2>4. Steady
    BY <2>1, <2>2, <2>3, MoveSteady DEF Labels
  <2> QED BY <2>4, SteadyInductive
<1>9. ASSUME NEW t \in Tasks, Close(t) PROVE AttemptInv'
  <2>1. UNCHANGED <<attempt, client, num>> /\ (pc[t] # "idle")
    BY <1>9 DEF Close, attemptVars
  <2>2. \E l \in {"lookup", "reset", "check1", "done"} : pc' = [pc EXCEPT ![t] = l]
    BY <1>9 DEF Close, Goto, Return
  <2>3. result' = result \/ \E r \in {"ok", "err"} : result' = [result EXCEPT ![t] = r]
    BY <1>9 DEF Close, Return, taskVars
  <2>4. Steady
    BY <2>1, <2>2, <2>3, MoveSteady, ZenonT(30) DEF Labels
  <2> QED BY <2>4, SteadyInductive
<1>10. ASSUME NEW t \in Tasks, ResetTransport(t) PROVE AttemptInv'
  <2>1. UNCHANGED <<attempt, client, num>> /\ (pc[t] # "idle")
    BY <1>10 DEF ResetTransport, attemptVars
  <2>2. \E l \in {"endpoint", "lookup", "done"} : pc' = [pc EXCEPT ![t] = l]
    BY <1>10 DEF ResetTransport, Goto, Return
  <2>3. result' = result \/ \E r \in {"ok"} : result' = [result EXCEPT ![t] = r]
    BY <1>10 DEF ResetTransport, Return, taskVars
  <2>4. Steady
    BY <2>1, <2>2, <2>3, MoveSteady, ZenonT(30) DEF Labels
  <2> QED BY <2>4, SteadyInductive
<1>11. ASSUME NEW t \in Tasks, Lookup(t) PROVE AttemptInv'
  <2>1. UNCHANGED <<attempt, client, num>> /\ (pc[t] # "idle")
    BY <1>11 DEF Lookup, attemptVars
  <2>2. \E l \in {"check1", "examine", "done"} : pc' = [pc EXCEPT ![t] = l]
    BY <1>11 DEF Lookup, Goto, Return
  <2>3. result' = result \/ \E r \in {"err"} : result' = [result EXCEPT ![t] = r]
    BY <1>11 DEF Lookup, Return, taskVars
  <2>4. Steady
    BY <2>1, <2>2, <2>3, MoveSteady, ZenonT(30) DEF Labels
  <2> QED BY <2>4, SteadyInductive
<1>12. ASSUME NEW t \in Tasks, Examine(t) PROVE AttemptInv'
  <2>1. UNCHANGED <<attempt, client, num>> /\ (pc[t] # "idle")
    BY <1>12 DEF Examine, attemptVars
  <2>2. \E l \in {"ping", "done"} : pc' = [pc EXCEPT ![t] = l]
    BY <1>12 DEF Examine, Goto, Return
  <2>3. result' = result \/ \E r \in {"ok"} : result' = [result EXCEPT ![t] = r]
    BY <1>12 DEF Examine, Return, taskVars
  <2>4. Steady
    BY <2>1, <2>2, <2>3, MoveSteady DEF Labels
  <2> QED BY <2>4, SteadyInductive
<1>13. ASSUME NEW t \in Tasks, Ping(t) PROVE AttemptInv'
  <2>1. UNCHANGED <<attempt, client, num>> /\ (pc[t] # "idle")
    BY <1>13 DEF Ping, attemptVars
  <2>2. \E l \in {"reset", "stop", "done"} : pc' = [pc EXCEPT ![t] = l]
    BY <1>13 DEF Ping, Goto, Return
  <2>3. result' = result \/ \E r \in {"ok"} : result' = [result EXCEPT ![t] = r]
    BY <1>13 DEF Ping, Return, taskVars
  <2>4. Steady
    BY <2>1, <2>2, <2>3, MoveSteady, ZenonT(30) DEF Labels
  <2> QED BY <2>4, SteadyInductive
<1>14. ASSUME NEW t \in Tasks, PingSkipped(t) PROVE AttemptInv'
  <2>1. UNCHANGED <<attempt, client, num>> /\ (pc[t] # "idle")
    BY <1>14 DEF PingSkipped, attemptVars
  <2>2. \E l \in {"done"} : pc' = [pc EXCEPT ![t] = l]
    BY <1>14 DEF PingSkipped, Goto, Return
  <2>3. result' = result \/ \E r \in {"ok"} : result' = [result EXCEPT ![t] = r]
    BY <1>14 DEF PingSkipped, Return, taskVars
  <2>4. Steady
    BY <2>1, <2>2, <2>3, MoveSteady DEF Labels
  <2> QED BY <2>4, SteadyInductive
<1>15. ASSUME NEW t \in Tasks, Check(t) PROVE AttemptInv'
  <2>1. CASE Current(t)
    <3>1. /\ UNCHANGED <<attempt, client, num>> /\ pc[t] # "idle"
          /\ result' = result \/ \E r \in {"ok", "err", "ignored"} : result' = [result EXCEPT ![t] = r]
      BY <1>15, <2>1 DEF Check, attemptVars
    <3>2. \E l \in {"endpoint", "probe", "open", "istop"} : pc' = [pc EXCEPT ![t] = l]
      BY <1>15, <2>1 DEF Check, Goto
    <3>3. Steady
      BY <3>1, <3>2, MoveSteady, ZenonT(30) DEF Labels
    <3> QED BY <3>3, SteadyInductive
  <2>2. CASE ~Current(t)
    <3>1. /\ UNCHANGED <<attempt, client, num>> /\ pc[t] # "idle"
          /\ pc' = [pc EXCEPT ![t] = "done"] /\ result' = [result EXCEPT ![t] = "superseded"]
      BY <1>15, <2>2 DEF Check, Goto, Return, attemptVars
    <3>2. t \in Connects /\ num[t] # 0 /\ num[t] < attempt
      <4>1. t \in Connects /\ num[t] # attempt
        BY <2>2 DEF Current
      <4>2. num[t] <= attempt /\ num[t] # 0
        BY <3>1, <4>1 DEF AttemptInv
      <4>3. num[t] \in Nat /\ attempt \in Nat
        OBVIOUS
      <4> QED BY <4>1, <4>2, <4>3, OlderOrCurrent
    <3>3. \A c \in Connects : Cause(c)' <=> Cause(c)
      BY <3>1 DEF Cause
    <3> QED BY <3>1, <3>2, <3>3 DEF AttemptInv
  <2> QED BY <2>1, <2>2
<1>16. ASSUME NEW t \in Tasks, Endpoint(t) PROVE AttemptInv'
  <2>1. UNCHANGED <<attempt, client, num>> /\ (pc[t] # "idle")
    BY <1>16 DEF Endpoint, attemptVars
  <2>2. \E l \in {"check2", "check3", "done"} : pc' = [pc EXCEPT ![t] = l]
    BY <1>16 DEF Endpoint, Goto, Return
  <2>3. result' = result \/ \E r \in {"err"} : result' = [result EXCEPT ![t] = r]
    BY <1>16 DEF Endpoint, Return, taskVars
  <2>4. Steady
    BY <2>1, <2>2, <2>3, MoveSteady, ZenonT(30) DEF Labels
  <2> QED BY <2>4, SteadyInductive
<1>17. ASSUME NEW t \in Tasks, DesktopOpen(t) PROVE AttemptInv'
  <2>1. UNCHANGED <<attempt, client, num>> /\ (pc[t] # "idle")
    BY <1>17 DEF DesktopOpen, OpenThen, attemptVars
  <2>2. \E l \in {"check4", "done"} : pc' = [pc EXCEPT ![t] = l]
    BY <1>17 DEF DesktopOpen, OpenThen, Goto, Return
  <2>3. result' = result \/ \E r \in {"err"} : result' = [result EXCEPT ![t] = r]
    BY <1>17 DEF DesktopOpen, OpenThen, Return, taskVars
  <2>4. Steady
    BY <2>1, <2>2, <2>3, MoveSteady DEF Labels
  <2> QED BY <2>4, SteadyInductive
<1>18. ASSUME NEW t \in Tasks, Open(t) PROVE AttemptInv'
  <2>1. UNCHANGED <<attempt, client, num>> /\ (pc[t] # "idle")
    BY <1>18 DEF Open, OpenThen, attemptVars
  <2>2. \E l \in {"icontext", "done"} : pc' = [pc EXCEPT ![t] = l]
    BY <1>18 DEF Open, OpenThen, Goto, Return
  <2>3. result' = result \/ \E r \in {"err"} : result' = [result EXCEPT ![t] = r]
    BY <1>18 DEF Open, OpenThen, Return, taskVars
  <2>4. Steady
    BY <2>1, <2>2, <2>3, MoveSteady DEF Labels
  <2> QED BY <2>4, SteadyInductive
<1>19. ASSUME NEW t \in Tasks, InsertContext(t) PROVE AttemptInv'
  <2>1. UNCHANGED <<attempt, client, num>> /\ (pc[t] # "idle")
    BY <1>19 DEF InsertContext, attemptVars
  <2>2. \E l \in {"check4"} : pc' = [pc EXCEPT ![t] = l]
    BY <1>19 DEF InsertContext, Goto, Return
  <2>3. result' = result \/ \E r \in {"ok", "err", "ignored"} : result' = [result EXCEPT ![t] = r]
    BY <1>19 DEF InsertContext, Return, taskVars
  <2>4. Steady
    BY <2>1, <2>2, <2>3, MoveSteady DEF Labels
  <2> QED BY <2>4, SteadyInductive
<1>20. ASSUME NEW t \in Tasks, InsertStop(t) PROVE AttemptInv'
  <2>1. UNCHANGED <<attempt, client, num>> /\ (pc[t] # "idle")
    BY <1>20 DEF InsertStop, attemptVars
  <2>2. \E l \in {"istart", "iput"} : pc' = [pc EXCEPT ![t] = l]
    BY <1>20 DEF InsertStop, Goto, Return
  <2>3. result' = result \/ \E r \in {"ok", "err", "ignored"} : result' = [result EXCEPT ![t] = r]
    BY <1>20 DEF InsertStop, Return, taskVars
  <2>4. Steady
    BY <2>1, <2>2, <2>3, MoveSteady DEF Labels
  <2> QED BY <2>4, SteadyInductive
<1>21. ASSUME NEW t \in Tasks, InsertStart(t) PROVE AttemptInv'
  <2>1. UNCHANGED <<attempt, client, num>> /\ (pc[t] # "idle")
    BY <1>21 DEF InsertStart, attemptVars
  <2>2. \E l \in {"iput"} : pc' = [pc EXCEPT ![t] = l]
    BY <1>21 DEF InsertStart, Goto, Return
  <2>3. result' = result \/ \E r \in {"ok", "err", "ignored"} : result' = [result EXCEPT ![t] = r]
    BY <1>21 DEF InsertStart, Return, taskVars
  <2>4. Steady
    BY <2>1, <2>2, <2>3, MoveSteady DEF Labels
  <2> QED BY <2>4, SteadyInductive
<1>22. ASSUME NEW t \in Tasks, InsertPut(t) PROVE AttemptInv'
  <2>1. UNCHANGED <<attempt, client, num>> /\ (pc[t] # "idle")
    BY <1>22 DEF InsertPut, attemptVars
  <2>2. \E l \in {"iclose"} : pc' = [pc EXCEPT ![t] = l]
    BY <1>22 DEF InsertPut, Goto, Return
  <2>3. result' = result \/ \E r \in {"ok", "err", "ignored"} : result' = [result EXCEPT ![t] = r]
    BY <1>22 DEF InsertPut, Return, taskVars
  <2>4. Steady
    BY <2>1, <2>2, <2>3, MoveSteady DEF Labels
  <2> QED BY <2>4, SteadyInductive
<1>23. ASSUME NEW t \in Tasks, InsertClose(t) PROVE AttemptInv'
  <2>1. UNCHANGED <<attempt, client, num>> /\ (pc[t] # "idle")
    BY <1>23 DEF InsertClose, attemptVars
  <2>2. \E l \in {"done"} : pc' = [pc EXCEPT ![t] = l]
    BY <1>23 DEF InsertClose, Goto, Return
  <2>3. result' = result \/ \E r \in {"ok"} : result' = [result EXCEPT ![t] = r]
    BY <1>23 DEF InsertClose, Return, taskVars
  <2>4. Steady
    BY <2>1, <2>2, <2>3, MoveSteady DEF Labels
  <2> QED BY <2>4, SteadyInductive
<1>24. ASSUME NEW p \in Pools, BackgroundClose(p) PROVE AttemptInv'
  <2>1. Steady
    BY <1>24 DEF Steady, BackgroundClose, attemptVars, taskVars
  <2> QED BY <2>1, SteadyInductive
<1>25. ASSUME NEW p \in Pools, KeeperPing(p) PROVE AttemptInv'
  <2>1. Steady
    BY <1>25 DEF Steady, KeeperPing, attemptVars, taskVars
  <2> QED BY <2>1, SteadyInductive
<1>26. ASSUME NEW p \in Pools, KeeperForget(p) PROVE AttemptInv'
  <2>1. Steady
    BY <1>26 DEF Steady, KeeperForget, attemptVars, taskVars
  <2> QED BY <2>1, SteadyInductive
<1>27. ASSUME NEW p \in Pools, KeeperContext(p) PROVE AttemptInv'
  <2>1. Steady
    BY <1>27 DEF Steady, KeeperContext, attemptVars, taskVars
  <2> QED BY <2>1, SteadyInductive
<1>28. ASSUME NEW p \in Pools, KeeperRemove(p) PROVE AttemptInv'
  <2>1. Steady
    BY <1>28 DEF Steady, KeeperRemove, attemptVars, taskVars
  <2> QED BY <2>1, SteadyInductive
<1>29. ASSUME NEW p \in Pools, KeeperEnd(p) PROVE AttemptInv'
  <2>1. Steady
    BY <1>29 DEF Steady, KeeperEnd, attemptVars, taskVars
  <2> QED BY <2>1, SteadyInductive
<1> QED
  BY <1>1, <1>2, <1>3, <1>4, <1>5, <1>6, <1>7, <1>8, <1>9, <1>10, <1>11, <1>12, <1>13, <1>14,
     <1>15, <1>16, <1>17, <1>18, <1>19, <1>20, <1>21, <1>22, <1>23, <1>24, <1>25, <1>26, <1>27,
     <1>28, <1>29, NextCases

(***************************************************************************)
(* What no step undoes: an inserted pool stays inserted, and only a pool    *)
(* that was not inserted yet comes into the map.                            *)
(***************************************************************************)
Drift ==
    /\ \A p \in Pools : pc[p] \in Inserted => pc'[p] \in Inserted
    /\ \A k \in Keys : \/ conns'[k] = conns[k]
                       \/ conns'[k] = None
                       \/ conns'[k] \in Pools /\ pc[conns'[k]] \notin Inserted

\* Moving a task that has inserted nothing drifts.
LEMMA MoveDrifts ==
    ASSUME TypeOK, NEW t \in Tasks, pc[t] \notin Inserted,
           \E l \in Labels : pc' = [pc EXCEPT ![t] = l],
           \A k \in Keys : conns'[k] = conns[k] \/ conns'[k] = None \/ (conns'[k] = t /\ t \in Pools)
    PROVE  Drift
<1> USE HolderFacts DEF TypeOK
<1>1. \A p \in Pools : pc[p] \in Inserted => pc'[p] = pc[p]
  OBVIOUS
<1> QED BY <1>1 DEF Drift

\* A task whose own fields stay keeps its drain, whatever the others do, as long as it
\* does not enter the stretches of the code in question.
LEMMA DrainKept ==
    ASSUME TypeOK, Drift, NEW x \in Tasks, DrainOk(x),
           seen'[x] = seen[x], after'[x] = after[x], removing'[x] = removing[x],
           pc'[x] = "idle" => pc[x] = "idle",
           pc'[x] \in Draining => pc[x] \in Draining,
           pc'[x] \in Gone => pc[x] \in Gone \/ pc[x] = "idle"
    PROVE  DrainOk(x)'
<1> USE HolderFacts DEF TypeOK
<1>0. seen[x] \in [Keys -> Pools \cup {None}]
  OBVIOUS
<1>1. \A k \in Keys : seen[x][k] # None => seen[x][k] \in Pools /\ pc[seen[x][k]] \in Inserted
  BY <1>0 DEF DrainOk
<1>2. \A k, l \in Keys : seen[x][k] # None /\ conns'[l] = seen[x][k] => conns[l] = seen[x][k]
  <2> SUFFICES ASSUME NEW k \in Keys, NEW l \in Keys, seen[x][k] # None,
                      conns'[l] = seen[x][k]
               PROVE  conns[l] = seen[x][k]
    OBVIOUS
  <2>1. pc[conns'[l]] \in Inserted /\ conns'[l] # None
    BY <1>1
  <2> QED BY <2>1 DEF Drift
<1>3. \A k \in Keys : seen[x][k] # None => pc'[seen[x][k]] \in Inserted
  BY <1>1 DEF Drift
<1>4. pc[x] = "idle" => \A k \in Keys : seen[x][k] = None
  BY DEF DrainOk
<1>5. x \notin Refreshes /\ after[x] = "reset" /\ pc'[x] \in Draining =>
          \A k \in Keys : seen[x][k] # None =>
              k \in removing[x] /\ \A l \in Keys : conns'[l] = seen[x][k] => l = k
  BY <1>2 DEF DrainOk
<1>6. x \notin Refreshes /\ after[x] = "reset" /\ pc'[x] \in Gone =>
          \A k, l \in Keys : seen[x][k] # None => conns'[l] # seen[x][k]
  BY <1>2, <1>4 DEF DrainOk
<1> QED BY <1>3, <1>4, <1>5, <1>6 DEF DrainOk

\* A step in which no task's own record of the map changes keeps every drain, if the
\* one that moves does not enter those stretches.
LEMMA MoveKeeps ==
    ASSUME TypeOK, Drift, DrainInv, NEW t \in Tasks, UNCHANGED <<seen, after, removing>>,
           NEW l \in Labels \ {"idle"}, pc' = [pc EXCEPT ![t] = l],
           l \in Draining => pc[t] \in Draining,
           l \in Gone => pc[t] \in Gone \/ pc[t] = "idle"
    PROVE  DrainInv'
<1> SUFFICES ASSUME NEW x \in Tasks PROVE DrainOk(x)'
  BY DEF DrainInv
<1>1. (x = t /\ pc'[x] = l) \/ (x # t /\ pc'[x] = pc[x])
  BY DEF TypeOK
<1>2. DrainOk(x)
  BY DEF DrainInv
<1> QED BY <1>1, <1>2, DrainKept

\* So does a step of a keepalive task.
LEMMA StayKeeps ==
    ASSUME TypeOK, Drift, DrainInv, UNCHANGED <<pc, seen, after, removing>>
    PROVE  DrainInv'
BY DrainKept DEF DrainInv

\* The other tasks keep theirs when a task changes its own record.
LEMMA OthersKeep ==
    ASSUME TypeOK, Drift, DrainInv, NEW t \in Tasks,
           \A x \in Tasks \ {t} : /\ pc'[x] = pc[x] /\ seen'[x] = seen[x]
                                  /\ after'[x] = after[x] /\ removing'[x] = removing[x],
           DrainOk(t)'
    PROVE  DrainInv'
<1> SUFFICES ASSUME NEW x \in Tasks \ {t} PROVE DrainOk(x)'
  BY DEF DrainInv
<1>1. DrainOk(x)
  BY DEF DrainInv
<1> QED BY <1>1, DrainKept

\* A step keeps every drain.
LEMMA DrainInductive ==
    ASSUME TypeOK, PoolInv, DrainInv, [Next]_vars
    PROVE  DrainInv'
<1> USE HolderFacts, NextStepFacts DEF TypeOK, PoolInv
<1>1. CASE UNCHANGED vars
  BY <1>1 DEF vars, DrainInv, DrainOk
<1>2. ASSUME NEW t \in Tasks, ConnectBegin(t) PROVE DrainInv'
  <2>1. UNCHANGED <<seen, after, removing>> /\ pc[t] = "idle"
    BY <1>2 DEF ConnectBegin, taskVars
  <2>2. PICK l \in {"list"} : pc' = [pc EXCEPT ![t] = l]
    BY <1>2 DEF ConnectBegin, Goto, Return
  <2>3. \A k \in Keys : conns'[k] = conns[k] \/ conns'[k] = None \/ (conns'[k] = t /\ t \in Pools)
    BY <1>2 DEF ConnectBegin, mapVars
  <2>4. Drift
    BY <2>1, <2>2, <2>3, MoveDrifts DEF Inserted, Labels
  <2> QED BY <2>1, <2>2, <2>4, MoveKeeps DEF Draining, Gone, Labels
<1>3. ASSUME NEW t \in Tasks, DisconnectBegin(t) PROVE DrainInv'
  <2>1. UNCHANGED <<seen, after, removing>> /\ pc[t] = "idle"
    BY <1>3 DEF DisconnectBegin, taskVars
  <2>2. PICK l \in {"list", "done"} : pc' = [pc EXCEPT ![t] = l]
    BY <1>3 DEF DisconnectBegin, Goto, Return
  <2>3. \A k \in Keys : conns'[k] = conns[k] \/ conns'[k] = None \/ (conns'[k] = t /\ t \in Pools)
    BY <1>3 DEF DisconnectBegin, mapVars
  <2>4. Drift
    BY <2>1, <2>2, <2>3, MoveDrifts DEF Inserted, Labels
  <2> QED BY <2>1, <2>2, <2>4, MoveKeeps DEF Draining, Gone, Labels
<1>4. ASSUME NEW t \in Tasks, Begin(t) PROVE DrainInv'
  <2>1. UNCHANGED <<seen, conns>> /\ pc[t] = "idle"
    BY <1>4 DEF Begin, mapVars
  <2>2. \E l \in {"lookup", "examine", "list", "stop"} : pc' = [pc EXCEPT ![t] = l]
    BY <1>4 DEF Begin, Goto
  <2>3. Drift
    BY <2>1, <2>2, MoveDrifts DEF Inserted, Labels
  <2>4. \A x \in Tasks \ {t} : after'[x] = after[x] /\ removing'[x] = removing[x]
    BY <1>4 DEF Begin
  <2>5. pc'[t] # "idle" /\ \A k \in Keys : seen'[t][k] = None
    BY <2>1, <2>2 DEF DrainInv, DrainOk
  <2>6. DrainOk(t)'
    BY <2>5 DEF DrainOk
  <2> QED BY <2>1, <2>2, <2>3, <2>4, <2>6, OthersKeep
<1>5. ASSUME NEW t \in Tasks, List(t) PROVE DrainInv'
  <2>1. /\ pc[t] = "list" /\ pc' = [pc EXCEPT ![t] = "stop"] /\ conns' = conns
        /\ seen' = [seen EXCEPT ![t] = conns] /\ removing' = [removing EXCEPT ![t] = Listed]
        /\ after' = [after EXCEPT ![t] = "reset"]
    BY <1>5 DEF List, Goto, mapVars
  <2>2. Drift
    BY <2>1, MoveDrifts DEF Inserted, Labels
  <2>3. seen'[t] = conns /\ removing'[t] = Listed /\ pc'[t] = "stop"
    BY <2>1
  <2>4. \A k \in Keys : conns[k] # None => pc'[conns[k]] \in Inserted
    BY <2>2 DEF Drift, FreshInv
  <2>5. \A k \in Keys : conns[k] # None => k \in Listed
    BY DEF Listed
  <2>6. DrainOk(t)'
    BY <2>1, <2>3, <2>4, <2>5 DEF DrainOk, Draining, Gone, OwnInv, OneKey
  <2> QED BY <2>1, <2>2, <2>6, OthersKeep
<1>6. ASSUME NEW t \in Tasks, Stop(t) PROVE DrainInv'
  <2>1. UNCHANGED <<seen, after, removing>> /\ pc[t] = "stop"
    BY <1>6 DEF Stop, taskVars
  <2>2. PICK l \in {"remove", "context"} : pc' = [pc EXCEPT ![t] = l]
    BY <1>6 DEF Stop, Goto, Return
  <2>3. \A k \in Keys : conns'[k] = conns[k] \/ conns'[k] = None \/ (conns'[k] = t /\ t \in Pools)
    BY <1>6 DEF Stop, mapVars
  <2>4. Drift
    BY <2>1, <2>2, <2>3, MoveDrifts DEF Inserted, Labels
  <2> QED BY <2>1, <2>2, <2>4, MoveKeeps DEF Draining, Gone, Labels
<1>7. ASSUME NEW t \in Tasks, DropContext(t) PROVE DrainInv'
  <2>1. UNCHANGED <<seen, after, removing>> /\ pc[t] = "context"
    BY <1>7 DEF DropContext, taskVars
  <2>2. PICK l \in {"remove"} : pc' = [pc EXCEPT ![t] = l]
    BY <1>7 DEF DropContext, Goto, Return
  <2>3. \A k \in Keys : conns'[k] = conns[k] \/ conns'[k] = None \/ (conns'[k] = t /\ t \in Pools)
    BY <1>7 DEF DropContext, mapVars
  <2>4. Drift
    BY <2>1, <2>2, <2>3, MoveDrifts DEF Inserted, Labels
  <2> QED BY <2>1, <2>2, <2>4, MoveKeeps DEF Draining, Gone, Labels
<1>8. ASSUME NEW t \in Tasks, Remove(t) PROVE DrainInv'
  <2>1. pc[t] = "remove" /\ UNCHANGED <<seen, after, removing>>
    BY <1>8 DEF Remove, taskVars
  <2>2. \E l \in {"reset", "close"} : pc' = [pc EXCEPT ![t] = l]
    BY <1>8 DEF Remove, Goto
  <2>3. \A k \in Keys : (conns'[k] = conns[k] /\ k \notin removing[t]) \/ conns'[k] = None
    BY <1>8 DEF Remove, Cleared
  <2>4. Drift
    BY <2>1, <2>2, <2>3, MoveDrifts DEF Inserted, Labels
  <2>5. \A k \in Keys : seen'[t][k] # None => pc'[seen'[t][k]] \in Inserted
    <3>1. seen[t] \in [Keys -> Pools \cup {None}]
      OBVIOUS
    <3>2. \A k \in Keys : seen[t][k] # None => pc[seen[t][k]] \in Inserted /\ seen[t][k] \in Pools
      BY <3>1 DEF DrainInv, DrainOk
    <3> QED BY <2>1, <2>4, <3>2 DEF Drift
  <2>6. t \notin Refreshes /\ after[t] = "reset" =>
            \A k, l \in Keys : seen[t][k] # None => conns'[l] # seen[t][k]
    <3> SUFFICES ASSUME t \notin Refreshes, after[t] = "reset", NEW k \in Keys, NEW l \in Keys,
                        seen[t][k] # None, conns'[l] = seen[t][k]
                 PROVE  FALSE
      OBVIOUS
    <3>1. k \in removing[t] /\ \A m \in Keys : conns[m] = seen[t][k] => m = k
      BY <2>1 DEF DrainInv, DrainOk, Draining
    <3>2. conns[l] = seen[t][k] /\ l \notin removing[t]
      BY <2>3
    <3> QED BY <3>1, <3>2
  <2>7. pc'[t] \notin {"idle"} \cup Draining
    BY <2>2 DEF Draining
  <2>8. DrainOk(t)'
    BY <2>1, <2>5, <2>6, <2>7 DEF DrainOk
  <2>9. \A x \in Tasks \ {t} : pc'[x] = pc[x]
    BY <2>2
  <2> QED BY <2>1, <2>4, <2>8, <2>9, OthersKeep
<1>9. ASSUME NEW t \in Tasks, Close(t) PROVE DrainInv'
  <2>1. UNCHANGED <<seen, after, removing>> /\ pc[t] = "close"
    BY <1>9 DEF Close, taskVars
  <2>2. PICK l \in {"lookup", "reset", "check1", "done"} : pc' = [pc EXCEPT ![t] = l]
    BY <1>9 DEF Close, Goto, Return
  <2>3. \A k \in Keys : conns'[k] = conns[k] \/ conns'[k] = None \/ (conns'[k] = t /\ t \in Pools)
    BY <1>9 DEF Close, mapVars
  <2>4. Drift
    BY <2>1, <2>2, <2>3, MoveDrifts DEF Inserted, Labels
  <2> QED BY <2>1, <2>2, <2>4, MoveKeeps DEF Draining, Gone, Labels
<1>10. ASSUME NEW t \in Tasks, ResetTransport(t) PROVE DrainInv'
  <2>1. UNCHANGED <<seen, after, removing>> /\ pc[t] = "reset"
    BY <1>10 DEF ResetTransport, taskVars
  <2>2. PICK l \in {"endpoint", "lookup", "done"} : pc' = [pc EXCEPT ![t] = l]
    BY <1>10 DEF ResetTransport, Goto, Return
  <2>3. \A k \in Keys : conns'[k] = conns[k] \/ conns'[k] = None \/ (conns'[k] = t /\ t \in Pools)
    BY <1>10 DEF ResetTransport, mapVars
  <2>4. Drift
    BY <2>1, <2>2, <2>3, MoveDrifts DEF Inserted, Labels
  <2> QED BY <2>1, <2>2, <2>4, MoveKeeps DEF Draining, Gone, Labels
<1>11. ASSUME NEW t \in Tasks, Lookup(t) PROVE DrainInv'
  <2>1. UNCHANGED <<seen, after, removing>> /\ pc[t] = "lookup"
    BY <1>11 DEF Lookup, taskVars
  <2>2. PICK l \in {"check1", "examine", "done"} : pc' = [pc EXCEPT ![t] = l]
    BY <1>11 DEF Lookup, Goto, Return
  <2>3. \A k \in Keys : conns'[k] = conns[k] \/ conns'[k] = None \/ (conns'[k] = t /\ t \in Pools)
    BY <1>11 DEF Lookup, mapVars
  <2>4. Drift
    BY <2>1, <2>2, <2>3, MoveDrifts DEF Inserted, Labels
  <2> QED BY <2>1, <2>2, <2>4, MoveKeeps DEF Draining, Gone, Labels
<1>12. ASSUME NEW t \in Tasks, Examine(t) PROVE DrainInv'
  <2> DEFINE now == [k \in Keys |-> IF k \in (IF t \in Refreshes THEN Keys ELSE {Key(t)})
                                    THEN conns[k] ELSE None]
  <2>1. pc[t] = "examine" /\ UNCHANGED <<after, removing, conns>>
    BY <1>12 DEF Examine, mapVars
  <2>2. \E l \in {"ping", "done"} : pc' = [pc EXCEPT ![t] = l]
    BY <1>12 DEF Examine, Goto, Return
  <2>3. seen' = seen \/ seen' = [seen EXCEPT ![t] = now]
    BY <1>12 DEF Examine
  <2>4. Drift
    BY <2>1, <2>2, MoveDrifts DEF Inserted, Labels
  <2>5. now \in [Keys -> Pools \cup {None}] /\ \A k \in Keys : now[k] # None => now[k] = conns[k]
    OBVIOUS
  <2> HIDE DEF now
  <2>6. seen'[t] = seen[t] \/ seen'[t] = now
    BY <2>3
  <2>7. \A k \in Keys : seen'[t][k] # None => pc'[seen'[t][k]] \in Inserted
    <3>1. CASE seen'[t] = seen[t]
      <4>1. seen[t] \in [Keys -> Pools \cup {None}]
        OBVIOUS
      <4>2. \A k \in Keys : seen[t][k] # None => pc[seen[t][k]] \in Inserted /\ seen[t][k] \in Pools
        BY <4>1 DEF DrainInv, DrainOk
      <4> QED BY <2>4, <3>1, <4>2 DEF Drift
    <3>2. CASE seen'[t] = now
      <4>1. \A k \in Keys : now[k] # None => now[k] \in Pools /\ pc[now[k]] \in Inserted
        BY <2>5 DEF FreshInv
      <4> QED BY <2>4, <3>2, <4>1 DEF Drift
    <3> QED BY <2>6, <3>1, <3>2
  <2>8. pc'[t] \notin {"idle"} \cup Draining \cup Gone
    BY <2>2 DEF Draining, Gone
  <2>9. DrainOk(t)'
    BY <2>7, <2>8 DEF DrainOk
  <2>10. \A x \in Tasks \ {t} : seen'[x] = seen[x] /\ pc'[x] = pc[x]
    BY <2>2, <2>3
  <2> QED BY <2>1, <2>4, <2>9, <2>10, OthersKeep
<1>13. ASSUME NEW t \in Tasks, Ping(t) PROVE DrainInv'
  <2>1. pc[t] = "ping" /\ UNCHANGED <<seen, conns>>
    BY <1>13 DEF Ping, mapVars
  <2>2. PICK d \in Dead(seen[t]) : removing' = [removing EXCEPT ![t] = d]
    BY <1>13 DEF Ping
  <2>3. \E l \in {"reset", "stop", "done"} : pc' = [pc EXCEPT ![t] = l]
    BY <1>13 DEF Ping, Goto, Return
  <2>4. after' = after \/ \E a \in {"reset", "verdict"} : after' = [after EXCEPT ![t] = a]
    BY <1>13 DEF Ping
  <2>5. t \notin Refreshes => pc'[t] = "done" \/ (pc'[t] = "stop" /\ after'[t] = "verdict")
    BY <1>13 DEF Ping, Goto, Return
  <2>6. Drift
    BY <2>1, <2>3, MoveDrifts DEF Inserted, Labels
  <2>7. \A k \in Keys : seen'[t][k] # None => pc'[seen'[t][k]] \in Inserted
    <3>1. seen[t] \in [Keys -> Pools \cup {None}]
      OBVIOUS
    <3>2. \A k \in Keys : seen[t][k] # None => pc[seen[t][k]] \in Inserted /\ seen[t][k] \in Pools
      BY <3>1 DEF DrainInv, DrainOk
    <3> QED BY <2>1, <2>6, <3>2 DEF Drift
  <2>8. pc'[t] # "idle"
    BY <2>3
  <2>9. DrainOk(t)'
    BY <2>5, <2>7, <2>8 DEF DrainOk, Draining, Gone
  <2>10. \A x \in Tasks \ {t} : /\ removing'[x] = removing[x] /\ pc'[x] = pc[x]
                              /\ after'[x] = after[x]
    BY <2>2, <2>3, <2>4
  <2> QED BY <2>1, <2>6, <2>9, <2>10, OthersKeep
<1>14. ASSUME NEW t \in Tasks, PingSkipped(t) PROVE DrainInv'
  <2>1. UNCHANGED <<seen, after, removing>> /\ pc[t] = "examine"
    BY <1>14 DEF PingSkipped, taskVars
  <2>2. PICK l \in {"done"} : pc' = [pc EXCEPT ![t] = l]
    BY <1>14 DEF PingSkipped, Goto, Return
  <2>3. \A k \in Keys : conns'[k] = conns[k] \/ conns'[k] = None \/ (conns'[k] = t /\ t \in Pools)
    BY <1>14 DEF PingSkipped, mapVars
  <2>4. Drift
    BY <2>1, <2>2, <2>3, MoveDrifts DEF Inserted, Labels
  <2> QED BY <2>1, <2>2, <2>4, MoveKeeps DEF Draining, Gone, Labels
<1>15. ASSUME NEW t \in Tasks, Check(t) PROVE DrainInv'
  <2>1. /\ UNCHANGED <<seen, after, removing, conns>>
        /\ pc[t] \in {"check1", "check2", "check3", "check4"}
    BY <1>15 DEF Check, mapVars
  <2>2. PICK l \in {"endpoint", "probe", "open", "istop", "done"} :
            pc' = [pc EXCEPT ![t] = l] /\ (l = "endpoint" => pc[t] = "check1")
    BY <1>15 DEF Check, Goto, Return
  <2>3. Drift
    BY <2>1, <2>2, MoveDrifts DEF Inserted, Labels
  <2> QED BY <2>1, <2>2, <2>3, MoveKeeps DEF Draining, Gone, Labels
<1>16. ASSUME NEW t \in Tasks, Endpoint(t) PROVE DrainInv'
  <2>1. UNCHANGED <<seen, after, removing>> /\ pc[t] \in {"endpoint", "probe"}
    BY <1>16 DEF Endpoint, taskVars
  <2>2. PICK l \in {"check2", "check3", "done"} : pc' = [pc EXCEPT ![t] = l]
    BY <1>16 DEF Endpoint, Goto, Return
  <2>3. \A k \in Keys : conns'[k] = conns[k] \/ conns'[k] = None \/ (conns'[k] = t /\ t \in Pools)
    BY <1>16 DEF Endpoint, mapVars
  <2>4. Drift
    BY <2>1, <2>2, <2>3, MoveDrifts DEF Inserted, Labels
  <2> QED BY <2>1, <2>2, <2>4, MoveKeeps DEF Draining, Gone, Labels
<1>17. ASSUME NEW t \in Tasks, DesktopOpen(t) PROVE DrainInv'
  <2>1. UNCHANGED <<seen, after, removing>> /\ pc[t] = "open"
    BY <1>17 DEF DesktopOpen, OpenThen, taskVars
  <2>2. PICK l \in {"check4", "done"} : pc' = [pc EXCEPT ![t] = l]
    BY <1>17 DEF DesktopOpen, OpenThen, Goto, Return
  <2>3. \A k \in Keys : conns'[k] = conns[k] \/ conns'[k] = None \/ (conns'[k] = t /\ t \in Pools)
    BY <1>17 DEF DesktopOpen, OpenThen, mapVars
  <2>4. Drift
    BY <2>1, <2>2, <2>3, MoveDrifts DEF Inserted, Labels
  <2> QED BY <2>1, <2>2, <2>4, MoveKeeps DEF Draining, Gone, Labels
<1>18. ASSUME NEW t \in Tasks, Open(t) PROVE DrainInv'
  <2>1. UNCHANGED <<seen, after, removing>> /\ pc[t] = "open"
    BY <1>18 DEF Open, OpenThen, taskVars
  <2>2. PICK l \in {"icontext", "done"} : pc' = [pc EXCEPT ![t] = l]
    BY <1>18 DEF Open, OpenThen, Goto, Return
  <2>3. \A k \in Keys : conns'[k] = conns[k] \/ conns'[k] = None \/ (conns'[k] = t /\ t \in Pools)
    BY <1>18 DEF Open, OpenThen, mapVars
  <2>4. Drift
    BY <2>1, <2>2, <2>3, MoveDrifts DEF Inserted, Labels
  <2> QED BY <2>1, <2>2, <2>4, MoveKeeps DEF Draining, Gone, Labels
<1>19. ASSUME NEW t \in Tasks, InsertContext(t) PROVE DrainInv'
  <2>1. UNCHANGED <<seen, after, removing>> /\ pc[t] = "icontext"
    BY <1>19 DEF InsertContext, taskVars
  <2>2. PICK l \in {"check4"} : pc' = [pc EXCEPT ![t] = l]
    BY <1>19 DEF InsertContext, Goto, Return
  <2>3. \A k \in Keys : conns'[k] = conns[k] \/ conns'[k] = None \/ (conns'[k] = t /\ t \in Pools)
    BY <1>19 DEF InsertContext, mapVars
  <2>4. Drift
    BY <2>1, <2>2, <2>3, MoveDrifts DEF Inserted, Labels
  <2> QED BY <2>1, <2>2, <2>4, MoveKeeps DEF Draining, Gone, Labels
<1>20. ASSUME NEW t \in Tasks, InsertStop(t) PROVE DrainInv'
  <2>1. UNCHANGED <<seen, after, removing>> /\ pc[t] = "istop"
    BY <1>20 DEF InsertStop, taskVars
  <2>2. PICK l \in {"istart", "iput"} : pc' = [pc EXCEPT ![t] = l]
    BY <1>20 DEF InsertStop, Goto, Return
  <2>3. \A k \in Keys : conns'[k] = conns[k] \/ conns'[k] = None \/ (conns'[k] = t /\ t \in Pools)
    BY <1>20 DEF InsertStop, mapVars
  <2>4. Drift
    BY <2>1, <2>2, <2>3, MoveDrifts DEF Inserted, Labels
  <2> QED BY <2>1, <2>2, <2>4, MoveKeeps DEF Draining, Gone, Labels
<1>21. ASSUME NEW t \in Tasks, InsertStart(t) PROVE DrainInv'
  <2>1. UNCHANGED <<seen, after, removing>> /\ pc[t] = "istart"
    BY <1>21 DEF InsertStart, taskVars
  <2>2. PICK l \in {"iput"} : pc' = [pc EXCEPT ![t] = l]
    BY <1>21 DEF InsertStart, Goto, Return
  <2>3. \A k \in Keys : conns'[k] = conns[k] \/ conns'[k] = None \/ (conns'[k] = t /\ t \in Pools)
    BY <1>21 DEF InsertStart, mapVars
  <2>4. Drift
    BY <2>1, <2>2, <2>3, MoveDrifts DEF Inserted, Labels
  <2> QED BY <2>1, <2>2, <2>4, MoveKeeps DEF Draining, Gone, Labels
<1>22. ASSUME NEW t \in Tasks, InsertPut(t) PROVE DrainInv'
  <2>1. UNCHANGED <<seen, after, removing>> /\ pc[t] = "iput"
    BY <1>22 DEF InsertPut, taskVars
  <2>2. PICK l \in {"iclose"} : pc' = [pc EXCEPT ![t] = l]
    BY <1>22 DEF InsertPut, Goto, Return
  <2>3. \A k \in Keys : conns'[k] = conns[k] \/ conns'[k] = None \/ (conns'[k] = t /\ t \in Pools)
    BY <1>22 DEF InsertPut, LabelInv, Opening, Opened
  <2>4. Drift
    BY <2>1, <2>2, <2>3, MoveDrifts DEF Inserted, Labels
  <2> QED BY <2>1, <2>2, <2>4, MoveKeeps DEF Draining, Gone, Labels
<1>23. ASSUME NEW t \in Tasks, InsertClose(t) PROVE DrainInv'
  <2>1. /\ UNCHANGED <<seen, after, removing, conns>> /\ pc[t] = "iclose"
        /\ pc' = [pc EXCEPT ![t] = "done"]
    BY <1>23 DEF InsertClose, Goto, Return, mapVars
  <2>2. Drift
    BY <2>1 DEF Drift, Inserted
  <2> QED BY <2>1, <2>2, MoveKeeps DEF Draining, Gone, Labels
<1>24. ASSUME NEW p \in Pools, BackgroundClose(p) PROVE DrainInv'
  <2>1. UNCHANGED <<pc, seen, after, removing>>
    BY <1>24 DEF BackgroundClose, taskVars
  <2>2. \A k \in Keys : conns'[k] = conns[k] \/ conns'[k] = None
    BY <1>24 DEF BackgroundClose, mapVars
  <2>3. Drift
    BY <2>1, <2>2 DEF Drift
  <2> QED BY <2>1, <2>3, StayKeeps
<1>25. ASSUME NEW p \in Pools, KeeperPing(p) PROVE DrainInv'
  <2>1. UNCHANGED <<pc, seen, after, removing>>
    BY <1>25 DEF KeeperPing, taskVars
  <2>2. \A k \in Keys : conns'[k] = conns[k] \/ conns'[k] = None
    BY <1>25 DEF KeeperPing, mapVars
  <2>3. Drift
    BY <2>1, <2>2 DEF Drift
  <2> QED BY <2>1, <2>3, StayKeeps
<1>26. ASSUME NEW p \in Pools, KeeperForget(p) PROVE DrainInv'
  <2>1. UNCHANGED <<pc, seen, after, removing>>
    BY <1>26 DEF KeeperForget, taskVars
  <2>2. \A k \in Keys : conns'[k] = conns[k] \/ conns'[k] = None
    BY <1>26 DEF KeeperForget, mapVars
  <2>3. Drift
    BY <2>1, <2>2 DEF Drift
  <2> QED BY <2>1, <2>3, StayKeeps
<1>27. ASSUME NEW p \in Pools, KeeperContext(p) PROVE DrainInv'
  <2>1. UNCHANGED <<pc, seen, after, removing>>
    BY <1>27 DEF KeeperContext, taskVars
  <2>2. \A k \in Keys : conns'[k] = conns[k] \/ conns'[k] = None
    BY <1>27 DEF KeeperContext, mapVars
  <2>3. Drift
    BY <2>1, <2>2 DEF Drift
  <2> QED BY <2>1, <2>3, StayKeeps
<1>28. ASSUME NEW p \in Pools, KeeperRemove(p) PROVE DrainInv'
  <2>1. UNCHANGED <<pc, seen, after, removing>>
    BY <1>28 DEF KeeperRemove, taskVars
  <2>2. \A k \in Keys : conns'[k] = conns[k] \/ conns'[k] = None
    BY <1>28 DEF KeeperRemove, Cleared
  <2>3. Drift
    BY <2>1, <2>2 DEF Drift
  <2> QED BY <2>1, <2>3, StayKeeps
<1>29. ASSUME NEW p \in Pools, KeeperEnd(p) PROVE DrainInv'
  <2>1. UNCHANGED <<pc, seen, after, removing>>
    BY <1>29 DEF KeeperEnd, taskVars
  <2>2. \A k \in Keys : conns'[k] = conns[k] \/ conns'[k] = None
    BY <1>29 DEF KeeperEnd, mapVars
  <2>3. Drift
    BY <2>1, <2>2 DEF Drift
  <2> QED BY <2>1, <2>3, StayKeeps
<1> QED
  BY <1>1, <1>2, <1>3, <1>4, <1>5, <1>6, <1>7, <1>8, <1>9, <1>10, <1>11, <1>12, <1>13, <1>14,
     <1>15, <1>16, <1>17, <1>18, <1>19, <1>20, <1>21, <1>22, <1>23, <1>24, <1>25, <1>26, <1>27,
     <1>28, <1>29, NextCases

\* The initial states satisfy the inductive invariant.
LEMMA InitInv == Init => IInv
<1> SUFFICES ASSUME Init PROVE IInv
  OBVIOUS
<1> USE HolderFacts DEF Init, Empty
<1>1. TypeOK
  BY DEF TypeOK, Labels
<1>2. LabelInv /\ HandInv /\ FreshInv
  BY DEF LabelInv, HandInv, FreshInv, Opening, Opened, Inserted
<1>3. OwnInv
  BY DEF OwnInv, Owned, MapOpen, HandOpen, OneKey, OneHand, NotBoth
<1>4. AttemptInv
  BY TaskFacts DEF AttemptInv
<1>5. DrainInv
  BY DEF DrainInv, DrainOk, Draining, Gone
<1> QED BY <1>1, <1>2, <1>3, <1>4, <1>5 DEF IInv, PoolInv

\* One owner for every open pool and none for the others, from its parts.
LEMMA OwnInvOneOwner ==
    ASSUME TypeOK, OwnInv
    PROVE  OneOwner
<1> USE HolderFacts DEF TypeOK, OwnInv
<1> SUFFICES ASSUME NEW p \in Pools
             PROVE  IF pool[p] = "open" THEN \E o \in Owners(p) : Owners(p) = {o}
                                        ELSE Owners(p) = {}
  BY DEF OneOwner
<1>1. CASE pool[p] # "open"
  <2>1. ASSUME NEW k \in Keys, conns[k] = p PROVE FALSE
    <3>1. conns[k] # None
      BY <2>1
    <3> QED BY <1>1, <2>1, <3>1 DEF MapOpen
  <2>2. \A h \in Holders : p \notin hand[h]
    BY <1>1 DEF HandOpen
  <2> QED BY <1>1, <2>1, <2>2 DEF Owners
<1>2. CASE pool[p] = "open"
  <2>1. CASE \E k \in Keys : conns[k] = p
    <3>1. PICK k \in Keys : conns[k] = p
      BY <2>1
    <3>2. \A l \in Keys : conns[l] = p => l = k
      BY <3>1 DEF OneKey
    <3>3. \A h \in Holders : p \notin hand[h]
      BY <3>1 DEF NotBoth
    <3>4. Owners(p) = {<<"map", k>>}
      BY <3>1, <3>2, <3>3 DEF Owners
    <3> QED BY <1>2, <3>4
  <2>2. CASE \E h \in Holders : p \in hand[h]
    <3>1. PICK h \in Holders : p \in hand[h]
      BY <2>2
    <3>2. \A i \in Holders : p \in hand[i] => i = h
      BY <3>1 DEF OneHand
    <3>3. ASSUME NEW k \in Keys, conns[k] = p PROVE FALSE
      BY <3>1, <3>3 DEF NotBoth
    <3>4. Owners(p) = {<<"hand", h>>}
      BY <3>1, <3>2, <3>3 DEF Owners
    <3> QED BY <1>2, <3>4
  <2> QED BY <1>2, <2>1, <2>2 DEF Owned
<1> QED BY <1>1, <1>2

(***************************************************************************)
(* The inductive invariant holds of every behaviour of AppState.            *)
(***************************************************************************)
THEOREM Invariance == Spec => []IInv
<1>1. IInv /\ [Next]_vars => IInv'
  <2> SUFFICES ASSUME IInv, [Next]_vars PROVE IInv'
    OBVIOUS
  <2>1. TypeOK /\ PoolInv /\ LabelInv /\ AttemptInv /\ DrainInv
    BY DEF IInv, PoolInv
  <2>2. TypeOK' /\ LabelInv'
    BY <2>1, TypeInductive, LabelInductive
  <2>3. (HandInv /\ FreshInv /\ OwnInv)'
    BY <2>1, PoolInductive
  <2>4. AttemptInv' /\ DrainInv'
    BY <2>1, AttemptInductive, DrainInductive
  <2> QED BY <2>2, <2>3, <2>4 DEF IInv, PoolInv
<1> QED BY <1>1, InitInv, PTL DEF Spec

\* Type correctness of the maps, the attempt state and what every task keeps.
THEOREM TypeCorrect == Spec => []TypeOK
<1>1. IInv => TypeOK
  BY DEF IInv
<1> QED BY <1>1, Invariance, PTL

(***************************************************************************)
(* Every open pool has exactly one owner and a closed one none, however     *)
(* connects, gets, removers, refreshes and keepalive tasks interleave: for  *)
(* any number of them, any keys, with and without transport layers.         *)
(***************************************************************************)
THEOREM PoolsHaveOneOwner == Spec => []OneOwner
<1>1. IInv => OneOwner
  BY OwnInvOneOwner DEF IInv, PoolInv
<1> QED BY <1>1, Invariance, PTL

(***************************************************************************)
(* An attempt that fails as superseded was superseded by a newer connect,   *)
(* by a disconnect that names it or by one that names no attempt.           *)
(***************************************************************************)
THEOREM SupersededForACause == Spec => []SupersededHasCause
<1>1. IInv => SupersededHasCause
  BY DEF IInv, AttemptInv, Cause, SupersededHasCause
<1> QED BY <1>1, Invariance, PTL

(***************************************************************************)
(* What drain_connection_pools found in the map is out of it once the drain *)
(* has removed its keys, and does not come back.                            *)
(***************************************************************************)
THEOREM DrainsAreFinal == Spec => []DrainedStayOut
<1>1. IInv => DrainedStayOut
  BY DEF IInv, DrainInv, DrainOk, Gone, Drained, DrainedStayOut
<1> QED BY <1>1, Invariance, PTL
=============================================================================
