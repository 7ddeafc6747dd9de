-------------------------- MODULE TableOrderProofs --------------------------
(***************************************************************************)
(* Proofs about TableOrder, for any number of tables and any foreign keys.  *)
(*                                                                         *)
(* Kahn's algorithm places every table once, and a table after all of its   *)
(* parents unless it is, or depends on, a table of a cycle.  The argument:  *)
(* in_degree counts the keys to tables that are not placed yet, so a table  *)
(* enters the queue exactly once, when its last parent is placed; and the   *)
(* tables that are left behind each have a parent among them, so that going *)
(* from parent to parent one meets a cycle.                                 *)
(***************************************************************************)
EXTENDS TableOrder, FiniteSetTheorems, TLAPS

\* What an element of a sequence's range is.
LEMMA InRange ==
    ASSUME NEW s, NEW x
    PROVE  x \in ToSet(s) <=> \E i \in DOMAIN s : s[i] = x
BY DEF ToSet

\* The request names finitely many tables, each once.
LEMMA TablesFacts ==
    /\ IsFiniteSet(Names) /\ Cardinality(Names) = Len(Tables)
    /\ IsInjective(Tables) /\ Tables \in Seq(Names) /\ ToSet(Tables) = Names
<1>1. Tables \in Seq(Names) /\ Cardinality(Names) = Len(Tables)
  BY TablesAssumption
<1> DEFINE n == Len(Tables)
<1>2. n \in Nat /\ DOMAIN Tables = 1 .. n /\ Tables \in [1 .. n -> Names]
  BY <1>1
<1>3. IsFiniteSet(1 .. n) /\ Cardinality(1 .. n) = n
  BY <1>2, FS_Interval, SMTT(30)
<1>4. Tables \in Surjection(1 .. n, Names)
  BY <1>2 DEF Surjection, Names, ToSet, Range
<1>5. IsFiniteSet(Names) /\ (Cardinality(Names) = Cardinality(1 .. n) => Tables \in Injection(1 .. n, Names))
  BY <1>3, <1>4, FS_Surjection
<1>6. IsInjective(Tables)
  BY <1>1, <1>3, <1>5 DEF Injection
<1> QED BY <1>1, <1>5, <1>6 DEF Names

\* SetToSeqs lists a finite set: each element once.
LEMMA Listing ==
    ASSUME NEW S, IsFiniteSet(S), NEW q \in SetToSeqs(S)
    PROVE  q \in Seq(S) /\ IsInjective(q) /\ ToSet(q) = S /\ Len(q) = Cardinality(S)
<1> DEFINE n == Cardinality(S)
<1>1. n \in Nat
  BY FS_CardinalityType
<1>2. q \in [1 .. n -> S] /\ \A i, j \in 1 .. n : i # j => q[i] # q[j]
  BY DEF SetToSeqs
<1>3. q \in Seq(S) /\ Len(q) = n /\ IsInjective(q)
  BY <1>1, <1>2 DEF IsInjective
<1>4. IsFiniteSet(1 .. n) /\ Cardinality(1 .. n) = n
  BY <1>1, FS_Interval
<1>5. q \in Injection(1 .. n, S)
  BY <1>2, <1>3 DEF Injection
<1>6. q \in Surjection(1 .. n, S)
  BY <1>4, <1>5, FS_Injection
<1>7. ToSet(q) = S
  BY <1>2, <1>6 DEF Surjection, Range, ToSet
<1> QED BY <1>3, <1>7

\* An injective sequence of a finite set that holds all of it is as long as the set.
LEMMA FullLength ==
    ASSUME NEW S, IsFiniteSet(S), NEW q \in Seq(S), IsInjective(q), ToSet(q) = S
    PROVE  Len(q) = Cardinality(S)
<1> DEFINE n == Len(q)
<1>1. n \in Nat /\ q \in [1 .. n -> S]
  OBVIOUS
<1>2. IsFiniteSet(1 .. n) /\ Cardinality(1 .. n) = n
  BY <1>1, FS_Interval, SMTT(30)
<1>3. q \in Surjection(1 .. n, S) /\ q \in Injection(1 .. n, S)
  BY <1>1 DEF Surjection, Injection, Range, ToSet
<1>4. Cardinality(S) = Cardinality(1 .. n)
  BY <1>2, <1>3, FS_Surjection
<1> QED BY <1>2, <1>4

\* Two injective sequences without a common element make an injective one.
LEMMA Joined ==
    ASSUME NEW S, NEW q \in Seq(S), NEW r \in Seq(S), IsInjective(q), IsInjective(r),
           ToSet(q) \cap ToSet(r) = {}
    PROVE  /\ q \o r \in Seq(S) /\ IsInjective(q \o r) /\ ToSet(q \o r) = ToSet(q) \cup ToSet(r)
           /\ Len(q \o r) = Len(q) + Len(r)
           /\ \A i \in DOMAIN q : i \in DOMAIN (q \o r) /\ (q \o r)[i] = q[i]
           /\ \A j \in DOMAIN (q \o r) : j \in DOMAIN q \/ (q \o r)[j] \in ToSet(r)
<1>1. q \o r \in Seq(S) /\ Len(q \o r) = Len(q) + Len(r)
  OBVIOUS
<1>2. \A i \in DOMAIN q : i \in DOMAIN (q \o r) /\ (q \o r)[i] = q[i]
  OBVIOUS
<1>3. \A i \in DOMAIN r : Len(q) + i \in DOMAIN (q \o r) /\ (q \o r)[Len(q) + i] = r[i]
  OBVIOUS
<1>4. \A j \in DOMAIN (q \o r) : j \in DOMAIN q \/ (j - Len(q) \in DOMAIN r /\ (q \o r)[j] = r[j - Len(q)])
  OBVIOUS
<1>5. \A j \in DOMAIN (q \o r) : j \in DOMAIN q \/ (q \o r)[j] \in ToSet(r)
  BY <1>4 DEF ToSet
<1>6. ToSet(q \o r) = ToSet(q) \cup ToSet(r)
  <2>1. \A x \in ToSet(q \o r) : x \in ToSet(q) \cup ToSet(r)
    <3> SUFFICES ASSUME NEW j \in DOMAIN (q \o r) PROVE (q \o r)[j] \in ToSet(q) \cup ToSet(r)
      BY DEF ToSet
    <3>1. CASE j \in DOMAIN q
      BY <1>2, <3>1 DEF ToSet
    <3> QED BY <1>5, <3>1
  <2>2. \A x \in ToSet(q) : x \in ToSet(q \o r)
    <3> SUFFICES ASSUME NEW i \in DOMAIN q PROVE q[i] \in ToSet(q \o r)
      BY DEF ToSet
    <3> QED BY <1>2 DEF ToSet
  <2>3. \A x \in ToSet(r) : x \in ToSet(q \o r)
    <3> SUFFICES ASSUME NEW i \in DOMAIN r PROVE r[i] \in ToSet(q \o r)
      BY DEF ToSet
    <3> QED BY <1>3 DEF ToSet
  <2> QED BY <2>1, <2>2, <2>3
<1>7. IsInjective(q \o r)
  <2> SUFFICES ASSUME NEW a \in DOMAIN (q \o r), NEW b \in DOMAIN (q \o r),
                      (q \o r)[a] = (q \o r)[b]
               PROVE  a = b
    BY DEF IsInjective
  <2>1. CASE a \in DOMAIN q /\ b \in DOMAIN q
    BY <1>2, <2>1 DEF IsInjective
  <2>2. CASE a \in DOMAIN q /\ b \notin DOMAIN q
    BY <1>2, <1>5, <2>2 DEF ToSet
  <2>3. CASE a \notin DOMAIN q /\ b \in DOMAIN q
    BY <1>2, <1>5, <2>3 DEF ToSet
  <2>4. CASE a \notin DOMAIN q /\ b \notin DOMAIN q
    <3>1. a - Len(q) = b - Len(q)
      BY <1>4, <2>4 DEF IsInjective
    <3> QED BY <3>1
  <2> QED BY <2>1, <2>2, <2>3, <2>4
<1> QED BY <1>1, <1>2, <1>5, <1>6, <1>7

----------------------------------------------------------------------------
(***************************************************************************)
(* The invariant of the sort.                                               *)
(***************************************************************************)
\* The keys of d whose source is not placed yet: what in_degree counts.
Waiting(d) == {fk \in fks : Dependent(fk) = d /\ Source(fk) \notin ToSet(sorted)}

\* A table is placed or queued exactly when it waits for nothing, and what is placed
\* comes after its sources.
RoundInv ==
    /\ queue \in Seq(Names) /\ IsInjective(queue)
    /\ ToSet(sorted) \cap ToSet(queue) = {}
    /\ degree \in [Names -> Nat]
    /\ \A d \in Names : degree[d] = Cardinality(Waiting(d))
    /\ \A d \in Names : d \in ToSet(sorted) \cup ToSet(queue) <=> Waiting(d) = {}
    /\ \A fk \in fks, j \in DOMAIN sorted : sorted[j] = Dependent(fk) =>
           \E i \in DOMAIN sorted : i < j /\ sorted[i] = Source(fk)

\* The tables that no round reached have a source among themselves; every other one
\* comes after its sources.
LeftInv ==
    \E left \in SUBSET Names :
        /\ \A x \in left : \E y \in left : y \in Sources(x)
        /\ \A fk \in fks : \/ Dependent(fk) \in left
                           \/ \E i, j \in DOMAIN sorted :
                                 i < j /\ sorted[i] = Source(fk) /\ sorted[j] = Dependent(fk)

SortInv ==
    /\ fks \subseteq Names \X Names \X Nat /\ IsFiniteSet(fks)
    /\ sorted \in Seq(Names) /\ IsInjective(sorted)
    /\ stage = "sort" => sorted = <<>>
    /\ stage = "rounds" => RoundInv
    /\ stage = "sorted" => LeftInv
    /\ stage \notin {"sort", "rounds"} => ToSet(sorted) = Names

\* The ends of a foreign key are tables of the request.
LEMMA KeyEnds ==
    ASSUME SortInv, NEW fk \in fks
    PROVE  Source(fk) \in Names /\ Dependent(fk) \in Names
BY DEF SortInv, Source, Dependent

\* The keys a table waits for are finitely many.
LEMMA WaitingFinite ==
    ASSUME SortInv, NEW d
    PROVE  IsFiniteSet(Waiting(d)) /\ Cardinality(Waiting(d)) \in Nat
<1>1. Waiting(d) \in SUBSET fks
  BY DEF Waiting
<1>2. IsFiniteSet(Waiting(d))
  BY <1>1, FS_Subset DEF SortInv
<1> QED BY <1>2, FS_CardinalityType

\* The first round starts from the tables without a key.
LEMMA BeginRounds ==
    ASSUME SortInv, SortBegin
    PROVE  SortInv'
<1> DEFINE roots == {t \in Names : InDegree(t) = 0}
<1>1. /\ stage = "sort" /\ sorted = <<>> /\ stage' = "rounds" /\ UNCHANGED <<fks, parentsFirst, sorted>>
      /\ queue' \in SetToSeqs(roots) /\ degree' = [t \in Names |-> InDegree(t)]
  BY DEF SortInv, SortBegin
<1>2. ToSet(sorted) = {} /\ DOMAIN sorted = {}
  BY <1>1 DEF ToSet
<1>3. \A d : Waiting(d) = {fk \in fks : Dependent(fk) = d}
  BY <1>2 DEF Waiting
<1>4. \A d : InDegree(d) = Cardinality(Waiting(d))
  BY <1>3 DEF InDegree
<1>5. \A d : Waiting(d)' = Waiting(d)
  BY <1>1 DEF Waiting, Dependent, Source
<1>6. IsFiniteSet(roots)
  BY TablesFacts, FS_Subset
<1>7. queue' \in Seq(roots) /\ IsInjective(queue') /\ ToSet(queue') = roots
  BY <1>1, <1>6, Listing
<1>8. \A d \in Names : InDegree(d) = 0 <=> Waiting(d) = {}
  BY <1>4, WaitingFinite, FS_EmptySet
<1>9. RoundInv'
  <2>1. (queue \in Seq(Names))'
    BY <1>7
  <2>2. degree' \in [Names -> Nat] /\ \A d \in Names : degree'[d] = Cardinality(Waiting(d))
    BY <1>1, <1>4, WaitingFinite
  <2>3. \A d \in Names : d \in ToSet(queue') <=> Waiting(d) = {}
    BY <1>7, <1>8
  <2>4. ToSet(sorted)' = {} /\ (DOMAIN sorted)' = {}
    BY <1>1, <1>2
  <2> QED BY <1>5, <1>7, <2>1, <2>2, <2>3, <2>4 DEF RoundInv
<1> QED BY <1>1, <1>9 DEF SortInv

\* A round moves the head of the queue to the end of the order and queues the tables
\* that waited for nothing else.
LEMMA OneRound ==
    ASSUME SortInv, SortRound
    PROVE  SortInv'
<1> DEFINE p == Head(queue)
<1>1. RoundInv /\ stage = "rounds" /\ queue # <<>> /\ UNCHANGED <<fks, parentsFirst, stage>>
  BY DEF SortInv, SortRound
<1>2. /\ sorted' = Append(sorted, p)
      /\ degree' = [d \in Names |-> degree[d] - Cardinality(Edges(p, d))]
  BY DEF SortRound
<1>3. PICK more \in SetToSeqs(Freed(p)) : queue' = Tail(queue) \o more
  BY DEF SortRound, QueueOrders, ListOrder
<1>4. PICK rest \in Seq(Names) : /\ rest = Tail(queue) /\ IsInjective(rest)
                                 /\ p \notin ToSet(rest) /\ ToSet(queue) = {p} \cup ToSet(rest)
                                 /\ p \in Names
  <2>1. Tail(queue) \in Seq(Names) /\ p \in Names /\ p = queue[1] /\ 1 \in DOMAIN queue
    BY <1>1 DEF RoundInv
  <2>2. \A i \in DOMAIN Tail(queue) : i + 1 \in DOMAIN queue /\ i + 1 # 1 /\ Tail(queue)[i] = queue[i + 1]
    BY <1>1 DEF RoundInv
  <2>3. \A i \in DOMAIN queue : i = 1 \/ (i - 1 \in DOMAIN Tail(queue) /\ queue[i] = Tail(queue)[i - 1])
    BY <1>1 DEF RoundInv
  <2>4. IsInjective(queue)
    BY <1>1 DEF RoundInv
  <2>5. IsInjective(Tail(queue))
    <3> SUFFICES ASSUME NEW a \in DOMAIN Tail(queue), NEW b \in DOMAIN Tail(queue),
                        Tail(queue)[a] = Tail(queue)[b]
                 PROVE  a = b
      BY DEF IsInjective
    <3>1. a + 1 = b + 1
      BY <2>2, <2>4 DEF IsInjective
    <3> QED BY <2>1, <3>1
  <2>6. p \notin ToSet(Tail(queue))
    BY <2>1, <2>2, <2>4 DEF IsInjective, ToSet
  <2>7. ToSet(queue) = {p} \cup ToSet(Tail(queue))
    <3>1. \A x \in ToSet(queue) : x = p \/ x \in ToSet(Tail(queue))
      BY <2>1, <2>3, ZenonT(30) DEF ToSet
    <3>2. \A x \in ToSet(Tail(queue)) : x \in ToSet(queue)
      BY <2>2 DEF ToSet
    <3>3. p \in ToSet(queue)
      BY <2>1 DEF ToSet
    <3> QED BY <3>1, <3>2, <3>3
  <2> QED BY <2>1, <2>5, <2>6, <2>7
<1>5. p \notin ToSet(sorted) /\ ToSet(sorted) \cap ToSet(rest) = {}
  BY <1>1, <1>4 DEF RoundInv
<1>6. /\ sorted' \in Seq(Names) /\ IsInjective(sorted') /\ ToSet(sorted') = ToSet(sorted) \cup {p}
      /\ Len(sorted') = Len(sorted) + 1 /\ sorted'[Len(sorted) + 1] = p
      /\ \A i \in DOMAIN sorted : i \in DOMAIN sorted' /\ sorted'[i] = sorted[i]
      /\ \A j \in DOMAIN sorted' : j \in DOMAIN sorted \/ j = Len(sorted) + 1
  <2>1. sorted \in Seq(Names) /\ IsInjective(sorted)
    BY DEF SortInv
  <2>2. /\ <<p>> \in Seq(Names) /\ Len(<<p>>) = 1 /\ DOMAIN <<p>> = {1} /\ <<p>>[1] = p
    BY <1>4
  <2>3. IsInjective(<<p>>) /\ ToSet(<<p>>) = {p}
    BY <2>2 DEF IsInjective, ToSet
  <2>4. sorted' = sorted \o <<p>>
    BY <1>2, <2>1, <1>4
  <2>5. ToSet(sorted) \cap ToSet(<<p>>) = {}
    BY <1>5, <2>3
  <2>6. sorted' \in Seq(Names) /\ IsInjective(sorted') /\ ToSet(sorted') = ToSet(sorted) \cup {p}
    BY <2>1, <2>2, <2>3, <2>4, <2>5, Joined, ZenonT(30)
  <2>7. /\ Len(sorted') = Len(sorted) + 1 /\ sorted'[Len(sorted) + 1] = p
        /\ \A i \in DOMAIN sorted : i \in DOMAIN sorted' /\ sorted'[i] = sorted[i]
        /\ \A j \in DOMAIN sorted' : j \in DOMAIN sorted \/ j = Len(sorted) + 1
    BY <1>2, <1>4, <2>1
  <2> QED BY <2>6, <2>7
<1>7. \A d : Edges(p, d) \subseteq Waiting(d) /\ Waiting(d)' = Waiting(d) \ Edges(p, d)
  BY <1>1, <1>5, <1>6 DEF Edges, Waiting, Source, Dependent
<1>8. \A d \in Names : /\ IsFiniteSet(Waiting(d)) /\ Cardinality(Waiting(d)) \in Nat
                       /\ Cardinality(Edges(p, d)) \in Nat
                       /\ Cardinality(Edges(p, d)) <= Cardinality(Waiting(d))
                       /\ Cardinality(Waiting(d)') = Cardinality(Waiting(d)) - Cardinality(Edges(p, d))
                       /\ (Cardinality(Waiting(d)) = Cardinality(Edges(p, d)) => Waiting(d) = Edges(p, d))
  <2> SUFFICES ASSUME NEW d \in Names
               PROVE  /\ IsFiniteSet(Waiting(d)) /\ Cardinality(Waiting(d)) \in Nat
                      /\ Cardinality(Edges(p, d)) \in Nat
                      /\ Cardinality(Edges(p, d)) <= Cardinality(Waiting(d))
                      /\ Cardinality(Waiting(d)') = Cardinality(Waiting(d)) - Cardinality(Edges(p, d))
                      /\ (Cardinality(Waiting(d)) = Cardinality(Edges(p, d)) => Waiting(d) = Edges(p, d))
    OBVIOUS
  <2>1. IsFiniteSet(Waiting(d)) /\ Cardinality(Waiting(d)) \in Nat
    BY WaitingFinite
  <2>2. Edges(p, d) \in SUBSET Waiting(d)
    BY <1>7
  <2>3. /\ IsFiniteSet(Edges(p, d)) /\ Cardinality(Edges(p, d)) <= Cardinality(Waiting(d))
        /\ (Cardinality(Waiting(d)) = Cardinality(Edges(p, d)) => Waiting(d) = Edges(p, d))
    BY <2>1, <2>2, FS_Subset
  <2>4. Cardinality(Edges(p, d)) \in Nat
    BY <2>3, FS_CardinalityType
  <2>5. Waiting(d) \cap Edges(p, d) = Edges(p, d)
    BY <2>2
  <2>6. Cardinality(Waiting(d) \ Edges(p, d)) = Cardinality(Waiting(d)) - Cardinality(Edges(p, d))
    BY <2>1, <2>5, FS_Difference
  <2>7. Waiting(d)' = Waiting(d) \ Edges(p, d)
    BY <1>7
  <2> QED BY <2>1, <2>3, <2>4, <2>6, <2>7
<1>9. \A d \in Names : d \in Freed(p) <=> Waiting(d)' = {} /\ Waiting(d) # {}
  <2> SUFFICES ASSUME NEW d \in Names
               PROVE  d \in Freed(p) <=> Waiting(d)' = {} /\ Waiting(d) # {}
    OBVIOUS
  <2>1. d \in Freed(p) <=> Edges(p, d) # {} /\ degree[d] = Cardinality(Edges(p, d))
    BY DEF Freed
  <2>2. degree[d] = Cardinality(Waiting(d))
    BY <1>1 DEF RoundInv
  <2>3. degree[d] = Cardinality(Edges(p, d)) <=> Waiting(d) = Edges(p, d)
    BY <1>8, <2>2
  <2>4. Edges(p, d) \subseteq Waiting(d) /\ Waiting(d)' = Waiting(d) \ Edges(p, d)
    BY <1>7
  <2> QED BY <2>1, <2>3, <2>4
<1>10. IsFiniteSet(Freed(p)) /\ Freed(p) \subseteq Names
  BY TablesFacts, FS_Subset DEF Freed
<1>11. more \in Seq(Names) /\ IsInjective(more) /\ ToSet(more) = Freed(p)
  <2>1. more \in Seq(Freed(p)) /\ IsInjective(more) /\ ToSet(more) = Freed(p)
    BY <1>10, Listing
  <2> QED BY <1>10, <2>1
<1>12. Freed(p) \cap (ToSet(sorted) \cup ToSet(queue)) = {}
  BY <1>1, <1>9, <1>10 DEF RoundInv
<1>13. queue' \in Seq(Names) /\ IsInjective(queue') /\ ToSet(queue') = ToSet(rest) \cup Freed(p)
  <2>1. ToSet(rest) \cap ToSet(more) = {}
    BY <1>4, <1>11, <1>12
  <2> QED BY <1>3, <1>4, <1>11, <2>1, Joined
<1>14. RoundInv'
  <2>1. ToSet(sorted') \cap ToSet(queue') = {}
    BY <1>4, <1>5, <1>6, <1>12, <1>13
  <2>2. degree' \in [Names -> Nat] /\ \A d \in Names : degree'[d] = Cardinality(Waiting(d)')
    <3>1. \A d \in Names : degree[d] = Cardinality(Waiting(d))
      BY <1>1 DEF RoundInv
    <3>2. \A d \in Names : degree'[d] = degree[d] - Cardinality(Edges(p, d))
      BY <1>2
    <3>3. \A d \in Names : degree'[d] = Cardinality(Waiting(d)') /\ degree'[d] \in Nat
      BY <1>8, <3>1, <3>2, SMTT(30)
    <3> QED BY <1>2, <3>3
  <2>3. \A d \in Names : d \in ToSet(sorted') \cup ToSet(queue') <=> Waiting(d)' = {}
    <3> SUFFICES ASSUME NEW d \in Names
                 PROVE  d \in ToSet(sorted') \cup ToSet(queue') <=> Waiting(d)' = {}
      OBVIOUS
    <3>1. d \in ToSet(sorted) \cup ToSet(queue) <=> Waiting(d) = {}
      BY <1>1 DEF RoundInv
    <3>2. d \in ToSet(sorted') \cup ToSet(queue') <=> d \in ToSet(sorted) \cup ToSet(queue) \/ d \in Freed(p)
      BY <1>4, <1>6, <1>13
    <3>3. Waiting(d)' = Waiting(d) \ Edges(p, d)
      BY <1>7
    <3> QED BY <1>9, <3>1, <3>2, <3>3
  <2>4. \A fk \in fks, j \in DOMAIN sorted' : sorted'[j] = Dependent(fk) =>
            \E i \in DOMAIN sorted' : i < j /\ sorted'[i] = Source(fk)
    <3> SUFFICES ASSUME NEW fk \in fks, NEW j \in DOMAIN sorted', sorted'[j] = Dependent(fk)
                 PROVE  \E i \in DOMAIN sorted' : i < j /\ sorted'[i] = Source(fk)
      OBVIOUS
    <3>1. CASE j \in DOMAIN sorted
      <4>1. PICK i \in DOMAIN sorted : i < j /\ sorted[i] = Source(fk)
        BY <1>1, <1>6, <3>1 DEF RoundInv
      <4> QED BY <1>6, <4>1
    <3>2. CASE j = Len(sorted) + 1
      <4>1. Dependent(fk) = p
        BY <1>6, <3>2
      <4>2. Waiting(p) = {}
        BY <1>1, <1>4 DEF RoundInv
      <4>3. Source(fk) \in ToSet(sorted)
        BY <4>1, <4>2 DEF Waiting
      <4>4. PICK i \in DOMAIN sorted : sorted[i] = Source(fk)
        BY <4>3 DEF ToSet
      <4>5. i < j
        BY <3>2 DEF SortInv
      <4> QED BY <1>6, <4>4, <4>5
    <3> QED BY <1>6, <3>1, <3>2
  <2>5. \A fk : Source(fk)' = Source(fk) /\ Dependent(fk)' = Dependent(fk)
    BY <1>1 DEF Source, Dependent
  <2> QED BY <1>1, <1>13, <2>1, <2>2, <2>3, <2>4, <2>5 DEF RoundInv
<1> QED BY <1>1, <1>6, <1>14 DEF SortInv

\* The tables left behind are appended.
LEMMA EndRounds ==
    ASSUME SortInv, SortEnd
    PROVE  SortInv'
<1>1. RoundInv /\ queue = <<>> /\ stage' = "sorted" /\ UNCHANGED <<fks, parentsFirst>>
  BY DEF SortInv, SortEnd
<1>2. PICK rest \in SetToSeqs(LeftBehind) : sorted' = sorted \o rest
  BY DEF SortEnd, ListOrder
<1>3. IsFiniteSet(LeftBehind) /\ LeftBehind \subseteq Names
  BY TablesFacts, FS_Subset DEF LeftBehind
<1>4. rest \in Seq(Names) /\ IsInjective(rest) /\ ToSet(rest) = LeftBehind
  <2>1. rest \in Seq(LeftBehind) /\ IsInjective(rest) /\ ToSet(rest) = LeftBehind
    BY <1>3, Listing
  <2> QED BY <1>3, <2>1
<1>5. sorted \in Seq(Names) /\ IsInjective(sorted) /\ ToSet(sorted) \subseteq Names
  BY DEF SortInv, ToSet
<1>6. ToSet(sorted) \cap ToSet(rest) = {}
  BY <1>4 DEF LeftBehind
<1>7. /\ sorted' \in Seq(Names) /\ IsInjective(sorted')
      /\ ToSet(sorted') = ToSet(sorted) \cup LeftBehind
      /\ \A i \in DOMAIN sorted : i \in DOMAIN sorted' /\ sorted'[i] = sorted[i]
  BY <1>2, <1>4, <1>5, <1>6, Joined
<1>8. ToSet(sorted') = Names
  BY <1>5, <1>7 DEF LeftBehind
<1>9. \A x \in LeftBehind : \E y \in LeftBehind : y \in Sources(x)
  <2> SUFFICES ASSUME NEW x \in LeftBehind PROVE \E y \in LeftBehind : y \in Sources(x)
    OBVIOUS
  <2>1. ToSet(queue) = {}
    BY <1>1 DEF ToSet
  <2>2. x \in Names /\ x \notin ToSet(sorted)
    BY DEF LeftBehind
  <2>3. Waiting(x) # {}
    BY <1>1, <2>1, <2>2 DEF RoundInv
  <2>4. PICK fk \in fks : Dependent(fk) = x /\ Source(fk) \notin ToSet(sorted)
    BY <2>3 DEF Waiting
  <2>5. Source(fk) \in LeftBehind
    BY <2>4, KeyEnds DEF LeftBehind
  <2> QED BY <2>4, <2>5 DEF Sources
<1>10. \A fk \in fks : \/ Dependent(fk) \in LeftBehind
                       \/ \E i, j \in DOMAIN sorted' :
                             i < j /\ sorted'[i] = Source(fk) /\ sorted'[j] = Dependent(fk)
  <2> SUFFICES ASSUME NEW fk \in fks, Dependent(fk) \notin LeftBehind
               PROVE  \E i, j \in DOMAIN sorted' :
                          i < j /\ sorted'[i] = Source(fk) /\ sorted'[j] = Dependent(fk)
    OBVIOUS
  <2>1. Dependent(fk) \in ToSet(sorted)
    BY KeyEnds DEF LeftBehind
  <2>2. PICK j \in DOMAIN sorted : sorted[j] = Dependent(fk)
    BY <2>1 DEF ToSet
  <2>3. PICK i \in DOMAIN sorted : i < j /\ sorted[i] = Source(fk)
    BY <1>1, <2>2 DEF RoundInv
  <2> QED BY <1>7, <2>2, <2>3
<1>11. LeftInv'
  <2>1. \A fk : Source(fk)' = Source(fk) /\ Dependent(fk)' = Dependent(fk)
    BY <1>1 DEF Source, Dependent
  <2>2. \A x : Sources(x)' = Sources(x)
    BY <1>1, <2>1 DEF Sources
  <2> QED BY <1>1, <1>3, <1>9, <1>10, <2>1, <2>2 DEF LeftInv
<1> QED BY <1>1, <1>7, <1>8, <1>11 DEF SortInv

\* A step of the sort preserves its invariant.
LEMMA SortInductive ==
    ASSUME SortInv, Sort
    PROVE  SortInv'
<1>1. CASE SortFails
  <2>1. fks' = {} /\ sorted' = Tables /\ stage' = "sorted"
    BY <1>1 DEF SortFails
  <2>2. LeftInv'
    BY <2>1 DEF LeftInv
  <2>3. IsFiniteSet(fks')
    BY <2>1, FS_EmptySet
  <2> QED BY <2>1, <2>2, <2>3, TablesFacts DEF SortInv
<1> QED BY <1>1, BeginRounds, OneRound, EndRounds DEF Sort

----------------------------------------------------------------------------
(***************************************************************************)
(* Cycles.                                                                  *)
(***************************************************************************)
\* Above(t) holds the sources of t and is closed, and it is the least such set.
LEMMA AboveFacts ==
    ASSUME SortInv, NEW t \in Names
    PROVE  /\ Above(t) \subseteq Names /\ Sources(t) \subseteq Above(t)
           /\ \A x \in Above(t) : Sources(x) \subseteq Above(t)
           /\ \A x \in Above(t) : Above(x) \subseteq Above(t)
<1>1. Above(t) \subseteq Names
  BY DEF Above
<1>2. \A x : Sources(x) \subseteq Names
  BY KeyEnds DEF Sources
<1>3. Sources(t) \subseteq Above(t)
  BY <1>2 DEF Above
<1>4. \A x \in Above(t) : Sources(x) \subseteq Above(t)
  <2> SUFFICES ASSUME NEW x \in Above(t), NEW y \in Sources(x) PROVE y \in Above(t)
    OBVIOUS
  <2>1. SUFFICES ASSUME NEW C \in SUBSET Names,
                        Sources(t) \subseteq C, \A z \in C : Sources(z) \subseteq C
                 PROVE  y \in C
    BY <1>2 DEF Above
  <2>2. x \in C
    BY <2>1 DEF Above
  <2> QED BY <2>1, <2>2
<1>5. \A x \in Above(t) : Above(x) \subseteq Above(t)
  <2> SUFFICES ASSUME NEW x \in Above(t), NEW a \in Above(x) PROVE a \in Above(t)
    OBVIOUS
  <2>1. Above(t) \in SUBSET Names /\ Sources(x) \subseteq Above(t)
    BY <1>1, <1>4
  <2> QED BY <1>4, <2>1 DEF Above
<1> QED BY <1>1, <1>3, <1>4, <1>5

\* A set of tables each of which has a source in it holds one that depends on a cycle:
\* of the tables with the fewest above them, a source would have fewer.
LEMMA NoDescent ==
    ASSUME SortInv, NEW left \in SUBSET Names,
           \A x \in left : \E y \in left : y \in Sources(x),
           NEW d \in left
    PROVE  OnCycle(d) \/ \E a \in Above(d) : OnCycle(a)
<1> SUFFICES ASSUME ~OnCycle(d), \A a \in Above(d) : ~OnCycle(a) PROVE FALSE
  OBVIOUS
<1> DEFINE chain == left \cap (Above(d) \cup {d})
           levels == {Above(x) : x \in chain}
           less == StrictSubsetOrdering(Names)
<1>1. IsWellFoundedOn(less, FiniteSubsetsOf(Names)) /\ FiniteSubsetsOf(Names) = SUBSET Names
  BY TablesFacts, FS_StrictSubsetOrderingWellFounded, FS_FiniteSubsetsOfFinite
<1>2. levels \subseteq FiniteSubsetsOf(Names)
  BY <1>1 DEF Above
<1>3. levels # {}
  <2>1. d \in chain
    OBVIOUS
  <2>2. Above(d) \in levels
    BY <2>1
  <2> QED BY <2>2
<1>4. PICK least \in levels : \A y \in levels : <<y, least>> \notin less
  <2> HIDE DEF levels, less
  <2> QED BY <1>1, <1>2, <1>3, WFMin
<1>5. PICK x \in chain : least = Above(x)
  BY <1>4
<1>6. x \in Names /\ ~OnCycle(x) /\ Above(x) \subseteq Above(d)
  <2>1. x \in Names /\ d \in Names
    BY <1>5
  <2> QED BY <1>5, <2>1, AboveFacts
<1>7. PICK y \in left : y \in Sources(x)
  BY <1>5
<1>8. y \in Names /\ y \in Above(x) /\ Above(y) \subseteq Above(x)
  BY <1>6, <1>7, AboveFacts
<1>9. y \in Above(d) /\ y \in chain /\ ~OnCycle(y)
  BY <1>6, <1>7, <1>8
<1>10. Above(y) # Above(x)
  BY <1>8, <1>9 DEF OnCycle
<1>11. Above(y) \subseteq Names /\ Above(x) \subseteq Names
  BY DEF Above
<1>12. <<Above(y), Above(x)>> \in less
  BY <1>8, <1>10, <1>11 DEF StrictSubsetOrdering
<1> QED BY <1>4, <1>5, <1>9, <1>12

(***************************************************************************)
(* The order of the tables is right in every state that satisfies the       *)
(* invariant: all are placed once, and parents come first outside cycles.   *)
(***************************************************************************)
LEMMA OrderIsRight ==
    ASSUME SortInv
    PROVE  AcyclicParentsFirst
<1> SUFFICES ASSUME stage = "sorted"
             PROVE  /\ Len(sorted) = Len(Tables) /\ ToSet(sorted) = Names
                    /\ \A fk \in fks :
                         LET d == Dependent(fk) IN
                         ~OnCycle(d) /\ (\A a \in Above(d) : ~OnCycle(a)) => Place(Source(fk)) < Place(d)
  BY DEF AcyclicParentsFirst
<1>1. ToSet(sorted) = Names /\ sorted \in Seq(Names) /\ IsInjective(sorted) /\ LeftInv
  BY DEF SortInv
<1>2. Len(sorted) = Len(Tables)
  BY <1>1, TablesFacts, FullLength
<1>3. ASSUME NEW fk \in fks, ~OnCycle(Dependent(fk)), \A a \in Above(Dependent(fk)) : ~OnCycle(a)
      PROVE  Place(Source(fk)) < Place(Dependent(fk))
  <2>1. PICK left \in SUBSET Names :
          /\ \A x \in left : \E y \in left : y \in Sources(x)
          /\ \A k \in fks : \/ Dependent(k) \in left
                            \/ \E i, j \in DOMAIN sorted :
                                  i < j /\ sorted[i] = Source(k) /\ sorted[j] = Dependent(k)
    BY <1>1 DEF LeftInv
  <2>2. Dependent(fk) \notin left
    BY <1>3, <2>1, NoDescent
  <2>3. PICK i, j \in DOMAIN sorted : i < j /\ sorted[i] = Source(fk) /\ sorted[j] = Dependent(fk)
    BY <2>1, <2>2
  <2>4. \A n \in DOMAIN sorted : Place(sorted[n]) = n
    BY <1>1 DEF Place, IsInjective
  <2> QED BY <2>3, <2>4
<1> QED BY <1>1, <1>2, <1>3
=============================================================================
