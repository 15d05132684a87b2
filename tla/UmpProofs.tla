------------------------------ MODULE UmpProofs ------------------------------
(***************************************************************************)
(* Theorems about Ump: the cached sizes are those of the queues, and every *)
(* queue is a Fifo, for every set of paras, weights and limits.            *)
(***************************************************************************)
EXTENDS Ump, LoopTheorems, FiniteSetTheorems

-----------------------------------------------------------------------------
(* The dispatch loop.                                                      *)

\* c is what is left of q once some messages were taken from its front.
Left(q, c) == \E n \in 0..Len(q) : c = SubSeq(q, n + 1, Len(q))

\* The states of the loop: the cache holds what is left of the queues, listed are
\* those where something is, and the cursor points to one of them.
LoopState ==
    [list : SUBSET ParaIds, at : ParaIds \union {None},
     cache : [DOMAIN queues -> Seq(Weights)], used : Nat, over : Seq(ParaIds),
     stop : BOOLEAN]

CacheExact(s) ==
    /\ s.list = {p \in DOMAIN queues : s.cache[p] # <<>>}
    /\ \A p \in DOMAIN queues : Left(queues[p], s.cache[p])

PointsTo(list, p) == IF list = {} THEN p = None ELSE p \in list

Cursors == {s \in LoopState : CacheExact(s) /\ PointsTo(s.list, s.at)}

QueuesOK ==
    /\ DOMAIN queues \subseteq ParaIds
    /\ \A p \in DOMAIN queues : queues[p] \in Seq(Weights) /\ queues[p] # <<>>
    /\ needs = DOMAIN queues
    /\ queues = [p \in DOMAIN queues |-> queues[p]]

\* The first of the listed paras is listed.
LEMMA FirstIsListed ==
    ASSUME NEW S, S \subseteq ParaIds
    PROVE  PointsTo(S, FirstOf(S))
<1>1. CASE S = {}
  BY <1>1 DEF FirstOf, PointsTo
<1>2. CASE S # {}
  <2>1. S \subseteq Nat
    BY UmpAssumption
  <2>2. \E x \in S : \A y \in S : x <= y
    BY <1>2, <2>1, LeastNatural
  <2>3. Min(S) \in S
    BY <2>2 DEF Min
  <2> QED BY <1>2, <2>3 DEF FirstOf, PointsTo
<1> QED BY <1>1, <1>2

\* So is the one that follows another.
LEMMA FollowingIsListed ==
    ASSUME NEW S, S \subseteq ParaIds, NEW p
    PROVE  PointsTo(S, Following(S, p))
<1> DEFINE later == {q \in S : q > p}
<1>1. PointsTo(S, FirstOf(S)) /\ PointsTo(later, FirstOf(later))
  BY FirstIsListed
<1>2. later # {} => S # {} /\ \A q \in later : q \in S
  OBVIOUS
<1>3. Following(S, p) = FirstOf(IF later = {} THEN S ELSE later)
  BY DEF Following
<1> HIDE DEF later
<1> QED BY <1>1, <1>2, <1>3 DEF PointsTo

\* All of a queue is left at the beginning.
LEMMA LeftAtFirst ==
    ASSUME NEW W, NEW q \in Seq(W)
    PROVE  Left(q, q)
<1>1. q = SubSeq(q, 0 + 1, Len(q))
  OBVIOUS
<1> QED BY <1>1 DEF Left

\* Taking a message leaves what follows it.
LEMMA LeftAfter ==
    ASSUME NEW W, NEW q \in Seq(W), NEW c \in Seq(W), Left(q, c), c # <<>>
    PROVE  Tail(c) \in Seq(W) /\ Head(c) \in W /\ Left(q, Tail(c))
<1>1. PICK n \in 0..Len(q) : c = SubSeq(q, n + 1, Len(q))
  BY DEF Left
<1>2. Len(c) = Len(q) - n /\ Len(c) > 0
  BY <1>1
<1>3. n + 1 \in 0..Len(q)
  BY <1>2
<1>4. Tail(c) = SubSeq(q, (n + 1) + 1, Len(q))
  <2>1. /\ Len(Tail(c)) = Len(q) - (n + 1)
        /\ \A i \in 1..(Len(q) - (n + 1)) : Tail(c)[i] = q[(n + 1) + i]
    BY <1>1, <1>2
  <2>2. /\ Len(SubSeq(q, (n + 1) + 1, Len(q))) = Len(q) - (n + 1)
        /\ \A i \in 1..(Len(q) - (n + 1)) :
              SubSeq(q, (n + 1) + 1, Len(q))[i] = q[(n + 1) + i]
    BY <1>3
  <2> QED BY <2>1, <2>2, <1>3
<1> QED BY <1>2, <1>3, <1>4 DEF Left

\* The loop starts in one of these states.
LEMMA CursorFirst ==
    ASSUME QueuesOK, next \in ParaIds \union {None}
    PROVE  NeedsDispatchCursor \in Cursors
<1> DEFINE s == NeedsDispatchCursor
           at == IF next \in needs THEN next ELSE FirstOf(needs)
<1>1. needs \subseteq ParaIds /\ needs = DOMAIN queues
  BY DEF QueuesOK
<1>2. PointsTo(needs, FirstOf(needs))
  BY <1>1, FirstIsListed
<1>3. PointsTo(needs, at) /\ at \in ParaIds \union {None}
  BY <1>1, <1>2 DEF PointsTo
<1>4. queues \in [DOMAIN queues -> Seq(Weights)]
  BY DEF QueuesOK
<1> HIDE DEF at
<1>5. s = [list |-> needs, at |-> at, cache |-> queues, used |-> 0, over |-> <<>>,
           stop |-> FALSE]
  BY DEF NeedsDispatchCursor, at
<1>6. s \in LoopState
  BY <1>1, <1>3, <1>4, <1>5 DEF LoopState
<1>7. s.list = needs /\ s.at = at /\ s.cache = queues
  BY <1>5
<1> HIDE DEF s
<1>8. CacheExact(s)
  <2>1. \A p \in DOMAIN queues : Left(queues[p], s.cache[p])
    BY <1>7, LeftAtFirst DEF QueuesOK
  <2>2. s.list = {p \in DOMAIN queues : s.cache[p] # <<>>}
    BY <1>1, <1>7 DEF QueuesOK
  <2> QED BY <2>1, <2>2 DEF CacheExact
<1>9. PointsTo(s.list, s.at)
  BY <1>3, <1>7
<1>10. s \in Cursors
  BY <1>6, <1>8, <1>9 DEF Cursors
<1> QED BY <1>10 DEF s

\* The end of a turn: the para under the cursor leaves the list if nothing of its
\* queue is left, and the cursor moves on.
Goes(t, p) == IF GetOr(t.cache, p, <<>>) = <<>> THEN remove(t) ELSE advance(t)

\* A turn that took a message, or none, ends in one of the states again.
LEMMA GoesOnListed ==
    ASSUME QueuesOK, NEW t \in LoopState, t.at \in DOMAIN queues, t.at \in t.list,
           \A p \in DOMAIN queues : Left(queues[p], t.cache[p]),
           \A p \in DOMAIN queues : p # t.at => (p \in t.list <=> t.cache[p] # <<>>),
           t.list \subseteq DOMAIN queues
    PROVE  Goes(t, t.at) \in Cursors
<1> DEFINE p == t.at
<1>0. /\ t = [list |-> t.list, at |-> t.at, cache |-> t.cache, used |-> t.used,
              over |-> t.over, stop |-> t.stop]
      /\ t.list \in SUBSET ParaIds /\ t.at \in ParaIds \union {None}
      /\ t.cache \in [DOMAIN queues -> Seq(Weights)] /\ t.used \in Nat
      /\ t.over \in Seq(ParaIds) /\ t.stop \in BOOLEAN
  BY DEF LoopState
<1>1. GetOr(t.cache, p, <<>>) = t.cache[p]
  BY <1>0 DEF GetOr
<1>2. CASE t.cache[p] = <<>>
  <2> DEFINE l == t.list \ {p}
             a == Following(l, p)
             u == remove(t)
  <2>1. PointsTo(l, a) /\ l \in SUBSET ParaIds
    BY <1>0, FollowingIsListed
  <2>2. a \in ParaIds \union {None}
    BY <2>1 DEF PointsTo
  <2> HIDE DEF a
  <2>3. u = [list |-> l, at |-> a, cache |-> t.cache, used |-> t.used,
             over |-> t.over, stop |-> t.stop]
    <3>1. u = [t EXCEPT !.list = l, !.at = a]
      BY DEF remove, a
    <3> HIDE DEF l, u
    <3> QED BY <1>0, <3>1
  <2> HIDE DEF l, u
  <2>4. u \in LoopState
    BY <1>0, <2>1, <2>2, <2>3 DEF LoopState
  <2>5. u.list = l /\ u.at = a /\ u.cache = t.cache
    BY <2>3
  <2>6. l = {q \in DOMAIN queues : t.cache[q] # <<>>}
    BY <1>2 DEF l
  <2>7. CacheExact(u)
    BY <2>5, <2>6 DEF CacheExact
  <2>8. u \in Cursors
    BY <2>1, <2>4, <2>5, <2>7 DEF Cursors
  <2>9. Goes(t, p) = u
    BY <1>1, <1>2 DEF Goes, u
  <2> QED BY <2>8, <2>9
<1>3. CASE t.cache[p] # <<>>
  <2> DEFINE a == Following(t.list, p)
             u == advance(t)
  <2>1. PointsTo(t.list, a)
    BY <1>0, FollowingIsListed
  <2>2. a \in ParaIds \union {None}
    BY <1>0, <2>1 DEF PointsTo
  <2> HIDE DEF a
  <2>3. u = [list |-> t.list, at |-> a, cache |-> t.cache, used |-> t.used,
             over |-> t.over, stop |-> t.stop]
    BY <1>0 DEF advance, a
  <2> HIDE DEF u
  <2>4. u \in LoopState
    BY <1>0, <2>2, <2>3 DEF LoopState
  <2>5. u.list = t.list /\ u.at = a /\ u.cache = t.cache
    BY <2>3
  <2>6. t.list = {q \in DOMAIN queues : t.cache[q] # <<>>}
    BY <1>3
  <2>7. CacheExact(u)
    BY <2>5, <2>6 DEF CacheExact
  <2>8. u \in Cursors
    BY <2>1, <2>4, <2>5, <2>7 DEF Cursors
  <2>9. Goes(t, p) = u
    BY <1>1, <1>3 DEF Goes, u
  <2> QED BY <2>8, <2>9
<1> QED BY <1>2, <1>3

\* A turn that takes the first message of a queue, and uses or stashes it.
LEMMA TakesMessage ==
    ASSUME QueuesOK, NEW s \in Cursors, s.at \in DOMAIN queues, s.cache[s.at] # <<>>,
           NEW used \in Nat, NEW over \in Seq(ParaIds), NEW t,
           t = [s EXCEPT !.cache = [@ EXCEPT ![s.at] = Tail(s.cache[s.at])],
                         !.used = used, !.over = over]
    PROVE  Goes(t, s.at) \in Cursors
<1> DEFINE p == s.at
           c == [s.cache EXCEPT ![p] = Tail(s.cache[p])]
<1>0. /\ s = [list |-> s.list, at |-> s.at, cache |-> s.cache, used |-> s.used,
              over |-> s.over, stop |-> s.stop]
      /\ s.list \in SUBSET ParaIds /\ s.at \in ParaIds \union {None}
      /\ s.cache \in [DOMAIN queues -> Seq(Weights)] /\ s.stop \in BOOLEAN
      /\ s.list = {q \in DOMAIN queues : s.cache[q] # <<>>}
      /\ \A q \in DOMAIN queues : Left(queues[q], s.cache[q])
  BY DEF Cursors, LoopState, CacheExact
<1>1. Tail(s.cache[p]) \in Seq(Weights) /\ Left(queues[p], Tail(s.cache[p]))
  <2>1. queues[p] \in Seq(Weights) /\ s.cache[p] \in Seq(Weights)
    BY <1>0 DEF QueuesOK
  <2> QED BY <1>0, <2>1, LeftAfter
<1>2. /\ c \in [DOMAIN queues -> Seq(Weights)] /\ c[p] = Tail(s.cache[p])
      /\ \A q \in DOMAIN queues : q # p => c[q] = s.cache[q]
  BY <1>0, <1>1
<1> HIDE DEF c
<1>3. t = [list |-> s.list, at |-> p, cache |-> c, used |-> used, over |-> over,
           stop |-> s.stop]
  BY <1>0 DEF c
<1>4. t \in LoopState
  BY <1>0, <1>2, <1>3 DEF LoopState
<1>5. t.list = s.list /\ t.at = p /\ t.cache = c
  BY <1>0 DEF c
<1>6. \A q \in DOMAIN queues : Left(queues[q], t.cache[q])
  BY <1>0, <1>1, <1>2, <1>5
<1>7. \A q \in DOMAIN queues : q # t.at => (q \in t.list <=> t.cache[q] # <<>>)
  BY <1>0, <1>2, <1>5
<1>8. t.at \in t.list /\ t.list \subseteq DOMAIN queues /\ t.at \in DOMAIN queues
  BY <1>0, <1>5
<1>9. Goes(t, t.at) \in Cursors
  BY <1>4, <1>6, <1>7, <1>8, GoesOnListed
<1> QED BY <1>5, <1>9

\* The loop stops.
LEMMA StopsListed ==
    ASSUME NEW s \in Cursors
    PROVE  [s EXCEPT !.stop = TRUE] \in Cursors
<1> DEFINE t == [s EXCEPT !.stop = TRUE]
<1>1. /\ t \in LoopState
      /\ t.list = s.list /\ t.at = s.at /\ t.cache = s.cache
  BY DEF Cursors, LoopState
<1>2. CacheExact(s) /\ PointsTo(s.list, s.at)
  BY DEF Cursors
<1> HIDE DEF t
<1>3. CacheExact(t) /\ PointsTo(t.list, t.at)
  BY <1>1, <1>2 DEF CacheExact
<1>4. t \in Cursors
  BY <1>1, <1>3 DEF Cursors
<1> QED BY <1>4 DEF t

\* Every turn of the loop leads from one of its states to another.
LEMMA TurnListed ==
    ASSUME QueuesOK, NEW s \in Cursors
    PROVE  DispatchOne(s) \in Cursors
<1> DEFINE p == s.at
           q == GetOr(s.cache, p, <<>>)
           consumed == [s EXCEPT !.cache[p] = Tail(q)]
           t1 == [consumed EXCEPT !.used = @ + Head(q)]
           t2 == [consumed EXCEPT !.over = Append(@, p)]
<1>1. CASE s.stop \/ p = None \/ s.used >= ServiceWeight
  <2>1. DispatchOne(s) = [s EXCEPT !.stop = TRUE]
    BY <1>1 DEF DispatchOne
  <2> QED BY <2>1, StopsListed
<1>2. CASE ~(s.stop \/ p = None \/ s.used >= ServiceWeight)
  <2>0. /\ s = [list |-> s.list, at |-> s.at, cache |-> s.cache, used |-> s.used,
                over |-> s.over, stop |-> s.stop]
        /\ s.cache \in [DOMAIN queues -> Seq(Weights)] /\ s.used \in Nat
        /\ s.over \in Seq(ParaIds)
        /\ s.list = {r \in DOMAIN queues : s.cache[r] # <<>>}
        /\ PointsTo(s.list, s.at)
    BY DEF Cursors, LoopState, CacheExact
  <2>1. p \in DOMAIN queues /\ s.cache[p] # <<>> /\ p \in ParaIds
    BY <1>2, <2>0 DEF PointsTo, QueuesOK
  <2>2. q = s.cache[p] /\ q # <<>> /\ q \in Seq(Weights)
    BY <2>0, <2>1 DEF GetOr
  <2> HIDE DEF q
  <2>3. Head(q) \in Nat
    <3>1. Head(q) \in Weights
      BY <2>2
    <3> QED BY <3>1, UmpAssumption
  <2>4. Goes(t1, p) \in Cursors
    <3>1. t1 = [s EXCEPT !.cache = [@ EXCEPT ![s.at] = Tail(q)],
                         !.used = s.used + Head(q), !.over = s.over]
      BY <2>0
    <3>2. s.used + Head(q) \in Nat
      BY <2>0, <2>3
    <3> DEFINE u == s.used + Head(q)
    <3> HIDE DEF t1, u
    <3>3. t1 = [s EXCEPT !.cache = [@ EXCEPT ![s.at] = Tail(s.cache[s.at])],
                         !.used = u, !.over = s.over]
      BY <2>2, <3>1 DEF u
    <3> QED BY <2>0, <2>1, <3>2, <3>3, TakesMessage DEF u
  <2>5. Goes(t2, p) \in Cursors
    <3> DEFINE v == Append(s.over, p)
    <3>1. t2 = [s EXCEPT !.cache = [@ EXCEPT ![s.at] = Tail(q)],
                         !.used = s.used, !.over = v]
      BY <2>0
    <3>2. v \in Seq(ParaIds)
      BY <2>0, <2>1
    <3> HIDE DEF t2, v
    <3>3. t2 = [s EXCEPT !.cache = [@ EXCEPT ![s.at] = Tail(s.cache[s.at])],
                         !.used = s.used, !.over = v]
      BY <2>2, <3>1
    <3> QED BY <2>0, <2>1, <3>2, <3>3, TakesMessage
  <2>6. \/ DispatchOne(s) = Goes(t1, p)
        \/ DispatchOne(s) = Goes(t2, p)
        \/ DispatchOne(s) = [s EXCEPT !.stop = TRUE]
    <3>1. DispatchOne(s) =
            CASE q # <<>> /\ Head(q) <= max_weight(s) -> Goes(t1, p)
              [] q # <<>> /\ Head(q) > max_weight(s) /\ Head(q) > MaxIndividual ->
                     Goes(t2, p)
              [] OTHER -> [s EXCEPT !.stop = TRUE]
      BY <1>2, <2>2 DEF DispatchOne, Goes, q
    <3> QED BY <3>1
  <2> HIDE DEF t1, t2
  <2> QED BY <2>4, <2>5, <2>6, StopsListed
<1> QED BY <1>1, <1>2

\* So the loop stays in them.
LEMMA DispatchListed ==
    ASSUME QueuesOK, next \in ParaIds \union {None}
    PROVE  Dispatch \in [Nat -> Cursors]
<1> DEFINE F == [d \in Nat \X Cursors |-> DispatchOne(d[2])]
           x == NeedsDispatchCursor
<1>1. F \in TurnsIn(Cursors)
  BY TurnListed DEF TurnsIn
<1>2. x \in Cursors
  BY CursorFirst
<1> HIDE DEF x
<1>3. PICK r : IsLoop(r, Cursors, F, x)
  <2> HIDE DEF F
  <2> QED BY <1>1, <1>2, LoopExists
<1>4. /\ r \in [Nat -> Cursors] /\ r[0] = x
      /\ \A n \in Nat : r[n + 1] = DispatchOne(r[n])
  BY <1>3 DEF IsLoop
<1>5. r = [n \in Nat |-> IF n = 0 THEN x ELSE DispatchOne(r[n - 1])]
  <2>1. ASSUME NEW n \in Nat, n # 0 PROVE r[n] = DispatchOne(r[n - 1])
    <3>1. n - 1 \in Nat /\ (n - 1) + 1 = n
      BY <2>1
    <3> QED BY <1>4, <3>1
  <2> QED BY <1>4, <2>1
<1>6. Dispatch = [n \in Nat |-> IF n = 0 THEN x ELSE DispatchOne(Dispatch[n - 1])]
  BY <1>5, Zenon DEF Dispatch, x
<1>7. ASSUME NEW n \in Nat PROVE Dispatch[n] \in Cursors
  <2> DEFINE S == {i \in Nat : Dispatch[i] \in Cursors}
  <2>1. 0 \in S
    BY <1>2, <1>6
  <2>2. ASSUME NEW i \in Nat, i \in S PROVE i + 1 \in S
    <3>1. i + 1 \in Nat /\ i + 1 # 0 /\ (i + 1) - 1 = i
      OBVIOUS
    <3>2. Dispatch[i + 1] = DispatchOne(Dispatch[i])
      BY <1>6, <3>1
    <3> QED BY <2>2, <3>1, <3>2, TurnListed
  <2>3. Nat \subseteq S
    <3> HIDE DEF S
    <3> QED BY <2>1, <2>2, NaturalsIn
  <2> QED BY <2>3
<1> QED BY <1>6, <1>7

\* What a block's dispatch makes of the queues.
LEMMA ProcessEffect ==
    ASSUME QueuesOK, next \in ParaIds \union {None}, process_pending_upward_messages
    PROVE  \E s \in Cursors :
              /\ queues' = [p \in s.list |-> s.cache[p]]
              /\ sizes' = [p \in DOMAIN sizes \intersect s.list |->
                             sizes[p] - (Len(queues[p]) - Len(s.cache[p]))]
              /\ needs' = s.list /\ next' = s.at
              /\ overweight' = [i \in DOMAIN overweight
                                       \union (stashed..(stashed + Len(s.over) - 1)) |->
                                  IF i < stashed THEN overweight[i]
                                  ELSE s.over[i - stashed + 1]]
              /\ stashed' = stashed + Len(s.over)
<1> DEFINE s == Dispatch[Turns]
           left == {p \in DOMAIN s.cache : s.cache[p] # <<>>}
<1>1. Turns \in Nat
  <2>1. IsFiniteSet(needs)
    BY UmpAssumption, FS_Subset DEF QueuesOK
  <2>2. Cardinality(needs) \in Nat
    BY <2>1, FS_CardinalityType
  <2>3. \A a, b \in Nat : a * b + 1 \in Nat
    OBVIOUS
  <2> QED BY <2>2, <2>3, UmpAssumption DEF Turns
<1>2. s \in Cursors
  BY <1>1, DispatchListed
<1>3. /\ queues' = [p \in left |-> s.cache[p]]
      /\ sizes' = [p \in DOMAIN sizes \intersect left |->
                     sizes[p] - (Len(queues[p]) - Len(s.cache[p]))]
      /\ needs' = s.list /\ next' = s.at
      /\ overweight' = [i \in DOMAIN overweight
                               \union (stashed..(stashed + Len(s.over) - 1)) |->
                          IF i < stashed THEN overweight[i]
                          ELSE s.over[i - stashed + 1]]
      /\ stashed' = stashed + Len(s.over)
  BY Zenon DEF process_pending_upward_messages
<1> HIDE DEF s
<1>4. left = s.list
  BY <1>2 DEF Cursors, LoopState, CacheExact
<1> HIDE DEF left
<1>5. /\ queues' = [p \in s.list |-> s.cache[p]]
      /\ sizes' = [p \in DOMAIN sizes \intersect s.list |->
                     sizes[p] - (Len(queues[p]) - Len(s.cache[p]))]
  BY <1>3, <1>4
<1> QED BY <1>2, <1>3, <1>5

-----------------------------------------------------------------------------
(* The sizes of the queues.                                                *)

\* A candidate that is pending still fits: it was checked when it was backed, and
\* since then its para's queue has only become shorter.
PendingFits ==
    /\ IsMap(pending, paras, Seq(Weights))
    /\ \A p \in DOMAIN pending : GetOr(sizes, p, 0) + Len(pending[p]) <= MaxQueueCount

UmpInv == TypeOK /\ QueuesOK /\ SizesExact /\ PendingFits /\ stashed \in Nat

\* It holds at first.
LEMMA InitUmp == Init => UmpInv
<1> SUFFICES ASSUME Init PROVE UmpInv
  OBVIOUS
<1>1. DOMAIN EmptyMap = {} /\ EmptyMap = [p \in DOMAIN EmptyMap |-> EmptyMap[p]]
  BY DEF EmptyMap
<1>2. TypeOK
  BY <1>1 DEF Init, TypeOK
<1>3. QueuesOK
  BY <1>1 DEF Init, QueuesOK
<1>4. SizesExact /\ PendingFits /\ stashed \in Nat
  BY <1>1 DEF Init, SizesExact, PendingFits, IsMap
<1> QED BY <1>2, <1>3, <1>4 DEF UmpInv

\* A candidate is backed.
LEMMA BackUmp ==
    ASSUME UmpInv, NEW p \in ParaIds, NEW ms \in Upward, Back(p, ms)
    PROVE  UmpInv'
<1>1. /\ pending' = Put(pending, p, ms) /\ p \in paras
      /\ GetOr(sizes, p, 0) + Len(ms) <= MaxQueueCount
      /\ UNCHANGED <<paras, phase, queues, sizes, needs, next, overweight, stashed>>
  BY DEF Back, check_upward_messages
<1>2. ms \in Seq(Weights)
  <2>1. PICK n \in 0..MaxPerCandidate, W \in SUBSET Weights : ms \in [1..n -> W]
    BY DEF Upward
  <2>2. n \in Nat
    BY <2>1, UmpAssumption
  <2> QED BY <2>1, <2>2
<1>3. /\ DOMAIN Put(pending, p, ms) = DOMAIN pending \union {p}
      /\ Put(pending, p, ms)[p] = ms
      /\ \A q \in DOMAIN pending : q # p => Put(pending, p, ms)[q] = pending[q]
  BY Zenon DEF Put
<1>4. PendingFits'
  BY <1>1, <1>2, <1>3 DEF UmpInv, PendingFits, IsMap
<1>5. TypeOK'
  BY <1>1, <1>3 DEF UmpInv, TypeOK
<1>6. QueuesOK' /\ SizesExact' /\ stashed' \in Nat
  BY <1>1 DEF UmpInv, QueuesOK, SizesExact
<1> QED BY <1>4, <1>5, <1>6 DEF UmpInv

\* Its messages arrive.
LEMMA ReceiveUmp ==
    ASSUME UmpInv, NEW p \in ParaIds, receive_upward_messages(p)
    PROVE  UmpInv'
<1> DEFINE ms == pending[p]
           w == Without(pending, {p})
           q == GetOr(queues, p, <<>>) \o ms
           z == GetOr(sizes, p, 0) + Len(ms)
<1>1. /\ p \in DOMAIN pending /\ pending' = w
      /\ UNCHANGED <<paras, phase, next, overweight, stashed>>
  BY DEF receive_upward_messages
<1>2. /\ DOMAIN w = DOMAIN pending \ {p}
      /\ \A r \in DOMAIN w : w[r] = pending[r]
  BY Zenon DEF Without
<1>3. p \in paras /\ ms \in Seq(Weights) /\ z <= MaxQueueCount
  BY <1>1 DEF UmpInv, PendingFits, IsMap
<1> HIDE DEF w
<1>4. IsMap(w, paras, Seq(Weights))
  BY <1>2 DEF UmpInv, PendingFits, IsMap
<1>5. CASE ms = <<>>
  <2>1. UNCHANGED <<queues, sizes, needs>>
    BY <1>5 DEF receive_upward_messages
  <2>2. PendingFits'
    BY <1>1, <1>2, <1>4, <2>1 DEF UmpInv, PendingFits
  <2>3. TypeOK'
    BY <1>1, <1>2, <2>1 DEF UmpInv, TypeOK
  <2>4. QueuesOK' /\ SizesExact' /\ stashed' \in Nat
    BY <1>1, <2>1 DEF UmpInv, QueuesOK, SizesExact
  <2> QED BY <2>2, <2>3, <2>4 DEF UmpInv
<1>6. CASE ms # <<>>
  <2>1. /\ queues' = Put(queues, p, q) /\ sizes' = Put(sizes, p, z)
        /\ needs' = needs \union {p}
    BY <1>6 DEF receive_upward_messages
  <2>2. /\ DOMAIN Put(queues, p, q) = DOMAIN queues \union {p}
        /\ Put(queues, p, q)[p] = q
        /\ \A r \in DOMAIN queues : r # p => Put(queues, p, q)[r] = queues[r]
        /\ Put(queues, p, q)
              = [r \in DOMAIN queues \union {p} |-> IF r = p THEN q ELSE queues[r]]
    BY Zenon DEF Put
  <2>3. /\ DOMAIN Put(sizes, p, z) = DOMAIN sizes \union {p}
        /\ Put(sizes, p, z)[p] = z
        /\ \A r \in DOMAIN sizes : r # p => Put(sizes, p, z)[r] = sizes[r]
    BY Zenon DEF Put
  <2>4. q \in Seq(Weights) /\ Len(q) = z /\ z \in 1..MaxQueueCount
    <3> DEFINE a == GetOr(queues, p, <<>>)
    <3>1. a \in Seq(Weights) /\ GetOr(sizes, p, 0) = Len(a)
      BY DEF UmpInv, SizesExact, QueuesOK, GetOr
    <3> HIDE DEF a, ms
    <3>2. a \o ms \in Seq(Weights) /\ Len(a \o ms) = Len(a) + Len(ms) /\ Len(ms) > 0
      BY <1>3, <1>6, <3>1
    <3> QED BY <1>3, <3>1, <3>2, UmpAssumption DEF a
  <2> HIDE DEF q, z, ms
  <2>5. \A r \in DOMAIN w : GetOr(sizes', r, 0) = GetOr(sizes, r, 0)
    BY <1>2, <2>1, <2>3 DEF GetOr
  <2>6. PendingFits'
    BY <1>1, <1>2, <1>4, <2>5 DEF UmpInv, PendingFits
  <2>7. SizesExact'
    BY <2>1, <2>2, <2>3, <2>4 DEF UmpInv, SizesExact
  <2>8. QueuesOK'
    <3>1. q # <<>>
      BY <2>4
    <3>2. DOMAIN queues' = DOMAIN queues \union {p} /\ DOMAIN queues' \subseteq ParaIds
      BY <2>1, <2>2 DEF UmpInv, QueuesOK
    <3>3. \A r \in DOMAIN queues' : queues'[r] \in Seq(Weights) /\ queues'[r] # <<>>
      BY <2>1, <2>2, <2>4, <3>1 DEF UmpInv, QueuesOK
    <3>4. needs' = DOMAIN queues'
      BY <2>1, <3>2 DEF UmpInv, QueuesOK
    <3>5. queues' = [r \in DOMAIN queues' |-> queues'[r]]
      BY <2>1, <2>2
    <3> QED BY <3>2, <3>3, <3>4, <3>5 DEF QueuesOK
  <2>9. TypeOK'
    <3>1. \A r \in DOMAIN queues' : r \in paras' /\ queues'[r] \in Seq(Weights)
      BY <1>1, <1>3, <2>1, <2>2, <2>4 DEF UmpInv, TypeOK
    <3>2. \A r \in DOMAIN sizes' : r \in paras' /\ sizes'[r] \in Nat
      BY <1>1, <1>3, <2>1, <2>3, <2>4 DEF UmpInv, TypeOK
    <3> QED BY <1>1, <1>2, <1>3, <2>1, <3>1, <3>2 DEF UmpInv, TypeOK
  <2> QED BY <1>1, <2>6, <2>7, <2>8, <2>9 DEF UmpInv
<1> QED BY <1>5, <1>6

\* It leaves without them.
LEMMA DroppedUmp ==
    ASSUME UmpInv, NEW p \in ParaIds, Dropped(p)
    PROVE  UmpInv'
<1>1. /\ pending' = Without(pending, {p})
      /\ UNCHANGED <<paras, phase, queues, sizes, needs, next, overweight, stashed>>
  BY DEF Dropped
<1>2. /\ DOMAIN Without(pending, {p}) = DOMAIN pending \ {p}
      /\ \A r \in DOMAIN pending \ {p} : Without(pending, {p})[r] = pending[r]
  BY Zenon DEF Without
<1>3. PendingFits'
  BY <1>1, <1>2 DEF UmpInv, PendingFits, IsMap
<1>4. TypeOK'
  BY <1>1, <1>2 DEF UmpInv, TypeOK
<1>5. QueuesOK' /\ SizesExact' /\ stashed' \in Nat
  BY <1>1 DEF UmpInv, QueuesOK, SizesExact
<1> QED BY <1>3, <1>4, <1>5 DEF UmpInv

\* What is left of a queue is no longer than the queue.
LEMMA LeftShorter ==
    ASSUME NEW W, NEW q \in Seq(W), NEW c \in Seq(W), Left(q, c)
    PROVE  Len(c) <= Len(q)
<1>1. PICK n \in 0..Len(q) : c = SubSeq(q, n + 1, Len(q))
  BY DEF Left
<1> QED BY <1>1

\* A block dispatches.
LEMMA ProcessUmp ==
    ASSUME UmpInv, process_pending_upward_messages
    PROVE  UmpInv'
<1>1. QueuesOK /\ next \in ParaIds \union {None}
  BY DEF UmpInv, TypeOK
<1>2. PICK s \in Cursors :
        /\ queues' = [p \in s.list |-> s.cache[p]]
        /\ sizes' = [p \in DOMAIN sizes \intersect s.list |->
                       sizes[p] - (Len(queues[p]) - Len(s.cache[p]))]
        /\ needs' = s.list /\ next' = s.at
        /\ overweight' = [i \in DOMAIN overweight
                                 \union (stashed..(stashed + Len(s.over) - 1)) |->
                            IF i < stashed THEN overweight[i]
                            ELSE s.over[i - stashed + 1]]
        /\ stashed' = stashed + Len(s.over)
  BY <1>1, ProcessEffect
<1>3. /\ s.list = {p \in DOMAIN queues : s.cache[p] # <<>>}
      /\ s.at \in ParaIds \union {None} /\ s.over \in Seq(ParaIds)
      /\ s.cache \in [DOMAIN queues -> Seq(Weights)]
      /\ \A p \in DOMAIN queues : Left(queues[p], s.cache[p])
  BY DEF Cursors, LoopState, CacheExact
<1>4. UNCHANGED <<paras, pending>> /\ phase' \in {"candidates", "end"}
  BY DEF process_pending_upward_messages
<1>5. DOMAIN sizes = DOMAIN queues /\ needs = DOMAIN queues
  BY DEF UmpInv, SizesExact
<1>6. ASSUME NEW p \in s.list
      PROVE  /\ sizes[p] = Len(queues[p]) /\ s.cache[p] \in Seq(Weights)
             /\ s.cache[p] # <<>> /\ p \in DOMAIN queues
             /\ sizes[p] - (Len(queues[p]) - Len(s.cache[p])) = Len(s.cache[p])
             /\ Len(s.cache[p]) \in 1..MaxQueueCount /\ Len(s.cache[p]) <= sizes[p]
  <2>1. /\ sizes[p] = Len(queues[p]) /\ queues[p] \in Seq(Weights)
        /\ sizes[p] <= MaxQueueCount /\ s.cache[p] \in Seq(Weights)
        /\ s.cache[p] # <<>> /\ Left(queues[p], s.cache[p])
    BY <1>3 DEF UmpInv, SizesExact, QueuesOK
  <2>2. Len(s.cache[p]) <= Len(queues[p])
    BY <2>1, LeftShorter
  <2>3. Len(queues[p]) \in Nat /\ Len(s.cache[p]) \in Nat /\ Len(s.cache[p]) > 0
    BY <2>1
  <2> QED BY <1>3, <2>1, <2>2, <2>3, UmpAssumption
<1>7. /\ DOMAIN queues' = s.list /\ DOMAIN sizes' = s.list
      /\ \A p \in s.list : queues'[p] = s.cache[p] /\ sizes'[p] = Len(s.cache[p])
  BY <1>2, <1>3, <1>5, <1>6
<1>8. SizesExact'
  BY <1>2, <1>6, <1>7 DEF SizesExact
<1>9. QueuesOK'
  <2>1. queues' = [p \in DOMAIN queues' |-> queues'[p]]
    BY <1>2
  <2> QED BY <1>2, <1>3, <1>6, <1>7, <2>1 DEF QueuesOK, UmpInv
<1>10. PendingFits'
  <2>1. ASSUME NEW p \in DOMAIN pending
        PROVE  GetOr(sizes', p, 0) + Len(pending[p]) <= MaxQueueCount
    <3>1. /\ GetOr(sizes, p, 0) + Len(pending[p]) <= MaxQueueCount
          /\ pending[p] \in Seq(Weights)
      BY DEF UmpInv, PendingFits, IsMap
    <3>2. GetOr(sizes, p, 0) \in Nat /\ GetOr(sizes', p, 0) \in Nat
          /\ GetOr(sizes', p, 0) <= GetOr(sizes, p, 0)
      <4>1. CASE p \in s.list
        <5>1. sizes[p] \in Nat /\ Len(s.cache[p]) \in Nat
          BY <4>1, <1>3, <1>5 DEF UmpInv, TypeOK
        <5> QED BY <4>1, <5>1, <1>5, <1>6, <1>7 DEF GetOr
      <4>2. CASE p \notin s.list
        BY <4>2, <1>7 DEF GetOr, UmpInv, TypeOK
      <4> QED BY <4>1, <4>2
    <3>3. Len(pending[p]) \in Nat
      BY <3>1
    <3> QED BY <3>1, <3>2, <3>3, UmpAssumption
  <2>2. IsMap(pending', paras', Seq(Weights))
    BY <1>4 DEF UmpInv, PendingFits
  <2> QED BY <1>4, <2>1, <2>2 DEF PendingFits
<1>11. stashed' \in Nat /\ DOMAIN overweight' \subseteq 0..(stashed' - 1)
  <2>1. stashed \in Nat /\ Len(s.over) \in Nat
        /\ DOMAIN overweight \subseteq 0..(stashed - 1)
    BY <1>3 DEF UmpInv, TypeOK
  <2>2. DOMAIN overweight' = DOMAIN overweight
                                \union (stashed..(stashed + Len(s.over) - 1))
    BY <1>2
  <2> QED BY <1>2, <2>1, <2>2
<1>12. TypeOK'
  <2>1. \A p \in DOMAIN queues' : p \in paras' /\ queues'[p] \in Seq(Weights)
    BY <1>4, <1>6, <1>7 DEF UmpInv, TypeOK
  <2>2. \A p \in DOMAIN sizes' : p \in paras' /\ sizes'[p] \in Nat
    <3>1. \A p \in s.list : Len(s.cache[p]) \in Nat
      BY <1>6, UmpAssumption
    <3>2. \A p \in s.list : p \in paras'
      BY <1>7, <2>1
    <3> QED BY <1>7, <3>1, <3>2
  <2>3. needs' \subseteq paras' /\ next' \in ParaIds \union {None}
    BY <1>2, <1>3, <1>4, <1>5 DEF UmpInv, TypeOK
  <2> QED BY <1>4, <1>11, <2>1, <2>2, <2>3 DEF UmpInv, TypeOK
<1> QED BY <1>8, <1>9, <1>10, <1>11, <1>12 DEF UmpInv

\* A session ends and p is offboarded.
LEMMA SessionUmp ==
    ASSUME UmpInv, NEW p \in ParaIds, NewSession(p)
    PROVE  UmpInv'
<1>1. /\ paras' = paras \ {p} /\ phase' = "candidates" /\ pending' = EmptyMap
      /\ queues' = Without(queues, {p}) /\ sizes' = Without(sizes, {p})
      /\ needs' = needs \ {p} /\ next' \in {next, None}
      /\ UNCHANGED <<overweight, stashed>>
  BY DEF NewSession, clean_ump_after_outgoing
<1>2. /\ DOMAIN Without(queues, {p}) = DOMAIN queues \ {p}
      /\ DOMAIN Without(sizes, {p}) = DOMAIN sizes \ {p}
      /\ \A r \in DOMAIN queues \ {p} : Without(queues, {p})[r] = queues[r]
      /\ \A r \in DOMAIN sizes \ {p} : Without(sizes, {p})[r] = sizes[r]
      /\ Without(queues, {p}) = [r \in DOMAIN queues \ {p} |-> queues[r]]
      /\ DOMAIN EmptyMap = {}
  BY Zenon DEF Without, EmptyMap
<1>3. SizesExact'
  BY <1>1, <1>2 DEF UmpInv, SizesExact
<1>4. PendingFits'
  BY <1>1, <1>2 DEF PendingFits, IsMap
<1>5. QueuesOK'
  <2>1. queues' = [r \in DOMAIN queues' |-> queues'[r]]
    BY <1>1, <1>2
  <2> QED BY <1>1, <1>2, <2>1 DEF UmpInv, QueuesOK
<1>6. TypeOK' /\ stashed' \in Nat
  BY <1>1, <1>2 DEF UmpInv, TypeOK
<1> QED BY <1>3, <1>4, <1>5, <1>6 DEF UmpInv

\* The invariant is inductive.
LEMMA UmpInductive == Spec => []UmpInv
<1>1. UmpInv /\ [Next]_vars => UmpInv'
  <2> SUFFICES ASSUME UmpInv, [Next]_vars PROVE UmpInv'
    OBVIOUS
  <2>1. ASSUME NEW i \in DOMAIN overweight, service_overweight(i) PROVE UmpInv'
    <3>1. /\ overweight' = Without(overweight, {i})
          /\ UNCHANGED <<paras, phase, pending, queues, sizes, needs, next, stashed>>
      BY <2>1 DEF service_overweight
    <3>2. DOMAIN Without(overweight, {i}) = DOMAIN overweight \ {i}
      BY Zenon DEF Without
    <3>3. TypeOK'
      BY <3>1, <3>2 DEF UmpInv, TypeOK
    <3> QED BY <3>1, <3>3 DEF UmpInv, QueuesOK, SizesExact, PendingFits
  <2>2. CASE EndBlock
    BY <2>2 DEF EndBlock, UmpInv, TypeOK, QueuesOK, SizesExact, PendingFits
  <2>3. CASE UNCHANGED vars
    BY <2>3 DEF vars, UmpInv, TypeOK, QueuesOK, SizesExact, PendingFits
  <2> QED
    BY <2>1, <2>2, <2>3, BackUmp, ReceiveUmp, DroppedUmp, ProcessUmp, SessionUmp DEF Next
<1> QED BY <1>1, InitUmp, PTL DEF Spec

\* The storage of the pallet keeps its types, and nothing but stashed messages
\* outlives a para (ump.rs, perform_outgoing_para_cleanup).
THEOREM TypesKept == Spec => []TypeOK
<1>1. UmpInv => TypeOK
  BY DEF UmpInv
<1> QED BY <1>1, UmpInductive, PTL

\* Whatever is dispatched, stashed, accepted and cleaned up, RelayDispatchQueueSize
\* and NeedsDispatch agree with the queues, and no queue exceeds its limit although
\* candidates are checked long before their messages arrive.
THEOREM SizesStayExact == Spec => []SizesExact
<1>1. UmpInv => SizesExact
  BY DEF UmpInv
<1> QED BY <1>1, UmpInductive, PTL

-----------------------------------------------------------------------------
(* The queue of a para is a Fifo.                                          *)

Queue(p) == INSTANCE Fifo WITH Messages <- Weights, queue <- Waiting(p)

\* What is left of a queue is a delivery from its front, or the whole of it.
LEMMA LeftDelivers ==
    ASSUME NEW p, Waiting(p) \in Seq(Weights), Left(Waiting(p), Waiting(p)')
    PROVE  [Queue(p)!Next]_(Waiting(p))
<1>1. PICK n \in 0..Len(Waiting(p)) :
          Waiting(p)' = SubSeq(Waiting(p), n + 1, Len(Waiting(p)))
  BY DEF Left
<1>2. CASE n = 0
  <2>1. SubSeq(Waiting(p), 0 + 1, Len(Waiting(p))) = Waiting(p)
    OBVIOUS
  <2> QED BY <1>1, <1>2, <2>1
<1>3. CASE n # 0
  <2>1. Len(Waiting(p)) \in Nat /\ (Waiting(p) = <<>> => Len(Waiting(p)) = 0)
    OBVIOUS
  <2>2. n \in 1..Len(Waiting(p)) /\ Waiting(p) # <<>>
    BY <1>3, <2>1
  <2> QED BY <1>1, <2>2 DEF Queue!Next, Queue!Deliver
<1> QED BY <1>2, <1>3

\* The queue of a para with something appended to it has accepted that.
LEMMA AppendAccepts ==
    ASSUME NEW p, NEW ms \in Seq(Weights), ms # <<>>, Waiting(p) \in Seq(Weights),
           Waiting(p)' = Waiting(p) \o ms
    PROVE  [Queue(p)!Next]_(Waiting(p))
<1> DEFINE q == Waiting(p)
           a == q \o ms
<1>1. Len(q) \in Nat /\ Len(ms) \in Nat /\ Len(ms) > 0 /\ Len(a) = Len(q) + Len(ms)
      /\ a \in Seq(Weights)
  OBVIOUS
<1>2. SubSeq(a, Len(q) + 1, Len(a)) = ms
  <2>1. Len(SubSeq(a, Len(q) + 1, Len(a))) = Len(ms)
    BY <1>1
  <2>2. SubSeq(a, Len(q) + 1, Len(a)) \in Seq(Weights)
    BY <1>1
  <2>3. \A i \in 1..Len(ms) : SubSeq(a, Len(q) + 1, Len(a))[i] = ms[i]
    BY <1>1
  <2> QED BY <2>1, <2>2, <2>3
<1>3. /\ Len(Waiting(p)') > Len(Waiting(p))
      /\ Waiting(p)' = Waiting(p) \o SubSeq(Waiting(p)', Len(Waiting(p)) + 1, Len(Waiting(p)'))
  BY <1>1, <1>2
<1> QED BY <1>3 DEF Queue!Next, Queue!Accept

\* Every step is one of the queue of p or leaves it alone.
LEMMA StepOfQueue ==
    ASSUME UmpInv, [Next]_vars, NEW p \in ParaIds
    PROVE  [Queue(p)!Next]_(Waiting(p))
<1>1. Waiting(p) \in Seq(Weights)
  BY DEF UmpInv, TypeOK, Waiting, GetOr
<1>2. ASSUME queues' = queues PROVE [Queue(p)!Next]_(Waiting(p))
  BY <1>2 DEF Waiting
<1>3. ASSUME NEW r \in ParaIds, receive_upward_messages(r)
      PROVE  [Queue(p)!Next]_(Waiting(p))
  <2> DEFINE ms == pending[r]
             q == GetOr(queues, r, <<>>) \o ms
  <2>1. r \in DOMAIN pending /\ ms \in Seq(Weights)
    BY <1>3 DEF receive_upward_messages, UmpInv, PendingFits, IsMap
  <2>2. CASE ms = <<>>
    BY <1>2, <1>3, <2>2 DEF receive_upward_messages
  <2>3. CASE ms # <<>>
    <3>1. queues' = Put(queues, r, q)
      BY <1>3, <2>3 DEF receive_upward_messages
    <3>2. /\ DOMAIN Put(queues, r, q) = DOMAIN queues \union {r}
          /\ Put(queues, r, q)[r] = q
          /\ \A x \in DOMAIN queues : x # r => Put(queues, r, q)[x] = queues[x]
      BY Zenon DEF Put
    <3>3. CASE p = r
      <4>1. Waiting(p)' = Waiting(p) \o ms
        BY <3>1, <3>2, <3>3 DEF Waiting, GetOr
      <4> HIDE DEF ms
      <4> QED BY <1>1, <2>1, <2>3, <4>1, AppendAccepts
    <3>4. CASE p # r
      <4>1. Waiting(p)' = Waiting(p)
        BY <3>1, <3>2, <3>4 DEF Waiting, GetOr
      <4> QED BY <4>1
    <3> QED BY <3>3, <3>4
  <2> QED BY <2>2, <2>3
<1>4. ASSUME process_pending_upward_messages PROVE [Queue(p)!Next]_(Waiting(p))
  <2>1. PICK s \in Cursors : queues' = [x \in s.list |-> s.cache[x]]
    BY <1>4, ProcessEffect DEF UmpInv, TypeOK
  <2>2. /\ s.list = {x \in DOMAIN queues : s.cache[x] # <<>>}
        /\ s.cache \in [DOMAIN queues -> Seq(Weights)]
        /\ \A x \in DOMAIN queues : Left(queues[x], s.cache[x])
    BY DEF Cursors, LoopState, CacheExact
  <2>3. CASE p \in DOMAIN queues
    <3>1. Waiting(p) = queues[p] /\ Waiting(p)' = s.cache[p]
      BY <2>1, <2>2, <2>3 DEF Waiting, GetOr
    <3>2. Left(Waiting(p), Waiting(p)')
      BY <2>2, <2>3, <3>1
    <3> QED BY <1>1, <3>2, LeftDelivers
  <2>4. CASE p \notin DOMAIN queues
    <3>1. Waiting(p) = <<>> /\ Waiting(p)' = <<>>
      BY <2>1, <2>2, <2>4 DEF Waiting, GetOr
    <3> QED BY <3>1
  <2> QED BY <2>3, <2>4
<1>5. ASSUME NEW r \in ParaIds, NewSession(r) PROVE [Queue(p)!Next]_(Waiting(p))
  <2>1. queues' = Without(queues, {r})
    BY <1>5 DEF NewSession, clean_ump_after_outgoing
  <2>2. /\ DOMAIN Without(queues, {r}) = DOMAIN queues \ {r}
        /\ \A x \in DOMAIN queues \ {r} : Without(queues, {r})[x] = queues[x]
    BY Zenon DEF Without
  <2>3. Waiting(p)' = Waiting(p) \/ Waiting(p)' = <<>>
    BY <2>1, <2>2 DEF Waiting, GetOr
  <2> QED BY <2>3 DEF Queue!Next, Queue!Drop
<1>6. ASSUME NEW r \in ParaIds, NEW ms, Back(r, ms) \/ Dropped(r)
      PROVE  queues' = queues
  BY <1>6 DEF Back, Dropped
<1>7. ASSUME NEW i, service_overweight(i) \/ EndBlock \/ UNCHANGED vars
      PROVE  queues' = queues
  BY <1>7 DEF service_overweight, EndBlock, vars
<1> QED BY <1>2, <1>3, <1>4, <1>5, <1>6, <1>7 DEF Next

\* Upward messages of a para are dispatched from the front of its queue, in order,
\* none lost or repeated, unless the para is offboarded, whichever others are
\* dispatched, stashed or dropped in between (process_pending_upward_messages).
THEOREM UpwardQueuesAreFifo == ASSUME NEW p \in ParaIds PROVE Spec => Queue(p)!Safe
<1>1. Init => Queue(p)!Init
  BY DEF Init, Queue!Init, Waiting, GetOr, EmptyMap
<1>2. UmpInv /\ [Next]_vars => [Queue(p)!Next]_(Waiting(p))
  BY StepOfQueue
<1> QED BY <1>1, <1>2, UmpInductive, PTL DEF Spec, Queue!Safe

=============================================================================
