--------------------------- MODULE SchedulerProofs ---------------------------
(***************************************************************************)
(* Theorems about Scheduler: claims, cores and groups agree, whatever the  *)
(* sessions bring.                                                         *)
(***************************************************************************)
EXTENDS Scheduler, LoopTheorems, FiniteSetTheorems

-----------------------------------------------------------------------------
(* Sets of cores, positions and groups.                                    *)

Bounded(T) == T \subseteq Nat /\ \E b \in Nat : \A k \in T : k <= b

\* Cores below a limit are bounded.
LEMMA BelowIsBounded ==
    ASSUME NEW n \in Nat, NEW T, T \subseteq 0 .. n - 1
    PROVE  Bounded(T)
<1>1. T \subseteq Nat /\ \A k \in T : k <= n
  OBVIOUS
<1> QED BY <1>1 DEF Bounded

\* A bounded set of cores lies below its limit.
LEMMA LastCore ==
    ASSUME NEW T, Bounded(T)
    PROVE  Limit(T) \in Nat /\ \A k \in T : k < Limit(T)
<1>1. CASE T = {}
  BY <1>1 DEF Limit
<1>2. CASE T # {}
  <2> DEFINE U == {b \in Nat : \A k \in T : k <= b}
  <2>1. U \subseteq Nat /\ U # {}
    BY DEF Bounded
  <2>2. PICK m \in U : \A b \in U : m <= b
    <3> HIDE DEF U
    <3> QED BY <2>1, LeastNatural
  <2>3. m \in Nat /\ \A k \in T : k \in Nat /\ k <= m
    BY <2>2 DEF Bounded
  <2>4. m \in T
    <3> SUFFICES ASSUME m \notin T PROVE FALSE
      OBVIOUS
    <3>1. \A k \in T : k < m
      BY <2>3
    <3>2. PICK k \in T : k < m
      BY <1>2, <3>1
    <3>3. m - 1 \in Nat /\ \A j \in T : j <= m - 1
      BY <2>3, <3>1, <3>2
    <3>4. m <= m - 1
      BY <2>2, <3>3
    <3> QED BY <2>3, <3>4
  <2>5. \A y \in T : m >= y
    BY <2>3
  <2>6. Max(T) \in T /\ \A y \in T : Max(T) >= y
    BY <2>4, <2>5 DEF Max
  <2> QED BY <1>2, <2>3, <2>6 DEF Limit
<1> QED BY <1>1, <1>2

\* The queue without the claim at a position.
LEMMA WithoutPosition ==
    ASSUME NEW E, NEW q \in Seq(E), NEW n \in 1..Len(q)
    PROVE  /\ RemoveAt(q, n) \in Seq(E) /\ Len(RemoveAt(q, n)) = Len(q) - 1
           /\ \A i \in 1..(Len(q) - 1) : /\ i < n => RemoveAt(q, n)[i] = q[i]
                                         /\ i >= n => RemoveAt(q, n)[i] = q[i + 1]
<1> DEFINE a == SubSeq(q, 1, n - 1)
           b == SubSeq(q, n + 1, Len(q))
<1>1. a \in Seq(E) /\ Len(a) = n - 1 /\ \A i \in 1..(n - 1) : a[i] = q[i]
  OBVIOUS
<1>2. b \in Seq(E) /\ Len(b) = Len(q) - n /\ \A i \in 1..(Len(q) - n) : b[i] = q[i + n]
  OBVIOUS
<1>3. RemoveAt(q, n) = a \o b
  BY DEF RemoveAt
<1> HIDE DEF a, b
<1>4. a \o b \in Seq(E) /\ Len(a \o b) = Len(q) - 1
  <2>1. Len(q) \in Nat /\ n \in Nat /\ Len(a) + Len(b) = Len(q) - 1
    BY <1>1, <1>2
  <2>2. a \o b \in Seq(E)
    BY <1>1, <1>2
  <2>3. Len(a \o b) = Len(a) + Len(b)
    <3>1. a \in Seq(E) /\ b \in Seq(E)
      BY <1>1, <1>2
    <3> QED BY <3>1
  <2> QED BY <2>1, <2>2, <2>3
<1>5. ASSUME NEW i \in 1..(Len(q) - 1)
      PROVE  (i < n => (a \o b)[i] = q[i]) /\ (i >= n => (a \o b)[i] = q[i + 1])
  <2>1. CASE i < n
    BY <1>1, <1>2, <2>1
  <2>2. CASE i >= n
    <3>1. (a \o b)[i] = b[i - (n - 1)] /\ i - (n - 1) \in 1..(Len(q) - n)
      BY <1>1, <1>2, <2>2
    <3>2. (i - (n - 1)) + n = i + 1
      OBVIOUS
    <3> QED BY <1>2, <2>2, <3>1, <3>2
  <2>3. i \in Int /\ n \in Int
    OBVIOUS
  <2> QED BY <2>1, <2>2, <2>3
<1> QED BY <1>3, <1>4, <1>5

\* The first claim queued for a core offset.
LEMMA FirstOnCore ==
    ASSUME NEW E, NEW q \in Seq(E), NEW o
    PROVE  /\ PositionOnCore(q, o) \in 0..Len(q)
           /\ PositionOnCore(q, o) # 0 => q[PositionOnCore(q, o)].core_offset = o
           /\ \A i \in 1..Len(q) : q[i].core_offset = o => PositionOnCore(q, o) <= i
           /\ PositionOnCore(q, o) = 0 => \A i \in 1..Len(q) : q[i].core_offset # o
<1> DEFINE I == {i \in 1..Len(q) : q[i].core_offset = o}
<1>1. PositionOnCore(q, o) = IF I # {} THEN Min(I) ELSE 0
  BY DEF PositionOnCore, SelectInSeq
<1>2. CASE I = {}
  BY <1>1, <1>2
<1>3. CASE I # {}
  <2>1. I \subseteq Nat
    OBVIOUS
  <2>2. \E x \in I : \A y \in I : x <= y
    <3> HIDE DEF I
    <3> QED BY <1>3, <2>1, LeastNatural
  <2>3. Min(I) \in I /\ \A y \in I : Min(I) <= y
    BY <2>2 DEF Min
  <2>4. Min(I) # 0
    BY <2>3
  <2> QED BY <1>1, <1>3, <2>3, <2>4
<1> QED BY <1>2, <1>3

-----------------------------------------------------------------------------
(* Groups.                                                                 *)

\* Division with remainder.
LEMMA Division ==
    ASSUME NEW n \in Nat, NEW c \in Nat \ {0}
    PROVE  /\ n \div c \in Nat /\ n % c \in Nat /\ n % c < c
           /\ n = (n \div c) * c + (n % c)
<1>1. n \div c \in Int /\ n % c \in 0..(c - 1)
  OBVIOUS
<1>2. n = (n \div c) * c + (n % c)
  OBVIOUS
<1>3. n \div c >= 0
  OBVIOUS
<1> QED BY <1>1, <1>2, <1>3


\* The size of a group and the first of its validators.
GroupSize(n, c, i) == IF i < n % c THEN (n \div c) + 1 ELSE n \div c
GroupStart(n, c, i) ==
    IF i < n % c THEN ((n \div c) + 1) * i
    ELSE ((n \div c) + 1) * (n % c) + (n \div c) * (i - (n % c))

\* Groups follow one another, from the first validator to the last.
LEMMA GroupsFollow ==
    ASSUME NEW n \in Nat, NEW c \in Nat \ {0}
    PROVE  /\ GroupStart(n, c, 0) = 0 /\ GroupStart(n, c, c) = n
           /\ \A i \in 0..c : GroupStart(n, c, i) \in Nat /\ GroupSize(n, c, i) \in Nat
           /\ \A i \in 0..(c - 1) :
                 GroupStart(n, c, i + 1) = GroupStart(n, c, i) + GroupSize(n, c, i)
<1> DEFINE d == n \div c
           m == n % c
<1>1. d \in Nat /\ m \in Nat /\ m < c /\ n = d * c + m
  BY Division
<1>2. /\ \A i : GroupSize(n, c, i) = IF i < m THEN d + 1 ELSE d
      /\ \A i : GroupStart(n, c, i)
                   = IF i < m THEN (d + 1) * i ELSE (d + 1) * m + d * (i - m)
  BY DEF GroupSize, GroupStart
<1> HIDE DEF d, m
<1>3. GroupStart(n, c, 0) = 0
  <2>1. (d + 1) * 0 = 0 /\ d * (0 - 0) = 0
    BY <1>1
  <2>2. CASE 0 < m
    BY <1>2, <2>1, <2>2
  <2>3. CASE ~(0 < m)
    <3>1. m = 0
      BY <1>1, <2>3
    <3> QED BY <1>2, <2>1, <2>3, <3>1
  <2> QED BY <2>2, <2>3
<1>4. GroupStart(n, c, c) = n
  <2>1. (d + 1) * m = d * m + m /\ d * (c - m) = d * c - d * m
    BY <1>1
  <2>2. d * m \in Nat /\ d * c \in Nat
    BY <1>1
  <2> QED BY <1>1, <1>2, <2>1, <2>2
<1>5. ASSUME NEW i \in 0..c PROVE GroupStart(n, c, i) \in Nat /\ GroupSize(n, c, i) \in Nat
  <2>1. (d + 1) * i \in Nat /\ (d + 1) * m \in Nat
    BY <1>1
  <2>2. i >= m => d * (i - m) \in Nat
    BY <1>1
  <2> QED BY <1>1, <1>2, <2>1, <2>2
<1>6. ASSUME NEW i \in 0..(c - 1)
      PROVE  GroupStart(n, c, i + 1) = GroupStart(n, c, i) + GroupSize(n, c, i)
  <2>1. CASE i + 1 < m
    <3>1. (d + 1) * (i + 1) = (d + 1) * i + (d + 1)
      BY <1>1
    <3>2. i < m
      BY <1>1, <2>1
    <3> QED BY <1>2, <2>1, <3>1, <3>2
  <2>2. CASE i + 1 = m
    <3>1. (d + 1) * m = (d + 1) * i + (d + 1) /\ d * ((i + 1) - m) = 0
      BY <1>1, <2>2
    <3>2. i < m /\ ~(i + 1 < m)
      BY <1>1, <2>2
    <3>3. (d + 1) * m \in Nat
      BY <1>1
    <3> QED BY <1>2, <3>1, <3>2, <3>3
  <2>3. CASE i + 1 > m
    <3>1. d * ((i + 1) - m) = d * (i - m) + d
      BY <1>1
    <3>2. ~(i < m) /\ ~(i + 1 < m)
      BY <1>1, <2>3
    <3>3. (d + 1) * m \in Int /\ d * (i - m) \in Int /\ d \in Int
      BY <1>1
    <3>4. GroupStart(n, c, i + 1) = (d + 1) * m + d * ((i + 1) - m)
      BY <1>2, <3>2
    <3>5. GroupStart(n, c, i) = (d + 1) * m + d * (i - m) /\ GroupSize(n, c, i) = d
      BY <1>2, <3>2
    <3> QED BY <3>1, <3>3, <3>4, <3>5
  <2> QED BY <1>1, <2>1, <2>2, <2>3
<1> QED BY <1>3, <1>4, <1>5, <1>6

\* A later group starts after an earlier one.
LEMMA GroupsOrdered ==
    ASSUME NEW n \in Nat, NEW c \in Nat \ {0},
           NEW i \in 0..(c - 1), NEW j \in 0..(c - 1), i < j
    PROVE  GroupStart(n, c, i) + GroupSize(n, c, i) <= GroupStart(n, c, j)
<1> DEFINE S == {k \in Nat : i < k /\ k <= c => GroupStart(n, c, i + 1) <= GroupStart(n, c, k)}
<1>1. /\ \A k \in 0..c : GroupStart(n, c, k) \in Nat /\ GroupSize(n, c, k) \in Nat
      /\ \A k \in 0..(c - 1) :
            GroupStart(n, c, k + 1) = GroupStart(n, c, k) + GroupSize(n, c, k)
  BY GroupsFollow
<1>2. 0 \in S
  OBVIOUS
<1>3. ASSUME NEW k \in Nat, k \in S PROVE k + 1 \in S
  <2>1. CASE i < k /\ k + 1 <= c
    <3>1. GroupStart(n, c, i + 1) <= GroupStart(n, c, k)
      BY <1>3, <2>1
    <3>2. i + 1 \in 0..c /\ k \in 0..c /\ k + 1 \in 0..c /\ k \in 0..(c - 1)
      BY <2>1
    <3>3. GroupStart(n, c, k + 1) = GroupStart(n, c, k) + GroupSize(n, c, k)
      BY <1>1, <3>2
    <3>4. GroupStart(n, c, i + 1) <= GroupStart(n, c, k + 1)
      BY <1>1, <3>1, <3>2, <3>3
    <3> QED BY <3>4
  <2>2. CASE i = k /\ k + 1 <= c
    <3>1. GroupStart(n, c, i + 1) \in Nat
      BY <1>1, <2>2
    <3> QED BY <2>2, <3>1
  <2>3. CASE ~(i < k + 1 /\ k + 1 <= c)
    BY <2>3
  <2> QED BY <2>1, <2>2, <2>3
<1>4. Nat \subseteq S
  <2> HIDE DEF S
  <2> QED BY <1>2, <1>3, NaturalsIn
<1> QED BY <1>1, <1>4

\* Every validator has a group.
LEMMA GroupsCover ==
    ASSUME NEW n \in Nat, NEW c \in Nat \ {0}, NEW v \in 0..(n - 1)
    PROVE  \E i \in 0..(c - 1) :
              /\ GroupStart(n, c, i) <= v
              /\ v < GroupStart(n, c, i) + GroupSize(n, c, i)
<1> DEFINE T == {i \in 0..(c - 1) : v < GroupStart(n, c, i + 1)}
<1>1. /\ GroupStart(n, c, 0) = 0 /\ GroupStart(n, c, c) = n
      /\ \A k \in 0..c : GroupStart(n, c, k) \in Nat /\ GroupSize(n, c, k) \in Nat
      /\ \A k \in 0..(c - 1) :
            GroupStart(n, c, k + 1) = GroupStart(n, c, k) + GroupSize(n, c, k)
  BY GroupsFollow
<1>2. T \subseteq Nat /\ T # {}
  <2>1. c - 1 \in 0..(c - 1) /\ (c - 1) + 1 = c
    OBVIOUS
  <2>2. c - 1 \in T
    BY <1>1, <2>1
  <2>3. T \subseteq Nat
    OBVIOUS
  <2> HIDE DEF T
  <2> QED BY <2>2, <2>3
<1>3. PICK i \in T : \A j \in T : i <= j
  <2> HIDE DEF T
  <2> QED BY <1>2, LeastNatural
<1>4. i \in 0..(c - 1) /\ v < GroupStart(n, c, i) + GroupSize(n, c, i)
  BY <1>1, <1>3
<1>5. GroupStart(n, c, i) <= v
  <2>1. CASE i = 0
    BY <1>1, <2>1
  <2>2. CASE i # 0
    <3>1. i - 1 \in 0..(c - 1) /\ i - 1 \notin T /\ (i - 1) + 1 = i
      BY <1>3, <1>4, <2>2
    <3>2. ~(v < GroupStart(n, c, i)) /\ GroupStart(n, c, i) \in Nat
      BY <1>1, <1>4, <3>1
    <3> QED BY <3>2
  <2> QED BY <2>1, <2>2
<1> QED BY <1>4, <1>5

\* The groups partition the validators, with sizes that differ by one at most.
LEMMA GroupsPartition ==
    ASSUME NEW n \in Nat, NEW c \in Nat \ {0}
    PROVE  /\ DOMAIN GroupsOf(n, c) = 0..(c - 1)
           /\ UNION {GroupsOf(n, c)[g] : g \in 0..(c - 1)} = 0..(n - 1)
           /\ \A g, h \in 0..(c - 1) :
                 /\ g # h => GroupsOf(n, c)[g] \intersect GroupsOf(n, c)[h] = {}
                 /\ Cardinality(GroupsOf(n, c)[g]) <= Cardinality(GroupsOf(n, c)[h]) + 1
<1> DEFINE G == GroupsOf(n, c)
           a(i) == GroupStart(n, c, i)
           z(i) == GroupSize(n, c, i)
<1>1. G = [i \in 0..(c - 1) |-> a(i) .. (a(i) + z(i) - 1)]
  BY DEF GroupsOf, GroupStart, GroupSize
<1>2. /\ a(0) = 0 /\ a(c) = n
      /\ \A k \in 0..c : a(k) \in Nat /\ z(k) \in Nat
      /\ \A k \in 0..(c - 1) : a(k + 1) = a(k) + z(k)
  BY GroupsFollow
<1>3. \A i, j \in 0..(c - 1) : i < j => a(i) + z(i) <= a(j)
  BY GroupsOrdered
<1>4. \A v \in 0..(n - 1) : \E i \in 0..(c - 1) : a(i) <= v /\ v < a(i) + z(i)
  BY GroupsCover
<1>5. n \div c \in Nat /\ \A i : z(i) \in {n \div c, (n \div c) + 1}
  BY Division DEF GroupSize
<1>6. \A i \in 0..(c - 1) : a(i) + z(i) <= n
  <2> SUFFICES ASSUME NEW i \in 0..(c - 1) PROVE a(i) + z(i) <= n
    OBVIOUS
  <2>0. c - 1 \in 0..(c - 1) /\ (c - 1) + 1 = c /\ c - 1 \in 0..c
    OBVIOUS
  <2>1. a(c - 1) + z(c - 1) = n
    <3> HIDE DEF a, z
    <3> QED BY <1>2, <2>0
  <2>2. CASE i = c - 1
    BY <2>1, <2>2
  <2>3. CASE i < c - 1
    <3>1. a(i) + z(i) <= a(c - 1)
      <4> HIDE DEF a, z
      <4> QED BY <1>3, <2>0, <2>3
    <3>2. a(c - 1) \in Nat /\ z(c - 1) \in Nat /\ a(i) \in Nat /\ z(i) \in Nat
      <4> HIDE DEF a, z
      <4> QED BY <1>2, <2>0
    <3> HIDE DEF a, z
    <3> QED BY <2>1, <3>1, <3>2
  <2> QED BY <2>2, <2>3
<1> HIDE DEF a, z
<1>7. DOMAIN G = 0..(c - 1) /\ \A g \in 0..(c - 1) : G[g] = a(g) .. (a(g) + z(g) - 1)
  BY <1>1
<1> HIDE DEF G
<1>8. UNION {G[g] : g \in 0..(c - 1)} = 0..(n - 1)
  <2>1. ASSUME NEW v \in UNION {G[g] : g \in 0..(c - 1)} PROVE v \in 0..(n - 1)
    <3>1. PICK g \in 0..(c - 1) : v \in a(g) .. (a(g) + z(g) - 1)
      BY <1>7
    <3>2. a(g) \in Nat /\ z(g) \in Nat /\ a(g) + z(g) <= n
      BY <1>2, <1>6
    <3> QED BY <3>1, <3>2
  <2>2. ASSUME NEW v \in 0..(n - 1) PROVE v \in UNION {G[g] : g \in 0..(c - 1)}
    <3>1. PICK g \in 0..(c - 1) : a(g) <= v /\ v < a(g) + z(g)
      BY <1>4
    <3>2. a(g) \in Nat /\ z(g) \in Nat
      BY <1>2
    <3>3. v \in a(g) .. (a(g) + z(g) - 1)
      BY <3>1, <3>2
    <3> QED BY <1>7, <3>3
  <2> QED BY <2>1, <2>2
<1>9. ASSUME NEW g \in 0..(c - 1), NEW h \in 0..(c - 1), g # h
      PROVE  G[g] \intersect G[h] = {}
  <2>1. /\ a(g) \in Nat /\ z(g) \in Nat /\ a(h) \in Nat /\ z(h) \in Nat
        /\ a(g) + z(g) <= a(h) \/ a(h) + z(h) <= a(g)
    BY <1>2, <1>3, <1>9
  <2> QED BY <1>7, <2>1
<1>10. \A g \in 0..(c - 1) : Cardinality(G[g]) = z(g)
  <2> SUFFICES ASSUME NEW g \in 0..(c - 1) PROVE Cardinality(G[g]) = z(g)
    OBVIOUS
  <2> DEFINE x == a(g)
             y == a(g) + z(g) - 1
  <2>1. x \in Int /\ y \in Int /\ a(g) \in Nat /\ z(g) \in Nat
    BY <1>2
  <2>2. Cardinality(x .. y) = IF x > y THEN 0 ELSE y - x + 1
    <3> HIDE DEF x, y
    <3> QED BY <2>1, FS_Interval
  <2> QED BY <1>7, <2>1, <2>2
<1>11. \A g, h \in 0..(c - 1) : Cardinality(G[g]) <= Cardinality(G[h]) + 1
  <2> SUFFICES ASSUME NEW g \in 0..(c - 1), NEW h \in 0..(c - 1)
               PROVE  z(g) <= z(h) + 1
    BY <1>10
  <2> QED BY <1>5
<1>12. /\ DOMAIN G = 0..(c - 1) /\ UNION {G[g] : g \in 0..(c - 1)} = 0..(n - 1)
       /\ \A g, h \in 0..(c - 1) : /\ g # h => G[g] \intersect G[h] = {}
                                  /\ Cardinality(G[g]) <= Cardinality(G[h]) + 1
  BY <1>7, <1>8, <1>9, <1>11
<1> QED BY <1>12 DEF G

-----------------------------------------------------------------------------
(* The storage in a session.                                               *)

Partial == UNION {[T -> Assignment] : T \in {U \in SUBSET Nat : Bounded(U)}}

StoreOf(ses) ==
    [queue : Seq(Entry), next_core_offset : Nat,
     availability_cores : [0 .. n_cores(ses) - 1 -> Core],
     claim_index : SUBSET ParaIds, scheduled : Partial,
     validator_groups : {ValidatorGroups(ses)}]

\* The cores that handle a claim, and those assigned to one.
Threads(s) ==
    {k \in DOMAIN s.availability_cores : s.availability_cores[k].kind = "Parathread"}
AssignedThreads(s) == {k \in DOMAIN s.scheduled : s.scheduled[k].kind = "Parathread"}

QueueOK(s, ses) ==
    /\ \/ s.next_core_offset < ses.config.parathread_cores
       \/ s.next_core_offset = 0 /\ ses.config.parathread_cores = 0
    /\ \A i \in DOMAIN s.queue :
          /\ s.queue[i].core_offset < ses.config.parathread_cores
          /\ s.queue[i].retries <= ses.config.parathread_retries
          /\ s.queue[i].para \in ses.parathreads

\* Core k is one of those that claims are queued for.
Multiplexer(ses, k) ==
    k >= Len(ses.parachains) /\ k - Len(ses.parachains) < ses.config.parathread_cores

CoresOK(s, ses) ==
    \A k \in DOMAIN s.availability_cores :
       /\ s.availability_cores[k].kind = "Parachain" => k < Len(ses.parachains)
       /\ s.availability_cores[k].kind = "Parathread" =>
             /\ s.availability_cores[k].para \in ses.parathreads
             /\ s.availability_cores[k].retries <= ses.config.parathread_retries
             /\ ses.config.parathread_cores > 0 /\ Multiplexer(ses, k)

\* No claim has two places.
Apart(s) ==
    /\ \A i, j \in DOMAIN s.queue : s.queue[i].para = s.queue[j].para => i = j
    /\ \A j, k \in Threads(s) :
          s.availability_cores[j].para = s.availability_cores[k].para => j = k
    /\ \A i \in DOMAIN s.queue, k \in Threads(s) :
          s.queue[i].para # s.availability_cores[k].para
    /\ \A i \in DOMAIN s.queue, k \in AssignedThreads(s) :
          s.queue[i].para # s.scheduled[k].para
    /\ \A j \in Threads(s), k \in AssignedThreads(s) :
          s.availability_cores[j].para # s.scheduled[k].para

IndexOK(s, ses) ==
    ses.config.parathread_cores > 0 =>
        /\ \A i \in DOMAIN s.queue : s.queue[i].para \in s.claim_index
        /\ \A k \in Threads(s) : s.availability_cores[k].para \in s.claim_index
        /\ \A k \in AssignedThreads(s) : s.scheduled[k].para \in s.claim_index

\* The assignments are of this session, on free cores.
FreshList(s, ses) ==
    \A k \in DOMAIN s.scheduled :
        /\ k \in DOMAIN s.availability_cores /\ s.availability_cores[k].kind = "Free"
        /\ s.scheduled[k].kind = "Parachain" =>
              k < Len(ses.parachains) /\ s.scheduled[k].para = ses.parachains[k + 1]
        /\ s.scheduled[k].kind = "Parathread" =>
              /\ s.scheduled[k].para \in ses.parathreads
              /\ s.scheduled[k].retries <= ses.config.parathread_retries
              /\ ses.config.parathread_cores > 0 /\ Multiplexer(ses, k)

\* Those of an earlier session are left until the first block of this one that
\* schedules, and no core is occupied before.
ListOK(s, ses) ==
    /\ \A j, k \in DOMAIN s.scheduled :
          /\ s.scheduled[j].para = s.scheduled[k].para => j = k
          /\ s.scheduled[j].group_idx = s.scheduled[k].group_idx => j = k
    /\ \/ FreshList(s, ses)
       \/ \A k \in DOMAIN s.availability_cores : s.availability_cores[k].kind = "Free"

Stores(ses) ==
    {s \in StoreOf(ses) : /\ QueueOK(s, ses) /\ CoresOK(s, ses) /\ Apart(s)
                          /\ IndexOK(s, ses) /\ ListOK(s, ses)}

SchedulerInv ==
    /\ session \in Sessions /\ age \in 0..MaxSessionAge /\ phase \in {"enter", "calls"}
    /\ store \in Stores(session)

\* p has no claim.
Absent(s, p) ==
    /\ \A i \in DOMAIN s.queue : s.queue[i].para # p
    /\ \A k \in Threads(s) : s.availability_cores[k].para # p
    /\ \A k \in AssignedThreads(s) : s.scheduled[k].para # p

\* The fields of a session.
LEMMA SessionTypes ==
    ASSUME NEW ses \in Sessions
    PROVE  /\ ses.parachains \in Seq(ParaIds) /\ Len(ses.parachains) \in Nat
           /\ DOMAIN ses.parachains = 1..Len(ses.parachains)
           /\ \A i \in 1..Len(ses.parachains) :
                 ses.parachains[i] \in ParaIds /\ ses.parachains[i] \notin ses.parathreads
           /\ \A i, j \in 1..Len(ses.parachains) :
                 ses.parachains[i] = ses.parachains[j] => i = j
           /\ ses.parathreads \subseteq ParaIds
           /\ ses.n_validators \in Nat
           /\ ses.config.parathread_cores \in Nat
           /\ ses.config.parathread_retries \in Nat
           /\ ses.config.group_rotation_frequency \in Nat \ {0}
           /\ n_cores(ses) \in Nat
           /\ n_cores(ses) >= Len(ses.parachains) + ses.config.parathread_cores
<1>1. /\ ses.parachains \in Seq(ParaIds \ ses.parathreads) /\ IsInjective(ses.parachains)
      /\ ses.parathreads \subseteq ParaIds /\ ses.n_validators \in Nat
      /\ ses.config.parathread_cores \in Nat /\ ses.config.parathread_retries \in Nat
      /\ ses.config.group_rotation_frequency \in Nat \ {0}
      /\ ses.config.max_validators_per_core \in Nat
  BY SessionsAssumption
<1>2. /\ ses.parachains \in Seq(ParaIds) /\ Len(ses.parachains) \in Nat
      /\ DOMAIN ses.parachains = 1..Len(ses.parachains)
      /\ \A i \in 1..Len(ses.parachains) :
            ses.parachains[i] \in ParaIds /\ ses.parachains[i] \notin ses.parathreads
  BY <1>1
<1>3. \A i, j \in 1..Len(ses.parachains) :
         ses.parachains[i] = ses.parachains[j] => i = j
  BY <1>1, <1>2 DEF IsInjective
<1>4. n_cores(ses) \in Nat
      /\ n_cores(ses) >= Len(ses.parachains) + ses.config.parathread_cores
  <2> DEFINE x == ses.config.max_validators_per_core
             v == ses.n_validators
  <2>1. x # 0 => v \div x \in Nat
    <3>1. x \in Nat /\ v \in Nat
      BY <1>1
    <3> HIDE DEF x, v
    <3> QED BY <3>1, Division
  <2> QED BY <1>1, <1>2, <2>1 DEF n_cores
<1> QED BY <1>1, <1>2, <1>3, <1>4

\* The fields of the storage.
LEMMA StoreTypes ==
    ASSUME NEW ses \in Sessions, NEW s \in StoreOf(ses)
    PROVE  /\ s.queue \in Seq(Entry) /\ DOMAIN s.queue = 1..Len(s.queue)
           /\ Len(s.queue) \in Nat /\ \A i \in DOMAIN s.queue : s.queue[i] \in Entry
           /\ s.next_core_offset \in Nat
           /\ DOMAIN s.availability_cores = 0 .. n_cores(ses) - 1
           /\ s.availability_cores \in [0 .. n_cores(ses) - 1 -> Core]
           /\ s.claim_index \subseteq ParaIds
           /\ s.scheduled \in Partial /\ Bounded(DOMAIN s.scheduled)
           /\ DOMAIN s.scheduled \subseteq Nat
           /\ \A k \in DOMAIN s.scheduled : s.scheduled[k] \in Assignment
           /\ s.validator_groups = ValidatorGroups(ses)
<1>1. /\ s.queue \in Seq(Entry) /\ s.next_core_offset \in Nat
      /\ s.availability_cores \in [0 .. n_cores(ses) - 1 -> Core]
      /\ s.claim_index \subseteq ParaIds /\ s.scheduled \in Partial
      /\ s.validator_groups = ValidatorGroups(ses)
  BY DEF StoreOf
<1>2. PICK T : Bounded(T) /\ s.scheduled \in [T -> Assignment]
  BY <1>1 DEF Partial
<1>3. DOMAIN s.scheduled = T /\ \A k \in T : s.scheduled[k] \in Assignment
  BY <1>2
<1>4. T \subseteq Nat
  BY <1>2 DEF Bounded
<1>5. DOMAIN s.queue = 1..Len(s.queue) /\ Len(s.queue) \in Nat
      /\ \A i \in DOMAIN s.queue : s.queue[i] \in Entry
  BY <1>1
<1> QED BY <1>1, <1>2, <1>3, <1>4, <1>5

-----------------------------------------------------------------------------
(* What the inherent does with a storage.                                  *)

\* A claim that has no place gets one at the end of the queue.
LEMMA EnqueueKeeps ==
    ASSUME NEW ses \in Sessions, NEW s \in Stores(ses), NEW p \in ses.parathreads,
           NEW r \in Nat, r <= ses.config.parathread_retries,
           ses.config.parathread_cores > 0, Absent(s, p), p \in s.claim_index,
           NEW t, t = enqueue_entry(s, p, r, ses.config.parathread_cores)
    PROVE  /\ t \in Stores(ses)
           /\ t.availability_cores = s.availability_cores /\ t.scheduled = s.scheduled
           /\ t.claim_index = s.claim_index
           /\ \A x : Absent(t, x) <=> Absent(s, x) /\ x # p
<1> DEFINE n == ses.config.parathread_cores
           e == [para |-> p, retries |-> r, core_offset |-> s.next_core_offset]
<1>1. s \in StoreOf(ses) /\ QueueOK(s, ses) /\ CoresOK(s, ses) /\ Apart(s)
      /\ IndexOK(s, ses) /\ ListOK(s, ses)
  BY DEF Stores
<1>2. /\ s.queue \in Seq(Entry) /\ DOMAIN s.queue = 1..Len(s.queue) /\ Len(s.queue) \in Nat
      /\ s.next_core_offset \in Nat
  BY <1>1, StoreTypes
<1>3. n \in Nat /\ p \in ParaIds
  BY SessionTypes
<1>4. t = [s EXCEPT !.queue = Append(s.queue, e),
                    !.next_core_offset = (s.next_core_offset + 1) % n]
  BY DEF enqueue_entry
<1>5. /\ t.queue = Append(s.queue, e) /\ t.next_core_offset = (s.next_core_offset + 1) % n
      /\ t.availability_cores = s.availability_cores /\ t.scheduled = s.scheduled
      /\ t.claim_index = s.claim_index /\ t.validator_groups = s.validator_groups
  BY <1>1, <1>4 DEF StoreOf
<1>6. (s.next_core_offset + 1) % n \in Nat /\ (s.next_core_offset + 1) % n < n
  <2> DEFINE m == s.next_core_offset + 1
  <2>1. m \in Nat /\ n \in Nat \ {0}
    BY <1>2, <1>3
  <2>2. m % n \in Nat /\ m % n < n
    <3> HIDE DEF m, n
    <3> QED BY <2>1, Division
  <2> QED BY <2>1, <2>2
<1> HIDE DEF n
<1>7. t \in StoreOf(ses)
  <2>1. e \in Entry /\ Append(s.queue, e) \in Seq(Entry)
    BY <1>2, <1>3 DEF Entry
  <2> HIDE DEF e
  <2> QED BY <1>1, <1>4, <1>6, <2>1 DEF StoreOf
<1>8. /\ DOMAIN t.queue = 1..(Len(s.queue) + 1) /\ Len(t.queue) = Len(s.queue) + 1
      /\ t.queue[Len(s.queue) + 1] = e
      /\ \A i \in DOMAIN s.queue : t.queue[i] = s.queue[i]
      /\ \A i \in DOMAIN t.queue : i \in DOMAIN s.queue \/ i = Len(s.queue) + 1
      /\ DOMAIN s.queue = 1..Len(s.queue)
  <2> HIDE DEF e
  <2> QED BY <1>2, <1>5
<1>9. e.para = p /\ e.retries = r /\ e.core_offset = s.next_core_offset
  OBVIOUS
<1> HIDE DEF e
<1>10. QueueOK(t, ses)
  <2>1. s.next_core_offset < n
    BY <1>1 DEF QueueOK, n
  <2>2. t.next_core_offset < n
    BY <1>5, <1>6
  <2> QED BY <1>1, <1>8, <1>9, <2>1, <2>2 DEF QueueOK, n
<1>11. CoresOK(t, ses)
  BY <1>1, <1>5 DEF CoresOK
<1>12. Threads(t) = Threads(s) /\ AssignedThreads(t) = AssignedThreads(s)
  BY <1>5 DEF Threads, AssignedThreads
<1>13. Apart(t)
  <2> DEFINE Q == DOMAIN s.queue
             T == DOMAIN t.queue
             z == Len(s.queue) + 1
  <2>1. z \notin Q /\ z \in T /\ \A i \in T : i \in Q \/ i = z
    BY <1>2, <1>8
  <2>2. t.queue[z] = e /\ \A i \in Q : t.queue[i] = s.queue[i]
    BY <1>8
  <2> HIDE DEF Q, T, z
  <2>3. \A i \in Q : s.queue[i].para # p
    BY DEF Absent, Q
  <2>4. \A k \in Threads(s) : s.availability_cores[k].para # p
    BY DEF Absent
  <2>5. \A k \in AssignedThreads(s) : s.scheduled[k].para # p
    BY DEF Absent
  <2>6. \A i, j \in T : t.queue[i].para = t.queue[j].para => i = j
    BY <1>1, <1>9, <2>1, <2>2, <2>3 DEF Apart, Q
  <2>7. \A i \in T, k \in Threads(s) : t.queue[i].para # s.availability_cores[k].para
    BY <1>1, <1>9, <2>1, <2>2, <2>4 DEF Apart, Q
  <2>8. \A i \in T, k \in AssignedThreads(s) : t.queue[i].para # s.scheduled[k].para
    BY <1>1, <1>9, <2>1, <2>2, <2>5 DEF Apart, Q
  <2> QED BY <1>1, <1>5, <1>12, <2>6, <2>7, <2>8 DEF Apart, T
<1>14. IndexOK(t, ses)
  BY <1>1, <1>5, <1>8, <1>9, <1>12 DEF IndexOK
<1>15. ListOK(t, ses)
  BY <1>1, <1>5 DEF ListOK, FreshList
<1>16. \A x : Absent(t, x) <=> Absent(s, x) /\ x # p
  <2> DEFINE Q == DOMAIN s.queue
             T == DOMAIN t.queue
             z == Len(s.queue) + 1
  <2>1. z \in T /\ Q \subseteq T /\ \A i \in T : i \in Q \/ i = z
    BY <1>2, <1>8
  <2>2. t.queue[z].para = p /\ \A i \in Q : t.queue[i] = s.queue[i]
    BY <1>8, <1>9
  <2> HIDE DEF Q, T, z
  <2>3. \A x : (\A i \in T : t.queue[i].para # x)
                 <=> (\A i \in Q : s.queue[i].para # x) /\ x # p
    BY <2>1, <2>2
  <2> QED BY <1>5, <1>12, <2>3 DEF Absent, Q, T
<1> QED BY <1>5, <1>7, <1>10, <1>11, <1>13, <1>14, <1>15, <1>16 DEF Stores

\* A core becomes free: the claim it handled has no place then.
LEMMA FreeingKeeps ==
    ASSUME NEW ses \in Sessions, NEW s \in Stores(ses),
           NEW k \in DOMAIN s.availability_cores,
           NEW t, t = [s EXCEPT !.availability_cores[k] = FreeCore]
    PROVE  /\ t \in Stores(ses) /\ t.queue = s.queue /\ t.scheduled = s.scheduled
           /\ t.claim_index = s.claim_index
           /\ Threads(t) = Threads(s) \ {k}
           /\ \A j \in Threads(t) : t.availability_cores[j] = s.availability_cores[j]
           /\ k \in Threads(s) => Absent(t, s.availability_cores[k].para)
<1>1. s \in StoreOf(ses) /\ QueueOK(s, ses) /\ CoresOK(s, ses) /\ Apart(s)
      /\ IndexOK(s, ses) /\ ListOK(s, ses)
  BY DEF Stores
<1>2. /\ DOMAIN s.availability_cores = 0 .. n_cores(ses) - 1
      /\ s.availability_cores \in [0 .. n_cores(ses) - 1 -> Core]
  BY <1>1, StoreTypes
<1> DEFINE c == [s.availability_cores EXCEPT ![k] = FreeCore]
<1>3. t = [s EXCEPT !.availability_cores = c]
  OBVIOUS
<1>4. /\ t.queue = s.queue /\ t.next_core_offset = s.next_core_offset
      /\ t.availability_cores = c /\ t.scheduled = s.scheduled
      /\ t.claim_index = s.claim_index /\ t.validator_groups = s.validator_groups
  <2> HIDE DEF c
  <2> QED BY <1>1, <1>3 DEF StoreOf
<1>5. FreeCore \in Core /\ FreeCore.kind = "Free"
  BY DEF FreeCore, Core
<1>6. /\ c \in [0 .. n_cores(ses) - 1 -> Core] /\ DOMAIN c = DOMAIN s.availability_cores
      /\ c[k] = FreeCore
      /\ \A j \in DOMAIN s.availability_cores : j # k => c[j] = s.availability_cores[j]
  BY <1>2, <1>5
<1>7. t \in StoreOf(ses)
  <2> HIDE DEF c
  <2> QED BY <1>1, <1>3, <1>6 DEF StoreOf
<1> HIDE DEF c
<1>8. /\ Threads(t) = Threads(s) \ {k} /\ AssignedThreads(t) = AssignedThreads(s)
      /\ \A j \in Threads(t) : t.availability_cores[j] = s.availability_cores[j]
  BY <1>4, <1>5, <1>6 DEF Threads, AssignedThreads
<1>9. QueueOK(t, ses)
  BY <1>1, <1>4 DEF QueueOK
<1>10. CoresOK(t, ses)
  BY <1>1, <1>4, <1>5, <1>6 DEF CoresOK
<1>11. Apart(t)
  BY <1>1, <1>4, <1>8 DEF Apart
<1>12. IndexOK(t, ses)
  BY <1>1, <1>4, <1>8 DEF IndexOK
<1>13. ListOK(t, ses)
  BY <1>1, <1>4, <1>5, <1>6 DEF ListOK, FreshList
<1>14. k \in Threads(s) => Absent(t, s.availability_cores[k].para)
  BY <1>1, <1>4, <1>8 DEF Apart, Absent
<1> QED BY <1>4, <1>7, <1>8, <1>9, <1>10, <1>11, <1>12, <1>13, <1>14 DEF Stores

\* A para without a claim leaves the index, or enters it.
LEMMA IndexKeeps ==
    ASSUME NEW ses \in Sessions, NEW s \in Stores(ses), NEW I, I \subseteq ParaIds,
           NEW p, Absent(s, p), s.claim_index \ {p} \subseteq I,
           NEW t, t = [s EXCEPT !.claim_index = I]
    PROVE  /\ t \in Stores(ses) /\ t.queue = s.queue /\ t.scheduled = s.scheduled
           /\ t.availability_cores = s.availability_cores /\ t.claim_index = I
           /\ Absent(t, p)
<1>1. s \in StoreOf(ses) /\ QueueOK(s, ses) /\ CoresOK(s, ses) /\ Apart(s)
      /\ IndexOK(s, ses) /\ ListOK(s, ses)
  BY DEF Stores
<1>2. /\ t.queue = s.queue /\ t.next_core_offset = s.next_core_offset
      /\ t.availability_cores = s.availability_cores /\ t.scheduled = s.scheduled
      /\ t.claim_index = I /\ t.validator_groups = s.validator_groups
      /\ t \in StoreOf(ses)
  BY <1>1 DEF StoreOf
<1>3. Threads(t) = Threads(s) /\ AssignedThreads(t) = AssignedThreads(s)
  BY <1>2 DEF Threads, AssignedThreads
<1>4. QueueOK(t, ses) /\ CoresOK(t, ses) /\ ListOK(t, ses)
  BY <1>1, <1>2 DEF QueueOK, CoresOK, ListOK, FreshList
<1>5. Apart(t) /\ Absent(t, p)
  BY <1>1, <1>2, <1>3 DEF Apart, Absent
<1>6. IndexOK(t, ses)
  BY <1>1, <1>2, <1>3 DEF IndexOK, Absent
<1> QED BY <1>2, <1>4, <1>5, <1>6 DEF Stores

\* A core handles the claim of p.
Handles(s, p) == \E k \in Threads(s) : s.availability_cores[k].para = p

\* Freeing cores leads from s to t: a claim is lost only if it was handled, and
\* then another one can be made.
FreedFrom(s, t) ==
    /\ t.scheduled = s.scheduled /\ t.claim_index \subseteq s.claim_index
    /\ \A p : Handles(t, p) => Handles(s, p)
    /\ \A p : Absent(t, p) => Absent(s, p) \/ (Handles(s, p) /\ p \notin t.claim_index)

LEMMA FreedFromSelf ==
    ASSUME NEW s
    PROVE  FreedFrom(s, s)
BY DEF FreedFrom

LEMMA FreedFromTransitive ==
    ASSUME NEW s, NEW t, NEW u, FreedFrom(s, t), FreedFrom(t, u)
    PROVE  FreedFrom(s, u)
BY DEF FreedFrom

\* One core is freed.
LEMMA FreeOneKeeps ==
    ASSUME session \in Sessions, NEW s \in Stores(session), NEW core,
           NEW reason \in {"Concluded", "TimedOut"}
    PROVE  /\ FreeOne(s, core, reason) \in Stores(session)
           /\ FreedFrom(s, FreeOne(s, core, reason))
<1> DEFINE o == s.availability_cores[core]
           f == [s EXCEPT !.availability_cores[core] = FreeCore]
<1>1. CASE core \notin DOMAIN s.availability_cores
  BY <1>1, FreedFromSelf DEF FreeOne
<1>2. CASE core \in DOMAIN s.availability_cores
  <2>1. s \in StoreOf(session) /\ CoresOK(s, session) /\ IndexOK(s, session)
    BY DEF Stores
  <2>2. o \in Core /\ s.claim_index \subseteq ParaIds
    BY <1>2, <2>1, StoreTypes
  <2>3. /\ f \in Stores(session) /\ f.queue = s.queue /\ f.scheduled = s.scheduled
        /\ f.claim_index = s.claim_index
        /\ Threads(f) = Threads(s) \ {core}
        /\ \A j \in Threads(f) : f.availability_cores[j] = s.availability_cores[j]
        /\ core \in Threads(s) => Absent(f, o.para)
    <3> DEFINE g == f
    <3>1. g = [s EXCEPT !.availability_cores[core] = FreeCore]
      OBVIOUS
    <3> HIDE DEF g
    <3>2. /\ g \in Stores(session) /\ g.queue = s.queue /\ g.scheduled = s.scheduled
          /\ g.claim_index = s.claim_index
          /\ Threads(g) = Threads(s) \ {core}
          /\ \A j \in Threads(g) : g.availability_cores[j] = s.availability_cores[j]
          /\ core \in Threads(s) => Absent(g, s.availability_cores[core].para)
      BY <1>2, <3>1, FreeingKeeps
    <3> QED BY <3>2 DEF g
  <2>4. AssignedThreads(f) = AssignedThreads(s)
    <3> HIDE DEF f
    <3> QED BY <2>3 DEF AssignedThreads
  <2>5. /\ \A p : Handles(f, p) => Handles(s, p)
        /\ \A p : Absent(f, p) => Absent(s, p) \/ (core \in Threads(s) /\ p = o.para)
    <3> HIDE DEF f
    <3> QED BY <2>3, <2>4 DEF Absent, Handles
  <2>6. core \in Threads(s) <=> o.kind = "Parathread"
    BY <1>2 DEF Threads
  <2>7. FreeOne(s, core, reason)
          = CASE o.kind # "Parathread" -> f
              [] o.kind = "Parathread" /\ reason = "Concluded" ->
                    [f EXCEPT !.claim_index = f.claim_index \ {o.para}]
              [] o.kind = "Parathread" /\ reason = "TimedOut" ->
                    enqueue_entry(f, o.para, o.retries, config.parathread_cores)
    BY <1>2 DEF FreeOne
  <2> HIDE DEF f
  <2>8. CASE o.kind # "Parathread"
    <3>1. FreeOne(s, core, reason) = f
      BY <2>7, <2>8
    <3> QED BY <2>3, <2>5, <2>6, <2>8, <3>1 DEF FreedFrom
  <2>9. CASE o.kind = "Parathread" /\ reason = "Concluded"
    <3> DEFINE I == f.claim_index \ {o.para}
               t == FreeOne(s, core, reason)
    <3>1. t = [f EXCEPT !.claim_index = I]
      BY <2>7, <2>9
    <3>2. Absent(f, o.para) /\ I \subseteq ParaIds /\ f.claim_index \ {o.para} \subseteq I
      BY <2>2, <2>3, <2>6, <2>9
    <3> HIDE DEF I, t
    <3>3. /\ t \in Stores(session) /\ t.queue = f.queue /\ t.scheduled = f.scheduled
          /\ t.availability_cores = f.availability_cores /\ t.claim_index = I
      BY <2>3, <3>1, <3>2, IndexKeeps
    <3>4. \A p : (Absent(t, p) <=> Absent(f, p)) /\ (Handles(t, p) <=> Handles(f, p))
      BY <3>3 DEF Absent, Handles, Threads, AssignedThreads
    <3>5. Handles(s, o.para) /\ o.para \notin I
      BY <1>2, <2>6, <2>9 DEF I, Handles
    <3>6. FreedFrom(s, t)
      <4>1. t.scheduled = s.scheduled /\ t.claim_index \subseteq s.claim_index
        BY <2>3, <3>3 DEF I
      <4> QED BY <2>5, <3>3, <3>4, <3>5, <4>1 DEF FreedFrom
    <3> QED BY <3>3, <3>6 DEF t
  <2>10. CASE o.kind = "Parathread" /\ reason = "TimedOut"
    <3> DEFINE t == FreeOne(s, core, reason)
    <3>1. t = enqueue_entry(f, o.para, o.retries, session.config.parathread_cores)
      BY <2>7, <2>10 DEF config
    <3>2. /\ o.para \in session.parathreads /\ o.retries <= session.config.parathread_retries
          /\ session.config.parathread_cores > 0 /\ o.retries \in Nat
      BY <1>2, <2>1, <2>2, <2>10 DEF CoresOK, Core
    <3>3. o.para \in f.claim_index /\ Absent(f, o.para)
      BY <1>2, <2>1, <2>3, <2>6, <2>10, <3>2 DEF IndexOK
    <3> HIDE DEF t, o
    <3>4. /\ t \in Stores(session)
          /\ t.availability_cores = f.availability_cores /\ t.scheduled = f.scheduled
          /\ t.claim_index = f.claim_index
          /\ \A p : Absent(t, p) <=> Absent(f, p) /\ p # o.para
      BY <2>3, <3>1, <3>2, <3>3, EnqueueKeeps
    <3>7. \A p : Handles(t, p) => Handles(f, p)
      BY <3>4 DEF Handles, Threads
    <3>8. FreedFrom(s, t)
      <4>1. t.scheduled = s.scheduled /\ t.claim_index \subseteq s.claim_index
        BY <2>3, <3>4
      <4> QED BY <2>5, <3>4, <3>7, <4>1 DEF FreedFrom
    <3> QED BY <3>4, <3>8 DEF t
  <2> QED BY <2>8, <2>9, <2>10
<1> QED BY <1>1, <1>2

\* What is freed, and why.
Freeable(freed) ==
    Bounded(DOMAIN freed) /\ \A k \in DOMAIN freed : freed[k] \in {"Concluded", "TimedOut"}

\* The sweep of `free_cores`, core by core.
LEMMA FreeingSteps ==
    ASSUME session \in Sessions, NEW s \in Stores(session), NEW freed, Freeable(freed),
           NEW f, f = Freeing(s, freed)
    PROVE  /\ f[0] = s
           /\ \A n \in Nat :
                 /\ f[n] \in Stores(session)
                 /\ n \in DOMAIN freed => f[n + 1] = FreeOne(f[n], n, freed[n])
                 /\ n \notin DOMAIN freed => f[n + 1] = f[n]
<1> DEFINE D == Stores(session)
           W(i, t) == IF i \in DOMAIN freed THEN FreeOne(t, i, freed[i]) ELSE t
           F == [d \in Nat \X D |-> W(d[1], d[2])]
<1>1. ASSUME NEW i, NEW t \in D PROVE W(i, t) \in D
  BY FreeOneKeeps DEF Freeable
<1>2. \A i, t : /\ i \in DOMAIN freed => W(i, t) = FreeOne(t, i, freed[i])
                /\ i \notin DOMAIN freed => W(i, t) = t
  OBVIOUS
<1> HIDE DEF W
<1>3. F \in TurnsIn(D)
  BY <1>1 DEF TurnsIn
<1>4. \A i \in Nat, t \in D : F[<<i, t>>] = W(i, t)
  OBVIOUS
<1> HIDE DEF D, F
<1>5. PICK r : IsLoop(r, D, F, s)
  <2>1. s \in D
    BY DEF D
  <2> QED BY <1>3, <2>1, LoopExists
<1>6. /\ r \in [Nat -> D] /\ r[0] = s
      /\ \A n \in Nat : r[n + 1] = W(n, r[n])
  BY <1>4, <1>5 DEF IsLoop
<1>7. r = [n \in Nat |-> IF n = 0 THEN s ELSE W(n - 1, r[n - 1])]
  <2>1. ASSUME NEW n \in Nat, n # 0 PROVE r[n] = W(n - 1, r[n - 1])
    <3>1. n - 1 \in Nat /\ (n - 1) + 1 = n
      BY <2>1
    <3> QED BY <1>6, <3>1
  <2> QED BY <1>6, <2>1
<1>8. f = [n \in Nat |-> IF n = 0 THEN s ELSE W(n - 1, f[n - 1])]
  BY <1>7, Zenon DEF Freeing, W
<1>9. f[0] = s /\ \A n \in Nat : f[n + 1] = W(n, f[n])
  <2>1. ASSUME NEW n \in Nat PROVE f[n + 1] = W(n, f[n])
    <3>1. n + 1 \in Nat /\ n + 1 # 0 /\ (n + 1) - 1 = n
      OBVIOUS
    <3> QED BY <1>8, <3>1
  <2> QED BY <1>8, <2>1
<1>10. ASSUME NEW n \in Nat PROVE f[n] \in D
  <2> DEFINE S == {i \in Nat : f[i] \in D}
  <2>1. 0 \in S
    BY <1>9 DEF D
  <2>2. ASSUME NEW i \in Nat, i \in S PROVE i + 1 \in S
    BY <1>1, <1>9, <2>2
  <2>3. Nat \subseteq S
    <3> HIDE DEF S
    <3> QED BY <2>1, <2>2, NaturalsIn
  <2> QED BY <2>3
<1>11. ASSUME NEW n \in Nat
       PROVE  /\ f[n] \in Stores(session)
              /\ n \in DOMAIN freed => f[n + 1] = FreeOne(f[n], n, freed[n])
              /\ n \notin DOMAIN freed => f[n + 1] = f[n]
  BY <1>2, <1>9, <1>10 DEF D
<1> QED BY <1>9, <1>11

\* Cores are freed.
LEMMA FreeCoresKeeps ==
    ASSUME session \in Sessions, NEW s \in Stores(session), NEW freed, Freeable(freed)
    PROVE  /\ free_cores(s, freed) \in Stores(session)
           /\ FreedFrom(s, free_cores(s, freed))
<1> DEFINE f == Freeing(s, freed)
<1>1. /\ f[0] = s
      /\ \A n \in Nat : /\ f[n] \in Stores(session)
                        /\ n \in DOMAIN freed => f[n + 1] = FreeOne(f[n], n, freed[n])
                        /\ n \notin DOMAIN freed => f[n + 1] = f[n]
  BY FreeingSteps
<1> HIDE DEF f
<1>2. ASSUME NEW n \in Nat PROVE FreedFrom(s, f[n])
  <2> DEFINE S == {i \in Nat : FreedFrom(s, f[i])}
  <2>1. 0 \in S
    BY <1>1, FreedFromSelf
  <2>2. ASSUME NEW i \in Nat, i \in S PROVE i + 1 \in S
    <3> DEFINE t == f[i]
               u == f[i + 1]
    <3>1. FreedFrom(s, t) /\ t \in Stores(session)
      BY <1>1, <2>2
    <3>2. /\ i \in DOMAIN freed => u = FreeOne(t, i, freed[i])
          /\ i \notin DOMAIN freed => u = t
      BY <1>1
    <3> HIDE DEF t, u
    <3>3. FreedFrom(t, u)
      BY <3>1, <3>2, FreeOneKeeps, FreedFromSelf DEF Freeable
    <3>4. FreedFrom(s, u)
      BY <3>1, <3>3, FreedFromTransitive
    <3> QED BY <3>4 DEF u
  <2>3. Nat \subseteq S
    <3> HIDE DEF S
    <3> QED BY <2>1, <2>2, NaturalsIn
  <2> QED BY <2>3
<1>3. Limit(DOMAIN freed) \in Nat
  BY LastCore DEF Freeable
<1> QED BY <1>1, <1>2, <1>3 DEF f, free_cores

\* Clearing the assignments of s has led to t, before core i.
ClearingAt(s, t, i) ==
    /\ t.availability_cores = s.availability_cores /\ t.claim_index = s.claim_index
    /\ DOMAIN t.scheduled = {}
    /\ \A k \in AssignedThreads(s) : k >= i => Absent(t, s.scheduled[k].para)
    /\ \A p : Absent(t, p) =>
          Absent(s, p) \/ \E k \in AssignedThreads(s) :
                             s.scheduled[k].para = p /\ (k >= i \/ ~Requeues(s.scheduled[k]))

\* The empty list of assignments.
LEMMA EmptyIsPartial == EmptyMap \in Partial /\ DOMAIN EmptyMap = {}
<1>1. EmptyMap \in [{} -> Assignment] /\ DOMAIN EmptyMap = {}
  BY DEF EmptyMap
<1>2. Bounded({}) /\ {} \in SUBSET Nat
  BY BelowIsBounded DEF Bounded
<1> QED BY <1>1, <1>2 DEF Partial

\* The list is taken first.
LEMMA TakingKeeps ==
    ASSUME NEW ses \in Sessions, NEW s \in Stores(ses),
           NEW t, t = [s EXCEPT !.scheduled = EmptyMap]
    PROVE  t \in Stores(ses) /\ ClearingAt(s, t, 0)
<1>1. s \in StoreOf(ses) /\ QueueOK(s, ses) /\ CoresOK(s, ses) /\ Apart(s)
      /\ IndexOK(s, ses) /\ ListOK(s, ses)
  BY DEF Stores
<1>2. /\ t.queue = s.queue /\ t.next_core_offset = s.next_core_offset
      /\ t.availability_cores = s.availability_cores /\ t.scheduled = EmptyMap
      /\ t.claim_index = s.claim_index /\ t.validator_groups = s.validator_groups
      /\ t \in StoreOf(ses)
  BY <1>1, EmptyIsPartial DEF StoreOf
<1>3. Threads(t) = Threads(s) /\ AssignedThreads(t) = {} /\ DOMAIN t.scheduled = {}
  BY <1>2, EmptyIsPartial DEF Threads, AssignedThreads
<1>4. QueueOK(t, ses) /\ CoresOK(t, ses) /\ ListOK(t, ses)
  BY <1>1, <1>2, <1>3 DEF QueueOK, CoresOK, ListOK, FreshList
<1>5. Apart(t) /\ IndexOK(t, ses)
  BY <1>1, <1>2, <1>3 DEF Apart, IndexOK
<1>6. \A k \in AssignedThreads(s) : Absent(t, s.scheduled[k].para)
  BY <1>1, <1>2, <1>3 DEF Apart, Absent
<1>7. \A p : Absent(t, p) =>
          Absent(s, p) \/ \E k \in AssignedThreads(s) : s.scheduled[k].para = p
  BY <1>2, <1>3 DEF Absent
<1>8. \A k \in AssignedThreads(s) : k >= 0
  <2>1. DOMAIN s.scheduled \subseteq Nat
    BY <1>1, StoreTypes
  <2> QED BY <2>1 DEF AssignedThreads
<1>9. ClearingAt(s, t, 0)
  BY <1>2, <1>3, <1>6, <1>7, <1>8 DEF ClearingAt
<1> QED BY <1>2, <1>4, <1>5, <1>9 DEF Stores

\* A claim is queued.
LEMMA EnqueueTypes ==
    ASSUME NEW ses \in Sessions, NEW s \in StoreOf(ses), NEW p \in ParaIds, NEW r \in Nat,
           ses.config.parathread_cores > 0
    PROVE  enqueue_entry(s, p, r, ses.config.parathread_cores) \in StoreOf(ses)
<1> DEFINE n == ses.config.parathread_cores
           m == s.next_core_offset + 1
           e == [para |-> p, retries |-> r, core_offset |-> s.next_core_offset]
<1>1. s.queue \in Seq(Entry) /\ s.next_core_offset \in Nat
  BY StoreTypes
<1>2. e \in Entry /\ Append(s.queue, e) \in Seq(Entry)
  BY <1>1 DEF Entry
<1>3. m \in Nat /\ n \in Nat \ {0}
  BY <1>1, SessionTypes
<1>4. enqueue_entry(s, p, r, n)
        = [s EXCEPT !.queue = Append(s.queue, e), !.next_core_offset = m % n]
  BY DEF enqueue_entry
<1> HIDE DEF m, n, e
<1>5. m % n \in Nat
  BY <1>3, Division
<1>6. enqueue_entry(s, p, r, n) \in StoreOf(ses)
  BY <1>2, <1>4, <1>5 DEF StoreOf
<1> QED BY <1>6 DEF n

\* Assignments are only requeued where there are cores to queue for.
Clearable(s) ==
    \/ config.parathread_cores > 0
    \/ \A k \in DOMAIN s.scheduled : ~Requeues(s.scheduled[k])

\* One assignment is cleared.
LEMMA ClearOneKeeps ==
    ASSUME session \in Sessions, NEW s \in Stores(session), Clearable(s),
           NEW t \in Stores(session), NEW i \in Nat, ClearingAt(s, t, i),
           NEW u, u = IF i \in DOMAIN s.scheduled THEN ClearOne(t, s.scheduled[i]) ELSE t
    PROVE  u \in Stores(session) /\ ClearingAt(s, u, i + 1)
<1> DEFINE a == s.scheduled[i]
<1>1. s \in StoreOf(session) /\ Apart(s) /\ IndexOK(s, session) /\ ListOK(s, session)
  BY DEF Stores
<1>2. /\ DOMAIN s.scheduled \subseteq Nat
      /\ \A k \in DOMAIN s.scheduled : s.scheduled[k] \in Assignment
  BY <1>1, StoreTypes
<1>3. \A k \in AssignedThreads(s) : k \in Nat /\ (k >= i <=> k = i \/ k >= i + 1)
  BY <1>2 DEF AssignedThreads
<1>4. CASE ~(i \in AssignedThreads(s) /\ Requeues(a))
  <2>1. u = t
    BY <1>4 DEF ClearOne, Requeues, AssignedThreads
  <2>2. \A k \in AssignedThreads(s) :
           k >= i /\ ~(k >= i + 1) => ~Requeues(s.scheduled[k])
    BY <1>3, <1>4
  <2>3. ClearingAt(s, u, i + 1)
    BY <1>3, <2>1, <2>2 DEF ClearingAt
  <2> QED BY <2>1, <2>3
<1>5. CASE i \in AssignedThreads(s) /\ Requeues(a)
  <2>1. /\ i \in DOMAIN s.scheduled /\ a \in Assignment /\ a.kind = "Parathread"
        /\ a.para \in session.parathreads
        /\ a.retries + 1 <= session.config.parathread_retries
        /\ session.config.parathread_cores > 0
    BY <1>2, <1>5 DEF AssignedThreads, Requeues, IsParathread, parathreads, config, Clearable
  <2>2. u = enqueue_entry(t, a.para, a.retries + 1, session.config.parathread_cores)
    BY <1>5, <2>1 DEF ClearOne, config
  <2>3. a.retries + 1 \in Nat
    BY <2>1 DEF Assignment
  <2>4. Absent(t, a.para) /\ a.para \in t.claim_index
    <3>1. i >= i
      OBVIOUS
    <3> QED BY <1>1, <1>5, <2>1, <3>1 DEF ClearingAt, IndexOK
  <2> DEFINE r == a.retries + 1
             p == a.para
  <2>5. /\ r \in Nat /\ r <= session.config.parathread_retries
        /\ p \in session.parathreads /\ Absent(t, p) /\ p \in t.claim_index
        /\ u = enqueue_entry(t, p, r, session.config.parathread_cores)
    BY <2>1, <2>2, <2>3, <2>4
  <2> HIDE DEF r, p
  <2>6. /\ u \in Stores(session)
        /\ u.availability_cores = t.availability_cores /\ u.scheduled = t.scheduled
        /\ u.claim_index = t.claim_index
        /\ \A x : Absent(u, x) <=> Absent(t, x) /\ x # p
    BY <2>1, <2>5, EnqueueKeeps
  <2>10. \A k \in AssignedThreads(s) : s.scheduled[k].para = p => k = i
    BY <1>1, <1>5, <2>1 DEF ListOK, AssignedThreads, p
  <2>11. \A k \in AssignedThreads(s) : k >= i + 1 => Absent(u, s.scheduled[k].para)
    BY <1>3, <2>6, <2>10 DEF ClearingAt
  <2>12. ASSUME NEW x, Absent(u, x)
         PROVE  Absent(s, x) \/ \E k \in AssignedThreads(s) :
                   s.scheduled[k].para = x /\ (k >= i + 1 \/ ~Requeues(s.scheduled[k]))
    <3>1. Absent(t, x) /\ x # p
      BY <2>6, <2>12
    <3>2. CASE Absent(s, x)
      BY <3>2
    <3>3. CASE ~Absent(s, x)
      <4>1. PICK k \in AssignedThreads(s) :
                s.scheduled[k].para = x /\ (k >= i \/ ~Requeues(s.scheduled[k]))
        BY <3>1, <3>3 DEF ClearingAt
      <4>2. k # i
        BY <3>1, <4>1 DEF p
      <4> QED BY <1>3, <4>1, <4>2
    <3> QED BY <3>2, <3>3
  <2>13. ClearingAt(s, u, i + 1)
    BY <2>6, <2>11, <2>12 DEF ClearingAt
  <2> QED BY <2>6, <2>13
<1> QED BY <1>4, <1>5

\* The assignments are cleared: a claim is lost only if it is not to be requeued.
LEMMA ClearKeeps ==
    ASSUME session \in Sessions, NEW s \in Stores(session), Clearable(s)
    PROVE  /\ clear(s) \in Stores(session)
           /\ clear(s).availability_cores = s.availability_cores
           /\ clear(s).claim_index = s.claim_index /\ DOMAIN clear(s).scheduled = {}
           /\ \A p : Absent(clear(s), p) =>
                 Absent(s, p) \/ \E k \in AssignedThreads(s) :
                                    s.scheduled[k].para = p /\ ~Requeues(s.scheduled[k])
<1> DEFINE D == StoreOf(session)
           A == s.scheduled
           x == [s EXCEPT !.scheduled = EmptyMap]
           W(i, t) == IF i \in DOMAIN A THEN ClearOne(t, A[i]) ELSE t
           F == [d \in Nat \X D |-> W(d[1], d[2])]
           f == Clearing(x, A)
<1>0. s \in D /\ DOMAIN A \subseteq Nat /\ Bounded(DOMAIN A)
      /\ \A k \in DOMAIN A : A[k] \in Assignment
  <2>1. s \in StoreOf(session)
    BY DEF Stores
  <2> QED BY <2>1, StoreTypes
<1>1. ASSUME NEW i, NEW t \in D PROVE W(i, t) \in D
  <2>1. CASE i \in DOMAIN A /\ Requeues(A[i])
    <3>1. A[i].para \in ParaIds /\ A[i].retries + 1 \in Nat /\ session.config.parathread_cores > 0
      BY <1>0, <2>1 DEF Assignment, Clearable, config
    <3>2. W(i, t) = enqueue_entry(t, A[i].para, A[i].retries + 1, session.config.parathread_cores)
      BY <2>1 DEF ClearOne, config
    <3> QED BY <3>1, <3>2, EnqueueTypes
  <2>2. CASE ~(i \in DOMAIN A /\ Requeues(A[i]))
    BY <2>2 DEF ClearOne
  <2> QED BY <2>1, <2>2
<1>2. ASSUME NEW i \in Nat, NEW t \in Stores(session), ClearingAt(s, t, i)
      PROVE  W(i, t) \in Stores(session) /\ ClearingAt(s, W(i, t), i + 1)
  <2> DEFINE u == W(i, t)
  <2>1. u = IF i \in DOMAIN s.scheduled THEN ClearOne(t, s.scheduled[i]) ELSE t
    OBVIOUS
  <2> HIDE DEF u
  <2>2. u \in Stores(session) /\ ClearingAt(s, u, i + 1)
    BY <1>2, <2>1, ClearOneKeeps
  <2> QED BY <2>2 DEF u
<1>3. x \in Stores(session) /\ ClearingAt(s, x, 0)
  <2>1. x = [s EXCEPT !.scheduled = EmptyMap]
    OBVIOUS
  <2> HIDE DEF x
  <2> QED BY <2>1, TakingKeeps
<1> HIDE DEF W, x
<1>4. F \in TurnsIn(D)
  BY <1>1 DEF TurnsIn
<1>5. \A i \in Nat, t \in D : F[<<i, t>>] = W(i, t)
  OBVIOUS
<1>6. x \in D
  BY <1>3 DEF Stores
<1> HIDE DEF D, F
<1>7. PICK r : IsLoop(r, D, F, x)
  BY <1>4, <1>6, LoopExists
<1>8. /\ r \in [Nat -> D] /\ r[0] = x
      /\ \A n \in Nat : r[n + 1] = W(n, r[n])
  BY <1>5, <1>7 DEF IsLoop
<1>9. r = [n \in Nat |-> IF n = 0 THEN x ELSE W(n - 1, r[n - 1])]
  <2>1. ASSUME NEW n \in Nat, n # 0 PROVE r[n] = W(n - 1, r[n - 1])
    <3>1. n - 1 \in Nat /\ (n - 1) + 1 = n
      BY <2>1
    <3> QED BY <1>8, <3>1
  <2> QED BY <1>8, <2>1
<1>10. f = [n \in Nat |-> IF n = 0 THEN x ELSE W(n - 1, f[n - 1])]
  <2> HIDE DEF A
  <2> QED BY <1>9, Zenon DEF Clearing, W
<1> HIDE DEF f
<1>11. ASSUME NEW n \in Nat PROVE f[n] \in Stores(session) /\ ClearingAt(s, f[n], n)
  <2> DEFINE S == {i \in Nat : f[i] \in Stores(session) /\ ClearingAt(s, f[i], i)}
  <2>1. 0 \in S
    BY <1>3, <1>10
  <2>2. ASSUME NEW i \in Nat, i \in S PROVE i + 1 \in S
    <3>1. i + 1 \in Nat /\ i + 1 # 0 /\ (i + 1) - 1 = i
      OBVIOUS
    <3>2. f[i + 1] = W(i, f[i])
      BY <1>10, <3>1
    <3> QED BY <1>2, <2>2, <3>1, <3>2
  <2>3. Nat \subseteq S
    <3> HIDE DEF S
    <3> QED BY <2>1, <2>2, NaturalsIn
  <2> QED BY <2>3
<1> DEFINE l == Limit(DOMAIN A)
<1>12. l \in Nat /\ \A k \in DOMAIN A : k < l /\ k \in Nat
  BY <1>0, LastCore
<1>13. clear(s) = f[l]
  BY DEF clear, f, x
<1> HIDE DEF l
<1>14. f[l] \in Stores(session) /\ ClearingAt(s, f[l], l)
  BY <1>11, <1>12
<1>15. \A k \in AssignedThreads(s) : ~(k >= l)
  BY <1>12 DEF AssignedThreads
<1> QED BY <1>13, <1>14, <1>15 DEF ClearingAt

\* Cores that differ have different groups, whatever the rotation.
LEMMA RotationDistinct ==
    ASSUME NEW n \in Nat, NEW r \in Nat, NEW j \in 0..(n - 1), NEW k \in 0..(n - 1),
           (j + r) % n = (k + r) % n
    PROVE  j = k
<1> DEFINE a == j + r
           b == k + r
           x == a \div n
           y == b \div n
           m == a % n
<1>0. a \in Nat /\ b \in Nat /\ n \in Nat \ {0}
  OBVIOUS
<1>1. x \in Nat /\ m \in Nat /\ a = x * n + m
  <2> HIDE DEF a
  <2> QED BY <1>0, Division
<1>2. y \in Nat /\ b = y * n + m
  <2>1. y \in Nat /\ b = y * n + (b % n)
    <3> HIDE DEF b
    <3> QED BY <1>0, Division
  <2>2. b % n = m
    OBVIOUS
  <2> HIDE DEF b, y, m
  <2> QED BY <2>1, <2>2
<1> HIDE DEF x, y, m
<1>3. x * n \in Nat /\ y * n \in Nat
  BY <1>1, <1>2
<1>4. x * n - y * n = j - k
  BY <1>1, <1>2, <1>3
<1>5. CASE x = y
  BY <1>3, <1>4, <1>5
<1>6. CASE x > y
  <2>1. x * n >= (y + 1) * n /\ (y + 1) * n = y * n + n
    BY <1>1, <1>2, <1>6
  <2> QED BY <1>3, <1>4, <2>1
<1>7. CASE y > x
  <2>1. y * n >= (x + 1) * n /\ (x + 1) * n = x * n + n
    BY <1>1, <1>2, <1>7
  <2> QED BY <1>3, <1>4, <2>1
<1> QED BY <1>1, <1>2, <1>5, <1>6, <1>7

\* There are as many groups as cores, or none.
LEMMA GroupCount ==
    ASSUME NEW ses \in Sessions, NEW s \in StoreOf(ses)
    PROVE  \/ NGroups(s) = 0
           \/ /\ NGroups(s) = n_cores(ses) /\ n_cores(ses) > 0 /\ ses.n_validators > 0
              /\ s.validator_groups = GroupsOf(ses.n_validators, n_cores(ses))
<1>1. s.validator_groups = ValidatorGroups(ses)
  BY StoreTypes
<1>2. n_cores(ses) \in Nat /\ ses.n_validators \in Nat
  BY SessionTypes
<1>3. CASE n_cores(ses) = 0 \/ ses.n_validators = 0
  <2>1. DOMAIN s.validator_groups = {}
    BY <1>1, <1>3, EmptyIsPartial DEF ValidatorGroups
  <2>2. NGroups(s) = 0
    BY <2>1, FS_EmptySet DEF NGroups
  <2> QED BY <2>2
<1>4. CASE ~(n_cores(ses) = 0 \/ ses.n_validators = 0)
  <2> DEFINE n == n_cores(ses)
             z == n - 1
  <2>1. s.validator_groups = GroupsOf(ses.n_validators, n)
    BY <1>1, <1>4 DEF ValidatorGroups
  <2>2. n \in Nat \ {0} /\ z \in Int
    BY <1>2, <1>4
  <2> HIDE DEF n
  <2>3. DOMAIN s.validator_groups = 0..z
    BY <1>2, <2>1, <2>2, GroupsPartition
  <2>4. Cardinality(0..z) = IF 0 > z THEN 0 ELSE z - 0 + 1
    <3> HIDE DEF z
    <3> QED BY <2>2, FS_Interval
  <2>5. NGroups(s) = n
    BY <2>2, <2>3, <2>4 DEF NGroups
  <2> QED BY <1>2, <1>4, <2>1, <2>5 DEF n
<1> QED BY <1>3, <1>4

\* An assignment is added to the list.
LEMMA PutIsPartial ==
    ASSUME NEW f \in Partial, NEW k \in Nat, NEW a \in Assignment
    PROVE  /\ Put(f, k, a) \in Partial /\ DOMAIN Put(f, k, a) = DOMAIN f \union {k}
           /\ Put(f, k, a)[k] = a
           /\ \A j \in DOMAIN f : j # k => Put(f, k, a)[j] = f[j]
<1>1. PICK T : Bounded(T) /\ f \in [T -> Assignment]
  BY DEF Partial
<1>2. Put(f, k, a) \in [T \union {k} -> Assignment]
  <2>1. DOMAIN f = T /\ \A j \in T : f[j] \in Assignment
    BY <1>1
  <2> QED BY <2>1 DEF Put
<1>3. Bounded(T \union {k})
  <2>1. PICK b \in Nat : \A j \in T : j <= b
    BY <1>1 DEF Bounded
  <2> DEFINE c == b + k
  <2>2. c \in Nat /\ \A j \in T \union {k} : j \in Nat /\ j <= c
    BY <1>1, <2>1 DEF Bounded
  <2> HIDE DEF c
  <2> QED BY <2>2 DEF Bounded
<1>4. T \union {k} \in SUBSET Nat
  BY <1>3 DEF Bounded
<1>5. Put(f, k, a) \in Partial
  BY <1>2, <1>3, <1>4 DEF Partial
<1>6. /\ DOMAIN Put(f, k, a) = DOMAIN f \union {k} /\ Put(f, k, a)[k] = a
      /\ \A j \in DOMAIN f : j # k => Put(f, k, a)[j] = f[j]
  BY Zenon DEF Put
<1> QED BY <1>5, <1>6

\* The queue loses the claim at a position, and no other.
LEMMA TakesClaim ==
    ASSUME NEW q \in Seq(Entry), NEW n \in 1..Len(q), NEW z, z = RemoveAt(q, n),
           \A i, j \in DOMAIN q : q[i].para = q[j].para => i = j
    PROVE  /\ z \in Seq(Entry)
           /\ \A i \in DOMAIN z : \E j \in DOMAIN q : z[i] = q[j] /\ z[i].para # q[n].para
           /\ \A j \in DOMAIN q : j # n => \E i \in DOMAIN z : z[i] = q[j]
           /\ \A i, j \in DOMAIN z : z[i].para = z[j].para => i = j
<1> DEFINE l == Len(q)
<1>1. /\ z \in Seq(Entry) /\ Len(z) = l - 1
      /\ \A i \in 1..(l - 1) : (i < n => z[i] = q[i]) /\ (i >= n => z[i] = q[i + 1])
  BY WithoutPosition
<1>2. l \in Nat /\ DOMAIN q = 1..l /\ n \in 1..l
  OBVIOUS
<1>3. DOMAIN z = 1..(l - 1)
  BY <1>1
<1> HIDE DEF l
<1>4. ASSUME NEW i \in DOMAIN z
      PROVE  \E j \in DOMAIN q : z[i] = q[j] /\ j # n /\ (i < n => j = i) /\ (i >= n => j = i + 1)
  <2>1. i \in 1..(l - 1)
    BY <1>3
  <2>2. CASE i < n
    BY <1>1, <1>2, <2>1, <2>2
  <2>3. CASE i >= n
    <3>1. i + 1 \in 1..l /\ i + 1 # n
      BY <1>2, <2>1, <2>3
    <3>2. z[i] = q[i + 1]
      BY <1>1, <2>1, <2>3
    <3> QED BY <1>2, <2>3, <3>1, <3>2
  <2> QED BY <1>2, <2>1, <2>2, <2>3
<1>5. \A i \in DOMAIN z : \E j \in DOMAIN q : z[i] = q[j] /\ z[i].para # q[n].para
  BY <1>2, <1>4
<1>6. ASSUME NEW j \in DOMAIN q, j # n PROVE \E i \in DOMAIN z : z[i] = q[j]
  <2>1. j \in 1..l
    BY <1>2
  <2>2. CASE j < n
    <3>1. j \in 1..(l - 1)
      BY <1>2, <2>1, <2>2
    <3> QED BY <1>1, <1>3, <2>2, <3>1
  <2>3. CASE j > n
    <3> DEFINE i == j - 1
    <3>1. i \in 1..(l - 1) /\ i >= n /\ i + 1 = j
      BY <1>2, <2>1, <2>3
    <3> HIDE DEF i
    <3> QED BY <1>1, <1>3, <3>1
  <2> QED BY <1>2, <1>6, <2>1, <2>2, <2>3
<1>7. ASSUME NEW i \in DOMAIN z, NEW j \in DOMAIN z, z[i].para = z[j].para PROVE i = j
  <2>1. PICK x \in DOMAIN q : z[i] = q[x] /\ (i < n => x = i) /\ (i >= n => x = i + 1)
    BY <1>4
  <2>2. PICK y \in DOMAIN q : z[j] = q[y] /\ (j < n => y = j) /\ (j >= n => y = j + 1)
    BY <1>4
  <2>3. x = y
    BY <1>7, <2>1, <2>2
  <2>4. i \in 1..(l - 1) /\ j \in 1..(l - 1)
    BY <1>3
  <2> QED BY <1>2, <2>1, <2>2, <2>3, <2>4
<1> QED BY <1>1, <1>5, <1>6, <1>7

Rotations == age \div config.group_rotation_frequency

\* Assigning the cores that f leaves unassigned has led to t, before core i.
AssigningAt(f, t, i) ==
    /\ t.availability_cores = f.availability_cores /\ t.claim_index = f.claim_index
    /\ FreshList(t, session)
    /\ \A k \in DOMAIN t.scheduled :
          k \in Nat /\ k < i /\ t.scheduled[k].group_idx = (k + Rotations) % NGroups(f)
    /\ \A p : Absent(t, p) => Absent(f, p)
    /\ \A k \in UnassignedCores(f) : k < i =>
          \/ k \in DOMAIN t.scheduled
          \/ /\ k >= Len(parachains)
             /\ \A j \in DOMAIN t.queue : t.queue[j].core_offset # k - Len(parachains)

\* The assignment a of core k is added to the list, and the queue becomes q.
Assigned(t, q, k, a) == [t EXCEPT !.queue = q, !.scheduled = Put(t.scheduled, k, a)]

\* What scheduling one core does: nothing, an assignment of its parachain, or one of
\* the first claim queued for it.
LEMMA ScheduleOneEffect ==
    ASSUME session \in Sessions, age \in 0..MaxSessionAge, NEW t \in StoreOf(session),
           NGroups(t) > 0, NEW k \in Nat, NEW u, u = ScheduleOne(t, k)
    PROVE  \/ /\ k >= Len(parachains) /\ u = t
              /\ \A j \in DOMAIN t.queue : t.queue[j].core_offset # k - Len(parachains)
           \/ \E a \in Assignment :
                 /\ a.group_idx = (k + Rotations) % NGroups(t)
                 /\ k < Len(parachains) /\ a.kind = "Parachain"
                 /\ a.para = parachains[k + 1] /\ u = Assigned(t, t.queue, k, a)
           \/ \E a \in Assignment, n \in 1..Len(t.queue) :
                 /\ a.group_idx = (k + Rotations) % NGroups(t)
                 /\ k >= Len(parachains) /\ a.kind = "Parathread"
                 /\ n = PositionOnCore(t.queue, k - Len(parachains))
                 /\ t.queue[n].core_offset = k - Len(parachains)
                 /\ a.para = t.queue[n].para /\ a.retries = t.queue[n].retries
                 /\ u = Assigned(t, RemoveAt(t.queue, n), k, a)
<1> DEFINE g == (k + Rotations) % NGroups(t)
           o == k - Len(parachains)
           n == PositionOnCore(t.queue, o)
           chain == [kind |-> "Parachain", para |-> parachains[k + 1], retries |-> 0,
                     group_idx |-> g]
           thread == [kind |-> "Parathread", para |-> t.queue[n].para,
                      retries |-> t.queue[n].retries, group_idx |-> g]
<1>1. g \in Nat
  <2>1. age \in Nat /\ session.config.group_rotation_frequency \in Nat \ {0}
    BY SessionTypes, MaxSessionAgeAssumption
  <2>2. Rotations \in Nat
    BY <2>1, Division DEF Rotations, config
  <2>3. NGroups(t) \in Nat \ {0}
    BY GroupCount, SessionTypes
  <2> DEFINE m == k + Rotations
  <2>4. m \in Nat
    BY <2>2
  <2>5. m % NGroups(t) \in Nat
    <3> HIDE DEF m
    <3> QED BY <2>3, <2>4, Division
  <2> QED BY <2>5
<1>2. /\ Len(parachains) \in Nat
      /\ \A i \in 1..Len(parachains) : parachains[i] \in ParaIds
  BY SessionTypes DEF parachains
<1>3. /\ t.queue \in Seq(Entry) /\ DOMAIN t.queue = 1..Len(t.queue)
      /\ \A i \in DOMAIN t.queue : t.queue[i] \in Entry
  BY StoreTypes
<1>4. /\ n \in 0..Len(t.queue)
      /\ n # 0 => t.queue[n].core_offset = o
      /\ n = 0 => \A i \in 1..Len(t.queue) : t.queue[i].core_offset # o
  <2> HIDE DEF o
  <2> QED BY <1>3, FirstOnCore
<1>5. ScheduleOne(t, k)
        = CASE k < Len(parachains) ->
                  [t EXCEPT !.scheduled = Put(t.scheduled, k, chain)]
            [] k >= Len(parachains) /\ n = 0 -> t
            [] k >= Len(parachains) /\ n # 0 ->
                  [t EXCEPT !.queue = RemoveAt(t.queue, n),
                            !.scheduled = Put(t.scheduled, k, thread)]
  BY DEF ScheduleOne, group_assigned_to_core, Rotations
<1>6. CASE k < Len(parachains)
  <2>1. chain \in Assignment /\ chain.kind = "Parachain" /\ chain.group_idx = g
        /\ chain.para = parachains[k + 1]
    BY <1>1, <1>2, <1>6 DEF Assignment
  <2> HIDE DEF chain, thread, g, n
  <2>2. u = [t EXCEPT !.scheduled = Put(t.scheduled, k, chain)]
    BY <1>2, <1>5, <1>6
  <2>3. u = Assigned(t, t.queue, k, chain)
    BY <2>2 DEF Assigned, StoreOf
  <2> QED BY <1>3, <1>6, <2>1, <2>3 DEF g
<1>7. CASE k >= Len(parachains) /\ n = 0
  <2>1. u = t
    <3> HIDE DEF chain, thread, n
    <3> QED BY <1>2, <1>5, <1>7
  <2> QED BY <1>3, <1>4, <1>7, <2>1
<1>8. CASE k >= Len(parachains) /\ n # 0
  <2>1. n \in 1..Len(t.queue) /\ n = PositionOnCore(t.queue, k - Len(parachains))
        /\ t.queue[n].core_offset = k - Len(parachains)
    BY <1>4, <1>8
  <2> HIDE DEF n
  <2>2. thread \in Assignment /\ thread.kind = "Parathread" /\ thread.group_idx = g
        /\ thread.para = t.queue[n].para /\ thread.retries = t.queue[n].retries
    BY <1>1, <1>3, <2>1 DEF Assignment, Entry
  <2> HIDE DEF thread, chain, g
  <2>3. u = Assigned(t, RemoveAt(t.queue, n), k, thread)
    BY <1>2, <1>5, <1>8 DEF Assigned
  <2> QED BY <1>8, <2>1, <2>2, <2>3 DEF g
<1> QED BY <1>2, <1>6, <1>7, <1>8

\* The fields of the storage with an assignment more.
LEMMA AssignedFields ==
    ASSUME NEW ses \in Sessions, NEW t \in StoreOf(ses), NEW q \in Seq(Entry),
           NEW k \in Nat, NEW a \in Assignment, NEW u, u = Assigned(t, q, k, a)
    PROVE  /\ u \in StoreOf(ses) /\ u.queue = q
           /\ u.availability_cores = t.availability_cores /\ u.claim_index = t.claim_index
           /\ u.next_core_offset = t.next_core_offset
           /\ DOMAIN u.scheduled = DOMAIN t.scheduled \union {k}
           /\ u.scheduled[k] = a
           /\ \A j \in DOMAIN t.scheduled : j # k => u.scheduled[j] = t.scheduled[j]
           /\ Threads(u) = Threads(t)
<1> DEFINE z == Put(t.scheduled, k, a)
<1>1. t.scheduled \in Partial
  BY StoreTypes
<1>2. /\ z \in Partial /\ DOMAIN z = DOMAIN t.scheduled \union {k} /\ z[k] = a
      /\ \A j \in DOMAIN t.scheduled : j # k => z[j] = t.scheduled[j]
  BY <1>1, PutIsPartial
<1>3. u = [t EXCEPT !.queue = q, !.scheduled = z]
  BY DEF Assigned
<1> HIDE DEF z
<1>4. /\ u \in StoreOf(ses) /\ u.queue = q /\ u.scheduled = z
      /\ u.availability_cores = t.availability_cores /\ u.claim_index = t.claim_index
      /\ u.next_core_offset = t.next_core_offset
  BY <1>2, <1>3 DEF StoreOf
<1>5. Threads(u) = Threads(t)
  BY <1>4 DEF Threads
<1> QED BY <1>2, <1>4, <1>5

\* What is assigned to a core is sound on it.
LEMMA AssignedList ==
    ASSUME session \in Sessions, age \in 0..MaxSessionAge,
           NEW f \in Stores(session), NGroups(f) > 0,
           NEW t \in Stores(session), NEW i \in UnassignedCores(f), AssigningAt(f, t, i),
           NEW q \in Seq(Entry), NEW a \in Assignment, NEW u, u = Assigned(t, q, i, a),
           a.group_idx = (i + Rotations) % NGroups(f),
           \A k \in DOMAIN t.scheduled : t.scheduled[k].para # a.para,
           a.kind = "Parachain" => i < Len(parachains) /\ a.para = parachains[i + 1],
           a.kind = "Parathread" =>
              /\ a.para \in parathreads /\ a.retries <= config.parathread_retries
              /\ config.parathread_cores > 0 /\ Multiplexer(session, i)
    PROVE  /\ FreshList(u, session) /\ ListOK(u, session)
           /\ \A k \in DOMAIN u.scheduled :
                 /\ k \in Nat /\ k < i + 1
                 /\ u.scheduled[k].group_idx = (k + Rotations) % NGroups(f)
<1>1. f \in StoreOf(session) /\ t \in StoreOf(session) /\ ListOK(t, session)
  BY DEF Stores
<1>2. DOMAIN f.availability_cores = 0 .. n_cores(session) - 1 /\ n_cores(session) \in Nat
  BY <1>1, StoreTypes, SessionTypes
<1>3. NGroups(f) = n_cores(session)
  BY <1>1, GroupCount
<1>4. i \in 0 .. n_cores(session) - 1 /\ f.availability_cores[i].kind = "Free"
  BY <1>2 DEF UnassignedCores
<1>5. /\ DOMAIN u.scheduled = DOMAIN t.scheduled \union {i} /\ u.scheduled[i] = a
      /\ \A j \in DOMAIN t.scheduled : j # i => u.scheduled[j] = t.scheduled[j]
      /\ u.availability_cores = f.availability_cores
  BY <1>1, <1>4, AssignedFields DEF AssigningAt
<1>6. \A j \in DOMAIN t.scheduled : j # i
  BY <1>4 DEF AssigningAt
<1>7. FreshList(u, session)
  <2>1. FreshList(t, session) /\ t.availability_cores = f.availability_cores
    BY DEF AssigningAt
  <2> QED BY <1>2, <1>4, <1>5, <1>6, <2>1 DEF FreshList, parachains, parathreads, config
<1>8. ASSUME NEW k \in DOMAIN u.scheduled
      PROVE  /\ k \in Nat /\ k < i + 1 /\ k \in 0 .. n_cores(session) - 1
             /\ u.scheduled[k].group_idx = (k + Rotations) % NGroups(f)
  <2>1. k \in 0 .. n_cores(session) - 1
    BY <1>2, <1>5, <1>7 DEF FreshList
  <2> QED BY <1>4, <1>5, <2>1 DEF AssigningAt
<1>9. Rotations \in Nat
  <2>1. age \in Nat /\ session.config.group_rotation_frequency \in Nat \ {0}
    BY SessionTypes, MaxSessionAgeAssumption
  <2> QED BY <2>1, Division DEF Rotations, config
<1>10. ASSUME NEW j \in DOMAIN u.scheduled, NEW k \in DOMAIN u.scheduled,
              u.scheduled[j].group_idx = u.scheduled[k].group_idx
       PROVE  j = k
  <2>1. (j + Rotations) % n_cores(session) = (k + Rotations) % n_cores(session)
    BY <1>3, <1>8, <1>10
  <2>2. j \in 0 .. n_cores(session) - 1 /\ k \in 0 .. n_cores(session) - 1
    BY <1>8
  <2> QED BY <1>2, <1>9, <2>1, <2>2, RotationDistinct
<1>11. \A j, k \in DOMAIN u.scheduled : u.scheduled[j].para = u.scheduled[k].para => j = k
  BY <1>1, <1>5, <1>6 DEF ListOK
<1>12. ListOK(u, session)
  BY <1>7, <1>10, <1>11 DEF ListOK
<1> QED BY <1>7, <1>8, <1>12

\* One core is scheduled.
LEMMA ScheduleOneKeeps ==
    ASSUME session \in Sessions, age \in 0..MaxSessionAge,
           NEW f \in Stores(session), NGroups(f) > 0,
           NEW t \in Stores(session), NEW i \in Nat, AssigningAt(f, t, i),
           NEW u, u = IF i \in UnassignedCores(f) THEN ScheduleOne(t, i) ELSE t
    PROVE  u \in Stores(session) /\ AssigningAt(f, u, i + 1)
<1>1. /\ f \in StoreOf(session) /\ t \in StoreOf(session) /\ QueueOK(t, session)
      /\ CoresOK(t, session) /\ Apart(t) /\ IndexOK(t, session) /\ ListOK(t, session)
  BY DEF Stores
<1>2. /\ t.queue \in Seq(Entry) /\ DOMAIN t.queue = 1..Len(t.queue)
      /\ \A k \in DOMAIN t.queue : t.queue[k] \in Entry
      /\ DOMAIN f.availability_cores = 0 .. n_cores(session) - 1
  BY <1>1, StoreTypes
<1>3. NGroups(t) = NGroups(f)
  <2>1. t.validator_groups = f.validator_groups
    BY <1>1, StoreTypes
  <2> QED BY <2>1 DEF NGroups
<1>4. \A k \in UnassignedCores(f) : k \in Nat /\ (k < i + 1 <=> k < i \/ k = i)
  BY <1>2, SessionTypes DEF UnassignedCores
<1>5. \A k \in DOMAIN t.scheduled : k \in Nat /\ k < i /\ k < i + 1 /\ k # i
  BY DEF AssigningAt
<1>6. CASE u = t /\ (i \in UnassignedCores(f) =>
                /\ i >= Len(parachains)
                /\ \A j \in DOMAIN t.queue : t.queue[j].core_offset # i - Len(parachains))
  <2>1. \A k \in UnassignedCores(f) : k < i + 1 =>
          \/ k \in DOMAIN t.scheduled
          \/ /\ k >= Len(parachains)
             /\ \A j \in DOMAIN t.queue : t.queue[j].core_offset # k - Len(parachains)
    BY <1>4, <1>6 DEF AssigningAt
  <2>2. AssigningAt(f, t, i + 1)
    BY <1>5, <2>1 DEF AssigningAt
  <2> QED BY <1>6, <2>2
<1>7. ASSUME i \in UnassignedCores(f), NEW a \in Assignment,
             a.group_idx = (i + Rotations) % NGroups(t),
             i < Len(parachains), a.kind = "Parachain",
             a.para = parachains[i + 1], u = Assigned(t, t.queue, i, a)
      PROVE  u \in Stores(session) /\ AssigningAt(f, u, i + 1)
  <2>1. a.para \notin parathreads /\ i + 1 \in 1..Len(parachains)
    BY <1>7, SessionTypes DEF parachains, parathreads
  <2>2. ASSUME NEW k \in DOMAIN t.scheduled PROVE t.scheduled[k].para # a.para
    <3>1. t.scheduled[k] \in Assignment /\ k \in Nat /\ k # i
      BY <1>1, <1>5, StoreTypes
    <3>2. CASE t.scheduled[k].kind = "Parachain"
      <4>1. k < Len(parachains) /\ t.scheduled[k].para = parachains[k + 1]
        BY <3>2 DEF AssigningAt, FreshList, parachains
      <4>2. k + 1 \in 1..Len(parachains) /\ k + 1 # i + 1
        BY <3>1, <4>1, SessionTypes DEF parachains
      <4> QED BY <1>7, <2>1, <4>1, <4>2, SessionTypes DEF parachains
    <3>3. CASE t.scheduled[k].kind = "Parathread"
      BY <2>1, <3>3 DEF AssigningAt, FreshList, parathreads
    <3> QED BY <3>1, <3>2, <3>3 DEF Assignment
  <2>3. /\ FreshList(u, session) /\ ListOK(u, session)
        /\ \A k \in DOMAIN u.scheduled :
              /\ k \in Nat /\ k < i + 1
              /\ u.scheduled[k].group_idx = (k + Rotations) % NGroups(f)
    <3>1. ~(a.kind = "Parathread")
      BY <1>7
    <3> QED BY <1>2, <1>3, <1>7, <2>2, <3>1, AssignedList
  <2>4. /\ u \in StoreOf(session) /\ u.queue = t.queue
        /\ u.availability_cores = t.availability_cores /\ u.claim_index = t.claim_index
        /\ u.next_core_offset = t.next_core_offset
        /\ DOMAIN u.scheduled = DOMAIN t.scheduled \union {i} /\ u.scheduled[i] = a
        /\ \A j \in DOMAIN t.scheduled : j # i => u.scheduled[j] = t.scheduled[j]
        /\ Threads(u) = Threads(t)
    BY <1>1, <1>2, <1>7, AssignedFields
  <2>5. /\ AssignedThreads(u) = AssignedThreads(t)
        /\ \A k \in AssignedThreads(t) : u.scheduled[k] = t.scheduled[k]
    BY <1>5, <1>7, <2>4 DEF AssignedThreads
  <2>6. QueueOK(u, session) /\ CoresOK(u, session)
    BY <1>1, <2>4 DEF QueueOK, CoresOK
  <2>7. Apart(u) /\ IndexOK(u, session)
    BY <1>1, <2>4, <2>5 DEF Apart, IndexOK
  <2>8. \A p : Absent(u, p) => Absent(f, p)
    <3>1. \A p : Absent(u, p) => Absent(t, p)
      BY <2>4, <2>5 DEF Absent
    <3> QED BY <3>1 DEF AssigningAt
  <2>9. \A k \in UnassignedCores(f) : k < i + 1 =>
          \/ k \in DOMAIN u.scheduled
          \/ /\ k >= Len(parachains)
             /\ \A j \in DOMAIN u.queue : u.queue[j].core_offset # k - Len(parachains)
    BY <1>4, <2>4 DEF AssigningAt
  <2>10. AssigningAt(f, u, i + 1)
    BY <2>3, <2>4, <2>8, <2>9 DEF AssigningAt
  <2> QED BY <2>3, <2>4, <2>6, <2>7, <2>10 DEF Stores
<1>8. ASSUME i \in UnassignedCores(f), NEW a \in Assignment, NEW n \in 1..Len(t.queue),
             a.group_idx = (i + Rotations) % NGroups(t), i >= Len(parachains),
             t.queue[n].core_offset = i - Len(parachains),
             a.kind = "Parathread", a.para = t.queue[n].para,
             a.retries = t.queue[n].retries, u = Assigned(t, RemoveAt(t.queue, n), i, a)
      PROVE  u \in Stores(session) /\ AssigningAt(f, u, i + 1)
  <2> DEFINE q == RemoveAt(t.queue, n)
  <2>1. /\ q \in Seq(Entry)
        /\ \A x \in DOMAIN q : \E y \in DOMAIN t.queue :
              q[x] = t.queue[y] /\ q[x].para # t.queue[n].para
        /\ \A y \in DOMAIN t.queue : y # n => \E x \in DOMAIN q : q[x] = t.queue[y]
        /\ \A x, y \in DOMAIN q : q[x].para = q[y].para => x = y
    BY <1>1, <1>2, TakesClaim DEF Apart
  <2> HIDE DEF q
  <2>2. /\ a.para \in parathreads /\ a.retries <= config.parathread_retries
        /\ config.parathread_cores > 0 /\ n \in DOMAIN t.queue /\ Multiplexer(session, i)
    <3>1. /\ n \in DOMAIN t.queue /\ t.queue[n].core_offset \in Nat
          /\ t.queue[n].core_offset < config.parathread_cores
      BY <1>1, <1>2, <1>8 DEF QueueOK, Entry, config
    <3>2. config.parathread_cores \in Nat
      BY SessionTypes DEF config
    <3>3. Multiplexer(session, i)
      BY <1>8, <3>1 DEF Multiplexer, config, parachains
    <3> QED BY <1>1, <1>8, <3>1, <3>2, <3>3 DEF QueueOK, config, parathreads
  <2>3. ASSUME NEW k \in DOMAIN t.scheduled PROVE t.scheduled[k].para # a.para
    <3>1. t.scheduled[k] \in Assignment
      BY <1>1, StoreTypes
    <3>2. CASE t.scheduled[k].kind = "Parachain"
      <4>1. k \in Nat /\ k < Len(parachains) /\ t.scheduled[k].para = parachains[k + 1]
        BY <1>5, <3>2 DEF AssigningAt, FreshList, parachains
      <4>2. k + 1 \in 1..Len(parachains)
        BY <4>1, SessionTypes DEF parachains
      <4>3. parachains[k + 1] \notin parathreads
        BY <4>2, SessionTypes DEF parachains, parathreads
      <4> QED BY <2>2, <4>1, <4>3
    <3>3. CASE t.scheduled[k].kind = "Parathread"
      BY <1>1, <1>8, <2>2, <3>3 DEF Apart, AssignedThreads
    <3> QED BY <3>1, <3>2, <3>3 DEF Assignment
  <2>4. /\ FreshList(u, session) /\ ListOK(u, session)
        /\ \A k \in DOMAIN u.scheduled :
              /\ k \in Nat /\ k < i + 1
              /\ u.scheduled[k].group_idx = (k + Rotations) % NGroups(f)
    <3>1. ~(a.kind = "Parachain") /\ u = Assigned(t, q, i, a)
      BY <1>8 DEF q
    <3> QED BY <1>3, <1>8, <2>1, <2>2, <2>3, <3>1, AssignedList
  <2>5. /\ u \in StoreOf(session) /\ u.queue = q
        /\ u.availability_cores = t.availability_cores /\ u.claim_index = t.claim_index
        /\ u.next_core_offset = t.next_core_offset
        /\ DOMAIN u.scheduled = DOMAIN t.scheduled \union {i} /\ u.scheduled[i] = a
        /\ \A j \in DOMAIN t.scheduled : j # i => u.scheduled[j] = t.scheduled[j]
        /\ Threads(u) = Threads(t)
    <3>1. u = Assigned(t, q, i, a)
      BY <1>8 DEF q
    <3>2. t \in StoreOf(session) /\ q \in Seq(Entry)
      BY <1>1, <2>1
    <3> QED BY <3>1, <3>2, AssignedFields
  <2>6. /\ AssignedThreads(u) = AssignedThreads(t) \union {i}
        /\ \A k \in AssignedThreads(t) : u.scheduled[k] = t.scheduled[k]
    BY <1>5, <1>8, <2>5 DEF AssignedThreads
  <2>7. QueueOK(u, session)
    BY <1>1, <2>1, <2>5 DEF QueueOK
  <2>8. CoresOK(u, session)
    BY <1>1, <2>5 DEF CoresOK
  <2>9. Apart(u)
    <3>1. \A x \in DOMAIN q, k \in Threads(t) : q[x].para # t.availability_cores[k].para
      BY <1>1, <2>1 DEF Apart
    <3>2. \A x \in DOMAIN q, k \in AssignedThreads(u) : q[x].para # u.scheduled[k].para
      <4> SUFFICES ASSUME NEW x \in DOMAIN q, NEW k \in AssignedThreads(u)
                   PROVE  q[x].para # u.scheduled[k].para
        OBVIOUS
      <4>1. PICK y \in DOMAIN t.queue : q[x] = t.queue[y] /\ q[x].para # a.para
        BY <1>8, <2>1
      <4>2. CASE k = i
        BY <2>5, <4>1, <4>2
      <4>3. CASE k # i
        BY <1>1, <2>6, <4>1, <4>3 DEF Apart
      <4> QED BY <4>2, <4>3
    <3>3. \A j \in Threads(t), k \in AssignedThreads(u) :
             t.availability_cores[j].para # u.scheduled[k].para
      BY <1>1, <1>8, <2>2, <2>5, <2>6 DEF Apart
    <3> QED BY <1>1, <2>1, <2>5, <3>1, <3>2, <3>3 DEF Apart
  <2>10. IndexOK(u, session)
    <3>1. session.config.parathread_cores > 0 => t.queue[n].para \in t.claim_index
      BY <1>1, <2>2 DEF IndexOK
    <3>2. session.config.parathread_cores > 0 =>
             \A x \in DOMAIN q : q[x].para \in t.claim_index
      BY <1>1, <2>1 DEF IndexOK
    <3> QED BY <1>1, <1>8, <2>5, <2>6, <3>1, <3>2 DEF IndexOK
  <2>11. \A p : Absent(u, p) => Absent(f, p)
    <3>1. ASSUME NEW p, Absent(u, p) PROVE Absent(t, p)
      <4>1. a.para # p
        BY <2>5, <2>6, <3>1 DEF Absent
      <4>2. \A y \in DOMAIN t.queue : t.queue[y].para # p
        BY <1>8, <2>1, <2>5, <3>1, <4>1 DEF Absent
      <4> QED BY <2>5, <2>6, <3>1, <4>2 DEF Absent
    <3> QED BY <3>1 DEF AssigningAt
  <2>12. \A k \in UnassignedCores(f) : k < i + 1 =>
          \/ k \in DOMAIN u.scheduled
          \/ /\ k >= Len(parachains)
             /\ \A j \in DOMAIN u.queue : u.queue[j].core_offset # k - Len(parachains)
    BY <1>4, <2>1, <2>5 DEF AssigningAt
  <2>13. AssigningAt(f, u, i + 1)
    BY <2>4, <2>5, <2>11, <2>12 DEF AssigningAt
  <2> QED BY <2>4, <2>5, <2>7, <2>8, <2>9, <2>10, <2>13 DEF Stores
<1>9. CASE i \notin UnassignedCores(f)
  BY <1>6, <1>9
<1>10. CASE i \in UnassignedCores(f)
  <2>1. u = ScheduleOne(t, i) /\ NGroups(t) > 0
    BY <1>3, <1>10
  <2>2. \/ /\ i >= Len(parachains) /\ u = t
           /\ \A j \in DOMAIN t.queue : t.queue[j].core_offset # i - Len(parachains)
        \/ \E a \in Assignment :
              /\ a.group_idx = (i + Rotations) % NGroups(t)
              /\ i < Len(parachains) /\ a.kind = "Parachain"
              /\ a.para = parachains[i + 1] /\ u = Assigned(t, t.queue, i, a)
        \/ \E a \in Assignment, n \in 1..Len(t.queue) :
              /\ a.group_idx = (i + Rotations) % NGroups(t)
              /\ i >= Len(parachains) /\ a.kind = "Parathread"
              /\ n = PositionOnCore(t.queue, i - Len(parachains))
              /\ t.queue[n].core_offset = i - Len(parachains)
              /\ a.para = t.queue[n].para /\ a.retries = t.queue[n].retries
              /\ u = Assigned(t, RemoveAt(t.queue, n), i, a)
    BY <1>1, <2>1, ScheduleOneEffect
  <2> QED BY <1>6, <1>7, <1>8, <1>10, <2>2
<1> QED BY <1>9, <1>10

\* The sweep of `schedule`, core by core.
LEMMA AssigningSteps ==
    ASSUME session \in Sessions, age \in 0..MaxSessionAge, NEW x \in StoreOf(session),
           NGroups(x) > 0, NEW U, NEW f, f = Assigning(x, U)
    PROVE  /\ f[0] = x
           /\ \A n \in Nat : /\ f[n] \in StoreOf(session)
                             /\ n \in U => f[n + 1] = ScheduleOne(f[n], n)
                             /\ n \notin U => f[n + 1] = f[n]
<1> DEFINE D == StoreOf(session)
           W(i, t) == IF i \in U THEN ScheduleOne(t, i) ELSE t
           F == [d \in Nat \X D |-> W(d[1], d[2])]
<1>1. ASSUME NEW i \in Nat, NEW t \in D PROVE W(i, t) \in D
  <2>1. NGroups(t) > 0
    <3>1. t.validator_groups = x.validator_groups
      BY StoreTypes
    <3> QED BY <3>1 DEF NGroups
  <2> DEFINE v == ScheduleOne(t, i)
  <2>2. v \in D
    <3>1. \/ v = t
          \/ \E a \in Assignment, q \in Seq(Entry) : v = Assigned(t, q, i, a)
      <4>1. t.queue \in Seq(Entry)
            /\ \A n \in 1..Len(t.queue) : RemoveAt(t.queue, n) \in Seq(Entry)
        BY StoreTypes, WithoutPosition
      <4>2. \/ /\ i >= Len(parachains) /\ v = t
               /\ \A j \in DOMAIN t.queue :
                     t.queue[j].core_offset # i - Len(parachains)
            \/ \E a \in Assignment :
                  /\ a.group_idx = (i + Rotations) % NGroups(t)
                  /\ i < Len(parachains) /\ a.kind = "Parachain"
                  /\ a.para = parachains[i + 1] /\ v = Assigned(t, t.queue, i, a)
            \/ \E a \in Assignment, n \in 1..Len(t.queue) :
                  /\ a.group_idx = (i + Rotations) % NGroups(t)
                  /\ i >= Len(parachains) /\ a.kind = "Parathread"
                  /\ n = PositionOnCore(t.queue, i - Len(parachains))
                  /\ t.queue[n].core_offset = i - Len(parachains)
                  /\ a.para = t.queue[n].para /\ a.retries = t.queue[n].retries
                  /\ v = Assigned(t, RemoveAt(t.queue, n), i, a)
        BY <2>1, ScheduleOneEffect
      <4> HIDE DEF v
      <4> QED BY <4>1, <4>2
    <3> HIDE DEF v
    <3>2. ASSUME NEW a \in Assignment, NEW q \in Seq(Entry), v = Assigned(t, q, i, a)
          PROVE  v \in StoreOf(session)
      BY <3>2, AssignedFields
    <3> QED BY <3>1, <3>2
  <2> QED BY <2>2
<1>2. \A i, t : /\ i \in U => W(i, t) = ScheduleOne(t, i)
                /\ i \notin U => W(i, t) = t
  OBVIOUS
<1> HIDE DEF W
<1>3. F \in TurnsIn(D)
  BY <1>1 DEF TurnsIn
<1>4. \A i \in Nat, t \in D : F[<<i, t>>] = W(i, t)
  OBVIOUS
<1> HIDE DEF D, F
<1>5. PICK r : IsLoop(r, D, F, x)
  <2>1. x \in D
    BY DEF D
  <2> QED BY <1>3, <2>1, LoopExists
<1>6. /\ r \in [Nat -> D] /\ r[0] = x
      /\ \A n \in Nat : r[n + 1] = W(n, r[n])
  BY <1>4, <1>5 DEF IsLoop
<1>7. r = [n \in Nat |-> IF n = 0 THEN x ELSE W(n - 1, r[n - 1])]
  <2>1. ASSUME NEW n \in Nat, n # 0 PROVE r[n] = W(n - 1, r[n - 1])
    <3>1. n - 1 \in Nat /\ (n - 1) + 1 = n
      BY <2>1
    <3> QED BY <1>6, <3>1
  <2> QED BY <1>6, <2>1
<1>8. f = [n \in Nat |-> IF n = 0 THEN x ELSE W(n - 1, f[n - 1])]
  BY <1>7, Zenon DEF Assigning, W
<1>9. f[0] = x /\ \A n \in Nat : f[n + 1] = W(n, f[n])
  <2>1. ASSUME NEW n \in Nat PROVE f[n + 1] = W(n, f[n])
    <3>1. n + 1 \in Nat /\ n + 1 # 0 /\ (n + 1) - 1 = n
      OBVIOUS
    <3> QED BY <1>8, <3>1
  <2> QED BY <1>8, <2>1
<1>10. ASSUME NEW n \in Nat PROVE f[n] \in D
  <2> DEFINE S == {i \in Nat : f[i] \in D}
  <2>1. 0 \in S
    BY <1>9 DEF D
  <2>2. ASSUME NEW i \in Nat, i \in S PROVE i + 1 \in S
    BY <1>1, <1>9, <2>2
  <2>3. Nat \subseteq S
    <3> HIDE DEF S
    <3> QED BY <2>1, <2>2, NaturalsIn
  <2> QED BY <2>3
<1>11. ASSUME NEW n \in Nat
       PROVE  /\ f[n] \in StoreOf(session)
              /\ n \in U => f[n + 1] = ScheduleOne(f[n], n)
              /\ n \notin U => f[n + 1] = f[n]
  BY <1>2, <1>9, <1>10 DEF D
<1> QED BY <1>9, <1>11

\* The cores are scheduled.  No free core idles that has work: its parachain, or a
\* claim that is queued for it.
LEMMA ScheduleKeeps ==
    ASSUME session \in Sessions, age \in 0..MaxSessionAge,
           NEW s \in Stores(session), DOMAIN s.scheduled = {}, NEW freed, Freeable(freed),
           NEW u, u = schedule(s, freed)
    PROVE  /\ u \in Stores(session) /\ u.claim_index \subseteq s.claim_index
           /\ FreshList(u, session)
           /\ \A p : Absent(u, p) => Absent(s, p) \/ (Handles(s, p) /\ p \notin u.claim_index)
           /\ NGroups(u) > 0 => \A k \in UnassignedCores(u) :
                 /\ k >= Len(parachains)
                 /\ \A j \in DOMAIN u.queue : u.queue[j].core_offset # k - Len(parachains)
<1> DEFINE x == free_cores(s, freed)
           U == UnassignedCores(x)
           f == Assigning(x, U)
           l == Limit(U)
<1>1. x \in Stores(session) /\ FreedFrom(s, x)
  BY FreeCoresKeeps
<1>2. x.claim_index \subseteq s.claim_index /\ DOMAIN x.scheduled = {}
      /\ \A p : Absent(x, p) => Absent(s, p) \/ (Handles(s, p) /\ p \notin x.claim_index)
  BY <1>1 DEF FreedFrom
<1>3. u = IF NGroups(x) = 0 THEN x ELSE f[l]
  BY DEF schedule
<1> HIDE DEF x
<1>4. x \in StoreOf(session)
  BY <1>1 DEF Stores
<1>5. /\ DOMAIN x.availability_cores = 0 .. n_cores(session) - 1
      /\ n_cores(session) \in Nat
  BY <1>4, StoreTypes, SessionTypes
<1>6. U \subseteq 0 .. n_cores(session) - 1
  BY <1>5 DEF UnassignedCores
<1>7. CASE NGroups(x) = 0
  <2>1. u = x
    BY <1>3, <1>7
  <2>2. FreshList(u, session)
    BY <1>2, <2>1 DEF FreshList
  <2>3. ~(NGroups(u) > 0)
    BY <1>7, <2>1
  <2> QED BY <1>1, <1>2, <2>1, <2>2, <2>3
<1>8. CASE NGroups(x) # 0
  <2>1. NGroups(x) > 0 /\ u = f[l]
    BY <1>3, <1>4, <1>5, <1>8, GroupCount
  <2>2. /\ f[0] = x
        /\ \A n \in Nat : /\ n \in U => f[n + 1] = ScheduleOne(f[n], n)
                          /\ n \notin U => f[n + 1] = f[n]
    <3> HIDE DEF U
    <3> QED BY <1>4, <2>1, AssigningSteps
  <2> HIDE DEF f
  <2>3. AssigningAt(x, x, 0)
    <3>1. \A k \in UnassignedCores(x) : ~(k < 0)
      BY <1>5, <1>6
    <3> QED BY <1>2, <3>1 DEF AssigningAt, FreshList
  <2>4. ASSUME NEW n \in Nat PROVE f[n] \in Stores(session) /\ AssigningAt(x, f[n], n)
    <3> DEFINE S == {i \in Nat : f[i] \in Stores(session) /\ AssigningAt(x, f[i], i)}
    <3>1. 0 \in S
      BY <1>1, <2>2, <2>3
    <3>2. ASSUME NEW i \in Nat, i \in S PROVE i + 1 \in S
      <4> DEFINE v == f[i]
                 w == f[i + 1]
      <4>1. v \in Stores(session) /\ AssigningAt(x, v, i)
        BY <3>2
      <4>2. w = IF i \in UnassignedCores(x) THEN ScheduleOne(v, i) ELSE v
        BY <2>2
      <4> HIDE DEF v, w
      <4>3. w \in Stores(session) /\ AssigningAt(x, w, i + 1)
        BY <1>1, <2>1, <4>1, <4>2, ScheduleOneKeeps
      <4> QED BY <4>3 DEF w
    <3>3. Nat \subseteq S
      <4> HIDE DEF S
      <4> QED BY <3>1, <3>2, NaturalsIn
    <3> QED BY <3>3
  <2>5. l \in Nat /\ \A k \in U : k < l
    BY <1>5, <1>6, BelowIsBounded, LastCore
  <2>6. u \in Stores(session) /\ AssigningAt(x, u, l)
    <3> HIDE DEF l
    <3> QED BY <2>1, <2>4, <2>5
  <2>7. UnassignedCores(u) = {k \in U : k \notin DOMAIN u.scheduled}
    BY <1>2, <2>6 DEF AssigningAt, UnassignedCores
  <2>8. \A k \in UnassignedCores(u) :
            /\ k >= Len(parachains)
            /\ \A j \in DOMAIN u.queue : u.queue[j].core_offset # k - Len(parachains)
    BY <2>5, <2>6, <2>7 DEF AssigningAt
  <2>9. u.claim_index = x.claim_index /\ FreshList(u, session)
         /\ \A p : Absent(u, p) => Absent(x, p)
    BY <2>6 DEF AssigningAt
  <2> QED BY <1>2, <2>6, <2>8, <2>9
<1> QED BY <1>7, <1>8

\* Assignments leave the list.
LEMMA WithoutIsPartial ==
    ASSUME NEW f \in Partial, NEW S
    PROVE  /\ Without(f, S) \in Partial /\ DOMAIN Without(f, S) = DOMAIN f \ S
           /\ \A j \in DOMAIN f \ S : Without(f, S)[j] = f[j]
<1>1. PICK T : Bounded(T) /\ f \in [T -> Assignment]
  BY DEF Partial
<1>2. DOMAIN f = T /\ Without(f, S) \in [T \ S -> Assignment]
  <2>1. DOMAIN f = T /\ \A j \in T : f[j] \in Assignment
    BY <1>1
  <2> QED BY <2>1 DEF Without
<1>3. Bounded(T \ S) /\ T \ S \in SUBSET Nat
  BY <1>1 DEF Bounded
<1>4. Without(f, S) \in Partial
  BY <1>2, <1>3 DEF Partial
<1>5. /\ DOMAIN Without(f, S) = DOMAIN f \ S
      /\ \A j \in DOMAIN f \ S : Without(f, S)[j] = f[j]
  BY Zenon DEF Without
<1> QED BY <1>4, <1>5

\* Assigned cores become occupied.
LEMMA OccupiedKeeps ==
    ASSUME session \in Sessions, NEW s \in Stores(session), FreshList(s, session),
           NEW B, B \subseteq DOMAIN s.scheduled, NEW u, u = occupied(s, B)
    PROVE  /\ u \in Stores(session) /\ u.claim_index = s.claim_index /\ u.queue = s.queue
           /\ \A p : Absent(u, p) => Absent(s, p)
           /\ UnassignedCores(u) \subseteq UnassignedCores(s)
           /\ u.validator_groups = s.validator_groups
<1>1. s \in StoreOf(session) /\ QueueOK(s, session) /\ CoresOK(s, session) /\ Apart(s)
      /\ IndexOK(s, session) /\ ListOK(s, session)
  BY DEF Stores
<1>2. /\ DOMAIN s.availability_cores = 0 .. n_cores(session) - 1
      /\ s.availability_cores \in [0 .. n_cores(session) - 1 -> Core]
      /\ s.scheduled \in Partial
      /\ \A k \in DOMAIN s.scheduled : s.scheduled[k] \in Assignment
  BY <1>1, StoreTypes
<1> DEFINE c == [k \in DOMAIN s.availability_cores |->
                    IF k \in B THEN ToCoreOccupied(s.scheduled[k])
                    ELSE s.availability_cores[k]]
           w == Without(s.scheduled, B)
<1>3. u = [s EXCEPT !.scheduled = w, !.availability_cores = c]
  BY DEF occupied
<1>4. ASSUME NEW k \in B
      PROVE  /\ ToCoreOccupied(s.scheduled[k]) \in Core
             /\ ToCoreOccupied(s.scheduled[k]).kind = s.scheduled[k].kind
             /\ s.scheduled[k].kind \in {"Parachain", "Parathread"}
             /\ s.scheduled[k].kind = "Parathread" =>
                   /\ ToCoreOccupied(s.scheduled[k]).para = s.scheduled[k].para
                   /\ ToCoreOccupied(s.scheduled[k]).retries = s.scheduled[k].retries
  BY <1>2 DEF ToCoreOccupied, ParachainCore, ParathreadCore, Core, Assignment
<1>5. /\ w \in Partial /\ DOMAIN w = DOMAIN s.scheduled \ B
      /\ \A j \in DOMAIN w : w[j] = s.scheduled[j]
  <2>1. w = Without(s.scheduled, B)
    OBVIOUS
  <2>2. /\ Without(s.scheduled, B) \in Partial
        /\ DOMAIN Without(s.scheduled, B) = DOMAIN s.scheduled \ B
        /\ \A j \in DOMAIN s.scheduled \ B : Without(s.scheduled, B)[j] = s.scheduled[j]
    BY <1>2, WithoutIsPartial
  <2> HIDE DEF w
  <2>3. \A j \in DOMAIN s.scheduled \ B : w[j] = s.scheduled[j]
    BY <2>1, <2>2
  <2> QED BY <2>1, <2>2, <2>3
<1>6. /\ c \in [0 .. n_cores(session) - 1 -> Core] /\ DOMAIN c = DOMAIN s.availability_cores
      /\ \A k \in DOMAIN c : c[k] = IF k \in B THEN ToCoreOccupied(s.scheduled[k])
                                    ELSE s.availability_cores[k]
  BY <1>2, <1>4
<1> HIDE DEF c, w
<1>7. /\ u \in StoreOf(session) /\ u.queue = s.queue /\ u.scheduled = w
      /\ u.availability_cores = c /\ u.claim_index = s.claim_index
      /\ u.next_core_offset = s.next_core_offset
      /\ u.validator_groups = s.validator_groups
  BY <1>1, <1>3, <1>5, <1>6 DEF StoreOf
<1>8. /\ Threads(u) = Threads(s) \union (B \intersect AssignedThreads(s))
      /\ AssignedThreads(u) = AssignedThreads(s) \ B
  <2>1. \A k \in B : k \in DOMAIN s.availability_cores /\ s.availability_cores[k].kind = "Free"
    BY DEF FreshList
  <2>2. Threads(u) = Threads(s) \union (B \intersect AssignedThreads(s))
    <3>1. ASSUME NEW k \in B
          PROVE  /\ k \in Threads(u) <=> k \in AssignedThreads(s)
                 /\ k \notin Threads(s)
      <4>1. k \in DOMAIN c /\ c[k] = ToCoreOccupied(s.scheduled[k])
        BY <1>6, <2>1
      <4>2. c[k].kind = s.scheduled[k].kind /\ k \in DOMAIN s.scheduled
        BY <1>4, <4>1
      <4> QED BY <1>7, <2>1, <4>1, <4>2 DEF Threads, AssignedThreads
    <3>2. ASSUME NEW k, k \notin B PROVE k \in Threads(u) <=> k \in Threads(s)
      BY <1>6, <1>7, <3>2 DEF Threads
    <3> QED BY <3>1, <3>2
  <2> QED BY <1>5, <1>7, <2>2 DEF AssignedThreads
<1>9. /\ \A k \in Threads(s) : u.availability_cores[k] = s.availability_cores[k] /\ k \notin B
      /\ \A k \in B \intersect AssignedThreads(s) :
            u.availability_cores[k].para = s.scheduled[k].para
      /\ \A k \in AssignedThreads(u) : u.scheduled[k] = s.scheduled[k]
  <2>1. \A k \in B : k \in DOMAIN s.availability_cores /\ s.availability_cores[k].kind = "Free"
    BY DEF FreshList
  <2>2. \A k \in Threads(s) : u.availability_cores[k] = s.availability_cores[k] /\ k \notin B
    BY <1>6, <1>7, <2>1 DEF Threads
  <2>3. \A k \in B \intersect AssignedThreads(s) :
            u.availability_cores[k].para = s.scheduled[k].para
    BY <1>4, <1>6, <1>7, <2>1 DEF AssignedThreads
  <2> QED BY <1>5, <1>7, <2>2, <2>3 DEF AssignedThreads
<1>10. QueueOK(u, session)
  BY <1>1, <1>7 DEF QueueOK
<1>11. CoresOK(u, session)
  <2> SUFFICES ASSUME NEW k \in DOMAIN c
               PROVE  /\ c[k].kind = "Parachain" => k < Len(session.parachains)
                      /\ c[k].kind = "Parathread" =>
                            /\ c[k].para \in session.parathreads
                            /\ c[k].retries <= session.config.parathread_retries
                            /\ session.config.parathread_cores > 0
                            /\ Multiplexer(session, k)
    BY <1>7 DEF CoresOK
  <2>1. CASE k \in B
    BY <1>4, <1>6, <2>1 DEF FreshList
  <2>2. CASE k \notin B
    BY <1>1, <1>6, <2>2 DEF CoresOK
  <2> QED BY <2>1, <2>2
<1>12. Apart(u)
  <2>1. \A j, k \in AssignedThreads(s) : s.scheduled[j].para = s.scheduled[k].para => j = k
    BY <1>1 DEF ListOK, AssignedThreads
  <2>2. \A j, k \in Threads(u) :
           u.availability_cores[j].para = u.availability_cores[k].para => j = k
    BY <1>1, <1>8, <1>9, <2>1 DEF Apart
  <2>3. \A x \in DOMAIN s.queue, k \in Threads(u) :
           s.queue[x].para # u.availability_cores[k].para
    BY <1>1, <1>8, <1>9 DEF Apart
  <2>4. \A x \in DOMAIN s.queue, k \in AssignedThreads(u) :
           s.queue[x].para # u.scheduled[k].para
    BY <1>1, <1>8, <1>9 DEF Apart
  <2>5. \A j \in Threads(u), k \in AssignedThreads(u) :
           u.availability_cores[j].para # u.scheduled[k].para
    BY <1>1, <1>8, <1>9, <2>1 DEF Apart
  <2> QED BY <1>1, <1>7, <2>2, <2>3, <2>4, <2>5 DEF Apart
<1>13. IndexOK(u, session)
  BY <1>1, <1>7, <1>8, <1>9 DEF IndexOK
<1>14. ListOK(u, session)
  <2>1. \A k \in DOMAIN w : k \in DOMAIN s.scheduled /\ k \notin B /\ w[k] = s.scheduled[k]
    BY <1>5
  <2>2. FreshList(u, session)
    <3> SUFFICES ASSUME NEW k \in DOMAIN w
                 PROVE  /\ k \in DOMAIN c /\ c[k].kind = "Free"
                        /\ w[k].kind = "Parachain" =>
                              /\ k < Len(session.parachains)
                              /\ w[k].para = session.parachains[k + 1]
                        /\ w[k].kind = "Parathread" =>
                              /\ w[k].para \in session.parathreads
                              /\ w[k].retries <= session.config.parathread_retries
                              /\ session.config.parathread_cores > 0
                              /\ Multiplexer(session, k)
      BY <1>7 DEF FreshList
    <3>1. k \in DOMAIN s.scheduled /\ k \notin B /\ w[k] = s.scheduled[k]
      BY <2>1
    <3>2. k \in DOMAIN s.availability_cores /\ s.availability_cores[k].kind = "Free"
      BY <3>1 DEF FreshList
    <3>3. k \in DOMAIN c /\ c[k] = s.availability_cores[k]
      BY <1>6, <3>1, <3>2
    <3> QED BY <3>1, <3>2, <3>3 DEF FreshList
  <2> QED BY <1>1, <1>5, <1>7, <2>2 DEF ListOK
<1>15. \A p : Absent(u, p) => Absent(s, p)
  <2> SUFFICES ASSUME NEW p, Absent(u, p) PROVE Absent(s, p)
    OBVIOUS
  <2>1. \A k \in Threads(s) : s.availability_cores[k].para # p
    BY <1>8, <1>9 DEF Absent
  <2>2. \A k \in AssignedThreads(s) : s.scheduled[k].para # p
    BY <1>8, <1>9 DEF Absent
  <2> QED BY <1>7, <2>1, <2>2 DEF Absent
<1>16. UnassignedCores(u) \subseteq UnassignedCores(s)
  BY <1>4, <1>5, <1>6, <1>7 DEF UnassignedCores
<1> QED BY <1>7, <1>10, <1>11, <1>12, <1>13, <1>14, <1>15, <1>16 DEF Stores

\* What a block's inherent makes of the storage.
LEMMA EnterEffect ==
    ASSUME SchedulerInv, NEW disputed \in SUBSET OccupiedCores,
           NEW freed \in Freed(OccupiedCores \ disputed), Enter(disputed, freed)
    PROVE  /\ store' \in Stores(session)
           /\ NGroups(store') > 0 => \A k \in UnassignedCores(store') :
                 /\ k >= Len(parachains)
                 /\ \A j \in DOMAIN store'.queue :
                       store'.queue[j].core_offset # k - Len(parachains)
           /\ \A p : Absent(store', p) =>
                 \/ Absent(store, p)
                 \/ Handles(store, p) /\ p \notin store'.claim_index
                 \/ \E k \in AssignedThreads(store) :
                       store.scheduled[k].para = p /\ ~Requeues(store.scheduled[k])
<1> DEFINE z == [k \in disputed |-> "Concluded"]
           a == free_cores(store, z)
           b == clear(a)
           c == schedule(b, freed)
<1>1. session \in Sessions /\ store \in Stores(session) /\ age \in 0..MaxSessionAge
  BY DEF SchedulerInv
<1>2. Bounded(OccupiedCores)
  <2>1. store \in StoreOf(session)
    BY <1>1 DEF Stores
  <2>2. DOMAIN store.availability_cores = 0 .. n_cores(session) - 1 /\ n_cores(session) \in Nat
    BY <1>1, <2>1, StoreTypes, SessionTypes
  <2>3. OccupiedCores \subseteq 0 .. n_cores(session) - 1
    BY <2>2 DEF OccupiedCores
  <2> QED BY <2>2, <2>3, BelowIsBounded
<1>3. \A T : T \subseteq OccupiedCores => Bounded(T)
  BY <1>2 DEF Bounded
<1>4. Freeable(z)
  BY <1>3 DEF Freeable
<1>5. Freeable(freed)
  <2>1. PICK T \in SUBSET (OccupiedCores \ disputed) : freed \in [T -> {"Concluded", "TimedOut"}]
    BY DEF Freed
  <2>2. DOMAIN freed = T /\ T \subseteq OccupiedCores
    BY <2>1
  <2> QED BY <1>3, <2>1, <2>2 DEF Freeable
<1> HIDE DEF z
<1>6. a \in Stores(session) /\ FreedFrom(store, a)
  BY <1>1, <1>4, FreeCoresKeeps
<1>7. /\ a.scheduled = store.scheduled /\ a.claim_index \subseteq store.claim_index
      /\ \A p : Handles(a, p) => Handles(store, p)
      /\ \A p : Absent(a, p) => Absent(store, p) \/ (Handles(store, p) /\ p \notin a.claim_index)
  BY <1>6 DEF FreedFrom
<1> HIDE DEF a
<1>8. Clearable(a)
  BY <1>7 DEF Enter, EnqueueDefined, Clearable
<1>9. /\ b \in Stores(session) /\ b.availability_cores = a.availability_cores
      /\ b.claim_index = a.claim_index /\ DOMAIN b.scheduled = {}
      /\ \A p : Absent(b, p) =>
            Absent(a, p) \/ \E k \in AssignedThreads(a) :
                               a.scheduled[k].para = p /\ ~Requeues(a.scheduled[k])
  BY <1>1, <1>6, <1>8, ClearKeeps
<1> HIDE DEF b
<1>10. /\ c \in Stores(session) /\ c.claim_index \subseteq b.claim_index
       /\ FreshList(c, session)
       /\ \A p : Absent(c, p) => Absent(b, p) \/ (Handles(b, p) /\ p \notin c.claim_index)
       /\ NGroups(c) > 0 => \A k \in UnassignedCores(c) :
             /\ k >= Len(parachains)
             /\ \A j \in DOMAIN c.queue : c.queue[j].core_offset # k - Len(parachains)
  BY <1>1, <1>5, <1>9, ScheduleKeeps
<1>11. AfterSchedule(disputed, freed) = c
  BY DEF AfterSchedule, a, b, z
<1> HIDE DEF c
<1>12. PICK B \in SUBSET DOMAIN c.scheduled : store' = occupied(c, B)
  BY <1>11 DEF Enter
<1>13. /\ store' \in Stores(session) /\ store'.claim_index = c.claim_index
       /\ store'.queue = c.queue
       /\ \A p : Absent(store', p) => Absent(c, p)
       /\ UnassignedCores(store') \subseteq UnassignedCores(c)
       /\ store'.validator_groups = c.validator_groups
  <2> DEFINE u == store'
  <2>1. u = occupied(c, B)
    BY <1>12
  <2> HIDE DEF u
  <2>2. /\ u \in Stores(session) /\ u.claim_index = c.claim_index /\ u.queue = c.queue
        /\ \A p : Absent(u, p) => Absent(c, p)
        /\ UnassignedCores(u) \subseteq UnassignedCores(c)
        /\ u.validator_groups = c.validator_groups
    BY <1>1, <1>10, <2>1, OccupiedKeeps
  <2> QED BY <2>2 DEF u
<1>14. NGroups(store') = NGroups(c)
  BY <1>13 DEF NGroups
<1>15. \A p : Handles(b, p) => Handles(a, p)
  BY <1>9 DEF Handles, Threads
<1>16. AssignedThreads(a) = AssignedThreads(store)
  BY <1>7 DEF AssignedThreads
<1>17. ASSUME NEW p, Absent(store', p)
       PROVE  \/ Absent(store, p)
              \/ Handles(store, p) /\ p \notin store'.claim_index
              \/ \E k \in AssignedThreads(store) :
                    store.scheduled[k].para = p /\ ~Requeues(store.scheduled[k])
  <2>1. Absent(b, p) \/ (Handles(b, p) /\ p \notin c.claim_index)
    BY <1>10, <1>13, <1>17
  <2>2. CASE Handles(b, p) /\ p \notin c.claim_index
    BY <1>7, <1>13, <1>15, <2>2
  <2>3. CASE Absent(b, p)
    <3>1. Absent(a, p) \/ \E k \in AssignedThreads(store) :
                    store.scheduled[k].para = p /\ ~Requeues(store.scheduled[k])
      BY <1>7, <1>9, <1>16, <2>3
    <3>2. CASE Absent(a, p)
      BY <1>7, <1>9, <1>10, <1>13, <3>2
    <3> QED BY <3>1, <3>2
  <2> QED BY <2>1, <2>2, <2>3
<1> QED BY <1>10, <1>13, <1>14, <1>17

-----------------------------------------------------------------------------
(* A new session.                                                          *)

\* What a change of the session relies on, whatever the session was.
Movable(s) ==
    /\ s \in [queue : Seq(Entry), next_core_offset : Nat,
              availability_cores : {s.availability_cores}, claim_index : SUBSET ParaIds,
              scheduled : Partial, validator_groups : {s.validator_groups}]
    /\ Bounded(DOMAIN s.availability_cores)
    /\ \A k \in Threads(s) : /\ s.availability_cores[k].para \in ParaIds
                             /\ s.availability_cores[k].retries \in Nat
    /\ Apart(s)
    /\ \A j, k \in DOMAIN s.scheduled :
          /\ s.scheduled[j].para = s.scheduled[k].para => j = k
          /\ s.scheduled[j].group_idx = s.scheduled[k].group_idx => j = k

Unique(t) == \A a, b \in 1..Len(t) : t[a].para = t[b].para => a = b

Holds(t, p) == \E a \in 1..Len(t) : t[a].para = p

\* An entry stands for a claim of s: queued, or handled by one of the first cores.
Came(s, e, i) ==
    \/ \E j \in DOMAIN s.queue : e.para = s.queue[j].para /\ e.retries = s.queue[j].retries
    \/ \E k \in Threads(s) : /\ k < i /\ e.para = s.availability_cores[k].para
                             /\ e.retries = s.availability_cores[k].retries

MergingAt(s, t, i) ==
    /\ t \in Seq(Entry) /\ Unique(t)
    /\ \A a \in 1..Len(t) : Came(s, t[a], i)
    /\ \A j \in DOMAIN s.queue : Holds(t, s.queue[j].para)
    /\ \A k \in Threads(s) : k < i => Holds(t, s.availability_cores[k].para)

\* A handled claim returns to the queue.
LEMMA MergeOneKeeps ==
    ASSUME NEW s, Movable(s), NEW i \in Nat, i \in Threads(s), NEW t, MergingAt(s, t, i),
           NEW e, e = [para |-> s.availability_cores[i].para,
                       retries |-> s.availability_cores[i].retries, core_offset |-> 0],
           NEW u, u = Append(t, e)
    PROVE  MergingAt(s, u, i + 1)
<1>1. e \in Entry /\ e.para = s.availability_cores[i].para
      /\ e.retries = s.availability_cores[i].retries
  BY DEF Movable, Entry
<1>2. t \in Seq(Entry)
  BY DEF MergingAt
<1>3. /\ u \in Seq(Entry) /\ Len(u) = Len(t) + 1 /\ u[Len(t) + 1] = e
      /\ Len(t) \in Nat /\ \A a \in 1..Len(t) : u[a] = t[a]
  BY <1>1, <1>2
<1>4. \A a \in 1..Len(t) : t[a].para # e.para
  <2> SUFFICES ASSUME NEW a \in 1..Len(t), t[a].para = e.para PROVE FALSE
    OBVIOUS
  <2>1. Came(s, t[a], i)
    BY DEF MergingAt
  <2>2. Apart(s) /\ \A k \in Threads(s) : k \in Nat
    BY DEF Movable, Bounded, Threads
  <2>3. CASE \E j \in DOMAIN s.queue : t[a].para = s.queue[j].para
    BY <1>1, <2>2, <2>3 DEF Apart
  <2>4. CASE \E k \in Threads(s) : k < i /\ t[a].para = s.availability_cores[k].para
    BY <1>1, <2>2, <2>4 DEF Apart
  <2> QED BY <2>1, <2>3, <2>4 DEF Came
<1>5. Unique(u)
  <2> SUFFICES ASSUME NEW a \in 1..(Len(t) + 1), NEW b \in 1..(Len(t) + 1), u[a].para = u[b].para
               PROVE  a = b
    BY <1>3 DEF Unique
  <2>1. CASE a \in 1..Len(t) /\ b \in 1..Len(t)
    BY <1>3, <2>1 DEF MergingAt, Unique
  <2>2. CASE a = Len(t) + 1 /\ b \in 1..Len(t)
    BY <1>3, <1>4, <2>2
  <2>3. CASE a \in 1..Len(t) /\ b = Len(t) + 1
    BY <1>3, <1>4, <2>3
  <2>4. CASE a = Len(t) + 1 /\ b = Len(t) + 1
    BY <2>4
  <2> QED BY <1>3, <2>1, <2>2, <2>3, <2>4
<1>6. ASSUME NEW a \in 1..Len(u) PROVE Came(s, u[a], i + 1)
  <2>1. CASE a \in 1..Len(t)
    <3>1. Came(s, u[a], i)
      BY <1>3, <2>1 DEF MergingAt
    <3>2. \A k \in Threads(s) : k \in Nat
      BY DEF Movable, Bounded, Threads
    <3> QED BY <3>1, <3>2 DEF Came
  <2>2. CASE a = Len(t) + 1
    BY <1>1, <1>3, <2>2 DEF Came
  <2> QED BY <1>3, <2>1, <2>2
<1>7. \A p : Holds(t, p) => Holds(u, p)
  BY <1>3 DEF Holds
<1>8. Holds(u, s.availability_cores[i].para)
  BY <1>1, <1>3 DEF Holds
<1>9. \A j \in DOMAIN s.queue : Holds(u, s.queue[j].para)
  BY <1>7 DEF MergingAt
<1>10. ASSUME NEW k \in Threads(s), k < i + 1 PROVE Holds(u, s.availability_cores[k].para)
  <2>1. k \in Nat
    BY DEF Movable, Bounded, Threads
  <2>2. CASE k = i
    BY <1>8, <2>2
  <2>3. CASE k < i
    BY <1>7, <2>3 DEF MergingAt
  <2> QED BY <1>10, <2>1, <2>2, <2>3
<1> QED BY <1>3, <1>5, <1>6, <1>9, <1>10 DEF MergingAt

\* All handled claims return to the queue.
LEMMA MergeKeeps ==
    ASSUME NEW s, Movable(s), NEW m, m = Merging(s)[Limit(DOMAIN s.availability_cores)]
    PROVE  \E l \in Nat : (\A k \in Threads(s) : k < l) /\ MergingAt(s, m, l)
<1> DEFINE D == Seq(Entry)
           E(i) == [para |-> s.availability_cores[i].para,
                    retries |-> s.availability_cores[i].retries, core_offset |-> 0]
           W(i, t) == IF /\ i \in DOMAIN s.availability_cores
                         /\ s.availability_cores[i].kind = "Parathread"
                      THEN Append(t, E(i)) ELSE t
           F == [d \in Nat \X D |-> W(d[1], d[2])]
           f == Merging(s)
           x == s.queue
<1>0. x \in D
  BY DEF Movable
<1>1. ASSUME NEW i, NEW t \in D PROVE W(i, t) \in D
  <2>1. CASE i \in Threads(s)
    <3>1. E(i) \in Entry
      BY <2>1 DEF Movable, Entry
    <3> QED BY <3>1
  <2>2. CASE i \notin Threads(s)
    BY <2>2 DEF Threads
  <2> QED BY <2>1, <2>2
<1>2. ASSUME NEW i \in Nat, NEW t, MergingAt(s, t, i) PROVE MergingAt(s, W(i, t), i + 1)
  <2>1. CASE i \in Threads(s)
    <3> DEFINE u == W(i, t)
               e == E(i)
    <3>1. e = [para |-> s.availability_cores[i].para,
               retries |-> s.availability_cores[i].retries, core_offset |-> 0]
      OBVIOUS
    <3>2. u = Append(t, e)
      BY <2>1 DEF Threads
    <3> HIDE DEF u, e
    <3>3. MergingAt(s, u, i + 1)
      BY <1>2, <2>1, <3>1, <3>2, MergeOneKeeps
    <3> QED BY <3>3 DEF u
  <2>2. CASE i \notin Threads(s)
    <3>1. W(i, t) = t
      BY <2>2 DEF Threads
    <3>2. \A k \in Threads(s) : k \in Nat /\ (k < i + 1 <=> k < i)
      BY <2>2 DEF Movable, Bounded, Threads
    <3>3. MergingAt(s, t, i + 1)
      BY <1>2, <3>2 DEF MergingAt, Came
    <3> QED BY <3>1, <3>3
  <2> QED BY <2>1, <2>2
<1>3. MergingAt(s, x, 0)
  <2>1. DOMAIN x = 1..Len(x)
    BY <1>0
  <2>2. Unique(x)
    BY <2>1 DEF Movable, Apart, Unique
  <2>3. \A k \in Threads(s) : ~(k < 0)
    BY DEF Movable, Bounded, Threads
  <2> QED BY <1>0, <2>1, <2>2, <2>3 DEF MergingAt, Came, Holds
<1> HIDE DEF W
<1>4. F \in TurnsIn(D)
  BY <1>1 DEF TurnsIn
<1>5. \A i \in Nat, t \in D : F[<<i, t>>] = W(i, t)
  OBVIOUS
<1> HIDE DEF D, F, x
<1>6. PICK r : IsLoop(r, D, F, x)
  BY <1>0, <1>4, LoopExists
<1>7. /\ r \in [Nat -> D] /\ r[0] = x
      /\ \A n \in Nat : r[n + 1] = W(n, r[n])
  BY <1>5, <1>6 DEF IsLoop
<1>8. r = [n \in Nat |-> IF n = 0 THEN x ELSE W(n - 1, r[n - 1])]
  <2>1. ASSUME NEW n \in Nat, n # 0 PROVE r[n] = W(n - 1, r[n - 1])
    <3>1. n - 1 \in Nat /\ (n - 1) + 1 = n
      BY <2>1
    <3> QED BY <1>7, <3>1
  <2> QED BY <1>7, <2>1
<1>9. f = [n \in Nat |-> IF n = 0 THEN x ELSE W(n - 1, f[n - 1])]
  BY <1>8, Zenon DEF Merging, W, x
<1> HIDE DEF f
<1>10. ASSUME NEW n \in Nat PROVE MergingAt(s, f[n], n)
  <2> DEFINE S == {i \in Nat : MergingAt(s, f[i], i)}
  <2>1. 0 \in S
    BY <1>3, <1>9
  <2>2. ASSUME NEW i \in Nat, i \in S PROVE i + 1 \in S
    <3>1. i + 1 \in Nat /\ i + 1 # 0 /\ (i + 1) - 1 = i
      OBVIOUS
    <3>2. f[i + 1] = W(i, f[i])
      BY <1>9, <3>1
    <3> QED BY <1>2, <2>2, <3>1, <3>2
  <2>3. Nat \subseteq S
    <3> HIDE DEF S
    <3> QED BY <2>1, <2>2, NaturalsIn
  <2> QED BY <2>3
<1> DEFINE l == Limit(DOMAIN s.availability_cores)
<1>11. l \in Nat /\ \A k \in DOMAIN s.availability_cores : k < l
  BY LastCore DEF Movable
<1>12. m = f[l]
  BY DEF f
<1> HIDE DEF l
<1> QED BY <1>10, <1>11, <1>12 DEF Threads

\* The first i entries of m have been rebalanced into t.
RebalancingAt(ses, m, t, i) ==
    /\ t \in Seq(Entry) /\ Unique(t)
    /\ \A a \in 1..Len(t) :
          /\ t[a].core_offset < ses.config.parathread_cores
          /\ \E b \in 1..Len(m) : /\ b <= i /\ Keeps(ses, m[b])
                                  /\ t[a].para = m[b].para /\ t[a].retries = m[b].retries
    /\ \A b \in 1..Len(m) : b <= i /\ Keeps(ses, m[b]) => Holds(t, m[b].para)

\* A claim that is kept is queued again.
LEMMA RebalanceOneKeeps ==
    ASSUME NEW ses \in Sessions, ses.config.parathread_cores > 0,
           NEW m \in Seq(Entry), Unique(m), NEW i \in Nat, i + 1 \in 1..Len(m),
           Keeps(ses, m[i + 1]), NEW t, RebalancingAt(ses, m, t, i),
           NEW e, e = [m[i + 1] EXCEPT !.core_offset = Len(t) % ses.config.parathread_cores],
           NEW u, u = Append(t, e)
    PROVE  RebalancingAt(ses, m, u, i + 1)
<1> DEFINE c == ses.config.parathread_cores
           o == Len(t) % c
           n == i + 1
<1>1. t \in Seq(Entry) /\ Len(t) \in Nat /\ c \in Nat \ {0}
  <2>1. t \in Seq(Entry) /\ c \in Nat
    BY SessionTypes DEF RebalancingAt
  <2> QED BY <2>1
<1>2. o \in Nat /\ o < c
  <2> HIDE DEF c
  <2> QED BY <1>1
<1>3. n \in 1..Len(m) /\ Keeps(ses, m[n]) /\ m[n] \in Entry /\ n \in Nat
      /\ \A b \in Nat : (b <= n <=> b <= i \/ b = n) /\ ~(n <= i)
  OBVIOUS
<1>4. e = [m[n] EXCEPT !.core_offset = o]
  OBVIOUS
<1> HIDE DEF n, o, c
<1>5. e \in Entry /\ e.core_offset = o /\ e.para = m[n].para /\ e.retries = m[n].retries
  BY <1>2, <1>3, <1>4 DEF Entry
<1>6. /\ u \in Seq(Entry) /\ Len(u) = Len(t) + 1 /\ u[Len(t) + 1] = e
      /\ \A a \in 1..Len(t) : u[a] = t[a]
  BY <1>1, <1>5
<1>7. \A a \in 1..Len(t) : t[a].para # e.para
  <2> SUFFICES ASSUME NEW a \in 1..Len(t), t[a].para = e.para PROVE FALSE
    OBVIOUS
  <2>1. PICK b \in 1..Len(m) : b <= i /\ t[a].para = m[b].para
    BY DEF RebalancingAt
  <2>2. b = n
    BY <1>3, <1>5, <2>1 DEF Unique
  <2> QED BY <1>3, <2>1, <2>2
<1>8. Unique(u)
  <2> SUFFICES ASSUME NEW a \in 1..(Len(t) + 1), NEW b \in 1..(Len(t) + 1), u[a].para = u[b].para
               PROVE  a = b
    BY <1>6 DEF Unique
  <2>1. CASE a \in 1..Len(t) /\ b \in 1..Len(t)
    BY <1>6, <2>1 DEF RebalancingAt, Unique
  <2>2. CASE a = Len(t) + 1 /\ b \in 1..Len(t)
    BY <1>6, <1>7, <2>2
  <2>3. CASE a \in 1..Len(t) /\ b = Len(t) + 1
    BY <1>6, <1>7, <2>3
  <2>4. CASE a = Len(t) + 1 /\ b = Len(t) + 1
    BY <2>4
  <2> QED BY <1>1, <2>1, <2>2, <2>3, <2>4
<1>9. ASSUME NEW a \in 1..Len(u)
      PROVE  /\ u[a].core_offset < c
             /\ \E b \in 1..Len(m) : /\ b <= n /\ Keeps(ses, m[b])
                                     /\ u[a].para = m[b].para /\ u[a].retries = m[b].retries
  <2>1. CASE a \in 1..Len(t)
    <3>1. t[a].core_offset < c
      BY <2>1 DEF RebalancingAt, c
    <3>2. PICK b \in 1..Len(m) : /\ b <= i /\ Keeps(ses, m[b])
                                 /\ t[a].para = m[b].para /\ t[a].retries = m[b].retries
      BY <2>1 DEF RebalancingAt
    <3>3. b <= n
      BY <1>3, <3>2
    <3> QED BY <1>6, <2>1, <3>1, <3>2, <3>3
  <2>2. CASE a = Len(t) + 1
    <3>1. u[a] = e /\ n <= n
      BY <1>3, <1>6, <2>2
    <3> QED BY <1>2, <1>3, <1>5, <3>1
  <2> QED BY <1>1, <1>6, <2>1, <2>2
<1>10. \A p : Holds(t, p) => Holds(u, p)
  BY <1>1, <1>6 DEF Holds
<1>11. Holds(u, m[n].para)
  BY <1>1, <1>5, <1>6 DEF Holds
<1>12. ASSUME NEW b \in 1..Len(m), b <= n, Keeps(ses, m[b]) PROVE Holds(u, m[b].para)
  <2>1. CASE b = n
    BY <1>11, <2>1
  <2>2. CASE b <= i
    BY <1>10, <1>12, <2>2 DEF RebalancingAt
  <2> QED BY <1>3, <1>12, <2>1, <2>2
<1>13. RebalancingAt(ses, m, u, n)
  BY <1>6, <1>8, <1>9, <1>12 DEF RebalancingAt, c
<1> QED BY <1>13 DEF n

\* The queue of a new session.
LEMMA RebalanceKeeps ==
    ASSUME NEW ses \in Sessions, ses.config.parathread_cores > 0,
           NEW m \in Seq(Entry), Unique(m), NEW q, q = Rebalancing(ses, m)[Len(m)]
    PROVE  RebalancingAt(ses, m, q, Len(m))
<1> DEFINE D == Seq(Entry)
           c == ses.config.parathread_cores
           V(n, t) == IF n \in DOMAIN m /\ Keeps(ses, m[n])
                      THEN Append(t, [m[n] EXCEPT !.core_offset = Len(t) % c]) ELSE t
           F == [d \in Nat \X D |-> V(d[1] + 1, d[2])]
           f == Rebalancing(ses, m)
<1>0. c \in Nat \ {0} /\ DOMAIN m = 1..Len(m) /\ Len(m) \in Nat
  <2>1. c \in Nat
    BY SessionTypes
  <2> QED BY <2>1
<1>1. ASSUME NEW n, NEW t \in D PROVE V(n, t) \in D
  <2>1. CASE n \in DOMAIN m /\ Keeps(ses, m[n])
    <3> DEFINE o == Len(t) % c
    <3>1. o \in Nat
      <4>1. Len(t) \in Nat
        OBVIOUS
      <4> HIDE DEF c
      <4> QED BY <1>0, <4>1
    <3>2. V(n, t) = Append(t, [m[n] EXCEPT !.core_offset = o])
      BY <2>1
    <3> HIDE DEF o
    <3>3. m[n] \in Entry
      BY <2>1
    <3>4. [m[n] EXCEPT !.core_offset = o] \in Entry
      BY <3>1, <3>3 DEF Entry
    <3> QED BY <3>2, <3>4
  <2>2. CASE ~(n \in DOMAIN m /\ Keeps(ses, m[n]))
    BY <2>2
  <2> QED BY <2>1, <2>2
<1>2. ASSUME NEW i \in Nat, NEW t, RebalancingAt(ses, m, t, i)
      PROVE  RebalancingAt(ses, m, V(i + 1, t), i + 1)
  <2>1. CASE i + 1 \in DOMAIN m /\ Keeps(ses, m[i + 1])
    <3> DEFINE u == V(i + 1, t)
               e == [m[i + 1] EXCEPT !.core_offset = Len(t) % ses.config.parathread_cores]
    <3>1. e = [m[i + 1] EXCEPT !.core_offset = Len(t) % ses.config.parathread_cores]
      OBVIOUS
    <3>2. u = Append(t, e)
      BY <2>1
    <3>3. i + 1 \in 1..Len(m) /\ Keeps(ses, m[i + 1])
      BY <1>0, <2>1
    <3> HIDE DEF u, e
    <3>4. RebalancingAt(ses, m, u, i + 1)
      BY <1>2, <3>1, <3>2, <3>3, RebalanceOneKeeps
    <3> QED BY <3>4 DEF u
  <2>2. CASE ~(i + 1 \in DOMAIN m /\ Keeps(ses, m[i + 1]))
    <3>1. V(i + 1, t) = t
      BY <2>2
    <3>2. \A b \in 1..Len(m) : Keeps(ses, m[b]) => (b <= i + 1 <=> b <= i)
      BY <1>0, <2>2
    <3>3. RebalancingAt(ses, m, t, i + 1)
      BY <1>2, <3>2 DEF RebalancingAt
    <3> QED BY <3>1, <3>3
  <2> QED BY <2>1, <2>2
<1>3. RebalancingAt(ses, m, <<>>, 0)
  <2>1. <<>> \in Seq(Entry) /\ Len(<<>>) = 0 /\ \A b \in 1..Len(m) : ~(b <= 0)
    BY <1>0
  <2>2. \A a : a \notin 1..Len(<<>>)
    BY <2>1
  <2> QED BY <2>1, <2>2 DEF RebalancingAt, Unique
<1> HIDE DEF V
<1>4. F \in TurnsIn(D)
  BY <1>1 DEF TurnsIn
<1>5. \A i \in Nat, t \in D : F[<<i, t>>] = V(i + 1, t)
  OBVIOUS
<1>6. <<>> \in D
  OBVIOUS
<1> HIDE DEF D, F
<1>7. PICK r : IsLoop(r, D, F, <<>>)
  BY <1>4, <1>6, LoopExists
<1>8. /\ r \in [Nat -> D] /\ r[0] = <<>>
      /\ \A n \in Nat : r[n + 1] = V(n + 1, r[n])
  BY <1>5, <1>7 DEF IsLoop
<1>9. r = [n \in Nat |-> IF n = 0 THEN <<>> ELSE V(n, r[n - 1])]
  <2>1. ASSUME NEW n \in Nat, n # 0 PROVE r[n] = V(n, r[n - 1])
    <3>1. n - 1 \in Nat /\ (n - 1) + 1 = n
      BY <2>1
    <3> QED BY <1>8, <3>1
  <2> QED BY <1>8, <2>1
<1>10. f = [n \in Nat |-> IF n = 0 THEN <<>> ELSE V(n, f[n - 1])]
  BY <1>9, Zenon DEF Rebalancing, V
<1> HIDE DEF f
<1>11. ASSUME NEW n \in Nat PROVE RebalancingAt(ses, m, f[n], n)
  <2> DEFINE S == {i \in Nat : RebalancingAt(ses, m, f[i], i)}
  <2>1. 0 \in S
    BY <1>3, <1>10
  <2>2. ASSUME NEW i \in Nat, i \in S PROVE i + 1 \in S
    <3>1. i + 1 \in Nat /\ i + 1 # 0 /\ (i + 1) - 1 = i
      OBVIOUS
    <3>2. f[i + 1] = V(i + 1, f[i])
      BY <1>10, <3>1
    <3> QED BY <1>2, <2>2, <3>1, <3>2
  <2>3. Nat \subseteq S
    <3> HIDE DEF S
    <3> QED BY <2>1, <2>2, NaturalsIn
  <2> QED BY <2>3
<1> QED BY <1>0, <1>11 DEF f

\* The session in force is replaced: the claims that it keeps are queued, and those
\* assigned stay assigned.
LEMMA SessionKeeps ==
    ASSUME NEW ses \in Sessions, NEW s, Movable(s), NEW u, u = on_new_session(s, ses),
           ses.config.parathread_cores > 0 =>
              /\ \A i \in DOMAIN s.queue : s.queue[i].para \in s.claim_index
              /\ \A k \in Threads(s) : s.availability_cores[k].para \in s.claim_index
              /\ \A k \in AssignedThreads(s) : s.scheduled[k].para \in s.claim_index
    PROVE  /\ u \in Stores(ses)
           /\ \A p : Absent(u, p) =>
                 \/ Absent(s, p)
                 \/ ses.config.parathread_cores = 0
                 \/ p \notin ses.parathreads
                 \/ \E i \in DOMAIN s.queue : /\ s.queue[i].para = p
                                              /\ ~(s.queue[i].retries <= ses.config.parathread_retries)
                 \/ \E k \in Threads(s) : /\ s.availability_cores[k].para = p
                                          /\ ~(s.availability_cores[k].retries <= ses.config.parathread_retries)
<1> DEFINE c == [k \in 0 .. n_cores(ses) - 1 |-> FreeCore]
           g == ValidatorGroups(ses)
           m == Merging(s)[Limit(DOMAIN s.availability_cores)]
           kept == Rebalancing(ses, m)[Len(m)]
           pruned == {m[i].para : i \in {j \in DOMAIN m : ~Keeps(ses, m[j])}}
           n == ses.config.parathread_cores
           x == IF n = 0 THEN <<>> ELSE kept
           o == IF n = 0 THEN 0 ELSE Len(kept) % n
           d == IF n = 0 THEN {} ELSE s.claim_index \ pruned
<1>0. s \in [queue : Seq(Entry), next_core_offset : Nat,
             availability_cores : {s.availability_cores}, claim_index : SUBSET ParaIds,
             scheduled : Partial, validator_groups : {s.validator_groups}]
  BY DEF Movable
<1>1. n \in Nat /\ n_cores(ses) \in Nat
  BY SessionTypes
<1>2. c \in [0 .. n_cores(ses) - 1 -> Core] /\ DOMAIN c = 0 .. n_cores(ses) - 1
      /\ \A k \in DOMAIN c : c[k].kind = "Free"
  BY DEF FreeCore, Core
<1>3. u = [[s EXCEPT !.availability_cores = c, !.validator_groups = g]
              EXCEPT !.queue = x, !.next_core_offset = o, !.claim_index = d]
  <2>1. CASE n = 0
    BY <1>0, <2>1 DEF on_new_session
  <2>2. CASE n # 0
    BY <1>0, <2>2 DEF on_new_session
  <2> QED BY <2>1, <2>2
<1>4. PICK l \in Nat : (\A k \in Threads(s) : k < l) /\ MergingAt(s, m, l)
  <2>1. m = Merging(s)[Limit(DOMAIN s.availability_cores)]
    OBVIOUS
  <2> HIDE DEF m
  <2> QED BY <2>1, MergeKeeps
<1>5. n # 0 => RebalancingAt(ses, m, kept, Len(m))
  <2>1. m \in Seq(Entry) /\ Unique(m)
    BY <1>4 DEF MergingAt
  <2>2. kept = Rebalancing(ses, m)[Len(m)] /\ (n # 0 => ses.config.parathread_cores > 0)
    BY <1>1
  <2> HIDE DEF m, kept, n
  <2> QED BY <2>1, <2>2, RebalanceKeeps
<1>6. m \in Seq(Entry) /\ Unique(m) /\ DOMAIN m = 1..Len(m) /\ Len(m) \in Nat
  <2> HIDE DEF m
  <2> QED BY <1>4 DEF MergingAt
<1>7. \A p : p \in pruned <=> \E j \in 1..Len(m) : m[j].para = p /\ ~Keeps(ses, m[j])
  <2> HIDE DEF m
  <2> QED BY <1>6
<1> HIDE DEF c, g, m, kept, pruned
<1>8. x \in Seq(Entry) /\ Len(x) \in Nat /\ DOMAIN x = 1..Len(x)
  <2>1. x \in Seq(Entry)
    BY <1>5 DEF RebalancingAt
  <2> HIDE DEF x
  <2> QED BY <2>1
<1>9. o \in Nat /\ (n = 0 => o = 0) /\ (n # 0 => o < n)
  <2>1. n # 0 => Len(kept) \in Nat
    BY <1>5 DEF RebalancingAt
  <2>2. CASE n = 0
    BY <2>2
  <2>3. CASE n # 0
    <3> DEFINE y == Len(kept)
    <3>1. y \in Nat /\ n \in Nat \ {0} /\ o = y % n
      BY <1>1, <2>1, <2>3
    <3> HIDE DEF y, n, o
    <3>2. y % n \in Nat /\ y % n < n
      BY <3>1
    <3> QED BY <2>3, <3>1, <3>2
  <2> QED BY <2>2, <2>3
<1>10. d \in SUBSET ParaIds
  BY <1>0
<1>11. /\ u \in StoreOf(ses) /\ u.queue = x /\ u.next_core_offset = o
       /\ u.availability_cores = c /\ u.claim_index = d /\ u.scheduled = s.scheduled
  <2> HIDE DEF x, o, d
  <2> QED BY <1>0, <1>2, <1>3, <1>8, <1>9, <1>10 DEF StoreOf, g
<1>12. Threads(u) = {} /\ AssignedThreads(u) = AssignedThreads(s)
  BY <1>2, <1>11 DEF Threads, AssignedThreads
<1>13. ASSUME NEW a \in DOMAIN x
       PROVE  /\ n # 0 /\ x[a].core_offset < n
              /\ \E b \in 1..Len(m) : /\ Keeps(ses, m[b])
                                      /\ x[a].para = m[b].para /\ x[a].retries = m[b].retries
  <2>1. n # 0 /\ a \in 1..Len(kept) /\ x = kept
    BY <1>8, <1>13
  <2> QED BY <1>5, <2>1 DEF RebalancingAt
<1>14. Unique(x)
  BY <1>5, <1>8 DEF RebalancingAt, Unique
<1> HIDE DEF x, o
<1>15. QueueOK(u, ses)
  <2>1. \A a \in DOMAIN x : /\ x[a].core_offset < n
                            /\ x[a].retries <= ses.config.parathread_retries
                            /\ x[a].para \in ses.parathreads
    BY <1>13 DEF Keeps
  <2> QED BY <1>9, <1>11, <2>1 DEF QueueOK
<1>16. CoresOK(u, ses)
  BY <1>2, <1>11 DEF CoresOK
<1>17. \A b \in 1..Len(m) : Came(s, m[b], l)
  BY <1>4 DEF MergingAt
<1>18. \A b \in 1..Len(m), k \in AssignedThreads(s) : m[b].para # s.scheduled[k].para
  BY <1>17 DEF Came, Movable, Apart
<1>19. Apart(u)
  <2>1. \A i, j \in DOMAIN x : x[i].para = x[j].para => i = j
    BY <1>8, <1>14 DEF Unique
  <2>2. \A i \in DOMAIN x, k \in AssignedThreads(s) : x[i].para # s.scheduled[k].para
    BY <1>13, <1>18
  <2> QED BY <1>11, <1>12, <2>1, <2>2 DEF Apart
<1>20. IndexOK(u, ses)
  <2> SUFFICES ASSUME n > 0
               PROVE  /\ \A i \in DOMAIN x : x[i].para \in d
                      /\ \A k \in AssignedThreads(s) : s.scheduled[k].para \in d
    BY <1>11, <1>12 DEF IndexOK
  <2>1. d = s.claim_index \ pruned
    BY <1>1
  <2>2. ASSUME NEW i \in DOMAIN x PROVE x[i].para \in d
    <3>1. PICK b \in 1..Len(m) : Keeps(ses, m[b]) /\ x[i].para = m[b].para
      BY <1>13
    <3>2. m[b].para \notin pruned
      BY <1>6, <1>7, <3>1 DEF Unique
    <3>3. m[b].para \in s.claim_index
      BY <1>17 DEF Came
    <3> QED BY <2>1, <3>1, <3>2, <3>3
  <2>3. ASSUME NEW k \in AssignedThreads(s) PROVE s.scheduled[k].para \in d
    <3>1. s.scheduled[k].para \notin pruned
      BY <1>7, <1>18
    <3> QED BY <2>1, <3>1
  <2> QED BY <2>2, <2>3
<1>21. ListOK(u, ses)
  BY <1>2, <1>11 DEF ListOK, Movable
<1>22. u \in Stores(ses)
  BY <1>11, <1>15, <1>16, <1>19, <1>20, <1>21 DEF Stores
<1>23. ASSUME NEW p, Absent(u, p), n # 0, p \in ses.parathreads,
              \A i \in DOMAIN s.queue : s.queue[i].para = p =>
                    s.queue[i].retries <= ses.config.parathread_retries,
              \A k \in Threads(s) : s.availability_cores[k].para = p =>
                    s.availability_cores[k].retries <= ses.config.parathread_retries
       PROVE  Absent(s, p)
  <2>1. \A b \in 1..Len(m) : m[b].para # p
    <3> SUFFICES ASSUME NEW b \in 1..Len(m), m[b].para = p PROVE FALSE
      OBVIOUS
    <3>1. Keeps(ses, m[b])
      BY <1>17, <1>23 DEF Came, Keeps
    <3>2. Holds(kept, p)
      BY <1>5, <1>6, <1>23, <3>1 DEF RebalancingAt
    <3>3. x = kept
      BY <1>23 DEF x
    <3>4. \E a \in DOMAIN x : x[a].para = p
      BY <1>8, <3>2, <3>3 DEF Holds
    <3> QED BY <1>11, <1>23, <3>4 DEF Absent
  <2>2. ~Holds(m, p)
    BY <2>1 DEF Holds
  <2>3. \A i \in DOMAIN s.queue : s.queue[i].para # p
    BY <1>4, <2>2 DEF MergingAt
  <2>4. \A k \in Threads(s) : s.availability_cores[k].para # p
    BY <1>4, <2>2 DEF MergingAt
  <2>5. \A k \in AssignedThreads(s) : s.scheduled[k].para # p
    BY <1>11, <1>12, <1>23 DEF Absent
  <2> QED BY <2>3, <2>4, <2>5 DEF Absent
<1> QED BY <1>22, <1>23

-----------------------------------------------------------------------------
(* The specification.                                                      *)

\* Either every session has multiplexer cores or none has: without them a session
\* change wipes the index, and assignments that were left by a frozen chain return
\* to the queue, unindexed, in a later session that has the cores again.
ThreadCoresStay ==
    \A a, b \in Sessions : a.config.parathread_cores = 0 <=> b.config.parathread_cores = 0

\* What a session leaves can be moved to the next.
LEMMA StoresMove ==
    ASSUME NEW ses \in Sessions, NEW s \in Stores(ses)
    PROVE  Movable(s)
<1>1. s \in StoreOf(ses) /\ QueueOK(s, ses) /\ CoresOK(s, ses) /\ Apart(s)
      /\ IndexOK(s, ses) /\ ListOK(s, ses)
  BY DEF Stores
<1>2. /\ DOMAIN s.availability_cores = 0 .. n_cores(ses) - 1 /\ n_cores(ses) \in Nat
      /\ \A k \in DOMAIN s.availability_cores : s.availability_cores[k] \in Core
  BY <1>1, StoreTypes, SessionTypes
<1>3. s \in [queue : Seq(Entry), next_core_offset : Nat,
             availability_cores : {s.availability_cores}, claim_index : SUBSET ParaIds,
             scheduled : Partial, validator_groups : {s.validator_groups}]
  BY <1>1 DEF StoreOf
<1>4. Bounded(DOMAIN s.availability_cores)
  BY <1>2, BelowIsBounded
<1>5. \A k \in Threads(s) : /\ s.availability_cores[k].para \in ParaIds
                            /\ s.availability_cores[k].retries \in Nat
  <2>1. ses.parathreads \subseteq ParaIds
    BY SessionTypes
  <2> QED BY <1>1, <1>2, <2>1 DEF Threads, CoresOK, Core
<1> QED BY <1>1, <1>3, <1>4, <1>5 DEF Movable, ListOK

\* Genesis.
LEMMA InitKeeps == Init => SchedulerInv
<1> SUFFICES ASSUME Init PROVE SchedulerInv
  OBVIOUS
<1> DEFINE s == EmptyStore
<1>1. session \in Sessions /\ age = 0 /\ phase = "enter" /\ store = on_new_session(s, session)
  BY DEF Init
<1>2. /\ s.queue = <<>> /\ s.next_core_offset = 0 /\ s.availability_cores = EmptyMap
      /\ s.claim_index = {} /\ s.scheduled = EmptyMap
  BY DEF EmptyStore
<1>3. EmptyMap \in Partial /\ DOMAIN EmptyMap = {} /\ Bounded({})
  BY EmptyIsPartial, BelowIsBounded DEF Bounded
<1>4. DOMAIN s.queue = {} /\ s.queue \in Seq(Entry)
  BY <1>2
<1>5. Threads(s) = {} /\ AssignedThreads(s) = {}
  BY <1>2, <1>3 DEF Threads, AssignedThreads
<1>6. Movable(s)
  <2>1. s \in [queue : Seq(Entry), next_core_offset : Nat,
               availability_cores : {s.availability_cores}, claim_index : SUBSET ParaIds,
               scheduled : Partial, validator_groups : {s.validator_groups}]
    BY <1>3, <1>4 DEF EmptyStore
  <2> HIDE DEF s
  <2> QED BY <1>2, <1>3, <1>4, <1>5, <2>1 DEF Movable, Apart
<1> HIDE DEF s
<1>7. store \in Stores(session)
  BY <1>1, <1>4, <1>5, <1>6, SessionKeeps
<1> QED BY <1>1, <1>7, MaxSessionAgeAssumption DEF SchedulerInv

\* A claim is taken, of a para without one.
LEMMA ClaimKeeps ==
    ASSUME SchedulerInv, NEW p \in ParaIds, AddParathreadClaim(p)
    PROVE  store' \in Stores(session) /\ \A x : Absent(store', x) => Absent(store, x)
<1> DEFINE n == session.config.parathread_cores
           I == store.claim_index \union {p}
           t == [store EXCEPT !.claim_index = I]
           u == store'
<1>1. session \in Sessions /\ store \in Stores(session)
  BY DEF SchedulerInv
<1>2. store \in StoreOf(session) /\ IndexOK(store, session)
  BY <1>1 DEF Stores
<1>3. p \in session.parathreads /\ p \notin store.claim_index
      /\ Len(store.queue) < n * session.config.scheduling_lookahead
      /\ u = enqueue_entry(t, p, 0, n)
  BY DEF AddParathreadClaim, IsParathread, parathreads, config
<1>4. n > 0 /\ n \in Nat /\ session.config.parathread_retries \in Nat
  <2>1. n \in Nat /\ Len(store.queue) \in Nat
    BY <1>1, <1>2, SessionTypes, StoreTypes
  <2>2. session.config.scheduling_lookahead \in Nat
    BY <1>1, SessionsAssumption
  <2>3. n = 0 => n * session.config.scheduling_lookahead = 0
    BY <2>2
  <2>4. session.config.parathread_retries \in Nat
    BY <1>1, SessionTypes
  <2> QED BY <1>3, <2>1, <2>3, <2>4
<1>5. Absent(store, p)
  BY <1>2, <1>3, <1>4 DEF IndexOK, Absent
<1>6. I \subseteq ParaIds /\ store.claim_index \ {p} \subseteq I /\ p \in I
  BY <1>1, <1>2, StoreTypes
<1>7. t = [store EXCEPT !.claim_index = I]
  OBVIOUS
<1> HIDE DEF t, u, n, I
<1>8. /\ t \in Stores(session) /\ t.queue = store.queue /\ t.scheduled = store.scheduled
      /\ t.availability_cores = store.availability_cores /\ t.claim_index = I
      /\ Absent(t, p)
  BY <1>1, <1>5, <1>6, <1>7, IndexKeeps
<1>9. \A x : Absent(t, x) <=> Absent(store, x)
  BY <1>8 DEF Absent, Threads, AssignedThreads
<1>10. u \in Stores(session) /\ \A x : Absent(u, x) <=> Absent(t, x) /\ x # p
  <2>1. 0 <= session.config.parathread_retries /\ 0 \in Nat
    BY <1>4
  <2> QED BY <1>1, <1>3, <1>4, <1>6, <1>8, <2>1, EnqueueKeeps DEF n
<1> QED BY <1>9, <1>10 DEF u

\* A session change, between sessions that agree on having multiplexer cores.
LEMMA NewSessionEffect ==
    ASSUME ThreadCoresStay, SchedulerInv, NEW ses \in Sessions, NewSession(ses)
    PROVE  /\ session' = ses /\ store' \in Stores(ses)
           /\ \A p : Absent(store', p) =>
                 \/ Absent(store, p)
                 \/ ses.config.parathread_cores = 0
                 \/ p \notin ses.parathreads
                 \/ \E i \in DOMAIN store.queue :
                       /\ store.queue[i].para = p
                       /\ ~(store.queue[i].retries <= ses.config.parathread_retries)
                 \/ \E k \in Threads(store) :
                       /\ store.availability_cores[k].para = p
                       /\ ~(store.availability_cores[k].retries <= ses.config.parathread_retries)
<1> DEFINE u == store'
<1>1. session \in Sessions /\ store \in Stores(session)
  BY DEF SchedulerInv
<1>2. u = on_new_session(store, ses) /\ session' = ses
  BY DEF NewSession
<1>3. Movable(store)
  BY <1>1, StoresMove
<1>4. ses.config.parathread_cores > 0 => session.config.parathread_cores > 0
  <2>1. ses.config.parathread_cores \in Nat /\ session.config.parathread_cores \in Nat
    BY <1>1, SessionTypes
  <2> QED BY <1>1, <2>1 DEF ThreadCoresStay
<1>5. ses.config.parathread_cores > 0 =>
         /\ \A i \in DOMAIN store.queue : store.queue[i].para \in store.claim_index
         /\ \A k \in Threads(store) : store.availability_cores[k].para \in store.claim_index
         /\ \A k \in AssignedThreads(store) : store.scheduled[k].para \in store.claim_index
  BY <1>1, <1>4 DEF Stores, IndexOK
<1> HIDE DEF u
<1>6. /\ u \in Stores(ses)
      /\ \A p : Absent(u, p) =>
                 \/ Absent(store, p)
                 \/ ses.config.parathread_cores = 0
                 \/ p \notin ses.parathreads
                 \/ \E i \in DOMAIN store.queue :
                       /\ store.queue[i].para = p
                       /\ ~(store.queue[i].retries <= ses.config.parathread_retries)
                 \/ \E k \in Threads(store) :
                       /\ store.availability_cores[k].para = p
                       /\ ~(store.availability_cores[k].retries <= ses.config.parathread_retries)
  BY <1>2, <1>3, <1>5, SessionKeeps
<1> QED BY <1>2, <1>6 DEF u

\* Every step keeps the storage of the session in force.
LEMMA StepKeeps ==
    ASSUME ThreadCoresStay, SchedulerInv, [Next]_vars
    PROVE  SchedulerInv'
<1>0. session \in Sessions /\ store \in Stores(session) /\ age \in 0..MaxSessionAge
      /\ phase \in {"enter", "calls"}
  BY DEF SchedulerInv
<1>1. CASE EnterSome
  <2>1. PICK disputed \in SUBSET OccupiedCores :
            \E freed \in Freed(OccupiedCores \ disputed) : Enter(disputed, freed)
    BY <1>1 DEF EnterSome
  <2>2. PICK freed \in Freed(OccupiedCores \ disputed) : Enter(disputed, freed)
    BY <2>1
  <2>3. store' \in Stores(session)
    BY <2>2, EnterEffect
  <2>4. session' = session /\ age' = age /\ phase' = "calls"
    BY <2>2 DEF Enter
  <2> QED BY <1>0, <2>3, <2>4 DEF SchedulerInv
<1>2. CASE EnterFrozen
  BY <1>0, <1>2 DEF EnterFrozen, SchedulerInv
<1>3. ASSUME NEW p \in ParaIds, AddParathreadClaim(p) PROVE SchedulerInv'
  <2>1. store' \in Stores(session)
    BY <1>3, ClaimKeeps
  <2>2. session' = session /\ age' = age /\ phase' = phase
    BY <1>3 DEF AddParathreadClaim
  <2> QED BY <1>0, <2>1, <2>2 DEF SchedulerInv
<1>4. CASE EndBlock
  <2>1. age' \in 0..MaxSessionAge
    BY <1>0, <1>4, MaxSessionAgeAssumption DEF EndBlock
  <2> QED BY <1>0, <1>4, <2>1 DEF EndBlock, SchedulerInv
<1>5. ASSUME NEW ses \in Sessions, NewSession(ses) PROVE SchedulerInv'
  <2>1. session' = ses /\ store' \in Stores(ses)
    BY <1>5, NewSessionEffect
  <2>2. age' = 0 /\ phase' = "enter"
    BY <1>5 DEF NewSession
  <2> QED BY <2>1, <2>2, MaxSessionAgeAssumption DEF SchedulerInv
<1>6. CASE UNCHANGED vars
  BY <1>0, <1>6 DEF vars, SchedulerInv
<1> QED BY <1>1, <1>2, <1>3, <1>4, <1>5, <1>6 DEF Next

\* The storage always is one of the session in force.
THEOREM SchedulerInductive ==
    ASSUME ThreadCoresStay
    PROVE  Spec => []SchedulerInv
<1>1. SchedulerInv /\ [Next]_vars => SchedulerInv'
  BY StepKeeps
<1> QED BY <1>1, InitKeeps, PTL DEF Spec

\* The places of the claims on p.
LEMMA PlacesOfClaims ==
    ASSUME NEW s, NEW p
    PROVE  ClaimsOn(s, p) = {} <=> Absent(s, p)
<1>1. ClaimsOn(s, p) = {} <=> QueuedAt(s, p) = {} /\ HandledAt(s, p) = {} /\ ScheduledAt(s, p) = {}
  <2>1. ASSUME NEW t, NEW S PROVE {t} \X S = {} <=> S = {}
    <3>1. \A y \in S : <<t, y>> \in {t} \X S
      OBVIOUS
    <3> QED BY <3>1
  <2> DEFINE Q == QueuedAt(s, p)
             H == HandledAt(s, p)
             A == ScheduledAt(s, p)
  <2>2. /\ {"queued"} \X Q = {} <=> Q = {}
        /\ {"handled"} \X H = {} <=> H = {}
        /\ {"scheduled"} \X A = {} <=> A = {}
    BY <2>1
  <2> QED BY <2>2 DEF ClaimsOn
<1> QED BY <1>1 DEF QueuedAt, HandledAt, ScheduledAt, Absent, Threads, AssignedThreads

\* Claims have one place each.
LEMMA ClaimsApart ==
    ASSUME SchedulerInv
    PROVE  ClaimUnique
<1> SUFFICES ASSUME NEW p \in ParaIds, NEW x \in ClaimsOn(store, p), NEW y \in ClaimsOn(store, p)
             PROVE  x = y
  BY DEF ClaimUnique
<1>1. Apart(store) /\ ListOK(store, session)
  BY DEF SchedulerInv, Stores
<1> DEFINE Q == QueuedAt(store, p)
           H == HandledAt(store, p)
           A == ScheduledAt(store, p)
<1>2. /\ \A i, j \in Q : i = j
      /\ \A j, k \in H : j = k
      /\ \A j, k \in A : j = k
  BY <1>1 DEF QueuedAt, HandledAt, ScheduledAt, Apart, ListOK, Threads
<1>3. /\ Q = {} \/ (H = {} /\ A = {})
      /\ H = {} \/ (Q = {} /\ A = {})
      /\ A = {} \/ (H = {} /\ Q = {})
  BY <1>1 DEF QueuedAt, HandledAt, ScheduledAt, Apart, Threads, AssignedThreads
<1>4. ClaimsOn(store, p) = ({"queued"} \X Q) \union ({"handled"} \X H) \union ({"scheduled"} \X A)
  BY DEF ClaimsOn
<1> HIDE DEF Q, H, A
<1> QED BY <1>2, <1>3, <1>4

\* Occupied cores have no assignment, and a para has one core.
LEMMA CoresApart ==
    ASSUME SchedulerInv
    PROVE  OneCorePerPara
<1>1. /\ session \in Sessions /\ store \in StoreOf(session) /\ CoresOK(store, session)
      /\ Apart(store) /\ ListOK(store, session)
  BY DEF SchedulerInv, Stores
<1>2. /\ DOMAIN store.availability_cores = 0 .. n_cores(session) - 1
      /\ \A k \in DOMAIN store.availability_cores : store.availability_cores[k] \in Core
  BY <1>1, StoreTypes
<1>3. /\ Len(session.parachains) \in Nat
      /\ \A i \in 1..Len(session.parachains) : session.parachains[i] \notin session.parathreads
      /\ \A i, j \in 1..Len(session.parachains) :
            session.parachains[i] = session.parachains[j] => i = j
  BY <1>1, SessionTypes
<1>4. OccupiedCores \intersect DOMAIN store.scheduled = {}
  BY <1>1 DEF ListOK, FreshList, OccupiedCores
<1>5. ASSUME NEW k \in OccupiedCores
      PROVE  /\ k \in Nat /\ k \in DOMAIN store.availability_cores
             /\ \/ /\ store.availability_cores[k].kind = "Parachain"
                   /\ k + 1 \in 1..Len(session.parachains)
                   /\ ParaAt(k) = session.parachains[k + 1]
                \/ /\ store.availability_cores[k].kind = "Parathread" /\ k \in Threads(store)
                   /\ ParaAt(k) = store.availability_cores[k].para
                   /\ store.availability_cores[k].para \in session.parathreads
  <2>1. k \in Nat /\ k \in DOMAIN store.availability_cores /\ k \notin DOMAIN store.scheduled
        /\ store.availability_cores[k].kind \in {"Parachain", "Parathread"}
    BY <1>2, <1>4 DEF OccupiedCores, Core
  <2>2. ParaAt(k) = core_para(store, k)
    BY <2>1 DEF ParaAt
  <2>3. CASE store.availability_cores[k].kind = "Parachain"
    <3>1. k < Len(session.parachains)
      BY <1>1, <2>1, <2>3 DEF CoresOK
    <3>2. core_para(store, k) = session.parachains[k + 1]
      BY <2>3 DEF core_para, parachains
    <3> QED BY <1>3, <2>1, <2>2, <2>3, <3>1, <3>2
  <2>4. CASE store.availability_cores[k].kind = "Parathread"
    <3>1. core_para(store, k) = store.availability_cores[k].para
      BY <2>4 DEF core_para
    <3> QED BY <1>1, <2>1, <2>2, <2>4, <3>1 DEF CoresOK, Threads
  <2> QED BY <2>1, <2>3, <2>4
<1>6. ASSUME NEW j \in OccupiedCores, NEW k \in OccupiedCores, ParaAt(j) = ParaAt(k) PROVE j = k
  <2>1. CASE j \in Threads(store) /\ k \in Threads(store)
    <3>1. store.availability_cores[j].para = store.availability_cores[k].para
      BY <1>5, <1>6, <2>1 DEF Threads
    <3> QED BY <1>1, <2>1, <3>1 DEF Apart
  <2>2. CASE j \notin Threads(store) /\ k \notin Threads(store)
    <3>1. j + 1 = k + 1 /\ j \in Nat /\ k \in Nat
      BY <1>3, <1>5, <1>6, <2>2
    <3> QED BY <3>1
  <2>3. CASE (j \in Threads(store)) # (k \in Threads(store))
    BY <1>3, <1>5, <1>6, <2>3 DEF Threads
  <2> QED BY <2>1, <2>2, <2>3
<1>7. ASSUME NEW j \in OccupiedCores, NEW k \in DOMAIN store.scheduled, ParaAt(j) = ParaAt(k)
      PROVE  FALSE
  <2>1. ParaAt(k) = store.scheduled[k].para /\ store.scheduled[k].kind \in {"Parachain", "Parathread"}
    <3>1. store.scheduled[k] \in Assignment
      BY <1>1, StoreTypes
    <3> QED BY <3>1 DEF ParaAt, Assignment
  <2>2. FreshList(store, session)
    BY <1>1, <1>5 DEF ListOK, OccupiedCores
  <2>3. k \in DOMAIN store.availability_cores /\ store.availability_cores[k].kind = "Free" /\ k \in Nat
    BY <1>2, <2>2 DEF FreshList
  <2>4. CASE store.scheduled[k].kind = "Parachain"
    <3>1. k + 1 \in 1..Len(session.parachains) /\ store.scheduled[k].para = session.parachains[k + 1]
      BY <1>3, <2>2, <2>3, <2>4 DEF FreshList
    <3>2. CASE j \in Threads(store)
      BY <1>3, <1>5, <1>7, <2>1, <3>1, <3>2 DEF Threads
    <3>3. CASE j \notin Threads(store)
      <4>1. j + 1 = k + 1 /\ j \in Nat
        BY <1>3, <1>5, <1>7, <2>1, <3>1, <3>3
      <4> QED BY <2>3, <4>1 DEF OccupiedCores
    <3> QED BY <3>2, <3>3
  <2>5. CASE store.scheduled[k].kind = "Parathread"
    <3>1. k \in AssignedThreads(store) /\ store.scheduled[k].para \in session.parathreads
      BY <2>2, <2>5 DEF AssignedThreads, FreshList
    <3>2. CASE j \in Threads(store)
      BY <1>1, <1>5, <1>7, <2>1, <3>1, <3>2 DEF Apart, Threads
    <3>3. CASE j \notin Threads(store)
      BY <1>3, <1>5, <1>7, <2>1, <3>1, <3>3
    <3> QED BY <3>2, <3>3
  <2> QED BY <2>1, <2>4, <2>5
<1>8. ASSUME NEW j \in DOMAIN store.scheduled, NEW k \in DOMAIN store.scheduled, ParaAt(j) = ParaAt(k)
      PROVE  j = k
  BY <1>1, <1>8 DEF ParaAt, ListOK
<1> QED BY <1>4, <1>6, <1>7, <1>8 DEF OneCorePerPara, BusyCores

\* The groups of the session in force.
LEMMA GroupsHold ==
    ASSUME SchedulerInv
    PROVE  GroupsSound
<1> DEFINE g == store.validator_groups
           n == session.n_validators
           c == n_cores(session)
<1>1. session \in Sessions /\ store \in StoreOf(session) /\ ListOK(store, session)
  BY DEF SchedulerInv, Stores
<1>2. DOMAIN store.availability_cores = 0 .. c - 1 /\ c \in Nat /\ n \in Nat
  BY <1>1, StoreTypes, SessionTypes
<1>3. ASSUME NGroups(store) > 0
      PROVE  /\ DOMAIN g = 0..(c - 1)
             /\ UNION {g[h] : h \in 0..(c - 1)} = 0..(n - 1)
             /\ \A h, i \in 0..(c - 1) :
                   /\ h # i => g[h] \intersect g[i] = {}
                   /\ Cardinality(g[h]) <= Cardinality(g[i]) + 1
  <2>1. c > 0 /\ g = GroupsOf(n, c)
    BY <1>1, <1>3, GroupCount
  <2>2. c \in Nat \ {0}
    BY <1>2, <2>1
  <2> HIDE DEF g, n, c
  <2> DEFINE G == GroupsOf(n, c)
  <2>3. /\ DOMAIN G = 0..(c - 1)
        /\ UNION {G[h] : h \in 0..(c - 1)} = 0..(n - 1)
        /\ \A h, i \in 0..(c - 1) :
              /\ h # i => G[h] \intersect G[i] = {}
              /\ Cardinality(G[h]) <= Cardinality(G[i]) + 1
    BY <1>2, <2>2, GroupsPartition
  <2>4. g = G
    BY <2>1
  <2> HIDE DEF G
  <2> QED BY <2>3, <2>4
<1>4. \A j, k \in DOMAIN store.scheduled :
         store.scheduled[j].group_idx = store.scheduled[k].group_idx => j = k
  BY <1>1 DEF ListOK
<1> HIDE DEF n, c
<1>5. NGroups(store) > 0 =>
         /\ DOMAIN g = DOMAIN store.availability_cores
         /\ UNION {g[h] : h \in DOMAIN g} = 0 .. n - 1
         /\ \A h, i \in DOMAIN g :
               /\ h # i => g[h] \intersect g[i] = {}
               /\ Cardinality(g[h]) <= Cardinality(g[i]) + 1
  <2> HIDE DEF g
  <2> QED BY <1>2, <1>3
<1> QED BY <1>4, <1>5 DEF GroupsSound, n

\* Claims, cores and groups always agree: one claim per parathread, indexed and
\* servable, one core per para, and groups that partition the validators.
THEOREM AlwaysSound ==
    ASSUME ThreadCoresStay
    PROVE  Spec => []SchedulingSound
<1>1. SchedulerInv => SchedulingSound
  <2> SUFFICES ASSUME SchedulerInv PROVE SchedulingSound
    OBVIOUS
  <2>1. /\ session \in Sessions /\ store \in StoreOf(session) /\ QueueOK(store, session)
        /\ IndexOK(store, session)
    BY DEF SchedulerInv, Stores
  <2>2. TypeOK
    <3>1. age \in 0..MaxSessionAge /\ phase \in {"enter", "calls"}
      BY DEF SchedulerInv
    <3>2. /\ \A i \in DOMAIN store.queue : store.queue[i] \in Entry
          /\ store.next_core_offset \in Nat
          /\ DOMAIN store.availability_cores = 0 .. n_cores(session) - 1
          /\ \A k \in DOMAIN store.availability_cores : store.availability_cores[k] \in Core
          /\ store.claim_index \subseteq ParaIds
          /\ \A k \in DOMAIN store.scheduled : store.scheduled[k] \in Assignment
      BY <2>1, StoreTypes
    <3> QED BY <2>1, <3>1, <3>2 DEF TypeOK
  <2>3. ClaimIndexed
    <3> SUFFICES ASSUME session.config.parathread_cores > 0, NEW p \in ParaIds,
                        p \notin store.claim_index
                 PROVE  ClaimsOn(store, p) = {}
      BY DEF ClaimIndexed, config
    <3>1. Absent(store, p)
      BY <2>1 DEF IndexOK, Absent
    <3> QED BY <3>1, PlacesOfClaims
  <2>4. QueueServable
    <3>1. session.config.parathread_cores \in Nat /\ store.next_core_offset \in Nat
      BY <2>1, SessionTypes, StoreTypes
    <3> QED BY <2>1, <3>1 DEF QueueServable, QueueOK, config
  <2> QED BY <2>2, <2>3, <2>4, ClaimsApart, CoresApart, GroupsHold DEF SchedulingSound
<1> QED BY <1>1, SchedulerInductive, PTL

\* After a block's inherent a free core without an assignment is a multiplexer core
\* that nothing waits for.
THEOREM CoresNeverIdle ==
    ASSUME ThreadCoresStay
    PROVE  Spec => NoIdleCore
<1> DEFINE A == EnterSome /\ NGroups(store) > 0 =>
                   \A k \in UnassignedCores(store') :
                      /\ k >= Len(parachains)
                      /\ PositionOnCore(store'.queue, k - Len(parachains)) = 0
<1>1. SchedulerInv /\ [Next]_vars => [A]_vars
  <2> SUFFICES ASSUME SchedulerInv, EnterSome, NGroups(store) > 0,
                      NEW k \in UnassignedCores(store')
               PROVE  /\ k >= Len(parachains)
                      /\ PositionOnCore(store'.queue, k - Len(parachains)) = 0
    OBVIOUS
  <2>1. PICK disputed \in SUBSET OccupiedCores :
            \E freed \in Freed(OccupiedCores \ disputed) : Enter(disputed, freed)
    BY DEF EnterSome
  <2>2. PICK freed \in Freed(OccupiedCores \ disputed) : Enter(disputed, freed)
    BY <2>1
  <2>3. /\ store' \in Stores(session)
        /\ NGroups(store') > 0 => \A i \in UnassignedCores(store') :
              /\ i >= Len(parachains)
              /\ \A j \in DOMAIN store'.queue :
                    store'.queue[j].core_offset # i - Len(parachains)
    BY <2>2, EnterEffect
  <2>4. NGroups(store') = NGroups(store)
    <3> DEFINE u == store'
    <3>1. session \in Sessions /\ store \in StoreOf(session) /\ u \in StoreOf(session)
      BY <2>3 DEF SchedulerInv, Stores
    <3> HIDE DEF u
    <3>2. u.validator_groups = store.validator_groups
      BY <3>1, StoreTypes
    <3> QED BY <3>2 DEF NGroups, u
  <2> DEFINE q == store'.queue
             o == k - Len(parachains)
  <2>5. q \in Seq(Entry) /\ DOMAIN q = 1..Len(q)
    <3> DEFINE u == store'
    <3>1. session \in Sessions /\ u \in StoreOf(session)
      BY <2>3 DEF SchedulerInv, Stores
    <3> HIDE DEF u
    <3>2. u.queue \in Seq(Entry) /\ DOMAIN u.queue = 1..Len(u.queue)
      BY <3>1, StoreTypes
    <3> QED BY <3>2 DEF u
  <2>6. k >= Len(parachains) /\ \A j \in DOMAIN q : q[j].core_offset # o
    BY <2>3, <2>4
  <2> HIDE DEF q, o
  <2>7. PositionOnCore(q, o) = 0
    <3>1. /\ PositionOnCore(q, o) \in 0..Len(q)
          /\ PositionOnCore(q, o) # 0 => q[PositionOnCore(q, o)].core_offset = o
      BY <2>5, FirstOnCore
    <3> DEFINE x == PositionOnCore(q, o)
    <3> HIDE DEF x
    <3>2. x \in 0..Len(q) /\ (x # 0 => q[x].core_offset = o)
      BY <3>1 DEF x
    <3>3. x = 0
      BY <2>5, <2>6, <3>2
    <3> QED BY <3>3 DEF x
  <2> QED BY <2>6, <2>7 DEF q, o
<1>2. [][A]_vars => NoIdleCore
  BY PTL DEF NoIdleCore
<1> QED BY <1>1, <1>2, SchedulerInductive, PTL DEF Spec

\* A claim only disappears when its candidate concluded, when an unused assignment
\* is not to be requeued, or when a session change prunes it.
THEOREM ClaimsNeverLost ==
    ASSUME ThreadCoresStay
    PROVE  Spec => ClaimsConserved
<1> DEFINE A == \A p \in ParaIds :
          ClaimsOn(store, p) # {} /\ ClaimsOn(store', p) = {} =>
              \/ HandledAt(store, p) # {} /\ p \notin store'.claim_index
              \/ \E k \in ScheduledAt(store, p) : ~Requeues(store.scheduled[k])
              \/ config'.parathread_cores = 0
              \/ ~IsParathread(p)'
              \/ \E i \in QueuedAt(store, p) :
                    store.queue[i].retries > config'.parathread_retries
              \/ \E k \in HandledAt(store, p) :
                    store.availability_cores[k].retries
                        > config'.parathread_retries
<1>1. SchedulerInv /\ [Next]_vars => [A]_vars
  <2> SUFFICES ASSUME SchedulerInv, Next, NEW p \in ParaIds,
                      ClaimsOn(store, p) # {}, ClaimsOn(store', p) = {}
               PROVE  \/ HandledAt(store, p) # {} /\ p \notin store'.claim_index
                      \/ \E k \in ScheduledAt(store, p) : ~Requeues(store.scheduled[k])
                      \/ config'.parathread_cores = 0
                      \/ ~IsParathread(p)'
                      \/ \E i \in QueuedAt(store, p) :
                            store.queue[i].retries > config'.parathread_retries
                      \/ \E k \in HandledAt(store, p) :
                            store.availability_cores[k].retries > config'.parathread_retries
    OBVIOUS
  <2>1. ~Absent(store, p) /\ Absent(store', p)
    <3> DEFINE u == store'
    <3>1. ClaimsOn(u, p) = {}
      OBVIOUS
    <3> HIDE DEF u
    <3>2. Absent(u, p)
      BY <3>1, PlacesOfClaims
    <3>3. ~Absent(store, p)
      BY PlacesOfClaims
    <3> QED BY <3>2, <3>3 DEF u
  <2>2. CASE EnterSome
    <3>1. PICK disputed \in SUBSET OccupiedCores :
              \E freed \in Freed(OccupiedCores \ disputed) : Enter(disputed, freed)
      BY <2>2 DEF EnterSome
    <3>2. PICK freed \in Freed(OccupiedCores \ disputed) : Enter(disputed, freed)
      BY <3>1
    <3>3. \/ Handles(store, p) /\ p \notin store'.claim_index
          \/ \E k \in AssignedThreads(store) :
                store.scheduled[k].para = p /\ ~Requeues(store.scheduled[k])
      BY <2>1, <3>2, EnterEffect
    <3> QED BY <3>3 DEF Handles, HandledAt, ScheduledAt, Threads, AssignedThreads
  <2>3. CASE EnterFrozen
    BY <2>1, <2>3 DEF EnterFrozen
  <2>4. CASE \E x \in ParaIds : AddParathreadClaim(x)
    BY <2>1, <2>4, ClaimKeeps
  <2>5. CASE EndBlock
    BY <2>1, <2>5 DEF EndBlock
  <2>6. ASSUME NEW ses \in Sessions, NewSession(ses)
        PROVE  \/ config'.parathread_cores = 0
               \/ ~IsParathread(p)'
               \/ \E i \in QueuedAt(store, p) :
                     store.queue[i].retries > config'.parathread_retries
               \/ \E k \in HandledAt(store, p) :
                     store.availability_cores[k].retries > config'.parathread_retries
    <3>1. /\ session' = ses
          /\ \/ ses.config.parathread_cores = 0
             \/ p \notin ses.parathreads
             \/ \E i \in DOMAIN store.queue :
                   /\ store.queue[i].para = p
                   /\ ~(store.queue[i].retries <= ses.config.parathread_retries)
             \/ \E k \in Threads(store) :
                   /\ store.availability_cores[k].para = p
                   /\ ~(store.availability_cores[k].retries <= ses.config.parathread_retries)
      BY <2>1, <2>6, NewSessionEffect
    <3>2. config' = ses.config /\ (IsParathread(p)' <=> p \in ses.parathreads)
      BY <3>1 DEF config, IsParathread, parathreads
    <3>3. session \in Sessions /\ store \in StoreOf(session) /\ ses.config.parathread_retries \in Nat
      BY SessionTypes DEF SchedulerInv, Stores
    <3>4. \A i \in DOMAIN store.queue : store.queue[i].retries \in Nat
      <4>1. \A i \in DOMAIN store.queue : store.queue[i] \in Entry
        BY <3>3, StoreTypes
      <4> QED BY <4>1 DEF Entry
    <3>5. \A k \in Threads(store) : store.availability_cores[k].retries \in Nat
      <4>1. store.availability_cores \in [0 .. n_cores(session) - 1 -> Core]
        BY <3>3, StoreTypes
      <4> QED BY <4>1 DEF Core, Threads
    <3> QED BY <3>1, <3>2, <3>3, <3>4, <3>5 DEF QueuedAt, HandledAt, Threads
  <2> QED BY <2>2, <2>3, <2>4, <2>5, <2>6 DEF Next
<1>2. [][A]_vars => ClaimsConserved
  BY PTL DEF ClaimsConserved
<1> QED BY <1>1, <1>2, SchedulerInductive, PTL DEF Spec

-----------------------------------------------------------------------------
(* What the runtime API announces.                                         *)

\* The first claim of q that is queued for offset o is one on p.
FirstIs(q, o, p) ==
    \E n \in DOMAIN q : /\ q[n].core_offset = o /\ q[n].para = p
                        /\ \A i \in DOMAIN q : i < n => q[i].core_offset # o

\* It is the one that PositionOnCore finds.
LEMMA FirstFound ==
    ASSUME NEW q \in Seq(Entry), NEW o, NEW p
    PROVE  FirstIs(q, o, p) <=>
              PositionOnCore(q, o) # 0 /\ q[PositionOnCore(q, o)].para = p
<1> DEFINE n == PositionOnCore(q, o)
           l == Len(q)
<1>1. /\ n \in 0..l
      /\ n # 0 => q[n].core_offset = o
      /\ \A i \in 1..l : q[i].core_offset = o => n <= i
      /\ n = 0 => \A i \in 1..l : q[i].core_offset # o
  BY FirstOnCore
<1>2. l \in Nat /\ DOMAIN q = 1..l
  OBVIOUS
<1> HIDE DEF n, l
<1>3. ASSUME FirstIs(q, o, p) PROVE n # 0 /\ q[n].para = p
  <2>1. PICK m \in 1..l : /\ q[m].core_offset = o /\ q[m].para = p
                          /\ \A i \in 1..l : i < m => q[i].core_offset # o
    BY <1>2, <1>3 DEF FirstIs
  <2>2. n # 0 /\ n \in 1..l /\ n <= m /\ ~(n < m)
    BY <1>1, <1>2, <2>1
  <2>3. n = m
    BY <1>2, <2>2
  <2> QED BY <2>1, <2>2, <2>3
<1>4. ASSUME n # 0, q[n].para = p PROVE FirstIs(q, o, p)
  <2>1. n \in 1..l /\ \A i \in 1..l : i < n => q[i].core_offset # o
    BY <1>1, <1>2, <1>4
  <2> QED BY <1>1, <1>2, <1>4, <2>1 DEF FirstIs
<1> QED BY <1>3, <1>4 DEF n

\* It stays the first when claims are added at the end,
Extends(q, r) == Len(q) <= Len(r) /\ \A i \in 1..Len(q) : r[i] = q[i]

LEMMA FirstOfExtended ==
    ASSUME NEW q \in Seq(Entry), NEW r \in Seq(Entry), Extends(q, r), NEW o, NEW p,
           FirstIs(q, o, p)
    PROVE  FirstIs(r, o, p)
<1> DEFINE l == Len(q)
           m == Len(r)
<1>1. l \in Nat /\ m \in Nat /\ DOMAIN q = 1..l /\ DOMAIN r = 1..m
  OBVIOUS
<1>2. l <= m /\ \A i \in 1..l : r[i] = q[i]
  BY DEF Extends
<1> HIDE DEF l, m
<1>3. PICK n \in 1..l : /\ q[n].core_offset = o /\ q[n].para = p
                        /\ \A i \in 1..l : i < n => q[i].core_offset # o
  BY <1>1 DEF FirstIs
<1>4. \A i \in 1..m : i < n => i \in 1..l
  BY <1>1
<1>5. n \in 1..m
  BY <1>1, <1>2
<1> QED BY <1>1, <1>2, <1>3, <1>4, <1>5 DEF FirstIs

\* and when a claim is taken that is queued for another core, where it was the first.
LEMMA FirstOfOthers ==
    ASSUME NEW q \in Seq(Entry), NEW x \in 1..Len(q), NEW z, z = RemoveAt(q, x),
           NEW o, q[x].core_offset # o, NEW p
    PROVE  FirstIs(z, o, p) <=> FirstIs(q, o, p)
<1> DEFINE l == Len(q)
<1>1. /\ z \in Seq(Entry) /\ Len(z) = l - 1
      /\ \A i \in 1..(l - 1) : (i < x => z[i] = q[i]) /\ (i >= x => z[i] = q[i + 1])
  BY WithoutPosition
<1>2. l \in Nat /\ DOMAIN q = 1..l /\ x \in 1..l
  OBVIOUS
<1>3. DOMAIN z = 1..(l - 1)
  BY <1>1
<1> HIDE DEF l
<1>4. ASSUME FirstIs(q, o, p) PROVE FirstIs(z, o, p)
  <2>1. PICK n \in 1..l : /\ q[n].core_offset = o /\ q[n].para = p
                          /\ \A i \in 1..l : i < n => q[i].core_offset # o
    BY <1>2, <1>4 DEF FirstIs
  <2>2. n # x
    BY <2>1
  <2>3. CASE n < x
    <3>1. n \in 1..(l - 1) /\ z[n] = q[n]
      BY <1>1, <1>2, <2>3
    <3>2. ASSUME NEW i \in 1..(l - 1), i < n PROVE z[i].core_offset # o
      <4>1. i \in 1..l /\ i < x
        BY <1>2, <2>3, <3>2
      <4> QED BY <1>1, <2>1, <3>2, <4>1
    <3> QED BY <1>3, <2>1, <3>1, <3>2 DEF FirstIs
  <2>4. CASE x < n
    <3> DEFINE m == n - 1
    <3>1. m \in 1..(l - 1) /\ m >= x /\ m + 1 = n
      BY <1>2, <2>4
    <3> HIDE DEF m
    <3>2. z[m] = q[n]
      BY <1>1, <3>1
    <3>3. ASSUME NEW i \in 1..(l - 1), i < m PROVE z[i].core_offset # o
      <4>1. i \in 1..l /\ i + 1 \in 1..l /\ i < n /\ i + 1 < n
        BY <1>2, <3>1, <3>3
      <4>2. q[i].core_offset # o /\ q[i + 1].core_offset # o
        BY <2>1, <4>1
      <4>3. i < x \/ i >= x
        BY <1>2
      <4> QED BY <1>1, <4>2, <4>3
    <3> QED BY <1>3, <2>1, <3>1, <3>2, <3>3 DEF FirstIs
  <2> QED BY <1>2, <2>2, <2>3, <2>4
<1>5. ASSUME FirstIs(z, o, p) PROVE FirstIs(q, o, p)
  <2>1. PICK n \in 1..(l - 1) : /\ z[n].core_offset = o /\ z[n].para = p
                                /\ \A i \in 1..(l - 1) : i < n => z[i].core_offset # o
    BY <1>3, <1>5 DEF FirstIs
  <2>2. CASE n < x
    <3>1. n \in 1..l /\ q[n] = z[n]
      BY <1>1, <1>2, <2>2
    <3>2. ASSUME NEW i \in 1..l, i < n PROVE q[i].core_offset # o
      <4>1. i \in 1..(l - 1) /\ i < x
        BY <1>2, <2>2, <3>2
      <4> QED BY <1>1, <2>1, <3>2, <4>1
    <3> QED BY <1>2, <2>1, <3>1, <3>2 DEF FirstIs
  <2>3. CASE n >= x
    <3> DEFINE m == n + 1
    <3>1. m \in 1..l /\ m = n + 1
      BY <1>2
    <3>2. q[m] = z[n]
      BY <1>1, <2>3
    <3> HIDE DEF m
    <3>3. ASSUME NEW i \in 1..l, i < m PROVE q[i].core_offset # o
      <4>1. CASE i < x
        <5>1. i \in 1..(l - 1) /\ i < n
          BY <1>2, <2>3, <4>1
        <5> QED BY <1>1, <2>1, <4>1, <5>1
      <4>2. CASE i > x
        <5> DEFINE j == i - 1
        <5>1. j \in 1..(l - 1) /\ j >= x /\ j + 1 = i /\ j < n
          BY <1>2, <3>1, <3>3, <4>2
        <5> HIDE DEF j
        <5>2. z[j] = q[i]
          BY <1>1, <5>1
        <5> QED BY <2>1, <5>1, <5>2
      <4>3. CASE i = x
        BY <4>3
      <4> QED BY <1>2, <4>1, <4>2, <4>3
    <3> QED BY <1>2, <2>1, <3>1, <3>2, <3>3 DEF FirstIs
  <2>4. n < x \/ n >= x
    BY <1>2
  <2> QED BY <2>2, <2>3, <2>4
<1> QED BY <1>4, <1>5

\* Core k has p to serve next: its parachain, or the first claim queued for it.
Serves(t, k, p) ==
    \/ k < Len(parachains) /\ p = parachains[k + 1]
    \/ k >= Len(parachains) /\ FirstIs(t.queue, k - Len(parachains), p)

\* Core k is assigned to p.
AssignedTo(t, k, p) == k \in DOMAIN t.scheduled /\ t.scheduled[k].para = p

\* Scheduling a core assigns what it serves next, and leaves the other cores alone.
LEMMA OneServes ==
    ASSUME session \in Sessions, age \in 0..MaxSessionAge, NEW t \in StoreOf(session),
           NGroups(t) > 0, NEW i \in Nat, NEW k \in Nat, NEW u, u = ScheduleOne(t, i), NEW p
    PROVE  /\ i # k => (Serves(u, k, p) <=> Serves(t, k, p))
           /\ i # k /\ AssignedTo(t, k, p) => AssignedTo(u, k, p)
           /\ i = k /\ Serves(t, k, p) => AssignedTo(u, k, p)
           /\ u.availability_cores = t.availability_cores
<1>1. Len(parachains) \in Nat /\ t.queue \in Seq(Entry) /\ DOMAIN t.queue = 1..Len(t.queue)
  BY SessionTypes, StoreTypes DEF parachains
<1>2. \/ /\ i >= Len(parachains) /\ u = t
         /\ \A j \in DOMAIN t.queue : t.queue[j].core_offset # i - Len(parachains)
      \/ \E a \in Assignment :
            /\ a.group_idx = (i + Rotations) % NGroups(t)
            /\ i < Len(parachains) /\ a.kind = "Parachain"
            /\ a.para = parachains[i + 1] /\ u = Assigned(t, t.queue, i, a)
      \/ \E a \in Assignment, n \in 1..Len(t.queue) :
            /\ a.group_idx = (i + Rotations) % NGroups(t)
            /\ i >= Len(parachains) /\ a.kind = "Parathread"
            /\ n = PositionOnCore(t.queue, i - Len(parachains))
            /\ t.queue[n].core_offset = i - Len(parachains)
            /\ a.para = t.queue[n].para /\ a.retries = t.queue[n].retries
            /\ u = Assigned(t, RemoveAt(t.queue, n), i, a)
  BY ScheduleOneEffect
<1> DEFINE o(j) == j - Len(parachains)
<1>3. \/ /\ i >= Len(parachains) /\ u = t
         /\ \A j \in DOMAIN t.queue : t.queue[j].core_offset # o(i)
      \/ \E a \in Assignment :
            /\ a.group_idx = (i + Rotations) % NGroups(t)
            /\ i < Len(parachains) /\ a.kind = "Parachain"
            /\ a.para = parachains[i + 1] /\ u = Assigned(t, t.queue, i, a)
      \/ \E a \in Assignment, n \in 1..Len(t.queue) :
            /\ a.group_idx = (i + Rotations) % NGroups(t)
            /\ i >= Len(parachains) /\ a.kind = "Parathread"
            /\ n = PositionOnCore(t.queue, o(i))
            /\ t.queue[n].core_offset = o(i)
            /\ a.para = t.queue[n].para /\ a.retries = t.queue[n].retries
            /\ u = Assigned(t, RemoveAt(t.queue, n), i, a)
  BY <1>2
<1>4. i # k => o(i) # o(k)
  BY <1>1
<1> HIDE DEF o
<1>5. CASE /\ i >= Len(parachains) /\ u = t
           /\ \A j \in DOMAIN t.queue : t.queue[j].core_offset # o(i)
  <2>1. ~Serves(t, i, p)
    <3>1. ~(i < Len(parachains)) /\ ~FirstIs(t.queue, o(i), p)
      BY <1>1, <1>5 DEF FirstIs
    <3> QED BY <3>1 DEF Serves, o
  <2> QED BY <1>5, <2>1
<1>6. ASSUME NEW a \in Assignment, i < Len(parachains), a.para = parachains[i + 1],
             u = Assigned(t, t.queue, i, a)
      PROVE  /\ i # k => (Serves(u, k, p) <=> Serves(t, k, p))
             /\ i # k /\ AssignedTo(t, k, p) => AssignedTo(u, k, p)
             /\ i = k /\ Serves(t, k, p) => AssignedTo(u, k, p)
             /\ u.availability_cores = t.availability_cores
  <2>1. /\ u.queue = t.queue /\ u.availability_cores = t.availability_cores
        /\ DOMAIN u.scheduled = DOMAIN t.scheduled \union {i} /\ u.scheduled[i] = a
        /\ \A j \in DOMAIN t.scheduled : j # i => u.scheduled[j] = t.scheduled[j]
    BY <1>1, <1>6, AssignedFields
  <2>2. Serves(u, k, p) <=> Serves(t, k, p)
    BY <2>1 DEF Serves
  <2>3. Serves(t, i, p) => p = parachains[i + 1]
    BY <1>1, <1>6 DEF Serves
  <2> QED BY <1>6, <2>1, <2>2, <2>3 DEF AssignedTo
<1>7. ASSUME NEW a \in Assignment, NEW n \in 1..Len(t.queue), i >= Len(parachains),
             n = PositionOnCore(t.queue, o(i)), t.queue[n].core_offset = o(i),
             a.para = t.queue[n].para, u = Assigned(t, RemoveAt(t.queue, n), i, a)
      PROVE  /\ i # k => (Serves(u, k, p) <=> Serves(t, k, p))
             /\ i # k /\ AssignedTo(t, k, p) => AssignedTo(u, k, p)
             /\ i = k /\ Serves(t, k, p) => AssignedTo(u, k, p)
             /\ u.availability_cores = t.availability_cores
  <2> DEFINE q == RemoveAt(t.queue, n)
  <2>1. q \in Seq(Entry) /\ q = RemoveAt(t.queue, n) /\ u = Assigned(t, q, i, a)
    BY <1>1, <1>7, WithoutPosition
  <2> HIDE DEF q
  <2>2. /\ u.queue = q /\ u.availability_cores = t.availability_cores
        /\ DOMAIN u.scheduled = DOMAIN t.scheduled \union {i} /\ u.scheduled[i] = a
        /\ \A j \in DOMAIN t.scheduled : j # i => u.scheduled[j] = t.scheduled[j]
    BY <2>1, AssignedFields
  <2>3. i # k => (FirstIs(u.queue, o(k), p) <=> FirstIs(t.queue, o(k), p))
    BY <1>1, <1>7, <1>4, <2>1, <2>2, FirstOfOthers
  <2>4. i # k => (Serves(u, k, p) <=> Serves(t, k, p))
    BY <2>3 DEF Serves, o
  <2>5. Serves(t, i, p) => p = a.para
    <3>1. Serves(t, i, p) => FirstIs(t.queue, o(i), p)
      BY <1>1, <1>7 DEF Serves, o
    <3>2. FirstIs(t.queue, o(i), p) => t.queue[n].para = p
      BY <1>1, <1>7, FirstFound
    <3> QED BY <1>7, <3>1, <3>2
  <2> QED BY <2>2, <2>4, <2>5 DEF AssignedTo
<1> QED BY <1>3, <1>5, <1>6, <1>7

\* Assigning the cores of U has led from x to t, before core i: what core k serves.
ServingAt(x, t, U, k, p, i) ==
    /\ t.availability_cores = x.availability_cores
    /\ k \notin U => (Serves(t, k, p) <=> Serves(x, k, p))
    /\ k \in U /\ i <= k => (Serves(x, k, p) => Serves(t, k, p))
    /\ k \in U /\ k < i => (Serves(x, k, p) => AssignedTo(t, k, p))

LEMMA AssigningServes ==
    ASSUME session \in Sessions, age \in 0..MaxSessionAge, NEW x \in StoreOf(session),
           NGroups(x) > 0, NEW U, NEW f, f = Assigning(x, U), NEW k \in Nat, NEW p, NEW l \in Nat
    PROVE  ServingAt(x, f[l], U, k, p, l)
<1>1. /\ f[0] = x
      /\ \A n \in Nat : /\ f[n] \in StoreOf(session)
                        /\ n \in U => f[n + 1] = ScheduleOne(f[n], n)
                        /\ n \notin U => f[n + 1] = f[n]
  BY AssigningSteps
<1> DEFINE S == {i \in Nat : ServingAt(x, f[i], U, k, p, i)}
<1>2. 0 \in S
  <2>1. ServingAt(x, x, U, k, p, 0)
    BY DEF ServingAt
  <2> QED BY <1>1, <2>1
<1>3. ASSUME NEW i \in Nat, i \in S PROVE i + 1 \in S
  <2> DEFINE t == f[i]
             u == f[i + 1]
  <2>1. ServingAt(x, t, U, k, p, i) /\ t \in StoreOf(session)
    BY <1>1, <1>3
  <2>2. (i \in U => u = ScheduleOne(t, i)) /\ (i \notin U => u = t)
    BY <1>1
  <2> HIDE DEF t, u
  <2>3. NGroups(t) > 0
    <3>1. t.validator_groups = x.validator_groups
      BY <2>1, StoreTypes
    <3> QED BY <3>1 DEF NGroups
  <2>4. ServingAt(x, u, U, k, p, i + 1)
    <3>1. CASE i \notin U
      <4>1. k \in U => (i + 1 <= k <=> i <= k) /\ (k < i + 1 <=> k < i)
        BY <3>1
      <4> QED BY <2>1, <2>2, <3>1, <4>1 DEF ServingAt
    <3>2. CASE i \in U
      <4>1. /\ i # k => (Serves(u, k, p) <=> Serves(t, k, p))
            /\ i # k /\ AssignedTo(t, k, p) => AssignedTo(u, k, p)
            /\ i = k /\ Serves(t, k, p) => AssignedTo(u, k, p)
            /\ u.availability_cores = t.availability_cores
        BY <2>1, <2>2, <2>3, <3>2, OneServes
      <4>2. CASE i = k
        <5>1. i <= k /\ ~(i + 1 <= k) /\ k < i + 1
          BY <4>2
        <5> QED BY <2>1, <3>2, <4>1, <4>2, <5>1 DEF ServingAt
      <4>3. CASE i # k
        <5>1. (i + 1 <= k <=> i <= k) /\ (k < i + 1 <=> k < i)
          BY <4>3
        <5> QED BY <2>1, <4>1, <4>3, <5>1 DEF ServingAt
      <4> QED BY <4>2, <4>3
    <3> QED BY <3>1, <3>2
  <2> QED BY <2>4 DEF u
<1>4. Nat \subseteq S
  <2> HIDE DEF S
  <2> QED BY <1>2, <1>3, NaturalsIn
<1> QED BY <1>4

\* Freeing a core adds the claim it handles at the end of the queue, if it timed out.
LEMMA OneFreed ==
    ASSUME session \in Sessions, NEW s \in Stores(session), NEW i,
           NEW reason \in {"Concluded", "TimedOut"}, NEW u, u = FreeOne(s, i, reason)
    PROVE  /\ Extends(s.queue, u.queue)
           /\ \A k \in DOMAIN s.availability_cores :
                 k # i => u.availability_cores[k] = s.availability_cores[k]
           /\ i \in DOMAIN s.availability_cores => u.availability_cores[i] = FreeCore
           /\ i \notin Threads(s) => u.queue = s.queue
           /\ i \in Threads(s) /\ reason = "TimedOut" =>
                 u.queue = Append(s.queue, [para |-> s.availability_cores[i].para,
                                            retries |-> s.availability_cores[i].retries,
                                            core_offset |-> s.next_core_offset])
<1> DEFINE c == [s.availability_cores EXCEPT ![i] = FreeCore]
           o == s.availability_cores[i]
           f == [s EXCEPT !.availability_cores[i] = FreeCore]
           e == [para |-> o.para, retries |-> o.retries, core_offset |-> s.next_core_offset]
           r == Append(s.queue, e)
<1>1. s \in StoreOf(session) /\ CoresOK(s, session)
  BY DEF Stores
<1>2. /\ s.queue \in Seq(Entry) /\ s.next_core_offset \in Nat
      /\ \A k \in DOMAIN s.availability_cores : s.availability_cores[k] \in Core
  BY <1>1, StoreTypes
<1>3. Extends(s.queue, s.queue)
  BY <1>2 DEF Extends
<1>4. CASE i \notin DOMAIN s.availability_cores
  BY <1>3, <1>4 DEF FreeOne, Threads
<1>5. CASE i \in DOMAIN s.availability_cores
  <2>1. f = [s EXCEPT !.availability_cores = c]
    OBVIOUS
  <2>2. /\ f.queue = s.queue /\ f.availability_cores = c
        /\ f.next_core_offset = s.next_core_offset
        /\ f \in [queue : {f.queue}, next_core_offset : {f.next_core_offset},
                  availability_cores : {f.availability_cores},
                  claim_index : {f.claim_index}, scheduled : {f.scheduled},
                  validator_groups : {f.validator_groups}]
    <3> HIDE DEF c
    <3> QED BY <1>1, <2>1 DEF StoreOf
  <2>3. /\ \A k \in DOMAIN s.availability_cores : k # i => c[k] = s.availability_cores[k]
        /\ c[i] = FreeCore
    BY <1>1, <1>5, StoreTypes
  <2>4. o.kind \in {"Free", "Parachain", "Parathread"}
    BY <1>2, <1>5 DEF Core
  <2>5. i \in Threads(s) <=> o.kind = "Parathread"
    BY <1>5 DEF Threads
  <2> HIDE DEF c, f
  <2>6. CASE o.kind # "Parathread"
    <3>1. u = f
      BY <1>5, <2>6, Zenon DEF FreeOne, f, o
    <3> QED BY <1>3, <2>2, <2>3, <2>5, <2>6, <3>1
  <2>7. CASE o.kind = "Parathread" /\ reason = "Concluded"
    <3>1. u = [f EXCEPT !.claim_index = @ \ {o.para}]
      BY <1>5, <2>7 DEF FreeOne, f, o
    <3>2. u.queue = s.queue /\ u.availability_cores = c
      BY <2>2, <3>1
    <3> QED BY <1>3, <2>3, <2>5, <2>7, <3>2
  <2>8. CASE o.kind = "Parathread" /\ reason = "TimedOut"
    <3>1. u = enqueue_entry(f, o.para, o.retries, config.parathread_cores)
      BY <1>5, <2>8 DEF FreeOne, f, o
    <3>2. u.queue = r /\ u.availability_cores = c
      BY <2>2, <3>1 DEF enqueue_entry
    <3>3. o.para \in ParaIds /\ o.retries \in Nat
      <4>1. o.para \in session.parathreads
        BY <1>1, <1>5, <2>8 DEF CoresOK
      <4> QED BY <1>2, <1>5, <4>1, SessionTypes DEF Core
    <3>4. e \in Entry
      BY <1>2, <3>3 DEF Entry
    <3> HIDE DEF e
    <3>5. Len(r) = Len(s.queue) + 1 /\ \A j \in 1..Len(s.queue) : r[j] = s.queue[j]
      BY <1>2, <3>4
    <3>6. Extends(s.queue, r)
      <4>1. Len(s.queue) \in Nat
        BY <1>2
      <4> HIDE DEF r
      <4> QED BY <3>5, <4>1 DEF Extends
    <3> QED BY <2>3, <2>5, <2>8, <3>2, <3>6 DEF e
  <2> QED BY <2>4, <2>6, <2>7, <2>8
<1> QED BY <1>4, <1>5

LEMMA ExtendsTransitive ==
    ASSUME NEW q \in Seq(Entry), NEW r \in Seq(Entry), NEW z \in Seq(Entry),
           Extends(q, r), Extends(r, z)
    PROVE  Extends(q, z)
<1> DEFINE l == Len(q)
           m == Len(r)
           n == Len(z)
<1>1. l \in Nat /\ m \in Nat /\ n \in Nat
  OBVIOUS
<1>2. /\ l <= m /\ \A i \in 1..l : r[i] = q[i]
      /\ m <= n /\ \A i \in 1..m : z[i] = r[i]
  BY DEF Extends
<1> HIDE DEF l, m, n
<1>3. l <= n /\ \A i \in 1..l : i \in 1..m
  BY <1>1, <1>2
<1>4. l <= n /\ \A i \in 1..l : z[i] = q[i]
  BY <1>2, <1>3
<1> QED BY <1>4 DEF Extends, l, n

\* Freeing has led from s to t, before core i: a freed core k is free, and claims were
\* only added at the end of the queue.
FreedAt(s, t, k, i) ==
    /\ Extends(s.queue, t.queue)
    /\ i <= k => t.availability_cores[k] = s.availability_cores[k]
    /\ k < i => t.availability_cores[k] = FreeCore

LEMMA FreeingFrees ==
    ASSUME session \in Sessions, NEW s \in Stores(session), NEW freed, Freeable(freed),
           NEW f, f = Freeing(s, freed), NEW k \in DOMAIN freed,
           k \in DOMAIN s.availability_cores, NEW l \in Nat
    PROVE  FreedAt(s, f[l], k, l)
<1>1. /\ f[0] = s
      /\ \A n \in Nat : /\ f[n] \in Stores(session)
                        /\ n \in DOMAIN freed => f[n + 1] = FreeOne(f[n], n, freed[n])
                        /\ n \notin DOMAIN freed => f[n + 1] = f[n]
  BY FreeingSteps
<1>2. k \in Nat
  BY DEF Freeable, Bounded
<1>3. \A t \in Stores(session) :
         t.queue \in Seq(Entry) /\ DOMAIN t.availability_cores = DOMAIN s.availability_cores
  <2>1. ASSUME NEW t \in Stores(session)
        PROVE  /\ t.queue \in Seq(Entry)
               /\ DOMAIN t.availability_cores = 0 .. n_cores(session) - 1
    <3>1. t \in StoreOf(session)
      BY DEF Stores
    <3> QED BY <3>1, StoreTypes
  <2> QED BY <2>1
<1> DEFINE S == {i \in Nat : FreedAt(s, f[i], k, i)}
<1>4. 0 \in S
  <2>1. FreedAt(s, s, k, 0)
    <3>1. s.queue \in Seq(Entry)
      BY <1>3
    <3>2. Extends(s.queue, s.queue)
      BY <3>1 DEF Extends
    <3> QED BY <1>2, <3>2 DEF FreedAt
  <2> QED BY <1>1, <2>1
<1>5. ASSUME NEW i \in Nat, i \in S PROVE i + 1 \in S
  <2> DEFINE t == f[i]
             u == f[i + 1]
  <2>1. FreedAt(s, t, k, i) /\ t \in Stores(session) /\ u \in Stores(session)
    BY <1>1, <1>5
  <2>2. /\ i \in DOMAIN freed => u = FreeOne(t, i, freed[i])
        /\ i \notin DOMAIN freed => u = t
    BY <1>1
  <2> HIDE DEF t, u
  <2>3. FreedAt(s, u, k, i + 1)
    <3>1. CASE i \notin DOMAIN freed
      <4>1. i # k /\ (i + 1 <= k <=> i <= k) /\ (k < i + 1 <=> k < i)
        BY <1>2, <3>1
      <4> QED BY <2>1, <2>2, <3>1, <4>1 DEF FreedAt
    <3>2. CASE i \in DOMAIN freed
      <4>1. /\ Extends(t.queue, u.queue)
            /\ \A j \in DOMAIN t.availability_cores :
                  j # i => u.availability_cores[j] = t.availability_cores[j]
            /\ i \in DOMAIN t.availability_cores => u.availability_cores[i] = FreeCore
        <5> DEFINE reason == freed[i]
        <5>1. reason \in {"Concluded", "TimedOut"} /\ u = FreeOne(t, i, reason)
          BY <2>2, <3>2 DEF Freeable
        <5> HIDE DEF reason
        <5>2. t \in Stores(session)
          BY <2>1
        <5>3. /\ Extends(t.queue, u.queue)
              /\ \A j \in DOMAIN t.availability_cores :
                    j # i => u.availability_cores[j] = t.availability_cores[j]
              /\ i \in DOMAIN t.availability_cores => u.availability_cores[i] = FreeCore
              /\ i \notin Threads(t) => u.queue = t.queue
              /\ i \in Threads(t) /\ reason = "TimedOut" =>
                   u.queue = Append(t.queue, [para |-> t.availability_cores[i].para,
                                              retries |-> t.availability_cores[i].retries,
                                              core_offset |-> t.next_core_offset])
          BY <5>1, <5>2, OneFreed
        <5> QED BY <5>3
      <4>2. Extends(s.queue, u.queue)
        BY <1>3, <2>1, <4>1, ExtendsTransitive DEF FreedAt
      <4>3. k \in DOMAIN t.availability_cores
        BY <1>3, <2>1
      <4>4. CASE i = k
        <5>1. ~(i + 1 <= k)
          BY <4>4
        <5> QED BY <4>1, <4>2, <4>3, <4>4, <5>1 DEF FreedAt
      <4>5. CASE i # k
        <5>1. (i + 1 <= k <=> i <= k) /\ (k < i + 1 <=> k < i)
          BY <1>2, <4>5
        <5> QED BY <2>1, <4>1, <4>2, <4>3, <4>5, <5>1 DEF FreedAt
      <4> QED BY <4>4, <4>5
    <3> QED BY <3>1, <3>2
  <2> QED BY <2>3 DEF u
<1>6. Nat \subseteq S
  <2> HIDE DEF S
  <2> QED BY <1>4, <1>5, NaturalsIn
<1> QED BY <1>6

\* The only multiplexer core returns its claim to an empty queue: it is the next there.
ReturnsAt(s, t, k, i) ==
    /\ i <= k => t.queue = <<>> /\ t.availability_cores[k] = s.availability_cores[k]
    /\ k < i => FirstIs(t.queue, k - Len(parachains), s.availability_cores[k].para)

\* The core that handles a claim where there is only one.
LEMMA OnlyThread ==
    ASSUME session \in Sessions, config.parathread_cores = 1, NEW t \in Stores(session)
    PROVE  /\ t.next_core_offset = 0
           /\ \A j \in DOMAIN t.queue : t.queue[j].core_offset = 0
           /\ \A k \in Threads(t) : k = Len(parachains)
<1>1. t \in StoreOf(session) /\ QueueOK(t, session) /\ CoresOK(t, session)
  BY DEF Stores
<1>2. /\ DOMAIN t.availability_cores = 0 .. n_cores(session) - 1 /\ n_cores(session) \in Nat
      /\ t.next_core_offset \in Nat /\ Len(parachains) \in Nat
      /\ \A j \in DOMAIN t.queue : t.queue[j].core_offset \in Nat
  BY <1>1, StoreTypes, SessionTypes DEF Entry, parachains
<1>3. t.next_core_offset = 0
  BY <1>1, <1>2 DEF QueueOK, config
<1>4. ASSUME NEW j \in DOMAIN t.queue PROVE t.queue[j].core_offset = 0
  <2>1. t.queue[j].core_offset < 1
    BY <1>1 DEF QueueOK, config
  <2> QED BY <1>2, <2>1
<1>5. ASSUME NEW k \in Threads(t) PROVE k = Len(parachains)
  <2>1. k \in 0 .. n_cores(session) - 1
    BY <1>2 DEF Threads
  <2>2. k >= Len(parachains) /\ k - Len(parachains) < 1
    BY <1>1 DEF CoresOK, Multiplexer, Threads, config, parachains
  <2> QED BY <1>2, <2>1, <2>2
<1> QED BY <1>3, <1>4, <1>5

LEMMA FreeingReturns ==
    ASSUME session \in Sessions, NEW s \in Stores(session), NEW freed, Freeable(freed),
           NEW f, f = Freeing(s, freed), NEW k \in DOMAIN freed, k \in Threads(s),
           freed[k] = "TimedOut", config.parathread_cores = 1, s.queue = <<>>, NEW l \in Nat
    PROVE  ReturnsAt(s, f[l], k, l)
<1>1. /\ f[0] = s
      /\ \A n \in Nat : /\ f[n] \in Stores(session)
                        /\ n \in DOMAIN freed => f[n + 1] = FreeOne(f[n], n, freed[n])
                        /\ n \notin DOMAIN freed => f[n + 1] = f[n]
  BY FreeingSteps
<1>2. k \in Nat /\ k = Len(parachains)
  BY OnlyThread DEF Freeable, Bounded
<1>3. \A t \in Stores(session) :
         /\ t.queue \in Seq(Entry) /\ DOMAIN t.availability_cores = DOMAIN s.availability_cores
         /\ \A j \in DOMAIN t.availability_cores : t.availability_cores[j] \in Core
  <2>1. ASSUME NEW t \in Stores(session)
        PROVE  /\ t.queue \in Seq(Entry)
               /\ DOMAIN t.availability_cores = 0 .. n_cores(session) - 1
               /\ \A j \in DOMAIN t.availability_cores : t.availability_cores[j] \in Core
    <3>1. t \in StoreOf(session)
      BY DEF Stores
    <3> QED BY <3>1, StoreTypes
  <2> QED BY <2>1
<1>4. k \in DOMAIN s.availability_cores /\ s.availability_cores[k].kind = "Parathread"
  BY DEF Threads
<1> DEFINE S == {i \in Nat : ReturnsAt(s, f[i], k, i)}
<1>5. 0 \in S
  <2>1. ReturnsAt(s, s, k, 0)
    BY <1>2 DEF ReturnsAt
  <2> QED BY <1>1, <2>1
<1>6. ASSUME NEW i \in Nat, i \in S PROVE i + 1 \in S
  <2> DEFINE t == f[i]
             u == f[i + 1]
             reason == freed[i]
  <2>1. ReturnsAt(s, t, k, i) /\ t \in Stores(session) /\ u \in Stores(session)
    BY <1>1, <1>6
  <2>2. /\ i \in DOMAIN freed => u = FreeOne(t, i, reason)
        /\ i \notin DOMAIN freed => u = t
    BY <1>1
  <2>3. i \in DOMAIN freed => reason \in {"Concluded", "TimedOut"}
    BY DEF Freeable
  <2>4. i = k => reason = "TimedOut"
    OBVIOUS
  <2> HIDE DEF t, u, reason
  <2>5. ReturnsAt(s, u, k, i + 1)
    <3>1. CASE i \notin DOMAIN freed
      <4>1. i # k /\ (i + 1 <= k <=> i <= k) /\ (k < i + 1 <=> k < i)
        BY <1>2, <3>1
      <4> QED BY <2>1, <2>2, <3>1, <4>1 DEF ReturnsAt
    <3>2. CASE i \in DOMAIN freed
      <4>1. /\ Extends(t.queue, u.queue)
            /\ \A j \in DOMAIN t.availability_cores :
                  j # i => u.availability_cores[j] = t.availability_cores[j]
            /\ i \notin Threads(t) => u.queue = t.queue
            /\ i \in Threads(t) /\ reason = "TimedOut" =>
                 u.queue = Append(t.queue, [para |-> t.availability_cores[i].para,
                                            retries |-> t.availability_cores[i].retries,
                                            core_offset |-> t.next_core_offset])
        BY <2>1, <2>2, <2>3, <3>2, OneFreed
      <4>2. k \in DOMAIN t.availability_cores
        BY <1>3, <1>4, <2>1
      <4>3. CASE i = k
        <5> DEFINE c == t.availability_cores[k]
                   e == [para |-> c.para, retries |-> c.retries, core_offset |-> 0]
        <5>1. t.queue = <<>> /\ c = s.availability_cores[k]
          BY <1>2, <2>1, <4>3 DEF ReturnsAt
        <5>2. k \in Threads(t) /\ t.next_core_offset = 0
          BY <1>4, <2>1, <4>2, <5>1, OnlyThread DEF Threads
        <5>3. u.queue = Append(<<>>, e)
          BY <2>4, <4>1, <4>3, <5>1, <5>2
        <5>4. u.queue = <<e>>
          BY <5>3
        <5>5. DOMAIN u.queue = {1} /\ u.queue[1] = e
          <6> HIDE DEF e
          <6> QED BY <5>4
        <5>6. e.core_offset = 0 /\ e.para = s.availability_cores[k].para
          BY <5>1
        <5>7. FirstIs(u.queue, 0, s.availability_cores[k].para)
          <6> HIDE DEF e
          <6>1. \A j \in DOMAIN u.queue : ~(j < 1)
            BY <5>5
          <6> QED BY <5>5, <5>6, <6>1 DEF FirstIs
        <5>8. k - Len(parachains) = 0 /\ ~(i + 1 <= k)
          BY <1>2, <4>3
        <5> QED BY <5>7, <5>8 DEF ReturnsAt
      <4>4. CASE i # k
        <5>1. (i + 1 <= k <=> i <= k) /\ (k < i + 1 <=> k < i)
          BY <1>2, <4>4
        <5>2. u.queue = t.queue
          BY <1>2, <2>1, <4>1, <4>4, OnlyThread
        <5> QED BY <2>1, <4>1, <4>2, <4>4, <5>1, <5>2 DEF ReturnsAt
      <4> QED BY <4>3, <4>4
    <3> QED BY <3>1, <3>2
  <2> QED BY <2>5 DEF u
<1>7. Nat \subseteq S
  <2> HIDE DEF S
  <2> QED BY <1>5, <1>6, NaturalsIn
<1> QED BY <1>7

\* The block that frees a core assigns to it what it serves next; and its own claim,
\* if that returns to an empty queue.
LEMMA ScheduleServes ==
    ASSUME session \in Sessions, age \in 0..MaxSessionAge, NEW s \in Stores(session),
           DOMAIN s.scheduled = {}, NGroups(s) > 0, NEW freed, Freeable(freed),
           NEW k \in DOMAIN freed, k \in DOMAIN s.availability_cores,
           NEW u, u = schedule(s, freed), NEW p,
           \/ Serves(s, k, p)
           \/ /\ k \in Threads(s) /\ freed[k] = "TimedOut" /\ s.queue = <<>>
              /\ config.parathread_cores = 1 /\ p = s.availability_cores[k].para
    PROVE  AssignedTo(u, k, p)
<1> DEFINE g == Freeing(s, freed)
           m == Limit(DOMAIN freed)
           x == free_cores(s, freed)
           U == UnassignedCores(x)
           f == Assigning(x, U)
           l == Limit(U)
<1>1. x = g[m] /\ m \in Nat /\ k < m /\ k \in Nat
  BY LastCore DEF free_cores, Freeable, Bounded
<1>2. x \in Stores(session) /\ x.scheduled = s.scheduled
  BY FreeCoresKeeps DEF FreedFrom
<1>3. u = IF NGroups(x) = 0 THEN x ELSE f[l]
  BY DEF schedule
<1> HIDE DEF x, m
<1>4. s \in StoreOf(session) /\ x \in StoreOf(session)
  BY <1>2 DEF Stores
<1>5. /\ s.queue \in Seq(Entry) /\ x.queue \in Seq(Entry)
      /\ x.validator_groups = s.validator_groups
      /\ DOMAIN s.availability_cores = 0 .. n_cores(session) - 1
      /\ DOMAIN x.availability_cores = 0 .. n_cores(session) - 1
      /\ n_cores(session) \in Nat /\ Len(parachains) \in Nat
  BY <1>4, StoreTypes, SessionTypes DEF parachains
<1>6. NGroups(x) > 0 /\ u = f[l]
  BY <1>3, <1>5 DEF NGroups
<1>7. FreedAt(s, x, k, m)
  <2> HIDE DEF g
  <2>1. g = Freeing(s, freed)
    BY DEF g
  <2> QED BY <1>1, <2>1, FreeingFrees
<1>8. x.availability_cores[k] = FreeCore /\ Extends(s.queue, x.queue)
  BY <1>1, <1>7 DEF FreedAt
<1>9. k \in U /\ U \subseteq 0 .. n_cores(session) - 1
  BY <1>2, <1>5, <1>8 DEF UnassignedCores, FreeCore
<1>10. Bounded(U)
  <2> HIDE DEF U
  <2> QED BY <1>5, <1>9, BelowIsBounded
<1>11. l \in Nat /\ k < l
  <2> HIDE DEF U
  <2> QED BY <1>9, <1>10, LastCore
<1> HIDE DEF U, l
<1>12. Serves(x, k, p)
  <2>1. CASE Serves(s, k, p)
    <3>1. ASSUME FirstIs(s.queue, k - Len(parachains), p)
          PROVE  FirstIs(x.queue, k - Len(parachains), p)
      BY <1>5, <1>8, <3>1, FirstOfExtended
    <3> QED BY <2>1, <3>1 DEF Serves
  <2>2. CASE /\ k \in Threads(s) /\ freed[k] = "TimedOut" /\ s.queue = <<>>
             /\ config.parathread_cores = 1 /\ p = s.availability_cores[k].para
    <3>1. ReturnsAt(s, x, k, m)
      <4> HIDE DEF g
      <4>1. g = Freeing(s, freed)
        BY DEF g
      <4> QED BY <1>1, <2>2, <4>1, FreeingReturns
    <3>2. FirstIs(x.queue, k - Len(parachains), p)
      BY <1>1, <2>2, <3>1 DEF ReturnsAt
    <3>3. k >= Len(parachains)
      <4>1. k = Len(parachains)
        BY <2>2, OnlyThread
      <4> QED BY <1>5, <4>1
    <3> QED BY <3>2, <3>3 DEF Serves
  <2> QED BY <2>1, <2>2
<1>13. ServingAt(x, f[l], U, k, p, l)
  <2> HIDE DEF f
  <2>1. f = Assigning(x, U)
    BY DEF f
  <2> QED BY <1>1, <1>4, <1>6, <1>11, <2>1, AssigningServes
<1> HIDE DEF f
<1> QED BY <1>6, <1>9, <1>11, <1>12, <1>13 DEF ServingAt

\* No core is freed.
LEMMA FreeingNone ==
    ASSUME session \in Sessions, NEW s \in Stores(session), NEW freed, DOMAIN freed = {}
    PROVE  Freeable(freed) /\ free_cores(s, freed) = s
<1>1. Freeable(freed)
  <2>1. Bounded({})
    BY BelowIsBounded DEF Bounded
  <2> QED BY <2>1 DEF Freeable
<1>2. Limit(DOMAIN freed) = 0
  BY DEF Limit
<1>3. Freeing(s, freed)[0] = s
  BY <1>1, FreeingSteps
<1> QED BY <1>1, <1>2, <1>3 DEF free_cores

\* What the runtime API looks at: the other cores are assigned, core k is still occupied.
LEMMA ApiServes ==
    ASSUME session \in Sessions, age \in 0..MaxSessionAge, NEW s \in Stores(session),
           NGroups(s) > 0, NEW k \in DOMAIN s.availability_cores,
           s.availability_cores[k].kind # "Free", NEW u, u = schedule(s, EmptyMap), NEW p
    PROVE  /\ u.availability_cores = s.availability_cores /\ u.queue \in Seq(Entry)
           /\ Serves(u, k, p) <=> Serves(s, k, p)
<1> DEFINE U == UnassignedCores(s)
           f == Assigning(s, U)
           l == Limit(U)
<1>1. free_cores(s, EmptyMap) = s
  BY FreeingNone, EmptyIsPartial
<1>2. u = f[l]
  <2>1. NGroups(s) # 0
    OBVIOUS
  <2> QED BY <1>1, <2>1 DEF schedule
<1>3. s \in StoreOf(session)
  BY DEF Stores
<1>4. DOMAIN s.availability_cores = 0 .. n_cores(session) - 1 /\ n_cores(session) \in Nat
  BY <1>3, StoreTypes, SessionTypes
<1>5. k \notin U /\ U \subseteq 0 .. n_cores(session) - 1
  BY <1>4 DEF UnassignedCores
<1>6. k \in Nat
  BY <1>4
<1> HIDE DEF U
<1>7. l \in Nat
  BY <1>4, <1>5, BelowIsBounded, LastCore
<1>8. f = Assigning(s, U)
  OBVIOUS
<1> HIDE DEF f, l
<1>9. ServingAt(s, f[l], U, k, p, l)
  BY <1>3, <1>6, <1>7, <1>8, AssigningServes
<1>10. f[l] \in StoreOf(session)
  BY <1>3, <1>7, <1>8, AssigningSteps
<1>11. f[l].queue \in Seq(Entry)
  BY <1>10, StoreTypes
<1> QED BY <1>2, <1>5, <1>9, <1>11 DEF ServingAt

\* What the runtime API announces is what the core serves next.
LEMMA AnnouncesServed ==
    ASSUME session \in Sessions, NEW u, u.queue \in Seq(Entry), NEW k \in Nat,
           NEW p, p = next_up_on_available(u, k)
    PROVE  /\ p # NoPara => Serves(u, k, p)
           /\ p = NoPara => k >= Len(parachains) /\ \A x : ~Serves(u, k, x)
<1> DEFINE o == k - Len(parachains)
           n == PositionOnCore(u.queue, o)
<1>1. /\ Len(parachains) \in Nat
      /\ \A i \in 1..Len(parachains) : parachains[i] \in ParaIds
  BY SessionTypes DEF parachains
<1>2. \A x : FirstIs(u.queue, o, x) <=> n # 0 /\ u.queue[n].para = x
  BY FirstFound
<1>3. n \in 0..Len(u.queue)
  BY FirstOnCore
<1>4. n # 0 => u.queue[n].para \in ParaIds
  <2>1. Len(u.queue) \in Nat /\ \A i \in 1..Len(u.queue) : u.queue[i] \in Entry
    OBVIOUS
  <2>2. n # 0 => n \in 1..Len(u.queue)
    BY <1>3, <2>1
  <2> HIDE DEF n
  <2> QED BY <2>1, <2>2 DEF Entry
<1>5. CASE k < Len(parachains)
  <2>1. p = parachains[k + 1] /\ k + 1 \in 1..Len(parachains)
    BY <1>1, <1>5 DEF next_up_on_available
  <2> QED BY <1>1, <1>5, <2>1, NoParaAssumption DEF Serves
<1>6. CASE k >= Len(parachains)
  <2>1. (n # 0 => p = u.queue[n].para) /\ (n = 0 => p = NoPara) /\ ~(k < Len(parachains))
    BY <1>1, <1>6 DEF next_up_on_available
  <2> HIDE DEF n
  <2>2. \A x : Serves(u, k, x) <=> FirstIs(u.queue, o, x)
    BY <1>6, <2>1 DEF Serves
  <2> HIDE DEF o
  <2> QED BY <1>2, <1>4, <1>6, <2>1, <2>2, NoParaAssumption
<1> QED BY <1>1, <1>5, <1>6

\* What the runtime API announces of an occupied core is scheduled.
LEMMA NextUpHolds ==
    ASSUME SchedulerInv
    PROVE  NextUpKept
<1> SUFFICES ASSUME NGroups(store) > 0, NEW k \in OccupiedCores,
                    NEW reason \in {"Concluded", "TimedOut"}, NEW up,
                    \/ /\ up = next_up_on_available(ApiView, k) /\ up # NoPara
                    \/ /\ reason = "TimedOut" /\ config.parathread_cores = 1
                       /\ next_up_on_available(ApiView, k) = NoPara
                       /\ up = ApiView.availability_cores[k].para,
                    NEW g \in Freed(OccupiedCores \ {k})
             PROVE  AssignedTo(AfterSchedule({}, Put(g, k, reason)), k, up)
  BY DEF NextUpKept, AssignedTo, next_up_on_time_out
<1> DEFINE s == clear(store)
           freed == Put(g, k, reason)
           none == [j \in {} |-> "Concluded"]
           u == schedule(s, freed)
           api == schedule(s, EmptyMap)
           available == next_up_on_available(api, k)
<1>1. session \in Sessions /\ store \in Stores(session) /\ age \in 0..MaxSessionAge
  BY DEF SchedulerInv
<1>2. store \in StoreOf(session) /\ ListOK(store, session)
  BY <1>1 DEF Stores
<1>3. /\ DOMAIN store.availability_cores = 0 .. n_cores(session) - 1
      /\ n_cores(session) \in Nat
      /\ \A j \in DOMAIN store.availability_cores : store.availability_cores[j] \in Core
  BY <1>1, <1>2, StoreTypes, SessionTypes
<1>4. k \in DOMAIN store.availability_cores /\ store.availability_cores[k].kind # "Free"
  BY DEF OccupiedCores
<1>5. Clearable(store)
  <2>1. FreshList(store, session)
    BY <1>2, <1>4 DEF ListOK
  <2> QED BY <2>1 DEF FreshList, Clearable, Requeues, config
<1>6. /\ s \in Stores(session) /\ DOMAIN s.scheduled = {}
      /\ s.availability_cores = store.availability_cores
  BY <1>1, <1>5, ClearKeeps
<1>7. AfterSchedule({}, freed) = u
  <2> DEFINE a == free_cores(store, none)
  <2>1. a = store
    <3>1. DOMAIN none = {}
      OBVIOUS
    <3> HIDE DEF none
    <3> QED BY <1>1, <3>1, FreeingNone
  <2>2. AfterSchedule({}, freed) = schedule(clear(a), freed)
    BY DEF AfterSchedule
  <2> HIDE DEF a, freed
  <2> QED BY <2>1, <2>2
<1>8. ApiView = api
  BY DEF ApiView
<1> HIDE DEF s
<1>9. NGroups(s) > 0
  <2>1. s \in StoreOf(session)
    BY <1>6 DEF Stores
  <2>2. s.validator_groups = store.validator_groups
    BY <1>1, <1>2, <2>1, StoreTypes
  <2> QED BY <2>2 DEF NGroups
<1>10. /\ Freeable(freed) /\ k \in DOMAIN freed /\ freed[k] = reason
  <2>1. PICK T \in SUBSET (OccupiedCores \ {k}) : g \in [T -> {"Concluded", "TimedOut"}]
    BY DEF Freed
  <2>2. freed = [j \in T \union {k} |-> IF j = k THEN reason ELSE g[j]]
    <3>1. DOMAIN g = T
      BY <2>1
    <3> QED BY <3>1, Zenon DEF Put
  <2>3. T \union {k} \subseteq 0 .. n_cores(session) - 1
    BY <1>3, <1>4 DEF OccupiedCores
  <2>4. Bounded(T \union {k})
    BY <1>3, <2>3, BelowIsBounded
  <2> HIDE DEF freed
  <2> QED BY <2>1, <2>2, <2>4 DEF Freeable
<1> HIDE DEF freed
<1>11. \A p : /\ api.availability_cores = s.availability_cores /\ api.queue \in Seq(Entry)
              /\ Serves(api, k, p) <=> Serves(s, k, p)
  BY <1>1, <1>4, <1>6, <1>9, ApiServes
<1>12. k \in Nat
  BY <1>3, <1>4
<1>13. /\ available # NoPara => Serves(api, k, available)
       /\ available = NoPara => k >= Len(parachains) /\ \A x : ~Serves(api, k, x)
  <2> HIDE DEF api
  <2> QED BY <1>1, <1>11, <1>12, AnnouncesServed
<1> HIDE DEF api
<1>14. \/ Serves(s, k, up)
       \/ /\ k \in Threads(s) /\ freed[k] = "TimedOut" /\ s.queue = <<>>
          /\ config.parathread_cores = 1 /\ up = s.availability_cores[k].para
  <2>1. CASE up = next_up_on_available(ApiView, k) /\ up # NoPara
    BY <1>8, <1>11, <1>13, <2>1
  <2>2. CASE /\ reason = "TimedOut" /\ config.parathread_cores = 1
             /\ next_up_on_available(ApiView, k) = NoPara
             /\ up = ApiView.availability_cores[k].para
    <3>1. k >= Len(parachains) /\ \A x : ~Serves(s, k, x)
      BY <1>8, <1>11, <1>13, <2>2
    <3>2. up = s.availability_cores[k].para
      BY <1>8, <1>11, <2>2
    <3>3. k \in Threads(s)
      <4>1. CoresOK(store, session)
        BY <1>1 DEF Stores
      <4>2. ~(k < Len(session.parachains))
        BY <1>1, <1>12, <3>1, SessionTypes DEF parachains
      <4>3. store.availability_cores[k].kind = "Parathread"
        BY <1>3, <1>4, <4>1, <4>2 DEF CoresOK, Core
      <4> QED BY <1>4, <1>6, <4>3 DEF Threads
    <3>4. s.queue = <<>>
      <4>1. s.queue \in Seq(Entry) /\ Len(s.queue) \in Nat /\ DOMAIN s.queue = 1..Len(s.queue)
        <5>1. s \in StoreOf(session)
          BY <1>6 DEF Stores
        <5> QED BY <1>1, <5>1, StoreTypes
      <4>2. k - Len(parachains) = 0 /\ \A j \in DOMAIN s.queue : s.queue[j].core_offset = 0
        <5>1. k = Len(parachains) /\ \A j \in DOMAIN s.queue : s.queue[j].core_offset = 0
          BY <1>1, <1>6, <2>2, <3>3, OnlyThread
        <5> QED BY <1>12, <5>1
      <4>3. \A x : ~FirstIs(s.queue, 0, x)
        BY <3>1, <4>2 DEF Serves
      <4>4. ~(1 \in DOMAIN s.queue)
        <5>1. \A j \in DOMAIN s.queue : ~(j < 1)
          BY <4>1
        <5>2. 1 \in DOMAIN s.queue => FirstIs(s.queue, 0, s.queue[1].para)
          BY <4>2, <5>1 DEF FirstIs
        <5> QED BY <4>3, <5>2
      <4>5. Len(s.queue) = 0
        BY <4>1, <4>4
      <4> QED BY <4>1, <4>5
    <3> QED BY <1>10, <2>2, <3>2, <3>3, <3>4
  <2> QED BY <2>1, <2>2
<1>15. k \in DOMAIN s.availability_cores
  BY <1>4, <1>6
<1>16. AssignedTo(u, k, up)
  <2>1. u = schedule(s, freed)
    OBVIOUS
  <2> HIDE DEF u
  <2> QED BY <1>1, <1>6, <1>9, <1>10, <1>14, <1>15, <2>1, ScheduleServes
<1> QED BY <1>7, <1>16 DEF freed

\* "Return the next thing that will be scheduled on this core": what the runtime API
\* announces for an occupied core gets it, whichever other cores the block frees.
THEOREM NextUpAlwaysKept ==
    ASSUME ThreadCoresStay
    PROVE  Spec => []NextUpKept
<1>1. SchedulerInv => NextUpKept
  BY NextUpHolds
<1>2. Spec => []SchedulerInv
  BY SchedulerInductive
<1> QED BY <1>1, <1>2, PTL
=============================================================================
