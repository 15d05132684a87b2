---------------------------- MODULE LoopTheorems ----------------------------
(***************************************************************************)
(* Facts about loops: a recursive function on the naturals that steps      *)
(* through the values of a set exists and stays in it.                     *)
(***************************************************************************)
EXTENDS Integers, WellFoundedInduction, TLAPS

\* A set of naturals that is not empty has a least element.
LEMMA LeastNatural ==
    ASSUME NEW T, T \subseteq Nat, T # {}
    PROVE  \E x \in T : \A y \in T : x <= y
<1> DEFINE R == OpToRel(<, Nat)
<1>1. IsWellFoundedOn(R, Nat)
  BY NatLessThanWellFounded
<1>2. \A y, x \in Nat : y < x => <<y, x>> \in R
  BY DEF OpToRel
<1> HIDE DEF R
<1>3. PICK x \in T : \A y \in T : ~ (<<y, x>> \in R)
  BY <1>1, WFMin
<1>4. ASSUME NEW y \in T PROVE x <= y
  <2>1. x \in Nat /\ y \in Nat /\ ~(y < x)
    BY <1>2, <1>3
  <2> QED BY <2>1
<1> QED BY <1>4

\* Induction over the naturals, of membership in a set.
LEMMA NaturalsIn ==
    ASSUME NEW S, 0 \in S, \A n \in Nat : n \in S => n + 1 \in S
    PROVE  Nat \subseteq S
<1> DEFINE T == Nat \ S
<1> SUFFICES ASSUME T # {} PROVE FALSE
  OBVIOUS
<1>1. PICK x \in T : \A y \in T : x <= y
  BY LeastNatural
<1>2. x \in Nat /\ x # 0 /\ x \notin S
  BY <1>1
<1>3. x - 1 \in Nat /\ x - 1 \notin T
  BY <1>1, <1>2
<1>4. (x - 1) + 1 = x
  BY <1>2
<1> QED BY <1>2, <1>3, <1>4

\* The turns of a loop that stays in D, by their number.
TurnsIn(D) == [Nat \X D -> D]

\* The first n turns of a loop from x with the turns F.
IsTrace(g, n, D, F, x) ==
    /\ g \in [0..n -> D]
    /\ g[0] = x
    /\ \A i \in 0..(n - 1) : g[i + 1] = F[<<i, g[i]>>]

\* Traces of a loop agree.
LEMMA TracesAgree ==
    ASSUME NEW D, NEW F \in TurnsIn(D), NEW x \in D,
           NEW m \in Nat, NEW n \in Nat, m <= n, NEW g, NEW h,
           IsTrace(g, m, D, F, x), IsTrace(h, n, D, F, x)
    PROVE  g[m] = h[m]
<1> DEFINE S == {i \in Nat : i <= m => g[i] = h[i]}
<1>1. 0 \in S
  BY DEF IsTrace
<1>2. ASSUME NEW i \in Nat, i \in S PROVE i + 1 \in S
  <2>1. CASE i + 1 <= m
    <3>1. i \in 0..(m - 1) /\ i \in 0..(n - 1) /\ g[i] = h[i]
      BY <1>2, <2>1
    <3>2. g[i + 1] = F[<<i, g[i]>>] /\ h[i + 1] = F[<<i, h[i]>>]
      BY <3>1 DEF IsTrace
    <3> QED BY <3>1, <3>2
  <2>2. CASE ~(i + 1 <= m)
    BY <2>2
  <2> QED BY <2>1, <2>2
<1>3. Nat \subseteq S
  <2> HIDE DEF S
  <2> QED BY <1>1, <1>2, NaturalsIn
<1> QED BY <1>3

\* There are traces of every length.
LEMMA TraceExists ==
    ASSUME NEW D, NEW F \in TurnsIn(D), NEW x \in D, NEW n \in Nat
    PROVE  \E g : IsTrace(g, n, D, F, x)
<1> DEFINE S == {i \in Nat : \E g : IsTrace(g, i, D, F, x)}
<1>1. 0 \in S
  <2> DEFINE g == [i \in 0..0 |-> x]
  <2>1. IsTrace(g, 0, D, F, x)
    BY DEF IsTrace
  <2> QED BY <2>1
<1>2. ASSUME NEW i \in Nat, i \in S PROVE i + 1 \in S
  <2>1. PICK g : IsTrace(g, i, D, F, x)
    BY <1>2
  <2> DEFINE h == [j \in 0..(i + 1) |-> IF j <= i THEN g[j] ELSE F[<<i, g[i]>>]]
  <2>2. /\ g \in [0..i -> D] /\ g[0] = x
        /\ \A j \in 0..(i - 1) : g[j + 1] = F[<<j, g[j]>>]
    BY <2>1 DEF IsTrace
  <2>3. g[i] \in D /\ F[<<i, g[i]>>] \in D
    BY <2>2 DEF TurnsIn
  <2>4. h \in [0..(i + 1) -> D]
    BY <2>2, <2>3
  <2>5. h[0] = x
    BY <2>2
  <2>6. ASSUME NEW j \in 0..i PROVE h[j + 1] = F[<<j, h[j]>>]
    <3>1. CASE j = i
      <4>1. h[i] = g[i] /\ h[i + 1] = F[<<i, g[i]>>]
        OBVIOUS
      <4> QED BY <3>1, <4>1
    <3>2. CASE j # i
      BY <2>2, <3>2
    <3> QED BY <3>1, <3>2
  <2>7. \A j \in 0..((i + 1) - 1) : h[j + 1] = F[<<j, h[j]>>]
    <3>1. (i + 1) - 1 = i
      OBVIOUS
    <3> QED BY <2>6, <3>1
  <2>8. IsTrace(h, i + 1, D, F, x)
    <3> HIDE DEF h
    <3> QED BY <2>4, <2>5, <2>7 DEF IsTrace
  <2> QED BY <2>8
<1>3. Nat \subseteq S
  <2> HIDE DEF S
  <2> QED BY <1>1, <1>2, NaturalsIn
<1> QED BY <1>3

\* The loop from x, as a function of the number of turns.
IsLoop(r, D, F, x) ==
    r \in [Nat -> D] /\ r[0] = x /\ \A n \in Nat : r[n + 1] = F[<<n, r[n]>>]

\* Every loop has its function.
LEMMA LoopExists ==
    ASSUME NEW D, NEW F \in TurnsIn(D), NEW x \in D
    PROVE  \E r : IsLoop(r, D, F, x)
<1> DEFINE G(n) == CHOOSE g : IsTrace(g, n, D, F, x)
           r == [n \in Nat |-> G(n)[n]]
<1>1. \A n \in Nat : IsTrace(G(n), n, D, F, x)
  BY TraceExists
<1> HIDE DEF G
<1>2. r \in [Nat -> D]
  BY <1>1 DEF IsTrace
<1>3. r[0] = x
  BY <1>1 DEF IsTrace
<1>4. ASSUME NEW n \in Nat PROVE r[n + 1] = F[<<n, r[n]>>]
  <2>1. IsTrace(G(n), n, D, F, x) /\ IsTrace(G(n + 1), n + 1, D, F, x)
    BY <1>1
  <2>2. G(n)[n] = G(n + 1)[n]
    <3> DEFINE m == n + 1
    <3>1. m \in Nat /\ n <= m
      OBVIOUS
    <3>2. IsTrace(G(n), n, D, F, x) /\ IsTrace(G(m), m, D, F, x)
      BY <2>1
    <3> HIDE DEF m
    <3>3. G(n)[n] = G(m)[n]
      BY <3>1, <3>2, TracesAgree
    <3> QED BY <3>3 DEF m
  <2>3. n \in 0..((n + 1) - 1)
    OBVIOUS
  <2>4. G(n + 1)[n + 1] = F[<<n, G(n + 1)[n]>>]
    BY <2>1, <2>3 DEF IsTrace
  <2> QED BY <2>2, <2>4
<1>5. IsLoop(r, D, F, x)
  BY <1>2, <1>3, <1>4 DEF IsLoop
<1> QED BY <1>5

=============================================================================
