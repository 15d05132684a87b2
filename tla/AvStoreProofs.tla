---------------------------- MODULE AvStoreProofs ----------------------------
(***************************************************************************)
(* Proofs about the availability store: its key spaces agree in every      *)
(* reachable state, and nothing is deleted before its time, for every tree *)
(* of blocks and all keeping times.                                        *)
(***************************************************************************)
EXTENDS AvStore, LoopTheorems

\* When a candidate that is not in an unfinalized block is due.
Due(m) == m.at + IF m.state = "finalized" THEN KeepFinalized ELSE KeepUnavailable

\* The maps of candidates to their meta data.
MetaMaps == UNION {[C -> CandidateMeta] : C \in SUBSET Candidates}

\* What is noted of the candidate c in three key spaces agrees.
Agrees(m, u, p, c) ==
    /\ c \in DOMAIN m => /\ (m[c].state = "unfinalized") <=> (m[c].blocks # {})
                         /\ \A b \in m[c].blocks : c \in Tree[b].included
    /\ \A b \in Blocks : <<b, c>> \in u <=> c \in DOMAIN m /\ b \in m[c].blocks
    /\ \A t \in Nat : <<t, c>> \in p <=>
          c \in DOMAIN m /\ m[c].state # "unfinalized" /\ t = Due(m[c])

\* The databases in which they do, of every candidate.
Databases ==
    {s \in [meta : MetaMaps, unfinalized : SUBSET (Blocks \X Candidates),
            prune : SUBSET (Nat \X Candidates), noted : SUBSET (Blocks \X Candidates)] :
        \A c \in Candidates : Agrees(s.meta, s.unfinalized, s.prune, c)}

\* The finalized candidates are included by the chain, and count as final since
\* their block is, at the times of fa, or later.
OnChain(s, chain, fa) ==
    \A c \in DOMAIN s.meta : s.meta[c].state = "finalized" =>
        \E b \in chain : c \in Tree[b].included /\ fa[b] <= s.meta[c].at

\* The blocks on a chain through f: those that are final with it and those that
\* may become so.
Alive(f) == {b \in Blocks : b \in Ancestry[f] \/ f \in Ancestry[b] \union {Root}}

\* What was noted of the blocks in A is still so, or the candidate is finalized.
Holds(s, A) ==
    \A b \in Blocks, c \in Candidates : <<b, c>> \in s.noted =>
        /\ c \in DOMAIN s.meta /\ c \in Tree[b].included
        /\ b \in A => b \in s.meta[c].blocks \/ s.meta[c].state = "finalized"

\* No candidate of s is gone from t and none has other contents, new ones have none.
SameContents(s, t) ==
    /\ DOMAIN s.meta \subseteq DOMAIN t.meta
    /\ \A c \in DOMAIN s.meta : /\ t.meta[c].data_available = s.meta[c].data_available
                                /\ t.meta[c].chunks_stored = s.meta[c].chunks_stored
    /\ \A c \in DOMAIN t.meta \ DOMAIN s.meta :
          ~t.meta[c].data_available /\ t.meta[c].chunks_stored = {}

\* The databases a loop may reach.
Reached(s, chain, fa, A) ==
    {t \in Databases : OnChain(t, chain, fa) /\ SameContents(s, t) /\ Holds(t, A)}

\* When the blocks of the chain were finalized.
FinalTimes(chain, fa) == chain \subseteq DOMAIN fa /\ \A b \in DOMAIN fa : fa[b] \in 0..now

\* The inductive invariant.
IInv ==
    /\ now \in Nat /\ finalized \in Blocks \union {Root} /\ DOMAIN known \subseteq Blocks
    /\ Database \in Databases
    /\ OnChain(Database, Ancestry[finalized], final_at)
    /\ FinalTimes(Ancestry[finalized], final_at)
    /\ Holds(Database, Alive(finalized))
    /\ ContentsExact

-----------------------------------------------------------------------------
(* The ancestry.                                                           *)

\* The ancestors of an ancestor are ancestors.
LEMMA AncestryGrows ==
    ASSUME NEW f \in Blocks, NEW b \in Ancestry[f] \union {Root}
    PROVE  Ancestry[b] \subseteq Ancestry[f] /\ b \in Blocks \union {Root}
<1> DEFINE Closed(S, x) == x \in S \union {Root} /\ \A y \in S : Tree[y].parent \in S \union {Root}
<1>1. \A x \in Blocks \union {Root} :
         Ancestry[x] = {y \in Blocks : \A S \in SUBSET Blocks : Closed(S, x) => y \in S}
  BY DEF Ancestry
<1>2. b \in Blocks \union {Root}
  BY <1>1
<1>3. ASSUME NEW y \in Ancestry[b], NEW S \in SUBSET Blocks, Closed(S, f) PROVE y \in S
  <2>1. b \in S \union {Root}
    BY <1>1, <1>3
  <2>2. Closed(S, b)
    BY <1>3, <2>1
  <2> QED BY <1>1, <1>2, <1>3, <2>2
<1>4. Ancestry[b] \subseteq Blocks
  BY <1>1, <1>2
<1> QED BY <1>1, <1>2, <1>3, <1>4

\* A block with the ancestors of its parent.
LEMMA AncestryStep ==
    ASSUME NEW b \in Blocks
    PROVE  /\ b \in Ancestry[b] /\ Ancestry[b] \subseteq Blocks
           /\ Tree[b].parent \in Ancestry[b] \union {Root}
           /\ Ancestry[b] \subseteq {b} \union Ancestry[Tree[b].parent]
<1> DEFINE Closed(S, x) == x \in S \union {Root} /\ \A y \in S : Tree[y].parent \in S \union {Root}
           p == Tree[b].parent
<1>1. \A x \in Blocks \union {Root} :
         Ancestry[x] = {y \in Blocks : \A S \in SUBSET Blocks : Closed(S, x) => y \in S}
  BY DEF Ancestry
<1>2. b # Root /\ p \in Blocks \union {Root}
  BY TreeAssumption
<1> HIDE DEF p
<1>3. b \in Ancestry[b] /\ Ancestry[b] \subseteq Blocks
  BY <1>1, <1>2
<1>4. p \in Ancestry[b] \union {Root}
  BY <1>1, <1>2 DEF p
<1> DEFINE S == {b} \union Ancestry[p]
<1>5. Ancestry[p] \subseteq Blocks
  BY <1>1, <1>2
<1>6. p \in S \union {Root}
  BY <1>1, <1>2
<1>7. ASSUME NEW y \in Ancestry[p] PROVE Tree[y].parent \in Ancestry[p] \union {Root}
  <2> SUFFICES ASSUME Tree[y].parent # Root PROVE Tree[y].parent \in Ancestry[p]
    OBVIOUS
  <2>1. Tree[y].parent \in Blocks
    BY <1>5, TreeAssumption
  <2>2. ASSUME NEW T \in SUBSET Blocks, Closed(T, p) PROVE Tree[y].parent \in T
    BY <1>1, <1>2, <2>2
  <2> QED BY <1>1, <1>2, <2>1, <2>2
<1>8. S \in SUBSET Blocks /\ Closed(S, b)
  BY <1>5, <1>6, <1>7 DEF p
<1>9. Ancestry[b] \subseteq S
  <2> HIDE DEF S
  <2> QED BY <1>1, <1>8
<1> QED BY <1>3, <1>4, <1>9 DEF p

\* The root has no ancestors.
LEMMA RootAncestry == Ancestry[Root] = {}
<1>1. Ancestry[Root] \subseteq {}
  <2>1. {} \in SUBSET Blocks /\ Root \in {} \union {Root}
    OBVIOUS
  <2> QED BY <2>1 DEF Ancestry
<1> QED BY <1>1

\* A set with the block f that is closed under parents has its ancestors.
LEMMA AncestryWithin ==
    ASSUME NEW f \in Blocks, NEW S, S \subseteq Blocks, f \in S,
           \A y \in S : Tree[y].parent \in S \union {Root}
    PROVE  Ancestry[f] \subseteq S
BY DEF Ancestry

\* Two ancestors of a block are on one chain.
LEMMA Comparable ==
    ASSUME NEW f \in Blocks, NEW y \in Ancestry[f]
    PROVE  \A x \in Ancestry[f] : x \in Ancestry[y] \/ y \in Ancestry[x]
<1> DEFINE S == {x \in Ancestry[f] : x \in Ancestry[y] \/ y \in Ancestry[x]}
<1>1. f \in Ancestry[f] /\ Ancestry[f] \subseteq Blocks
  BY AncestryStep
<1>2. y \in Blocks
  BY <1>1
<1>3. ASSUME NEW x \in S PROVE Tree[x].parent \in S \union {Root}
  <2> DEFINE p == Tree[x].parent
  <2>1. x \in Blocks /\ x \in Ancestry[f]
    BY <1>1
  <2>2. p \in Ancestry[x] \union {Root} /\ Ancestry[x] \subseteq {x} \union Ancestry[p]
    BY <2>1, AncestryStep
  <2>3. Ancestry[x] \subseteq Ancestry[f]
    BY <2>1, AncestryGrows
  <2>4. CASE x \in Ancestry[y]
    <3>1. Ancestry[x] \subseteq Ancestry[y]
      BY <1>2, <2>4, AncestryGrows
    <3> QED BY <2>2, <2>3, <3>1
  <2>5. CASE y \in Ancestry[x] /\ x \notin Ancestry[y]
    <3>1. y # x
      BY <2>1, <2>5, AncestryStep
    <3> QED BY <2>2, <2>3, <2>5, <3>1
  <2> QED BY <2>4, <2>5
<1>4. Ancestry[f] \subseteq S
  <2>1. f \in S /\ S \subseteq Blocks
    BY <1>1
  <2> HIDE DEF S
  <2> QED BY <1>3, <2>1, AncestryWithin
<1> QED BY <1>4

\* Ancestors have lower numbers.
LEMMA AncestorsLower ==
    ASSUME NEW f \in Blocks, NEW x \in Ancestry[f], x # f
    PROVE  Number(x) < Number(f)
<1> DEFINE S == {y \in Ancestry[f] : y = f \/ Number(y) < Number(f)}
<1>1. f \in Ancestry[f] /\ Ancestry[f] \subseteq Blocks
  BY AncestryStep
<1>2. \A y \in Blocks : Number(y) \in Nat
  BY TreeAssumption DEF Number
<1>3. ASSUME NEW y \in S PROVE Tree[y].parent \in S \union {Root}
  <2> DEFINE p == Tree[y].parent
  <2> SUFFICES ASSUME p # Root PROVE p \in S
    OBVIOUS
  <2>1. y \in Blocks /\ p \in Ancestry[y]
    BY <1>1, AncestryStep
  <2>2. p \in Ancestry[f] /\ p \in Blocks
    BY <1>1, <2>1, AncestryGrows
  <2>3. Number(y) = Number(p) + 1
    BY <2>1, TreeAssumption DEF Number
  <2>4. Number(p) < Number(f)
    <3>1. Number(y) <= Number(f)
      BY <1>2, <2>1
    <3> HIDE DEF p
    <3> QED BY <1>2, <2>1, <2>2, <2>3, <3>1
  <2> QED BY <2>2, <2>4
<1>4. Ancestry[f] \subseteq S
  <2>1. f \in S /\ S \subseteq Blocks
    BY <1>1
  <2> HIDE DEF S
  <2> QED BY <1>3, <2>1, AncestryWithin
<1> QED BY <1>4

\* The blocks alive once f is final were so before, and are above f or final.
LEMMA AliveShrinks ==
    ASSUME NEW f \in Blocks, NEW e \in Ancestry[f] \union {Root}
    PROVE  \A b \in Alive(f) : b \in Alive(e) /\ (b \in Ancestry[f] \/ Number(b) > Number(f))
<1> TAKE b \in Alive(f)
<1>1. b \in Blocks /\ f # Root /\ e \in Blocks \union {Root}
  BY TreeAssumption, AncestryStep DEF Alive
<1>2. \A y \in Blocks : Number(y) \in Nat
  BY TreeAssumption DEF Number
<1>3. CASE b \in Ancestry[f]
  <2>1. b \in Ancestry[e] \/ e \in Ancestry[b] \union {Root}
    BY <1>1, <1>3, Comparable
  <2> QED BY <1>1, <1>3, <2>1 DEF Alive
<1>4. CASE f \in Ancestry[b] /\ b \notin Ancestry[f]
  <2>1. e \in Ancestry[b] \union {Root}
    BY <1>1, <1>4, AncestryGrows
  <2>2. f # b
    BY <1>1, <1>4, AncestryStep
  <2>3. Number(f) < Number(b)
    BY <1>1, <1>4, <2>2, AncestorsLower
  <2> QED BY <1>1, <1>2, <2>1, <2>3 DEF Alive
<1> QED BY <1>1, <1>3, <1>4 DEF Alive

-----------------------------------------------------------------------------
(* The steps of the loops.                                                 *)

\* A map of candidates to their meta data.
LEMMA MetaMap ==
    ASSUME NEW m
    PROVE  /\ m \in MetaMaps => /\ DOMAIN m \subseteq Candidates
                                /\ \A c \in DOMAIN m : m[c] \in CandidateMeta
                                /\ m = [c \in DOMAIN m |-> m[c]]
           /\ DOMAIN m \subseteq Candidates /\ (\A c \in DOMAIN m : m[c] \in CandidateMeta)
              /\ m = [c \in DOMAIN m |-> m[c]] => m \in MetaMaps
BY DEF MetaMaps

\* The fields of meta data.
LEMMA MetaFields ==
    ASSUME NEW m \in CandidateMeta
    PROVE  /\ m.state \in {"unavailable", "unfinalized", "finalized"} /\ m.at \in 0..now
           /\ m.blocks \subseteq Blocks
           /\ m.data_available \in BOOLEAN /\ m.chunks_stored \subseteq 0..(NValidators - 1)
BY DEF CandidateMeta

\* Due times.
LEMMA DueTime ==
    ASSUME now \in Nat, NEW m \in CandidateMeta
    PROVE  /\ Due(m) \in Nat /\ m.at \in Nat
           /\ m.state = "finalized" => Due(m) = m.at + KeepFinalized
           /\ m.state # "finalized" => Due(m) = m.at + KeepUnavailable
<1>1. m.at \in Nat
  BY MetaFields
<1> QED BY <1>1, TreeAssumption DEF Due

\* A candidate is backed.
LEMMA BackedKeeps ==
    ASSUME now \in Nat, NEW s \in Databases, NEW chain, NEW fa, OnChain(s, chain, fa),
           NEW A, Holds(s, A),
           NEW C, C \subseteq Candidates, NEW t, t = note_block_backed(s, C)
    PROVE  t \in Databases /\ OnChain(t, chain, fa) /\ SameContents(s, t) /\ Holds(t, A)
<1> DEFINE new == NewMeta(NValidators)
           D == DOMAIN s.meta
           m == [c \in D \union C |-> IF c \in D THEN s.meta[c] ELSE new]
           p == s.prune \union {<<now + KeepUnavailable, c>> : c \in C \ D}
<1>1. /\ s \in [meta : MetaMaps, unfinalized : SUBSET (Blocks \X Candidates),
               prune : SUBSET (Nat \X Candidates), noted : SUBSET (Blocks \X Candidates)]
      /\ \A c \in Candidates : Agrees(s.meta, s.unfinalized, s.prune, c)
  BY DEF Databases
<1>2. t = [meta |-> m, unfinalized |-> s.unfinalized, prune |-> p, noted |-> s.noted]
  BY <1>1 DEF note_block_backed, GetOr
<1>3. /\ new \in CandidateMeta /\ new.state = "unavailable" /\ new.blocks = {} /\ new.at = now
      /\ ~new.data_available /\ new.chunks_stored = {}
  BY DEF NewMeta, CandidateMeta
<1>4. D \subseteq Candidates /\ \A c \in D : s.meta[c] \in CandidateMeta
  BY <1>1, MetaMap
<1> HIDE DEF new
<1>5. /\ DOMAIN m = D \union C
      /\ \A c \in D : m[c] = s.meta[c]
      /\ \A c \in C \ D : m[c] = new
      /\ m = [c \in DOMAIN m |-> m[c]]
  OBVIOUS
<1>6. \A x \in Nat, c \in Candidates : <<x, c>> \in p <=>
          <<x, c>> \in s.prune \/ (c \in C \ D /\ x = now + KeepUnavailable)
  OBVIOUS
<1>7. p \in SUBSET (Nat \X Candidates)
  BY <1>1, TreeAssumption
<1> HIDE DEF m, p, D
<1>8. m \in MetaMaps
  BY <1>3, <1>4, <1>5, MetaMap
<1>9. Due(new) = now + KeepUnavailable
  BY <1>3 DEF Due
<1>10. ASSUME NEW c \in Candidates PROVE Agrees(m, s.unfinalized, p, c)
  <2>1. Agrees(s.meta, s.unfinalized, s.prune, c)
    BY <1>1
  <2>2. CASE c \in D
    BY <1>5, <1>6, <2>1, <2>2 DEF Agrees, D
  <2>3. CASE c \in C \ D
    BY <1>3, <1>5, <1>6, <1>9, <2>1, <2>3 DEF Agrees, D
  <2>4. CASE c \notin D \union C
    BY <1>5, <1>6, <2>1, <2>4 DEF Agrees, D
  <2> QED BY <2>2, <2>3, <2>4
<1>11. t.meta = m /\ t.unfinalized = s.unfinalized /\ t.prune = p /\ t.noted = s.noted
  BY <1>2
<1>12. t \in Databases
  BY <1>1, <1>2, <1>7, <1>8, <1>10, <1>11 DEF Databases
<1>13. OnChain(t, chain, fa)
  BY <1>3, <1>5, <1>11 DEF OnChain, D
<1>14. SameContents(s, t)
  BY <1>3, <1>5, <1>11 DEF SameContents, D
<1>15. Holds(t, A)
  BY <1>5, <1>11 DEF Holds, D
<1> QED BY <1>12, <1>13, <1>14, <1>15

\* A block includes candidates.
LEMMA IncludedKeeps ==
    ASSUME now \in Nat, NEW s \in Databases, NEW chain, NEW fa, OnChain(s, chain, fa),
           NEW A, Holds(s, A), NEW b \in Blocks, NEW C, C \subseteq Tree[b].included,
           NEW t, t = note_block_included(s, b, C)
    PROVE  t \in Databases /\ OnChain(t, chain, fa) /\ SameContents(s, t) /\ Holds(t, A)
<1> DEFINE D == DOMAIN s.meta
           new == {c \in C \intersect D : s.meta[c].state # "finalized"}
           fresh == {c \in new : s.meta[c].state = "unavailable"}
           Noted(x) == [x EXCEPT !.state = "unfinalized", !.blocks = @ \union {b}]
           m == [c \in D |-> IF c \in new THEN Noted(s.meta[c]) ELSE s.meta[c]]
           u == s.unfinalized \union ({b} \X new)
           p == s.prune \ {<<s.meta[c].at + KeepUnavailable, c>> : c \in fresh}
           h == s.noted \union ({b} \X (C \intersect D))
<1>1. /\ s \in [meta : MetaMaps, unfinalized : SUBSET (Blocks \X Candidates),
               prune : SUBSET (Nat \X Candidates), noted : SUBSET (Blocks \X Candidates)]
      /\ \A c \in Candidates : Agrees(s.meta, s.unfinalized, s.prune, c)
  BY DEF Databases
<1>2. t = [meta |-> m, unfinalized |-> u, prune |-> p, noted |-> h]
  BY <1>1 DEF note_block_included
<1>3. D \subseteq Candidates /\ \A c \in D : s.meta[c] \in CandidateMeta
  BY <1>1, MetaMap
<1>4. ASSUME NEW x \in CandidateMeta
      PROVE  /\ Noted(x) \in CandidateMeta
             /\ Noted(x).state = "unfinalized" /\ Noted(x).blocks = x.blocks \union {b}
             /\ Noted(x).data_available = x.data_available
             /\ Noted(x).chunks_stored = x.chunks_stored
  BY <1>4 DEF CandidateMeta
<1> HIDE DEF Noted
<1>5. /\ DOMAIN m = D
      /\ \A c \in new : m[c] = Noted(s.meta[c])
      /\ \A c \in D \ new : m[c] = s.meta[c]
      /\ m = [c \in DOMAIN m |-> m[c]]
  OBVIOUS
<1>6. \A y, c : <<y, c>> \in u <=> <<y, c>> \in s.unfinalized \/ (y = b /\ c \in new)
  OBVIOUS
<1>7. \A x, c : <<x, c>> \in p <=>
          <<x, c>> \in s.prune /\ ~(c \in fresh /\ x = s.meta[c].at + KeepUnavailable)
  OBVIOUS
<1>8. /\ new \subseteq D /\ \A c \in new : c \in Tree[b].included
      /\ \A c \in new : c \in fresh \/ s.meta[c].state = "unfinalized"
      /\ \A c \in fresh : s.meta[c].state = "unavailable" /\ c \in new
  BY <1>3, MetaFields
<1>9. u \in SUBSET (Blocks \X Candidates) /\ p \in SUBSET (Nat \X Candidates)
  BY <1>1, <1>3
<1>16. /\ h \in SUBSET (Blocks \X Candidates)
       /\ \A y, c : <<y, c>> \in h <=> <<y, c>> \in s.noted \/ (y = b /\ c \in C \intersect D)
  BY <1>1, <1>3
<1>17. \A c \in C \intersect D : c \in new \/ s.meta[c].state = "finalized"
  OBVIOUS
<1> HIDE DEF h, m, u, p, D, new, fresh
<1>10. m \in MetaMaps
  BY <1>3, <1>4, <1>5, <1>8, MetaMap
<1>11. ASSUME NEW c \in Candidates PROVE Agrees(m, u, p, c)
  <2>1. Agrees(s.meta, s.unfinalized, s.prune, c)
    BY <1>1
  <2>2. CASE c \notin new
    BY <1>5, <1>6, <1>7, <1>8, <2>1, <2>2 DEF Agrees, D
  <2>3. CASE c \in new
    <3> DEFINE x == s.meta[c]
    <3>1. c \in D /\ x \in CandidateMeta /\ m[c] = Noted(x) /\ c \in Tree[b].included
      BY <1>3, <1>5, <1>8, <2>3
    <3>2. m[c].state = "unfinalized" /\ m[c].blocks = x.blocks \union {b} /\ c \in DOMAIN m
      BY <1>4, <1>5, <3>1
    <3>3. \A y \in m[c].blocks : c \in Tree[y].included
      BY <2>1, <3>1, <3>2 DEF Agrees, D
    <3>4. \A y \in Blocks : <<y, c>> \in u <=> y \in m[c].blocks
      BY <1>6, <2>1, <2>3, <3>1, <3>2 DEF Agrees, D
    <3>5. ASSUME NEW y \in Nat PROVE <<y, c>> \notin p
      <4>1. CASE x.state = "unfinalized"
        BY <1>7, <2>1, <4>1 DEF Agrees
      <4>2. CASE c \in fresh
        <5>1. x.state = "unavailable" /\ Due(x) = x.at + KeepUnavailable
          BY <1>8, <3>1, <4>2, DueTime
        <5> QED BY <1>7, <2>1, <4>2, <5>1 DEF Agrees
      <4> QED BY <1>8, <2>3, <4>1, <4>2
    <3> QED BY <3>2, <3>3, <3>4, <3>5 DEF Agrees
  <2> QED BY <2>2, <2>3
<1>12. t.meta = m /\ t.unfinalized = u /\ t.prune = p /\ t.noted = h
  BY <1>2
<1>13. t \in Databases
  BY <1>2, <1>9, <1>10, <1>11, <1>12, <1>16 DEF Databases
<1>14. OnChain(t, chain, fa)
  BY <1>3, <1>4, <1>5, <1>8, <1>12 DEF OnChain, D
<1>15. SameContents(s, t)
  BY <1>3, <1>4, <1>5, <1>8, <1>12 DEF SameContents, D
<1>18. Holds(t, A)
  <2> SUFFICES ASSUME NEW y \in Blocks, NEW c \in Candidates, <<y, c>> \in h
               PROVE  /\ c \in D /\ c \in Tree[y].included
                      /\ y \in A => y \in m[c].blocks \/ m[c].state = "finalized"
    BY <1>5, <1>12 DEF Holds
  <2>1. CASE <<y, c>> \in s.noted
    <3>1. /\ c \in D /\ c \in Tree[y].included
          /\ y \in A => y \in s.meta[c].blocks \/ s.meta[c].state = "finalized"
      BY <2>1 DEF Holds, D
    <3>2. CASE c \in new
      <4>1. s.meta[c].state # "finalized" /\ m[c].blocks = s.meta[c].blocks \union {b}
        BY <1>3, <1>4, <1>5, <1>8, <3>2 DEF new
      <4> QED BY <3>1, <4>1
    <3>3. CASE c \notin new
      BY <1>5, <3>1, <3>3
    <3> QED BY <3>2, <3>3
  <2>2. CASE y = b /\ c \in C \intersect D
    <3>1. CASE c \in new
      <4>1. m[c].blocks = s.meta[c].blocks \union {b}
        BY <1>3, <1>4, <1>5, <1>8, <3>1
      <4> QED BY <2>2, <4>1
    <3>2. CASE c \notin new
      BY <1>5, <1>17, <2>2, <3>2
    <3> QED BY <2>2, <3>1, <3>2
  <2> QED BY <1>16, <2>1, <2>2
<1> QED BY <1>13, <1>14, <1>15, <1>18

\* Contents that are the same in two steps.
LEMMA SameTransitive ==
    ASSUME NEW s, NEW t, NEW u, SameContents(s, t), SameContents(t, u)
    PROVE  SameContents(s, u)
BY DEF SameContents

\* A block is processed.
LEMMA NewHeadKeeps ==
    ASSUME now \in Nat, NEW s, NEW chain, NEW fa, NEW A, NEW o,
           o \in Reached(s, chain, fa, A), NEW b \in Blocks
    PROVE  process_new_head(o, b) \in Reached(s, chain, fa, A)
<1> DEFINE k == note_block_backed(o, Tree[b].backed)
           t == note_block_included(k, b, Tree[b].included)
           B == Tree[b].backed
           I == Tree[b].included
<1>1. o \in Databases /\ OnChain(o, chain, fa) /\ SameContents(s, o) /\ Holds(o, A)
  BY DEF Reached
<1>2. B \subseteq Candidates /\ I \subseteq Tree[b].included
  BY DEF Candidates
<1>3. k = note_block_backed(o, B) /\ t = note_block_included(k, b, I)
  OBVIOUS
<1>4. t = process_new_head(o, b)
  BY DEF process_new_head
<1> HIDE DEF k, t, B, I
<1>5. k \in Databases /\ OnChain(k, chain, fa) /\ SameContents(o, k) /\ Holds(k, A)
  BY <1>1, <1>2, <1>3, BackedKeeps
<1>6. t \in Databases /\ OnChain(t, chain, fa) /\ SameContents(k, t) /\ Holds(t, A)
  BY <1>2, <1>3, <1>5, IncludedKeeps
<1>7. SameContents(s, t)
  BY <1>1, <1>5, <1>6, SameTransitive
<1> QED BY <1>4, <1>6, <1>7 DEF Reached

\* The meta data of a finalized candidate.
LEMMA FinalizeFields ==
    ASSUME now \in Nat, NEW x \in CandidateMeta
    PROVE  /\ Finalize(x) \in CandidateMeta
           /\ Finalize(x).state = "finalized" /\ Finalize(x).blocks = {}
           /\ Finalize(x).at = now
           /\ Finalize(x).data_available = x.data_available
           /\ Finalize(x).chunks_stored = x.chunks_stored
<1> DEFINE T == 0..now
<1>1. now \in T
  OBVIOUS
<1> HIDE DEF T
<1> QED BY <1>1 DEF CandidateMeta, Finalize, T

\* The meta data of a candidate that loses its blocks at a height.
LEMMA AbandonFields ==
    ASSUME NEW n, NEW x \in CandidateMeta, x.state = "unfinalized", NEW left,
           left = {b \in x.blocks : Number(b) # n}
    PROVE  /\ Abandon(x, n) \in CandidateMeta
           /\ Abandon(x, n).blocks = left /\ Abandon(x, n).at = x.at
           /\ left = {} => Abandon(x, n).state = "unavailable"
           /\ left # {} => Abandon(x, n).state = "unfinalized"
           /\ Abandon(x, n).data_available = x.data_available
           /\ Abandon(x, n).chunks_stored = x.chunks_stored
<1>1. Abandon(x, n) = [x EXCEPT !.blocks = left,
                                !.state = IF left = {} THEN "unavailable" ELSE x.state]
  BY Zenon DEF Abandon
<1>2. left \subseteq Blocks
  BY MetaFields
<1>3. CASE left = {}
  <2>1. Abandon(x, n) = [x EXCEPT !.blocks = left, !.state = "unavailable"]
    BY <1>1, <1>3
  <2> QED BY <1>2, <1>3, <2>1 DEF CandidateMeta
<1>4. CASE left # {}
  <2>1. Abandon(x, n) = [x EXCEPT !.blocks = left, !.state = "unfinalized"]
    BY <1>1, <1>4
  <2> QED BY <1>2, <1>4, <2>1 DEF CandidateMeta
<1> QED BY <1>3, <1>4

\* A height of the finalized chain is processed.
LEMMA HeightKeeps ==
    ASSUME now \in Nat, NEW s, NEW chain, NEW fa, FinalTimes(chain, fa), NEW A, NEW o,
           o \in Reached(s, chain, fa, A), NEW n \in Nat
    PROVE  FinalizeHeight(o, n, chain)
              \in Reached(s, chain, fa, {b \in A : b \in chain \/ Number(b) # n})
<1> DEFINE D == DOMAIN o.meta
           batch == {r \in o.unfinalized : Number(r[1]) = n}
           InBatch(rs) == {c \in {r[2] : r \in rs} \intersect D : o.meta[c].state # "finalized"}
           final == InBatch({r \in batch : r[1] \in chain})
           other == {c \in InBatch(batch) \ final : o.meta[c].state = "unfinalized"}
           lost  == {c \in other : Abandon(o.meta[c], n).blocks = {}}
           m == [c \in D |-> CASE c \in final -> Finalize(o.meta[c])
                               [] c \in other -> Abandon(o.meta[c], n)
                               [] OTHER       -> o.meta[c]]
           u == {r \in o.unfinalized \ batch :
                   ~(r[2] \in final /\ r[1] \in o.meta[r[2]].blocks)}
           p == o.prune \union {<<now + KeepFinalized, c>> : c \in final}
                        \union {<<o.meta[c].at + KeepUnavailable, c>> : c \in lost}
           t == FinalizeHeight(o, n, chain)
<1>1. o \in Databases /\ OnChain(o, chain, fa) /\ SameContents(s, o) /\ Holds(o, A)
  BY DEF Reached
<1>2. /\ o \in [meta : MetaMaps, unfinalized : SUBSET (Blocks \X Candidates),
               prune : SUBSET (Nat \X Candidates), noted : SUBSET (Blocks \X Candidates)]
      /\ \A c \in Candidates : Agrees(o.meta, o.unfinalized, o.prune, c)
  BY <1>1 DEF Databases
<1>3. t = [meta |-> m, unfinalized |-> u, prune |-> p, noted |-> o.noted]
  <2>1. t = [o EXCEPT !.meta = m, !.unfinalized = u, !.prune = p]
    BY Zenon DEF FinalizeHeight
  <2> HIDE DEF t, m, u, p
  <2> QED BY <1>2, <2>1
<1>4. D \subseteq Candidates /\ \A c \in D : o.meta[c] \in CandidateMeta
  BY <1>2, MetaMap
<1>5. ASSUME NEW c \in D
      PROVE  /\ c \in final <=> /\ \E b \in o.meta[c].blocks : Number(b) = n /\ b \in chain
                                /\ o.meta[c].state # "finalized"
             /\ c \in other <=> /\ c \notin final /\ o.meta[c].state = "unfinalized"
                                /\ \E b \in o.meta[c].blocks : Number(b) = n
  <2>1. /\ \A b \in Blocks : <<b, c>> \in o.unfinalized <=> b \in o.meta[c].blocks
        /\ o.meta[c].blocks \subseteq Blocks
    BY <1>2, <1>4, <1>5, MetaFields DEF Agrees
  <2>2. \A r \in o.unfinalized : r[1] \in Blocks /\ r = <<r[1], r[2]>>
    BY <1>2
  <2>3. /\ (\E r \in batch : r[2] = c) <=> \E b \in o.meta[c].blocks : Number(b) = n
        /\ (\E r \in batch : r[2] = c /\ r[1] \in chain)
           <=> \E b \in o.meta[c].blocks : Number(b) = n /\ b \in chain
    BY <2>1, <2>2
  <2> QED BY <1>5, <2>3
<1>6. final \subseteq D /\ other \subseteq D /\ \A c \in other : c \notin final
  OBVIOUS
<1>7. \A c \in other : c \in lost <=> \A b \in o.meta[c].blocks : Number(b) = n
  <2>1. ASSUME NEW c \in other
        PROVE  Abandon(o.meta[c], n).blocks = {b \in o.meta[c].blocks : Number(b) # n}
    <3>1. o.meta[c] \in CandidateMeta
      BY <1>4, <1>6
    <3> QED BY <3>1 DEF Abandon, CandidateMeta
  <2> QED BY <2>1
<1>8. /\ DOMAIN m = D
      /\ \A c \in final : m[c] = Finalize(o.meta[c])
      /\ \A c \in other : m[c] = Abandon(o.meta[c], n)
      /\ \A c \in D : c \notin final /\ c \notin other => m[c] = o.meta[c]
      /\ m = [c \in DOMAIN m |-> m[c]]
  BY <1>6
<1>9. \A b \in Blocks : \A c : <<b, c>> \in u <=>
         /\ <<b, c>> \in o.unfinalized /\ Number(b) # n
         /\ ~(c \in final /\ b \in o.meta[c].blocks)
  OBVIOUS
<1>10. \A x, c : <<x, c>> \in p <=>
          \/ <<x, c>> \in o.prune
          \/ c \in final /\ x = now + KeepFinalized
          \/ c \in lost /\ x = o.meta[c].at + KeepUnavailable
  OBVIOUS
<1>11. lost \subseteq other
  OBVIOUS
<1>12. u \in SUBSET (Blocks \X Candidates)
  BY <1>2
<1>13. p \in SUBSET (Nat \X Candidates)
  <2>1. \A c \in lost : o.meta[c].at \in Nat
    BY <1>4, <1>6, DueTime
  <2> QED BY <1>2, <1>4, <2>1, TreeAssumption
<1> HIDE DEF D, batch, InBatch, final, other, lost, m, u, p, t
<1>14. ASSUME NEW x \in CandidateMeta
       PROVE  /\ Finalize(x) \in CandidateMeta
              /\ Finalize(x).state = "finalized" /\ Finalize(x).blocks = {}
              /\ Finalize(x).at = now
              /\ Finalize(x).data_available = x.data_available
              /\ Finalize(x).chunks_stored = x.chunks_stored
  BY <1>14, FinalizeFields
<1>15. ASSUME NEW x \in CandidateMeta, x.state = "unfinalized", NEW left,
              left = {b \in x.blocks : Number(b) # n}
       PROVE  /\ Abandon(x, n) \in CandidateMeta
              /\ Abandon(x, n).blocks = left /\ Abandon(x, n).at = x.at
              /\ left = {} => Abandon(x, n).state = "unavailable"
              /\ left # {} => Abandon(x, n).state = "unfinalized"
              /\ Abandon(x, n).data_available = x.data_available
              /\ Abandon(x, n).chunks_stored = x.chunks_stored
  BY <1>15, AbandonFields
<1>16. \A c \in other : o.meta[c].state = "unfinalized"
  BY <1>5, <1>6
<1>17. ASSUME NEW c \in D
       PROVE  m[c] \in CandidateMeta /\ m[c].data_available = o.meta[c].data_available
              /\ m[c].chunks_stored = o.meta[c].chunks_stored
  <2>1. CASE c \in final
    BY <1>4, <1>6, <1>8, <1>14, <2>1
  <2>2. CASE c \in other
    <3> DEFINE x == o.meta[c]
               left == {b \in x.blocks : Number(b) # n}
    <3>1. x \in CandidateMeta /\ x.state = "unfinalized" /\ m[c] = Abandon(x, n)
      BY <1>4, <1>6, <1>8, <1>16, <2>2
    <3>2. left = {b \in x.blocks : Number(b) # n}
      OBVIOUS
    <3> HIDE DEF left
    <3> QED BY <1>15, <3>1, <3>2
  <2>3. CASE c \notin final /\ c \notin other
    BY <1>4, <1>8, <1>17, <2>3
  <2> QED BY <2>1, <2>2, <2>3
<1>18. m \in MetaMaps
  BY <1>4, <1>8, <1>17, MetaMap
<1>19. ASSUME NEW c \in Candidates PROVE Agrees(m, u, p, c)
  <2> DEFINE x == o.meta[c]
  <2>1. Agrees(o.meta, o.unfinalized, o.prune, c)
    BY <1>2
  <2>2. CASE c \notin final /\ c \notin other
    <3>1. c \notin lost
      BY <1>11, <2>2
    <3>2. ASSUME NEW b \in Blocks, <<b, c>> \in o.unfinalized PROVE Number(b) # n
      <4>1. c \in D /\ b \in x.blocks /\ x.state = "unfinalized"
        BY <2>1, <3>2 DEF Agrees, D
      <4> QED BY <1>5, <2>2, <4>1
    <3>3. \A b \in Blocks : <<b, c>> \in u <=> <<b, c>> \in o.unfinalized
      BY <1>9, <2>2, <3>2
    <3>4. \A y \in Nat : <<y, c>> \in p <=> <<y, c>> \in o.prune
      BY <1>10, <2>2, <3>1
    <3>5. (c \in DOMAIN m <=> c \in D) /\ (c \in D => m[c] = x)
      BY <1>8, <2>2
    <3> QED BY <2>1, <3>3, <3>4, <3>5 DEF Agrees, D
  <2>3. CASE c \in final
    <3>1. c \in D /\ x \in CandidateMeta /\ m[c] = Finalize(x) /\ c \notin lost
      BY <1>4, <1>6, <1>8, <1>11, <2>3
    <3>2. x.state = "unfinalized"
      <4>1. x.blocks # {}
        BY <1>5, <2>3, <3>1
      <4> QED BY <2>1, <3>1, <4>1 DEF Agrees, D
    <3>3. /\ m[c].state = "finalized" /\ m[c].blocks = {} /\ c \in DOMAIN m
          /\ Due(m[c]) = now + KeepFinalized
      BY <1>8, <1>14, <3>1 DEF Due
    <3>4. \A b \in Blocks : <<b, c>> \notin u
      BY <1>9, <2>1, <2>3 DEF Agrees
    <3>5. \A y \in Nat : <<y, c>> \in p <=> y = Due(m[c])
      BY <1>10, <2>1, <2>3, <3>1, <3>2, <3>3 DEF Agrees
    <3> QED BY <3>3, <3>4, <3>5 DEF Agrees
  <2>4. CASE c \in other
    <3> DEFINE left == {b \in x.blocks : Number(b) # n}
    <3>1. /\ c \in D /\ x \in CandidateMeta /\ m[c] = Abandon(x, n) /\ c \notin final
          /\ x.state = "unfinalized" /\ c \in DOMAIN m
      BY <1>4, <1>6, <1>8, <1>16, <2>4
    <3>2. c \in lost <=> left = {}
      BY <1>7, <2>4
    <3>3. left \subseteq x.blocks /\ \A b : b \in left <=> b \in x.blocks /\ Number(b) # n
      OBVIOUS
    <3>4. /\ m[c].blocks = left /\ m[c].at = x.at
          /\ left = {} => m[c].state = "unavailable"
          /\ left # {} => m[c].state = "unfinalized"
      <4>1. left = {b \in x.blocks : Number(b) # n}
        OBVIOUS
      <4> HIDE DEF x, left
      <4> QED BY <1>15, <3>1, <4>1
    <3> HIDE DEF left
    <3>5. \A b \in Blocks : <<b, c>> \in u <=> b \in m[c].blocks
      BY <1>9, <2>1, <3>1, <3>3, <3>4 DEF Agrees, D
    <3>6. left = {} => Due(m[c]) = x.at + KeepUnavailable
      BY <3>4 DEF Due
    <3>7. \A y \in Nat : <<y, c>> \in p <=> m[c].state # "unfinalized" /\ y = Due(m[c])
      BY <1>10, <2>1, <3>1, <3>2, <3>4, <3>6 DEF Agrees
    <3>8. \A b \in m[c].blocks : c \in Tree[b].included
      BY <2>1, <3>1, <3>3, <3>4 DEF Agrees, D
    <3> QED BY <3>1, <3>4, <3>5, <3>7, <3>8 DEF Agrees
  <2> QED BY <2>2, <2>3, <2>4
<1>20. t.meta = m /\ t.unfinalized = u /\ t.prune = p /\ t.noted = o.noted
  BY <1>3
<1>21. t \in Databases
  BY <1>2, <1>3, <1>12, <1>13, <1>18, <1>19, <1>20 DEF Databases
<1>22. ASSUME NEW c \in D, m[c].state = "finalized"
       PROVE  \E b \in chain : c \in Tree[b].included /\ fa[b] <= m[c].at
  <2>1. CASE c \in final
    <3>1. PICK b \in o.meta[c].blocks : b \in chain
      BY <1>5, <2>1
    <3>2. c \in Tree[b].included
      BY <1>2, <1>4, <3>1 DEF Agrees, D
    <3>3. m[c].at = now /\ fa[b] \in 0..now
      BY <1>4, <1>6, <1>8, <1>14, <2>1, <3>1 DEF FinalTimes
    <3> QED BY <3>1, <3>2, <3>3
  <2>2. CASE c \in other
    <3>1. m[c].state # "finalized"
      <4> DEFINE x == o.meta[c]
                 left == {b \in x.blocks : Number(b) # n}
      <4>1. x \in CandidateMeta /\ x.state = "unfinalized" /\ m[c] = Abandon(x, n)
        BY <1>4, <1>6, <1>8, <1>16, <2>2
      <4>2. left = {b \in x.blocks : Number(b) # n}
        OBVIOUS
      <4> HIDE DEF x, left
      <4> QED BY <1>15, <4>1, <4>2
    <3> QED BY <1>22, <3>1
  <2>3. CASE c \notin final /\ c \notin other
    BY <1>1, <1>8, <1>22, <2>3 DEF OnChain, D
  <2> QED BY <2>1, <2>2, <2>3
<1>23. OnChain(t, chain, fa)
  BY <1>8, <1>20, <1>22 DEF OnChain
<1>24. SameContents(o, t)
  BY <1>8, <1>17, <1>20 DEF SameContents, D
<1>25. SameContents(s, t)
  BY <1>1, <1>24, SameTransitive
<1> DEFINE L == {b \in A : b \in chain \/ Number(b) # n}
<1>26. Holds(t, L)
  <2> SUFFICES ASSUME NEW b \in Blocks, NEW c \in Candidates, <<b, c>> \in o.noted
               PROVE  /\ c \in D /\ c \in Tree[b].included
                      /\ b \in L => b \in m[c].blocks \/ m[c].state = "finalized"
    BY <1>8, <1>20 DEF Holds
  <2>1. /\ c \in D /\ c \in Tree[b].included
        /\ b \in L => b \in o.meta[c].blocks \/ o.meta[c].state = "finalized"
    BY <1>1 DEF Holds, D
  <2>2. CASE c \in final
    BY <1>4, <1>6, <1>8, <1>14, <2>1, <2>2
  <2>3. CASE c \in other
    <3> DEFINE x == o.meta[c]
               left == {y \in x.blocks : Number(y) # n}
    <3>1. /\ x \in CandidateMeta /\ x.state = "unfinalized" /\ m[c] = Abandon(x, n)
          /\ c \notin final
      BY <1>4, <1>6, <1>8, <1>16, <2>3
    <3>2. left = {y \in x.blocks : Number(y) # n}
      OBVIOUS
    <3>3. b \in L => b \in left
      BY <1>5, <2>1, <3>1
    <3> HIDE DEF x, left
    <3>4. m[c].blocks = left
      BY <1>15, <3>1, <3>2
    <3> QED BY <2>1, <3>3, <3>4
  <2>4. CASE c \notin final /\ c \notin other
    BY <1>8, <2>1, <2>4
  <2> QED BY <2>2, <2>3, <2>4
<1> QED BY <1>21, <1>23, <1>25, <1>26 DEF Reached, t, L

-----------------------------------------------------------------------------
(* The loops.                                                              *)

\* A loop whose turns stay in D stays in D.
LEMMA LoopStays ==
    ASSUME NEW D, NEW f, f[0] \in D, \A n \in Nat : f[n] \in D => f[n + 1] \in D
    PROVE  \A n \in Nat : f[n] \in D
<1> DEFINE S == {i \in Nat : f[i] \in D}
<1>1. 0 \in S /\ \A n \in Nat : n \in S => n + 1 \in S
  OBVIOUS
<1>2. Nat \subseteq S
  <2> HIDE DEF S
  <2> QED BY <1>1, NaturalsIn
<1> QED BY <1>2

\* Every number of new blocks leaves such a database.
LEMMA NewHeadsKeep ==
    ASSUME now \in Nat, NEW chain, NEW fa, NEW A, NEW new, new \subseteq Blocks,
           Database \in Reached(Database, chain, fa, A), NEW f, f = ProcessNewHeads(new)
    PROVE  \A n \in Nat : f[n] \in Reached(Database, chain, fa, A)
<1> DEFINE D == Reached(Database, chain, fa, A)
           x == Database
           W(i, t) == IF \E b \in new : Number(b) = i
                      THEN process_new_head(t, CHOOSE b \in new : Number(b) = i) ELSE t
           F == [d \in Nat \X D |-> W(d[1] + 1, d[2])]
<1>1. ASSUME NEW i, NEW t \in D PROVE W(i, t) \in D
  <2>1. CASE \E b \in new : Number(b) = i
    <3> DEFINE b == CHOOSE b \in new : Number(b) = i
    <3>1. b \in Blocks
      BY <2>1
    <3>2. W(i, t) = process_new_head(t, b)
      BY <2>1
    <3> HIDE DEF b, W
    <3> QED BY <3>1, <3>2, NewHeadKeeps
  <2>2. CASE ~\E b \in new : Number(b) = i
    BY <2>2
  <2> QED BY <2>1, <2>2
<1>2. x \in D
  OBVIOUS
<1>3. f = CHOOSE g : g = [n \in Nat |-> IF n = 0 THEN x ELSE W(n, g[n - 1])]
  <2> HIDE DEF x
  <2> QED BY Zenon DEF ProcessNewHeads, x
<1> HIDE DEF W
<1>4. F \in TurnsIn(D)
  BY <1>1 DEF TurnsIn
<1>5. \A i \in Nat, t \in D : F[<<i, t>>] = W(i + 1, t)
  OBVIOUS
<1> HIDE DEF D, F, x
<1>6. PICK r : IsLoop(r, D, F, x)
  BY <1>2, <1>4, LoopExists
<1>7. /\ r \in [Nat -> D] /\ r[0] = x
      /\ \A n \in Nat : r[n + 1] = W(n + 1, r[n])
  BY <1>5, <1>6 DEF IsLoop
<1>8. r = [n \in Nat |-> IF n = 0 THEN x ELSE W(n, r[n - 1])]
  <2>1. ASSUME NEW n \in Nat, n # 0 PROVE r[n] = W(n, r[n - 1])
    <3>1. n - 1 \in Nat /\ (n - 1) + 1 = n
      BY <2>1
    <3> QED BY <1>7, <3>1
  <2> QED BY <1>7, <2>1
<1>9. f = [n \in Nat |-> IF n = 0 THEN x ELSE W(n, f[n - 1])]
  BY <1>3, <1>8, Zenon
<1>10. ASSUME NEW n \in Nat, f[n] \in D PROVE f[n + 1] \in D
  <2>1. n + 1 \in Nat /\ n + 1 # 0 /\ (n + 1) - 1 = n
    OBVIOUS
  <2>2. f[n + 1] = W(n + 1, f[n])
    BY <1>9, <2>1
  <2> QED BY <1>1, <1>10, <2>1, <2>2
<1>11. f[0] \in D
  BY <1>2, <1>9
<1> QED BY <1>10, <1>11, LoopStays DEF D

\* And so does every number of finalized heights.
LEMMA HeightsKeep ==
    ASSUME now \in Nat, NEW chain, NEW fa, FinalTimes(chain, fa), NEW A,
           Database \in Reached(Database, chain, fa, A), NEW f, f = FinalizeHeights(chain)
    PROVE  \A n \in Nat :
              f[n] \in Reached(Database, chain, fa, {b \in A : b \in chain \/ Number(b) > n})
<1> DEFINE D == Reached(Database, chain, fa, {})
           E(n) == Reached(Database, chain, fa, {b \in A : b \in chain \/ Number(b) > n})
           x == Database
           W(i, t) == FinalizeHeight(t, i, chain)
           F == [d \in Nat \X D |-> W(d[1] + 1, d[2])]
<1>1. ASSUME NEW i \in Nat, NEW t \in D PROVE W(i, t) \in D
  <2>1. W(i, t) \in Reached(Database, chain, fa, {b \in {} : b \in chain \/ Number(b) # i})
    BY HeightKeeps
  <2> QED BY <2>1 DEF Reached, Holds
<1>2. x \in D
  BY DEF Reached, Holds
<1>3. f = CHOOSE g : g = [n \in Nat |-> IF n = 0 THEN x ELSE W(n, g[n - 1])]
  <2> HIDE DEF x
  <2> QED BY Zenon DEF FinalizeHeights, x
<1> HIDE DEF W
<1>4. F \in TurnsIn(D)
  BY <1>1 DEF TurnsIn
<1>5. \A i \in Nat, t \in D : F[<<i, t>>] = W(i + 1, t)
  OBVIOUS
<1> HIDE DEF D, F, x
<1>6. PICK r : IsLoop(r, D, F, x)
  BY <1>2, <1>4, LoopExists
<1>7. /\ r \in [Nat -> D] /\ r[0] = x
      /\ \A n \in Nat : r[n + 1] = W(n + 1, r[n])
  BY <1>5, <1>6 DEF IsLoop
<1>8. r = [n \in Nat |-> IF n = 0 THEN x ELSE W(n, r[n - 1])]
  <2>1. ASSUME NEW n \in Nat, n # 0 PROVE r[n] = W(n, r[n - 1])
    <3>1. n - 1 \in Nat /\ (n - 1) + 1 = n
      BY <2>1
    <3> QED BY <1>7, <3>1
  <2> QED BY <1>7, <2>1
<1>9. f = [n \in Nat |-> IF n = 0 THEN x ELSE W(n, f[n - 1])]
  BY <1>3, <1>8, Zenon
<1>10. ASSUME NEW n \in Nat, f[n] \in E(n) PROVE f[n + 1] \in E(n + 1)
  <2> DEFINE B == {b \in A : b \in chain \/ Number(b) > n}
             C == {b \in B : b \in chain \/ Number(b) # n + 1}
  <2>1. n + 1 \in Nat /\ n + 1 # 0 /\ (n + 1) - 1 = n
    OBVIOUS
  <2>2. f[n + 1] = FinalizeHeight(f[n], n + 1, chain)
    BY <1>9, <2>1 DEF W
  <2>3. f[n] \in Reached(Database, chain, fa, B)
    BY <1>10
  <2>4. \A b \in Blocks : b \in A /\ (b \in chain \/ Number(b) > n + 1) => b \in C
    <3>1. \A b \in Blocks : Number(b) \in Nat
      BY TreeAssumption DEF Number
    <3> QED BY <3>1
  <2>5. C = {b \in B : b \in chain \/ Number(b) # n + 1}
    OBVIOUS
  <2> HIDE DEF B, C
  <2>6. f[n + 1] \in Reached(Database, chain, fa, C)
    BY <2>1, <2>2, <2>3, <2>5, HeightKeeps
  <2> QED BY <2>4, <2>6 DEF Reached, Holds
<1>11. f[0] \in E(0)
  <2>1. f[0] = Database
    BY <1>9 DEF x
  <2> QED BY <2>1 DEF Reached, Holds
<1> DEFINE S == {n \in Nat : f[n] \in E(n)}
<1> HIDE DEF E
<1>12. 0 \in S /\ \A n \in Nat : n \in S => n + 1 \in S
  BY <1>10, <1>11
<1>13. Nat \subseteq S
  <2> HIDE DEF S
  <2> QED BY <1>12, NaturalsIn
<1> QED BY <1>13 DEF E

-----------------------------------------------------------------------------
(* The invariant.                                                          *)

\* The database, and its key spaces.
LEMMA DatabaseFields ==
    /\ Database.meta = meta /\ Database.unfinalized = unfinalized
    /\ Database.prune = prune_by_time /\ Database.noted = noted
    /\ Database \in Databases <=>
          /\ meta \in MetaMaps /\ unfinalized \in SUBSET (Blocks \X Candidates)
          /\ prune_by_time \in SUBSET (Nat \X Candidates)
          /\ noted \in SUBSET (Blocks \X Candidates)
          /\ \A c \in Candidates : Agrees(meta, unfinalized, prune_by_time, c)
BY DEF Database, Databases

\* And those after a step.
LEMMA NextFields ==
    /\ Database'.meta = meta' /\ Database'.unfinalized = unfinalized'
    /\ Database'.prune = prune_by_time' /\ Database'.noted = noted'
    /\ (Database \in Databases)' <=>
          /\ meta' \in MetaMaps' /\ unfinalized' \in SUBSET (Blocks \X Candidates)
          /\ prune_by_time' \in SUBSET (Nat \X Candidates)
          /\ noted' \in SUBSET (Blocks \X Candidates)
          /\ \A c \in Candidates : Agrees(meta', unfinalized', prune_by_time', c)
BY DEF Database, Databases

\* Where a block on a chain through f and one below f include the same candidate,
\* they are the same.
LEMMA OneInclusion ==
    ASSUME NEW f \in Blocks \union {Root}, NEW b \in Alive(f), NEW y \in Ancestry[f],
           NEW c \in Tree[b].included, c \in Tree[y].included
    PROVE  y = b
<1>1. b \in Blocks
  BY DEF Alive
<1>2. Ancestry[Root] = {}
  BY RootAncestry
<1>3. f \in Blocks
  BY <1>2
<1>4. CASE b \in Ancestry[f]
  BY <1>3, <1>4, OnceAssumption
<1>5. CASE f \in Ancestry[b]
  <2>1. y \in Ancestry[b] /\ b \in Ancestry[b]
    BY <1>1, <1>5, AncestryGrows, AncestryStep
  <2> QED BY <1>1, <2>1, OnceAssumption
<1> QED BY <1>3, <1>4, <1>5, TreeAssumption DEF Alive

\* A loop can start.
LEMMA LoopStarts ==
    ASSUME IInv, NEW chain, Ancestry[finalized] \subseteq chain,
           NEW fa, \A b \in Ancestry[finalized] : fa[b] = final_at[b]
    PROVE  Database \in Reached(Database, chain, fa, Alive(finalized))
<1>1. OnChain(Database, chain, fa) /\ Database \in Databases /\ Holds(Database, Alive(finalized))
  BY DEF IInv, OnChain
<1>2. SameContents(Database, Database)
  BY DEF SameContents
<1> QED BY <1>1, <1>2 DEF Reached

\* What a loop leaves is committed.
LEMMA CommitKeeps ==
    ASSUME ContentsExact, NEW chain, NEW fa, NEW A, NEW s \in Reached(Database, chain, fa, A),
           Commit(s),
           UNCHANGED <<now, data, chunks>>
    PROVE  /\ Database' \in Databases' /\ OnChain(Database', chain, fa) /\ Holds(Database', A)
           /\ ContentsExact'
<1>1. s \in Databases /\ OnChain(s, chain, fa) /\ SameContents(Database, s) /\ Holds(s, A)
  BY DEF Reached
<1>2. meta' = s.meta /\ unfinalized' = s.unfinalized /\ prune_by_time' = s.prune /\ noted' = s.noted
  BY DEF Commit
<1>3. Database' = s
  BY <1>1, <1>2 DEF Databases, Database
<1>4. Databases' = Databases
  BY DEF Databases, MetaMaps, CandidateMeta, Agrees, Due
<1>5. ContentsExact'
  <2>1. /\ DOMAIN meta \subseteq DOMAIN meta'
        /\ \A c \in DOMAIN meta : /\ meta'[c].data_available = meta[c].data_available
                                  /\ meta'[c].chunks_stored = meta[c].chunks_stored
        /\ \A c \in DOMAIN meta' \ DOMAIN meta :
              ~meta'[c].data_available /\ meta'[c].chunks_stored = {}
    BY <1>1, <1>2, DatabaseFields DEF SameContents
  <2>2. data' = {c \in DOMAIN meta' : meta'[c].data_available}
    BY <2>1 DEF ContentsExact
  <2>3. chunks' = UNION {{c} \X meta'[c].chunks_stored : c \in DOMAIN meta'}
    <3>1. \A x : x \in UNION {{c} \X meta[c].chunks_stored : c \in DOMAIN meta} <=>
                 x \in UNION {{c} \X meta'[c].chunks_stored : c \in DOMAIN meta'}
      BY <2>1
    <3> QED BY <3>1 DEF ContentsExact
  <2> QED BY <2>2, <2>3 DEF ContentsExact
<1> QED BY <1>1, <1>3, <1>4, <1>5

\* The initial state.
LEMMA InitInv == Init => IInv
<1> SUFFICES ASSUME Init PROVE IInv
  OBVIOUS
<1>1. meta = EmptyMap /\ DOMAIN EmptyMap = {} /\ EmptyMap \in [{} -> CandidateMeta]
  BY DEF Init, EmptyMap
<1>2. meta \in MetaMaps
  BY <1>1 DEF MetaMaps
<1>3. Database \in Databases
  BY <1>1, <1>2, DatabaseFields DEF Init, Agrees
<1>4. OnChain(Database, Ancestry[finalized], final_at)
  BY <1>1, DatabaseFields DEF OnChain
<1>5. ContentsExact
  BY <1>1 DEF Init, ContentsExact
<1>6. Ancestry[Root] = {}
  BY RootAncestry
<1>7. FinalTimes(Ancestry[finalized], final_at)
  BY <1>1, <1>6 DEF Init, FinalTimes
<1>8. Holds(Database, Alive(finalized))
  BY DatabaseFields DEF Init, Holds
<1> QED BY <1>1, <1>3, <1>4, <1>5, <1>7, <1>8 DEF Init, IInv

\* New blocks.
LEMMA ActivatedKeeps ==
    ASSUME IInv, NEW head \in Blocks, process_block_activated(head)
    PROVE  IInv' /\ DOMAIN meta \subseteq DOMAIN meta'
<1> DEFINE bound == IF finalized_number = None THEN Number(head) - 1 ELSE finalized_number
           new == {b \in Ancestry[head] :
                     /\ Number(b) > bound
                     /\ \A x \in Ancestry[head] : Number(x) >= Number(b) => x \notin DOMAIN known}
           f == ProcessNewHeads(new)
           chain == Ancestry[finalized]
           fa == final_at
           A == Alive(finalized)
<1>1. new \subseteq Blocks
  BY DEF Ancestry
<1>2. PICK last \in new :
         /\ Commit(f[Number(last)])
         /\ known' = [b \in DOMAIN known \union {x \in new : Number(x) <= Number(last)} |->
                        GetOr(known, b, Number(head))]
  BY DEF process_block_activated
<1>3. UNCHANGED <<now, crashes, data, chunks, finalized_number, finalized, final_at>>
  BY DEF process_block_activated
<1>4. f = ProcessNewHeads(new)
  OBVIOUS
<1> HIDE DEF new, f
<1>5. Number(last) \in Nat
  BY <1>1, TreeAssumption DEF Number
<1>6. now \in Nat /\ ContentsExact
  BY DEF IInv
<1>7. Database \in Reached(Database, chain, fa, A)
  BY LoopStarts
<1> HIDE DEF chain, fa, A
<1>8. f[Number(last)] \in Reached(Database, chain, fa, A)
  BY <1>1, <1>4, <1>5, <1>6, <1>7, NewHeadsKeep
<1> DEFINE s == f[Number(last)]
<1>9. s \in Reached(Database, chain, fa, A) /\ Commit(s) /\ UNCHANGED <<now, data, chunks>>
  BY <1>2, <1>3, <1>8
<1> HIDE DEF s
<1>10. /\ Database' \in Databases' /\ OnChain(Database', chain, fa) /\ Holds(Database', A)
       /\ ContentsExact'
  BY <1>6, <1>9, CommitKeeps
<1>11. DOMAIN known' \subseteq Blocks
  BY <1>1, <1>2 DEF IInv
<1>12. DOMAIN meta \subseteq DOMAIN meta'
  BY <1>9, DatabaseFields DEF Reached, SameContents, Commit
<1>13. chain = Ancestry[finalized'] /\ fa = final_at' /\ A = Alive(finalized')
  BY <1>3 DEF chain, fa, A
<1>14. FinalTimes(Ancestry[finalized], final_at)'
  BY <1>3 DEF IInv, FinalTimes
<1> QED BY <1>3, <1>10, <1>11, <1>12, <1>13, <1>14 DEF IInv

\* Finality.
LEMMA FinalizedKeeps ==
    ASSUME IInv, NEW f \in Blocks, process_block_finalized(f)
    PROVE  IInv' /\ DOMAIN meta \subseteq DOMAIN meta'
<1> DEFINE chain == Ancestry[f]
           fa == [b \in DOMAIN final_at \union chain |-> GetOr(final_at, b, now)]
           A == Alive(finalized)
           g == FinalizeHeights(chain)
<1>1. /\ finalized \in Ancestry[f] \union {Root} /\ finalized' = f
      /\ known' = Without(known, {b \in DOMAIN known : known[b] <= Number(f)})
      /\ final_at' = fa
      /\ \E last \in 0..Number(f) : Commit(g[last])
      /\ UNCHANGED <<now, crashes, data, chunks>>
  BY DEF process_block_finalized
<1>2. PICK last \in 0..Number(f) : Commit(g[last])
  BY <1>1
<1>3. last \in Nat /\ Number(f) \in Nat /\ last <= Number(f)
  BY TreeAssumption DEF Number
<1>4. now \in Nat /\ ContentsExact
  BY DEF IInv
<1>5. Ancestry[finalized] \subseteq chain
  BY <1>1, AncestryGrows
<1>6. g = FinalizeHeights(chain) /\ chain = Ancestry[finalized']
  BY <1>1
<1>12. FinalTimes(Ancestry[finalized], final_at)
  BY DEF IInv
<1>13. FinalTimes(chain, fa) /\ \A b \in Ancestry[finalized] : fa[b] = final_at[b]
  <2> DEFINE K == DOMAIN final_at
  <2>1. now \in 0..now
    BY <1>4
  <2>2. ASSUME NEW b \in DOMAIN fa PROVE fa[b] \in 0..now
    <3>1. CASE b \in K
      BY <1>12, <3>1 DEF FinalTimes, GetOr
    <3>2. CASE b \notin K
      BY <2>1, <2>2, <3>2 DEF GetOr
    <3> QED BY <3>1, <3>2
  <2>3. \A b \in Ancestry[finalized] : fa[b] = final_at[b]
    BY <1>12 DEF FinalTimes, GetOr
  <2> QED BY <2>2, <2>3 DEF FinalTimes
<1> HIDE DEF chain, g, fa
<1>7. Database \in Reached(Database, chain, fa, A)
  BY <1>5, <1>13, LoopStarts
<1> HIDE DEF A
<1> DEFINE L == {b \in A : b \in chain \/ Number(b) > last}
<1> DEFINE s == g[last]
<1>8. s \in Reached(Database, chain, fa, L) /\ Commit(s) /\ UNCHANGED <<now, data, chunks>>
  BY <1>1, <1>2, <1>3, <1>4, <1>6, <1>7, <1>13, HeightsKeep
<1>14. \A b \in Alive(f) : b \in L
  <2>1. finalized \in Ancestry[f] \union {Root}
    BY <1>1
  <2>2. \A b \in Alive(f) : b \in A /\ (b \in chain \/ Number(b) > Number(f)) /\ b \in Blocks
    BY <2>1, AliveShrinks DEF A, chain, Alive
  <2>3. \A b \in Blocks : Number(b) \in Nat
    BY TreeAssumption DEF Number
  <2> QED BY <1>3, <2>2, <2>3
<1> HIDE DEF s, L
<1>9. /\ Database' \in Databases' /\ OnChain(Database', chain, fa) /\ Holds(Database', L)
      /\ ContentsExact'
  BY <1>4, <1>8, CommitKeeps
<1>10. DOMAIN known' \subseteq Blocks
  BY <1>1 DEF IInv, Without
<1>11. DOMAIN meta \subseteq DOMAIN meta'
  BY <1>8, DatabaseFields DEF Reached, SameContents, Commit
<1>15. Holds(Database', Alive(finalized'))
  BY <1>1, <1>9, <1>14 DEF Holds
<1>16. FinalTimes(Ancestry[finalized], final_at)'
  BY <1>1, <1>6, <1>13 DEF FinalTimes
<1> QED BY <1>1, <1>4, <1>6, <1>9, <1>10, <1>11, <1>15, <1>16 DEF IInv

\* Chunks.
LEMMA ChunkKeeps ==
    ASSUME IInv, NEW c \in Candidates, NEW i \in 0..NValidators, store_chunk(c, i)
    PROVE  IInv' /\ DOMAIN meta \subseteq DOMAIN meta'
<1> DEFINE x == meta[c]
           y == [x EXCEPT !.chunks_stored = @ \union {i}]
<1>1. /\ c \in DOMAIN meta /\ i < x.n
      /\ meta' = [meta EXCEPT ![c] = y]
      /\ chunks' = chunks \union {<<c, i>>}
      /\ UNCHANGED <<now, crashes, data, unfinalized, prune_by_time,
                     known, finalized_number, finalized,
                     noted, final_at>>
  BY DEF store_chunk
<1>2. /\ now \in Nat /\ meta \in MetaMaps /\ unfinalized \in SUBSET (Blocks \X Candidates)
      /\ prune_by_time \in SUBSET (Nat \X Candidates) /\ noted \in SUBSET (Blocks \X Candidates)
      /\ \A d \in Candidates : Agrees(meta, unfinalized, prune_by_time, d)
  BY DatabaseFields DEF IInv
<1>3. /\ DOMAIN meta \subseteq Candidates /\ \A d \in DOMAIN meta : meta[d] \in CandidateMeta
      /\ meta = [d \in DOMAIN meta |-> meta[d]]
  BY <1>2, MetaMap
<1>4. x \in CandidateMeta
  BY <1>1, <1>3
<1> HIDE DEF x
<1>5. /\ y \in CandidateMeta /\ y.state = x.state /\ y.at = x.at /\ y.blocks = x.blocks
      /\ y.data_available = x.data_available /\ y.chunks_stored = x.chunks_stored \union {i}
  <2>1. i \in 0..(NValidators - 1)
    BY <1>1, <1>4, TreeAssumption DEF CandidateMeta
  <2> QED BY <1>4, <2>1 DEF CandidateMeta
<1> HIDE DEF y
<1>6. /\ DOMAIN meta' = DOMAIN meta /\ meta'[c] = y
      /\ \A d \in DOMAIN meta : d # c => meta'[d] = meta[d]
      /\ meta' = [d \in DOMAIN meta' |-> meta'[d]]
  BY <1>1, <1>3
<1>7. CandidateMeta' = CandidateMeta
  BY <1>1 DEF CandidateMeta
<1>8. meta' \in MetaMaps
  BY <1>3, <1>5, <1>6, MetaMap
<1>9. MetaMaps' = MetaMaps
  BY <1>7 DEF MetaMaps
<1>10. \A d \in DOMAIN meta : /\ meta'[d].state = meta[d].state /\ meta'[d].at = meta[d].at
                              /\ meta'[d].blocks = meta[d].blocks
                              /\ meta'[d].data_available = meta[d].data_available
  BY <1>5, <1>6 DEF x
<1>11. ASSUME NEW d \in Candidates PROVE Agrees(meta', unfinalized', prune_by_time', d)
  BY <1>1, <1>2, <1>6, <1>10 DEF Agrees, Due
<1>12. (Database \in Databases)'
  BY <1>1, <1>2, <1>8, <1>9, <1>11, NextFields
<1>13. OnChain(Database, Ancestry[finalized], final_at)'
  BY <1>1, <1>6, <1>10, DatabaseFields, NextFields DEF IInv, OnChain
<1>14. ContentsExact'
  <2>1. data' = {d \in DOMAIN meta' : meta'[d].data_available}
    BY <1>1, <1>6, <1>10 DEF IInv, ContentsExact
  <2>2. chunks = UNION {{d} \X meta[d].chunks_stored : d \in DOMAIN meta}
    BY DEF IInv, ContentsExact
  <2>3. \A z : z \in chunks \union {<<c, i>>} <=>
               z \in UNION {{d} \X meta'[d].chunks_stored : d \in DOMAIN meta'}
    BY <1>1, <1>5, <1>6, <2>2 DEF x
  <2> QED BY <1>1, <2>1, <2>3 DEF ContentsExact
<1>15. FinalTimes(Ancestry[finalized], final_at)'
  BY <1>1 DEF IInv, FinalTimes
<1>16. Holds(Database, Alive(finalized))'
  BY <1>1, <1>6, <1>10, DatabaseFields, NextFields DEF IInv, Holds, Alive
<1> QED BY <1>1, <1>6, <1>12, <1>13, <1>14, <1>15, <1>16 DEF IInv

\* Data.
LEMMA DataKeeps ==
    ASSUME IInv, NEW c \in Candidates, store_available_data(c)
    PROVE  IInv' /\ DOMAIN meta \subseteq DOMAIN meta'
<1> DEFINE D == DOMAIN meta
           x == IF c \in D THEN meta[c] ELSE NewMeta(0)
           I == 0..(NValidators - 1)
           y == [x EXCEPT !.data_available = TRUE, !.n = NValidators, !.chunks_stored = I]
<1>1. /\ meta' = Put(meta, c, y) /\ data' = data \union {c}
      /\ chunks' = chunks \union {<<c, i>> : i \in I}
      /\ prune_by_time' = IF c \in D THEN prune_by_time
                          ELSE prune_by_time \union {<<now + KeepUnavailable, c>>}
      /\ UNCHANGED <<now, crashes, unfinalized, known, finalized_number, finalized,
                     noted, final_at>>
  BY DEF store_available_data, GetOr
<1>2. /\ now \in Nat /\ meta \in MetaMaps /\ unfinalized \in SUBSET (Blocks \X Candidates)
      /\ prune_by_time \in SUBSET (Nat \X Candidates) /\ noted \in SUBSET (Blocks \X Candidates)
      /\ \A d \in Candidates : Agrees(meta, unfinalized, prune_by_time, d)
  BY DatabaseFields DEF IInv
<1>3. D \subseteq Candidates /\ \A d \in D : meta[d] \in CandidateMeta
  BY <1>2, MetaMap
<1>4. /\ y \in CandidateMeta /\ y.data_available = TRUE /\ y.chunks_stored = I
      /\ c \in D => y.state = meta[c].state /\ y.at = meta[c].at /\ y.blocks = meta[c].blocks
      /\ c \notin D => y.state = "unavailable" /\ y.at = now /\ y.blocks = {}
  <2>1. CASE c \in D
    <3>1. x = meta[c] /\ x \in CandidateMeta
      BY <1>3, <2>1
    <3> HIDE DEF x
    <3> QED BY <2>1, <3>1 DEF CandidateMeta
  <2>2. CASE c \notin D
    <3>1. x = NewMeta(0)
      BY <2>2
    <3>2. now \in 0..now
      BY <1>2
    <3> HIDE DEF x
    <3> QED BY <2>2, <3>1, <3>2 DEF CandidateMeta, NewMeta
  <2> QED BY <2>1, <2>2
<1> HIDE DEF y, x, I
<1>5. meta' = [d \in D \union {c} |-> IF d = c THEN y ELSE meta[d]]
  BY <1>1, Zenon DEF Put
<1>6. /\ DOMAIN meta' = D \union {c} /\ meta'[c] = y
      /\ \A d \in D : d # c => meta'[d] = meta[d]
      /\ meta' = [d \in DOMAIN meta' |-> meta'[d]]
  BY <1>5
<1>7. CandidateMeta' = CandidateMeta
  BY <1>1 DEF CandidateMeta
<1>8. meta' \in MetaMaps
  BY <1>3, <1>4, <1>6, MetaMap
<1>9. MetaMaps' = MetaMaps
  BY <1>7 DEF MetaMaps
<1>10. \A t \in Nat, d \in Candidates : <<t, d>> \in prune_by_time' <=>
          <<t, d>> \in prune_by_time \/ (d = c /\ c \notin D /\ t = now + KeepUnavailable)
  BY <1>1
<1>11. prune_by_time' \in SUBSET (Nat \X Candidates)
  BY <1>1, <1>2, TreeAssumption
<1>12. ASSUME NEW d \in Candidates PROVE Agrees(meta', unfinalized', prune_by_time', d)
  <2>1. Agrees(meta, unfinalized, prune_by_time, d)
    BY <1>2
  <2>2. CASE d # c
    BY <1>1, <1>6, <1>10, <2>1, <2>2 DEF Agrees
  <2>3. CASE d = c /\ c \in D
    <3>1. Due(y) = Due(meta[c])
      BY <1>4, <2>3 DEF Due
    <3> QED BY <1>1, <1>4, <1>6, <1>10, <2>1, <2>3, <3>1 DEF Agrees
  <2>4. CASE d = c /\ c \notin D
    <3>1. Due(y) = now + KeepUnavailable
      BY <1>4, <2>4 DEF Due
    <3> QED BY <1>1, <1>4, <1>6, <1>10, <2>1, <2>4, <3>1 DEF Agrees
  <2> QED BY <2>2, <2>3, <2>4
<1>13. (Database \in Databases)'
  BY <1>1, <1>2, <1>8, <1>9, <1>11, <1>12, NextFields
<1>14. OnChain(Database, Ancestry[finalized], final_at)'
  BY <1>1, <1>4, <1>6, DatabaseFields, NextFields DEF IInv, OnChain
<1>15. ContentsExact'
  <2>1. data' = {d \in DOMAIN meta' : meta'[d].data_available}
    BY <1>1, <1>4, <1>6 DEF IInv, ContentsExact
  <2>2. chunks = UNION {{d} \X meta[d].chunks_stored : d \in D}
    BY DEF IInv, ContentsExact
  <2>3. \A z : z \in chunks <=> \E d \in D : z \in {d} \X meta[d].chunks_stored
    BY <2>2
  <2>4. c \in D => meta[c].chunks_stored \subseteq I
    BY <1>3, MetaFields DEF I
  <2>5. \A z : z \in chunks \union {<<c, i>> : i \in I} <=>
               \E d \in D \union {c} : z \in {d} \X meta'[d].chunks_stored
    BY <1>4, <1>6, <2>3, <2>4
  <2>6. chunks' = UNION {{d} \X meta'[d].chunks_stored : d \in DOMAIN meta'}
    BY <1>1, <1>6, <2>5
  <2> QED BY <2>1, <2>6 DEF ContentsExact
<1>16. FinalTimes(Ancestry[finalized], final_at)'
  BY <1>1 DEF IInv, FinalTimes
<1>17. Holds(Database, Alive(finalized))'
  BY <1>1, <1>4, <1>6, DatabaseFields, NextFields DEF IInv, Holds, Alive
<1> QED BY <1>1, <1>6, <1>13, <1>14, <1>15, <1>16, <1>17 DEF IInv

\* Pruning.
LEMMA PruneKeeps ==
    ASSUME IInv, prune_all
    PROVE  IInv' /\ KeepsInTime
<1> DEFINE D == DOMAIN meta
           due == {r \in prune_by_time : r[1] <= now}
           gone == {r[2] : r \in due}
           stored == gone \intersect D
<1>1. /\ prune_by_time' = prune_by_time \ due
      /\ meta' = Without(meta, gone)
      /\ data' = data \ {c \in stored : meta[c].data_available}
      /\ chunks' = {x \in chunks : x[1] \notin stored \/ x[2] \notin meta[x[1]].chunks_stored}
      /\ unfinalized' = {r \in unfinalized : r[2] \notin stored \/ r[1] \notin meta[r[2]].blocks}
      /\ noted' = {r \in noted : r[2] \notin gone}
      /\ UNCHANGED <<now, crashes, known, finalized_number, finalized, final_at>>
  BY DEF prune_all
<1>2. /\ now \in Nat /\ meta \in MetaMaps /\ unfinalized \in SUBSET (Blocks \X Candidates)
      /\ prune_by_time \in SUBSET (Nat \X Candidates) /\ noted \in SUBSET (Blocks \X Candidates)
      /\ \A d \in Candidates : Agrees(meta, unfinalized, prune_by_time, d)
  BY DatabaseFields DEF IInv
<1>3. D \subseteq Candidates /\ \A d \in D : meta[d] \in CandidateMeta
  BY <1>2, MetaMap
<1>4. \A c \in Candidates : c \in gone <=> \E t \in Nat : <<t, c>> \in prune_by_time /\ t <= now
  <2>1. \A r \in prune_by_time : r[1] \in Nat /\ r[2] \in Candidates /\ r = <<r[1], r[2]>>
    BY <1>2
  <2> QED BY <2>1
<1>5. \A c \in Candidates : c \in gone <=>
         c \in D /\ meta[c].state # "unfinalized" /\ Due(meta[c]) <= now
  <2>1. \A c \in Candidates, t \in Nat :
           <<t, c>> \in prune_by_time <=>
             c \in D /\ meta[c].state # "unfinalized" /\ t = Due(meta[c])
    BY <1>2 DEF Agrees
  <2>2. \A c \in D : Due(meta[c]) \in Nat
    BY <1>2, <1>3, DueTime
  <2> QED BY <1>4, <2>1, <2>2
<1>6. \A c \in Candidates : c \in stored <=> c \in gone
  BY <1>5
<1>7. \A t \in Nat, c \in Candidates :
         <<t, c>> \in prune_by_time' <=> <<t, c>> \in prune_by_time /\ ~(t <= now)
  BY <1>1
<1>8. \A b \in Blocks, c \in Candidates :
         <<b, c>> \in unfinalized' <=>
           <<b, c>> \in unfinalized /\ (c \notin stored \/ b \notin meta[c].blocks)
  BY <1>1
<1>9. /\ prune_by_time' \in SUBSET (Nat \X Candidates)
      /\ unfinalized' \in SUBSET (Blocks \X Candidates) /\ noted' \in SUBSET (Blocks \X Candidates)
      /\ \A b \in Blocks, c \in Candidates :
            <<b, c>> \in noted' <=> <<b, c>> \in noted /\ c \notin gone
  BY <1>1, <1>2
<1>10. stored = D \intersect gone
  OBVIOUS
<1> HIDE DEF due, gone, stored
<1>11. /\ DOMAIN meta' = D \ gone /\ \A c \in D \ gone : meta'[c] = meta[c]
       /\ meta' = [d \in DOMAIN meta' |-> meta'[d]]
  BY <1>1 DEF Without
<1>12. CandidateMeta' = CandidateMeta
  BY <1>1 DEF CandidateMeta
<1>13. meta' \in MetaMaps
  BY <1>3, <1>11, MetaMap
<1>14. MetaMaps' = MetaMaps
  BY <1>12 DEF MetaMaps
<1>15. ASSUME NEW c \in Candidates PROVE Agrees(meta', unfinalized', prune_by_time', c)
  <2>1. Agrees(meta, unfinalized, prune_by_time, c)
    BY <1>2
  <2>2. CASE c \in gone
    <3>1. c \in D /\ c \notin DOMAIN meta' /\ c \in stored /\ Due(meta[c]) <= now
      BY <1>5, <1>6, <1>11, <2>2
    <3>2. \A b \in Blocks : <<b, c>> \notin unfinalized'
      BY <1>8, <2>1, <3>1 DEF Agrees
    <3>3. \A t \in Nat : <<t, c>> \notin prune_by_time'
      BY <1>7, <2>1, <3>1 DEF Agrees
    <3> QED BY <3>1, <3>2, <3>3 DEF Agrees
  <2>3. CASE c \notin gone
    <3>1. \A b \in Blocks : <<b, c>> \in unfinalized' <=> <<b, c>> \in unfinalized
      BY <1>6, <1>8, <2>3
    <3>2. \A t \in Nat : <<t, c>> \in prune_by_time' <=> <<t, c>> \in prune_by_time
      BY <1>4, <1>7, <2>3
    <3>3. (c \in DOMAIN meta' <=> c \in D) /\ (c \in D => meta'[c] = meta[c])
      BY <1>11, <2>3
    <3> QED BY <2>1, <3>1, <3>2, <3>3 DEF Agrees
  <2> QED BY <2>2, <2>3
<1>16. (Database \in Databases)'
  BY <1>9, <1>13, <1>14, <1>15, NextFields
<1>17. OnChain(Database, Ancestry[finalized], final_at)'
  BY <1>1, <1>11, DatabaseFields, NextFields DEF IInv, OnChain
<1>18. ContentsExact'
  <2>1. data' = {d \in DOMAIN meta' : meta'[d].data_available}
    BY <1>1, <1>10, <1>11 DEF IInv, ContentsExact
  <2>2. chunks = UNION {{d} \X meta[d].chunks_stored : d \in D}
    BY DEF IInv, ContentsExact
  <2>3. \A z : z \in chunks <=> \E d \in D : z \in {d} \X meta[d].chunks_stored
    BY <2>2
  <2>4. \A z : z \in chunks' <=> \E d \in D \ gone : z \in {d} \X meta'[d].chunks_stored
    BY <1>1, <1>10, <1>11, <2>3
  <2>5. chunks' = UNION {{d} \X meta'[d].chunks_stored : d \in DOMAIN meta'}
    BY <1>11, <2>4
  <2> QED BY <2>1, <2>5 DEF ContentsExact
<1>21. FinalTimes(Ancestry[finalized], final_at)'
  BY <1>1 DEF IInv, FinalTimes
<1>22. Holds(Database, Alive(finalized))'
  BY <1>1, <1>9, <1>11, DatabaseFields, NextFields DEF IInv, Holds, Alive
<1>19. IInv'
  BY <1>1, <1>16, <1>17, <1>18, <1>21, <1>22 DEF IInv
<1>20. ASSUME NEW c \in D \ DOMAIN meta'
       PROVE  /\ \A b \in {x \in Blocks : <<x, c>> \in noted} :
                    /\ ~Undecided(b)
                    /\ b \in Ancestry[finalized] => final_at[b] + KeepFinalized <= now
              /\ meta[c].state # "finalized" => meta[c].at + KeepUnavailable <= now
  <2>1. c \in Candidates /\ meta[c].state # "unfinalized" /\ Due(meta[c]) <= now
    BY <1>3, <1>5, <1>11
  <2>2. /\ meta[c].state \in {"unavailable", "unfinalized", "finalized"} /\ meta[c].at \in Nat
        /\ meta[c].state = "finalized" => Due(meta[c]) = meta[c].at + KeepFinalized
        /\ meta[c].state # "finalized" => Due(meta[c]) = meta[c].at + KeepUnavailable
    BY <1>2, <1>3, MetaFields, DueTime
  <2>3. meta[c].blocks = {}
    BY <1>2, <2>1 DEF Agrees
  <2>4. ASSUME NEW b \in Blocks, <<b, c>> \in noted, b \in Alive(finalized)
        PROVE  b \in Ancestry[finalized] /\ final_at[b] + KeepFinalized <= now
    <3>1. c \in Tree[b].included /\ meta[c].state = "finalized"
      BY <2>1, <2>3, <2>4, DatabaseFields DEF IInv, Holds
    <3>2. PICK y \in Ancestry[finalized] : c \in Tree[y].included /\ final_at[y] <= meta[c].at
      BY <3>1, DatabaseFields DEF IInv, OnChain
    <3>3. y = b
      BY <2>4, <3>1, <3>2, OneInclusion DEF IInv
    <3>4. final_at[b] \in Nat
      BY <1>2, <3>2, <3>3 DEF IInv, FinalTimes
    <3> QED BY <1>2, <2>1, <2>2, <3>1, <3>2, <3>3, <3>4, TreeAssumption
  <2>5. ASSUME NEW b \in Blocks, <<b, c>> \in noted
        PROVE  ~Undecided(b) /\ (b \in Ancestry[finalized] => final_at[b] + KeepFinalized <= now)
    BY <2>4, <2>5 DEF Undecided, Alive
  <2> QED BY <2>1, <2>2, <2>5
<1> QED BY <1>19, <1>20 DEF KeepsInTime

\* Time passes, the node restarts, or nothing happens.
LEMMA RestKeeps ==
    ASSUME IInv, Tick \/ Restart \/ UNCHANGED vars
    PROVE  IInv' /\ DOMAIN meta \subseteq DOMAIN meta'
<1>1. /\ UNCHANGED <<meta, data, chunks, unfinalized, prune_by_time, finalized,
                     noted, final_at>>
      /\ now' = now \/ now' = now + 1
      /\ known' = known \/ known' = EmptyMap
  BY DEF Tick, Restart, vars, database
<1>2. /\ now \in Nat /\ meta \in MetaMaps /\ unfinalized \in SUBSET (Blocks \X Candidates)
      /\ prune_by_time \in SUBSET (Nat \X Candidates) /\ noted \in SUBSET (Blocks \X Candidates)
      /\ \A d \in Candidates : Agrees(meta, unfinalized, prune_by_time, d)
  BY DatabaseFields DEF IInv
<1>3. now' \in Nat /\ now <= now'
  BY <1>1, <1>2
<1>4. DOMAIN known' \subseteq Blocks
  BY <1>1 DEF IInv, EmptyMap
<1>5. ASSUME NEW x \in CandidateMeta PROVE x \in CandidateMeta'
  <2>1. 0..now \subseteq 0..now'
    BY <1>2, <1>3
  <2> QED BY <1>5, <2>1 DEF CandidateMeta
<1>6. meta' \in MetaMaps'
  <2>1. PICK C \in SUBSET Candidates : meta \in [C -> CandidateMeta]
    BY <1>2 DEF MetaMaps
  <2>2. meta \in [C -> CandidateMeta']
    BY <1>5, <2>1
  <2> QED BY <1>1, <2>2 DEF MetaMaps
<1>7. (Database \in Databases)'
  BY <1>1, <1>2, <1>6, NextFields
<1>8. OnChain(Database, Ancestry[finalized], final_at)'
  BY <1>1, DatabaseFields, NextFields DEF IInv, OnChain
<1>9. ContentsExact'
  BY <1>1 DEF IInv, ContentsExact
<1>10. FinalTimes(Ancestry[finalized], final_at)'
  <2>1. 0..now \subseteq 0..now'
    BY <1>2, <1>3
  <2> QED BY <1>1, <2>1 DEF IInv, FinalTimes
<1>11. Holds(Database, Alive(finalized))'
  BY <1>1, DatabaseFields, NextFields DEF IInv, Holds, Alive
<1> QED BY <1>1, <1>3, <1>4, <1>7, <1>8, <1>9, <1>10, <1>11 DEF IInv

\* Every step keeps the invariant and what is not due.
LEMMA StepKeeps ==
    IInv /\ [Next]_vars => IInv' /\ KeepsInTime
<1> SUFFICES ASSUME IInv, [Next]_vars PROVE IInv' /\ KeepsInTime
  OBVIOUS
<1>1. DOMAIN meta \subseteq DOMAIN meta' => KeepsInTime
  BY DEF KeepsInTime
<1>2. CASE \E b \in Blocks : process_block_activated(b)
  BY <1>1, <1>2, ActivatedKeeps
<1>3. CASE \E b \in Blocks : process_block_finalized(b)
  BY <1>1, <1>3, FinalizedKeeps
<1>4. CASE \E c \in Candidates : store_available_data(c)
  BY <1>1, <1>4, DataKeeps
<1>5. CASE \E c \in Candidates, i \in 0..NValidators : store_chunk(c, i)
  BY <1>1, <1>5, ChunkKeeps
<1>6. CASE prune_all
  BY <1>6, PruneKeeps
<1>7. CASE Tick \/ Restart \/ UNCHANGED vars
  BY <1>1, <1>7, RestKeeps
<1> QED BY <1>2, <1>3, <1>4, <1>5, <1>6, <1>7 DEF Next

\* The invariant holds in every reachable state.
LEMMA Inductive == Spec => []IInv
<1>1. IInv /\ [Next]_vars => IInv'
  BY StepKeeps
<1> QED BY InitInv, <1>1, PTL DEF Spec

\* What it says of the key spaces.
LEMMA InvImplies == IInv => AvailabilityExact
<1> SUFFICES ASSUME IInv PROVE AvailabilityExact
  OBVIOUS
<1>1. /\ now \in Nat /\ meta \in MetaMaps /\ unfinalized \in SUBSET (Blocks \X Candidates)
      /\ prune_by_time \in SUBSET (Nat \X Candidates) /\ noted \in SUBSET (Blocks \X Candidates)
      /\ \A d \in Candidates : Agrees(meta, unfinalized, prune_by_time, d)
  BY DatabaseFields DEF IInv
<1>2. DOMAIN meta \subseteq Candidates /\ \A d \in DOMAIN meta : meta[d] \in CandidateMeta
  BY <1>1, MetaMap
<1>3. TypeOK
  BY <1>1, <1>2 DEF IInv, TypeOK, IsMap, Agrees
<1>4. PruneRecordsExact
  <2> DEFINE P == {x \in DOMAIN meta : meta[x].state # "unfinalized"}
  <2>1. \A c \in P : c \in Candidates /\ Due(meta[c]) \in Nat
    BY <1>1, <1>2, DueTime
  <2>2. \A t \in Nat, c \in Candidates : <<t, c>> \in prune_by_time <=> c \in P /\ t = Due(meta[c])
    BY <1>1 DEF Agrees
  <2> HIDE DEF P
  <2>3. \A r : r \in prune_by_time <=> \E c \in P : r = <<Due(meta[c]), c>>
    BY <1>1, <2>1, <2>2
  <2>4. prune_by_time = {<<Due(meta[c]), c>> : c \in P}
    BY <2>3
  <2> QED BY <2>4, Zenon DEF PruneRecordsExact, Due, P
<1>5. ReferencesExact
  <2>1. \A b \in Blocks, c \in Candidates :
           <<b, c>> \in unfinalized <=> c \in DOMAIN meta /\ b \in meta[c].blocks
    BY <1>1 DEF Agrees
  <2>2. \A r : r \in unfinalized <=> r \in Blocks \X DOMAIN meta /\ r[1] \in meta[r[2]].blocks
    BY <1>1, <1>2, <2>1
  <2> QED BY <1>1, <2>2 DEF ReferencesExact
<1>6. FinalizedIncluded
  BY DatabaseFields DEF IInv, OnChain, FinalizedIncluded
<1> QED BY <1>3, <1>4, <1>5, <1>6 DEF IInv, AvailabilityExact

-----------------------------------------------------------------------------
(* The theorems.                                                           *)

\* The key spaces of the availability store agree in every reachable state,
\* for every tree of blocks, number of validators and keeping times, through
\* forks, half-processed activations and finality, and restarts
\* (process_block_activated, process_block_finalized, prune_all).
THEOREM AvailabilityAlwaysExact == Spec => []AvailabilityExact
BY Inductive, InvImplies, PTL

\* Once the store has processed a block that includes a candidate it stores, no
\* step deletes the candidate as long as that block may still be finalized, nor
\* within KeepFinalized of its finality, for every tree of blocks and all keeping
\* times (prune_all, process_block_finalized).
THEOREM AlwaysKeptLongEnough == Spec => KeptLongEnough
<1>1. IInv /\ [Next]_vars => [KeepsInTime]_vars
  BY StepKeeps
<1> QED BY Inductive, <1>1, PTL DEF Spec, KeptLongEnough

=============================================================================
