--------------------------- MODULE DisputesProofs ---------------------------
(***************************************************************************)
(* Theorems about Disputes, for every set of validators and of disputes    *)
(* and every configuration.                                                *)
(***************************************************************************)
EXTENDS Disputes, FiniteSetTheorems, TLAPS

-----------------------------------------------------------------------------
(* Thresholds and vote sets.                                               *)

\* For n validators, byzantine_threshold is the f of n >= 3f + 1, and the
\* supermajority is at least one vote.
LEMMA Thresholds ==
    ASSUME NEW n \in Nat \ {0}
    PROVE  /\ byzantine_threshold(n) \in Nat
           /\ n >= 3 * byzantine_threshold(n) + 1
           /\ supermajority_threshold(n) \in Nat \ {0}
  BY DEF byzantine_threshold, supermajority_threshold

\* The number of validators is a positive number.
LEMMA ValidatorCount == Cardinality(Validators) \in Nat \ {0}
  BY ConstantsAssumption, FS_CardinalityType, FS_EmptySet

\* `has_supermajority_against` needs a vote.
LEMMA SupermajorityHasVote ==
    ASSUME NEW S, IsSupermajority(S)
    PROVE  S # {}
<1> DEFINE t == supermajority_threshold(Cardinality(Validators))
<1>1. t \in Nat \ {0}
  BY ValidatorCount, Thresholds
<1>2. Cardinality(S) >= t
  BY DEF IsSupermajority
<1>3. Cardinality({}) = 0
  BY FS_EmptySet
<1> HIDE DEF t
<1> QED BY <1>1, <1>2, <1>3

\* Two supermajorities share more than byzantine_threshold validators: the
\* argument behind "this would require f+1 validators to vote in both
\* directions".
LEMMA SupermajoritiesIntersect ==
    ASSUME NEW S \in SUBSET Validators, NEW T \in SUBSET Validators,
           IsSupermajority(S), IsSupermajority(T)
    PROVE  Cardinality(S \intersect T)
               > byzantine_threshold(Cardinality(Validators))
<1> DEFINE n == Cardinality(Validators)
           f == byzantine_threshold(n)
<1>1. /\ n \in Nat \ {0} /\ f \in Nat /\ n >= 3 * f + 1
  BY ValidatorCount, Thresholds
<1>2. IsFiniteSet(S) /\ IsFiniteSet(T)
  BY ConstantsAssumption, FS_Subset
<1>3. /\ Cardinality(S) \in Nat /\ Cardinality(T) \in Nat
      /\ Cardinality(S \intersect T) \in Nat
      /\ Cardinality(S \union T) \in Nat
  BY <1>2, FS_CardinalityType, FS_Union, FS_Intersection
<1>4. Cardinality(S \union T)
          = Cardinality(S) + Cardinality(T) - Cardinality(S \intersect T)
  BY <1>2, FS_Union
<1>5. Cardinality(S \union T) <= n
  <2>1. S \union T \subseteq Validators
    OBVIOUS
  <2> QED BY <2>1, ConstantsAssumption, FS_Subset
<1>6. Cardinality(S) >= n - f /\ Cardinality(T) >= n - f
  BY DEF IsSupermajority, supermajority_threshold
<1> HIDE DEF n, f
<1>7. Cardinality(S \intersect T) > f
  BY <1>1, <1>3, <1>4, <1>5, <1>6
<1> QED BY <1>7 DEF f, n

\* Saturating subtraction stays in the naturals.
LEMMA MonusType == \A a, b \in Nat : Monus(a, b) \in Nat
  BY DEF Monus

\* `import` keeps a dispute well typed.
LEMMA ImportedType ==
    ASSUME NEW d \in DisputeState, NEW F \in SUBSET Validators,
           NEW A \in SUBSET Validators, now \in Nat
    PROVE  Imported(d, F, A) \in DisputeState
  BY DEF Imported, DisputeState, OptBlock, Block

\* The importer starts from a well-typed dispute.
LEMMA OpenedType ==
    ASSUME TypeOK, NEW k \in Keys
    PROVE  Opened(k) \in DisputeState
  BY DEF TypeOK, Opened, Known, NoDispute, DisputeState, OptBlock, Block

\* `decrement_spam` keeps the slots well typed.
LEMMA SpamWithoutType ==
    ASSUME TypeOK, NEW K \in SUBSET Keys
    PROVE  SpamWithout(K) \in [Sessions -> [Validators -> Nat]]
<1> SUFFICES ASSUME NEW s \in Sessions, NEW v \in Validators
             PROVE  Monus(spam_slots[s][v],
                          Cardinality({k \in K : /\ SessionOf[k] = s
                                         /\ ~IsConfirmed(disputes[k])
                                         /\ v \in Participants(disputes[k])}))
                        \in Nat
  BY DEF SpamWithout, TypeOK
<1> DEFINE C == {k \in K : /\ SessionOf[k] = s
                           /\ ~IsConfirmed(disputes[k])
                           /\ v \in Participants(disputes[k])}
<1>1. C \subseteq Keys
  OBVIOUS
<1>2. Cardinality(C) \in Nat
  BY <1>1, ConstantsAssumption, FS_Subset, FS_CardinalityType
<1>3. spam_slots[s][v] \in Nat
  BY DEF TypeOK
<1> QED BY <1>2, <1>3, MonusType

\* Importing a set keeps the slots well typed.
LEMMA SpamAfterType ==
    ASSUME TypeOK, NEW k \in Keys, NEW F, NEW A
    PROVE  SpamAfter(k, F, A) \in [Sessions -> [Validators -> Nat]]
<1> DEFINE S == SessionOf[k]
           G(v) == CASE v \in SpamIncrements(k, F, A) -> spam_slots[S][v] + 1
                     [] v \in SpamDecrements(k, F, A) -> Monus(spam_slots[S][v], 1)
                     [] OTHER -> spam_slots[S][v]
<1>1. S \in Sessions
  BY DEF Sessions
<1>2. \A v \in Validators : spam_slots[S][v] \in Nat
  BY <1>1 DEF TypeOK
<1>3. \A v \in Validators : G(v) \in Nat
  BY <1>2, MonusType
<1>4. SpamAfter(k, F, A) = [spam_slots EXCEPT ![S] = [v \in Validators |-> G(v)]]
  BY DEF SpamAfter
<1> HIDE DEF G
<1>5. [v \in Validators |-> G(v)] \in [Validators -> Nat]
  BY <1>3
<1> QED BY <1>1, <1>4, <1>5 DEF TypeOK

-----------------------------------------------------------------------------
(* Type correctness.                                                       *)

\* The initial storage is well typed.
LEMMA InitType == Init => TypeOK
  BY ConstantsAssumption
     DEF Init, TypeOK, NoDispute, DisputeState, OptBlock, Block, None, Sessions

\* Every step of the pallet keeps the storage well typed.
LEMMA NextType ==
    ASSUME TypeOK, [Next]_vars
    PROVE  TypeOK'
<1>1. CASE Initialize
  <2>1. disputes' \in [Keys -> DisputeState]
    BY <1>1 DEF Initialize, TypeOK, DisputeState, OptBlock, Block
  <2>2. spam_slots' \in [Sessions -> [Validators -> Nat]]
    BY <1>1, SpamWithoutType DEF Initialize, TimedOut
  <2> QED BY <1>1, <2>1, <2>2 DEF Initialize, TypeOK
<1>2. ASSUME NEW k \in Keys, ImportSome(k)
      PROVE  TypeOK'
  <2>1. PICK F \in SUBSET Validators, A \in SUBSET Validators,
               F2 \in SUBSET Validators, A2 \in SUBSET Validators :
            ImportSet(k, F, A, F2, A2)
    BY <1>2 DEF ImportSome, NewVotes
  <2>2. spam_slots' \in [Sessions -> [Validators -> Nat]]
    BY <2>1, SpamAfterType DEF ImportSet
  <2>3. disputes' \in [Keys -> DisputeState]
    <3> DEFINE post == Imported(Opened(k), F2, A2)
    <3>1. F2 \subseteq Validators /\ A2 \subseteq Validators
      BY <2>1 DEF ImportSet, Filtered
    <3>2. post \in DisputeState
      BY <3>1, OpenedType, ImportedType DEF TypeOK
    <3>3. disputes' = disputes \/ disputes' = [disputes EXCEPT ![k] = post]
      BY <2>1 DEF ImportSet
    <3> HIDE DEF post
    <3> QED BY <3>2, <3>3 DEF TypeOK
  <2>4. frozen' \in OptBlock
    BY <2>1 DEF ImportSet, revert_and_freeze, TypeOK
  <2>5. imported' \subseteq Keys
    BY <2>1 DEF ImportSet, TypeOK
  <2> QED BY <2>1, <2>2, <2>3, <2>4, <2>5 DEF ImportSet, TypeOK
<1>3. CASE EndDisputes
  BY <1>3 DEF EndDisputes, TypeOK
<1>4. ASSUME NEW k \in Keys, NoteIncluded(k)
      PROVE  TypeOK'
  <2>1. spam_slots' \in [Sessions -> [Validators -> Nat]]
    BY <1>4, SpamWithoutType DEF NoteIncluded, TypeOK
  <2>2. now - 1 \in Nat
    BY DEF TypeOK
  <2>3. included' \in [Keys -> OptBlock]
    BY <1>4, <2>2 DEF NoteIncluded, TypeOK, OptBlock
  <2>4. frozen' \in OptBlock
    BY <1>4, <2>2 DEF NoteIncluded, revert_and_freeze, TypeOK, OptBlock
  <2> QED BY <1>4, <2>1, <2>3, <2>4 DEF NoteIncluded, TypeOK
<1>5. CASE EndInherent
  BY <1>5 DEF EndInherent, TypeOK
<1>6. CASE ForceUnfreeze
  BY <1>6 DEF ForceUnfreeze, TypeOK, OptBlock
<1>7. CASE EndBlock
  BY <1>7 DEF EndBlock, TypeOK
<1>8. CASE NewSession
  <2>1. disputes' \in [Keys -> DisputeState]
    BY <1>8 DEF NewSession, TypeOK, NoDispute, DisputeState, OptBlock, Block
  <2>2. included' \in [Keys -> OptBlock]
    BY <1>8 DEF NewSession, TypeOK, OptBlock
  <2>3. spam_slots' \in [Sessions -> [Validators -> Nat]]
    BY <1>8 DEF NewSession, TypeOK
  <2>4. last_pruned' \in Nat \union {None}
    BY <1>8, ConstantsAssumption DEF NewSession, TypeOK, Prunes, PruningTarget
  <2> QED BY <1>8, <2>1, <2>2, <2>3, <2>4 DEF NewSession, TypeOK
<1>9. CASE UNCHANGED vars
  BY <1>9 DEF vars, TypeOK
<1> QED
  BY <1>1, <1>2, <1>3, <1>4, <1>5, <1>6, <1>7, <1>8, <1>9 DEF Next, BoundReached

\* The storage of the disputes pallet is always well typed.
THEOREM TypeCorrect == Spec => []TypeOK
<1>1. TypeOK /\ [Next]_vars => TypeOK'
  BY NextType
<1> QED BY InitType, <1>1, PTL DEF Spec

-----------------------------------------------------------------------------
(* Freezing.  FreezeCovers is inductive on well-typed states: an import    *)
(* that concludes against an included candidate freezes at once, an        *)
(* inclusion of a candidate already concluded invalid does too, and        *)
(* revert_and_freeze never raises the block the chain is frozen at.        *)

\* revert_and_freeze(r) covers r and whatever was covered before.
LEMMA RevertLowers ==
    ASSUME NEW r \in Nat, frozen \in OptBlock
    PROVE  /\ revert_and_freeze(r) \in Nat
           /\ revert_and_freeze(r) <= r
           /\ frozen # None => revert_and_freeze(r) <= frozen
  BY DEF revert_and_freeze, OptBlock, None

\* Every step of the pallet keeps FreezeCovers.
LEMMA NextFreeze ==
    ASSUME TypeOK, FreezeCovers, [Next]_vars
    PROVE  FreezeCovers'
<1> DEFINE Against(d) == has_supermajority_against(d)
<1>1. CASE Initialize
  <2>1. \A k \in Keys : disputes'[k].validators_against
                            = disputes[k].validators_against
    BY <1>1 DEF Initialize, TypeOK, DisputeState
  <2> QED BY <1>1, <2>1 DEF Initialize, FreezeCovers, IsLocal,
                            has_supermajority_against
<1>2. ASSUME NEW k \in Keys, ImportSome(k)
      PROVE  FreezeCovers'
  <2>1. PICK F \in SUBSET Validators, A \in SUBSET Validators,
               F2 \in SUBSET Validators, A2 \in SUBSET Validators :
            ImportSet(k, F, A, F2, A2)
    BY <1>2 DEF ImportSome, NewVotes
  <2>2. UNCHANGED <<included, forgiven>>
    BY <2>1 DEF ImportSet
  <2>3. CASE UNCHANGED <<disputes, frozen>>
    BY <2>2, <2>3 DEF FreezeCovers, IsLocal, has_supermajority_against
  <2>4. CASE ~UNCHANGED <<disputes, frozen>>
    <3> DEFINE d == Opened(k)
               post == Imported(d, F2, A2)
               fresh == Fresh(d.validators_against, post.validators_against)
    <3>1. /\ disputes' = [disputes EXCEPT ![k] = post]
          /\ frozen' = IF fresh /\ IsLocal(k)
                       THEN revert_and_freeze(included[k]) ELSE frozen
      BY <2>1, <2>4 DEF ImportSet
    <3>2. d.validators_against = disputes[k].validators_against
      BY DEF Opened, Known, NoDispute
    <3>3. /\ frozen \in OptBlock
          /\ included[k] \in OptBlock
          /\ frozen # None => frozen' # None /\ frozen' <= frozen
      BY <3>1, RevertLowers DEF TypeOK, IsLocal, OptBlock, None
    <3> SUFFICES ASSUME NEW j \in Keys, IsLocal(j)', Against(disputes'[j]),
                        j \notin forgiven'
                 PROVE  frozen' # None /\ frozen' <= included'[j]
      BY DEF FreezeCovers, IsLocal
    <3>4. IsLocal(j) /\ j \notin forgiven /\ included[j] \in Nat
      BY <2>2 DEF IsLocal, TypeOK, OptBlock
    <3>5. CASE Against(disputes[j])
      <4>1. frozen # None /\ frozen <= included[j]
        BY <3>4, <3>5 DEF FreezeCovers
      <4> QED BY <2>2, <3>1, <3>3, <3>4, <4>1, RevertLowers
              DEF OptBlock, None, IsLocal
    <3>6. CASE ~Against(disputes[j])
      <4>1. j = k
        BY <3>1, <3>6 DEF TypeOK
      <4>2. disputes'[k] = post
        BY <3>1 DEF TypeOK
      <4>3. fresh
        BY <3>2, <3>6, <4>1, <4>2 DEF Fresh, has_supermajority_against
      <4> QED BY <2>2, <3>1, <3>4, <4>1, <4>3, <3>3, RevertLowers DEF None
    <3> QED BY <3>5, <3>6
  <2> QED BY <2>3, <2>4
<1>3. CASE EndDisputes
  BY <1>3 DEF EndDisputes, FreezeCovers, IsLocal
<1>4. ASSUME NEW k \in Keys, NoteIncluded(k)
      PROVE  FreezeCovers'
  <2> DEFINE froze == Known(k) /\ Against(disputes[k])
  <2>1. /\ UNCHANGED <<disputes, forgiven>>
        /\ included' = [included EXCEPT ![k] = now - 1]
        /\ frozen' = IF froze THEN revert_and_freeze(now - 1) ELSE frozen
        /\ now - 1 \in Nat
        /\ frozen \in OptBlock
    BY <1>4 DEF NoteIncluded, TypeOK
  <2>2. frozen # None => frozen' # None /\ frozen' <= frozen
    BY <2>1, RevertLowers DEF OptBlock, None
  <2> SUFFICES ASSUME NEW j \in Keys, IsLocal(j)', Against(disputes[j]),
                      j \notin forgiven
               PROVE  frozen' # None /\ frozen' <= included'[j]
    BY <2>1 DEF FreezeCovers, IsLocal
  <2>3. CASE j = k
    <3>1. Known(k)
      BY <2>3, SupermajorityHasVote
         DEF Known, NoDispute, has_supermajority_against
    <3>2. included'[j] = now - 1
      BY <2>1, <2>3 DEF TypeOK
    <3> QED BY <2>1, <2>3, <3>1, <3>2, RevertLowers DEF None
  <2>4. CASE j # k
    <3>1. included'[j] = included[j] /\ IsLocal(j) /\ included[j] \in Nat
      BY <2>1, <2>4 DEF TypeOK, IsLocal, OptBlock
    <3>2. frozen # None /\ frozen <= included[j]
      BY <3>1 DEF FreezeCovers
    <3> QED BY <2>1, <2>2, <3>1, <3>2, RevertLowers DEF OptBlock, None
  <2> QED BY <2>3, <2>4
<1>5. CASE EndInherent
  BY <1>5 DEF EndInherent, FreezeCovers, IsLocal
<1>6. CASE ForceUnfreeze
  BY <1>6 DEF ForceUnfreeze, FreezeCovers, IsLocal
<1>7. CASE EndBlock
  BY <1>7 DEF EndBlock, FreezeCovers, IsLocal
<1>8. CASE NewSession
  <2> SUFFICES ASSUME NEW j \in Keys, IsLocal(j)', Against(disputes'[j]),
                      j \notin forgiven'
               PROVE  frozen' # None /\ frozen' <= included'[j]
    BY DEF FreezeCovers, IsLocal
  <2>1. /\ ~Pruned(SessionOf[j])
        /\ included'[j] = included[j] /\ disputes'[j] = disputes[j]
    BY <1>8 DEF NewSession, IsLocal
  <2> QED BY <1>8, <2>1 DEF NewSession, FreezeCovers, IsLocal
<1>9. CASE UNCHANGED vars
  BY <1>9 DEF vars, FreezeCovers, IsLocal
<1> QED
  BY <1>1, <1>2, <1>3, <1>4, <1>5, <1>6, <1>7, <1>8, <1>9 DEF Next, BoundReached

\* A candidate that is both included and concluded invalid always has the
\* chain frozen before its inclusion, unless governance has unfrozen it.
THEOREM FreezeSafety == Spec => []FreezeCovers
<1>1. Init => FreezeCovers
  BY DEF Init, FreezeCovers, IsLocal
<1>2. TypeOK /\ FreezeCovers /\ [Next]_vars => FreezeCovers'
  BY NextFreeze
<1> QED BY <1>1, <1>2, TypeCorrect, PTL DEF Spec

-----------------------------------------------------------------------------
(* Conclusions.                                                            *)

\* What `ImportSome` does to the dispute it is about: nothing, or an import
\* of votes that leaves it two-sided.
LEMMA ImportStep ==
    ASSUME TypeOK, NEW k \in Keys, ImportSome(k)
    PROVE  /\ HasSessionInfo(SessionOf[k])
           /\ phase = "disputes"
           /\ UNCHANGED <<now, session, phase, included, last_pruned, forgiven>>
           /\ \/ UNCHANGED <<disputes, frozen>>
              \/ \E F, A \in SUBSET Validators :
                    LET post == Imported(Opened(k), F, A)
                    IN  /\ TwoSided(post)
                        /\ disputes' = [disputes EXCEPT ![k] = post]
                        /\ post.validators_for = Opened(k).validators_for \union F
                        /\ post.validators_against
                              = Opened(k).validators_against \union A
                        /\ post.start = Opened(k).start
                        /\ post.concluded_at =
                              IF /\ Opened(k).concluded_at = None
                                 /\ \/ Fresh(Opened(k).validators_for,
                                             post.validators_for)
                                    \/ Fresh(Opened(k).validators_against,
                                             post.validators_against)
                              THEN now ELSE Opened(k).concluded_at
<1>1. PICK F \in SUBSET Validators, A \in SUBSET Validators,
               F2 \in SUBSET Validators, A2 \in SUBSET Validators :
          ImportSet(k, F, A, F2, A2)
  BY DEF ImportSome, NewVotes
<1>2. F2 \in SUBSET Validators /\ A2 \in SUBSET Validators
  BY <1>1 DEF ImportSet, Filtered
<1>3. /\ HasSessionInfo(SessionOf[k])
      /\ phase = "disputes"
      /\ UNCHANGED <<now, session, phase, included, last_pruned, forgiven>>
      /\ \/ UNCHANGED <<disputes, frozen>>
         \/ /\ TwoSided(Imported(Opened(k), F2, A2))
            /\ disputes' = [disputes EXCEPT ![k] = Imported(Opened(k), F2, A2)]
  BY <1>1 DEF ImportSet, Relevant
<1>4. Opened(k) \in DisputeState
  BY OpenedType
<1>5. LET post == Imported(Opened(k), F2, A2)
      IN  /\ post.validators_for = Opened(k).validators_for \union F2
          /\ post.validators_against = Opened(k).validators_against \union A2
          /\ post.start = Opened(k).start
          /\ post.concluded_at =
                IF /\ Opened(k).concluded_at = None
                   /\ \/ Fresh(Opened(k).validators_for, post.validators_for)
                      \/ Fresh(Opened(k).validators_against,
                               post.validators_against)
                THEN now ELSE Opened(k).concluded_at
  BY <1>4 DEF Imported, DisputeState
<1> QED BY <1>2, <1>3, <1>5

\* Every step of the pallet keeps DisputeSound.
LEMMA NextSound ==
    ASSUME TypeOK, DisputeSound, [Next]_vars
    PROVE  DisputeSound'
<1> DEFINE Sound(d, t) ==
               /\ TwoSided(d)
               /\ d.start <= t
               /\ d.concluded_at # None => d.start <= d.concluded_at
                                             /\ d.concluded_at <= t
               /\ (\/ IsSupermajority(d.validators_for)
                   \/ IsSupermajority(d.validators_against))
                       => d.concluded_at # None
<1>0. /\ DisputeSound <=> \A k \in Keys : disputes[k] # NoDispute
                                            => Sound(disputes[k], now)
      /\ DisputeSound' <=> \A k \in Keys : disputes'[k] # NoDispute
                                            => Sound(disputes'[k], now')
  BY DEF DisputeSound, Known
<1>1. ASSUME now' \in Nat, now' >= now,
             \A k \in Keys : disputes'[k] \in {disputes[k], NoDispute}
      PROVE  DisputeSound'
  <2>1. \A k \in Keys : disputes[k].start \in Nat
                           /\ disputes[k].concluded_at \in OptBlock
    BY DEF TypeOK, DisputeState, Block
  <2>2. \A k \in Keys : Sound(disputes[k], now) => Sound(disputes[k], now')
    BY <1>1, <2>1 DEF TypeOK, OptBlock, None
  <2> HIDE DEF Sound
  <2> QED BY <1>0, <1>1, <2>2
<1>2. CASE Initialize
  <2> SUFFICES ASSUME NEW k \in Keys, disputes'[k] # NoDispute
               PROVE  Sound(disputes'[k], now')
    BY <1>0
  <2>1. now' = now /\ now \in Nat
    BY <1>2 DEF Initialize, TypeOK
  <2>2. CASE k \in TimedOut
    <3>1. /\ disputes'[k] = [disputes[k] EXCEPT !.concluded_at = now]
          /\ disputes[k] \in DisputeState
          /\ Sound(disputes[k], now)
      BY <1>0, <1>2, <2>2 DEF Initialize, TimedOut, Known, TypeOK
    <3>2. /\ disputes'[k].validators_for = disputes[k].validators_for
          /\ disputes'[k].validators_against = disputes[k].validators_against
          /\ disputes'[k].start = disputes[k].start
          /\ disputes'[k].concluded_at = now
          /\ now # None
      BY <2>1, <3>1 DEF DisputeState, None
    <3> QED BY <2>1, <3>1, <3>2 DEF TwoSided, DisputeState, Block
  <2>3. CASE k \notin TimedOut
    <3>1. disputes'[k] = disputes[k]
      BY <1>2, <2>3 DEF Initialize
    <3> QED BY <1>0, <2>1, <3>1
  <2> QED BY <2>2, <2>3
<1>3. ASSUME NEW k \in Keys, ImportSome(k)
      PROVE  DisputeSound'
  <2>1. CASE UNCHANGED disputes
    BY <1>1, <1>3, <2>1, ImportStep DEF TypeOK
  <2>2. CASE ~UNCHANGED disputes
    <3>1. PICK F \in SUBSET Validators, A \in SUBSET Validators :
            LET post == Imported(Opened(k), F, A)
            IN  /\ TwoSided(post)
                /\ disputes' = [disputes EXCEPT ![k] = post]
                /\ post.validators_for = Opened(k).validators_for \union F
                /\ post.validators_against = Opened(k).validators_against \union A
                /\ post.start = Opened(k).start
                /\ post.concluded_at =
                      IF /\ Opened(k).concluded_at = None
                         /\ \/ Fresh(Opened(k).validators_for,
                                     post.validators_for)
                            \/ Fresh(Opened(k).validators_against,
                                     post.validators_against)
                      THEN now ELSE Opened(k).concluded_at
      BY <1>3, <2>2, ImportStep
    <3> DEFINE post == Imported(Opened(k), F, A)
    <3>2. now' = now /\ now \in Nat
      BY <1>3, ImportStep DEF TypeOK
    <3>3. Opened(k) \in DisputeState
      BY OpenedType
    <3>4. /\ Opened(k).start <= now
          /\ Opened(k).concluded_at # None =>
                Opened(k).start <= Opened(k).concluded_at
                    /\ Opened(k).concluded_at <= now
          /\ (\/ IsSupermajority(Opened(k).validators_for)
              \/ IsSupermajority(Opened(k).validators_against))
                  => Opened(k).concluded_at # None
      <4>1. CASE Known(k)
        BY <1>0, <4>1 DEF Opened, Known
      <4>2. CASE ~Known(k)
        <5>1. /\ Opened(k).start = now
              /\ Opened(k).concluded_at = None
              /\ Opened(k).validators_for = {}
              /\ Opened(k).validators_against = {}
          BY <4>2 DEF Opened, NoDispute
        <5> QED BY <3>2, <5>1, SupermajorityHasVote
      <4> QED BY <4>1, <4>2
    <3>5. Sound(post, now)
      <4>1. /\ post.start <= now
            /\ post.concluded_at # None => post.start <= post.concluded_at
                                             /\ post.concluded_at <= now
        BY <3>1, <3>2, <3>3, <3>4 DEF DisputeState, Block
      <4>2. (\/ IsSupermajority(post.validators_for)
             \/ IsSupermajority(post.validators_against))
                  => post.concluded_at # None
        <5>1. now # None
          BY <3>2 DEF None
        <5> QED BY <3>1, <3>4, <5>1 DEF Fresh
      <4> QED BY <3>1, <4>1, <4>2
    <3> HIDE DEF post, Sound
    <3>6. \A j \in Keys : disputes'[j] = IF j = k THEN post ELSE disputes[j]
      BY <3>1 DEF TypeOK, post
    <3> QED BY <1>0, <3>2, <3>5, <3>6
  <2> QED BY <2>1, <2>2
<1>4. CASE \/ EndDisputes \/ (\E k \in Keys : NoteIncluded(k)) \/ EndInherent
           \/ ForceUnfreeze \/ EndBlock \/ NewSession \/ UNCHANGED vars
  <2>1. now' \in Nat /\ now' >= now
    <3>1. now \in Nat
      BY DEF TypeOK
    <3>2. now' = now \/ now' = now + 1
      BY <1>4 DEF EndDisputes, NoteIncluded, EndInherent, ForceUnfreeze,
                  EndBlock, NewSession, vars
    <3> QED BY <3>1, <3>2
  <2>2. \A k \in Keys : disputes'[k] \in {disputes[k], NoDispute}
    BY <1>4 DEF EndDisputes, NoteIncluded, EndInherent, ForceUnfreeze, EndBlock,
                NewSession, vars
  <2> QED BY <1>1, <2>1, <2>2
<1> QED
  BY <1>2, <1>3, <1>4 DEF Next, BoundReached

\* Every recorded dispute has votes on both sides, and one with a
\* supermajority has its conclusion recorded.
THEOREM SoundDisputes == Spec => []DisputeSound
<1>1. Init => DisputeSound
  BY DEF Init, DisputeSound, Known
<1>2. TypeOK /\ DisputeSound /\ [Next]_vars => DisputeSound'
  BY NextSound
<1> QED BY <1>1, <1>2, TypeCorrect, PTL DEF Spec

\* A dispute concludes both ways only if more than f validators voted both
\* ways.
THEOREM DoubleConclusion == Spec => []ConcludesTwiceOnlyByDoubleVotes
<1>1. TypeOK => ConcludesTwiceOnlyByDoubleVotes
  BY SupermajoritiesIntersect
     DEF TypeOK, DisputeState, ConcludesTwiceOnlyByDoubleVotes
<1> QED BY <1>1, TypeCorrect, PTL

-----------------------------------------------------------------------------
(* Timeouts.                                                               *)

\* Every step of the pallet keeps TimeoutEnforced.
LEMMA NextTimeout ==
    ASSUME TypeOK, TimeoutEnforced, [Next]_vars
    PROVE  TimeoutEnforced'
<1> DEFINE Open(d) == d # NoDispute /\ d.concluded_at = None
           Late == IF phase = "initialize" THEN 1 ELSE 0
<1>0. /\ TimeoutEnforced <=> \A k \in Keys : Open(disputes[k]) =>
                                now <= disputes[k].start + ConclusionTimeout + Late
      /\ TimeoutEnforced' <=> \A k \in Keys : Open(disputes'[k]) =>
                                now' <= disputes'[k].start + ConclusionTimeout + Late'
  BY DEF TimeoutEnforced, Known
<1>1. now \in Nat /\ ConclusionTimeout \in Nat
  BY ConstantsAssumption DEF TypeOK
<1>2. \A k \in Keys : disputes[k].start \in Nat
  BY DEF TypeOK, DisputeState, Block
<1>3. CASE Initialize
  <2> SUFFICES ASSUME NEW k \in Keys, Open(disputes'[k])
               PROVE  now' <= disputes'[k].start + ConclusionTimeout + Late'
    BY <1>0
  <2>1. k \notin TimedOut
    <3>1. k \in TimedOut => disputes'[k].concluded_at = now
      BY <1>3 DEF Initialize, TypeOK, DisputeState
    <3> QED BY <1>1, <3>1 DEF None
  <2>2. disputes'[k] = disputes[k] /\ now' = now /\ Late' = 0
    BY <1>3, <2>1 DEF Initialize
  <2>3. ~(disputes[k].start + ConclusionTimeout < now)
    BY <2>1, <2>2 DEF TimedOut, Known
  <2> QED BY <1>1, <1>2, <2>2, <2>3
<1>4. ASSUME NEW k \in Keys, ImportSome(k)
      PROVE  TimeoutEnforced'
  <2>1. now' = now /\ phase = "disputes" /\ phase' = phase
    BY <1>4, ImportStep
  <2>2. CASE UNCHANGED disputes
    BY <1>0, <2>1, <2>2
  <2>3. CASE ~UNCHANGED disputes
    <3>1. PICK post : /\ disputes' = [disputes EXCEPT ![k] = post]
                      /\ post.start = Opened(k).start
                      /\ post.concluded_at = None
                            => Opened(k).concluded_at = None
      BY <1>4, <2>3, ImportStep
    <3>2. post.concluded_at = None => now <= post.start + ConclusionTimeout
      <4>1. CASE Known(k)
        BY <1>0, <2>1, <3>1, <4>1, <1>1, <1>2 DEF Opened, Known
      <4>2. CASE ~Known(k)
        <5>1. Opened(k).start = now
          BY <4>2 DEF Opened, NoDispute
        <5> QED BY <1>1, <3>1, <5>1
      <4> QED BY <4>1, <4>2
    <3>3. \A j \in Keys : disputes'[j] = IF j = k THEN post ELSE disputes[j]
      BY <3>1 DEF TypeOK
    <3>4. post.concluded_at = None => post.start \in Nat
      BY <3>1, <1>1, OpenedType DEF DisputeState, Block
    <3> QED BY <1>0, <1>1, <2>1, <3>2, <3>3, <3>4
  <2> QED BY <2>2, <2>3
<1>5. CASE \/ EndDisputes \/ (\E k \in Keys : NoteIncluded(k)) \/ EndInherent
           \/ ForceUnfreeze \/ UNCHANGED vars
  <2>1. disputes' = disputes /\ now' = now /\ Late' = Late
    BY <1>5 DEF EndDisputes, NoteIncluded, EndInherent, ForceUnfreeze, vars
  <2> QED BY <1>0, <2>1
<1>6. CASE EndBlock \/ NewSession
  <2>1. now' = now + 1 /\ phase = "calls" /\ phase' = "initialize"
    BY <1>6 DEF EndBlock, NewSession
  <2>2. \A k \in Keys : disputes'[k] \in {disputes[k], NoDispute}
    BY <1>6 DEF EndBlock, NewSession
  <2> QED BY <1>0, <1>1, <1>2, <2>1, <2>2
<1> QED
  BY <1>3, <1>4, <1>5, <1>6 DEF Next, BoundReached

\* No dispute stays open beyond its timeout.
THEOREM Timeouts == Spec => []TimeoutEnforced
<1>1. Init => TimeoutEnforced
  BY DEF Init, TimeoutEnforced, Known
<1>2. TypeOK /\ TimeoutEnforced /\ [Next]_vars => TimeoutEnforced'
  BY NextTimeout
<1> QED BY <1>1, <1>2, TypeCorrect, PTL DEF Spec

-----------------------------------------------------------------------------
(* Pruning.  PruningExact is inductive together with what LastPruned-      *)
(* Session holds: the last session that fell out of the dispute period.    *)

LastPrunedExact ==
    last_pruned = IF session > DisputePeriod + 1
                  THEN session - DisputePeriod - 1 ELSE None

\* Every step of the pallet keeps PruningExact and LastPrunedExact.
LEMMA NextPruning ==
    ASSUME TypeOK, PruningExact, LastPrunedExact, [Next]_vars
    PROVE  PruningExact' /\ LastPrunedExact'
<1> DEFINE Kept(k) == Known(k) \/ IsLocal(k)
           Fits(k) == /\ SessionOf[k] <= session
                      /\ SessionOf[k] = 0 \/ session <= SessionOf[k] + DisputePeriod
<1>0. session \in Nat /\ DisputePeriod \in Nat /\ \A k \in Keys : SessionOf[k] \in Nat
  BY ConstantsAssumption DEF TypeOK
<1>1. ASSUME UNCHANGED <<session, last_pruned>>,
             \A k \in Keys : Kept(k)' => Kept(k) \/ Fits(k)
      PROVE  PruningExact' /\ LastPrunedExact'
  BY <1>1 DEF PruningExact, LastPrunedExact, Known, IsLocal
<1>2. CASE Initialize
  <2>1. \A k \in Keys : Kept(k)' => Kept(k)
    BY <1>2 DEF Initialize, TimedOut, Known, IsLocal
  <2> QED BY <1>1, <1>2, <2>1 DEF Initialize
<1>3. ASSUME NEW k \in Keys, ImportSome(k)
      PROVE  PruningExact' /\ LastPrunedExact'
  <2>1. UNCHANGED <<session, last_pruned, included>> /\ Fits(k)
    BY <1>3, ImportStep DEF HasSessionInfo
  <2>2. \A j \in Keys : j # k => disputes'[j] = disputes[j]
    BY <1>3, ImportStep DEF TypeOK
  <2>3. \A j \in Keys : Kept(j)' => Kept(j) \/ Fits(j)
    BY <2>1, <2>2 DEF Known, IsLocal
  <2> QED BY <1>1, <2>1, <2>3
<1>4. ASSUME NEW k \in Keys, NoteIncluded(k)
      PROVE  PruningExact' /\ LastPrunedExact'
  <2>1. UNCHANGED <<session, last_pruned, disputes>> /\ Fits(k)
    BY <1>0, <1>4 DEF NoteIncluded
  <2>2. \A j \in Keys : j # k => included'[j] = included[j]
    BY <1>4 DEF NoteIncluded, TypeOK
  <2>3. \A j \in Keys : Kept(j)' => Kept(j) \/ Fits(j)
    BY <2>1, <2>2 DEF Known, IsLocal
  <2> QED BY <1>1, <2>1, <2>3
<1>5. CASE \/ EndDisputes \/ EndInherent \/ ForceUnfreeze \/ EndBlock
           \/ UNCHANGED vars
  <2>1. UNCHANGED <<session, last_pruned, disputes, included>>
    BY <1>5 DEF EndDisputes, EndInherent, ForceUnfreeze, EndBlock, vars
  <2> QED BY <1>1, <2>1 DEF Known, IsLocal
<1>6. CASE NewSession
  <2>1. session' = session + 1
    BY <1>6 DEF NewSession
  <2>2. LastPrunedExact'
    BY <1>0, <1>6, <2>1
       DEF NewSession, LastPrunedExact, Prunes, PruningTarget
  <2>3. ASSUME NEW k \in Keys, Kept(k)'
        PROVE  Fits(k)'
    <3>1. ~Pruned(SessionOf[k]) /\ Kept(k)
      BY <1>6, <2>3 DEF NewSession, Known, IsLocal
    <3>2. Fits(k)
      BY <3>1 DEF PruningExact
    <3> QED BY <1>0, <2>1, <3>1, <3>2
            DEF Pruned, Prunes, PruningTarget, LastPrunedExact, None
  <2> QED BY <2>2, <2>3 DEF PruningExact, Known, IsLocal
<1> QED
  BY <1>2, <1>3, <1>4, <1>5, <1>6 DEF Next, BoundReached

\* What is stored of any session but the first is within the dispute period.
THEOREM Pruning == Spec => []PruningExact
<1>1. Init => PruningExact /\ LastPrunedExact
  BY ConstantsAssumption
     DEF Init, PruningExact, LastPrunedExact, Known, IsLocal
<1>2. TypeOK /\ (PruningExact /\ LastPrunedExact) /\ [Next]_vars
        => (PruningExact /\ LastPrunedExact)'
  BY NextPruning
<1> QED BY <1>1, <1>2, TypeCorrect, PTL DEF Spec

-----------------------------------------------------------------------------
(* Spam slots.  A step changes the slots of a validator as it changes the  *)
(* disputes that hold them (Tracked).  That a dispute returns its slots a  *)
(* second time is seen from ConcludesLate: one that is unconfirmed and     *)
(* concluded has timed out, and returned them then.                        *)

\* A dispute that concluded while it was unconfirmed has timed out.
Late(d) ==
    d.concluded_at # None /\ ~IsConfirmed(d) => d.concluded_at > d.start + ConclusionTimeout

ConcludesLate == \A k \in Keys : Late(disputes[k])

\* A dispute d, included or not, is open and may be spam; it has given the slots
\* of its participants back twice.
IsOpen(d, local, v) ==
    /\ d # NoDispute /\ ~local /\ ~IsConfirmed(d)
    /\ d.concluded_at = None /\ v \in Participants(d)

IsTwice(d, local, v) ==
    /\ d # NoDispute /\ (local \/ IsConfirmed(d))
    /\ d.concluded_at > d.start + ConclusionTimeout /\ v \in Participants(d)

\* How the slots of one validator in one session, from n to m, follow its open
\* disputes, from O to P, and those that gave a slot back twice, from R to Q.
Tracked(O, P, R, Q, n, m) ==
    /\ R \subseteq Q
    /\ \/ P \subseteq O /\ m = Monus(n, Cardinality(O \ P))
       \/ O \subseteq P /\ m = n + 1 /\ \E k \in Keys : P \subseteq O \union {k}
       \/ P = O /\ m = Monus(n, 1) /\ R # Q

SlotsTracked(s, v) ==
    Tracked(OpenSpam(s, v), OpenSpam(s, v)', ReturnedTwice(s, v), ReturnedTwice(s, v)',
            spam_slots[s][v], spam_slots'[s][v])

\* They are held, and returned.
Followed(O, P, R, Q, n, m) ==
    /\ Cardinality(O) <= n + Cardinality(R) => Cardinality(P) <= m + Cardinality(Q)
    /\ O \ P # {} => m = Monus(n, Cardinality(O \ P))

\* Slots that follow so are held, and returned.
LEMMA TrackedHolds ==
    ASSUME NEW O \in SUBSET Keys, NEW P \in SUBSET Keys, NEW R \in SUBSET Keys,
           NEW Q \in SUBSET Keys, NEW n \in Nat, NEW m, Tracked(O, P, R, Q, n, m)
    PROVE  Followed(O, P, R, Q, n, m)
<1> SUFFICES /\ Cardinality(O) <= n + Cardinality(R) => Cardinality(P) <= m + Cardinality(Q)
             /\ O \ P # {} => m = Monus(n, Cardinality(O \ P))
  BY DEF Followed
<1>1. /\ IsFiniteSet(O) /\ IsFiniteSet(P) /\ IsFiniteSet(R) /\ IsFiniteSet(Q)
      /\ IsFiniteSet(O \ P)
  BY ConstantsAssumption, FS_Subset
<1>2. /\ Cardinality(O) \in Nat /\ Cardinality(P) \in Nat /\ Cardinality(R) \in Nat
      /\ Cardinality(Q) \in Nat /\ Cardinality(O \ P) \in Nat
  BY <1>1, FS_CardinalityType
<1>3. R \subseteq Q /\ Cardinality(R) <= Cardinality(Q)
  BY <1>1, FS_Subset DEF Tracked
<1>4. CASE P \subseteq O /\ m = Monus(n, Cardinality(O \ P))
  <2>1. Cardinality(O \ P) = Cardinality(O) - Cardinality(O \intersect P)
    BY <1>1, FS_Difference
  <2>2. O \intersect P = P
    BY <1>4
  <2>3. Cardinality(P) = Cardinality(O) - Cardinality(O \ P)
    BY <1>2, <2>1, <2>2
  <2>4. m \in Nat /\ m >= n - Cardinality(O \ P)
    BY <1>2, <1>4 DEF Monus
  <2> QED BY <1>2, <1>3, <1>4, <2>3, <2>4
<1>5. CASE O \subseteq P /\ m = n + 1 /\ \E k \in Keys : P \subseteq O \union {k}
  <2>1. PICK k \in Keys : P \subseteq O \union {k}
    BY <1>5
  <2>2. CASE k \in O
    <3>1. P = O
      BY <1>5, <2>1, <2>2
    <3> QED BY <1>2, <1>3, <1>5, <3>1
  <2>3. CASE k \notin O
    <3>1. IsFiniteSet(O \union {k}) /\ Cardinality(O \union {k}) = Cardinality(O) + 1
      BY <1>1, <2>3, FS_AddElement
    <3>2. Cardinality(P) <= Cardinality(O) + 1
      BY <2>1, <3>1, FS_Subset
    <3>3. O \ P = {}
      BY <1>5
    <3> QED BY <1>2, <1>3, <1>5, <3>2, <3>3
  <2> QED BY <2>2, <2>3
<1>6. CASE P = O /\ m = Monus(n, 1) /\ R # Q
  <2>1. PICK k \in Q : k \notin R
    BY <1>3, <1>6
  <2>2. IsFiniteSet(R \union {k}) /\ Cardinality(R \union {k}) = Cardinality(R) + 1
    BY <1>1, <2>1, FS_AddElement
  <2>3. R \union {k} \subseteq Q
    BY <1>3, <2>1
  <2>4. Cardinality(R) + 1 <= Cardinality(Q)
    BY <1>1, <2>2, <2>3, FS_Subset
  <2>5. m \in Nat /\ m >= n - 1
    BY <1>6 DEF Monus
  <2>6. O \ P = {}
    BY <1>6
  <2> QED BY <1>2, <1>6, <2>4, <2>5, <2>6
<1> QED BY <1>4, <1>5, <1>6 DEF Tracked

\* The one dispute that leaves O takes its slot along.
LEMMA TrackedLess ==
    ASSUME NEW O, NEW P, NEW R, NEW Q, NEW n, NEW k \in O, P = O \ {k}, R \subseteq Q
    PROVE  Tracked(O, P, R, Q, n, Monus(n, 1))
<1>1. O \ P = {k}
  OBVIOUS
<1>2. Cardinality(O \ P) = 1
  BY <1>1, FS_Singleton
<1> QED BY <1>2 DEF Tracked

\* What the sets are.
LEMMA SpamSets ==
    ASSUME NEW s, NEW v, NEW k \in Keys
    PROVE  /\ k \in OpenSpam(s, v) <=>
                  SessionOf[k] = s /\ IsOpen(disputes[k], IsLocal(k), v)
           /\ k \in OpenSpam(s, v)' <=>
                  SessionOf[k] = s /\ IsOpen(disputes'[k], IsLocal(k)', v)
           /\ k \in ReturnedTwice(s, v) <=>
                  SessionOf[k] = s /\ IsTwice(disputes[k], IsLocal(k), v)
           /\ k \in ReturnedTwice(s, v)' <=>
                  SessionOf[k] = s /\ IsTwice(disputes'[k], IsLocal(k)', v)
  BY DEF OpenSpam, ReturnedTwice, PotentialSpam, Known, IsOpen, IsTwice

\* They hold keys only.
LEMMA SpamSetsKeys ==
    ASSUME NEW s, NEW v
    PROVE  /\ OpenSpam(s, v) \subseteq Keys /\ OpenSpam(s, v)' \subseteq Keys
           /\ ReturnedTwice(s, v) \subseteq Keys /\ ReturnedTwice(s, v)' \subseteq Keys
  BY DEF OpenSpam, ReturnedTwice

\* More participants keep a dispute confirmed.
LEMMA ConfirmedStays ==
    ASSUME NEW d \in DisputeState, NEW e \in DisputeState,
           Participants(d) \subseteq Participants(e), IsConfirmed(d)
    PROVE  IsConfirmed(e)
<1>1. Participants(d) \subseteq Validators /\ Participants(e) \subseteq Validators
  BY DEF Participants, DisputeState
<1>2. /\ IsFiniteSet(Participants(d)) /\ IsFiniteSet(Participants(e))
  BY <1>1, ConstantsAssumption, FS_Subset
<1>3. /\ Cardinality(Participants(d)) \in Nat /\ Cardinality(Participants(e)) \in Nat
      /\ Cardinality(Participants(d)) <= Cardinality(Participants(e))
  BY <1>2, FS_CardinalityType, FS_Subset
<1>4. byzantine_threshold(Cardinality(Validators)) \in Nat
  BY ValidatorCount, Thresholds
<1> QED BY <1>3, <1>4 DEF IsConfirmed

\* A supermajority confirms.
LEMMA SupermajorityConfirms ==
    ASSUME NEW d \in DisputeState,
           IsSupermajority(d.validators_for) \/ IsSupermajority(d.validators_against)
    PROVE  IsConfirmed(d)
<1> DEFINE n == Cardinality(Validators)
           f == byzantine_threshold(n)
           p == Participants(d)
<1>1. n \in Nat \ {0} /\ f \in Nat /\ n >= 3 * f + 1
  BY ValidatorCount, Thresholds
<1>2. /\ p \subseteq Validators
      /\ d.validators_for \subseteq p /\ d.validators_against \subseteq p
  BY DEF Participants, DisputeState
<1>3. IsFiniteSet(p) /\ IsFiniteSet(d.validators_for) /\ IsFiniteSet(d.validators_against)
  BY <1>2, ConstantsAssumption, FS_Subset
<1>4. /\ Cardinality(p) \in Nat
      /\ Cardinality(d.validators_for) \in Nat /\ Cardinality(d.validators_against) \in Nat
      /\ Cardinality(d.validators_for) <= Cardinality(p)
      /\ Cardinality(d.validators_against) <= Cardinality(p)
  BY <1>2, <1>3, FS_CardinalityType, FS_Subset
<1>5. \/ Cardinality(d.validators_for) >= n - f
      \/ Cardinality(d.validators_against) >= n - f
  BY DEF IsSupermajority, supermajority_threshold
<1> HIDE DEF n, f, p
<1>6. Cardinality(p) > f
  BY <1>1, <1>4, <1>5
<1> QED BY <1>6 DEF IsConfirmed, n, f, p

\* Slots and open disputes stay as they are.
LEMMA TrackedKept ==
    ASSUME NEW O, NEW P, NEW R, NEW Q, NEW n \in Nat, P = O, R \subseteq Q
    PROVE  Tracked(O, P, R, Q, n, n)
<1>1. Cardinality(O \ P) = 0
  <2>1. O \ P = {}
    OBVIOUS
  <2> QED BY <2>1, FS_EmptySet
<1>2. n = Monus(n, Cardinality(O \ P))
  BY <1>1 DEF Monus
<1> QED BY <1>2 DEF Tracked

\* What no step about k changes.
LEMMA OthersSame ==
    ASSUME NEW k \in Keys, NEW s, NEW v,
           \A j \in Keys : j # k => /\ disputes'[j] = disputes[j]
                                    /\ IsLocal(j)' <=> IsLocal(j)
    PROVE  \A j \in Keys : j # k =>
               /\ j \in OpenSpam(s, v)' <=> j \in OpenSpam(s, v)
               /\ j \in ReturnedTwice(s, v)' <=> j \in ReturnedTwice(s, v)
<1> SUFFICES ASSUME NEW j \in Keys, j # k
             PROVE  /\ j \in OpenSpam(s, v)' <=> j \in OpenSpam(s, v)
                    /\ j \in ReturnedTwice(s, v)' <=> j \in ReturnedTwice(s, v)
  OBVIOUS
<1>1. disputes'[j] = disputes[j] /\ (IsLocal(j)' <=> IsLocal(j))
  OBVIOUS
<1>2. /\ IsOpen(disputes'[j], IsLocal(j)', v) <=> IsOpen(disputes[j], IsLocal(j), v)
      /\ IsTwice(disputes'[j], IsLocal(j)', v) <=> IsTwice(disputes[j], IsLocal(j), v)
  BY <1>1 DEF IsOpen, IsTwice
<1> QED BY <1>2, SpamSets

\* So the slots of the other sessions follow.
LEMMA OtherSession ==
    ASSUME TypeOK, NEW k \in Keys, NEW s \in Sessions, NEW v \in Validators,
           SessionOf[k] # s, spam_slots'[s][v] = spam_slots[s][v],
           \A j \in Keys : j # k => /\ disputes'[j] = disputes[j]
                                    /\ IsLocal(j)' <=> IsLocal(j)
    PROVE  SlotsTracked(s, v)
<1>1. \A j \in Keys : /\ j \in OpenSpam(s, v)' <=> j \in OpenSpam(s, v)
                      /\ j \in ReturnedTwice(s, v)' <=> j \in ReturnedTwice(s, v)
  BY OthersSame, SpamSets
<1>2. OpenSpam(s, v)' = OpenSpam(s, v) /\ ReturnedTwice(s, v) \subseteq ReturnedTwice(s, v)'
  BY <1>1, SpamSetsKeys
<1>3. spam_slots[s][v] \in Nat
  BY DEF TypeOK
<1> QED BY <1>2, <1>3, TrackedKept DEF SlotsTracked

\* And those of its own, if k is among the open ones and those that returned twice
\* in the right way.
LEMMA OwnSession ==
    ASSUME TypeOK, NEW k \in Keys, NEW s \in Sessions, NEW v \in Validators,
           \A j \in Keys : j # k => /\ disputes'[j] = disputes[j]
                                    /\ IsLocal(j)' <=> IsLocal(j),
           k \in ReturnedTwice(s, v) => k \in ReturnedTwice(s, v)',
           \/ /\ k \in OpenSpam(s, v)' <=> k \in OpenSpam(s, v)
              /\ spam_slots'[s][v] = spam_slots[s][v]
           \/ /\ k \notin OpenSpam(s, v)
              /\ spam_slots'[s][v] = spam_slots[s][v] + 1
           \/ /\ k \in OpenSpam(s, v) /\ k \notin OpenSpam(s, v)'
              /\ spam_slots'[s][v] = Monus(spam_slots[s][v], 1)
           \/ /\ k \in OpenSpam(s, v)' <=> k \in OpenSpam(s, v)
              /\ k \notin ReturnedTwice(s, v) /\ k \in ReturnedTwice(s, v)'
              /\ spam_slots'[s][v] = Monus(spam_slots[s][v], 1)
    PROVE  SlotsTracked(s, v)
<1> DEFINE O == OpenSpam(s, v)
           P == OpenSpam(s, v)'
           R == ReturnedTwice(s, v)
           Q == ReturnedTwice(s, v)'
           n == spam_slots[s][v]
           m == spam_slots'[s][v]
<1>1. \A j \in Keys : j # k => (j \in P <=> j \in O) /\ (j \in Q <=> j \in R)
  BY OthersSame
<1>2. O \subseteq Keys /\ P \subseteq Keys /\ R \subseteq Keys /\ Q \subseteq Keys
  BY SpamSetsKeys
<1>3. n \in Nat
  BY DEF TypeOK
<1>4. k \in R => k \in Q
  OBVIOUS
<1>5. \/ (k \in P <=> k \in O) /\ m = n
      \/ k \notin O /\ m = n + 1
      \/ k \in O /\ k \notin P /\ m = Monus(n, 1)
      \/ (k \in P <=> k \in O) /\ k \notin R /\ k \in Q /\ m = Monus(n, 1)
  OBVIOUS
<1>6. SUFFICES Tracked(O, P, R, Q, n, m)
  BY DEF SlotsTracked
<1> HIDE DEF O, P, R, Q, n, m
<1>7. R \subseteq Q
  BY <1>1, <1>2, <1>4
<1>8. CASE (k \in P <=> k \in O) /\ m = n
  <2>1. P = O
    <3>1. \A j : j \in P <=> j \in O
      BY <1>1, <1>2, <1>8
    <3> QED BY <3>1
  <2> QED BY <1>3, <1>7, <1>8, <2>1, TrackedKept
<1>9. CASE k \notin O /\ m = n + 1
  <2>1. O \subseteq P /\ P \subseteq O \union {k}
    BY <1>1, <1>2, <1>9
  <2> QED BY <1>7, <1>9, <2>1 DEF Tracked
<1>10. CASE k \in O /\ k \notin P /\ m = Monus(n, 1)
  <2>1. P = O \ {k}
    BY <1>1, <1>2, <1>10
  <2> QED BY <1>7, <1>10, <2>1, TrackedLess
<1>11. CASE (k \in P <=> k \in O) /\ k \notin R /\ k \in Q /\ m = Monus(n, 1)
  <2>1. P = O
    <3>1. \A j : j \in P <=> j \in O
      BY <1>1, <1>2, <1>11
    <3> QED BY <3>1
  <2>2. R # Q
    BY <1>11
  <2> QED BY <1>7, <1>11, <2>1, <2>2 DEF Tracked
<1> QED BY <1>5, <1>8, <1>9, <1>10, <1>11

\* An included candidate gives the slots of its dispute back.
LEMMA IncludedTracks ==
    ASSUME TypeOK, ConcludesLate, NEW k \in Keys, NoteIncluded(k),
           NEW s \in Sessions, NEW v \in Validators
    PROVE  SlotsTracked(s, v)
<1> DEFINE d == disputes[k]
           C == {j \in {k} : /\ SessionOf[j] = s /\ ~IsConfirmed(disputes[j])
                             /\ v \in Participants(disputes[j])}
           n == spam_slots[s][v]
           m == spam_slots'[s][v]
<1>1. /\ disputes' = disputes /\ ~IsLocal(k) /\ IsLocal(k)'
      /\ \A j \in Keys : j # k => (IsLocal(j)' <=> IsLocal(j))
  <2>1. included' = [included EXCEPT ![k] = now - 1] /\ now - 1 \in Nat
    BY DEF NoteIncluded, TypeOK
  <2> QED BY <2>1 DEF NoteIncluded, TypeOK, IsLocal, None
<1>2. n \in Nat
  BY DEF TypeOK
<1>3. Monus(n, 0) = n
  BY <1>2 DEF Monus
<1>4. m = IF Known(k) THEN Monus(n, Cardinality(C)) ELSE n
  BY DEF NoteIncluded, SpamWithout, TypeOK
<1>5. \A j \in Keys : j # k => disputes'[j] = disputes[j] /\ (IsLocal(j)' <=> IsLocal(j))
  BY <1>1
<1>6. k \in ReturnedTwice(s, v) => k \in ReturnedTwice(s, v)'
  BY <1>1, SpamSets DEF IsTwice
<1>7. k \notin OpenSpam(s, v)'
  BY <1>1, SpamSets DEF IsOpen
<1> DEFINE returns == Known(k) /\ SessionOf[k] = s /\ ~IsConfirmed(d) /\ v \in Participants(d)
<1>8. CASE returns
  <2>1. C = {k}
    BY <1>8
  <2>2. m = Monus(n, 1)
    BY <1>4, <1>8, <2>1, FS_Singleton
  <2>3. CASE d.concluded_at = None
    <3>1. k \in OpenSpam(s, v)
      BY <1>1, <1>8, <2>3, SpamSets DEF IsOpen, Known
    <3> QED BY <1>5, <1>6, <1>7, <2>2, <3>1, OwnSession
  <2>4. CASE d.concluded_at # None
    <3>1. k \notin OpenSpam(s, v) /\ k \notin ReturnedTwice(s, v)
      BY <1>1, <1>8, <2>4, SpamSets DEF IsOpen, IsTwice
    <3>2. d.concluded_at > d.start + ConclusionTimeout
      BY <1>8, <2>4 DEF ConcludesLate, Late
    <3>3. k \in ReturnedTwice(s, v)'
      BY <1>1, <1>8, <3>2, SpamSets DEF IsTwice, Known
    <3> QED BY <1>5, <1>6, <1>7, <2>2, <3>1, <3>3, OwnSession
  <2> QED BY <2>3, <2>4
<1>9. CASE ~returns
  <2>1. m = n
    <3>1. Known(k) => C = {}
      BY <1>9
    <3> QED BY <1>3, <1>4, <3>1, FS_EmptySet
  <2>2. k \notin OpenSpam(s, v)
    BY <1>9, SpamSets DEF IsOpen, Known
  <2> QED BY <1>5, <1>6, <1>7, <2>1, <2>2, OwnSession
<1> QED BY <1>8, <1>9

\* A dispute that times out gives its slots back.
LEMMA TimeoutTracks ==
    ASSUME TypeOK, Initialize, NEW s \in Sessions, NEW v \in Validators
    PROVE  SlotsTracked(s, v)
<1> DEFINE O == OpenSpam(s, v)
           P == OpenSpam(s, v)'
           R == ReturnedTwice(s, v)
           Q == ReturnedTwice(s, v)'
           n == spam_slots[s][v]
           m == spam_slots'[s][v]
           K == {k \in TimedOut : ~IsLocal(k)}
           C == {k \in K : /\ SessionOf[k] = s /\ ~IsConfirmed(disputes[k])
                           /\ v \in Participants(disputes[k])}
<1>1. m = Monus(n, Cardinality(C))
  BY DEF Initialize, SpamWithout, TypeOK
<1>2. O \subseteq Keys /\ P \subseteq Keys /\ R \subseteq Keys /\ Q \subseteq Keys
  BY SpamSetsKeys
<1>3. now \in Nat /\ ConclusionTimeout \in Nat
  BY ConstantsAssumption DEF TypeOK
<1>4. ASSUME NEW k \in Keys
      PROVE  /\ k \in P <=> k \in O /\ k \notin C
             /\ k \in C => k \in O
             /\ k \in R => k \in Q
  <2>1. /\ disputes[k] \in DisputeState
        /\ disputes'[k] = IF k \in TimedOut THEN [disputes[k] EXCEPT !.concluded_at = now]
                          ELSE disputes[k]
        /\ IsLocal(k)' <=> IsLocal(k)
    BY DEF Initialize, TypeOK, IsLocal
  <2>2. k \in C => k \in O
    BY SpamSets DEF IsOpen, TimedOut, Known
  <2>3. CASE k \in TimedOut
    <3>1. disputes'[k].concluded_at = now /\ now # None
      BY <1>3, <2>1, <2>3 DEF DisputeState, None
    <3>2. k \notin P
      BY <3>1, SpamSets DEF IsOpen
    <3>3. k \in O => k \in C
      BY <2>3, SpamSets DEF IsOpen
    <3>4. k \notin R
      <4>1. disputes[k].concluded_at = None /\ disputes[k].start \in Nat
        BY <2>1, <2>3 DEF TimedOut, DisputeState, Block
      <4>2. ~(disputes[k].concluded_at > disputes[k].start + ConclusionTimeout)
        BY <1>3, <4>1 DEF None
      <4> QED BY <4>2, SpamSets DEF IsTwice
    <3> QED BY <2>2, <3>2, <3>3, <3>4
  <2>4. CASE k \notin TimedOut
    <3>1. disputes'[k] = disputes[k] /\ k \notin C
      BY <2>1, <2>4
    <3>2. (k \in P <=> k \in O) /\ (k \in R <=> k \in Q)
      BY <2>1, <3>1, SpamSets DEF IsOpen, IsTwice
    <3> QED BY <3>1, <3>2
  <2> QED BY <2>3, <2>4
<1>5. C \subseteq Keys
  BY DEF TimedOut
<1>6. SUFFICES Tracked(O, P, R, Q, n, m)
  BY DEF SlotsTracked
<1> HIDE DEF O, P, R, Q, n, m, C
<1>7. P \subseteq O /\ R \subseteq Q
  BY <1>2, <1>4
<1>8. O \ P = C
  <2>1. \A k : k \in O \ P <=> k \in C
    BY <1>2, <1>4, <1>5
  <2> QED BY <2>1
<1> QED BY <1>1, <1>7, <1>8 DEF Tracked

\* Votes that are added to a dispute, and what they leave.
LEMMA ImportedKeeps ==
    ASSUME NEW d \in DisputeState, NEW F \in SUBSET Validators, NEW A \in SUBSET Validators,
           NEW e, e = Imported(d, F, A), now \in Nat
    PROVE  /\ e \in DisputeState
           /\ Participants(e) = Participants(d) \union F \union A
           /\ e.start = d.start
           /\ d.concluded_at # None => e.concluded_at = d.concluded_at
           /\ IsConfirmed(d) => IsConfirmed(e)
           /\ ~IsConfirmed(e) => e.concluded_at = d.concluded_at
<1>1. e \in DisputeState
  BY ImportedType
<1>2. /\ e.validators_for = d.validators_for \union F
      /\ e.validators_against = d.validators_against \union A
      /\ e.start = d.start
      /\ e.concluded_at = IF /\ \/ Fresh(d.validators_for, d.validators_for \union F)
                                \/ Fresh(d.validators_against, d.validators_against \union A)
                             /\ d.concluded_at = None
                          THEN now ELSE d.concluded_at
  BY DEF Imported, DisputeState
<1>3. Participants(e) = Participants(d) \union F \union A
  BY <1>2 DEF Participants
<1>4. IsConfirmed(d) => IsConfirmed(e)
  BY <1>1, <1>3, ConfirmedStays
<1>5. ASSUME ~IsConfirmed(e) PROVE e.concluded_at = d.concluded_at
  <2>1. ~IsSupermajority(e.validators_for) /\ ~IsSupermajority(e.validators_against)
    BY <1>1, <1>5, SupermajorityConfirms
  <2> QED BY <1>2, <2>1 DEF Fresh
<1>6. d.concluded_at # None => e.concluded_at = d.concluded_at
  BY <1>2
<1> QED BY <1>1, <1>2, <1>3, <1>4, <1>5, <1>6

\* None concludes early with them.
LEMMA ImportedLate ==
    ASSUME NEW d \in DisputeState, NEW F \in SUBSET Validators, NEW A \in SUBSET Validators,
           now \in Nat, Late(d)
    PROVE  Late(Imported(d, F, A))
<1>1. PICK e : e = Imported(d, F, A)
  OBVIOUS
<1>2. e.start = d.start
  BY <1>1 DEF Imported, DisputeState
<1>3. IsConfirmed(d) => IsConfirmed(e)
  BY <1>1, ImportedKeeps
<1>4. ~IsConfirmed(e) => e.concluded_at = d.concluded_at
  BY <1>1, ImportedKeeps
<1>5. Late(e)
  BY <1>2, <1>3, <1>4 DEF Late
<1> QED BY <1>1, <1>5

\* What the import of a statement set does to its dispute and to a slot.
LEMMA ImportedSlot ==
    ASSUME TypeOK, NEW k \in Keys, NEW F \in SUBSET Validators, NEW A \in SUBSET Validators,
           NEW F2, NEW A2, ImportSet(k, F, A, F2, A2), NEW v \in Validators
    PROVE  /\ UNCHANGED <<now, included>>
           /\ \A j \in Keys : j # k => disputes'[j] = disputes[j]
           /\ \A s \in Sessions : s # SessionOf[k] => spam_slots'[s] = spam_slots[s]
           /\ spam_slots'[SessionOf[k]][v] =
                 CASE v \in SpamIncrements(k, F, A) -> spam_slots[SessionOf[k]][v] + 1
                   [] v \in SpamDecrements(k, F, A) -> Monus(spam_slots[SessionOf[k]][v], 1)
                   [] OTHER -> spam_slots[SessionOf[k]][v]
           /\ \/ disputes'[k] = disputes[k] /\ F2 \union A2 = {}
              \/ disputes'[k] = Imported(Opened(k), F2, A2) /\ disputes'[k] # NoDispute
<1>1. SessionOf[k] \in Sessions
  BY DEF Sessions
<1>2. UNCHANGED <<now, included>>
  BY DEF ImportSet
<1>3. spam_slots' = SpamAfter(k, F, A)
  BY DEF ImportSet
<1>4. \A s \in Sessions : s # SessionOf[k] => spam_slots'[s] = spam_slots[s]
  BY <1>3 DEF SpamAfter, TypeOK
<1>5. spam_slots'[SessionOf[k]][v] =
         CASE v \in SpamIncrements(k, F, A) -> spam_slots[SessionOf[k]][v] + 1
           [] v \in SpamDecrements(k, F, A) -> Monus(spam_slots[SessionOf[k]][v], 1)
           [] OTHER -> spam_slots[SessionOf[k]][v]
  BY <1>1, <1>3 DEF SpamAfter, TypeOK
<1> DEFINE post == Imported(Opened(k), F2, A2)
<1>6. \/ disputes' = disputes /\ F2 \union A2 = {}
      \/ disputes' = [disputes EXCEPT ![k] = post] /\ TwoSided(post)
  BY DEF ImportSet
<1>7. ~TwoSided(NoDispute)
  BY DEF TwoSided, NoDispute
<1> HIDE DEF post
<1>8. \A j \in Keys : j # k => disputes'[j] = disputes[j]
  BY <1>6 DEF TypeOK
<1>9. \/ disputes'[k] = disputes[k] /\ F2 \union A2 = {}
      \/ disputes'[k] = post /\ disputes'[k] # NoDispute
  BY <1>6, <1>7 DEF TypeOK
<1> QED BY <1>2, <1>4, <1>5, <1>8, <1>9 DEF post

\* The votes of a confirmed dispute are not filtered.
LEMMA ConfirmedNotFiltered ==
    ASSUME NEW k \in Keys, NEW F, NEW A, NEW F2, NEW A2,
           ImportSet(k, F, A, F2, A2), IsConfirmed(Imported(Opened(k), F, A))
    PROVE  F2 = F /\ A2 = A
<1>1. OutOfSlots(k, F, A) = {}
  BY DEF OutOfSlots, SpamIncrements
<1>2. Filtered(k, F, A, F2, A2)
  BY DEF ImportSet
<1> QED BY <1>1, <1>2 DEF Filtered

\* The slots that a statement set takes and gives back.
LEMMA ImportTracks ==
    ASSUME TypeOK, ConcludesLate, NEW k \in Keys, ImportSome(k),
           NEW s \in Sessions, NEW v \in Validators
    PROVE  SlotsTracked(s, v)
<1>1. PICK F \in SUBSET Validators, A \in SUBSET Validators,
           F2 \in SUBSET Validators, A2 \in SUBSET Validators :
          F \union A # {} /\ F2 \subseteq F /\ A2 \subseteq A /\ ImportSet(k, F, A, F2, A2)
  BY DEF ImportSome, NewVotes
<1> DEFINE S == SessionOf[k]
           n == spam_slots[s][v]
           m == spam_slots'[s][v]
           d == Opened(k)
           full == Imported(d, F, A)
           post == Imported(d, F2, A2)
           now_k == disputes'[k]
           was_k == disputes[k]
<1>2. /\ \A j \in Keys : IsLocal(j)' <=> IsLocal(j)
      /\ \A j \in Keys : j # k => disputes'[j] = disputes[j]
      /\ s # S => m = n
      /\ s = S => m = CASE v \in SpamIncrements(k, F, A) -> n + 1
                        [] v \in SpamDecrements(k, F, A) -> Monus(n, 1)
                        [] OTHER -> n
      /\ \/ now_k = was_k /\ F2 \union A2 = {}
         \/ now_k = post /\ now_k # NoDispute
  <2> DEFINE slots == CASE v \in SpamIncrements(k, F, A) -> spam_slots[S][v] + 1
                        [] v \in SpamDecrements(k, F, A) -> Monus(spam_slots[S][v], 1)
                        [] OTHER -> spam_slots[S][v]
  <2>1. /\ UNCHANGED <<now, included>>
        /\ \A j \in Keys : j # k => disputes'[j] = disputes[j]
        /\ \A t \in Sessions : t # S => spam_slots'[t] = spam_slots[t]
        /\ spam_slots'[S][v] = slots
        /\ \/ now_k = was_k /\ F2 \union A2 = {}
           \/ now_k = post /\ now_k # NoDispute
    BY <1>1, ImportedSlot
  <2>2. \A j \in Keys : IsLocal(j)' <=> IsLocal(j)
    BY <2>1 DEF IsLocal
  <2>3. s # S => m = n
    BY <2>1
  <2>4. s = S => m = slots
    BY <2>1
  <2> QED BY <2>1, <2>2, <2>3, <2>4
<1>3. \A j \in Keys : j # k => disputes'[j] = disputes[j] /\ (IsLocal(j)' <=> IsLocal(j))
  BY <1>2
<1>4. CASE s # S
  BY <1>2, <1>3, <1>4, OtherSession
<1>5. CASE s = S
  <2>1. now \in Nat /\ d \in DisputeState
    BY OpenedType DEF TypeOK
  <2>2. /\ full \in DisputeState /\ Participants(full) = Participants(d) \union F \union A
        /\ IsConfirmed(d) => IsConfirmed(full)
    BY <2>1, ImportedKeeps
  <2>3. /\ post \in DisputeState /\ Participants(post) = Participants(d) \union F2 \union A2
        /\ post.start = d.start
        /\ d.concluded_at # None => post.concluded_at = d.concluded_at
        /\ IsConfirmed(d) => IsConfirmed(post)
        /\ ~IsConfirmed(post) => post.concluded_at = d.concluded_at
    BY <2>1, ImportedKeeps
  <2>4. IsConfirmed(post) => IsConfirmed(full)
    BY <1>1, <2>2, <2>3, ConfirmedStays
  <2>5. IsConfirmed(full) => now_k = post
    BY <1>1, <1>2, ConfirmedNotFiltered
  <2>6. IsConfirmed(full) => IsConfirmed(post)
    BY <1>1, ConfirmedNotFiltered
  <2>7. /\ was_k # NoDispute => d = was_k
        /\ was_k = NoDispute => Participants(d) = {} /\ Participants(was_k) = {}
    BY DEF Opened, Known, NoDispute, Participants
  <2>8. /\ SpamIncrements(k, F, A) = IF ~IsLocal(k) /\ ~IsConfirmed(full)
                                     THEN (F \union A) \ Participants(d) ELSE {}
        /\ SpamDecrements(k, F, A) = IF ~IsLocal(k) /\ ~IsConfirmed(d) /\ IsConfirmed(full)
                                     THEN Participants(d) ELSE {}
    BY DEF SpamIncrements, SpamDecrements, NewParticipants
  <2>9. was_k \in DisputeState /\ ConclusionTimeout \in Nat
    BY ConstantsAssumption DEF TypeOK
  <2>10. /\ k \in OpenSpam(s, v) <=> IsOpen(was_k, IsLocal(k), v)
         /\ k \in OpenSpam(s, v)' <=> IsOpen(now_k, IsLocal(k), v)
         /\ k \in ReturnedTwice(s, v) <=> IsTwice(was_k, IsLocal(k), v)
         /\ k \in ReturnedTwice(s, v)' <=> IsTwice(now_k, IsLocal(k), v)
    BY <1>2, <1>5, SpamSets DEF IsOpen, IsTwice
  <2>11. ~IsConfirmed(was_k) /\ was_k.concluded_at # None =>
            was_k.concluded_at > was_k.start + ConclusionTimeout
    BY DEF ConcludesLate, Late
  <2>12. /\ \/ now_k = was_k /\ F2 \union A2 = {}
            \/ now_k = post /\ now_k # NoDispute
         /\ m = CASE v \in SpamIncrements(k, F, A) -> n + 1
                  [] v \in SpamDecrements(k, F, A) -> Monus(n, 1)
                  [] OTHER -> n
    BY <1>2, <1>5
  <2> DEFINE L == IsLocal(k)
  <2>13. was_k.concluded_at > was_k.start + ConclusionTimeout => was_k.concluded_at # None
    BY <2>9 DEF DisputeState, Block, OptBlock, None
  <2> HIDE DEF L, n, m, d, full, post, now_k, was_k, S
  <2>14. k \in ReturnedTwice(s, v) => k \in ReturnedTwice(s, v)'
    BY <2>3, <2>7, <2>10, <2>12, <2>13 DEF IsTwice
  <2>15. CASE L
    <3>1. SpamIncrements(k, F, A) = {} /\ SpamDecrements(k, F, A) = {}
      BY <2>8, <2>15 DEF L
    <3>2. m = n
      BY <2>12, <3>1
    <3>3. k \in OpenSpam(s, v)' <=> k \in OpenSpam(s, v)
      BY <2>10, <2>15 DEF IsOpen, L
    <3> QED BY <1>3, <2>14, <3>2, <3>3, OwnSession DEF n, m
  <2>16. CASE ~L /\ ~IsConfirmed(full)
    <3>1. ~IsConfirmed(post) /\ ~IsConfirmed(d) /\ post.concluded_at = d.concluded_at
      BY <2>2, <2>3, <2>4, <2>16
    <3>2. SpamDecrements(k, F, A) = {} /\ SpamIncrements(k, F, A) = (F \union A) \ Participants(d)
      BY <2>8, <2>16 DEF L
    <3>3. CASE v \in (F \union A) \ Participants(d)
      <4>1. m = n + 1
        BY <2>12, <3>2, <3>3
      <4>2. v \notin Participants(was_k)
        BY <2>7, <3>3
      <4>3. k \notin OpenSpam(s, v)
        BY <2>10, <4>2 DEF IsOpen
      <4> QED BY <1>3, <2>14, <4>1, <4>3, OwnSession DEF n, m
    <3>4. CASE v \notin (F \union A) \ Participants(d)
      <4>1. m = n
        BY <2>12, <3>2, <3>4
      <4>2. v \in Participants(post) <=> v \in Participants(d)
        BY <1>1, <2>3, <3>4
      <4>3. k \in OpenSpam(s, v)' <=> k \in OpenSpam(s, v)
        BY <2>7, <2>10, <2>12, <3>1, <4>2 DEF IsOpen
      <4> QED BY <1>3, <2>14, <4>1, <4>3, OwnSession DEF n, m
    <3> QED BY <3>3, <3>4
  <2>17. CASE ~L /\ IsConfirmed(full)
    <3>1. now_k = post /\ IsConfirmed(post) /\ k \notin OpenSpam(s, v)'
      BY <2>5, <2>6, <2>10, <2>17 DEF IsOpen
    <3>2. SpamIncrements(k, F, A) = {}
      BY <2>8, <2>17
    <3>3. CASE ~IsConfirmed(d) /\ v \in Participants(d)
      <4>1. SpamDecrements(k, F, A) = Participants(d)
        BY <2>8, <2>17, <3>3 DEF L
      <4>2. m = Monus(n, 1)
        BY <2>12, <3>2, <3>3, <4>1
      <4>3. was_k # NoDispute /\ d = was_k
        BY <2>7, <3>3
      <4>4. CASE was_k.concluded_at = None
        <5>1. k \in OpenSpam(s, v)
          BY <2>10, <2>17, <3>3, <4>3, <4>4 DEF IsOpen, L
        <5> QED BY <1>3, <2>14, <3>1, <4>2, <5>1, OwnSession DEF n, m
      <4>5. CASE was_k.concluded_at # None
        <5>1. k \notin OpenSpam(s, v) /\ k \notin ReturnedTwice(s, v)
          BY <2>10, <2>17, <3>3, <4>3, <4>5 DEF IsOpen, IsTwice, L
        <5>2. k \in ReturnedTwice(s, v)'
          <6>1. was_k.concluded_at > was_k.start + ConclusionTimeout
            BY <2>11, <3>3, <4>3, <4>5
          <6>2. /\ post.concluded_at = was_k.concluded_at /\ post.start = was_k.start
                /\ v \in Participants(post)
            BY <2>3, <3>3, <4>3, <4>5
          <6>3. now_k # NoDispute
            BY <2>12, <4>3
          <6> QED BY <2>10, <3>1, <6>1, <6>2, <6>3 DEF IsTwice
        <5> QED BY <1>3, <2>14, <3>1, <4>2, <5>1, <5>2, OwnSession DEF n, m
      <4> QED BY <4>4, <4>5
    <3>4. CASE IsConfirmed(d) \/ v \notin Participants(d)
      <4>1. v \notin SpamDecrements(k, F, A)
        BY <2>8, <3>4
      <4>2. m = n
        BY <2>12, <3>2, <4>1
      <4>3. k \notin OpenSpam(s, v)
        BY <2>7, <2>10, <3>4 DEF IsOpen
      <4> QED BY <1>3, <2>14, <3>1, <4>2, <4>3, OwnSession DEF n, m
    <3> QED BY <3>3, <3>4
  <2> QED BY <2>15, <2>16, <2>17
<1> QED BY <1>4, <1>5

\* No step but a new session lets the slots get out of step with the disputes.
LEMMA NextTracks ==
    ASSUME TypeOK, ConcludesLate, [Next]_vars, ~NewSession,
           NEW s \in Sessions, NEW v \in Validators
    PROVE  SlotsTracked(s, v)
<1>1. CASE \/ EndDisputes \/ EndInherent \/ ForceUnfreeze \/ EndBlock \/ UNCHANGED vars
  <2>1. UNCHANGED <<disputes, included, spam_slots>>
    BY <1>1 DEF EndDisputes, EndInherent, ForceUnfreeze, EndBlock, vars
  <2>2. /\ OpenSpam(s, v)' = OpenSpam(s, v) /\ ReturnedTwice(s, v)' = ReturnedTwice(s, v)
        /\ spam_slots'[s][v] = spam_slots[s][v] /\ spam_slots[s][v] \in Nat
    BY <2>1 DEF OpenSpam, ReturnedTwice, PotentialSpam, Known, IsLocal, TypeOK
  <2> QED BY <2>2, TrackedKept DEF SlotsTracked
<1> QED BY <1>1, TimeoutTracks, ImportTracks, IncludedTracks DEF Next, BoundReached

\* Every step of the pallet keeps ConcludesLate.
LEMMA NextLate ==
    ASSUME TypeOK, ConcludesLate, [Next]_vars
    PROVE  ConcludesLate'
<1>0. /\ ConcludesLate <=> \A k \in Keys : Late(disputes[k])
      /\ ConcludesLate' <=> \A k \in Keys : Late(disputes'[k])
  BY DEF ConcludesLate, Late
<1>1. CASE Initialize
  <2> SUFFICES ASSUME NEW k \in Keys
               PROVE  Late(disputes'[k])
    BY <1>0
  <2>1. disputes[k] \in DisputeState /\ now \in Nat /\ ConclusionTimeout \in Nat
    BY ConstantsAssumption DEF TypeOK
  <2>2. CASE k \in TimedOut
    <3>1. disputes'[k].concluded_at = now /\ disputes'[k].start = disputes[k].start
      BY <1>1, <2>1, <2>2 DEF Initialize, DisputeState
    <3>2. disputes[k].start + ConclusionTimeout < now /\ disputes[k].start \in Nat
      BY <2>1, <2>2 DEF TimedOut, DisputeState, Block
    <3> QED BY <2>1, <3>1, <3>2 DEF Late
  <2>3. CASE k \notin TimedOut
    <3>1. disputes'[k] = disputes[k]
      BY <1>1, <2>3 DEF Initialize
    <3> QED BY <1>0, <3>1
  <2> QED BY <2>2, <2>3
<1>2. ASSUME NEW k \in Keys, ImportSome(k)
      PROVE  ConcludesLate'
  <2>1. PICK F \in SUBSET Validators, A \in SUBSET Validators,
             F2 \in SUBSET Validators, A2 \in SUBSET Validators :
            ImportSet(k, F, A, F2, A2)
    BY <1>2 DEF ImportSome, NewVotes
  <2> DEFINE d == Opened(k)
             post == Imported(d, F2, A2)
  <2>2. \A j \in Keys : disputes'[j] = disputes[j] \/ (j = k /\ disputes'[j] = post)
    <3>1. PICK v \in Validators : TRUE
      BY ConstantsAssumption
    <3>2. /\ \A j \in Keys : j # k => disputes'[j] = disputes[j]
          /\ \/ disputes'[k] = disputes[k] /\ F2 \union A2 = {}
             \/ disputes'[k] = post /\ disputes'[k] # NoDispute
      BY <2>1, ImportedSlot
    <3> QED BY <3>2
  <2>3. d \in DisputeState /\ now \in Nat
    BY OpenedType DEF TypeOK
  <2>4. Late(d)
    <3>1. d = disputes[k] \/ d.concluded_at = None
      BY DEF Opened, NoDispute
    <3> QED BY <1>0, <3>1 DEF Late
  <2>5. Late(post)
    BY <2>3, <2>4, ImportedLate
  <2> HIDE DEF post
  <2> QED BY <1>0, <2>2, <2>5
<1>3. CASE \/ EndDisputes \/ (\E k \in Keys : NoteIncluded(k)) \/ EndInherent
           \/ ForceUnfreeze \/ EndBlock \/ NewSession \/ UNCHANGED vars
  <2>1. \A k \in Keys : disputes'[k] \in {disputes[k], NoDispute}
    BY <1>3 DEF EndDisputes, NoteIncluded, EndInherent, ForceUnfreeze, EndBlock,
                NewSession, vars
  <2>2. Late(NoDispute)
    BY DEF NoDispute, Late
  <2> QED BY <1>0, <2>1, <2>2
<1> QED BY <1>1, <1>2, <1>3 DEF Next, BoundReached

\* A session prunes the slots together with the disputes.
LEMMA SessionHolds ==
    ASSUME TypeOK, SlotsHeld, NewSession
    PROVE  SlotsHeld'
<1> SUFFICES ASSUME NEW s \in Sessions, NEW v \in Validators
             PROVE  Cardinality(OpenSpam(s, v)') <=
                        spam_slots'[s][v] + Cardinality(ReturnedTwice(s, v)')
  BY DEF SlotsHeld, Sessions
<1>1. CASE Pruned(s)
  <2>1. spam_slots'[s][v] = 0
    BY <1>1 DEF NewSession
  <2>2. \A k \in Keys : SessionOf[k] = s => disputes'[k] = NoDispute
    BY <1>1 DEF NewSession
  <2>3. OpenSpam(s, v)' = {}
    BY <2>2 DEF OpenSpam, PotentialSpam, Known
  <2>4. Cardinality(OpenSpam(s, v)') = 0
    BY <2>3, FS_EmptySet
  <2>5. Cardinality(ReturnedTwice(s, v)') \in Nat
    BY SpamSetsKeys, ConstantsAssumption, FS_Subset, FS_CardinalityType
  <2> QED BY <2>1, <2>4, <2>5
<1>2. CASE ~Pruned(s)
  <2>1. spam_slots'[s] = spam_slots[s]
    BY <1>2 DEF NewSession
  <2>2. \A k \in Keys : SessionOf[k] = s =>
            disputes'[k] = disputes[k] /\ (IsLocal(k)' <=> IsLocal(k))
    BY <1>2 DEF NewSession, IsLocal
  <2>3. \A k \in Keys : /\ k \in OpenSpam(s, v)' <=> k \in OpenSpam(s, v)
                        /\ k \in ReturnedTwice(s, v)' <=> k \in ReturnedTwice(s, v)
    BY <2>2, SpamSets DEF IsOpen, IsTwice
  <2>4. OpenSpam(s, v)' = OpenSpam(s, v) /\ ReturnedTwice(s, v)' = ReturnedTwice(s, v)
    BY <2>3, SpamSetsKeys
  <2> QED BY <2>1, <2>4 DEF SlotsHeld
<1> QED BY <1>1, <1>2

\* Every validator holds a slot for each of its open disputes that may be spam, and
\* gets it back in the step that ends that.
THEOREM SlotsFollow == Spec => SlotsFollowDisputes
<1>1. ASSUME TypeOK, ConcludesLate, [Next]_vars, ~NewSession,
             NEW s \in Sessions, NEW v \in Validators
      PROVE  /\ Cardinality(OpenSpam(s, v)) <= spam_slots[s][v] + Cardinality(ReturnedTwice(s, v))
                => Cardinality(OpenSpam(s, v)') <=
                       spam_slots'[s][v] + Cardinality(ReturnedTwice(s, v)')
             /\ OpenSpam(s, v) \ OpenSpam(s, v)' # {} =>
                    spam_slots'[s][v] = Monus(spam_slots[s][v],
                                              Cardinality(OpenSpam(s, v) \ OpenSpam(s, v)'))
  <2>1. SlotsTracked(s, v)
    BY <1>1, NextTracks
  <2>2. spam_slots[s][v] \in Nat
    BY <1>1 DEF TypeOK
  <2>3. /\ OpenSpam(s, v) \in SUBSET Keys /\ OpenSpam(s, v)' \in SUBSET Keys
        /\ ReturnedTwice(s, v) \in SUBSET Keys /\ ReturnedTwice(s, v)' \in SUBSET Keys
    BY SpamSetsKeys
  <2>4. Followed(OpenSpam(s, v), OpenSpam(s, v)', ReturnedTwice(s, v), ReturnedTwice(s, v)',
                 spam_slots[s][v], spam_slots'[s][v])
    BY <2>1, <2>2, <2>3, TrackedHolds DEF SlotsTracked
  <2> QED BY <2>4 DEF Followed
<1>2. Init => ConcludesLate
  BY DEF Init, ConcludesLate, Late, NoDispute
<1>3. TypeOK /\ Init => SlotsHeld
  <2> SUFFICES ASSUME TypeOK, Init, NEW s \in Sessions, NEW v \in Validators
               PROVE  Cardinality(OpenSpam(s, v)) <=
                          spam_slots[s][v] + Cardinality(ReturnedTwice(s, v))
    BY DEF SlotsHeld
  <2>1. OpenSpam(s, v) = {}
    BY DEF Init, OpenSpam, PotentialSpam, Known
  <2>2. Cardinality(OpenSpam(s, v)) = 0
    BY <2>1, FS_EmptySet
  <2>3. Cardinality(ReturnedTwice(s, v)) \in Nat
    BY SpamSetsKeys, ConstantsAssumption, FS_Subset, FS_CardinalityType
  <2>4. spam_slots[s][v] \in Nat
    BY DEF TypeOK
  <2> QED BY <2>2, <2>3, <2>4
<1>4. TypeOK /\ ConcludesLate /\ [Next]_vars => ConcludesLate'
  BY NextLate
<1>5. TypeOK /\ ConcludesLate /\ SlotsHeld /\ [Next]_vars => SlotsHeld'
  <2> SUFFICES ASSUME TypeOK, ConcludesLate, SlotsHeld, [Next]_vars
               PROVE  SlotsHeld'
    OBVIOUS
  <2>1. CASE NewSession
    BY <2>1, SessionHolds
  <2>2. CASE ~NewSession
    <3> SUFFICES ASSUME NEW s \in Sessions, NEW v \in Validators
                 PROVE  Cardinality(OpenSpam(s, v)') <=
                            spam_slots'[s][v] + Cardinality(ReturnedTwice(s, v)')
      BY DEF SlotsHeld, Sessions
    <3>1. Cardinality(OpenSpam(s, v)) <= spam_slots[s][v] + Cardinality(ReturnedTwice(s, v))
      BY DEF SlotsHeld
    <3> QED BY <1>1, <2>2, <3>1
  <2> QED BY <2>1, <2>2
<1>6. TypeOK /\ ConcludesLate /\ [Next]_vars => [SlotsReturned]_vars
  <2> SUFFICES ASSUME TypeOK, ConcludesLate, [Next]_vars, session' = session,
                      NEW s \in Sessions, NEW v \in Validators,
                      OpenSpam(s, v) \ OpenSpam(s, v)' # {}
               PROVE  spam_slots'[s][v] = Monus(spam_slots[s][v],
                          Cardinality(OpenSpam(s, v) \ OpenSpam(s, v)'))
    BY DEF SlotsReturned
  <2>1. ~NewSession
    BY DEF NewSession, TypeOK
  <2> QED BY <1>1, <2>1
<1> QED BY <1>2, <1>3, <1>4, <1>5, <1>6, InitType, TypeCorrect, PTL
        DEF Spec, SlotsFollowDisputes

-----------------------------------------------------------------------------
(* Action properties.                                                      *)

\* Until it is pruned a dispute keeps its votes, its start and its
\* conclusion.
THEOREM VotesKept == Spec => VotesStand
<1> DEFINE Stands ==
      \A k \in Keys : Known(k) =>
          \/ session' # session /\ disputes'[k] = NoDispute
          \/ /\ disputes[k].validators_for \subseteq disputes'[k].validators_for
             /\ disputes[k].validators_against
                   \subseteq disputes'[k].validators_against
             /\ disputes[k].start = disputes'[k].start
             /\ disputes[k].concluded_at \in {None, disputes'[k].concluded_at}
<1>1. TypeOK /\ [Next]_vars => [Stands]_vars
  <2> SUFFICES ASSUME TypeOK, [Next]_vars
               PROVE  Stands
    OBVIOUS
  <2>1. CASE Initialize
    BY <2>1 DEF Initialize, TimedOut, TypeOK, DisputeState
  <2>2. ASSUME NEW k \in Keys, ImportSome(k)
        PROVE  Stands
    <3>1. \/ disputes' = disputes
          \/ \E post :
                /\ disputes' = [disputes EXCEPT ![k] = post]
                /\ Opened(k).validators_for \subseteq post.validators_for
                /\ Opened(k).validators_against \subseteq post.validators_against
                /\ post.start = Opened(k).start
                /\ Opened(k).concluded_at \in {None, post.concluded_at}
      BY <2>2, ImportStep
    <3>2. Known(k) => Opened(k) = disputes[k]
      BY DEF Opened
    <3> QED BY <3>1, <3>2 DEF TypeOK
  <2>3. CASE \/ EndDisputes \/ (\E k \in Keys : NoteIncluded(k)) \/ EndInherent
             \/ ForceUnfreeze \/ EndBlock \/ UNCHANGED vars
    <3>1. disputes' = disputes
      BY <2>3 DEF EndDisputes, NoteIncluded, EndInherent, ForceUnfreeze,
                  EndBlock, vars
    <3> QED BY <3>1
  <2>4. CASE NewSession
    <3>1. session' # session
      BY <2>4 DEF NewSession, TypeOK
    <3> QED BY <2>4, <3>1 DEF NewSession
  <2> QED
    BY <2>1, <2>2, <2>3, <2>4 DEF Next, BoundReached
<1> QED BY <1>1, TypeCorrect, PTL DEF Spec, VotesStand

\* A frozen chain is only unfrozen by governance, and the last valid block
\* only ever moves back.
THEOREM GovernanceUnfreezes == Spec => UnfrozenByGovernance
<1> DEFINE Thaws ==
      frozen # None =>
          \/ frozen' # None /\ frozen' <= frozen
          \/ phase = "calls" /\ forgiven \subseteq forgiven'
                /\ UNCHANGED <<now, disputes, included>>
<1>1. TypeOK /\ [Next]_vars => [Thaws]_vars
  <2> SUFFICES ASSUME TypeOK, [Next]_vars, frozen # None
               PROVE  Thaws
    OBVIOUS
  <2>0. frozen \in Nat
    BY DEF TypeOK, OptBlock
  <2>1. CASE \E k \in Keys : ImportSome(k)
    <3>1. PICK k \in Keys : ImportSome(k)
      BY <2>1
    <3>2. PICK F, A, F2, A2 : ImportSet(k, F, A, F2, A2)
      BY <3>1 DEF ImportSome
    <3>3. \/ frozen' = frozen
          \/ IsLocal(k) /\ frozen' = revert_and_freeze(included[k])
      BY <3>2 DEF ImportSet
    <3> QED BY <2>0, <3>3, RevertLowers DEF IsLocal, TypeOK, OptBlock, None
  <2>2. CASE \E k \in Keys : NoteIncluded(k)
    <3>1. \/ frozen' = frozen
          \/ now - 1 \in Nat /\ frozen' = revert_and_freeze(now - 1)
      BY <2>2 DEF NoteIncluded, TypeOK
    <3> QED BY <2>0, <3>1, RevertLowers DEF OptBlock, None
  <2>3. CASE ForceUnfreeze
    BY <2>3 DEF ForceUnfreeze
  <2>4. CASE \/ Initialize \/ EndDisputes \/ EndInherent \/ EndBlock
             \/ NewSession \/ UNCHANGED vars
    <3>1. frozen' = frozen
      BY <2>4 DEF Initialize, EndDisputes, EndInherent, EndBlock, NewSession, vars
    <3> QED BY <2>0, <3>1 DEF None
  <2> QED
    BY <2>1, <2>2, <2>3, <2>4 DEF Next, BoundReached
<1> QED BY <1>1, TypeCorrect, PTL DEF Spec, UnfrozenByGovernance
=============================================================================
