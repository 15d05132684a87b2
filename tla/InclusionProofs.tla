-------------------------- MODULE InclusionProofs --------------------------
(***************************************************************************)
(* Theorems about Inclusion, for every set of paras, cores and validators  *)
(* and every configuration.                                                *)
(***************************************************************************)
EXTENDS Inclusion, TLAPS

-----------------------------------------------------------------------------
(* The inductive invariant.                                                *)

\* Candidates were backed in this block or an earlier one; in an earlier one
\* as long as this block's inherent has not come to backing.
BackedEarlier ==
    \A p \in DOMAIN pending :
        /\ pending[p].backed_in_number <= now
        /\ phase # "calls" => pending[p].backed_in_number < now

\* The inherent only goes on to bitfields on a chain that is not frozen.
ProceedsUnfrozen == phase = "bitfields" => ~frozen

\* The core and the candidate chosen for a para by `process_candidates`.
LEMMA CoreChosen ==
    ASSUME NEW backed, NEW p,
           \E c \in DOMAIN backed : backed[c].hash.para = p
    PROVE  LET CoreOf == CHOOSE c \in DOMAIN backed : backed[c].hash.para = p
           IN  CoreOf \in DOMAIN backed /\ backed[CoreOf].hash.para = p
  BY Zenon

-----------------------------------------------------------------------------
(* Type correctness.                                                       *)

\* The initial storage is well typed.
LEMMA InitType == Init => TypeOK
<1> SUFFICES ASSUME Init PROVE TypeOK
  OBVIOUS
<1>1. DOMAIN pending = {} /\ DOMAIN cores = {}
  BY DEF Init
<1>2. /\ pending \in [DOMAIN pending -> CandidatePendingAvailability]
      /\ cores \in [DOMAIN cores -> ParaIds]
  BY <1>1 DEF Init
<1>3. heads \in [ParaIds -> Nat]
  BY DEF Init
<1>4. frozen \in BOOLEAN /\ invalid \subseteq Candidates
  BY DEF Init
<1>5. /\ now \in Nat \ {0} /\ session_start \in Nat
      /\ phase \in {"disputes", "bitfields", "timeouts", "backing", "calls"}
      /\ stopped \in Nat /\ overridden \subseteq ParaIds
  BY DEF Init
<1> QED BY <1>1, <1>2, <1>3, <1>4, <1>5 DEF TypeOK

\* Freeing the cores of a set of candidates keeps the maps well typed.
LEMMA CollectType ==
    ASSUME TypeOK, NEW P, Collect(P)
    PROVE  /\ DOMAIN pending' \subseteq ParaIds
           /\ pending' \in [DOMAIN pending' -> CandidatePendingAvailability]
           /\ DOMAIN cores' \subseteq Cores
           /\ cores' \in [DOMAIN cores' -> ParaIds]
  BY DEF TypeOK, Collect, Drop

\* The values that process_candidates writes are well typed.
LEMMA BackedType ==
    ASSUME TypeOK, NEW C \in SUBSET Cores, NEW backed \in [C -> BackedCandidates],
           NEW c \in C
    PROVE  /\ backed[c].hash \in Candidates
           /\ backed[c].hash.para \in ParaIds
           /\ backed[c].backers \in Nat
           /\ backed[c].group_size \in GroupSizes
<1>1. backed[c] \in BackedCandidates
  OBVIOUS
<1>2. now - 1 \in Nat
  BY DEF TypeOK
<1> QED BY <1>1, <1>2 DEF BackedCandidates, Candidates

\* Every step of the pallet keeps the storage well typed.
LEMMA NextType ==
    ASSUME TypeOK, [Next]_vars
    PROVE  TypeOK'
<1>1. CASE DisputesSome
  <2>1. PICK voted_on \in SUBSET Disputable, concludes \in SUBSET Disputable,
             freezes \in BOOLEAN : ProcessDisputes(voted_on, concludes, freezes)
    <3>1. \A V \in SUBSET Disputable : SUBSET V \subseteq SUBSET Disputable
      OBVIOUS
    <3> QED BY <1>1, <3>1 DEF DisputesSome
  <2>2. Disputable \subseteq Candidates
    <3>1. now - 1 \in Nat
      BY DEF TypeOK
    <3>2. \A p \in DOMAIN pending : pending[p].hash \in Candidates
      BY DEF TypeOK, CandidatePendingAvailability
    <3> QED BY <3>1, <3>2 DEF Disputable, Candidates
  <2>3. invalid' \subseteq Candidates
    BY <2>1, <2>2 DEF ProcessDisputes, TypeOK
  <2>4. /\ DOMAIN pending' \subseteq ParaIds
        /\ pending' \in [DOMAIN pending' -> CandidatePendingAvailability]
        /\ DOMAIN cores' \subseteq Cores
        /\ cores' \in [DOMAIN cores' -> ParaIds]
    <3>1. CASE frozen'
      BY <2>1, <3>1 DEF ProcessDisputes, TypeOK
    <3>2. CASE ~frozen'
      BY <2>1, <3>2, CollectType DEF ProcessDisputes
    <3> QED BY <3>1, <3>2
  <2>5. frozen' \in BOOLEAN
    BY <2>1 DEF ProcessDisputes
  <2>6. phase' \in {"calls", "bitfields"}
    BY <2>1 DEF ProcessDisputes
  <2> QED BY <2>1, <2>3, <2>4, <2>5, <2>6 DEF ProcessDisputes, TypeOK
<1>2. CASE BitfieldsSome
  <2>1. PICK votes \in [DOMAIN cores -> SUBSET Validators] :
               ProcessBitfields(votes)
    BY <1>2 DEF BitfieldsSome
  <2>2. \A p \in DOMAIN pending : VotesAfter(p, votes) \in SUBSET Validators
    BY <2>1 DEF VotesAfter, TypeOK, CandidatePendingAvailability
  <2>3. /\ DOMAIN pending' \subseteq ParaIds
        /\ pending' \in [DOMAIN pending' -> CandidatePendingAvailability]
    <3>1. pending' = [p \in DOMAIN pending \ Available(votes) |->
              [pending[p] EXCEPT !.availability_votes = VotesAfter(p, votes)]]
      BY <2>1 DEF ProcessBitfields
    <3>2. ASSUME NEW p \in DOMAIN pending
          PROVE  [pending[p] EXCEPT !.availability_votes = VotesAfter(p, votes)]
                     \in CandidatePendingAvailability
      <4>1. pending[p] \in CandidatePendingAvailability
        BY DEF TypeOK
      <4> QED BY <4>1, <2>2 DEF CandidatePendingAvailability
    <3> QED BY <3>1, <3>2 DEF TypeOK
  <2>4. /\ DOMAIN cores' \subseteq Cores
        /\ cores' \in [DOMAIN cores' -> ParaIds]
    BY <2>1 DEF ProcessBitfields, Drop, TypeOK
  <2>5. heads' \in [ParaIds -> Nat]
    <3>1. \A p \in DOMAIN pending : pending[p].parent_head \in Nat
      BY DEF TypeOK, CandidatePendingAvailability
    <3>2. Available(votes) \subseteq DOMAIN pending
      BY DEF Available
    <3> QED BY <2>1, <3>1, <3>2 DEF ProcessBitfields, TypeOK
  <2>6. frozen' \in BOOLEAN
    BY <2>1 DEF ProcessBitfields
  <2> QED BY <2>1, <2>3, <2>4, <2>5, <2>6 DEF ProcessBitfields, TypeOK
<1>3. CASE CollectTimedOut
  BY <1>3, CollectType DEF CollectTimedOut, TypeOK
<1>4. CASE CandidatesSome
  <2>0. PICK C \in SUBSET (Cores \ DOMAIN cores) :
            \E backed \in [C -> BackedCandidates] : ProcessCandidates(backed)
    BY <1>4 DEF CandidatesSome
  <2>1. PICK backed \in [C -> BackedCandidates] : ProcessCandidates(backed)
    BY <2>0
  <2> DEFINE paras == {backed[c].hash.para : c \in C}
             CoreOf(p) == CHOOSE c \in DOMAIN backed : backed[c].hash.para = p
             New(p) == [core |-> CoreOf(p),
                        hash |-> backed[CoreOf(p)].hash,
                        parent_head |-> heads[p],
                        availability_votes |-> {},
                        backed_in_number |-> now,
                        backers |-> backed[CoreOf(p)].backers,
                        group_size |-> backed[CoreOf(p)].group_size]
  <2>2. /\ pending' = [p \in DOMAIN pending \union paras |->
                          IF p \in paras THEN New(p) ELSE pending[p]]
        /\ cores' = [c \in DOMAIN cores \union C |->
                        IF c \in C THEN backed[c].hash.para ELSE cores[c]]
    BY <2>1 DEF ProcessCandidates
  <2>3. \A c \in C : /\ backed[c].hash \in Candidates
                     /\ backed[c].hash.para \in ParaIds
                     /\ backed[c].backers \in Nat
                     /\ backed[c].group_size \in GroupSizes
    BY BackedType
  <2>4. ASSUME NEW p \in paras
        PROVE  New(p) \in CandidatePendingAvailability
    <3>1. CoreOf(p) \in C
      BY CoreChosen
    <3>2. p \in ParaIds
      BY <2>3
    <3> HIDE DEF CoreOf
    <3> QED BY <3>1, <3>2, <2>3 DEF CandidatePendingAvailability, TypeOK
  <2> HIDE DEF New
  <2>5. /\ DOMAIN pending' \subseteq ParaIds
        /\ pending' \in [DOMAIN pending' -> CandidatePendingAvailability]
    BY <2>2, <2>3, <2>4 DEF TypeOK
  <2>6. /\ DOMAIN cores' \subseteq Cores
        /\ cores' \in [DOMAIN cores' -> ParaIds]
    BY <2>2, <2>3 DEF TypeOK
  <2>7. overridden' \subseteq ParaIds
    BY <2>1 DEF ProcessCandidates, TypeOK
  <2> QED BY <2>1, <2>5, <2>6, <2>7 DEF ProcessCandidates, TypeOK
<1>5. CASE ForceUnfreeze
  BY <1>5 DEF ForceUnfreeze, TypeOK
<1>6. CASE EndBlock
  BY <1>6 DEF EndBlock, TypeOK
<1>7. CASE NewSession
  BY <1>7 DEF NewSession, TypeOK
<1>8. CASE BoundReached \/ UNCHANGED vars
  BY <1>8 DEF BoundReached, vars, TypeOK
<1>9. CASE ForceSome
  <2>1. PICK p \in ParaIds, h \in ForcedHeads : ForceHead(p, h)
    BY <1>9 DEF ForceSome
  <2>2. h \in Nat
    BY InclusionAssumption
  <2>3. heads' \in [ParaIds -> Nat]
    BY <2>1, <2>2 DEF ForceHead, TypeOK
  <2>4. overridden' \subseteq ParaIds
    BY <2>1 DEF ForceHead, TypeOK
  <2> QED BY <2>1, <2>3, <2>4 DEF ForceHead, TypeOK
<1> QED
  BY <1>1, <1>2, <1>3, <1>4, <1>5, <1>6, <1>7, <1>8, <1>9 DEF Next

\* PendingAvailability, AvailabilityCores and the heads always have the types
\* that inclusion/mod.rs, scheduler.rs and paras give them.
THEOREM TypeCorrect == Spec => []TypeOK
<1>1. TypeOK /\ [Next]_vars => TypeOK'
  BY NextType
<1> QED BY <1>1, InitType, PTL DEF Spec

-----------------------------------------------------------------------------
(* The scheduler's cores and the candidates pending availability agree.    *)

\* Freeing the cores of a set of pending candidates, with the candidates,
\* keeps the two maps in step.
LEMMA CollectBijection ==
    ASSUME CoreBijection, NEW P \in SUBSET DOMAIN pending, Collect(P)
    PROVE  CoreBijection'
<1>1. /\ DOMAIN pending' = DOMAIN pending \ P
      /\ \A p \in DOMAIN pending' : pending'[p] = pending[p]
      /\ DOMAIN cores' = DOMAIN cores \ {pending[p].core : p \in P}
      /\ \A c \in DOMAIN cores' : cores'[c] = cores[c]
  BY DEF Collect, Drop
<1> QED BY <1>1 DEF CoreBijection

\* Every step keeps the two maps in step.
LEMMA NextBijection ==
    ASSUME TypeOK, CoreBijection, [Next]_vars
    PROVE  CoreBijection'
<1>1. CASE DisputesSome
  <2>1. PICK voted_on, concludes, freezes :
            ProcessDisputes(voted_on, concludes, freezes)
    BY <1>1 DEF DisputesSome
  <2>2. CASE frozen'
    BY <2>1, <2>2 DEF ProcessDisputes, CoreBijection
  <2>3. CASE ~frozen'
    <3>1. PICK P \in SUBSET DOMAIN pending : Collect(P)
      BY <2>1, <2>3 DEF ProcessDisputes, collect_disputed
    <3> QED BY <3>1, CollectBijection
  <2> QED BY <2>2, <2>3
<1>2. CASE BitfieldsSome
  <2>1. PICK votes : ProcessBitfields(votes)
    BY <1>2 DEF BitfieldsSome
  <2>2. Available(votes) \subseteq DOMAIN pending
    BY DEF Available
  <2>3. /\ DOMAIN pending' = DOMAIN pending \ Available(votes)
        /\ DOMAIN cores'
              = DOMAIN cores \ {pending[p].core : p \in Available(votes)}
        /\ \A c \in DOMAIN cores' : cores'[c] = cores[c]
    BY <2>1 DEF ProcessBitfields, Drop
  <2>4. \A p \in DOMAIN pending' : pending'[p].core = pending[p].core
    <3> SUFFICES ASSUME NEW p \in DOMAIN pending'
                 PROVE  pending'[p].core = pending[p].core
      OBVIOUS
    <3>1. pending'[p]
             = [pending[p] EXCEPT !.availability_votes = VotesAfter(p, votes)]
      BY <2>1, <2>3 DEF ProcessBitfields
    <3>2. pending[p] \in CandidatePendingAvailability
      BY <2>3 DEF TypeOK
    <3> QED BY <3>1, <3>2 DEF CandidatePendingAvailability
  <2> QED BY <2>2, <2>3, <2>4 DEF CoreBijection
<1>3. CASE CollectTimedOut
  <2>1. PICK P \in SUBSET DOMAIN pending : Collect(P)
    BY <1>3 DEF CollectTimedOut, collect_pending
  <2> QED BY <2>1, CollectBijection
<1>4. CASE CandidatesSome
  <2>0. PICK C \in SUBSET (Cores \ DOMAIN cores) :
            \E backed \in [C -> BackedCandidates] : ProcessCandidates(backed)
    BY <1>4 DEF CandidatesSome
  <2>1. PICK backed \in [C -> BackedCandidates] : ProcessCandidates(backed)
    BY <2>0
  <2> DEFINE paras == {backed[c].hash.para : c \in C}
             CoreOf(p) == CHOOSE c \in DOMAIN backed : backed[c].hash.para = p
  <2>2. /\ DOMAIN pending' = DOMAIN pending \union paras
        /\ \A p \in paras : pending'[p].core = CoreOf(p)
        /\ \A p \in DOMAIN pending \ paras : pending'[p] = pending[p]
    BY <2>1 DEF ProcessCandidates
  <2>3. /\ DOMAIN cores' = DOMAIN cores \union C
        /\ \A c \in C : cores'[c] = backed[c].hash.para
        /\ \A c \in DOMAIN cores : cores'[c] = cores[c]
    BY <2>1 DEF ProcessCandidates
  <2>4. \A p \in paras : CoreOf(p) \in C /\ backed[CoreOf(p)].hash.para = p
    BY CoreChosen
  <2>5. \A c, d \in C : backed[c].hash.para = backed[d].hash.para => c = d
    BY <2>1 DEF ProcessCandidates
  <2>6. \A p \in paras : p \notin DOMAIN pending
    BY <2>1 DEF ProcessCandidates, Acceptable
  <2> HIDE DEF CoreOf
  <2>7. \A c \in C : CoreOf(backed[c].hash.para) = c
    BY <2>4, <2>5
  <2>8. ASSUME NEW c \in DOMAIN cores'
        PROVE  cores'[c] \in DOMAIN pending' /\ pending'[cores'[c]].core = c
    <3>1. CASE c \in C
      BY <3>1, <2>2, <2>3, <2>7
    <3>2. CASE c \notin C
      BY <3>2, <2>2, <2>3, <2>6 DEF CoreBijection
    <3> QED BY <3>1, <3>2
  <2>9. ASSUME NEW p \in DOMAIN pending'
        PROVE  pending'[p].core \in DOMAIN cores' /\ cores'[pending'[p].core] = p
    <3>1. CASE p \in paras
      BY <3>1, <2>2, <2>3, <2>4
    <3>2. CASE p \notin paras
      BY <3>2, <2>2, <2>3 DEF CoreBijection
    <3> QED BY <3>1, <3>2
  <2> QED BY <2>8, <2>9 DEF CoreBijection
<1>5. CASE ForceUnfreeze
  BY <1>5 DEF ForceUnfreeze, CoreBijection
<1>6. CASE EndBlock
  BY <1>6 DEF EndBlock, CoreBijection
<1>7. CASE NewSession
  BY <1>7 DEF NewSession, CoreBijection
<1>8. CASE BoundReached \/ UNCHANGED vars
  BY <1>8 DEF BoundReached, vars, CoreBijection
<1>9. CASE ForceSome
  BY <1>9 DEF ForceSome, ForceHead, CoreBijection
<1> QED
  BY <1>1, <1>2, <1>3, <1>4, <1>5, <1>6, <1>7, <1>8, <1>9 DEF Next

\* The `expect` of the runtime API never fails: an occupied core always has
\* its candidate pending availability, and the other way round.
THEOREM CoresAgree == Spec => []CoreBijection
<1>1. Init => CoreBijection
  BY DEF Init, CoreBijection
<1>2. TypeOK /\ CoreBijection /\ [Next]_vars => CoreBijection'
  BY NextBijection
<1> QED BY <1>1, <1>2, TypeCorrect, PTL DEF Spec

-----------------------------------------------------------------------------
(* Every inclusion extends its para's chain.                               *)

\* Every step keeps the candidates on the current heads: the head only moves
\* when its candidate leaves, or governance sets it.
LEMMA NextExtends ==
    ASSUME TypeOK, PendingExtendsHead, [Next]_vars
    PROVE  PendingExtendsHead'
<1>1. ASSUME NEW P, Collect(P), UNCHANGED <<heads, overridden>>
      PROVE  PendingExtendsHead'
  BY <1>1 DEF Collect, Drop, PendingExtendsHead
<1>2. CASE DisputesSome
  <2>1. PICK voted_on, concludes, freezes :
            ProcessDisputes(voted_on, concludes, freezes)
    BY <1>2 DEF DisputesSome
  <2>2. CASE frozen'
    BY <2>1, <2>2 DEF ProcessDisputes, PendingExtendsHead
  <2>3. CASE ~frozen'
    BY <2>1, <2>3, <1>1 DEF ProcessDisputes
  <2> QED BY <2>2, <2>3
<1>3. CASE BitfieldsSome
  <2>1. PICK votes : ProcessBitfields(votes)
    BY <1>3 DEF BitfieldsSome
  <2> SUFFICES ASSUME NEW p \in DOMAIN pending', p \notin overridden
               PROVE  pending'[p].parent_head = heads'[p]
    BY <2>1 DEF PendingExtendsHead, ProcessBitfields
  <2>2. /\ p \in DOMAIN pending \ Available(votes)
        /\ pending'[p]
              = [pending[p] EXCEPT !.availability_votes = VotesAfter(p, votes)]
    BY <2>1 DEF ProcessBitfields
  <2>3. pending'[p].parent_head = pending[p].parent_head
    <3>1. pending[p] \in CandidatePendingAvailability
      BY <2>2 DEF TypeOK
    <3> QED BY <2>2, <3>1 DEF CandidatePendingAvailability
  <2>4. heads'[p] = heads[p]
    BY <2>1, <2>2 DEF ProcessBitfields, TypeOK
  <2> QED BY <2>2, <2>3, <2>4 DEF PendingExtendsHead
<1>4. CASE CollectTimedOut
  BY <1>4, <1>1 DEF CollectTimedOut
<1>5. CASE CandidatesSome
  <2>1. PICK backed : ProcessCandidates(backed)
    BY <1>5 DEF CandidatesSome
  <2> QED BY <2>1 DEF ProcessCandidates, PendingExtendsHead
<1>6. CASE ForceUnfreeze \/ EndBlock
  BY <1>6 DEF ForceUnfreeze, EndBlock, PendingExtendsHead
<1>7. CASE NewSession
  BY <1>7 DEF NewSession, PendingExtendsHead
<1>8. CASE BoundReached \/ UNCHANGED vars
  BY <1>8 DEF BoundReached, vars, PendingExtendsHead
<1>9. CASE ForceSome
  <2>1. PICK q \in ParaIds, h \in ForcedHeads : ForceHead(q, h)
    BY <1>9 DEF ForceSome
  <2>2. /\ pending' = pending /\ overridden' = overridden \union {q}
        /\ \A p \in ParaIds : p # q => heads'[p] = heads[p]
    BY <2>1 DEF ForceHead, TypeOK
  <2> QED BY <2>2 DEF PendingExtendsHead, TypeOK
<1> QED
  BY <1>2, <1>3, <1>4, <1>5, <1>6, <1>7, <1>8, <1>9 DEF Next

\* A candidate pending availability builds on the current head of its para,
\* unless governance has set another head since it was backed.
THEOREM HeadsExtended == Spec => []PendingExtendsHead
<1>1. Init => PendingExtendsHead
  BY DEF Init, PendingExtendsHead
<1>2. TypeOK /\ PendingExtendsHead /\ [Next]_vars => PendingExtendsHead'
  BY NextExtends
<1> QED BY <1>1, <1>2, TypeCorrect, PTL DEF Spec

\* Every step keeps the ages of candidates in step with the block.
LEMMA NextBacked ==
    ASSUME TypeOK, BackedEarlier, [Next]_vars
    PROVE  BackedEarlier'
<1>1. ASSUME NEW P, Collect(P), UNCHANGED now, phase # "calls"
      PROVE  BackedEarlier'
  BY <1>1 DEF Collect, Drop, BackedEarlier
<1>2. CASE DisputesSome
  <2>1. PICK voted_on, concludes, freezes :
            ProcessDisputes(voted_on, concludes, freezes)
    BY <1>2 DEF DisputesSome
  <2>2. CASE frozen'
    BY <2>1, <2>2 DEF ProcessDisputes, BackedEarlier
  <2>3. CASE ~frozen'
    BY <2>1, <2>3, <1>1 DEF ProcessDisputes
  <2> QED BY <2>2, <2>3
<1>3. CASE BitfieldsSome
  <2>1. PICK votes : ProcessBitfields(votes)
    BY <1>3 DEF BitfieldsSome
  <2>2. \A p \in DOMAIN pending' :
           /\ p \in DOMAIN pending
           /\ pending'[p].backed_in_number = pending[p].backed_in_number
    <3> SUFFICES ASSUME NEW p \in DOMAIN pending'
                 PROVE  /\ p \in DOMAIN pending
                        /\ pending'[p].backed_in_number
                              = pending[p].backed_in_number
      OBVIOUS
    <3>1. /\ p \in DOMAIN pending
          /\ pending'[p]
                = [pending[p] EXCEPT !.availability_votes = VotesAfter(p, votes)]
      BY <2>1 DEF ProcessBitfields
    <3>2. pending[p] \in CandidatePendingAvailability
      BY <3>1 DEF TypeOK
    <3> QED BY <3>1, <3>2 DEF CandidatePendingAvailability
  <2>3. now' = now /\ phase # "calls"
    BY <2>1 DEF ProcessBitfields
  <2> QED BY <2>2, <2>3 DEF BackedEarlier
<1>4. CASE CollectTimedOut
  BY <1>4, <1>1 DEF CollectTimedOut
<1>5. CASE CandidatesSome
  <2>1. PICK backed : ProcessCandidates(backed)
    BY <1>5 DEF CandidatesSome
  <2>2. /\ now' = now /\ phase' = "calls"
        /\ \A p \in DOMAIN pending' :
              \/ pending'[p].backed_in_number = now
              \/ p \in DOMAIN pending /\ pending'[p] = pending[p]
    BY <2>1 DEF ProcessCandidates
  <2> QED BY <2>2 DEF BackedEarlier, TypeOK
<1>6. CASE ForceUnfreeze \/ ForceSome
  BY <1>6 DEF ForceUnfreeze, ForceSome, ForceHead, BackedEarlier
<1>7. CASE EndBlock
  <2>1. \A p \in DOMAIN pending : pending[p].backed_in_number \in Nat
    BY DEF TypeOK, CandidatePendingAvailability
  <2> QED BY <1>7, <2>1 DEF EndBlock, BackedEarlier, TypeOK
<1>8. CASE NewSession
  BY <1>8 DEF NewSession, BackedEarlier
<1>9. CASE BoundReached \/ UNCHANGED vars
  BY <1>9 DEF BoundReached, vars, BackedEarlier
<1> QED
  BY <1>2, <1>3, <1>4, <1>5, <1>6, <1>7, <1>8, <1>9 DEF Next

\* The inherent of a frozen chain ends before the bitfields.
LEMMA NextProceeds ==
    ASSUME [Next]_vars, ProceedsUnfrozen
    PROVE  ProceedsUnfrozen'
  BY Zenon DEF Next, ProceedsUnfrozen, vars, DisputesSome, ProcessDisputes,
         BitfieldsSome, ProcessBitfields, CollectTimedOut, CandidatesSome,
         ProcessCandidates, ForceUnfreeze, ForceSome, ForceHead, EndBlock, NewSession,
         BoundReached

\* A para's head only moves by the inclusion of the one candidate pending for
\* it, backed in an earlier block, on a chain that is not frozen, and by one
\* block at a time, or in a call of governance.
THEOREM HeadsAdvanceByInclusion == Spec => HeadsAdvance
<1> DEFINE Inv == /\ TypeOK /\ PendingExtendsHead
                  /\ BackedEarlier /\ ProceedsUnfrozen
           Moves(p) ==
               \/ phase = "calls" /\ p \in overridden' /\ heads'[p] \in ForcedHeads
               \/ /\ p \in DOMAIN pending /\ p \notin DOMAIN pending'
                  /\ heads'[p] = (IF p \in overridden THEN pending[p].parent_head
                                  ELSE heads[p]) + 1
                  /\ ~frozen
                  /\ pending[p].backed_in_number < now
<1>1. Init => BackedEarlier /\ ProceedsUnfrozen
  BY DEF Init, BackedEarlier, ProceedsUnfrozen
<1>2. TypeOK /\ BackedEarlier /\ [Next]_vars => BackedEarlier'
  BY NextBacked
<1>3. ProceedsUnfrozen /\ [Next]_vars => ProceedsUnfrozen'
  BY NextProceeds
<1>4. ASSUME TypeOK, PendingExtendsHead, BackedEarlier, ProceedsUnfrozen,
             [Next]_vars, NEW p \in ParaIds, heads'[p] # heads[p]
      PROVE  Moves(p)
  <2>1. BitfieldsSome \/ ForceSome
    BY <1>4 DEF Next, vars, DisputesSome, ProcessDisputes, CollectTimedOut,
       CandidatesSome, ProcessCandidates, ForceUnfreeze, EndBlock, NewSession,
       BoundReached
  <2>2. CASE BitfieldsSome
    <3>1. PICK votes : ProcessBitfields(votes)
      BY <2>2 DEF BitfieldsSome
    <3>2. /\ p \in Available(votes)
          /\ heads'[p] = pending[p].parent_head + 1
      BY <1>4, <3>1 DEF ProcessBitfields, TypeOK
    <3>3. p \in DOMAIN pending /\ p \notin DOMAIN pending'
      BY <3>1, <3>2 DEF ProcessBitfields, Available
    <3>4. phase = "bitfields"
      BY <3>1 DEF ProcessBitfields
    <3>5. p \notin overridden => pending[p].parent_head = heads[p]
      BY <1>4, <3>3 DEF PendingExtendsHead
    <3>6. ~frozen /\ pending[p].backed_in_number < now
      BY <1>4, <3>3, <3>4 DEF BackedEarlier, ProceedsUnfrozen
    <3> QED BY <3>2, <3>3, <3>5, <3>6
  <2>3. CASE ForceSome
    <3>1. PICK q \in ParaIds, h \in ForcedHeads : ForceHead(q, h)
      BY <2>3 DEF ForceSome
    <3>2. p = q /\ heads'[p] = h
      BY <1>4, <3>1 DEF ForceHead, TypeOK
    <3>3. phase = "calls" /\ p \in overridden'
      BY <3>1, <3>2 DEF ForceHead
    <3> QED BY <3>2, <3>3
  <2> QED BY <2>1, <2>2, <2>3
<1>5. Inv /\ [Next]_vars => [\A p \in ParaIds : heads'[p] # heads[p] => Moves(p)]_vars
  BY <1>4
<1> QED
  BY <1>1, <1>2, <1>3, <1>5, TypeCorrect, HeadsExtended, PTL
     DEF Spec, HeadsAdvance
-----------------------------------------------------------------------------
(* Remainders, and the windows between two group rotations.                *)

\* Quotient and remainder are those of the division.
LEMMA DivisionExact ==
    ASSUME NEW a \in Nat, NEW f \in Nat \ {0}
    PROVE  /\ a % f \in 0 .. f - 1
           /\ a \div f \in Nat
           /\ a = f * (a \div f) + (a % f)
  BY Z3

\* A number has one quotient and one remainder.
LEMMA DivisionUnique ==
    ASSUME NEW f \in Nat \ {0}, NEW q \in Int, NEW u \in Int,
           NEW r \in 0 .. f - 1, NEW t \in 0 .. f - 1,
           f * q + r = f * u + t
    PROVE  r = t
<1>1. f * (q - u) = t - r
  BY Z3
<1>2. q - u \in Int /\ t - r \in Int /\ t - r < f /\ t - r > 0 - f
  BY Z3
<1>3. CASE q - u >= 1
  <2>1. f * (q - u) >= f
    BY <1>3, Z3
  <2> QED BY <2>1, <1>1, <1>2
<1>4. CASE q - u <= -1
  <2>1. f * (q - u) <= 0 - f
    BY <1>4, Z3
  <2> QED BY <2>1, <1>1, <1>2
<1>5. CASE q = u
  BY <1>1, <1>5, Z3
<1> QED BY <1>2, <1>3, <1>4, <1>5, Z3

\* The remainders of the f numbers from a multiple of f on.
LEMMA RemainderInWindow ==
    ASSUME NEW f \in Nat \ {0}, NEW a \in Nat, NEW b \in Nat,
           NEW i \in {0, 1}, NEW k \in 0 .. f - 1,
           b = (a - (a % f)) + f * i + k
    PROVE  b % f = k
<1> DEFINE q == (a \div f) + i
           u == b \div f
           t == b % f
<1>1. a \div f \in Nat /\ a = f * (a \div f) + (a % f) /\ a % f \in 0 .. f - 1
  BY DivisionExact
<1>2. u \in Nat /\ b = f * u + t /\ t \in 0 .. f - 1
  BY DivisionExact
<1>3. q \in Int
  BY <1>1
<1>4. b = f * q + k
  <2>1. CASE i = 0
    <3>1. f * i = 0 /\ q = a \div f
      BY <2>1, <1>1, Z3
    <3> QED BY <3>1, <1>1, Z3
  <2>2. CASE i = 1
    <3>1. f * i = f /\ q = (a \div f) + 1
      BY <2>2, <1>1, Z3
    <3>2. f * ((a \div f) + 1) = f * (a \div f) + f
      BY <1>1, Z3
    <3> QED BY <3>1, <3>2, <1>1, Z3
  <2> QED BY <2>1, <2>2
<1> HIDE DEF q, u, t
<1>5. f * q + k = f * u + t /\ u \in Int /\ t \in 0 .. f - 1
  BY <1>2, <1>4
<1>6. k = t
  BY <1>3, <1>5, DivisionUnique
<1> QED BY <1>6 DEF t

\* The window that block n lies in, and the next one.
LEMMA RotationWindows ==
    ASSUME TypeOK, NEW n \in Nat, n >= session_start
    PROVE  LET L == last_rotation_at(n)
           IN  /\ L \in Nat
               /\ session_start <= L /\ L <= n /\ n < L + Frequency
               /\ next_rotation_at(n) = L + Frequency
               /\ \A m \in L .. L + Frequency - 1 :
                     blocks_since_last_rotation(m) = m - L
               /\ \A m \in L + Frequency .. L + 2 * Frequency - 1 :
                     blocks_since_last_rotation(m) = m - L - Frequency
<1> DEFINE a == n - session_start
           r == a % Frequency
           L == last_rotation_at(n)
<1>1. session_start \in Nat /\ Frequency \in Nat \ {0}
  BY InclusionAssumption DEF TypeOK
<1>2. a \in Nat
  BY <1>1
<1>3. r \in 0 .. Frequency - 1 /\ r <= a
  <2>1. r \in 0 .. Frequency - 1
    BY <1>1, <1>2, DivisionExact
  <2>2. a \div Frequency \in Nat /\ a = Frequency * (a \div Frequency) + r
    BY <1>1, <1>2, DivisionExact
  <2>3. Frequency * (a \div Frequency) \in Nat
    BY <1>1, <2>2, Z3
  <2> HIDE DEF a, r
  <2> QED BY <2>1, <2>2, <2>3, <1>2
<1>4. L = n - r
  BY DEF last_rotation_at, blocks_since_last_rotation
<1> HIDE DEF r, L
<1>5. /\ L \in Nat
      /\ session_start <= L /\ L <= n /\ n < L + Frequency
  BY <1>1, <1>2, <1>3, <1>4
<1>6. ASSUME NEW m \in L .. L + Frequency - 1
      PROVE  blocks_since_last_rotation(m) = m - L
  <2>1. m - session_start \in Nat /\ m - L \in 0 .. Frequency - 1
    BY <1>1, <1>5
  <2>2. m - session_start = (a - r) + Frequency * 0 + (m - L)
    BY <1>1, <1>2, <1>3, <1>4, <1>5
  <2>3. (m - session_start) % Frequency = m - L
    BY <1>1, <1>2, <2>1, <2>2, RemainderInWindow DEF r
  <2> QED BY <2>3 DEF blocks_since_last_rotation
<1>7. ASSUME NEW m \in L + Frequency .. L + 2 * Frequency - 1
      PROVE  blocks_since_last_rotation(m) = m - L - Frequency
  <2>1. m - session_start \in Nat /\ m - L - Frequency \in 0 .. Frequency - 1
    BY <1>1, <1>5
  <2>2. m - session_start = (a - r) + Frequency * 1 + (m - L - Frequency)
    BY <1>1, <1>2, <1>3, <1>4, <1>5
  <2>3. (m - session_start) % Frequency = m - L - Frequency
    BY <1>1, <1>2, <2>1, <2>2, RemainderInWindow DEF r
  <2> QED BY <2>3 DEF blocks_since_last_rotation
<1>8. next_rotation_at(n) = L + Frequency
  <2> DEFINE m == n + Frequency
  <2>1. m \in L + Frequency .. L + 2 * Frequency - 1
    BY <1>1, <1>5
  <2> HIDE DEF m
  <2>2. blocks_since_last_rotation(m) = m - L - Frequency
    BY <2>1, <1>7
  <2>3. (n + Frequency - session_start) % Frequency = n - L
    BY <2>2, <1>1, <1>5 DEF blocks_since_last_rotation, m
  <2> QED BY <2>3, <1>1, <1>5 DEF next_rotation_at
<1> QED BY <1>5, <1>6, <1>7, <1>8 DEF L
-----------------------------------------------------------------------------
(* The announced timeout is kept.                                          *)

\* No candidate, of those backed since an inherent last stopped on a freeze,
\* has outlived the timeout predicate: it was given up in the first block
\* from its backing on in which the predicate held.
NotOverdue ==
    /\ session_start <= now
    /\ \A p \in DOMAIN pending :
          /\ pending[p].backed_in_number >= session_start
          /\ pending[p].backed_in_number > stopped =>
                \A n \in pending[p].backed_in_number .. now :
                    \/ n = now /\ phase \notin {"backing", "calls"}
                    \/ ~availability_timeout_predicate(n, pending[p].core,
                                           pending[p].backed_in_number)

\* For a candidate that is not overdue, time_out_at and the predicate agree.
LEMMA TimeoutAgrees ==
    ASSUME TypeOK, NEW core, NEW b \in session_start .. now,
           \A n \in b .. now : ~availability_timeout_predicate(n, core, b)
    PROVE  LET t == time_out_at(now + 1, core, b)
               u == IF t > now THEN t ELSE now + 1
           IN  /\ u > now
               /\ availability_timeout_predicate(u, core, b)
               /\ \A n \in now + 1 .. u - 1 :
                     ~availability_timeout_predicate(n, core, b)
<1> DEFINE P == AvailabilityPeriod(core)
           F == Frequency
           L == last_rotation_at(now + 1)
           t == time_out_at(now + 1, core, b)
           u == IF t > now THEN t ELSE now + 1
           Since(n) == blocks_since_last_rotation(n)
           Expires(n) == availability_timeout_predicate(n, core, b)
<1>1. /\ P \in Nat \ {0} /\ F \in Nat \ {0}
      /\ now \in Nat /\ session_start \in Nat /\ b \in Nat
      /\ session_start <= b /\ b <= now
  BY InclusionAssumption DEF AvailabilityPeriod, TypeOK
<1>2. now + 1 \in Nat /\ now + 1 >= session_start
  BY <1>1
<1>3. /\ L \in Nat /\ session_start <= L /\ L <= now + 1 /\ now + 1 < L + F
      /\ next_rotation_at(now + 1) = L + F
      /\ \A n \in L .. L + F - 1 : Since(n) = n - L
      /\ \A n \in L + F .. L + 2 * F - 1 : Since(n) = n - L - F
  BY <1>2, RotationWindows
<1>4. t = IF b + P >= L + P /\ b + P <= L + F THEN L + F ELSE b + P
  BY <1>3 DEF time_out_at
<1>5. \A n : Expires(n) <=> Since(n) < P /\ n - b >= P
  BY DEF availability_timeout_predicate
<1>6. \A n \in b .. now : ~Expires(n)
  OBVIOUS
\* A period that covers the whole window leaves the second guard alone.
<1>7. ASSUME P >= F, NEW n \in Nat, n >= session_start
      PROVE  Since(n) < P
  <2>1. n - session_start \in Nat
    BY <1>1, <1>7
  <2>2. Since(n) \in 0 .. F - 1
    BY <1>1, <2>1, DivisionExact DEF blocks_since_last_rotation
  <2> HIDE DEF Since
  <2> QED BY <1>1, <1>7, <2>2
<1>8. u > now
  <2>1. t \in Nat
    BY <1>1, <1>3, <1>4
  <2> HIDE DEF t
  <2> QED BY <1>1, <2>1
<1> HIDE DEF P, F, L, t, Since, Expires
<1>9. Expires(u) /\ \A n \in now + 1 .. u - 1 : ~Expires(n)
  \* The announcement falls between the two pruning windows.
  <2>1. CASE b + P >= L + P /\ b + P <= L + F
    <3>1. t = L + F /\ u = L + F
      BY <2>1, <1>1, <1>3, <1>4
    <3>2. Since(L + F) = 0
      <4> DEFINE n == L + F
      <4>1. n \in L + F .. L + 2 * F - 1 /\ n - L - F = 0
        BY <1>1, <1>3
      <4> HIDE DEF n
      <4>2. Since(n) = 0
        BY <4>1, <1>3
      <4> QED BY <4>2 DEF n
    <3>3. Expires(u)
      BY <3>1, <3>2, <2>1, <1>1, <1>3, <1>5
    <3>4. ASSUME NEW n \in now + 1 .. u - 1, Expires(n)
          PROVE  FALSE
      <4>1. n \in L .. L + F - 1
        BY <1>1, <1>3, <3>1
      <4>2. Since(n) = n - L
        BY <4>1, <1>3
      <4>3. n - L < P /\ n - b >= P
        BY <3>4, <4>2, <1>5
      <4> QED BY <4>1, <4>3, <2>1, <1>1, <1>3
    <3> QED BY <3>3, <3>4
  \* It falls in the pruning window after the next rotation.
  <2>2. CASE b + P > L + F
    <3>1. t = b + P /\ u = b + P /\ b + P \in Nat
      BY <2>2, <1>1, <1>3, <1>4
    <3>2. Since(b + P) < P
      <4> DEFINE n == b + P
      <4>1. CASE P >= F
        BY <4>1, <1>1, <1>7
      <4>2. CASE P < F
        <5>1. n \in L + F .. L + 2 * F - 1 /\ n - L - F < P
          BY <4>2, <2>2, <1>1, <1>3
        <5> HIDE DEF n
        <5>2. Since(n) = n - L - F
          BY <5>1, <1>3
        <5>3. Since(n) < P
          BY <5>1, <5>2
        <5> QED BY <5>3 DEF n
      <4> QED BY <4>1, <4>2, <1>1
    <3>3. Expires(u)
      BY <3>1, <3>2, <1>1, <1>5
    <3>4. \A n \in now + 1 .. u - 1 : ~Expires(n)
      BY <3>1, <1>1, <1>5
    <3> QED BY <3>3, <3>4
  \* It falls in the current pruning window or has passed.
  <2>3. CASE b + P < L + P /\ b + P <= L + F
    <3>1. t = b + P /\ b + P \in Nat
      BY <2>3, <1>1, <1>3, <1>4
    <3>2. ASSUME NEW n \in L .. L + F - 1, n < L + P
          PROVE  Since(n) < P
      BY <3>2, <1>1, <1>3
    <3>3. CASE b + P > now
      <4>1. u = b + P
        BY <3>1, <3>3, <1>1
      <4>2. Since(b + P) < P
        <5> DEFINE n == b + P
        <5>1. n \in Nat /\ n >= session_start /\ n >= L /\ n < L + P
          BY <3>1, <3>3, <2>3, <1>1, <1>3
        <5> HIDE DEF n
        <5>2. ASSUME P >= F PROVE Since(n) < P
          BY <5>1, <5>2, <1>7
        <5>3. ASSUME P < F PROVE Since(n) < P
          <6>1. n \in L .. L + F - 1
            BY <5>1, <5>3, <1>1, <1>3
          <6> QED BY <6>1, <5>1, <3>2
        <5>4. Since(n) < P
          BY <5>2, <5>3, <1>1
        <5> QED BY <5>4 DEF n
      <4>3. Expires(u)
        BY <4>1, <4>2, <1>1, <1>5
      <4>4. \A n \in now + 1 .. u - 1 : ~Expires(n)
        BY <4>1, <1>1, <1>5
      <4> QED BY <4>3, <4>4
    <3>4. CASE b + P <= now
      <4>1. u = now + 1 /\ \A n \in now + 1 .. u - 1 : FALSE
        BY <3>1, <3>4, <1>1
      <4>2. Since(now + 1) < P
        <5> DEFINE n == now + 1
        <5>1. CASE P >= F
          BY <5>1, <1>2, <1>7
        <5>2. CASE P < F /\ L = n
          <6>1. n \in L .. L + F - 1 /\ n < L + P
            BY <5>2, <1>1, <1>3
          <6> HIDE DEF n
          <6>2. Since(n) < P
            BY <6>1, <3>2
          <6> QED BY <6>2 DEF n
        \* Otherwise it had expired before, at max(L, b + P).
        <5>3. CASE P < F /\ L <= now
          <6> DEFINE k == IF L > b + P THEN L ELSE b + P
          <6>1. /\ k \in L .. L + F - 1 /\ k < L + P /\ k \in b .. now
                /\ k - b >= P
            BY <5>3, <3>4, <2>3, <1>1, <1>3
          <6> HIDE DEF k
          <6>2. Since(k) < P
            BY <6>1, <3>2
          <6>3. Expires(k)
            BY <6>1, <6>2, <1>5
          <6> QED BY <6>1, <6>3, <1>6
        <5> QED BY <5>1, <5>2, <5>3, <1>1, <1>3
      <4>3. now + 1 - b >= P
        BY <3>4, <1>1
      <4>4. Expires(u)
        <5> DEFINE n == now + 1
        <5>1. Since(n) < P /\ n - b >= P
          BY <4>2, <4>3, <1>1
        <5> HIDE DEF n
        <5>2. Expires(n)
          BY <5>1, <1>5
        <5> QED BY <4>1, <5>2 DEF n
      <4> QED BY <4>1, <4>4
    <3> QED BY <3>1, <3>3, <3>4, <1>1
  <2> QED BY <2>1, <2>2, <2>3, <1>1, <1>3
<1> QED BY <1>8, <1>9 DEF t, Expires

\* Every step keeps the candidates from being overdue: a block's inherent
\* gives up those that expire in it, or stops on a freeze.
LEMMA NextNotOverdue ==
    ASSUME TypeOK, BackedEarlier, NotOverdue, [Next]_vars
    PROVE  NotOverdue'
<1> DEFINE Kept == /\ UNCHANGED <<now, session_start, stopped>>
                   /\ \A p \in DOMAIN pending' :
                         /\ p \in DOMAIN pending
                         /\ pending'[p].core = pending[p].core
                         /\ pending'[p].backed_in_number
                               = pending[p].backed_in_number
           Expires(n, p) == availability_timeout_predicate(n, pending[p].core,
                                pending[p].backed_in_number)
<1>1. ASSUME Kept,
             phase \in {"backing", "calls"} \/ phase' \notin {"backing", "calls"}
      PROVE  NotOverdue'
  BY <1>1 DEF NotOverdue, availability_timeout_predicate,
     blocks_since_last_rotation
<1>2. CASE DisputesSome
  <2>1. PICK voted_on, concludes, freezes :
            ProcessDisputes(voted_on, concludes, freezes)
    BY <1>2 DEF DisputesSome
  <2>2. CASE frozen'
    <3>1. /\ UNCHANGED <<now, session_start, pending>>
          /\ stopped' = now /\ phase # "calls"
      BY <2>1, <2>2 DEF ProcessDisputes
    <3>2. \A p \in DOMAIN pending : pending[p].backed_in_number < now
      BY <3>1 DEF BackedEarlier
    <3>3. \A p \in DOMAIN pending : pending[p].backed_in_number \in Nat
      BY DEF TypeOK, CandidatePendingAvailability
    <3>4. \A p \in DOMAIN pending' : ~(pending'[p].backed_in_number > stopped')
      BY <3>1, <3>2, <3>3 DEF TypeOK
    <3> QED BY <3>1, <3>4 DEF NotOverdue
  <2>3. CASE ~frozen'
    <3>1. Kept /\ phase' = "bitfields"
      BY <2>1, <2>3 DEF ProcessDisputes, Collect, Drop
    <3> QED BY <3>1, <1>1
  <2> QED BY <2>2, <2>3
<1>3. CASE BitfieldsSome
  <2>1. PICK votes : ProcessBitfields(votes)
    BY <1>3 DEF BitfieldsSome
  <2>2. ASSUME NEW p \in DOMAIN pending'
        PROVE  /\ p \in DOMAIN pending
               /\ pending'[p].core = pending[p].core
               /\ pending'[p].backed_in_number = pending[p].backed_in_number
    <3>1. /\ p \in DOMAIN pending
          /\ pending'[p]
                = [pending[p] EXCEPT !.availability_votes = VotesAfter(p, votes)]
      BY <2>1 DEF ProcessBitfields
    <3>2. pending[p] \in CandidatePendingAvailability
      BY <3>1 DEF TypeOK
    <3> QED BY <3>1, <3>2 DEF CandidatePendingAvailability
  <2>3. Kept /\ phase' = "timeouts"
    BY <2>1, <2>2 DEF ProcessBitfields
  <2> QED BY <2>3, <1>1
<1>4. CASE CollectTimedOut
  <2>1. /\ UNCHANGED <<now, session_start, stopped>>
        /\ phase = "timeouts" /\ phase' = "backing"
        /\ \A p \in DOMAIN pending' :
              /\ p \in DOMAIN pending
              /\ pending'[p] = pending[p]
              /\ ~Expires(now, p)
    BY <1>4 DEF CollectTimedOut, Collect, Drop, collect_pending
  <2> QED BY <2>1 DEF NotOverdue, availability_timeout_predicate,
             blocks_since_last_rotation
<1>5. CASE CandidatesSome
  <2>1. PICK backed : ProcessCandidates(backed)
    BY <1>5 DEF CandidatesSome
  <2>2. /\ UNCHANGED <<now, session_start, stopped>>
        /\ phase = "backing" /\ phase' = "calls"
        /\ \A p \in DOMAIN pending' :
              \/ pending'[p].backed_in_number = now
              \/ p \in DOMAIN pending /\ pending'[p] = pending[p]
    BY <2>1 DEF ProcessCandidates
  \* A candidate does not expire in the block that backs it.
  <2>3. \A core : ~availability_timeout_predicate(now, core, now)
    BY InclusionAssumption
       DEF availability_timeout_predicate, AvailabilityPeriod, TypeOK
  <2>4. ASSUME NEW p \in DOMAIN pending', pending'[p].backed_in_number = now
        PROVE  /\ pending'[p].backed_in_number >= session_start
               /\ \A n \in pending'[p].backed_in_number .. now :
                     ~availability_timeout_predicate(n, pending'[p].core,
                          pending'[p].backed_in_number)
    <3>1. \A n \in now .. now : n = now
      BY DEF TypeOK
    <3> QED BY <2>3, <2>4, <3>1 DEF NotOverdue
  <2> QED BY <2>2, <2>4 DEF NotOverdue, availability_timeout_predicate,
             blocks_since_last_rotation
<1>6. CASE ForceUnfreeze \/ ForceSome
  BY <1>6, <1>1 DEF ForceUnfreeze, ForceSome, ForceHead
<1>7. CASE EndBlock
  <2>1. /\ UNCHANGED <<session_start, pending, stopped>>
        /\ now' = now + 1 /\ phase = "calls" /\ phase' = "disputes"
    BY <1>7 DEF EndBlock
  <2>2. session_start \in Nat /\ now \in Nat
    BY DEF TypeOK
  <2>3. ASSUME NEW p \in DOMAIN pending, NEW n \in pending[p].backed_in_number .. now + 1
        PROVE  n = now + 1 \/ n \in pending[p].backed_in_number .. now
    <3>1. pending[p].backed_in_number \in Nat
      BY DEF TypeOK, CandidatePendingAvailability
    <3> QED BY <3>1, <2>2, <2>3
  <2> QED BY <2>1, <2>2, <2>3 DEF NotOverdue, availability_timeout_predicate,
             blocks_since_last_rotation
<1>8. CASE NewSession
  BY <1>8 DEF NewSession, NotOverdue, TypeOK
<1>9. CASE BoundReached \/ UNCHANGED vars
  BY <1>9, <1>1 DEF BoundReached, vars
<1> QED
  BY <1>2, <1>3, <1>4, <1>5, <1>6, <1>7, <1>8, <1>9 DEF Next

\* The runtime API keeps its word, for every rotation frequency and every
\* availability period, shorter than the rotation or not: a candidate that
\* stays pending is given up in the very block `time_out_at` named, or in the
\* next block if that has passed, unless a freeze stopped an inherent since
\* the candidate was backed.
THEOREM TimeOutsKept == Spec => []TimeOutKept
<1>1. Init => BackedEarlier /\ NotOverdue
  BY DEF Init, BackedEarlier, NotOverdue
<1>2. TypeOK /\ BackedEarlier /\ [Next]_vars => BackedEarlier'
  BY NextBacked
<1>3. TypeOK /\ BackedEarlier /\ NotOverdue /\ [Next]_vars => NotOverdue'
  BY NextNotOverdue
<1>4. ASSUME TypeOK, BackedEarlier, NotOverdue
      PROVE  TimeOutKept
  <2> SUFFICES ASSUME phase = "calls", NEW p \in DOMAIN pending,
                      pending[p].backed_in_number > stopped
               PROVE  TimesOutFirstAt(p, IF TimeOutAnnounced(p) > now
                                         THEN TimeOutAnnounced(p) ELSE now + 1)
    BY DEF TimeOutKept
  <2> DEFINE b == pending[p].backed_in_number
             core == pending[p].core
  <2>1. b \in Nat
    BY <1>4 DEF TypeOK, CandidatePendingAvailability
  <2>2. b \in session_start .. now
    BY <1>4, <2>1 DEF TypeOK, BackedEarlier, NotOverdue
  <2>3. \A n \in b .. now : ~availability_timeout_predicate(n, core, b)
    BY <1>4 DEF NotOverdue
  <2> HIDE DEF b, core
  <2>4. LET t == time_out_at(now + 1, core, b)
            u == IF t > now THEN t ELSE now + 1
        IN  /\ u > now
            /\ availability_timeout_predicate(u, core, b)
            /\ \A n \in now + 1 .. u - 1 :
                  ~availability_timeout_predicate(n, core, b)
    BY <1>4, <2>2, <2>3, TimeoutAgrees
  <2> QED BY <2>4 DEF TimesOutFirstAt, TimeOutAnnounced, b, core
<1> QED BY <1>1, <1>2, <1>3, <1>4, TypeCorrect, PTL DEF Spec
=============================================================================
