------------------------------ MODULE Disputes ------------------------------
(***************************************************************************)
(* The disputes pallet (runtime/parachains/src/disputes.rs): votes on      *)
(* candidates arrive as statement sets in the block inherent, disputes     *)
(* conclude by supermajority or by timeout, and a candidate that is both   *)
(* included and concluded invalid freezes the chain.                       *)
(*                                                                         *)
(* A dispute is keyed by its session and candidate: an element of Keys.    *)
(* Votes with a bad signature are filtered out first; the votes of a set   *)
(* are those that are left then.                                           *)
(***************************************************************************)
EXTENDS Integers, FiniteSets

CONSTANTS
    Validators,      \* the validators of every session
    Keys,            \* (session, candidate) pairs
    SessionOf,       \* the session of a key
    DisputePeriod,   \* config.dispute_period, in sessions
    ConclusionTimeout,  \* config.dispute_conclusion_by_time_out_period
    AcceptancePeriod,   \* config.dispute_post_conclusion_acceptance_period
    MaxSpamSlots,    \* config.dispute_max_spam_slots
    MaxBlock,        \* bound: the last block that is built
    MaxSets,         \* bound: statement sets in one block
    MaxVotes         \* bound: votes on one side of one statement set

ASSUME ConstantsAssumption ==
    /\ IsFiniteSet(Validators) /\ Validators # {}
    /\ IsFiniteSet(Keys)
    /\ SessionOf \in [Keys -> Nat]
    /\ DisputePeriod \in Nat
    /\ ConclusionTimeout \in Nat
    /\ AcceptancePeriod \in Nat
    /\ MaxSpamSlots \in Nat

VARIABLES
    now, session,
    phase,        \* where the block is: its on_initialize, the disputes of
                  \* the inherent, its inclusions, the extrinsics after it
    imported,     \* the keys whose statement set this block has imported
    disputes,     \* Disputes: NoDispute where the map has no entry
    included,     \* Included: the block to revert to; None if no entry
    spam_slots,   \* SpamSlots; no entry is all zeroes
    frozen,       \* Frozen
    last_pruned,  \* LastPrunedSession
    forgiven      \* history: conclusions that governance has unfrozen

vars == <<now, session, phase, imported, disputes, included, spam_slots,
          frozen, last_pruned, forgiven>>

None == -1

NoDispute == [validators_for |-> {}, validators_against |-> {},
              start |-> 0, concluded_at |-> None]

Block    == Nat
OptBlock == Nat \union {None}

DisputeState == [validators_for : SUBSET Validators,
                 validators_against : SUBSET Validators,
                 start : Block, concluded_at : OptBlock]

-----------------------------------------------------------------------------
(* Thresholds and the flags of a dispute.                                  *)

byzantine_threshold(n) == IF n = 0 THEN 0 ELSE (n - 1) \div 3

\* Faulty variant: one vote short.
supermajority_threshold_short(n) == n - byzantine_threshold(n) - 1

supermajority_threshold(n) == n - byzantine_threshold(n)

IsSupermajority(S) ==
    Cardinality(S) >= supermajority_threshold(Cardinality(Validators))

has_supermajority_against(d) == IsSupermajority(d.validators_against)

Participants(d) == d.validators_for \union d.validators_against

IsConfirmed(d) ==
    Cardinality(Participants(d)) > byzantine_threshold(Cardinality(Validators))

TwoSided(d) == d.validators_for # {} /\ d.validators_against # {}

Known(k)   == disputes[k] # NoDispute
IsLocal(k) == included[k] # None

\* Faulty variant: not saturating.
Minus(a, b) == a - b

Monus(a, b) == IF a >= b THEN a - b ELSE 0

-----------------------------------------------------------------------------
(* DisputeStateImporter: `import` of every vote, then `finish`.            *)

\* Faulty variant: a concluded dispute is opened anew.
OpenedAgain(k) ==
    IF Known(k) /\ disputes[k].concluded_at = None
    THEN disputes[k]
    ELSE [NoDispute EXCEPT !.start = now]

\* The state the importer starts from.
Opened(k) == IF Known(k) THEN disputes[k] ELSE [NoDispute EXCEPT !.start = now]

Fresh(before, after) == IsSupermajority(after) /\ ~IsSupermajority(before)

\* Faulty variant: only a supermajority against concludes.
ImportedOneWay(d, F, A) ==
    LET against == d.validators_against \union A
    IN  [d EXCEPT !.validators_for = @ \union F,
                  !.validators_against = against,
                  !.concluded_at = IF /\ Fresh(d.validators_against, against)
                                      /\ d.concluded_at = None
                                   THEN now ELSE @]

Imported(d, F, A) ==
    LET for     == d.validators_for \union F
        against == d.validators_against \union A
        concludes == \/ Fresh(d.validators_for, for)
                     \/ Fresh(d.validators_against, against)
    IN  [d EXCEPT !.validators_for = for,
                  !.validators_against = against,
                  !.concluded_at = IF concludes /\ d.concluded_at = None
                                   THEN now ELSE @]

NewParticipants(d, F, A) == (F \union A) \ Participants(d)

-----------------------------------------------------------------------------
(* `filter_dispute_data`, on the votes F for and A against candidate k.    *)

HasSessionInfo(s) == s <= session /\ session <= s + DisputePeriod

\* The whole set is removed when the session is unknown, the dispute
\* concluded too long ago, or one side would have no vote.
Ancient(d) ==
    d.concluded_at # None /\ d.concluded_at < Monus(now, AcceptancePeriod)

Relevant(k, F, A) ==
    /\ HasSessionInfo(SessionOf[k])
    /\ ~Ancient(Opened(k))
    /\ TwoSided(Imported(Opened(k), F, A))

\* The spam slots of a remote dispute: one taken by each new participant
\* while it stays unconfirmed, those of the earlier ones given back when it
\* gets confirmed.
SpamIncrements(k, F, A) ==
    IF ~IsLocal(k) /\ ~IsConfirmed(Imported(Opened(k), F, A))
    THEN NewParticipants(Opened(k), F, A)
    ELSE {}

\* Faulty variant: those who join with the confirming set get a slot back as well.
SpamDecrementsAll(k, F, A) ==
    IF /\ ~IsLocal(k)
       /\ ~IsConfirmed(Opened(k))
       /\ IsConfirmed(Imported(Opened(k), F, A))
    THEN Participants(Imported(Opened(k), F, A))
    ELSE {}

SpamDecrements(k, F, A) ==
    IF /\ ~IsLocal(k)
       /\ ~IsConfirmed(Opened(k))
       /\ IsConfirmed(Imported(Opened(k), F, A))
    THEN Participants(Opened(k))
    ELSE {}

\* The validators whose vote is filtered out: no slot is left for them.
\* Their slot is incremented all the same.
OutOfSlots(k, F, A) ==
    {v \in SpamIncrements(k, F, A) :
        spam_slots[SessionOf[k]][v] >= MaxSpamSlots}

\* What may be left, F2 for and A2 against.  Of a validator without a slot
\* only its first statement in the set is filtered: that is one of its votes,
\* or one that was filtered already for its signature.
Filtered(k, F, A, F2, A2) ==
    LET out == OutOfSlots(k, F, A)
    IN  /\ F2 \subseteq F /\ F \ F2 \subseteq out
        /\ A2 \subseteq A /\ A \ A2 \subseteq out
        /\ (F \ F2) \intersect (A \ A2) = {}

SpamAfter(k, F, A) ==
    [spam_slots EXCEPT ![SessionOf[k]] =
        [v \in Validators |->
            CASE v \in SpamIncrements(k, F, A) -> @[v] + 1
              [] v \in SpamDecrements(k, F, A) -> Monus(@[v], 1)
              [] OTHER -> @[v]]]

-----------------------------------------------------------------------------
(* Freezing.                                                               *)

\* Faulty variants: the first freeze wins; the last freeze wins.
RevertToFirst(revert_to) == IF frozen = None THEN revert_to ELSE frozen

RevertToLast(revert_to) == revert_to

\* `revert_and_freeze`: the lowest block to revert to wins.
revert_and_freeze(revert_to) ==
    IF frozen = None \/ frozen > revert_to THEN revert_to ELSE frozen

\* `decrement_spam`, for the participants of the unconfirmed disputes in K.
SpamWithout(K) ==
    [s \in DOMAIN spam_slots |-> [v \in Validators |->
        Monus(spam_slots[s][v],
              Cardinality({k \in K : /\ SessionOf[k] = s
                                     /\ ~IsConfirmed(disputes[k])
                                     /\ v \in Participants(disputes[k])}))]]

-----------------------------------------------------------------------------
(* Behaviour.                                                              *)

Sessions == {SessionOf[k] : k \in Keys}

Init ==
    /\ now = 1
    /\ session = 0
    /\ phase = "initialize"
    /\ imported = {}
    /\ disputes = [k \in Keys |-> NoDispute]
    /\ included = [k \in Keys |-> None]
    /\ spam_slots = [s \in Sessions |-> [v \in Validators |-> 0]]
    /\ frozen = None
    /\ last_pruned = None
    /\ forgiven = {}

\* Faulty variant: one block late.
TimedOutLate ==
    {k \in Keys : /\ Known(k)
                  /\ disputes[k].concluded_at = None
                  /\ disputes[k].start + ConclusionTimeout + 1 < now}

\* `initializer_initialize`: open disputes past their time conclude.
TimedOut ==
    {k \in Keys : /\ Known(k)
                  /\ disputes[k].concluded_at = None
                  /\ disputes[k].start + ConclusionTimeout < now}

Initialize ==
    /\ phase = "initialize"
    /\ disputes' = [k \in Keys |-> IF k \in TimedOut
                       THEN [disputes[k] EXCEPT !.concluded_at = now]
                       ELSE disputes[k]]
    /\ spam_slots' = SpamWithout({k \in TimedOut : ~IsLocal(k)})
    /\ phase' = "disputes"
    /\ UNCHANGED <<now, session, imported, included, frozen, last_pruned,
                   forgiven>>

\* One statement set of the inherent: `filter_dispute_data`, then, if a vote
\* is left, `process_checked_dispute_data`, which makes the block invalid if
\* what is left is one-sided.
ImportSet(k, F, A, F2, A2) ==
    LET d    == Opened(k)
        post == Imported(d, F2, A2)
    IN  /\ phase = "disputes"
        /\ k \notin imported /\ Cardinality(imported) < MaxSets
        /\ Relevant(k, F, A)
        /\ Filtered(k, F, A, F2, A2)
        /\ imported' = imported \union {k}
        /\ spam_slots' = SpamAfter(k, F, A)
        /\ \/ /\ F2 \union A2 = {}
              /\ UNCHANGED <<disputes, frozen>>
           \/ /\ F2 \union A2 # {}
              /\ TwoSided(post)
              /\ disputes' = [disputes EXCEPT ![k] = post]
              /\ frozen' =
                    IF /\ Fresh(d.validators_against, post.validators_against)
                       /\ IsLocal(k)
                    THEN revert_and_freeze(included[k])
                    ELSE frozen
        /\ UNCHANGED <<now, session, phase, included, last_pruned, forgiven>>

\* The votes of a set that the chain does not know yet; those it knows are
\* filtered out first.
NewVotes(S) == {T \in SUBSET S : Cardinality(T) <= MaxVotes}

ImportSome(k) ==
    \E F \in NewVotes(Validators \ disputes[k].validators_for) :
    \E A \in NewVotes(Validators \ disputes[k].validators_against) :
    \E F2 \in SUBSET F, A2 \in SUBSET A :
        F \union A # {} /\ ImportSet(k, F, A, F2, A2)

\* On a frozen chain the inherent ends here.
EndDisputes ==
    /\ phase = "disputes"
    /\ phase' = IF frozen = None THEN "include" ELSE "calls"
    /\ UNCHANGED <<now, session, imported, disputes, included, spam_slots,
                   frozen, last_pruned, forgiven>>

\* `note_included`, for a candidate that became available in this block.
NoteIncluded(k) ==
    /\ phase = "include"
    /\ SessionOf[k] = session
    /\ included[k] = None
    /\ included' = [included EXCEPT ![k] = now - 1]
    /\ spam_slots' = IF Known(k) THEN SpamWithout({k}) ELSE spam_slots
    /\ frozen' = IF Known(k) /\ has_supermajority_against(disputes[k])
                 THEN revert_and_freeze(now - 1)
                 ELSE frozen
    /\ UNCHANGED <<now, session, phase, imported, disputes, last_pruned,
                   forgiven>>

EndInherent ==
    /\ phase = "include"
    /\ phase' = "calls"
    /\ UNCHANGED <<now, session, imported, disputes, included, spam_slots,
                   frozen, last_pruned, forgiven>>

\* `force_unfreeze`, by root.
ForceUnfreeze ==
    /\ phase = "calls"
    /\ frozen # None
    /\ frozen' = None
    /\ forgiven' = forgiven \union
          {k \in Keys : IsLocal(k) /\ has_supermajority_against(disputes[k])}
    /\ UNCHANGED <<now, session, phase, imported, disputes, included,
                   spam_slots, last_pruned>>

EndBlock ==
    /\ phase = "calls"
    /\ now < MaxBlock
    /\ now' = now + 1
    /\ phase' = "initialize"
    /\ imported' = {}
    /\ UNCHANGED <<session, disputes, included, spam_slots, frozen,
                   last_pruned, forgiven>>

\* `initializer_on_new_session`, at the end of a block: sessions that fell
\* out of the dispute period are pruned.
PruningTarget == session + 1 - DisputePeriod - 1

\* Faulty variant: one session late.
PrunesLate == session + 1 > DisputePeriod + 2

Prunes == session + 1 > DisputePeriod + 1

Pruned(s) ==
    /\ Prunes
    /\ s <= PruningTarget
    /\ IF last_pruned = None THEN s = PruningTarget ELSE s > last_pruned

NewSession ==
    /\ phase = "calls"
    /\ now < MaxBlock
    /\ now' = now + 1
    /\ session' = session + 1
    /\ phase' = "initialize"
    /\ imported' = {}
    /\ disputes' = [k \in Keys |->
                       IF Pruned(SessionOf[k]) THEN NoDispute ELSE disputes[k]]
    /\ included' = [k \in Keys |->
                       IF Pruned(SessionOf[k]) THEN None ELSE included[k]]
    /\ spam_slots' = [s \in Sessions |->
                       IF Pruned(s) THEN [v \in Validators |-> 0]
                                    ELSE spam_slots[s]]
    /\ last_pruned' = IF Prunes THEN PruningTarget ELSE last_pruned
    /\ UNCHANGED <<frozen, forgiven>>

\* The bound on blocks: nothing happens after the last one.
BoundReached ==
    /\ phase = "calls"
    /\ now >= MaxBlock
    /\ UNCHANGED vars

Next ==
    \/ Initialize
    \/ \E k \in Keys : ImportSome(k)
    \/ EndDisputes
    \/ \E k \in Keys : NoteIncluded(k)
    \/ EndInherent
    \/ ForceUnfreeze
    \/ EndBlock
    \/ NewSession
    \/ BoundReached

Spec == Init /\ [][Next]_vars

-----------------------------------------------------------------------------
(* What makes the pallet correct.                                          *)

\* The storage items have the types disputes.rs gives them.
TypeOK ==
    /\ now \in Nat \ {0}
    /\ session \in Nat
    /\ phase \in {"initialize", "disputes", "include", "calls"}
    /\ imported \subseteq Keys
    /\ disputes \in [Keys -> DisputeState]
    /\ included \in [Keys -> OptBlock]
    /\ spam_slots \in [Sessions -> [Validators -> Nat]]
    /\ frozen \in OptBlock
    /\ last_pruned \in Nat \union {None}
    /\ forgiven \subseteq Keys

\* A candidate that is included and concluded invalid freezes the chain at a
\* block before its inclusion, in whichever order the votes, the inclusion
\* and other freezes came, unless governance has unfrozen the chain since.
FreezeCovers ==
    \A k \in Keys :
        IsLocal(k) /\ has_supermajority_against(disputes[k]) /\ k \notin forgiven
            => frozen # None /\ frozen <= included[k]

\* A recorded dispute has votes on both sides, and it is concluded when
\* either side has a supermajority, at a block since its start.
DisputeSound ==
    \A k \in Keys : Known(k) =>
        LET d == disputes[k]
        IN  /\ TwoSided(d)
            /\ d.start <= now
            /\ d.concluded_at # None => d.start <= d.concluded_at
                                          /\ d.concluded_at <= now
            /\ (\/ IsSupermajority(d.validators_for)
                \/ IsSupermajority(d.validators_against))
                    => d.concluded_at # None

\* "It is possible, although unexpected, for a dispute to conclude twice.
\* This would require f+1 validators to vote in both directions."
ConcludesTwiceOnlyByDoubleVotes ==
    \A k \in Keys :
        LET d == disputes[k]
        IN  IsSupermajority(d.validators_for)
                /\ IsSupermajority(d.validators_against)
            => Cardinality(d.validators_for \intersect d.validators_against)
                  > byzantine_threshold(Cardinality(Validators))

\* No dispute stays open beyond its timeout: `initializer_initialize` closes
\* it in the first block past it, whatever sessions and freezes intervene.
TimeoutEnforced ==
    \A k \in Keys : Known(k) /\ disputes[k].concluded_at = None =>
        now <= disputes[k].start + ConclusionTimeout
                 + (IF phase = "initialize" THEN 1 ELSE 0)

\* "All ongoing or concluded disputes for the last several sessions": what is
\* kept of any session but the first is within the dispute period, and of a
\* session that has begun.
PruningExact ==
    \A k \in Keys : Known(k) \/ IsLocal(k) =>
        /\ SessionOf[k] <= session
        /\ SessionOf[k] = 0 \/ session <= SessionOf[k] + DisputePeriod

\* The disputes that may be spam: at most f validators take part, and the
\* candidate is not included.
PotentialSpam(k) == Known(k) /\ ~IsLocal(k) /\ ~IsConfirmed(disputes[k])

\* Those of session s that are open and that v takes part in.
OpenSpam(s, v) ==
    {k \in Keys : /\ SessionOf[k] = s /\ PotentialSpam(k)
                  /\ disputes[k].concluded_at = None /\ v \in Participants(disputes[k])}

\* Those that timed out and were confirmed, or their candidate included, later:
\* they have given a slot of v back twice.
ReturnedTwice(s, v) ==
    {k \in Keys : /\ SessionOf[k] = s /\ Known(k) /\ ~PotentialSpam(k)
                  /\ disputes[k].concluded_at > disputes[k].start + ConclusionTimeout
                  /\ v \in Participants(disputes[k])}

\* No slot is lost: a validator holds one for every open dispute that may be
\* spam, whatever became of its other disputes, but for those that returned theirs
\* twice.
SlotsHeld ==
    \A s \in Sessions, v \in Validators :
        Cardinality(OpenSpam(s, v)) <= spam_slots[s][v] + Cardinality(ReturnedTwice(s, v))

\* No slot is kept: a dispute that is confirmed, whose candidate is included or
\* that times out returns the slot of each participant, in that step.
SlotsReturned ==
    session' = session =>
        \A s \in Sessions, v \in Validators :
            LET over == OpenSpam(s, v) \ OpenSpam(s, v)'
            IN  over # {} => spam_slots'[s][v] = Monus(spam_slots[s][v], Cardinality(over))

\* Spam slots follow the disputes that may be spam, through every order of
\* imports, filtered votes, confirmations, inclusions and timeouts
\* (filter_dispute_data, note_included, decrement_spam).
SlotsFollowDisputes == []SlotsHeld /\ [][SlotsReturned]_vars

\* Until it is pruned, a dispute keeps its votes, its start and its
\* conclusion, so that it concludes at most once in each direction.
VotesStand ==
    [][\A k \in Keys : Known(k) =>
          \/ session' # session /\ disputes'[k] = NoDispute
          \/ /\ disputes[k].validators_for \subseteq disputes'[k].validators_for
             /\ disputes[k].validators_against
                   \subseteq disputes'[k].validators_against
             /\ disputes[k].start = disputes'[k].start
             /\ disputes[k].concluded_at \in {None, disputes'[k].concluded_at}]_vars

\* Frozen "can only be set back to `None` by governance intervention", and
\* the last valid block it names only ever moves back.
UnfrozenByGovernance ==
    [][frozen # None =>
          \/ frozen' # None /\ frozen' <= frozen
          \/ phase = "calls" /\ forgiven \subseteq forgiven'
                /\ UNCHANGED <<now, disputes, included>>]_vars

-----------------------------------------------------------------------------
(* A claim of the code's comments that does not hold (seven validators).   *)

\* A validator without a free spam slot does not join a potential-spam
\* dispute: its votes are filtered ("we only need to handle the first one,
\* because all subsequent votes' indices have been added to the filter").
SpamLimitHolds ==
    [][\A k \in Keys :
          ~IsLocal(k) /\ ~IsConfirmed(disputes'[k]) =>
              \A v \in Participants(disputes'[k]) \ Participants(disputes[k]) :
                  spam_slots[SessionOf[k]][v] < MaxSpamSlots]_vars
=============================================================================
