----------------------------- MODULE Inclusion -----------------------------
(***************************************************************************)
(* The inclusion pallet (runtime/parachains/src/inclusion/mod.rs) and the  *)
(* cores it shares with the scheduler, as the block inherent drives them:  *)
(* a backed candidate occupies a core until enough validators attest to    *)
(* its availability, a dispute concludes it invalid, it times out, or the  *)
(* session ends.                                                           *)
(*                                                                         *)
(* What the scheduler assigns and what disputes conclude are inputs.  A    *)
(* para's head is abstracted to its height, a bitfield to the votes it     *)
(* casts on occupied cores.                                                *)
(***************************************************************************)
EXTENDS Integers, FiniteSets

CONSTANTS
    ParaIds, Cores, Validators,
    ChainCores,     \* the cores of parachains; the others multiplex parathreads
    Forks,          \* tells apart candidates of a para with one relay parent
    GroupSizes,     \* sizes of the backing groups
    Frequency,      \* config.group_rotation_frequency
    ChainPeriod,    \* config.chain_availability_period
    ThreadPeriod,   \* config.thread_availability_period
    Freezes,        \* whether disputes over included candidates may occur
    ForcedHeads,    \* the heads that governance sets
    MaxOverridden,  \* bound: the paras whose head governance set since the last backing
    MaxBlock        \* bound: the last block that is built

\* `check_consistency` of the configuration refuses zero periods.
ASSUME InclusionAssumption ==
    /\ IsFiniteSet(Validators)
    /\ ChainCores \subseteq Cores
    /\ GroupSizes \subseteq Nat
    /\ Frequency \in Nat \ {0}
    /\ ChainPeriod \in Nat \ {0}
    /\ ThreadPeriod \in Nat \ {0}
    /\ Freezes \in BOOLEAN
    /\ ForcedHeads \subseteq Nat

VARIABLES
    now, session_start,
    phase,     \* the stage the inherent has reached; "calls" after it
    pending,   \* PendingAvailability (and its commitments): a map on paras
    cores,     \* AvailabilityCores: occupied cores to what `core_para` says
    heads,     \* paras::Heads, as heights
    invalid,   \* candidates of this session that disputes concluded invalid
    frozen,    \* whether a dispute has frozen the chain
    stopped,   \* history: the last block whose inherent stopped on a freeze
    overridden \* history: paras whose head governance set since the last backing

vars == <<now, session_start, phase, pending, cores, heads, invalid, frozen, stopped,
          overridden>>

\* The hash of a candidate determines its para and its relay parent.
Candidates == [para : ParaIds, relay_parent : Nat, fork : Forks]

CandidatePendingAvailability ==
    [core : Cores, hash : Candidates, parent_head : Nat,
     availability_votes : SUBSET Validators, backed_in_number : Nat,
     backers : Nat, group_size : GroupSizes]

Drop(f, S) == [x \in DOMAIN f \ S |-> f[x]]

-----------------------------------------------------------------------------
(* Thresholds.                                                             *)

availability_threshold(n) == ((n * 2) \div 3) + ((n * 2) % 3)

minimum_backing_votes(n) == IF n <= 2 THEN n ELSE 2

-----------------------------------------------------------------------------
(* Group rotations and availability timeouts, at block n.                  *)

blocks_since_last_rotation(n) == (n - session_start) % Frequency

last_rotation_at(n) == n - blocks_since_last_rotation(n)

next_rotation_at(n) ==
    n + Frequency - ((n + Frequency - session_start) % Frequency)

AvailabilityPeriod(core) ==
    IF core \in ChainCores THEN ChainPeriod ELSE ThreadPeriod

\* Faulty variant: one block late.
TimeoutPredicateLate(n, core, pending_since) ==
    /\ blocks_since_last_rotation(n) < AvailabilityPeriod(core)
    /\ n - pending_since > AvailabilityPeriod(core)

\* `availability_timeout_predicate`: no pruning except recently after a
\* rotation.
availability_timeout_predicate(n, core, pending_since) ==
    /\ blocks_since_last_rotation(n) < AvailabilityPeriod(core)
    /\ n - pending_since >= AvailabilityPeriod(core)

\* What the `availability_cores` runtime API announces, seen by block n.
time_out_at(n, core, pending_since) ==
    LET at == pending_since + AvailabilityPeriod(core)
        current_window == last_rotation_at(n) + AvailabilityPeriod(core)
    IN  IF at >= current_window /\ at <= next_rotation_at(n)
        THEN next_rotation_at(n)
        ELSE at

-----------------------------------------------------------------------------
(* Behaviour.                                                              *)

Init ==
    /\ now = 1
    /\ session_start = 1
    /\ phase = "disputes"
    /\ pending = [p \in {} |-> 0]
    /\ cores = [c \in {} |-> 0]
    /\ heads = [p \in ParaIds |-> 0]
    /\ invalid = {}
    /\ frozen = FALSE
    /\ stopped = 0
    /\ overridden = {}

\* Frees the cores of the candidates of P: `collect_disputed` and
\* `collect_pending` take the candidates, `free_cores` their cores.
Collect(P) ==
    /\ pending' = Drop(pending, P)
    /\ cores' = Drop(cores, {pending[p].core : p \in P})

collect_disputed(disputed) == {p \in DOMAIN pending : pending[p].hash \in disputed}

collect_pending ==
    {p \in DOMAIN pending :
        availability_timeout_predicate(now, pending[p].core,
                                       pending[p].backed_in_number)}

\* Faulty variant: the inherent goes on after a freeze.
DisputesIgnoringFreeze(voted_on, concludes, freezes) ==
    /\ phase = "disputes"
    /\ concludes \subseteq voted_on
    /\ invalid' = invalid \union concludes
    /\ frozen' = (frozen \/ freezes)
    /\ phase' = "bitfields"
    /\ Collect(collect_disputed(voted_on \intersect invalid'))
    /\ UNCHANGED <<now, session_start, heads, stopped, overridden>>

\* The inherent imports dispute votes, on the candidates `voted_on` of this
\* session among others; those in `concludes` become concluded invalid.  On
\* a frozen chain it stops there.  Otherwise the cores of the candidates
\* that were just voted on, and are concluded invalid, are freed.
ProcessDisputes(voted_on, concludes, freezes) ==
    /\ phase = "disputes"
    /\ concludes \subseteq voted_on
    /\ invalid' = invalid \union concludes
    /\ frozen' = (frozen \/ freezes)
    /\ IF frozen'
       THEN /\ phase' = "calls"
            /\ stopped' = now
            /\ UNCHANGED <<pending, cores>>
       ELSE /\ phase' = "bitfields"
            /\ UNCHANGED stopped
            /\ Collect(collect_disputed(voted_on \intersect invalid'))
    /\ UNCHANGED <<now, session_start, heads, overridden>>

\* Candidates that votes are about, as far as they matter here: pending, or
\* about to be backed.  Disputes over included ones are `freezes`.
Disputable ==
    {pending[p].hash : p \in DOMAIN pending}
        \union [para : ParaIds, relay_parent : {now - 1}, fork : Forks]

DisputesSome ==
    \E voted_on \in SUBSET Disputable :
    \E concludes \in SUBSET voted_on :
    \E freezes \in {b \in BOOLEAN : b => Freezes} :
        ProcessDisputes(voted_on, concludes, freezes)

\* `update_pending_availability_and_get_freed_cores`: the para of a core is
\* looked up in the scheduler, its candidate by para.
VotesAfter(p, votes) ==
    pending[p].availability_votes \union
        UNION {votes[c] : c \in {k \in DOMAIN cores : cores[k] = p}}

Available(votes) ==
    {p \in DOMAIN pending :
        /\ \E c \in DOMAIN cores : cores[c] = p
        /\ Cardinality(VotesAfter(p, votes))
              >= availability_threshold(Cardinality(Validators))}

\* Faulty variants: the heads map is rebuilt from the enacted candidates; the
\* enacted candidates stay pending.
BitfieldsRebuildingHeads(votes) ==
    /\ phase = "bitfields"
    /\ pending' = [p \in DOMAIN pending \ Available(votes) |->
          [pending[p] EXCEPT !.availability_votes = VotesAfter(p, votes)]]
    /\ cores' = Drop(cores, {pending[p].core : p \in Available(votes)})
    /\ heads' = [p \in Available(votes) |-> pending[p].parent_head + 1]
    /\ phase' = "timeouts"
    /\ UNCHANGED <<now, session_start, frozen, invalid, stopped, overridden>>

BitfieldsKeepingPending(votes) ==
    /\ phase = "bitfields"
    /\ pending' = [p \in DOMAIN pending |->
          [pending[p] EXCEPT !.availability_votes = VotesAfter(p, votes)]]
    /\ heads' = [p \in ParaIds |-> IF p \in Available(votes)
                    THEN pending[p].parent_head + 1 ELSE heads[p]]
    /\ phase' = "timeouts"
    /\ UNCHANGED <<now, session_start, cores, frozen, invalid, stopped, overridden>>

\* `process_bitfields`, `enact_candidate` for those that became available,
\* `note_included`, which freezes the chain for one concluded invalid, and
\* the part of `schedule` that frees their cores.
ProcessBitfields(votes) ==
    LET available == Available(votes)
    IN  /\ phase = "bitfields"
        /\ pending' = [p \in DOMAIN pending \ available |->
              [pending[p] EXCEPT !.availability_votes = VotesAfter(p, votes)]]
        /\ cores' = Drop(cores, {pending[p].core : p \in available})
        /\ heads' = [p \in ParaIds |-> IF p \in available
                        THEN pending[p].parent_head + 1 ELSE heads[p]]
        /\ frozen' = (frozen \/ \E p \in available : pending[p].hash \in invalid)
        /\ phase' = "timeouts"
        /\ UNCHANGED <<now, session_start, invalid, stopped, overridden>>

BitfieldsSome == \E votes \in [DOMAIN cores -> SUBSET Validators] :
                     ProcessBitfields(votes)

\* `collect_all_freed_cores` and, in `schedule`, the freeing of the cores.
CollectTimedOut ==
    /\ phase = "timeouts"
    /\ Collect(collect_pending)
    /\ phase' = "backing"
    /\ UNCHANGED <<now, session_start, heads, invalid, frozen, stopped, overridden>>

\* The checks of `process_candidates` and `verify_backed_candidate` on a
\* candidate.  Its validation data, and so its parent head, are the current.
Acceptable(b) ==
    /\ b.hash.relay_parent = now - 1
    /\ b.hash \notin invalid
    /\ b.hash.para \notin DOMAIN pending
    /\ b.backers >= minimum_backing_votes(b.group_size)

\* `process_candidates` with one candidate on each core of DOMAIN backed,
\* and `occupied`.  The scheduler assigns free cores, and no para two.
ProcessCandidates(backed) ==
    LET CoreOf(p) == CHOOSE c \in DOMAIN backed : backed[c].hash.para = p
        paras == {backed[c].hash.para : c \in DOMAIN backed}
    IN  /\ phase = "backing"
        /\ DOMAIN backed \intersect DOMAIN cores = {}
        /\ \A c, d \in DOMAIN backed :
              backed[c].hash.para = backed[d].hash.para => c = d
        /\ \A c \in DOMAIN backed : Acceptable(backed[c])
        /\ pending' = [p \in DOMAIN pending \union paras |->
              IF p \in paras
              THEN [core |-> CoreOf(p),
                    hash |-> backed[CoreOf(p)].hash,
                    parent_head |-> heads[p],
                    availability_votes |-> {},
                    backed_in_number |-> now,
                    backers |-> backed[CoreOf(p)].backers,
                    group_size |-> backed[CoreOf(p)].group_size]
              ELSE pending[p]]
        /\ cores' = [c \in DOMAIN cores \union DOMAIN backed |->
              IF c \in DOMAIN backed THEN backed[c].hash.para ELSE cores[c]]
        /\ overridden' = overridden \ paras
        /\ phase' = "calls"
        /\ UNCHANGED <<now, session_start, heads, invalid, frozen, stopped>>

BackedCandidates ==
    {b \in [hash : [para : ParaIds, relay_parent : {now - 1}, fork : Forks],
            backers : 0 .. 2, group_size : GroupSizes] :
        b.backers <= b.group_size}

CandidatesSome ==
    \E C \in SUBSET (Cores \ DOMAIN cores) :
    \E backed \in [C -> BackedCandidates] : ProcessCandidates(backed)

\* `force_unfreeze`, by root.
ForceUnfreeze ==
    /\ phase = "calls"
    /\ frozen
    /\ frozen' = FALSE
    /\ UNCHANGED <<now, session_start, phase, pending, cores, heads, invalid, stopped,
                   overridden>>

\* `force_set_current_head`, and `force_note_new_head` of paras, by root: the
\* candidate that is pending on the old head stays.
ForceHead(p, h) ==
    /\ phase = "calls"
    /\ Cardinality(overridden) < MaxOverridden
    /\ heads' = [heads EXCEPT ![p] = h]
    /\ overridden' = overridden \union {p}
    /\ UNCHANGED <<now, session_start, phase, pending, cores, invalid, frozen, stopped>>

ForceSome == \E p \in ParaIds, h \in ForcedHeads : ForceHead(p, h)

EndBlock ==
    /\ phase = "calls"
    /\ now < MaxBlock
    /\ now' = now + 1
    /\ phase' = "disputes"
    /\ UNCHANGED <<session_start, pending, cores, heads, invalid, frozen, stopped,
                   overridden>>

\* Faulty variant: the pending candidates are not drained.
NewSessionKeepingPending ==
    /\ phase = "calls"
    /\ now < MaxBlock
    /\ now' = now + 1
    /\ session_start' = now + 1
    /\ phase' = "disputes"
    /\ cores' = [c \in {} |-> 0]
    /\ invalid' = {}
    /\ UNCHANGED <<pending, heads, frozen, stopped, overridden>>

\* `initializer_on_new_session` of inclusion and of the scheduler, at the
\* end of a block: everything pending is dropped and every core is free.
NewSession ==
    /\ phase = "calls"
    /\ now < MaxBlock
    /\ now' = now + 1
    /\ session_start' = now + 1
    /\ phase' = "disputes"
    /\ pending' = [p \in {} |-> 0]
    /\ cores' = [c \in {} |-> 0]
    /\ invalid' = {}
    /\ UNCHANGED <<heads, frozen, stopped, overridden>>

\* The bound on blocks: nothing happens after the last one.
BoundReached ==
    /\ phase = "calls"
    /\ now >= MaxBlock
    /\ UNCHANGED vars

Next ==
    \/ DisputesSome
    \/ BitfieldsSome
    \/ CollectTimedOut
    \/ CandidatesSome
    \/ ForceUnfreeze
    \/ ForceSome
    \/ EndBlock
    \/ NewSession
    \/ BoundReached

Spec == Init /\ [][Next]_vars

-----------------------------------------------------------------------------
(* What makes the pallet correct.                                          *)

\* The storage items have the types inclusion/mod.rs gives them.
TypeOK ==
    /\ now \in Nat \ {0}
    /\ session_start \in Nat
    /\ phase \in {"disputes", "bitfields", "timeouts", "backing", "calls"}
    /\ DOMAIN pending \subseteq ParaIds
    /\ pending \in [DOMAIN pending -> CandidatePendingAvailability]
    /\ DOMAIN cores \subseteq Cores
    /\ cores \in [DOMAIN cores -> ParaIds]
    /\ heads \in [ParaIds -> Nat]
    /\ invalid \subseteq Candidates
    /\ frozen \in BOOLEAN
    /\ stopped \in Nat
    /\ overridden \subseteq ParaIds

\* "Occupied core always has pending availability; qed" (the runtime API
\* panics otherwise), and a pending candidate always has its core: the two
\* pallets agree whatever disputes, votes, timeouts, freezes and session
\* changes came in between.
CoreBijection ==
    /\ \A c \in DOMAIN cores :
          cores[c] \in DOMAIN pending /\ pending[cores[c]].core = c
    /\ \A p \in DOMAIN pending :
          pending[p].core \in DOMAIN cores /\ cores[pending[p].core] = p

\* A pending candidate builds on the current head of its para, so that its
\* inclusion extends that chain by one block and never forks or rewinds it,
\* unless governance has set another head since it was backed.
PendingExtendsHead ==
    \A p \in DOMAIN pending : p \notin overridden => pending[p].parent_head = heads[p]

\* A para's chain only moves by inclusion: of the candidate pending for it,
\* which an earlier block backed and which leaves its core with that, on a
\* chain that is not frozen, by exactly one block.  Governance alone may set
\* another head, in a call; then the candidate that was pending on the old head
\* is included all the same, and the chain goes on from there.
HeadsAdvance ==
    [][\A p \in ParaIds : heads'[p] # heads[p] =>
          \/ phase = "calls" /\ p \in overridden' /\ heads'[p] \in ForcedHeads
          \/ /\ p \in DOMAIN pending /\ p \notin DOMAIN pending'
             /\ heads'[p] = (IF p \in overridden THEN pending[p].parent_head ELSE heads[p]) + 1
             /\ ~frozen
             /\ pending[p].backed_in_number < now]_vars

\* Block t is the first after this one in which the timeout predicate gives
\* up on the candidate of p.
TimesOutFirstAt(p, t) ==
    LET Expires(n) == availability_timeout_predicate(n, pending[p].core,
                                                     pending[p].backed_in_number)
    IN  /\ t > now
        /\ Expires(t)
        /\ \A n \in now + 1 .. t - 1 : ~Expires(n)

TimeOutAnnounced(p) ==
    time_out_at(now + 1, pending[p].core, pending[p].backed_in_number)

\* A candidate is given up in the block that the runtime API announced, or in
\* the next one if that has passed, unless a freeze has stopped an inherent
\* since it was backed.
TimeOutKept ==
    phase = "calls" =>
        \A p \in DOMAIN pending : pending[p].backed_in_number > stopped =>
            LET t == TimeOutAnnounced(p)
            IN  TimesOutFirstAt(p, IF t > now THEN t ELSE now + 1)

-----------------------------------------------------------------------------
(* Claims of the code's comments that do not hold.                         *)

\* `time_out_at` is "the relay-chain block this will time-out at".
TimeOutAtExact ==
    phase = "calls" =>
        \A p \in DOMAIN pending : TimesOutFirstAt(p, TimeOutAnnounced(p))

\* "disputes that concluded longer ago have already had any corresponding
\* cores cleaned up": no candidate concluded invalid is left on a core when
\* bitfields are processed, so that none is included.
InvalidNotPending ==
    phase = "bitfields" =>
        \A p \in DOMAIN pending : pending[p].hash \notin invalid
=============================================================================
