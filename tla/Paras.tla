------------------------------- MODULE Paras -------------------------------
(***************************************************************************)
(* The paras pallet (runtime/parachains/src/paras/mod.rs): the life cycle  *)
(* of paras, their validation code with its upgrades, its pre-checking by  *)
(* validators and its reference counting, driven by registrations, by the  *)
(* inclusion of candidates, by votes and by session changes.               *)
(*                                                                         *)
(* A validation code is its hash; of a head only its presence is kept.     *)
(* Lists ordered by block are sets: entries due together commute.          *)
(***************************************************************************)
EXTENDS Integers, FiniteSets, Sequences, Maps

CONSTANTS
    ParaIds, Codes, Validators,
    GenesisCode,        \* code of the paras that are parachains at genesis
    GenesisParas,
    PvfChecking,        \* config.pvf_checking_enabled
    VotingTtl,          \* config.pvf_voting_ttl
    UpgradeDelay,       \* config.validation_upgrade_delay
    MinUpgradeDelay,    \* config.minimum_validation_upgrade_delay
    UpgradeCooldown,    \* config.validation_upgrade_cooldown
    Retention,          \* config.code_retention_period
    LateUpgrades,       \* whether a para that is offboarding signals upgrades
    RootCalls,          \* the forced calls that governance makes
    MaxBlock,           \* bound: the last block that is built
    CallsPerBlock       \* bound: calls in a block

VARIABLES
    now, session,
    calls,    \* calls made in this block; the inherent comes before them
    pending,  \* candidates pending availability: relay parent, signalled code
    st,       \* the storage of the pallet
    accepted, \* history: codes that passed pre-checking or were trusted
    replaced, \* history: code that was in use, and when it was replaced
    forced,   \* history: governance has forced a change on a para
    outlived  \* history: a vote on an upgrade has outlived its para

vars == <<now, session, calls, pending, st, accepted, replaced, forced, outlived>>

NoCode == "none"

\* `check_consistency` requires the minimum delay to exceed another period.
ASSUME ParasAssumption ==
    /\ IsFiniteSet(ParaIds) /\ GenesisParas \subseteq ParaIds
    /\ GenesisCode \in Codes /\ NoCode \notin Codes
    /\ IsFiniteSet(Validators)
    /\ PvfChecking \in BOOLEAN
    /\ UpgradeDelay \in Nat /\ UpgradeCooldown \in Nat
    /\ MinUpgradeDelay \in Nat \ {0}
    /\ VotingTtl \in Nat /\ Retention \in Nat
    /\ CallsPerBlock \in Nat

SESSION_DELAY == 2

scheduled_session == session + SESSION_DELAY

is_parachain(l) ==
    l \in {"Parachain", "DowngradingParachain", "OffboardingParachain"}

is_stable(l) == l \in {"Parathread", "Parachain"}

supermajority_threshold(n) == n - ((n - 1) \div 3)

-----------------------------------------------------------------------------
(* The storage, and what the pallet's functions do to a storage s.         *)

GenesisStore ==
    [lifecycles |-> [p \in GenesisParas |-> "Parachain"],
     parachains |-> GenesisParas,
     heads      |-> GenesisParas,                        \* paras with a head
     current    |-> [p \in GenesisParas |-> GenesisCode], \* CurrentCodeHash
     future     |-> EmptyMap,                            \* FutureCodeHash
     upgrade_at |-> EmptyMap,                            \* FutureCodeUpgrades
     past       |-> EmptyMap,                            \* PastCodeHash
     meta       |-> [p \in ParaIds |-> <<>>],            \* PastCodeMeta
     pruning    |-> {},                                  \* PastCodePruning
     go_ahead   |-> EmptyMap,                            \* UpgradeGoAheadSignal
     restricted |-> {},                                  \* UpgradeRestrictionSignal
     cooldowns  |-> {},                                  \* UpgradeCooldowns
     upcoming   |-> {},                                  \* UpcomingUpgrades
     actions    |-> {},                                  \* ActionsQueue
     genesis    |-> EmptyMap,                            \* UpcomingParasGenesis
     refs       |-> [c \in Codes |-> IF c = GenesisCode
                                     THEN Cardinality(GenesisParas) ELSE 0],
     stored     |-> {GenesisCode},                       \* CodeByHash
     votes      |-> EmptyMap]                            \* PvfActiveVoteMap

increase_code_ref(s, c) ==
    [s EXCEPT !.refs[c] = @ + 1,
              !.stored = IF s.refs[c] = 0 THEN @ \union {c} ELSE @]

\* `decrease_code_ref`, n[c] times for every code c: it stops at zero.
decrease_code_refs(s, n) ==
    [s EXCEPT !.refs = [c \in Codes |-> IF n[c] >= s.refs[c] THEN 0 ELSE s.refs[c] - n[c]],
              !.stored = @ \ {c \in Codes : 0 < s.refs[c] /\ s.refs[c] <= n[c]}]

\* Replacement, at block n, of the codes in old, a map from paras, that was
\* expected at block `at`.
note_past_code(s, old, at, n) ==
    LET keys == (DOMAIN old) \X {at}
        time == [expected_at |-> at, activated_at |-> n]
    IN  [s EXCEPT !.meta = [p \in ParaIds |-> IF p \in DOMAIN old
                                              THEN Append(s.meta[p], time) ELSE s.meta[p]],
                  !.past = [k \in DOMAIN s.past \union keys |->
                              IF k \in keys THEN old[k[1]] ELSE s.past[k]],
                  !.pruning = @ \union ((DOMAIN old) \X {n})]

\* A cause of a vote: the onboarding of a para, or its upgrade.
Onboarding(p) == [kind |-> "onboarding", para |-> p, relay_parent |-> 0]
Upgrade(p, n) == [kind |-> "upgrade", para |-> p, relay_parent |-> n]

Causes(causes, kind) == {i \in DOMAIN causes : causes[i].kind = kind}
ParasIn(causes, kind) == {causes[i].para : i \in Causes(causes, kind)}

proceed_with_onboarding(s, paras, sessions_observed) ==
    LET wait == SESSION_DELAY - sessions_observed
    IN  [s EXCEPT !.actions =
            @ \union {<<session + (IF wait > 1 THEN wait ELSE 1), p>> : p \in paras}]

\* Faulty variant: counted from the relay parent only.
ExpectedAtOnce(relay_parent) == relay_parent + UpgradeDelay

\* The block from which a code upgrade is ready to be applied.
ExpectedAt(relay_parent) ==
    LET early == now + MinUpgradeDelay
        late  == relay_parent + UpgradeDelay
    IN  IF late > early THEN late ELSE early

\* Of two causes of the same para the last one counts.
LastUpgrade(causes, p) ==
    CHOOSE i \in Causes(causes, "upgrade") :
        /\ causes[i].para = p
        /\ \A j \in Causes(causes, "upgrade") : causes[j].para = p => j <= i

proceed_with_upgrade(s, causes) ==
    LET paras == ParasIn(causes, "upgrade")
    IN  [s EXCEPT !.upgrade_at =
                      [p \in DOMAIN s.upgrade_at \union paras |->
                          IF p \in paras
                          THEN ExpectedAt(causes[LastUpgrade(causes, p)].relay_parent)
                          ELSE s.upgrade_at[p]],
                  !.upcoming = @ \union {<<causes[i].para, ExpectedAt(causes[i].relay_parent)>> :
                                         i \in Causes(causes, "upgrade")}]

enact_pvf_accepted(s, causes, age) ==
    proceed_with_upgrade(
        proceed_with_onboarding(s, ParasIn(causes, "onboarding"), age), causes)

\* What the votes in a map from codes were started for.
AskedBy(votes, kind) == UNION {ParasIn(votes[c].causes, kind) : c \in DOMAIN votes}

\* Each cause has taken a reference.
Taken(votes) == [c \in Codes |-> IF c \in DOMAIN votes THEN Len(votes[c].causes) ELSE 0]

\* Faulty variant: the registration is left behind.
EnactPvfRejectedHalf(s, votes) ==
    LET new      == AskedBy(votes, "onboarding")
        upgraded == AskedBy(votes, "upgrade")
    IN  [decrease_code_refs(s, Taken(votes)) EXCEPT
            !.genesis = Without(@, new),
            !.current = Without(@, new),
            !.go_ahead = [p \in DOMAIN s.go_ahead \union upgraded |->
                             IF p \in upgraded THEN "Abort" ELSE s.go_ahead[p]],
            !.future = Without(@, upgraded)]

\* The votes in a map from codes end with a rejection.
enact_pvf_rejected(s, votes) ==
    LET new      == AskedBy(votes, "onboarding")
        upgraded == AskedBy(votes, "upgrade")
    IN  [decrease_code_refs(s, Taken(votes)) EXCEPT
            !.genesis = Without(@, new),
            !.current = Without(@, new),
            !.lifecycles = Without(@, new),
            !.go_ahead = [p \in DOMAIN s.go_ahead \union upgraded |->
                             IF p \in upgraded THEN "Abort" ELSE s.go_ahead[p]],
            !.future = Without(@, upgraded)]

\* Whether code c is accepted without a vote.
FastTracked(s, c) == c \notin DOMAIN s.votes /\ (~PvfChecking \/ c \in s.stored)

kick_off_pvf_check(s, cause, c) ==
    LET asked ==
          IF c \in DOMAIN s.votes
          THEN [s EXCEPT !.votes[c].causes = Append(@, cause)]
          ELSE IF FastTracked(s, c)
          THEN enact_pvf_accepted(s, <<cause>>, 0)
          ELSE [s EXCEPT !.votes =
                  Put(@, c, [accept |-> {}, reject |-> {}, age |-> 0,
                             causes |-> <<cause>>])]
    IN  increase_code_ref(asked, c)

\* A second upgrade, or one to the current code, is dropped.
UpgradeDropped(s, p, c) ==
    p \in DOMAIN s.future \/ (p \in DOMAIN s.current /\ s.current[p] = c)

schedule_code_upgrade(s, p, c, relay_parent) ==
    IF UpgradeDropped(s, p, c) THEN s
    ELSE kick_off_pvf_check(
            [s EXCEPT !.future = Put(@, p, c),
                      !.restricted = @ \union {p},
                      !.cooldowns =
                          @ \union {<<p, relay_parent + UpgradeCooldown>>}],
            Upgrade(p, relay_parent), c)

can_upgrade_validation_code(p) ==
    p \notin DOMAIN st.future /\ p \notin st.restricted

note_new_head(s, p, context) ==
    LET h == [s EXCEPT !.heads = @ \union {p}]
        u == [h EXCEPT !.upgrade_at = Without(@, {p}),
                       !.go_ahead = Without(@, {p})]
        n == [u EXCEPT !.future = Without(@, {p}),
                       !.current = Put(@, p, s.future[p])]
    IN  IF p \notin DOMAIN s.upgrade_at
        THEN [h EXCEPT !.go_ahead = Without(@, {p})]
        ELSE IF s.upgrade_at[p] > context THEN h
        ELSE IF p \notin DOMAIN s.future THEN u
        ELSE IF p \notin DOMAIN s.current THEN n
        ELSE note_past_code(n, [q \in {p} |-> s.current[p]], s.upgrade_at[p], now)

-----------------------------------------------------------------------------
(* Block boundaries.                                                       *)

\* `prune_up_to`: the log entries of p that block `height` makes obsolete.
Obsolete(s, p, height) ==
    {i \in DOMAIN s.meta[p] : \A j \in 1..i : s.meta[p][j].activated_at <= height}

\* The past codes of the paras whose pruning is due.
Prunable(s, paras, height) ==
    {k \in DOMAIN s.past :
        k[1] \in paras /\ \E i \in Obsolete(s, k[1], height) :
                              s.meta[k[1]][i].expected_at = k[2]}

prune_old_code(s, n) ==
    LET height == n - (Retention + 1)
        due    == {t \in s.pruning : t[2] <= height}
        paras  == {t[1] : t \in due}
        keys   == Prunable(s, paras, height)
        freed  == [c \in Codes |-> Cardinality({k \in keys : s.past[k] = c})]
    IN  IF n <= Retention THEN s
        ELSE [decrease_code_refs(s, freed) EXCEPT
                !.pruning = @ \ due,
                !.past = Without(@, keys),
                !.meta = [p \in ParaIds |->
                            IF p \in paras
                            THEN SubSeq(s.meta[p], Cardinality(Obsolete(s, p, height)) + 1,
                                        Len(s.meta[p]))
                            ELSE s.meta[p]]]

process_scheduled_upgrade_changes(s, n) ==
    LET due == {u \in s.upcoming : u[2] <= n}
    IN  [s EXCEPT !.upcoming = @ \ due,
                  !.go_ahead = [p \in DOMAIN @ \union {u[1] : u \in due} |->
                                  IF \E u \in due : u[1] = p THEN "GoAhead"
                                  ELSE s.go_ahead[p]]]

\* The expired entries stay in `UpgradeCooldowns`.
process_scheduled_upgrade_cooldowns(s, n) ==
    [s EXCEPT !.restricted = @ \ {u[1] : u \in {w \in s.cooldowns : w[2] <= n}}]

IsOffboarding(s, p) ==
    GetOr(s.lifecycles, p, "none") \in {"OffboardingParachain", "OffboardingParathread"}

\* `initialize_para_now` applies to a para that has genesis data.
IsInitialized(s, p) == GetOr(s.lifecycles, p, "none") = "Onboarding" /\ p \in DOMAIN s.genesis

\* What the start of a session makes of a para with a queued action.
AfterAction(s, p) ==
    CASE IsInitialized(s, p) -> IF s.genesis[p] THEN "Parachain" ELSE "Parathread"
      [] s.lifecycles[p] = "UpgradingParathread"  -> "Parachain"
      [] s.lifecycles[p] = "DowngradingParachain" -> "Parathread"
      [] OTHER -> s.lifecycles[p]

\* The actions on the paras in due that stay.
ApplyActions(s, due) ==
    LET new   == {p \in due : IsInitialized(s, p)}
        moved == {p \in due \intersect DOMAIN s.lifecycles : AfterAction(s, p) # s.lifecycles[p]}
    IN  [s EXCEPT !.lifecycles = [p \in DOMAIN s.lifecycles |->
                                     IF p \in moved THEN AfterAction(s, p)
                                     ELSE s.lifecycles[p]],
                  !.parachains = (@ \union {p \in moved : AfterAction(s, p) = "Parachain"})
                                    \ {p \in moved : s.lifecycles[p] = "DowngradingParachain"},
                  !.genesis = Without(@, new),
                  !.heads = @ \union new]

\* References to the future codes of the paras.
FutureRefs(s, paras) ==
    [c \in Codes |-> Cardinality({p \in paras \intersect DOMAIN s.future : s.future[p] = c})]

\* Faulty variant: an upgrade under way keeps its reference.
OffboardKeepingRef(s, gone) ==
    note_past_code(
        [s EXCEPT !.parachains = @ \ gone, !.heads = @ \ gone,
                  !.upgrade_at = Without(@, gone), !.go_ahead = Without(@, gone),
                  !.restricted = @ \ gone, !.lifecycles = Without(@, gone),
                  !.future = Without(@, gone), !.current = Without(@, gone),
                  !.upcoming = {u \in @ : u[1] \notin gone},
                  !.cooldowns = {u \in @ : u[1] \notin gone}],
        [p \in gone \intersect DOMAIN s.current |-> s.current[p]], now, now)

\* The paras in gone are removed.
Offboard(s, gone) ==
    note_past_code(
        [decrease_code_refs(s, FutureRefs(s, gone)) EXCEPT
                  !.parachains = @ \ gone, !.heads = @ \ gone,
                  !.upgrade_at = Without(@, gone), !.go_ahead = Without(@, gone),
                  !.restricted = @ \ gone, !.lifecycles = Without(@, gone),
                  !.future = Without(@, gone), !.current = Without(@, gone),
                  !.upcoming = {u \in @ : u[1] \notin gone},
                  !.cooldowns = {u \in @ : u[1] \notin gone}],
        [p \in gone \intersect DOMAIN s.current |-> s.current[p]], now, now)

apply_actions_queue(s, index) ==
    LET due == {p \in ParaIds : <<index, p>> \in s.actions}
        taken == [s EXCEPT !.actions = @ \ ({index} \X ParaIds)]
    IN  Offboard(ApplyActions(taken, due), {p \in due : IsOffboarding(s, p)})

\* A session change: ballots are emptied, votes that got too old reject.
groom_ongoing_pvf_votes(s) ==
    LET expired == {c \in DOMAIN s.votes : s.votes[c].age + 1 >= VotingTtl}
        kept == [c \in DOMAIN s.votes \ expired |->
                    [s.votes[c] EXCEPT !.age = @ + 1, !.accept = {}, !.reject = {}]]
    IN  enact_pvf_rejected([s EXCEPT !.votes = kept], [c \in expired |-> s.votes[c]])

initializer_initialize(s, n) ==
    process_scheduled_upgrade_changes(prune_old_code(s, n), n)

initializer_on_new_session(s, index) ==
    groom_ongoing_pvf_votes(apply_actions_queue(s, index))

-----------------------------------------------------------------------------
(* Behaviour.                                                              *)

Init ==
    /\ now = 1
    /\ session = 0
    /\ calls = 0
    /\ pending = EmptyMap
    /\ st = GenesisStore
    /\ accepted = {GenesisCode}
    /\ replaced = {}
    /\ forced = FALSE
    /\ outlived = FALSE

\* History: the code that a step takes out of use, and the codes accepted.
Replaces(s) ==
    replaced \union {[para |-> p, code |-> st.current[p], at |-> now] :
                     p \in {q \in DOMAIN st.current \intersect st.heads :
                            GetOr(s.current, q, NoCode) # st.current[q]}}

\* History: code accepted without a vote because there are none.  With votes
\* it has to have been accepted before.
FastTracks(c) == IF PvfChecking THEN accepted ELSE accepted \union {c}

Called(s) ==
    /\ calls < CallsPerBlock
    /\ calls' = calls + 1
    /\ st' = s
    /\ replaced' = Replaces(s)
    /\ UNCHANGED <<now, session, pending, outlived>>

\* A call that governance forces changes with.
Forces(s) == Called(s) /\ forced' = TRUE

\* A candidate of p is backed in this block, on the parent block.  It may
\* signal an upgrade if the acceptance criteria allow that.
Back(p, c) ==
    /\ calls = 0
    /\ p \in st.heads
    /\ p \notin DOMAIN pending
    /\ c # NoCode => can_upgrade_validation_code(p)
    /\ c # NoCode /\ ~LateUpgrades => ~IsOffboarding(st, p)
    /\ pending' = Put(pending, p, [relay_parent |-> now - 1, code |-> c])
    /\ UNCHANGED <<now, session, calls, st, accepted, replaced, forced, outlived>>

\* A candidate that was backed in an earlier block is included.
Enact(p) ==
    /\ calls = 0
    /\ p \in DOMAIN pending
    /\ pending[p].relay_parent < now - 1
    /\ LET c == pending[p].code
           r == pending[p].relay_parent
           s == IF c = NoCode THEN st ELSE schedule_code_upgrade(st, p, c, r)
       IN  /\ st' = note_new_head(s, p, r)
           /\ accepted' = IF c = NoCode \/ UpgradeDropped(st, p, c) THEN accepted
                          ELSE FastTracks(c)
           /\ replaced' = Replaces(st')
    /\ pending' = Without(pending, {p})
    /\ UNCHANGED <<now, session, calls, forced, outlived>>

schedule_para_initialize(p, c, parachain) ==
    /\ p \notin DOMAIN st.lifecycles
    /\ LET s == [st EXCEPT !.lifecycles = Put(@, p, "Onboarding"),
                           !.genesis = Put(@, p, parachain),
                           !.current = Put(@, p, c)]
       IN  Called(kick_off_pvf_check(s, Onboarding(p), c))
    /\ accepted' = FastTracks(c)
    /\ UNCHANGED forced

Scheduled(p, l) ==
    /\ Called([st EXCEPT !.lifecycles[p] = l,
                         !.actions = @ \union {<<scheduled_session, p>>}])
    /\ UNCHANGED <<accepted, forced>>

schedule_para_cleanup(p) ==
    /\ p \notin DOMAIN st.future
    /\ \/ GetOr(st.lifecycles, p, "none") = "Parathread" /\ Scheduled(p, "OffboardingParathread")
       \/ GetOr(st.lifecycles, p, "none") = "Parachain" /\ Scheduled(p, "OffboardingParachain")

schedule_parathread_upgrade(p) ==
    /\ GetOr(st.lifecycles, p, "none") = "Parathread"
    /\ Scheduled(p, "UpgradingParathread")

schedule_parachain_downgrade(p) ==
    /\ GetOr(st.lifecycles, p, "none") = "Parachain"
    /\ Scheduled(p, "DowngradingParachain")

VoteOf(c, v, ok) ==
    IF ok THEN [st.votes[c] EXCEPT !.accept = @ \union {v}]
    ELSE [st.votes[c] EXCEPT !.reject = @ \union {v}]

\* Rejections are counted before acceptances.
include_pvf_check_statement(c, v, ok) ==
    /\ PvfChecking
    /\ c \in DOMAIN st.votes
    /\ v \notin st.votes[c].accept \union st.votes[c].reject
    /\ LET vote == VoteOf(c, v, ok)
           t == supermajority_threshold(Cardinality(Validators))
           over == [st EXCEPT !.votes = Without(@, {c})]
       IN  \/ /\ Cardinality(vote.reject) >= t
              /\ Called(enact_pvf_rejected(over, [d \in {c} |-> vote]))
              /\ UNCHANGED accepted
           \/ /\ Cardinality(vote.reject) < t
              /\ Cardinality(vote.accept) >= t
              /\ Called(enact_pvf_accepted(over, vote.causes, vote.age))
              /\ accepted' = accepted \union {c}
           \/ /\ Cardinality(vote.reject) < t
              /\ Cardinality(vote.accept) < t
              /\ Called([st EXCEPT !.votes[c] = vote])
              /\ UNCHANGED accepted
    /\ UNCHANGED forced

add_trusted_validation_code(c) ==
    /\ "trusted" \in RootCalls
    /\ \/ /\ c \in DOMAIN st.votes
          /\ Called(enact_pvf_accepted([st EXCEPT !.votes = Without(@, {c})],
                                       st.votes[c].causes, st.votes[c].age))
       \/ /\ c \notin DOMAIN st.votes \union st.stored
          /\ Called([st EXCEPT !.stored = @ \union {c}])
    /\ accepted' = accepted \union {c}
    /\ UNCHANGED forced

poke_unused_validation_code(c) ==
    /\ "poke" \in RootCalls
    /\ st.refs[c] = 0
    /\ Called([st EXCEPT !.stored = @ \ {c}])
    /\ UNCHANGED <<accepted, forced>>

force_set_current_code(p, c) ==
    /\ "set_code" \in RootCalls
    /\ LET s == [increase_code_ref(st, c) EXCEPT !.current = Put(@, p, c)]
       IN  Forces(IF p \in DOMAIN st.current
                  THEN note_past_code(s, [q \in {p} |-> st.current[p]], now, now) ELSE s)
    /\ accepted' = accepted \union {c}

force_set_current_head(p) ==
    /\ "set_head" \in RootCalls
    /\ Forces([st EXCEPT !.heads = @ \union {p}])
    /\ UNCHANGED accepted

force_schedule_code_upgrade(p, c) ==
    /\ "schedule" \in RootCalls
    /\ Forces(schedule_code_upgrade(st, p, c, now))
    /\ accepted' = IF UpgradeDropped(st, p, c) THEN accepted ELSE FastTracks(c)

force_note_new_head(p) ==
    /\ "note_head" \in RootCalls
    /\ Forces(note_new_head(st, p, now))
    /\ UNCHANGED accepted

force_queue_action(p) ==
    /\ "queue" \in RootCalls
    /\ Forces([st EXCEPT !.actions = @ \union {<<session + 1, p>>}])
    /\ UNCHANGED accepted

\* The block is finalized and the next one initialized.
EndBlock ==
    /\ now < MaxBlock
    /\ now' = now + 1
    /\ calls' = 0
    /\ st' = initializer_initialize(process_scheduled_upgrade_cooldowns(st, now), now + 1)
    /\ UNCHANGED <<session, pending, accepted, replaced, forced, outlived>>

\* Whether a vote is on an upgrade of a para that has none under way.
Outlives(s) == \E p \in AskedBy(s.votes, "upgrade") : p \notin DOMAIN s.future

\* The same with a session change, which drops the pending candidates.
NewSession ==
    /\ now < MaxBlock
    /\ now' = now + 1
    /\ calls' = 0
    /\ session' = session + 1
    /\ pending' = EmptyMap
    /\ LET s == initializer_on_new_session(
                    process_scheduled_upgrade_cooldowns(st, now), session + 1)
       IN  /\ replaced' = Replaces(s)
           /\ st' = initializer_initialize(s, now + 1)
           /\ outlived' = (outlived \/ Outlives(s))
    /\ UNCHANGED <<accepted, forced>>

BoundReached ==
    /\ now = MaxBlock
    /\ UNCHANGED vars

Next ==
    \/ \E p \in ParaIds :
         \/ \E c \in Codes \union {NoCode} : Back(p, c)
         \/ Enact(p)
         \/ \E c \in Codes, chain \in BOOLEAN : schedule_para_initialize(p, c, chain)
         \/ schedule_para_cleanup(p)
         \/ schedule_parathread_upgrade(p)
         \/ schedule_parachain_downgrade(p)
         \/ \E c \in Codes : force_set_current_code(p, c)
         \/ force_set_current_head(p)
         \/ \E c \in Codes : force_schedule_code_upgrade(p, c)
         \/ force_note_new_head(p)
         \/ force_queue_action(p)
    \/ \E c \in Codes, v \in Validators, ok \in BOOLEAN :
         include_pvf_check_statement(c, v, ok)
    \/ \E c \in Codes : add_trusted_validation_code(c)
    \/ \E c \in Codes : poke_unused_validation_code(c)
    \/ EndBlock
    \/ NewSession
    \/ BoundReached

Spec == Init /\ [][Next]_vars

-----------------------------------------------------------------------------
(* Properties.                                                             *)

LifecycleNames ==
    {"Onboarding", "Parathread", "Parachain", "UpgradingParathread",
     "DowngradingParachain", "OffboardingParathread", "OffboardingParachain"}

Cause == [kind : {"onboarding", "upgrade"}, para : ParaIds, relay_parent : Nat]

Vote == [accept : SUBSET Validators, reject : SUBSET Validators, age : Nat,
         causes : Seq(Cause)]

ReplacementTimes == [expected_at : Nat, activated_at : Nat]

StoreOK(s) ==
    /\ IsMap(s.lifecycles, ParaIds, LifecycleNames)
    /\ s.parachains \subseteq ParaIds /\ s.heads \subseteq ParaIds
    /\ IsMap(s.current, ParaIds, Codes) /\ IsMap(s.future, ParaIds, Codes)
    /\ IsMap(s.upgrade_at, ParaIds, Nat)
    /\ IsMap(s.past, ParaIds \X Nat, Codes)
    /\ IsMap(s.meta, ParaIds, Seq(ReplacementTimes))
    /\ s.pruning \subseteq ParaIds \X Nat
    /\ IsMap(s.go_ahead, ParaIds, {"GoAhead", "Abort"})
    /\ s.restricted \subseteq ParaIds
    /\ s.cooldowns \subseteq ParaIds \X Nat /\ s.upcoming \subseteq ParaIds \X Nat
    /\ s.actions \subseteq Nat \X ParaIds
    /\ IsMap(s.genesis, ParaIds, BOOLEAN)
    /\ s.refs \in [Codes -> Nat] /\ s.stored \subseteq Codes
    /\ IsMap(s.votes, Codes, Vote)

\* The storage items have the types paras/mod.rs gives them.
TypeOK ==
    /\ now \in Nat \ {0} /\ session \in Nat
    /\ calls \in 0..CallsPerBlock
    /\ IsMap(pending, ParaIds, [relay_parent : Nat, code : Codes \union {NoCode}])
    /\ StoreOK(st)
    /\ accepted \subseteq Codes
    /\ \A r \in replaced : r.para \in ParaIds /\ r.code \in Codes /\ r.at \in Nat
    /\ forced \in BOOLEAN /\ outlived \in BOOLEAN

Users(s, c) ==
    Cardinality({p \in DOMAIN s.current : s.current[p] = c})
    + Cardinality({p \in DOMAIN s.future : s.future[p] = c})
    + Cardinality({k \in DOMAIN s.past : s.past[k] = c})

\* The reference count of a code is the number of its users: current, future
\* and past code of paras (`CodeByHashRefs`); what is in use is stored.
RefsExact ==
    \A c \in Codes :
        /\ st.refs[c] = Users(st, c)
        /\ st.refs[c] > 0 => c \in st.stored

\* No para is stuck: one in transition is queued for a coming session, or
\* waits for a vote on its code.
NoStuckPara ==
    \A p \in DOMAIN st.lifecycles :
        ~is_stable(st.lifecycles[p]) =>
            \/ \E n \in (session + 1)..(session + SESSION_DELAY) : <<n, p>> \in st.actions
            \/ /\ st.lifecycles[p] = "Onboarding"
               /\ p \in AskedBy(st.votes, "onboarding")

\* Lifecycles, the list of parachains, heads and current code agree.
RegistrationConsistent ==
    /\ st.parachains = {p \in DOMAIN st.lifecycles : is_parachain(st.lifecycles[p])}
    /\ DOMAIN st.current = DOMAIN st.lifecycles
    /\ st.heads = {p \in DOMAIN st.lifecycles : st.lifecycles[p] # "Onboarding"}
    /\ DOMAIN st.genesis = DOMAIN st.lifecycles \ st.heads

\* A live para only runs code that the validators accepted.
LiveCodeChecked ==
    \A p \in st.heads \intersect DOMAIN st.current : st.current[p] \in accepted

\* An upgrade that is scheduled is known, and announced when it is due.
UpgradeConsistent ==
    /\ \A p \in DOMAIN st.upgrade_at :
        /\ p \in DOMAIN st.future
        /\ st.upgrade_at[p] > now <=> <<p, st.upgrade_at[p]>> \in st.upcoming
        /\ st.upgrade_at[p] <= now => GetOr(st.go_ahead, p, "") = "GoAhead"
    /\ \A p \in DOMAIN st.go_ahead :
        st.go_ahead[p] = "GoAhead" => p \in DOMAIN st.upgrade_at

\* Code that was replaced stays stored for the retention period, so that
\* approval and dispute checkers can fetch it.
PastCodeRetained ==
    \A r \in replaced : now <= r.at + Retention => r.code \in st.stored

\* Governance can break the following by force, and so does a vote on an
\* upgrade that outlives its para: it would set an upgrade of the para that is
\* registered anew going.
Undisturbed == ~forced /\ ~outlived

\* That does not happen if paras that are leaving signal no upgrades and votes
\* end within the two sessions that leaving takes (`pvf_voting_ttl` is 2 by
\* default).
LeavesQuietly == ~LateUpgrades /\ VotingTtl <= SESSION_DELAY

\* Lifecycles, the list of parachains, heads and current code agree across
\* registration, rejection, offboarding and what governance forces, and a
\* scheduled upgrade has its code and is announced exactly when due, because
\* the votes that a leaving para has asked for end before it has left.
LifecyclesConsistent ==
    /\ TypeOK
    /\ ~forced => RegistrationConsistent
    /\ Undisturbed => UpgradeConsistent
    /\ ~forced /\ LeavesQuietly => ~outlived

\* Validation code is counted exactly on every path that takes or drops it, a
\* live para runs accepted code only (the PVF vote, enacted at a candidate), and
\* replaced code is stored for the retention period (increase_code_ref,
\* decrease_code_ref, prune_old_code).
CodeKept == Undisturbed => RefsExact /\ LiveCodeChecked /\ PastCodeRetained

\* A para that upgraded cannot upgrade again before its cooldown is over.
CooldownKept ==
    \A u \in st.cooldowns : u[2] > now => u[1] \in st.restricted
=============================================================================
