---------------------------- MODULE ParasProofs ----------------------------
(***************************************************************************)
(* No para gets stuck, lifecycles stay consistent, and validation code is  *)
(* counted, checked and retained exactly, for all paras, codes, validators *)
(* and periods.                                                            *)
(***************************************************************************)
EXTENDS Paras, LoopTheorems, FiniteSetTheorems, SequenceTheorems

(***************************************************************************)
(* The inductive invariant, in parts that are about a storage s.           *)
(***************************************************************************)

Fields ==
    {"lifecycles", "parachains", "heads", "current", "future", "upgrade_at", "past",
     "meta", "pruning", "go_ahead", "restricted", "cooldowns", "upcoming", "actions",
     "genesis", "refs", "stored", "votes"}

Shape(s) == DOMAIN s = Fields /\ s = [f \in Fields |-> s[f]]

\* t differs from s in the fields of F at most.
Same(s, t, F) == \A f \in Fields \ F : t[f] = s[f]

IsStore(s) ==
    /\ Shape(s) /\ StoreOK(s)
    /\ DOMAIN s.meta = ParaIds
    /\ IsFiniteSet(DOMAIN s.past)

\* A para in transition is queued or asked about, and one that is onboarding
\* has its genesis data, without which its action would do nothing.
NeverStuck(s, n) ==
    \A p \in DOMAIN s.lifecycles :
        /\ ~is_stable(s.lifecycles[p]) =>
              \/ <<n + 1, p>> \in s.actions \/ <<n + 2, p>> \in s.actions
              \/ s.lifecycles[p] = "Onboarding" /\ p \in AskedBy(s.votes, "onboarding")
        /\ s.lifecycles[p] = "Onboarding" => p \in DOMAIN s.genesis

Registered(s) ==
    /\ s.parachains = {p \in DOMAIN s.lifecycles : is_parachain(s.lifecycles[p])}
    /\ DOMAIN s.current = DOMAIN s.lifecycles
    /\ s.heads = {p \in DOMAIN s.lifecycles : s.lifecycles[p] # "Onboarding"}
    /\ DOMAIN s.genesis = DOMAIN s.lifecycles \ s.heads

\* A vote on an onboarding is on the current code of a para that is not queued.
OnboardingAsked(s) ==
    \A c \in DOMAIN s.votes : \A p \in ParasIn(s.votes[c].causes, "onboarding") :
        /\ p \in DOMAIN s.lifecycles /\ s.lifecycles[p] = "Onboarding"
        /\ p \in DOMAIN s.current /\ s.current[p] = c
        /\ \A n \in Nat : <<n, p>> \notin s.actions

\* A para is queued once, and while it is in transition only.
ActionsSound(s) ==
    \A n \in Nat, p \in ParaIds : <<n, p>> \in s.actions =>
        /\ p \in DOMAIN s.lifecycles /\ ~is_stable(s.lifecycles[p])
        /\ \A m \in Nat : <<m, p>> \in s.actions => m = n

Lifecycles(s) == Registered(s) /\ OnboardingAsked(s) /\ ActionsSound(s)

Counted(s) ==
    \A c \in Codes : s.refs[c] = Users(s, c) /\ (s.refs[c] > 0 => c \in s.stored)

\* A rejection gives back at least what the code has of references.
VotesCounted(s) ==
    \A c \in DOMAIN s.votes :
        /\ Users(s, c) <= Len(s.votes[c].causes)
        /\ c \in s.stored => s.refs[c] > 0

\* The users of a code under vote are those that asked for the vote.
UsersAsked(s) ==
    \A c \in DOMAIN s.votes :
        /\ \A p \in DOMAIN s.current :
              s.current[p] = c => p \in ParasIn(s.votes[c].causes, "onboarding")
        /\ \A p \in DOMAIN s.future :
              s.future[p] = c => p \in ParasIn(s.votes[c].causes, "upgrade")
        /\ \A k \in DOMAIN s.past : s.past[k] # c

AskedOnce(causes) ==
    \A i, j \in Causes(causes, "upgrade") : causes[i].para = causes[j].para => i = j

\* An upgrade under vote is asked for once, and not scheduled.
UpgradesAsked(s) ==
    \A c \in DOMAIN s.votes :
        /\ \A p \in ParasIn(s.votes[c].causes, "upgrade") :
              p \notin DOMAIN s.upgrade_at /\ (p \in DOMAIN s.future => s.future[p] = c)
        /\ AskedOnce(s.votes[c].causes)

UpgradesAnnounced(s, t) ==
    /\ \A p \in DOMAIN s.upgrade_at :
        /\ p \in DOMAIN s.future
        /\ s.upgrade_at[p] > t => <<p, s.upgrade_at[p]>> \in s.upcoming
        /\ s.upgrade_at[p] <= t => p \in DOMAIN s.go_ahead /\ s.go_ahead[p] = "GoAhead"
    /\ \A p \in DOMAIN s.go_ahead : s.go_ahead[p] = "GoAhead" => p \in DOMAIN s.upgrade_at
    /\ \A p \in ParaIds, n \in Nat : <<p, n>> \in s.upcoming =>
        p \in DOMAIN s.upgrade_at /\ s.upgrade_at[p] = n /\ n > t

\* Codes that are run, scheduled or to be onboarded are accepted, and so is
\* what is stored and not under vote, which needs no further vote.
Accepted(s, codes) ==
    /\ \A p \in DOMAIN s.current \intersect s.heads : s.current[p] \in codes
    /\ \A p \in DOMAIN s.upgrade_at \intersect DOMAIN s.future : s.future[p] \in codes
    /\ \A n \in Nat, p \in DOMAIN s.current \ s.heads :
          <<n, p>> \in s.actions => s.current[p] \in codes
    /\ s.stored \ DOMAIN s.votes \subseteq codes

\* Past code was replaced before now, and before the next upgrade: the keys
\* of past code are never reused.
ReplacedBefore(s, t) ==
    /\ \A k \in DOMAIN s.past :
        k[2] < t /\ (k[1] \in DOMAIN s.upgrade_at => k[2] < s.upgrade_at[k[1]])
    /\ \A p \in ParaIds : \A i \in DOMAIN s.meta[p] :
        /\ s.meta[p][i].expected_at < t
        /\ p \in DOMAIN s.upgrade_at => s.meta[p][i].expected_at < s.upgrade_at[p]

\* Code replaced within the retention period is past code with a log entry
\* that is not older.
Retained(s, t, old) ==
    \A r \in old : t <= r.at + Retention =>
        \E k \in DOMAIN s.past :
            /\ k[1] = r.para /\ s.past[k] = r.code
            /\ \A i \in DOMAIN s.meta[r.para] :
                  s.meta[r.para][i].expected_at = k[2] => r.at <= s.meta[r.para][i].activated_at

\* Upgrades are announced up to block n; block t is under way, or about to be.
CodesSound(s, n, t, codes, old) ==
    /\ Counted(s) /\ VotesCounted(s) /\ UsersAsked(s) /\ UpgradesAsked(s)
    /\ UpgradesAnnounced(s, n) /\ Accepted(s, codes)
    /\ ReplacedBefore(s, t) /\ Retained(s, t, old)

IInv ==
    /\ TypeOK /\ IsStore(st)
    /\ NeverStuck(st, session)
    /\ ~forced => /\ Lifecycles(st)
                  /\ DOMAIN pending \subseteq st.heads
                  /\ \A p \in DOMAIN pending : pending[p].relay_parent < now
    /\ Undisturbed => CodesSound(st, now, now, accepted, replaced) /\ ~Outlives(st)


-----------------------------------------------------------------------------
(* What the operations change of a storage.                                *)

\* t has one reference to c more than s.
RefAdded(s, t, c) ==
    /\ t.refs \in [Codes -> Nat] /\ t.refs[c] = s.refs[c] + 1
    /\ \A d \in Codes : d # c => t.refs[d] = s.refs[d]
    /\ s.refs[c] = 0 => t.stored = s.stored \union {c}
    /\ s.refs[c] # 0 => t.stored = s.stored

LEMMA IncreaseFields ==
    ASSUME NEW s, Shape(s), NEW c \in Codes, s.refs \in [Codes -> Nat],
           NEW t, t = increase_code_ref(s, c)
    PROVE  Shape(t) /\ Same(s, t, {"refs", "stored"}) /\ RefAdded(s, t, c)
<1>1. /\ Shape(t) /\ Same(s, t, {"refs", "stored"})
      /\ t.refs = [s.refs EXCEPT ![c] = s.refs[c] + 1]
      /\ t.stored = IF s.refs[c] = 0 THEN s.stored \union {c} ELSE s.stored
  BY DEF increase_code_ref, Shape, Fields, Same
<1> QED BY <1>1 DEF RefAdded

LEMMA DecreaseFields ==
    ASSUME NEW s, Shape(s), NEW n, NEW t, t = decrease_code_refs(s, n)
    PROVE  /\ Shape(t) /\ Same(s, t, {"refs", "stored"})
           /\ t.refs = [c \in Codes |-> IF n[c] >= s.refs[c] THEN 0 ELSE s.refs[c] - n[c]]
           /\ t.stored = s.stored \ {c \in Codes : 0 < s.refs[c] /\ s.refs[c] <= n[c]}
BY DEF decrease_code_refs, Shape, Fields, Same

LEMMA DecreaseSame ==
    ASSUME NEW s, Shape(s), NEW o, Shape(o), o.refs = s.refs, o.stored = s.stored, NEW n
    PROVE  /\ decrease_code_refs(o, n).refs = decrease_code_refs(s, n).refs
           /\ decrease_code_refs(o, n).stored = decrease_code_refs(s, n).stored
BY DEF decrease_code_refs, Shape, Fields

LEMMA NotePastFields ==
    ASSUME NEW s, Shape(s), NEW old, NEW at, NEW n, NEW t, t = note_past_code(s, old, at, n)
    PROVE  /\ Shape(t) /\ Same(s, t, {"meta", "past", "pruning"})
           /\ DOMAIN t.meta = ParaIds
           /\ \A p \in ParaIds : p \in DOMAIN old =>
                 t.meta[p] = Append(s.meta[p], [expected_at |-> at, activated_at |-> n])
           /\ \A p \in ParaIds : p \notin DOMAIN old => t.meta[p] = s.meta[p]
           /\ DOMAIN t.past = DOMAIN s.past \union ((DOMAIN old) \X {at})
           /\ \A p \in DOMAIN old : t.past[<<p, at>>] = old[p]
           /\ \A k \in DOMAIN s.past : k \notin (DOMAIN old) \X {at} => t.past[k] = s.past[k]
           /\ t.pruning = s.pruning \union ((DOMAIN old) \X {n})
<1> DEFINE time == [expected_at |-> at, activated_at |-> n]
<1>1. /\ Shape(t) /\ Same(s, t, {"meta", "past", "pruning"})
      /\ t.pruning = s.pruning \union ((DOMAIN old) \X {n})
  BY DEF note_past_code, Shape, Fields, Same
<1>2. t.meta = [p \in ParaIds |-> IF p \in DOMAIN old
                                  THEN Append(s.meta[p], time) ELSE s.meta[p]]
  BY DEF note_past_code, Shape, Fields
<1>3. t.past = [k \in DOMAIN s.past \union ((DOMAIN old) \X {at}) |->
                  IF k \in (DOMAIN old) \X {at} THEN old[k[1]] ELSE s.past[k]]
  BY DEF note_past_code, Shape, Fields
<1>4. /\ DOMAIN t.past = DOMAIN s.past \union ((DOMAIN old) \X {at})
      /\ \A p \in DOMAIN old : t.past[<<p, at>>] = old[p]
      /\ \A k \in DOMAIN s.past : k \notin (DOMAIN old) \X {at} => t.past[k] = s.past[k]
  BY <1>3
<1> HIDE DEF time
<1>5. /\ DOMAIN t.meta = ParaIds
      /\ \A p \in ParaIds : p \in DOMAIN old => t.meta[p] = Append(s.meta[p], time)
      /\ \A p \in ParaIds : p \notin DOMAIN old => t.meta[p] = s.meta[p]
  BY <1>2
<1> QED BY <1>1, <1>4, <1>5 DEF time

\* The actions, and the changes that are announced later, of an acceptance.
QueuedAt(n, paras) == {<<n, p>> : p \in paras}
Announcements(causes) ==
    {<<causes[i].para, ExpectedAt(causes[i].relay_parent)>> : i \in Causes(causes, "upgrade")}

LEMMA AcceptFields ==
    ASSUME NEW s, Shape(s), NEW causes, NEW age, NEW t, t = enact_pvf_accepted(s, causes, age)
    PROVE  /\ Shape(t) /\ Same(s, t, {"actions", "upgrade_at", "upcoming"})
           /\ t.actions = proceed_with_onboarding(s, ParasIn(causes, "onboarding"), age).actions
           /\ DOMAIN t.upgrade_at = DOMAIN s.upgrade_at \union ParasIn(causes, "upgrade")
           /\ \A p \in ParasIn(causes, "upgrade") :
                 t.upgrade_at[p] = ExpectedAt(causes[LastUpgrade(causes, p)].relay_parent)
           /\ \A p \in DOMAIN s.upgrade_at :
                 p \notin ParasIn(causes, "upgrade") => t.upgrade_at[p] = s.upgrade_at[p]
           /\ t.upcoming = s.upcoming \union Announcements(causes)
<1> DEFINE u == proceed_with_onboarding(s, ParasIn(causes, "onboarding"), age)
<1>1. Shape(u) /\ Same(s, u, {"actions"})
  BY DEF proceed_with_onboarding, Shape, Fields, Same
<1>2. t = proceed_with_upgrade(u, causes)
  BY DEF enact_pvf_accepted
<1> HIDE DEF u
<1>3. /\ Shape(t) /\ Same(u, t, {"upgrade_at", "upcoming"})
      /\ t.upgrade_at = [p \in DOMAIN u.upgrade_at \union ParasIn(causes, "upgrade") |->
                          IF p \in ParasIn(causes, "upgrade")
                          THEN ExpectedAt(causes[LastUpgrade(causes, p)].relay_parent)
                          ELSE u.upgrade_at[p]]
      /\ t.upcoming = u.upcoming \union Announcements(causes)
  BY <1>1, <1>2 DEF proceed_with_upgrade, Announcements, Shape, Fields, Same
<1>4. u.upgrade_at = s.upgrade_at /\ u.upcoming = s.upcoming /\ t.actions = u.actions
  BY <1>1, <1>3 DEF Same, Fields
<1>5. Same(s, t, {"actions", "upgrade_at", "upcoming"})
  BY <1>1, <1>3 DEF Same
<1> QED BY <1>3, <1>4, <1>5 DEF u

LEMMA RejectFields ==
    ASSUME NEW s, Shape(s), NEW votes, NEW t, t = enact_pvf_rejected(s, votes)
    PROVE  /\ Shape(t)
           /\ Same(s, t, {"refs", "stored", "genesis", "current", "lifecycles", "go_ahead",
                          "future"})
           /\ t.refs = decrease_code_refs(s, Taken(votes)).refs
           /\ t.stored = decrease_code_refs(s, Taken(votes)).stored
           /\ t.genesis = Without(s.genesis, AskedBy(votes, "onboarding"))
           /\ t.current = Without(s.current, AskedBy(votes, "onboarding"))
           /\ t.lifecycles = Without(s.lifecycles, AskedBy(votes, "onboarding"))
           /\ t.go_ahead = [p \in DOMAIN s.go_ahead \union AskedBy(votes, "upgrade") |->
                              IF p \in AskedBy(votes, "upgrade") THEN "Abort"
                              ELSE s.go_ahead[p]]
           /\ t.future = Without(s.future, AskedBy(votes, "upgrade"))
BY DEF enact_pvf_rejected, decrease_code_refs, Shape, Fields, Same

\* What pruning at block n is about.
PrunedParas(s, n) == {d[1] : d \in {e \in s.pruning : e[2] <= n - (Retention + 1)}}
PrunedKeys(s, n) == Prunable(s, PrunedParas(s, n), n - (Retention + 1))
KeysOf(s, keys, c) == {k \in keys : s.past[k] = c}
Freed(s, n) == [c \in Codes |-> Cardinality(KeysOf(s, PrunedKeys(s, n), c))]
KeptMeta(s, p, n) ==
    SubSeq(s.meta[p], Cardinality(Obsolete(s, p, n - (Retention + 1))) + 1, Len(s.meta[p]))

LEMMA PruneFields ==
    ASSUME NEW s, Shape(s), NEW n, NEW t, t = prune_old_code(s, n), ~(n <= Retention)
    PROVE  /\ Shape(t) /\ Same(s, t, {"refs", "stored", "pruning", "past", "meta"})
           /\ t.refs = decrease_code_refs(s, Freed(s, n)).refs
           /\ t.stored = decrease_code_refs(s, Freed(s, n)).stored
           /\ t.pruning \subseteq s.pruning
           /\ t.past = Without(s.past, PrunedKeys(s, n))
           /\ DOMAIN t.meta = ParaIds
           /\ \A p \in ParaIds : p \in PrunedParas(s, n) => t.meta[p] = KeptMeta(s, p, n)
           /\ \A p \in ParaIds : p \notin PrunedParas(s, n) => t.meta[p] = s.meta[p]
<1> DEFINE height == n - (Retention + 1)
           due == {e \in s.pruning : e[2] <= height}
           u == decrease_code_refs(s, Freed(s, n))
           meta == [p \in ParaIds |-> IF p \in PrunedParas(s, n) THEN KeptMeta(s, p, n)
                                      ELSE s.meta[p]]
<1>1. t = [u EXCEPT !.pruning = @ \ due, !.past = Without(@, PrunedKeys(s, n)), !.meta = meta]
  BY DEF prune_old_code, Freed, PrunedKeys, PrunedParas, KeptMeta, KeysOf
<1>2. Shape(u) /\ Same(s, u, {"refs", "stored"})
  BY DecreaseFields
<1> HIDE DEF u, due, meta
<1>3. /\ Shape(t) /\ Same(u, t, {"pruning", "past", "meta"})
      /\ t.pruning = u.pruning \ due
      /\ t.past = Without(u.past, PrunedKeys(s, n))
      /\ t.meta = meta /\ t.refs = u.refs /\ t.stored = u.stored
  BY <1>1, <1>2 DEF Shape, Fields, Same
<1>4. u.pruning = s.pruning /\ u.past = s.past
  BY <1>2 DEF Same, Fields
<1>5. Same(s, t, {"refs", "stored", "pruning", "past", "meta"})
  BY <1>2, <1>3 DEF Same
<1>6. /\ DOMAIN t.meta = ParaIds
      /\ \A p \in ParaIds : p \in PrunedParas(s, n) => t.meta[p] = KeptMeta(s, p, n)
      /\ \A p \in ParaIds : p \notin PrunedParas(s, n) => t.meta[p] = s.meta[p]
  BY <1>3 DEF meta
<1> QED BY <1>3, <1>4, <1>5, <1>6 DEF u

DueUpgrades(s, n) == {u \in s.upcoming : u[2] <= n}
Announced(s, n) == {u[1] : u \in DueUpgrades(s, n)}

LEMMA ChangesFields ==
    ASSUME NEW s, Shape(s), NEW n, NEW t, t = process_scheduled_upgrade_changes(s, n)
    PROVE  /\ Shape(t) /\ Same(s, t, {"upcoming", "go_ahead"})
           /\ t.upcoming = s.upcoming \ DueUpgrades(s, n)
           /\ DOMAIN t.go_ahead = DOMAIN s.go_ahead \union Announced(s, n)
           /\ \A p \in Announced(s, n) : t.go_ahead[p] = "GoAhead"
           /\ \A p \in DOMAIN s.go_ahead : p \notin Announced(s, n) =>
                 t.go_ahead[p] = s.go_ahead[p]
<1>1. /\ Shape(t) /\ Same(s, t, {"upcoming", "go_ahead"})
      /\ t.upcoming = s.upcoming \ DueUpgrades(s, n)
  BY DEF process_scheduled_upgrade_changes, Shape, Fields, Same, DueUpgrades
<1>2. t.go_ahead = [p \in DOMAIN s.go_ahead \union Announced(s, n) |->
                      IF \E u \in DueUpgrades(s, n) : u[1] = p THEN "GoAhead"
                      ELSE s.go_ahead[p]]
  BY DEF process_scheduled_upgrade_changes, Shape, Fields, DueUpgrades, Announced
<1>3. \A p : p \in Announced(s, n) <=> \E u \in DueUpgrades(s, n) : u[1] = p
  BY DEF Announced
<1> QED BY <1>1, <1>2, <1>3

LEMMA CooldownsFields ==
    ASSUME NEW s, Shape(s), NEW n, NEW t, t = process_scheduled_upgrade_cooldowns(s, n)
    PROVE  /\ Shape(t) /\ Same(s, t, {"restricted"}) /\ t.restricted \subseteq s.restricted
BY DEF process_scheduled_upgrade_cooldowns, Shape, Fields, Same

\* What the start of a session is about.
Moved(s, due) == {p \in due \intersect DOMAIN s.lifecycles : AfterAction(s, p) # s.lifecycles[p]}
Initialized(s, due) == {p \in due : IsInitialized(s, p)}
Downgraded(s, due) == {p \in Moved(s, due) : s.lifecycles[p] = "DowngradingParachain"}
Promoted(s, due) == {p \in Moved(s, due) : AfterAction(s, p) = "Parachain"}

LEMMA ApplyFields ==
    ASSUME NEW s, Shape(s), NEW due, NEW t, t = ApplyActions(s, due)
    PROVE  /\ Shape(t) /\ Same(s, t, {"lifecycles", "parachains", "genesis", "heads"})
           /\ DOMAIN t.lifecycles = DOMAIN s.lifecycles
           /\ \A p \in DOMAIN s.lifecycles : p \in due => t.lifecycles[p] = AfterAction(s, p)
           /\ \A p \in DOMAIN s.lifecycles : p \notin due => t.lifecycles[p] = s.lifecycles[p]
           /\ t.parachains = (s.parachains \union Promoted(s, due)) \ Downgraded(s, due)
           /\ t.genesis = Without(s.genesis, Initialized(s, due))
           /\ t.heads = s.heads \union Initialized(s, due)
<1>1. /\ Shape(t) /\ Same(s, t, {"lifecycles", "parachains", "genesis", "heads"})
      /\ t.parachains = (s.parachains \union Promoted(s, due)) \ Downgraded(s, due)
      /\ t.genesis = Without(s.genesis, Initialized(s, due))
      /\ t.heads = s.heads \union Initialized(s, due)
  BY DEF ApplyActions, Shape, Fields, Same, Moved, Promoted, Downgraded, Initialized
<1>2. t.lifecycles = [p \in DOMAIN s.lifecycles |->
                        IF p \in Moved(s, due) THEN AfterAction(s, p) ELSE s.lifecycles[p]]
  BY DEF ApplyActions, Shape, Fields, Moved
<1>3. /\ \A p \in DOMAIN s.lifecycles : p \in due => t.lifecycles[p] = AfterAction(s, p)
      /\ \A p \in DOMAIN s.lifecycles : p \notin due => t.lifecycles[p] = s.lifecycles[p]
  BY <1>2 DEF Moved
<1> QED BY <1>1, <1>2, <1>3

\* Offboarding, up to the note of the past code.
Dropped(s, gone) ==
    [decrease_code_refs(s, FutureRefs(s, gone)) EXCEPT
        !.parachains = @ \ gone, !.heads = @ \ gone,
        !.upgrade_at = Without(@, gone), !.go_ahead = Without(@, gone),
        !.restricted = @ \ gone, !.lifecycles = Without(@, gone),
        !.future = Without(@, gone), !.current = Without(@, gone),
        !.upcoming = {u \in @ : u[1] \notin gone},
        !.cooldowns = {u \in @ : u[1] \notin gone}]

LEMMA DroppedFields ==
    ASSUME NEW s, Shape(s), NEW gone, NEW t, t = Dropped(s, gone)
    PROVE  /\ Shape(t) /\ Same(s, t, {"refs", "stored", "parachains", "heads", "upgrade_at",
                                      "go_ahead", "restricted", "lifecycles", "future",
                                      "current", "upcoming", "cooldowns"})
           /\ t.refs = decrease_code_refs(s, FutureRefs(s, gone)).refs
           /\ t.stored = decrease_code_refs(s, FutureRefs(s, gone)).stored
           /\ t.parachains = s.parachains \ gone /\ t.heads = s.heads \ gone
           /\ t.upgrade_at = Without(s.upgrade_at, gone)
           /\ t.go_ahead = Without(s.go_ahead, gone)
           /\ t.restricted = s.restricted \ gone
           /\ t.lifecycles = Without(s.lifecycles, gone)
           /\ t.future = Without(s.future, gone)
           /\ t.current = Without(s.current, gone)
           /\ t.upcoming = {u \in s.upcoming : u[1] \notin gone}
           /\ t.cooldowns = {u \in s.cooldowns : u[1] \notin gone}
<1> DEFINE u == decrease_code_refs(s, FutureRefs(s, gone))
<1>1. Shape(u) /\ Same(s, u, {"refs", "stored"})
  BY DecreaseFields
<1> HIDE DEF u
<1>2. t = [u EXCEPT !.parachains = @ \ gone, !.heads = @ \ gone,
        !.upgrade_at = Without(@, gone), !.go_ahead = Without(@, gone),
        !.restricted = @ \ gone, !.lifecycles = Without(@, gone),
        !.future = Without(@, gone), !.current = Without(@, gone),
        !.upcoming = {w \in @ : w[1] \notin gone},
        !.cooldowns = {w \in @ : w[1] \notin gone}]
  BY DEF Dropped, u
<1>3. /\ u.parachains = s.parachains /\ u.heads = s.heads /\ u.upgrade_at = s.upgrade_at
      /\ u.go_ahead = s.go_ahead /\ u.restricted = s.restricted /\ u.lifecycles = s.lifecycles
      /\ u.future = s.future /\ u.current = s.current /\ u.upcoming = s.upcoming
      /\ u.cooldowns = s.cooldowns
  BY <1>1 DEF Same, Fields
<1>4. /\ Shape(t) /\ Same(u, t, {"parachains", "heads", "upgrade_at",
                                      "go_ahead", "restricted", "lifecycles", "future",
                                      "current", "upcoming", "cooldowns"})
      /\ t.refs = u.refs /\ t.stored = u.stored
  BY <1>1, <1>2 DEF Shape, Fields, Same
<1>5. /\ t.parachains = u.parachains \ gone /\ t.heads = u.heads \ gone
      /\ t.upgrade_at = Without(u.upgrade_at, gone)
      /\ t.go_ahead = Without(u.go_ahead, gone)
      /\ t.restricted = u.restricted \ gone
  BY <1>1, <1>2 DEF Shape, Fields
<1>7. /\ t.lifecycles = Without(u.lifecycles, gone)
      /\ t.future = Without(u.future, gone)
      /\ t.current = Without(u.current, gone)
  BY <1>1, <1>2 DEF Shape, Fields
<1>8. t.upcoming = {w \in u.upcoming : w[1] \notin gone}
  BY <1>1, <1>2 DEF Shape, Fields
<1>9. t.cooldowns = {w \in u.cooldowns : w[1] \notin gone}
  BY <1>1, <1>2 DEF Shape, Fields
<1>6. Same(s, t, {"refs", "stored", "parachains", "heads", "upgrade_at",
                  "go_ahead", "restricted", "lifecycles", "future",
                  "current", "upcoming", "cooldowns"})
  BY <1>1, <1>4 DEF Same
<1> QED BY <1>3, <1>4, <1>5, <1>7, <1>8, <1>9, <1>6 DEF u

-----------------------------------------------------------------------------
(* Causes of votes.                                                        *)

LEMMA ExpectedAtLater ==
    ASSUME NEW r \in Nat, now \in Nat
    PROVE  ExpectedAt(r) \in Nat /\ ExpectedAt(r) > now
BY ParasAssumption DEF ExpectedAt

LEMMA ParasInSubset ==
    ASSUME NEW causes \in Seq(Cause), NEW kind
    PROVE  ParasIn(causes, kind) \subseteq ParaIds
<1>1. \A i \in DOMAIN causes : causes[i] \in Cause
  OBVIOUS
<1>2. \A x \in Cause : x.para \in ParaIds
  BY DEF Cause
<1> QED BY <1>1, <1>2 DEF ParasIn, Causes

LEMMA ParasInSingle ==
    ASSUME NEW cause, NEW kind
    PROVE  /\ cause.kind = kind => ParasIn(<<cause>>, kind) = {cause.para}
           /\ cause.kind # kind => ParasIn(<<cause>>, kind) = {}
BY DEF ParasIn, Causes

LEMMA ParasInAppend ==
    ASSUME NEW causes \in Seq(Cause), NEW cause \in Cause, NEW kind, NEW q,
           NEW more, more = Append(causes, cause)
    PROVE  q \in ParasIn(more, kind)
             <=> q \in ParasIn(causes, kind) \/ (cause.kind = kind /\ q = cause.para)
<1>1. /\ DOMAIN more = 1..(Len(causes) + 1) /\ DOMAIN causes = 1..Len(causes)
      /\ \A i \in DOMAIN causes : more[i] = causes[i]
      /\ more[Len(causes) + 1] = cause /\ Len(causes) \in Nat
      /\ Len(causes) + 1 \in DOMAIN more
  OBVIOUS
<1>2. \A i \in DOMAIN more : i \in DOMAIN causes \/ i = Len(causes) + 1
  BY <1>1
<1>3. DOMAIN causes \subseteq DOMAIN more
  BY <1>1
<1>4. ParasIn(more, kind) \subseteq ParasIn(causes, kind) \union {cause.para}
  BY <1>1, <1>2 DEF ParasIn, Causes
<1>5. cause.kind # kind => ParasIn(more, kind) \subseteq ParasIn(causes, kind)
  BY <1>1, <1>2 DEF ParasIn, Causes
<1>6. ParasIn(causes, kind) \subseteq ParasIn(more, kind)
  BY <1>1, <1>3 DEF ParasIn, Causes
<1>7. cause.kind = kind => cause.para \in ParasIn(more, kind)
  BY <1>1 DEF ParasIn, Causes
<1> QED BY <1>4, <1>5, <1>6, <1>7

LEMMA LastUpgradeIs ==
    ASSUME NEW causes \in Seq(Cause), NEW p \in ParasIn(causes, "upgrade")
    PROVE  /\ LastUpgrade(causes, p) \in Causes(causes, "upgrade")
           /\ causes[LastUpgrade(causes, p)].para = p
<1> DEFINE is(i) == i \in Causes(causes, "upgrade") /\ causes[i].para = p
           T == {n \in Nat : \E i \in Causes(causes, "upgrade") :
                                causes[i].para = p /\ n = Len(causes) - i}
<1>1. \A i \in Causes(causes, "upgrade") : i \in Nat /\ i <= Len(causes)
  BY DEF Causes
<1>2. Len(causes) \in Nat
  OBVIOUS
<1>3. PICK k \in Causes(causes, "upgrade") : causes[k].para = p
  BY DEF ParasIn
<1>4. Len(causes) - k \in T
  BY <1>1, <1>2, <1>3
<1>5. PICK x \in T : \A y \in T : x <= y
  <2> HIDE DEF T
  <2>1. T \subseteq Nat
    BY DEF T
  <2> QED BY <1>4, <2>1, LeastNatural
<1>6. PICK i \in Causes(causes, "upgrade") : causes[i].para = p /\ x = Len(causes) - i
  BY <1>5
<1>7. ASSUME NEW j \in Causes(causes, "upgrade"), causes[j].para = p PROVE j <= i
  <2>1. Len(causes) - j \in T
    BY <1>1, <1>2, <1>7
  <2>2. Len(causes) - i <= Len(causes) - j
    BY <1>5, <1>6, <2>1
  <2> QED BY <1>1, <1>2, <2>2
<1>8. \E l \in Causes(causes, "upgrade") :
        /\ causes[l].para = p
        /\ \A j \in Causes(causes, "upgrade") : causes[j].para = p => j <= l
  BY <1>6, <1>7
<1> QED BY <1>8 DEF LastUpgrade

LEMMA AskedBySubset ==
    ASSUME NEW votes, IsMap(votes, Codes, Vote), NEW kind
    PROVE  AskedBy(votes, kind) \subseteq ParaIds
BY ParasInSubset DEF AskedBy, IsMap, Vote

LEMMA TakenType ==
    ASSUME NEW votes, IsMap(votes, Codes, Vote)
    PROVE  Taken(votes) \in [Codes -> Nat]
BY DEF Taken, IsMap, Vote

-----------------------------------------------------------------------------
(* The operations keep the storage well formed.                            *)

LEMMA DecreaseStore ==
    ASSUME NEW s, IsStore(s), NEW n \in [Codes -> Nat], NEW t, t = decrease_code_refs(s, n)
    PROVE  IsStore(t)
<1>1. /\ Shape(t) /\ Same(s, t, {"refs", "stored"})
      /\ t.refs = [c \in Codes |-> IF n[c] >= s.refs[c] THEN 0 ELSE s.refs[c] - n[c]]
      /\ t.stored \subseteq s.stored
  <2>1. Shape(s)
    BY DEF IsStore
  <2> QED BY <2>1, DecreaseFields
<1>2. t.refs \in [Codes -> Nat] /\ t.stored \subseteq Codes
  BY <1>1 DEF IsStore, StoreOK
<1> QED BY <1>1, <1>2 DEF IsStore, StoreOK, Same, Fields

LEMMA NotePastStore ==
    ASSUME NEW s, IsStore(s), NEW old, IsMap(old, ParaIds, Codes),
           NEW at \in Nat, NEW n \in Nat, NEW t, t = note_past_code(s, old, at, n)
    PROVE  IsStore(t)
<1> DEFINE time == [expected_at |-> at, activated_at |-> n]
           keys == (DOMAIN old) \X {at}
<1>1. Shape(s) /\ DOMAIN s.meta = ParaIds /\ DOMAIN old \subseteq ParaIds
  BY DEF IsStore, IsMap
<1>2. /\ Shape(t) /\ Same(s, t, {"meta", "past", "pruning"})
      /\ DOMAIN t.meta = ParaIds
      /\ \A p \in ParaIds : p \in DOMAIN old => t.meta[p] = Append(s.meta[p], time)
      /\ \A p \in ParaIds : p \notin DOMAIN old => t.meta[p] = s.meta[p]
      /\ DOMAIN t.past = DOMAIN s.past \union keys
      /\ \A p \in DOMAIN old : t.past[<<p, at>>] = old[p]
      /\ \A k \in DOMAIN s.past : k \notin keys => t.past[k] = s.past[k]
      /\ t.pruning = s.pruning \union ((DOMAIN old) \X {n})
  BY <1>1, NotePastFields
<1>3. time \in ReplacementTimes
  BY DEF ReplacementTimes
<1>4. DOMAIN t.meta = ParaIds /\ IsMap(t.meta, ParaIds, Seq(ReplacementTimes))
  <2> HIDE DEF time, keys
  <2>1. \A p \in ParaIds : s.meta[p] \in Seq(ReplacementTimes)
    BY <1>1 DEF IsStore, StoreOK, IsMap
  <2>2. \A q \in Seq(ReplacementTimes) : Append(q, time) \in Seq(ReplacementTimes)
    BY <1>3
  <2> QED BY <1>2, <2>1, <2>2 DEF IsMap
<1>5. IsMap(t.past, ParaIds \X Nat, Codes)
  BY <1>1, <1>2 DEF IsStore, StoreOK, IsMap
<1>6. t.pruning \subseteq ParaIds \X Nat
  BY <1>1, <1>2 DEF IsStore, StoreOK
<1>7. IsFiniteSet(DOMAIN t.past)
  <2>1. IsFiniteSet(DOMAIN old)
    BY <1>1, FS_Subset, ParasAssumption
  <2>2. IsFiniteSet(keys)
    BY <2>1, FS_Product, FS_Singleton
  <2>3. DOMAIN t.past = DOMAIN s.past \union keys
    BY <1>2
  <2>4. IsFiniteSet(DOMAIN s.past)
    BY DEF IsStore
  <2> HIDE DEF keys
  <2> QED BY <2>2, <2>3, <2>4, FS_Union
<1> QED BY <1>2, <1>4, <1>5, <1>6, <1>7 DEF IsStore, StoreOK, Same, Fields

LEMMA AcceptStore ==
    ASSUME NEW s, IsStore(s), NEW causes \in Seq(Cause), NEW age \in Nat,
           now \in Nat, session \in Nat,
           NEW t, t = enact_pvf_accepted(s, causes, age)
    PROVE  /\ IsStore(t)
           /\ \E n \in {session + 1, session + 2} :
                 t.actions = s.actions \union QueuedAt(n, ParasIn(causes, "onboarding"))
<1>1. Shape(s) /\ s.actions \subseteq Nat \X ParaIds
  BY DEF IsStore, StoreOK
<1>2. /\ Shape(t) /\ Same(s, t, {"actions", "upgrade_at", "upcoming"})
      /\ t.actions = proceed_with_onboarding(s, ParasIn(causes, "onboarding"), age).actions
      /\ DOMAIN t.upgrade_at = DOMAIN s.upgrade_at \union ParasIn(causes, "upgrade")
      /\ \A p \in ParasIn(causes, "upgrade") :
            t.upgrade_at[p] = ExpectedAt(causes[LastUpgrade(causes, p)].relay_parent)
      /\ \A p \in DOMAIN s.upgrade_at :
            p \notin ParasIn(causes, "upgrade") => t.upgrade_at[p] = s.upgrade_at[p]
      /\ t.upcoming = s.upcoming \union Announcements(causes)
  BY <1>1, AcceptFields
<1>3. \E n \in {session + 1, session + 2} :
         t.actions = s.actions \union QueuedAt(n, ParasIn(causes, "onboarding"))
  <2> DEFINE wait == SESSION_DELAY - age
             n == session + (IF wait > 1 THEN wait ELSE 1)
  <2>1. n \in {session + 1, session + 2}
    BY DEF SESSION_DELAY
  <2>2. t.actions = s.actions \union QueuedAt(n, ParasIn(causes, "onboarding"))
    BY <1>1, <1>2 DEF proceed_with_onboarding, QueuedAt, Shape, Fields
  <2> HIDE DEF n
  <2> QED BY <2>1, <2>2
<1>4. t.actions \subseteq Nat \X ParaIds
  BY <1>1, <1>3, ParasInSubset DEF QueuedAt
<1>5. \A i \in Causes(causes, "upgrade") :
         /\ causes[i].para \in ParaIds /\ causes[i].relay_parent \in Nat
         /\ ExpectedAt(causes[i].relay_parent) \in Nat
  <2>1. \A i \in DOMAIN causes : causes[i] \in Cause
    OBVIOUS
  <2>2. \A x \in Cause : x.para \in ParaIds /\ x.relay_parent \in Nat
    BY DEF Cause
  <2> QED BY <2>1, <2>2, ExpectedAtLater DEF Causes
<1>6. IsMap(t.upgrade_at, ParaIds, Nat)
  <2>1. DOMAIN t.upgrade_at \subseteq ParaIds
    BY <1>2, ParasInSubset DEF IsStore, StoreOK, IsMap
  <2>2. ASSUME NEW p \in DOMAIN t.upgrade_at PROVE t.upgrade_at[p] \in Nat
    <3>1. CASE p \in ParasIn(causes, "upgrade")
      BY <1>2, <1>5, <3>1, LastUpgradeIs
    <3>2. CASE p \notin ParasIn(causes, "upgrade")
      BY <1>2, <3>2 DEF IsStore, StoreOK, IsMap
    <3> QED BY <3>1, <3>2
  <2> QED BY <2>1, <2>2 DEF IsMap
<1>7. t.upcoming \subseteq ParaIds \X Nat
  BY <1>2, <1>5 DEF IsStore, StoreOK, Announcements
<1> QED BY <1>2, <1>3, <1>4, <1>6, <1>7 DEF IsStore, StoreOK, Same, Fields

LEMMA RejectStore ==
    ASSUME NEW s, IsStore(s), NEW votes, IsMap(votes, Codes, Vote),
           NEW t, t = enact_pvf_rejected(s, votes)
    PROVE  IsStore(t)
<1>1. Shape(s)
  BY DEF IsStore
<1>2. Taken(votes) \in [Codes -> Nat] /\ AskedBy(votes, "upgrade") \subseteq ParaIds
  BY TakenType, AskedBySubset
<1>3. /\ Shape(t)
      /\ Same(s, t, {"refs", "stored", "genesis", "current", "lifecycles", "go_ahead", "future"})
      /\ t.refs = decrease_code_refs(s, Taken(votes)).refs
      /\ t.stored = decrease_code_refs(s, Taken(votes)).stored
      /\ t.genesis = Without(s.genesis, AskedBy(votes, "onboarding"))
      /\ t.current = Without(s.current, AskedBy(votes, "onboarding"))
      /\ t.lifecycles = Without(s.lifecycles, AskedBy(votes, "onboarding"))
      /\ t.go_ahead = [p \in DOMAIN s.go_ahead \union AskedBy(votes, "upgrade") |->
                         IF p \in AskedBy(votes, "upgrade") THEN "Abort" ELSE s.go_ahead[p]]
      /\ t.future = Without(s.future, AskedBy(votes, "upgrade"))
  BY <1>1, RejectFields
<1>4. t.refs \in [Codes -> Nat] /\ t.stored \subseteq Codes
  <2>1. IsStore(decrease_code_refs(s, Taken(votes)))
    BY <1>2, DecreaseStore
  <2> QED BY <1>3, <2>1 DEF IsStore, StoreOK
<1>5. /\ IsMap(t.genesis, ParaIds, BOOLEAN) /\ IsMap(t.current, ParaIds, Codes)
      /\ IsMap(t.lifecycles, ParaIds, LifecycleNames) /\ IsMap(t.future, ParaIds, Codes)
  BY <1>3 DEF IsStore, StoreOK, IsMap, Without
<1>6. IsMap(t.go_ahead, ParaIds, {"GoAhead", "Abort"})
  BY <1>2, <1>3 DEF IsStore, StoreOK, IsMap
<1> QED BY <1>3, <1>4, <1>5, <1>6 DEF IsStore, StoreOK, Same, Fields

LEMMA ObsoletePrefix ==
    ASSUME NEW s, NEW p, s.meta[p] \in Seq(ReplacementTimes), NEW height \in Int
    PROVE  /\ Cardinality(Obsolete(s, p, height)) \in Nat
           /\ Cardinality(Obsolete(s, p, height)) <= Len(s.meta[p])
<1> DEFINE q == s.meta[p]
<1>1. Len(q) \in Nat /\ DOMAIN q = 1..Len(q)
  OBVIOUS
<1>2. Obsolete(s, p, height) \in SUBSET (1..Len(q))
  BY <1>1 DEF Obsolete
<1>3. IsFiniteSet(1..Len(q)) /\ Cardinality(1..Len(q)) = Len(q)
  BY <1>1, FS_Interval
<1> HIDE DEF q
<1>4. /\ IsFiniteSet(Obsolete(s, p, height))
      /\ Cardinality(Obsolete(s, p, height)) <= Cardinality(1..Len(q))
  BY <1>2, <1>3, FS_Subset
<1> QED BY <1>3, <1>4, FS_CardinalityType DEF q

\* Pruning keeps a part of the log.
LEMMA PruneMeta ==
    ASSUME NEW s, IsStore(s), NEW n \in Nat, NEW t, t = prune_old_code(s, n),
           ~(n <= Retention)
    PROVE  /\ DOMAIN t.meta = ParaIds
           /\ \A p \in ParaIds :
                /\ t.meta[p] \in Seq(ReplacementTimes)
                /\ \A i \in DOMAIN t.meta[p] : \E j \in DOMAIN s.meta[p] :
                      t.meta[p][i] = s.meta[p][j]
<1>1. /\ DOMAIN t.meta = ParaIds
      /\ \A p \in ParaIds : p \in PrunedParas(s, n) => t.meta[p] = KeptMeta(s, p, n)
      /\ \A p \in ParaIds : p \notin PrunedParas(s, n) => t.meta[p] = s.meta[p]
  <2>1. Shape(s)
    BY DEF IsStore
  <2> QED BY <2>1, PruneFields
<1>2. n - (Retention + 1) \in Int
  BY ParasAssumption
<1>3. ASSUME NEW p \in ParaIds
      PROVE  /\ t.meta[p] \in Seq(ReplacementTimes)
             /\ \A i \in DOMAIN t.meta[p] : \E j \in DOMAIN s.meta[p] :
                   t.meta[p][i] = s.meta[p][j]
  <2> DEFINE q == s.meta[p]
             height == n - (Retention + 1)
             gone == Cardinality(Obsolete(s, p, height))
             r == SubSeq(q, gone + 1, Len(q))
  <2>1. q \in Seq(ReplacementTimes)
    BY DEF IsStore, StoreOK, IsMap
  <2>2. gone \in Nat /\ Len(q) \in Nat
    <3>1. height \in Int
      BY <1>2
    <3> HIDE DEF height
    <3> QED BY <2>1, <3>1, ObsoletePrefix
  <2> HIDE DEF gone
  <2>3. CASE p \in PrunedParas(s, n)
    <3>1. t.meta[p] = r
      BY <1>1, <2>3 DEF gone, KeptMeta
    <3> HIDE DEF q
    <3>2. \A i \in (gone + 1)..Len(q) : i \in DOMAIN q /\ q[i] \in ReplacementTimes
      BY <2>1, <2>2
    <3>3. /\ r \in Seq(ReplacementTimes)
          /\ Len(r) = IF gone + 1 <= Len(q) THEN Len(q) - (gone + 1) + 1 ELSE 0
          /\ \A i \in 1..(Len(q) - (gone + 1) + 1) : r[i] = q[gone + 1 + i - 1]
      BY <2>2, <3>2, SubSeqProperties
    <3> HIDE DEF r
    <3>4. ASSUME NEW i \in DOMAIN r PROVE \E j \in DOMAIN q : r[i] = q[j]
      <4>1. i \in 1..Len(r)
        BY <3>3
      <4>2. i \in 1..(Len(q) - (gone + 1) + 1) /\ gone + 1 + i - 1 \in (gone + 1)..Len(q)
        BY <2>2, <3>3, <4>1
      <4> QED BY <3>2, <3>3, <4>2
    <3> QED BY <3>1, <3>3, <3>4 DEF q
  <2>4. CASE p \notin PrunedParas(s, n)
    BY <1>1, <2>1, <2>4
  <2> QED BY <2>3, <2>4
<1> QED BY <1>1, <1>3

LEMMA FreedType ==
    ASSUME NEW s, IsStore(s), NEW n
    PROVE  Freed(s, n) \in [Codes -> Nat] /\ PrunedKeys(s, n) \subseteq DOMAIN s.past
<1>1. PrunedKeys(s, n) \subseteq DOMAIN s.past
  BY DEF PrunedKeys, Prunable
<1>2. \A c : KeysOf(s, PrunedKeys(s, n), c) \in SUBSET DOMAIN s.past
  BY <1>1 DEF KeysOf
<1>3. IsFiniteSet(DOMAIN s.past)
  BY DEF IsStore
<1>4. \A c : Cardinality(KeysOf(s, PrunedKeys(s, n), c)) \in Nat
  BY <1>2, <1>3, FS_Subset, FS_CardinalityType
<1> QED BY <1>1, <1>4 DEF Freed

LEMMA PruneStore ==
    ASSUME NEW s, IsStore(s), NEW n \in Nat, NEW t, t = prune_old_code(s, n)
    PROVE  IsStore(t)
<1>1. CASE n <= Retention
  BY <1>1 DEF prune_old_code
<1>2. CASE ~(n <= Retention)
  <2> DEFINE d == decrease_code_refs(s, Freed(s, n))
  <2>1. Shape(s) /\ IsFiniteSet(DOMAIN s.past)
    BY DEF IsStore
  <2>2. IsStore(d)
    BY FreedType, DecreaseStore
  <2>3. /\ Shape(t) /\ Same(s, t, {"refs", "stored", "pruning", "past", "meta"})
        /\ t.refs = d.refs /\ t.stored = d.stored
        /\ t.pruning \subseteq s.pruning
        /\ t.past = Without(s.past, PrunedKeys(s, n))
    BY <1>2, <2>1, PruneFields
  <2> HIDE DEF d
  <2>4. t.refs \in [Codes -> Nat] /\ t.stored \subseteq Codes
    BY <2>2, <2>3 DEF IsStore, StoreOK
  <2>5. t.pruning \subseteq ParaIds \X Nat
    BY <2>3 DEF IsStore, StoreOK
  <2>6. IsMap(t.past, ParaIds \X Nat, Codes) /\ IsFiniteSet(DOMAIN t.past)
    <3>1. DOMAIN t.past \subseteq DOMAIN s.past /\ \A k \in DOMAIN t.past : t.past[k] = s.past[k]
      BY <2>3 DEF Without
    <3>2. IsFiniteSet(DOMAIN t.past)
      BY <2>1, <3>1, FS_Subset
    <3> QED BY <3>1, <3>2 DEF IsStore, StoreOK, IsMap
  <2>7. DOMAIN t.meta = ParaIds /\ IsMap(t.meta, ParaIds, Seq(ReplacementTimes))
    BY <1>2, PruneMeta DEF IsMap
  <2> QED BY <2>3, <2>4, <2>5, <2>6, <2>7 DEF IsStore, StoreOK, Same, Fields
<1> QED BY <1>1, <1>2

LEMMA ChangesStore ==
    ASSUME NEW s, IsStore(s), NEW n \in Nat,
           NEW t, t = process_scheduled_upgrade_changes(s, n)
    PROVE  IsStore(t)
<1>1. Shape(s) /\ Announced(s, n) \subseteq ParaIds
  BY DEF IsStore, StoreOK, Announced, DueUpgrades
<1>2. /\ Shape(t) /\ Same(s, t, {"upcoming", "go_ahead"})
      /\ t.upcoming = s.upcoming \ DueUpgrades(s, n)
      /\ DOMAIN t.go_ahead = DOMAIN s.go_ahead \union Announced(s, n)
      /\ \A p \in Announced(s, n) : t.go_ahead[p] = "GoAhead"
      /\ \A p \in DOMAIN s.go_ahead : p \notin Announced(s, n) => t.go_ahead[p] = s.go_ahead[p]
  BY <1>1, ChangesFields
<1>3. t.upcoming \subseteq ParaIds \X Nat
  BY <1>2 DEF IsStore, StoreOK
<1>4. IsMap(t.go_ahead, ParaIds, {"GoAhead", "Abort"})
  BY <1>1, <1>2 DEF IsStore, StoreOK, IsMap
<1> QED BY <1>2, <1>3, <1>4 DEF IsStore, StoreOK, Same, Fields

LEMMA CooldownsStore ==
    ASSUME NEW s, IsStore(s), NEW n,
           NEW t, t = process_scheduled_upgrade_cooldowns(s, n)
    PROVE  IsStore(t)
<1>1. Shape(s)
  BY DEF IsStore
<1>2. Shape(t) /\ Same(s, t, {"restricted"}) /\ t.restricted \subseteq s.restricted
  BY <1>1, CooldownsFields
<1> QED BY <1>2 DEF IsStore, StoreOK, Same, Fields

LEMMA ApplyStore ==
    ASSUME NEW s, IsStore(s), NEW due \in SUBSET ParaIds, NEW t, t = ApplyActions(s, due)
    PROVE  IsStore(t)
<1>1. Shape(s) /\ Promoted(s, due) \subseteq ParaIds /\ Initialized(s, due) \subseteq ParaIds
  BY DEF IsStore, Promoted, Moved, Initialized
<1>2. /\ Shape(t) /\ Same(s, t, {"lifecycles", "parachains", "genesis", "heads"})
      /\ DOMAIN t.lifecycles = DOMAIN s.lifecycles
      /\ \A p \in DOMAIN s.lifecycles : p \in due => t.lifecycles[p] = AfterAction(s, p)
      /\ \A p \in DOMAIN s.lifecycles : p \notin due => t.lifecycles[p] = s.lifecycles[p]
      /\ t.parachains = (s.parachains \union Promoted(s, due)) \ Downgraded(s, due)
      /\ t.genesis = Without(s.genesis, Initialized(s, due))
      /\ t.heads = s.heads \union Initialized(s, due)
  BY <1>1, ApplyFields
<1>3. \A p \in DOMAIN s.lifecycles : AfterAction(s, p) \in LifecycleNames
  BY DEF AfterAction, LifecycleNames, IsStore, StoreOK, IsMap
<1>4. IsMap(t.lifecycles, ParaIds, LifecycleNames)
  BY <1>2, <1>3 DEF IsStore, StoreOK, IsMap
<1>5. t.parachains \subseteq ParaIds /\ t.heads \subseteq ParaIds
  BY <1>1, <1>2 DEF IsStore, StoreOK
<1>6. IsMap(t.genesis, ParaIds, BOOLEAN)
  BY <1>2 DEF IsStore, StoreOK, IsMap, Without
<1> QED BY <1>2, <1>4, <1>5, <1>6 DEF IsStore, StoreOK, Same, Fields

LEMMA FutureRefsType ==
    ASSUME NEW s, NEW paras \in SUBSET ParaIds
    PROVE  FutureRefs(s, paras) \in [Codes -> Nat]
<1>1. \A c : {p \in paras \intersect DOMAIN s.future : s.future[p] = c} \in SUBSET ParaIds
  OBVIOUS
<1>2. \A c : Cardinality({p \in paras \intersect DOMAIN s.future : s.future[p] = c}) \in Nat
  BY <1>1, FS_Subset, FS_CardinalityType, ParasAssumption
<1> QED BY <1>2 DEF FutureRefs

LEMMA DroppedStore ==
    ASSUME NEW s, IsStore(s), NEW gone \in SUBSET ParaIds, NEW t, t = Dropped(s, gone)
    PROVE  IsStore(t)
<1>1. Shape(s)
  BY DEF IsStore
<1> DEFINE d == decrease_code_refs(s, FutureRefs(s, gone))
<1>2. IsStore(d)
  BY FutureRefsType, DecreaseStore
<1>3. /\ Shape(t) /\ Same(s, t, {"refs", "stored", "parachains", "heads", "upgrade_at",
                                 "go_ahead", "restricted", "lifecycles", "future",
                                 "current", "upcoming", "cooldowns"})
      /\ t.refs = d.refs /\ t.stored = d.stored
      /\ t.parachains = s.parachains \ gone /\ t.heads = s.heads \ gone
      /\ t.upgrade_at = Without(s.upgrade_at, gone)
      /\ t.go_ahead = Without(s.go_ahead, gone)
      /\ t.restricted = s.restricted \ gone
      /\ t.lifecycles = Without(s.lifecycles, gone)
      /\ t.future = Without(s.future, gone)
      /\ t.current = Without(s.current, gone)
      /\ t.upcoming \subseteq s.upcoming
      /\ t.cooldowns \subseteq s.cooldowns
  BY <1>1, DroppedFields
<1> HIDE DEF d
<1>4. /\ t.parachains \subseteq ParaIds /\ t.heads \subseteq ParaIds
      /\ t.restricted \subseteq ParaIds
      /\ t.upcoming \subseteq ParaIds \X Nat /\ t.cooldowns \subseteq ParaIds \X Nat
  BY <1>3 DEF IsStore, StoreOK
<1>5. /\ IsMap(t.upgrade_at, ParaIds, Nat) /\ IsMap(t.go_ahead, ParaIds, {"GoAhead", "Abort"})
      /\ IsMap(t.lifecycles, ParaIds, LifecycleNames)
  BY <1>3 DEF IsStore, StoreOK, IsMap, Without
<1>6. IsMap(t.future, ParaIds, Codes) /\ IsMap(t.current, ParaIds, Codes)
  BY <1>3 DEF IsStore, StoreOK, IsMap, Without
<1>7. t.refs \in [Codes -> Nat] /\ t.stored \subseteq Codes
  BY <1>2, <1>3 DEF IsStore, StoreOK
<1> QED BY <1>3, <1>4, <1>5, <1>6, <1>7 DEF IsStore, StoreOK, Same, Fields

\* The current code of the paras in gone.
OldCodes(s, gone) == [p \in gone \intersect DOMAIN s.current |-> s.current[p]]

LEMMA OffboardStore ==
    ASSUME NEW s, IsStore(s), NEW gone \in SUBSET ParaIds, now \in Nat,
           NEW t, t = Offboard(s, gone)
    PROVE  /\ IsStore(t) /\ IsStore(Dropped(s, gone))
           /\ IsMap(OldCodes(s, gone), ParaIds, Codes)
           /\ t = note_past_code(Dropped(s, gone), OldCodes(s, gone), now, now)
<1>1. t = note_past_code(Dropped(s, gone), OldCodes(s, gone), now, now)
  BY DEF Offboard, Dropped, OldCodes
<1>2. IsMap(OldCodes(s, gone), ParaIds, Codes)
  BY DEF OldCodes, IsMap, IsStore, StoreOK
<1>3. IsStore(Dropped(s, gone))
  BY DroppedStore
<1> QED BY <1>1, <1>2, <1>3, NotePastStore

\* A session change takes the actions that are due, applies them and offboards.
DueParas(s, index) == {p \in ParaIds : <<index, p>> \in s.actions}
GoneParas(s, index) == {p \in DueParas(s, index) : IsOffboarding(s, p)}
Dequeued(s, index) == [s EXCEPT !.actions = @ \ ({index} \X ParaIds)]
Applied(s, index) == ApplyActions(Dequeued(s, index), DueParas(s, index))

LEMMA DequeuedIs ==
    ASSUME NEW s, IsStore(s), NEW index, NEW t, t = Dequeued(s, index)
    PROVE  IsStore(t) /\ Same(s, t, {"actions"}) /\ t.actions = s.actions \ ({index} \X ParaIds)
<1>1. /\ Shape(t) /\ Same(s, t, {"actions"}) /\ t.actions = s.actions \ ({index} \X ParaIds)
  BY DEF IsStore, Shape, Fields, Same, Dequeued
<1> QED BY <1>1 DEF IsStore, StoreOK, Same, Fields

LEMMA QueueIs ==
    ASSUME NEW s, IsStore(s), NEW index, now \in Nat, NEW t, t = apply_actions_queue(s, index)
    PROVE  /\ t = Offboard(Applied(s, index), GoneParas(s, index))
           /\ IsStore(Applied(s, index)) /\ IsStore(t)
           /\ GoneParas(s, index) \in SUBSET ParaIds
<1>1. t = Offboard(Applied(s, index), GoneParas(s, index))
  BY DEF apply_actions_queue, Applied, Dequeued, GoneParas, DueParas
<1>2. DueParas(s, index) \in SUBSET ParaIds /\ GoneParas(s, index) \in SUBSET ParaIds
  BY DEF GoneParas, DueParas
<1>3. IsStore(Applied(s, index))
  BY <1>2, DequeuedIs, ApplyStore DEF Applied
<1> QED BY <1>1, <1>2, <1>3, OffboardStore

LEMMA VoteTypes ==
    /\ \A p \in ParaIds : Onboarding(p) \in Cause /\ Onboarding(p).kind = "onboarding"
                          /\ Onboarding(p).para = p
    /\ \A p \in ParaIds, n \in Nat :
          Upgrade(p, n) \in Cause /\ Upgrade(p, n).kind = "upgrade"
          /\ Upgrade(p, n).para = p /\ Upgrade(p, n).relay_parent = n
BY DEF Onboarding, Upgrade, Cause

\* The votes of kick_off_pvf_check, which adds a cause to a vote or starts one.
WithCause(votes, c, cause) ==
    IF c \in DOMAIN votes THEN [votes EXCEPT ![c].causes = Append(@, cause)]
    ELSE Put(votes, c, [accept |-> {}, reject |-> {}, age |-> 0, causes |-> <<cause>>])

CauseAdded(votes, w, c, cause) ==
    /\ DOMAIN w = DOMAIN votes \union {c}
    /\ \A d \in DOMAIN votes : d # c => w[d] = votes[d]
    /\ c \in DOMAIN votes => /\ w[c].causes = Append(votes[c].causes, cause)
                             /\ w[c].age = votes[c].age
    /\ c \notin DOMAIN votes => w[c].causes = <<cause>>

LEMMA WithCauseIs ==
    ASSUME NEW votes, IsMap(votes, Codes, Vote), NEW c \in Codes, NEW cause \in Cause,
           NEW w, w = WithCause(votes, c, cause)
    PROVE  IsMap(w, Codes, Vote) /\ CauseAdded(votes, w, c, cause)
<1>1. CASE c \in DOMAIN votes
  <2>1. w = [votes EXCEPT ![c].causes = Append(@, cause)]
    BY <1>1 DEF WithCause
  <2>2. votes[c] \in Vote /\ \A d \in DOMAIN votes : d \in Codes /\ votes[d] \in Vote
    BY <1>1 DEF IsMap
  <2>3. DOMAIN w = DOMAIN votes /\ \A d \in DOMAIN votes : d # c => w[d] = votes[d]
    BY <2>1
  <2>4. w[c] = [votes[c] EXCEPT !.causes = Append(@, cause)]
    BY <1>1, <2>1
  <2>5. /\ w[c] \in Vote /\ w[c].causes = Append(votes[c].causes, cause)
        /\ w[c].age = votes[c].age
    <3>1. votes[c].causes \in Seq(Cause)
      BY <2>2 DEF Vote
    <3>2. Append(votes[c].causes, cause) \in Seq(Cause)
      BY <3>1
    <3> QED BY <2>2, <2>4, <3>2 DEF Vote
  <2> QED BY <1>1, <2>2, <2>3, <2>5 DEF IsMap, CauseAdded
<1>2. CASE c \notin DOMAIN votes
  <2> DEFINE new == [accept |-> {}, reject |-> {}, age |-> 0, causes |-> <<cause>>]
  <2>1. w = Put(votes, c, new)
    BY <1>2 DEF WithCause
  <2>2. new \in Vote /\ new.causes = <<cause>>
    BY DEF Vote
  <2> HIDE DEF new
  <2>3. /\ DOMAIN w = DOMAIN votes \union {c} /\ w[c] = new
        /\ \A d \in DOMAIN votes : d # c => w[d] = votes[d]
    BY <2>1 DEF Put
  <2> QED BY <1>2, <2>2, <2>3 DEF IsMap, CauseAdded
<1> QED BY <1>1, <1>2

\* kick_off_pvf_check either adds to the votes or accepts at once.
LEMMA KickOffIs ==
    ASSUME NEW s, Shape(s), s.refs \in [Codes -> Nat], NEW c \in Codes, NEW cause,
           NEW t, t = kick_off_pvf_check(s, cause, c)
    PROVE  /\ Shape(t) /\ RefAdded(s, t, c)
           /\ ~FastTracked(s, c) => /\ Same(s, t, {"refs", "stored", "votes"})
                                    /\ t.votes = WithCause(s.votes, c, cause)
           /\ FastTracked(s, c) =>
                LET u == enact_pvf_accepted(s, <<cause>>, 0)
                IN  /\ Same(s, t, {"refs", "stored", "actions", "upgrade_at", "upcoming"})
                    /\ t.actions = u.actions /\ t.upgrade_at = u.upgrade_at
                    /\ t.upcoming = u.upcoming
<1>1. CASE FastTracked(s, c)
  <2> DEFINE u == enact_pvf_accepted(s, <<cause>>, 0)
  <2>1. t = increase_code_ref(u, c)
    BY <1>1 DEF kick_off_pvf_check, FastTracked
  <2>2. Shape(u) /\ Same(s, u, {"actions", "upgrade_at", "upcoming"})
    BY AcceptFields
  <2> HIDE DEF u
  <2>3. u.refs = s.refs /\ u.stored = s.stored
    BY <2>2 DEF Same, Fields
  <2>4. Shape(t) /\ Same(u, t, {"refs", "stored"}) /\ RefAdded(u, t, c)
    BY <2>1, <2>2, <2>3, IncreaseFields
  <2>5. t.actions = u.actions /\ t.upgrade_at = u.upgrade_at /\ t.upcoming = u.upcoming
    BY <2>4 DEF Same, Fields
  <2>6. Same(s, t, {"refs", "stored", "actions", "upgrade_at", "upcoming"})
    BY <2>2, <2>4 DEF Same
  <2>7. RefAdded(s, t, c)
    BY <2>3, <2>4 DEF RefAdded
  <2> QED BY <1>1, <2>4, <2>5, <2>6, <2>7 DEF u
<1>2. CASE ~FastTracked(s, c)
  <2> DEFINE u == [s EXCEPT !.votes = WithCause(s.votes, c, cause)]
  <2>1. t = increase_code_ref(u, c)
    <3>1. CASE c \in DOMAIN s.votes
      <4>1. [s EXCEPT !.votes[c].causes = Append(@, cause)] = u
        BY <3>1 DEF WithCause, Shape, Fields
      <4> QED BY <3>1, <4>1 DEF kick_off_pvf_check
    <3>2. CASE c \notin DOMAIN s.votes
      BY <1>2, <3>2 DEF kick_off_pvf_check, WithCause
    <3> QED BY <3>1, <3>2
  <2>2. Shape(u) /\ Same(s, u, {"votes"}) /\ u.votes = WithCause(s.votes, c, cause)
    BY DEF Shape, Fields, Same
  <2> HIDE DEF u
  <2>3. u.refs = s.refs /\ u.stored = s.stored
    BY <2>2 DEF Same, Fields
  <2>4. Shape(t) /\ Same(u, t, {"refs", "stored"}) /\ RefAdded(u, t, c)
    BY <2>1, <2>2, <2>3, IncreaseFields
  <2>5. t.votes = u.votes
    BY <2>4 DEF Same, Fields
  <2>6. Same(s, t, {"refs", "stored", "votes"})
    BY <2>2, <2>4 DEF Same
  <2>7. RefAdded(s, t, c)
    BY <2>3, <2>4 DEF RefAdded
  <2> QED BY <1>2, <2>2, <2>4, <2>5, <2>6, <2>7
<1> QED BY <1>1, <1>2

LEMMA KickOffStore ==
    ASSUME NEW s, IsStore(s), NEW c \in Codes, NEW cause \in Cause,
           now \in Nat, session \in Nat,
           NEW t, t = kick_off_pvf_check(s, cause, c)
    PROVE  IsStore(t)
<1>1. Shape(s) /\ s.refs \in [Codes -> Nat] /\ IsMap(s.votes, Codes, Vote) /\ s.stored \subseteq Codes
  BY DEF IsStore, StoreOK
<1>2. Shape(t) /\ RefAdded(s, t, c)
  BY <1>1, KickOffIs
<1>3. t.refs \in [Codes -> Nat] /\ t.stored \subseteq Codes
  BY <1>1, <1>2 DEF RefAdded
<1>4. CASE FastTracked(s, c)
  <2> DEFINE u == enact_pvf_accepted(s, <<cause>>, 0)
  <2>1. <<cause>> \in Seq(Cause)
    OBVIOUS
  <2>2. IsStore(u)
    BY <2>1, AcceptStore
  <2>3. /\ Same(s, t, {"refs", "stored", "actions", "upgrade_at", "upcoming"})
        /\ t.actions = u.actions /\ t.upgrade_at = u.upgrade_at /\ t.upcoming = u.upcoming
    BY <1>1, <1>4, KickOffIs
  <2> HIDE DEF u
  <2>4. /\ t.actions \subseteq Nat \X ParaIds /\ IsMap(t.upgrade_at, ParaIds, Nat)
        /\ t.upcoming \subseteq ParaIds \X Nat
    BY <2>2, <2>3 DEF IsStore, StoreOK
  <2> QED BY <1>2, <1>3, <2>3, <2>4 DEF IsStore, StoreOK, Same, Fields
<1>5. CASE ~FastTracked(s, c)
  <2>1. Same(s, t, {"refs", "stored", "votes"}) /\ t.votes = WithCause(s.votes, c, cause)
    BY <1>1, <1>5, KickOffIs
  <2>2. IsMap(t.votes, Codes, Vote)
    BY <1>1, <2>1, WithCauseIs
  <2> QED BY <1>2, <1>3, <2>1, <2>2 DEF IsStore, StoreOK, Same, Fields
<1> QED BY <1>4, <1>5

\* schedule_code_upgrade, up to the vote.
Signalled(s, p, c, relay_parent) ==
    [s EXCEPT !.future = Put(@, p, c), !.restricted = @ \union {p},
              !.cooldowns = @ \union {<<p, relay_parent + UpgradeCooldown>>}]

LEMMA SignalledIs ==
    ASSUME NEW s, IsStore(s), NEW p \in ParaIds, NEW c \in Codes, NEW r \in Nat,
           NEW t, t = Signalled(s, p, c, r)
    PROVE  /\ IsStore(t) /\ Same(s, t, {"future", "restricted", "cooldowns"})
           /\ t.future = Put(s.future, p, c)
<1>1. Shape(s)
  BY DEF IsStore
<1>2. /\ Shape(t) /\ Same(s, t, {"future", "restricted", "cooldowns"})
      /\ t.future = Put(s.future, p, c) /\ t.restricted = s.restricted \union {p}
      /\ t.cooldowns = s.cooldowns \union {<<p, r + UpgradeCooldown>>}
  BY <1>1 DEF Signalled, Shape, Fields, Same
<1>3. r + UpgradeCooldown \in Nat
  BY ParasAssumption
<1>4. t.restricted \subseteq ParaIds /\ t.cooldowns \subseteq ParaIds \X Nat
  BY <1>2, <1>3 DEF IsStore, StoreOK
<1>5. IsMap(t.future, ParaIds, Codes)
  BY <1>2 DEF IsStore, StoreOK, IsMap, Put
<1> QED BY <1>2, <1>4, <1>5 DEF IsStore, StoreOK, Same, Fields

LEMMA ScheduleStore ==
    ASSUME NEW s, IsStore(s), NEW p \in ParaIds, NEW c \in Codes, NEW r \in Nat,
           now \in Nat, session \in Nat,
           NEW t, t = schedule_code_upgrade(s, p, c, r)
    PROVE  /\ IsStore(t)
           /\ ~UpgradeDropped(s, p, c) =>
                 t = kick_off_pvf_check(Signalled(s, p, c, r), Upgrade(p, r), c)
<1>1. CASE UpgradeDropped(s, p, c)
  BY <1>1 DEF schedule_code_upgrade
<1>2. CASE ~UpgradeDropped(s, p, c)
  <2>1. t = kick_off_pvf_check(Signalled(s, p, c, r), Upgrade(p, r), c)
    BY <1>2 DEF schedule_code_upgrade, Signalled
  <2>2. IsStore(Signalled(s, p, c, r))
    BY SignalledIs
  <2>3. Upgrade(p, r) \in Cause
    BY VoteTypes
  <2> QED BY <2>1, <2>2, <2>3, KickOffStore
<1> QED BY <1>1, <1>2

\* note_new_head when the code is replaced, up to the note of the past code.
Swapped(s, p) ==
    [s EXCEPT !.heads = @ \union {p}, !.upgrade_at = Without(@, {p}),
              !.go_ahead = Without(@, {p}), !.future = Without(@, {p}),
              !.current = Put(@, p, s.future[p])]

LEMMA SwappedIs ==
    ASSUME NEW s, IsStore(s), NEW p \in ParaIds, p \in DOMAIN s.future, NEW t, t = Swapped(s, p)
    PROVE  /\ IsStore(t) /\ Same(s, t, {"heads", "upgrade_at", "go_ahead", "future", "current"})
           /\ t.heads = s.heads \union {p} /\ t.upgrade_at = Without(s.upgrade_at, {p})
           /\ t.go_ahead = Without(s.go_ahead, {p}) /\ t.future = Without(s.future, {p})
           /\ t.current = Put(s.current, p, s.future[p])
<1>1. Shape(s)
  BY DEF IsStore
<1>2. /\ Shape(t) /\ Same(s, t, {"heads", "upgrade_at", "go_ahead", "future", "current"})
      /\ t.heads = s.heads \union {p} /\ t.upgrade_at = Without(s.upgrade_at, {p})
      /\ t.go_ahead = Without(s.go_ahead, {p}) /\ t.future = Without(s.future, {p})
      /\ t.current = Put(s.current, p, s.future[p])
  BY <1>1 DEF Swapped, Shape, Fields, Same
<1>3. t.heads \subseteq ParaIds
  BY <1>2 DEF IsStore, StoreOK
<1>4. /\ IsMap(t.upgrade_at, ParaIds, Nat) /\ IsMap(t.go_ahead, ParaIds, {"GoAhead", "Abort"})
      /\ IsMap(t.future, ParaIds, Codes)
  BY <1>2 DEF IsStore, StoreOK, IsMap, Without
<1>5. IsMap(t.current, ParaIds, Codes)
  BY <1>2 DEF IsStore, StoreOK, IsMap, Put
<1> QED BY <1>2, <1>3, <1>4, <1>5 DEF IsStore, StoreOK, Same, Fields

LEMMA NewHeadIs ==
    ASSUME NEW s, IsStore(s), NEW p \in ParaIds, NEW context, now \in Nat,
           NEW t, t = note_new_head(s, p, context)
    PROVE  /\ IsStore(t)
           /\ Same(s, t, {"heads", "upgrade_at", "go_ahead", "future", "current", "meta", "past",
                          "pruning"})
           /\ t.heads = s.heads \union {p}
           /\ p \notin DOMAIN s.upgrade_at =>
                 Same(s, t, {"heads", "go_ahead"}) /\ t.go_ahead = Without(s.go_ahead, {p})
           /\ p \in DOMAIN s.upgrade_at /\ s.upgrade_at[p] > context => Same(s, t, {"heads"})
           /\ p \in DOMAIN s.upgrade_at /\ ~(s.upgrade_at[p] > context) /\ p \notin DOMAIN s.future =>
                 Same(s, t, {"heads", "upgrade_at", "go_ahead"})
           /\ p \in DOMAIN s.upgrade_at /\ ~(s.upgrade_at[p] > context)
                 /\ p \in DOMAIN s.future /\ p \in DOMAIN s.current =>
                 t = note_past_code(Swapped(s, p), [q \in {p} |-> s.current[p]],
                                    s.upgrade_at[p], now)
<1> DEFINE h == [s EXCEPT !.heads = @ \union {p}]
           u == [h EXCEPT !.upgrade_at = Without(@, {p}), !.go_ahead = Without(@, {p})]
           n == [u EXCEPT !.future = Without(@, {p}), !.current = Put(@, p, s.future[p])]
<1>1. Shape(s) /\ s.heads \union {p} \subseteq ParaIds
  BY DEF IsStore, StoreOK
<1>2. Shape(h) /\ Same(s, h, {"heads"}) /\ h.heads = s.heads \union {p}
  BY <1>1 DEF Shape, Fields, Same
<1>3. IsStore(h)
  <2> HIDE DEF h
  <2> QED BY <1>1, <1>2 DEF IsStore, StoreOK, Same, Fields
<1>4. ASSUME NEW g, g = [h EXCEPT !.go_ahead = Without(@, {p})]
      PROVE  /\ IsStore(g) /\ Same(s, g, {"heads", "go_ahead"})
             /\ g.heads = s.heads \union {p} /\ g.go_ahead = Without(s.go_ahead, {p})
  <2>1. Shape(g) /\ Same(h, g, {"go_ahead"}) /\ g.go_ahead = Without(h.go_ahead, {p})
    <3> HIDE DEF h
    <3> QED BY <1>2, <1>4 DEF Shape, Fields, Same
  <2> HIDE DEF h
  <2>2. h.go_ahead = s.go_ahead /\ g.heads = h.heads
    BY <1>2, <2>1 DEF Same, Fields
  <2>3. IsMap(g.go_ahead, ParaIds, {"GoAhead", "Abort"})
    BY <1>3, <2>1 DEF IsStore, StoreOK, IsMap, Without
  <2>4. IsStore(g)
    BY <1>3, <2>1, <2>3 DEF IsStore, StoreOK, Same, Fields
  <2>5. Same(s, g, {"heads", "go_ahead"})
    BY <1>2, <2>1 DEF Same
  <2> QED BY <1>2, <2>1, <2>2, <2>4, <2>5
<1>5. /\ IsStore(u) /\ Same(s, u, {"heads", "upgrade_at", "go_ahead"})
      /\ u.heads = s.heads \union {p}
  <2>1. /\ Shape(u) /\ Same(h, u, {"upgrade_at", "go_ahead"})
        /\ u.go_ahead = Without(h.go_ahead, {p}) /\ u.upgrade_at = Without(h.upgrade_at, {p})
    <3> HIDE DEF h
    <3> QED BY <1>2 DEF Shape, Fields, Same
  <2> HIDE DEF h, u
  <2>2. /\ IsMap(u.go_ahead, ParaIds, {"GoAhead", "Abort"}) /\ IsMap(u.upgrade_at, ParaIds, Nat)
    BY <1>3, <2>1 DEF IsStore, StoreOK, IsMap, Without
  <2>3. IsStore(u)
    BY <1>3, <2>1, <2>2 DEF IsStore, StoreOK, Same, Fields
  <2>4. Same(s, u, {"heads", "upgrade_at", "go_ahead"}) /\ u.heads = h.heads
    BY <1>2, <2>1 DEF Same, Fields
  <2> QED BY <1>2, <2>3, <2>4
<1>6. n = Swapped(s, p)
  BY <1>1 DEF Swapped, Shape, Fields
<1>7. CASE p \notin DOMAIN s.upgrade_at
  <2>1. t = [h EXCEPT !.go_ahead = Without(@, {p})]
    BY <1>7 DEF note_new_head
  <2> HIDE DEF h, u, n
  <2> QED BY <1>4, <1>7, <2>1 DEF Same
<1>8. CASE p \in DOMAIN s.upgrade_at /\ s.upgrade_at[p] > context
  <2>1. t = h
    BY <1>8 DEF note_new_head
  <2> HIDE DEF h, u, n
  <2> QED BY <1>2, <1>3, <1>8, <2>1 DEF Same
<1>9. CASE p \in DOMAIN s.upgrade_at /\ ~(s.upgrade_at[p] > context)
  <2>1. CASE p \notin DOMAIN s.future
    <3>1. t = u
      BY <1>9, <2>1 DEF note_new_head
    <3> HIDE DEF h, u, n
    <3> QED BY <1>5, <1>9, <2>1, <3>1 DEF Same
  <2>2. CASE p \in DOMAIN s.future
    <3>1. /\ IsStore(n) /\ Same(s, n, {"heads", "upgrade_at", "go_ahead", "future", "current"})
          /\ n.heads = s.heads \union {p}
      <4> HIDE DEF h, u, n
      <4> QED BY <1>6, <2>2, SwappedIs
    <3>2. CASE p \notin DOMAIN s.current
      <4>1. t = n
        BY <1>9, <2>2, <3>2 DEF note_new_head
      <4> HIDE DEF h, u, n
      <4> QED BY <1>9, <2>2, <3>1, <3>2, <4>1 DEF Same
    <3>3. CASE p \in DOMAIN s.current
      <4> DEFINE old == [q \in {p} |-> s.current[p]]
      <4>1. t = note_past_code(n, old, s.upgrade_at[p], now)
        BY <1>9, <2>2, <3>3 DEF note_new_head
      <4> HIDE DEF h, u, n
      <4>2. IsMap(old, ParaIds, Codes) /\ s.upgrade_at[p] \in Nat /\ Shape(n)
        BY <1>9, <3>1, <3>3 DEF IsStore, StoreOK, IsMap
      <4> HIDE DEF old
      <4>3. IsStore(t) /\ Same(n, t, {"meta", "past", "pruning"})
        BY <3>1, <4>1, <4>2, NotePastStore, NotePastFields
      <4>4. t.heads = n.heads
        BY <4>3 DEF Same, Fields
      <4>5. Same(s, t, {"heads", "upgrade_at", "go_ahead", "future", "current", "meta", "past",
                        "pruning"})
        BY <3>1, <4>3 DEF Same
      <4> QED BY <1>6, <1>9, <2>2, <3>1, <4>1, <4>3, <4>4, <4>5 DEF old
    <3> QED BY <3>2, <3>3
  <2> QED BY <2>1, <2>2
<1> QED BY <1>7, <1>8, <1>9

\* The votes in v end, those in kept go on.
Splits(votes, kept, v) ==
    /\ DOMAIN v \subseteq DOMAIN votes /\ DOMAIN kept = DOMAIN votes \ DOMAIN v
    /\ \A c \in DOMAIN v : v[c].causes = votes[c].causes
    /\ \A c \in DOMAIN kept : kept[c].causes = votes[c].causes
    /\ IsMap(v, Codes, Vote) /\ IsMap(kept, Codes, Vote)

WithVotes(s, kept) == [s EXCEPT !.votes = kept]

LEMMA WithVotesIs ==
    ASSUME NEW s, IsStore(s), NEW kept, IsMap(kept, Codes, Vote), NEW t, t = WithVotes(s, kept)
    PROVE  IsStore(t) /\ Same(s, t, {"votes"}) /\ t.votes = kept
<1>1. Shape(t) /\ Same(s, t, {"votes"}) /\ t.votes = kept
  BY DEF IsStore, Shape, Fields, Same, WithVotes
<1> QED BY <1>1 DEF IsStore, StoreOK, Same, Fields

\* A vote that ends with acceptance.
AcceptVote(s, c, age) ==
    enact_pvf_accepted(WithVotes(s, Without(s.votes, {c})), s.votes[c].causes, age)

Accepts(s, t, c, causes) ==
    /\ Same(s, t, {"votes", "actions", "upgrade_at", "upcoming"})
    /\ t.votes = Without(s.votes, {c})
    /\ causes = s.votes[c].causes /\ causes \in Seq(Cause)
    /\ \E n \in {session + 1, session + 2} :
          t.actions = s.actions \union QueuedAt(n, ParasIn(causes, "onboarding"))
    /\ DOMAIN t.upgrade_at = DOMAIN s.upgrade_at \union ParasIn(causes, "upgrade")
    /\ \A p \in ParasIn(causes, "upgrade") :
          t.upgrade_at[p] = ExpectedAt(causes[LastUpgrade(causes, p)].relay_parent)
    /\ \A p \in DOMAIN s.upgrade_at :
          p \notin ParasIn(causes, "upgrade") => t.upgrade_at[p] = s.upgrade_at[p]
    /\ t.upcoming = s.upcoming \union Announcements(causes)

LEMMA AcceptVoteIs ==
    ASSUME NEW s, IsStore(s), NEW c \in DOMAIN s.votes, NEW age \in Nat,
           now \in Nat, session \in Nat, NEW t, t = AcceptVote(s, c, age)
    PROVE  IsStore(t) /\ Accepts(s, t, c, s.votes[c].causes)
<1> DEFINE causes == s.votes[c].causes
           kept == Without(s.votes, {c})
           o == WithVotes(s, kept)
<1>1. IsMap(s.votes, Codes, Vote) /\ causes \in Seq(Cause)
  BY DEF IsStore, StoreOK, IsMap, Vote
<1>2. IsMap(kept, Codes, Vote)
  BY <1>1 DEF IsMap, Without
<1> HIDE DEF kept
<1>3. IsStore(o) /\ Same(s, o, {"votes"}) /\ o.votes = kept
  BY <1>2, WithVotesIs
<1>4. t = enact_pvf_accepted(o, causes, age) /\ Shape(o)
  BY <1>3 DEF AcceptVote, kept, IsStore
<1> HIDE DEF o, causes
<1>5. /\ IsStore(t)
      /\ \E n \in {session + 1, session + 2} :
            t.actions = o.actions \union QueuedAt(n, ParasIn(causes, "onboarding"))
  BY <1>1, <1>3, <1>4, AcceptStore
<1>6. /\ Same(o, t, {"actions", "upgrade_at", "upcoming"})
      /\ DOMAIN t.upgrade_at = DOMAIN o.upgrade_at \union ParasIn(causes, "upgrade")
      /\ \A p \in ParasIn(causes, "upgrade") :
            t.upgrade_at[p] = ExpectedAt(causes[LastUpgrade(causes, p)].relay_parent)
      /\ \A p \in DOMAIN o.upgrade_at :
            p \notin ParasIn(causes, "upgrade") => t.upgrade_at[p] = o.upgrade_at[p]
      /\ t.upcoming = o.upcoming \union Announcements(causes)
  BY <1>4, AcceptFields
<1>7. /\ o.actions = s.actions /\ o.upgrade_at = s.upgrade_at /\ o.upcoming = s.upcoming
      /\ t.votes = o.votes
  BY <1>3, <1>6 DEF Same, Fields
<1>8. Same(s, t, {"votes", "actions", "upgrade_at", "upcoming"})
  BY <1>3, <1>6 DEF Same
<1> QED BY <1>1, <1>3, <1>5, <1>6, <1>7, <1>8 DEF kept, causes, Accepts

\* Votes that end with rejection.
Rejects(s, t, kept, v) ==
    /\ Same(s, t, {"votes", "refs", "stored", "genesis", "current", "lifecycles",
                   "go_ahead", "future"})
    /\ t.votes = kept
    /\ t.refs = decrease_code_refs(s, Taken(v)).refs
    /\ t.stored = decrease_code_refs(s, Taken(v)).stored
    /\ t.genesis = Without(s.genesis, AskedBy(v, "onboarding"))
    /\ t.current = Without(s.current, AskedBy(v, "onboarding"))
    /\ t.lifecycles = Without(s.lifecycles, AskedBy(v, "onboarding"))
    /\ DOMAIN t.go_ahead = DOMAIN s.go_ahead \union AskedBy(v, "upgrade")
    /\ \A p \in AskedBy(v, "upgrade") : t.go_ahead[p] = "Abort"
    /\ \A p \in DOMAIN s.go_ahead :
          p \notin AskedBy(v, "upgrade") => t.go_ahead[p] = s.go_ahead[p]
    /\ t.future = Without(s.future, AskedBy(v, "upgrade"))

LEMMA RejectVotesIs ==
    ASSUME NEW s, IsStore(s), NEW kept, NEW v, Splits(s.votes, kept, v),
           NEW t, t = enact_pvf_rejected(WithVotes(s, kept), v)
    PROVE  IsStore(t) /\ Rejects(s, t, kept, v)
<1> DEFINE o == WithVotes(s, kept)
<1>1. IsMap(kept, Codes, Vote) /\ IsMap(v, Codes, Vote)
  BY DEF Splits
<1>2. IsStore(o) /\ Same(s, o, {"votes"}) /\ o.votes = kept /\ Shape(o)
  BY <1>1, WithVotesIs DEF IsStore
<1> HIDE DEF o
<1>3. t = enact_pvf_rejected(o, v)
  BY DEF o
<1>4. IsStore(t)
  BY <1>1, <1>2, <1>3, RejectStore
<1>5. /\ Same(o, t, {"refs", "stored", "genesis", "current", "lifecycles", "go_ahead", "future"})
      /\ t.refs = decrease_code_refs(o, Taken(v)).refs
      /\ t.stored = decrease_code_refs(o, Taken(v)).stored
      /\ t.genesis = Without(o.genesis, AskedBy(v, "onboarding"))
      /\ t.current = Without(o.current, AskedBy(v, "onboarding"))
      /\ t.lifecycles = Without(o.lifecycles, AskedBy(v, "onboarding"))
      /\ t.go_ahead = [p \in DOMAIN o.go_ahead \union AskedBy(v, "upgrade") |->
                         IF p \in AskedBy(v, "upgrade") THEN "Abort" ELSE o.go_ahead[p]]
      /\ t.future = Without(o.future, AskedBy(v, "upgrade"))
  BY <1>2, <1>3, RejectFields
<1>6. /\ o.refs = s.refs /\ o.stored = s.stored /\ o.genesis = s.genesis
      /\ o.current = s.current /\ o.lifecycles = s.lifecycles /\ o.go_ahead = s.go_ahead
      /\ o.future = s.future /\ t.votes = o.votes
  BY <1>2, <1>5 DEF Same, Fields
<1>7. Same(s, t, {"votes", "refs", "stored", "genesis", "current", "lifecycles",
                  "go_ahead", "future"})
  BY <1>2, <1>5 DEF Same
<1>8. /\ DOMAIN t.go_ahead = DOMAIN s.go_ahead \union AskedBy(v, "upgrade")
      /\ \A p \in AskedBy(v, "upgrade") : t.go_ahead[p] = "Abort"
      /\ \A p \in DOMAIN s.go_ahead :
            p \notin AskedBy(v, "upgrade") => t.go_ahead[p] = s.go_ahead[p]
  BY <1>5, <1>6
<1>9. /\ t.refs = decrease_code_refs(s, Taken(v)).refs
      /\ t.stored = decrease_code_refs(s, Taken(v)).stored
  <2>1. Shape(s) /\ Shape(o)
    BY <1>2 DEF IsStore
  <2> QED BY <1>5, <1>6, <2>1, DecreaseSame
<1> QED BY <1>2, <1>4, <1>5, <1>6, <1>7, <1>8, <1>9 DEF Rejects

-----------------------------------------------------------------------------
(* No operation leaves a para stuck.                                       *)

LEMMA AskedByIs ==
    ASSUME NEW votes, NEW kind, NEW p
    PROVE  p \in AskedBy(votes, kind)
             <=> \E c \in DOMAIN votes : p \in ParasIn(votes[c].causes, kind)
BY DEF AskedBy

LEMMA NeverStuckGrows ==
    ASSUME NEW s, NEW t, NEW n, NeverStuck(s, n), t.lifecycles = s.lifecycles,
           t.genesis = s.genesis, s.actions \subseteq t.actions,
           AskedBy(s.votes, "onboarding") \subseteq AskedBy(t.votes, "onboarding")
    PROVE  NeverStuck(t, n)
BY DEF NeverStuck

LEMMA AcceptNeverStuck ==
    ASSUME NEW s, IsStore(s), NEW c \in DOMAIN s.votes, NEW age \in Nat,
           now \in Nat, session \in Nat, NEW t, t = AcceptVote(s, c, age),
           NeverStuck(s, session)
    PROVE  NeverStuck(t, session)
<1> DEFINE causes == s.votes[c].causes
<1>1. /\ Same(s, t, {"votes", "actions", "upgrade_at", "upcoming"})
      /\ t.votes = Without(s.votes, {c})
      /\ \E n \in {session + 1, session + 2} :
            t.actions = s.actions \union QueuedAt(n, ParasIn(causes, "onboarding"))
  BY AcceptVoteIs DEF Accepts
<1>2. t.lifecycles = s.lifecycles /\ t.genesis = s.genesis
  BY <1>1 DEF Same, Fields
<1> HIDE DEF causes
<1>3. ASSUME NEW p \in AskedBy(s.votes, "onboarding")
      PROVE  \/ <<session + 1, p>> \in t.actions \/ <<session + 2, p>> \in t.actions
             \/ p \in AskedBy(t.votes, "onboarding")
  <2>1. PICK d \in DOMAIN s.votes : p \in ParasIn(s.votes[d].causes, "onboarding")
    BY <1>3, AskedByIs
  <2>2. CASE d = c
    BY <1>1, <2>1, <2>2 DEF causes, QueuedAt
  <2>3. CASE d # c
    BY <1>1, <2>1, <2>3, AskedByIs DEF Without
  <2> QED BY <2>2, <2>3
<1>4. s.actions \subseteq t.actions
  BY <1>1
<1> QED BY <1>2, <1>3, <1>4 DEF NeverStuck

LEMMA RejectNeverStuck ==
    ASSUME NEW s, IsStore(s), NEW kept, NEW v, Splits(s.votes, kept, v),
           NEW t, t = enact_pvf_rejected(WithVotes(s, kept), v), NEW n, NeverStuck(s, n)
    PROVE  NeverStuck(t, n)
<1>1. /\ t.actions = s.actions /\ t.votes = kept
      /\ t.genesis = Without(s.genesis, AskedBy(v, "onboarding"))
      /\ t.lifecycles = Without(s.lifecycles, AskedBy(v, "onboarding"))
  <2>1. Rejects(s, t, kept, v)
    BY RejectVotesIs
  <2> QED BY <2>1 DEF Rejects, Same, Fields
<1>2. ASSUME NEW p \in AskedBy(s.votes, "onboarding"), p \notin AskedBy(v, "onboarding")
      PROVE  p \in AskedBy(kept, "onboarding")
  <2>1. PICK d \in DOMAIN s.votes : p \in ParasIn(s.votes[d].causes, "onboarding")
    BY <1>2, AskedByIs
  <2>2. d \notin DOMAIN v
    BY <1>2, <2>1, AskedByIs DEF Splits
  <2> QED BY <2>1, <2>2, AskedByIs DEF Splits
<1> QED BY <1>1, <1>2 DEF NeverStuck, Without

\* What the actions of a session leave is not stuck, what they offboard apart.
LEMMA QueueNeverStuck ==
    ASSUME NEW s, IsStore(s), now \in Nat, NEW n \in Nat, NeverStuck(s, n),
           NEW t, t = apply_actions_queue(s, n + 1)
    PROVE  NeverStuck(t, n + 1)
<1> DEFINE q == Dequeued(s, n + 1)
           due == DueParas(s, n + 1)
           a == Applied(s, n + 1)
           gone == GoneParas(s, n + 1)
           d == Dropped(a, gone)
<1>1. IsStore(q) /\ Same(s, q, {"actions"}) /\ q.actions = s.actions \ ({n + 1} \X ParaIds)
  BY DequeuedIs
<1>2. t = Offboard(a, gone) /\ IsStore(a) /\ IsStore(t) /\ gone \in SUBSET ParaIds
  BY QueueIs
<1>3. a = ApplyActions(q, due) /\ Shape(q) /\ Shape(a)
  BY <1>1, <1>2 DEF Applied, IsStore
<1>4. /\ Same(q, a, {"lifecycles", "parachains", "genesis", "heads"})
      /\ DOMAIN a.lifecycles = DOMAIN q.lifecycles
      /\ \A p \in DOMAIN q.lifecycles : p \in due => a.lifecycles[p] = AfterAction(q, p)
      /\ \A p \in DOMAIN q.lifecycles : p \notin due => a.lifecycles[p] = q.lifecycles[p]
      /\ a.genesis = Without(q.genesis, Initialized(q, due))
  BY <1>3, ApplyFields
<1>5. IsStore(d) /\ t = note_past_code(d, OldCodes(a, gone), now, now)
  BY <1>2, OffboardStore
<1>6. /\ Same(d, t, {"meta", "past", "pruning"})
      /\ Same(a, d, {"refs", "stored", "parachains", "heads", "upgrade_at",
                                 "go_ahead", "restricted", "lifecycles", "future",
                                 "current", "upcoming", "cooldowns"})
      /\ d.lifecycles = Without(a.lifecycles, gone)
  <2>1. Shape(d)
    BY <1>5 DEF IsStore
  <2> HIDE DEF a, gone
  <2>2. Same(d, t, {"meta", "past", "pruning"})
    BY <1>5, <2>1, NotePastFields
  <2> QED BY <1>3, <2>2, DroppedFields
<1> HIDE DEF q, due, a, gone, d
<1>7. /\ t.lifecycles = Without(a.lifecycles, gone)
      /\ t.genesis = Without(s.genesis, Initialized(q, due))
      /\ t.votes = s.votes /\ t.actions = s.actions \ ({n + 1} \X ParaIds)
      /\ q.lifecycles = s.lifecycles /\ q.genesis = s.genesis
  BY <1>1, <1>4, <1>6 DEF Same, Fields
<1>8. ASSUME NEW p \in DOMAIN t.lifecycles, p \in due PROVE is_stable(t.lifecycles[p])
  <2>1. p \in DOMAIN s.lifecycles /\ p \notin gone /\ t.lifecycles[p] = AfterAction(q, p)
    BY <1>4, <1>7, <1>8 DEF Without
  <2>2. ~IsOffboarding(s, p)
    BY <1>8, <2>1 DEF due, gone, GoneParas
  <2>3. s.lifecycles[p] \in LifecycleNames
    BY <2>1 DEF IsStore, StoreOK, IsMap
  <2>4. s.lifecycles[p] = "Onboarding" => IsInitialized(q, p)
    BY <1>7, <2>1 DEF NeverStuck, IsInitialized, GetOr
  <2>5. IsInitialized(q, p) => AfterAction(q, p) \in {"Parachain", "Parathread"}
    BY DEF AfterAction
  <2>6. s.lifecycles[p] \in {"Parathread", "Parachain", "UpgradingParathread",
                             "DowngradingParachain"} \/ s.lifecycles[p] = "Onboarding"
    BY <2>1, <2>2, <2>3 DEF IsOffboarding, GetOr, LifecycleNames
  <2> QED BY <1>7, <2>1, <2>4, <2>5, <2>6 DEF AfterAction, is_stable
<1>9. ASSUME NEW p \in DOMAIN t.lifecycles, p \notin due
      PROVE  /\ p \in DOMAIN s.lifecycles /\ t.lifecycles[p] = s.lifecycles[p]
             /\ <<n + 1, p>> \notin s.actions
             /\ <<n + 2, p>> \in s.actions => <<n + 1 + 1, p>> \in t.actions
             /\ p \in DOMAIN s.genesis => p \in DOMAIN t.genesis
  <2>1. p \in DOMAIN s.lifecycles /\ t.lifecycles[p] = s.lifecycles[p] /\ p \in ParaIds
    BY <1>4, <1>7, <1>9 DEF Without, IsStore, StoreOK, IsMap
  <2>2. <<n + 1, p>> \notin s.actions
    BY <1>9, <2>1 DEF due, DueParas
  <2>3. n + 1 + 1 = n + 2 /\ n + 2 # n + 1
    OBVIOUS
  <2>4. <<n + 2, p>> \in s.actions => <<n + 1 + 1, p>> \in t.actions
    BY <1>7, <2>3
  <2>5. p \in DOMAIN s.genesis => p \in DOMAIN t.genesis
    BY <1>7, <1>9 DEF Without, Initialized
  <2> QED BY <2>1, <2>2, <2>4, <2>5
<1> QED
  <2> SUFFICES ASSUME NEW p \in DOMAIN t.lifecycles
               PROVE  /\ ~is_stable(t.lifecycles[p]) =>
                           \/ <<n + 1 + 1, p>> \in t.actions \/ <<n + 1 + 2, p>> \in t.actions
                           \/ t.lifecycles[p] = "Onboarding"
                              /\ p \in AskedBy(t.votes, "onboarding")
                      /\ t.lifecycles[p] = "Onboarding" => p \in DOMAIN t.genesis
    BY DEF NeverStuck
  <2>1. CASE p \in due
    BY <1>8, <2>1 DEF is_stable
  <2>2. CASE p \notin due
    BY <1>7, <1>9, <2>2 DEF NeverStuck
  <2> QED BY <2>1, <2>2

-----------------------------------------------------------------------------
(* What the calls do to a storage, all their parts together.               *)

MoreAsked(votes, w, c, cause) ==
    /\ DOMAIN w = DOMAIN votes \union {c}
    /\ \A d \in DOMAIN votes : d # c => w[d] = votes[d]
    /\ \A kind \in {"onboarding", "upgrade"} : \A q :
          q \in ParasIn(w[c].causes, kind)
            <=> \/ c \in DOMAIN votes /\ q \in ParasIn(votes[c].causes, kind)
                \/ kind = cause.kind /\ q = cause.para
    /\ c \in DOMAIN votes => /\ votes[c].causes \in Seq(Cause)
                             /\ w[c].causes = Append(votes[c].causes, cause)
                             /\ w[c].age = votes[c].age
                             /\ Len(w[c].causes) = Len(votes[c].causes) + 1
    /\ c \notin DOMAIN votes => w[c].causes = <<cause>> /\ Len(w[c].causes) = 1

LEMMA WithCauseAsks ==
    ASSUME NEW votes, IsMap(votes, Codes, Vote), NEW c \in Codes, NEW cause \in Cause,
           NEW w, w = WithCause(votes, c, cause)
    PROVE  MoreAsked(votes, w, c, cause)
<1>1. CauseAdded(votes, w, c, cause)
  BY WithCauseIs
<1>2. CASE c \in DOMAIN votes
  <2>1. /\ votes[c].causes \in Seq(Cause) /\ w[c].causes = Append(votes[c].causes, cause)
        /\ w[c].age = votes[c].age
    BY <1>1, <1>2 DEF IsMap, Vote, CauseAdded
  <2>2. Len(w[c].causes) = Len(votes[c].causes) + 1
    BY <2>1
  <2>3. ASSUME NEW kind, NEW q
        PROVE  q \in ParasIn(w[c].causes, kind)
                 <=> \/ q \in ParasIn(votes[c].causes, kind)
                     \/ kind = cause.kind /\ q = cause.para
    <3> DEFINE causes == votes[c].causes
               more == w[c].causes
    <3>1. causes \in Seq(Cause) /\ more = Append(causes, cause)
      BY <2>1
    <3> HIDE DEF causes, more
    <3>2. q \in ParasIn(more, kind)
            <=> q \in ParasIn(causes, kind) \/ (cause.kind = kind /\ q = cause.para)
      BY <3>1, ParasInAppend
    <3> QED BY <3>2 DEF causes, more
  <2> QED BY <1>1, <1>2, <2>1, <2>2, <2>3 DEF MoreAsked, CauseAdded
<1>3. CASE c \notin DOMAIN votes
  <2>1. w[c].causes = <<cause>>
    BY <1>1, <1>3 DEF CauseAdded
  <2>2. ASSUME NEW kind, NEW q
        PROVE  q \in ParasIn(w[c].causes, kind) <=> kind = cause.kind /\ q = cause.para
    <3>1. CASE cause.kind = kind
      <4>1. ParasIn(w[c].causes, kind) = {cause.para}
        BY <2>1, <3>1, ParasInSingle
      <4> QED BY <3>1, <4>1
    <3>2. CASE cause.kind # kind
      <4>1. ParasIn(w[c].causes, kind) = {}
        BY <2>1, <3>2, ParasInSingle
      <4> QED BY <3>2, <4>1
    <3> QED BY <3>1, <3>2
  <2>3. Len(w[c].causes) = 1
    BY <2>1
  <2> QED BY <1>1, <1>3, <2>1, <2>2, <2>3 DEF MoreAsked, CauseAdded
<1> QED BY <1>2, <1>3

\* A para is registered with code c.
Registering(s, p, c, parachain) ==
    [s EXCEPT !.lifecycles = Put(@, p, "Onboarding"), !.genesis = Put(@, p, parachain),
              !.current = Put(@, p, c)]

SameUpgrades(s, t) ==
    /\ DOMAIN t.upgrade_at = DOMAIN s.upgrade_at
    /\ \A q \in DOMAIN s.upgrade_at : t.upgrade_at[q] = s.upgrade_at[q]
    /\ t.upcoming = s.upcoming

QueuedOnce(s, u, p) ==
    \E n \in {session + 1, session + 2} : u.actions = s.actions \union {<<n, p>>}

UpgradeScheduled(s, u, p, at) ==
    /\ DOMAIN u.upgrade_at = DOMAIN s.upgrade_at \union {p}
    /\ u.upgrade_at[p] = at
    /\ \A q \in DOMAIN s.upgrade_at : q # p => u.upgrade_at[q] = s.upgrade_at[q]
    /\ u.upcoming = s.upcoming \union {<<p, at>>}

Onboards(s, t, p, c) ==
    /\ RefAdded(s, t, c)
    /\ Same(s, t, {"lifecycles", "genesis", "current", "refs", "stored", "votes", "actions",
                   "upgrade_at", "upcoming"})
    /\ t.lifecycles = Put(s.lifecycles, p, "Onboarding")
    /\ DOMAIN t.genesis = DOMAIN s.genesis \union {p}
    /\ t.current = Put(s.current, p, c)
    /\ SameUpgrades(s, t)
    /\ ~FastTracked(s, c) => /\ t.actions = s.actions
                             /\ MoreAsked(s.votes, t.votes, c, Onboarding(p))
    /\ FastTracked(s, c) => t.votes = s.votes /\ QueuedOnce(s, t, p)

\* Accepting at once for a single cause.
LEMMA AcceptSingle ==
    ASSUME NEW s, IsStore(s), NEW cause \in Cause, now \in Nat, session \in Nat,
           NEW u, u = enact_pvf_accepted(s, <<cause>>, 0)
    PROVE  /\ IsStore(u)
           /\ cause.kind = "onboarding" => SameUpgrades(s, u) /\ QueuedOnce(s, u, cause.para)
           /\ cause.kind = "upgrade" =>
                /\ u.actions = s.actions
                /\ UpgradeScheduled(s, u, cause.para, ExpectedAt(cause.relay_parent))
<1> DEFINE causes == <<cause>>
<1>1. causes \in Seq(Cause) /\ DOMAIN causes = {1} /\ causes[1] = cause /\ Shape(s)
  BY DEF IsStore
<1>2. u = enact_pvf_accepted(s, causes, 0)
  OBVIOUS
<1>3. ParasIn(causes, cause.kind) = {cause.para}
  BY ParasInSingle
<1>4. \A kind : kind # cause.kind => ParasIn(causes, kind) = {}
  BY ParasInSingle
<1>5. Causes(causes, cause.kind) = {1} /\ \A kind : kind # cause.kind => Causes(causes, kind) = {}
  BY <1>1 DEF Causes
<1> HIDE DEF causes
<1>6. /\ IsStore(u)
      /\ \E n \in {session + 1, session + 2} :
            u.actions = s.actions \union QueuedAt(n, ParasIn(causes, "onboarding"))
  BY <1>1, <1>2, AcceptStore
<1>7. /\ DOMAIN u.upgrade_at = DOMAIN s.upgrade_at \union ParasIn(causes, "upgrade")
      /\ \A p \in ParasIn(causes, "upgrade") :
            u.upgrade_at[p] = ExpectedAt(causes[LastUpgrade(causes, p)].relay_parent)
      /\ \A p \in DOMAIN s.upgrade_at :
            p \notin ParasIn(causes, "upgrade") => u.upgrade_at[p] = s.upgrade_at[p]
      /\ u.upcoming = s.upcoming \union Announcements(causes)
  BY <1>1, <1>2, AcceptFields
<1>8. CASE cause.kind = "onboarding"
  <2>1. ParasIn(causes, "upgrade") = {} /\ Causes(causes, "upgrade") = {}
    BY <1>4, <1>5, <1>8
  <2>2. Announcements(causes) = {}
    BY <2>1 DEF Announcements
  <2>3. \A n : QueuedAt(n, ParasIn(causes, "onboarding")) = {<<n, cause.para>>}
    BY <1>3, <1>8 DEF QueuedAt
  <2> QED BY <1>6, <1>7, <1>8, <2>1, <2>2, <2>3 DEF SameUpgrades, QueuedOnce
<1>9. CASE cause.kind = "upgrade"
  <2>1. ParasIn(causes, "onboarding") = {} /\ ParasIn(causes, "upgrade") = {cause.para}
    BY <1>3, <1>4, <1>9
  <2>2. \A n : QueuedAt(n, ParasIn(causes, "onboarding")) = {}
    BY <2>1 DEF QueuedAt
  <2>3. causes[LastUpgrade(causes, cause.para)] = cause
    BY <1>1, <1>5, <1>9, <2>1, LastUpgradeIs
  <2>4. Announcements(causes) = {<<cause.para, ExpectedAt(cause.relay_parent)>>}
    BY <1>1, <1>5, <1>9 DEF Announcements
  <2>5. u.actions = s.actions
    BY <1>6, <2>2
  <2>6. u.upgrade_at[cause.para] = ExpectedAt(cause.relay_parent)
    BY <1>7, <2>1, <2>3
  <2> QED BY <1>6, <1>7, <1>9, <2>1, <2>4, <2>5, <2>6 DEF UpgradeScheduled
<1> QED BY <1>1, <1>6, <1>8, <1>9 DEF Cause

LEMMA RegisteringIs ==
    ASSUME NEW s, IsStore(s), NEW p \in ParaIds, NEW c \in Codes, NEW chain \in BOOLEAN,
           NEW t, t = Registering(s, p, c, chain)
    PROVE  /\ IsStore(t) /\ Same(s, t, {"lifecycles", "genesis", "current"})
           /\ t.lifecycles = Put(s.lifecycles, p, "Onboarding")
           /\ t.genesis = Put(s.genesis, p, chain)
           /\ t.current = Put(s.current, p, c)
<1>1. Shape(s)
  BY DEF IsStore
<1>2. /\ Shape(t) /\ Same(s, t, {"lifecycles", "genesis", "current"})
      /\ t.lifecycles = Put(s.lifecycles, p, "Onboarding")
      /\ t.genesis = Put(s.genesis, p, chain)
      /\ t.current = Put(s.current, p, c)
  BY <1>1 DEF Registering, Shape, Fields, Same
<1>3. /\ IsMap(t.lifecycles, ParaIds, LifecycleNames) /\ IsMap(t.genesis, ParaIds, BOOLEAN)
      /\ IsMap(t.current, ParaIds, Codes)
  BY <1>2 DEF IsStore, StoreOK, IsMap, Put, LifecycleNames
<1> QED BY <1>2, <1>3 DEF IsStore, StoreOK, Same, Fields

LEMMA OnboardsIs ==
    ASSUME NEW s, IsStore(s), NEW p \in ParaIds, NEW c \in Codes, NEW chain \in BOOLEAN,
           now \in Nat, session \in Nat,
           NEW t, t = kick_off_pvf_check(Registering(s, p, c, chain), Onboarding(p), c)
    PROVE  IsStore(t) /\ Onboards(s, t, p, c)
<1> DEFINE r == Registering(s, p, c, chain)
           cause == Onboarding(p)
           u == enact_pvf_accepted(r, <<cause>>, 0)
<1>1. /\ IsStore(r) /\ Same(s, r, {"lifecycles", "genesis", "current"})
      /\ r.lifecycles = Put(s.lifecycles, p, "Onboarding")
      /\ r.genesis = Put(s.genesis, p, chain)
      /\ r.current = Put(s.current, p, c)
  BY RegisteringIs
<1>2. cause \in Cause /\ cause.kind = "onboarding" /\ cause.para = p
  BY VoteTypes
<1> HIDE DEF r, cause
<1>3. t = kick_off_pvf_check(r, cause, c)
  BY DEF r, cause
<1>4. Shape(r) /\ r.refs \in [Codes -> Nat] /\ IsMap(s.votes, Codes, Vote)
  BY <1>1 DEF IsStore, StoreOK
<1>5. /\ r.refs = s.refs /\ r.stored = s.stored /\ r.votes = s.votes /\ r.actions = s.actions
      /\ r.upgrade_at = s.upgrade_at /\ r.upcoming = s.upcoming
  BY <1>1 DEF Same, Fields
<1>6. FastTracked(r, c) <=> FastTracked(s, c)
  BY <1>5 DEF FastTracked
<1>7. IsStore(t)
  BY <1>1, <1>2, <1>3, KickOffStore
<1>8. /\ RefAdded(r, t, c)
      /\ ~FastTracked(r, c) => /\ Same(r, t, {"refs", "stored", "votes"})
                               /\ t.votes = WithCause(r.votes, c, cause)
      /\ FastTracked(r, c) =>
           /\ Same(r, t, {"refs", "stored", "actions", "upgrade_at", "upcoming"})
           /\ t.actions = u.actions /\ t.upgrade_at = u.upgrade_at /\ t.upcoming = u.upcoming
  BY <1>3, <1>4, KickOffIs
<1>9. SameUpgrades(r, u) /\ QueuedOnce(r, u, p)
  BY <1>1, <1>2, AcceptSingle
<1> HIDE DEF u
<1>10. RefAdded(s, t, c)
  BY <1>5, <1>8 DEF RefAdded
<1>11. CASE FastTracked(s, c)
  <2>1. Same(r, t, {"refs", "stored", "actions", "upgrade_at", "upcoming"})
    BY <1>6, <1>8, <1>11
  <2>2. /\ t.lifecycles = r.lifecycles /\ t.genesis = r.genesis /\ t.current = r.current
        /\ t.votes = r.votes
    BY <2>1 DEF Same, Fields
  <2>3. Same(s, t, {"lifecycles", "genesis", "current", "refs", "stored", "votes", "actions",
                   "upgrade_at", "upcoming"})
    BY <1>1, <2>1 DEF Same
  <2>4. SameUpgrades(s, t)
    BY <1>5, <1>6, <1>8, <1>9, <1>11 DEF SameUpgrades
  <2>5. QueuedOnce(s, t, p)
    BY <1>5, <1>6, <1>8, <1>9, <1>11 DEF QueuedOnce
  <2>6. DOMAIN t.genesis = DOMAIN s.genesis \union {p}
    BY <1>1, <2>2 DEF Put
  <2> QED BY <1>1, <1>5, <1>7, <1>10, <1>11, <2>2, <2>3, <2>4, <2>5, <2>6 DEF Onboards
<1>12. CASE ~FastTracked(s, c)
  <2>1. Same(r, t, {"refs", "stored", "votes"}) /\ t.votes = WithCause(s.votes, c, cause)
    BY <1>5, <1>6, <1>8, <1>12
  <2>2. /\ t.lifecycles = r.lifecycles /\ t.genesis = r.genesis /\ t.current = r.current
        /\ t.actions = r.actions /\ t.upgrade_at = r.upgrade_at /\ t.upcoming = r.upcoming
    BY <2>1 DEF Same, Fields
  <2>3. Same(s, t, {"lifecycles", "genesis", "current", "refs", "stored", "votes", "actions",
                   "upgrade_at", "upcoming"})
    BY <1>1, <2>1 DEF Same
  <2>4. SameUpgrades(s, t)
    BY <1>5, <2>2 DEF SameUpgrades
  <2>5. MoreAsked(s.votes, t.votes, c, Onboarding(p))
    BY <1>2, <1>4, <2>1, WithCauseAsks DEF cause
  <2>6. DOMAIN t.genesis = DOMAIN s.genesis \union {p}
    BY <1>1, <2>2 DEF Put
  <2> QED BY <1>1, <1>5, <1>7, <1>10, <1>12, <2>2, <2>3, <2>4, <2>5, <2>6 DEF Onboards
<1> QED BY <1>11, <1>12

Signals(s, t, p, c, r) ==
    /\ RefAdded(s, t, c)
    /\ Same(s, t, {"future", "restricted", "cooldowns", "refs", "stored", "votes",
                   "upgrade_at", "upcoming", "actions"})
    /\ t.future = Put(s.future, p, c) /\ t.actions = s.actions
    /\ ~FastTracked(s, c) => /\ SameUpgrades(s, t)
                             /\ MoreAsked(s.votes, t.votes, c, Upgrade(p, r))
    /\ FastTracked(s, c) => t.votes = s.votes /\ UpgradeScheduled(s, t, p, ExpectedAt(r))

LEMMA SignalsIs ==
    ASSUME NEW s, IsStore(s), NEW p \in ParaIds, NEW c \in Codes, NEW r \in Nat,
           now \in Nat, session \in Nat, ~UpgradeDropped(s, p, c),
           NEW t, t = schedule_code_upgrade(s, p, c, r)
    PROVE  Signals(s, t, p, c, r)
<1> DEFINE g == Signalled(s, p, c, r)
           cause == Upgrade(p, r)
           u == enact_pvf_accepted(g, <<cause>>, 0)
<1>1. /\ IsStore(g) /\ Same(s, g, {"future", "restricted", "cooldowns"})
      /\ g.future = Put(s.future, p, c)
  BY SignalledIs
<1>2. cause \in Cause /\ cause.kind = "upgrade" /\ cause.para = p /\ cause.relay_parent = r
  BY VoteTypes
<1>3. t = kick_off_pvf_check(g, cause, c)
  BY ScheduleStore
<1> HIDE DEF g, cause
<1>4. Shape(g) /\ g.refs \in [Codes -> Nat] /\ IsMap(s.votes, Codes, Vote)
  BY <1>1 DEF IsStore, StoreOK
<1>5. /\ g.refs = s.refs /\ g.stored = s.stored /\ g.votes = s.votes /\ g.actions = s.actions
      /\ g.upgrade_at = s.upgrade_at /\ g.upcoming = s.upcoming
  BY <1>1 DEF Same, Fields
<1>6. FastTracked(g, c) <=> FastTracked(s, c)
  BY <1>5 DEF FastTracked
<1>7. /\ RefAdded(g, t, c)
      /\ ~FastTracked(g, c) => /\ Same(g, t, {"refs", "stored", "votes"})
                               /\ t.votes = WithCause(g.votes, c, cause)
      /\ FastTracked(g, c) =>
           /\ Same(g, t, {"refs", "stored", "actions", "upgrade_at", "upcoming"})
           /\ t.actions = u.actions /\ t.upgrade_at = u.upgrade_at /\ t.upcoming = u.upcoming
  BY <1>3, <1>4, KickOffIs
<1>8. u.actions = g.actions /\ UpgradeScheduled(g, u, p, ExpectedAt(r))
  BY <1>1, <1>2, AcceptSingle
<1> HIDE DEF u
<1>9. RefAdded(s, t, c)
  BY <1>5, <1>7 DEF RefAdded
<1>10. CASE FastTracked(s, c)
  <2>1. Same(g, t, {"refs", "stored", "actions", "upgrade_at", "upcoming"})
    BY <1>6, <1>7, <1>10
  <2>2. t.future = g.future /\ t.votes = g.votes
    BY <2>1 DEF Same, Fields
  <2>3. Same(s, t, {"future", "restricted", "cooldowns", "refs", "stored", "votes",
                   "upgrade_at", "upcoming", "actions"})
    BY <1>1, <2>1 DEF Same
  <2>4. t.actions = s.actions /\ UpgradeScheduled(s, t, p, ExpectedAt(r))
    BY <1>5, <1>6, <1>7, <1>8, <1>10 DEF UpgradeScheduled
  <2> QED BY <1>1, <1>5, <1>9, <1>10, <2>2, <2>3, <2>4 DEF Signals
<1>11. CASE ~FastTracked(s, c)
  <2>1. Same(g, t, {"refs", "stored", "votes"}) /\ t.votes = WithCause(s.votes, c, cause)
    BY <1>5, <1>6, <1>7, <1>11
  <2>2. /\ t.future = g.future /\ t.actions = g.actions /\ t.upgrade_at = g.upgrade_at
        /\ t.upcoming = g.upcoming
    BY <2>1 DEF Same, Fields
  <2>3. Same(s, t, {"future", "restricted", "cooldowns", "refs", "stored", "votes",
                   "upgrade_at", "upcoming", "actions"})
    BY <1>1, <2>1 DEF Same
  <2>4. SameUpgrades(s, t)
    BY <1>5, <2>2 DEF SameUpgrades
  <2>5. MoreAsked(s.votes, t.votes, c, Upgrade(p, r))
    BY <1>2, <1>4, <2>1, WithCauseAsks DEF cause
  <2> QED BY <1>1, <1>5, <1>9, <1>11, <2>2, <2>3, <2>4, <2>5 DEF Signals
<1> QED BY <1>10, <1>11

\* t has the code of the paras in old, that was expected at block at, as past code.
PastNoted(s, t, old, at) ==
    /\ DOMAIN t.past = DOMAIN s.past \union ((DOMAIN old) \X {at})
    /\ \A p \in DOMAIN old : t.past[<<p, at>>] = old[p]
    /\ \A k \in DOMAIN s.past : k \notin (DOMAIN old) \X {at} => t.past[k] = s.past[k]
    /\ \A p \in ParaIds : \A i \in DOMAIN t.meta[p] :
          \/ i \in DOMAIN s.meta[p] /\ t.meta[p][i] = s.meta[p][i]
          \/ /\ p \in DOMAIN old
             /\ t.meta[p][i].expected_at = at /\ t.meta[p][i].activated_at = now

LEMMA PastNotedIs ==
    ASSUME NEW s, IsStore(s), NEW old, IsMap(old, ParaIds, Codes), NEW at \in Nat,
           now \in Nat, NEW t, t = note_past_code(s, old, at, now)
    PROVE  PastNoted(s, t, old, at)
<1> DEFINE time == [expected_at |-> at, activated_at |-> now]
<1>1. /\ \A p \in ParaIds : p \in DOMAIN old => t.meta[p] = Append(s.meta[p], time)
      /\ \A p \in ParaIds : p \notin DOMAIN old => t.meta[p] = s.meta[p]
      /\ DOMAIN t.past = DOMAIN s.past \union ((DOMAIN old) \X {at})
      /\ \A p \in DOMAIN old : t.past[<<p, at>>] = old[p]
      /\ \A k \in DOMAIN s.past : k \notin (DOMAIN old) \X {at} => t.past[k] = s.past[k]
  <2>1. Shape(s)
    BY DEF IsStore
  <2> QED BY <2>1, NotePastFields
<1>2. ASSUME NEW p \in ParaIds, NEW i \in DOMAIN t.meta[p]
      PROVE  \/ i \in DOMAIN s.meta[p] /\ t.meta[p][i] = s.meta[p][i]
             \/ /\ p \in DOMAIN old
                /\ t.meta[p][i].expected_at = at /\ t.meta[p][i].activated_at = now
  <2>1. CASE p \in DOMAIN old
    <3>1. s.meta[p] \in Seq(ReplacementTimes)
      BY DEF IsStore, StoreOK, IsMap
    <3>2. time.expected_at = at /\ time.activated_at = now
      OBVIOUS
    <3>3. t.meta[p] = Append(s.meta[p], time)
      BY <1>1, <2>1
    <3> HIDE DEF time
    <3>4. \/ i \in DOMAIN s.meta[p] /\ t.meta[p][i] = s.meta[p][i]
          \/ t.meta[p][i] = time
      BY <3>1, <3>3
    <3> QED BY <2>1, <3>2, <3>4
  <2>2. CASE p \notin DOMAIN old
    BY <1>1, <2>2
  <2> QED BY <2>1, <2>2
<1> QED BY <1>1, <1>2 DEF PastNoted

Swaps(s, t, p) ==
    /\ Same(s, t, {"heads", "upgrade_at", "go_ahead", "future", "current", "meta", "past",
                   "pruning"})
    /\ t.heads = s.heads \union {p} /\ t.upgrade_at = Without(s.upgrade_at, {p})
    /\ t.go_ahead = Without(s.go_ahead, {p}) /\ t.future = Without(s.future, {p})
    /\ t.current = Put(s.current, p, s.future[p])
    /\ PastNoted(s, t, [q \in {p} |-> s.current[p]], s.upgrade_at[p])

LEMMA SwapsIs ==
    ASSUME NEW s, IsStore(s), NEW p \in ParaIds, NEW context, now \in Nat,
           p \in DOMAIN s.upgrade_at, ~(s.upgrade_at[p] > context),
           p \in DOMAIN s.future, p \in DOMAIN s.current,
           NEW t, t = note_new_head(s, p, context)
    PROVE  Swaps(s, t, p)
<1> DEFINE old == [q \in {p} |-> s.current[p]]
           n == Swapped(s, p)
<1>1. t = note_past_code(n, old, s.upgrade_at[p], now)
  BY NewHeadIs
<1>2. /\ IsStore(n) /\ Same(s, n, {"heads", "upgrade_at", "go_ahead", "future", "current"})
      /\ n.heads = s.heads \union {p} /\ n.upgrade_at = Without(s.upgrade_at, {p})
      /\ n.go_ahead = Without(s.go_ahead, {p}) /\ n.future = Without(s.future, {p})
      /\ n.current = Put(s.current, p, s.future[p])
  BY SwappedIs
<1>3. IsMap(old, ParaIds, Codes) /\ s.upgrade_at[p] \in Nat /\ Shape(n)
  BY <1>2 DEF IsStore, StoreOK, IsMap
<1> HIDE DEF old, n
<1>4. PastNoted(n, t, old, s.upgrade_at[p]) /\ Same(n, t, {"meta", "past", "pruning"})
  BY <1>1, <1>2, <1>3, PastNotedIs, NotePastFields
<1>5. n.past = s.past /\ n.meta = s.meta
  BY <1>2 DEF Same, Fields
<1>6. /\ t.heads = n.heads /\ t.upgrade_at = n.upgrade_at /\ t.go_ahead = n.go_ahead
      /\ t.future = n.future /\ t.current = n.current
  BY <1>4 DEF Same, Fields
<1>7. Same(s, t, {"heads", "upgrade_at", "go_ahead", "future", "current", "meta", "past",
                  "pruning"})
  BY <1>2, <1>4 DEF Same
<1>8. PastNoted(s, t, old, s.upgrade_at[p])
  BY <1>4, <1>5 DEF PastNoted
<1> QED BY <1>2, <1>6, <1>7, <1>8 DEF Swaps, old

Offboards(s, t, gone) ==
    /\ Same(s, t, {"refs", "stored", "parachains", "heads", "upgrade_at", "go_ahead",
                   "restricted", "lifecycles", "future", "current", "upcoming", "cooldowns",
                   "meta", "past", "pruning"})
    /\ t.refs = decrease_code_refs(s, FutureRefs(s, gone)).refs
    /\ t.stored = decrease_code_refs(s, FutureRefs(s, gone)).stored
    /\ t.parachains = s.parachains \ gone /\ t.heads = s.heads \ gone
    /\ t.upgrade_at = Without(s.upgrade_at, gone)
    /\ t.go_ahead = Without(s.go_ahead, gone)
    /\ t.lifecycles = Without(s.lifecycles, gone)
    /\ t.future = Without(s.future, gone)
    /\ t.current = Without(s.current, gone)
    /\ t.upcoming = {u \in s.upcoming : u[1] \notin gone}
    /\ PastNoted(s, t, OldCodes(s, gone), now)

LEMMA OffboardsIs ==
    ASSUME NEW s, IsStore(s), NEW gone \in SUBSET ParaIds, now \in Nat,
           NEW t, t = Offboard(s, gone)
    PROVE  Offboards(s, t, gone)
<1> DEFINE d == Dropped(s, gone)
           old == OldCodes(s, gone)
<1>1. /\ IsStore(d) /\ IsMap(old, ParaIds, Codes) /\ t = note_past_code(d, old, now, now)
      /\ Shape(d) /\ Shape(s)
  BY OffboardStore DEF IsStore
<1>2. /\ Same(s, d, {"refs", "stored", "parachains", "heads", "upgrade_at",
                                 "go_ahead", "restricted", "lifecycles", "future",
                                 "current", "upcoming", "cooldowns"})
      /\ d.refs = decrease_code_refs(s, FutureRefs(s, gone)).refs
      /\ d.stored = decrease_code_refs(s, FutureRefs(s, gone)).stored
      /\ d.parachains = s.parachains \ gone /\ d.heads = s.heads \ gone
      /\ d.upgrade_at = Without(s.upgrade_at, gone)
      /\ d.go_ahead = Without(s.go_ahead, gone)
      /\ d.lifecycles = Without(s.lifecycles, gone)
      /\ d.future = Without(s.future, gone)
      /\ d.current = Without(s.current, gone)
      /\ d.upcoming = {u \in s.upcoming : u[1] \notin gone}
  BY <1>1, DroppedFields
<1> HIDE DEF d, old
<1>3. PastNoted(d, t, old, now) /\ Same(d, t, {"meta", "past", "pruning"})
  BY <1>1, PastNotedIs, NotePastFields
<1>4. d.past = s.past /\ d.meta = s.meta
  BY <1>2 DEF Same, Fields
<1>5. PastNoted(s, t, old, now)
  BY <1>3, <1>4 DEF PastNoted
<1>6. /\ t.refs = d.refs /\ t.stored = d.stored /\ t.parachains = d.parachains
      /\ t.heads = d.heads /\ t.upgrade_at = d.upgrade_at /\ t.go_ahead = d.go_ahead
      /\ t.lifecycles = d.lifecycles /\ t.future = d.future /\ t.current = d.current
      /\ t.upcoming = d.upcoming
  BY <1>3 DEF Same, Fields
<1>7. Same(s, t, {"refs", "stored", "parachains", "heads", "upgrade_at", "go_ahead",
                  "restricted", "lifecycles", "future", "current", "upcoming", "cooldowns",
                  "meta", "past", "pruning"})
  BY <1>2, <1>3 DEF Same
<1> QED BY <1>2, <1>5, <1>6, <1>7 DEF Offboards, old

Applies(s, t, index) ==
    /\ Same(s, t, {"lifecycles", "parachains", "genesis", "heads", "actions"})
    /\ t.actions = s.actions \ ({index} \X ParaIds)
    /\ DOMAIN t.lifecycles = DOMAIN s.lifecycles
    /\ \A p \in DOMAIN s.lifecycles : p \in DueParas(s, index) =>
          t.lifecycles[p] = AfterAction(s, p)
    /\ \A p \in DOMAIN s.lifecycles : p \notin DueParas(s, index) =>
          t.lifecycles[p] = s.lifecycles[p]
    /\ t.parachains = (s.parachains \union Promoted(s, DueParas(s, index)))
                         \ Downgraded(s, DueParas(s, index))
    /\ t.genesis = Without(s.genesis, Initialized(s, DueParas(s, index)))
    /\ t.heads = s.heads \union Initialized(s, DueParas(s, index))

LEMMA AppliesIs ==
    ASSUME NEW s, IsStore(s), NEW index, NEW t, t = Applied(s, index)
    PROVE  Applies(s, t, index)
<1> DEFINE q == Dequeued(s, index)
           due == DueParas(s, index)
<1>1. IsStore(q) /\ Same(s, q, {"actions"}) /\ q.actions = s.actions \ ({index} \X ParaIds)
  BY DequeuedIs
<1>2. t = ApplyActions(q, due) /\ Shape(q)
  BY <1>1 DEF Applied, IsStore
<1> HIDE DEF q, due
<1>3. /\ Same(q, t, {"lifecycles", "parachains", "genesis", "heads"})
      /\ DOMAIN t.lifecycles = DOMAIN q.lifecycles
      /\ \A p \in DOMAIN q.lifecycles : p \in due => t.lifecycles[p] = AfterAction(q, p)
      /\ \A p \in DOMAIN q.lifecycles : p \notin due => t.lifecycles[p] = q.lifecycles[p]
      /\ t.parachains = (q.parachains \union Promoted(q, due)) \ Downgraded(q, due)
      /\ t.genesis = Without(q.genesis, Initialized(q, due))
      /\ t.heads = q.heads \union Initialized(q, due)
  BY <1>2, ApplyFields
<1>4. /\ q.lifecycles = s.lifecycles /\ q.parachains = s.parachains /\ q.genesis = s.genesis
      /\ q.heads = s.heads /\ t.actions = q.actions
  BY <1>1, <1>3 DEF Same, Fields
<1>5. \A p : AfterAction(q, p) = AfterAction(s, p) /\ (IsInitialized(q, p) <=> IsInitialized(s, p))
  BY <1>4 DEF AfterAction, IsInitialized
<1>6. Initialized(q, due) = Initialized(s, due)
  BY <1>5 DEF Initialized
<1>7. Moved(q, due) = Moved(s, due)
  BY <1>4, <1>5 DEF Moved
<1>8. Promoted(q, due) = Promoted(s, due) /\ Downgraded(q, due) = Downgraded(s, due)
  BY <1>4, <1>5, <1>7 DEF Promoted, Downgraded
<1>9. Same(s, t, {"lifecycles", "parachains", "genesis", "heads", "actions"})
  BY <1>1, <1>3 DEF Same
<1> QED BY <1>1, <1>3, <1>4, <1>5, <1>6, <1>8, <1>9 DEF Applies, due

Prunes(s, t, n) ==
    /\ Same(s, t, {"refs", "stored", "pruning", "past", "meta"})
    /\ t.refs = decrease_code_refs(s, Freed(s, n)).refs
    /\ t.stored = decrease_code_refs(s, Freed(s, n)).stored
    /\ t.past = Without(s.past, PrunedKeys(s, n))
    /\ \A p \in ParaIds : \A i \in DOMAIN t.meta[p] : \E j \in DOMAIN s.meta[p] :
          t.meta[p][i] = s.meta[p][j]

LEMMA PrunesIs ==
    ASSUME NEW s, IsStore(s), NEW n \in Nat, ~(n <= Retention),
           NEW t, t = prune_old_code(s, n)
    PROVE  Prunes(s, t, n)
<1>1. Shape(s)
  BY DEF IsStore
<1>2. /\ Same(s, t, {"refs", "stored", "pruning", "past", "meta"})
      /\ t.refs = decrease_code_refs(s, Freed(s, n)).refs
      /\ t.stored = decrease_code_refs(s, Freed(s, n)).stored
      /\ t.past = Without(s.past, PrunedKeys(s, n))
  BY <1>1, PruneFields
<1>3. \A p \in ParaIds : \A i \in DOMAIN t.meta[p] : \E j \in DOMAIN s.meta[p] :
          t.meta[p][i] = s.meta[p][j]
  BY PruneMeta
<1> QED BY <1>2, <1>3 DEF Prunes

Announces(s, t, n) ==
    /\ Same(s, t, {"upcoming", "go_ahead"})
    /\ t.upcoming = s.upcoming \ DueUpgrades(s, n)
    /\ DOMAIN t.go_ahead = DOMAIN s.go_ahead \union Announced(s, n)
    /\ \A p \in Announced(s, n) : t.go_ahead[p] = "GoAhead"
    /\ \A p \in DOMAIN s.go_ahead : p \notin Announced(s, n) => t.go_ahead[p] = s.go_ahead[p]

LEMMA AnnouncesIs ==
    ASSUME NEW s, IsStore(s), NEW n, NEW t, t = process_scheduled_upgrade_changes(s, n)
    PROVE  Announces(s, t, n)
<1>1. Shape(s)
  BY DEF IsStore
<1> QED BY <1>1, ChangesFields DEF Announces

-----------------------------------------------------------------------------
(* The operations keep lifecycles consistent.                              *)

\* t asks for what s asks for.
SameCauses(s, t) ==
    /\ DOMAIN t.votes = DOMAIN s.votes
    /\ \A c \in DOMAIN s.votes : t.votes[c].causes = s.votes[c].causes

LEMMA LifecyclesFrame ==
    ASSUME NEW s, NEW t, Lifecycles(s), SameCauses(s, t), t.lifecycles = s.lifecycles,
           t.parachains = s.parachains, t.heads = s.heads, t.genesis = s.genesis,
           t.actions = s.actions, t.current = s.current
    PROVE  Lifecycles(t)
BY DEF Lifecycles, Registered, OnboardingAsked, ActionsSound, SameCauses

LEMMA AcceptLifecycles ==
    ASSUME NEW s, IsStore(s), NEW c \in DOMAIN s.votes, session \in Nat,
           NEW t, Accepts(s, t, c, s.votes[c].causes), Lifecycles(s)
    PROVE  Lifecycles(t)
<1> DEFINE new == ParasIn(s.votes[c].causes, "onboarding")
<1>1. /\ t.lifecycles = s.lifecycles /\ t.parachains = s.parachains /\ t.heads = s.heads
      /\ t.genesis = s.genesis /\ t.current = s.current /\ t.votes = Without(s.votes, {c})
  BY DEF Accepts, Same, Fields
<1>2. PICK n \in {session + 1, session + 2} : t.actions = s.actions \union QueuedAt(n, new)
  BY DEF Accepts
<1>3. \A p \in new : /\ p \in DOMAIN s.lifecycles /\ s.lifecycles[p] = "Onboarding"
                     /\ p \in DOMAIN s.current /\ s.current[p] = c
                     /\ \A m \in Nat : <<m, p>> \notin s.actions
  BY DEF Lifecycles, OnboardingAsked
<1> HIDE DEF new
<1>4. \A m, p : <<m, p>> \in t.actions => <<m, p>> \in s.actions \/ (m = n /\ p \in new)
  BY <1>2 DEF QueuedAt
<1>5. Registered(t)
  BY <1>1 DEF Lifecycles, Registered
<1>6. OnboardingAsked(t)
  <2> SUFFICES ASSUME NEW d \in DOMAIN t.votes,
                      NEW p \in ParasIn(t.votes[d].causes, "onboarding")
               PROVE  /\ p \in DOMAIN t.lifecycles /\ t.lifecycles[p] = "Onboarding"
                      /\ p \in DOMAIN t.current /\ t.current[p] = d
                      /\ \A m \in Nat : <<m, p>> \notin t.actions
    BY DEF OnboardingAsked
  <2>1. d \in DOMAIN s.votes /\ d # c /\ t.votes[d] = s.votes[d]
    BY <1>1 DEF Without
  <2>2. /\ p \in DOMAIN s.lifecycles /\ s.lifecycles[p] = "Onboarding"
        /\ p \in DOMAIN s.current /\ s.current[p] = d
        /\ \A m \in Nat : <<m, p>> \notin s.actions
    BY <2>1 DEF Lifecycles, OnboardingAsked
  <2>3. p \notin new
    BY <1>3, <2>1, <2>2
  <2> QED BY <1>1, <1>4, <2>2, <2>3
<1>7. ActionsSound(t)
  <2> SUFFICES ASSUME NEW m \in Nat, NEW p \in ParaIds, <<m, p>> \in t.actions
               PROVE  /\ p \in DOMAIN t.lifecycles /\ ~is_stable(t.lifecycles[p])
                      /\ \A l \in Nat : <<l, p>> \in t.actions => l = m
    BY DEF ActionsSound
  <2>1. CASE <<m, p>> \in s.actions
    <3>1. p \notin new
      BY <1>3, <2>1
    <3> QED BY <1>1, <1>4, <2>1, <3>1 DEF Lifecycles, ActionsSound
  <2>2. CASE m = n /\ p \in new
    BY <1>1, <1>3, <1>4, <2>2 DEF is_stable
  <2> QED BY <1>4, <2>1, <2>2
<1> QED BY <1>5, <1>6, <1>7 DEF Lifecycles

LEMMA RejectLifecycles ==
    ASSUME NEW s, IsStore(s), NEW kept, NEW v, Splits(s.votes, kept, v),
           NEW t, Rejects(s, t, kept, v), Lifecycles(s)
    PROVE  Lifecycles(t)
<1> DEFINE new == AskedBy(v, "onboarding")
<1>1. /\ t.parachains = s.parachains /\ t.heads = s.heads /\ t.actions = s.actions
      /\ t.votes = kept
      /\ t.genesis = Without(s.genesis, new) /\ t.current = Without(s.current, new)
      /\ t.lifecycles = Without(s.lifecycles, new)
  BY DEF Rejects, Same, Fields
<1>2. ASSUME NEW p \in new
      PROVE  /\ p \in DOMAIN s.lifecycles /\ s.lifecycles[p] = "Onboarding"
             /\ p \in DOMAIN s.current /\ s.current[p] \in DOMAIN v
             /\ \A m \in Nat : <<m, p>> \notin s.actions
  <2>1. PICK c \in DOMAIN v : p \in ParasIn(v[c].causes, "onboarding")
    BY AskedByIs
  <2>2. c \in DOMAIN s.votes /\ p \in ParasIn(s.votes[c].causes, "onboarding")
    BY <2>1 DEF Splits
  <2> QED BY <2>1, <2>2 DEF Lifecycles, OnboardingAsked
<1> HIDE DEF new
<1>3. Registered(t)
  <2>1. /\ DOMAIN t.lifecycles = DOMAIN s.lifecycles \ new
        /\ \A p \in DOMAIN t.lifecycles : t.lifecycles[p] = s.lifecycles[p]
        /\ DOMAIN t.current = DOMAIN s.current \ new /\ DOMAIN t.genesis = DOMAIN s.genesis \ new
    BY <1>1 DEF Without
  <2>2. \A p \in new : p \notin s.heads /\ p \notin s.parachains
    BY <1>2 DEF Lifecycles, Registered, is_parachain
  <2> QED BY <1>1, <2>1, <2>2 DEF Lifecycles, Registered
<1>4. OnboardingAsked(t)
  <2> SUFFICES ASSUME NEW d \in DOMAIN t.votes,
                      NEW p \in ParasIn(t.votes[d].causes, "onboarding")
               PROVE  /\ p \in DOMAIN t.lifecycles /\ t.lifecycles[p] = "Onboarding"
                      /\ p \in DOMAIN t.current /\ t.current[p] = d
                      /\ \A m \in Nat : <<m, p>> \notin t.actions
    BY DEF OnboardingAsked
  <2>1. d \in DOMAIN s.votes /\ d \notin DOMAIN v /\ p \in ParasIn(s.votes[d].causes, "onboarding")
    BY <1>1 DEF Splits
  <2>2. /\ p \in DOMAIN s.lifecycles /\ s.lifecycles[p] = "Onboarding"
        /\ p \in DOMAIN s.current /\ s.current[p] = d
        /\ \A m \in Nat : <<m, p>> \notin s.actions
    BY <2>1 DEF Lifecycles, OnboardingAsked
  <2>3. p \notin new
    BY <1>2, <2>1, <2>2
  <2> QED BY <1>1, <2>2, <2>3 DEF Without
<1>5. ActionsSound(t)
  <2> SUFFICES ASSUME NEW m \in Nat, NEW p \in ParaIds, <<m, p>> \in t.actions
               PROVE  /\ p \in DOMAIN t.lifecycles /\ ~is_stable(t.lifecycles[p])
                      /\ \A l \in Nat : <<l, p>> \in t.actions => l = m
    BY DEF ActionsSound
  <2>1. <<m, p>> \in s.actions /\ p \notin new
    BY <1>1, <1>2
  <2> QED BY <1>1, <2>1 DEF Lifecycles, ActionsSound, Without
<1> QED BY <1>3, <1>4, <1>5 DEF Lifecycles

LEMMA OnboardLifecycles ==
    ASSUME NEW s, IsStore(s), NEW p \in ParaIds, NEW c \in Codes, session \in Nat,
           NEW t, Onboards(s, t, p, c), p \notin DOMAIN s.lifecycles, Lifecycles(s)
    PROVE  Lifecycles(t)
<1>1. t.parachains = s.parachains /\ t.heads = s.heads
  BY DEF Onboards, Same, Fields
<1>2. /\ DOMAIN t.lifecycles = DOMAIN s.lifecycles \union {p}
      /\ t.lifecycles[p] = "Onboarding"
      /\ \A q \in DOMAIN s.lifecycles : t.lifecycles[q] = s.lifecycles[q]
      /\ DOMAIN t.current = DOMAIN s.current \union {p} /\ t.current[p] = c
      /\ \A q \in DOMAIN s.lifecycles : t.current[q] = s.current[q]
      /\ DOMAIN t.genesis = DOMAIN s.genesis \union {p}
  BY DEF Onboards, Put, Lifecycles, Registered
<1>3. Registered(t)
  BY <1>1, <1>2 DEF Lifecycles, Registered, is_parachain
<1>4. \A m \in Nat : <<m, p>> \notin s.actions
  BY DEF Lifecycles, ActionsSound
<1>5. ASSUME NEW d \in DOMAIN s.votes, NEW q \in ParasIn(s.votes[d].causes, "onboarding")
      PROVE  /\ q \in DOMAIN t.lifecycles /\ t.lifecycles[q] = "Onboarding"
             /\ q \in DOMAIN t.current /\ t.current[q] = d /\ q # p
             /\ \A m \in Nat : <<m, q>> \notin s.actions
  BY <1>2 DEF Lifecycles, OnboardingAsked
<1>6. CASE ~FastTracked(s, c)
  <2>1. t.actions = s.actions /\ MoreAsked(s.votes, t.votes, c, Onboarding(p))
    BY <1>6 DEF Onboards
  <2>2. Onboarding(p).para = p
    BY VoteTypes
  <2>3. OnboardingAsked(t)
    <3> SUFFICES ASSUME NEW d \in DOMAIN t.votes,
                        NEW q \in ParasIn(t.votes[d].causes, "onboarding")
                 PROVE  /\ q \in DOMAIN t.lifecycles /\ t.lifecycles[q] = "Onboarding"
                        /\ q \in DOMAIN t.current /\ t.current[q] = d
                        /\ \A m \in Nat : <<m, q>> \notin t.actions
      BY DEF OnboardingAsked
    <3>1. \/ d \in DOMAIN s.votes /\ q \in ParasIn(s.votes[d].causes, "onboarding")
          \/ d = c /\ q = p
      BY <2>1, <2>2 DEF MoreAsked
    <3> QED BY <1>2, <1>4, <1>5, <2>1, <3>1
  <2>4. ActionsSound(t)
    BY <1>2, <1>4, <2>1 DEF Lifecycles, ActionsSound
  <2> QED BY <1>3, <2>3, <2>4 DEF Lifecycles
<1>7. CASE FastTracked(s, c)
  <2>1. t.votes = s.votes /\ QueuedOnce(s, t, p)
    BY <1>7 DEF Onboards
  <2>2. PICK n \in {session + 1, session + 2} : t.actions = s.actions \union {<<n, p>>}
    BY <2>1 DEF QueuedOnce
  <2>3. OnboardingAsked(t)
    <3> SUFFICES ASSUME NEW d \in DOMAIN t.votes,
                        NEW q \in ParasIn(t.votes[d].causes, "onboarding")
                 PROVE  /\ q \in DOMAIN t.lifecycles /\ t.lifecycles[q] = "Onboarding"
                        /\ q \in DOMAIN t.current /\ t.current[q] = d
                        /\ \A m \in Nat : <<m, q>> \notin t.actions
      BY DEF OnboardingAsked
    <3> QED BY <1>5, <2>1, <2>2
  <2>4. ActionsSound(t)
    <3> SUFFICES ASSUME NEW m \in Nat, NEW q \in ParaIds, <<m, q>> \in t.actions
                 PROVE  /\ q \in DOMAIN t.lifecycles /\ ~is_stable(t.lifecycles[q])
                        /\ \A l \in Nat : <<l, q>> \in t.actions => l = m
      BY DEF ActionsSound
    <3>1. CASE q = p
      <4>1. \A l \in Nat : <<l, p>> \in t.actions => l = n
        BY <1>4, <2>2
      <4> QED BY <1>2, <3>1, <4>1 DEF is_stable
    <3>2. CASE q # p
      <4>1. \A l \in Nat : <<l, q>> \in t.actions => <<l, q>> \in s.actions
        BY <2>2, <3>2
      <4> QED BY <1>2, <4>1 DEF Lifecycles, ActionsSound
    <3> QED BY <3>1, <3>2
  <2> QED BY <1>3, <2>3, <2>4 DEF Lifecycles
<1> QED BY <1>6, <1>7

LEMMA SignalLifecycles ==
    ASSUME NEW s, IsStore(s), NEW p \in ParaIds, NEW c \in Codes, NEW r \in Nat,
           NEW t, Signals(s, t, p, c, r), Lifecycles(s)
    PROVE  Lifecycles(t)
<1>1. /\ t.lifecycles = s.lifecycles /\ t.parachains = s.parachains /\ t.heads = s.heads
      /\ t.genesis = s.genesis /\ t.current = s.current /\ t.actions = s.actions
  BY DEF Signals, Same, Fields
<1>2. ASSUME NEW d \in DOMAIN t.votes, NEW q \in ParasIn(t.votes[d].causes, "onboarding")
      PROVE  d \in DOMAIN s.votes /\ q \in ParasIn(s.votes[d].causes, "onboarding")
  <2>1. CASE FastTracked(s, c)
    BY <1>2, <2>1 DEF Signals
  <2>2. CASE ~FastTracked(s, c)
    <3>1. MoreAsked(s.votes, t.votes, c, Upgrade(p, r)) /\ Upgrade(p, r).kind = "upgrade"
      BY <2>2, VoteTypes DEF Signals
    <3> QED BY <1>2, <3>1 DEF MoreAsked
  <2> QED BY <2>1, <2>2
<1> QED BY <1>1, <1>2 DEF Lifecycles, Registered, OnboardingAsked, ActionsSound

\* A head of a para that has one changes its code at most.
LEMMA HeadLifecycles ==
    ASSUME NEW s, NEW t, NEW p \in s.heads, t.heads = s.heads \union {p},
           Same(s, t, {"heads", "upgrade_at", "go_ahead", "future", "current", "meta", "past",
                       "pruning"}),
           t.current = s.current \/ t.current = Put(s.current, p, s.future[p]), Lifecycles(s)
    PROVE  Lifecycles(t)
<1>1. /\ t.lifecycles = s.lifecycles /\ t.parachains = s.parachains /\ t.heads = s.heads
      /\ t.genesis = s.genesis /\ t.votes = s.votes /\ t.actions = s.actions
  BY DEF Same, Fields
<1>2. p \in DOMAIN s.current /\ p \in DOMAIN s.lifecycles /\ s.lifecycles[p] # "Onboarding"
  BY DEF Lifecycles, Registered
<1>3. DOMAIN t.current = DOMAIN s.current /\ \A q \in DOMAIN s.current : q # p => t.current[q] = s.current[q]
  BY <1>2 DEF Put
<1> QED BY <1>1, <1>2, <1>3 DEF Lifecycles, Registered, OnboardingAsked, ActionsSound

LEMMA ApplyLifecycles ==
    ASSUME NEW s, IsStore(s), NEW index \in Nat, NEW t, IsStore(t), Applies(s, t, index),
           Lifecycles(s)
    PROVE  Lifecycles(t)
<1> DEFINE due == DueParas(s, index)
<1>1. /\ t.current = s.current /\ t.votes = s.votes
      /\ t.actions = s.actions \ ({index} \X ParaIds)
      /\ DOMAIN t.lifecycles = DOMAIN s.lifecycles
      /\ \A p \in DOMAIN s.lifecycles : p \in due => t.lifecycles[p] = AfterAction(s, p)
      /\ \A p \in DOMAIN s.lifecycles : p \notin due => t.lifecycles[p] = s.lifecycles[p]
      /\ t.parachains = (s.parachains \union Promoted(s, due)) \ Downgraded(s, due)
      /\ t.genesis = Without(s.genesis, Initialized(s, due))
      /\ t.heads = s.heads \union Initialized(s, due)
  BY DEF Applies, Same, Fields
<1>2. \A p \in due : <<index, p>> \in s.actions
  BY DEF DueParas
<1> HIDE DEF due
<1>3. ASSUME NEW p \in due
      PROVE  /\ p \in ParaIds /\ p \in DOMAIN s.lifecycles /\ ~is_stable(s.lifecycles[p])
             /\ \A m \in Nat : <<m, p>> \in s.actions => m = index
             /\ s.lifecycles[p] \in LifecycleNames
             /\ s.lifecycles[p] = "Onboarding" <=> IsInitialized(s, p)
  <2>1. p \in ParaIds
    BY <1>3 DEF due, DueParas
  <2>2. /\ p \in DOMAIN s.lifecycles /\ ~is_stable(s.lifecycles[p])
        /\ \A m \in Nat : <<m, p>> \in s.actions => m = index
    BY <1>2, <2>1 DEF Lifecycles, ActionsSound
  <2>3. s.lifecycles[p] = "Onboarding" => p \in DOMAIN s.genesis
    BY <2>2 DEF Lifecycles, Registered
  <2> QED BY <2>1, <2>2, <2>3 DEF IsInitialized, GetOr, IsStore, StoreOK, IsMap
<1>4. ASSUME NEW p \in DOMAIN s.lifecycles
      PROVE  /\ p \in t.parachains <=> is_parachain(t.lifecycles[p])
             /\ p \in t.heads <=> t.lifecycles[p] # "Onboarding"
             /\ p \in DOMAIN t.genesis <=> p \notin t.heads
  <2>1. /\ p \in s.parachains <=> is_parachain(s.lifecycles[p])
        /\ p \in s.heads <=> s.lifecycles[p] # "Onboarding"
        /\ p \in DOMAIN s.genesis <=> p \notin s.heads
    BY DEF Lifecycles, Registered
  <2>2. CASE p \notin due
    <3>1. p \notin Promoted(s, due) /\ p \notin Downgraded(s, due) /\ p \notin Initialized(s, due)
      BY <2>2 DEF Promoted, Downgraded, Initialized, Moved
    <3> QED BY <1>1, <2>1, <2>2, <3>1 DEF Without
  <2>3. CASE p \in due
    <3>1. t.lifecycles[p] = AfterAction(s, p)
      BY <1>1, <2>3
    <3>2. CASE IsInitialized(s, p)
      <4>1. p \in Initialized(s, due) /\ s.lifecycles[p] = "Onboarding"
        BY <1>3, <2>3, <3>2 DEF Initialized
      <4>2. AfterAction(s, p) = IF s.genesis[p] THEN "Parachain" ELSE "Parathread"
        BY <3>2, <4>1 DEF AfterAction
      <4>3. p \in Moved(s, due)
        BY <2>3, <4>2, <4>1 DEF Moved
      <4>4. p \notin Downgraded(s, due) /\ (p \in Promoted(s, due) <=> s.genesis[p])
        BY <4>2, <4>1, <4>3 DEF Downgraded, Promoted
      <4> QED BY <1>1, <2>1, <3>1, <4>2, <4>1, <4>4 DEF Without, is_parachain
    <3>3. CASE ~IsInitialized(s, p)
      <4>1. s.lifecycles[p] # "Onboarding" /\ p \notin Initialized(s, due)
        BY <1>3, <2>3, <3>3 DEF Initialized
      <4>2. CASE s.lifecycles[p] = "UpgradingParathread"
        <5>1. AfterAction(s, p) = "Parachain"
          BY <3>3, <4>2 DEF AfterAction
        <5>2. p \in Promoted(s, due) /\ p \notin Downgraded(s, due)
          BY <2>3, <4>2, <5>1 DEF Promoted, Downgraded, Moved
        <5> QED BY <1>1, <2>1, <3>1, <4>1, <5>1, <5>2 DEF Without, is_parachain
      <4>3. CASE s.lifecycles[p] = "DowngradingParachain"
        <5>1. AfterAction(s, p) = "Parathread"
          BY <3>3, <4>3 DEF AfterAction
        <5>2. p \in Downgraded(s, due)
          BY <2>3, <4>3, <5>1 DEF Downgraded, Moved
        <5> QED BY <1>1, <2>1, <3>1, <4>1, <5>1, <5>2 DEF Without, is_parachain
      <4>4. CASE s.lifecycles[p] \notin {"UpgradingParathread", "DowngradingParachain"}
        <5>1. AfterAction(s, p) = s.lifecycles[p]
          BY <3>3, <4>4 DEF AfterAction
        <5>2. p \notin Promoted(s, due) /\ p \notin Downgraded(s, due)
          BY <5>1 DEF Promoted, Downgraded, Moved
        <5> QED BY <1>1, <2>1, <3>1, <4>1, <5>1, <5>2 DEF Without, is_parachain
      <4> QED BY <4>2, <4>3, <4>4
    <3> QED BY <3>2, <3>3
  <2> QED BY <2>2, <2>3
<1>5. /\ t.parachains \subseteq DOMAIN s.lifecycles /\ t.heads \subseteq DOMAIN s.lifecycles
      /\ DOMAIN t.genesis \subseteq DOMAIN s.lifecycles
  <2>1. Promoted(s, due) \subseteq DOMAIN s.lifecycles /\ Initialized(s, due) \subseteq due
    BY DEF Promoted, Moved, Initialized
  <2>2. /\ s.parachains \subseteq DOMAIN s.lifecycles /\ s.heads \subseteq DOMAIN s.lifecycles
        /\ DOMAIN s.genesis \subseteq DOMAIN s.lifecycles
    BY DEF Lifecycles, Registered
  <2> QED BY <1>1, <1>3, <2>1, <2>2 DEF Without
<1>6. Registered(t)
  <2>1. t.parachains = {p \in DOMAIN t.lifecycles : is_parachain(t.lifecycles[p])}
    BY <1>1, <1>4, <1>5
  <2>2. t.heads = {p \in DOMAIN t.lifecycles : t.lifecycles[p] # "Onboarding"}
    BY <1>1, <1>4, <1>5
  <2>3. DOMAIN t.genesis = DOMAIN t.lifecycles \ t.heads
    BY <1>1, <1>4, <1>5
  <2>4. DOMAIN t.current = DOMAIN t.lifecycles
    BY <1>1 DEF Lifecycles, Registered
  <2> QED BY <2>1, <2>2, <2>3, <2>4 DEF Registered
<1>7. OnboardingAsked(t)
  <2> SUFFICES ASSUME NEW d \in DOMAIN t.votes,
                      NEW p \in ParasIn(t.votes[d].causes, "onboarding")
               PROVE  /\ p \in DOMAIN t.lifecycles /\ t.lifecycles[p] = "Onboarding"
                      /\ p \in DOMAIN t.current /\ t.current[p] = d
                      /\ \A m \in Nat : <<m, p>> \notin t.actions
    BY DEF OnboardingAsked
  <2>1. /\ p \in DOMAIN s.lifecycles /\ s.lifecycles[p] = "Onboarding"
        /\ p \in DOMAIN s.current /\ s.current[p] = d
        /\ \A m \in Nat : <<m, p>> \notin s.actions
    BY <1>1 DEF Lifecycles, OnboardingAsked
  <2>2. p \notin due
    BY <1>2, <2>1
  <2> QED BY <1>1, <2>1, <2>2
<1>8. ActionsSound(t)
  <2> SUFFICES ASSUME NEW m \in Nat, NEW p \in ParaIds, <<m, p>> \in t.actions
               PROVE  /\ p \in DOMAIN t.lifecycles /\ ~is_stable(t.lifecycles[p])
                      /\ \A l \in Nat : <<l, p>> \in t.actions => l = m
    BY DEF ActionsSound
  <2>1. <<m, p>> \in s.actions /\ m # index
    BY <1>1
  <2>2. p \notin due
    BY <1>3, <2>1
  <2> QED BY <1>1, <2>1, <2>2 DEF Lifecycles, ActionsSound
<1> QED BY <1>6, <1>7, <1>8 DEF Lifecycles

LEMMA OffboardLifecycles ==
    ASSUME NEW s, IsStore(s), NEW gone, NEW t, Offboards(s, t, gone), Lifecycles(s),
           \A p \in gone : /\ p \in DOMAIN s.lifecycles => s.lifecycles[p] # "Onboarding"
                           /\ \A m \in Nat : <<m, p>> \notin s.actions
    PROVE  Lifecycles(t)
<1>1. /\ t.votes = s.votes /\ t.actions = s.actions /\ t.genesis = s.genesis
      /\ t.parachains = s.parachains \ gone /\ t.heads = s.heads \ gone
      /\ t.lifecycles = Without(s.lifecycles, gone) /\ t.current = Without(s.current, gone)
  BY DEF Offboards, Same, Fields
<1>2. /\ DOMAIN t.lifecycles = DOMAIN s.lifecycles \ gone
      /\ \A p \in DOMAIN t.lifecycles : t.lifecycles[p] = s.lifecycles[p]
      /\ DOMAIN t.current = DOMAIN s.current \ gone
      /\ \A p \in DOMAIN t.current : t.current[p] = s.current[p]
  BY <1>1 DEF Without
<1>3. Registered(t)
  <2>1. t.parachains = {p \in DOMAIN t.lifecycles : is_parachain(t.lifecycles[p])}
    BY <1>1, <1>2 DEF Lifecycles, Registered
  <2>2. t.heads = {p \in DOMAIN t.lifecycles : t.lifecycles[p] # "Onboarding"}
    BY <1>1, <1>2 DEF Lifecycles, Registered
  <2>3. DOMAIN t.genesis = DOMAIN t.lifecycles \ t.heads
    BY <1>1, <1>2 DEF Lifecycles, Registered
  <2> QED BY <1>2, <2>1, <2>2, <2>3 DEF Lifecycles, Registered
<1>4. OnboardingAsked(t)
  BY <1>1, <1>2 DEF Lifecycles, OnboardingAsked
<1>5. ActionsSound(t)
  BY <1>1, <1>2 DEF Lifecycles, ActionsSound
<1> QED BY <1>3, <1>4, <1>5 DEF Lifecycles

-----------------------------------------------------------------------------
(* The users of a code.                                                    *)

CurrentOf(s, c) == {p \in DOMAIN s.current : s.current[p] = c}
FutureOf(s, c) == {p \in DOMAIN s.future : s.future[p] = c}
PastOf(s, c) == {k \in DOMAIN s.past : s.past[k] = c}

LEMMA UsersFinite ==
    ASSUME NEW s, IsStore(s), NEW c
    PROVE  /\ IsFiniteSet(CurrentOf(s, c)) /\ Cardinality(CurrentOf(s, c)) \in Nat
           /\ IsFiniteSet(FutureOf(s, c)) /\ Cardinality(FutureOf(s, c)) \in Nat
           /\ IsFiniteSet(PastOf(s, c)) /\ Cardinality(PastOf(s, c)) \in Nat
           /\ Users(s, c) = Cardinality(CurrentOf(s, c)) + Cardinality(FutureOf(s, c))
                              + Cardinality(PastOf(s, c))
           /\ Users(s, c) \in Nat
<1>1. CurrentOf(s, c) \in SUBSET ParaIds /\ FutureOf(s, c) \in SUBSET ParaIds
  BY DEF CurrentOf, FutureOf, IsStore, StoreOK, IsMap
<1>2. PastOf(s, c) \in SUBSET DOMAIN s.past /\ IsFiniteSet(DOMAIN s.past)
  BY DEF PastOf, IsStore
<1>3. IsFiniteSet(CurrentOf(s, c)) /\ IsFiniteSet(FutureOf(s, c)) /\ IsFiniteSet(PastOf(s, c))
  BY <1>1, <1>2, FS_Subset, ParasAssumption
<1>4. /\ Cardinality(CurrentOf(s, c)) \in Nat /\ Cardinality(FutureOf(s, c)) \in Nat
      /\ Cardinality(PastOf(s, c)) \in Nat
  BY <1>3, FS_CardinalityType
<1>5. Users(s, c) = Cardinality(CurrentOf(s, c)) + Cardinality(FutureOf(s, c))
                              + Cardinality(PastOf(s, c))
  BY DEF Users, CurrentOf, FutureOf, PastOf
<1> QED BY <1>3, <1>4, <1>5

LEMMA NoUsers ==
    ASSUME NEW s, IsStore(s), NEW c
    PROVE  Users(s, c) = 0 <=> /\ CurrentOf(s, c) = {} /\ FutureOf(s, c) = {}
                               /\ PastOf(s, c) = {}
<1> DEFINE x == Cardinality(CurrentOf(s, c))
           y == Cardinality(FutureOf(s, c))
           z == Cardinality(PastOf(s, c))
<1>1. x \in Nat /\ y \in Nat /\ z \in Nat /\ Users(s, c) = x + y + z
  BY UsersFinite
<1>2. /\ x = 0 <=> CurrentOf(s, c) = {}
      /\ y = 0 <=> FutureOf(s, c) = {}
      /\ z = 0 <=> PastOf(s, c) = {}
  BY UsersFinite, FS_EmptySet
<1> HIDE DEF x, y, z
<1> QED BY <1>1, <1>2

SameUsers(s, t, c) ==
    /\ CurrentOf(t, c) = CurrentOf(s, c) /\ FutureOf(t, c) = FutureOf(s, c)
    /\ PastOf(t, c) = PastOf(s, c)

LEMMA SameUsersCount ==
    ASSUME NEW s, NEW t, NEW c, SameUsers(s, t, c)
    PROVE  Users(t, c) = Users(s, c)
BY DEF SameUsers, Users, CurrentOf, FutureOf, PastOf

LEMMA UsersFrame ==
    ASSUME NEW s, NEW t, t.current = s.current, t.future = s.future, t.past = s.past
    PROVE  \A c : Users(t, c) = Users(s, c) /\ SameUsers(s, t, c)
BY DEF SameUsers, Users, CurrentOf, FutureOf, PastOf

OthersSame(s, t, c) == \A d : d # c => SameUsers(s, t, d)

\* One user more.
LEMMA CurrentAdded ==
    ASSUME NEW s, IsStore(s), NEW t, NEW c, NEW p, p \notin DOMAIN s.current,
           t.current = Put(s.current, p, c), t.future = s.future, t.past = s.past
    PROVE  /\ Users(t, c) = Users(s, c) + 1
           /\ OthersSame(s, t, c)
<1>1. CurrentOf(t, c) = CurrentOf(s, c) \union {p} /\ p \notin CurrentOf(s, c)
  BY DEF CurrentOf, Put
<1>2. \A d : d # c => CurrentOf(t, d) = CurrentOf(s, d)
  BY DEF CurrentOf, Put
<1>3. \A d : FutureOf(t, d) = FutureOf(s, d) /\ PastOf(t, d) = PastOf(s, d)
  BY DEF FutureOf, PastOf
<1>4. Cardinality(CurrentOf(t, c)) = Cardinality(CurrentOf(s, c)) + 1
  BY <1>1, UsersFinite, FS_AddElement
<1>5. Users(t, c) = Cardinality(CurrentOf(t, c)) + Cardinality(FutureOf(t, c))
                              + Cardinality(PastOf(t, c))
  BY DEF Users, CurrentOf, FutureOf, PastOf
<1>6. /\ Users(s, c) = Cardinality(CurrentOf(s, c)) + Cardinality(FutureOf(s, c))
                              + Cardinality(PastOf(s, c))
      /\ Cardinality(CurrentOf(s, c)) \in Nat /\ Cardinality(FutureOf(s, c)) \in Nat
      /\ Cardinality(PastOf(s, c)) \in Nat
  BY UsersFinite
<1>7. Users(t, c) = Users(s, c) + 1
  BY <1>3, <1>4, <1>5, <1>6
<1> QED BY <1>2, <1>3, <1>7 DEF SameUsers, OthersSame

LEMMA FutureAdded ==
    ASSUME NEW s, IsStore(s), NEW t, NEW c, NEW p, p \notin DOMAIN s.future,
           t.future = Put(s.future, p, c), t.current = s.current, t.past = s.past
    PROVE  /\ Users(t, c) = Users(s, c) + 1
           /\ OthersSame(s, t, c)
<1>1. FutureOf(t, c) = FutureOf(s, c) \union {p} /\ p \notin FutureOf(s, c)
  BY DEF FutureOf, Put
<1>2. \A d : d # c => FutureOf(t, d) = FutureOf(s, d)
  BY DEF FutureOf, Put
<1>3. \A d : CurrentOf(t, d) = CurrentOf(s, d) /\ PastOf(t, d) = PastOf(s, d)
  BY DEF CurrentOf, PastOf
<1>4. Cardinality(FutureOf(t, c)) = Cardinality(FutureOf(s, c)) + 1
  BY <1>1, UsersFinite, FS_AddElement
<1>5. Users(t, c) = Cardinality(CurrentOf(t, c)) + Cardinality(FutureOf(t, c))
                              + Cardinality(PastOf(t, c))
  BY DEF Users, CurrentOf, FutureOf, PastOf
<1>6. /\ Users(s, c) = Cardinality(CurrentOf(s, c)) + Cardinality(FutureOf(s, c))
                              + Cardinality(PastOf(s, c))
      /\ Cardinality(CurrentOf(s, c)) \in Nat /\ Cardinality(FutureOf(s, c)) \in Nat
      /\ Cardinality(PastOf(s, c)) \in Nat
  BY UsersFinite
<1>7. Users(t, c) = Users(s, c) + 1
  BY <1>3, <1>4, <1>5, <1>6
<1> QED BY <1>2, <1>3, <1>7 DEF SameUsers, OthersSame

\* One user more, or one less, depending on which code it uses.
OneIf(c, d) == IF c = d THEN 1 ELSE 0

LEMMA OneRemoved ==
    ASSUME NEW S, IsFiniteSet(S), NEW x, NEW c, NEW d, x \in S <=> c = d
    PROVE  IsFiniteSet(S \ {x}) /\ Cardinality(S \ {x}) = Cardinality(S) - OneIf(c, d)
<1>1. Cardinality(S) \in Nat
  BY FS_CardinalityType
<1>2. CASE c = d
  <2>1. Cardinality(S \ {x}) = Cardinality(S) - 1 /\ IsFiniteSet(S \ {x})
    BY <1>2, FS_RemoveElement
  <2> QED BY <1>2, <2>1 DEF OneIf
<1>3. CASE c # d
  <2>1. S \ {x} = S
    BY <1>3
  <2> QED BY <1>1, <1>3, <2>1 DEF OneIf
<1> QED BY <1>2, <1>3

\* A code that replaces another one: each keeps its number of users.
LEMMA SwapUsers ==
    ASSUME NEW s, IsStore(s), NEW p \in ParaIds, p \in DOMAIN s.current, p \in DOMAIN s.future,
           NEW t, IsStore(t), NEW at, <<p, at>> \notin DOMAIN s.past,
           t.current = Put(s.current, p, s.future[p]), t.future = Without(s.future, {p}),
           PastNoted(s, t, [q \in {p} |-> s.current[p]], at), NEW c
    PROVE  /\ Users(t, c) = Users(s, c)
           /\ c # s.current[p] /\ c # s.future[p] => SameUsers(s, t, c)
<1> DEFINE k == <<p, at>>
           old == s.current[p]
           new == s.future[p]
<1>1. /\ DOMAIN t.past = DOMAIN s.past \union {k} /\ t.past[k] = old
      /\ \A l \in DOMAIN s.past : t.past[l] = s.past[l]
  <2>1. \A l \in DOMAIN s.past : l \notin {p} \X {at}
    OBVIOUS
  <2> QED BY <2>1 DEF PastNoted
<1>2. PastOf(t, c) = IF c = old THEN PastOf(s, c) \union {k} ELSE PastOf(s, c)
  <2> HIDE DEF k
  <2> QED BY <1>1 DEF PastOf
<1>3. FutureOf(t, c) = FutureOf(s, c) \ {p}
  BY DEF FutureOf, Without
<1>4. CurrentOf(t, c) = IF c = new THEN (CurrentOf(s, c) \ {p}) \union {p}
                        ELSE CurrentOf(s, c) \ {p}
  BY DEF CurrentOf, Put
<1>5. /\ p \in FutureOf(s, c) <=> c = new
      /\ p \in CurrentOf(s, c) <=> c = old
      /\ k \notin PastOf(s, c)
  BY DEF FutureOf, CurrentOf, PastOf
<1> HIDE DEF k, old, new
<1>6. /\ IsFiniteSet(CurrentOf(s, c)) /\ IsFiniteSet(FutureOf(s, c)) /\ IsFiniteSet(PastOf(s, c))
      /\ Cardinality(CurrentOf(s, c)) \in Nat /\ Cardinality(FutureOf(s, c)) \in Nat
      /\ Cardinality(PastOf(s, c)) \in Nat
      /\ Users(s, c) = Cardinality(CurrentOf(s, c)) + Cardinality(FutureOf(s, c))
                              + Cardinality(PastOf(s, c))
  BY UsersFinite
<1>7. Cardinality(PastOf(t, c)) = Cardinality(PastOf(s, c)) + OneIf(c, old)
  <2>1. CASE c = old
    <3>1. Cardinality(PastOf(s, c) \union {k}) = Cardinality(PastOf(s, c)) + 1
      BY <1>5, <1>6, FS_AddElement
    <3> QED BY <1>2, <2>1, <3>1 DEF OneIf
  <2>2. CASE c # old
    BY <1>2, <1>6, <2>2 DEF OneIf
  <2> QED BY <2>1, <2>2
<1>8. Cardinality(FutureOf(t, c)) = Cardinality(FutureOf(s, c)) - OneIf(c, new)
  BY <1>3, <1>5, <1>6, OneRemoved DEF OneIf
<1>9. Cardinality(CurrentOf(t, c))
        = Cardinality(CurrentOf(s, c)) - OneIf(c, old) + OneIf(c, new)
  <2> DEFINE rest == CurrentOf(s, c) \ {p}
  <2>1. IsFiniteSet(rest) /\ Cardinality(rest) = Cardinality(CurrentOf(s, c)) - OneIf(c, old)
    BY <1>5, <1>6, OneRemoved DEF OneIf
  <2>2. p \notin rest
    OBVIOUS
  <2>3. CurrentOf(t, c) = IF c = new THEN rest \union {p} ELSE rest
    BY <1>4
  <2> HIDE DEF rest
  <2>4. CASE c = new
    <3>1. Cardinality(rest \union {p}) = Cardinality(rest) + 1
      BY <2>1, <2>2, FS_AddElement
    <3> QED BY <2>1, <2>3, <2>4, <3>1 DEF OneIf
  <2>5. CASE c # new
    <3>1. Cardinality(rest) \in Nat
      BY <2>1, FS_CardinalityType
    <3> QED BY <1>6, <2>1, <2>3, <2>5, <3>1 DEF OneIf
  <2> QED BY <2>4, <2>5
<1>10. Users(t, c) = Cardinality(CurrentOf(t, c)) + Cardinality(FutureOf(t, c))
                              + Cardinality(PastOf(t, c))
  BY UsersFinite
<1>11. OneIf(c, old) \in Nat /\ OneIf(c, new) \in Nat
  BY DEF OneIf
<1>12. Users(t, c) = Users(s, c)
  BY <1>6, <1>7, <1>8, <1>9, <1>10, <1>11
<1>13. c # old /\ c # new => SameUsers(s, t, c)
  <2> SUFFICES ASSUME c # old, c # new PROVE SameUsers(s, t, c)
    OBVIOUS
  <2>1. CurrentOf(t, c) = CurrentOf(s, c) /\ FutureOf(t, c) = FutureOf(s, c)
    BY <1>3, <1>4, <1>5
  <2>2. PastOf(t, c) = PastOf(s, c)
    BY <1>2
  <2> QED BY <2>1, <2>2 DEF SameUsers
<1> QED BY <1>12, <1>13 DEF old, new

\* Offboarding turns current code into past code, and drops future code.
LEMMA OffboardUsers ==
    ASSUME NEW s, IsStore(s), NEW gone \in SUBSET ParaIds, now \in Nat,
           NEW t, IsStore(t), Offboards(s, t, gone),
           \A k \in DOMAIN s.past : k[2] < now, NEW c \in Codes
    PROVE  /\ FutureRefs(s, gone)[c] \in Nat
           /\ Users(t, c) = Users(s, c) - FutureRefs(s, gone)[c]
<1> DEFINE leaving == CurrentOf(s, c) \intersect gone
           keys == leaving \X {now}
           dropped == FutureOf(s, c) \intersect gone
<1>1. /\ t.future = Without(s.future, gone) /\ t.current = Without(s.current, gone)
      /\ PastNoted(s, t, OldCodes(s, gone), now)
  BY DEF Offboards
<1>2. CurrentOf(t, c) = CurrentOf(s, c) \ leaving
  BY <1>1 DEF CurrentOf, Without
<1>3. FutureOf(t, c) = FutureOf(s, c) \ dropped
  BY <1>1 DEF FutureOf, Without
<1>4. PastOf(t, c) = PastOf(s, c) \union keys
  <2> DEFINE old == OldCodes(s, gone)
  <2>1. DOMAIN old = gone \intersect DOMAIN s.current /\ \A p \in DOMAIN old : old[p] = s.current[p]
    BY DEF OldCodes
  <2> HIDE DEF old
  <2>2. \A k \in DOMAIN s.past : k \notin (DOMAIN old) \X {now}
    BY DEF IsStore, StoreOK, IsMap
  <2>3. /\ DOMAIN t.past = DOMAIN s.past \union ((DOMAIN old) \X {now})
        /\ \A p \in DOMAIN old : t.past[<<p, now>>] = s.current[p]
        /\ \A k \in DOMAIN s.past : t.past[k] = s.past[k]
    BY <1>1, <2>1, <2>2 DEF PastNoted, old
  <2>4. \A p : p \in leaving <=> p \in DOMAIN old /\ s.current[p] = c
    BY <2>1 DEF CurrentOf
  <2>5. PastOf(t, c) \subseteq PastOf(s, c) \union keys
    BY <2>3, <2>4 DEF PastOf
  <2>6. PastOf(s, c) \subseteq PastOf(t, c)
    BY <2>3 DEF PastOf
  <2>7. keys \subseteq PastOf(t, c)
    BY <2>3, <2>4 DEF PastOf
  <2> QED BY <2>5, <2>6, <2>7
<1>5. PastOf(s, c) \intersect keys = {}
  BY DEF PastOf, IsStore, StoreOK, IsMap
<1>6. FutureRefs(s, gone)[c] = Cardinality(dropped)
  <2>1. dropped = {p \in gone \intersect DOMAIN s.future : s.future[p] = c}
    BY DEF FutureOf
  <2> QED BY <2>1 DEF FutureRefs
<1>7. leaving \in SUBSET CurrentOf(s, c) /\ dropped \in SUBSET FutureOf(s, c)
  OBVIOUS
<1> HIDE DEF leaving, dropped
<1>8. /\ IsFiniteSet(CurrentOf(s, c)) /\ IsFiniteSet(FutureOf(s, c)) /\ IsFiniteSet(PastOf(s, c))
      /\ Cardinality(CurrentOf(s, c)) \in Nat /\ Cardinality(FutureOf(s, c)) \in Nat
      /\ Cardinality(PastOf(s, c)) \in Nat
      /\ Users(s, c) = Cardinality(CurrentOf(s, c)) + Cardinality(FutureOf(s, c))
                              + Cardinality(PastOf(s, c))
  BY UsersFinite
<1>9. /\ IsFiniteSet(leaving) /\ IsFiniteSet(dropped)
      /\ Cardinality(leaving) \in Nat /\ Cardinality(dropped) \in Nat
  BY <1>7, <1>8, FS_Subset, FS_CardinalityType
<1>10. IsFiniteSet(keys) /\ Cardinality(keys) = Cardinality(leaving)
  <2>1. IsFiniteSet({now}) /\ Cardinality({now}) = 1
    BY FS_Singleton
  <2>2. IsFiniteSet(keys) /\ Cardinality(keys) = Cardinality(leaving) * Cardinality({now})
    BY <1>9, <2>1, FS_Product
  <2> QED BY <1>9, <2>1, <2>2
<1> HIDE DEF keys
<1>11. Cardinality(PastOf(t, c)) = Cardinality(PastOf(s, c)) + Cardinality(leaving)
  <2>1. Cardinality(PastOf(s, c) \union keys)
          = Cardinality(PastOf(s, c)) + Cardinality(keys) - Cardinality(PastOf(s, c) \intersect keys)
    BY <1>8, <1>10, FS_Union
  <2>2. Cardinality(PastOf(s, c) \intersect keys) = 0
    BY <1>5, FS_EmptySet
  <2> QED BY <1>4, <1>8, <1>9, <1>10, <2>1, <2>2
<1>12. Cardinality(CurrentOf(t, c)) = Cardinality(CurrentOf(s, c)) - Cardinality(leaving)
  <2>1. CurrentOf(s, c) \intersect leaving = leaving
    BY <1>7
  <2>2. Cardinality(CurrentOf(s, c) \ leaving)
          = Cardinality(CurrentOf(s, c)) - Cardinality(CurrentOf(s, c) \intersect leaving)
    BY <1>8, FS_Difference
  <2> QED BY <1>2, <2>1, <2>2
<1>13. Cardinality(FutureOf(t, c)) = Cardinality(FutureOf(s, c)) - Cardinality(dropped)
  <2>1. FutureOf(s, c) \intersect dropped = dropped
    BY <1>7
  <2>2. Cardinality(FutureOf(s, c) \ dropped)
          = Cardinality(FutureOf(s, c)) - Cardinality(FutureOf(s, c) \intersect dropped)
    BY <1>8, FS_Difference
  <2> QED BY <1>3, <2>1, <2>2
<1>14. Users(t, c) = Cardinality(CurrentOf(t, c)) + Cardinality(FutureOf(t, c))
                              + Cardinality(PastOf(t, c))
  BY UsersFinite
<1> QED BY <1>6, <1>8, <1>9, <1>11, <1>12, <1>13, <1>14

LEMMA PruneUsers ==
    ASSUME NEW s, IsStore(s), NEW n, NEW t, IsStore(t), Prunes(s, t, n), NEW c \in Codes
    PROVE  /\ Freed(s, n)[c] \in Nat
           /\ Users(t, c) = Users(s, c) - Freed(s, n)[c]
<1> DEFINE keys == PrunedKeys(s, n)
           dropped == KeysOf(s, keys, c)
<1>1. /\ t.current = s.current /\ t.future = s.future /\ t.past = Without(s.past, keys)
  BY DEF Prunes, Same, Fields
<1>2. Freed(s, n)[c] = Cardinality(dropped) /\ Freed(s, n)[c] \in Nat /\ keys \subseteq DOMAIN s.past
  BY FreedType DEF Freed
<1> HIDE DEF keys
<1>3. PastOf(t, c) = PastOf(s, c) \ dropped /\ dropped \in SUBSET PastOf(s, c)
  BY <1>1, <1>2 DEF PastOf, KeysOf, Without
<1> HIDE DEF dropped
<1>4. /\ IsFiniteSet(PastOf(s, c)) /\ Cardinality(CurrentOf(s, c)) \in Nat
      /\ Cardinality(FutureOf(s, c)) \in Nat /\ Cardinality(PastOf(s, c)) \in Nat
      /\ Users(s, c) = Cardinality(CurrentOf(s, c)) + Cardinality(FutureOf(s, c))
                              + Cardinality(PastOf(s, c))
      /\ Users(t, c) = Cardinality(CurrentOf(t, c)) + Cardinality(FutureOf(t, c))
                              + Cardinality(PastOf(t, c))
  BY UsersFinite
<1>5. CurrentOf(t, c) = CurrentOf(s, c) /\ FutureOf(t, c) = FutureOf(s, c)
  BY <1>1 DEF CurrentOf, FutureOf
<1>6. Cardinality(PastOf(t, c)) = Cardinality(PastOf(s, c)) - Cardinality(dropped)
  <2>1. PastOf(s, c) \intersect dropped = dropped
    BY <1>3
  <2>2. Cardinality(PastOf(s, c) \ dropped)
          = Cardinality(PastOf(s, c)) - Cardinality(PastOf(s, c) \intersect dropped)
    BY <1>4, FS_Difference
  <2> QED BY <1>3, <2>1, <2>2
<1> QED BY <1>2, <1>4, <1>5, <1>6

-----------------------------------------------------------------------------
(* The operations keep codes counted, accepted and retained.               *)

LEMMA CodesFrame ==
    ASSUME NEW s, NEW t, NEW n, NEW m, NEW codes, NEW old, CodesSound(s, n, m, codes, old),
           SameCauses(s, t), t.current = s.current, t.future = s.future, t.past = s.past,
           t.meta = s.meta, t.upgrade_at = s.upgrade_at, t.upcoming = s.upcoming,
           t.go_ahead = s.go_ahead, t.heads = s.heads, t.actions = s.actions,
           t.refs = s.refs, t.stored = s.stored
    PROVE  CodesSound(t, n, m, codes, old)
<1>1. \A c : Users(t, c) = Users(s, c)
  BY UsersFrame
<1>2. Counted(t) /\ VotesCounted(t)
  BY <1>1 DEF CodesSound, Counted, VotesCounted, SameCauses
<1>3. UsersAsked(t) /\ UpgradesAsked(t)
  BY DEF CodesSound, UsersAsked, UpgradesAsked, SameCauses
<1>4. UpgradesAnnounced(t, n) /\ Accepted(t, codes)
  BY DEF CodesSound, UpgradesAnnounced, Accepted, SameCauses
<1>5. ReplacedBefore(t, m) /\ Retained(t, m, old)
  BY DEF CodesSound, ReplacedBefore, Retained
<1> QED BY <1>2, <1>3, <1>4, <1>5 DEF CodesSound

LEMMA OutlivesIs ==
    ASSUME NEW s
    PROVE  ~Outlives(s) <=> \A c \in DOMAIN s.votes :
                               ParasIn(s.votes[c].causes, "upgrade") \subseteq DOMAIN s.future
BY AskedByIs DEF Outlives

LEMMA OutlivesFrame ==
    ASSUME NEW s, NEW t, SameCauses(s, t), t.future = s.future, ~Outlives(s)
    PROVE  ~Outlives(t)
BY OutlivesIs DEF SameCauses

\* Code that governance trusts is stored.
LEMMA TrustCodes ==
    ASSUME NEW s, NEW t, NEW n, NEW m, NEW codes, NEW old, CodesSound(s, n, m, codes, old),
           Same(s, t, {"stored"}), NEW c, c \notin DOMAIN s.votes, t.stored = s.stored \union {c}
    PROVE  CodesSound(t, n, m, codes \union {c}, old)
<1>1. /\ t.current = s.current /\ t.future = s.future /\ t.past = s.past
      /\ t.meta = s.meta /\ t.upgrade_at = s.upgrade_at /\ t.upcoming = s.upcoming
      /\ t.go_ahead = s.go_ahead /\ t.heads = s.heads /\ t.actions = s.actions
      /\ t.refs = s.refs /\ t.votes = s.votes
  BY DEF Same, Fields
<1>2. \A d : Users(t, d) = Users(s, d)
  BY <1>1, UsersFrame
<1>3. Counted(t) /\ VotesCounted(t)
  BY <1>1, <1>2 DEF CodesSound, Counted, VotesCounted
<1>4. UsersAsked(t) /\ UpgradesAsked(t)
  BY <1>1 DEF CodesSound, UsersAsked, UpgradesAsked
<1>5. UpgradesAnnounced(t, n) /\ Accepted(t, codes \union {c})
  BY <1>1 DEF CodesSound, UpgradesAnnounced, Accepted
<1>6. ReplacedBefore(t, m) /\ Retained(t, m, old)
  BY <1>1 DEF CodesSound, ReplacedBefore, Retained
<1> QED BY <1>3, <1>4, <1>5, <1>6 DEF CodesSound

\* Code that nothing refers to is removed.
LEMMA PokeCodes ==
    ASSUME NEW s, IsStore(s), NEW t, NEW n, NEW m, NEW codes, NEW old,
           CodesSound(s, n, m, codes, old), Same(s, t, {"stored"}),
           NEW c, s.refs[c] = 0, t.stored = s.stored \ {c}
    PROVE  CodesSound(t, n, m, codes, old)
<1>1. /\ t.current = s.current /\ t.future = s.future /\ t.past = s.past
      /\ t.meta = s.meta /\ t.upgrade_at = s.upgrade_at /\ t.upcoming = s.upcoming
      /\ t.go_ahead = s.go_ahead /\ t.heads = s.heads /\ t.actions = s.actions
      /\ t.refs = s.refs /\ t.votes = s.votes
  BY DEF Same, Fields
<1>2. \A d : Users(t, d) = Users(s, d)
  BY <1>1, UsersFrame
<1>3. Counted(t) /\ VotesCounted(t)
  BY <1>1, <1>2 DEF CodesSound, Counted, VotesCounted
<1>4. UsersAsked(t) /\ UpgradesAsked(t)
  BY <1>1 DEF CodesSound, UsersAsked, UpgradesAsked
<1>5. UpgradesAnnounced(t, n) /\ Accepted(t, codes)
  BY <1>1 DEF CodesSound, UpgradesAnnounced, Accepted
<1>6. ReplacedBefore(t, m) /\ Retained(t, m, old)
  BY <1>1 DEF CodesSound, ReplacedBefore, Retained
<1> QED BY <1>3, <1>4, <1>5, <1>6 DEF CodesSound

\* A live para is queued for a transition.
LEMMA QueueCodes ==
    ASSUME NEW s, NEW t, NEW n, NEW m, NEW codes, NEW old, CodesSound(s, n, m, codes, old),
           Same(s, t, {"lifecycles", "actions"}), NEW l, NEW p \in s.heads,
           t.actions = s.actions \union {<<l, p>>}
    PROVE  CodesSound(t, n, m, codes, old)
<1>1. /\ t.current = s.current /\ t.future = s.future /\ t.past = s.past
      /\ t.meta = s.meta /\ t.upgrade_at = s.upgrade_at /\ t.upcoming = s.upcoming
      /\ t.go_ahead = s.go_ahead /\ t.heads = s.heads /\ t.stored = s.stored
      /\ t.refs = s.refs /\ t.votes = s.votes
  BY DEF Same, Fields
<1>2. \A d : Users(t, d) = Users(s, d)
  BY <1>1, UsersFrame
<1>3. Counted(t) /\ VotesCounted(t)
  BY <1>1, <1>2 DEF CodesSound, Counted, VotesCounted
<1>4. UsersAsked(t) /\ UpgradesAsked(t)
  BY <1>1 DEF CodesSound, UsersAsked, UpgradesAsked
<1>5. UpgradesAnnounced(t, n)
  BY <1>1 DEF CodesSound, UpgradesAnnounced
<1>6. Accepted(t, codes)
  <2>1. \A k, q : <<k, q>> \in t.actions => <<k, q>> \in s.actions \/ q = p
    OBVIOUS
  <2> QED BY <1>1, <2>1 DEF CodesSound, Accepted
<1>7. ReplacedBefore(t, m) /\ Retained(t, m, old)
  BY <1>1 DEF CodesSound, ReplacedBefore, Retained
<1> QED BY <1>3, <1>4, <1>5, <1>6, <1>7 DEF CodesSound

LEMMA AcceptCodes ==
    ASSUME NEW s, IsStore(s), NEW c \in DOMAIN s.votes, now \in Nat, session \in Nat,
           NEW t, Accepts(s, t, c, s.votes[c].causes), NEW codes, NEW old, Lifecycles(s),
           CodesSound(s, now, now, codes, old), ~Outlives(s)
    PROVE  CodesSound(t, now, now, codes \union {c}, old) /\ ~Outlives(t)
<1> DEFINE causes == s.votes[c].causes
           ups == ParasIn(causes, "upgrade")
           new == ParasIn(causes, "onboarding")
<1>1. /\ t.current = s.current /\ t.future = s.future /\ t.past = s.past
      /\ t.meta = s.meta /\ t.go_ahead = s.go_ahead /\ t.heads = s.heads
      /\ t.stored = s.stored /\ t.refs = s.refs
  BY DEF Accepts, Same, Fields
<1>2. /\ DOMAIN t.votes = DOMAIN s.votes \ {c}
      /\ \A d \in DOMAIN t.votes : t.votes[d] = s.votes[d]
  BY DEF Accepts, Without
<1>3. \A p \in ups : p \in DOMAIN s.future /\ s.future[p] = c /\ p \notin DOMAIN s.upgrade_at
  BY OutlivesIs DEF CodesSound, UpgradesAsked
<1>4. /\ causes \in Seq(Cause) /\ AskedOnce(causes)
      /\ DOMAIN t.upgrade_at = DOMAIN s.upgrade_at \union ups
      /\ \A p \in DOMAIN s.upgrade_at : t.upgrade_at[p] = s.upgrade_at[p]
      /\ t.upcoming = s.upcoming \union Announcements(causes)
  BY <1>3 DEF Accepts, CodesSound, UpgradesAsked
<1>5. ASSUME NEW p \in ups
      PROVE  /\ t.upgrade_at[p] \in Nat /\ t.upgrade_at[p] > now
             /\ <<p, t.upgrade_at[p]>> \in Announcements(causes)
  <2> DEFINE l == LastUpgrade(causes, p)
  <2>1. l \in Causes(causes, "upgrade") /\ causes[l].para = p
    BY <1>4, LastUpgradeIs
  <2>2. t.upgrade_at[p] = ExpectedAt(causes[l].relay_parent)
    BY DEF Accepts
  <2> HIDE DEF l
  <2>3. causes[l].relay_parent \in Nat
    <3>1. l \in DOMAIN causes
      BY <2>1 DEF Causes
    <3> HIDE DEF causes
    <3>2. causes[l] \in Cause
      BY <1>4, <3>1
    <3> QED BY <3>2 DEF Cause
  <2>4. <<p, t.upgrade_at[p]>> \in Announcements(causes)
    BY <2>1, <2>2 DEF Announcements
  <2> QED BY <2>2, <2>3, <2>4, ExpectedAtLater
<1>6. ASSUME NEW p \in ParaIds, NEW n \in Nat, <<p, n>> \in Announcements(causes)
      PROVE  p \in ups /\ n = t.upgrade_at[p]
  <2>1. PICK i \in Causes(causes, "upgrade") :
           <<p, n>> = <<causes[i].para, ExpectedAt(causes[i].relay_parent)>>
    BY <1>6 DEF Announcements
  <2>2. p = causes[i].para /\ n = ExpectedAt(causes[i].relay_parent)
    BY <2>1
  <2>3. p \in ups
    BY <2>2 DEF ParasIn
  <2>4. LastUpgrade(causes, p) = i
    BY <1>4, <2>2, <2>3, LastUpgradeIs DEF AskedOnce
  <2>5. t.upgrade_at[p] = ExpectedAt(causes[LastUpgrade(causes, p)].relay_parent)
    BY <2>3 DEF Accepts
  <2> QED BY <2>2, <2>3, <2>4, <2>5
<1>7. \A p \in new : p \in DOMAIN s.current /\ s.current[p] = c
  BY DEF Lifecycles, OnboardingAsked
<1>8. \A n, p : <<n, p>> \in t.actions => <<n, p>> \in s.actions \/ p \in new
  <2>1. PICK n \in {session + 1, session + 2} : t.actions = s.actions \union QueuedAt(n, new)
    BY DEF Accepts
  <2> HIDE DEF new
  <2> QED BY <2>1 DEF QueuedAt
<1> HIDE DEF causes, ups, new
<1>9. \A d : Users(t, d) = Users(s, d)
  BY <1>1, UsersFrame
<1>10. Counted(t) /\ VotesCounted(t)
  BY <1>1, <1>2, <1>9 DEF CodesSound, Counted, VotesCounted
<1>11. UsersAsked(t)
  BY <1>1, <1>2 DEF CodesSound, UsersAsked
<1>12. UpgradesAsked(t)
  BY <1>1, <1>2, <1>3, <1>4, OutlivesIs DEF CodesSound, UpgradesAsked
<1>13. UpgradesAnnounced(t, now)
  <2>1. ASSUME NEW p \in DOMAIN t.upgrade_at
        PROVE  /\ p \in DOMAIN t.future
               /\ t.upgrade_at[p] > now => <<p, t.upgrade_at[p]>> \in t.upcoming
               /\ t.upgrade_at[p] <= now => p \in DOMAIN t.go_ahead /\ t.go_ahead[p] = "GoAhead"
    <3>1. CASE p \in ups
      BY <1>1, <1>3, <1>4, <1>5, <3>1
    <3>2. CASE p \notin ups
      BY <1>1, <1>4, <3>2 DEF CodesSound, UpgradesAnnounced
    <3> QED BY <3>1, <3>2
  <2>2. ASSUME NEW p \in DOMAIN t.go_ahead, t.go_ahead[p] = "GoAhead"
        PROVE  p \in DOMAIN t.upgrade_at
    BY <1>1, <1>4, <2>2 DEF CodesSound, UpgradesAnnounced
  <2>3. ASSUME NEW p \in ParaIds, NEW n \in Nat, <<p, n>> \in t.upcoming
        PROVE  p \in DOMAIN t.upgrade_at /\ t.upgrade_at[p] = n /\ n > now
    <3>1. CASE <<p, n>> \in s.upcoming
      BY <1>4, <3>1 DEF CodesSound, UpgradesAnnounced
    <3>2. CASE <<p, n>> \in Announcements(causes)
      BY <1>4, <1>5, <1>6, <3>2
    <3> QED BY <1>4, <2>3, <3>1, <3>2
  <2> QED BY <2>1, <2>2, <2>3 DEF UpgradesAnnounced
<1>14. Accepted(t, codes \union {c})
  <2>1. \A p \in DOMAIN t.current \intersect t.heads : t.current[p] \in codes \union {c}
    BY <1>1 DEF CodesSound, Accepted
  <2>2. \A p \in DOMAIN t.upgrade_at \intersect DOMAIN t.future : t.future[p] \in codes \union {c}
    BY <1>1, <1>3, <1>4 DEF CodesSound, Accepted
  <2>3. \A n \in Nat, p \in DOMAIN t.current \ t.heads :
           <<n, p>> \in t.actions => t.current[p] \in codes \union {c}
    BY <1>1, <1>7, <1>8 DEF CodesSound, Accepted
  <2>4. t.stored \ DOMAIN t.votes \subseteq codes \union {c}
    BY <1>1, <1>2 DEF CodesSound, Accepted
  <2> QED BY <2>1, <2>2, <2>3, <2>4 DEF Accepted
<1>15. ReplacedBefore(t, now)
  <2>1. ASSUME NEW k \in DOMAIN t.past
        PROVE  k[2] < now /\ (k[1] \in DOMAIN t.upgrade_at => k[2] < t.upgrade_at[k[1]])
    <3>1. k[2] \in Nat /\ k[2] < now
      BY <1>1 DEF CodesSound, ReplacedBefore, IsStore, StoreOK, IsMap
    <3>2. CASE k[1] \in ups
      <4>1. t.upgrade_at[k[1]] \in Nat /\ t.upgrade_at[k[1]] > now
        BY <1>5, <3>2
      <4> QED BY <3>1, <4>1
    <3>3. CASE k[1] \notin ups
      BY <1>1, <1>4, <3>1, <3>3 DEF CodesSound, ReplacedBefore
    <3> QED BY <3>2, <3>3
  <2>2. ASSUME NEW p \in ParaIds, NEW i \in DOMAIN t.meta[p]
        PROVE  /\ t.meta[p][i].expected_at < now
               /\ p \in DOMAIN t.upgrade_at => t.meta[p][i].expected_at < t.upgrade_at[p]
    <3>1. t.meta[p][i].expected_at \in Nat /\ t.meta[p][i].expected_at < now
      <4>1. t.meta[p][i] \in ReplacementTimes
        BY <1>1 DEF IsStore, StoreOK, IsMap
      <4> QED BY <1>1, <4>1 DEF CodesSound, ReplacedBefore, ReplacementTimes
    <3>2. CASE p \in ups
      <4>1. t.upgrade_at[p] \in Nat /\ t.upgrade_at[p] > now
        BY <1>5, <3>2
      <4> QED BY <3>1, <4>1
    <3>3. CASE p \notin ups
      BY <1>1, <1>4, <3>1, <3>3 DEF CodesSound, ReplacedBefore
    <3> QED BY <3>2, <3>3
  <2> QED BY <2>1, <2>2 DEF ReplacedBefore
<1>16. Retained(t, now, old)
  BY <1>1 DEF CodesSound, Retained
<1>17. ~Outlives(t)
  BY <1>1, <1>2, OutlivesIs
<1> QED BY <1>10, <1>11, <1>12, <1>13, <1>14, <1>15, <1>16, <1>17 DEF CodesSound

LEMMA RejectCodes ==
    ASSUME NEW s, IsStore(s), NEW kept, NEW v, Splits(s.votes, kept, v),
           NEW t, IsStore(t), Rejects(s, t, kept, v), NEW n, NEW m, NEW codes, NEW old,
           Lifecycles(s), CodesSound(s, n, m, codes, old)
    PROVE  CodesSound(t, n, m, codes, old) /\ (~Outlives(s) => ~Outlives(t))
<1> DEFINE new == AskedBy(v, "onboarding")
           ups == AskedBy(v, "upgrade")
<1>1. /\ t.past = s.past /\ t.meta = s.meta /\ t.heads = s.heads /\ t.actions = s.actions
      /\ t.upgrade_at = s.upgrade_at /\ t.upcoming = s.upcoming /\ t.votes = kept
  BY DEF Rejects, Same, Fields
<1>2. /\ DOMAIN t.current = DOMAIN s.current \ new
      /\ \A p \in DOMAIN t.current : t.current[p] = s.current[p]
      /\ DOMAIN t.future = DOMAIN s.future \ ups
      /\ \A p \in DOMAIN t.future : t.future[p] = s.future[p]
  BY DEF Rejects, Without
<1>3. /\ \A c \in DOMAIN v : c \in DOMAIN s.votes /\ v[c].causes = s.votes[c].causes
      /\ \A c \in DOMAIN kept : /\ c \in DOMAIN s.votes /\ c \notin DOMAIN v
                                /\ kept[c].causes = s.votes[c].causes
      /\ \A c \in DOMAIN s.votes : c \notin DOMAIN v => c \in DOMAIN kept
  BY DEF Splits
<1>4. ASSUME NEW p \in new
      PROVE  \E c \in DOMAIN v : p \in ParasIn(s.votes[c].causes, "onboarding")
  BY <1>3, AskedByIs
<1>5. ASSUME NEW p \in ups
      PROVE  \E c \in DOMAIN v : p \in ParasIn(s.votes[c].causes, "upgrade")
  BY <1>3, AskedByIs
<1>6. ASSUME NEW c \in DOMAIN v
      PROVE  /\ ParasIn(s.votes[c].causes, "onboarding") \subseteq new
             /\ ParasIn(s.votes[c].causes, "upgrade") \subseteq ups
  BY <1>3, AskedByIs
<1>7. /\ DOMAIN t.go_ahead = DOMAIN s.go_ahead \union ups
      /\ \A p \in ups : t.go_ahead[p] = "Abort"
      /\ \A p \in DOMAIN s.go_ahead : p \notin ups => t.go_ahead[p] = s.go_ahead[p]
  BY DEF Rejects
<1> HIDE DEF new, ups
<1>8. \A p \in new : p \in DOMAIN s.current /\ s.current[p] \in DOMAIN v
  BY <1>3, <1>4 DEF Lifecycles, OnboardingAsked
<1>9. \A p \in ups : p \notin DOMAIN s.upgrade_at /\ (p \in DOMAIN s.future => s.future[p] \in DOMAIN v)
  BY <1>3, <1>5 DEF CodesSound, UpgradesAsked
<1>10. ASSUME NEW c \in DOMAIN v
       PROVE  Users(t, c) = 0
  <2>1. CurrentOf(t, c) = {}
    BY <1>2, <1>3, <1>6 DEF CurrentOf, CodesSound, UsersAsked
  <2>2. FutureOf(t, c) = {}
    BY <1>2, <1>3, <1>6 DEF FutureOf, CodesSound, UsersAsked
  <2>3. PastOf(t, c) = {}
    BY <1>1, <1>3 DEF PastOf, CodesSound, UsersAsked
  <2> QED BY <2>1, <2>2, <2>3, NoUsers
<1>11. ASSUME NEW c, c \notin DOMAIN v
       PROVE  Users(t, c) = Users(s, c)
  <2>1. CurrentOf(t, c) = CurrentOf(s, c)
    BY <1>2, <1>8, <1>11 DEF CurrentOf
  <2>2. FutureOf(t, c) = FutureOf(s, c)
    BY <1>2, <1>9, <1>11 DEF FutureOf
  <2>3. PastOf(t, c) = PastOf(s, c)
    BY <1>1 DEF PastOf
  <2> QED BY <2>1, <2>2, <2>3, SameUsersCount DEF SameUsers
<1>12. ASSUME NEW c \in Codes
       PROVE  /\ t.refs[c] = IF Taken(v)[c] >= s.refs[c] THEN 0 ELSE s.refs[c] - Taken(v)[c]
              /\ c \in t.stored <=> c \in s.stored /\ ~(0 < s.refs[c] /\ s.refs[c] <= Taken(v)[c])
              /\ s.refs[c] \in Nat
              /\ Taken(v)[c] = IF c \in DOMAIN v THEN Len(v[c].causes) ELSE 0
  <2> DEFINE d == decrease_code_refs(s, Taken(v))
  <2>1. /\ d.refs = [e \in Codes |-> IF Taken(v)[e] >= s.refs[e] THEN 0 ELSE s.refs[e] - Taken(v)[e]]
        /\ d.stored = s.stored \ {e \in Codes : 0 < s.refs[e] /\ s.refs[e] <= Taken(v)[e]}
    BY DecreaseFields DEF IsStore
  <2>2. t.refs = d.refs /\ t.stored = d.stored
    BY DEF Rejects
  <2> HIDE DEF d
  <2>3. s.refs[c] \in Nat
    BY DEF IsStore, StoreOK
  <2>4. Taken(v)[c] = IF c \in DOMAIN v THEN Len(v[c].causes) ELSE 0
    BY DEF Taken
  <2> QED BY <2>1, <2>2, <2>3, <2>4
<1>13. ASSUME NEW c \in DOMAIN v
       PROVE  t.refs[c] = 0 /\ c \notin t.stored
  <2>1. c \in Codes /\ c \in DOMAIN s.votes
    BY <1>3 DEF IsStore, StoreOK, IsMap
  <2>2. s.refs[c] <= Len(s.votes[c].causes) /\ (c \in s.stored => s.refs[c] > 0)
    BY <2>1 DEF CodesSound, Counted, VotesCounted
  <2>3. Taken(v)[c] = Len(s.votes[c].causes)
    BY <1>3, <1>12, <2>1
  <2>4. Len(s.votes[c].causes) \in Nat
    BY <2>1 DEF IsStore, StoreOK, IsMap, Vote
  <2> QED BY <1>12, <2>1, <2>2, <2>3, <2>4
<1>14. ASSUME NEW c \in Codes, c \notin DOMAIN v
       PROVE  t.refs[c] = s.refs[c] /\ (c \in t.stored <=> c \in s.stored)
  BY <1>12, <1>14
<1>15. Counted(t)
  <2> SUFFICES ASSUME NEW c \in Codes
               PROVE  t.refs[c] = Users(t, c) /\ (t.refs[c] > 0 => c \in t.stored)
    BY DEF Counted
  <2>1. CASE c \in DOMAIN v
    BY <1>10, <1>13, <2>1
  <2>2. CASE c \notin DOMAIN v
    BY <1>11, <1>14, <2>2 DEF CodesSound, Counted
  <2> QED BY <2>1, <2>2
<1>16. VotesCounted(t)
  <2> SUFFICES ASSUME NEW c \in DOMAIN t.votes
               PROVE  /\ Users(t, c) <= Len(t.votes[c].causes)
                      /\ c \in t.stored => t.refs[c] > 0
    BY DEF VotesCounted
  <2>1. /\ c \in Codes /\ c \notin DOMAIN v /\ c \in DOMAIN s.votes
        /\ t.votes[c].causes = s.votes[c].causes
    BY <1>1, <1>3 DEF IsStore, StoreOK, IsMap
  <2> QED BY <1>11, <1>14, <2>1 DEF CodesSound, VotesCounted
<1>17. UsersAsked(t)
  BY <1>1, <1>2, <1>3 DEF CodesSound, UsersAsked
<1>18. UpgradesAsked(t)
  BY <1>1, <1>2, <1>3 DEF CodesSound, UpgradesAsked
<1>19. UpgradesAnnounced(t, n)
  <2>1. ASSUME NEW p \in DOMAIN t.upgrade_at
        PROVE  /\ p \in DOMAIN t.future
               /\ t.upgrade_at[p] > n => <<p, t.upgrade_at[p]>> \in t.upcoming
               /\ t.upgrade_at[p] <= n => p \in DOMAIN t.go_ahead /\ t.go_ahead[p] = "GoAhead"
    BY <1>1, <1>2, <1>7, <1>9 DEF CodesSound, UpgradesAnnounced
  <2>2. \A p \in DOMAIN t.go_ahead : t.go_ahead[p] = "GoAhead" => p \in DOMAIN t.upgrade_at
    BY <1>1, <1>7 DEF CodesSound, UpgradesAnnounced
  <2>3. \A p \in ParaIds, k \in Nat : <<p, k>> \in t.upcoming =>
           p \in DOMAIN t.upgrade_at /\ t.upgrade_at[p] = k /\ k > n
    BY <1>1 DEF CodesSound, UpgradesAnnounced
  <2> QED BY <2>1, <2>2, <2>3 DEF UpgradesAnnounced
<1>20. Accepted(t, codes)
  <2>1. t.stored \ DOMAIN t.votes \subseteq codes
    <3> SUFFICES ASSUME NEW c \in t.stored, c \notin DOMAIN t.votes PROVE c \in codes
      OBVIOUS
    <3>1. c \in Codes /\ c \notin DOMAIN v
      BY <1>13 DEF IsStore, StoreOK
    <3>2. c \in s.stored /\ c \notin DOMAIN s.votes
      BY <1>1, <1>3, <1>14, <3>1
    <3> QED BY <3>2 DEF CodesSound, Accepted
  <2>2. /\ \A p \in DOMAIN t.current \intersect t.heads : t.current[p] \in codes
        /\ \A p \in DOMAIN t.upgrade_at \intersect DOMAIN t.future : t.future[p] \in codes
        /\ \A k \in Nat, p \in DOMAIN t.current \ t.heads :
              <<k, p>> \in t.actions => t.current[p] \in codes
    BY <1>1, <1>2 DEF CodesSound, Accepted
  <2> QED BY <2>1, <2>2 DEF Accepted
<1>21. ReplacedBefore(t, m) /\ Retained(t, m, old)
  BY <1>1 DEF CodesSound, ReplacedBefore, Retained
<1>22. ASSUME ~Outlives(s) PROVE ~Outlives(t)
  <2> SUFFICES ASSUME NEW c \in DOMAIN t.votes, NEW p \in ParasIn(t.votes[c].causes, "upgrade")
               PROVE  p \in DOMAIN t.future
    BY OutlivesIs
  <2>1. c \in DOMAIN s.votes /\ c \notin DOMAIN v /\ p \in ParasIn(s.votes[c].causes, "upgrade")
    BY <1>1, <1>3
  <2>2. p \in DOMAIN s.future /\ s.future[p] = c
    BY <1>22, <2>1, OutlivesIs DEF CodesSound, UpgradesAsked
  <2> QED BY <1>2, <1>9, <2>1, <2>2
<1> QED BY <1>15, <1>16, <1>17, <1>18, <1>19, <1>20, <1>21, <1>22 DEF CodesSound

\* A code has a user more, which asked for it if there is a vote on it.
LEMMA UserAdded ==
    ASSUME NEW s, IsStore(s), NEW c \in Codes, NEW t, IsStore(t), RefAdded(s, t, c),
           Users(t, c) = Users(s, c) + 1, OthersSame(s, t, c),
           Counted(s), VotesCounted(s), UsersAsked(s), NEW cause,
           ~FastTracked(s, c) => MoreAsked(s.votes, t.votes, c, cause),
           FastTracked(s, c) => t.votes = s.votes
    PROVE  /\ Counted(t) /\ VotesCounted(t)
           /\ ~FastTracked(s, c) /\ c \notin DOMAIN s.votes =>
                 CurrentOf(s, c) = {} /\ FutureOf(s, c) = {} /\ PastOf(s, c) = {}
           /\ t.stored \subseteq s.stored \union {c}
<1>1. ASSUME NEW d \in Codes, d # c
      PROVE  Users(t, d) = Users(s, d) /\ t.refs[d] = s.refs[d]
  <2>1. SameUsers(s, t, d) /\ t.refs[d] = s.refs[d]
    BY <1>1 DEF RefAdded, OthersSame
  <2> QED BY <2>1, SameUsersCount
<1>2. /\ t.refs[c] = s.refs[c] + 1 /\ s.refs[c] \in Nat
      /\ s.refs[c] = Users(s, c) /\ (s.refs[c] > 0 => c \in s.stored)
      /\ t.stored \subseteq s.stored \union {c} /\ s.stored \subseteq t.stored /\ c \in t.stored
  BY DEF RefAdded, IsStore, StoreOK, Counted
<1>3. Counted(t)
  <2> SUFFICES ASSUME NEW d \in Codes
               PROVE  t.refs[d] = Users(t, d) /\ (t.refs[d] > 0 => d \in t.stored)
    BY DEF Counted
  <2> QED BY <1>1, <1>2 DEF Counted
<1>4. ASSUME ~FastTracked(s, c), c \notin DOMAIN s.votes
      PROVE  /\ Users(s, c) = 0
             /\ CurrentOf(s, c) = {} /\ FutureOf(s, c) = {} /\ PastOf(s, c) = {}
  <2>1. c \notin s.stored
    BY <1>4 DEF FastTracked
  <2>2. Users(s, c) = 0
    BY <1>2, <2>1
  <2> QED BY <2>2, NoUsers
<1>5. VotesCounted(t)
  <2> SUFFICES ASSUME NEW d \in DOMAIN t.votes
               PROVE  /\ Users(t, d) <= Len(t.votes[d].causes)
                      /\ d \in t.stored => t.refs[d] > 0
    BY DEF VotesCounted
  <2>1. d \in Codes
    BY DEF IsStore, StoreOK, IsMap
  <2>2. CASE d # c
    <3>1. d \in DOMAIN s.votes /\ t.votes[d] = s.votes[d]
      BY <2>2 DEF MoreAsked
    <3> QED BY <1>1, <1>2, <2>1, <2>2, <3>1 DEF VotesCounted
  <2>3. CASE d = c
    <3>1. ~FastTracked(s, c)
      BY <2>3 DEF FastTracked
    <3>2. MoreAsked(s.votes, t.votes, c, cause)
      BY <3>1
    <3>3. CASE c \in DOMAIN s.votes
      <4>1. Len(t.votes[c].causes) = Len(s.votes[c].causes) + 1 /\ Users(s, c) <= Len(s.votes[c].causes)
        BY <3>2, <3>3 DEF MoreAsked, VotesCounted
      <4>2. Len(s.votes[c].causes) \in Nat
        BY <3>3 DEF IsStore, StoreOK, IsMap, Vote
      <4> QED BY <1>2, <2>3, <4>1, <4>2
    <3>4. CASE c \notin DOMAIN s.votes
      <4>1. Len(t.votes[c].causes) = 1
        BY <3>2, <3>4 DEF MoreAsked
      <4> QED BY <1>2, <1>4, <2>3, <3>1, <3>4, <4>1
    <3> QED BY <3>3, <3>4
  <2> QED BY <2>2, <2>3
<1> QED BY <1>2, <1>3, <1>4, <1>5

LEMMA AskedOnceMore ==
    ASSUME NEW causes \in Seq(Cause), NEW cause \in Cause, AskedOnce(causes),
           cause.kind = "upgrade" => cause.para \notin ParasIn(causes, "upgrade"),
           NEW more, more = Append(causes, cause)
    PROVE  AskedOnce(more)
<1>1. /\ DOMAIN more = 1..(Len(causes) + 1) /\ more[Len(causes) + 1] = cause
      /\ \A i \in 1..Len(causes) : more[i] = causes[i] /\ i \in DOMAIN causes
      /\ Len(causes) \in Nat
  OBVIOUS
<1>2. ASSUME NEW i \in Causes(more, "upgrade"), i # Len(causes) + 1
      PROVE  i \in Causes(causes, "upgrade") /\ more[i] = causes[i]
             /\ causes[i].para \in ParasIn(causes, "upgrade")
  <2>1. i \in 1..Len(causes)
    BY <1>1, <1>2 DEF Causes
  <2> QED BY <1>1, <1>2, <2>1 DEF Causes, ParasIn
<1>3. Len(causes) + 1 \in Causes(more, "upgrade") => cause.kind = "upgrade"
  BY <1>1 DEF Causes
<1> SUFFICES ASSUME NEW i \in Causes(more, "upgrade"), NEW j \in Causes(more, "upgrade"),
                    more[i].para = more[j].para
             PROVE  i = j
  BY DEF AskedOnce
<1> DEFINE l == Len(causes) + 1
<1>4. more[l] = cause
  BY <1>1
<1> HIDE DEF l
<1>5. CASE i # l /\ j # l
  BY <1>2, <1>5 DEF AskedOnce, l
<1>6. CASE i = l /\ j # l
  BY <1>2, <1>3, <1>4, <1>6 DEF l
<1>7. CASE i # l /\ j = l
  BY <1>2, <1>3, <1>4, <1>7 DEF l
<1> QED BY <1>5, <1>6, <1>7

LEMMA AskedOnceSingle ==
    ASSUME NEW cause
    PROVE  AskedOnce(<<cause>>)
BY DEF AskedOnce, Causes

\* The history of accepted codes after a code was asked for.
Accounts(s, c, codes, more) == codes \subseteq more /\ (FastTracked(s, c) => c \in more)

LEMMA OnboardCodes ==
    ASSUME NEW s, IsStore(s), NEW p \in ParaIds, NEW c \in Codes, session \in Nat,
           NEW t, IsStore(t), Onboards(s, t, p, c), p \notin DOMAIN s.lifecycles,
           NEW n, NEW codes, NEW more, Accounts(s, c, codes, more), NEW old, Lifecycles(s),
           CodesSound(s, n, n, codes, old), ~Outlives(s)
    PROVE  CodesSound(t, n, n, more, old) /\ ~Outlives(t)
<1> DEFINE cause == Onboarding(p)
<1>1. /\ t.past = s.past /\ t.meta = s.meta /\ t.heads = s.heads /\ t.future = s.future
      /\ t.go_ahead = s.go_ahead
  BY DEF Onboards, Same, Fields
<1>2. p \notin DOMAIN s.current /\ p \notin s.heads /\ \A k \in Nat : <<k, p>> \notin s.actions
  BY DEF Lifecycles, Registered, ActionsSound
<1>3. /\ DOMAIN t.current = DOMAIN s.current \union {p} /\ t.current[p] = c
      /\ \A q \in DOMAIN s.current : t.current[q] = s.current[q]
  BY <1>2 DEF Onboards, Put
<1>4. /\ DOMAIN t.upgrade_at = DOMAIN s.upgrade_at /\ t.upcoming = s.upcoming
      /\ \A q \in DOMAIN s.upgrade_at : t.upgrade_at[q] = s.upgrade_at[q]
  BY DEF Onboards, SameUpgrades
<1>5. /\ RefAdded(s, t, c)
      /\ ~FastTracked(s, c) => t.actions = s.actions /\ MoreAsked(s.votes, t.votes, c, cause)
      /\ FastTracked(s, c) => t.votes = s.votes /\ QueuedOnce(s, t, p)
  BY DEF Onboards
<1>6. cause.kind = "onboarding" /\ cause.para = p /\ cause \in Cause
  BY VoteTypes
<1> HIDE DEF cause
<1>7. Users(t, c) = Users(s, c) + 1 /\ OthersSame(s, t, c)
  <2>1. t.current = Put(s.current, p, c)
    BY DEF Onboards
  <2>2. p \notin DOMAIN s.current /\ t.future = s.future /\ t.past = s.past
    BY <1>1, <1>2
  <2> QED BY <2>1, <2>2, CurrentAdded
<1>8. /\ Counted(t) /\ VotesCounted(t)
      /\ ~FastTracked(s, c) /\ c \notin DOMAIN s.votes =>
            CurrentOf(s, c) = {} /\ FutureOf(s, c) = {} /\ PastOf(s, c) = {}
      /\ t.stored \subseteq s.stored \union {c}
  BY <1>5, <1>7, UserAdded DEF CodesSound
<1>9. ASSUME NEW d \in DOMAIN t.votes
      PROVE  /\ d \notin DOMAIN s.votes =>
                   /\ d = c /\ ~FastTracked(s, c) /\ t.votes[d].causes = <<cause>>
                   /\ ParasIn(t.votes[d].causes, "upgrade") = {}
             /\ d \in DOMAIN s.votes =>
                   /\ ParasIn(t.votes[d].causes, "upgrade") = ParasIn(s.votes[d].causes, "upgrade")
                   /\ ParasIn(s.votes[d].causes, "onboarding")
                        \subseteq ParasIn(t.votes[d].causes, "onboarding")
                   /\ \/ t.votes[d].causes = s.votes[d].causes
                      \/ /\ s.votes[d].causes \in Seq(Cause)
                         /\ t.votes[d].causes = Append(s.votes[d].causes, cause)
             /\ d = c => p \in ParasIn(t.votes[d].causes, "onboarding")
  <2>1. CASE FastTracked(s, c)
    BY <1>5, <2>1 DEF FastTracked
  <2>2. CASE ~FastTracked(s, c)
    <3>1. MoreAsked(s.votes, t.votes, c, cause)
      BY <1>5, <2>2
    <3>2. CASE d # c
      BY <3>1, <3>2 DEF MoreAsked
    <3>3. CASE d = c
      <4>1. \A q : /\ q \in ParasIn(t.votes[c].causes, "upgrade")
                        <=> c \in DOMAIN s.votes /\ q \in ParasIn(s.votes[c].causes, "upgrade")
                   /\ q \in ParasIn(t.votes[c].causes, "onboarding")
                        <=> \/ c \in DOMAIN s.votes /\ q \in ParasIn(s.votes[c].causes, "onboarding")
                            \/ q = p
        BY <1>6, <3>1 DEF MoreAsked
      <4>2. /\ c \in DOMAIN s.votes => /\ s.votes[c].causes \in Seq(Cause)
                                       /\ t.votes[c].causes = Append(s.votes[c].causes, cause)
            /\ c \notin DOMAIN s.votes => t.votes[c].causes = <<cause>>
        BY <3>1 DEF MoreAsked
      <4>3. c \notin DOMAIN s.votes => ParasIn(t.votes[c].causes, "upgrade") = {}
        BY <4>1
      <4>4. c \in DOMAIN s.votes =>
              /\ ParasIn(t.votes[c].causes, "upgrade") = ParasIn(s.votes[c].causes, "upgrade")
              /\ ParasIn(s.votes[c].causes, "onboarding")
                   \subseteq ParasIn(t.votes[c].causes, "onboarding")
        BY <4>1
      <4> QED BY <2>2, <3>3, <4>1, <4>2, <4>3, <4>4
    <3> QED BY <3>2, <3>3
  <2> QED BY <2>1, <2>2
<1>10. UsersAsked(t)
  <2> SUFFICES ASSUME NEW d \in DOMAIN t.votes
               PROVE  /\ \A q \in DOMAIN t.current :
                            t.current[q] = d => q \in ParasIn(t.votes[d].causes, "onboarding")
                      /\ \A q \in DOMAIN t.future :
                            t.future[q] = d => q \in ParasIn(t.votes[d].causes, "upgrade")
                      /\ \A k \in DOMAIN t.past : t.past[k] # d
    BY DEF UsersAsked
  <2>1. CASE d \in DOMAIN s.votes
    <3>1. /\ \A q \in DOMAIN s.current :
                s.current[q] = d => q \in ParasIn(s.votes[d].causes, "onboarding")
          /\ \A q \in DOMAIN s.future :
                s.future[q] = d => q \in ParasIn(s.votes[d].causes, "upgrade")
          /\ \A k \in DOMAIN s.past : s.past[k] # d
      BY <2>1 DEF CodesSound, UsersAsked
    <3>2. /\ ParasIn(t.votes[d].causes, "upgrade") = ParasIn(s.votes[d].causes, "upgrade")
          /\ ParasIn(s.votes[d].causes, "onboarding")
               \subseteq ParasIn(t.votes[d].causes, "onboarding")
          /\ d = c => p \in ParasIn(t.votes[d].causes, "onboarding")
      BY <1>9, <2>1
    <3> QED BY <1>1, <1>3, <3>1, <3>2
  <2>2. CASE d \notin DOMAIN s.votes
    <3>1. d = c /\ CurrentOf(s, c) = {} /\ FutureOf(s, c) = {} /\ PastOf(s, c) = {}
      BY <1>8, <1>9, <2>2
    <3> QED BY <1>1, <1>3, <1>9, <3>1 DEF CurrentOf, FutureOf, PastOf
  <2> QED BY <2>1, <2>2
<1>11. UpgradesAsked(t)
  <2> SUFFICES ASSUME NEW d \in DOMAIN t.votes
               PROVE  /\ \A q \in ParasIn(t.votes[d].causes, "upgrade") :
                            /\ q \notin DOMAIN t.upgrade_at
                            /\ q \in DOMAIN t.future => t.future[q] = d
                      /\ AskedOnce(t.votes[d].causes)
    BY DEF UpgradesAsked
  <2>1. CASE d \in DOMAIN s.votes
    <3>1. AskedOnce(s.votes[d].causes)
      BY <2>1 DEF CodesSound, UpgradesAsked
    <3>2. AskedOnce(t.votes[d].causes)
      BY <1>6, <1>9, <2>1, <3>1, AskedOnceMore
    <3> QED BY <1>1, <1>4, <1>9, <2>1, <3>2 DEF CodesSound, UpgradesAsked
  <2>2. CASE d \notin DOMAIN s.votes
    BY <1>9, <2>2, AskedOnceSingle
  <2> QED BY <2>1, <2>2
<1>12. UpgradesAnnounced(t, n)
  BY <1>1, <1>4 DEF CodesSound, UpgradesAnnounced
<1>13. Accepted(t, more)
  <2>1. \A q \in DOMAIN t.current \intersect t.heads : t.current[q] \in more
    BY <1>1, <1>2, <1>3 DEF CodesSound, Accepted, Accounts
  <2>2. \A q \in DOMAIN t.upgrade_at \intersect DOMAIN t.future : t.future[q] \in more
    BY <1>1, <1>4 DEF CodesSound, Accepted, Accounts
  <2>3. ASSUME NEW k \in Nat, NEW q \in DOMAIN t.current \ t.heads, <<k, q>> \in t.actions
        PROVE  t.current[q] \in more
    <3>1. CASE FastTracked(s, c)
      <4>1. <<k, q>> \in s.actions \/ q = p
        BY <1>5, <2>3, <3>1 DEF QueuedOnce
      <4> QED BY <1>1, <1>3, <3>1, <4>1 DEF CodesSound, Accepted, Accounts
    <3>2. CASE ~FastTracked(s, c)
      BY <1>1, <1>2, <1>3, <1>5, <2>3, <3>2 DEF CodesSound, Accepted, Accounts
    <3> QED BY <3>1, <3>2
  <2>4. t.stored \ DOMAIN t.votes \subseteq more
    <3>1. CASE FastTracked(s, c)
      BY <1>5, <1>8, <3>1 DEF CodesSound, Accepted, Accounts
    <3>2. CASE ~FastTracked(s, c)
      BY <1>5, <1>8, <3>2 DEF CodesSound, Accepted, Accounts, MoreAsked
    <3> QED BY <3>1, <3>2
  <2> QED BY <2>1, <2>2, <2>3, <2>4 DEF Accepted
<1>14. ReplacedBefore(t, n) /\ Retained(t, n, old)
  BY <1>1, <1>4 DEF CodesSound, ReplacedBefore, Retained
<1>15. ~Outlives(t)
  <2> SUFFICES ASSUME NEW d \in DOMAIN t.votes
               PROVE  ParasIn(t.votes[d].causes, "upgrade") \subseteq DOMAIN t.future
    BY OutlivesIs
  <2> QED BY <1>1, <1>9, OutlivesIs
<1> QED BY <1>8, <1>10, <1>11, <1>12, <1>13, <1>14, <1>15 DEF CodesSound

LEMMA SignalCodes ==
    ASSUME NEW s, IsStore(s), NEW p \in ParaIds, NEW c \in Codes, NEW r \in Nat, now \in Nat,
           NEW t, IsStore(t), Signals(s, t, p, c, r), p \notin DOMAIN s.future,
           NEW codes, NEW more, Accounts(s, c, codes, more), NEW old,
           CodesSound(s, now, now, codes, old), ~Outlives(s)
    PROVE  CodesSound(t, now, now, more, old) /\ ~Outlives(t)
<1> DEFINE cause == Upgrade(p, r)
           at == ExpectedAt(r)
<1>1. /\ t.past = s.past /\ t.meta = s.meta /\ t.heads = s.heads /\ t.current = s.current
      /\ t.go_ahead = s.go_ahead /\ t.actions = s.actions
  BY DEF Signals, Same, Fields
<1>2. p \notin DOMAIN s.upgrade_at /\ \A d \in DOMAIN s.votes : p \notin ParasIn(s.votes[d].causes, "upgrade")
  BY OutlivesIs DEF CodesSound, UpgradesAnnounced
<1>3. /\ DOMAIN t.future = DOMAIN s.future \union {p} /\ t.future[p] = c
      /\ \A q \in DOMAIN s.future : t.future[q] = s.future[q]
  BY DEF Signals, Put
<1>4. at \in Nat /\ at > now
  BY ExpectedAtLater
<1>5. /\ RefAdded(s, t, c)
      /\ ~FastTracked(s, c) => SameUpgrades(s, t) /\ MoreAsked(s.votes, t.votes, c, cause)
      /\ FastTracked(s, c) => t.votes = s.votes /\ UpgradeScheduled(s, t, p, at)
  BY DEF Signals
<1>6. cause.kind = "upgrade" /\ cause.para = p /\ cause \in Cause
  BY VoteTypes
<1> HIDE DEF cause, at
<1>7. Users(t, c) = Users(s, c) + 1 /\ OthersSame(s, t, c)
  <2>1. t.future = Put(s.future, p, c)
    BY DEF Signals
  <2> QED BY <1>1, <2>1, FutureAdded
<1>8. /\ Counted(t) /\ VotesCounted(t)
      /\ ~FastTracked(s, c) /\ c \notin DOMAIN s.votes =>
            CurrentOf(s, c) = {} /\ FutureOf(s, c) = {} /\ PastOf(s, c) = {}
      /\ t.stored \subseteq s.stored \union {c}
  BY <1>5, <1>7, UserAdded DEF CodesSound
<1>9. ASSUME NEW d \in DOMAIN t.votes
      PROVE  /\ d \notin DOMAIN s.votes =>
                   d = c /\ ~FastTracked(s, c) /\ t.votes[d].causes = <<cause>>
             /\ d \in DOMAIN s.votes =>
                   /\ ParasIn(t.votes[d].causes, "onboarding")
                        = ParasIn(s.votes[d].causes, "onboarding")
                   /\ ParasIn(s.votes[d].causes, "upgrade")
                        \subseteq ParasIn(t.votes[d].causes, "upgrade")
                   /\ \/ t.votes[d].causes = s.votes[d].causes
                      \/ /\ s.votes[d].causes \in Seq(Cause)
                         /\ t.votes[d].causes = Append(s.votes[d].causes, cause)
             /\ d = c => p \in ParasIn(t.votes[d].causes, "upgrade") /\ ~FastTracked(s, c)
             /\ \A q \in ParasIn(t.votes[d].causes, "upgrade") :
                   \/ d = c /\ q = p
                   \/ d \in DOMAIN s.votes /\ q \in ParasIn(s.votes[d].causes, "upgrade")
  <2>1. CASE FastTracked(s, c)
    BY <1>5, <2>1 DEF FastTracked
  <2>2. CASE ~FastTracked(s, c)
    <3>1. MoreAsked(s.votes, t.votes, c, cause)
      BY <1>5, <2>2
    <3>2. CASE d # c
      BY <3>1, <3>2 DEF MoreAsked
    <3>3. CASE d = c
      <4>1. \A q : /\ q \in ParasIn(t.votes[c].causes, "onboarding")
                        <=> c \in DOMAIN s.votes /\ q \in ParasIn(s.votes[c].causes, "onboarding")
                   /\ q \in ParasIn(t.votes[c].causes, "upgrade")
                        <=> \/ c \in DOMAIN s.votes /\ q \in ParasIn(s.votes[c].causes, "upgrade")
                            \/ q = p
        BY <1>6, <3>1 DEF MoreAsked
      <4>2. /\ c \in DOMAIN s.votes => /\ s.votes[c].causes \in Seq(Cause)
                                       /\ t.votes[c].causes = Append(s.votes[c].causes, cause)
            /\ c \notin DOMAIN s.votes => t.votes[c].causes = <<cause>>
        BY <3>1 DEF MoreAsked
      <4>3. c \in DOMAIN s.votes =>
              /\ ParasIn(t.votes[c].causes, "onboarding") = ParasIn(s.votes[c].causes, "onboarding")
              /\ ParasIn(s.votes[c].causes, "upgrade")
                   \subseteq ParasIn(t.votes[c].causes, "upgrade")
        BY <4>1
      <4> QED BY <2>2, <3>3, <4>1, <4>2, <4>3
    <3> QED BY <3>2, <3>3
  <2> QED BY <2>1, <2>2
<1>10. UsersAsked(t)
  <2> SUFFICES ASSUME NEW d \in DOMAIN t.votes
               PROVE  /\ \A q \in DOMAIN t.current :
                            t.current[q] = d => q \in ParasIn(t.votes[d].causes, "onboarding")
                      /\ \A q \in DOMAIN t.future :
                            t.future[q] = d => q \in ParasIn(t.votes[d].causes, "upgrade")
                      /\ \A k \in DOMAIN t.past : t.past[k] # d
    BY DEF UsersAsked
  <2>1. CASE d \in DOMAIN s.votes
    BY <1>1, <1>3, <1>9, <2>1 DEF CodesSound, UsersAsked
  <2>2. CASE d \notin DOMAIN s.votes
    <3>1. d = c /\ CurrentOf(s, c) = {} /\ FutureOf(s, c) = {} /\ PastOf(s, c) = {}
      BY <1>8, <1>9, <2>2
    <3> QED BY <1>1, <1>3, <1>9, <3>1 DEF CurrentOf, FutureOf, PastOf
  <2> QED BY <2>1, <2>2
<1>11. /\ DOMAIN s.upgrade_at \subseteq DOMAIN t.upgrade_at
       /\ \A q \in DOMAIN t.upgrade_at : \/ q \in DOMAIN s.upgrade_at
                                         \/ q = p /\ FastTracked(s, c) /\ t.upgrade_at[q] = at
       /\ \A q \in DOMAIN s.upgrade_at : t.upgrade_at[q] = s.upgrade_at[q]
       /\ s.upcoming \subseteq t.upcoming
       /\ \A q \in ParaIds, k \in Nat : <<q, k>> \in t.upcoming =>
             <<q, k>> \in s.upcoming \/ (q = p /\ k = at /\ p \in DOMAIN t.upgrade_at)
       /\ p \in DOMAIN t.upgrade_at => <<p, at>> \in t.upcoming
  <2>1. CASE FastTracked(s, c)
    BY <1>2, <1>5, <2>1 DEF UpgradeScheduled
  <2>2. CASE ~FastTracked(s, c)
    BY <1>2, <1>5, <2>2 DEF SameUpgrades
  <2> QED BY <2>1, <2>2
<1>12. UpgradesAsked(t)
  <2> SUFFICES ASSUME NEW d \in DOMAIN t.votes
               PROVE  /\ \A q \in ParasIn(t.votes[d].causes, "upgrade") :
                            /\ q \notin DOMAIN t.upgrade_at
                            /\ q \in DOMAIN t.future => t.future[q] = d
                      /\ AskedOnce(t.votes[d].causes)
    BY DEF UpgradesAsked
  <2>1. AskedOnce(t.votes[d].causes)
    <3>1. CASE d \in DOMAIN s.votes
      <4>1. AskedOnce(s.votes[d].causes) /\ p \notin ParasIn(s.votes[d].causes, "upgrade")
        BY <1>2, <3>1 DEF CodesSound, UpgradesAsked
      <4> QED BY <1>6, <1>9, <3>1, <4>1, AskedOnceMore
    <3>2. CASE d \notin DOMAIN s.votes
      BY <1>9, <3>2, AskedOnceSingle
    <3> QED BY <3>1, <3>2
  <2>2. ASSUME NEW q \in ParasIn(t.votes[d].causes, "upgrade")
        PROVE  q \notin DOMAIN t.upgrade_at /\ (q \in DOMAIN t.future => t.future[q] = d)
    <3>1. CASE d = c /\ q = p
      BY <1>2, <1>3, <1>9, <1>11, <3>1
    <3>2. CASE d \in DOMAIN s.votes /\ q \in ParasIn(s.votes[d].causes, "upgrade")
      <4>1. q # p /\ q \notin DOMAIN s.upgrade_at /\ (q \in DOMAIN s.future => s.future[q] = d)
        BY <1>2, <3>2 DEF CodesSound, UpgradesAsked
      <4> QED BY <1>3, <1>11, <4>1
    <3> QED BY <1>9, <3>1, <3>2
  <2> QED BY <2>1, <2>2
<1>13. UpgradesAnnounced(t, now)
  <2>1. ASSUME NEW q \in DOMAIN t.upgrade_at
        PROVE  /\ q \in DOMAIN t.future
               /\ t.upgrade_at[q] > now => <<q, t.upgrade_at[q]>> \in t.upcoming
               /\ t.upgrade_at[q] <= now => q \in DOMAIN t.go_ahead /\ t.go_ahead[q] = "GoAhead"
    <3>1. CASE q \in DOMAIN s.upgrade_at
      BY <1>1, <1>3, <1>11, <3>1 DEF CodesSound, UpgradesAnnounced
    <3>2. CASE q = p /\ t.upgrade_at[q] = at
      BY <1>3, <1>4, <1>11, <3>2
    <3> QED BY <1>11, <3>1, <3>2
  <2>2. \A q \in DOMAIN t.go_ahead : t.go_ahead[q] = "GoAhead" => q \in DOMAIN t.upgrade_at
    BY <1>1, <1>11 DEF CodesSound, UpgradesAnnounced
  <2>3. ASSUME NEW q \in ParaIds, NEW k \in Nat, <<q, k>> \in t.upcoming
        PROVE  q \in DOMAIN t.upgrade_at /\ t.upgrade_at[q] = k /\ k > now
    <3>1. CASE <<q, k>> \in s.upcoming
      BY <1>11, <3>1 DEF CodesSound, UpgradesAnnounced
    <3>2. CASE q = p /\ k = at /\ p \in DOMAIN t.upgrade_at
      BY <1>2, <1>4, <1>11, <3>2
    <3> QED BY <1>11, <2>3, <3>1, <3>2
  <2> QED BY <2>1, <2>2, <2>3 DEF UpgradesAnnounced
<1>14. Accepted(t, more)
  <2>1. /\ \A q \in DOMAIN t.current \intersect t.heads : t.current[q] \in more
        /\ \A k \in Nat, q \in DOMAIN t.current \ t.heads :
              <<k, q>> \in t.actions => t.current[q] \in more
    BY <1>1 DEF CodesSound, Accepted, Accounts
  <2>2. ASSUME NEW q \in DOMAIN t.upgrade_at \intersect DOMAIN t.future
        PROVE  t.future[q] \in more
    <3>1. CASE q \in DOMAIN s.upgrade_at
      <4>1. q # p /\ q \in DOMAIN s.future
        BY <1>2, <1>3, <2>2, <3>1
      <4> QED BY <1>3, <3>1, <4>1 DEF CodesSound, Accepted, Accounts
    <3>2. CASE q = p /\ FastTracked(s, c)
      BY <1>3, <3>2 DEF Accounts
    <3> QED BY <1>11, <3>1, <3>2
  <2>3. t.stored \ DOMAIN t.votes \subseteq more
    <3>1. CASE FastTracked(s, c)
      BY <1>5, <1>8, <3>1 DEF CodesSound, Accepted, Accounts
    <3>2. CASE ~FastTracked(s, c)
      BY <1>5, <1>8, <3>2 DEF CodesSound, Accepted, Accounts, MoreAsked
    <3> QED BY <3>1, <3>2
  <2> QED BY <2>1, <2>2, <2>3 DEF Accepted
<1>15. ReplacedBefore(t, now)
  <2>1. ASSUME NEW k \in DOMAIN t.past
        PROVE  k[2] < now /\ (k[1] \in DOMAIN t.upgrade_at => k[2] < t.upgrade_at[k[1]])
    <3>1. k[2] \in Nat /\ k[2] < now
      BY <1>1 DEF CodesSound, ReplacedBefore, IsStore, StoreOK, IsMap
    <3>2. CASE k[1] \in DOMAIN s.upgrade_at
      BY <1>1, <1>11, <3>1, <3>2 DEF CodesSound, ReplacedBefore
    <3>3. CASE k[1] \notin DOMAIN s.upgrade_at
      <4>1. k[1] \in DOMAIN t.upgrade_at => t.upgrade_at[k[1]] = at
        BY <1>11, <3>3
      <4> QED BY <1>4, <3>1, <4>1
    <3> QED BY <3>2, <3>3
  <2>2. ASSUME NEW q \in ParaIds, NEW i \in DOMAIN t.meta[q]
        PROVE  /\ t.meta[q][i].expected_at < now
               /\ q \in DOMAIN t.upgrade_at => t.meta[q][i].expected_at < t.upgrade_at[q]
    <3>1. t.meta[q][i].expected_at \in Nat /\ t.meta[q][i].expected_at < now
      <4>1. t.meta[q][i] \in ReplacementTimes
        BY <1>1 DEF IsStore, StoreOK, IsMap
      <4> QED BY <1>1, <4>1 DEF CodesSound, ReplacedBefore, ReplacementTimes
    <3>2. CASE q \in DOMAIN s.upgrade_at
      BY <1>1, <1>11, <3>1, <3>2 DEF CodesSound, ReplacedBefore
    <3>3. CASE q \notin DOMAIN s.upgrade_at
      <4>1. q \in DOMAIN t.upgrade_at => t.upgrade_at[q] = at
        BY <1>11, <3>3
      <4> QED BY <1>4, <3>1, <4>1
    <3> QED BY <3>2, <3>3
  <2> QED BY <2>1, <2>2 DEF ReplacedBefore
<1>16. Retained(t, now, old)
  BY <1>1 DEF CodesSound, Retained
<1>17. ~Outlives(t)
  <2> SUFFICES ASSUME NEW d \in DOMAIN t.votes, NEW q \in ParasIn(t.votes[d].causes, "upgrade")
               PROVE  q \in DOMAIN t.future
    BY OutlivesIs
  <2> QED BY <1>3, <1>9, OutlivesIs
<1> QED BY <1>8, <1>10, <1>12, <1>13, <1>14, <1>15, <1>16, <1>17 DEF CodesSound

\* Code that becomes past code now stays available.
Gone(old) == {[para |-> p, code |-> old[p], at |-> now] : p \in DOMAIN old}

LEMMA RetainedNoted ==
    ASSUME NEW s, IsStore(s), NEW t, IsStore(t), NEW old, NEW at, PastNoted(s, t, old, at),
           DOMAIN old \subseteq ParaIds, now \in Nat,
           \A p \in DOMAIN old : <<p, at>> \notin DOMAIN s.past,
           \A p \in DOMAIN old : \A i \in DOMAIN s.meta[p] : s.meta[p][i].expected_at # at,
           NEW replacedOnes, \A r \in replacedOnes : r.para \in ParaIds,
           NEW n, Retained(s, n, replacedOnes)
    PROVE  Retained(t, n, replacedOnes \union Gone(old))
<1> SUFFICES ASSUME NEW r \in replacedOnes \union Gone(old), n <= r.at + Retention
             PROVE  \E k \in DOMAIN t.past :
                       /\ k[1] = r.para /\ t.past[k] = r.code
                       /\ \A i \in DOMAIN t.meta[r.para] :
                             t.meta[r.para][i].expected_at = k[2] =>
                                r.at <= t.meta[r.para][i].activated_at
  BY DEF Retained
<1>1. CASE r \in replacedOnes
  <2>1. PICK k \in DOMAIN s.past :
           /\ k[1] = r.para /\ s.past[k] = r.code
           /\ \A i \in DOMAIN s.meta[r.para] :
                 s.meta[r.para][i].expected_at = k[2] => r.at <= s.meta[r.para][i].activated_at
    BY <1>1 DEF Retained
  <2>2. k = <<k[1], k[2]>>
    BY DEF IsStore, StoreOK, IsMap
  <2>3. k \notin (DOMAIN old) \X {at} /\ (r.para \in DOMAIN old => k[2] # at)
    BY <2>1, <2>2
  <2>4. k \in DOMAIN t.past /\ t.past[k] = s.past[k]
    BY <2>3 DEF PastNoted
  <2>5. ASSUME NEW i \in DOMAIN t.meta[r.para], t.meta[r.para][i].expected_at = k[2]
        PROVE  r.at <= t.meta[r.para][i].activated_at
    <3>1. \/ i \in DOMAIN s.meta[r.para] /\ t.meta[r.para][i] = s.meta[r.para][i]
          \/ r.para \in DOMAIN old /\ t.meta[r.para][i].expected_at = at
      BY <1>1 DEF PastNoted
    <3> QED BY <2>1, <2>3, <2>5, <3>1
  <2> QED BY <2>1, <2>4, <2>5
<1>2. CASE r \in Gone(old)
  <2>1. PICK p \in DOMAIN old : r = [para |-> p, code |-> old[p], at |-> now]
    BY <1>2 DEF Gone
  <2>2. r.para = p /\ r.code = old[p] /\ r.at = now /\ p \in ParaIds
    BY <2>1
  <2> DEFINE k == <<p, at>>
  <2>3. k \in DOMAIN t.past /\ t.past[k] = old[p] /\ k[1] = p /\ k[2] = at
    BY DEF PastNoted
  <2>4. ASSUME NEW i \in DOMAIN t.meta[p], t.meta[p][i].expected_at = at
        PROVE  now <= t.meta[p][i].activated_at
    <3>1. t.meta[p][i].activated_at = now
      BY <2>2, <2>4 DEF PastNoted
    <3> QED BY <3>1
  <2> HIDE DEF k
  <2> QED BY <2>2, <2>3, <2>4
<1> QED BY <1>1, <1>2

LEMMA RetainedSubset ==
    ASSUME NEW s, NEW n, NEW old, NEW less, less \subseteq old, Retained(s, n, old)
    PROVE  Retained(s, n, less)
BY DEF Retained

\* A candidate enacts the upgrade that was announced to its para.
LEMMA SwapCodes ==
    ASSUME NEW s, IsStore(s), NEW p \in ParaIds, now \in Nat,
           p \in DOMAIN s.upgrade_at, p \in s.heads, s.upgrade_at[p] < now,
           NEW t, IsStore(t), Swaps(s, t, p), NEW codes, NEW old,
           \A r \in old : r.para \in ParaIds,
           Lifecycles(s), CodesSound(s, now, now, codes, old), ~Outlives(s)
    PROVE  /\ CodesSound(t, now, now, codes, old \union Gone([q \in {p} |-> s.current[p]]))
           /\ ~Outlives(t)
<1> DEFINE at == s.upgrade_at[p]
           oc == s.current[p]
           nc == s.future[p]
           gone == [q \in {p} |-> s.current[p]]
<1>1. /\ p \in DOMAIN s.future /\ p \in DOMAIN s.current /\ p \in DOMAIN s.lifecycles
      /\ s.lifecycles[p] # "Onboarding" /\ t.heads = s.heads
      /\ at \in Nat /\ at < now
  <2>1. p \in DOMAIN s.future
    BY DEF CodesSound, UpgradesAnnounced
  <2>2. /\ p \in DOMAIN s.current /\ p \in DOMAIN s.lifecycles
        /\ s.lifecycles[p] # "Onboarding"
    BY DEF Lifecycles, Registered
  <2>3. t.heads = s.heads
    BY DEF Swaps
  <2>4. at \in Nat
    BY DEF IsStore, StoreOK, IsMap
  <2> QED BY <2>1, <2>2, <2>3, <2>4
<1>2. /\ t.votes = s.votes /\ t.refs = s.refs /\ t.stored = s.stored /\ t.actions = s.actions
      /\ t.upcoming = s.upcoming
  BY DEF Swaps, Same, Fields
<1>3. /\ DOMAIN t.upgrade_at = DOMAIN s.upgrade_at \ {p}
      /\ \A q \in DOMAIN t.upgrade_at : t.upgrade_at[q] = s.upgrade_at[q]
      /\ DOMAIN t.go_ahead = DOMAIN s.go_ahead \ {p}
      /\ \A q \in DOMAIN t.go_ahead : t.go_ahead[q] = s.go_ahead[q]
      /\ DOMAIN t.future = DOMAIN s.future \ {p}
      /\ \A q \in DOMAIN t.future : t.future[q] = s.future[q]
  BY DEF Swaps, Without
<1>4. /\ DOMAIN t.current = DOMAIN s.current /\ t.current[p] = nc
      /\ \A q \in DOMAIN s.current : q # p => t.current[q] = s.current[q]
  BY <1>1 DEF Swaps, Put
<1>5. <<p, at>> \notin DOMAIN s.past
  <2> SUFFICES ASSUME <<p, at>> \in DOMAIN s.past PROVE FALSE
    OBVIOUS
  <2>1. at < at
    BY <1>1 DEF CodesSound, ReplacedBefore
  <2> QED BY <1>1, <2>1
<1>6. oc \notin DOMAIN s.votes /\ nc \notin DOMAIN s.votes
  <2>1. ASSUME oc \in DOMAIN s.votes PROVE FALSE
    <3>1. p \in ParasIn(s.votes[oc].causes, "onboarding")
      BY <1>1, <2>1 DEF CodesSound, UsersAsked
    <3> QED BY <1>1, <2>1, <3>1 DEF Lifecycles, OnboardingAsked
  <2>2. ASSUME nc \in DOMAIN s.votes PROVE FALSE
    <3>1. p \in ParasIn(s.votes[nc].causes, "upgrade")
      BY <1>1, <2>2 DEF CodesSound, UsersAsked
    <3> QED BY <2>2, <3>1 DEF CodesSound, UpgradesAsked
  <2> QED BY <2>1, <2>2
<1>7. PastNoted(s, t, gone, at) /\ DOMAIN gone = {p}
  BY DEF Swaps
<1>8. ASSUME NEW c
      PROVE  /\ Users(t, c) = Users(s, c)
             /\ c # oc /\ c # nc => SameUsers(s, t, c)
  <2>1. t.current = Put(s.current, p, s.future[p]) /\ t.future = Without(s.future, {p})
    BY DEF Swaps
  <2> QED BY <1>1, <1>5, <1>7, <2>1, SwapUsers
<1> HIDE DEF gone, oc, nc, at
<1>9. Counted(t) /\ VotesCounted(t)
  BY <1>2, <1>8 DEF CodesSound, Counted, VotesCounted
<1>10. UsersAsked(t)
  <2> SUFFICES ASSUME NEW d \in DOMAIN s.votes
               PROVE  /\ \A q \in DOMAIN t.current :
                            t.current[q] = d => q \in ParasIn(s.votes[d].causes, "onboarding")
                      /\ \A q \in DOMAIN t.future :
                            t.future[q] = d => q \in ParasIn(s.votes[d].causes, "upgrade")
                      /\ \A k \in DOMAIN t.past : t.past[k] # d
    BY <1>2 DEF UsersAsked
  <2>1. SameUsers(s, t, d)
    BY <1>6, <1>8
  <2>2. /\ \A q \in CurrentOf(s, d) : q \in ParasIn(s.votes[d].causes, "onboarding")
        /\ \A q \in FutureOf(s, d) : q \in ParasIn(s.votes[d].causes, "upgrade")
        /\ PastOf(s, d) = {}
    BY DEF CodesSound, UsersAsked, CurrentOf, FutureOf, PastOf
  <2>3. /\ \A q \in CurrentOf(t, d) : q \in ParasIn(s.votes[d].causes, "onboarding")
        /\ \A q \in FutureOf(t, d) : q \in ParasIn(s.votes[d].causes, "upgrade")
        /\ PastOf(t, d) = {}
    BY <2>1, <2>2 DEF SameUsers
  <2> QED BY <2>3 DEF CurrentOf, FutureOf, PastOf
<1>11. UpgradesAsked(t)
  BY <1>2, <1>3 DEF CodesSound, UpgradesAsked
<1>12. UpgradesAnnounced(t, now)
  <2>1. \A q \in DOMAIN t.upgrade_at :
          /\ q \in DOMAIN t.future
          /\ t.upgrade_at[q] > now => <<q, t.upgrade_at[q]>> \in t.upcoming
          /\ t.upgrade_at[q] <= now => q \in DOMAIN t.go_ahead /\ t.go_ahead[q] = "GoAhead"
    BY <1>2, <1>3 DEF CodesSound, UpgradesAnnounced
  <2>2. \A q \in DOMAIN t.go_ahead : t.go_ahead[q] = "GoAhead" => q \in DOMAIN t.upgrade_at
    BY <1>3 DEF CodesSound, UpgradesAnnounced
  <2>3. ASSUME NEW q \in ParaIds, NEW k \in Nat, <<q, k>> \in t.upcoming
        PROVE  q \in DOMAIN t.upgrade_at /\ t.upgrade_at[q] = k /\ k > now
    <3>1. q \in DOMAIN s.upgrade_at /\ s.upgrade_at[q] = k /\ k > now
      BY <1>2, <2>3 DEF CodesSound, UpgradesAnnounced
    <3>2. q # p
      BY <1>1, <3>1 DEF at
    <3> QED BY <1>3, <3>1, <3>2
  <2> QED BY <2>1, <2>2, <2>3 DEF UpgradesAnnounced
<1>13. Accepted(t, codes)
  <2>1. nc \in codes
    BY <1>1 DEF CodesSound, Accepted, nc
  <2>2. \A q \in DOMAIN t.current \intersect t.heads : t.current[q] \in codes
    BY <1>1, <1>4, <2>1 DEF CodesSound, Accepted
  <2>3. \A q \in DOMAIN t.upgrade_at \intersect DOMAIN t.future : t.future[q] \in codes
    BY <1>3 DEF CodesSound, Accepted
  <2>4. \A k \in Nat, q \in DOMAIN t.current \ t.heads :
           <<k, q>> \in t.actions => t.current[q] \in codes
    BY <1>1, <1>2, <1>4 DEF CodesSound, Accepted
  <2>5. t.stored \ DOMAIN t.votes \subseteq codes
    BY <1>2 DEF CodesSound, Accepted
  <2> QED BY <2>2, <2>3, <2>4, <2>5 DEF Accepted
<1>14. ReplacedBefore(t, now)
  <2>1. ASSUME NEW k \in DOMAIN t.past
        PROVE  k[2] < now /\ (k[1] \in DOMAIN t.upgrade_at => k[2] < t.upgrade_at[k[1]])
    <3>1. CASE k \in DOMAIN s.past
      BY <1>3, <3>1 DEF CodesSound, ReplacedBefore
    <3>2. CASE k \in {p} \X {at}
      BY <1>1, <1>3, <3>2
    <3> QED BY <1>7, <3>1, <3>2 DEF PastNoted
  <2>2. ASSUME NEW q \in ParaIds, NEW i \in DOMAIN t.meta[q]
        PROVE  /\ t.meta[q][i].expected_at < now
               /\ q \in DOMAIN t.upgrade_at => t.meta[q][i].expected_at < t.upgrade_at[q]
    <3>1. CASE i \in DOMAIN s.meta[q] /\ t.meta[q][i] = s.meta[q][i]
      BY <1>3, <3>1 DEF CodesSound, ReplacedBefore
    <3>2. CASE q = p /\ t.meta[q][i].expected_at = at
      BY <1>1, <1>3, <3>2
    <3> QED BY <1>7, <3>1, <3>2 DEF PastNoted
  <2> QED BY <2>1, <2>2 DEF ReplacedBefore
<1>15. Retained(t, now, old \union Gone(gone))
  <2>1. ASSUME NEW i \in DOMAIN s.meta[p] PROVE s.meta[p][i].expected_at # at
    <3>1. s.meta[p][i] \in ReplacementTimes
      BY DEF IsStore, StoreOK, IsMap
    <3>2. s.meta[p][i].expected_at \in Nat /\ s.meta[p][i].expected_at < at
      BY <3>1 DEF CodesSound, ReplacedBefore, ReplacementTimes, at
    <3> QED BY <1>1, <3>2
  <2>2. Retained(s, now, old)
    BY DEF CodesSound
  <2>3. DOMAIN gone \subseteq ParaIds /\ \A q \in DOMAIN gone : q = p
    BY <1>7
  <2>4. \A q \in DOMAIN gone : <<q, at>> \notin DOMAIN s.past
    BY <1>5, <2>3
  <2>5. \A q \in DOMAIN gone : \A i \in DOMAIN s.meta[q] : s.meta[q][i].expected_at # at
    BY <2>1, <2>3
  <2> QED BY <1>7, <2>2, <2>3, <2>4, <2>5, RetainedNoted
<1>16. ~Outlives(t)
  <2> SUFFICES ASSUME NEW d \in DOMAIN s.votes, NEW q \in ParasIn(s.votes[d].causes, "upgrade")
               PROVE  q \in DOMAIN t.future
    BY <1>2, OutlivesIs
  <2>1. q \in DOMAIN s.future /\ q \notin DOMAIN s.upgrade_at
    BY OutlivesIs DEF CodesSound, UpgradesAsked
  <2> QED BY <1>3, <2>1
<1> QED BY <1>9, <1>10, <1>11, <1>12, <1>13, <1>14, <1>15, <1>16 DEF CodesSound, gone

\* A head without an upgrade drops what is left of an aborted one.
LEMMA HeadCodes ==
    ASSUME NEW s, NEW p \in s.heads, p \notin DOMAIN s.upgrade_at, NEW t,
           Same(s, t, {"heads", "go_ahead"}), t.heads = s.heads \union {p},
           t.go_ahead = Without(s.go_ahead, {p}), NEW n, NEW m, NEW codes, NEW old,
           CodesSound(s, n, m, codes, old)
    PROVE  CodesSound(t, n, m, codes, old)
<1>1. /\ t.current = s.current /\ t.future = s.future /\ t.past = s.past
      /\ t.meta = s.meta /\ t.upgrade_at = s.upgrade_at /\ t.upcoming = s.upcoming
      /\ t.heads = s.heads /\ t.actions = s.actions
      /\ t.refs = s.refs /\ t.votes = s.votes /\ t.stored = s.stored
  BY DEF Same, Fields
<1>2. \A d : Users(t, d) = Users(s, d)
  BY <1>1, UsersFrame
<1>3. Counted(t) /\ VotesCounted(t)
  BY <1>1, <1>2 DEF CodesSound, Counted, VotesCounted
<1>4. UsersAsked(t) /\ UpgradesAsked(t)
  BY <1>1 DEF CodesSound, UsersAsked, UpgradesAsked
<1>5. UpgradesAnnounced(t, n)
  BY <1>1 DEF CodesSound, UpgradesAnnounced, Without
<1>6. Accepted(t, codes) /\ ReplacedBefore(t, m) /\ Retained(t, m, old)
  BY <1>1 DEF CodesSound, Accepted, ReplacedBefore, Retained
<1> QED BY <1>3, <1>4, <1>5, <1>6 DEF CodesSound

LEMMA ApplyCodes ==
    ASSUME NEW s, NEW index \in Nat, NEW t, Applies(s, t, index), NEW n, NEW m,
           NEW codes, NEW old, CodesSound(s, n, m, codes, old)
    PROVE  CodesSound(t, n, m, codes, old)
<1>1. /\ t.current = s.current /\ t.future = s.future /\ t.past = s.past
      /\ t.meta = s.meta /\ t.upgrade_at = s.upgrade_at /\ t.upcoming = s.upcoming
      /\ t.go_ahead = s.go_ahead /\ t.refs = s.refs /\ t.votes = s.votes /\ t.stored = s.stored
  BY DEF Applies, Same, Fields
<1>2. \A d : Users(t, d) = Users(s, d)
  BY <1>1, UsersFrame
<1>3. Counted(t) /\ VotesCounted(t)
  BY <1>1, <1>2 DEF CodesSound, Counted, VotesCounted
<1>4. UsersAsked(t) /\ UpgradesAsked(t)
  BY <1>1 DEF CodesSound, UsersAsked, UpgradesAsked
<1>5. UpgradesAnnounced(t, n)
  BY <1>1 DEF CodesSound, UpgradesAnnounced
<1>6. Accepted(t, codes)
  <2>1. t.actions \subseteq s.actions /\ s.heads \subseteq t.heads
    BY DEF Applies
  <2>2. \A p \in t.heads : p \in s.heads \/ <<index, p>> \in s.actions
    BY DEF Applies, Initialized, DueParas
  <2> QED BY <1>1, <2>1, <2>2 DEF CodesSound, Accepted
<1>7. ReplacedBefore(t, m) /\ Retained(t, m, old)
  BY <1>1 DEF CodesSound, ReplacedBefore, Retained
<1> QED BY <1>3, <1>4, <1>5, <1>6, <1>7 DEF CodesSound

\* References are given back for users that go.
LEMMA DecreaseExact ==
    ASSUME NEW s, IsStore(s), NEW n \in [Codes -> Nat], NEW t, IsStore(t),
           t.refs = decrease_code_refs(s, n).refs, t.stored = decrease_code_refs(s, n).stored,
           \A c \in Codes : Users(t, c) = Users(s, c) - n[c],
           Counted(s), VotesCounted(s), t.votes = s.votes
    PROVE  Counted(t) /\ VotesCounted(t) /\ t.stored \subseteq s.stored
<1> DEFINE d == decrease_code_refs(s, n)
<1>1. /\ d.refs = [c \in Codes |-> IF n[c] >= s.refs[c] THEN 0 ELSE s.refs[c] - n[c]]
      /\ d.stored = s.stored \ {c \in Codes : 0 < s.refs[c] /\ s.refs[c] <= n[c]}
  BY DecreaseFields DEF IsStore
<1>2. t.refs = d.refs /\ t.stored = d.stored
  OBVIOUS
<1> HIDE DEF d
<1>3. ASSUME NEW c \in Codes
      PROVE  /\ t.refs[c] = Users(t, c) /\ t.refs[c] = s.refs[c] - n[c]
             /\ t.refs[c] \in Nat /\ s.refs[c] \in Nat
             /\ c \in t.stored <=> c \in s.stored /\ ~(0 < s.refs[c] /\ s.refs[c] <= n[c])
             /\ t.refs[c] > 0 => c \in t.stored
             /\ Users(t, c) <= Users(s, c)
  <2>1. /\ t.refs[c] = IF n[c] >= s.refs[c] THEN 0 ELSE s.refs[c] - n[c]
        /\ c \in t.stored <=> c \in s.stored /\ ~(0 < s.refs[c] /\ s.refs[c] <= n[c])
    BY <1>1, <1>2
  <2>2. Users(t, c) \in Nat /\ Users(s, c) \in Nat /\ n[c] \in Nat
    BY UsersFinite
  <2>3. s.refs[c] = Users(s, c) /\ (s.refs[c] > 0 => c \in s.stored)
    BY DEF Counted
  <2>4. Users(t, c) = Users(s, c) - n[c]
    OBVIOUS
  <2> QED BY <2>1, <2>2, <2>3, <2>4
<1>4. Counted(t)
  BY <1>3 DEF Counted
<1>5. VotesCounted(t)
  <2> SUFFICES ASSUME NEW c \in DOMAIN t.votes
               PROVE  Users(t, c) <= Len(t.votes[c].causes) /\ (c \in t.stored => t.refs[c] > 0)
    BY DEF VotesCounted
  <2>1. c \in Codes /\ Len(s.votes[c].causes) \in Nat /\ c \in DOMAIN s.votes
    BY DEF IsStore, StoreOK, IsMap, Vote
  <2>2. Users(s, c) <= Len(s.votes[c].causes) /\ (c \in s.stored => s.refs[c] > 0)
    BY <2>1 DEF VotesCounted
  <2>3. Users(t, c) \in Nat /\ Users(s, c) \in Nat /\ n[c] \in Nat
    BY <2>1, UsersFinite
  <2>4. Users(t, c) <= Len(t.votes[c].causes)
    BY <1>3, <2>1, <2>2, <2>3
  <2>5. c \in t.stored => t.refs[c] > 0
    BY <1>3, <2>1, <2>2, <2>3
  <2> QED BY <2>4, <2>5
<1>6. t.stored \subseteq s.stored
  BY <1>1, <1>2
<1> QED BY <1>4, <1>5, <1>6

\* Paras that are not onboarding are removed at the end of a session.
LEMMA OffboardCodes ==
    ASSUME NEW s, IsStore(s), NEW gone \in SUBSET ParaIds, now \in Nat,
           NEW t, IsStore(t), Offboards(s, t, gone), NEW codes, NEW old,
           \A r \in old : r.para \in ParaIds /\ r.at \in Nat,
           \A p \in gone : p \in DOMAIN s.lifecycles => s.lifecycles[p] # "Onboarding",
           Lifecycles(s), CodesSound(s, now, now, codes, old)
    PROVE  CodesSound(t, now, now + 1, codes, old \union Gone(OldCodes(s, gone)))
<1> DEFINE oc == OldCodes(s, gone)
<1>1. t.votes = s.votes /\ t.actions = s.actions /\ t.heads = s.heads \ gone
  BY DEF Offboards, Same, Fields
<1>2. /\ DOMAIN t.current = DOMAIN s.current \ gone
      /\ \A p \in DOMAIN t.current : t.current[p] = s.current[p]
      /\ DOMAIN t.future = DOMAIN s.future \ gone
      /\ \A p \in DOMAIN t.future : t.future[p] = s.future[p]
      /\ DOMAIN t.upgrade_at = DOMAIN s.upgrade_at \ gone
      /\ \A p \in DOMAIN t.upgrade_at : t.upgrade_at[p] = s.upgrade_at[p]
      /\ DOMAIN t.go_ahead = DOMAIN s.go_ahead \ gone
      /\ \A p \in DOMAIN t.go_ahead : t.go_ahead[p] = s.go_ahead[p]
  BY DEF Offboards, Without
<1>3. \A p \in ParaIds, k \in Nat : <<p, k>> \in t.upcoming <=> <<p, k>> \in s.upcoming /\ p \notin gone
  BY DEF Offboards
<1>4. /\ DOMAIN oc = gone \intersect DOMAIN s.current /\ \A p \in DOMAIN oc : oc[p] = s.current[p]
      /\ PastNoted(s, t, oc, now)
  BY DEF Offboards, OldCodes
<1>5. \A k \in DOMAIN s.past : k[2] < now /\ k[2] \in Nat
  BY DEF CodesSound, ReplacedBefore, IsStore, StoreOK, IsMap
<1>6. ASSUME NEW p \in ParaIds, NEW i \in DOMAIN s.meta[p]
      PROVE  s.meta[p][i].expected_at \in Nat /\ s.meta[p][i].expected_at < now
  <2>1. s.meta[p][i] \in ReplacementTimes
    BY DEF IsStore, StoreOK, IsMap
  <2> QED BY <2>1 DEF CodesSound, ReplacedBefore, ReplacementTimes
<1>7. Counted(t) /\ VotesCounted(t) /\ t.stored \subseteq s.stored
  <2> DEFINE n == FutureRefs(s, gone)
  <2>1. n \in [Codes -> Nat]
    BY FutureRefsType
  <2>2. t.refs = decrease_code_refs(s, n).refs /\ t.stored = decrease_code_refs(s, n).stored
    BY DEF Offboards
  <2>3. \A c \in Codes : Users(t, c) = Users(s, c) - n[c]
    BY <1>5, OffboardUsers
  <2> HIDE DEF n
  <2>4. Counted(s) /\ VotesCounted(s)
    BY DEF CodesSound
  <2> QED BY <1>1, <2>1, <2>2, <2>3, <2>4, DecreaseExact
<1> HIDE DEF oc
<1>8. ASSUME NEW d \in DOMAIN s.votes, NEW p \in DOMAIN oc PROVE oc[p] # d
  <2> SUFFICES ASSUME s.current[p] = d PROVE FALSE
    BY <1>4
  <2>1. p \in ParasIn(s.votes[d].causes, "onboarding")
    BY <1>4 DEF CodesSound, UsersAsked
  <2> QED BY <1>4, <2>1 DEF Lifecycles, OnboardingAsked
<1>9. UsersAsked(t)
  <2> SUFFICES ASSUME NEW d \in DOMAIN s.votes
               PROVE  /\ \A q \in DOMAIN t.current :
                            t.current[q] = d => q \in ParasIn(s.votes[d].causes, "onboarding")
                      /\ \A q \in DOMAIN t.future :
                            t.future[q] = d => q \in ParasIn(s.votes[d].causes, "upgrade")
                      /\ \A k \in DOMAIN t.past : t.past[k] # d
    BY <1>1 DEF UsersAsked
  <2>1. /\ \A q \in DOMAIN t.current :
                            t.current[q] = d => q \in ParasIn(s.votes[d].causes, "onboarding")
        /\ \A q \in DOMAIN t.future :
                            t.future[q] = d => q \in ParasIn(s.votes[d].causes, "upgrade")
    BY <1>2 DEF CodesSound, UsersAsked
  <2>2. ASSUME NEW k \in DOMAIN t.past PROVE t.past[k] # d
    <3>1. CASE k \in (DOMAIN oc) \X {now}
      <4>1. PICK p \in DOMAIN oc : k = <<p, now>>
        BY <3>1
      <4> QED BY <1>4, <1>8, <4>1 DEF PastNoted
    <3>2. CASE k \notin (DOMAIN oc) \X {now}
      BY <1>4, <3>2 DEF PastNoted, CodesSound, UsersAsked
    <3> QED BY <3>1, <3>2
  <2> QED BY <2>1, <2>2
<1>10. UpgradesAsked(t)
  BY <1>1, <1>2 DEF CodesSound, UpgradesAsked
<1>11. UpgradesAnnounced(t, now)
  <2>1. ASSUME NEW q \in DOMAIN t.upgrade_at
        PROVE  /\ q \in DOMAIN t.future
               /\ t.upgrade_at[q] > now => <<q, t.upgrade_at[q]>> \in t.upcoming
               /\ t.upgrade_at[q] <= now => q \in DOMAIN t.go_ahead /\ t.go_ahead[q] = "GoAhead"
    <3>1. q \in DOMAIN s.upgrade_at /\ q \notin gone /\ t.upgrade_at[q] = s.upgrade_at[q]
      BY <1>2
    <3>2. q \in ParaIds /\ s.upgrade_at[q] \in Nat
      BY <3>1 DEF IsStore, StoreOK, IsMap
    <3>3. /\ q \in DOMAIN s.future
          /\ s.upgrade_at[q] > now => <<q, s.upgrade_at[q]>> \in s.upcoming
          /\ s.upgrade_at[q] <= now => q \in DOMAIN s.go_ahead /\ s.go_ahead[q] = "GoAhead"
      BY <3>1 DEF CodesSound, UpgradesAnnounced
    <3> QED BY <1>2, <1>3, <3>1, <3>2, <3>3
  <2>2. \A q \in DOMAIN t.go_ahead : t.go_ahead[q] = "GoAhead" => q \in DOMAIN t.upgrade_at
    BY <1>2 DEF CodesSound, UpgradesAnnounced
  <2>3. \A q \in ParaIds, k \in Nat : <<q, k>> \in t.upcoming =>
          q \in DOMAIN t.upgrade_at /\ t.upgrade_at[q] = k /\ k > now
    BY <1>2, <1>3 DEF CodesSound, UpgradesAnnounced
  <2> QED BY <2>1, <2>2, <2>3 DEF UpgradesAnnounced
<1>12. Accepted(t, codes)
  <2>1. \A q \in DOMAIN t.current \intersect t.heads : t.current[q] \in codes
    BY <1>1, <1>2 DEF CodesSound, Accepted
  <2>2. \A q \in DOMAIN t.upgrade_at \intersect DOMAIN t.future : t.future[q] \in codes
    BY <1>2 DEF CodesSound, Accepted
  <2>3. \A k \in Nat, q \in DOMAIN t.current \ t.heads :
           <<k, q>> \in t.actions => t.current[q] \in codes
    BY <1>1, <1>2 DEF CodesSound, Accepted
  <2>4. t.stored \ DOMAIN t.votes \subseteq codes
    BY <1>1, <1>7 DEF CodesSound, Accepted
  <2> QED BY <2>1, <2>2, <2>3, <2>4 DEF Accepted
<1>13. ReplacedBefore(t, now + 1)
  <2>1. ASSUME NEW k \in DOMAIN t.past
        PROVE  k[2] < now + 1 /\ (k[1] \in DOMAIN t.upgrade_at => k[2] < t.upgrade_at[k[1]])
    <3>1. CASE k \in (DOMAIN oc) \X {now}
      BY <1>2, <1>4, <3>1
    <3>2. CASE k \in DOMAIN s.past
      <4>1. k[2] < now + 1
        BY <1>5, <3>2
      <4> QED BY <1>2, <3>2, <4>1 DEF CodesSound, ReplacedBefore
    <3> QED BY <1>4, <3>1, <3>2 DEF PastNoted
  <2>2. ASSUME NEW q \in ParaIds, NEW i \in DOMAIN t.meta[q]
        PROVE  /\ t.meta[q][i].expected_at < now + 1
               /\ q \in DOMAIN t.upgrade_at => t.meta[q][i].expected_at < t.upgrade_at[q]
    <3>1. CASE i \in DOMAIN s.meta[q] /\ t.meta[q][i] = s.meta[q][i]
      <4>1. t.meta[q][i].expected_at < now + 1
        BY <1>6, <3>1
      <4> QED BY <1>2, <3>1, <4>1 DEF CodesSound, ReplacedBefore
    <3>2. CASE q \in DOMAIN oc /\ t.meta[q][i].expected_at = now
      BY <1>2, <1>4, <3>2
    <3> QED BY <1>4, <3>1, <3>2 DEF PastNoted
  <2> QED BY <2>1, <2>2 DEF ReplacedBefore
<1>14. Retained(t, now + 1, old \union Gone(oc))
  <2>1. Retained(s, now + 1, old)
    <3>1. \A r \in old : now + 1 <= r.at + Retention => now <= r.at + Retention
      <4> SUFFICES ASSUME NEW r \in old, now + 1 <= r.at + Retention PROVE now <= r.at + Retention
        OBVIOUS
      <4>1. r.at \in Nat /\ Retention \in Nat
        BY ParasAssumption
      <4> QED BY <4>1
    <3> QED BY <3>1 DEF CodesSound, Retained
  <2>2. DOMAIN oc \subseteq ParaIds
    BY <1>4
  <2>3. ASSUME NEW p \in DOMAIN oc PROVE <<p, now>> \notin DOMAIN s.past
    BY <1>5
  <2>4. ASSUME NEW p \in DOMAIN oc, NEW i \in DOMAIN s.meta[p]
        PROVE  s.meta[p][i].expected_at # now
    BY <1>6, <2>2
  <2> QED BY <1>4, <2>1, <2>2, <2>3, <2>4, RetainedNoted
<1> QED BY <1>7, <1>9, <1>10, <1>11, <1>12, <1>13, <1>14 DEF CodesSound, oc

\* Past code is pruned when its retention period is over.
LEMMA PruneCodes ==
    ASSUME NEW s, IsStore(s), NEW n \in Nat, NEW m \in Nat, NEW t, t = prune_old_code(s, n),
           IsStore(t), NEW codes, NEW old, \A r \in old : r.para \in ParaIds /\ r.at \in Nat,
           CodesSound(s, m, n, codes, old)
    PROVE  CodesSound(t, m, n, codes, old)
<1>1. CASE n <= Retention
  <2>1. t = s
    BY <1>1 DEF prune_old_code
  <2> QED BY <2>1
<1>2. CASE ~(n <= Retention)
  <2> DEFINE keys == PrunedKeys(s, n)
             height == n - (Retention + 1)
  <2>1. Prunes(s, t, n)
    BY <1>2, PrunesIs
  <2>2. /\ t.current = s.current /\ t.future = s.future /\ t.upgrade_at = s.upgrade_at
        /\ t.upcoming = s.upcoming /\ t.go_ahead = s.go_ahead /\ t.heads = s.heads
        /\ t.actions = s.actions /\ t.votes = s.votes
    BY <2>1 DEF Prunes, Same, Fields
  <2>3. /\ DOMAIN t.past = DOMAIN s.past \ keys /\ \A k \in DOMAIN t.past : t.past[k] = s.past[k]
    BY <2>1 DEF Prunes, Without
  <2>4. \A p \in ParaIds : \A i \in DOMAIN t.meta[p] : \E j \in DOMAIN s.meta[p] :
           t.meta[p][i] = s.meta[p][j]
    BY <2>1 DEF Prunes
  <2>5. Counted(t) /\ VotesCounted(t) /\ t.stored \subseteq s.stored
    <3> DEFINE f == Freed(s, n)
    <3>1. f \in [Codes -> Nat]
      BY FreedType
    <3>2. t.refs = decrease_code_refs(s, f).refs /\ t.stored = decrease_code_refs(s, f).stored
      BY <2>1 DEF Prunes
    <3>3. \A c \in Codes : Users(t, c) = Users(s, c) - f[c]
      BY <2>1, PruneUsers
    <3> HIDE DEF f
    <3>4. Counted(s) /\ VotesCounted(s)
      BY DEF CodesSound
    <3> QED BY <2>2, <3>1, <3>2, <3>3, <3>4, DecreaseExact
  <2>6. ASSUME NEW k \in keys
        PROVE  \E i \in DOMAIN s.meta[k[1]] : /\ s.meta[k[1]][i].expected_at = k[2]
                                              /\ s.meta[k[1]][i].activated_at <= height
    <3>1. PICK i \in Obsolete(s, k[1], height) : s.meta[k[1]][i].expected_at = k[2]
      BY DEF PrunedKeys, Prunable
    <3>2. k[1] \in ParaIds
      BY DEF PrunedKeys, Prunable, IsStore, StoreOK, IsMap
    <3>3. s.meta[k[1]] \in Seq(ReplacementTimes)
      BY <3>2 DEF IsStore, StoreOK, IsMap
    <3>4. i \in DOMAIN s.meta[k[1]] /\ \A j \in 1..i : s.meta[k[1]][j].activated_at <= height
      BY <3>1 DEF Obsolete
    <3>5. i \in 1..i
      BY <3>3, <3>4
    <3> QED BY <3>1, <3>4, <3>5
  <2> HIDE DEF keys
  <2>7. UsersAsked(t) /\ UpgradesAsked(t)
    BY <2>2, <2>3 DEF CodesSound, UsersAsked, UpgradesAsked
  <2>8. UpgradesAnnounced(t, m)
    BY <2>2 DEF CodesSound, UpgradesAnnounced
  <2>9. Accepted(t, codes)
    BY <2>2, <2>5 DEF CodesSound, Accepted
  <2>10. ReplacedBefore(t, n)
    <3>1. ASSUME NEW q \in ParaIds, NEW i \in DOMAIN t.meta[q]
          PROVE  /\ t.meta[q][i].expected_at < n
                 /\ q \in DOMAIN t.upgrade_at => t.meta[q][i].expected_at < t.upgrade_at[q]
      <4>1. PICK j \in DOMAIN s.meta[q] : t.meta[q][i] = s.meta[q][j]
        BY <2>4
      <4> QED BY <2>2, <4>1 DEF CodesSound, ReplacedBefore
    <3>2. \A k \in DOMAIN t.past :
             k[2] < n /\ (k[1] \in DOMAIN t.upgrade_at => k[2] < t.upgrade_at[k[1]])
      BY <2>2, <2>3 DEF CodesSound, ReplacedBefore
    <3> QED BY <3>1, <3>2 DEF ReplacedBefore
  <2>11. Retained(t, n, old)
    <3> SUFFICES ASSUME NEW r \in old, n <= r.at + Retention
                 PROVE  \E k \in DOMAIN t.past :
                           /\ k[1] = r.para /\ t.past[k] = r.code
                           /\ \A i \in DOMAIN t.meta[r.para] :
                                 t.meta[r.para][i].expected_at = k[2] =>
                                    r.at <= t.meta[r.para][i].activated_at
      BY DEF Retained
    <3>1. PICK k \in DOMAIN s.past :
             /\ k[1] = r.para /\ s.past[k] = r.code
             /\ \A i \in DOMAIN s.meta[r.para] :
                   s.meta[r.para][i].expected_at = k[2] => r.at <= s.meta[r.para][i].activated_at
      BY DEF CodesSound, Retained
    <3>2. k \notin keys
      <4> SUFFICES ASSUME k \in keys PROVE FALSE
        OBVIOUS
      <4>1. PICK i \in DOMAIN s.meta[r.para] : /\ s.meta[r.para][i].expected_at = k[2]
                                               /\ s.meta[r.para][i].activated_at <= height
        BY <2>6, <3>1
      <4>2. r.at <= s.meta[r.para][i].activated_at
        BY <3>1, <4>1
      <4>3. s.meta[r.para][i] \in ReplacementTimes /\ r.at \in Nat
        BY DEF IsStore, StoreOK, IsMap
      <4>4. s.meta[r.para][i].activated_at \in Nat
        BY <4>3 DEF ReplacementTimes
      <4>5. Retention \in Nat
        BY ParasAssumption
      <4> QED BY <4>1, <4>2, <4>3, <4>4, <4>5
    <3>3. ASSUME NEW i \in DOMAIN t.meta[r.para], t.meta[r.para][i].expected_at = k[2]
          PROVE  r.at <= t.meta[r.para][i].activated_at
      BY <2>4, <3>1, <3>3
    <3> QED BY <2>3, <3>1, <3>2, <3>3
  <2> QED BY <2>5, <2>7, <2>8, <2>9, <2>10, <2>11 DEF CodesSound
<1> QED BY <1>1, <1>2

\* The upgrades that are due are announced.
LEMMA AnnounceCodes ==
    ASSUME NEW s, IsStore(s), NEW n \in Nat, NEW t, Announces(s, t, n + 1), NEW m,
           NEW codes, NEW old, CodesSound(s, n, m, codes, old)
    PROVE  CodesSound(t, n + 1, m, codes, old)
<1>1. /\ t.current = s.current /\ t.future = s.future /\ t.past = s.past /\ t.meta = s.meta
      /\ t.upgrade_at = s.upgrade_at /\ t.heads = s.heads /\ t.actions = s.actions
      /\ t.refs = s.refs /\ t.votes = s.votes /\ t.stored = s.stored
  BY DEF Announces, Same, Fields
<1>2. \A d : Users(t, d) = Users(s, d)
  BY <1>1, UsersFrame
<1>3. Counted(t) /\ VotesCounted(t)
  BY <1>1, <1>2 DEF CodesSound, Counted, VotesCounted
<1>4. UsersAsked(t) /\ UpgradesAsked(t)
  BY <1>1 DEF CodesSound, UsersAsked, UpgradesAsked
<1>5. UpgradesAnnounced(t, n + 1)
  <2>1. \A p \in ParaIds, k \in Nat :
           <<p, k>> \in t.upcoming <=> <<p, k>> \in s.upcoming /\ ~(k <= n + 1)
    BY DEF Announces, DueUpgrades
  <2>2. \A p \in ParaIds, k \in Nat : <<p, k>> \in s.upcoming /\ k <= n + 1 => p \in Announced(s, n + 1)
    <3> SUFFICES ASSUME NEW p \in ParaIds, NEW k \in Nat, <<p, k>> \in s.upcoming, k <= n + 1
                 PROVE  p \in Announced(s, n + 1)
      OBVIOUS
    <3>1. <<p, k>> \in DueUpgrades(s, n + 1)
      BY DEF DueUpgrades
    <3>2. <<p, k>>[1] = p
      OBVIOUS
    <3> QED BY <3>1, <3>2 DEF Announced
  <2>3. \A p \in Announced(s, n + 1) : p \in DOMAIN s.upgrade_at
    <3> SUFFICES ASSUME NEW p \in Announced(s, n + 1) PROVE p \in DOMAIN s.upgrade_at
      OBVIOUS
    <3>1. PICK u \in s.upcoming : u[1] = p
      BY DEF Announced, DueUpgrades
    <3>2. u \in ParaIds \X Nat
      BY DEF IsStore, StoreOK
    <3>3. u = <<u[1], u[2]>> /\ u[1] \in ParaIds /\ u[2] \in Nat
      BY <3>2
    <3>4. <<u[1], u[2]>> \in s.upcoming
      BY <3>3
    <3> QED BY <3>1, <3>3, <3>4 DEF CodesSound, UpgradesAnnounced
  <2>4. /\ DOMAIN t.go_ahead = DOMAIN s.go_ahead \union Announced(s, n + 1)
        /\ \A p \in Announced(s, n + 1) : t.go_ahead[p] = "GoAhead"
        /\ \A p \in DOMAIN s.go_ahead : p \notin Announced(s, n + 1) =>
              t.go_ahead[p] = s.go_ahead[p]
    BY DEF Announces
  <2>5. ASSUME NEW p \in DOMAIN t.upgrade_at
        PROVE  /\ p \in DOMAIN t.future
               /\ t.upgrade_at[p] > n + 1 => <<p, t.upgrade_at[p]>> \in t.upcoming
               /\ t.upgrade_at[p] <= n + 1 => p \in DOMAIN t.go_ahead /\ t.go_ahead[p] = "GoAhead"
    <3> DEFINE x == t.upgrade_at[p]
    <3>1. p \in ParaIds /\ x \in Nat
      BY <1>1 DEF IsStore, StoreOK, IsMap
    <3>2. /\ p \in DOMAIN s.future
          /\ x > n => <<p, x>> \in s.upcoming
          /\ x <= n => p \in DOMAIN s.go_ahead /\ s.go_ahead[p] = "GoAhead"
      BY <1>1 DEF CodesSound, UpgradesAnnounced
    <3> HIDE DEF x
    <3>3. x > n + 1 => <<p, x>> \in t.upcoming
      BY <2>1, <3>1, <3>2
    <3>4. x <= n + 1 => p \in DOMAIN t.go_ahead /\ t.go_ahead[p] = "GoAhead"
      <4>1. CASE p \in Announced(s, n + 1)
        BY <2>4, <4>1
      <4>2. CASE p \notin Announced(s, n + 1) /\ x <= n + 1
        <5>1. ~(x > n)
          BY <2>2, <3>1, <3>2, <4>2
        <5> QED BY <2>4, <3>1, <3>2, <4>2, <5>1
      <4> QED BY <4>1, <4>2
    <3> QED BY <1>1, <3>2, <3>3, <3>4 DEF x
  <2>6. \A p \in DOMAIN t.go_ahead : t.go_ahead[p] = "GoAhead" => p \in DOMAIN t.upgrade_at
    BY <1>1, <2>3, <2>4 DEF CodesSound, UpgradesAnnounced
  <2>7. ASSUME NEW p \in ParaIds, NEW k \in Nat, <<p, k>> \in t.upcoming
        PROVE  p \in DOMAIN t.upgrade_at /\ t.upgrade_at[p] = k /\ k > n + 1
    BY <1>1, <2>1, <2>7 DEF CodesSound, UpgradesAnnounced
  <2> QED BY <2>5, <2>6, <2>7 DEF UpgradesAnnounced
<1>6. Accepted(t, codes) /\ ReplacedBefore(t, m) /\ Retained(t, m, old)
  BY <1>1 DEF CodesSound, Accepted, ReplacedBefore, Retained
<1> QED BY <1>3, <1>4, <1>5, <1>6 DEF CodesSound

-----------------------------------------------------------------------------
(* The steps.                                                              *)

\* What a step takes out of use.
LEMMA ReplacesType ==
    ASSUME TypeOK, NEW s
    PROVE  \A r \in Replaces(s) : r.para \in ParaIds /\ r.code \in Codes /\ r.at \in Nat
<1> SUFFICES ASSUME NEW r \in Replaces(s), r \notin replaced
             PROVE  r.para \in ParaIds /\ r.code \in Codes /\ r.at \in Nat
  BY DEF TypeOK
<1>1. PICK p \in DOMAIN st.current : r = [para |-> p, code |-> st.current[p], at |-> now]
  BY DEF Replaces
<1> QED BY <1>1 DEF TypeOK, StoreOK, IsMap

LEMMA ReplacesNothing ==
    ASSUME NEW s, \A p \in DOMAIN st.current \intersect st.heads :
                     p \in DOMAIN s.current /\ s.current[p] = st.current[p]
    PROVE  Replaces(s) = replaced
BY DEF Replaces, GetOr

LEMMA ReplacesGone ==
    ASSUME NEW s, NEW old, \A p \in DOMAIN old : p \in DOMAIN st.current /\ old[p] = st.current[p],
           \A p \in DOMAIN st.current \intersect st.heads :
              p \in DOMAIN old \/ (p \in DOMAIN s.current /\ s.current[p] = st.current[p])
    PROVE  Replaces(s) \subseteq replaced \union Gone(old)
<1> SUFFICES ASSUME NEW r \in Replaces(s), r \notin replaced PROVE r \in Gone(old)
  OBVIOUS
<1>1. PICK p \in DOMAIN st.current \intersect st.heads :
         /\ GetOr(s.current, p, NoCode) # st.current[p]
         /\ r = [para |-> p, code |-> st.current[p], at |-> now]
  BY DEF Replaces
<1>2. p \in DOMAIN old /\ old[p] = st.current[p]
  BY <1>1 DEF GetOr
<1> QED BY <1>1, <1>2 DEF Gone

LEMMA CodesSubset ==
    ASSUME NEW s, NEW n, NEW m, NEW codes, NEW old, NEW less, less \subseteq old,
           CodesSound(s, n, m, codes, old)
    PROVE  CodesSound(s, n, m, codes, less)
BY RetainedSubset DEF CodesSound

\* What a call has to show of the storage that it leaves.
LEMMA CallKeeps ==
    ASSUME IInv, NEW s, Called(s), UNCHANGED forced, IsStore(s), NeverStuck(s, session),
           accepted' \subseteq Codes,
           ~forced => Lifecycles(s) /\ s.heads = st.heads,
           Undisturbed =>
              /\ CodesSound(s, now, now, accepted', replaced) /\ ~Outlives(s)
              /\ \A p \in DOMAIN st.current \intersect st.heads :
                    p \in DOMAIN s.current /\ s.current[p] = st.current[p]
    PROVE  IInv'
<1>1. /\ st' = s /\ calls' = calls + 1 /\ calls < CallsPerBlock /\ replaced' = Replaces(s)
      /\ now' = now /\ session' = session /\ pending' = pending /\ outlived' = outlived
      /\ forced' = forced
  BY DEF Called
<1>2. TypeOK'
  <2>1. \A r \in replaced' : r.para \in ParaIds /\ r.code \in Codes /\ r.at \in Nat
    BY <1>1, ReplacesType DEF IInv
  <2>2. StoreOK(st')
    BY <1>1 DEF IsStore
  <2>3. calls' \in 0..CallsPerBlock
    BY <1>1, ParasAssumption DEF IInv, TypeOK
  <2> QED BY <1>1, <2>1, <2>2, <2>3 DEF IInv, TypeOK
<1>3. Undisturbed => replaced' = replaced
  BY <1>1, ReplacesNothing
<1> QED BY <1>1, <1>2, <1>3 DEF IInv, Undisturbed

\* After a forced change only types and transitions are of concern.
LEMMA ForceKeeps ==
    ASSUME IInv, NEW s, Forces(s), IsStore(s), NeverStuck(s, session), accepted' \subseteq Codes
    PROVE  IInv'
<1>1. /\ st' = s /\ calls' = calls + 1 /\ calls < CallsPerBlock /\ replaced' = Replaces(s)
      /\ now' = now /\ session' = session /\ pending' = pending /\ outlived' = outlived
      /\ forced' = TRUE
  BY DEF Called, Forces
<1>2. TypeOK'
  <2>1. \A r \in replaced' : r.para \in ParaIds /\ r.code \in Codes /\ r.at \in Nat
    BY <1>1, ReplacesType DEF IInv
  <2>2. StoreOK(st')
    BY <1>1 DEF IsStore
  <2>3. calls' \in 0..CallsPerBlock
    BY <1>1, ParasAssumption DEF IInv, TypeOK
  <2> QED BY <1>1, <2>1, <2>2, <2>3 DEF IInv, TypeOK
<1> QED BY <1>1, <1>2 DEF IInv, Undisturbed

LEMMA BackKeeps ==
    ASSUME IInv, NEW p \in ParaIds, NEW c \in Codes \union {NoCode}, Back(p, c)
    PROVE  IInv'
<1>1. /\ p \in st.heads
      /\ pending' = Put(pending, p, [relay_parent |-> now - 1, code |-> c])
      /\ now' = now /\ session' = session /\ calls' = calls /\ st' = st
      /\ accepted' = accepted /\ replaced' = replaced /\ forced' = forced /\ outlived' = outlived
  BY DEF Back
<1>2. now - 1 \in Nat /\ now - 1 < now /\ IsMap(pending, ParaIds, [relay_parent : Nat, code : Codes \union {NoCode}])
  BY DEF IInv, TypeOK
<1>3. IsMap(pending', ParaIds, [relay_parent : Nat, code : Codes \union {NoCode}])
  BY <1>1, <1>2 DEF IsMap, Put
<1>4. TypeOK'
  BY <1>1, <1>3 DEF IInv, TypeOK
<1>5. ASSUME ~forced
      PROVE  /\ DOMAIN pending' \subseteq st.heads
             /\ \A q \in DOMAIN pending' : pending'[q].relay_parent < now
  BY <1>1, <1>2, <1>5 DEF IInv, Put
<1> QED BY <1>1, <1>4, <1>5 DEF IInv, Undisturbed

LEMMA OnboardNeverStuck ==
    ASSUME NEW s, NEW p \in ParaIds, NEW c \in Codes, NEW t, Onboards(s, t, p, c),
           NeverStuck(s, session)
    PROVE  NeverStuck(t, session)
<1>1. /\ DOMAIN t.lifecycles = DOMAIN s.lifecycles \union {p} /\ t.lifecycles[p] = "Onboarding"
      /\ \A q \in DOMAIN s.lifecycles : q # p => t.lifecycles[q] = s.lifecycles[q]
      /\ DOMAIN t.genesis = DOMAIN s.genesis \union {p}
  BY DEF Onboards, Put
<1>2. s.actions \subseteq t.actions /\ AskedBy(s.votes, "onboarding") \subseteq AskedBy(t.votes, "onboarding")
      /\ \/ p \in AskedBy(t.votes, "onboarding")
         \/ <<session + 1, p>> \in t.actions \/ <<session + 2, p>> \in t.actions
  <2>1. CASE FastTracked(s, c)
    BY <2>1 DEF Onboards, QueuedOnce
  <2>2. CASE ~FastTracked(s, c)
    <3>1. t.actions = s.actions /\ MoreAsked(s.votes, t.votes, c, Onboarding(p))
      BY <2>2 DEF Onboards
    <3>2. p \in ParasIn(t.votes[c].causes, "onboarding") /\ c \in DOMAIN t.votes
      BY <3>1, VoteTypes DEF MoreAsked
    <3>3. ASSUME NEW q \in AskedBy(s.votes, "onboarding") PROVE q \in AskedBy(t.votes, "onboarding")
      <4>1. PICK d \in DOMAIN s.votes : q \in ParasIn(s.votes[d].causes, "onboarding")
        BY AskedByIs
      <4>2. d \in DOMAIN t.votes /\ q \in ParasIn(t.votes[d].causes, "onboarding")
        BY <3>1, <4>1 DEF MoreAsked
      <4> QED BY <4>2, AskedByIs
    <3> QED BY <3>1, <3>2, <3>3, AskedByIs
  <2> QED BY <2>1, <2>2
<1> QED BY <1>1, <1>2 DEF NeverStuck

\* Codes that need no vote have been accepted.
LEMMA FastTracksAccounts ==
    ASSUME NEW s, NEW n, NEW m, NEW old, CodesSound(s, n, m, accepted, old), NEW c
    PROVE  Accounts(s, c, accepted, FastTracks(c))
BY DEF Accounts, FastTracks, FastTracked, CodesSound, Accepted

LEMMA InitializeKeeps ==
    ASSUME IInv, NEW p \in ParaIds, NEW c \in Codes, NEW chain \in BOOLEAN,
           schedule_para_initialize(p, c, chain)
    PROVE  IInv'
<1> DEFINE t == kick_off_pvf_check(Registering(st, p, c, chain), Onboarding(p), c)
<1>1. p \notin DOMAIN st.lifecycles /\ Called(t) /\ UNCHANGED forced /\ accepted' = FastTracks(c)
  BY DEF schedule_para_initialize, Registering
<1>2. now \in Nat /\ session \in Nat /\ IsStore(st) /\ accepted \subseteq Codes
  BY DEF IInv, TypeOK
<1>3. IsStore(t) /\ Onboards(st, t, p, c)
  BY <1>2, OnboardsIs
<1> HIDE DEF t
<1>4. NeverStuck(t, session)
  BY <1>3, OnboardNeverStuck DEF IInv
<1>5. accepted' \subseteq Codes
  BY <1>1, <1>2 DEF FastTracks
<1>6. ASSUME ~forced PROVE Lifecycles(t) /\ t.heads = st.heads
  <2>1. Lifecycles(st)
    BY <1>6 DEF IInv
  <2> QED BY <1>1, <1>2, <1>3, <2>1, OnboardLifecycles DEF Onboards, Same, Fields
<1>7. ASSUME Undisturbed
      PROVE  /\ CodesSound(t, now, now, accepted', replaced) /\ ~Outlives(t)
             /\ \A q \in DOMAIN st.current \intersect st.heads :
                   q \in DOMAIN t.current /\ t.current[q] = st.current[q]
  <2>1. /\ Lifecycles(st) /\ CodesSound(st, now, now, accepted, replaced) /\ ~Outlives(st)
    BY <1>7 DEF IInv, Undisturbed
  <2>2. Accounts(st, c, accepted, accepted')
    BY <1>1, <2>1, FastTracksAccounts
  <2>3. CodesSound(t, now, now, accepted', replaced) /\ ~Outlives(t)
    BY <1>1, <1>2, <1>3, <2>1, <2>2, OnboardCodes
  <2>4. p \notin DOMAIN st.current /\ t.current = Put(st.current, p, c)
    BY <1>1, <1>3, <2>1 DEF Lifecycles, Registered, Onboards
  <2> QED BY <2>3, <2>4 DEF Put
<1> QED BY <1>1, <1>3, <1>4, <1>5, <1>6, <1>7, CallKeeps

\* A stable para is queued for a transition.
LEMMA ScheduledKeeps ==
    ASSUME IInv, NEW p \in DOMAIN st.lifecycles, is_stable(st.lifecycles[p]),
           NEW l \in LifecycleNames, ~is_stable(l), l # "Onboarding",
           is_parachain(l) <=> is_parachain(st.lifecycles[p]), Scheduled(p, l)
    PROVE  IInv'
<1> DEFINE t == [st EXCEPT !.lifecycles[p] = l, !.actions = @ \union {<<scheduled_session, p>>}]
<1>1. Called(t) /\ UNCHANGED forced /\ accepted' = accepted
  BY DEF Scheduled
<1>2. session \in Nat /\ IsStore(st) /\ accepted \subseteq Codes /\ p \in ParaIds
  BY DEF IInv, TypeOK, StoreOK, IsMap
<1>3. /\ Shape(t) /\ Same(st, t, {"lifecycles", "actions"})
      /\ t.lifecycles = [st.lifecycles EXCEPT ![p] = l]
      /\ t.actions = st.actions \union {<<session + 2, p>>}
  BY <1>2 DEF IsStore, Shape, Fields, Same, scheduled_session, SESSION_DELAY
<1> HIDE DEF t
<1>4. /\ DOMAIN t.lifecycles = DOMAIN st.lifecycles /\ t.lifecycles[p] = l
      /\ \A q \in DOMAIN st.lifecycles : q # p => t.lifecycles[q] = st.lifecycles[q]
  BY <1>3
<1>5. IsStore(t)
  <2>1. IsMap(t.lifecycles, ParaIds, LifecycleNames)
    BY <1>2, <1>4 DEF IsStore, StoreOK, IsMap
  <2>2. t.actions \subseteq Nat \X ParaIds
    BY <1>2, <1>3 DEF IsStore, StoreOK
  <2> QED BY <1>2, <1>3, <2>1, <2>2 DEF IsStore, StoreOK, Same, Fields
<1>6. t.votes = st.votes /\ t.genesis = st.genesis /\ t.parachains = st.parachains
      /\ t.heads = st.heads /\ t.current = st.current /\ t.future = st.future
  BY <1>3 DEF Same, Fields
<1>7. NeverStuck(t, session)
  BY <1>3, <1>4, <1>6 DEF IInv, NeverStuck
<1>8. ASSUME ~forced PROVE Lifecycles(t) /\ t.heads = st.heads /\ p \in st.heads
  <2>1. Registered(st) /\ OnboardingAsked(st) /\ ActionsSound(st)
    BY <1>8 DEF IInv, Lifecycles
  <2>2. st.lifecycles[p] # "Onboarding"
    BY DEF is_stable
  <2>3. Registered(t) /\ p \in st.heads
    BY <1>4, <1>6, <2>1, <2>2 DEF Registered
  <2>4. OnboardingAsked(t)
    <3> SUFFICES ASSUME NEW d \in DOMAIN st.votes,
                        NEW q \in ParasIn(st.votes[d].causes, "onboarding")
                 PROVE  /\ q \in DOMAIN t.lifecycles /\ t.lifecycles[q] = "Onboarding"
                        /\ q \in DOMAIN t.current /\ t.current[q] = d
                        /\ \A m \in Nat : <<m, q>> \notin t.actions
      BY <1>6 DEF OnboardingAsked
    <3>1. /\ q \in DOMAIN st.lifecycles /\ st.lifecycles[q] = "Onboarding"
          /\ q \in DOMAIN st.current /\ st.current[q] = d
          /\ \A m \in Nat : <<m, q>> \notin st.actions
      BY <2>1 DEF OnboardingAsked
    <3>2. q # p
      BY <2>2, <3>1
    <3> QED BY <1>3, <1>4, <1>6, <3>1, <3>2
  <2>5. \A m \in Nat : <<m, p>> \notin st.actions
    BY <1>2, <2>1 DEF ActionsSound
  <2>6. ActionsSound(t)
    <3> SUFFICES ASSUME NEW m \in Nat, NEW q \in ParaIds, <<m, q>> \in t.actions
                 PROVE  /\ q \in DOMAIN t.lifecycles /\ ~is_stable(t.lifecycles[q])
                        /\ \A k \in Nat : <<k, q>> \in t.actions => k = m
      BY DEF ActionsSound
    <3>1. CASE q = p
      BY <1>3, <1>4, <2>5, <3>1
    <3>2. CASE q # p
      <4>1. \A k \in Nat : <<k, q>> \in t.actions => <<k, q>> \in st.actions
        BY <1>3, <3>2
      <4> QED BY <1>4, <2>1, <3>2, <4>1 DEF ActionsSound
    <3> QED BY <3>1, <3>2
  <2> QED BY <1>6, <2>3, <2>4, <2>6 DEF Lifecycles
<1>9. ASSUME Undisturbed
      PROVE  /\ CodesSound(t, now, now, accepted', replaced) /\ ~Outlives(t)
             /\ \A q \in DOMAIN st.current \intersect st.heads :
                   q \in DOMAIN t.current /\ t.current[q] = st.current[q]
  <2>1. /\ CodesSound(st, now, now, accepted, replaced) /\ ~Outlives(st) /\ p \in st.heads
    BY <1>8, <1>9 DEF IInv, Undisturbed
  <2>2. CodesSound(t, now, now, accepted, replaced)
    BY <1>3, <2>1, QueueCodes
  <2>3. SameCauses(st, t)
    BY <1>6 DEF SameCauses
  <2>4. ~Outlives(t)
    BY <1>6, <2>1, <2>3, OutlivesFrame
  <2> QED BY <1>1, <1>6, <2>2, <2>4
<1> QED BY <1>1, <1>2, <1>5, <1>7, <1>8, <1>9, CallKeeps

LEMMA TransitionKeeps ==
    ASSUME IInv, NEW p \in ParaIds,
           \/ schedule_para_cleanup(p) \/ schedule_parathread_upgrade(p)
           \/ schedule_parachain_downgrade(p)
    PROVE  IInv'
<1>1. \A l \in {"Parathread", "Parachain"} :
         GetOr(st.lifecycles, p, "none") = l => p \in DOMAIN st.lifecycles /\ st.lifecycles[p] = l
  BY DEF GetOr
<1>2. CASE GetOr(st.lifecycles, p, "none") = "Parathread" /\ Scheduled(p, "OffboardingParathread")
  BY <1>1, <1>2, ScheduledKeeps DEF is_stable, is_parachain, LifecycleNames
<1>3. CASE GetOr(st.lifecycles, p, "none") = "Parachain" /\ Scheduled(p, "OffboardingParachain")
  BY <1>1, <1>3, ScheduledKeeps DEF is_stable, is_parachain, LifecycleNames
<1>4. CASE GetOr(st.lifecycles, p, "none") = "Parathread" /\ Scheduled(p, "UpgradingParathread")
  BY <1>1, <1>4, ScheduledKeeps DEF is_stable, is_parachain, LifecycleNames
<1>5. CASE GetOr(st.lifecycles, p, "none") = "Parachain" /\ Scheduled(p, "DowngradingParachain")
  BY <1>1, <1>5, ScheduledKeeps DEF is_stable, is_parachain, LifecycleNames
<1> QED BY <1>2, <1>3, <1>4, <1>5
     DEF schedule_para_cleanup, schedule_parathread_upgrade, schedule_parachain_downgrade

\* A vote ends with acceptance, by the validators or by governance.
LEMMA AcceptKeeps ==
    ASSUME IInv, NEW c \in DOMAIN st.votes, NEW age \in Nat, Called(AcceptVote(st, c, age)),
           UNCHANGED forced, accepted' = accepted \union {c}
    PROVE  IInv'
<1> DEFINE t == AcceptVote(st, c, age)
<1>1. now \in Nat /\ session \in Nat /\ IsStore(st) /\ accepted \subseteq Codes /\ c \in Codes
  BY DEF IInv, TypeOK, StoreOK, IsMap
<1>2. IsStore(t) /\ Accepts(st, t, c, st.votes[c].causes)
  BY <1>1, AcceptVoteIs
<1>3. NeverStuck(t, session)
  BY <1>1, AcceptNeverStuck DEF IInv
<1>4. Called(t)
  OBVIOUS
<1> HIDE DEF t
<1>5. t.heads = st.heads /\ t.current = st.current
  BY <1>2 DEF Accepts, Same, Fields
<1>6. ASSUME ~forced PROVE Lifecycles(t) /\ t.heads = st.heads
  <2>1. Lifecycles(st)
    BY <1>6 DEF IInv
  <2> QED BY <1>1, <1>2, <1>5, <2>1, AcceptLifecycles
<1>7. ASSUME Undisturbed
      PROVE  /\ CodesSound(t, now, now, accepted', replaced) /\ ~Outlives(t)
             /\ \A q \in DOMAIN st.current \intersect st.heads :
                   q \in DOMAIN t.current /\ t.current[q] = st.current[q]
  <2>1. /\ Lifecycles(st) /\ CodesSound(st, now, now, accepted, replaced) /\ ~Outlives(st)
    BY <1>7 DEF IInv, Undisturbed
  <2>2. CodesSound(t, now, now, accepted \union {c}, replaced) /\ ~Outlives(t)
    BY <1>1, <1>2, <2>1, AcceptCodes
  <2> QED BY <1>5, <2>2
<1>8. accepted' \subseteq Codes
  BY <1>1
<1> QED BY <1>2, <1>3, <1>4, <1>6, <1>7, <1>8, CallKeeps

\* Paras that a rejection removes are not live.
LEMMA RejectLive ==
    ASSUME NEW s, NEW kept, NEW v, Splits(s.votes, kept, v), NEW t, Rejects(s, t, kept, v),
           Lifecycles(s), NEW p \in DOMAIN s.current \intersect s.heads
    PROVE  p \in DOMAIN t.current /\ t.current[p] = s.current[p]
<1>1. p \notin AskedBy(v, "onboarding")
  <2> SUFFICES ASSUME p \in AskedBy(v, "onboarding") PROVE FALSE
    OBVIOUS
  <2>1. PICK c \in DOMAIN v : p \in ParasIn(v[c].causes, "onboarding")
    BY AskedByIs
  <2>2. c \in DOMAIN s.votes /\ p \in ParasIn(s.votes[c].causes, "onboarding")
    BY <2>1 DEF Splits
  <2> QED BY <2>2 DEF Lifecycles, OnboardingAsked, Registered
<1>2. t.current = Without(s.current, AskedBy(v, "onboarding"))
  BY DEF Rejects
<1> QED BY <1>1, <1>2 DEF Without

LEMMA RejectKeeps ==
    ASSUME IInv, NEW kept, NEW v, Splits(st.votes, kept, v),
           Called(enact_pvf_rejected(WithVotes(st, kept), v)), UNCHANGED <<forced, accepted>>
    PROVE  IInv'
<1> DEFINE t == enact_pvf_rejected(WithVotes(st, kept), v)
<1>1. now \in Nat /\ session \in Nat /\ IsStore(st) /\ accepted \subseteq Codes
  BY DEF IInv, TypeOK
<1>2. IsStore(t) /\ Rejects(st, t, kept, v)
  BY <1>1, RejectVotesIs
<1>3. NeverStuck(t, session)
  BY <1>1, RejectNeverStuck DEF IInv
<1>4. Called(t)
  OBVIOUS
<1> HIDE DEF t
<1>5. t.heads = st.heads
  BY <1>2 DEF Rejects, Same, Fields
<1>6. ASSUME ~forced PROVE Lifecycles(t) /\ t.heads = st.heads
  <2>1. Lifecycles(st)
    BY <1>6 DEF IInv
  <2> QED BY <1>1, <1>2, <1>5, <2>1, RejectLifecycles
<1>7. ASSUME Undisturbed
      PROVE  /\ CodesSound(t, now, now, accepted', replaced) /\ ~Outlives(t)
             /\ \A q \in DOMAIN st.current \intersect st.heads :
                   q \in DOMAIN t.current /\ t.current[q] = st.current[q]
  <2>1. /\ Lifecycles(st) /\ CodesSound(st, now, now, accepted, replaced) /\ ~Outlives(st)
    BY <1>7 DEF IInv, Undisturbed
  <2>2. CodesSound(t, now, now, accepted, replaced) /\ ~Outlives(t)
    BY <1>1, <1>2, <2>1, RejectCodes
  <2>3. \A q \in DOMAIN st.current \intersect st.heads :
           q \in DOMAIN t.current /\ t.current[q] = st.current[q]
    BY <1>2, <2>1, RejectLive
  <2> QED BY <2>2, <2>3
<1>8. accepted' \subseteq Codes
  BY <1>1
<1> QED BY <1>2, <1>3, <1>4, <1>6, <1>7, <1>8, CallKeeps

LEMMA VoteKeeps ==
    ASSUME IInv, NEW c \in Codes, NEW v \in Validators, NEW ok \in BOOLEAN,
           include_pvf_check_statement(c, v, ok)
    PROVE  IInv'
<1> DEFINE vote == VoteOf(c, v, ok)
           over == [st EXCEPT !.votes = Without(@, {c})]
           kept == Without(st.votes, {c})
           t == [st EXCEPT !.votes[c] = vote]
<1>1. c \in DOMAIN st.votes /\ UNCHANGED forced
  BY DEF include_pvf_check_statement
<1>2. \/ Called(enact_pvf_rejected(over, [d \in {c} |-> vote])) /\ accepted' = accepted
      \/ Called(enact_pvf_accepted(over, vote.causes, vote.age)) /\ accepted' = accepted \union {c}
      \/ Called(t) /\ accepted' = accepted
  BY DEF include_pvf_check_statement
<1>3. now \in Nat /\ session \in Nat /\ IsStore(st) /\ accepted \subseteq Codes
  BY DEF IInv, TypeOK
<1>4. st.votes[c] \in Vote /\ IsMap(st.votes, Codes, Vote)
  BY <1>1, <1>3 DEF IsStore, StoreOK, IsMap
<1>5. vote \in Vote /\ vote.causes = st.votes[c].causes /\ vote.age = st.votes[c].age
  BY <1>4 DEF VoteOf, Vote
<1>6. over = WithVotes(st, kept)
  BY <1>3 DEF WithVotes, IsStore, Shape, Fields
<1>7. CASE Called(enact_pvf_rejected(over, [d \in {c} |-> vote])) /\ accepted' = accepted
  <2> DEFINE w == [d \in {c} |-> vote]
  <2>1. Splits(st.votes, kept, w)
    <3> HIDE DEF vote
    <3>1. DOMAIN w = {c} /\ w[c] = vote
      OBVIOUS
    <3>2. /\ DOMAIN kept = DOMAIN st.votes \ {c} /\ \A d \in DOMAIN kept : kept[d] = st.votes[d]
      BY DEF Without
    <3> HIDE DEF w, kept
    <3> QED BY <1>1, <1>4, <1>5, <3>1, <3>2 DEF Splits, IsMap
  <2>2. Called(enact_pvf_rejected(WithVotes(st, kept), w))
    BY <1>6, <1>7
  <2> HIDE DEF w, kept
  <2> QED BY <1>1, <1>7, <2>1, <2>2, RejectKeeps
<1>8. CASE Called(enact_pvf_accepted(over, vote.causes, vote.age)) /\ accepted' = accepted \union {c}
  <2>1. Called(AcceptVote(st, c, vote.age))
    BY <1>5, <1>6, <1>8 DEF AcceptVote
  <2>2. vote.age \in Nat
    BY <1>5 DEF Vote
  <2> QED BY <1>1, <1>8, <2>1, <2>2, AcceptKeeps
<1>9. CASE Called(t) /\ accepted' = accepted
  <2> HIDE DEF vote
  <2>1. Shape(t) /\ Same(st, t, {"votes"}) /\ t.votes = [st.votes EXCEPT ![c] = vote]
    BY <1>3 DEF IsStore, Shape, Fields, Same
  <2> HIDE DEF t
  <2>2. /\ DOMAIN t.votes = DOMAIN st.votes /\ t.votes[c] = vote
        /\ \A d \in DOMAIN st.votes : d # c => t.votes[d] = st.votes[d]
    BY <1>1, <2>1
  <2>3. SameCauses(st, t) /\ IsMap(t.votes, Codes, Vote)
    BY <1>4, <1>5, <2>2 DEF SameCauses, IsMap
  <2>4. IsStore(t)
    BY <1>3, <2>1, <2>3 DEF IsStore, StoreOK, Same, Fields
  <2>5. /\ t.current = st.current /\ t.future = st.future /\ t.past = st.past
        /\ t.meta = st.meta /\ t.upgrade_at = st.upgrade_at /\ t.upcoming = st.upcoming
        /\ t.go_ahead = st.go_ahead /\ t.heads = st.heads /\ t.actions = st.actions
        /\ t.refs = st.refs /\ t.stored = st.stored /\ t.lifecycles = st.lifecycles
        /\ t.parachains = st.parachains /\ t.genesis = st.genesis
    BY <2>1 DEF Same, Fields
  <2>6. AskedBy(st.votes, "onboarding") \subseteq AskedBy(t.votes, "onboarding")
    BY <2>3, AskedByIs DEF SameCauses
  <2>7. NeverStuck(t, session)
    BY <2>5, <2>6, NeverStuckGrows DEF IInv
  <2>8. ASSUME ~forced PROVE Lifecycles(t) /\ t.heads = st.heads
    <3>1. Lifecycles(st)
      BY <2>8 DEF IInv
    <3> QED BY <2>3, <2>5, <3>1, LifecyclesFrame
  <2>9. ASSUME Undisturbed
        PROVE  CodesSound(t, now, now, accepted', replaced) /\ ~Outlives(t)
    <3>1. CodesSound(st, now, now, accepted, replaced) /\ ~Outlives(st)
      BY <2>9 DEF IInv
    <3>2. CodesSound(t, now, now, accepted, replaced)
      BY <2>3, <2>5, <3>1, CodesFrame
    <3>3. ~Outlives(t)
      BY <2>3, <2>5, <3>1, OutlivesFrame
    <3> QED BY <1>9, <3>2, <3>3
  <2> QED BY <1>1, <1>3, <1>9, <2>4, <2>5, <2>7, <2>8, <2>9, CallKeeps
<1> QED BY <1>2, <1>7, <1>8, <1>9

\* Code that is stored or removed without a reference.
LEMMA StoredKeeps ==
    ASSUME IInv, NEW c \in Codes, NEW t, Called(t), UNCHANGED forced, Shape(t),
           Same(st, t, {"stored"}),
           \/ c \notin DOMAIN st.votes /\ t.stored = st.stored \union {c} /\ accepted' = accepted \union {c}
           \/ st.refs[c] = 0 /\ t.stored = st.stored \ {c} /\ accepted' = accepted
    PROVE  IInv'
<1>1. IsStore(st) /\ accepted \subseteq Codes
  BY DEF IInv, TypeOK
<1>2. t.stored \subseteq Codes /\ accepted' \subseteq Codes
  BY <1>1 DEF IsStore, StoreOK
<1>3. IsStore(t)
  BY <1>1, <1>2 DEF IsStore, StoreOK, Same, Fields
<1>4. /\ t.current = st.current /\ t.future = st.future /\ t.votes = st.votes
      /\ t.heads = st.heads /\ t.actions = st.actions /\ t.lifecycles = st.lifecycles
      /\ t.parachains = st.parachains /\ t.genesis = st.genesis
  BY DEF Same, Fields
<1>5. SameCauses(st, t)
  BY <1>4 DEF SameCauses
<1>6. NeverStuck(t, session)
  BY <1>4, NeverStuckGrows DEF IInv
<1>7. ASSUME ~forced PROVE Lifecycles(t) /\ t.heads = st.heads
  <2>1. Lifecycles(st)
    BY <1>7 DEF IInv
  <2> QED BY <1>4, <1>5, <2>1, LifecyclesFrame
<1>8. ASSUME Undisturbed
      PROVE  CodesSound(t, now, now, accepted', replaced) /\ ~Outlives(t)
  <2>1. CodesSound(st, now, now, accepted, replaced) /\ ~Outlives(st)
    BY <1>8 DEF IInv
  <2>2. CodesSound(t, now, now, accepted', replaced)
    BY <1>1, <2>1, TrustCodes, PokeCodes
  <2>3. ~Outlives(t)
    BY <1>4, <1>5, <2>1, OutlivesFrame
  <2> QED BY <2>2, <2>3
<1> QED BY <1>2, <1>3, <1>4, <1>6, <1>7, <1>8, CallKeeps

LEMMA TrustKeeps ==
    ASSUME IInv, NEW c \in Codes, add_trusted_validation_code(c)
    PROVE  IInv'
<1>1. IsStore(st)
  BY DEF IInv
<1>2. UNCHANGED forced /\ accepted' = accepted \union {c}
  BY DEF add_trusted_validation_code
<1>3. CASE /\ c \in DOMAIN st.votes
           /\ Called(enact_pvf_accepted([st EXCEPT !.votes = Without(@, {c})],
                                        st.votes[c].causes, st.votes[c].age))
  <2>1. [st EXCEPT !.votes = Without(@, {c})] = WithVotes(st, Without(st.votes, {c}))
    BY <1>1 DEF WithVotes, IsStore, Shape, Fields
  <2>2. Called(AcceptVote(st, c, st.votes[c].age))
    BY <1>3, <2>1 DEF AcceptVote
  <2>3. st.votes[c].age \in Nat
    BY <1>1, <1>3 DEF IsStore, StoreOK, IsMap, Vote
  <2> QED BY <1>2, <1>3, <2>2, <2>3, AcceptKeeps
<1>4. CASE /\ c \notin DOMAIN st.votes \union st.stored
           /\ Called([st EXCEPT !.stored = @ \union {c}])
  <2> DEFINE t == [st EXCEPT !.stored = @ \union {c}]
  <2>1. Shape(t) /\ Same(st, t, {"stored"}) /\ t.stored = st.stored \union {c}
    BY <1>1 DEF IsStore, Shape, Fields, Same
  <2>2. Called(t) /\ c \notin DOMAIN st.votes
    BY <1>4
  <2> HIDE DEF t
  <2> QED BY <1>2, <2>1, <2>2, StoredKeeps
<1> QED BY <1>3, <1>4 DEF add_trusted_validation_code

LEMMA PokeKeeps ==
    ASSUME IInv, NEW c \in Codes, poke_unused_validation_code(c)
    PROVE  IInv'
<1> DEFINE t == [st EXCEPT !.stored = @ \ {c}]
<1>1. Shape(t) /\ Same(st, t, {"stored"}) /\ t.stored = st.stored \ {c}
  BY DEF IInv, IsStore, Shape, Fields, Same
<1>2. Called(t) /\ st.refs[c] = 0 /\ UNCHANGED forced /\ accepted' = accepted
  BY DEF poke_unused_validation_code
<1> HIDE DEF t
<1> QED BY <1>1, <1>2, StoredKeeps

\* Upgrades and heads leave the transitions under way alone.
LEMMA ScheduleNeverStuck ==
    ASSUME NEW s, IsStore(s), NEW p \in ParaIds, NEW c \in Codes, NEW r \in Nat,
           now \in Nat, session \in Nat, NeverStuck(s, session),
           NEW t, t = schedule_code_upgrade(s, p, c, r)
    PROVE  NeverStuck(t, session)
<1>1. CASE UpgradeDropped(s, p, c)
  BY <1>1 DEF schedule_code_upgrade
<1>2. CASE ~UpgradeDropped(s, p, c)
  <2>1. Signals(s, t, p, c, r)
    BY <1>2, SignalsIs
  <2>2. t.lifecycles = s.lifecycles /\ t.genesis = s.genesis /\ t.actions = s.actions
    BY <2>1 DEF Signals, Same, Fields
  <2>3. ASSUME NEW q \in AskedBy(s.votes, "onboarding") PROVE q \in AskedBy(t.votes, "onboarding")
    <3>1. PICK d \in DOMAIN s.votes : q \in ParasIn(s.votes[d].causes, "onboarding")
      BY AskedByIs
    <3>2. d \in DOMAIN t.votes /\ q \in ParasIn(t.votes[d].causes, "onboarding")
      <4>1. CASE FastTracked(s, c)
        BY <2>1, <3>1, <4>1 DEF Signals
      <4>2. CASE ~FastTracked(s, c)
        <5>1. MoreAsked(s.votes, t.votes, c, Upgrade(p, r))
          BY <2>1, <4>2 DEF Signals
        <5> QED BY <3>1, <5>1 DEF MoreAsked
      <4> QED BY <4>1, <4>2
    <3> QED BY <3>2, AskedByIs
  <2> QED BY <2>2, <2>3, NeverStuckGrows
<1> QED BY <1>1, <1>2

LEMMA HeadNeverStuck ==
    ASSUME NEW s, IsStore(s), NEW p \in ParaIds, NEW context, now \in Nat,
           NEW n, NeverStuck(s, n), NEW t, t = note_new_head(s, p, context)
    PROVE  NeverStuck(t, n)
<1>1. Same(s, t, {"heads", "upgrade_at", "go_ahead", "future", "current", "meta", "past",
                  "pruning"})
  BY NewHeadIs
<1>2. /\ t.lifecycles = s.lifecycles /\ t.genesis = s.genesis /\ t.actions = s.actions
      /\ t.votes = s.votes
  BY <1>1 DEF Same, Fields
<1> QED BY <1>2, NeverStuckGrows

LEMMA SetCodeKeeps ==
    ASSUME IInv, NEW p \in ParaIds, NEW c \in Codes, force_set_current_code(p, c)
    PROVE  IInv'
<1> DEFINE i == increase_code_ref(st, c)
           s == [i EXCEPT !.current = Put(@, p, c)]
           old == [q \in {p} |-> st.current[p]]
           t == IF p \in DOMAIN st.current THEN note_past_code(s, old, now, now) ELSE s
<1>1. Forces(t) /\ accepted' = accepted \union {c}
  BY DEF force_set_current_code
<1>2. now \in Nat /\ session \in Nat /\ IsStore(st) /\ accepted \subseteq Codes
  BY DEF IInv, TypeOK
<1>3. Shape(i) /\ Same(st, i, {"refs", "stored"}) /\ RefAdded(st, i, c)
  <2>1. Shape(st) /\ st.refs \in [Codes -> Nat]
    BY <1>2 DEF IsStore, StoreOK
  <2> HIDE DEF i
  <2>2. i = increase_code_ref(st, c)
    BY DEF i
  <2> QED BY <2>1, <2>2, IncreaseFields
<1> HIDE DEF i
<1>4. Shape(s) /\ Same(st, s, {"refs", "stored", "current"}) /\ s.refs = i.refs
      /\ s.stored = i.stored /\ s.current = Put(st.current, p, c)
  BY <1>3 DEF Shape, Same, Fields
<1> HIDE DEF s
<1>5. IsMap(s.current, ParaIds, Codes)
  BY <1>2, <1>4 DEF IsMap, Put, IsStore, StoreOK
<1>6. s.refs \in [Codes -> Nat] /\ s.stored \subseteq Codes
  BY <1>2, <1>3, <1>4 DEF RefAdded, IsStore, StoreOK
<1>7. IsStore(s)
  BY <1>2, <1>4, <1>5, <1>6 DEF IsStore, StoreOK, Same, Fields
<1>8. NeverStuck(s, session)
  <2>1. /\ s.lifecycles = st.lifecycles /\ s.genesis = st.genesis /\ s.actions = st.actions
        /\ s.votes = st.votes
    BY <1>4 DEF Same, Fields
  <2>2. NeverStuck(st, session)
    BY DEF IInv
  <2> QED BY <2>1, <2>2, NeverStuckGrows
<1>9. IsStore(t) /\ NeverStuck(t, session)
  <2>1. CASE p \notin DOMAIN st.current
    BY <1>7, <1>8, <2>1
  <2>2. CASE p \in DOMAIN st.current
    <3>1. t = note_past_code(s, old, now, now)
      BY <2>2
    <3>2. IsMap(old, ParaIds, Codes)
      BY <1>2, <2>2 DEF IsMap, IsStore, StoreOK
    <3> HIDE DEF t, old
    <3>3. IsStore(t)
      BY <1>2, <1>7, <3>1, <3>2, NotePastStore
    <3>4. Same(s, t, {"meta", "past", "pruning"})
      BY <1>7, <3>1, NotePastFields DEF IsStore
    <3>5. /\ t.lifecycles = s.lifecycles /\ t.genesis = s.genesis /\ t.actions = s.actions
          /\ t.votes = s.votes
      BY <3>4 DEF Same, Fields
    <3> QED BY <1>8, <3>3, <3>5, NeverStuckGrows
  <2> QED BY <2>1, <2>2
<1> HIDE DEF t
<1>10. accepted' \subseteq Codes
  BY <1>1, <1>2
<1> QED BY <1>1, <1>9, <1>10, ForceKeeps

\* The other calls that force a change.
LEMMA ForcedKeeps ==
    ASSUME IInv, NEW p \in ParaIds,
           \/ force_set_current_head(p) \/ force_note_new_head(p) \/ force_queue_action(p)
           \/ \E c \in Codes : force_schedule_code_upgrade(p, c)
    PROVE  IInv'
<1>1. /\ now \in Nat /\ session \in Nat /\ IsStore(st) /\ accepted \subseteq Codes
      /\ NeverStuck(st, session)
  BY DEF IInv, TypeOK
<1>2. CASE force_set_current_head(p)
  <2> DEFINE t == [st EXCEPT !.heads = @ \union {p}]
  <2>1. Forces(t) /\ accepted' = accepted
    BY <1>2 DEF force_set_current_head
  <2>2. Shape(t) /\ Same(st, t, {"heads"}) /\ t.heads = st.heads \union {p}
    BY <1>1 DEF IsStore, Shape, Same, Fields
  <2> HIDE DEF t
  <2>3. IsStore(t)
    BY <1>1, <2>2 DEF IsStore, StoreOK, Same, Fields
  <2>4. /\ t.lifecycles = st.lifecycles /\ t.genesis = st.genesis /\ t.actions = st.actions
        /\ t.votes = st.votes
    BY <2>2 DEF Same, Fields
  <2>5. NeverStuck(t, session)
    BY <1>1, <2>4, NeverStuckGrows
  <2> QED BY <1>1, <2>1, <2>3, <2>5, ForceKeeps
<1>3. CASE force_note_new_head(p)
  <2> DEFINE t == note_new_head(st, p, now)
  <2>1. Forces(t) /\ accepted' = accepted
    BY <1>3 DEF force_note_new_head
  <2>2. t = note_new_head(st, p, now)
    OBVIOUS
  <2> HIDE DEF t
  <2>3. IsStore(t) /\ NeverStuck(t, session)
    BY <1>1, <2>2, NewHeadIs, HeadNeverStuck
  <2> QED BY <1>1, <2>1, <2>3, ForceKeeps
<1>4. CASE force_queue_action(p)
  <2> DEFINE t == [st EXCEPT !.actions = @ \union {<<session + 1, p>>}]
  <2>1. Forces(t) /\ accepted' = accepted
    BY <1>4 DEF force_queue_action
  <2>2. Shape(t) /\ Same(st, t, {"actions"}) /\ t.actions = st.actions \union {<<session + 1, p>>}
    BY <1>1 DEF IsStore, Shape, Same, Fields
  <2> HIDE DEF t
  <2>3. t.actions \subseteq Nat \X ParaIds
    BY <1>1, <2>2 DEF IsStore, StoreOK
  <2>4. IsStore(t)
    BY <1>1, <2>2, <2>3 DEF IsStore, StoreOK, Same, Fields
  <2>5. /\ t.lifecycles = st.lifecycles /\ t.genesis = st.genesis /\ st.actions \subseteq t.actions
        /\ t.votes = st.votes
    BY <2>2 DEF Same, Fields
  <2>6. NeverStuck(t, session)
    BY <1>1, <2>5, NeverStuckGrows
  <2> QED BY <1>1, <2>1, <2>4, <2>6, ForceKeeps
<1>5. CASE \E c \in Codes : force_schedule_code_upgrade(p, c)
  <2>1. PICK c \in Codes : force_schedule_code_upgrade(p, c)
    BY <1>5
  <2> DEFINE t == schedule_code_upgrade(st, p, c, now)
  <2>2. Forces(t) /\ accepted' \subseteq Codes
    BY <1>1, <2>1 DEF force_schedule_code_upgrade, FastTracks
  <2>3. t = schedule_code_upgrade(st, p, c, now)
    OBVIOUS
  <2> HIDE DEF t
  <2>4. IsStore(t)
    BY <1>1, <2>3, ScheduleStore
  <2>5. NeverStuck(t, session)
    BY <1>1, <2>3, ScheduleNeverStuck
  <2> QED BY <2>2, <2>4, <2>5, ForceKeeps
<1> QED BY <1>2, <1>3, <1>4, <1>5

\* A live para gets a new head, and with it the upgrade that is due.
LEMMA NewHeadLifecycles ==
    ASSUME NEW s, IsStore(s), NEW p \in ParaIds, p \in s.heads, NEW r, now \in Nat,
           Lifecycles(s), NEW t, t = note_new_head(s, p, r)
    PROVE  Lifecycles(t) /\ t.heads = s.heads
<1>1. /\ IsStore(t) /\ t.heads = s.heads \union {p}
      /\ Same(s, t, {"heads", "upgrade_at", "go_ahead", "future", "current", "meta", "past",
                     "pruning"})
  BY NewHeadIs
<1>2. p \in DOMAIN s.current
  BY DEF Lifecycles, Registered
<1>3. t.current = s.current \/ t.current = Put(s.current, p, s.future[p])
  <2>1. CASE p \notin DOMAIN s.upgrade_at
    <3>1. Same(s, t, {"heads", "go_ahead"})
      BY <2>1, NewHeadIs
    <3> QED BY <3>1 DEF Same, Fields
  <2>2. CASE p \in DOMAIN s.upgrade_at /\ s.upgrade_at[p] > r
    <3>1. Same(s, t, {"heads"})
      BY <2>2, NewHeadIs
    <3> QED BY <3>1 DEF Same, Fields
  <2>3. CASE p \in DOMAIN s.upgrade_at /\ ~(s.upgrade_at[p] > r) /\ p \notin DOMAIN s.future
    <3>1. Same(s, t, {"heads", "upgrade_at", "go_ahead"})
      BY <2>3, NewHeadIs
    <3> QED BY <3>1 DEF Same, Fields
  <2>4. CASE p \in DOMAIN s.upgrade_at /\ ~(s.upgrade_at[p] > r) /\ p \in DOMAIN s.future
    <3>1. Swaps(s, t, p)
      BY <1>2, <2>4, SwapsIs
    <3> QED BY <3>1 DEF Swaps
  <2> QED BY <2>1, <2>2, <2>3, <2>4
<1>4. Lifecycles(t)
  BY <1>1, <1>3, HeadLifecycles
<1> QED BY <1>1, <1>4

LEMMA NewHeadCodes ==
    ASSUME NEW s, IsStore(s), NEW p \in ParaIds, p \in s.heads, NEW r \in Nat, now \in Nat,
           r < now, Lifecycles(s), NEW codes, CodesSound(s, now, now, codes, replaced),
           ~Outlives(s), s.current = st.current, \A o \in replaced : o.para \in ParaIds,
           NEW t, t = note_new_head(s, p, r)
    PROVE  CodesSound(t, now, now, codes, Replaces(t)) /\ ~Outlives(t)
<1>1. /\ IsStore(t) /\ t.heads = s.heads
  <2>1. IsStore(t) /\ t.heads = s.heads \union {p}
    BY ONLY IsStore(s), p \in ParaIds, now \in Nat, t = note_new_head(s, p, r), NewHeadIs
  <2> QED BY <2>1
<1>2. p \in DOMAIN s.current
  BY DEF Lifecycles, Registered
<1>3. CASE p \notin DOMAIN s.upgrade_at
  <2>1. Same(s, t, {"heads", "go_ahead"}) /\ t.go_ahead = Without(s.go_ahead, {p})
    <3>1. Same(s, t, {"heads", "go_ahead"})
      BY <1>3, NewHeadIs
    <3>2. t.go_ahead = Without(s.go_ahead, {p})
      <4>1. DOMAIN s = Fields
        BY DEF IsStore, Shape
      <4>2. t = [[s EXCEPT !.heads = @ \union {p}] EXCEPT !.go_ahead = Without(@, {p})]
        BY <1>3 DEF note_new_head
      <4> QED BY <4>1, <4>2 DEF Fields
    <3> QED BY <3>1, <3>2
  <2>2. CodesSound(t, now, now, codes, replaced)
    BY <1>1, <1>3, <2>1, HeadCodes
  <2>3. t.current = s.current /\ t.votes = s.votes /\ t.future = s.future
    BY <2>1 DEF Same, Fields
  <2>4. Replaces(t) = replaced
    BY <2>3, ReplacesNothing
  <2>5. ~Outlives(t)
    BY <2>3 DEF Outlives
  <2> QED BY <2>2, <2>4, <2>5
<1>4. CASE p \in DOMAIN s.upgrade_at /\ s.upgrade_at[p] > r
  <2>1. Same(s, t, {"heads"})
    BY <1>4, NewHeadIs
  <2>2. /\ t.current = s.current /\ t.future = s.future /\ t.past = s.past
        /\ t.meta = s.meta /\ t.upgrade_at = s.upgrade_at /\ t.upcoming = s.upcoming
        /\ t.go_ahead = s.go_ahead /\ t.actions = s.actions /\ t.votes = s.votes
        /\ t.refs = s.refs /\ t.stored = s.stored
    BY <2>1 DEF Same, Fields
  <2>3. SameCauses(s, t)
    BY <2>2 DEF SameCauses
  <2>4. CodesSound(t, now, now, codes, replaced)
    BY <1>1, <2>2, <2>3, CodesFrame
  <2>5. Replaces(t) = replaced
    BY <2>2, ReplacesNothing
  <2>6. ~Outlives(t)
    BY <2>2 DEF Outlives
  <2> QED BY <2>4, <2>5, <2>6
<1>5. CASE p \in DOMAIN s.upgrade_at /\ ~(s.upgrade_at[p] > r)
  <2> DEFINE old == [q \in {p} |-> s.current[p]]
  <2>1. p \in DOMAIN s.future
    BY <1>5 DEF CodesSound, UpgradesAnnounced
  <2>2. Swaps(s, t, p)
    BY <1>2, <1>5, <2>1, SwapsIs
  <2>3. s.upgrade_at[p] \in Nat
    BY <1>5 DEF IsStore, StoreOK, IsMap
  <2>4. s.upgrade_at[p] < now
    BY <1>5, <2>3
  <2>5. CodesSound(t, now, now, codes, replaced \union Gone(old)) /\ ~Outlives(t)
    BY <1>1, <1>5, <2>2, <2>4, SwapCodes
  <2>6. DOMAIN old = {p} /\ old[p] = st.current[p]
    OBVIOUS
  <2> HIDE DEF old
  <2>7. t.current = Put(s.current, p, s.future[p])
    BY <2>2 DEF Swaps
  <2>8. \A q \in DOMAIN st.current \intersect st.heads :
           q \in DOMAIN old \/ (q \in DOMAIN t.current /\ t.current[q] = st.current[q])
    BY <2>6, <2>7 DEF Put
  <2>9. \A q \in DOMAIN old : q \in DOMAIN st.current /\ old[q] = st.current[q]
    BY <1>2, <2>6
  <2>10. Replaces(t) \subseteq replaced \union Gone(old)
    BY <2>8, <2>9, ReplacesGone
  <2> QED BY <2>5, <2>10, CodesSubset
<1> QED BY <1>3, <1>4, <1>5

\* The upgrade that an included candidate signals.
LEMMA UpgradeKeeps ==
    ASSUME IInv, NEW p \in ParaIds, NEW c \in Codes \union {NoCode}, NEW r \in Nat,
           NEW s, s = IF c = NoCode THEN st ELSE schedule_code_upgrade(st, p, c, r),
           NEW codes,
           codes = IF c = NoCode \/ UpgradeDropped(st, p, c) THEN accepted ELSE FastTracks(c)
    PROVE  /\ IsStore(s) /\ NeverStuck(s, session) /\ s.current = st.current
           /\ s.heads = st.heads /\ codes \subseteq Codes
           /\ ~forced => Lifecycles(s)
           /\ Undisturbed => CodesSound(s, now, now, codes, replaced) /\ ~Outlives(s)
<1>1. /\ now \in Nat /\ session \in Nat /\ IsStore(st) /\ accepted \subseteq Codes
      /\ NeverStuck(st, session)
  BY DEF IInv, TypeOK
<1>2. CASE c = NoCode \/ UpgradeDropped(st, p, c)
  <2>1. s = st /\ codes = accepted
    BY <1>2 DEF schedule_code_upgrade
  <2> QED BY <1>1, <2>1 DEF IInv
<1>3. CASE c # NoCode /\ ~UpgradeDropped(st, p, c)
  <2>1. c \in Codes /\ s = schedule_code_upgrade(st, p, c, r) /\ codes = FastTracks(c)
    BY <1>3
  <2>2. IsStore(s)
    BY <1>1, <2>1, ScheduleStore
  <2>3. Signals(st, s, p, c, r)
    BY <1>1, <1>3, <2>1, SignalsIs
  <2>4. NeverStuck(s, session)
    BY <1>1, <2>1, ScheduleNeverStuck
  <2>5. s.current = st.current /\ s.heads = st.heads
    BY <2>3 DEF Signals, Same, Fields
  <2>6. codes \subseteq Codes
    BY <1>1, <2>1 DEF FastTracks
  <2>7. ASSUME ~forced PROVE Lifecycles(s)
    <3>1. Lifecycles(st)
      BY <2>7 DEF IInv
    <3> QED BY <1>1, <2>1, <2>3, <3>1, SignalLifecycles
  <2>8. ASSUME Undisturbed PROVE CodesSound(s, now, now, codes, replaced) /\ ~Outlives(s)
    <3>1. CodesSound(st, now, now, accepted, replaced) /\ ~Outlives(st)
      BY <2>8 DEF IInv
    <3>2. Accounts(st, c, accepted, codes)
      BY <2>1, <3>1, FastTracksAccounts
    <3>3. p \notin DOMAIN st.future
      BY <1>3 DEF UpgradeDropped
    <3> QED BY <1>1, <2>1, <2>2, <2>3, <3>1, <3>2, <3>3, SignalCodes
  <2> QED BY <2>2, <2>4, <2>5, <2>6, <2>7, <2>8
<1> QED BY <1>2, <1>3

LEMMA EnactKeeps ==
    ASSUME IInv, NEW p \in ParaIds, Enact(p)
    PROVE  IInv'
<1> DEFINE c == pending[p].code
           r == pending[p].relay_parent
           s == IF c = NoCode THEN st ELSE schedule_code_upgrade(st, p, c, r)
<1>1. /\ p \in DOMAIN pending /\ st' = note_new_head(s, p, r) /\ replaced' = Replaces(st')
      /\ accepted' = IF c = NoCode \/ UpgradeDropped(st, p, c) THEN accepted ELSE FastTracks(c)
      /\ pending' = Without(pending, {p}) /\ now' = now /\ session' = session
      /\ calls' = calls /\ forced' = forced /\ outlived' = outlived
  BY DEF Enact
<1>2. /\ now \in Nat /\ session \in Nat /\ \A o \in replaced : o.para \in ParaIds
      /\ IsMap(pending, ParaIds, [relay_parent : Nat, code : Codes \union {NoCode}])
  BY DEF IInv, TypeOK
<1>3. c \in Codes \union {NoCode} /\ r \in Nat
  BY <1>1, <1>2 DEF IsMap
<1>4. s = IF c = NoCode THEN st ELSE schedule_code_upgrade(st, p, c, r)
  OBVIOUS
<1> HIDE DEF s, c, r
<1>5. /\ IsStore(s) /\ NeverStuck(s, session) /\ s.current = st.current
      /\ s.heads = st.heads /\ accepted' \subseteq Codes
      /\ ~forced => Lifecycles(s)
      /\ Undisturbed => CodesSound(s, now, now, accepted', replaced) /\ ~Outlives(s)
  BY <1>1, <1>3, <1>4, UpgradeKeeps
<1>6. IsStore(st')
  BY <1>1, <1>2, <1>5, NewHeadIs
<1>7. NeverStuck(st', session)
  BY <1>1, <1>2, <1>5, HeadNeverStuck
<1>8. IsMap(pending', ParaIds, [relay_parent : Nat, code : Codes \union {NoCode}])
  BY <1>1, <1>2 DEF IsMap, Without
<1>9. TypeOK'
  <2>1. \A o \in replaced' : o.para \in ParaIds /\ o.code \in Codes /\ o.at \in Nat
    BY <1>1, ReplacesType DEF IInv
  <2>2. StoreOK(st')
    BY <1>6 DEF IsStore
  <2> QED BY <1>1, <1>5, <1>8, <2>1, <2>2 DEF IInv, TypeOK
<1>10. ASSUME ~forced
       PROVE  /\ p \in s.heads /\ r < now /\ Lifecycles(st') /\ DOMAIN pending' \subseteq st'.heads
              /\ \A q \in DOMAIN pending' : pending'[q].relay_parent < now
  <2>1. /\ DOMAIN pending \subseteq st.heads
        /\ \A q \in DOMAIN pending : pending[q].relay_parent < now
    BY <1>10 DEF IInv
  <2>2. p \in s.heads /\ r < now
    BY <1>1, <1>5, <2>1 DEF r
  <2>3. Lifecycles(st') /\ st'.heads = s.heads
    BY <1>1, <1>2, <1>5, <1>10, <2>2, NewHeadLifecycles
  <2> QED BY <1>1, <1>5, <2>1, <2>2, <2>3 DEF Without
<1>11. ASSUME Undisturbed
       PROVE  CodesSound(st', now, now, accepted', replaced') /\ ~Outlives(st')
  <2>1. p \in s.heads /\ r < now /\ Lifecycles(s)
    BY <1>5, <1>10, <1>11 DEF Undisturbed
  <2>2. CodesSound(st', now, now, accepted', Replaces(st')) /\ ~Outlives(st')
    BY <1>1, <1>2, <1>3, <1>5, <1>11, <2>1, NewHeadCodes
  <2> QED BY <1>1, <2>2
<1> QED BY <1>1, <1>6, <1>7, <1>9, <1>10, <1>11 DEF IInv, Undisturbed

-----------------------------------------------------------------------------
(* Block boundaries and session changes.                                   *)

LEMMA CodesLater ==
    ASSUME NEW s, IsStore(s), NEW n \in Nat, NEW m, NEW codes, NEW old,
           \A r \in old : r.para \in ParaIds /\ r.at \in Nat, CodesSound(s, m, n, codes, old)
    PROVE  CodesSound(s, m, n + 1, codes, old)
<1>1. ReplacedBefore(s, n) /\ Retained(s, n, old)
  BY DEF CodesSound
<1>2. ReplacedBefore(s, n + 1)
  <2>1. ASSUME NEW k \in DOMAIN s.past
        PROVE  k[2] < n + 1 /\ (k[1] \in DOMAIN s.upgrade_at => k[2] < s.upgrade_at[k[1]])
    <3>1. k[2] \in Nat
      BY <2>1 DEF IsStore, StoreOK, IsMap
    <3>2. k[2] < n /\ (k[1] \in DOMAIN s.upgrade_at => k[2] < s.upgrade_at[k[1]])
      BY <1>1, <2>1 DEF ReplacedBefore
    <3> QED BY <3>1, <3>2
  <2>2. ASSUME NEW p \in ParaIds, NEW i \in DOMAIN s.meta[p]
        PROVE  /\ s.meta[p][i].expected_at < n + 1
               /\ p \in DOMAIN s.upgrade_at => s.meta[p][i].expected_at < s.upgrade_at[p]
    <3>1. s.meta[p] \in Seq(ReplacementTimes)
      BY <2>2 DEF IsStore, StoreOK, IsMap
    <3>2. s.meta[p][i] \in ReplacementTimes
      BY <2>2, <3>1
    <3>3. s.meta[p][i].expected_at \in Nat
      BY <3>2 DEF ReplacementTimes
    <3>4. /\ s.meta[p][i].expected_at < n
          /\ p \in DOMAIN s.upgrade_at => s.meta[p][i].expected_at < s.upgrade_at[p]
      BY <1>1, <2>2 DEF ReplacedBefore
    <3> QED BY <3>3, <3>4
  <2> QED BY <2>1, <2>2 DEF ReplacedBefore
<1>3. Retained(s, n + 1, old)
  <2> SUFFICES ASSUME NEW r \in old, n + 1 <= r.at + Retention
               PROVE  \E k \in DOMAIN s.past :
                         /\ k[1] = r.para /\ s.past[k] = r.code
                         /\ \A i \in DOMAIN s.meta[r.para] :
                               s.meta[r.para][i].expected_at = k[2]
                                  => r.at <= s.meta[r.para][i].activated_at
    BY DEF Retained
  <2>1. n <= r.at + Retention
    BY ParasAssumption
  <2> QED BY <1>1, <2>1 DEF Retained
<1> QED BY <1>2, <1>3 DEF CodesSound

\* What a block starts with.
LEMMA BlockStarts ==
    ASSUME NEW s, IsStore(s), NEW n \in Nat, NEW t, t = initializer_initialize(s, n)
    PROVE  /\ IsStore(t) /\ IsStore(prune_old_code(s, n))
           /\ Announces(prune_old_code(s, n), t, n)
           /\ Same(s, t, {"refs", "stored", "pruning", "past", "meta", "upcoming", "go_ahead"})
<1> DEFINE u == prune_old_code(s, n)
<1>1. u = prune_old_code(s, n) /\ t = process_scheduled_upgrade_changes(u, n)
  BY DEF initializer_initialize
<1> HIDE DEF u
<1>2. IsStore(u)
  BY <1>1, PruneStore
<1>3. IsStore(t) /\ Announces(u, t, n)
  BY <1>1, <1>2, ChangesStore, AnnouncesIs
<1>4. Same(s, u, {"refs", "stored", "pruning", "past", "meta"})
  <2>1. CASE n <= Retention
    <3>1. u = s
      BY <1>1, <2>1 DEF prune_old_code
    <3> QED BY <3>1 DEF Same
  <2>2. CASE ~(n <= Retention)
    BY <1>1, <2>2, PruneFields DEF IsStore
  <2> QED BY <2>1, <2>2
<1>5. Same(u, t, {"upcoming", "go_ahead"})
  BY <1>3 DEF Announces
<1>6. Same(s, t, {"refs", "stored", "pruning", "past", "meta", "upcoming", "go_ahead"})
  BY <1>4, <1>5 DEF Same
<1> QED BY <1>1, <1>2, <1>3, <1>6

LEMMA BlockCodes ==
    ASSUME NEW s, IsStore(s), NEW n \in Nat, NEW t, t = initializer_initialize(s, n + 1),
           NEW codes, NEW old, \A r \in old : r.para \in ParaIds /\ r.at \in Nat,
           CodesSound(s, n, n + 1, codes, old)
    PROVE  CodesSound(t, n + 1, n + 1, codes, old)
<1> DEFINE u == prune_old_code(s, n + 1)
<1>1. u = prune_old_code(s, n + 1) /\ n + 1 \in Nat
  OBVIOUS
<1>2. IsStore(u) /\ Announces(u, t, n + 1)
  BY BlockStarts
<1> HIDE DEF u
<1>3. CodesSound(u, n, n + 1, codes, old)
  BY <1>1, <1>2, PruneCodes
<1> QED BY <1>2, <1>3, AnnounceCodes

LEMMA BlockNeverStuck ==
    ASSUME NEW s, IsStore(s), NEW n \in Nat, NEW t, t = initializer_initialize(s, n),
           NEW m, NeverStuck(s, m)
    PROVE  NeverStuck(t, m)
<1>1. Same(s, t, {"refs", "stored", "pruning", "past", "meta", "upcoming", "go_ahead"})
  BY BlockStarts
<1>2. /\ t.lifecycles = s.lifecycles /\ t.genesis = s.genesis /\ t.actions = s.actions
      /\ t.votes = s.votes
  BY <1>1 DEF Same, Fields
<1> QED BY <1>2, NeverStuckGrows

LEMMA BlockLifecycles ==
    ASSUME NEW s, IsStore(s), NEW n \in Nat, NEW t, t = initializer_initialize(s, n)
    PROVE  /\ t.heads = s.heads /\ (Lifecycles(s) => Lifecycles(t))
           /\ ~Outlives(s) => ~Outlives(t)
<1>1. Same(s, t, {"refs", "stored", "pruning", "past", "meta", "upcoming", "go_ahead"})
  BY BlockStarts
<1>2. /\ t.lifecycles = s.lifecycles /\ t.genesis = s.genesis /\ t.actions = s.actions
      /\ t.votes = s.votes /\ t.parachains = s.parachains /\ t.heads = s.heads
      /\ t.current = s.current /\ t.future = s.future
  BY <1>1 DEF Same, Fields
<1>3. SameCauses(s, t)
  BY <1>2 DEF SameCauses
<1> QED BY <1>2, <1>3, LifecyclesFrame, OutlivesFrame

\* The end of cooldowns concerns nothing else.
LEMMA CooldownsKeep ==
    ASSUME IInv, NEW s, s = process_scheduled_upgrade_cooldowns(st, now)
    PROVE  /\ IsStore(s) /\ NeverStuck(s, session) /\ s.heads = st.heads /\ s.current = st.current
           /\ ~forced => Lifecycles(s)
           /\ Undisturbed => CodesSound(s, now, now, accepted, replaced) /\ ~Outlives(s)
<1>1. IsStore(st) /\ NeverStuck(st, session)
  BY DEF IInv
<1>2. IsStore(s)
  BY <1>1, CooldownsStore
<1>3. Same(st, s, {"restricted"})
  BY <1>1, CooldownsFields DEF IsStore
<1>4. /\ s.current = st.current /\ s.future = st.future /\ s.past = st.past
      /\ s.meta = st.meta /\ s.upgrade_at = st.upgrade_at /\ s.upcoming = st.upcoming
      /\ s.go_ahead = st.go_ahead /\ s.actions = st.actions /\ s.votes = st.votes
      /\ s.refs = st.refs /\ s.stored = st.stored /\ s.heads = st.heads
      /\ s.lifecycles = st.lifecycles /\ s.genesis = st.genesis /\ s.parachains = st.parachains
  BY <1>3 DEF Same, Fields
<1>5. SameCauses(st, s)
  BY <1>4 DEF SameCauses
<1>6. NeverStuck(s, session)
  BY <1>1, <1>4, NeverStuckGrows
<1>7. ASSUME ~forced PROVE Lifecycles(s)
  <2>1. Lifecycles(st)
    BY <1>7 DEF IInv
  <2> QED BY <1>4, <1>5, <2>1, LifecyclesFrame
<1>8. ASSUME Undisturbed PROVE CodesSound(s, now, now, accepted, replaced) /\ ~Outlives(s)
  <2>1. CodesSound(st, now, now, accepted, replaced) /\ ~Outlives(st)
    BY <1>8 DEF IInv
  <2>2. CodesSound(s, now, now, accepted, replaced)
    BY <1>4, <1>5, <2>1, CodesFrame
  <2>3. ~Outlives(s)
    BY <1>4, <1>5, <2>1, OutlivesFrame
  <2> QED BY <2>2, <2>3
<1> QED BY <1>2, <1>4, <1>6, <1>7, <1>8

LEMMA EndBlockKeeps ==
    ASSUME IInv, EndBlock
    PROVE  IInv'
<1> DEFINE s == process_scheduled_upgrade_cooldowns(st, now)
<1>1. /\ now' = now + 1 /\ calls' = 0 /\ st' = initializer_initialize(s, now + 1)
      /\ session' = session /\ pending' = pending /\ accepted' = accepted
      /\ replaced' = replaced /\ forced' = forced /\ outlived' = outlived
  BY DEF EndBlock
<1>2. s = process_scheduled_upgrade_cooldowns(st, now)
  OBVIOUS
<1> HIDE DEF s
<1>3. /\ now \in Nat /\ now + 1 \in Nat \ {0}
      /\ \A r \in replaced : r.para \in ParaIds /\ r.at \in Nat
      /\ IsMap(pending, ParaIds, [relay_parent : Nat, code : Codes \union {NoCode}])
  BY DEF IInv, TypeOK
<1>4. IsStore(s) /\ NeverStuck(s, session) /\ s.heads = st.heads
  BY <1>2, CooldownsKeep
<1>5. IsStore(st')
  BY <1>1, <1>3, <1>4, BlockStarts
<1>6. NeverStuck(st', session)
  BY <1>1, <1>3, <1>4, BlockNeverStuck
<1>7. TypeOK'
  <2>1. StoreOK(st')
    BY <1>5 DEF IsStore
  <2>2. calls' \in 0..CallsPerBlock
    BY <1>1, ParasAssumption
  <2> QED BY <1>1, <1>3, <2>1, <2>2 DEF IInv, TypeOK
<1>8. ASSUME ~forced
      PROVE  /\ Lifecycles(st') /\ DOMAIN pending \subseteq st'.heads
             /\ \A p \in DOMAIN pending : pending[p].relay_parent < now + 1
  <2>1. Lifecycles(s)
    BY <1>2, <1>8, CooldownsKeep
  <2>2. Lifecycles(st') /\ st'.heads = s.heads
    BY <1>1, <1>3, <1>4, <2>1, BlockLifecycles
  <2>3. /\ DOMAIN pending \subseteq st.heads
        /\ \A p \in DOMAIN pending : pending[p].relay_parent < now
    BY <1>8 DEF IInv
  <2>4. ASSUME NEW p \in DOMAIN pending PROVE pending[p].relay_parent < now + 1
    <3>1. pending[p].relay_parent \in Nat
      BY <1>3, <2>4 DEF IsMap
    <3> QED BY <1>3, <2>3, <2>4, <3>1
  <2> QED BY <1>4, <2>2, <2>3, <2>4
<1>9. ASSUME Undisturbed
      PROVE  CodesSound(st', now + 1, now + 1, accepted, replaced) /\ ~Outlives(st')
  <2>1. CodesSound(s, now, now, accepted, replaced) /\ ~Outlives(s)
    BY <1>2, <1>9, CooldownsKeep
  <2>2. CodesSound(s, now, now + 1, accepted, replaced)
    BY <1>3, <1>4, <2>1, CodesLater
  <2>3. CodesSound(st', now + 1, now + 1, accepted, replaced)
    BY <1>1, <1>3, <1>4, <2>2, BlockCodes
  <2>4. ~Outlives(st')
    BY <1>1, <1>3, <1>4, <2>1, BlockLifecycles
  <2> QED BY <2>3, <2>4
<1> QED BY <1>1, <1>5, <1>6, <1>7, <1>8, <1>9 DEF IInv, Undisturbed

\* The votes that a session change ends, and the others with empty ballots.
TooOld(votes) == {c \in DOMAIN votes : votes[c].age + 1 >= VotingTtl}

Ended(votes) == [c \in TooOld(votes) |-> votes[c]]

Groomed(votes) ==
    [c \in DOMAIN votes \ TooOld(votes) |->
        [votes[c] EXCEPT !.age = @ + 1, !.accept = {}, !.reject = {}]]

LEMMA GroomIs ==
    ASSUME NEW s, IsStore(s), NEW t, t = groom_ongoing_pvf_votes(s)
    PROVE  /\ t = enact_pvf_rejected(WithVotes(s, Groomed(s.votes)), Ended(s.votes))
           /\ Splits(s.votes, Groomed(s.votes), Ended(s.votes))
<1>1. t = enact_pvf_rejected(WithVotes(s, Groomed(s.votes)), Ended(s.votes))
  BY DEF groom_ongoing_pvf_votes, WithVotes, Groomed, Ended, TooOld
<1> DEFINE w == s.votes
           g == Groomed(w)
           e == Ended(w)
<1>2. IsMap(w, Codes, Vote)
  BY DEF IsStore, StoreOK
<1> HIDE DEF w
<1>3. /\ DOMAIN e = TooOld(w) /\ DOMAIN g = DOMAIN w \ TooOld(w) /\ TooOld(w) \subseteq DOMAIN w
      /\ \A c \in DOMAIN e : e[c] = w[c]
  BY DEF Groomed, Ended, TooOld
<1>4. ASSUME NEW c \in DOMAIN g PROVE g[c] \in Vote /\ g[c].causes = w[c].causes
  <2>1. c \in DOMAIN w /\ w[c] \in Vote
    BY <1>2, <1>3, <1>4 DEF IsMap
  <2>2. g[c] = [w[c] EXCEPT !.age = @ + 1, !.accept = {}, !.reject = {}]
    BY <1>3, <1>4 DEF Groomed
  <2> HIDE DEF g
  <2>3. w[c].age + 1 \in Nat
    BY <2>1 DEF Vote
  <2> QED BY <2>1, <2>2, <2>3 DEF Vote
<1> HIDE DEF g, e
<1>5. IsMap(e, Codes, Vote) /\ IsMap(g, Codes, Vote)
  BY <1>2, <1>3, <1>4 DEF IsMap
<1>6. Splits(w, g, e)
  BY <1>3, <1>4, <1>5 DEF Splits
<1> QED BY <1>1, <1>6 DEF w, g, e

\* A para that is removed was in its last transition, and queued once.
LEMMA GoneQueued ==
    ASSUME NEW s, IsStore(s), NEW n \in Nat, NEW a, Applies(s, a, n), Lifecycles(s),
           NEW p \in GoneParas(s, n)
    PROVE  /\ p \in DOMAIN a.lifecycles => a.lifecycles[p] # "Onboarding"
           /\ \A m \in Nat : <<m, p>> \notin a.actions
<1>1. p \in ParaIds /\ <<n, p>> \in s.actions /\ p \in DueParas(s, n) /\ IsOffboarding(s, p)
  BY DEF GoneParas, DueParas
<1>2. /\ p \in DOMAIN s.lifecycles
      /\ s.lifecycles[p] \in {"OffboardingParachain", "OffboardingParathread"}
  BY <1>1 DEF IsOffboarding, GetOr
<1>3. AfterAction(s, p) = s.lifecycles[p]
  BY <1>2 DEF AfterAction, IsInitialized, GetOr
<1>4. a.lifecycles[p] # "Onboarding"
  BY <1>1, <1>2, <1>3 DEF Applies
<1>5. ASSUME NEW m \in Nat, <<m, p>> \in a.actions PROVE FALSE
  <2>1. a.actions = s.actions \ ({n} \X ParaIds)
    BY DEF Applies
  <2>2. <<m, p>> \in s.actions
    BY <1>5, <2>1
  <2>3. m = n
    BY <1>1, <1>5, <2>2 DEF Lifecycles, ActionsSound
  <2> QED BY <1>1, <1>5, <2>1, <2>3
<1> QED BY <1>4, <1>5

\* The paras with queued actions, and what becomes of lifecycles and codes.
LEMMA QueueKeeps ==
    ASSUME NEW s, IsStore(s), NEW n \in Nat, now \in Nat, Lifecycles(s),
           NEW t, t = apply_actions_queue(s, n)
    PROVE  /\ Lifecycles(t) /\ Applied(s, n).current = s.current
           /\ t.current = Without(s.current, GoneParas(s, n))
           /\ s.heads \ GoneParas(s, n) \subseteq t.heads
<1> DEFINE a == Applied(s, n)
           gone == GoneParas(s, n)
<1>1. t = Offboard(a, gone) /\ IsStore(a) /\ IsStore(t) /\ gone \in SUBSET ParaIds
  BY QueueIs
<1>2. a = Applied(s, n)
  OBVIOUS
<1> HIDE DEF a
<1>3. Applies(s, a, n)
  BY <1>2, AppliesIs
<1>4. Lifecycles(a)
  BY <1>1, <1>3, ApplyLifecycles
<1>5. \A p \in gone : /\ p \in DOMAIN a.lifecycles => a.lifecycles[p] # "Onboarding"
                      /\ \A m \in Nat : <<m, p>> \notin a.actions
  BY <1>3, GoneQueued
<1> HIDE DEF gone
<1>6. Offboards(a, t, gone)
  BY <1>1, OffboardsIs
<1>7. Lifecycles(t)
  BY <1>1, <1>4, <1>5, <1>6, OffboardLifecycles
<1>8. a.current = s.current /\ s.heads \subseteq a.heads
  BY <1>3 DEF Applies, Same, Fields
<1>9. t.current = Without(a.current, gone) /\ t.heads = a.heads \ gone
  BY <1>6 DEF Offboards
<1> QED BY <1>2, <1>7, <1>8, <1>9 DEF gone

LEMMA QueueSound ==
    ASSUME NEW s, IsStore(s), NEW n \in Nat, now \in Nat, Lifecycles(s),
           NEW t, t = apply_actions_queue(s, n), NEW codes, NEW old,
           \A r \in old : r.para \in ParaIds /\ r.at \in Nat, CodesSound(s, now, now, codes, old)
    PROVE  CodesSound(t, now, now + 1, codes,
                      old \union Gone(OldCodes(Applied(s, n), GoneParas(s, n))))
<1> DEFINE a == Applied(s, n)
           gone == GoneParas(s, n)
<1>1. t = Offboard(a, gone) /\ IsStore(a) /\ IsStore(t) /\ gone \in SUBSET ParaIds
  BY QueueIs
<1>2. a = Applied(s, n)
  OBVIOUS
<1> HIDE DEF a
<1>3. Applies(s, a, n)
  BY <1>2, AppliesIs
<1>4. Lifecycles(a)
  BY <1>1, <1>3, ApplyLifecycles
<1>5. \A p \in gone : p \in DOMAIN a.lifecycles => a.lifecycles[p] # "Onboarding"
  BY <1>3, GoneQueued
<1> HIDE DEF gone
<1>6. Offboards(a, t, gone)
  BY <1>1, OffboardsIs
<1>7. CodesSound(a, now, now, codes, old)
  BY <1>3, ApplyCodes
<1>8. CodesSound(t, now, now + 1, codes, old \union Gone(OldCodes(a, gone)))
  BY <1>1, <1>4, <1>5, <1>6, <1>7, OffboardCodes
<1> QED BY <1>2, <1>8 DEF gone

LEMMA NewSessionKeeps ==
    ASSUME IInv, NewSession
    PROVE  IInv'
<1> DEFINE s == process_scheduled_upgrade_cooldowns(st, now)
           q == apply_actions_queue(s, session + 1)
           g == groom_ongoing_pvf_votes(q)
           a == Applied(s, session + 1)
           gone == GoneParas(s, session + 1)
           old == OldCodes(a, gone)
<1>1. /\ now' = now + 1 /\ calls' = 0 /\ session' = session + 1 /\ pending' = EmptyMap
      /\ st' = initializer_initialize(g, now + 1) /\ replaced' = Replaces(g)
      /\ outlived' = (outlived \/ Outlives(g)) /\ accepted' = accepted /\ forced' = forced
  BY DEF NewSession, initializer_on_new_session
<1>2. s = process_scheduled_upgrade_cooldowns(st, now)
  OBVIOUS
<1> HIDE DEF s
<1>3. q = apply_actions_queue(s, session + 1)
  OBVIOUS
<1> HIDE DEF q
<1>4. g = groom_ongoing_pvf_votes(q)
  OBVIOUS
<1> HIDE DEF g
<1>5. /\ now \in Nat /\ session \in Nat /\ now + 1 \in Nat \ {0} /\ session + 1 \in Nat
      /\ \A r \in replaced : r.para \in ParaIds /\ r.at \in Nat
  BY DEF IInv, TypeOK
<1>6. IsStore(s) /\ NeverStuck(s, session) /\ s.heads = st.heads /\ s.current = st.current
  BY <1>2, CooldownsKeep
<1>7. IsStore(q) /\ NeverStuck(q, session + 1)
  BY <1>3, <1>5, <1>6, QueueIs, QueueNeverStuck
<1> DEFINE w == Groomed(q.votes)
           e == Ended(q.votes)
<1>8. g = enact_pvf_rejected(WithVotes(q, w), e) /\ Splits(q.votes, w, e)
  BY <1>4, <1>7, GroomIs
<1> HIDE DEF w, e
<1>9. IsStore(g) /\ Rejects(q, g, w, e)
  BY <1>7, <1>8, RejectVotesIs
<1>10. NeverStuck(g, session + 1)
  BY <1>7, <1>8, RejectNeverStuck
<1>11. IsStore(st') /\ NeverStuck(st', session + 1)
  BY <1>1, <1>5, <1>9, <1>10, BlockStarts, BlockNeverStuck
<1>12. \A r \in replaced' : r.para \in ParaIds /\ r.code \in Codes /\ r.at \in Nat
  BY <1>1, ReplacesType DEF IInv
<1>13. TypeOK'
  <2>1. StoreOK(st')
    BY <1>11 DEF IsStore
  <2>2. calls' \in 0..CallsPerBlock
    BY <1>1, ParasAssumption
  <2>3. IsMap(pending', ParaIds, [relay_parent : Nat, code : Codes \union {NoCode}])
    BY <1>1 DEF IsMap, EmptyMap
  <2>4. outlived' \in BOOLEAN
    BY <1>1 DEF Outlives
  <2> QED BY <1>1, <1>5, <1>12, <2>1, <2>2, <2>3, <2>4 DEF IInv, TypeOK
<1>14. ASSUME ~forced PROVE Lifecycles(s) /\ Lifecycles(q) /\ Lifecycles(st')
  <2>1. Lifecycles(s)
    BY <1>2, <1>14, CooldownsKeep
  <2>2. Lifecycles(q)
    BY <1>3, <1>5, <1>6, <2>1, QueueKeeps
  <2>3. Lifecycles(g)
    BY <1>7, <1>8, <1>9, <2>2, RejectLifecycles
  <2>4. Lifecycles(st')
    BY <1>1, <1>5, <1>9, <2>3, BlockLifecycles
  <2> QED BY <2>1, <2>2, <2>4
<1>15. ASSUME ~forced, ~outlived, ~Outlives(g)
       PROVE  CodesSound(st', now + 1, now + 1, accepted, replaced') /\ ~Outlives(st')
  <2>1. Lifecycles(s) /\ Lifecycles(q) /\ CodesSound(s, now, now, accepted, replaced)
    BY <1>2, <1>14, <1>15, CooldownsKeep DEF Undisturbed
  <2>2. CodesSound(q, now, now + 1, accepted, replaced \union Gone(old))
    BY <1>3, <1>5, <1>6, <2>1, QueueSound
  <2>3. a.current = s.current /\ q.current = Without(s.current, gone) /\ s.heads \ gone \subseteq q.heads
    BY <1>3, <1>5, <1>6, <2>1, QueueKeeps
  <2> HIDE DEF a, gone
  <2>4. DOMAIN old = gone \intersect DOMAIN st.current /\ \A p \in DOMAIN old : old[p] = st.current[p]
    BY <1>6, <2>3 DEF OldCodes
  <2> HIDE DEF old
  <2>5. \A p \in DOMAIN old : p \in DOMAIN st.current /\ old[p] = st.current[p]
    BY <2>4
  <2>6. ASSUME NEW p \in DOMAIN st.current \intersect st.heads
        PROVE  p \in DOMAIN old \/ (p \in DOMAIN g.current /\ g.current[p] = st.current[p])
    <3>1. CASE p \in gone
      BY <2>4, <2>6, <3>1
    <3>2. CASE p \notin gone
      <4>1. p \in DOMAIN q.current /\ q.current[p] = st.current[p] /\ p \in q.heads
        BY <1>6, <2>3, <2>6, <3>2 DEF Without
      <4>2. p \in DOMAIN g.current /\ g.current[p] = q.current[p]
        BY <1>8, <1>9, <2>1, <4>1, RejectLive
      <4> QED BY <4>1, <4>2
    <3> QED BY <3>1, <3>2
  <2>7. replaced' \subseteq replaced \union Gone(old)
    BY <1>1, <2>5, <2>6, ReplacesGone
  <2>8. CodesSound(g, now, now + 1, accepted, replaced \union Gone(old))
    BY <1>7, <1>8, <1>9, <2>1, <2>2, RejectCodes
  <2>9. CodesSound(g, now, now + 1, accepted, replaced')
    BY <2>7, <2>8, CodesSubset
  <2>10. CodesSound(st', now + 1, now + 1, accepted, replaced')
    BY <1>1, <1>5, <1>9, <1>12, <2>9, BlockCodes
  <2>11. ~Outlives(st')
    BY <1>1, <1>5, <1>9, <1>15, BlockLifecycles
  <2> QED BY <2>10, <2>11
<1>16. DOMAIN pending' = {}
  BY <1>1 DEF EmptyMap
<1>17. ~forced' => /\ Lifecycles(st') /\ DOMAIN pending' \subseteq st'.heads
                   /\ \A p \in DOMAIN pending' : pending'[p].relay_parent < now'
  BY <1>1, <1>14, <1>16
<1>18. Undisturbed' => CodesSound(st', now', now', accepted', replaced') /\ ~Outlives(st')
  BY <1>1, <1>15 DEF Undisturbed
<1> QED BY <1>1, <1>11, <1>13, <1>17, <1>18 DEF IInv

-----------------------------------------------------------------------------
(* Votes on upgrades of leaving paras end before they have left, if these  *)
(* signal none and votes end within two sessions.                          *)

\* A vote that a leaving para asked for has one session less to go than the
\* para, or is in the last session of both.
EndsInTime(s, n) ==
    \A c \in DOMAIN s.votes : \A p \in ParasIn(s.votes[c].causes, "upgrade") :
        IsOffboarding(s, p) =>
            \/ <<n + 2, p>> \in s.actions
            \/ <<n + 1, p>> \in s.actions /\ s.votes[c].age >= 1

\* Candidates that signal upgrades are dropped by the next session.
SignalsInTime(s, n, candidates) ==
    \A p \in DOMAIN candidates :
        candidates[p].code # NoCode /\ IsOffboarding(s, p) => <<n + 2, p>> \in s.actions

Quiet ==
    ~forced /\ LeavesQuietly =>
        /\ ~outlived
        /\ EndsInTime(st, session) /\ SignalsInTime(st, session, pending)

\* Paras begin to leave, and leaving paras ask for votes, two sessions ahead.
Calm(s, t, n) ==
    /\ s.actions \subseteq t.actions
    /\ \A p : IsOffboarding(t, p) => IsOffboarding(s, p) \/ <<n + 2, p>> \in t.actions
    /\ \A c \in DOMAIN t.votes : \A p \in ParasIn(t.votes[c].causes, "upgrade") :
          \/ /\ c \in DOMAIN s.votes /\ p \in ParasIn(s.votes[c].causes, "upgrade")
             /\ t.votes[c].age = s.votes[c].age
          \/ IsOffboarding(t, p) => <<n + 2, p>> \in t.actions

LEMMA CalmKeeps ==
    ASSUME NEW s, NEW t, NEW n, Calm(s, t, n), NEW some, NEW all,
           DOMAIN some \subseteq DOMAIN all, \A p \in DOMAIN some : some[p] = all[p],
           EndsInTime(s, n), SignalsInTime(s, n, all)
    PROVE  EndsInTime(t, n) /\ SignalsInTime(t, n, some)
<1>1. EndsInTime(t, n)
  <2> SUFFICES ASSUME NEW c \in DOMAIN t.votes,
                      NEW p \in ParasIn(t.votes[c].causes, "upgrade"), IsOffboarding(t, p),
                      <<n + 2, p>> \notin t.actions
               PROVE  <<n + 1, p>> \in t.actions /\ t.votes[c].age >= 1
    BY DEF EndsInTime
  <2>1. /\ c \in DOMAIN s.votes /\ p \in ParasIn(s.votes[c].causes, "upgrade")
        /\ t.votes[c].age = s.votes[c].age /\ IsOffboarding(s, p) /\ s.actions \subseteq t.actions
    BY DEF Calm
  <2>2. <<n + 2, p>> \in s.actions \/ (<<n + 1, p>> \in s.actions /\ s.votes[c].age >= 1)
    BY <2>1 DEF EndsInTime
  <2> QED BY <2>1, <2>2
<1>2. SignalsInTime(t, n, some)
  BY DEF Calm, SignalsInTime
<1> QED BY <1>1, <1>2

\* Nothing that matters here changes.
LEMMA CalmSame ==
    ASSUME NEW s, NEW t, NEW n, t.lifecycles = s.lifecycles, t.actions = s.actions,
           t.votes = s.votes
    PROVE  Calm(s, t, n)
BY DEF Calm, IsOffboarding

LEMMA CalmCall ==
    ASSUME IInv, Quiet, NEW s, Called(s), UNCHANGED forced,
           ~forced /\ LeavesQuietly => Calm(st, s, session)
    PROVE  Quiet'
<1>1. /\ st' = s /\ session' = session /\ pending' = pending /\ outlived' = outlived
      /\ forced' = forced
  BY DEF Called
<1>2. ASSUME ~forced, LeavesQuietly
      PROVE  ~outlived /\ EndsInTime(s, session) /\ SignalsInTime(s, session, pending)
  <2>1. /\ ~outlived /\ EndsInTime(st, session) /\ SignalsInTime(st, session, pending)
        /\ Calm(st, s, session)
    BY <1>2 DEF Quiet
  <2> QED BY <2>1, CalmKeeps
<1> QED BY <1>1, <1>2 DEF Quiet

LEMMA AcceptCalm ==
    ASSUME NEW s, NEW t, NEW c, NEW causes, Accepts(s, t, c, causes), NEW n
    PROVE  Calm(s, t, n)
<1>1. t.lifecycles = s.lifecycles
  BY DEF Accepts, Same, Fields
<1>2. t.votes = Without(s.votes, {c}) /\ s.actions \subseteq t.actions
  BY DEF Accepts
<1>3. \A d \in DOMAIN t.votes : d \in DOMAIN s.votes /\ t.votes[d] = s.votes[d]
  BY <1>2 DEF Without
<1> QED BY <1>1, <1>2, <1>3 DEF Calm, IsOffboarding

LEMMA RejectCalm ==
    ASSUME NEW s, NEW t, NEW kept, NEW v, Splits(s.votes, kept, v), Rejects(s, t, kept, v),
           \A c \in DOMAIN kept : kept[c].age = s.votes[c].age, NEW n
    PROVE  Calm(s, t, n)
<1>1. /\ t.actions = s.actions
      /\ t.lifecycles = Without(s.lifecycles, AskedBy(v, "onboarding")) /\ t.votes = kept
  BY DEF Rejects, Same, Fields
<1>2. \A p : IsOffboarding(t, p) => IsOffboarding(s, p)
  BY <1>1 DEF IsOffboarding, GetOr, Without
<1>3. \A c \in DOMAIN kept : c \in DOMAIN s.votes /\ kept[c].causes = s.votes[c].causes
  BY DEF Splits
<1> QED BY <1>1, <1>2, <1>3 DEF Calm

LEMMA OnboardCalm ==
    ASSUME NEW s, NEW t, NEW p \in ParaIds, NEW c \in Codes, Onboards(s, t, p, c), NEW n
    PROVE  Calm(s, t, n)
<1>1. t.lifecycles = Put(s.lifecycles, p, "Onboarding") /\ s.actions \subseteq t.actions
  BY DEF Onboards, QueuedOnce
<1>2. \A q : IsOffboarding(t, q) => IsOffboarding(s, q)
  BY <1>1 DEF IsOffboarding, GetOr, Put
<1>3. ASSUME NEW d \in DOMAIN t.votes, NEW q \in ParasIn(t.votes[d].causes, "upgrade")
      PROVE  /\ d \in DOMAIN s.votes /\ q \in ParasIn(s.votes[d].causes, "upgrade")
             /\ t.votes[d].age = s.votes[d].age
  <2>1. CASE FastTracked(s, c)
    BY <1>3, <2>1 DEF Onboards
  <2>2. CASE ~FastTracked(s, c)
    <3>1. MoreAsked(s.votes, t.votes, c, Onboarding(p)) /\ Onboarding(p).kind = "onboarding"
      BY <2>2, VoteTypes DEF Onboards
    <3>2. CASE d = c
      BY <1>3, <3>1, <3>2 DEF MoreAsked
    <3>3. CASE d # c
      BY <1>3, <3>1, <3>3 DEF MoreAsked
    <3> QED BY <3>2, <3>3
  <2> QED BY <2>1, <2>2
<1> QED BY <1>1, <1>2, <1>3 DEF Calm

LEMMA SignalCalm ==
    ASSUME NEW s, NEW t, NEW p \in ParaIds, NEW c \in Codes, NEW r \in Nat,
           Signals(s, t, p, c, r), NEW n, IsOffboarding(s, p) => <<n + 2, p>> \in s.actions
    PROVE  Calm(s, t, n)
<1>1. t.lifecycles = s.lifecycles /\ t.actions = s.actions
  BY DEF Signals, Same, Fields
<1>2. \A q : IsOffboarding(t, q) <=> IsOffboarding(s, q)
  BY <1>1 DEF IsOffboarding
<1>3. ASSUME NEW d \in DOMAIN t.votes, NEW q \in ParasIn(t.votes[d].causes, "upgrade")
      PROVE  \/ q = p
             \/ /\ d \in DOMAIN s.votes /\ q \in ParasIn(s.votes[d].causes, "upgrade")
                /\ t.votes[d].age = s.votes[d].age
  <2>1. CASE FastTracked(s, c)
    BY <1>3, <2>1 DEF Signals
  <2>2. CASE ~FastTracked(s, c)
    <3>1. MoreAsked(s.votes, t.votes, c, Upgrade(p, r)) /\ Upgrade(p, r).para = p
      BY <2>2, VoteTypes DEF Signals
    <3>2. CASE d = c
      BY <1>3, <3>1, <3>2 DEF MoreAsked
    <3>3. CASE d # c
      BY <1>3, <3>1, <3>3 DEF MoreAsked
    <3> QED BY <3>2, <3>3
  <2> QED BY <2>1, <2>2
<1> QED BY <1>1, <1>2, <1>3 DEF Calm

LEMMA InitQuiet == Init => Quiet
<1> SUFFICES ASSUME Init PROVE Quiet
  OBVIOUS
<1>1. ~outlived /\ DOMAIN pending = {}
  BY DEF Init, EmptyMap
<1>2. st.votes = EmptyMap
  BY DEF Init, GenesisStore
<1>3. DOMAIN st.votes = {}
  BY <1>2 DEF EmptyMap
<1> QED BY <1>1, <1>3 DEF Quiet, EndsInTime, SignalsInTime

LEMMA BackQuiet ==
    ASSUME Quiet, NEW p \in ParaIds, NEW c \in Codes \union {NoCode}, Back(p, c)
    PROVE  Quiet'
<1>1. /\ pending' = Put(pending, p, [relay_parent |-> now - 1, code |-> c])
      /\ session' = session /\ st' = st /\ forced' = forced /\ outlived' = outlived
      /\ c # NoCode /\ ~LateUpgrades => ~IsOffboarding(st, p)
  BY DEF Back
<1>2. /\ DOMAIN pending' = DOMAIN pending \union {p} /\ pending'[p].code = c
      /\ \A q \in DOMAIN pending : q # p => pending'[q] = pending[q]
  BY <1>1 DEF Put
<1>3. ASSUME ~forced, LeavesQuietly PROVE SignalsInTime(st, session, pending')
  BY <1>1, <1>2, <1>3 DEF Quiet, SignalsInTime, LeavesQuietly
<1> QED BY <1>1, <1>3 DEF Quiet

LEMMA EnactQuiet ==
    ASSUME IInv, Quiet, NEW p \in ParaIds, Enact(p)
    PROVE  Quiet'
<1> DEFINE c == pending[p].code
           r == pending[p].relay_parent
           s == IF c = NoCode THEN st ELSE schedule_code_upgrade(st, p, c, r)
<1>1. /\ p \in DOMAIN pending /\ st' = note_new_head(s, p, r)
      /\ pending' = Without(pending, {p}) /\ session' = session
      /\ forced' = forced /\ outlived' = outlived
  BY DEF Enact
<1>2. /\ now \in Nat /\ session \in Nat /\ IsStore(st)
      /\ IsMap(pending, ParaIds, [relay_parent : Nat, code : Codes \union {NoCode}])
  BY DEF IInv, TypeOK
<1>3. c \in Codes \union {NoCode} /\ r \in Nat
  BY <1>1, <1>2 DEF IsMap
<1>4. s = IF c = NoCode THEN st ELSE schedule_code_upgrade(st, p, c, r)
  OBVIOUS
<1> HIDE DEF s
<1>5. ASSUME ~forced, LeavesQuietly PROVE Calm(st, s, session)
  <2>1. CASE c = NoCode \/ UpgradeDropped(st, p, c)
    <3>1. s = st
      BY <1>4, <2>1 DEF schedule_code_upgrade
    <3> QED BY <3>1, CalmSame
  <2>2. CASE c # NoCode /\ ~UpgradeDropped(st, p, c)
    <3>1. IsOffboarding(st, p) => <<session + 2, p>> \in st.actions
      BY <1>1, <1>5, <2>2 DEF Quiet, SignalsInTime
    <3> HIDE DEF c, r
    <3>2. c \in Codes /\ s = schedule_code_upgrade(st, p, c, r)
      BY <1>3, <1>4, <2>2
    <3>3. Signals(st, s, p, c, r)
      BY <1>2, <1>3, <2>2, <3>2, SignalsIs
    <3> QED BY <1>3, <3>1, <3>2, <3>3, SignalCalm
  <2> QED BY <2>1, <2>2
<1> HIDE DEF c, r
<1>6. IsStore(s)
  BY <1>2, <1>3, <1>4, UpgradeKeeps
<1>7. /\ st'.lifecycles = s.lifecycles /\ st'.actions = s.actions /\ st'.votes = s.votes
  <2>1. Same(s, st', {"heads", "upgrade_at", "go_ahead", "future", "current", "meta", "past",
                      "pruning"})
    BY <1>1, <1>2, <1>6, NewHeadIs
  <2> QED BY <2>1 DEF Same, Fields
<1>8. ASSUME ~forced, LeavesQuietly
      PROVE  ~outlived /\ EndsInTime(st', session) /\ SignalsInTime(st', session, pending')
  <2>1. /\ ~outlived /\ EndsInTime(st, session) /\ SignalsInTime(st, session, pending)
        /\ Calm(st, s, session)
    BY <1>5, <1>8 DEF Quiet
  <2>2. DOMAIN pending' \subseteq DOMAIN pending /\ \A q \in DOMAIN pending' : pending'[q] = pending[q]
    BY <1>1 DEF Without
  <2>3. EndsInTime(s, session) /\ SignalsInTime(s, session, pending')
    BY <2>1, <2>2, CalmKeeps
  <2> QED BY <1>7, <2>1, <2>3 DEF EndsInTime, SignalsInTime, IsOffboarding
<1> QED BY <1>1, <1>8 DEF Quiet

LEMMA InitializeQuiet ==
    ASSUME IInv, Quiet, NEW p \in ParaIds, NEW c \in Codes, NEW parachain \in BOOLEAN,
           schedule_para_initialize(p, c, parachain)
    PROVE  Quiet'
<1> DEFINE t == kick_off_pvf_check(Registering(st, p, c, parachain), Onboarding(p), c)
<1>1. Called(t) /\ UNCHANGED forced
  BY DEF schedule_para_initialize, Registering
<1>2. now \in Nat /\ session \in Nat /\ IsStore(st)
  BY DEF IInv, TypeOK
<1>3. Onboards(st, t, p, c)
  BY <1>2, OnboardsIs
<1> HIDE DEF t
<1> QED BY <1>1, <1>3, OnboardCalm, CalmCall

LEMMA ScheduledQuiet ==
    ASSUME IInv, Quiet, NEW p \in DOMAIN st.lifecycles, NEW l, Scheduled(p, l)
    PROVE  Quiet'
<1> DEFINE t == [st EXCEPT !.lifecycles[p] = l, !.actions = @ \union {<<scheduled_session, p>>}]
<1>1. Called(t) /\ UNCHANGED forced
  BY DEF Scheduled
<1>2. session \in Nat /\ IsStore(st)
  BY DEF IInv, TypeOK
<1>3. /\ Same(st, t, {"lifecycles", "actions"})
      /\ t.lifecycles = [st.lifecycles EXCEPT ![p] = l]
      /\ t.actions = st.actions \union {<<session + 2, p>>}
  BY <1>2 DEF IsStore, Shape, Fields, Same, scheduled_session, SESSION_DELAY
<1> HIDE DEF t
<1>4. t.votes = st.votes
  BY <1>3 DEF Same, Fields
<1>5. \A q : IsOffboarding(t, q) => IsOffboarding(st, q) \/ q = p
  BY <1>3 DEF IsOffboarding, GetOr
<1>6. Calm(st, t, session)
  BY <1>3, <1>4, <1>5 DEF Calm
<1> QED BY <1>1, <1>6, CalmCall

LEMMA TransitionQuiet ==
    ASSUME IInv, Quiet, NEW p \in ParaIds,
           \/ schedule_para_cleanup(p) \/ schedule_parathread_upgrade(p)
           \/ schedule_parachain_downgrade(p)
    PROVE  Quiet'
<1>1. GetOr(st.lifecycles, p, "none") \in {"Parathread", "Parachain"} => p \in DOMAIN st.lifecycles
  BY DEF GetOr
<1>2. PICK l \in LifecycleNames : Scheduled(p, l)
  BY DEF schedule_para_cleanup, schedule_parathread_upgrade, schedule_parachain_downgrade,
         LifecycleNames
<1>3. p \in DOMAIN st.lifecycles
  BY <1>1 DEF schedule_para_cleanup, schedule_parathread_upgrade, schedule_parachain_downgrade
<1> QED BY <1>2, <1>3, ScheduledQuiet

LEMMA VoteQuiet ==
    ASSUME IInv, Quiet, NEW c \in Codes, NEW v \in Validators, NEW ok \in BOOLEAN,
           include_pvf_check_statement(c, v, ok)
    PROVE  Quiet'
<1> DEFINE vote == VoteOf(c, v, ok)
           over == [st EXCEPT !.votes = Without(@, {c})]
           kept == Without(st.votes, {c})
           t == [st EXCEPT !.votes[c] = vote]
           w == [d \in {c} |-> vote]
<1>1. c \in DOMAIN st.votes /\ UNCHANGED forced
  BY DEF include_pvf_check_statement
<1>2. \/ Called(enact_pvf_rejected(over, w))
      \/ Called(enact_pvf_accepted(over, vote.causes, vote.age))
      \/ Called(t)
  BY DEF include_pvf_check_statement
<1>3. now \in Nat /\ session \in Nat /\ IsStore(st)
  BY DEF IInv, TypeOK
<1>4. st.votes[c] \in Vote /\ IsMap(st.votes, Codes, Vote)
  BY <1>1, <1>3 DEF IsStore, StoreOK, IsMap
<1>5. vote \in Vote /\ vote.causes = st.votes[c].causes /\ vote.age = st.votes[c].age
  BY <1>4 DEF VoteOf, Vote
<1>6. over = WithVotes(st, kept)
  BY <1>3 DEF WithVotes, IsStore, Shape, Fields
<1>7. CASE Called(enact_pvf_rejected(over, w))
  <2>1. Splits(st.votes, kept, w) /\ \A d \in DOMAIN kept : kept[d].age = st.votes[d].age
    <3> HIDE DEF vote
    <3>1. DOMAIN w = {c} /\ w[c] = vote
      OBVIOUS
    <3>2. /\ DOMAIN kept = DOMAIN st.votes \ {c} /\ \A d \in DOMAIN kept : kept[d] = st.votes[d]
      BY DEF Without
    <3> HIDE DEF w, kept
    <3> QED BY <1>1, <1>4, <1>5, <3>1, <3>2 DEF Splits, IsMap
  <2> DEFINE u == enact_pvf_rejected(WithVotes(st, kept), w)
  <2>2. Called(u)
    BY <1>6, <1>7
  <2> HIDE DEF w, kept
  <2>3. Rejects(st, u, kept, w)
    BY <1>3, <2>1, RejectVotesIs
  <2> HIDE DEF u
  <2>4. Calm(st, u, session)
    BY <2>1, <2>3, RejectCalm
  <2> QED BY <1>1, <2>2, <2>4, CalmCall
<1>8. CASE Called(enact_pvf_accepted(over, vote.causes, vote.age))
  <2> DEFINE u == AcceptVote(st, c, vote.age)
  <2>1. Called(u)
    BY <1>5, <1>6, <1>8 DEF AcceptVote
  <2>2. vote.age \in Nat
    BY <1>5 DEF Vote
  <2> HIDE DEF vote
  <2>3. Accepts(st, u, c, st.votes[c].causes)
    BY <1>1, <1>3, <2>2, AcceptVoteIs
  <2> HIDE DEF u
  <2>4. Calm(st, u, session)
    BY <2>3, AcceptCalm
  <2> QED BY <1>1, <2>1, <2>4, CalmCall
<1>9. CASE Called(t)
  <2> HIDE DEF vote
  <2>1. Same(st, t, {"votes"}) /\ t.votes = [st.votes EXCEPT ![c] = vote]
    BY <1>3 DEF IsStore, Shape, Fields, Same
  <2> HIDE DEF t
  <2>2. t.actions = st.actions /\ t.lifecycles = st.lifecycles
    BY <2>1 DEF Same, Fields
  <2>3. /\ DOMAIN t.votes = DOMAIN st.votes
        /\ \A d \in DOMAIN st.votes : /\ t.votes[d].causes = st.votes[d].causes
                                      /\ t.votes[d].age = st.votes[d].age
    BY <1>1, <1>5, <2>1
  <2>4. Calm(st, t, session)
    BY <2>2, <2>3 DEF Calm, IsOffboarding
  <2> QED BY <1>1, <1>9, <2>4, CalmCall
<1> QED BY <1>2, <1>7, <1>8, <1>9

LEMMA StoredQuiet ==
    ASSUME IInv, Quiet, NEW more, Called([st EXCEPT !.stored = more]), UNCHANGED forced
    PROVE  Quiet'
<1> DEFINE t == [st EXCEPT !.stored = more]
<1>1. Same(st, t, {"stored"}) /\ Called(t)
  BY DEF IInv, IsStore, Shape, Fields, Same
<1> HIDE DEF t
<1>2. t.actions = st.actions /\ t.lifecycles = st.lifecycles /\ t.votes = st.votes
  BY <1>1 DEF Same, Fields
<1> QED BY <1>1, <1>2, CalmSame, CalmCall

LEMMA TrustQuiet ==
    ASSUME IInv, Quiet, NEW c \in Codes, add_trusted_validation_code(c)
    PROVE  Quiet'
<1>1. IsStore(st) /\ now \in Nat /\ session \in Nat
  BY DEF IInv, TypeOK
<1>2. UNCHANGED forced
  BY DEF add_trusted_validation_code
<1>3. CASE /\ c \in DOMAIN st.votes
           /\ Called(enact_pvf_accepted([st EXCEPT !.votes = Without(@, {c})],
                                        st.votes[c].causes, st.votes[c].age))
  <2> DEFINE u == AcceptVote(st, c, st.votes[c].age)
  <2>1. [st EXCEPT !.votes = Without(@, {c})] = WithVotes(st, Without(st.votes, {c}))
    BY <1>1 DEF WithVotes, IsStore, Shape, Fields
  <2>2. Called(u)
    BY <1>3, <2>1 DEF AcceptVote
  <2>3. st.votes[c].age \in Nat
    BY <1>1, <1>3 DEF IsStore, StoreOK, IsMap, Vote
  <2>4. Accepts(st, u, c, st.votes[c].causes)
    BY <1>1, <1>3, <2>3, AcceptVoteIs
  <2> HIDE DEF u
  <2>5. Calm(st, u, session)
    BY <2>4, AcceptCalm
  <2> QED BY <1>2, <2>2, <2>5, CalmCall
<1>4. CASE Called([st EXCEPT !.stored = @ \union {c}])
  BY <1>2, <1>4, StoredQuiet
<1> QED BY <1>3, <1>4 DEF add_trusted_validation_code

LEMMA PokeQuiet ==
    ASSUME IInv, Quiet, NEW c \in Codes, poke_unused_validation_code(c)
    PROVE  Quiet'
BY StoredQuiet DEF poke_unused_validation_code

LEMMA EndBlockQuiet ==
    ASSUME IInv, Quiet, EndBlock
    PROVE  Quiet'
<1> DEFINE s == process_scheduled_upgrade_cooldowns(st, now)
<1>1. /\ st' = initializer_initialize(s, now + 1)
      /\ session' = session /\ pending' = pending /\ forced' = forced /\ outlived' = outlived
  BY DEF EndBlock
<1>2. now + 1 \in Nat /\ IsStore(st) /\ IsStore(s)
  BY CooldownsKeep DEF IInv, TypeOK
<1>3. Same(st, s, {"restricted"})
  BY <1>2, CooldownsFields DEF IsStore
<1> HIDE DEF s
<1>4. Same(s, st', {"refs", "stored", "pruning", "past", "meta", "upcoming", "go_ahead"})
  BY <1>1, <1>2, BlockStarts
<1>5. /\ st'.lifecycles = st.lifecycles /\ st'.actions = st.actions /\ st'.votes = st.votes
  BY <1>3, <1>4 DEF Same, Fields
<1> QED BY <1>1, <1>5 DEF Quiet, EndsInTime, SignalsInTime, IsOffboarding

\* A vote that goes on after a session change was started in the session before
\* it, so that none of its paras has left.
LEMMA SessionQuiet ==
    ASSUME LeavesQuietly, NEW s, IsStore(s), NEW n \in Nat, now \in Nat, Lifecycles(s),
           UpgradesAsked(s), ~Outlives(s), EndsInTime(s, n),
           NEW q, q = apply_actions_queue(s, n + 1),
           NEW g, g = groom_ongoing_pvf_votes(q)
    PROVE  ~Outlives(g) /\ EndsInTime(g, n + 1)
<1> DEFINE a == Applied(s, n + 1)
           gone == GoneParas(s, n + 1)
           w == Groomed(q.votes)
           e == Ended(q.votes)
<1>1. /\ q = Offboard(a, gone) /\ IsStore(a) /\ IsStore(q) /\ gone \in SUBSET ParaIds
      /\ n + 1 \in Nat
  BY QueueIs
<1>2. Applies(s, a, n + 1)
  BY <1>1, AppliesIs
<1>3. Offboards(a, q, gone)
  <2> HIDE DEF a, gone
  <2> QED BY <1>1, OffboardsIs
<1>4. g = enact_pvf_rejected(WithVotes(q, w), e) /\ Splits(q.votes, w, e)
  BY <1>1, GroomIs
<1>5. Rejects(q, g, w, e)
  <2> HIDE DEF w, e
  <2> QED BY <1>1, <1>4, RejectVotesIs
<1>6. \A p : p \in gone <=> p \in ParaIds /\ <<n + 1, p>> \in s.actions /\ IsOffboarding(s, p)
  BY DEF GoneParas, DueParas
<1> HIDE DEF a, gone
<1>7. /\ q.votes = s.votes /\ q.future = Without(s.future, gone)
      /\ q.actions = s.actions \ ({n + 1} \X ParaIds)
      /\ q.lifecycles = Without(a.lifecycles, gone)
  <2>1. a.votes = s.votes /\ a.future = s.future /\ a.actions = s.actions \ ({n + 1} \X ParaIds)
    BY <1>2 DEF Applies, Same, Fields
  <2>2. /\ q.votes = a.votes /\ q.future = Without(a.future, gone) /\ q.actions = a.actions
        /\ q.lifecycles = Without(a.lifecycles, gone)
    BY <1>3 DEF Offboards, Same, Fields
  <2> QED BY <2>1, <2>2
<1>8. /\ g.votes = w /\ g.future = Without(q.future, AskedBy(e, "upgrade"))
      /\ g.actions = q.actions
      /\ g.lifecycles = Without(q.lifecycles, AskedBy(e, "onboarding"))
  BY <1>5 DEF Rejects, Same, Fields
<1>9. ASSUME NEW c \in DOMAIN w, NEW p \in ParasIn(w[c].causes, "upgrade")
      PROVE  /\ c \in DOMAIN s.votes /\ p \in ParasIn(s.votes[c].causes, "upgrade")
             /\ p \in ParaIds /\ p \notin gone /\ w[c].age >= 1
             /\ p \in DOMAIN s.future /\ s.future[p] = c
             /\ IsOffboarding(s, p) => <<n + 2, p>> \in s.actions
  <2>1. /\ c \in DOMAIN s.votes /\ ~(s.votes[c].age + 1 >= VotingTtl)
        /\ w[c] = [s.votes[c] EXCEPT !.age = @ + 1, !.accept = {}, !.reject = {}]
    BY <1>7, <1>9 DEF Groomed, TooOld
  <2>2. s.votes[c] \in Vote
    BY <2>1 DEF IsStore, StoreOK, IsMap
  <2>3. /\ w[c].causes = s.votes[c].causes /\ w[c].age = s.votes[c].age + 1
        /\ s.votes[c].age \in Nat /\ s.votes[c].causes \in Seq(Cause)
    BY <2>1, <2>2 DEF Vote
  <2>4. s.votes[c].age = 0
    BY <2>1, <2>3, ParasAssumption DEF LeavesQuietly, SESSION_DELAY
  <2>5. p \in ParasIn(s.votes[c].causes, "upgrade") /\ p \in ParaIds
    BY <1>9, <2>3, ParasInSubset
  <2>6. ASSUME IsOffboarding(s, p) PROVE <<n + 2, p>> \in s.actions
    <3>1. \/ <<n + 2, p>> \in s.actions
          \/ <<n + 1, p>> \in s.actions /\ s.votes[c].age >= 1
      BY <2>1, <2>5, <2>6 DEF EndsInTime
    <3>2. ~(s.votes[c].age >= 1)
      BY <2>4
    <3> QED BY <3>1, <3>2
  <2>7. p \notin gone
    <3> SUFFICES ASSUME p \in gone PROVE FALSE
      OBVIOUS
    <3>1. <<n + 1, p>> \in s.actions /\ <<n + 2, p>> \in s.actions /\ n + 1 \in Nat /\ n + 2 \in Nat
      BY <1>6, <2>6
    <3>2. n + 1 = n + 2
      BY <2>5, <3>1 DEF Lifecycles, ActionsSound
    <3> QED BY <3>2
  <2>8. p \in DOMAIN s.future
    BY <2>1, <2>5, OutlivesIs
  <2>9. s.future[p] = c
    BY <2>1, <2>5, <2>8 DEF UpgradesAsked
  <2> QED BY <2>1, <2>3, <2>4, <2>5, <2>6, <2>7, <2>8, <2>9
<1>10. ASSUME NEW c \in DOMAIN w, NEW p \in ParasIn(w[c].causes, "upgrade")
       PROVE  p \in DOMAIN g.future
  <2>1. /\ p \in DOMAIN q.future /\ p \in DOMAIN s.future /\ s.future[p] = c
    BY <1>7, <1>9, <1>10 DEF Without
  <2>2. p \notin AskedBy(e, "upgrade")
    <3> SUFFICES ASSUME p \in AskedBy(e, "upgrade") PROVE FALSE
      OBVIOUS
    <3>1. PICK d \in DOMAIN e : p \in ParasIn(e[d].causes, "upgrade")
      BY AskedByIs
    <3>2. /\ d \in DOMAIN s.votes /\ p \in ParasIn(s.votes[d].causes, "upgrade") /\ d # c
      BY <1>4, <1>7, <1>10, <3>1 DEF Splits
    <3>3. s.future[p] = d
      BY <2>1, <3>2 DEF UpgradesAsked
    <3> QED BY <2>1, <3>2, <3>3
  <2> QED BY <1>8, <2>1, <2>2 DEF Without
<1>11. ASSUME NEW p, IsOffboarding(g, p) PROVE IsOffboarding(s, p)
  <2>1. /\ p \in DOMAIN a.lifecycles
        /\ a.lifecycles[p] \in {"OffboardingParachain", "OffboardingParathread"}
    BY <1>7, <1>8, <1>11 DEF IsOffboarding, GetOr, Without
  <2>2. /\ p \in DOMAIN s.lifecycles
        /\ a.lifecycles[p] = s.lifecycles[p] \/ a.lifecycles[p] = AfterAction(s, p)
    BY <1>2, <2>1 DEF Applies
  <2>3. s.lifecycles[p] \in {"OffboardingParachain", "OffboardingParathread"}
    BY <2>1, <2>2 DEF AfterAction
  <2> QED BY <2>2, <2>3 DEF IsOffboarding, GetOr
<1> HIDE DEF w, e
<1>12. ~Outlives(g)
  <2>1. \A c \in DOMAIN g.votes : \A p \in ParasIn(g.votes[c].causes, "upgrade") : p \in DOMAIN g.future
    BY <1>8, <1>10
  <2> QED BY <2>1, OutlivesIs
<1>13. EndsInTime(g, n + 1)
  <2> SUFFICES ASSUME NEW c \in DOMAIN w, NEW p \in ParasIn(w[c].causes, "upgrade"),
                      IsOffboarding(g, p)
               PROVE  <<(n + 1) + 1, p>> \in g.actions /\ w[c].age >= 1
    BY <1>8 DEF EndsInTime
  <2>1. <<n + 2, p>> \in s.actions /\ w[c].age >= 1
    BY <1>9, <1>11
  <2>2. (n + 1) + 1 = n + 2 /\ n + 2 # n + 1
    OBVIOUS
  <2> QED BY <1>7, <1>8, <2>1, <2>2
<1> QED BY <1>12, <1>13

LEMMA NewSessionQuiet ==
    ASSUME IInv, Quiet, NewSession
    PROVE  Quiet'
<1> DEFINE s == process_scheduled_upgrade_cooldowns(st, now)
           q == apply_actions_queue(s, session + 1)
           g == groom_ongoing_pvf_votes(q)
<1>1. /\ session' = session + 1 /\ pending' = EmptyMap
      /\ st' = initializer_initialize(g, now + 1)
      /\ outlived' = (outlived \/ Outlives(g)) /\ forced' = forced
  BY DEF NewSession, initializer_on_new_session
<1>2. /\ now \in Nat /\ session \in Nat /\ now + 1 \in Nat /\ session + 1 \in Nat
      /\ IsStore(st) /\ IsStore(s)
  BY CooldownsKeep DEF IInv, TypeOK
<1>3. s = process_scheduled_upgrade_cooldowns(st, now)
  OBVIOUS
<1> HIDE DEF s
<1>4. Same(st, s, {"restricted"})
  BY <1>2, <1>3, CooldownsFields DEF IsStore
<1>5. /\ s.lifecycles = st.lifecycles /\ s.actions = st.actions /\ s.votes = st.votes
  BY <1>4 DEF Same, Fields
<1>6. q = apply_actions_queue(s, session + 1)
  OBVIOUS
<1> HIDE DEF q
<1>7. g = groom_ongoing_pvf_votes(q)
  OBVIOUS
<1> HIDE DEF g
<1>8. IsStore(q)
  BY <1>2, <1>6, QueueIs
<1>9. IsStore(g)
  <2> DEFINE w == Groomed(q.votes)
             e == Ended(q.votes)
  <2>1. g = enact_pvf_rejected(WithVotes(q, w), e) /\ Splits(q.votes, w, e)
    BY <1>7, <1>8, GroomIs
  <2> HIDE DEF w, e
  <2> QED BY <1>8, <2>1, RejectVotesIs
<1>10. /\ st'.lifecycles = g.lifecycles /\ st'.actions = g.actions /\ st'.votes = g.votes
  <2>1. Same(g, st', {"refs", "stored", "pruning", "past", "meta", "upcoming", "go_ahead"})
    BY <1>1, <1>2, <1>9, BlockStarts
  <2> QED BY <2>1 DEF Same, Fields
<1>11. ASSUME ~forced, LeavesQuietly PROVE ~outlived' /\ EndsInTime(st', session + 1)
  <2>1. ~outlived /\ EndsInTime(st, session)
    BY <1>11 DEF Quiet
  <2>2. Lifecycles(s) /\ CodesSound(s, now, now, accepted, replaced) /\ ~Outlives(s)
    BY <1>3, <1>11, <2>1, CooldownsKeep DEF Undisturbed
  <2>3. UpgradesAsked(s)
    BY <2>2 DEF CodesSound
  <2>4. EndsInTime(s, session)
    BY <1>5, <2>1 DEF EndsInTime, IsOffboarding
  <2>5. ~Outlives(g) /\ EndsInTime(g, session + 1)
    BY <1>2, <1>6, <1>7, <1>11, <2>2, <2>3, <2>4, SessionQuiet
  <2>6. EndsInTime(st', session + 1)
    BY <1>10, <2>5 DEF EndsInTime, IsOffboarding
  <2> QED BY <1>1, <2>1, <2>5, <2>6
<1>12. DOMAIN pending' = {}
  BY <1>1 DEF EmptyMap
<1> QED BY <1>1, <1>11, <1>12 DEF Quiet, SignalsInTime

-----------------------------------------------------------------------------
(* The invariant and the theorems.                                         *)

LEMMA GenesisFields ==
    ASSUME NEW s, s = GenesisStore
    PROVE  /\ Shape(s)
           /\ s.lifecycles = [p \in GenesisParas |-> "Parachain"]
           /\ s.parachains = GenesisParas /\ s.heads = GenesisParas
           /\ s.current = [p \in GenesisParas |-> GenesisCode]
           /\ s.future = EmptyMap /\ s.upgrade_at = EmptyMap /\ s.past = EmptyMap
           /\ s.meta = [p \in ParaIds |-> <<>>] /\ s.pruning = {} /\ s.go_ahead = EmptyMap
           /\ s.restricted = {} /\ s.cooldowns = {} /\ s.upcoming = {} /\ s.actions = {}
           /\ s.genesis = EmptyMap /\ s.stored = {GenesisCode} /\ s.votes = EmptyMap
           /\ s.refs = [c \in Codes |-> IF c = GenesisCode THEN Cardinality(GenesisParas) ELSE 0]
BY DEF GenesisStore, Shape, Fields

LEMMA GenesisSound ==
    ASSUME NEW s, s = GenesisStore
    PROVE  /\ IsStore(s) /\ NeverStuck(s, 0) /\ Lifecycles(s)
           /\ CodesSound(s, 1, 1, {GenesisCode}, {}) /\ ~Outlives(s)
<1>1. /\ Shape(s)
      /\ s.lifecycles = [p \in GenesisParas |-> "Parachain"]
      /\ s.parachains = GenesisParas /\ s.heads = GenesisParas
      /\ s.current = [p \in GenesisParas |-> GenesisCode]
      /\ s.meta = [p \in ParaIds |-> <<>>] /\ s.pruning = {}
      /\ s.restricted = {} /\ s.cooldowns = {} /\ s.upcoming = {} /\ s.actions = {}
      /\ s.stored = {GenesisCode}
      /\ s.refs = [c \in Codes |-> IF c = GenesisCode THEN Cardinality(GenesisParas) ELSE 0]
  BY GenesisFields
<1>2. /\ DOMAIN s.future = {} /\ DOMAIN s.upgrade_at = {} /\ DOMAIN s.past = {}
      /\ DOMAIN s.go_ahead = {} /\ DOMAIN s.genesis = {} /\ DOMAIN s.votes = {}
  BY GenesisFields DEF EmptyMap
<1>3. IsFiniteSet(GenesisParas) /\ Cardinality(GenesisParas) \in Nat
  BY ParasAssumption, FS_Subset, FS_CardinalityType
<1>4. IsStore(s)
  <2>1. IsMap(s.lifecycles, ParaIds, LifecycleNames) /\ IsMap(s.current, ParaIds, Codes)
    BY <1>1, ParasAssumption DEF IsMap, LifecycleNames
  <2>2. IsMap(s.meta, ParaIds, Seq(ReplacementTimes)) /\ DOMAIN s.meta = ParaIds
    BY <1>1 DEF IsMap
  <2>3. s.refs \in [Codes -> Nat]
    BY <1>1, <1>3
  <2>4. s.stored \subseteq Codes /\ s.parachains \subseteq ParaIds /\ s.heads \subseteq ParaIds
    BY <1>1, ParasAssumption
  <2>5. /\ IsMap(s.future, ParaIds, Codes) /\ IsMap(s.upgrade_at, ParaIds, Nat)
        /\ IsMap(s.past, ParaIds \X Nat, Codes) /\ IsMap(s.go_ahead, ParaIds, {"GoAhead", "Abort"})
        /\ IsMap(s.genesis, ParaIds, BOOLEAN) /\ IsMap(s.votes, Codes, Vote)
    BY <1>2 DEF IsMap
  <2>6. IsFiniteSet(DOMAIN s.past)
    BY <1>2, FS_EmptySet
  <2> QED BY <1>1, <2>1, <2>2, <2>3, <2>4, <2>5, <2>6 DEF IsStore, StoreOK
<1>5. NeverStuck(s, 0)
  BY <1>1 DEF NeverStuck, is_stable
<1>6. Lifecycles(s)
  <2>1. Registered(s)
    BY <1>1, <1>2 DEF Registered, is_parachain
  <2>2. OnboardingAsked(s)
    BY <1>2 DEF OnboardingAsked
  <2>3. ActionsSound(s)
    BY <1>1 DEF ActionsSound
  <2> QED BY <2>1, <2>2, <2>3 DEF Lifecycles
<1>7. Counted(s)
  <2> SUFFICES ASSUME NEW c \in Codes
               PROVE  s.refs[c] = Users(s, c) /\ (s.refs[c] > 0 => c \in s.stored)
    BY DEF Counted
  <2>1. FutureOf(s, c) = {} /\ PastOf(s, c) = {}
    BY <1>2 DEF FutureOf, PastOf
  <2>2. CASE c = GenesisCode
    <3>1. CurrentOf(s, c) = GenesisParas
      BY <1>1, <2>2 DEF CurrentOf
    <3>2. Users(s, c) = Cardinality(GenesisParas)
      BY <1>3, <1>4, <2>1, <3>1, UsersFinite, FS_EmptySet
    <3> QED BY <1>1, <2>2, <3>2
  <2>3. CASE c # GenesisCode
    <3>1. CurrentOf(s, c) = {}
      BY <1>1, <2>3 DEF CurrentOf
    <3>2. Users(s, c) = 0
      BY <1>4, <2>1, <3>1, NoUsers
    <3> QED BY <1>1, <2>3, <3>2
  <2> QED BY <2>2, <2>3
<1>8. VotesCounted(s) /\ UsersAsked(s) /\ UpgradesAsked(s)
  BY <1>2 DEF VotesCounted, UsersAsked, UpgradesAsked
<1>9. UpgradesAnnounced(s, 1)
  BY <1>1, <1>2 DEF UpgradesAnnounced
<1>10. Accepted(s, {GenesisCode})
  BY <1>1, <1>2 DEF Accepted
<1>11. ReplacedBefore(s, 1) /\ Retained(s, 1, {})
  BY <1>1, <1>2 DEF ReplacedBefore, Retained
<1>12. ~Outlives(s)
  BY <1>2, OutlivesIs
<1> QED BY <1>4, <1>5, <1>6, <1>7, <1>8, <1>9, <1>10, <1>11, <1>12 DEF CodesSound

LEMMA InitIInv == Init => IInv
<1> SUFFICES ASSUME Init PROVE IInv
  OBVIOUS
<1>1. /\ now = 1 /\ session = 0 /\ calls = 0 /\ pending = EmptyMap /\ st = GenesisStore
      /\ accepted = {GenesisCode} /\ replaced = {} /\ forced = FALSE /\ outlived = FALSE
  BY DEF Init
<1>2. /\ IsStore(st) /\ NeverStuck(st, 0) /\ Lifecycles(st)
      /\ CodesSound(st, 1, 1, {GenesisCode}, {}) /\ ~Outlives(st)
  BY <1>1, GenesisSound
<1>3. DOMAIN pending = {}
  BY <1>1 DEF EmptyMap
<1>4. TypeOK
  <2>1. IsMap(pending, ParaIds, [relay_parent : Nat, code : Codes \union {NoCode}])
    BY <1>3 DEF IsMap
  <2>2. StoreOK(st)
    BY <1>2 DEF IsStore
  <2>3. calls \in 0..CallsPerBlock /\ accepted \subseteq Codes
    BY <1>1, ParasAssumption
  <2>4. now \in Nat \ {0} /\ session \in Nat
    BY <1>1
  <2>5. forced \in BOOLEAN /\ outlived \in BOOLEAN
    BY <1>1
  <2>6. \A r \in replaced : r.para \in ParaIds /\ r.code \in Codes /\ r.at \in Nat
    BY <1>1
  <2> QED BY <2>1, <2>2, <2>3, <2>4, <2>5, <2>6 DEF TypeOK
<1> QED BY <1>1, <1>2, <1>3, <1>4 DEF IInv

LEMMA StutterKeeps == ASSUME IInv, UNCHANGED vars PROVE IInv'
<1>1. /\ now' = now /\ session' = session /\ calls' = calls /\ pending' = pending /\ st' = st
      /\ accepted' = accepted /\ replaced' = replaced /\ forced' = forced /\ outlived' = outlived
  BY DEF vars
<1>2. TypeOK'
  BY <1>1 DEF IInv, TypeOK
<1> QED BY <1>1, <1>2 DEF IInv, Undisturbed

LEMMA NextIInv == IInv /\ [Next]_vars => IInv'
<1> SUFFICES ASSUME IInv, [Next]_vars PROVE IInv'
  OBVIOUS
<1>1. CASE UNCHANGED vars
  BY <1>1, StutterKeeps
<1>2. ASSUME NEW p \in ParaIds, NEW c \in Codes \union {NoCode}, Back(p, c) PROVE IInv'
  BY <1>2, BackKeeps
<1>3. ASSUME NEW p \in ParaIds, Enact(p) PROVE IInv'
  BY <1>3, EnactKeeps
<1>4. ASSUME NEW p \in ParaIds, NEW c \in Codes, NEW chain \in BOOLEAN,
             schedule_para_initialize(p, c, chain)
      PROVE  IInv'
  BY <1>4, InitializeKeeps
<1>5. ASSUME NEW p \in ParaIds,
             \/ schedule_para_cleanup(p) \/ schedule_parathread_upgrade(p)
             \/ schedule_parachain_downgrade(p)
      PROVE  IInv'
  BY <1>5, TransitionKeeps
<1>6. ASSUME NEW p \in ParaIds, NEW c \in Codes, force_set_current_code(p, c) PROVE IInv'
  BY <1>6, SetCodeKeeps
<1>7. ASSUME NEW p \in ParaIds,
             \/ force_set_current_head(p) \/ force_note_new_head(p) \/ force_queue_action(p)
             \/ \E c \in Codes : force_schedule_code_upgrade(p, c)
      PROVE  IInv'
  BY <1>7, ForcedKeeps
<1>8. ASSUME NEW c \in Codes, NEW v \in Validators, NEW ok \in BOOLEAN,
             include_pvf_check_statement(c, v, ok)
      PROVE  IInv'
  BY <1>8, VoteKeeps
<1>9. ASSUME NEW c \in Codes, add_trusted_validation_code(c) PROVE IInv'
  BY <1>9, TrustKeeps
<1>10. ASSUME NEW c \in Codes, poke_unused_validation_code(c) PROVE IInv'
  BY <1>10, PokeKeeps
<1>11. CASE EndBlock
  BY <1>11, EndBlockKeeps
<1>12. CASE NewSession
  BY <1>12, NewSessionKeeps
<1>13. CASE BoundReached
  BY <1>13, StutterKeeps DEF BoundReached
<1>14. CASE Next
  BY <1>2, <1>3, <1>4, <1>5, <1>6, <1>7, <1>8, <1>9, <1>10, <1>11, <1>12, <1>13, <1>14
     DEF Next
<1> QED BY <1>1, <1>14

LEMMA NextQuiet == IInv /\ Quiet /\ [Next]_vars => Quiet'
<1> SUFFICES ASSUME IInv, Quiet, [Next]_vars PROVE Quiet'
  OBVIOUS
<1>1. CASE UNCHANGED vars
  BY <1>1 DEF vars, Quiet, EndsInTime, SignalsInTime, IsOffboarding
<1>2. ASSUME NEW p \in ParaIds, NEW c \in Codes \union {NoCode}, Back(p, c) PROVE Quiet'
  BY <1>2, BackQuiet
<1>3. ASSUME NEW p \in ParaIds, Enact(p) PROVE Quiet'
  BY <1>3, EnactQuiet
<1>4. ASSUME NEW p \in ParaIds, NEW c \in Codes, NEW chain \in BOOLEAN,
             schedule_para_initialize(p, c, chain)
      PROVE  Quiet'
  BY <1>4, InitializeQuiet
<1>5. ASSUME NEW p \in ParaIds,
             \/ schedule_para_cleanup(p) \/ schedule_parathread_upgrade(p)
             \/ schedule_parachain_downgrade(p)
      PROVE  Quiet'
  BY <1>5, TransitionQuiet
<1>6. ASSUME NEW s, Forces(s) PROVE Quiet'
  <2>1. forced' = TRUE
    BY <1>6 DEF Forces
  <2> QED BY <2>1 DEF Quiet
<1>7. ASSUME NEW p \in ParaIds,
             \/ \E c \in Codes : force_set_current_code(p, c)
             \/ force_set_current_head(p)
             \/ \E c \in Codes : force_schedule_code_upgrade(p, c)
             \/ force_note_new_head(p)
             \/ force_queue_action(p)
      PROVE  Quiet'
  BY <1>6, <1>7 DEF force_set_current_code, force_set_current_head, force_schedule_code_upgrade,
                    force_note_new_head, force_queue_action
<1>8. ASSUME NEW c \in Codes, NEW v \in Validators, NEW ok \in BOOLEAN,
             include_pvf_check_statement(c, v, ok)
      PROVE  Quiet'
  BY <1>8, VoteQuiet
<1>9. ASSUME NEW c \in Codes, add_trusted_validation_code(c) PROVE Quiet'
  BY <1>9, TrustQuiet
<1>10. ASSUME NEW c \in Codes, poke_unused_validation_code(c) PROVE Quiet'
  BY <1>10, PokeQuiet
<1>11. CASE EndBlock
  BY <1>11, EndBlockQuiet
<1>12. CASE NewSession
  BY <1>12, NewSessionQuiet
<1>13. CASE BoundReached
  BY <1>1, <1>13 DEF BoundReached
<1>14. CASE Next
  BY <1>2, <1>3, <1>4, <1>5, <1>7, <1>8, <1>9, <1>10, <1>11, <1>12, <1>13, <1>14 DEF Next
<1> QED BY <1>1, <1>14

LEMMA IInvImplies == IInv /\ Quiet => NoStuckPara /\ LifecyclesConsistent /\ CodeKept
<1> SUFFICES ASSUME IInv, Quiet PROVE NoStuckPara /\ LifecyclesConsistent /\ CodeKept
  OBVIOUS
<1>1. TypeOK /\ IsStore(st) /\ NeverStuck(st, session) /\ session \in Nat /\ now \in Nat
  BY DEF IInv, TypeOK
<1>2. NoStuckPara
  <2> SUFFICES ASSUME NEW p \in DOMAIN st.lifecycles, ~is_stable(st.lifecycles[p])
               PROVE  \/ \E n \in (session + 1)..(session + SESSION_DELAY) : <<n, p>> \in st.actions
                      \/ /\ st.lifecycles[p] = "Onboarding"
                         /\ p \in AskedBy(st.votes, "onboarding")
    BY DEF NoStuckPara
  <2>1. \/ <<session + 1, p>> \in st.actions \/ <<session + 2, p>> \in st.actions
        \/ st.lifecycles[p] = "Onboarding" /\ p \in AskedBy(st.votes, "onboarding")
    BY <1>1 DEF NeverStuck
  <2>2. session + 1 \in (session + 1)..(session + SESSION_DELAY)
        /\ session + 2 \in (session + 1)..(session + SESSION_DELAY)
    BY <1>1 DEF SESSION_DELAY
  <2> QED BY <2>1, <2>2
<1>3. ASSUME ~forced PROVE RegistrationConsistent
  <2>1. Registered(st)
    BY <1>3 DEF IInv, Lifecycles
  <2> QED BY <2>1 DEF Registered, RegistrationConsistent
<1>4. ASSUME Undisturbed PROVE UpgradeConsistent
  <2>1. UpgradesAnnounced(st, now)
    BY <1>4 DEF IInv, CodesSound
  <2>2. ASSUME NEW p \in DOMAIN st.upgrade_at
        PROVE  /\ p \in DOMAIN st.future
               /\ st.upgrade_at[p] > now <=> <<p, st.upgrade_at[p]>> \in st.upcoming
               /\ st.upgrade_at[p] <= now => GetOr(st.go_ahead, p, "") = "GoAhead"
    <3>1. p \in ParaIds /\ st.upgrade_at[p] \in Nat
      BY <1>1, <2>2 DEF IsStore, StoreOK, IsMap
    <3> QED BY <2>1, <2>2, <3>1 DEF UpgradesAnnounced, GetOr
  <2>3. \A p \in DOMAIN st.go_ahead : st.go_ahead[p] = "GoAhead" => p \in DOMAIN st.upgrade_at
    BY <2>1 DEF UpgradesAnnounced
  <2> QED BY <2>2, <2>3 DEF UpgradeConsistent
<1>5. ASSUME Undisturbed PROVE RefsExact /\ LiveCodeChecked /\ PastCodeRetained
  <2>1. Counted(st) /\ Accepted(st, accepted) /\ Retained(st, now, replaced)
    BY <1>5 DEF IInv, CodesSound
  <2>2. RefsExact
    BY <2>1 DEF Counted, RefsExact
  <2>3. LiveCodeChecked
    BY <2>1 DEF Accepted, LiveCodeChecked
  <2>4. ASSUME NEW r \in replaced, now <= r.at + Retention PROVE r.code \in st.stored
    <3>1. PICK k \in DOMAIN st.past : st.past[k] = r.code
      BY <2>1, <2>4 DEF Retained
    <3>2. r.code \in Codes
      BY <1>1, <2>4 DEF TypeOK
    <3>3. PastOf(st, r.code) # {}
      BY <3>1 DEF PastOf
    <3>4. Users(st, r.code) # 0 /\ Users(st, r.code) \in Nat
      BY <1>1, <3>3, NoUsers, UsersFinite
    <3>5. st.refs[r.code] > 0
      BY <2>1, <3>2, <3>4 DEF Counted
    <3> QED BY <2>1, <3>2, <3>5 DEF Counted
  <2>5. PastCodeRetained
    BY <2>4 DEF PastCodeRetained
  <2> QED BY <2>2, <2>3, <2>5
<1>6. LifecyclesConsistent
  BY <1>1, <1>3, <1>4 DEF LifecyclesConsistent, Quiet
<1>7. CodeKept
  BY <1>5 DEF CodeKept
<1> QED BY <1>2, <1>6, <1>7

\* A para in transition never gets stuck, whatever governance forces and
\* however its votes end: it is queued for one of the next two sessions, or it
\* is onboarding and a vote on its code is under way (apply_actions_queue,
\* proceed_with_onboarding, enact_pvf_rejected, groom_ongoing_pvf_votes).
THEOREM ParasNeverStuck == Spec => []NoStuckPara
<1>1. IInv /\ Quiet => NoStuckPara
  BY IInvImplies
<1> QED BY <1>1, InitIInv, InitQuiet, NextIInv, NextQuiet, PTL DEF Spec

\* While governance forces nothing, lifecycles, the list of parachains, heads,
\* codes and genesis data agree, and a scheduled upgrade has its code and is
\* announced exactly from the block where it is due, unless a vote on an upgrade
\* outlives its para; none does if leaving paras signal none and votes end within
\* two sessions (schedule_para_initialize, apply_actions_queue,
\* proceed_with_upgrade, process_scheduled_upgrade_changes, groom_ongoing_pvf_votes).
THEOREM ParasConsistent == Spec => []LifecyclesConsistent
<1>1. IInv /\ Quiet => LifecyclesConsistent
  BY IInvImplies
<1> QED BY <1>1, InitIInv, InitQuiet, NextIInv, NextQuiet, PTL DEF Spec

\* Validation code is counted by its users exactly, live paras run accepted
\* code only, and code that was replaced is stored for the retention period
\* (increase_code_ref, decrease_code_ref, note_past_code, prune_old_code).
THEOREM ParasCodeKept == Spec => []CodeKept
<1>1. IInv /\ Quiet => CodeKept
  BY IInvImplies
<1> QED BY <1>1, InitIInv, InitQuiet, NextIInv, NextQuiet, PTL DEF Spec

\* The same without the condition on votes, if paras that are leaving signal no
\* upgrades and votes end within the two sessions that leaving takes, as in the
\* default configuration (groom_ongoing_pvf_votes, apply_actions_queue).
THEOREM ParasLeaveQuietly ==
    ASSUME LeavesQuietly
    PROVE  Spec => [](~forced => RefsExact /\ LiveCodeChecked /\ PastCodeRetained)
<1>1. IInv /\ Quiet => (~forced => RefsExact /\ LiveCodeChecked /\ PastCodeRetained)
  <2> SUFFICES ASSUME IInv, Quiet, ~forced
               PROVE  RefsExact /\ LiveCodeChecked /\ PastCodeRetained
    OBVIOUS
  <2>1. CodeKept
    BY IInvImplies
  <2>2. Undisturbed
    BY DEF Quiet, Undisturbed
  <2> QED BY <2>1, <2>2 DEF CodeKept
<1> QED BY <1>1, InitIInv, InitQuiet, NextIInv, NextQuiet, PTL DEF Spec
=============================================================================
