----------------------------- MODULE Scheduler -----------------------------
(***************************************************************************)
(* The relay chain's core scheduler (runtime/parachains/src/scheduler.rs)  *)
(* as the block inherent, the extrinsics and the session change drive it.  *)
(*                                                                         *)
(* One block is: `enter` (paras_inherent), then any number of parathread   *)
(* claims, then the end of the block, where a buffered session change may  *)
(* be applied.  Collators are left out: no decision of the scheduler       *)
(* depends on them.  Which cores conclude, time out or get a backed        *)
(* candidate is decided by the inclusion and disputes pallets, and is an   *)
(* input here.                                                             *)
(***************************************************************************)
EXTENDS Integers, Sequences, SequencesExt, FiniteSets, FiniteSetsExt, Maps

CONSTANTS
    ParaIds,          \* the registered paras
    Sessions,         \* what a session may bring: [config, parachains,
                      \* parathreads, n_validators]
    MaxSessionAge     \* bound: the last block of a session has this age

ASSUME MaxSessionAgeAssumption == MaxSessionAge \in Nat

\* A para is a parachain or a parathread, and has one place among the parachains;
\* the fields of the configuration are unsigned, and its consistency check has
\* the frequency of rotations be positive.
ASSUME SessionsAssumption ==
    \A ses \in Sessions :
        /\ ses.parachains \in Seq(ParaIds \ ses.parathreads) /\ IsInjective(ses.parachains)
        /\ ses.parathreads \subseteq ParaIds
        /\ ses.n_validators \in Nat
        /\ ses.config.parathread_cores \in Nat
        /\ ses.config.parathread_retries \in Nat
        /\ ses.config.scheduling_lookahead \in Nat
        /\ ses.config.group_rotation_frequency \in Nat \ {0}
        /\ ses.config.max_validators_per_core \in Nat

VARIABLES
    session,   \* the session in force: active config, paras, validators
    age,       \* now - SessionStartBlock, for the block being built
    phase,     \* "enter": inherent not yet run; "calls": it has
    store      \* the storage of the scheduler pallet

vars == <<session, age, phase, store>>

config      == session.config
parachains  == session.parachains     \* paras::Parachains, in core order
parathreads == session.parathreads    \* the paras with is_parathread

-----------------------------------------------------------------------------
(* Values.  ParathreadQueue is a sequence of queued entries, Availability- *)
(* Cores a function on 0 .. n-1, and Scheduled, a vector sorted by its     *)
(* unique core indices, a function from those cores to assignments.        *)

NoPara == "none"

ASSUME NoParaAssumption == NoPara \notin ParaIds

FreeCore         == [kind |-> "Free", para |-> NoPara, retries |-> 0]
ParachainCore    == [kind |-> "Parachain", para |-> NoPara, retries |-> 0]
ParathreadCore(p, r) == [kind |-> "Parathread", para |-> p, retries |-> r]

IsParathread(p) == p \in parathreads

\* Cores are visited in their order, up to the last one of a set.
Limit(cores) == IF cores = {} THEN 0 ELSE Max(cores) + 1

-----------------------------------------------------------------------------
(* ParathreadClaimQueue.                                                   *)

\* `enqueue_entry`; its remainder by n panics when n = 0 (see EnqueueDefined).
enqueue_entry(s, para, retries, n) ==
    [s EXCEPT !.queue = Append(@, [para |-> para, retries |-> retries,
                                   core_offset |-> s.next_core_offset]),
              !.next_core_offset = (@ + 1) % n]

\* Faulty variant: the newest claim first.
PositionOnCoreNewest(queue, core_offset) ==
    SelectLastInSeq(queue, LAMBDA q : q.core_offset = core_offset)

\* The position of the first entry queued for a core offset; 0 if none.
PositionOnCore(queue, core_offset) ==
    SelectInSeq(queue, LAMBDA q : q.core_offset = core_offset)

-----------------------------------------------------------------------------
(* Groups.  Validators are 0 .. n-1, already shuffled.                     *)

n_cores(ses) ==
    LET by_paras == Len(ses.parachains) + ses.config.parathread_cores
        x        == ses.config.max_validators_per_core
        by_validators == IF x = 0 THEN 0 ELSE ses.n_validators \div x
    IN  IF by_paras >= by_validators THEN by_paras ELSE by_validators

\* The first n % cores groups have one validator more than the others.
GroupsOf(n, cores) ==
    LET base   == n \div cores
        larger == n % cores
        Start(i) == IF i < larger THEN (base + 1) * i
                                  ELSE (base + 1) * larger + base * (i - larger)
        Size(i)  == IF i < larger THEN base + 1 ELSE base
    IN  [i \in 0 .. cores - 1 |-> Start(i) .. (Start(i) + Size(i) - 1)]

ValidatorGroups(ses) ==
    IF n_cores(ses) = 0 \/ ses.n_validators = 0
    THEN EmptyMap
    ELSE GroupsOf(ses.n_validators, n_cores(ses))

NGroups(s) == Cardinality(DOMAIN s.validator_groups)

\* `group_assigned_to_core`, for a core in bounds.
group_assigned_to_core(s, core) ==
    (core + (age \div config.group_rotation_frequency)) % NGroups(s)

-----------------------------------------------------------------------------
(* The operations, as functions on the storage.                            *)

\* Faulty variant: a timeout does not requeue the claim.
FreeOneLosesClaim(s, core, reason) ==
    LET occupied == s.availability_cores[core]
    IN  [s EXCEPT !.availability_cores[core] = FreeCore,
                  !.claim_index = IF reason = "Concluded"
                                  THEN @ \ {occupied.para} ELSE @]

\* One iteration of `free_cores`.
FreeOne(s, core, reason) ==
    LET occupied == s.availability_cores[core]
        freed    == [s EXCEPT !.availability_cores[core] = FreeCore]
    IN  IF core \notin DOMAIN s.availability_cores THEN s
        ELSE CASE occupied.kind # "Parathread" -> freed
               [] occupied.kind = "Parathread" /\ reason = "Concluded" ->
                     [freed EXCEPT !.claim_index = @ \ {occupied.para}]
               [] occupied.kind = "Parathread" /\ reason = "TimedOut" ->
                     enqueue_entry(freed, occupied.para, occupied.retries,
                                   config.parathread_cores)

\* `free_cores`: `freed` maps cores to reasons, taken in core order.
Freeing(s, freed) ==
    LET sweep[i \in Nat] ==
            IF i = 0 THEN s
            ELSE IF i - 1 \in DOMAIN freed
                 THEN FreeOne(sweep[i - 1], i - 1, freed[i - 1])
                 ELSE sweep[i - 1]
    IN  sweep

free_cores(s, freed) == Freeing(s, freed)[Limit(DOMAIN freed)]

\* One core of the sweep in `schedule`: a parachain's own core, or the next
\* claim queued for a multiplexer core.
ScheduleOne(s, core) ==
    LET group  == group_assigned_to_core(s, core)
        offset == core - Len(parachains)
        pos    == PositionOnCore(s.queue, offset)
        Assign(kind, para, retries) ==
            Put(s.scheduled, core, [kind |-> kind, para |-> para, retries |-> retries,
                                    group_idx |-> group])
    IN  CASE core < Len(parachains) ->
                [s EXCEPT !.scheduled = Assign("Parachain", parachains[core + 1], 0)]
          [] core >= Len(parachains) /\ pos = 0 -> s
          [] core >= Len(parachains) /\ pos # 0 ->
                [s EXCEPT !.queue = RemoveAt(@, pos),
                          !.scheduled = Assign("Parathread", s.queue[pos].para,
                                               s.queue[pos].retries)]

Assigning(s, cores) ==
    LET sweep[i \in Nat] ==
            IF i = 0 THEN s
            ELSE IF i - 1 \in cores THEN ScheduleOne(sweep[i - 1], i - 1)
                 ELSE sweep[i - 1]
    IN  sweep

UnassignedCores(s) ==
    {k \in DOMAIN s.availability_cores :
        s.availability_cores[k].kind = "Free" /\ k \notin DOMAIN s.scheduled}

\* Faulty variant: the free cores are looked up before `free_cores` runs.
ScheduleBeforeFreeing(s, freed) ==
    LET f == free_cores(s, freed)
    IN  IF NGroups(f) = 0
        THEN f
        ELSE Assigning(f, UnassignedCores(s))[Limit(UnassignedCores(s))]

schedule(s, freed) ==
    LET f == free_cores(s, freed)
    IN  IF NGroups(f) = 0
        THEN f
        ELSE Assigning(f, UnassignedCores(f))[Limit(UnassignedCores(f))]

\* Faulty variant: the para's lifecycle is not looked at.
RequeuesAnyPara(a) ==
    /\ a.kind = "Parathread"
    /\ a.retries + 1 <= config.parathread_retries

\* `clear`: unused parathread assignments return to the queue with a retry
\* more, unless the para is no parathread any longer or is out of retries.
Requeues(a) ==
    /\ a.kind = "Parathread"
    /\ IsParathread(a.para)
    /\ a.retries + 1 <= config.parathread_retries

ClearOne(s, a) ==
    IF Requeues(a)
    THEN enqueue_entry(s, a.para, a.retries + 1, config.parathread_cores)
    ELSE s

Clearing(s, scheduled) ==
    LET sweep[i \in Nat] ==
            IF i = 0 THEN s
            ELSE IF i - 1 \in DOMAIN scheduled
                 THEN ClearOne(sweep[i - 1], scheduled[i - 1])
                 ELSE sweep[i - 1]
    IN  sweep

clear(s) ==
    Clearing([s EXCEPT !.scheduled = EmptyMap], s.scheduled)[Limit(DOMAIN s.scheduled)]

\* `occupied` with `to_core_occupied`.
ToCoreOccupied(a) ==
    IF a.kind = "Parachain" THEN ParachainCore
                            ELSE ParathreadCore(a.para, a.retries)

occupied(s, cores) ==
    [s EXCEPT !.scheduled = Without(@, cores),
              !.availability_cores =
                [k \in DOMAIN @ |-> IF k \in cores
                                    THEN ToCoreOccupied(s.scheduled[k])
                                    ELSE @[k]]]

\* The claims that are handled by the first cores return to the queue.
Merging(s) ==
    LET Claim(core) == [para |-> core.para, retries |-> core.retries, core_offset |-> 0]
        sweep[i \in Nat] ==
            IF i = 0 THEN s.queue
            ELSE IF /\ i - 1 \in DOMAIN s.availability_cores
                    /\ s.availability_cores[i - 1].kind = "Parathread"
                 THEN Append(sweep[i - 1], Claim(s.availability_cores[i - 1]))
                 ELSE sweep[i - 1]
    IN  sweep

Keeps(ses, q) ==
    q.retries <= ses.config.parathread_retries /\ q.para \in ses.parathreads

\* The first claims of a queue that are kept, rebalanced between the cores.
Rebalancing(ses, queue) ==
    LET sweep[i \in Nat] ==
            IF i = 0 THEN <<>>
            ELSE IF i \in DOMAIN queue /\ Keeps(ses, queue[i])
                 THEN Append(sweep[i - 1],
                             [queue[i] EXCEPT !.core_offset =
                                 Len(sweep[i - 1]) % ses.config.parathread_cores])
                 ELSE sweep[i - 1]
    IN  sweep

\* `initializer_on_new_session`.  Scheduled is left as it is.
on_new_session(s, ses) ==
    LET merged == Merging(s)[Limit(DOMAIN s.availability_cores)]
        kept   == Rebalancing(ses, merged)[Len(merged)]
        pruned == {merged[i].para : i \in {j \in DOMAIN merged : ~Keeps(ses, merged[j])}}
        fresh  == [s EXCEPT
                     !.availability_cores = [k \in 0 .. n_cores(ses) - 1 |-> FreeCore],
                     !.validator_groups = ValidatorGroups(ses)]
    IN  IF ses.config.parathread_cores = 0
        THEN [fresh EXCEPT !.queue = <<>>, !.next_core_offset = 0,
                           !.claim_index = {}]
        ELSE [fresh EXCEPT
                !.queue = kept,
                !.next_core_offset = Len(kept) % ses.config.parathread_cores,
                !.claim_index = @ \ pruned]

\* `core_para`: the para a core is occupied by.
core_para(s, core) ==
    CASE s.availability_cores[core].kind = "Free" -> NoPara
      [] s.availability_cores[core].kind = "Parachain" -> parachains[core + 1]
      [] s.availability_cores[core].kind = "Parathread" ->
            s.availability_cores[core].para

\* Faulty variant: the head of the queue, whichever core it waits for.
NextUpHeadOfQueue(s, core) ==
    CASE core < Len(parachains) -> parachains[core + 1]
      [] core >= Len(parachains) /\ s.queue # <<>> -> Head(s.queue).para
      [] core >= Len(parachains) /\ s.queue = <<>> -> NoPara

\* What the runtime API announces for an occupied core, should its candidate
\* become available or time out.
next_up_on_available(s, core) ==
    LET pos == PositionOnCore(s.queue, core - Len(parachains))
    IN  CASE core < Len(parachains) -> parachains[core + 1]
          [] core >= Len(parachains) /\ pos # 0 -> s.queue[pos].para
          [] core >= Len(parachains) /\ pos = 0 -> NoPara

next_up_on_time_out(s, core) ==
    IF next_up_on_available(s, core) # NoPara
    THEN next_up_on_available(s, core)
    ELSE s.availability_cores[core].para

-----------------------------------------------------------------------------
(* Behaviour.                                                              *)

EmptyStore == [queue |-> <<>>, next_core_offset |-> 0,
               availability_cores |-> EmptyMap, claim_index |-> {},
               scheduled |-> EmptyMap, validator_groups |-> EmptyMap]

\* Genesis applies session 0 at once; block 1 is the first of the session.
Init ==
    /\ session \in Sessions
    /\ age = 0
    /\ phase = "enter"
    /\ store = on_new_session(EmptyStore, session)

OccupiedCores ==
    {k \in DOMAIN store.availability_cores :
        store.availability_cores[k].kind # "Free"}

\* The sweep the inherent makes over the scheduler: cores of candidates
\* just concluded invalid are freed first, then `clear` and `schedule` run
\* with the cores that became available or timed out, then the cores of the
\* backed candidates become occupied.
AfterSchedule(disputed, freed) ==
    schedule(clear(free_cores(store, [k \in disputed |-> "Concluded"])), freed)

\* `clear` and the timeouts only enqueue when there is a multiplexer core to
\* enqueue for; otherwise `enqueue_entry` divides by zero and no block can
\* be built.
EnqueueDefined ==
    \/ config.parathread_cores > 0
    \/ /\ \A k \in DOMAIN store.scheduled : ~Requeues(store.scheduled[k])
       /\ \A k \in OccupiedCores :
              store.availability_cores[k].kind # "Parathread"

\* The state the `availability_cores` runtime API looks at: `clear` and
\* `schedule` for the next block, on a copy of the state.
ApiView == schedule(clear(store), EmptyMap)

Enter(disputed, freed) ==
    /\ phase = "enter"
    /\ EnqueueDefined
    /\ LET s == AfterSchedule(disputed, freed)
       IN  \E backed \in SUBSET DOMAIN s.scheduled : store' = occupied(s, backed)
    /\ phase' = "calls"
    /\ UNCHANGED <<session, age>>

Freed(S) == UNION {[T -> {"Concluded", "TimedOut"}] : T \in SUBSET S}

EnterSome ==
    \E disputed \in SUBSET OccupiedCores :
        \E freed \in Freed(OccupiedCores \ disputed) : Enter(disputed, freed)

\* A dispute has frozen the chain: `enter` returns before the scheduler.
EnterFrozen ==
    /\ phase = "enter"
    /\ phase' = "calls"
    /\ UNCHANGED <<session, age, store>>

\* `add_parathread_claim`, when it takes the claim.
AddParathreadClaim(p) ==
    /\ phase = "calls"
    /\ IsParathread(p)
    /\ Len(store.queue) < config.parathread_cores * config.scheduling_lookahead
    /\ p \notin store.claim_index
    /\ store' = enqueue_entry([store EXCEPT !.claim_index = @ \union {p}],
                              p, 0, config.parathread_cores)
    /\ UNCHANGED <<session, age, phase>>

EndBlock ==
    /\ phase = "calls"
    /\ age < MaxSessionAge
    /\ age' = age + 1
    /\ phase' = "enter"
    /\ UNCHANGED <<session, store>>

NewSession(ses) ==
    /\ phase = "calls"
    /\ session' = ses
    /\ store' = on_new_session(store, ses)
    /\ age' = 0
    /\ phase' = "enter"

Next ==
    \/ EnterSome
    \/ EnterFrozen
    \/ \E p \in ParaIds : AddParathreadClaim(p)
    \/ EndBlock
    \/ \E ses \in Sessions : NewSession(ses)

Spec == Init /\ [][Next]_vars

-----------------------------------------------------------------------------
(* What makes the scheduler correct.                                       *)

Entry == [para : ParaIds, retries : Nat, core_offset : Nat]
Core  == [kind : {"Free", "Parachain", "Parathread"},
          para : ParaIds \union {NoPara}, retries : Nat]
Assignment == [kind : {"Parachain", "Parathread"}, para : ParaIds,
               retries : Nat, group_idx : Nat]

\* The storage items have the types scheduler.rs gives them.
TypeOK ==
    /\ session \in Sessions
    /\ age \in 0 .. MaxSessionAge
    /\ phase \in {"enter", "calls"}
    /\ \A i \in DOMAIN store.queue : store.queue[i] \in Entry
    /\ store.next_core_offset \in Nat
    /\ DOMAIN store.availability_cores = 0 .. n_cores(session) - 1
    /\ \A k \in DOMAIN store.availability_cores :
           store.availability_cores[k] \in Core
    /\ store.claim_index \subseteq ParaIds
    /\ \A k \in DOMAIN store.scheduled : store.scheduled[k] \in Assignment

QueuedAt(s, p) == {i \in DOMAIN s.queue : s.queue[i].para = p}

HandledAt(s, p) ==
    {k \in DOMAIN s.availability_cores :
        /\ s.availability_cores[k].kind = "Parathread"
        /\ s.availability_cores[k].para = p}

ScheduledAt(s, p) ==
    {k \in DOMAIN s.scheduled :
        s.scheduled[k].kind = "Parathread" /\ s.scheduled[k].para = p}

\* The live claims on a parathread, by their places: queued, assigned or being
\* handled.
ClaimsOn(s, p) ==
    ({"queued"} \X QueuedAt(s, p)) \union ({"handled"} \X HandledAt(s, p))
        \union ({"scheduled"} \X ScheduledAt(s, p))

\* ParathreadClaimIndex "ensure[s] that only one claim on a parathread
\* exists in the queue or is currently being handled by an occupied core".
ClaimUnique == \A p \in ParaIds : \A x, y \in ClaimsOn(store, p) : x = y

\* Every live claim of a session with multiplexer cores is in the index, so
\* that `add_parathread_claim` sees it as competing.
ClaimIndexed ==
    config.parathread_cores > 0 =>
        \A p \in ParaIds : ClaimsOn(store, p) # {} => p \in store.claim_index

\* The para that a core works for, or is assigned to.
ParaAt(k) ==
    IF k \in DOMAIN store.scheduled THEN store.scheduled[k].para
                                    ELSE core_para(store, k)

BusyCores == OccupiedCores \union DOMAIN store.scheduled

\* A core is never scheduled and occupied at once, and no para has two cores
\* (inclusion keys pending candidates by para: a second core would be lost),
\* whatever lifecycle changes its claims went through.
OneCorePerPara ==
    /\ OccupiedCores \intersect DOMAIN store.scheduled = {}
    /\ \A j, k \in BusyCores : ParaAt(j) = ParaAt(k) => j = k

\* Every queued claim waits for a core that exists ("this value is between 0
\* and config.parathread_cores") and is within the retry limit, also right
\* after a session that changed the number of cores or the limit.
QueueServable ==
    /\ store.next_core_offset <= config.parathread_cores
    /\ \A i \in DOMAIN store.queue :
           /\ store.queue[i].core_offset < config.parathread_cores
           /\ store.queue[i].retries <= config.parathread_retries

\* Groups partition the session's validators, one group per core and sizes
\* within one of each other; assigned cores have distinct groups after every
\* rotation, so that no validator backs for two cores.
GroupsSound ==
    LET groups == store.validator_groups
        Size(g) == Cardinality(groups[g])
    IN  /\ NGroups(store) > 0 =>
              /\ DOMAIN groups = DOMAIN store.availability_cores
              /\ UNION {groups[g] : g \in DOMAIN groups}
                    = 0 .. session.n_validators - 1
              /\ \A g, h \in DOMAIN groups :
                    /\ g # h => groups[g] \intersect groups[h] = {}
                    /\ Size(g) <= Size(h) + 1
        /\ \A j, k \in DOMAIN store.scheduled :
              store.scheduled[j].group_idx = store.scheduled[k].group_idx
                  => j = k

\* Claims, cores and groups agree in every state between blocks and within
\* them: at most one claim of a para, in the index and servable, at most one
\* core of a para, and groups that partition the validators; the core list has
\* the length the session asks for.
SchedulingSound ==
    /\ TypeOK
    /\ ClaimUnique
    /\ ClaimIndexed
    /\ QueueServable
    /\ OneCorePerPara
    /\ GroupsSound

\* After a block's inherent no core idles while it has work: a free core is
\* assigned, or it is a multiplexer core with no claim queued for it.
NoIdleCore ==
    [][EnterSome /\ NGroups(store) > 0 =>
          \A k \in UnassignedCores(store') :
              /\ k >= Len(parachains)
              /\ PositionOnCore(store'.queue, k - Len(parachains)) = 0]_vars

\* "Return the next thing that will be scheduled on this core assuming it is
\* currently occupied and the candidate occupying it became available": what
\* the runtime API announced is scheduled, whichever other cores are freed
\* in the same block.  The same of a timeout, unless nothing is queued for the
\* core and its own claim may return to the queue for another one.
NextUpKept ==
    phase = "enter" /\ NGroups(store) > 0 =>
        \A k \in OccupiedCores :
            LET available == next_up_on_available(ApiView, k)
                time_out  == next_up_on_time_out(ApiView, k)
                Gets(up, reason) ==
                    \A f \in Freed(OccupiedCores \ {k}) :
                        LET after == AfterSchedule({}, Put(f, k, reason))
                        IN  k \in DOMAIN after.scheduled
                                /\ after.scheduled[k].para = up
            IN  /\ available # NoPara => Gets(available, "Concluded")
                /\ available # NoPara \/ config.parathread_cores = 1
                        => Gets(time_out, "TimedOut")

\* A claim only disappears when its candidate concluded, when an unused
\* assignment is out of retries or its para no longer a parathread, or when a
\* session change prunes it; a timeout or a rotation never loses one.
ClaimsConserved ==
    [][\A p \in ParaIds :
          ClaimsOn(store, p) # {} /\ ClaimsOn(store', p) = {} =>
              \/ HandledAt(store, p) # {} /\ p \notin store'.claim_index
              \/ \E k \in ScheduledAt(store, p) : ~Requeues(store.scheduled[k])
              \/ config'.parathread_cores = 0
              \/ ~IsParathread(p)'
              \/ \E i \in QueuedAt(store, p) :
                    store.queue[i].retries > config'.parathread_retries
              \/ \E k \in HandledAt(store, p) :
                    store.availability_cores[k].retries
                        > config'.parathread_retries]_vars

-----------------------------------------------------------------------------
(* Claims of the code's comments that do not hold (with EnqueueDefined     *)
(* above): the sessions of MCScheduler reach a state without them.         *)

\* The converse of ClaimIndexed, "only one claim on a parathread exists in the
\* queue or is currently being handled by an occupied core": the index holds
\* no para without a claim, or that parathread could never be claimed again.
IndexHasClaim == \A p \in store.claim_index : ClaimsOn(store, p) # {}
=============================================================================
