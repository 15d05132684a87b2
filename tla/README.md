# TLA+ verification of the Selendra relay chain

Selendra is a relay chain with parachains: a Substrate runtime (`runtime/`), the
validator node with its subsystems (`node/`), and libraries shared with
parachains (`modules/`). This directory models

- the runtime pallets that decide, block by block, which para gets a core, which
  candidate is backed, included, given up or disputed, when the chain freezes,
  which code a para runs, and which messages travel between paras;
- the node's subsystems that carry the security of that state machine: fetching
  and backing of collations, preparation and execution of validation code,
  availability store, approval voting, chain selection and dispute coordination;
- the gossip between nodes on which backing and approval rest: statements and
  approvals with what peers are known to know.

Every definition that models code is listed with its lines in `PROJECT.json`
("map"). Operators commented "Faulty variant" are not part of a specification:
they are plausible mistakes with which the sensitivity of each property is
tested ("mutants" in `PROJECT.json`).

## 1. Inventory

### Runtime (`runtime/parachains`)

| component | state | operations | what makes it correct |
|---|---|---|---|
| scheduler | `ParathreadQueue`, `AvailabilityCores`, `ParathreadClaimIndex`, `Scheduled`, `ValidatorGroups`, `SessionStartBlock` | `add_parathread_claim`, `free_cores`, `clear`, `schedule`, `occupied`, session change; queries for the runtime API | one claim and one core per para, no lost claim, no idle core, groups partition the validators, the API's announcements hold |
| inclusion | `PendingAvailability` and its commitments, `AvailabilityBitfields` | `process_bitfields`, `process_candidates`, `collect_pending`, `collect_disputed`, `force_enact`, session change | pending candidates and occupied cores agree; heads advance by inclusion, one block at a time, or by governance |
| disputes | `Disputes`, `Included`, `SpamSlots`, `Frozen`, `LastPrunedSession` | import of statement sets (filter, then process), `note_included`, timeouts, `force_unfreeze`, pruning | an included invalid candidate freezes the chain; spam slots follow the disputes that may be spam; votes are kept |
| paras_inherent | `Included` (once per block), `OnChainVotes` | `enter`: drives disputes, inclusion and scheduler in one order; `create_inherent` for the author | the composition keeps the three consistent; what the author builds, everybody accepts |
| paras | lifecycles, heads, current, past and future code, upgrade restrictions, PVF votes, actions queue | registration, upgrades, offboarding, PVF voting, pruning | code in use is stored and counted; one upgrade at a time; no para stays in transition |
| ump, dmp, hrmp | message queues, their sizes, channels, requests, deposits | acceptance checks, queueing, pruning, dispatch with weight, channel opening and closing | bounds, order, no loss; channels, indices, counters and deposits agree |
| configuration, shared, session_info, initializer | pending configurations, session index, validators, stored sessions, buffered session change | session change | changes apply to the scheduled session, in one order |

`runtime/common` has the registrar, slot leases, assigned slots and account
administration; `runtime/selendra` and `runtime/cardamom` put pallets together.

### Node (`node/`)

| component | state | operations | what makes it correct |
|---|---|---|---|
| collator protocol (validator side) | peers, view, requests, collations and timers per relay parent, the pending candidate | advertisements, fetches, views, answers of backing | one collation after the other, none in the way of the rest, the right collator is told |
| candidate backing, statement table | what was seconded, issued and awaited; fallbacks; votes and proposals | `Second`, statements, results of validations | the node never equivocates; what is offered as backed has its votes |
| PVF host | artifacts, waiting requests, two queues, worker processes | requests, results, deaths of workers, pruning | every request answered once, no job lost or forgotten |
| availability store | metadata, data, chunks, pruning times, unfinalized blocks (database) | new heads, finality, storing, pruning | data is kept as long as a block may need it |
| approval voting | blocks, candidates, assignments, approvals (database); wakeups, checks | import of blocks, assignments, approvals; wakeups; own checks; finality | approval means enough checks with no-shows covered; nothing is forgotten |
| chain selection | the tree of unfinalized blocks, leaves, stagnation times (database) | import, reversion, approval, stagnation, finality | the best leaf is viable and best |
| dispute coordinator | votes, recent disputes (database); spam slots, participation queues, session window, scraped blocks | import of statements, scraping, local statements, participation, restart | exact status and slots; one side signed; every dispute taken part in |
| statement distribution | statements per head, what each peer knows and was sent, large statements being fetched and cached | views, connections and topology of peers, statements of others and our own, fetches and requests of peers | every peer in view gets every statement; a shared statement can be fetched |
| approval distribution | blocks, messages per candidate, what each peer knows, messages that wait for their block | new blocks, views, messages of peers and of approval voting, finality | what one node accepted its peers get, in whatever order blocks and messages come |
| provisioner, availability distribution and recovery, dispute distribution, bitfield distribution, network bridge | requests and peers' knowledge | | see "Not modelled" |

### How the parts interact

A block of the runtime is: `on_initialize` of the initializer (paras prune and
upgrade, disputes time out), the inherent `enter`, other extrinsics, and
`on_finalize`, in which a buffered session change is applied to all pallets in a
fixed order. `enter`

1. imports dispute statement sets; on a frozen chain it returns here;
2. frees the cores of candidates of this session that were voted on and are
   concluded invalid (`collect_disputed`, `free_cores`);
3. counts the availability bitfields and enacts the candidates that reach the
   threshold: paras notes the new head and perhaps an upgrade, dmp and hrmp
   prune, ump and hrmp queue; the disputes pallet is told (`note_included`) and
   may freeze;
4. collects the candidates that timed out;
5. calls `clear` and `schedule` with the freed cores;
6. accepts backed candidates for scheduled cores (`process_candidates`, with the
   acceptance checks of the message queues) and marks the cores (`occupied`).

On the node, the overseer tells every subsystem of active leaves and finality and
routes messages between them. A collation comes in through the collator protocol,
is validated by the PVF host for candidate backing, is kept by the availability
store, is checked by approval voting, and may be disputed; the approved and
undisputed chain is what chain selection and the finality voter follow.

What is hard to get right: in the runtime, the order of calls across blocks, the
early return of a frozen chain, session changes that change cores, limits and
lifecycles under the state, and what is announced about a block that is not there
yet. On the node, results that overtake each other, timers that race answers,
views and finality that move under running tasks, one database transaction per
turn with memory that a restart loses, worker processes that die. The hazards in
`PROJECT.json` point to the lines.

## 2. Modules

| module | models | state and actions |
|---|---|---|
| `Maps` | | partial functions as stores: `Put`, `GetOr`, `Without` |
| `Scheduler` | `scheduler.rs` as the inherent drives it | `store` is the pallet's storage, with the storage operations as functions on it. Actions: `EnterSome`, `EnterFrozen`, `AddParathreadClaim`, `EndBlock`, `NewSession` |
| `SchedulerLive` | the same with fairness | an auxiliary variable `freed` for the fairness condition |
| `Disputes` | `disputes.rs` | the storage items by name. Actions: `Initialize`, `ImportSome`, `EndDisputes`, `NoteIncluded`, `EndInherent`, `ForceUnfreeze`, `EndBlock`, `NewSession` |
| `Inclusion` | `inclusion/mod.rs` with the cores | `pending`, `cores`, `heads`, and the verdicts of disputes. One action for each stage of the inherent, `ForceUnfreeze`, `ForceHead`, `EndBlock`, `NewSession`. History: the paras whose head governance has `overridden` since a candidate was backed |
| `Paras` | `paras/mod.rs` with the candidates that drive it | `st` is the storage; the pallet's functions are functions on it; an action for each call and for the block and session hooks. History: `accepted` codes, `replaced` ones, whether governance has `forced` something, whether a vote on an upgrade has `outlived` its para |
| `Hrmp`, `Dmp` | `hrmp.rs`, `dmp.rs` | the same style; `Dmp` is used by `Hrmp`, whose notifications are downward messages |
| `Ump` | `ump.rs` | queues, cursor and overweight messages; the dispatch loop of a block is one action, as in the code |
| `Fifo` | | what a message queue promises: the abstract specification `Ump` implements |
| `ApprovalChecking` | `approval_checking.rs` | the pure functions that count tranches, no-shows and approvals |
| `ApprovalVoting` | `approval-voting/src/lib.rs`, `import.rs`, `ops.rs` | database, wakeups, running checks, messages; an action for each message, wakeup, result, and a restart |
| `ChainSelection` | `chain-selection/src/tree.rs`, `lib.rs`, `backend.rs` | the database and what the chain has finalized |
| `AvStore` | `av-store/src/lib.rs` | the database, a clock, restarts between transactions. History: which included candidates were `noted` with which block, and since when a block is final (`final_at`) |
| `DisputeCoordinator` | `dispute-coordinator/src/real` | database and memory apart; a restart keeps only the first |
| `CollatorProtocol` | `collator-protocol/src/validator_side/mod.rs` | an action for each branch of the `select!` loop |
| `Backing` | `backing/src/lib.rs`, `statement-table/src/generic.rs` | one job with its table and its background tasks; a key store that refuses to sign (`SigningFails`) |
| `Collation` | both together | composed over the two message queues between them |
| `PvfPrepare` | `pvf/src/prepare/queue.rs`, `pool.rs` | two tasks that exchange messages, and worker processes that die |
| `PvfExecute` | `pvf/src/execute/queue.rs` | the queue and its workers |
| `PvfHost` | `pvf/src/host.rs`, `artifacts.rs` | the host, with the two queues and the sweeper as tasks that answer |
| `Gossip` | the choice of peers and the network between two nodes | messages, views and connections that are delivered later |
| `StatementDistribution` | `statement-distribution/src` | two nodes with their peers, tasks that fetch and answer |
| `ApprovalDistribution` | `approval-distribution/src/lib.rs` | nodes that learn of blocks at different times |
| `DisputesProofs`, `InclusionProofs`, `BackingProofs`, `UmpProofs`, `SchedulerProofs`, `AvStoreProofs`, `ParasProofs` | | theorems |
| `LoopTheorems` | | what a loop written as a recursive function computes, by induction |

The `MC` modules give instances to TLC. Several of them hold many instances: a
variable `instance` says which one runs, fixes the variables of the others, and
lets one run check one kind of question on all of them.

Composition. In the runtime each module takes what the others decide as an input:
the scheduler does not know why a core is freed, inclusion does not know how
disputes conclude, `Paras` and `Hrmp` are driven by candidates that are backed in
one block and enacted in a later one (the acceptance check and the effect are two
actions, as in the code). `Collation` composes two subsystems, with a key store that signs: what it does not
sign, the collator protocol is not told of, and it waits. `Backing` alone has
an environment that is more permissive than the collator protocol.

Abstractions. Validators are identities (indices in `Scheduler`); a candidate is
identified by para, relay parent and a tag; a head is its height; a bitfield is
the set of validators voting for each core; a message is its weight or the block
it was sent in; code is its hash. Signatures are not modelled: statements with a
bad one never reach the import, except for the effect of such a statement on the
spam filter, which `Filtered` allows for. Assignments of approval checkers (VRF)
are inputs of an instance. Collators of cores, events, weights of calls, rewards
and reputation are left out. `Scheduled` is a function on cores, as the vector is
sorted by its unique cores.

`add_parathread_claim` has no caller in this repository besides its tests; it is
modelled as the call it is meant to be. In `Hrmp` a para is a parachain or a
parathread for good, each kind with its limit on channels. `force_schedule_code_upgrade` gets the current
block as its relay parent.

## 3. Runs

Passing runs (all exhaustive for their bounds):

| run | bounds | shows |
|---|---|---|
| `scheduler_safety` | 4 paras, 1-2 multiplexer cores, 3 kinds of session in any order, rotation every block | claims are unique, indexed and conserved, cores exclusive, queue servable, groups a partition, announcements for available cores kept |
| `queues` | scheduler: 2 parathreads, sessions with 1 and 2 cores; upward messages: 2 paras, messages of three weights | every queued claim is served; the dispatch implements one fair `Fifo` per para, through overweight messages and offboarding; sizes exact |
| `disputes` | 4 validators that may vote both ways, candidates of two sessions, 4 blocks | freezing in every order of votes, inclusions, other freezes and unfreezing; disputes are sound, time out, are pruned, keep their votes |
| `inclusion_cores` | 2 paras, 2 cores, 3 validators, 4 blocks, with timeouts and freezes, one head forced at a time | cores and pending candidates agree; heads advance by inclusion but for those that governance forces; announced timeouts are kept |
| `runtime` | `Paras`: one para 8 blocks; two paras with shared code, trusted code and poking 5 blocks; one para with every forced call 5 blocks. `Hrmp`: 2 paras with traffic 6 blocks, with calls as well 4, 3 parathreads that leave 7, changing deposits 3. `Disputes`: 7 validators with 1 spam slot, two disputes; 4 validators, two disputes that time out at once | code references, lifecycles, upgrades and votes consistent, no para stuck; channels, contents and deposits exact; spam slots follow the disputes |
| `approval` | no-shows in three tranches; few validators; a candidate in two forks with finality; a chain with a restart; approval distribution between nodes that learn of blocks in different order | approvals are sound, the finality voter gets approved blocks only, no wakeup and no statement is forgotten; assignments and approvals reach the peers |
| `node` | chain selection on two trees of 5 blocks, the store on two forks with a restart, the coordinator with full slots and queues and with votes of every kind, each with a restart | databases exact, best leaf right, data kept long enough, one side signed, participations tracked |
| `services` | 2 collators with changing views; 5 candidates of 2 paras at backing; 2 collators with backing; 2 artifacts and 3 preparation workers; 4 jobs and 4 execution workers; 3 requests with expiring artifacts; statement distribution between nodes with changing views and large statements | collations tracked and answered, no misbehaviour, backed exactly what has its votes, no job lost, doubled or forgotten, statements complete at every peer |

Why the bounds are enough: two candidates, paras, collators or artifacts meet every
pairwise interaction; 2, 4 and 7 validators give the byzantine thresholds 0, 1 and
2 (below 7 the two votes that open a dispute confirm it, unless one validator casts
both; spam slots are looked at with 4, where such disputes time out, and with 7); 3
validators give an availability threshold that needs two votes and leaves one out;
four blocks cover backing, voting, a freeze and what follows, with a session change
anywhere; eight blocks cover an upgrade with its vote, delay, cooldown and the
pruning of the old code; six cover a message that is sent, received, read and
pruned twice over; three tranches a no-show of the check that covers a no-show;
trees of five blocks two forks of unequal length with a block between; one crash
every pair of transactions, since the state after recovery is compared with the
state without; three workers one that dies while its replacement is spawned and a
critical job takes the extra one. Blocks, calls per block, votes, sets, crashes,
time and the numbers of jobs and workers are named bounds in the guards;
`BoundReached` is the stuttering after the last block.

### Refinement

`Ump` implements `Fifo` for each para (`DeliversFifo` in `MCQueues`; the safety part
is proved for all instances, section 4): the abstract
queue is what waits for the para, with messages over the weight limit taken out as
delivered (they are stored for `service_overweight`); dispatch order, no loss, no
repetition, and that every para is served however the others fill their queues.

### Fairness

For the scheduler `queues` assumes that blocks keep being built (weak fairness of the block
phase), that the chain is not frozen for ever, and that each core is found free
again and again (strong fairness of `Frees(k)`): the availability timeout frees any
occupied core in the first blocks after a rotation, and candidates that become
available free it earlier. It does not assume that a candidate is ever backed: an
unused assignment goes back to the queue, and is dropped when it is out of retries.
Sessions have validators and multiplexer cores.

For upward messages it assumes that blocks keep being built and that the chain is not
frozen for ever: the dispatch is in the inherent (`paras_inherent/mod.rs:536`), after the
early return of a frozen chain (418-424), whose blocks are no steps of `Ump`. The
instance has `MaxIndividual` within the weight that the first message of a dispatch
gets: as the comment on `FirstMessageFactorPercent` warns (`ump.rs:226`), a message
between the two would neither be dispatched nor put aside, and its queue would stall.

### Runs that find a disagreement

| run | the code's comment | what happens |
|---|---|---|
| `chain_leaves` | "the viable leaves set is fully updated. A proof follows." (`tree.rs:186`) | `pivot_count` counts the children that became unviable in this update and is compared with all children (`tree.rs:227`): a viable block whose children become unviable one after the other is not a leaf again |
| `disputes_scraping` | scrape "blocks for which we could not get the current session or did not receive an active leaves update" (`initialized.rs:320`) | the head is in the cache of scraped blocks by then, and `get_block_ancestors` stops at it (`ordering/mod.rs:284`): ancestors are scraped only if scraping the head failed |
| `collation_stalls` | "we already dequeued another fetch to replace it" (`validator_side/mod.rs:532`) | not if the timer fired while nothing was left to fetch: a collation advertised later is never fetched when the first proves invalid |
| `statements_shared` | "Make sure we have data in cache:" (`statement-distribution/src/lib.rs:1875`) | when a fetch of the same candidate was under way, its `Finished` has removed the entry (`lib.rs:1734`) before it finds that the data was shared: peers that were told of the large statement ask in vain |

### Further disagreements

Seen on the same models and not kept as runs; the claims with a name are
definitions of the modules.

Scheduler, disputes, inclusion:

- `scheduler.rs:180`: the queue is said to be bounded by lookahead times cores;
  only `add_parathread_claim` looks at the bound, and claims that time out or go
  unused return to a queue that may have been filled meanwhile.
- `scheduler.rs:197` (`IndexHasClaim`): the index is said to be of claims in the
  queue or on a core; a claim that runs out of retries in `clear` stays in it, and
  its parathread cannot claim again. "Only one claim on a parathread": two can
  coexist when governance removes the last multiplexer core, the chain is frozen
  meanwhile (`clear` does not run), and a core is added again.
- `scheduler.rs:74` (`EnqueueDefined` with the sessions `WithdrawnSessions`): the
  number of cores "must be greater than 0"; `clear` after the last multiplexer core
  was removed divides by zero.
- `scheduler.rs:705`: on a timeout the claim is queued for `next_core_offset`,
  which with two or more multiplexer cores may be another core than the one
  `next_up_on_time_out` announces it for, and the retry limit that the comment
  mentions is not looked at. `NextUpKept` excepts that case.
- `disputes.rs:452`: `SpamSlots` is not the number of spam disputes a validator is
  in: a vote that is filtered out is charged all the same, and a dispute that
  times out and is confirmed or included later gives its slots back twice.
  `SlotsHeld` allows for the first by its inequality and counts the others apart
  (`ReturnedTwice`).
- `paras/mod.rs:730`, `757`: a head that governance forces while a candidate is pending
  is replaced by the candidate's when that is included; `HeadsAdvance` and
  `PendingExtendsHead` say so.
- `disputes.rs:1026` (`SpamLimitHolds`): "we only need to handle the first one": a
  vote in each direction passes.
- `disputes.rs:760`: "we just checked correctness when filtering": that a set is
  two-sided is checked before spam slots filter votes out; the rest may be
  one-sided, and the import refuses it. Authors filter and import before they
  build, so that their blocks are not affected.
- `disputes.rs:839`: session 0 is never pruned (the first pruning starts at its
  target, which is at least 1). `PruningExact` excepts it.
- `primitives/src/v1/mod.rs:809`: "A 2/3+ majority of `1` bits means that this will
  be available": `availability_threshold` is (2n)/3 + (2n)%3, that is 4 of 4, 6
  of 7, and 2 of a single validator; the provisioner counts 3 * votes >= 2 * n.
- `primitives/src/v1/mod.rs:802` (`TimeOutAtExact`), with `runtime_api_impl/v1.rs:73`
  and `provisioner/src/lib.rs:418`: the announced block may have passed.
- `inclusion/mod.rs:568`: "that it is a majority": two votes back a candidate in a
  group of any size from two.
- `paras_inherent/mod.rs:640` (`InvalidNotPending`): cores of invalid candidates are
  said to have been cleaned up; not if the same block froze the chain.
- `paras_inherent/mod.rs:1180`: `assure_sanity_backed_candidates` looks up each para
  among the scheduled ones and panics for one that is not scheduled; its comment
  relies on an earlier loop that does not look.

Paras and messages:

- `paras/mod.rs:1620` (`OnlyApprovedUpgrades`, with `LateSpec` of `MCRuntime`): of
  upgrades signalled while the para is being offboarded, "only after the code is
  approved by the process, the upgrade can be scheduled" does not hold: the vote
  outlives the registration, and the para registered anew gets a code that nobody
  checked.
- `paras/mod.rs:1275` (`CooldownKept`, with `CooldownSpec`):
  `process_scheduled_upgrade_cooldowns` does not remove the entries it has handled,
  and the restriction of the next upgrade ends early.
- `hrmp.rs:661` (`OpenCountExact`): `clean_open_channel_requests` does not lower the
  counter of a sender whose recipient leaves, so that it stays too high. A confirmed
  request one of whose paras is not valid any more at the session change is removed
  without refunding its deposits; watermarks and digests of an offboarded para stay.
- `ump.rs:413` (`NextIsListed`): offboarding keeps the cursor exactly if it names the
  para that leaves; the dispatch copes.

Approval voting:

- `approval-voting/src/lib.rs:2498` (`OwnVoteRecorded`): the vote is reported to the
  dispute coordinator only if a vote was already recorded, contrary to the comment
  (2477): the test is inverted.
- `ops.rs:278` (`ForceApprovalWorks`): `handle_new_head` calls `force_approve` before
  the entry of the imported block is written, and the walk starts at that block; it
  finds no entry, and nothing is approved by force.
- `ops.rs:84` (`PrunedAtFinality`): `canonicalize` returns early when the first stored
  height is not below the finalized one, so that competing blocks at that height stay.
- `ExactMeansAssigned`: `RequiredTranches::Exact` may hold fewer assignments than
  needed after no-shows are covered. A candidate that needs all validators gets no
  wakeup at all, and an assignment that was triggered but not checked before a
  restart is not taken up again.

Chain selection, dispute coordinator:

- With an empty database and a chain API ahead of the finality signal, blocks are
  stored without their parent; `Approved` messages handled before a crash but not
  written are lost.
- An earlier vote of our own does not count as confirmation; a refused import keeps
  its spam slots, and a validator at its limit is refused even for a candidate it
  already has a slot for; votes of candidates that were never disputed are not
  pruned; slots recovered at startup count valid voters as well.
- At startup the loop over missing participations ends with the first one refused; a
  session window that failed to update stays so until the window advances; a
  candidate included in two blocks is forgotten with the first that is finalized.
- Our statement is sent before the turn is written: after a crash in between the
  node may sign the other side. `SignsOneSide` excepts such a turn (`torn`).

Availability store:

- A candidate is known to be included from the blocks the store processes. One whose
  including block it never processed stays "unavailable": the block of a skipped leaf,
  or an ancestor of the first head, which is taken alone before the first finality
  signal (`av-store/src/lib.rs:635`). So does one that was stored after its block had
  been processed. It is pruned after `KeepUnavailable` (an hour) although the chain
  includes it; `KeptLongEnough` is about the blocks that were processed.

Collator protocol and backing:

- `handle_peer_view_change` drops the peer's requests that it still advertises and
  keeps those it does not: the condition of its `retain` is inverted.
- `infinite_stream` ignores its argument, so that responses are polled once a second
  and every fetch outlasts the timer of 400 ms that lets others have their turn.
- A collation that arrives while another is pending is dropped, and not fetched again
  if that one proves invalid. A pending candidate of a relay parent that left the view
  with a fetch under way stays, and a later `Seconded` is told to the wrong collator.
- `Second` is dropped without an answer if the candidate is being attested already
  (the exception of `AnswerExpected`).
- A second `Seconded` statement on a candidate resets the backers to fall back on; a
  background task that fails leaves its candidate awaited for ever; the result of a
  task to second is unused if another was seconded meanwhile, and no `Valid` is
  issued. What was seconded is kept in memory only.

Gossip:

- `approval-distribution/src/lib.rs:85`: messages that wait for a block wait only for
  blocks on top of the known heads; when `NewBlocks` is more than a block late, a
  message on a block in between is dropped as unknown, and its sender does not send
  it again.
- `approval-distribution/src/lib.rs`: the random part of the recipients is drawn anew
  for each message, so that an approval may reach a peer without its assignment; it
  is refused there and lost unless another peer sends both.

PVF host:

- The host awaits sends on bounded channels (execution 20, preparation 150, sweeper 100)
  inside the `select!` that alone polls the tasks at their other ends (`host.rs:329`,
  `601`): a full channel would block the host. The model's channels are unbounded, and
  what is checked of the host is safety only.
- `execute/queue.rs:218` (`NeverStalls`): a worker that has replied and is purged
  before the reply is taken is neither given a job nor replaced; waiting jobs stay
  until the next one is enqueued.
- `artifacts.rs:97` (`PreparedOnDisk`): a sweeper that is late deletes the file of an
  artifact prepared anew; executions then end with an internal error.
- A preparation that failed for a passing reason (a timeout, a worker that died) is
  remembered as failed until the node restarts.

## 4. Proofs

TLAPS proves the following for all values of the constants that satisfy the named
assumptions. The assumptions are finite sets, unsigned fields, and what
`check_consistency` of the configuration enforces (`ConstantsAssumption`,
`InclusionAssumption`, `ParasAssumption`, `UmpAssumption`, `SessionsAssumption`,
`MaxSessionAgeAssumption`), that statements and candidates are well formed
(`BackingAssumption`), that blocks are numbered along their chains and a candidate is
included by a later block than the one that backs it (`TreeAssumption`), and by one
block of a chain only (`OnceAssumption`), and that the mark for "no para" is not a para id
(`NoParaAssumption`); TLC evaluates each of them on the instances.

| module | proved |
|---|---|
| `DisputesProofs` | `TypeOK`, `FreezeCovers`, `DisputeSound`, `ConcludesTwiceOnlyByDoubleVotes`, `TimeoutEnforced`, `PruningExact`; action properties `VotesStand`, `UnfrozenByGovernance`; `SlotsFollowDisputes`, which is both |
| `InclusionProofs` | `TypeOK`, `CoreBijection`, `PendingExtendsHead`, `TimeOutKept`; action property `HeadsAdvance` |
| `SchedulerProofs` | `SchedulerInv`, `SchedulingSound`, `NextUpKept`; action properties `NoIdleCore`, `ClaimsConserved` |
| `UmpProofs` | `TypeOK`, `SizesExact`; the safety part of the refinement of `Fifo`, for each para |
| `BackingProofs` | `TypeOK`, `TasksTracked`, `BackedExact`, `NeverMisbehaves` |
| `AvStoreProofs` | `AvailabilityExact`; action property `KeptLongEnough` |
| `ParasProofs` | `NoStuckPara`, `LifecyclesConsistent` (with `TypeOK`), `CodeKept`; what `CodeKept` says without its condition on votes, under `LeavesQuietly` |
| `LoopTheorems` | lemmas only: least elements, induction, and what a loop computes |

### Disputes

Type correctness is inductive. `FreezeCovers` is inductive with it: a supermajority
against appears in an import, which freezes if the candidate is included, or is
there when the candidate is included; `revert_and_freeze` never raises the block
(`RevertLowers`); pruning removes votes and inclusion together. `DisputeSound`
rests on `ImportStep`: an import keeps a dispute two-sided and concludes it when a
supermajority is fresh. `ConcludesTwiceOnlyByDoubleVotes` is a counting argument
about two supermajorities (`SupermajoritiesIntersect`), with the cardinality
theorems of the library. `TimeoutEnforced` is inductive because the allowance of
one block holds only before `Initialize`. `PruningExact` is inductive together with
`LastPrunedExact`, which says what `LastPrunedSession` holds in each session: the
range that the next session prunes starts there.

`SlotsFollowDisputes` is proved for one validator and session at a time: a step moves
the slots with the open disputes (`Tracked`). Either the disputes that leave take
their slots along, or one slot is taken and at most one dispute comes, or a slot is
returned for a dispute that is counted in `ReturnedTwice` from then on. `SlotsHeld` and
`SlotsReturned` follow by counting (`TrackedHolds`). The third case needs one more
invariant, `ConcludesLate`: a dispute that is concluded and not confirmed has timed out,
since a supermajority confirms (`SupermajorityConfirms`).

### Inclusion

`CoreBijection` is inductive because every stage removes a candidate and its core
together and the scheduler assigns free cores only. `PendingExtendsHead` is inductive
because a head moves only when its candidate leaves, or when governance moves it, which
`overridden` remembers until the next candidate is backed. `HeadsAdvance` follows from
`PendingExtendsHead` and two more invariants: `BackedEarlier` (until the inherent has
run, everything pending was backed in an earlier block) and `ProceedsUnfrozen`
(bitfields are counted on an unfrozen chain only). `TimeOutKept` is about remainders
by the rotation frequency: the predicate holds in the first blocks of each rotation,
and the announced block is the first of these at which the candidate is old enough;
the lemmas say what a remainder does between two multiples.

### Loops

`free_cores`, `clear`, `schedule`, the session change of the scheduler and the
dispatch of upward messages, the new blocks and the finalized heights of the
availability store are loops over storage, and the modules write them as
recursive functions of the number of turns. What such a loop keeps is proved by
induction with the lemmas of `LoopTheorems`: a function defined by its start and its
step exists and stays in the set that the step keeps (`LoopExists`), and a property
of the n-th turn holds for all of them (`NaturalsIn`, a consequence of well-founded
induction for membership in a set, which the provers can instantiate). Each proof
about a loop names the set: `Stores` for the scheduler, the states of a dispatch for
upward messages, `Reached` for the availability store.

### Scheduler

`SchedulerInv` says that the storage is one of `Stores(session)`: claims in the
queue, on cores and in the list of assignments are of parathreads, apart from each
other, and in the index; the queue names multiplexer cores that exist and claims
within their retries; cores hold what the session allows; the list of assignments
is either fresh (every assigned core is free, and its para is the one the core
serves) or stale (left by an earlier session that a frozen chain has not cleared),
and a stale list occurs only with all cores free. The last case is what makes it
subtle: a session change frees every core and returns claims to the queue, and the
list is cleared by the next inherent, which a frozen chain puts off. One lemma for
each operation says that it keeps `Stores` (`FreeCoresKeeps`, `ClearKeeps`,
`ScheduleKeeps`, `OccupiedKeeps`, `SessionKeeps`, `ClaimKeeps`), and
`SchedulingSound` follows, with a counting argument for the groups (`GroupsHold`:
rotation is a permutation of the groups, and the groups partition the validators).
`NoIdleCore` and `ClaimsConserved` follow from what the same lemmas say of the
assigned cores and of the claims that disappear.
`NextUpKept` compares two runs of `schedule`: the one that the runtime API makes on a
copy of the state, and the one of the block that frees the core. What core k serves
next (`Serves`) is its parachain or the first claim queued for it. A sweep that
assigns other cores takes other claims and leaves that one the first
(`FirstOfOthers`), freeing cores adds claims at the end of the queue only
(`FreeingFrees`), and the sweep that reaches k assigns it (`AssigningServes`). With one
multiplexer core a claim that times out returns to a queue that is empty if nothing
else was announced (`FreeingReturns`); for this the invariant says that claims are
handled by multiplexer cores (`Multiplexer`).

The theorems have the hypothesis `ThreadCoresStay`: all sessions have multiplexer
cores, or none has. Without it `SchedulingSound` fails in the way the first entries
of "Further disagreements" describe: the last core is removed while the chain is
frozen, which wipes the index but not the list, and a core is added again. TLC
checks the properties also on sessions between which the number of cores changes
among positive values and the paras change.

### Upward messages

`SizesExact` is inductive over the pallet's actions and, inside the dispatch, over
its turns: a state of the loop (`Cursors`) has what is left of the queues, and the
cursor among the paras still to dispatch. The number of turns is bounded by the
number of messages, which is what the loop of the code relies on to end.
`UpwardQueuesAreFifo` shows that each turn takes at most one message off one queue,
its first, so that a dispatch maps to a step of `Fifo` for every para: messages
leave in the order they came.

### Backing

`BackingInv` (`TaskInv`, `TableInv`, `OwnInv`) relates the table, the tasks and the sets
the job keeps: a candidate is
awaited exactly while its task runs or after the task failed (`TasksTracked`), what
was issued is what the table has from this node, and a statement of ours is on a
candidate we have validated. `NeverMisbehaves` needs all of it: the node seconds
once, and states `Valid` only of what it did not second. `BackedExact` follows from
the table's votes, for any threshold of the groups.

### Availability store

`IInv` says that the database is one of `Databases`, that what counts as finalized is
included by the finalized chain, and that contents and meta data agree. In
`Databases` everything noted of one candidate agrees (`Agrees`): its blocks, the
references by block and its pruning record. `AvailabilityExact` alone is not
inductive: that a finalized candidate is included by the chain needs that every block
noted for a candidate includes it. The processing of one block (`NewHeadKeeps`) and
of one finalized height (`HeightKeeps`) leads from one of `Databases` to another and
deletes nothing, and a transaction that fails, or a stop, ends the loop after any turn
of it; so neither needs that the blocks are taken in order. Finality moves along
ancestors (`AncestryGrows`). `KeptLongEnough` needs two more parts of `IInv`, which relate
the database to what was processed (`noted`) and to when blocks became final
(`final_at`). `Holds`: while a processed block is on a chain with the finalized one
(`Alive`), its candidates name it or are finalized. `OnChain`: a finalized candidate is
included by a final block, and its time starts no earlier than the finality of that
block. Finality only takes blocks out of `Alive` (`AliveShrinks`, from `Comparable`: two
ancestors of a block are ancestors one of the other), and the heights it walks through
drop only blocks that are not on the chain. A record that is due belongs to the state
the candidate is in now: a candidate that goes is unavailable, and then no block noted
with it is alive, or it was finalized long enough ago, by the one block of the chain
that includes it (`OneInclusion`, from `OnceAssumption`).

### Paras

`IInv` has three layers, because three things can be said under three conditions.

- Always, whatever governance forces: the storage is well typed (`IsStore`), and
  `NeverStuck`: a para in transition is queued for one of the next two sessions or its
  onboarding waits for a vote. The second part of `NeverStuck` (an onboarding para
  has its genesis data) is what makes it inductive: `apply_actions_queue` does nothing
  for an onboarding para without them, and the para would leave the queue and stay.
- While governance has forced nothing, `Lifecycles`: lifecycles, parachains, heads,
  codes and genesis data agree (`Registered`); a vote on an onboarding is on the current
  code of a para that is not queued (`OnboardingAsked`), so that its acceptance queues
  the para once and its rejection removes a para that nothing else acts on; a para
  is queued once, while in transition only (`ActionsSound`). Pending candidates are
  of paras with a head. Forced calls do not keep it: `force_set_current_head` gives a
  head to a para that is not registered, `force_set_current_code` a code.
- While in addition no vote on an upgrade has outlived its para (`Undisturbed`),
  `CodesSound`. That the count of references is exact (`Counted`) is not inductive:
  a rejected vote gives back one reference for each cause, so it needs that the users
  of a code under vote are those that asked (`UsersAsked`), once each
  (`UpgradesAsked`), and that a rejection never finds fewer causes than references
  (`VotesCounted`). That live paras run accepted code (`Accepted`) needs the same of
  scheduled code, of code about to be onboarded and of code stored without a vote,
  which the next para gets without one. That replaced code stays (`Retained`) needs
  that each replacement has an entry of `past` of its own: keys are the block
  an upgrade was expected at, and these grow (`ReplacedBefore`). `UpgradesAnnounced`
  says where between `upcoming` and `go_ahead` each scheduled upgrade is.
  `CodesSound` has two times because a session change replaces the codes of paras that
  leave after one block's upgrades were announced and before the next one's are.

Each layer has its lemmas for the effect of each function on the storage, and the
actions compose them: the session change is offboarding and onboarding
(`apply_actions_queue`), then the end of votes (`groom_ongoing_pvf_votes`), then the
pruning and the announcements of the next block. The counting is about finite
sets of users that gain or lose a member, with the cardinality theorems of the
library.

The condition on votes is needed: without it `OnlyApprovedUpgrades` fails as
"Further disagreements" describes. With the default configuration it is met unless a
para signals an upgrade while it leaves: `LifecyclesConsistent` also says that no vote
outlives its para if paras that leave signal no upgrades and `pvf_voting_ttl` is at most
2, its default (`LeavesQuietly`). This needs a second invariant, `Quiet`, beside `IInv`: a para that
leaves in two sessions may have asked for any vote, one that leaves in the next
session only for a vote that is a session old (`EndsInTime`), and a candidate that
is still pending can signal an upgrade of a leaving para in the session only in which
the para began to leave (`SignalsInTime`). At a session change a vote that goes on is
new, so that none of its paras is among those that leave. `ParasLeaveQuietly` draws the
conclusion for `CodeKept`.

### Only model-checked

- Liveness (`ClaimServed`, the fairness part of `DeliversFifo`, and what `ENABLED` is
  used for): the prover has no rules for it.
- Properties of several instances at once, defined in the `MC` modules: `runtime`,
  `approval`, `node`, `services`. Those of approval checking and chain selection rest
  on what folds over sequences and trees compute for every input. Of the `node` run the
  two properties of the availability store alone are proved, of the `runtime` run the
  three of paras and the one of disputes, of the `services` run those of backing.
- The type of a module without a theorem is part of the first invariant of its run.

## 5. Plan

Done: the pallets of a para's life and messages, the subsystems of section 2, and
the proofs of section 4. Next, in this order:

1. Proofs about `PvfExecute` and `PvfPrepare` (jobs tracked, capacity kept), `PvfHost`
   (requests tracked), `CollatorProtocol` (fetches in view), the indices of `Hrmp`.
2. `ParasInherent`: scheduler, inclusion and disputes in one block, each implemented
   by the composition, with the author's `create_inherent_inner`.
3. Dispute distribution and the provisioner.

## 6. Not modelled

The repository has some 135,000 lines, most of them networking, assembly of nodes and
runtimes, generated weights, tests of their own, the XCM interpreter, and the cumulus
pallets and client that parachains use. A model of them would be as long as they are
or say nothing. In particular:

- bitfield and dispute distribution, availability distribution and recovery, the
  network bridge: peers' views and request-response protocols over an external
  network; their results are inputs of the modules (bitfields, disputes, chunks
  arrive in any order, twice, or never);
- the provisioner and `create_inherent_inner`: weight limits and random selection;
  what they choose is among the inputs the runtime modules enumerate;
- registrar, slots, assigned slots, purchase: administration of accounts and leases,
  which reaches paras through the calls `Paras` has;
- `AvailabilityBitfields` (written, not read by the pallet), `force_enact`
  (benchmarks), rewards and punishments (empty implementations), events, signatures
  and hash chains;
- buffering of several session changes in one block, and the queue of pending
  configurations: each session of a module has the configuration it has;
- erasure coding, the XCM interpreter, worker processes, databases, command line and
  tools.
