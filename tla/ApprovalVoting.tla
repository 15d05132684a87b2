--------------------------- MODULE ApprovalVoting ---------------------------
(***************************************************************************)
(* The approval voting subsystem of one validator (node/core/              *)
(* approval-voting/src/lib.rs, import.rs, ops.rs, persisted_entries.rs).   *)
(*                                                                         *)
(* Every action is one turn of the subsystem's loop: an event, the actions *)
(* it brings about and the database transaction at the end.  The database  *)
(* survives a crash, wakeups and running checks do not.                    *)
(***************************************************************************)
EXTENDS ApprovalChecking, Maps

CONSTANTS
    Tree,        \* of a block: its parent, number, tick and included candidates
    Tranche,     \* of a block, candidate and validator: the assignment, or None
    Us,          \* our own validator index
    NValidators, Needed, NoShow,
    GroupSize,   \* of the backing groups
    Delay,       \* APPROVAL_DELAY
    TooFar,      \* TICK_TOO_FAR_IN_FUTURE
    ForceUpTo,   \* of a block: the height its digest forces approval up to, or None
    Finality,    \* whether blocks are finalized in this instance
    Prompt,      \* whether the loop handles a wakeup before the next tick
    MaxTick,     \* bound: the last tick
    MaxCrashes   \* bound: how often the node stops and starts again

VARIABLES
    now, crashes,
    mode,       \* Mode: syncing or active
    blocks,     \* BlockEntry: the candidates approved under the block
    cands,      \* CandidateEntry: approvals, and an ApprovalEntry for each block
    first,      \* StoredBlockRange.0, or None
    finalized,  \* the last finalized block
    wakeups,    \* Wakeups: the tick for a block and a candidate
    checking,   \* CurrentlyCheckingSet: the blocks waiting for each candidate
    cache,      \* approvals_cache
    forwarded,  \* assignments approval distribution passed on in this run
    noted,      \* blocks reported approved to chain selection
    informed,   \* votes reported to the dispute coordinator
    sent        \* own statements given to approval distribution in this run

memory == <<wakeups, checking, cache, forwarded, sent, mode>>
store == <<blocks, cands, first, finalized>>
vars == <<now, crashes, memory, store, noted, informed>>

Blocks == DOMAIN Tree
Includes(b) == Tree[b].candidates
Number(b) == Tree[b].number
Validators == 0..(NValidators - 1)

Init ==
    /\ now = 0 /\ crashes = 0 /\ mode = "syncing"
    /\ blocks = EmptyMap /\ cands = EmptyMap /\ first = None
    /\ finalized = [block |-> None, number |-> 0]
    /\ wakeups = EmptyMap /\ checking = EmptyMap /\ cache = EmptyMap
    /\ forwarded = {} /\ noted = {} /\ informed = {} /\ sent = {}

-----------------------------------------------------------------------------
(* Entries.                                                                *)

is_fully_approved(b, approved) == Includes(b) \subseteq approved

is_assigned(entry, v) == \E a \in entry.assignments : a.v = v

import_assignment(entry, v, tranche) ==
    [entry EXCEPT !.assignments = @ \union
        {[v |-> v, tranche |-> tranche, tick |-> now,
          copy |-> Cardinality({a \in @ : a.v = v})]}]

\* approval_status at the tick t.
Required(b, entry, approvals, t) ==
    tranches_to_approve(entry.assignments, approvals, SaturatingSub(t, Tree[b].tick), Tree[b].tick,
                        NoShow, Needed, NValidators)

IsApproved(entry, approvals, required, t) ==
    check_approval(entry.assignments, approvals, required, NValidators, SaturatingSub(t, Delay))

should_trigger_assignment(b, c, entry, approvals, required, t) ==
    LET ours == Tranche[b][c][Us]
    IN  /\ ours # None
        /\ ~entry.triggered
        /\ \/ ours = 0
           \/ required.kind = "All" /\ 3 * Cardinality(approvals) <= NValidators
           \/ /\ required.kind = "Pending"
              /\ ours <= required.maximum_broadcast
              /\ ours <= SaturatingSub(SaturatingSub(t, Tree[b].tick), required.clock_drift)

\* Faulty variant: only announced assignments are waited for.
ScheduleAnnounced(b, c, entry, required) ==
    LET announced == {a.tranche : a \in {x \in entry.assignments : x.tranche > required.tranche}}
        next_tranche == IF announced = {} THEN None
                        ELSE Min(announced) + Tree[b].tick + required.clock_drift
        settled == required.last_assignment_tick + Delay
    IN  CASE entry.approved \/ required.kind = "All" -> None
          [] ~entry.approved /\ required.kind = "Exact" ->
               min_prefer_some(IF required.last_assignment_tick # None /\ settled > now
                               THEN settled ELSE None, required.next_no_show)
          [] OTHER -> min_prefer_some(next_tranche, required.next_no_show)

\* schedule_wakeup_action: the tick of the next wakeup, if one is needed.
schedule_wakeup_action(b, c, entry, required) ==
    LET ours == Tranche[b][c][Us]
        later == {a.tranche : a \in {x \in entry.assignments : x.tranche > required.tranche}}
                   \union {t \in {ours} : ~entry.triggered /\ t > required.tranche}
        next_tranche == IF later = {} THEN None
                        ELSE Min(later) + Tree[b].tick + required.clock_drift
        settled == required.last_assignment_tick + Delay
    IN  CASE entry.approved \/ required.kind = "All" -> None
          [] ~entry.approved /\ required.kind = "Exact" ->
               min_prefer_some(IF required.last_assignment_tick # None /\ settled > now
                               THEN settled ELSE None, required.next_no_show)
          [] OTHER -> min_prefer_some(next_tranche, required.next_no_show)

\* Wakeups::schedule: the earlier of two wakeups stays.
schedule(w, b, c, tick) ==
    IF tick = None \/ GetOr(w, <<b, c>>, tick + 1) <= tick THEN w ELSE Put(w, <<b, c>>, tick)

-----------------------------------------------------------------------------
(* advance_approval_state.  A state s of the database holds the blocks, the *)
(* candidates, the wakeups and what was noted.                              *)

Database == [blocks |-> blocks, cands |-> cands, wakeups |-> wakeups, noted |-> noted]

Commit(s) ==
    /\ blocks' = s.blocks
    /\ cands' = s.cands
    /\ wakeups' = s.wakeups
    /\ noted' = s.noted

\* What the verdict on the candidate under the block changes.
Marked(s, b, c, approvals, required, approved, local) ==
    LET new == [s.cands[c].entries[b] EXCEPT !.approved = @ \/ approved, !.signed = @ \/ local]
        marked == IF approved THEN s.blocks[b] \union {c} ELSE s.blocks[b]
    IN  [blocks |-> Put(s.blocks, b, marked),
         cands |-> Put(s.cands, c, [approvals |-> approvals,
                                    entries |-> Put(s.cands[c].entries, b, new)]),
         wakeups |-> schedule(s.wakeups, b, c, schedule_wakeup_action(b, c, new, required)),
         noted |-> IF is_fully_approved(b, marked) /\ ~is_fully_approved(b, s.blocks[b])
                   THEN s.noted \union {b} ELSE s.noted]

Judged(s, b, c, approvals, required, local) ==
    Marked(s, b, c, approvals, required,
           IsApproved(s.cands[c].entries[b], approvals, required, now), local)

\* v is the approving validator, or empty for a wakeup.  A remote vote or a
\* wakeup for a candidate that is approved under the block changes nothing.
advance_approval_state(s, b, c, v, local) ==
    LET approvals == s.cands[c].approvals \union v
    IN  IF ~local /\ c \in s.blocks[b] THEN s
        ELSE Judged(s, b, c, approvals, Required(b, s.cands[c].entries[b], approvals, now), local)

\* issue_approval for the candidate under each of the blocks that are still
\* stored.  The dispute coordinator hears of a vote we had cast already.
issue_approval(s, c, B) ==
    FoldSet(LAMBDA b, t : advance_approval_state(t, b, c, {Us}, TRUE), s,
            B \intersect DOMAIN s.blocks)

\* The first of several votes is not reported, each of the others is.
Reported(s, c, B) ==
    LET live == B \intersect DOMAIN s.blocks
    IN  IF live # {} /\ (Us \in s.cands[c].approvals \/ Cardinality(live) > 1)
        THEN {<<c, Us>>} ELSE {}

Signed(s, c, B) == {<<"approval", b, c>> : b \in B \intersect DOMAIN s.blocks}

-----------------------------------------------------------------------------
(* Blocks come and go.                                                     *)

\* A block and its ancestors.
Ancestry[b \in Blocks] ==
    IF Tree[b].parent \in Blocks THEN {b} \union Ancestry[Tree[b].parent] ELSE {b}

\* force_approve: the stored chain below the head, from the height up_to on.
ForceApproved(s, head, up_to) ==
    {b \in Ancestry[head] :
        /\ Number(b) <= up_to
        /\ \A x \in Ancestry[head] : Number(x) >= Number(b) => x \in DOMAIN s.blocks}

\* Candidates that too few validators could check are approved at once.
InstaApproved(b) ==
    IF Needed = 0 \/ SaturatingSub(NValidators, GroupSize) < Needed THEN Includes(b) ELSE {}

NewEntry == [assignments |-> {}, triggered |-> FALSE, signed |-> FALSE, approved |-> FALSE]

\* The block's own entry is written after the approval is forced.
add_block_entry(s, b) ==
    LET forced == ForceApproved(s, b, ForceUpTo[b])
        Entries(c) == IF c \in DOMAIN s.cands THEN s.cands[c].entries ELSE EmptyMap
        Approvals(c) == IF c \in DOMAIN s.cands THEN s.cands[c].approvals ELSE {}
        touched == [c \in Includes(b) |->
                      [approvals |-> Approvals(c), entries |-> Put(Entries(c), b, NewEntry)]]
        ours == {c \in Includes(b) : Tranche[b][c][Us] # None}
    IN  [blocks |-> [x \in DOMAIN s.blocks \union {b} |->
                       CASE x = b -> InstaApproved(b)
                         [] x # b /\ x \in forced -> Includes(x)
                         [] OTHER -> s.blocks[x]],
         cands |-> touched @@ s.cands,
         wakeups |-> [k \in {b} \X ours |-> Tranche[b][k[2]][Us] + Tree[b].tick] @@ s.wakeups,
         noted |-> s.noted \union forced
                     \union IF is_fully_approved(b, InstaApproved(b)) THEN {b} ELSE {}]

\* A head is imported together with its ancestors down to one that is known or
\* final.
handle_new_head(head) ==
    LET new == {b \in Ancestry[head] : /\ Number(b) > finalized.number
                                       /\ \A x \in Ancestry[head] :
                                            Number(x) >= Number(b) => x \notin DOMAIN blocks}
        order == SetToSortSeq(new, LAMBDA x, y : Number(x) < Number(y))
    IN  /\ new # {}
        /\ \A b \in new : Tree[b].tick <= now
        /\ finalized.block \in Ancestry[head] \union {None}
        /\ Commit(FoldLeft(add_block_entry, Database, order))
        /\ first' = IF first = None THEN Number(order[1]) ELSE first
        /\ UNCHANGED <<now, crashes, finalized, checking, cache, forwarded, sent, mode, informed>>

\* Faulty variant: branches beside the finalized block stay.
CanonicalizeKeepingBranches(h) ==
    LET n == Number(h)
        removed == IF first >= n THEN {} ELSE {b \in DOMAIN blocks : Number(b) <= n}
        kept == [c \in DOMAIN cands |-> Without(cands[c].entries, removed)]
    IN  /\ blocks' = Without(blocks, removed)
        /\ cands' = [c \in {x \in DOMAIN kept : DOMAIN kept[x] # {}} |->
                       [cands[c] EXCEPT !.entries = kept[c]]]
        /\ first' = IF first >= n THEN first ELSE n + 1

\* Everything up to the height of the finalized block goes, and the branches
\* that grow from its competitors - unless it is the lowest height that is stored.
canonicalize(h) ==
    LET n == Number(h)
        removed == IF first >= n THEN {}
                   ELSE {b \in DOMAIN blocks :
                          Number(b) <= n \/ \E x \in Ancestry[b] \ {h} :
                                              x \in DOMAIN blocks /\ Number(x) = n}
        kept == [c \in DOMAIN cands |-> Without(cands[c].entries, removed)]
    IN  /\ blocks' = Without(blocks, removed)
        /\ cands' = [c \in {x \in DOMAIN kept : DOMAIN kept[x] # {}} |->
                       [cands[c] EXCEPT !.entries = kept[c]]]
        /\ first' = IF first >= n THEN first ELSE n + 1

BlockFinalized(h) ==
    /\ Finality
    /\ h \in DOMAIN blocks
    /\ Number(h) > finalized.number
    /\ finalized.block \in Ancestry[h] \union {None}
    /\ finalized' = [block |-> h, number |-> Number(h)]
    /\ canonicalize(h)
    /\ wakeups' = Without(wakeups, {k \in DOMAIN wakeups : Number(k[1]) <= Number(h)})
    /\ UNCHANGED <<now, crashes, checking, cache, forwarded, sent, mode, noted, informed>>

-----------------------------------------------------------------------------
(* Messages, wakeups and results.                                          *)

Known(b, c) == b \in DOMAIN blocks /\ c \in DOMAIN cands /\ b \in DOMAIN cands[c].entries

\* Distribution passes an assignment on once; it forgets which when it restarts.
check_and_import_assignment(b, c, v) ==
    /\ Known(b, c)
    /\ <<b, c, v>> \notin forwarded
    /\ v # Us
    /\ LET tranche == Tranche[b][c][v]
           new == import_assignment(cands[c].entries[b], v, tranche)
           required == Required(b, new, cands[c].approvals, now)
       IN  /\ tranche # None
           /\ tranche < SaturatingSub(now, Tree[b].tick) + TooFar
           /\ cands' = [cands EXCEPT ![c].entries[b] = new]
           /\ wakeups' = schedule(wakeups, b, c, schedule_wakeup_action(b, c, new, required))
    /\ forwarded' = forwarded \union {<<b, c, v>>}
    /\ UNCHANGED <<now, crashes, blocks, first, finalized, checking, cache, sent, mode, noted, informed>>

check_and_import_approval(b, c, v) ==
    /\ Known(b, c)
    /\ v # Us
    /\ is_assigned(cands[c].entries[b], v)
    /\ Commit(advance_approval_state(Database, b, c, {v}, FALSE))
    /\ informed' = IF v \in cands[c].approvals THEN informed ELSE informed \union {<<c, v>>}
    /\ UNCHANGED <<now, crashes, first, finalized, checking, cache, forwarded, sent, mode>>

\* What launching the check of a triggered assignment does.
LaunchApproval(s, b, c) ==
    LET votes == GetOr(cache, c, "none") = "approved"
    IN  /\ Commit(IF votes /\ mode = "active" THEN issue_approval(s, c, {b}) ELSE s)
        /\ informed' = IF votes /\ mode = "active" THEN informed \union Reported(s, c, {b}) ELSE informed
        /\ sent' = CASE mode = "syncing" -> sent
                     [] mode = "active" -> sent \union {<<"assignment", b, c>>}
                                             \union IF votes THEN Signed(s, c, {b}) ELSE {}
        /\ checking' = IF mode = "active" /\ c \notin DOMAIN cache
                       THEN Put(checking, c, GetOr(checking, c, {}) \union {b}) ELSE checking

\* A wakeup that triggers our assignment launches the check.
Wake(s, b, c, triggers) ==
    LET ours == [import_assignment(s.cands[c].entries[b], Us, Tranche[b][c][Us])
                    EXCEPT !.triggered = TRUE]
    IN  IF triggers
        THEN LaunchApproval(advance_approval_state([s EXCEPT !.cands[c].entries[b] = ours],
                                                   b, c, {}, FALSE), b, c)
        ELSE /\ Commit(advance_approval_state(s, b, c, {}, FALSE))
             /\ UNCHANGED <<informed, sent, checking>>

\* The next wakeup is due.  It is lost if the block is gone.
process_wakeup(b, c) ==
    /\ <<b, c>> \in DOMAIN wakeups
    /\ wakeups[b, c] <= now
    /\ \A k \in DOMAIN wakeups : wakeups[b, c] <= wakeups[k]
    /\ LET woken == [Database EXCEPT !.wakeups = Without(@, {<<b, c>>})]
           entry == cands[c].entries[b]
           approvals == cands[c].approvals
       IN  IF Known(b, c)
           THEN Wake(woken, b, c, should_trigger_assignment(b, c, entry, approvals,
                                      Required(b, entry, approvals, now), now))
           ELSE Commit(woken) /\ UNCHANGED <<informed, sent, checking>>
    /\ UNCHANGED <<now, crashes, first, finalized, cache, forwarded, mode>>

\* The check of c ends: recovery and validation succeed, fail or time out.
CheckDone(c, outcome) ==
    /\ c \in DOMAIN checking
    /\ checking' = Without(checking, {c})
    /\ cache' = Put(cache, c, outcome)
    /\ IF outcome = "approved"
       THEN /\ Commit(issue_approval(Database, c, checking[c]))
            /\ informed' = informed \union Reported(Database, c, checking[c])
            /\ sent' = sent \union Signed(Database, c, checking[c])
       ELSE UNCHANGED <<blocks, cands, wakeups, noted, informed, sent>>
    /\ UNCHANGED <<now, crashes, first, finalized, forwarded, mode>>

\* distribution_messages_for_activation: our statements on the stored blocks.
LocalStatements ==
    LET ours == {k \in Blocks \X DOMAIN cands :
                   Known(k[1], k[2]) /\ cands[k[2]].entries[k[1]].triggered}
    IN  {<<"assignment", k[1], k[2]>> : k \in ours} \union
        {<<"approval", k[1], k[2]>> : k \in {x \in ours : cands[x[2]].entries[x[1]].signed}}

\* The sync of the chain is over.
BecomeActive ==
    /\ mode = "syncing"
    /\ mode' = "active"
    /\ sent' = sent \union LocalStatements
    /\ UNCHANGED <<now, crashes, store, wakeups, checking, cache, forwarded, noted, informed>>

\* The node stops and starts again.
Crash ==
    /\ crashes < MaxCrashes
    /\ crashes' = crashes + 1
    /\ mode' = "syncing"
    /\ wakeups' = EmptyMap /\ checking' = EmptyMap /\ cache' = EmptyMap
    /\ forwarded' = {} /\ sent' = {}
    /\ UNCHANGED <<now, store, noted, informed>>

Tick ==
    /\ now < MaxTick
    /\ Prompt => \A k \in DOMAIN wakeups : wakeups[k] > now
    /\ now' = now + 1
    /\ UNCHANGED <<crashes, memory, store, noted, informed>>

Candidates == UNION {Includes(b) : b \in Blocks}

Next ==
    \/ \E b \in Blocks : handle_new_head(b) \/ BlockFinalized(b)
    \/ \E b \in Blocks : \E c \in Includes(b) :
         \/ process_wakeup(b, c)
         \/ \E v \in Validators :
              check_and_import_assignment(b, c, v) \/ check_and_import_approval(b, c, v)
    \/ \E c \in Candidates, outcome \in {"approved", "failed"} : CheckDone(c, outcome)
    \/ BecomeActive
    \/ Crash
    \/ Tick

Spec == Init /\ [][Next]_vars

-----------------------------------------------------------------------------
(* The query of the finality voter.                                        *)

\* handle_approved_ancestor: walking down from the target, an unapproved block
\* discards what was found above it.
handle_approved_ancestor(target, lower_bound) ==
    LET down == SetToSortSeq({b \in Ancestry[target] : Number(b) > lower_bound},
                             LAMBDA x, y : Number(x) > Number(y))
        Visit(found, b) ==
            CASE ~is_fully_approved(b, blocks[b]) -> None
              [] is_fully_approved(b, blocks[b]) /\ found = None -> b
              [] OTHER -> found
    IN  IF ToSet(down) \subseteq DOMAIN blocks THEN FoldLeft(Visit, None, down) ELSE None

-----------------------------------------------------------------------------
(* Properties.                                                             *)

\* Types, and the two tables of the database agree: a candidate is stored with
\* an entry for exactly the stored blocks that include it, whatever was
\* finalized (canonicalize, add_block_entry).
TypeOK ==
    /\ mode \in {"syncing", "active"}
    /\ DOMAIN blocks \subseteq Blocks
    /\ \A b \in DOMAIN blocks : blocks[b] \subseteq Includes(b)
    /\ DOMAIN cands = UNION {Includes(b) : b \in DOMAIN blocks}
    /\ \A c \in DOMAIN cands :
         /\ DOMAIN cands[c].entries = {b \in DOMAIN blocks : c \in Includes(b)}
         /\ cands[c].approvals \subseteq Validators
    /\ DOMAIN checking \subseteq Candidates

\* Once the database is pruned to the finalized block, only its descendants are
\* stored, whatever branches there were (canonicalize).
PrunedExact ==
    first = finalized.number + 1 =>
        \A b \in DOMAIN blocks : Number(b) >= first /\ finalized.block \in Ancestry[b] \union {None}

Checkers(b, c) == {v \in cands[c].approvals : is_assigned(cands[c].entries[b], v)}

\* A candidate is approved under a block only when as many assigned validators
\* as are needed approved it - each no-show replaced by another - or more than
\* a third of all did (advance_approval_state, tranches_to_approve).
ApprovedByEnough ==
    \A b \in DOMAIN blocks : \A c \in blocks[b] \ InstaApproved(b) :
        \/ Cardinality(Checkers(b, c)) >= Needed
        \/ 3 * Cardinality(cands[c].approvals) > NValidators

\* A node never sleeps through what time alone brings about: whenever its own
\* assignment would be due or the candidate approved at some tick, a wakeup is
\* scheduled by then; and some wakeup even if an import made all validators
\* needed, for which none is scheduled (schedule_wakeup_action, schedule).
NoMissedWakeup ==
    \A b \in {x \in DOMAIN blocks : Number(x) > finalized.number} :
    \A c \in Includes(b) \ blocks[b] : \A t \in now..(MaxTick + NoShow) :
        LET entry == cands[c].entries[b]
            approvals == cands[c].approvals
            Due(required) == \/ should_trigger_assignment(b, c, entry, approvals, required, t)
                             \/ IsApproved(entry, approvals, required, t)
        IN  Due(Required(b, entry, approvals, t))
            => /\ <<b, c>> \in DOMAIN wakeups
               /\ Required(b, entry, approvals, now).kind # "All" => wakeups[b, c] <= t

\* Chain selection is told of a block exactly when all its candidates are
\* approved (advance_approval_state, handle_new_head).
NotedExact ==
    \A b \in DOMAIN blocks : b \in noted <=> is_fully_approved(b, blocks[b])

\* An active node has handed every own statement it stores to distribution,
\* also those made while it was syncing or before it stopped
\* (distribution_messages_for_activation, handle_actions).
StatementsSent ==
    mode = "active" =>
        \A c \in DOMAIN cands : \A b \in DOMAIN cands[c].entries :
            /\ cands[c].entries[b].triggered => <<"assignment", b, c>> \in sent
            /\ cands[c].entries[b].signed => <<"approval", b, c>> \in sent

\* The finality voter gets the highest block below which, down to the bound,
\* everything is approved (handle_approved_ancestor).
AncestorSound ==
    \A target \in {b \in DOMAIN blocks : finalized.block \in Ancestry[b] \union {None}} :
        LET above == {b \in Ancestry[target] : Number(b) > finalized.number}
            Good(b) == \A x \in above : Number(x) <= Number(b) => is_fully_approved(x, blocks[x])
            found == handle_approved_ancestor(target, finalized.number)
        IN  {b \in above : found # None /\ Number(b) <= Number(found)} = {b \in above : Good(b)}

-----------------------------------------------------------------------------
(* Claims of the code's comments that do not hold.                         *)

\* "This indicates that at least the amount of needed_approvals are assigned".
ExactMeansAssigned ==
    \A c \in DOMAIN cands : \A b \in DOMAIN cands[c].entries :
        LET entry == cands[c].entries[b]
            required == Required(b, entry, cands[c].approvals, now)
        IN  required.kind = "Exact" =>
              Cardinality(AssignedUpTo(entry.assignments, required.tranche)) >= Needed

\* "Record our statement in the dispute coordinator for later participation in
\* disputes on the same candidate."
OwnVoteRecorded ==
    \A c \in DOMAIN cands : \A b \in DOMAIN cands[c].entries :
        cands[c].entries[b].signed => <<c, Us>> \in informed

\* "Forcibly approve all candidates included at up to the given relay-chain
\* height in the indicated chain."
ForceApprovalWorks ==
    \A b \in DOMAIN blocks : \A x \in Ancestry[b] \intersect DOMAIN blocks :
        Number(x) <= ForceUpTo[b] => is_fully_approved(x, blocks[x])

\* "Canonicalize some particular block, pruning everything before it and
\* pruning any competing branches at the same height."
PrunedAtFinality ==
    \A b \in DOMAIN blocks : Number(b) > finalized.number /\ finalized.block \in Ancestry[b] \union {None}
=============================================================================
