--------------------------- MODULE DisputeCoordinator ---------------------------
(***************************************************************************)
(* The dispute coordinator of a node (node/core/dispute-coordinator): the  *)
(* votes it collects from gossip and from chain, its spam slots, and the   *)
(* queue of the disputes the node itself takes part in.                    *)
(*                                                                         *)
(* db is the database, written once at the end of every turn of the loop;  *)
(* mem is what a restart loses, Off between a crash and the first leaf     *)
(* after it.  A candidate's votes are the sets of validators on each side. *)
(* Statements come in sets as other parts of the node make them: a dispute *)
(* message carries one vote of each side, an approval or a backing         *)
(* statement one valid vote, a block whatever it recorded.                 *)
(***************************************************************************)
EXTENDS Integers, FiniteSets, Sequences, SequencesExt, FiniteSetsExt, Maps

CONSTANTS
    Tree,        \* of a block: its parent, number, session, included candidates and votes
    Root,        \* the parent of the lowest block
    Receipts,    \* of a candidate: its session, relay parent's number and hash
    Validators, Own, NValidators,
    Messages,    \* the statement sets other subsystems send
    Rejected,    \* the candidates approval voting may find invalid
    Window,                           \* DISPUTE_WINDOW
    MaxSpamVotes, MaxParallel,        \* MAX_SPAM_VOTES, MAX_PARALLEL_PARTICIPATIONS
    BestEffortSize, PrioritySize,
    ActiveDuration, Times,            \* ACTIVE_DURATION_SECS, the values of the clock
    MaxAdded, MaxCrashes              \* bounds of the model

VARIABLES
    db, mem,
    finalized,   \* the finalized block
    leaves,      \* the blocks that have been active leaves
    signed,      \* history: our explicit statements, as pairs of candidate and side
    torn,        \* history: candidates of a statement sent in a turn that was never written
    crashes

vars == <<db, mem, finalized, leaves, signed, torn, crashes>>

Off == [running |-> {}]
None == -1
Blocks == DOMAIN Tree
Candidates == DOMAIN Receipts
Sessions == {Receipts[c].session : c \in Candidates} \union {Tree[b].session : b \in Blocks}
Number(b) == IF b = Root THEN 0 ELSE Tree[b].number
Monus(a, b) == IF a < b THEN 0 ELSE a - b

\* A block with its ancestors above the root.
Ancestry[b \in Blocks \union {Root}] ==
    IF b = Root THEN {} ELSE {b} \union Ancestry[Tree[b].parent]

byzantine_threshold == Monus(NValidators, 1) \div 3
supermajority_threshold == NValidators - byzantine_threshold

-----------------------------------------------------------------------------
(* Votes and status.                                                       *)

NoVotes == [valid |-> {}, invalid |-> {}]
voted_indices(votes) == votes.valid \union votes.invalid
Disputed(votes) == votes.valid # {} /\ votes.invalid # {}

Status(kind, at) == [kind |-> kind, at |-> at]
is_confirmed_concluded(status) == status.kind # "active"
is_possibly_invalid(status) == status.kind # "for"
concluded_at(status) == status.at

confirm(status) == IF status.kind = "active" THEN Status("confirmed", None) ELSE status

\* The clock is not monotonic: the earliest conclusion counts.
Earlier(at, now) == IF at = None \/ now < at THEN now ELSE at

concluded_for(status, now) ==
    IF status.kind = "against" THEN status ELSE Status("for", Earlier(status.at, now))

concluded_against(status, now) == Status("against", Earlier(status.at, now))

\* Faulty variant: a conclusion against the candidate does not overrule.
NextStatusFirstWins(status, votes, is_confirmed, now) ==
    LET s1 == IF is_confirmed THEN confirm(status) ELSE status
        s2 == IF Cardinality(votes.valid) >= supermajority_threshold THEN concluded_for(s1, now) ELSE s1
    IN  IF Cardinality(votes.invalid) >= supermajority_threshold /\ s2.kind # "for"
        THEN concluded_against(s2, now) ELSE s2

NextStatus(status, votes, is_confirmed, now) ==
    LET s1 == IF is_confirmed THEN confirm(status) ELSE status
        s2 == IF Cardinality(votes.valid) >= supermajority_threshold THEN concluded_for(s1, now) ELSE s1
    IN  IF Cardinality(votes.invalid) >= supermajority_threshold
        THEN concluded_against(s2, now) ELSE s2

-----------------------------------------------------------------------------
(* Spam slots.                                                             *)

SessionOf(c) == Receipts[c].session
HasSlot(m, c, v) == m.slots[SessionOf(c), v] < MaxSpamVotes

\* add_unconfirmed of each of the validators vs; those without a free slot are
\* passed over, even if they hold one for this candidate already.
add_unconfirmed(m, c, vs) ==
    LET free == {v \in vs : HasSlot(m, c, v)}
        held == GetOr(m.unconfirmed, c, {})
    IN  IF free = {} THEN m
        ELSE [m EXCEPT !.unconfirmed = Put(@, c, held \union free),
                       !.slots = [k \in DOMAIN @ |->
                           IF k[1] = SessionOf(c) /\ k[2] \in free \ held THEN @[k] + 1 ELSE @[k]]]

clear(m, c) ==
    LET held == GetOr(m.unconfirmed, c, {})
    IN  [m EXCEPT !.unconfirmed = Without(@, {c}),
                  !.slots = [k \in DOMAIN @ |->
                      IF k[1] = SessionOf(c) /\ k[2] \in held THEN @[k] - 1 ELSE @[k]]]

prune_old(m, oldest) ==
    [m EXCEPT !.unconfirmed = Without(@, {c \in DOMAIN @ : SessionOf(c) < oldest}),
              !.slots = [k \in DOMAIN @ |-> IF k[1] < oldest THEN 0 ELSE @[k]]]

NoSlots == [k \in Sessions \X Validators |-> 0]

recover_from_state(unconfirmed) ==
    [k \in Sessions \X Validators |->
        Cardinality({c \in DOMAIN unconfirmed : SessionOf(c) = k[1] /\ k[2] \in unconfirmed[c]})]

-----------------------------------------------------------------------------
(* Participation.                                                          *)

Queued(m) == m.priority \union DOMAIN m.best_effort

HasCapacity(m) == Cardinality(m.running) < MaxParallel

fork_participation(m, c) ==
    [m EXCEPT !.running = @ \union {c}, !.dropped = @ \ {c}]

\* Whether Queues::queue refuses the request.
QueueFull(m, is_included) ==
    IF is_included THEN Cardinality(m.priority) >= PrioritySize
    ELSE Cardinality(DOMAIN m.best_effort) >= BestEffortSize

\* A refused request is forgotten, unless it was queued before.
queue(m, c, is_included) ==
    CASE QueueFull(m, is_included) -> [m EXCEPT !.dropped = @ \union ({c} \ Queued(m))]
      [] ~QueueFull(m, is_included) /\ is_included ->
           [m EXCEPT !.priority = @ \union {c}, !.best_effort = Without(@, {c}), !.dropped = @ \ {c}]
      [] OTHER ->
           [m EXCEPT !.best_effort = Put(@, c, GetOr(@, c, 0) + 1), !.dropped = @ \ {c}]

queue_participation(m, c, is_included) ==
    CASE c \in m.running -> m
      [] c \notin m.running /\ m.recent_block /\ HasCapacity(m) -> fork_participation(m, c)
      [] OTHER -> queue(m, c, is_included)

\* The order of the priority queue: CandidateComparator.
Before(c, d) ==
    \/ Receipts[c].relay_parent < Receipts[d].relay_parent
    \/ Receipts[c].relay_parent = Receipts[d].relay_parent /\ Receipts[c].hash < Receipts[d].hash

\* The request to start next: the first of the priority queue, else one that was
\* added most often, equals in the arbitrary order of the hash map (an input).
NextRequest(m, order) ==
    IF m.priority # {} THEN CHOOSE c \in m.priority : \A d \in m.priority : d = c \/ Before(c, d)
    ELSE CHOOSE c \in DOMAIN m.best_effort : \A d \in DOMAIN m.best_effort :
             \/ m.best_effort[d] < m.best_effort[c]
             \/ m.best_effort[d] = m.best_effort[c] /\ order[c] <= order[d]

dequeue(m, order) ==
    LET c == NextRequest(m, order)
    IN  IF HasCapacity(m) /\ Queued(m) # {}
        THEN fork_participation([m EXCEPT !.priority = @ \ {c}, !.best_effort = Without(@, {c})], c)
        ELSE m

dequeue_until_capacity(m, order) ==
    FoldLeft(LAMBDA n, i : dequeue(n, order), m, [i \in 1..MaxParallel |-> i])

-----------------------------------------------------------------------------
(* Importing statements.                                                   *)

IsIncluded(m, c) == c \in m.included
session_info(m, session) == session <= m.highest /\ m.highest < session + Window

Statements(c, valid, invalid, receipt) ==
    [candidate |-> c, valid |-> valid, invalid |-> invalid, receipt |-> receipt]

\* Whether the dispute is known not to be spam, with the votes it has now.
IsConfirmed(s, imp, votes) ==
    LET c == imp.candidate
    IN  \/ IsIncluded(s.mem, c)
        \/ c \in DOMAIN s.db.recent /\ is_confirmed_concluded(s.db.recent[c])
        \/ (imp.valid \union imp.invalid) \intersect Own # {}
        \/ Cardinality(voted_indices(votes)) > byzantine_threshold

\* The spam slots after an import.
SettleSpam(s, imp, fresh, confirmed) ==
    LET c == imp.candidate
        was_confirmed == c \in DOMAIN s.db.recent /\ is_confirmed_concluded(s.db.recent[c])
    IN  CASE ~confirmed /\ fresh # {} -> add_unconfirmed(s.mem, c, fresh)
          [] confirmed /\ ~was_confirmed -> clear(s.mem, c)
          [] OTHER -> s.mem

\* The node takes part unless it has voted or the statement is its own.
Participate(s, imp, old, votes, m) ==
    IF /\ (imp.valid \union imp.invalid) \intersect Own = {}
       /\ voted_indices(old) \intersect Own = {} /\ Disputed(votes) /\ Own # {}
    THEN queue_participation(m, imp.candidate, IsIncluded(m, imp.candidate)) ELSE m

\* handle_import_statements.  An import that is refused for full slots leaves
\* its mark on the slots of the validators that had one free.
handle_import_statements(s, imp, now) ==
    LET c == imp.candidate
        old == GetOr(s.db.votes, c, NoVotes)
        votes == [valid |-> old.valid \union imp.valid, invalid |-> old.invalid \union imp.invalid]
        fresh == imp.invalid \ old.invalid
        confirmed == IsConfirmed(s, imp, votes)
        m == SettleSpam(s, imp, fresh, confirmed)
    IN  CASE ~session_info(s.mem, SessionOf(c)) \/ (c \notin DOMAIN s.db.votes /\ ~imp.receipt) -> s
          [] ~confirmed /\ (\E v \in fresh : ~HasSlot(s.mem, c, v)) -> [s EXCEPT !.mem = m]
          [] OTHER ->
               [db |-> [s.db EXCEPT
                          !.votes = Put(@, c, votes),
                          !.recent = IF ~Disputed(votes) THEN @
                                     ELSE Put(@, c, NextStatus(GetOr(@, c, Status("active", None)),
                                                               votes, confirmed, now))],
                mem |-> Participate(s, imp, old, votes, m)]

\* Faulty variant: a statement is signed whatever was said before.
LocalStatementsAgain(s, c, valid) ==
    Statements(c, IF valid THEN Own ELSE {}, IF valid THEN {} ELSE Own, TRUE)

\* The statements issue_local_statement signs: one for each of our validators
\* that has not voted.
LocalStatements(s, c, valid) ==
    LET ours == IF session_info(s.mem, SessionOf(c))
                THEN Own \ voted_indices(GetOr(s.db.votes, c, NoVotes)) ELSE {}
    IN  Statements(c, IF valid THEN ours ELSE {}, IF valid THEN {} ELSE ours, TRUE)

HasStatement(imp) == imp.valid \union imp.invalid # {}

\* Whether a message goes out: it needs a vote of the other side.
SendsDispute(s, imp) ==
    LET votes == GetOr(s.db.votes, imp.candidate, NoVotes)
    IN  \/ imp.valid # {} /\ votes.invalid # {}
        \/ imp.invalid # {} /\ votes.valid # {}

State == [db |-> db, mem |-> mem]

Turn(s) == db' = s.db /\ mem' = s.mem

\* The turn that signs a statement of ours: it is sent before the database is
\* written, and the node may stop in between.
issue_local_statement(s, c, valid, now) ==
    LET imp == LocalStatements(s, c, valid)
    IN  /\ signed' = IF HasStatement(imp) THEN signed \union {<<c, valid>>} ELSE signed
        /\ \/ /\ Turn(IF HasStatement(imp) THEN handle_import_statements(s, imp, now) ELSE s)
              /\ UNCHANGED <<torn, crashes>>
           \/ /\ HasStatement(imp) /\ SendsDispute(s, imp)
              /\ crashes < MaxCrashes /\ crashes' = crashes + 1
              /\ torn' = torn \union {c}
              /\ mem' = Off /\ UNCHANGED db

-----------------------------------------------------------------------------
(* Leaves and finality.                                                    *)

\* get_block_ancestors: from below the head down to a block of the cache or to
\* the target, neither included; nothing for a head that is in the cache.
get_block_ancestors(head, target, cache) ==
    LET below == Ancestry[head] \ {head}
    IN  IF head \in cache THEN {}
        ELSE {a \in below : /\ Number(a) > target
                            /\ \A x \in below : Number(x) >= Number(a) => x \notin cache}

\* OrderingProvider::process_active_leaves_update.
ObserveInclusions(m, b) ==
    LET blocks == {b} \union get_block_ancestors(b, Number(finalized), m.observed)
    IN  [m EXCEPT !.included = @ \union UNION {Tree[x].included : x \in blocks},
                  !.by_number = @ \union UNION {{<<Number(x), c>> : c \in Tree[x].included} : x \in blocks},
                  !.observed = @ \union {b}]

\* OrderingProvider::process_finalized_block.
process_finalized_block(m, n) ==
    LET old == {p \in m.by_number : p[1] < n}
    IN  [m EXCEPT !.by_number = @ \ old, !.included = @ \ {p[2] : p \in old}]

\* note_current_session: ancient disputes go, with their votes.
note_current_session(d, session) ==
    LET new_earliest == Monus(session, Window)
        gone == {c \in DOMAIN d.recent : SessionOf(c) < new_earliest}
    IN  IF d.earliest = None \/ new_earliest <= d.earliest
        THEN [d EXCEPT !.earliest = IF @ = None THEN new_earliest ELSE @]
        ELSE [earliest |-> new_earliest, recent |-> Without(d.recent, gone), votes |-> Without(d.votes, gone)]

\* The rolling session window follows the leaf, unless the runtime cannot be
\* asked; an error stands until the window moves.
UpdateWindow(s, session, fails) ==
    CASE fails -> [s EXCEPT !.mem.error = TRUE]
      [] ~fails /\ session > s.mem.highest ->
           [db |-> note_current_session(s.db, session),
            mem |-> [prune_old(s.mem, Monus(session, Window - 1))
                       EXCEPT !.error = FALSE, !.highest = session]]
      [] OTHER -> s

\* scrape_on_chain_votes of a block that is not yet marked as scraped.
scrape_on_chain_votes(s, b, now) ==
    CASE b \in s.mem.scraped -> s
      [] b \notin s.mem.scraped /\ Tree[b].votes # <<>> /\ ~session_info(s.mem, Tree[b].session) -> s
      [] OTHER ->
           LET imported == FoldLeft(LAMBDA t, imp : handle_import_statements(t, imp, now), s, Tree[b].votes)
           IN  [imported EXCEPT !.mem.scraped = @ \union {b}]

\* Blocks from the highest down.
Descending(S) == SetToSortSeq(S, LAMBDA x, y : Number(x) > Number(y))

RecentBlock(m, order) ==
    IF m.recent_block THEN m ELSE dequeue_until_capacity([m EXCEPT !.recent_block = TRUE], order)

\* A leaf is activated.  window_fails: its session cannot be determined;
\* votes_fail: its votes cannot be fetched.  Then its ancestors are scraped,
\* down to the finalized block, as far as they are not behind a scraped one.
process_active_leaves_update(s, b, now, window_fails, votes_fail) ==
    LET observed == [s EXCEPT !.mem = ObserveInclusions(@, b)]
        updated == UpdateWindow(observed, Tree[b].session, window_fails)
        head == IF updated.mem.error \/ votes_fail THEN updated ELSE scrape_on_chain_votes(updated, b, now)
        ancestors == get_block_ancestors(b, Monus(Number(finalized), 1), head.mem.scraped)
    IN  FoldLeft(LAMBDA t, a : scrape_on_chain_votes(t, a, now), head, Descending(ancestors))

\* handle_startup and the first part of run: the database is pruned, and what
\* is active in it gives the spam slots and the participations to resume.  The
\* first request that is refused loses all that come after it.
ByKey(S) ==
    SetToSortSeq(S, LAMBDA c, d : \/ SessionOf(c) < SessionOf(d)
                                  \/ SessionOf(c) = SessionOf(d) /\ Receipts[c].hash < Receipts[d].hash)

Resume(m, requests) ==
    LET Step(t, c) == IF t.failed \/ QueueFull(t.m, IsIncluded(t.m, c))
                      THEN [m |-> [t.m EXCEPT !.dropped = @ \union {c}], failed |-> TRUE]
                      ELSE [m |-> queue_participation(t.m, c, IsIncluded(t.m, c)), failed |-> FALSE]
    IN  FoldLeft(Step, [m |-> m, failed |-> FALSE], requests).m

get_active(recent, now) ==
    {c \in DOMAIN recent : recent[c].at = None \/ recent[c].at + ActiveDuration >= now}

FreshMemory(session) ==
    [highest |-> session, error |-> FALSE, slots |-> NoSlots, unconfirmed |-> EmptyMap,
     included |-> {}, by_number |-> {}, observed |-> {}, scraped |-> {},
     running |-> {}, best_effort |-> EmptyMap, priority |-> {}, recent_block |-> FALSE,
     dropped |-> {}]

\* The disputes with a statement of ours missing.
MissingStatement(d, active) == {c \in active : Own \ voted_indices(d.votes[c]) # {}}

handle_startup(b, now) ==
    LET d == note_current_session(db, Tree[b].session)
        m == ObserveInclusions(FreshMemory(Tree[b].session), b)
        active == {c \in get_active(d.recent, now) : session_info(m, SessionOf(c))}
        unconfirmed == [c \in {x \in active : ~is_confirmed_concluded(d.recent[x]) /\ ~IsIncluded(m, x)} |->
                           voted_indices(d.votes[c])]
        recovered == [m EXCEPT !.unconfirmed = unconfirmed, !.slots = recover_from_state(unconfirmed),
                               !.dropped = DOMAIN d.recent \ active]
    IN  [db |-> d, mem |-> Resume(recovered, ByKey(MissingStatement(d, active)))]

-----------------------------------------------------------------------------
(* The actions.                                                            *)

Init ==
    /\ db = [votes |-> EmptyMap, recent |-> EmptyMap, earliest |-> None]
    /\ mem = Off
    /\ finalized = Root /\ leaves = {} /\ signed = {} /\ torn = {} /\ crashes = 0

\* The orders in which the hash map of best-effort requests may be walked.
Orders(m) ==
    LET S == DOMAIN m.best_effort
    IN  {f \in [S -> 1..Cardinality(S)] : \A c, d \in S : f[c] = f[d] => c = d}

\* The first leaf after the node starts.
Start(b) ==
    /\ mem = Off
    /\ finalized \in Ancestry[b] \union {Root}
    /\ \A x \in leaves : b \notin Ancestry[x] \ {x}
    /\ \E now \in Times, votes_fail \in BOOLEAN :
         LET s == handle_startup(b, now)
             scraped == IF votes_fail THEN s ELSE scrape_on_chain_votes(s, b, now)
         IN  \E order \in Orders(scraped.mem) : Turn([scraped EXCEPT !.mem = RecentBlock(@, order)])
    /\ leaves' = leaves \union {b}
    /\ UNCHANGED <<finalized, signed, torn, crashes>>

ActiveLeaf(b) ==
    /\ mem # Off
    /\ b \notin leaves /\ finalized \in Ancestry[b] \union {Root}
    /\ \A x \in leaves : b \notin Ancestry[x]
    /\ \E now \in Times, window_fails, votes_fail \in BOOLEAN :
         Turn(process_active_leaves_update(State, b, now, window_fails, votes_fail))
    /\ leaves' = leaves \union {b}
    /\ UNCHANGED <<finalized, signed, torn, crashes>>

BlockFinalized(b) ==
    /\ finalized \in Ancestry[b] \union {Root} /\ b # finalized
    /\ \E x \in leaves : b \in Ancestry[x]
    /\ finalized' = b
    /\ mem' = IF mem = Off THEN Off ELSE process_finalized_block(mem, Number(b))
    /\ UNCHANGED <<db, leaves, signed, torn, crashes>>

\* A dispute message, an approval or a backing statement.  Explicit statements
\* of ours come back from others only once we have signed them.
ImportStatements(imp) ==
    /\ mem # Off
    /\ GetOr(mem.best_effort, imp.candidate, 0) < MaxAdded
    /\ imp.invalid \intersect Own # {} => <<imp.candidate, FALSE>> \in signed
    /\ \E now \in Times : Turn(handle_import_statements(State, imp, now))
    /\ UNCHANGED <<finalized, leaves, signed, torn, crashes>>

\* Approval voting found the candidate invalid.
IssueLocalStatement(c) ==
    /\ mem # Off /\ c \in Rejected
    /\ \E now \in Times : issue_local_statement(State, c, FALSE, now)
    /\ UNCHANGED <<finalized, leaves>>

Outcomes == {"valid", "invalid", "unavailable"}

\* A participation worker reports; an error counts as unavailable.
ParticipationResult(c, outcome) ==
    /\ mem # Off /\ c \in mem.running
    /\ \E now \in Times, order \in Orders(mem) :
         LET m == dequeue_until_capacity([mem EXCEPT !.running = @ \ {c}], order)
         IN  IF outcome = "unavailable"
             THEN /\ Turn([db |-> db, mem |-> [m EXCEPT !.dropped = @ \union {c}]])
                  /\ UNCHANGED <<signed, torn, crashes>>
             ELSE issue_local_statement([db |-> db, mem |-> m], c, outcome = "valid", now)
    /\ UNCHANGED <<finalized, leaves>>

Crash ==
    /\ mem # Off /\ crashes < MaxCrashes
    /\ crashes' = crashes + 1 /\ mem' = Off
    /\ UNCHANGED <<db, finalized, leaves, signed, torn>>

Next ==
    \/ \E b \in Blocks : Start(b) \/ ActiveLeaf(b) \/ BlockFinalized(b)
    \/ \E imp \in Messages : ImportStatements(imp)
    \/ \E c \in Candidates :
         \/ IssueLocalStatement(c)
         \/ \E outcome \in Outcomes : ParticipationResult(c, outcome)
    \/ Crash

Spec == Init /\ [][Next]_vars

-----------------------------------------------------------------------------
(* DetermineUndisputedChain.                                               *)

PossiblyInvalid(b) ==
    \E c \in Tree[b].included : c \in DOMAIN db.recent /\ is_possibly_invalid(db.recent[c])

\* The blocks from the base (exclusive) to the head, ascending.
Descriptions(base, head) ==
    SetToSortSeq(Ancestry[head] \ Ancestry[base], LAMBDA x, y : Number(x) < Number(y))

determine_undisputed_chain(base, chain) ==
    LET bad == {i \in 1..Len(chain) : PossiblyInvalid(chain[i])}
    IN  CASE chain = <<>> \/ 1 \in bad -> base
          [] chain # <<>> /\ bad = {} -> Last(chain)
          [] OTHER -> chain[Min(bad) - 1]

-----------------------------------------------------------------------------
(* Properties.                                                             *)

Votes == [valid : SUBSET Validators, invalid : SUBSET Validators]

\* The database and the memory of the coordinator are well typed.
TypeOK ==
    /\ DOMAIN db.votes \subseteq Candidates /\ \A c \in DOMAIN db.votes : db.votes[c] \in Votes
    /\ \A c \in DOMAIN db.recent : db.recent[c].kind \in {"active", "confirmed", "for", "against"}
    /\ mem # Off =>
         /\ mem.highest \in Sessions /\ mem.slots \in [Sessions \X Validators -> Nat]
         /\ mem.running \subseteq Candidates /\ Queued(mem) \subseteq Candidates
         /\ Cardinality(mem.running) <= MaxParallel

\* A dispute is recorded exactly for the candidates with votes on both sides,
\* and its status is what the recorded votes say: against as soon as that side
\* has a supermajority, and unconfirmed only while few have voted.
StatusExact ==
    /\ \A c \in DOMAIN db.votes : Disputed(db.votes[c]) <=> c \in DOMAIN db.recent
    /\ \A c \in DOMAIN db.recent :
         LET votes == db.votes[c]
             for == Cardinality(votes.valid) >= supermajority_threshold
             against == Cardinality(votes.invalid) >= supermajority_threshold
         IN  /\ c \in DOMAIN db.votes
             /\ db.recent[c].kind = "against" <=> against
             /\ db.recent[c].kind = "for" <=> for /\ ~against
             /\ db.recent[c].kind = "active" =>
                  Cardinality(voted_indices(votes)) <= byzantine_threshold
             /\ db.recent[c].at # None <=> for \/ against

\* Every spam slot in use belongs to an unconfirmed dispute of the window, and
\* the counts are the number of them, through refused imports, confirmations,
\* session changes and restarts.
SpamSlotsExact ==
    mem # Off =>
        /\ mem.slots = recover_from_state(mem.unconfirmed)
        /\ \A c \in DOMAIN mem.unconfirmed :
             /\ session_info(mem, SessionOf(c))
             /\ c \in DOMAIN db.recent => ~is_confirmed_concluded(db.recent[c])

\* An open dispute of the window in which we have not voted is being looked into
\* or waits for it, unless its last request found the queue full or came to
\* nothing.
ParticipationTracked ==
    mem # Off =>
        \A c \in DOMAIN db.recent :
            /\ db.recent[c].kind \in {"active", "confirmed"}
            /\ session_info(mem, SessionOf(c))
            /\ voted_indices(db.votes[c]) \intersect Own = {}
            => c \in mem.running \union Queued(mem) \union mem.dropped

\* No request waits while a worker is free, and none waits that is running.
NoIdleWorker ==
    mem # Off =>
        /\ Queued(mem) # {} => ~HasCapacity(mem)
        /\ mem.running \intersect Queued(mem) = {}

\* The coordinator signs both sides of a dispute only if it stopped between
\* sending the first statement and recording it.
SignsOneSide ==
    \A c \in Candidates : {<<c, TRUE>>, <<c, FALSE>>} \subseteq signed => c \in torn

\* The chain offered for finality ends right below its first block with a
\* possibly invalid candidate.
UndisputedExact ==
    \A head \in Blocks : \A base \in Ancestry[head] \union {Root} :
        LET best == determine_undisputed_chain(base, Descriptions(base, head))
        IN  /\ best \in Ancestry[head] \union {Root} /\ Number(base) <= Number(best)
            /\ \A b \in Ancestry[best] \ Ancestry[base] : ~PossiblyInvalid(b)
            /\ best # head => \E b \in Ancestry[head] : Tree[b].parent = best /\ PossiblyInvalid(b)

-----------------------------------------------------------------------------
(* A claim of the code's comments that does not hold.                      *)

\* "Try to scrape any blocks for which we could not get the current session or
\* did not receive an active leaves update": no block above the finalized one
\* is left out between two blocks of a chain that were scraped.
AncestorsScraped ==
    mem # Off =>
        \A b \in mem.scraped : \A a \in Ancestry[b] :
            /\ Number(a) > Number(finalized)
            /\ \E f \in mem.scraped : f \in Ancestry[a] \ {a}
            => a \in mem.scraped
=============================================================================
