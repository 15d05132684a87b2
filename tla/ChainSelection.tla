--------------------------- MODULE ChainSelection ---------------------------
(***************************************************************************)
(* The chain selection subsystem (node/core/chain-selection/src/lib.rs,    *)
(* tree.rs, backend.rs): the tree of unfinalized blocks, their viability   *)
(* and the viable leaves.                                                  *)
(*                                                                         *)
(* An action is one turn of run_until_error.  Its writes are gathered in   *)
(* an overlay and reach the database in one transaction, so that db is the *)
(* state before and after the turn, also across a restart; the clock is    *)
(* read anew in each turn and need not be monotonic.                       *)
(***************************************************************************)
EXTENDS Integers, FiniteSets, Sequences, SequencesExt, FiniteSetsExt, Maps

CONSTANTS
    Tree,      \* of a block: its parent, number, weight and reversion logs
    Root,      \* the block finalized at the start
    Timeout,   \* STAGNANT_TIMEOUT
    Times,     \* the readings of the clock
    Ahead      \* whether the Chain API may know of a finalized block before
               \* its BlockFinalized signal has arrived here

VARIABLES
    db,        \* the backend: entries, leaves, by_number and stagnant_at
    signalled, \* the block of the last BlockFinalized signal
    finalized  \* what the Chain API says is finalized

vars == <<db, signalled, finalized>>

None == "none"
Blocks == DOMAIN Tree
Number(b) == IF b = Root THEN 0 ELSE Tree[b].number
Parent(b) == Tree[b].parent

\* b and its ancestors above the root, from b downwards.
Chain(b) ==
    LET up[n \in 0..Number(b)] == IF n = 0 THEN <<>>
            ELSE LET below == up[n - 1]
                 IN  Append(below, IF below = <<>> THEN b ELSE Parent(Last(below)))
    IN  up[Number(b)]
Ancestors(b) == Range(Chain(b)) \ {b}
Descends(b, a) == a = Root \/ a \in Range(Chain(b))

Init ==
    /\ db = [entries |-> EmptyMap, leaves |-> <<>>, by_number |-> EmptyMap,
             stagnant_at |-> EmptyMap]
    /\ signalled = Root /\ finalized = Root

-----------------------------------------------------------------------------
(* Viability.                                                              *)

is_explicitly_viable(e) == ~e.reverted /\ e.approval # "stagnant"
is_viable(e) == e.ancestor = None /\ is_explicitly_viable(e)

non_viable_ancestor_for_child(b, e) ==
    IF is_viable(e) THEN None ELSE IF e.ancestor # None THEN e.ancestor ELSE b

\* Leaves are ordered by weight, then by number.
Smaller(a, b) ==
    \/ Tree[a].weight < Tree[b].weight
    \/ Tree[a].weight = Tree[b].weight /\ Number(a) < Number(b)

insert(leaves, b) ==
    LET smaller == {i \in DOMAIN leaves : Smaller(leaves[i], b)}
        at == IF smaller = {} THEN Len(leaves) + 1 ELSE Min(smaller)
    IN  IF \E i \in 1..(at - 1) : leaves[i] = b THEN leaves ELSE InsertAt(leaves, at, b)

remove(leaves, S) == SelectSeq(leaves, LAMBDA b : b \notin S)
InsertAll(leaves, S) == FoldSet(LAMBDA b, l : insert(l, b), leaves, S)

\* The stored descendants of b, b included.  They are found through the
\* children of the entries, which TypeOK shows to be the stored blocks above.
Subtree(entries, b) == {b} \union {d \in DOMAIN entries : b \in Range(Chain(d))}

\* The explicitly unviable blocks from d, which is left out, down to the base.
UnviableBetween(entries, base, d) ==
    SelectSeq(Chain(d), LAMBDA x : Number(x) >= Number(base) /\ x # d /\
                                   ~is_explicitly_viable(entries[x]))

\* Faulty variant: the unviable block nearest to d.
NearestUnviable(entries, base, d) ==
    LET way == UnviableBetween(entries, base, d) IN IF way = <<>> THEN None ELSE Head(way)

\* What propagate_viability_update makes of the ancestor recorded for d: the
\* explicitly unviable block nearest to the base on the way up to d.
Earliest(entries, base, d) ==
    LET way == UnviableBetween(entries, base, d) IN IF way = <<>> THEN None ELSE Last(way)

\* The blocks all of whose children are among the unviable blocks visited
\* while they are viable themselves.
Pivots(entries, unviable) ==
    LET Counted(p) == {d \in unviable : entries[d].ancestor = None /\ Parent(d) = p}
    IN  {p \in DOMAIN entries : Counted(p) # {} /\
                                Cardinality(entries[p].children) = Cardinality(Counted(p))}

propagate_viability_update(o, base) ==
    LET visited == Subtree(o.entries, base)
        entries == [d \in DOMAIN o.entries |->
                       IF d \in visited
                       THEN [o.entries[d] EXCEPT !.ancestor = Earliest(o.entries, base, d)]
                       ELSE o.entries[d]]
        viable == {d \in visited : is_viable(entries[d])}
        kept == remove(o.leaves, {Parent(d) : d \in viable} \union (visited \ viable))
    IN  IF o.entries[base].ancestor # None THEN o
        ELSE [o EXCEPT !.entries = entries,
                       !.leaves = InsertAll(kept, {d \in viable : entries[d].children = {}} \union
                                                 Pivots(entries, visited \ viable))]

-----------------------------------------------------------------------------
(* Import.                                                                 *)

\* The parent's entry, if there is one, with the new child.
Linked(entries, p, b) ==
    IF p \in DOMAIN entries THEN [entries EXCEPT ![p].children = @ \union {b}] ELSE entries

\* The list of time t with the block appended.
AlsoListed(stagnant_at, t, b) == Put(stagnant_at, t, Append(GetOr(stagnant_at, t, <<>>), b))

add_block(o, b, stagnant_at) ==
    LET p == Parent(b)
        inherited == IF p \in DOMAIN o.entries
                     THEN non_viable_ancestor_for_child(p, o.entries[p]) ELSE None
        entry == [reverted |-> FALSE, approval |-> "unapproved", ancestor |-> inherited, children |-> {}]
    IN  [entries |-> Put(Linked(o.entries, p, b), b, entry),
         leaves |-> IF inherited = None THEN insert(remove(o.leaves, {p}), b) ELSE o.leaves,
         by_number |-> Put(o.by_number, Number(b), GetOr(o.by_number, Number(b), {}) \union {b}),
         stagnant_at |-> AlsoListed(o.stagnant_at, stagnant_at, b)]

\* The reverted ancestor, if every block down to it is stored.
load_ancestor(o, b, number) ==
    LET way == {x \in Ancestors(b) : Number(x) >= number}
    IN  IF number = 0 \/ ~(way \subseteq DOMAIN o.entries) THEN None
        ELSE CHOOSE x \in way : Number(x) = number

apply_reversions(o, b) ==
    LET logs == SetToSortSeq({n \in Tree[b].reverts : n < Number(b)}, <)
        Revert(acc, number) ==
            LET a == load_ancestor(acc, b, number)
            IN  IF a = None THEN acc
                ELSE propagate_viability_update([acc EXCEPT !.entries[a].reverted = TRUE], a)
    IN  FoldLeft(Revert, o, logs)

import_block(o, b, stagnant_at) == apply_reversions(add_block(o, b, stagnant_at), b)

\* The blocks above the lower bound and above the highest known one, ascending.
determine_new_blocks(known, head, lower_bound) ==
    LET chain == Chain(head)
        cut == {i \in DOMAIN chain : chain[i] \in known \/ Number(chain[i]) <= lower_bound}
        upto == IF cut = {} THEN Len(chain) ELSE Min(cut) - 1
    IN  Reverse(SubSeq(chain, 1, upto))

load_first_block_number(o) == Min(DOMAIN o.by_number)

handle_active_leaf(head) ==
    /\ Number(head) > Number(signalled) /\ Descends(head, signalled)
    /\ \E now \in Times, failing \in {None} \union Blocks :
           LET lower_bound == IF DOMAIN db.by_number = {} THEN Number(finalized)
                              ELSE load_first_block_number(db) - 1
               new == determine_new_blocks(DOMAIN db.entries, head, lower_bound)
               \* a block whose weight is unknown ends the import
               importable == IF Contains(new, failing)
                             THEN SubSeq(new, 1, (CHOOSE i \in DOMAIN new : new[i] = failing) - 1) ELSE new
           IN  /\ failing # None => Contains(new, failing)
               /\ db' = FoldLeft(LAMBDA o, b : import_block(o, b, now + Timeout), db, importable)
    /\ UNCHANGED <<signalled, finalized>>

-----------------------------------------------------------------------------
(* Finality, approval and stagnation.                                      *)

\* The other blocks at the finalized height with all that descends from them.
Dead(o, f) == UNION {Subtree(o.entries, d) : d \in GetOr(o.by_number, Number(f), {}) \ {f}}

\* The index above the finalized height without the dead blocks.
NumbersLeft(o, f) ==
    LET left == [n \in {n \in DOMAIN o.by_number : n > Number(f)} |-> o.by_number[n] \ Dead(o, f)]
    IN  Restrict(left, {n \in DOMAIN left : left[n] # {}})

\* Everything below the finalized height, and all that descends from another
\* block at it, goes; then the children of the finalized block are viable.
finalize_block(o, f) ==
    LET below == UNION {o.by_number[n] : n \in {n \in DOMAIN o.by_number : n < Number(f)}}
        gone == below \union Dead(o, f) \union {f}
        base == [o EXCEPT !.entries = Without(o.entries, gone),
                          !.leaves = remove(o.leaves, gone),
                          !.by_number = NumbersLeft(o, f)]
        Revive(acc, c) ==
            IF c \notin DOMAIN acc.entries THEN acc
            ELSE propagate_viability_update([acc EXCEPT !.entries[c].ancestor = None], c)
        children == IF f \in DOMAIN o.entries THEN o.entries[f].children ELSE {}
    IN  IF DOMAIN o.by_number = {} THEN o ELSE FoldSet(LAMBDA c, acc : Revive(acc, c), base, children)

FinalizeOnChain(f) ==
    /\ Ahead /\ Number(f) > Number(finalized) /\ Descends(f, finalized)
    /\ finalized' = f
    /\ UNCHANGED <<db, signalled>>

handle_finalized_block(f) ==
    /\ Number(f) > Number(signalled) /\ Descends(f, signalled)
    /\ Ahead => f = finalized
    /\ signalled' = f /\ finalized' = f
    /\ db' = finalize_block(db, f)

approve_block(o, b) ==
    LET a == [o EXCEPT !.entries[b].approval = "approved"]
    IN  IF ~is_viable(o.entries[b]) /\ is_viable(a.entries[b])
        THEN propagate_viability_update(a, b) ELSE a

handle_approved_block(b) ==
    /\ b \in DOMAIN db.entries
    /\ db' = approve_block(db, b)
    /\ UNCHANGED <<signalled, finalized>>

detect_stagnant(now) ==
    LET due == SetToSortSeq({t \in DOMAIN db.stagnant_at : t <= now}, <)
        Mark(acc, b) ==
            LET marked == IF acc.entries[b].approval = "unapproved"
                          THEN [acc EXCEPT !.entries[b].approval = "stagnant"] ELSE acc
            IN  IF is_viable(acc.entries[b]) /\ ~is_viable(marked.entries[b])
                THEN propagate_viability_update(marked, b) ELSE marked
        Known(acc, b) == IF b \in DOMAIN acc.entries THEN Mark(acc, b) ELSE acc
        At(acc, t) == FoldLeft(Known, [acc EXCEPT !.stagnant_at = Without(@, {t})], db.stagnant_at[t])
    IN  /\ due # <<>>
        /\ db' = FoldLeft(At, db, due)
        /\ UNCHANGED <<signalled, finalized>>

Next ==
    \/ \E b \in Blocks : handle_active_leaf(b)
    \/ \E b \in Blocks : FinalizeOnChain(b)
    \/ \E b \in Blocks : handle_finalized_block(b)
    \/ \E b \in Blocks : handle_approved_block(b)
    \/ \E now \in Times : detect_stagnant(now)

Spec == Init /\ [][Next]_vars

-----------------------------------------------------------------------------
(* Queries.                                                                *)

contains_ancestor(head, a) ==
    \/ head = a
    \/ \E i \in DOMAIN Chain(head) :
          /\ \A j \in 1..i : Chain(head)[j] \in DOMAIN db.entries
          /\ Parent(Chain(head)[i]) = a

find_best_leaf_containing(required) ==
    LET at == {i \in DOMAIN db.leaves : contains_ancestor(db.leaves[i], required)}
    IN  IF at = {} THEN None ELSE db.leaves[Min(at)]

-----------------------------------------------------------------------------
(* Properties.                                                             *)

Stored == DOMAIN db.entries
Viable(b) == is_viable(db.entries[b])

\* The database is well formed: the children of an entry are the stored
\* blocks on top of it, and every viable leaf has an entry.
TypeOK ==
    /\ \A b \in Stored :
           /\ db.entries[b].approval \in {"approved", "unapproved", "stagnant"}
           /\ db.entries[b].reverted \in BOOLEAN
           /\ db.entries[b].ancestor \in Ancestors(b) \union {None}
           /\ db.entries[b].children = {c \in Stored : Parent(c) = b}
    /\ Range(db.leaves) \subseteq Stored
    /\ \A t \in DOMAIN db.stagnant_at : Range(db.stagnant_at[t]) \subseteq Blocks
    /\ {signalled, finalized} \subseteq Blocks \union {Root}

\* blocks_by_number lists the stored blocks, each under its height and no
\* others: finality finds what it prunes through this index alone.
IndexExact ==
    /\ \A n \in DOMAIN db.by_number : db.by_number[n] = {b \in Stored : Number(b) = n}
    /\ \A b \in Stored : Number(b) \in DOMAIN db.by_number

\* earliest_unviable_ancestor is what its comment says, "the earliest
\* unfinalized block in the ancestry which is explicitly reverted or
\* stagnant", however reversions, approvals, stagnation and finality follow
\* each other, although each of them updates only some descendants.
AncestorExact ==
    \A b \in Stored :
        LET bad == {a \in Ancestors(b) \intersect Stored : ~is_explicitly_viable(db.entries[a])}
        IN  IF bad = {} THEN db.entries[b].ancestor = None
            ELSE /\ db.entries[b].ancestor \in bad
                 /\ \A a \in bad : Number(db.entries[b].ancestor) <= Number(a)

\* A leaf on offer is viable, is listed once and has no viable block on top
\* of it; and every viable block with nothing on top is on offer.
LeavesSound ==
    /\ IsInjective(db.leaves)
    /\ \A b \in Range(db.leaves) :
           Viable(b) /\ \A c \in db.entries[b].children : ~Viable(c)
    /\ \A b \in Stored :
           Viable(b) /\ Cardinality(db.entries[b].children) <= 1
               /\ (\A c \in db.entries[b].children : ~Viable(c)) => b \in Range(db.leaves)

\* BestLeafContaining answers with the heaviest viable leaf above the block
\* that was asked for, and with nothing only if there is no such leaf.
BestLeafExact ==
    \A r \in Stored \union {signalled} :
        LET above == {b \in Range(db.leaves) : Descends(b, r) /\
                          \A a \in Range(Chain(b)) : Number(a) > Number(r) => a \in Stored}
            best == find_best_leaf_containing(r)
            Heavier(x, y) == \/ Tree[x].weight > Tree[y].weight
                             \/ Tree[x].weight = Tree[y].weight /\ Number(x) > Number(y)
        IN  IF above = {} THEN best = None
            ELSE best \in above /\ \A b \in above : ~Heavier(b, best)

\* Everything that is stored is above the finalized block, as long as no leaf
\* is imported while a finality signal is on its way.
PrunedExact ==
    ~Ahead => \A b \in Stored : Number(b) > Number(finalized) /\ Descends(b, finalized)

\* A block that is neither approved nor stagnant waits in the list of some
\* time, so that a chain nobody approves is abandoned in the end.
StagnationScheduled ==
    \A b \in Stored : db.entries[b].approval = "unapproved" =>
        \E t \in DOMAIN db.stagnant_at : Contains(db.stagnant_at[t], b)

-----------------------------------------------------------------------------
(* A claim of the code's comments that does not hold.                      *)

\* "After this point, the viable leaves set is fully updated": every viable
\* block none of whose children is viable is a leaf.
LeavesComplete ==
    \A b \in Stored :
        Viable(b) /\ (\A c \in db.entries[b].children : ~Viable(c)) => b \in Range(db.leaves)
=============================================================================
