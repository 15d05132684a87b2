------------------------------- MODULE AvStore -------------------------------
(***************************************************************************)
(* The availability store (node/core/av-store/src/lib.rs): what is kept of *)
(* a candidate, from its backing until it is pruned.                       *)
(*                                                                         *)
(* meta, data, chunks, unfinalized and prune_by_time are the key spaces of *)
(* the database; known and finalized_number are lost when the node stops.  *)
(* The transactions of one turn of run_iteration are applied one after the *)
(* other, and an error or a stop can come between any two of them.         *)
(***************************************************************************)
EXTENDS Integers, Maps

CONSTANTS
    Tree,       \* of a block: its parent, number, backed and included candidates
    Root,       \* the parent of the lowest blocks
    NValidators,
    KeepUnavailable, KeepFinalized,
    MaxTime, MaxCrashes

VARIABLES
    now, crashes,
    meta, data, chunks,
    unfinalized,       \* pairs of an unfinalized block and a candidate it includes
    prune_by_time,     \* pairs of a time and a candidate
    known,             \* KnownUnfinalizedBlocks: the number noted for each block
    finalized_number,  \* as known to the subsystem, or None
    finalized,         \* the finalized block of the chain
    noted, final_at    \* history: the pairs of a processed block and a stored candidate
                       \* it includes, and when a block was finalized

database == <<meta, data, chunks, unfinalized, prune_by_time>>
vars == <<now, crashes, database, known, finalized_number, finalized, noted, final_at>>

None == -1
Blocks == DOMAIN Tree
Candidates == UNION {Tree[b].backed \union Tree[b].included : b \in Blocks}
Number(b) == IF b = Root THEN 0 ELSE Tree[b].number

\* Blocks are numbered along each chain.  A candidate is included by a later block
\* than the one that backs it, so that no event of a block reads what another has
\* yet to write.
ASSUME TreeAssumption ==
    /\ Root \notin Blocks
    /\ \A b \in Blocks :
          /\ Tree[b].number \in Nat
          /\ Tree[b].parent \in Blocks \union {Root} /\ Tree[b].number = Number(Tree[b].parent) + 1
          /\ Tree[b].backed \intersect Tree[b].included = {}
    /\ NValidators \in Nat /\ KeepUnavailable \in Nat /\ KeepFinalized \in Nat

\* A block with its ancestors above the root: the least set with the block that
\* is closed under parents, up to the root.
Ancestry ==
    [b \in Blocks \union {Root} |->
       {x \in Blocks : \A S \in SUBSET Blocks :
                          b \in S \union {Root} /\ (\A y \in S : Tree[y].parent \in S \union {Root})
                             => x \in S}]

\* No chain includes a candidate twice.
ASSUME OnceAssumption ==
    \A b \in Blocks : \A x, y \in Ancestry[b] :
        Tree[x].included \intersect Tree[y].included # {} => x = y

Init ==
    /\ now = 0 /\ crashes = 0
    /\ meta = EmptyMap /\ data = {} /\ chunks = {} /\ unfinalized = {} /\ prune_by_time = {}
    /\ known = EmptyMap /\ finalized_number = None /\ finalized = Root
    /\ noted = {} /\ final_at = EmptyMap

Database == [meta |-> meta, unfinalized |-> unfinalized, prune |-> prune_by_time,
             noted |-> noted]

Commit(s) ==
    /\ meta' = s.meta
    /\ unfinalized' = s.unfinalized
    /\ prune_by_time' = s.prune
    /\ noted' = s.noted

-----------------------------------------------------------------------------
(* New blocks.                                                             *)

NewMeta(n) ==
    [state |-> "unavailable", at |-> now, blocks |-> {}, data_available |-> FALSE,
     chunks_stored |-> {}, n |-> n]

\* The candidates C are backed.
note_block_backed(s, C) ==
    [s EXCEPT !.meta = [c \in DOMAIN @ \union C |-> GetOr(s.meta, c, NewMeta(NValidators))],
              !.prune = @ \union {<<now + KeepUnavailable, c>> : c \in C \ DOMAIN s.meta}]

\* The block b includes the candidates C.  One that was never backed here, or
\* that is finalized, is ignored.
note_block_included(s, b, C) ==
    LET new == {c \in C \intersect DOMAIN s.meta : s.meta[c].state # "finalized"}
        fresh == {c \in new : s.meta[c].state = "unavailable"}
    IN  [s EXCEPT !.meta = [c \in DOMAIN @ |->
                              IF c \in new
                              THEN [s.meta[c] EXCEPT !.state = "unfinalized",
                                                     !.blocks = @ \union {b}]
                              ELSE s.meta[c]],
                  !.unfinalized = @ \union ({b} \X new),
                  !.prune = @ \ {<<s.meta[c].at + KeepUnavailable, c>> : c \in fresh},
                  !.noted = @ \union ({b} \X (C \intersect DOMAIN s.meta))]

process_new_head(s, b) ==
    note_block_included(note_block_backed(s, Tree[b].backed), b, Tree[b].included)

\* The database after the blocks of a chain up to each height.
ProcessNewHeads(chain) ==
    LET upto[n \in Nat] ==
            IF n = 0 THEN Database
            ELSE IF \E b \in chain : Number(b) = n
                 THEN process_new_head(upto[n - 1], CHOOSE b \in chain : Number(b) = n)
                 ELSE upto[n - 1]
    IN  upto

\* The blocks up to the head that are neither known nor final, ascending; the
\* head alone before the first finality signal.  A call to the runtime or a
\* write may fail, or the node stop, after any number of them; every block is
\* noted under the number of the head.
process_block_activated(head) ==
    LET bound == IF finalized_number = None THEN Number(head) - 1 ELSE finalized_number
        new == {b \in Ancestry[head] :
                  /\ Number(b) > bound
                  /\ \A x \in Ancestry[head] : Number(x) >= Number(b) => x \notin DOMAIN known}
    IN  /\ finalized \in Ancestry[head] \union {Root}
        /\ \E last \in new :
               /\ Commit(ProcessNewHeads(new)[Number(last)])
               /\ known' = [b \in DOMAIN known \union {x \in new : Number(x) <= Number(last)} |->
                              GetOr(known, b, Number(head))]
        /\ UNCHANGED <<now, crashes, data, chunks, finalized_number, finalized, final_at>>

-----------------------------------------------------------------------------
(* Finality.                                                               *)

\* A candidate whose block at height n is final or, if it has none there, whose
\* blocks at n are abandoned.
Finalize(m) == [m EXCEPT !.state = "finalized", !.at = now, !.blocks = {}]

\* Faulty variant: a candidate is given up with the first of its blocks.
AbandonAtOnce(m, n) == [m EXCEPT !.blocks = {}, !.state = "unavailable"]

Abandon(m, n) ==
    LET left == {b \in m.blocks : Number(b) # n}
    IN  [m EXCEPT !.blocks = left, !.state = IF left = {} THEN "unavailable" ELSE @]

\* Faulty variant: the candidates of the height count as final, whatever block
\* included them.
FinalizeWholeHeight(s, n, chain) ==
    LET batch == {r \in s.unfinalized : Number(r[1]) = n}
        final == {c \in {r[2] : r \in batch} \intersect DOMAIN s.meta :
                     s.meta[c].state # "finalized"}
    IN  [s EXCEPT !.meta = [c \in DOMAIN @ |->
                              IF c \in final THEN Finalize(s.meta[c]) ELSE s.meta[c]],
                  !.unfinalized = {r \in @ \ batch : r[2] \notin final},
                  !.prune = @ \union {<<now + KeepFinalized, c>> : c \in final}]

\* One batch: the candidates of the blocks at height n, final with the block of
\* the finalized chain.  They are in an unfinalized block, so that none of them
\* has a record to be deleted (ReferencesExact, PruneRecordsExact).  A final
\* candidate takes its references in other blocks with it; one without a block
\* left is unavailable again.
FinalizeHeight(s, n, chain) ==
    LET batch == {r \in s.unfinalized : Number(r[1]) = n}
        InBatch(rs) == {c \in {r[2] : r \in rs} \intersect DOMAIN s.meta :
                           s.meta[c].state # "finalized"}
        final == InBatch({r \in batch : r[1] \in chain})
        other == {c \in InBatch(batch) \ final : s.meta[c].state = "unfinalized"}
        lost  == {c \in other : Abandon(s.meta[c], n).blocks = {}}
    IN  [s EXCEPT !.meta = [c \in DOMAIN @ |-> CASE c \in final -> Finalize(s.meta[c])
                                                 [] c \in other -> Abandon(s.meta[c], n)
                                                 [] OTHER       -> s.meta[c]],
                  !.unfinalized = {r \in @ \ batch :
                                     ~(r[2] \in final /\ r[1] \in s.meta[r[2]].blocks)},
                  !.prune = @ \union {<<now + KeepFinalized, c>> : c \in final}
                              \union {<<s.meta[c].at + KeepUnavailable, c>> : c \in lost}]

\* The database after the batches up to each height.
FinalizeHeights(chain) ==
    LET upto[n \in Nat] == IF n = 0 THEN Database ELSE FinalizeHeight(upto[n - 1], n, chain)
    IN  upto

\* The batches are taken in the order of their heights, as long as the Chain
\* API answers.
process_block_finalized(f) ==
    /\ Number(f) > Number(finalized) /\ finalized \in Ancestry[f] \union {Root}
    /\ finalized' = f
    /\ finalized_number' = Number(f)
    /\ known' = Without(known, {b \in DOMAIN known : known[b] <= Number(f)})
    /\ final_at' = [b \in DOMAIN final_at \union Ancestry[f] |-> GetOr(final_at, b, now)]
    /\ \E last \in 0..Number(f) : Commit(FinalizeHeights(Ancestry[f])[last])
    /\ UNCHANGED <<now, crashes, data, chunks>>

-----------------------------------------------------------------------------
(* Storing and pruning.                                                    *)

store_chunk(c, i) ==
    /\ c \in DOMAIN meta /\ i < meta[c].n /\ i \notin meta[c].chunks_stored
    /\ meta' = [meta EXCEPT ![c].chunks_stored = @ \union {i}]
    /\ chunks' = chunks \union {<<c, i>>}
    /\ UNCHANGED <<now, crashes, data, unfinalized, prune_by_time,
                   known, finalized_number, finalized, noted, final_at>>

\* Data may come before the candidate is seen backed on chain.
store_available_data(c) ==
    /\ c \in DOMAIN meta => ~meta[c].data_available
    /\ meta' = Put(meta, c, [GetOr(meta, c, NewMeta(0)) EXCEPT
                                !.data_available = TRUE, !.n = NValidators,
                                !.chunks_stored = 0..(NValidators - 1)])
    /\ data' = data \union {c}
    /\ chunks' = chunks \union {<<c, i>> : i \in 0..(NValidators - 1)}
    /\ prune_by_time' = IF c \in DOMAIN meta THEN prune_by_time
                        ELSE prune_by_time \union {<<now + KeepUnavailable, c>>}
    /\ UNCHANGED <<now, crashes, unfinalized, known, finalized_number, finalized,
                   noted, final_at>>

\* All records up to now are taken off together with their candidates.
prune_all ==
    LET due == {r \in prune_by_time : r[1] <= now}
        gone == {r[2] : r \in due}
        stored == gone \intersect DOMAIN meta
    IN  /\ due # {}
        /\ prune_by_time' = prune_by_time \ due
        /\ meta' = Without(meta, gone)
        /\ data' = data \ {c \in stored : meta[c].data_available}
        /\ chunks' = {x \in chunks : x[1] \notin stored \/ x[2] \notin meta[x[1]].chunks_stored}
        /\ unfinalized' = {r \in unfinalized : r[2] \notin stored \/ r[1] \notin meta[r[2]].blocks}
        /\ noted' = {r \in noted : r[2] \notin gone}
        /\ UNCHANGED <<now, crashes, known, finalized_number, finalized, final_at>>

Tick ==
    /\ now < MaxTime
    /\ now' = now + 1
    /\ UNCHANGED <<crashes, database, known, finalized_number, finalized, noted, final_at>>

\* The node stops and starts again.
Restart ==
    /\ crashes < MaxCrashes
    /\ crashes' = crashes + 1
    /\ known' = EmptyMap
    /\ finalized_number' = None
    /\ UNCHANGED <<now, database, finalized, noted, final_at>>

Next ==
    \/ \E b \in Blocks : process_block_activated(b) \/ process_block_finalized(b)
    \/ \E c \in Candidates : store_available_data(c) \/ \E i \in 0..NValidators : store_chunk(c, i)
    \/ prune_all
    \/ Tick
    \/ Restart

Spec == Init /\ [][Next]_vars

-----------------------------------------------------------------------------
(* Properties.                                                             *)

CandidateMeta ==
    [state : {"unavailable", "unfinalized", "finalized"}, at : 0..now, blocks : SUBSET Blocks,
     data_available : BOOLEAN, chunks_stored : SUBSET (0..(NValidators - 1)), n : {NValidators}]

\* The keys of the database are well formed, and an unfinalized candidate is
\* one that some block is noted for.
TypeOK ==
    /\ IsMap(meta, Candidates, CandidateMeta)
    /\ \A c \in DOMAIN meta : (meta[c].state = "unfinalized") <=> (meta[c].blocks # {})
    /\ DOMAIN known \subseteq Blocks

\* Every candidate that is not in an unfinalized block has one pruning record,
\* at the time its state calls for, and the others have none: a record that is
\* lost keeps the data for ever, one that stays deletes it while it is needed.
PruneRecordsExact ==
    prune_by_time = {<<meta[c].at + IF meta[c].state = "finalized" THEN KeepFinalized
                                    ELSE KeepUnavailable, c>> :
                        c \in {x \in DOMAIN meta : meta[x].state # "unfinalized"}}

\* The index by block and the blocks noted for each candidate agree, across
\* forks, partly processed finality and restarts.
ReferencesExact ==
    unfinalized = {r \in Blocks \X DOMAIN meta : r[1] \in meta[r[2]].blocks}

\* The data and the chunks in the database are those the meta data promises to
\* the queries, so that pruning leaves none of them behind.
ContentsExact ==
    /\ data = {c \in DOMAIN meta : meta[c].data_available}
    /\ chunks = UNION {{c} \X meta[c].chunks_stored : c \in DOMAIN meta}

\* A candidate counts as finalized only if the finalized chain includes it.
FinalizedIncluded ==
    \A c \in DOMAIN meta : meta[c].state = "finalized" =>
        \E b \in Ancestry[finalized] : c \in Tree[b].included

\* Meta data, contents, references by block and pruning records of the
\* availability store agree, and only what the finalized chain includes counts
\* as finalized, across forks, half-processed finality and restarts.
AvailabilityExact ==
    TypeOK /\ PruneRecordsExact /\ ReferencesExact /\ ContentsExact /\ FinalizedIncluded

\* A block that may still be finalized.
Undecided(b) == finalized \in Ancestry[b] \union {Root} /\ b \notin Ancestry[finalized]

\* What a step may delete: a candidate of which no processed block that includes
\* it may still be finalized or was finalized less than KeepFinalized ago, and, if
\* it does not count as finalized, that was first seen KeepUnavailable ago.
KeepsInTime ==
    \A c \in DOMAIN meta \ DOMAIN meta' :
        /\ \A b \in {x \in Blocks : <<x, c>> \in noted} :
              /\ ~Undecided(b)
              /\ b \in Ancestry[finalized] => final_at[b] + KeepFinalized <= now
        /\ meta[c].state # "finalized" => meta[c].at + KeepUnavailable <= now

\* Once the store has processed a block that includes a candidate it stores, the
\* candidate is kept as long as that block may still be finalized, and, if it is,
\* for KeepFinalized after its finality: through forks, half-processed
\* activations and finality, and restarts (prune_all, FinalizeHeight).  Blocks
\* the store never processed give no such protection.
KeptLongEnough == [][KeepsInTime]_vars
=============================================================================
