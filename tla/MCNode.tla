------------------------------ MODULE MCNode ------------------------------
(***************************************************************************)
(* Small instances of three subsystems of a node that follow the same      *)
(* forks and finality: chain selection, the availability store and the     *)
(* dispute coordinator.  The variable instance tells which one runs; the   *)
(* variables of the others are fixed, those of the store at their initial  *)
(* values.                                                                 *)
(*                                                                         *)
(*   Reverts:  two forks whose heads revert ancestors, with finality.      *)
(*   Race:     three forks; the chain finalizes ahead of the signals.      *)
(*   Store:    a candidate in two forks, another in one, and a restart.    *)
(*   Spam:     three candidates, full spam slots and queues, a restart.    *)
(*   Conclude: one candidate, votes of all kinds, sessions, a restart.     *)
(***************************************************************************)
EXTENDS AvStore, TLC

CONSTANTS b0, b1, b2, b3, b4, b5, c1, c2, c3, v1, v2, v3, me

\* finalized is a variable of all three, crashes of the store and the coordinator.
VARIABLES instance,
          db,                         \* of chain selection and the coordinator
          signalled,                  \* of chain selection
          mem, leaves, signed, torn   \* of the coordinator

Block(parent, number, weight, reverts) ==
    [parent |-> parent, number |-> number, weight |-> weight, reverts |-> reverts]

\* The blocks of chain selection: forks whose heads revert ancestors.
RevertsTree ==
    b1 :> Block(b0, 1, 1, {}) @@ b2 :> Block(b1, 2, 2, {}) @@ b3 :> Block(b2, 3, 2, {2})
    @@ b4 :> Block(b1, 2, 3, {}) @@ b5 :> Block(b4, 3, 3, {1, 3})
RaceTree ==
    b1 :> Block(b0, 1, 1, {}) @@ b2 :> Block(b1, 2, 2, {1}) @@ b3 :> Block(b0, 1, 3, {})
    @@ b4 :> Block(b3, 2, 3, {0}) @@ b5 :> Block(b1, 2, 2, {})

Reverts == INSTANCE ChainSelection WITH
    Tree <- RevertsTree, Root <- b0, Timeout <- 1, Times <- {0, 1}, Ahead <- FALSE

Race == INSTANCE ChainSelection WITH
    Tree <- RaceTree, Root <- b0, Timeout <- 0, Times <- {1}, Ahead <- TRUE

Included(parent, number, backed, included) ==
    [parent |-> parent, number |-> number, backed |-> backed, included |-> included]

StoreTree ==
    b1 :> Included(b0, 1, {c1}, {}) @@ b2 :> Included(b1, 2, {}, {c1})
    @@ b3 :> Included(b1, 2, {c2}, {}) @@ b4 :> Included(b3, 3, {}, {c1, c2})

Voted(parent, number, session, included, votes) ==
    [parent |-> parent, number |-> number, session |-> session, included |-> included,
     votes |-> votes]
Receipt(session, relay_parent, hash) ==
    [session |-> session, relay_parent |-> relay_parent, hash |-> hash]
Stmts(c, valid, invalid, receipt) ==
    [candidate |-> c, valid |-> valid, invalid |-> invalid, receipt |-> receipt]

SpamTree ==
    b1 :> Voted(b0, 1, 1, {}, <<>>)
    @@ b2 :> Voted(b1, 2, 2, {c1}, <<Stmts(c1, {v3}, {v2}, FALSE), Stmts(c2, {}, {v1, v2}, FALSE)>>)
SpamReceipts == c1 :> Receipt(1, 0, 1) @@ c2 :> Receipt(2, 0, 3) @@ c3 :> Receipt(2, 1, 2)
SpamMessages ==
    {Stmts(c1, {v1}, {v2}, TRUE), Stmts(c2, {v1}, {v2}, TRUE), Stmts(c2, {v1}, {v3}, TRUE),
     Stmts(c3, {v1}, {v3}, TRUE), Stmts(c3, {me}, {}, TRUE)}

ConcludeTree ==
    b1 :> Voted(b0, 1, 1, {}, <<Stmts(c1, {v1}, {}, TRUE)>>)
    @@ b2 :> Voted(b1, 2, 1, {c1}, <<Stmts(c1, {v1}, {v1}, FALSE)>>)
    @@ b3 :> Voted(b2, 3, 3, {}, <<>>)
ConcludeReceipts == c1 :> Receipt(1, 0, 1)
ConcludeMessages == {Stmts(c1, {v}, w, TRUE) : v \in {v1, v2, me}, w \in {{}, {v2}, {v3}, {me}}}

Voters == {v1, v2, v3, me}
Ours   == {me}

Spam == INSTANCE DisputeCoordinator WITH
    Tree <- SpamTree, Root <- b0, Receipts <- SpamReceipts, Validators <- Voters, Own <- Ours,
    NValidators <- 7, Window <- 2, Messages <- SpamMessages, Rejected <- {},
    MaxSpamVotes <- 1, MaxParallel <- 1, BestEffortSize <- 1, PrioritySize <- 1,
    ActiveDuration <- 0, Times <- {0}, MaxAdded <- 1, MaxCrashes <- 1

Conclude == INSTANCE DisputeCoordinator WITH
    Tree <- ConcludeTree, Root <- b0, Receipts <- ConcludeReceipts, Validators <- Voters,
    Own <- Ours, NValidators <- 4, Window <- 1, Messages <- ConcludeMessages, Rejected <- {c1},
    MaxSpamVotes <- 1, MaxParallel <- 1, BestEffortSize <- 1, PrioritySize <- 1,
    ActiveDuration <- 0, Times <- {0, 1}, MaxAdded <- 1, MaxCrashes <- 1

storevars == <<now, meta, data, chunks, unfinalized, prune_by_time, known, finalized_number,
               noted, final_at>>
coordvars == <<mem, leaves, signed, torn>>
mcvars    == <<instance, db, finalized, crashes, signalled, storevars, coordvars>>

\* The variables of the subsystems that do not run.
NoSelection   == signalled = 0
NoStore       ==
    /\ now = 0 /\ meta = EmptyMap /\ data = {} /\ chunks = {} /\ unfinalized = {}
    /\ prune_by_time = {} /\ known = EmptyMap /\ finalized_number = None
    /\ noted = {} /\ final_at = EmptyMap
NoCoordinator == mem = 0 /\ leaves = 0 /\ signed = 0 /\ torn = 0

MCInit ==
    \/ /\ instance \in {"Reverts", "Race"} /\ Reverts!Init
       /\ NoStore /\ NoCoordinator /\ crashes = 0
    \/ instance = "Store" /\ Init /\ NoSelection /\ NoCoordinator /\ db = 0
    \/ instance \in {"Spam", "Conclude"} /\ Spam!Init /\ NoSelection /\ NoStore

MCNext ==
    /\ UNCHANGED instance
    /\ \/ /\ \/ instance = "Reverts" /\ Reverts!Next
             \/ instance = "Race" /\ Race!Next
          /\ UNCHANGED <<crashes, storevars, coordvars>>
       \/ instance = "Store" /\ Next /\ UNCHANGED <<db, signalled, coordvars>>
       \/ /\ \/ instance = "Spam" /\ Spam!Next
             \/ instance = "Conclude" /\ Conclude!Next
          /\ UNCHANGED <<signalled, storevars>>

MCSpec == MCInit /\ [][MCNext]_mcvars

-----------------------------------------------------------------------------
(* The properties of the other two subsystems, of the instances they are   *)
(* about.                                                                  *)

Selection(p, q) == CASE instance = "Reverts" -> p [] instance = "Race" -> q [] OTHER -> TRUE
Coordinator(p, q) == CASE instance = "Spam" -> p [] instance = "Conclude" -> q [] OTHER -> TRUE

\* Chain selection's tree, its index by number and the recorded unviable
\* ancestors agree, nothing is stored beside the finalized chain, and every block
\* that may become stagnant is on the list of some time, through every order of
\* imports, reversions, approvals, stagnation and finality.  Leaves on offer are
\* viable, none is missing where blocks have one child, and BestLeafContaining
\* answers with the heaviest above the block asked for
\* (propagate_viability_update, add_block, finalize_block).
TreeExact ==
    /\ Selection(Reverts!TypeOK, Race!TypeOK)
    /\ Selection(Reverts!IndexExact, Race!IndexExact)
    /\ Selection(Reverts!AncestorExact, Race!AncestorExact)
    /\ Selection(Reverts!PrunedExact, Race!PrunedExact)
    /\ Selection(Reverts!StagnationScheduled, Race!StagnationScheduled)
    /\ Selection(Reverts!LeavesSound, Race!LeavesSound)
    /\ Selection(Reverts!BestLeafExact, Race!BestLeafExact)

\* The status of every dispute is what the recorded votes say, spam slots count
\* the unconfirmed disputes of the window, and the chain offered for finality
\* ends below the first possibly invalid candidate.  An open dispute without our
\* vote is being looked into or queued, and nothing is queued while a worker is
\* free (handle_import_statements, queue_participation, dequeue_until_capacity).
DisputesExact ==
    /\ Coordinator(Spam!TypeOK, Conclude!TypeOK)
    /\ Coordinator(Spam!StatusExact, Conclude!StatusExact)
    /\ Coordinator(Spam!SpamSlotsExact, Conclude!SpamSlotsExact)
    /\ Coordinator(Spam!UndisputedExact, Conclude!UndisputedExact)
    /\ Coordinator(Spam!ParticipationTracked, Conclude!ParticipationTracked)
    /\ Coordinator(Spam!NoIdleWorker, Conclude!NoIdleWorker)

\* The node signs both sides of a dispute only if it stopped between sending
\* its first statement and recording it (issue_local_statement).
SignsOneSide == Coordinator(Spam!SignsOneSide, Conclude!SignsOneSide)

-----------------------------------------------------------------------------
(* Claims of the code's comments that do not hold.                         *)

\* "After this point, the viable leaves set is fully updated": every viable
\* block without viable children is a leaf (propagate_viability_update).
LeavesComplete == Selection(Reverts!LeavesComplete, Race!LeavesComplete)

\* "Try to scrape any blocks for which we [...] did not receive an active
\* leaves update": no block between two scraped ones is left out
\* (process_active_leaves_update).
AncestorsScraped == Coordinator(Spam!AncestorsScraped, Conclude!AncestorsScraped)
=============================================================================
