---------------------------- MODULE MCApproval ----------------------------
(***************************************************************************)
(* Small instances of ApprovalVoting, and of ApprovalDistribution.  The    *)
(* variable instance tells which one runs; the variables of the other      *)
(* module are fixed.                                                       *)
(*   Tranches: a candidate with assignments in three tranches, no-shows.   *)
(*   Few:      few validators, so that all of them come to be needed.      *)
(*   Forks:    a candidate in two competing blocks, and finality.          *)
(*   Restarts: a chain of blocks, and the node stops and starts again.     *)
(*                                                                         *)
(*   Relayed:  three nodes and the messages of one checker.                *)
(*   Broken:   two checkers that lose their connection.                    *)
(*   Forked:   two nodes that import two forks.                            *)
(*   Finished: two nodes that import a chain, and finality.                *)
(*   Verdicts: two checkers, and all answers of approval voting.           *)
(***************************************************************************)
EXTENDS Integers, FiniteSets, Sequences, TLC

CONSTANTS c1, c2, b1, b2, b3, b4, n1, n2, n3

VARIABLES instance, now, crashes, mode, blocks, cands, first, finalized, wakeups, checking,
          cache, forwarded, noted, informed, sent,      \* of ApprovalVoting
          node, chain, up, chan, charged, disconnects   \* of ApprovalDistribution

N == -1
Block(parent, number, tick, candidates) ==
    [parent |-> parent, number |-> number, tick |-> tick, candidates |-> candidates]
All(t) == [v \in 0..9 |-> IF v + 1 \in DOMAIN t THEN t[v + 1] ELSE N]

TranchesTree     == b1 :> Block(N, 1, 1, {c1})
TranchesAssigned == b1 :> (c1 :> All(<<2, 0, 0, 1>>))
FewAssigned      == b1 :> (c1 :> All(<<3, 0, 1, 1>>))
ForksTree ==
    b1 :> Block(N, 1, 1, {}) @@ b2 :> Block(b1, 2, 1, {c1}) @@ b3 :> Block(b1, 2, 1, {})
    @@ b4 :> Block(b3, 3, 1, {c1})
ForksAssigned ==
    b1 :> <<>> @@ b2 :> (c1 :> All(<<0, 0>>)) @@ b3 :> <<>> @@ b4 :> (c1 :> All(<<1, 0>>))
RestartsTree     == b1 :> Block(N, 1, 0, {c1, c2}) @@ b2 :> Block(b1, 2, 1, {})
RestartsAssigned == b1 :> (c1 :> All(<<0, 0>>) @@ c2 :> All(<<0>>)) @@ b2 :> <<>>
NoneForced       == [b \in {b1, b2, b3, b4} |-> N]
FirstForced      == b1 :> N @@ b2 :> 1

Tranches == INSTANCE ApprovalVoting WITH
    Tree <- TranchesTree, Tranche <- TranchesAssigned,
    Us <- 0, NValidators <- 10, Needed <- 2, NoShow <- 2, GroupSize <- 2, Delay <- 1, TooFar <- 3,
    ForceUpTo <- NoneForced, Finality <- FALSE, Prompt <- TRUE, MaxTick <- 6, MaxCrashes <- 0

Few == INSTANCE ApprovalVoting WITH
    Tree <- TranchesTree, Tranche <- FewAssigned,
    Us <- 0, NValidators <- 4, Needed <- 1, NoShow <- 2, GroupSize <- 1, Delay <- 1, TooFar <- 2,
    ForceUpTo <- NoneForced, Finality <- FALSE, Prompt <- FALSE, MaxTick <- 6, MaxCrashes <- 0

Forks == INSTANCE ApprovalVoting WITH
    Tree <- ForksTree, Tranche <- ForksAssigned,
    Us <- 0, NValidators <- 10, Needed <- 2, NoShow <- 2, GroupSize <- 2, Delay <- 1, TooFar <- 3,
    ForceUpTo <- NoneForced, Finality <- TRUE, Prompt <- TRUE, MaxTick <- 3, MaxCrashes <- 0

Restarts == INSTANCE ApprovalVoting WITH
    Tree <- RestartsTree, Tranche <- RestartsAssigned,
    Us <- 0, NValidators <- 10, Needed <- 1, NoShow <- 2, GroupSize <- 2, Delay <- 1, TooFar <- 3,
    ForceUpTo <- FirstForced, Finality <- FALSE, Prompt <- TRUE, MaxTick <- 3, MaxCrashes <- 1

TwoNodes   == {n1, n2}
ThreeNodes == {n1, n2, n3}
EachOther  == n1 :> {n2} @@ n2 :> {n1}
Everyone   == [n \in ThreeNodes |-> ThreeNodes \ {n}]
OneBlock   == b1 :> b4
TwoBlocks  == b1 :> b4 @@ b2 :> b1
Fork       == b1 :> b4 @@ b2 :> b1 @@ b3 :> b1
Height     == b1 :> 1 @@ b2 :> 2 @@ b3 :> 2
OneChecker == b1 :> {n1} @@ b2 :> {} @@ b3 :> {}
Checkers2  == b1 :> TwoNodes
Good       == {"Accepted"}
AnyVerdict == {"Accepted", "AcceptedDuplicate", "TooFarInFuture"}

Relayed == INSTANCE ApprovalDistribution WITH
    Nodes <- ThreeNodes, Topology <- Everyone, MinGossip <- 2, Parent <- OneBlock,
    Number <- Height, Checkers <- OneChecker, Verdicts <- Good, MaxDelay <- 1, MaxFinal <- 0,
    MaxDisconnects <- 0

Broken == INSTANCE ApprovalDistribution WITH
    Nodes <- TwoNodes, Topology <- EachOther, MinGossip <- 2, Parent <- OneBlock,
    Number <- Height, Checkers <- Checkers2, Verdicts <- Good, MaxDelay <- 1, MaxFinal <- 0,
    MaxDisconnects <- 1

Forked == INSTANCE ApprovalDistribution WITH
    Nodes <- TwoNodes, Topology <- EachOther, MinGossip <- 2, Parent <- Fork,
    Number <- Height, Checkers <- OneChecker, Verdicts <- Good, MaxDelay <- 1, MaxFinal <- 0,
    MaxDisconnects <- 0

Finished == INSTANCE ApprovalDistribution WITH
    Nodes <- TwoNodes, Topology <- EachOther, MinGossip <- 2, Parent <- TwoBlocks,
    Number <- Height, Checkers <- OneChecker, Verdicts <- Good, MaxDelay <- 1, MaxFinal <- 1,
    MaxDisconnects <- 0

Verdicts == INSTANCE ApprovalDistribution WITH
    Nodes <- TwoNodes, Topology <- EachOther, MinGossip <- 2, Parent <- OneBlock,
    Number <- Height, Checkers <- Checkers2, Verdicts <- AnyVerdict, MaxDelay <- 1,
    MaxFinal <- 0, MaxDisconnects <- 0

votevars == <<now, crashes, mode, blocks, cands, first, finalized, wakeups, checking,
              cache, forwarded, noted, informed, sent>>
talkvars == <<node, chain, up, chan, charged, disconnects>>
vars     == <<instance, votevars, talkvars>>

NoVotes ==
    /\ now = 0 /\ crashes = 0 /\ mode = 0 /\ blocks = 0 /\ cands = 0 /\ first = 0 /\ finalized = 0
    /\ wakeups = 0 /\ checking = 0 /\ cache = 0 /\ forwarded = 0 /\ noted = 0 /\ informed = 0
    /\ sent = 0
NoTalk == node = 0 /\ chain = 0 /\ up = 0 /\ chan = 0 /\ charged = 0 /\ disconnects = 0

MCInit ==
    \/ instance \in {"Tranches", "Few", "Forks", "Restarts"} /\ Tranches!Init /\ NoTalk
    \/ instance = "Relayed" /\ Relayed!Init /\ NoVotes
    \/ instance \in {"Broken", "Forked", "Finished", "Verdicts"} /\ Broken!Init /\ NoVotes

MCNext ==
    /\ UNCHANGED instance
    /\ \/ /\ UNCHANGED talkvars
          /\ \/ instance = "Tranches" /\ Tranches!Next
             \/ instance = "Few" /\ Few!Next
             \/ instance = "Forks" /\ Forks!Next
             \/ instance = "Restarts" /\ Restarts!Next
       \/ /\ UNCHANGED votevars
          /\ \/ instance = "Relayed" /\ Relayed!Next
             \/ instance = "Broken" /\ Broken!Next
             \/ instance = "Forked" /\ Forked!Next
             \/ instance = "Finished" /\ Finished!Next
             \/ instance = "Verdicts" /\ Verdicts!Next

MCSpec == MCInit /\ [][MCNext]_vars

-----------------------------------------------------------------------------
(* The properties of ApprovalVoting, of the instances they are about.      *)

Of(p, q, r, s) ==
    CASE instance = "Tranches" -> p [] instance = "Few" -> q
      [] instance = "Forks" -> r [] instance = "Restarts" -> s [] OTHER -> TRUE
OfTalk(p, q, r, s, t) ==
    CASE instance = "Relayed" -> p [] instance = "Broken" -> q [] instance = "Forked" -> r
      [] instance = "Finished" -> s [] instance = "Verdicts" -> t [] OTHER -> TRUE

\* The database is well formed, and pruned to the descendants of the finalized
\* block although a candidate is in several branches (add_block_entry,
\* canonicalize).
DatabaseExact ==
    /\ Of(Tranches!TypeOK, Few!TypeOK, Forks!TypeOK, Restarts!TypeOK)
    /\ Of(TRUE, TRUE, Forks!PrunedExact, TRUE)

\* Approval is sound from the candidate to the finality vote: approved by as
\* many assigned validators as needed with each no-show replaced (assignments
\* count twice after a restart), noted to chain selection exactly when all of
\* a block is approved, and no unapproved block is ever below the ancestor
\* offered to the finality voter (advance_approval_state,
\* handle_approved_ancestor).
ApprovalsSound ==
    /\ Of(Tranches!ApprovedByEnough, Few!ApprovedByEnough, Forks!ApprovedByEnough, TRUE)
    /\ Of(Tranches!NotedExact, Few!NotedExact, Forks!NotedExact, Restarts!NotedExact)
    /\ Of(TRUE, TRUE, Forks!AncestorSound, Restarts!AncestorSound)

\* Whatever time alone will bring about has its wakeup, and every statement
\* made while syncing or before a stop is sent once the node is active
\* (schedule_wakeup_action, distribution_messages_for_activation).
NothingForgotten ==
    /\ Of(Tranches!NoMissedWakeup, Few!NoMissedWakeup, TRUE, TRUE)
    /\ Of(Tranches!StatementsSent, Few!StatementsSent, Forks!StatementsSent,
          Restarts!StatementsSent)

\* Once nothing is on its way, neighbours that know the heads of each other hold
\* the same assignments and approvals, although their views, blocks, topology and
\* connections came in any order; what a peer is taken to have been sent is held
\* here, and approvals only with their assignments (unify_with_peer,
\* handle_new_blocks, import_and_circulate_approval).
ApprovalsComplete ==
    /\ OfTalk(Relayed!GossipComplete, Broken!GossipComplete, Forked!GossipComplete,
              Finished!GossipComplete, TRUE)
    /\ OfTalk(Relayed!KnowledgeSound, Broken!KnowledgeSound, Forked!KnowledgeSound,
              Finished!KnowledgeSound, Verdicts!KnowledgeSound)
=============================================================================
