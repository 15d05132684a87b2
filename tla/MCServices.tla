----------------------------- MODULE MCServices -----------------------------
(***************************************************************************)
(* Small instances of what serves one relay parent on a node: collations,  *)
(* candidate backing, and the preparation and execution of validation      *)
(* code.  The variable instance tells which one runs; the variables of the *)
(* others are fixed.  The module extends Backing, whose properties are     *)
(* checked as they stand.                                                  *)
(*                                                                         *)
(*   Fetching:  two collators, while the views of all change.              *)
(*   Backing:   statements on five candidates of two paras, and failures.  *)
(*   Collating: two collators and the backing job they offer to.           *)
(*   Preparing: two artifacts, one normal and one more critical worker.    *)
(*   Executing: four jobs, two workers and those that replace them.        *)
(*   Hosting:   requests for two codes that expire while they are used.    *)
(*   Sharing:   statements on one candidate between three nodes.           *)
(*   Viewing:   the same between two nodes whose views and link change.    *)
(*   Sizeable:  a large statement, a lost connection and a lost request.   *)
(*   Twice:     a large statement of two nodes (a specification of its     *)
(*              own).                                                      *)
(***************************************************************************)
EXTENDS Backing, TLC

CONSTANTS p1, p2, r1, r2, k1, k2, k3, k4, k5, v1, v2, v3, A, B, n1, n2, n3

VARIABLES instance,
          st, notified, advertised,                     \* of Fetching
          queue, pool, to_pool, from_pool, enqueued,    \* of Preparing
          waiting, running, spawn_inflight, work, replied,
          answered, lost,                               \* of Executing
          dead, born,                                   \* of both
          artifacts, awaiting, preparing, prepared, to_execute, files,
          condemned, time, made, canceled,              \* of Hosting
          answers,                                      \* of Preparing and Hosting
          node, up, chan, charged, disconnects, failures    \* of the statements

Collator   == p1 :> p1 @@ p2 :> p2
Collates   == p1 :> A @@ p2 :> A
Offered    == p1 :> k1 @@ p2 :> k2
TwoPeers   == {p1, p2}
TwoViews   == {{r1}, {r2}}
ParaAt     == r1 :> A @@ r2 :> A

Fetching == INSTANCE CollatorProtocol WITH
    Peers <- TwoPeers, CollatorOf <- Collator, CollatesFor <- Collates, Offers <- Offered,
    Views <- TwoViews, Assigned <- ParaAt, MaxAdvertisements <- 2

Paras     == k1 :> A @@ k2 :> A @@ k3 :> B @@ k4 :> A @@ k5 :> A
TwoGroups == A :> {Me, v1, v2} @@ B :> {v3}
Sayings   ==
    {Statement(v1, "seconded", c) : c \in {k1, k5}}
    \union {Statement(v2, "seconded", c) : c \in {k1, k4}}
    \union {Statement(v, "valid", k1) : v \in {v1, v2, v3}}
Foreign   == {k5}
Sound     == {k1, k2, k3}

OnePara    == k1 :> A @@ k2 :> A
OneGroup   == A :> {Me, v1, v2}
FewSayings == {Statement(v1, "seconded", k1), Statement(v2, "valid", k1)}
OnlyK1     == {k1}

Collating == INSTANCE Collation WITH
    Peers <- TwoPeers, CollatorOf <- Collator, CollatesFor <- Collates, Offers <- Offered,
    MaxAdvertisements <- 2, ParaOf <- OnePara, Groups <- OneGroup, WrongCollator <- {},
    Valid <- OnlyK1, Statements <- FewSayings, RelayParent <- r1, SigningFails <- FALSE,
    MaxFailures <- 0

TwoArtifacts == {"a", "b"}

Preparing == INSTANCE PvfPrepare WITH
    Artifacts <- TwoArtifacts, SoftCapacity <- 1, HardCapacity <- 2, MaxWorkers <- 3, MaxJobs <- 3

Executing == INSTANCE PvfExecute WITH Capacity <- 2, MaxJobs <- 4, MaxWorkers <- 4

Asks(kind, c) == [kind |-> kind, code |-> c]
ThreeRequests == <<Asks("check", "a"), Asks("execute", "a"), Asks("execute", "b")>>

Hosting == INSTANCE PvfHost WITH
    Codes <- TwoArtifacts, Requests <- ThreeRequests, Ttl <- 0, MaxTime <- 2

TwoNodes    == {n1, n2}
ThreeNodes  == {n1, n2, n3}
Apart       == [n \in ThreeNodes |-> {}]
Everyone    == [n \in ThreeNodes |-> ThreeNodes \ {n}]
EachOther   == n1 :> {n2} @@ n2 :> {n1}
OneHead     == k1 :> r1
BySecond    == k1 :> {n2}
ByFirst     == k1 :> {n1}
ByBoth      == k1 :> TwoNodes
NoCandidate == {}

Sharing == INSTANCE StatementDistribution WITH
    Nodes <- ThreeNodes, Topology <- Everyone, Group <- Apart, MinGossip <- 2,
    HeadOf <- OneHead, SecondedBy <- ByFirst, ValidBy <- BySecond, Large <- NoCandidate,
    MaxLarge <- 2, MaxViews <- 1, MaxDisconnects <- 0, MaxFailures <- 0

Viewing == INSTANCE StatementDistribution WITH
    Nodes <- TwoNodes, Topology <- EachOther, Group <- EachOther, MinGossip <- 2,
    HeadOf <- OneHead, SecondedBy <- ByFirst, ValidBy <- BySecond, Large <- NoCandidate,
    MaxLarge <- 2, MaxViews <- 2, MaxDisconnects <- 1, MaxFailures <- 0

Sizeable == INSTANCE StatementDistribution WITH
    Nodes <- TwoNodes, Topology <- EachOther, Group <- EachOther, MinGossip <- 2,
    HeadOf <- OneHead, SecondedBy <- ByFirst, ValidBy <- BySecond, Large <- OnlyK1,
    MaxLarge <- 4, MaxViews <- 1, MaxDisconnects <- 1, MaxFailures <- 1

Twice == INSTANCE StatementDistribution WITH
    Nodes <- TwoNodes, Topology <- EachOther, Group <- EachOther, MinGossip <- 2,
    HeadOf <- OneHead, SecondedBy <- ByBoth, ValidBy <- BySecond, Large <- OnlyK1,
    MaxLarge <- 4, MaxViews <- 1, MaxDisconnects <- 0, MaxFailures <- 0

fetchvars == <<st, notified, advertised>>
msgvars   == <<to_backing, from_backing>>
prepvars  == <<queue, pool, to_pool, from_pool, enqueued>>
execvars  == <<waiting, running, spawn_inflight, work, replied, answered, lost>>
procvars  == <<dead, born>>
hostvars  == <<artifacts, awaiting, preparing, prepared, to_execute, files, condemned, time, made,
               canceled>>
talkvars  == <<node, up, chan, charged, disconnects, failures>>
mcvars    == <<instance, fetchvars, jobvars, msgvars, prepvars, execvars, procvars, hostvars,
               answers, talkvars>>

\* The variables of what does not run; a job is then one that has not begun.
NoFetching == st = 0 /\ notified = 0 /\ advertised = 0
NoMessages == to_backing = <<>> /\ from_backing = <<>>
NoPrepare  == queue = 0 /\ pool = 0 /\ to_pool = 0 /\ from_pool = 0 /\ enqueued = 0
NoExecute  == /\ waiting = 0 /\ running = 0 /\ spawn_inflight = 0 /\ work = 0 /\ replied = 0
              /\ answered = 0 /\ lost = 0
NoWorkers  == dead = 0 /\ born = 0
NoHost     == /\ artifacts = 0 /\ awaiting = 0 /\ preparing = 0 /\ prepared = 0 /\ to_execute = 0
              /\ files = 0 /\ condemned = 0 /\ time = 0 /\ made = 0 /\ canceled = 0
NoAnswers  == answers = 0
NoTalk     == node = 0 /\ up = 0 /\ chan = 0 /\ charged = 0 /\ disconnects = 0 /\ failures = 0
NoPvf      == NoPrepare /\ NoExecute /\ NoWorkers /\ NoHost /\ NoAnswers
NoBacking  == NoFetching /\ JobInit /\ NoMessages

MCInit ==
    \/ /\ NoTalk
       /\ \/ instance = "fetching" /\ Fetching!Init /\ JobInit /\ NoPvf
          \/ instance = "backing" /\ Init /\ NoFetching /\ NoPvf
          \/ instance = "collating" /\ Collating!Init /\ NoPvf
          \/ instance = "preparing" /\ Preparing!Init /\ NoBacking /\ NoExecute /\ NoHost
          \/ /\ instance = "executing" /\ Executing!Init
             /\ NoBacking /\ NoPrepare /\ NoHost /\ NoAnswers
          \/ /\ instance = "hosting" /\ Hosting!Init
             /\ NoBacking /\ NoPrepare /\ NoExecute /\ NoWorkers
    \/ /\ NoBacking /\ NoPvf
       /\ \/ instance = "sharing" /\ Sharing!Init
          \/ instance = "viewing" /\ Viewing!Init
          \/ instance = "sizeable" /\ Sizeable!Init

pvfvars == <<prepvars, execvars, procvars, hostvars, answers>>
collvars == <<fetchvars, jobvars, msgvars>>

MCNext ==
    /\ UNCHANGED instance
    /\ \/ /\ UNCHANGED talkvars
          /\ \/ instance = "fetching" /\ Fetching!Next /\ UNCHANGED <<jobvars, pvfvars>>
             \/ instance = "backing" /\ Next /\ UNCHANGED <<fetchvars, pvfvars>>
             \/ instance = "collating" /\ Collating!Next /\ UNCHANGED pvfvars
             \/ /\ instance = "preparing" /\ Preparing!Next
                /\ UNCHANGED <<collvars, execvars, hostvars>>
             \/ /\ instance = "executing" /\ Executing!Next
                /\ UNCHANGED <<collvars, prepvars, hostvars, answers>>
             \/ /\ instance = "hosting" /\ Hosting!Next
                /\ UNCHANGED <<collvars, prepvars, execvars, procvars>>
       \/ /\ UNCHANGED <<collvars, pvfvars>>
          /\ \/ instance = "sharing" /\ Sharing!Next
             \/ instance = "viewing" /\ Viewing!Next
             \/ instance = "sizeable" /\ Sizeable!Next

MCSpec == MCInit /\ [][MCNext]_mcvars

TwiceInit == instance = "twice" /\ Twice!Init /\ NoBacking /\ NoPvf
TwiceNext == Twice!Next /\ UNCHANGED <<instance, collvars, pvfvars>>
TwiceSpec == TwiceInit /\ [][TwiceNext]_mcvars

-----------------------------------------------------------------------------
(* The properties, of the instances they are about.                        *)

OfFetching(p) == instance = "fetching" => p
OfBoth(p)     == instance = "collating" => p
OfPrepare(p)  == instance = "preparing" => p
OfExecute(p)  == instance = "executing" => p
OfHost(p)     == instance = "hosting" => p
OfTalk(p, q, r) ==
    CASE instance = "sharing" -> p [] instance = "viewing" -> q [] instance = "sizeable" -> r
      [] OTHER -> TRUE

\* Collations and requests are of relay parents in view, however views change
\* under the fetches, and the timer that gives others their turn runs.  The
\* collator that is told its collation was seconded sent the one the node has
\* seconded, the collator protocol and backing agree on what is seconded, and an
\* answer on the pending candidate is under way unless backing knew it from others
\* (remove_relay_parent, handle_collation_fetched_result, process_msg).
CollationsTracked ==
    /\ OfFetching(Fetching!TypeOK /\ Fetching!FetchesInView)
    /\ OfBoth(Collating!NotifiedRightly /\ Collating!AnswerExpected /\ Collating!SecondedKnown)

\* Jobs of both queues are in one place, answered once and never forgotten while
\* workers die, unless the last worker of the execute queue was purged after it had
\* replied (`lost`), and the pool stays within its capacity; a result of preparation
\* meets an artifact that is being prepared, and every request to the host is
\* answered once (handle_worker_rip, purge_dead, handle_job_finish,
\* handle_prepare_done, handle_execute_pvf).
RequestsServed ==
    /\ OfPrepare(Preparing!JobsTracked /\ Preparing!CapacityKept /\ Preparing!NothingForgotten)
    /\ OfExecute(Executing!JobsTracked /\ Executing!NothingForgotten)
    /\ OfHost(Hosting!NeverUnexpected /\ Hosting!RequestsTracked)

\* Once nothing is on its way, neighbours with the same head hold the same
\* statements on it, although they met, changed their views and shared in any
\* order and lost a connection in between; a large statement may still be on its
\* way, fetched from a peer that will answer. A Valid statement is stored only
\* after a Seconded one on its candidate, a large one only with the candidate that
\* peers will ask for (update_peer_view_and_maybe_send_unlocked,
\* circulate_statement_and_dependents, retrieve_statement_from_message).
StatementsComplete ==
    /\ OfTalk(Sharing!TypeOK, Viewing!TypeOK, Sizeable!TypeOK)
    /\ OfTalk(Sharing!GossipComplete, Viewing!GossipComplete, Sizeable!GossipComplete)
    /\ OfTalk(Sharing!SecondedFirst, Viewing!SecondedFirst,
              Sizeable!SecondedFirst /\ Sizeable!AnnouncedKept)

-----------------------------------------------------------------------------
(* Claims of the code's comments that do not hold.                         *)

\* "If finished one does not match waiting_collation, then we already dequeued
\* another fetch to replace it": collations that wait are not left without any
\* fetch (get_next_collation_to_fetch).
NotStalled == OfBoth(Collating!Collators!NotStalled)

\* Jobs do not wait without any worker (handle_job_finish).
NeverStalls == OfExecute(Executing!NeverStalls)

\* A prepared artifact is on disk (sweeper_task).
PreparedOnDisk == OfHost(Hosting!PreparedOnDisk)

\* "Make sure we have data in cache": what a node shares it keeps for those who
\* will ask for it (Share, Finished).
SharedKept == instance = "twice" => Twice!AnnouncedKept
=============================================================================
