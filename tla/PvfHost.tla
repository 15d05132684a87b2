------------------------------ MODULE PvfHost ------------------------------
(***************************************************************************)
(* The validation host (node/core/pvf/src/host.rs) and its table of        *)
(* artifacts (artifacts.rs): requests to check or to execute validation    *)
(* code, which is prepared once and kept while it is needed.               *)
(*                                                                         *)
(* An action is one branch of the loop of run, or a turn of one of the     *)
(* tasks it talks to: the preparation queue (PvfPrepare), the execution    *)
(* queue (PvfExecute) and the sweeper that deletes files.                  *)
(***************************************************************************)
EXTENDS Integers, FiniteSets, Sequences, SequencesExt, BagsExt, Maps

CONSTANTS
    Codes,        \* artifacts, named by their code
    Requests,     \* of a request: its kind ("check", "execute") and code
    Ttl,          \* artifact_ttl
    MaxTime       \* bound on the clock

VARIABLES
    artifacts,    \* the table: state, requesters that wait, time last needed
    awaiting,     \* awaiting_prepare: the executions that wait, by code
    preparing,    \* jobs given to the preparation queue, a bag
    prepared,     \* its results
    to_execute,   \* jobs given to the execution queue
    files,        \* the codes whose artifact is on disk
    condemned,    \* files for the sweeper
    time,
    made,         \* history: the requests made so far
    canceled,     \* requests whose sender is not interested any more
    answers       \* history: the answers given, with their number

vars == <<artifacts, awaiting, preparing, prepared, to_execute, files, condemned,
          time, made, canceled, answers>>
taskvars == <<prepared, files, condemned, time>>

Init ==
    /\ artifacts = EmptyMap /\ awaiting = EmptyMap
    /\ preparing = EmptyBag /\ prepared = <<>> /\ to_execute = <<>>
    /\ files = {} /\ condemned = <<>> /\ time = 0
    /\ made = {} /\ canceled = {} /\ answers = EmptyBag

Artifact(state, waits, last) ==
    [state |-> state, waiting_for_response |-> waits, last_time_needed |-> last]

Preparing(waits) == Artifact("preparing", waits, 0)
Prepared == Artifact("prepared", <<>>, time)

StateOf(c) == IF c \in DOMAIN artifacts THEN artifacts[c].state ELSE "unknown"

\* insert_preparing and send_prepare.
Starts(c, waits) ==
    /\ artifacts' = Put(artifacts, c, Preparing(waits))
    /\ preparing' = BagAdd(preparing, c)

\* What a request does besides is said by the handlers.
Made(r, kind) ==
    /\ r \in DOMAIN Requests \ made /\ Requests[r].kind = kind
    /\ made' = made \union {r}
    /\ UNCHANGED <<taskvars, canceled>>

handle_precheck_pvf(r) ==
    /\ Made(r, "check")
    /\ LET c == Requests[r].code IN
       CASE StateOf(c) = "prepared" ->
                /\ artifacts' = [artifacts EXCEPT ![c] = Prepared]
                /\ answers' = BagAdd(answers, r) /\ UNCHANGED preparing
         [] StateOf(c) = "preparing" ->
                /\ artifacts' = [artifacts EXCEPT ![c].waiting_for_response = Append(@, r)]
                /\ UNCHANGED <<preparing, answers>>
         [] StateOf(c) = "failed" ->
                answers' = BagAdd(answers, r) /\ UNCHANGED <<artifacts, preparing>>
         [] StateOf(c) = "unknown" -> Starts(c, <<r>>) /\ UNCHANGED answers
    /\ UNCHANGED <<awaiting, to_execute>>

\* AwaitingPrepare::add.
Awaits(c, r) == awaiting' = Put(awaiting, c, Append(GetOr(awaiting, c, <<>>), r))

handle_execute_pvf(r) ==
    /\ Made(r, "execute")
    /\ LET c == Requests[r].code IN
       CASE StateOf(c) = "prepared" ->
                /\ artifacts' = [artifacts EXCEPT ![c] = Prepared]
                /\ to_execute' = Append(to_execute, r)
                /\ UNCHANGED <<awaiting, preparing, answers>>
         [] StateOf(c) = "preparing" ->
                Awaits(c, r) /\ UNCHANGED <<artifacts, preparing, to_execute, answers>>
         [] StateOf(c) = "failed" ->
                /\ answers' = BagAdd(answers, r)
                /\ UNCHANGED <<artifacts, awaiting, preparing, to_execute>>
         [] StateOf(c) = "unknown" ->
                Starts(c, <<>>) /\ Awaits(c, r) /\ UNCHANGED <<to_execute, answers>>

\* The codes that paras use are needed.
handle_heads_up(active) ==
    /\ artifacts' = [c \in DOMAIN artifacts \union active |->
           CASE c \in active /\ StateOf(c) = "prepared" -> Prepared
             [] c \in active /\ StateOf(c) = "unknown" -> Preparing(<<>>)
             [] OTHER -> artifacts[c]]
    /\ preparing' = preparing (+) SetToBag(active \ DOMAIN artifacts)
    /\ UNCHANGED <<awaiting, to_execute, made, canceled, answers, taskvars>>

\* handle_prepare_done, of an artifact that is being prepared; NeverUnexpected
\* says that it is.  Executions go on unless preparation failed or the requester
\* has lost interest.
handle_prepare_done ==
    /\ prepared # <<>> /\ prepared' = Tail(prepared)
    /\ LET c     == Head(prepared).code
           ok    == Head(prepared).ok
           waits == artifacts[c].waiting_for_response
           runs  == SelectSeq(GetOr(awaiting, c, <<>>), LAMBDA r : r \notin canceled)
       IN  /\ artifacts' = [artifacts EXCEPT ![c] =
                                IF ok THEN Prepared ELSE Artifact("failed", <<>>, 0)]
           /\ awaiting' = Without(awaiting, {c})
           /\ to_execute' = IF ok THEN to_execute \o runs ELSE to_execute
           /\ answers' = answers (+) SetToBag(Range(waits))
                                 (+) (IF ok THEN EmptyBag ELSE SetToBag(Range(runs)))
    /\ UNCHANGED <<preparing, files, condemned, time, made, canceled>>

\* Faulty variant of Expired: of artifacts in every state.
ExpiredAny == {c \in DOMAIN artifacts : time - artifacts[c].last_time_needed > Ttl}

\* Artifacts not needed for longer than the Ttl (prune).
Expired == {c \in DOMAIN artifacts : /\ artifacts[c].state = "prepared"
                                     /\ time - artifacts[c].last_time_needed > Ttl}

handle_cleanup_pulse ==
    /\ Expired # {}
    /\ artifacts' = Without(artifacts, Expired)
    /\ condemned' = condemned \o SetToSeq(Expired)
    /\ UNCHANGED <<awaiting, preparing, prepared, to_execute, files, time, made, canceled, answers>>

-----------------------------------------------------------------------------
(* The other tasks and the requesters.                                     *)

\* The preparation queue is done with a job; the file was moved into place.
PrepareEnds(c, ok) ==
    /\ c \in DOMAIN preparing
    /\ preparing' = BagRemove(preparing, c)
    /\ prepared' = Append(prepared, [code |-> c, ok |-> ok])
    /\ files' = IF ok THEN files \union {c} ELSE files
    /\ UNCHANGED <<artifacts, awaiting, to_execute, condemned, time, made, canceled, answers>>

\* An execution ends, with an internal error if the file is gone; workers finish
\* in any order.
ExecuteEnds(i) ==
    /\ i \in DOMAIN to_execute
    /\ to_execute' = RemoveAt(to_execute, i)
    /\ answers' = BagAdd(answers, to_execute[i])
    /\ UNCHANGED <<artifacts, awaiting, preparing, made, canceled, taskvars>>

sweeper_task ==
    /\ condemned # <<>> /\ condemned' = Tail(condemned)
    /\ files' = files \ {Head(condemned)}
    /\ UNCHANGED <<artifacts, awaiting, preparing, prepared, to_execute, time, made, canceled,
                   answers>>

Cancels(r) ==
    /\ r \in made \ canceled
    /\ canceled' = canceled \union {r}
    /\ UNCHANGED <<artifacts, awaiting, preparing, to_execute, made, answers, taskvars>>

Tick ==
    /\ time < MaxTime /\ time' = time + 1
    /\ UNCHANGED <<artifacts, awaiting, preparing, prepared, to_execute, files, condemned, made,
                   canceled, answers>>

Next ==
    \/ \E r \in DOMAIN Requests : handle_precheck_pvf(r) \/ handle_execute_pvf(r) \/ Cancels(r)
    \/ \E active \in SUBSET Codes \ {{}} : handle_heads_up(active)
    \/ handle_prepare_done \/ handle_cleanup_pulse
    \/ \E c \in Codes, ok \in BOOLEAN : PrepareEnds(c, ok)
    \/ \E i \in DOMAIN to_execute : ExecuteEnds(i)
    \/ sweeper_task \/ Tick

Spec == Init /\ [][Next]_vars

-----------------------------------------------------------------------------
(* Properties.                                                             *)

Results(c) == Cardinality({i \in DOMAIN prepared : prepared[i].code = c})
Waits(c) == IF c \in DOMAIN artifacts THEN artifacts[c].waiting_for_response ELSE <<>>
Occurrences(s, r) == Cardinality({i \in DOMAIN s : s[i] = r})

\* The arguments that end in "qed" in handle_prepare_done: an artifact is being
\* prepared exactly while there is one job or one result for it, so that no
\* result meets another state; and executions wait for such artifacts only.
NeverUnexpected ==
    /\ \A c \in Codes : CopiesIn(c, preparing) + Results(c)
                            = IF StateOf(c) = "preparing" THEN 1 ELSE 0
    /\ \A c \in DOMAIN awaiting : StateOf(c) = "preparing" /\ awaiting[c] # <<>>

\* A request is answered once, or waits in one place for its answer, through
\* failures, pruning and new requests for pruned artifacts; only one that was
\* canceled can go without.
RequestsTracked ==
    \A r \in made :
        LET c == Requests[r].code
            n == CopiesIn(r, answers) + Occurrences(to_execute, r) + Occurrences(Waits(c), r)
                    + Occurrences(GetOr(awaiting, c, <<>>), r)
        IN  n = 1 \/ (n = 0 /\ r \in canceled)

\* Of the state Prepared: "the artifact should be accessible through the path
\* obtained by the artifact id (unless, it was removed externally)".
PreparedOnDisk == \A c \in DOMAIN artifacts : artifacts[c].state = "prepared" => c \in files
=============================================================================
