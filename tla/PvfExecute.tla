----------------------------- MODULE PvfExecute -----------------------------
(***************************************************************************)
(* The queue of execution jobs and its workers                             *)
(* (node/core/pvf/src/execute/queue.rs).                                   *)
(*                                                                         *)
(* An action is one turn of the loop of run, which ends with purge_dead,   *)
(* or something that happens meanwhile: a worker replies or dies.  A reply *)
(* waits in its socket until the loop takes it.                            *)
(***************************************************************************)
EXTENDS Integers, FiniteSets, Sequences, SequencesExt, Maps

CONSTANTS
    Capacity,      \* workers the queue may have
    MaxJobs,       \* jobs ever enqueued
    MaxWorkers     \* workers ever spawned

VARIABLES
    waiting,       \* the queue of jobs
    running,       \* of a registered worker: "idle" or "busy"
    spawn_inflight,
    work,          \* of a worker that was given a job: the job
    replied,       \* workers whose reply has arrived
    dead,          \* workers whose process has terminated
    answered,      \* history: the answers of a job
    lost,          \* history: a freed worker had been purged, see JobFinish
    born           \* history: workers spawned so far

vars == <<waiting, running, spawn_inflight, work, replied, dead, answered, lost, born>>

Init ==
    /\ waiting = <<>> /\ running = EmptyMap /\ spawn_inflight = 0
    /\ work = EmptyMap /\ replied = {} /\ dead = {}
    /\ answered = <<>> /\ lost = FALSE /\ born = 0

\* The workers that a turn leaves registered: those that have terminated, idle
\* or not, are removed at its end.
purge_dead(workers) == running' = Without(workers, dead)

can_afford_one_more == spawn_inflight + Cardinality(DOMAIN running) < Capacity

\* The worker w, registered and idle, is given the next job if there is one.
AssignNext(workers, w, given) ==
    IF waiting = <<>>
    THEN /\ purge_dead(Put(workers, w, "idle")) /\ work' = given
         /\ UNCHANGED waiting
    ELSE /\ purge_dead(Put(workers, w, "busy")) /\ work' = Put(given, w, Head(waiting))
         /\ waiting' = Tail(waiting)

\* handle_to_queue: a job is a number.
Enqueue ==
    /\ Len(answered) < MaxJobs
    /\ LET job  == Len(answered) + 1
           idle == {w \in DOMAIN running : running[w] = "idle"}
       IN  \/ \E w \in idle : /\ purge_dead([running EXCEPT ![w] = "busy"])
                              /\ work' = Put(work, w, job)
                              /\ UNCHANGED <<waiting, spawn_inflight>>
           \/ /\ idle = {}
              /\ spawn_inflight' = spawn_inflight + (IF can_afford_one_more THEN 1 ELSE 0)
              /\ waiting' = Append(waiting, job)
              /\ purge_dead(running) /\ UNCHANGED work
    /\ answered' = Append(answered, 0)
    /\ lost' = FALSE
    /\ UNCHANGED <<replied, dead, born>>

WorkerSpawned ==
    /\ spawn_inflight > 0 /\ born < MaxWorkers
    /\ born' = born + 1
    /\ spawn_inflight' = spawn_inflight - 1
    /\ AssignNext(running, born', work)
    /\ UNCHANGED <<replied, dead, answered, lost>>

Replies(w) ==
    /\ w \in DOMAIN work \ (replied \union dead)
    /\ replied' = replied \union {w}
    /\ UNCHANGED <<waiting, running, spawn_inflight, work, dead, answered, lost, born>>

Dies(w) ==
    /\ w \in 1..born \ dead
    /\ dead' = dead \union {w}
    /\ UNCHANGED <<waiting, running, spawn_inflight, work, replied, answered, lost, born>>

Answers(w) ==
    /\ answered' = [answered EXCEPT ![work[w]] = @ + 1]
    /\ UNCHANGED <<dead, born>>

\* handle_job_finish with a reply.  A worker that was purged before its reply
\* was taken gets nothing, and nothing takes its place.
JobFinish(w) ==
    /\ w \in replied /\ replied' = replied \ {w}
    /\ Answers(w)
    /\ IF w \in DOMAIN running
       THEN AssignNext(running, w, Without(work, {w})) /\ UNCHANGED lost
       ELSE /\ purge_dead(running) /\ work' = Without(work, {w})
            /\ lost' = TRUE /\ UNCHANGED waiting
    /\ UNCHANGED spawn_inflight

\* Without one: it timed out, perhaps as the reply came, or the connection broke.
\* The job is answered as invalid, and another worker asked for if jobs are left.
JobFails(w) ==
    /\ w \in DOMAIN work /\ replied' = replied \ {w}
    /\ Answers(w)
    /\ work' = Without(work, {w})
    /\ purge_dead(Without(running, {w}))
    /\ spawn_inflight' = spawn_inflight + (IF waiting = <<>> THEN 0 ELSE 1)
    /\ UNCHANGED <<waiting, lost>>

Next ==
    \/ Enqueue \/ WorkerSpawned
    \/ \E w \in DOMAIN work : Replies(w) \/ JobFinish(w) \/ JobFails(w)
    \/ \E w \in 1..born : Dies(w)

Spec == Init /\ [][Next]_vars

-----------------------------------------------------------------------------
(* Properties.                                                             *)

\* A job waits, is with one worker, or has been answered, once: whichever way
\* workers die, time out and reply.
JobsTracked ==
    \A j \in 1..Len(answered) :
        answered[j] + Cardinality({i \in DOMAIN waiting : waiting[i] = j})
                    + Cardinality({w \in DOMAIN work : work[w] = j}) = 1

\* While jobs wait no worker is idle, and one is at work or being spawned,
\* except after the purge of a worker that had replied.
NothingForgotten ==
    waiting # <<>> =>
        /\ \A w \in DOMAIN running : running[w] = "busy"
        /\ DOMAIN work # {} \/ spawn_inflight > 0 \/ lost

\* "If there are pending jobs in the queue, schedules the next of them onto the
\* just freed up worker": the same without the exception.
NeverStalls == waiting # <<>> => DOMAIN work # {} \/ spawn_inflight > 0
=============================================================================
