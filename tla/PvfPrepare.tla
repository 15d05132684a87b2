----------------------------- MODULE PvfPrepare -----------------------------
(***************************************************************************)
(* Preparation of validation code: the queue of jobs                       *)
(* (node/core/pvf/src/prepare/queue.rs) and the pool of worker processes   *)
(* (node/core/pvf/src/prepare/pool.rs), two tasks that exchange messages.  *)
(*                                                                         *)
(* An action is one turn of either task, or the death of a process.  A job *)
(* is named by its artifact, of which there is one job at a time.          *)
(***************************************************************************)
EXTENDS Integers, FiniteSets, Sequences, SequencesExt, Maps

CONSTANTS
    Artifacts,
    SoftCapacity,    \* workers for normal jobs
    HardCapacity,    \* workers for critical ones
    MaxWorkers,      \* workers ever spawned
    MaxJobs          \* jobs ever enqueued

VARIABLES
    queue,           \* jobs, workers, spawns in flight and the unscheduled jobs
    pool,            \* spawned workers: "idle" or what they work on; spawning tasks
    dead,            \* workers whose process has terminated
    to_pool, from_pool,
    answers,         \* results for the host
    enqueued, born   \* history: jobs enqueued and workers spawned so far

vars == <<queue, pool, dead, to_pool, from_pool, answers, enqueued, born>>

None == "none"
Idle == "idle"

Init ==
    /\ queue = [jobs |-> EmptyMap, workers |-> EmptyMap, spawn_inflight |-> 0,
                normal |-> <<>>, critical |-> <<>>]
    /\ pool = [spawned |-> EmptyMap, spawning |-> 0]
    /\ dead = {} /\ to_pool = <<>> /\ from_pool = <<>> /\ answers = <<>>
    /\ enqueued = 0 /\ born = 0

-----------------------------------------------------------------------------
(* The queue.  Its functions return the queue and the messages for the     *)
(* pool.                                                                   *)

Step(q, sends) == [queue |-> q, sends |-> sends]

Unscheduled(q) == q.critical \o q.normal
Workforce(q) == Cardinality(DOMAIN q.workers) + q.spawn_inflight

add(q, a, priority) ==
    IF priority = "critical" THEN [q EXCEPT !.critical = Append(@, a)]
    ELSE [q EXCEPT !.normal = Append(@, a)]

readd(q, a) ==
    IF q.jobs[a] = "critical" THEN [q EXCEPT !.critical = <<a>> \o @]
    ELSE [q EXCEPT !.normal = <<a>> \o @]

assign(q, w, a) ==
    Step([q EXCEPT !.workers[w] = a], <<[kind |-> "start", worker |-> w, artifact |-> a]>>)

\* The next unscheduled job, critical ones first, goes to the worker w.
AssignNext(q, w) ==
    CASE q.critical # <<>> -> assign([q EXCEPT !.critical = Tail(@)], w, Head(q.critical))
      [] q.critical = <<>> /\ q.normal # <<>> ->
             assign([q EXCEPT !.normal = Tail(@)], w, Head(q.normal))
      [] OTHER -> Step(q, <<>>)

can_afford_one_more(q, critical) ==
    Workforce(q) < IF critical THEN HardCapacity ELSE SoftCapacity

spawn_extra_worker(q, critical) ==
    IF can_afford_one_more(q, critical)
    THEN Step([q EXCEPT !.spawn_inflight = @ + 1], <<[kind |-> "spawn"]>>)
    ELSE Step(q, <<>>)

\* The worker is gone; another is asked for if jobs are left.
Replace(q) == IF Unscheduled(q) # <<>> THEN spawn_extra_worker(q, FALSE) ELSE Step(q, <<>>)

Applies(step) ==
    /\ queue' = step.queue
    /\ to_pool' = to_pool \o step.sends

\* handle_enqueue: the job goes to an idle worker, or waits, perhaps for a new
\* one.  The host enqueues an artifact once until it is answered.
Enqueue(a, priority) ==
    /\ enqueued < MaxJobs
    /\ a \notin DOMAIN queue.jobs
    /\ \A i \in DOMAIN answers : answers[i].artifact # a
    /\ LET q    == [queue EXCEPT !.jobs = Put(@, a, priority)]
           idle == {w \in DOMAIN q.workers : q.workers[w] = None}
           more == spawn_extra_worker(q, priority = "critical")
       IN  \/ idle # {} /\ \E w \in idle : Applies(assign(q, w, a))
           \/ idle = {} /\ Applies(Step(add(more.queue, a, priority), more.sends))
    /\ enqueued' = enqueued + 1
    /\ UNCHANGED <<pool, dead, from_pool, answers, born>>

Message(kind) == from_pool # <<>> /\ Head(from_pool).kind = kind /\ from_pool' = Tail(from_pool)

WorkerSpawned ==
    /\ Message("spawned")
    /\ LET w == Head(from_pool).worker
       IN  Applies(AssignNext([queue EXCEPT !.workers = Put(@, w, None),
                                            !.spawn_inflight = @ - 1], w))
    /\ UNCHANGED <<pool, dead, answers, enqueued, born>>

\* handle_worker_concluded: the host is answered, and the worker replaced, culled
\* or given the next job.
WorkerConcluded ==
    /\ Message("concluded")
    /\ LET w    == Head(from_pool).worker
           a    == queue.workers[w]
           done == [queue EXCEPT !.jobs = Without(@, {a}), !.workers[w] = None]
           less == [done EXCEPT !.workers = Without(@, {w})]
       IN  /\ Applies(IF Head(from_pool).rip THEN Replace(less)
                      ELSE IF Workforce(done) > SoftCapacity
                           THEN Step(less, <<[kind |-> "kill", worker |-> w]>>)
                           ELSE AssignNext(done, w))
           /\ answers' = Append(answers, [artifact |-> a, ok |-> Head(from_pool).ok])
    /\ UNCHANGED <<pool, dead, enqueued, born>>

\* handle_worker_rip: a job assigned to the dead worker goes to the front.
WorkerRip ==
    /\ Message("rip")
    /\ LET w    == Head(from_pool).worker
           less == [queue EXCEPT !.workers = Without(@, {w})]
       IN  Applies(CASE w \notin DOMAIN queue.workers -> Step(queue, <<>>)
                     [] w \in DOMAIN queue.workers /\ queue.workers[w] = None -> Replace(less)
                     [] OTHER -> Replace(readd(less, queue.workers[w])))
    /\ UNCHANGED <<pool, dead, answers, enqueued, born>>

\* The host takes an answer.
HostTakes ==
    /\ answers # <<>> /\ answers' = Tail(answers)
    /\ UNCHANGED <<queue, pool, dead, to_pool, from_pool, enqueued, born>>

-----------------------------------------------------------------------------
(* The pool.  Each of its turns ends with purge_dead.                      *)

Rips(W) == SetToSeq({[kind |-> "rip", worker |-> w] : w \in W})

\* Idle workers whose process has terminated are removed and reported.
purge_dead(spawned, spawning, says) ==
    LET gone == {w \in DOMAIN spawned : spawned[w] = Idle /\ w \in dead}
    IN  /\ pool' = [spawned |-> Without(spawned, gone), spawning |-> spawning]
        /\ from_pool' = from_pool \o says \o Rips(gone)

\* handle_to_pool.  A worker that was removed is not started, and can be killed.
PoolTakes ==
    /\ to_pool # <<>> /\ to_pool' = Tail(to_pool)
    /\ LET m == Head(to_pool) IN
       CASE m.kind = "spawn" -> purge_dead(pool.spawned, pool.spawning + 1, <<>>)
         [] m.kind = "kill" -> purge_dead(Without(pool.spawned, {m.worker}), pool.spawning, <<>>)
         [] m.kind = "start" ->
                purge_dead(IF m.worker \in DOMAIN pool.spawned
                           THEN [pool.spawned EXCEPT ![m.worker] = m.artifact] ELSE pool.spawned,
                           pool.spawning, <<>>)
    /\ UNCHANGED <<queue, dead, answers, enqueued, born>>

PoolSpawns ==
    /\ pool.spawning > 0 /\ born < MaxWorkers
    /\ born' = born + 1
    /\ purge_dead(Put(pool.spawned, born', Idle), pool.spawning - 1,
                  <<[kind |-> "spawned", worker |-> born']>>)
    /\ UNCHANGED <<queue, dead, to_pool, answers, enqueued>>

\* A work task ends (handle_mux): with a result, which may have been written
\* before the worker died, or the worker is retired, unreachable, or after it died
\* or took too long.
WorkEnds(w, outcome) ==
    /\ pool.spawned[w] # Idle
    /\ CASE outcome = "result" -> \E ok \in BOOLEAN :
                purge_dead([pool.spawned EXCEPT ![w] = Idle], pool.spawning,
                           <<[kind |-> "concluded", worker |-> w, rip |-> FALSE, ok |-> ok]>>)
         [] outcome = "unreachable" ->
                purge_dead(Without(pool.spawned, {w}), pool.spawning,
                           <<[kind |-> "rip", worker |-> w]>>)
         [] outcome = "did_not_make_it" ->
                purge_dead(Without(pool.spawned, {w}), pool.spawning,
                           <<[kind |-> "concluded", worker |-> w, rip |-> TRUE, ok |-> FALSE]>>)
    /\ UNCHANGED <<queue, dead, to_pool, answers, enqueued, born>>

Dies(w) ==
    /\ w \in DOMAIN pool.spawned \ dead
    /\ dead' = dead \union {w}
    /\ UNCHANGED <<queue, pool, to_pool, from_pool, answers, enqueued, born>>

Next ==
    \/ \E a \in Artifacts, priority \in {"normal", "critical"} : Enqueue(a, priority)
    \/ WorkerSpawned \/ WorkerConcluded \/ WorkerRip \/ HostTakes
    \/ PoolTakes \/ PoolSpawns
    \/ \E w \in DOMAIN pool.spawned :
           \/ \E outcome \in {"result", "unreachable", "did_not_make_it"} : WorkEnds(w, outcome)
           \/ Dies(w)

Spec == Init /\ [][Next]_vars

-----------------------------------------------------------------------------
(* Properties.                                                             *)

\* Every job waits in one place or is with one worker; the `never!` of
\* handle_worker_concluded is not reached: a worker that concludes has a job.
JobsTracked ==
    LET waiting == Unscheduled(queue)
        working == {w \in DOMAIN queue.workers : queue.workers[w] # None}
    IN  /\ IsInjective(waiting)
        /\ \A v, w \in working : v # w => queue.workers[v] # queue.workers[w]
        /\ Range(waiting) \intersect {queue.workers[w] : w \in working} = {}
        /\ DOMAIN queue.jobs = Range(waiting) \union {queue.workers[w] : w \in working}
        /\ from_pool # <<>> /\ Head(from_pool).kind = "concluded" =>
               Head(from_pool).worker \in working

\* The queue never has more workers than the hard capacity, counting those
\* being spawned.
CapacityKept == Workforce(queue) <= HardCapacity

Sent(w, kind) == \E i \in DOMAIN from_pool : from_pool[i].kind = kind /\ from_pool[i].worker = w
Asked(w) == \E i \in DOMAIN to_pool : to_pool[i].kind = "start" /\ to_pool[i].worker = w

\* A job that waits is not forgotten: a worker is being spawned for it or works
\* on another; and a job given to a worker is worked on, or on its way there, or
\* on its way back.
NothingForgotten ==
    /\ Unscheduled(queue) # <<>> =>
           queue.spawn_inflight > 0 \/ \E w \in DOMAIN queue.workers : queue.workers[w] # None
    /\ \A w \in DOMAIN queue.workers : queue.workers[w] # None =>
           \/ Asked(w) \/ Sent(w, "rip") \/ Sent(w, "concluded")
           \/ w \in DOMAIN pool.spawned /\ pool.spawned[w] # Idle
    /\ queue.spawn_inflight = pool.spawning
           + Cardinality({i \in DOMAIN to_pool : to_pool[i].kind = "spawn"})
           + Cardinality({i \in DOMAIN from_pool : from_pool[i].kind = "spawned"})
=============================================================================
