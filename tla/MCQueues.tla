------------------------------ MODULE MCQueues ------------------------------
(***************************************************************************)
(* Small instances of the two queues whose service is a matter of          *)
(* liveness: upward messages of two paras, with one abstract queue for     *)
(* each, and claims of two parathreads on cores. The variable instance     *)
(* tells which one runs; the variables of the other keep their values.     *)
(***************************************************************************)
EXTENDS Ump

VARIABLES instance,
          session, age, stage, store, freed    \* of the scheduler

First == INSTANCE Fifo WITH Messages <- Weights, queue <- Waiting(1)
Second == INSTANCE Fifo WITH Messages <- Weights, queue <- Waiting(2)

Session(cores, lookahead) ==
    [config |-> [parathread_cores |-> cores, parathread_retries |-> 1,
                 scheduling_lookahead |-> lookahead,
                 group_rotation_frequency |-> 1,
                 max_validators_per_core |-> 0],
     parachains |-> <<>>, parathreads |-> {"t", "u"}, n_validators |-> 2]

Threads2 == {"t", "u"}

\* Two parathreads rebalanced between one and two cores, always with
\* validators.
ServingSessions == {Session(2, 1), Session(1, 2)}

Claims == INSTANCE SchedulerLive WITH
    ParaIds <- Threads2, Sessions <- ServingSessions, MaxSessionAge <- 2, phase <- stage

claimvars == <<session, age, stage, store, freed>>

MCInit ==
    /\ instance \in {"messages", "claims"}
    /\ Init /\ Claims!LiveInit
    /\ instance = "messages" => session = Session(2, 1)

MCNext ==
    /\ UNCHANGED instance
    /\ \/ instance = "messages" /\ Next /\ UNCHANGED claimvars
       \/ instance = "claims" /\ Claims!LiveNext /\ UNCHANGED vars

MCSpec ==
    /\ MCInit /\ [][MCNext]_<<instance, vars, claimvars>>
    /\ instance = "messages" => Fairness
    /\ instance = "claims" => Claims!Fairness

-----------------------------------------------------------------------------
\* The queue of every para is a Fifo: dispatched from the front, in order,
\* never lost or repeated, and always served, however the others fill theirs
\* (process_pending_upward_messages, ump.rs).
DeliversFifo == First!Spec /\ Second!Spec

\* Every queued claim eventually leaves the queue, however often its core is
\* lost to a longer queue, a retry, a timeout or a session's rebalancing
\* (schedule, clear and the session change, scheduler.rs).
ClaimServed == Claims!ClaimServed
=============================================================================
