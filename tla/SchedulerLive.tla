--------------------------- MODULE SchedulerLive ---------------------------
(***************************************************************************)
(* Liveness of the core scheduler.  `freed` is an auxiliary variable: the  *)
(* cores the last inherent found free when it came to schedule.  Fairness  *)
(* speaks of it.                                                           *)
(***************************************************************************)
EXTENDS Scheduler

VARIABLE freed

CoreIds == UNION {0 .. n_cores(ses) - 1 : ses \in Sessions}

LiveInit == Init /\ freed = {}

LiveEnter ==
    \E disputed \in SUBSET OccupiedCores :
        \E timed_out \in Freed(OccupiedCores \ disputed) :
            /\ Enter(disputed, timed_out)
            /\ freed' = (CoreIds \ OccupiedCores) \union disputed
                            \union DOMAIN timed_out

LiveNext ==
    \/ LiveEnter
    \/ EnterFrozen /\ freed' = {}
    \/ (\E p \in ParaIds : AddParathreadClaim(p)) /\ UNCHANGED freed
    \/ EndBlock /\ UNCHANGED freed
    \/ (\E ses \in Sessions : NewSession(ses)) /\ UNCHANGED freed

\* Blocks keep being built.
BlockStep == phase' \in {"enter", "calls"} \ {phase}

\* An inherent that finds core k free.  It can run whenever an inherent can,
\* as the sessions of this module all have multiplexer cores.
Frees(k) ==
    /\ phase = "enter"
    /\ phase' = "calls"
    /\ freed' \in {S \in SUBSET CoreIds : k \in S}

\* The chain is not frozen for ever, and every occupied core is freed again
\* and again: the availability timeout sees to it in the first blocks of
\* every group rotation.
Fairness ==
    /\ WF_phase(BlockStep)
    /\ \A k \in CoreIds : SF_<<phase, freed>>(Frees(k))

LiveSpec == LiveInit /\ [][LiveNext]_<<vars, freed>> /\ Fairness

\* Every queued claim eventually leaves the queue, however often its core is
\* lost to a longer queue, a retry, a timeout or a session's rebalancing.
ClaimServed ==
    \A p \in ParaIds : QueuedAt(store, p) # {} ~> QueuedAt(store, p) = {}
=============================================================================
