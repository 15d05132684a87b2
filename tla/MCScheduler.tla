---------------------------- MODULE MCScheduler ----------------------------
(***************************************************************************)
(* Small instances of Scheduler: a parachain and three parathreads, one of *)
(* which a session may turn into a parachain.                              *)
(***************************************************************************)
EXTENDS Scheduler

Cfg(cores, retries, lookahead, max_per_core) ==
    [parathread_cores |-> cores, parathread_retries |-> retries,
     scheduling_lookahead |-> lookahead, group_rotation_frequency |-> 1,
     max_validators_per_core |-> max_per_core]

Session(cfg, chains, threads, n) ==
    [config |-> cfg, parachains |-> chains, parathreads |-> threads,
     n_validators |-> n]

Paras4 == {"c", "t", "u", "v"}

\* Multiplexer cores always configured; their number, the retry limit, the
\* number of cores, of validators and the lifecycle of t change.
SteadySessions ==
    {Session(Cfg(2, 1, 1, 0), <<"c">>, {"t", "u", "v"}, 4),
     Session(Cfg(1, 1, 2, 1), <<"c", "t">>, {"u", "v"}, 4),
     Session(Cfg(1, 0, 2, 0), <<>>, {"t", "u"}, 0)}

\* Governance may remove every multiplexer core and add one again.
WithdrawnSessions ==
    {Session(Cfg(1, 1, 1, 0), <<>>, {"t"}, 1),
     Session(Cfg(0, 1, 1, 0), <<>>, {"t"}, 1)}
=============================================================================
