-------------------------------- MODULE Dmp --------------------------------
(***************************************************************************)
(* The downward message queues (runtime/parachains/src/dmp.rs), as         *)
(* functions on the map `dmq` from paras to the sequence of messages that  *)
(* wait for them; a para without an entry has an empty queue.  Sizes are   *)
(* left out; the hash chain over the messages is modelled where a para     *)
(* verifies it (ParachainSystem).                                          *)
(***************************************************************************)
EXTENDS Integers, Sequences, Maps

dmq_contents(dmq, p) == GetOr(dmq, p, <<>>)

dmq_length(dmq, p) == Len(dmq_contents(dmq, p))

queue_downward_message(dmq, p, m) == Put(dmq, p, Append(dmq_contents(dmq, p), m))

\* A candidate makes progress on a queue that is not empty, and does not
\* process messages that are not there.
check_processed_downward_messages(dmq, p, processed) ==
    /\ dmq_length(dmq, p) > 0 => processed > 0
    /\ processed <= dmq_length(dmq, p)

prune_dmq(dmq, p, processed) ==
    Put(dmq, p, SubSeq(dmq_contents(dmq, p), processed + 1, dmq_length(dmq, p)))

perform_outgoing_para_cleanup(dmq, outgoing) == Without(dmq, outgoing)
=============================================================================
