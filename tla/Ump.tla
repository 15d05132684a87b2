-------------------------------- MODULE Ump --------------------------------
(***************************************************************************)
(* Upward messages (runtime/parachains/src/ump.rs): candidates put them    *)
(* into a queue per para, and every block dispatches from the queues in    *)
(* turn until its weight is used up.                                       *)
(*                                                                         *)
(* A message is the weight it requires; its size is one, so that the limit *)
(* on the count is that on the total size as well.                         *)
(***************************************************************************)
EXTENDS Integers, FiniteSets, FiniteSetsExt, SequencesExt, Maps

CONSTANTS
    ParaIds,         \* numbers: NeedsDispatch is sorted by them
    Weights,         \* the weights of messages
    ServiceWeight,   \* config.ump_service_total_weight
    FirstFactor,     \* FirstMessageFactorPercent
    MaxIndividual,   \* config.ump_max_individual_weight
    MaxQueueCount,   \* config.max_upward_queue_count
    MaxPerCandidate, \* config.max_upward_message_num_per_candidate
    MaxOverweight,   \* bound: messages stashed as overweight
    Leavers          \* the paras that may be offboarded

\* An absent para is no para; weights and limits are unsigned.
ASSUME UmpAssumption ==
    /\ ParaIds \subseteq Nat \ {0} /\ IsFiniteSet(ParaIds)
    /\ Weights \subseteq Nat
    /\ MaxQueueCount \in Nat /\ MaxPerCandidate \in Nat

VARIABLES
    paras,      \* the registered paras; an id is not used again
    phase,      \* in a block: candidates, then the dispatch
    pending,    \* messages of the candidates pending availability
    queues,     \* RelayDispatchQueues
    sizes,      \* RelayDispatchQueueSize
    needs,      \* NeedsDispatch
    next,       \* NextDispatchRoundStartWith
    overweight, \* Overweight: index to sender
    stashed     \* OverweightCount

vars == <<paras, phase, pending, queues, sizes, needs, next, overweight, stashed>>

None == 0

Init ==
    /\ paras = ParaIds
    /\ phase = "candidates"
    /\ pending = EmptyMap
    /\ queues = EmptyMap
    /\ sizes = EmptyMap
    /\ needs = {}
    /\ next = None
    /\ overweight = EmptyMap
    /\ stashed = 0

-----------------------------------------------------------------------------
(* Candidates.                                                             *)

check_upward_messages(p, ms) ==
    /\ Len(ms) <= MaxPerCandidate
    /\ GetOr(sizes, p, 0) + Len(ms) <= MaxQueueCount

\* A candidate of p with the messages ms is backed.
Back(p, ms) ==
    /\ phase = "candidates"
    /\ p \in paras \ DOMAIN pending
    /\ check_upward_messages(p, ms)
    /\ pending' = Put(pending, p, ms)
    /\ UNCHANGED <<paras, phase, queues, sizes, needs, next, overweight, stashed>>

\* Faulty variant: the cached size is replaced, not increased.
ReceiveCountingAnew(p) ==
    /\ phase = "candidates"
    /\ p \in DOMAIN pending
    /\ pending' = Without(pending, {p})
    /\ LET ms == pending[p]
       IN  IF ms = <<>> THEN UNCHANGED <<queues, sizes, needs>>
           ELSE /\ queues' = Put(queues, p, GetOr(queues, p, <<>>) \o ms)
                /\ sizes' = Put(sizes, p, Len(ms))
                /\ needs' = needs \union {p}
    /\ UNCHANGED <<paras, phase, next, overweight, stashed>>

\* The candidate is included.
receive_upward_messages(p) ==
    /\ phase = "candidates"
    /\ p \in DOMAIN pending
    /\ pending' = Without(pending, {p})
    /\ LET ms == pending[p]
       IN  IF ms = <<>> THEN UNCHANGED <<queues, sizes, needs>>
           ELSE /\ queues' = Put(queues, p, GetOr(queues, p, <<>>) \o ms)
                /\ sizes' = Put(sizes, p, GetOr(sizes, p, 0) + Len(ms))
                /\ needs' = needs \union {p}
    /\ UNCHANGED <<paras, phase, next, overweight, stashed>>

\* The candidate times out or is found invalid.
Dropped(p) ==
    /\ phase = "candidates"
    /\ p \in DOMAIN pending
    /\ pending' = Without(pending, {p})
    /\ UNCHANGED <<paras, phase, queues, sizes, needs, next, overweight, stashed>>

-----------------------------------------------------------------------------
(* process_pending_upward_messages: a loop over a cursor and a cache.      *)

\* The listed para that comes first; NeedsDispatch is kept sorted.
FirstOf(list) == IF list = {} THEN None ELSE Min(list)

\* The one that comes after p, from the front again at the end.
Following(list, p) ==
    LET later == {q \in list : q > p}
    IN  FirstOf(IF later = {} THEN list ELSE later)

\* The cursor starts with `next` if that is listed.
NeedsDispatchCursor ==
    [list |-> needs, at |-> IF next \in needs THEN next ELSE FirstOf(needs),
     cache |-> queues, used |-> 0, over |-> <<>>, stop |-> FALSE]

advance(s) == [s EXCEPT !.at = Following(s.list, @)]

remove(s) == [s EXCEPT !.list = @ \ {s.at}, !.at = Following(s.list \ {s.at}, @)]

max_weight(s) ==
    IF s.used = 0 THEN (ServiceWeight * FirstFactor) \div 100
    ELSE ServiceWeight - s.used

\* Faulty variant: an exhausted para loses its turn.
DispatchOneSkipping(s) ==
    LET p == s.at
        q == GetOr(s.cache, p, <<>>)
        consumed == [s EXCEPT !.cache[p] = Tail(q)]
        After(t) == IF GetOr(t.cache, p, <<>>) = <<>> THEN remove(t) ELSE advance(t)
    IN  IF s.stop \/ p = None \/ s.used >= ServiceWeight THEN [s EXCEPT !.stop = TRUE]
        ELSE CASE q = <<>> -> After(s)
               [] q # <<>> /\ Head(q) <= max_weight(s) ->
                      After([consumed EXCEPT !.used = @ + Head(q)])
               [] q # <<>> /\ Head(q) > max_weight(s) /\ Head(q) > MaxIndividual ->
                      After([consumed EXCEPT !.over = Append(@, p)])
               [] OTHER -> [advance(s) EXCEPT !.stop = TRUE]

\* One turn of the loop.  A message beyond the weight that is left is stashed
\* if it is overweight, and ends the loop otherwise.
DispatchOne(s) ==
    LET p == s.at
        q == GetOr(s.cache, p, <<>>)
        consumed == [s EXCEPT !.cache[p] = Tail(q)]
        After(t) == IF GetOr(t.cache, p, <<>>) = <<>> THEN remove(t) ELSE advance(t)
    IN  IF s.stop \/ p = None \/ s.used >= ServiceWeight THEN [s EXCEPT !.stop = TRUE]
        ELSE CASE q = <<>> -> After(s)
               [] q # <<>> /\ Head(q) <= max_weight(s) ->
                      After([consumed EXCEPT !.used = @ + Head(q)])
               [] q # <<>> /\ Head(q) > max_weight(s) /\ Head(q) > MaxIndividual ->
                      After([consumed EXCEPT !.over = Append(@, p)])
               [] OTHER -> [s EXCEPT !.stop = TRUE]

\* The loop, by the number of its turns.
Dispatch[n \in Nat] == IF n = 0 THEN NeedsDispatchCursor ELSE DispatchOne(Dispatch[n - 1])

\* A turn takes a message or is the last one, as a listed queue has messages and
\* no more than MaxQueueCount of them (SizesExact).
Turns == Cardinality(needs) * MaxQueueCount + 1

process_pending_upward_messages ==
    LET s == Dispatch[Turns]
        left == {p \in DOMAIN s.cache : s.cache[p] # <<>>}
    IN  /\ phase = "candidates"
        /\ queues' = [p \in left |-> s.cache[p]]
        /\ sizes' = [p \in DOMAIN sizes \intersect left |->
                       sizes[p] - (Len(queues[p]) - Len(s.cache[p]))]
        /\ needs' = s.list
        /\ next' = s.at
        /\ overweight' = [i \in DOMAIN overweight \union (stashed..(stashed + Len(s.over) - 1)) |->
                            IF i < stashed THEN overweight[i] ELSE s.over[i - stashed + 1]]
        /\ stashed' = stashed + Len(s.over)
        /\ phase' = "end"
        /\ UNCHANGED <<paras, pending>>

service_overweight(i) ==
    /\ phase = "end"
    /\ i \in DOMAIN overweight
    /\ overweight' = Without(overweight, {i})
    /\ UNCHANGED <<paras, phase, pending, queues, sizes, needs, next, stashed>>

-----------------------------------------------------------------------------
(* The end of a block, and of a session.                                   *)

EndBlock ==
    /\ phase = "end"
    /\ phase' = "candidates"
    /\ UNCHANGED <<paras, pending, queues, sizes, needs, next, overweight, stashed>>

\* NextDispatchRoundStartWith is kept exactly if it names the outgoing para.
clean_ump_after_outgoing(p) ==
    /\ queues' = Without(queues, {p})
    /\ sizes' = Without(sizes, {p})
    /\ needs' = needs \ {p}
    /\ next' = IF next = p THEN next ELSE None

\* The session changes and p is offboarded.
NewSession(p) ==
    /\ p \in paras \intersect Leavers
    /\ phase = "end"
    /\ phase' = "candidates"
    /\ paras' = paras \ {p}
    /\ pending' = EmptyMap
    /\ clean_ump_after_outgoing(p)
    /\ UNCHANGED <<overweight, stashed>>

\* The messages of a candidate; overweight ones up to the bound.
Upward ==
    LET W == {w \in Weights : w <= MaxIndividual \/ stashed < MaxOverweight}
    IN  UNION {[1..n -> W] : n \in 0..MaxPerCandidate}

Next ==
    \/ \E p \in ParaIds :
         \/ \E ms \in Upward : Back(p, ms)
         \/ receive_upward_messages(p)
         \/ Dropped(p)
         \/ NewSession(p)
    \/ process_pending_upward_messages
    \/ \E i \in DOMAIN overweight : service_overweight(i)
    \/ EndBlock

\* Blocks are built, and the inherent of one after the other dispatches: weak
\* fairness of process_pending_upward_messages and of the end of a block, each of
\* which is enabled exactly in its phase.  The inherent of a frozen chain returns
\* before it includes or dispatches anything, so that its blocks are no steps here:
\* the assumption is that the chain is not frozen for ever.
\* That every queue moves also takes a MaxIndividual within the weight that the
\* first message of a dispatch gets.
Fairness == []<>(phase = "candidates") /\ []<>(phase = "end")

Spec == Init /\ [][Next]_vars

LiveSpec == Spec /\ Fairness

-----------------------------------------------------------------------------
(* Properties.                                                             *)

\* Types; and nothing but stashed messages outlives a para (ump.rs,
\* perform_outgoing_para_cleanup).
TypeOK ==
    /\ paras \subseteq ParaIds
    /\ phase \in {"candidates", "end"}
    /\ DOMAIN pending \subseteq paras
    /\ \A p \in DOMAIN queues : p \in paras /\ queues[p] \in Seq(Weights)
    /\ \A p \in DOMAIN sizes : p \in paras /\ sizes[p] \in Nat
    /\ needs \subseteq paras
    /\ next \in ParaIds \union {None}
    /\ DOMAIN overweight \subseteq 0..(stashed - 1)

\* The cached sizes, the list of paras to dispatch and the queues agree, and
\* a queue is within its limit: parachains read the sizes by storage proofs,
\* and check_upward_messages relies on them.
SizesExact ==
    /\ DOMAIN sizes = DOMAIN queues
    /\ needs = DOMAIN queues
    /\ \A p \in DOMAIN queues : sizes[p] = Len(queues[p]) /\ sizes[p] \in 1..MaxQueueCount

Waiting(p) == GetOr(queues, p, <<>>)

-----------------------------------------------------------------------------
(* A claim of the storage's documentation that does not hold: offboarding  *)
(* keeps the cursor exactly if it names the para that leaves.              *)

\* "If `Some(para)`, then `para` must be present in `NeedsDispatch`."
NextIsListed == next # None => next \in needs
=============================================================================
