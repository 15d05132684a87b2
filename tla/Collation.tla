----------------------------- MODULE Collation -----------------------------
(***************************************************************************)
(* The collator protocol and the backing job of one relay parent, which    *)
(* exchange Second, Seconded and Invalid messages through the overseer: a  *)
(* queue in each direction.                                                *)
(***************************************************************************)
EXTENDS Integers, Sequences

CONSTANTS
    Peers, CollatorOf, CollatesFor, Offers, MaxAdvertisements,
    ParaOf, Groups, Me, WrongCollator, Valid, Statements, RelayParent,
    SigningFails, MaxFailures

VARIABLES
    st, notified, advertised,
    job, tasks, signed, misbehaved, failed,
    to_backing, from_backing

OnlyView   == {{RelayParent}}
Assignment == [r \in {RelayParent} |-> ParaOf[CHOOSE c \in DOMAIN ParaOf : TRUE]]

Collators == INSTANCE CollatorProtocol WITH Views <- OnlyView, Assigned <- Assignment
Job       == INSTANCE Backing

vars == <<st, notified, advertised, job, tasks, signed, misbehaved, failed,
          to_backing, from_backing>>

Init == Collators!Init /\ Job!JobInit

Next ==
    \/ Collators!Turn /\ UNCHANGED <<job, tasks, signed, misbehaved, failed>>
    \/ Job!Turn /\ UNCHANGED <<st, notified, advertised>>

Spec == Init /\ [][Next]_vars

-----------------------------------------------------------------------------
(* Properties.                                                             *)

\* The collator that is told its collation was seconded is the one that sent the
\* candidate this node has seconded.
NotifiedRightly ==
    /\ Collators!NotifiedRightly
    /\ \A n \in notified : n[2] = job.seconded

UnderWay(c) ==
    \/ \E i \in DOMAIN to_backing : to_backing[i][2] = c
    \/ \E i \in DOMAIN from_backing : from_backing[i].candidate = c
    \/ c \in DOMAIN tasks /\ tasks[c].kind = "second"

\* The collator protocol waits in vain for an answer on the pending candidate
\* only if validation failed or another validator has proposed it too: the
\* Second message is dropped if the candidate is being attested.
AnswerExpected ==
    \A r \in DOMAIN st.pending :
        LET c == st.pending[r].candidate
        IN  UnderWay(c) \/ c \in failed \/ c \in DOMAIN job.votes

\* Once a candidate is seconded the collator protocol knows or is being told.
SecondedKnown ==
    job.seconded # Job!None =>
        \/ \E r \in DOMAIN st.collations : st.collations[r].status = "seconded"
        \/ \E i \in DOMAIN from_backing : from_backing[i].kind = "seconded"
=============================================================================
