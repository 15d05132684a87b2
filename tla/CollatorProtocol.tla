-------------------------- MODULE CollatorProtocol --------------------------
(***************************************************************************)
(* The validator side of the collator protocol                             *)
(* (node/network/collator-protocol/src/validator_side/mod.rs): collators   *)
(* advertise collations on relay parents of our view, the node fetches     *)
(* them one after the other and hands one to candidate backing.            *)
(*                                                                         *)
(* An action is one branch of the select! loop of run.  A fetch is a       *)
(* future in collation_fetches whose sender is held by its request; so     *)
(* requested stands for the fetches that run and fetched for those whose   *)
(* sender has sent or was dropped.  Reputation and tracing are left out;   *)
(* that a peer is asked to disconnect shows as a disconnection, which the  *)
(* network may report at any time.                                         *)
(***************************************************************************)
EXTENDS Integers, FiniteSets, Sequences, SequencesExt, BagsExt, Maps

CONSTANTS
    Peers,
    CollatorOf,    \* of a peer: the collator it declares itself to be
    CollatesFor,   \* of a peer: the para it declares to collate for
    Offers,        \* of a peer: the candidate it sends when asked
    Views,         \* the views (sets of relay parents) the node may have
    Assigned,      \* of a relay parent: the para our group is assigned to
    MaxAdvertisements

VARIABLES
    st,            \* the State of the subsystem, see Init
    to_backing,    \* Second messages on their way to candidate backing
    from_backing,  \* its answers
    notified,      \* history: what the collators were told was seconded
    advertised     \* history: the number of advertisements taken

vars == <<st, to_backing, from_backing, notified, advertised>>

None == "none"
RelayParents == UNION Views
Canceled == "canceled"

Init ==
    /\ st = [view |-> {}, peers |-> EmptyMap, requested |-> {}, collations |-> EmptyMap,
             pending |-> EmptyMap, fetched |-> EmptyBag, timeouts |-> EmptyBag]
    /\ to_backing = <<>> /\ from_backing = <<>> /\ notified = {} /\ advertised = 0

\* ActiveParas counts the relay parents of the view that a para is assigned to.
is_current(s, para) == \E r \in s.view : Assigned[r] = para

has_advertised(s, r, p) == p \in DOMAIN s.peers /\ r \in s.peers[p].advertisements

-----------------------------------------------------------------------------
(* Fetching.                                                               *)

Fetched(r, p, result) == [relay_parent |-> r, peer |-> p, result |-> result]

\* A timer and a future are pushed in any case.  The sender is dropped at once
\* if nothing is requested.
fetch_collation(s, r, p) ==
    LET timed == [s EXCEPT !.timeouts = BagAdd(@, <<CollatorOf[p], r>>)]
    IN  IF has_advertised(s, r, p) /\ r \in s.view /\ <<r, p>> \notin s.requested
        THEN [timed EXCEPT !.requested = @ \union {<<r, p>>}]
        ELSE [timed EXCEPT !.fetched = BagAdd(@, Fetched(r, p, Canceled))]

\* Requests that are dropped cancel their fetches.
Cancel(s, dropped) ==
    [s EXCEPT !.requested = @ \ dropped,
              !.fetched = @ (+) SetToBag({Fetched(d[1], d[2], Canceled) : d \in dropped})]

\* get_next_collation_to_fetch and the fetch: only the fetch that was last
\* started makes room for the next, which is the last one advertised.  The
\* status is Waiting while the next is fetched.
dequeue_next_collation_and_fetch(s, r, collator) ==
    LET c    == s.collations[r]
        next == IF c.unfetched = <<>> THEN None ELSE Last(c.unfetched)
        with == [s EXCEPT !.collations[r] =
                    [status |-> "waiting",
                     waiting |-> IF next = None THEN None ELSE CollatorOf[next],
                     unfetched |-> IF next = None THEN <<>> ELSE Front(c.unfetched)]]
    IN  CASE r \notin DOMAIN s.collations -> s
          [] r \in DOMAIN s.collations /\ (c.waiting # collator \/ c.status = "seconded") -> s
          [] OTHER -> IF next = None THEN with ELSE fetch_collation(with, r, next)

-----------------------------------------------------------------------------
(* Peers.                                                                  *)

PeerConnected(p) ==
    /\ p \notin DOMAIN st.peers
    /\ st' = [st EXCEPT !.peers =
                Put(@, p, [collating |-> FALSE, view |-> {}, advertisements |-> {}])]
    /\ UNCHANGED <<to_backing, from_backing, notified, advertised>>

\* Its requests stay until they fail.
PeerDisconnected(p) ==
    /\ p \in DOMAIN st.peers
    /\ st' = [st EXCEPT !.peers = Without(@, {p})]
    /\ UNCHANGED <<to_backing, from_backing, notified, advertised>>

Declare(p) ==
    /\ p \in DOMAIN st.peers /\ ~st.peers[p].collating
    /\ ~\E q \in DOMAIN st.peers : st.peers[q].collating /\ CollatorOf[q] = CollatorOf[p]
    /\ is_current(st, CollatesFor[p])
    /\ st' = [st EXCEPT !.peers[p].collating = TRUE]
    /\ UNCHANGED <<to_backing, from_backing, notified, advertised>>

\* A collation is fetched if nothing else is under way.
AdvertiseCollation(p, r) ==
    /\ advertised < MaxAdvertisements
    /\ r \in st.view /\ p \in DOMAIN st.peers /\ st.peers[p].collating
    /\ r \notin st.peers[p].advertisements
    /\ LET known == [st EXCEPT !.peers[p].advertisements = @ \union {r},
                               !.collations = Put(@, r, GetOr(@, r,
                                   [status |-> "waiting", waiting |-> None, unfetched |-> <<>>]))]
           now   == known.collations[r].status
       IN  st' = CASE now \in {"fetching", "validating"} ->
                        [known EXCEPT !.collations[r].unfetched = Append(@, p)]
                   [] now = "waiting" ->
                        fetch_collation([known EXCEPT !.collations[r].status = "fetching",
                                                      !.collations[r].waiting = CollatorOf[p]],
                                        r, p)
                   [] now = "seconded" -> known
    /\ advertised' = advertised + 1
    /\ UNCHANGED <<to_backing, from_backing, notified>>

\* handle_peer_view_change drops the requests that the peer still advertises.
PeerViewChange(p, view) ==
    /\ p \in DOMAIN st.peers /\ view # st.peers[p].view
    /\ LET removed == st.peers[p].view \ view
           seen    == [st EXCEPT !.peers[p].view = view,
                                 !.peers[p].advertisements = @ \ removed]
       IN  st' = Cancel(seen, {q \in seen.requested : q[2] = p /\ has_advertised(seen, q[1], p)})
    /\ UNCHANGED <<to_backing, from_backing, notified, advertised>>

\* Requests, pending candidates and collations of relay parents that leave the
\* view are removed (remove_relay_parent), and advertisements pruned.
OurViewChange(view) ==
    /\ view # st.view
    /\ LET gone == st.view \ view
           kept == Cancel([st EXCEPT !.view = view, !.pending = Without(@, gone),
                                     !.collations = Without(@, gone)],
                          {q \in st.requested : q[1] \in gone})
       IN  st' = [kept EXCEPT !.peers = [p \in DOMAIN @ |->
                    [@[p] EXCEPT !.advertisements = @ \intersect view]]]
    /\ UNCHANGED <<to_backing, from_backing, notified, advertised>>

-----------------------------------------------------------------------------
(* Responses, timers and answers of candidate backing.                     *)

\* poll_requests finds a response: the collation, or an error, a time out or a
\* candidate of another para.
Response(q, result) ==
    /\ q \in st.requested
    /\ st' = [st EXCEPT !.requested = @ \ {q},
                        !.fetched = BagAdd(@, Fetched(q[1], q[2], result))]
    /\ UNCHANGED <<to_backing, from_backing, notified, advertised>>

HasSeconded(r) == r \in DOMAIN st.collations /\ st.collations[r].status = "seconded"

\* Faulty variant of HandsOver: whether another is pending is not asked.
HandsOverAnother(f) == f.result # Canceled /\ ~HasSeconded(f.relay_parent)

\* Backing is asked to second the collation.
HandsOver(f) ==
    f.result # Canceled /\ ~HasSeconded(f.relay_parent) /\ f.relay_parent \notin DOMAIN st.pending

\* handle_collation_fetched_result.  A collation that arrives while another is
\* pending is dropped.
CollationFetched(f) ==
    /\ f \in DOMAIN st.fetched
    /\ LET r        == f.relay_parent
           taken    == [st EXCEPT !.fetched = BagRemove(@, f)]
           waiting  == IF r \in DOMAIN st.collations
                       THEN [taken EXCEPT !.collations[r].status = "validating"] ELSE taken
       IN  /\ st' = CASE f.result = Canceled ->
                            dequeue_next_collation_and_fetch(taken, r, CollatorOf[f.peer])
                      [] f.result # Canceled /\ HasSeconded(r) -> taken
                      [] HandsOver(f) -> [waiting EXCEPT !.pending =
                                      Put(@, r, [peer |-> f.peer, candidate |-> f.result])]
                      [] OTHER -> waiting
           /\ to_backing' = IF HandsOver(f) THEN Append(to_backing, <<r, f.result>>) ELSE to_backing
    /\ UNCHANGED <<from_backing, notified, advertised>>

\* MAX_UNSHARED_DOWNLOAD_TIME after a fetch was started.
FetchTimeout(t) ==
    /\ t \in DOMAIN st.timeouts
    /\ st' = dequeue_next_collation_and_fetch(
                 [st EXCEPT !.timeouts = BagRemove(@, t)], t[2], t[1])
    /\ UNCHANGED <<to_backing, from_backing, notified, advertised>>

Answer(kind, r, c) == [kind |-> kind, relay_parent |-> r, candidate |-> c]

\* Backing has seconded a candidate: the collator of the pending one is told.
Seconded ==
    /\ from_backing # <<>> /\ Head(from_backing).kind = "seconded"
    /\ LET r == Head(from_backing).relay_parent IN
       IF r \in DOMAIN st.pending
       THEN /\ notified' = notified \union {<<st.pending[r].peer, Head(from_backing).candidate>>}
            /\ st' = [st EXCEPT !.pending = Without(@, {r}),
                                !.collations = [x \in DOMAIN @ |->
                                    IF x = r THEN [@[x] EXCEPT !.status = "seconded"] ELSE @[x]]]
       ELSE UNCHANGED <<st, notified>>
    /\ from_backing' = Tail(from_backing)
    /\ UNCHANGED <<to_backing, advertised>>

\* Backing has found a candidate invalid: the next collation is fetched.
Invalid ==
    /\ from_backing # <<>> /\ Head(from_backing).kind = "invalid"
    /\ LET r == Head(from_backing).relay_parent IN
       IF r \in DOMAIN st.pending /\ st.pending[r].candidate = Head(from_backing).candidate
       THEN st' = dequeue_next_collation_and_fetch([st EXCEPT !.pending = Without(@, {r})], r,
                                                   CollatorOf[st.pending[r].peer])
       ELSE UNCHANGED st
    /\ from_backing' = Tail(from_backing)
    /\ UNCHANGED <<to_backing, notified, advertised>>

Turn ==
    \/ \E p \in Peers : PeerConnected(p) \/ PeerDisconnected(p) \/ Declare(p)
    \/ \E p \in Peers, r \in RelayParents : AdvertiseCollation(p, r)
    \/ \E p \in Peers, view \in Views : PeerViewChange(p, view)
    \/ \E view \in Views : OurViewChange(view)
    \/ \E q \in st.requested : \E result \in {Offers[q[2]], Canceled} : Response(q, result)
    \/ \E f \in DOMAIN st.fetched : CollationFetched(f)
    \/ \E t \in DOMAIN st.timeouts : FetchTimeout(t)
    \/ Seconded \/ Invalid

\* Candidate backing, where it is not modelled: it answers once or not at all.
Backing ==
    /\ to_backing # <<>>
    /\ LET m == Head(to_backing) IN
       \E answers \in {<<>>, <<Answer("seconded", m[1], m[2])>>, <<Answer("invalid", m[1], m[2])>>} :
           from_backing' = from_backing \o answers
    /\ to_backing' = Tail(to_backing)
    /\ UNCHANGED <<st, notified, advertised>>

Next == Turn \/ Backing
Spec == Init /\ [][Next]_vars

-----------------------------------------------------------------------------
(* Properties.                                                             *)

TypeOK ==
    /\ st.view \in Views \union {{}} /\ DOMAIN st.peers \subseteq Peers
    /\ \A p \in DOMAIN st.peers : st.peers[p].advertisements \subseteq st.view
    /\ \A r \in DOMAIN st.collations :
           /\ st.collations[r].status \in {"waiting", "fetching", "validating", "seconded"}
           /\ Range(st.collations[r].unfetched) \subseteq Peers
    /\ \A q \in st.requested : q \in RelayParents \X Peers

\* The collations and the running requests are those of the view
\* (remove_relay_parent), and the timer of the fetch that others wait for runs:
\* without it one slow collator would block the others.
FetchesInView ==
    /\ DOMAIN st.collations \subseteq st.view
    /\ \A q \in st.requested : q[1] \in st.view
    /\ \A r \in DOMAIN st.collations :
           LET c == st.collations[r]
           IN  c.status # "seconded" /\ c.waiting # None => <<c.waiting, r>> \in DOMAIN st.timeouts

\* A collator is told that its collation was seconded only if it was: the answer
\* of backing is about the candidate that is pending.
NotifiedRightly == \A n \in notified : Offers[n[1]] = n[2]

\* "If finished one does not match waiting_collation, then we already dequeued
\* another fetch to replace it": while collations are left to fetch and none is
\* seconded, one is being fetched, pending, or waited for until its timer ends.
NotStalled ==
    \A r \in DOMAIN st.collations :
        LET c == st.collations[r]
        IN  c.status # "seconded" /\ c.unfetched # <<>> =>
                \/ c.waiting # None /\ <<c.waiting, r>> \in DOMAIN st.timeouts
                \/ \E q \in st.requested : q[1] = r
                \/ \E f \in DOMAIN st.fetched : f.relay_parent = r
                \/ r \in DOMAIN st.pending
=============================================================================
