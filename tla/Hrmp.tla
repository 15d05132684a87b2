-------------------------------- MODULE Hrmp --------------------------------
(***************************************************************************)
(* Horizontal message passing (runtime/parachains/src/hrmp.rs): requests   *)
(* to open and to close channels between paras, the channels with their    *)
(* deposits, indices and contents, and the watermark up to which each para *)
(* has read.  Notifications go out by the downward queues (Dmp).           *)
(*                                                                         *)
(* A channel is the pair of its sender and its recipient; a message is the *)
(* block it was sent at.  All messages have size one, so that the limits   *)
(* on the count and on the total size are one.  Notifications are alike.   *)
(***************************************************************************)
EXTENDS Integers, FiniteSets, FiniteSetsExt, SequencesExt, Dmp

CONSTANTS
    ParaIds,
    PreOpen,       \* the channels that are open at genesis
    Deposits,      \* the values governance sets both deposits to
    Capacities,    \* proposed channel capacities, within the configured limit
    Parathreads,   \* the paras that are parathreads; they stay that
    MaxChannels,   \* config.hrmp_max_parachain_{in,out}bound_channels
    MaxThreadChannels,  \* config.hrmp_max_parathread_{in,out}bound_channels
    Candidates,    \* whether paras have candidates in this instance
    Leaves,        \* whether paras are offboarded
    RootCalls,     \* the forced calls that governance makes
    MaxBlock,      \* bound: the last block that is built
    CallsPerBlock  \* bound: calls in a block

VARIABLES
    now, session,
    phase,     \* inclusions come before new candidates, and calls after both
    calls,
    lifecycle, \* of a para: Live, Gone or the session it leaves in
    deposit,   \* config.hrmp_sender_deposit and hrmp_recipient_deposit
    pending,   \* candidates pending availability
    dmq,       \* DownwardMessageQueues
    st,        \* the storage of the pallet
    reserved   \* what the pallet has reserved of each para's balance

vars == <<now, session, phase, calls, lifecycle, deposit, pending, dmq, st, reserved>>

Notification == "notification"

Live == -1
Gone == -2

ChannelId == {c \in ParaIds \X ParaIds : c[1] # c[2]}

is_participant(c, p) == p \in {c[1], c[2]}

is_valid_para(p) == lifecycle[p] = Live
Registered(p)    == lifecycle[p] # Gone

channel_num_limit(p) == IF p \in Parathreads THEN MaxThreadChannels ELSE MaxChannels

GenesisStore(d, capacity) ==
    [requests   |-> EmptyMap,  \* HrmpOpenChannelRequests
     list       |-> {},        \* HrmpOpenChannelRequestsList
     open_count |-> EmptyMap,  \* HrmpOpenChannelRequestCount
     accepted   |-> EmptyMap,  \* HrmpAcceptedChannelRequestCount
     closing    |-> {},        \* HrmpCloseChannelRequests and their list
     watermarks |-> EmptyMap,
     channels   |-> [c \in PreOpen |-> [max_capacity |-> capacity, msg_count |-> 0,
                                       sender_deposit |-> d, recipient_deposit |-> d]],
     ingress    |-> [p \in ParaIds |-> {c[1] : c \in {k \in PreOpen : k[2] = p}}],
     egress     |-> [p \in ParaIds |-> {c[2] : c \in {k \in PreOpen : k[1] = p}}],
     contents   |-> EmptyMap,
     digests    |-> [p \in ParaIds |-> <<>>]]

-----------------------------------------------------------------------------
(* Functions of the pallet on its storage s and the reserves r.            *)

\* decrease_open_channel_request_count, decrease_accepted_channel_request_count
Decreased(count, p) ==
    IF GetOr(count, p, 0) <= 1 THEN Without(count, {p})
    ELSE [count EXCEPT ![p] = @ - 1]

\* `unreserve` frees no more than is reserved.
Unreserve(r, p, n) == [r EXCEPT ![p] = IF @ > n THEN @ - n ELSE 0]

\* Faulty variant: the recipient's index is not updated.
CloseForgetsIngress(s, c) ==
    [s EXCEPT !.channels = Without(@, {c}),
              !.contents = Without(@, {c}),
              !.egress[c[1]] = @ \ {c[2]}]

close_hrmp_channel(s, c) ==
    [s EXCEPT !.channels = Without(@, {c}),
              !.contents = Without(@, {c}),
              !.egress[c[1]] = @ \ {c[2]},
              !.ingress[c[2]] = @ \ {c[1]}]

\* The deposits of channel c, which is being closed.
RefundChannel(s, r, c) ==
    IF c \in DOMAIN s.channels
    THEN Unreserve(Unreserve(r, c[1], s.channels[c].sender_deposit),
                   c[2], s.channels[c].recipient_deposit)
    ELSE r

CloseAll(s, C) == FoldSet(LAMBDA c, t : close_hrmp_channel(t, c), s, C)
RefundAll(s, r, C) == FoldSet(LAMBDA c, t : RefundChannel(s, t, c), r, C)

\* The requests in which outgoing paras take part are removed.  Refunded are
\* the senders and, of confirmed requests, the recipients that stay.
clean_open_channel_requests(s, out, d) ==
    LET go == {c \in s.list : \E p \in out : is_participant(c, p)}
        confirmed == {c \in go : s.requests[c].confirmed}
    IN  [store |-> [s EXCEPT !.list = @ \ go,
                             !.requests = Without(@, go),
                             !.accepted = FoldSet(LAMBDA c, t : Decreased(t, c[2]), @, confirmed)],
         refunds |-> {<<c[1], c, s.requests[c].sender_deposit>> : c \in {k \in go : k[1] \notin out}}
                     \union {<<c[2], c, d>> : c \in {k \in confirmed : k[2] \notin out}}]

ChannelsOf(s, p) ==
    {<<q, p>> : q \in s.ingress[p]} \union {<<p, q>> : q \in s.egress[p]}

clean_hrmp_after_outgoing(s, p) ==
    LET t == [s EXCEPT !.open_count = Without(@, {p}),
                       !.accepted = Without(@, {p}),
                       !.ingress[p] = {}, !.egress[p] = {}]
    IN  CloseAll(t, ChannelsOf(s, p))

\* Confirmed requests become channels, if both paras are valid.
process_hrmp_open_channel_requests(s, d, valid) ==
    LET done == {c \in s.list : s.requests[c].confirmed}
        opened == {c \in done : {c[1], c[2]} \subseteq valid}
        New(c) == [max_capacity |-> s.requests[c].max_capacity, msg_count |-> 0,
                   sender_deposit |-> s.requests[c].sender_deposit,
                   recipient_deposit |-> d]
    IN  [s EXCEPT !.channels = [c \in DOMAIN @ \union opened |->
                                  IF c \in opened THEN New(c) ELSE @[c]],
                  !.ingress = [p \in ParaIds |-> @[p] \union {c[1] : c \in {k \in opened : k[2] = p}}],
                  !.egress  = [p \in ParaIds |-> @[p] \union {c[2] : c \in {k \in opened : k[1] = p}}],
                  !.open_count = FoldSet(LAMBDA c, t : Decreased(t, c[1]), @, done),
                  !.accepted = FoldSet(LAMBDA c, t : Decreased(t, c[2]), @, done),
                  !.requests = Without(@, done),
                  !.list = @ \ done]

process_hrmp_close_channel_requests(s) ==
    CloseAll([s EXCEPT !.closing = {}], s.closing)

-----------------------------------------------------------------------------
(* Messages.                                                               *)

\* The watermark w of a candidate of p built on block r.
check_hrmp_watermark(p, r, w) ==
    /\ p \in DOMAIN st.watermarks => w > st.watermarks[p]
    /\ w <= r
    /\ w = r \/ \E i \in DOMAIN st.digests[p] : st.digests[p][i].block = w

\* Whether a candidate of p may send a message to each para of `out`.
check_outbound_hrmp(p, out) ==
    \A q \in out :
        /\ <<p, q>> \in DOMAIN st.channels
        /\ st.channels[<<p, q>>].msg_count + 1 <= st.channels[<<p, q>>].max_capacity

PruneChannel(s, c, w) ==
    LET old == GetOr(s.contents, c, <<>>)
        new == SelectSeq(old, LAMBDA m : m > w)
    IN  [s EXCEPT !.contents = IF new = <<>> THEN Without(@, {c}) ELSE Put(@, c, new),
                  !.channels = IF c \in DOMAIN @
                               THEN [@ EXCEPT ![c].msg_count = @ - (Len(old) - Len(new))]
                               ELSE @]

prune_hrmp(s, p, w) ==
    LET senders == UNION {s.digests[p][i].senders :
                            i \in {j \in DOMAIN s.digests[p] : s.digests[p][j].block <= w}}
        t == [s EXCEPT !.digests[p] = SelectSeq(@, LAMBDA e : e.block > w),
                       !.watermarks = Put(@, p, w)]
    IN  FoldSet(LAMBDA q, u : PruneChannel(u, <<q, p>>, w), t, senders)

\* The digest of a recipient after one more message from p in block n.
Digested(digest, p, n) ==
    LET k == Len(digest)
    IN  IF k > 0 /\ digest[k].block = n
        THEN [digest EXCEPT ![k].senders = @ \union {p}]
        ELSE Append(digest, [block |-> n, senders |-> {p}])

\* A channel that has gone since the candidate was backed is skipped.
queue_outbound_hrmp(s, p, out) ==
    LET Queue(t, q) ==
          [t EXCEPT !.channels[<<p, q>>].msg_count = @ + 1,
                    !.contents = Put(@, <<p, q>>, Append(GetOr(@, <<p, q>>, <<>>), now)),
                    !.digests[q] = Digested(@, p, now)]
    IN  FoldSet(LAMBDA q, t : Queue(t, q), s,
                {q \in out : <<p, q>> \in DOMAIN s.channels})

-----------------------------------------------------------------------------
(* Behaviour.                                                              *)

Init ==
    /\ now = 1 /\ session = 0
    /\ phase = "include" /\ calls = 0
    /\ lifecycle = [p \in ParaIds |-> Live]
    /\ deposit \in Deposits
    /\ pending = EmptyMap
    /\ dmq = [p \in {c[1] : c \in PreOpen} \union {c[2] : c \in PreOpen} |->
                [i \in 1..Cardinality({c \in PreOpen : is_participant(c, p)}) |-> Notification]]
    /\ \E k \in Capacities : st = GenesisStore(deposit, k)
    /\ reserved = [p \in ParaIds |->
                     deposit * Cardinality({c \in PreOpen : is_participant(c, p)})]

\* A candidate that was backed in an earlier block is included.
Enact(p) ==
    /\ phase = "include"
    /\ p \in DOMAIN pending
    /\ pending[p].relay_parent < now - 1
    /\ dmq' = prune_dmq(dmq, p, pending[p].processed)
    /\ st' = queue_outbound_hrmp(prune_hrmp(st, p, pending[p].watermark), p, pending[p].out)
    /\ pending' = Without(pending, {p})
    /\ UNCHANGED <<now, session, phase, calls, lifecycle, deposit, reserved>>

\* A candidate of p, built on the parent block, passes the checks.
Back(p, w, processed, out) ==
    /\ Candidates
    /\ phase \in {"include", "back"}
    /\ Registered(p)
    /\ p \notin DOMAIN pending
    /\ check_processed_downward_messages(dmq, p, processed)
    /\ check_hrmp_watermark(p, now - 1, w)
    /\ check_outbound_hrmp(p, out)
    /\ pending' = Put(pending, p, [relay_parent |-> now - 1, watermark |-> w,
                                   processed |-> processed, out |-> out])
    /\ phase' = "back"
    /\ UNCHANGED <<now, session, calls, lifecycle, deposit, dmq, st, reserved>>

Called ==
    /\ calls < CallsPerBlock
    /\ calls' = calls + 1
    /\ phase' = "calls"
    /\ UNCHANGED <<now, session, deposit, pending>>

hrmp_init_open_channel(p, q, capacity) ==
    /\ Called
    /\ Registered(p) /\ p # q /\ is_valid_para(q)
    /\ <<p, q>> \notin DOMAIN st.requests \union DOMAIN st.channels
    /\ Cardinality(st.egress[p]) + GetOr(st.open_count, p, 0) < channel_num_limit(p)
    /\ reserved' = [reserved EXCEPT ![p] = @ + deposit]
    /\ st' = [st EXCEPT !.open_count = Put(@, p, GetOr(@, p, 0) + 1),
                        !.requests = Put(@, <<p, q>>, [confirmed |-> FALSE,
                                                       sender_deposit |-> deposit,
                                                       max_capacity |-> capacity]),
                        !.list = @ \union {<<p, q>>}]
    /\ dmq' = queue_downward_message(dmq, q, Notification)
    /\ UNCHANGED lifecycle

hrmp_accept_open_channel(q, p) ==
    /\ Called
    /\ Registered(q)
    /\ <<p, q>> \in DOMAIN st.requests
    /\ ~st.requests[<<p, q>>].confirmed
    /\ Cardinality(st.ingress[q]) + GetOr(st.accepted, q, 0) < channel_num_limit(q)
    /\ reserved' = [reserved EXCEPT ![q] = @ + deposit]
    /\ st' = [st EXCEPT !.requests[<<p, q>>].confirmed = TRUE,
                        !.accepted = Put(@, q, GetOr(@, q, 0) + 1)]
    /\ dmq' = queue_downward_message(dmq, p, Notification)
    /\ UNCHANGED lifecycle

hrmp_cancel_open_request(p, c) ==
    /\ Called
    /\ Registered(p) /\ is_participant(c, p)
    /\ c \in DOMAIN st.requests
    /\ ~st.requests[c].confirmed
    /\ reserved' = Unreserve(reserved, c[1], st.requests[c].sender_deposit)
    /\ st' = [st EXCEPT !.requests = Without(@, {c}),
                        !.list = @ \ {c},
                        !.open_count = Decreased(@, c[1])]
    /\ UNCHANGED <<dmq, lifecycle>>

hrmp_close_channel(p, c) ==
    /\ Called
    /\ Registered(p) /\ is_participant(c, p)
    /\ c \in DOMAIN st.channels
    /\ c \notin st.closing
    /\ st' = [st EXCEPT !.closing = @ \union {c}]
    /\ dmq' = queue_downward_message(dmq, IF p = c[1] THEN c[2] ELSE c[1], Notification)
    /\ UNCHANGED <<lifecycle, reserved>>

force_process_hrmp_open ==
    /\ "open" \in RootCalls
    /\ Called
    /\ st' = process_hrmp_open_channel_requests(st, deposit, {p \in ParaIds : is_valid_para(p)})
    /\ UNCHANGED <<dmq, lifecycle, reserved>>

force_process_hrmp_close ==
    /\ "close" \in RootCalls
    /\ Called
    /\ st' = process_hrmp_close_channel_requests(st)
    /\ reserved' = RefundAll(st, reserved, st.closing)
    /\ UNCHANGED <<dmq, lifecycle>>

force_clean_hrmp(p) ==
    /\ "clean" \in RootCalls
    /\ Called
    /\ st' = clean_hrmp_after_outgoing(st, p)
    /\ reserved' = RefundAll(st, reserved, ChannelsOf(st, p))
    /\ UNCHANGED <<dmq, lifecycle>>

\* The para is scheduled for cleanup (paras, schedule_para_cleanup).
schedule_para_cleanup(p) ==
    /\ Leaves
    /\ Called
    /\ is_valid_para(p)
    /\ lifecycle' = [lifecycle EXCEPT ![p] = session + 2]
    /\ UNCHANGED <<dmq, st, reserved>>

NextBlock ==
    /\ now < MaxBlock
    /\ now' = now + 1
    /\ phase' = "include"
    /\ calls' = 0

EndBlock ==
    /\ NextBlock
    /\ UNCHANGED <<session, lifecycle, deposit, pending, dmq, st, reserved>>

\* A session change with the deposit d from then on; paras in `back` have
\* been registered anew.  The pallet works with the deposit of before.
NewSession(d, back) ==
    LET out == {p \in ParaIds : lifecycle[p] = session + 1}
        valid == {p \in ParaIds : is_valid_para(p)} \union back
        cleaned == clean_open_channel_requests(st, out, deposit)
        outgoing == FoldSet(LAMBDA p, s : clean_hrmp_after_outgoing(s, p), cleaned.store, out)
        opened == process_hrmp_open_channel_requests(outgoing, deposit, valid)
        refunded == FoldSet(LAMBDA f, r : Unreserve(r, f[1], f[3]), reserved, cleaned.refunds)
    IN  /\ NextBlock
        /\ back \subseteq {p \in ParaIds : lifecycle[p] = Gone}
        /\ session' = session + 1
        /\ lifecycle' = [p \in ParaIds |-> IF p \in out THEN Gone
                                           ELSE IF p \in back THEN Live ELSE lifecycle[p]]
        /\ deposit' = d
        /\ pending' = EmptyMap
        /\ dmq' = perform_outgoing_para_cleanup(dmq, out)
        /\ st' = process_hrmp_close_channel_requests(opened)
        /\ reserved' = RefundAll(opened,
                           RefundAll(st, refunded, UNION {ChannelsOf(st, p) : p \in out}),
                           opened.closing)

BoundReached ==
    /\ now = MaxBlock
    /\ UNCHANGED vars

\* Bound: candidates process all of their downward messages.
Watermarks(p) == {now - 1} \union {st.digests[p][i].block : i \in DOMAIN st.digests[p]}

Next ==
    \/ \E p \in ParaIds :
         \/ Enact(p)
         \/ \E w \in Watermarks(p), out \in SUBSET (ParaIds \ {p}) :
              Back(p, w, dmq_length(dmq, p), out)
         \/ \E q \in ParaIds, k \in Capacities : hrmp_init_open_channel(p, q, k)
         \/ \E q \in ParaIds : hrmp_accept_open_channel(p, q)
         \/ \E c \in ChannelId : hrmp_cancel_open_request(p, c)
         \/ \E c \in ChannelId : hrmp_close_channel(p, c)
         \/ force_clean_hrmp(p)
         \/ schedule_para_cleanup(p)
    \/ force_process_hrmp_open
    \/ force_process_hrmp_close
    \/ EndBlock
    \/ \E d \in Deposits, back \in SUBSET ParaIds : NewSession(d, back)
    \/ BoundReached

Spec == Init /\ [][Next]_vars

-----------------------------------------------------------------------------
(* Properties.                                                             *)

MapOn(f, K, V) == DOMAIN f \subseteq K /\ \A k \in DOMAIN f : f[k] \in V

TypeOK ==
    /\ now \in Nat /\ session \in Nat
    /\ lifecycle \in [ParaIds -> Nat \union {Live, Gone}]
    /\ reserved \in [ParaIds -> Nat]
    /\ MapOn(st.requests, ChannelId, [confirmed : BOOLEAN, sender_deposit : Deposits,
                                      max_capacity : Capacities])
    /\ MapOn(st.channels, ChannelId, [max_capacity : Capacities, msg_count : Nat,
                                      sender_deposit : Deposits, recipient_deposit : Deposits])
    /\ MapOn(st.open_count, ParaIds, Nat) /\ MapOn(st.accepted, ParaIds, Nat)
    /\ MapOn(st.contents, ChannelId, Seq(Nat))
    /\ st.closing \subseteq ChannelId
    /\ DOMAIN dmq \subseteq ParaIds

\* The ingress and the egress index name exactly the channels that exist,
\* between registered paras, and the list of requests exactly the requests
\* (assert_storage_consistency_exhaustive).
IndicesExact ==
    /\ st.list = DOMAIN st.requests
    /\ \A c \in ChannelId :
        /\ c \in DOMAIN st.channels <=> c[2] \in st.egress[c[1]]
        /\ c \in DOMAIN st.channels <=> c[1] \in st.ingress[c[2]]
        /\ c \in DOMAIN st.channels => Registered(c[1]) /\ Registered(c[2])

\* A channel's count is that of its messages, within the capacity that was
\* agreed; there are no messages without a channel (check_outbound_hrmp runs
\* blocks before queue_outbound_hrmp).
CapacityKept ==
    /\ DOMAIN st.contents \subseteq DOMAIN st.channels
    /\ \A c \in DOMAIN st.channels :
        /\ st.channels[c].msg_count = Len(GetOr(st.contents, c, <<>>))
        /\ st.channels[c].msg_count <= st.channels[c].max_capacity

\* What is left in a channel is unread, above the recipient's watermark, and
\* the digest names its sender: so the watermark that passes it will prune it.
ContentsAboveWatermark ==
    \A c \in DOMAIN st.contents : \A i \in DOMAIN st.contents[c] :
        /\ st.contents[c][i] > GetOr(st.watermarks, c[2], 0)
        /\ \E k \in DOMAIN st.digests[c[2]] :
              /\ st.digests[c[2]][k].block = st.contents[c][i]
              /\ c[1] \in st.digests[c[2]][k].senders

RequestsFrom(p)  == {c \in DOMAIN st.requests : c[1] = p}
ConfirmedBy(p)   == {c \in DOMAIN st.requests : c[2] = p /\ st.requests[c].confirmed}

\* No para has more channels, open or on their way, than configured, whatever
\* requests, cancellations, offboardings and session changes come between.
LimitsKept ==
    \A p \in ParaIds :
        /\ Cardinality(st.egress[p]) + Cardinality(RequestsFrom(p)) <= channel_num_limit(p)
        /\ Cardinality(st.ingress[p]) + Cardinality(ConfirmedBy(p)) <= channel_num_limit(p)
        /\ GetOr(st.accepted, p, 0) = Cardinality(ConfirmedBy(p))

Sum(f, S) == FoldSet(LAMBDA c, n : n + f[c], 0, S)

Owed(p) ==
    LET SentBy == {c \in DOMAIN st.channels : c[1] = p}
        ReceivedBy == {c \in DOMAIN st.channels : c[2] = p}
    IN  Sum([c \in RequestsFrom(p) |-> st.requests[c].sender_deposit], RequestsFrom(p))
        + Cardinality(ConfirmedBy(p)) * deposit
        + Sum([c \in SentBy |-> st.channels[c].sender_deposit], SentBy)
        + Sum([c \in ReceivedBy |-> st.channels[c].recipient_deposit], ReceivedBy)

\* The deposits that are recorded are reserved, although governance changes
\* the amount while requests are open; and nothing else is, as long as no
\* para leaves.
DepositsHeld ==
    \A p \in ParaIds :
        /\ reserved[p] >= Owed(p)
        /\ ~Leaves => reserved[p] = Owed(p)

\* "HrmpOpenChannelRequests should contain the same number of items that has
\* (X, _) as the number of HrmpOpenChannelRequestCount for X."
OpenCountExact ==
    \A p \in ParaIds : GetOr(st.open_count, p, 0) = Cardinality(RequestsFrom(p))
=============================================================================
