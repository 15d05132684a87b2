----------------------- MODULE StatementDistribution -----------------------
(***************************************************************************)
(* Gossip of backing statements between the nodes of validators            *)
(* (node/network/statement-distribution), every node running the code of   *)
(* the subsystem.                                                          *)
(*                                                                         *)
(* A statement is its kind, its candidate and who signed it. Two nodes     *)
(* that are connected have a queue in each direction; what the network     *)
(* bridge tells a node of a peer (connection, view) travels in it too. The *)
(* Seconded statement of a candidate in Large is sent as its metadata, and *)
(* the receiver fetches the candidate by a request (external: the request  *)
(* is answered or fails in one step).                                      *)
(*                                                                         *)
(* What the code counts is derived: the candidates a head or a peer knows  *)
(* and the numbers of statements per validator and per candidate are those *)
(* of the recorded statements.                                             *)
(***************************************************************************)
EXTENDS Integers, FiniteSets, Sequences, SequencesExt, Maps, Gossip

CONSTANTS
    HeadOf,         \* candidate -> its relay parent
    SecondedBy,     \* candidate -> the validators that may second it
    ValidBy,        \* candidate -> the validators that may find it valid
    Large,          \* candidates with a large Seconded statement
    Group,          \* node -> the validators of its group
    MaxLarge,       \* MAX_LARGE_STATEMENTS_PER_SENDER
    MaxViews,       \* bound: changes of the active leaves of a node
    MaxDisconnects, \* bound: lost connections
    MaxFailures     \* bound: requests lost by the network

VARIABLES
    node,           \* node -> the state of its subsystem
    up,             \* the links <<from, to>> of open connections
    chan,           \* <<from, to>> -> events on their way
    charged,        \* pairs <<n, p>>: n has lowered the reputation of p
    disconnects,
    failures

vars == <<node, up, chan, charged, disconnects, failures>>

Candidates == DOMAIN HeadOf
Heads      == {HeadOf[c] : c \in Candidates}
SignedStatements == [kind : {"Seconded", "Valid"}, cand : Candidates, by : Nodes]
VC_THRESHOLD == 2

IsLarge(s) == s.kind = "Seconded" /\ s.cand \in Large

NoKnowledge == [sent |-> {}, received |-> {}, large |-> 0]
NewPeer     == [view |-> {}, knowledge |-> EmptyMap]
NewHead     == [statements |-> <<>>, waiting |-> EmptyMap]
Fetched     == [status |-> "fetched"]

-----------------------------------------------------------------------------
(* What a peer knows of a relay parent: PeerRelayParentKnowledge.          *)

CandidatesOf(S)    == {s.cand : s \in S}
Seconded(S)        == {s \in S : s.kind = "Seconded"}
SecondedFrom(S, v) == {s \in Seconded(S) : s.by = v}

KnowsCandidate(k, c) == c \in CandidatesOf(Seconded(k.sent)) \union CandidatesOf(k.received)

CanSendTo(k, s) ==
    /\ s \notin k.sent \union k.received
    /\ s.kind = "Valid" => KnowsCandidate(k, s.cand)

CanReceiveFrom(k, s) ==
    /\ s \notin k.received
    /\ IF s.kind = "Seconded"
       THEN Cardinality(SecondedFrom(k.received, s.by)) < VC_THRESHOLD
       ELSE KnowsCandidate(k, s.cand)
    /\ Cardinality({r \in k.received : r.cand = s.cand}) < 2 * Cardinality(Nodes)

(* A node w is [heads, peers, gossip, finished, replay, views], and while  *)
(* it takes a turn the events it sends to each peer, in out.               *)
CanSend(w, p, s) ==
    LET know == w.peers[p].knowledge IN HeadOf[s.cand] \in DOMAIN know /\ CanSendTo(know[HeadOf[s.cand]], s)

\* send, and the message to the bridge.
Send(w, p, s) ==
    [w EXCEPT !.peers[p].knowledge[HeadOf[s.cand]].sent = @ \union {s},
              !.out[p] = Append(@, Message(s))]

\* send_statements, and send_statements_about with the statements of a candidate.
SendStatements(w, p, statements) ==
    FoldLeft(LAMBDA v, s : IF CanSend(v, p, s) THEN Send(v, p, s) ELSE v, w, statements)

About(w, c) == SelectSeq(w.heads[HeadOf[c]].statements, LAMBDA s : s.cand = c)

-----------------------------------------------------------------------------
(* The statements of an active head: ActiveHeadData.                       *)

Stored(w, h) == Range(w.heads[h].statements)

\* check_useful_or_unknown and note_statement.
Useful(w, s) ==
    LET stored == Stored(w, HeadOf[s.cand])
    IN  IF s.kind = "Seconded" THEN Cardinality(SecondedFrom(stored, s.by)) < VC_THRESHOLD
                               ELSE s.cand \in CandidatesOf(Seconded(stored))
Fresh(w, s) == Useful(w, s) /\ s \notin Stored(w, HeadOf[s.cand])
Store(w, s) == [w EXCEPT !.heads[HeadOf[s.cand]].statements = Append(@, s)]

\* The peers that circulate_statement sends to: the priority peers, then gossip
\* peers, then others up to MIN_GOSSIP_PEERS.
Truncations(gossip, S, n) ==
    {T \in SUBSET S : /\ Cardinality(T) = Least(n, Cardinality(S))
                      /\ T \ gossip # {} => S \intersect gossip \subseteq T}
Recipients(w, s, priority) ==
    LET good  == {p \in DOMAIN w.peers : CanSend(w, p, s)}
        first == priority \intersect good
        needed(T) == (IF Cardinality(T) > MinGossip THEN Cardinality(T) ELSE MinGossip)
                     - Cardinality(first)
    IN  UNION {IF needed(T) > 0 THEN {first \union U : U \in Truncations(w.gossip, T, needed(T))}
                                ELSE {first}
               : T \in Subsets(w.gossip, good \ first)}

\* circulate_statement: to the peers of S.
circulate_statement(w, s, S) ==
    [w EXCEPT !.peers = [p \in DOMAIN @ |-> IF p \in S THEN Send(w, p, s).peers[p] ELSE @[p]],
              !.out   = [p \in Nodes |-> IF p \in S THEN Append(@[p], Message(s)) ELSE @[p]]]

\* The peers of S that learn of the candidate by this statement.
Learners(w, s, S) ==
    {p \in S : /\ s.kind = "Seconded"
               /\ s.cand \notin CandidatesOf(Seconded(w.peers[p].knowledge[HeadOf[s.cand]].sent))}

\* circulate_statement_and_dependents, for a statement that is fresh.
CirculateWithDependents(w, s, S) ==
    LET noted == Store(w, s)
        after == circulate_statement(noted, s, S)
        to(p) == SendStatements(after, p, About(noted, s.cand))
    IN  [after EXCEPT
            !.peers = [p \in DOMAIN @ |-> IF p \in Learners(w, s, S) THEN to(p).peers[p] ELSE @[p]],
            !.out   = [p \in Nodes |-> IF p \in Learners(w, s, S) THEN to(p).out[p] ELSE @[p]]]

-----------------------------------------------------------------------------
(* An incoming statement.                                                  *)

\* retrieve_statement_from_message: whether it goes on with the message now, and
\* the node after a fetch was launched or the message kept for its end.
Immediate(w, s) ==
    LET waiting == w.heads[HeadOf[s.cand]].waiting
    IN  \/ s.kind = "Seconded" /\ ~IsLarge(s)
        \/ s.cand \in DOMAIN waiting /\ waiting[s.cand].status = "fetched"
        \/ s.cand \notin DOMAIN waiting /\ ~IsLarge(s)

NewPeerOf(f, p)  == \A i \in DOMAIN f.available : f.available[i][1] # p
Launched(p, s) ==
    [status |-> "fetching", available |-> <<<<p, <<s>>>>>>, to_try |-> <<>>,
     new |-> <<p>>, tried |-> <<>>, done |-> FALSE]
KeptFor(f, p, s) ==
    IF NewPeerOf(f, p)
    THEN [f EXCEPT !.available = Append(@, <<p, <<s>>>>),
                   !.to_try = IF IsLarge(s) THEN Append(@, p) ELSE @]
    ELSE [f EXCEPT !.available =
             [i \in DOMAIN @ |-> IF @[i][1] = p THEN <<p, Append(@[i][2], s)>> ELSE @[i]]]

Retrieve(w, p, s) ==
    [w EXCEPT !.heads[HeadOf[s.cand]].waiting =
        Put(@, s.cand, IF s.cand \in DOMAIN @ THEN KeptFor(@[s.cand], p, s) ELSE Launched(p, s))]

\* receive_large_statement: counts what is allowed.
CountLarge(w, p, s) ==
    IF IsLarge(s) THEN [w EXCEPT !.peers[p].knowledge[HeadOf[s.cand]].large = @ + 1] ELSE w

\* The checks that cost the peer reputation.
Acceptable(w, p, s) ==
    LET h    == HeadOf[s.cand]
        know == w.peers[p].knowledge
    IN  /\ h \in DOMAIN w.heads
        /\ h \in DOMAIN know
        /\ IsLarge(s) => know[h].large < MaxLarge
        /\ CanReceiveFrom(know[h], s)

\* A refused large statement is counted if only the last check refuses it.
Counted(w, p, s) ==
    LET h    == HeadOf[s.cand]
        know == w.peers[p].knowledge
    IN  h \in DOMAIN w.heads /\ h \in DOMAIN know /\ know[h].large < MaxLarge

\* receive, the statements the peer can now take, and note_statement.
Accept(w, p, s) ==
    LET h        == HeadOf[s.cand]
        learns   == s.cand \notin CandidatesOf(w.peers[p].knowledge[h].received)
        received == [w EXCEPT !.peers[p].knowledge[h].received = @ \union {s}]
    IN  Store(IF learns THEN SendStatements(received, p, About(w, s.cand)) ELSE received, s)

\* handle_incoming_message_and_circulate, from peer p, with the peers it is
\* circulated to: <<the node after it, whether p is charged>>.
Incoming(w, p, s) ==
    IF p \notin DOMAIN w.peers
    THEN {<<w, FALSE>>}
    ELSE IF ~Acceptable(w, p, s)
    THEN {<<IF Counted(w, p, s) THEN CountLarge(w, p, s) ELSE w, TRUE>>}
    ELSE LET counted == CountLarge(w, p, s)
         IN  IF ~Immediate(w, s) THEN {<<Retrieve(counted, p, s), FALSE>>}
             ELSE IF ~Fresh(w, s) THEN {<<counted, FALSE>>}
             ELSE LET accepted == Accept(counted, p, s)
                  IN  {<<circulate_statement(accepted, s, S), FALSE>>
                       : S \in Recipients(accepted, s, {})}

\* Faulty variant: what a new head of the peer unlocks is not sent.
UpdateViewSilently(w, p, old, view, lucky) ==
    [w EXCEPT !.peers[p] = [view |-> view,
        knowledge |-> [h \in view |->
            IF h \in old THEN w.peers[p].knowledge[h] ELSE NoKnowledge]]]

\* update_peer_view_and_maybe_send_unlocked, with the view recorded before.
UpdateView(w, p, old, view, lucky) ==
    LET known == Without(w.peers[p].knowledge, old \ view)
        reset == [h \in DOMAIN known \union (view \ old) |->
                     IF h \in view \ old THEN NoKnowledge ELSE known[h]]
        news  == SetToSeq((view \ old) \intersect DOMAIN w.heads)
    IN  FoldLeft(LAMBDA v, h : IF lucky THEN SendStatements(v, p, w.heads[h].statements) ELSE v,
                 [w EXCEPT !.peers[p] = [view |-> view, knowledge |-> reset]], news)

-----------------------------------------------------------------------------
Idle(n) == node[n].replay = <<>>

\* The end of a turn of n in which the events of the channels c were taken.
EndTurn(n, w, c) ==
    /\ node' = [node EXCEPT ![n] = [w EXCEPT !.out = Nothing]]
    /\ UNCHANGED up
    /\ chan' = [l \in Links |-> IF l[1] = n /\ l \in up THEN c[l] \o w.out[l[2]] ELSE c[l]]

Init ==
    /\ node = [n \in Nodes |->
                  [heads |-> EmptyMap, peers |-> [p \in Nodes \ {n} |-> NewPeer], gossip |-> {},
                   finished |-> {}, replay |-> <<>>, views |-> 0, out |-> Nothing]]
    /\ up = Links /\ chan = [l \in Links |-> <<>>]
    /\ charged = {} /\ disconnects = 0 /\ failures = 0

\* ActiveLeaves, with the view that the bridge sends to the peers.
ActiveLeaves(n) ==
    /\ Idle(n)
    /\ node[n].views < MaxViews
    /\ \E view \in SUBSET Heads :
          LET w == node[n]
          IN  /\ view # DOMAIN w.heads
              /\ EndTurn(n, [w EXCEPT
                     !.heads = [h \in view |-> GetOr(@, h, NewHead)], !.views = @ + 1,
                     !.out = [p \in Nodes |-> <<ViewUpdate(view)>>]], chan)
    /\ UNCHANGED <<charged, disconnects, failures>>

\* What the backing subsystem of n may say (its validator is honest): it seconds
\* a candidate, or finds one valid that it has been told of.
MaySay(n, s) ==
    /\ s.by = n
    /\ IF s.kind = "Seconded" THEN n \in SecondedBy[s.cand]
       ELSE /\ n \in ValidBy[s.cand] /\ HeadOf[s.cand] \in DOMAIN node[n].heads
            /\ s.cand \in CandidatesOf(Seconded(Stored(node[n], HeadOf[s.cand])))

\* The candidate is put in the cache even if it is being fetched: what waits
\* for the fetch is dropped.
Cached(w, s) ==
    IF IsLarge(s) THEN [w EXCEPT !.heads[HeadOf[s.cand]].waiting = Put(@, s.cand, Fetched)] ELSE w

Share(n) ==
    /\ Idle(n)
    /\ \E s \in SignedStatements :
          /\ MaySay(n, s)
          /\ HeadOf[s.cand] \in DOMAIN node[n].heads
          /\ Fresh(node[n], s)
          /\ LET w == Cached(node[n], s)
             IN  \E S \in Recipients(w, s, Group[n] \intersect DOMAIN w.peers) :
                    EndTurn(n, CirculateWithDependents(w, s, S), chan)
    /\ UNCHANGED <<charged, disconnects, failures>>

\* handle_network_update, by the kind of event.
HandleEvent(w, p, e) ==
    CASE e.kind = "message" -> Incoming(w, p, e.message)
      [] e.kind = "connected" -> {<<[w EXCEPT !.peers = Put(@, p, NewPeer)], FALSE>>}
      [] e.kind = "disconnected" -> {<<[w EXCEPT !.peers = Without(@, {p})], FALSE>>}
      [] e.kind = "view" ->
            IF p \notin DOMAIN w.peers THEN {<<w, FALSE>>}
            ELSE {<<UpdateView(w, p, w.peers[p].view, e.view, b), FALSE>> : b \in Lucky(w.gossip, p)}

NetworkUpdate(n, p) ==
    LET l == <<p, n>>
    IN  /\ Idle(n) /\ chan[l] # <<>>
        /\ \E r \in HandleEvent(node[n], p, Head(chan[l])) :
              /\ EndTurn(n, r[1], [chan EXCEPT ![l] = Tail(@)])
              /\ charged' = IF r[2] THEN charged \union {<<n, p>>} ELSE charged
        /\ UNCHANGED <<disconnects, failures>>

\* NewGossipTopology: the view of a peer that is added is taken and set again,
\* and with it what the peer is known to know.
NewGossipTopology(n) ==
    /\ Idle(n) /\ node[n].gossip # Topology[n]
    /\ LET w     == [node[n] EXCEPT !.gossip = Topology[n]]
           added == SetToSeq((Topology[n] \ node[n].gossip) \intersect DOMAIN w.peers)
       IN  EndTurn(n, FoldLeft(LAMBDA v, p : UpdateView(v, p, {}, w.peers[p].view, TRUE), w, added),
                   chan)
    /\ UNCHANGED <<charged, disconnects, failures>>

-----------------------------------------------------------------------------
(* Large statements: the task that fetches, and the messages it sends.     *)

Fetching(n, h, c) ==
    /\ h \in DOMAIN node[n].heads /\ c \in DOMAIN node[n].heads[h].waiting
    /\ node[n].heads[h].waiting[c].status = "fetching"
Linked(n, p) == <<n, p>> \in up /\ n \in DOMAIN node[p].peers /\ p \in DOMAIN node[n].peers

\* handle_responder_message: p has announced the candidate to n and has it.
Answers(p, n, c) ==
    LET h == HeadOf[c]
    IN  /\ Linked(n, p) /\ Idle(p)
        /\ h \in DOMAIN node[p].peers[n].knowledge
        /\ c \in CandidatesOf(Seconded(node[p].peers[n].knowledge[h].sent))
        /\ h \in DOMAIN node[p].heads /\ c \in DOMAIN node[p].heads[h].waiting
        /\ node[p].heads[h].waiting[c].status = "fetched"

\* fetch: the next peer is asked.
TryPeer(n, c) ==
    LET h == HeadOf[c]
        f == node[n].heads[h].waiting[c]
        p == f.new[Len(f.new)]
    IN  /\ Fetching(n, h, c) /\ f.new # <<>>
        /\ \/ /\ Answers(p, n, c)
              /\ node' = [node EXCEPT
                    ![n].finished = @ \union {[cand |-> c, bad |-> Range(f.tried)]},
                    ![n].heads[h].waiting[c] =
                        [f EXCEPT !.new = <<>>, !.tried = <<>>, !.done = TRUE]]
              /\ UNCHANGED failures
           \/ /\ IF Answers(p, n, c) THEN failures < MaxFailures /\ failures' = failures + 1
                                     ELSE Idle(p) /\ UNCHANGED failures
              /\ node' = [node EXCEPT
                    ![n].heads[h].waiting[c] = [f EXCEPT !.new = Front(@), !.tried = Append(@, p)]]
        /\ UNCHANGED <<up, chan, charged, disconnects>>

\* try_get_new_peers and GetMorePeers: peers that came since, or the tried ones
\* again after a timeout.
GetMorePeers(n, c) ==
    LET h == HeadOf[c]
        f == node[n].heads[h].waiting[c]
    IN  /\ Fetching(n, h, c) /\ ~f.done
        /\ f.new = <<>> /\ f.tried \o f.to_try # <<>>
        /\ node' = [node EXCEPT ![n].heads[h].waiting[c] =
                       [f EXCEPT !.new = f.tried \o f.to_try, !.tried = <<>>, !.to_try = <<>>]]
        /\ UNCHANGED <<up, chan, charged, disconnects, failures>>

\* Finished: the messages that waited are handled, in the following steps of n.
Messages(f) == FlattenSeq([i \in DOMAIN f.available |->
                  [j \in DOMAIN f.available[i][2] |-> <<f.available[i][1], f.available[i][2][j]>>]])
Settled(n, h, c) ==
    IF h \notin DOMAIN node[n].heads \/ c \notin DOMAIN node[n].heads[h].waiting THEN node[n]
    ELSE IF node[n].heads[h].waiting[c].status = "fetched"
    THEN [node[n] EXCEPT !.heads[h].waiting = Without(@, {c})]
    ELSE [node[n] EXCEPT !.replay = Messages(node[n].heads[h].waiting[c]),
                         !.heads[h].waiting = Put(@, c, Fetched)]
Finished(n) ==
    /\ Idle(n)
    /\ \E r \in node[n].finished :
          /\ node' = [node EXCEPT ![n] = [Settled(n, HeadOf[r.cand], r.cand) EXCEPT
                                             !.finished = @ \ {r}]]
          /\ charged' = charged \union {<<n, p>> : p \in r.bad}
    /\ UNCHANGED <<up, chan, disconnects, failures>>

Replay(n) ==
    /\ ~Idle(n)
    /\ LET m == Head(node[n].replay)
       IN  \E r \in Incoming([node[n] EXCEPT !.replay = Tail(@)], m[1], m[2]) :
              /\ EndTurn(n, r[1], chan)
              /\ charged' = IF r[2] THEN charged \union {<<n, m[1]>>} ELSE charged
    /\ UNCHANGED <<disconnects, failures>>

\* The network (external): a connection breaks with what is on its way, and is
\* made again.
Disconnect(m, n) ==
    /\ disconnects < MaxDisconnects /\ <<m, n>> \in up
    /\ up' = up \ {<<m, n>>, <<n, m>>}
    /\ chan' = [chan EXCEPT ![<<m, n>>] = <<Disconnected>>, ![<<n, m>>] = <<Disconnected>>]
    /\ disconnects' = disconnects + 1
    /\ UNCHANGED <<node, charged, failures>>

Reconnect(m, n) ==
    /\ <<m, n>> \notin up
    /\ up' = up \union {<<m, n>>, <<n, m>>}
    /\ chan' = [chan EXCEPT ![<<m, n>>] = @ \o <<Connected, ViewUpdate(DOMAIN node[m].heads)>>,
                            ![<<n, m>>] = @ \o <<Connected, ViewUpdate(DOMAIN node[n].heads)>>]
    /\ UNCHANGED <<node, charged, disconnects, failures>>

Next ==
    \/ \E n \in Nodes : ActiveLeaves(n) \/ Share(n) \/ NewGossipTopology(n) \/ Finished(n) \/ Replay(n)
    \/ \E l \in Links : NetworkUpdate(l[1], l[2]) \/ Disconnect(l[1], l[2]) \/ Reconnect(l[1], l[2])
    \/ \E n \in Nodes, c \in Large : TryPeer(n, c) \/ GetMorePeers(n, c)

Spec == Init /\ [][Next]_vars

-----------------------------------------------------------------------------
(* Properties.                                                             *)

TypeOK ==
    /\ \A n \in Nodes : \A h \in DOMAIN node[n].heads :
          /\ h \in Heads /\ Stored(node[n], h) \subseteq SignedStatements
          /\ IsInjective(node[n].heads[h].statements)
    /\ charged \subseteq Links

\* Nothing is on its way and no node has work to do but fetch.
Quiet ==
    /\ \A l \in Links : chan[l] = <<>>
    /\ \A n \in Nodes : Idle(n) /\ node[n].finished = {} /\ node[n].gossip = Topology[n]

\* When nothing is on its way, two neighbours in the topology with the same
\* head have the same statements on it, or the one that lacks a statement is
\* fetching its candidate from a peer that will answer.
GossipComplete ==
    Quiet => \A l \in Links :
        LET m == l[1]  n == l[2]
        IN  Linked(m, n) /\ n \in Topology[m] /\ m \in Topology[n] =>
                \A h \in DOMAIN node[m].heads \intersect DOMAIN node[n].heads :
                    \A s \in Stored(node[m], h) :
                        \/ s \in Stored(node[n], h)
                        \/ /\ Fetching(n, h, s.cand)
                           /\ LET f == node[n].heads[h].waiting[s.cand]
                              IN  \E p \in Range(f.new \o f.tried \o f.to_try) : Answers(p, n, s.cand)

\* A Valid statement is stored after a Seconded statement on its candidate (what
\* note_statement and the circulation rely on), and a node keeps the candidate
\* of every large statement it has announced.
SecondedFirst ==
    \A n \in Nodes : \A h \in DOMAIN node[n].heads :
        LET st == node[n].heads[h].statements
        IN  \A i \in DOMAIN st : \E j \in 1..i : st[j].kind = "Seconded" /\ st[j].cand = st[i].cand

AnnouncedKept ==
    \A n \in Nodes : \A h \in DOMAIN node[n].heads : \A s \in Stored(node[n], h) :
        IsLarge(s) => /\ s.cand \in DOMAIN node[n].heads[h].waiting
                      /\ node[n].heads[h].waiting[s.cand].status = "fetched"

\* Nodes that follow the protocol do not lower each other's reputation.
HonestNotCharged == charged = {}
=============================================================================
