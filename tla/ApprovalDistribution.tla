------------------------ MODULE ApprovalDistribution ------------------------
(***************************************************************************)
(* Gossip of approval assignments and approvals between nodes              *)
(* (node/network/approval-distribution), every node running the code of    *)
(* the subsystem.                                                          *)
(*                                                                         *)
(* A message is an assignment or an approval of a validator for the        *)
(* candidate of a block (one candidate in each). The messages of a batch   *)
(* are put in the queue one by one, and handled one by one. What a         *)
(* candidate entry holds (assigned, approved) is what the knowledge of the *)
(* block holds, as an approval is only taken after its assignment.         *)
(***************************************************************************)
EXTENDS Integers, FiniteSets, Sequences, SequencesExt, Maps, Gossip

CONSTANTS
    Parent,         \* block -> its parent; the others are finalized
    Number,         \* block -> its number
    Checkers,       \* block -> the validators assigned to check its candidate
    Verdicts,       \* what approval voting may answer on an assignment
    MaxDelay,       \* bound: blocks imported before approval voting tells of the first
    MaxFinal,       \* bound: blocks up to this number may be finalized
    MaxDisconnects  \* bound: lost connections

VARIABLES
    node,           \* node -> the state of its subsystem
    chain,          \* node -> its blocks (all), those its subsystem is to be told of by the
                    \* bridge (view) and by approval voting (blocks), the view sent to peers (told)
    up,             \* the links <<from, to>> of open connections
    chan,           \* <<from, to>> -> events on their way
    charged,        \* pairs <<n, p>>: n has lowered the reputation of p
    disconnects

vars == <<node, chain, up, chan, charged, disconnects>>

Blocks == DOMAIN Parent
Assignment(b, v) == [kind |-> "assignment", block |-> b, by |-> v]
Approval(b, v)   == [kind |-> "approval", block |-> b, by |-> v]
IsAssignment(m)  == m.kind = "assignment"

Line[b \in Blocks] == IF Parent[b] \in Blocks THEN <<b>> \o Line[Parent[b]] ELSE <<b>>
Leaves(S) == {b \in S : \A a \in S : Parent[a] # b}

NewKnowledge == [sent |-> {}, received |-> {}]
NewEntry     == [known_by |-> EmptyMap, knowledge |-> {}]
NewView      == [heads |-> {}, finalized |-> 0]

-----------------------------------------------------------------------------
(* unify_with_peer and send_gossip_messages_to_peer. A node w is [blocks,  *)
(* pending, views, gossip, finalized, out].                                *)

Known(k)        == k.sent \union k.received
Lacks(w, p, b)  ==
    LET e == w.blocks[b] IN e.knowledge \ Known(GetOr(e.known_by, p, NewKnowledge))

\* The blocks from a head of the peer down that are interesting: above what it
\* has finalized, as far as it is not known to know all.
Interesting(w, p, finalized, head) ==
    LET line    == IF head \in Blocks THEN Line[head] ELSE <<>>
        good(b) == /\ b \in DOMAIN w.blocks /\ Number[b] > finalized
                   /\ p \in DOMAIN w.blocks[b].known_by => Lacks(w, p, b) # {}
        stops   == {i \in DOMAIN line : ~good(line[i])}
    IN  IF stops = {} THEN line ELSE SubSeq(line, 1, (CHOOSE i \in stops : \A j \in stops : i <= j) - 1)

NoteKnown(w, p, S) ==
    [w EXCEPT !.blocks = [b \in DOMAIN @ |->
        IF b \in S THEN [@[b] EXCEPT !.known_by = Put(@, p, GetOr(@, p, NewKnowledge))] ELSE @[b]]]

\* The node with the peer noted at the blocks of its view, and what it lacks
\* there, block by block: a block below two heads comes twice.
Unify(w, p, view) ==
    FoldLeft(LAMBDA u, h :
                 LET found == Interesting(u.node, p, view.finalized, h)
                 IN  [node |-> NoteKnown(u.node, p, Range(found)),
                      missing |-> u.missing \o [i \in DOMAIN found |-> Lacks(u.node, p, found[i])]],
             [node |-> w, missing |-> <<>>], SetToSeq(view.heads))

SendMissing(w, p, missing) ==
    LET of(S, t) == SetToSeq({m \in S : IsAssignment(m) = t})
        all(t)   == FlattenSeq([i \in DOMAIN missing |-> of(missing[i], t)])
        batch    == all(TRUE) \o all(FALSE)
    IN  [w EXCEPT !.out[p] = @ \o [i \in DOMAIN batch |-> Message(batch[i])],
                  !.blocks = [b \in DOMAIN @ |->
                      IF p \in DOMAIN @[b].known_by
                      THEN [@[b] EXCEPT !.known_by[p].sent =
                               @ \union {m \in Range(batch) : m.block = b}]
                      ELSE @[b]]]

UnifyWith(w, p, view, lucky) ==
    LET u == Unify(w, p, view) IN IF lucky THEN SendMissing(u.node, p, u.missing) ELSE u.node

\* handle_peer_view_change, with the view recorded before.
PeerViewChange(w, p, old, view, lucky) ==
    LET seen   == [w EXCEPT !.views = Put(@, p, view)]
        pruned == {b \in DOMAIN w.blocks : Number[b] \in old.finalized .. view.finalized}
    IN  UnifyWith([seen EXCEPT !.blocks = [b \in DOMAIN @ |->
                      IF b \in pruned THEN [@[b] EXCEPT !.known_by = Without(@, {p})] ELSE @[b]]],
                  p, view, lucky)

-----------------------------------------------------------------------------
(* import_and_circulate_assignment and import_and_circulate_approval.      *)

\* The part that both share after a message is accepted: to all peers that know
\* the block but the source, or to those chosen of them.
Circulate(w, m, S) ==
    [w EXCEPT !.blocks[m.block] =
                 [known_by |-> [q \in DOMAIN @.known_by |->
                      IF q \in S THEN [@.known_by[q] EXCEPT !.sent = @ \union {m}] ELSE @.known_by[q]],
                  knowledge |-> @.knowledge \union {m}],
              !.out = [q \in Nodes |-> IF q \in S THEN Append(@[q], Message(m)) ELSE @[q]]]

Receives(w, p, m) ==
    IF p \in DOMAIN w.blocks[m.block].known_by
    THEN [w EXCEPT !.blocks[m.block].known_by[p].received = @ \union {m}] ELSE w

\* From peer p: the nodes that may come of it, and whether p is charged.
ImportFrom(w, p, m, verdict) ==
    IF m.block \notin DOMAIN w.blocks THEN {<<w, TRUE>>}
    ELSE LET e     == w.blocks[m.block]
             known == p \in DOMAIN e.known_by
         IN  IF ~IsAssignment(m) /\ Assignment(m.block, m.by) \notin e.knowledge THEN {<<w, TRUE>>}
             ELSE IF known /\ m \in Known(e.known_by[p])
             THEN {<<Receives(w, p, m), m \in e.known_by[p].received>>}
             ELSE IF m \in e.knowledge \/ (IsAssignment(m) /\ verdict = "AcceptedDuplicate")
             THEN {<<Receives(w, p, m), ~known>>}
             ELSE IF IsAssignment(m) /\ verdict = "TooFarInFuture" THEN {<<w, TRUE>>}
             ELSE {<<Circulate(Receives(w, p, m), m, S), ~known>>
                   : S \in Subsets(w.gossip, DOMAIN e.known_by \ {p})}

\* Faulty variant: a message on a head that is not known yet does not wait.
IncomingAtOnce(w, p, m, verdict) == ImportFrom(w, p, m, verdict)

\* process_incoming_peer_message: messages on a head that is in our view and not
\* known yet wait for it.
Incoming(w, p, m, verdict) ==
    IF m.block \in DOMAIN w.pending
    THEN {<<[w EXCEPT !.pending[m.block] = Append(@, <<p, m>>)], FALSE>>}
    ELSE ImportFrom(w, p, m, verdict)

-----------------------------------------------------------------------------
EndTurn(n, w, c) ==
    /\ node' = [node EXCEPT ![n] = [w EXCEPT !.out = Nothing]]
    /\ chan' = [l \in Links |-> IF l[1] = n /\ l \in up THEN c[l] \o w.out[l[2]] ELSE c[l]]
    /\ UNCHANGED up

Init ==
    /\ node = [n \in Nodes |->
                  [blocks |-> EmptyMap, pending |-> EmptyMap, gossip |-> {}, finalized |-> 0,
                   views |-> [p \in Nodes \ {n} |-> NewView], out |-> Nothing]]
    /\ chain = [n \in Nodes |-> [all |-> {}, view |-> {}, blocks |-> {}, told |-> NewView]]
    /\ up = Links /\ chan = [l \in Links |-> <<>>]
    /\ charged = {} /\ disconnects = 0

\* The node imports a block (external); the bridge and approval voting have yet
\* to tell of it.
ImportBlock(n) ==
    \E b \in Blocks \ chain[n].all :
        /\ Parent[b] \in Blocks => Parent[b] \in chain[n].all
        /\ Cardinality(chain[n].blocks) < MaxDelay
        /\ chain' = [chain EXCEPT ![n].all = @ \union {b}, ![n].view = @ \union {b},
                                  ![n].blocks = @ \union {b}]
        /\ UNCHANGED <<node, up, chan, charged, disconnects>>

OwnView(n) == [heads |-> {b \in Leaves(chain[n].all) : Number[b] > node[n].finalized},
               finalized |-> node[n].finalized]

\* OurViewChange, and the view that the bridge sends to the peers.
OurViewChange(n) ==
    /\ chain[n].view # {}
    /\ LET w    == node[n]
           view == OwnView(n)
       IN  EndTurn(n, [w EXCEPT
               !.pending = [h \in view.heads \ (DOMAIN w.blocks \ DOMAIN @) |-> GetOr(@, h, <<>>)],
               !.out = [p \in Nodes |-> <<ViewUpdate(view)>>]], chan)
    /\ chain' = [chain EXCEPT ![n].view = {}, ![n].told = OwnView(n)]
    /\ UNCHANGED <<charged, disconnects>>

\* NewBlocks: the entries, the messages that waited for them (nobody is known to
\* know the blocks yet: they are circulated to no one), and the peers that have
\* one of the new blocks as a head.
NewBlocks(n) ==
    /\ chain[n].blocks # {}
    /\ LET new     == chain[n].blocks
           w0      == node[n]
           ready   == DOMAIN w0.pending \intersect (DOMAIN w0.blocks \union new)
           entered == [w0 EXCEPT
               !.blocks = [b \in DOMAIN @ \union new |-> GetOr(@, b, NewEntry)],
               !.pending = Without(@, ready)]
           waiting == FlattenSeq([i \in 1..Cardinality(ready) |-> w0.pending[SetToSeq(ready)[i]]])
           peers   == DOMAIN w0.views
           view(p) == [w0.views[p] EXCEPT !.heads = @ \intersect new]
       IN  \E verdict \in Verdicts :
             \E lucky \in [peers -> BOOLEAN] :
              /\ \A p \in peers : lucky[p] \in Lucky(w0.gossip, p)
              /\ LET import(r, i) ==
                         LET s == CHOOSE x \in ImportFrom(r[1], waiting[i][1], waiting[i][2], verdict) : TRUE
                         IN  <<s[1], IF s[2] THEN r[2] \union {waiting[i][1]} ELSE r[2]>>
                     imported == FoldLeft(import, <<entered, {}>>, [i \in DOMAIN waiting |-> i])
                 IN  /\ EndTurn(n, FoldLeft(LAMBDA w, p : UnifyWith(w, p, view(p), lucky[p]),
                                            imported[1], SetToSeq(peers)), chan)
                     /\ charged' = charged \union {<<n, p>> : p \in imported[2]}
    /\ chain' = [chain EXCEPT ![n].blocks = {}]
    /\ UNCHANGED disconnects

\* BlockFinalized: the blocks up to the finalized one go.
BlockFinalized(n) ==
    \E b \in chain[n].all :
        /\ Number[b] > node[n].finalized /\ Number[b] <= MaxFinal
        /\ EndTurn(n, [node[n] EXCEPT !.finalized = Number[b],
                          !.blocks = Without(@, {a \in DOMAIN @ : Number[a] <= Number[b]})], chan)
        /\ chain' = [chain EXCEPT ![n].blocks = {a \in @ : Number[a] > Number[b]}]
        /\ UNCHANGED <<charged, disconnects>>

\* DistributeAssignment and DistributeApproval: ours, of approval voting, which
\* has told of the block before, and approves what it has been assigned to.
Distribute(n) ==
    \E b \in DOMAIN node[n].blocks :
        /\ n \in Checkers[b]
        /\ LET a == Assignment(b, n)
               w == node[n]
               m == IF a \in w.blocks[b].knowledge THEN Approval(b, n) ELSE a
           IN  /\ m \notin w.blocks[b].knowledge
               /\ \E S \in Subsets(w.gossip, DOMAIN w.blocks[b].known_by) :
                     EndTurn(n, Circulate(w, m, S), chan)
        /\ UNCHANGED <<chain, charged, disconnects>>

\* handle_network_msg, by the kind of event.
HandleEvent(w, p, e, verdict) ==
    CASE e.kind = "message" -> Incoming(w, p, e.message, verdict)
      [] e.kind = "connected" -> {<<[w EXCEPT !.views = Put(@, p, GetOr(@, p, NewView))], FALSE>>}
      [] e.kind = "disconnected" ->
            {<<[w EXCEPT !.views = Without(@, {p}),
                         !.blocks = [b \in DOMAIN @ |-> [@[b] EXCEPT !.known_by = Without(@, {p})]]],
               FALSE>>}
      [] e.kind = "view" ->
            {<<PeerViewChange(w, p, GetOr(w.views, p, NewView), e.view, b), FALSE>>
             : b \in Lucky(w.gossip, p)}

NetworkUpdate(n, p) ==
    LET l == <<p, n>>
    IN  /\ chan[l] # <<>>
        /\ \E verdict \in Verdicts :
              \E r \in HandleEvent(node[n], p, Head(chan[l]), verdict) :
                 /\ EndTurn(n, r[1], [chan EXCEPT ![l] = Tail(@)])
                 /\ charged' = IF r[2] THEN charged \union {<<n, p>>} ELSE charged
        /\ UNCHANGED <<chain, disconnects>>

\* NewGossipTopology: the peers that are added are sent what they lack.
NewGossipTopology(n) ==
    /\ node[n].gossip # Topology[n]
    /\ LET w     == [node[n] EXCEPT !.gossip = Topology[n]]
           added == SetToSeq((Topology[n] \ node[n].gossip) \intersect DOMAIN w.views)
       IN  EndTurn(n, FoldLeft(LAMBDA v, p : PeerViewChange(v, p, NewView, w.views[p], TRUE), w, added),
                   chan)
    /\ UNCHANGED <<chain, charged, disconnects>>

\* The network (external).
Disconnect(m, n) ==
    /\ disconnects < MaxDisconnects /\ <<m, n>> \in up
    /\ up' = up \ {<<m, n>>, <<n, m>>}
    /\ chan' = [chan EXCEPT ![<<m, n>>] = <<Disconnected>>, ![<<n, m>>] = <<Disconnected>>]
    /\ disconnects' = disconnects + 1
    /\ UNCHANGED <<node, chain, charged>>

Reconnect(m, n) ==
    /\ <<m, n>> \notin up
    /\ up' = up \union {<<m, n>>, <<n, m>>}
    /\ chan' = [chan EXCEPT ![<<m, n>>] = @ \o <<Connected, ViewUpdate(chain[m].told)>>,
                            ![<<n, m>>] = @ \o <<Connected, ViewUpdate(chain[n].told)>>]
    /\ UNCHANGED <<node, chain, charged, disconnects>>

Next ==
    \/ \E n \in Nodes : \/ ImportBlock(n) \/ OurViewChange(n) \/ NewBlocks(n) \/ BlockFinalized(n)
                        \/ Distribute(n) \/ NewGossipTopology(n)
    \/ \E l \in Links : NetworkUpdate(l[1], l[2]) \/ Disconnect(l[1], l[2]) \/ Reconnect(l[1], l[2])

Spec == Init /\ [][Next]_vars

-----------------------------------------------------------------------------
(* Properties.                                                             *)

\* Nothing is on its way and every node has been told of its blocks.
Quiet ==
    /\ \A l \in Links : chan[l] = <<>>
    /\ \A n \in Nodes : chain[n].view = {} /\ chain[n].blocks = {} /\ node[n].gossip = Topology[n]

\* What a peer was sent on a block is known here, and an approval is known with
\* its assignment.
KnowledgeSound ==
    \A n \in Nodes : \A b \in DOMAIN node[n].blocks :
        LET e == node[n].blocks[b]
        IN  /\ \A p \in DOMAIN e.known_by : e.known_by[p].sent \subseteq e.knowledge
            /\ \A m \in e.knowledge : Assignment(b, m.by) \in e.knowledge

\* When nothing is on its way, neighbours in the topology that know the heads of
\* each other have the same messages on every block they both have.
KnowsHeadsOf(m, n) == OwnView(n).heads \subseteq DOMAIN node[m].blocks
Neighbours == {l \in up : l[2] \in Topology[l[1]]}
GossipComplete ==
    Quiet => \A l \in Neighbours :
        KnowsHeadsOf(l[1], l[2]) /\ KnowsHeadsOf(l[2], l[1]) =>
            \A b \in DOMAIN node[l[1]].blocks \intersect DOMAIN node[l[2]].blocks :
                node[l[1]].blocks[b].knowledge = node[l[2]].blocks[b].knowledge

\* Nodes that follow the protocol do not lower each other's reputation.
HonestNotCharged == charged = {}
=============================================================================
