------------------------------- MODULE Gossip -------------------------------
(***************************************************************************)
(* What the gossip subsystems share: whom a message is sent to, and the    *)
(* events by which the network bridge tells of a peer.                     *)
(***************************************************************************)
EXTENDS Integers, FiniteSets

CONSTANTS
    Nodes,      \* a node is the validator it runs and the peer it is
    Topology,   \* node -> the peers gossip support gives it
    MinGossip   \* MIN_GOSSIP_PEERS

Links == {l \in Nodes \X Nodes : l[1] # l[2]}
Nothing == [p \in Nodes |-> <<>>]

Message(m)    == [kind |-> "message", message |-> m]
ViewUpdate(v) == [kind |-> "view", view |-> v]
Connected     == [kind |-> "connected"]
Disconnected  == [kind |-> "disconnected"]

Least(a, b) == IF a < b THEN a ELSE b

\* choose_random_subset: the gossip peers of S, and others up to
\* MIN_GOSSIP_PEERS.
Subsets(gossip, S) ==
    LET g == S \intersect gossip
    IN  IF Cardinality(g) >= MinGossip \/ S = g
        THEN {g}
        ELSE {T \in SUBSET S : g \subseteq T /\ Cardinality(T) = Least(MinGossip, Cardinality(S))}

\* Whether a peer with a new view is sent what it lacks: gen_ratio is certain of
\* both outcomes at its ends.
Lucky(gossip, p) ==
    IF p \in gossip \/ gossip = {} THEN {TRUE}
    ELSE IF Cardinality(gossip) >= MinGossip THEN {FALSE} ELSE BOOLEAN
=============================================================================
