----------------------------- MODULE MCDisputes -----------------------------
(* Small instances of Disputes.                                            *)
EXTENDS Disputes, TLC

CONSTANTS v1, v2, v3, v4, v5, v6, v7, a, b

Two   == {v1, v2}                          \* byzantine 0, supermajority 2
Four  == {v1, v2, v3, v4}                  \* byzantine 1, supermajority 3
Seven == {v1, v2, v3, v4, v5, v6, v7}      \* byzantine 2, supermajority 5

SevenSymmetry == Permutations(Seven \ {v1, v2})
FourSymmetry == Permutations(Four)

\* Two candidates of the first session; a candidate of the first and one of
\* the second.
OneSession  == [k \in {a, b} |-> 0]
TwoSessions == (a :> 0) @@ (b :> 1)
=============================================================================
