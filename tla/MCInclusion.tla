---------------------------- MODULE MCInclusion ----------------------------
(* Small instances of Inclusion.                                           *)
EXTENDS Inclusion, TLC

CONSTANTS v1, v2, v3, p, q, x

Three == {v1, v2, v3}       \* availability threshold 2

ThreeSymmetry == Permutations(Three) \union Permutations({p, q})
=============================================================================
