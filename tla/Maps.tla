-------------------------------- MODULE Maps --------------------------------
(***************************************************************************)
(* Storage maps as functions whose domain is the set of present keys.      *)
(***************************************************************************)

\* f has keys in S and values in T.
IsMap(f, S, T) == DOMAIN f \subseteq S /\ \A x \in DOMAIN f : f[x] \in T

EmptyMap == [x \in {} |-> 0]

\* f with the value v under key k (`insert`).
Put(f, k, v) == [x \in DOMAIN f \union {k} |-> IF x = k THEN v ELSE f[x]]

\* f without the keys of S (`remove`).
Without(f, S) == [x \in DOMAIN f \ S |-> f[x]]

\* The value under k, or d if there is none (a `ValueQuery` or `unwrap_or`).
GetOr(f, k, d) == IF k \in DOMAIN f THEN f[k] ELSE d
=============================================================================
