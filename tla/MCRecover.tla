----------------------------- MODULE MCRecover -----------------------------
(* Small instances of Recover: a store, its fork, and a new store.         *)
EXTENDS Recover, TLC

CONSTANTS s1, s2, w1, w2, w3, r1, a, b

\* Two `add's of different documents; the create and version claims of each are
\* taken as one.
MCNeeds == [c \in Claim |-> {}]

Symmetry == Permutations(Store) \cup Permutations(Writer) \cup Permutations(Claim)
=============================================================================
