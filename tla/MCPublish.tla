----------------------------- MODULE MCPublish -----------------------------
(* Small instances of Publish: a store, its copies, and their remotes.     *)
EXTENDS PublishInv, TLC, FiniteSets

CONSTANTS s1, s2, w1, w2, r1, r2, create, version

\* A document's log begins with its create claim.
MCNeeds == [c \in Claim |-> (Claim \cap {create}) \ {c}]

Symmetry == Permutations(Store) \cup Permutations(Writer)
=============================================================================
