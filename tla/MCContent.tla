----------------------------- MODULE MCContent -----------------------------
(* Two contents that share a chunk and a node of their lists.              *)
EXTENDS Content, TLC

CONSTANTS p1, p2, a, b, c, d, n, list_a, list_b

MCChunks == [h \in Content |-> IF h = a THEN {c, d} ELSE {c}]
MCNodes == [h \in Content |-> {IF h = a THEN list_a ELSE list_b, n}]

Symmetry == Permutations(Process)
=============================================================================
