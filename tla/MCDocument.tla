----------------------------- MODULE MCDocument -----------------------------
(* A small instance of Document: one key with values and values of values. *)
EXTENDS Document, TLC

k == <<"k">>
ka == <<"k", "a">>
kb == <<"k", "b">>

MCPath == {k, ka}

Args(add, del) == [add |-> add, del |-> del]

\* A tag, and a tag and an untag in one call.
MCTagArgs == {Args({ka}, {}), Args({k}, {ka})}

kax == <<"k", "a", "x">>
kby == <<"k", "b", "y">>

MCDeepPath == {k, ka, kb, kax, kby}
MCDeepArgs == {Args({kax}, {}), Args({kby}, {})}

Symmetry == Permutations(Store) \cup Permutations(Editor)
=============================================================================
