------------------------------- MODULE MCLog -------------------------------
(* Small instances of Log: commands on one or two documents.               *)
EXTENDS Log, TLC

CONSTANTS d1, d2, add1, add2, tag, rename

MCDocOf == [b \in Batch |-> IF b = add2 THEN d2 ELSE d1]

\* add writes create, version and name (two of them, or one, will do here), tag a
\* removal and an addition.
MCSize == [b \in Batch |-> IF b \in {add2, rename} THEN 1 ELSE 2]
=============================================================================
