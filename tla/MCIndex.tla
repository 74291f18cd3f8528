------------------------------ MODULE MCIndex ------------------------------
(* A small instance of Index.                                              *)
EXTENDS Index

CONSTANT d1

\* A first command, and two that may overlap.
MCMaxClaims == [d \in Doc |-> 3]
=============================================================================
