----------------------------- MODULE MCRbTree ------------------------------
(* A small instance of RbTree for TLC.                                     *)
EXTENDS RbTree

\* Eight keys let an insertion climb and then rotate; the last node repeats a key.
NineNodes == 1..9
EightKeys == [n \in NineNodes |-> IF n = 9 THEN 4 ELSE n]
=============================================================================
