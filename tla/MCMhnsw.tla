------------------------------ MODULE MCMhnsw ------------------------------
(* Model-checking instance of Mhnsw.  Vectors are powers of two, so no     *)
(* row is at the midpoint of two others and no two rows tie in distance   *)
(* from an inserted row; the query vectors tie with no pair either.       *)
EXTENDS Mhnsw

MCPos == [r \in Row |-> 2 ^ r]
====
