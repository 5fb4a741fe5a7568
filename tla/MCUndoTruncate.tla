--------------------------- MODULE MCUndoTruncate ---------------------------
(* Model-checking instance of UndoTruncate: two undo tablespaces with one   *)
(* rollback segment each; r1 has two undo segments so that one can be      *)
(* cached, r2 has one.                                                      *)
EXTENDS UndoTruncate

CONSTANTS r1, r2, s1, s2, s3, t1, t2, ta

MCSegRseg == (s1 :> r1) @@ (s2 :> r1) @@ (s3 :> r2)

MCRsegSpace == (r1 :> 0) @@ (r2 :> 1)

\* Transactions are interchangeable.
TrxSymmetry == Permutations({t1, t2})
====
