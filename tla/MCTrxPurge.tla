---------------------------- MODULE MCTrxPurge ----------------------------
(* Model-checking instance of TrxPurge: two rollback segments, the first   *)
(* with two undo segments so that one can be cached and reused while the   *)
(* other is in use, the second with one.                                   *)
EXTENDS PurgeRefinement

CONSTANTS r1, r2, s1, s2, s3, t1, t2, ta, tb

\* One rseg with two segments, for the dispatch run.
MCSegRseg1 == (s1 :> r1) @@ (s2 :> r1)

MCSegRseg == (s1 :> r1) @@ (s2 :> r1) @@ (s3 :> r2)

\* Transactions are interchangeable.
TrxSymmetry == Permutations({t1, t2})

\* Transactions are interchangeable, and so are tables.
TrxTableSymmetry == Permutations({t1, t2}) \cup Permutations({ta, tb})
====
