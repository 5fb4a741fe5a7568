----------------------------- MODULE MCDictLoad -----------------------------
(* Model-checking instance of DictLoad: two table names, DDL on the first, *)
(* two column names, two table ids, four index ids, three DDL              *)
(* transactions.                                                           *)
EXTENDS DictLoad

CONSTANTS n1, n2, ca, cb

\* Column names are only compared for equality.
ColSymmetry == Permutations({ca, cb})
====
