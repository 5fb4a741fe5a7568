--------------------------- MODULE PurgeRefinement ---------------------------
(***************************************************************************)
(* TrxPurge implements PurgeAbstract.  The records handed to a worker are  *)
(* those in the node queues or already purged, and the floor is the limit *)
(* of the view cloned by the last trx_purge() batch.                       *)
(***************************************************************************)
EXTENDS TrxPurge

Abs == INSTANCE PurgeAbstract WITH dispatched <- Dispatched, floor <- pview.limit

\* Every behaviour of the code is one of the abstract specification: each
\* commit adds one whole log above all earlier trx_no, each batch's cloned
\* view is no older than the previous batch's (spec P1), and the
\* coordinator's attach loop hands records out one at a time in global
\* (trx_no, undo_no) order, through the purge queue, the stored iterator
\* position and the history truncation between batches.
AbsSpec == Abs!Spec

====
