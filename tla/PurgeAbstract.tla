---------------------------- MODULE PurgeAbstract ----------------------------
(***************************************************************************)
(* What purge promises, with rollback segments, pages, the purge queue and *)
(* the iterator left out.  A commit adds the records of one undo log, with *)
(* undo numbers 0 .. k and a trx_no above every earlier one.  The purge    *)
(* view's limit (low_limit_no) never moves back.  The coordinator hands    *)
(* the workers one record at a time, always the least committed record     *)
(* not yet handed out in (trx_no, undo_no) order.  A worker purges a       *)
(* record that was handed out.  Whether the handed-out record is below the *)
(* limit is not part of this specification: the implementation breaks it  *)
(* (NoPrematurePurge in TrxPurge).                                         *)
(***************************************************************************)
EXTENDS Naturals, FiniteSets

VARIABLES
  committed,   \* undo records of committed transactions
  dispatched,  \* records handed to a purge worker
  purged,      \* records whose row purge ran
  floor        \* the purge view's low_limit_no

absVars == <<committed, dispatched, purged, floor>>

Before(a, b) == a.no < b.no \/ (a.no = b.no /\ a.undo < b.undo)

Init ==
  /\ committed = {}
  /\ dispatched = {}
  /\ purged = {}
  /\ floor \in Nat

\* A transaction commits the records of its undo log, all of one trx_no
\* above every trx_no committed before, with undo numbers without a gap.
Commit ==
  LET new == committed' \ committed
  IN /\ committed \subseteq committed'
     /\ new # {}
     /\ \A a, b \in new : a.no = b.no
     /\ \A a \in new, c \in committed : c.no < a.no
     /\ \A a \in new : \A u \in 0 .. a.undo : \E b \in new : b.undo = u
     /\ UNCHANGED <<dispatched, purged, floor>>

\* A batch starts with a purge view no older than the last one.
AdvanceFloor ==
  /\ floor' \in Nat
  /\ floor <= floor'
  /\ UNCHANGED <<committed, dispatched, purged>>

\* The least record not yet handed out goes to a worker.
Dispatch ==
  \E m \in committed \ dispatched :
    /\ \A c \in committed \ dispatched : c # m => Before(m, c)
    /\ dispatched' = dispatched \cup {m}
    /\ UNCHANGED <<committed, purged, floor>>

\* A worker purges a record it was handed.
Purge ==
  \E d \in dispatched \ purged :
    /\ purged' = purged \cup {d}
    /\ UNCHANGED <<committed, dispatched, floor>>

Next == Commit \/ AdvanceFloor \/ Dispatch \/ Purge

Spec == Init /\ [][Next]_absVars

====
