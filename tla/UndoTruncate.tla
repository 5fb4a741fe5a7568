---------------------------- MODULE UndoTruncate ----------------------------
(***************************************************************************)
(* Undo tablespace truncation: the rest of trx_purge_truncate_history()    *)
(* (trx0purge.cc from the srv_undo_tablespaces_active test on) and         *)
(* trx_purge_cleanse_purge_queue(), composed with the purge of TrxPurge.   *)
(*                                                                         *)
(* The coordinator enters it from TruncateHistory (pc = "undotrunc") and   *)
(* runs the while (srv_undo_log_truncate) loop as three kinds of step, so  *)
(* that commits and read views interleave with it as they do with the     *)
(* real function, which holds no mutex between them:                      *)
(*   UtSelect        choose purge_sys.truncate.current round-robin;        *)
(*   UtCheckRseg(r)  set skip_allocation and test one rseg (not_free);     *)
(*   UtTruncate      cleanse the queue, fil_truncate_prepare, recreate.    *)
(* A tablespace's file size is abstracted to whether it exceeds           *)
(* srv_max_undo_log_size (oversized): the file grows when segments are     *)
(* allocated (UndoGrow, fsp0fsp.cc) and is back at its initial size after  *)
(* a truncation.                                                           *)
(* The server is running (srv_undo_sources), so the fast-shutdown exits    *)
(* are not taken and an rseg with TO_PURGE segments is never free.         *)
(***************************************************************************)
EXTENDS TrxPurge

CONSTANTS
  NUndoSpaces,      \* srv_undo_tablespaces_active
  RsegSpace,        \* the undo tablespace (0-based) of each rseg
  PrepareOutcomes   \* the results fil_truncate_prepare() may return

ASSUME /\ NUndoSpaces \in Nat \ {0}
       /\ RsegSpace \in [Rseg -> 0 .. NUndoSpaces - 1]
       /\ PrepareOutcomes \subseteq BOOLEAN /\ PrepareOutcomes # {}

Space == 0 .. NUndoSpaces - 1
NoSpace == -1                  \* a null fil_space_t*

VARIABLES
  truncCurrent,   \* purge_sys.truncate.current
  truncLast,      \* purge_sys.truncate.last
  utPassed,       \* the rsegs of current that passed the checks in this call
  oversized       \* tablespaces with space->get_size() > threshold

utVars == <<truncCurrent, truncLast, utPassed, oversized>>
allVars == <<vars, utVars>>

RsegsOf(sp) == {r \in Rseg : RsegSpace[r] = sp}

\* The reference 'head' of trx_purge_truncate_history(), after the clamp.
TruncLimit == IF head.no # 0 THEN head ELSE tail

\* The first tablespace in big scanning round-robin from truncate.last
\* (or from the first one).
Candidate(big) ==
  LET start == IF truncLast = NoSpace THEN 0 ELSE truncLast
      k == CHOOSE k \in 0 .. NUndoSpaces - 1 :
             /\ (start + k) % NUndoSpaces \in big
             /\ \A j \in 0 .. k - 1 : (start + j) % NUndoSpaces \notin big
  IN (start + k) % NUndoSpaces

\* Mutant: cached segments are tested against head.trx_no with <=.
CachedBlockedLeq(r) ==
  \E i \in DOMAIN cached[r] :
    TruncLimit.no # 0 /\ TruncLimit.no <= undoTrxId[cached[r][i]]

\* A cached undo segment whose trx_id is above head.trx_no keeps the rseg.
CachedBlocked(r) ==
  \E i \in DOMAIN cached[r] :
    TruncLimit.no # 0 /\ TruncLimit.no < undoTrxId[cached[r][i]]

CachedPages(r) == SegPages(ToSet(cached[r]))

\* Mutant: the rseg header page is not allowed for (off by one).
NotFreeNoHeader(r) ==
  \/ refCount[r] # 0
  \/ ~Sees(pview, needsPurge[r])
  \/ CachedBlocked(r)
  \/ currSize[r] > CachedPages(r)

\* Mutant: trx_ref_count is not tested.
NotFreeIgnoreRef(r) ==
  \/ ~Sees(pview, needsPurge[r])
  \/ CachedBlocked(r)
  \/ currSize[r] > CachedPages(r) + 1

\* The goto not_free conditions for one rseg of the tablespace.
NotFree(r) ==
  \/ refCount[r] # 0
  \/ ~Sees(pview, needsPurge[r])
  \/ CachedBlocked(r)
  \/ currSize[r] > CachedPages(r) + 1

\* Mutant: the purge queue is not cleansed.
CleanseQueueNone(q, sp) == q

\* trx_purge_cleanse_purge_queue(): drop the rsegs of the tablespace.
CleanseQueue(q, sp) == Restrict(q, {e \in DOMAIN q : RsegSpace[e[2]] # sp})

\* Leave trx_purge_truncate_history() (return or goto not_free).
UtReturn ==
  /\ pc' = "idle"
  /\ utPassed' = {}

\* The candidate loop with purge_sys.truncate.current == nullptr.
UtSelect ==
  /\ pc = "undotrunc"
  /\ truncCurrent = NoSpace
  /\ IF oversized = {} THEN UtReturn /\ UNCHANGED <<truncCurrent, truncLast>>
     ELSE /\ truncCurrent' = Candidate(oversized)
          /\ UNCHANGED <<pc, truncLast, utPassed>>
  /\ UNCHANGED oversized
  /\ UNCHANGED <<trxVars, rsegVars, queue, pRseg, nextStored, hdr, offset,
                 tail, head, pview, dmlDelay, nPages, nodes, tableMap, thrIdx,
                 committed, purged>>

\* One turn of the rseg loop: mark the rseg, then goto not_free or go on.
UtCheckRseg(r) ==
  /\ pc = "undotrunc"
  /\ truncCurrent # NoSpace
  /\ r \in RsegsOf(truncCurrent) \ utPassed
  /\ skipAlloc' = [skipAlloc EXCEPT ![r] = TRUE]
  /\ IF NotFree(r) THEN UtReturn
     ELSE /\ utPassed' = utPassed \cup {r}
          /\ UNCHANGED pc
  /\ UNCHANGED <<truncCurrent, truncLast, oversized>>
  /\ UNCHANGED <<trxVars, history, last, needsPurge, refCount, cached, currSize,
                 histSize, segState, segSize, undoTrxId, queue, pRseg,
                 nextStored, hdr, offset, tail, head, pview, dmlDelay, nPages, nodes,
                 tableMap, thrIdx, committed, purged>>

\* Mutant: purge_sys.rseg is kept after the recreate.
ResetIterRsegNever(r, lastNew) == FALSE

\* purge_sys.rseg is reset when it points to an rseg with no history left.
ResetIterRseg(r, lastNew) == r # NULL /\ lastNew[r] = FIL_NULL

\* Mutant: the cached undo segments are not freed by the recreate.
FreeCachedKeep(RS) == cached

\* The recreate loop frees every cached trx_undo_t of the rsegs of RS.
FreeCached(RS) == [r \in Rseg |-> IF r \in RS THEN <<>> ELSE cached[r]]

\* All rsegs passed: cleanse the queue, then fil_truncate_prepare() and the
\* recreate of every rseg header of the tablespace in one mini-transaction.
UtTruncate ==
  /\ pc = "undotrunc"
  /\ truncCurrent # NoSpace
  /\ RsegsOf(truncCurrent) \subseteq utPassed
  /\ LET sp == truncCurrent
         RS == RsegsOf(sp)
         lastNew == [r \in Rseg |-> IF r \in RS THEN FIL_NULL ELSE last[r]]
         reset == ResetIterRseg(pRseg, lastNew)
     IN /\ queue' = CleanseQueue(queue, sp)
        /\ \E ok \in PrepareOutcomes :
             IF ~ok
             THEN /\ UtReturn
                  /\ UNCHANGED <<truncCurrent, truncLast, oversized, rsegVars,
                                 pRseg, nextStored>>
             ELSE /\ history' = [r \in Rseg |-> IF r \in RS THEN <<>> ELSE history[r]]
                  /\ last' = lastNew
                  /\ cached' = FreeCached(RS)
                  /\ currSize' = [r \in Rseg |-> IF r \in RS THEN 1 ELSE currSize[r]]
                  /\ histSize' = [r \in Rseg |-> IF r \in RS THEN 0 ELSE histSize[r]]
                  /\ refCount' = [r \in Rseg |-> IF r \in RS THEN 0 ELSE refCount[r]]
                  /\ needsPurge' = [r \in Rseg |-> IF r \in RS THEN 0 ELSE needsPurge[r]]
                  /\ skipAlloc' = [r \in Rseg |-> IF r \in RS THEN FALSE ELSE skipAlloc[r]]
                  /\ segState' = [s \in Seg |-> IF SegRseg[s] \in RS THEN "free" ELSE segState[s]]
                  /\ segSize' = [s \in Seg |-> IF SegRseg[s] \in RS THEN 0 ELSE segSize[s]]
                  /\ pRseg' = IF reset THEN NULL ELSE pRseg
                  /\ nextStored' = IF reset THEN FALSE ELSE nextStored
                  /\ truncLast' = sp
                  /\ truncCurrent' = NoSpace
                  /\ utPassed' = {}
                  /\ oversized' = oversized \ {sp}
                  /\ UNCHANGED <<pc, undoTrxId>>
  /\ UNCHANGED <<trxVars, hdr, offset, tail, head, pview, dmlDelay, nPages, nodes,
                 tableMap, thrIdx, committed, purged>>

InitU ==
  /\ Init
  /\ truncCurrent = NoSpace
  /\ truncLast = NoSpace
  /\ utPassed = {}
  /\ oversized = {}

\* An undo tablespace file is extended past srv_max_undo_log_size by the
\* allocation of undo pages (fsp_try_extend_data_file, not in this source).
UndoGrow(sp) ==
  /\ sp \notin oversized
  /\ oversized' = oversized \cup {sp}
  /\ UNCHANGED <<vars, truncCurrent, truncLast, utPassed>>

NextU ==
  \/ Next /\ UNCHANGED utVars
  \/ UtSelect
  \/ \E r \in Rseg : UtCheckRseg(r)
  \/ UtTruncate
  \/ \E sp \in Space : UndoGrow(sp)

SpecU == InitU /\ [][NextU]_allVars

\* Fairness of the composition: that of TrxPurge; committing transactions
\* (an environment assumption: a transaction does not stay open forever);
\* the coordinator enters history truncation infinitely often when it
\* may (innodb_purge_rseg_truncate_frequency makes every n-th batch do so);
\* and the steps of trx_purge_truncate_history() are weakly fair.
FairnessU ==
  /\ WF_allVars(BatchStart /\ UNCHANGED utVars)
  /\ (<>[](pc = "attach") => []<><<AttachStep /\ UNCHANGED utVars>>_allVars)
  /\ \A n \in Node : WF_allVars(PurgeWorker(n) /\ UNCHANGED utVars)
  /\ SF_allVars(BatchEnd /\ pc' = "truncate" /\ UNCHANGED utVars)
  /\ WF_allVars(TruncateHistory /\ UNCHANGED utVars)
  /\ \A t \in Trx : WF_allVars(CommitTrx(t) /\ UNCHANGED utVars)
  /\ WF_allVars(UtSelect)
  /\ \A r \in Rseg : WF_allVars(UtCheckRseg(r))
  /\ WF_allVars(UtTruncate)

FairSpecU == SpecU /\ FairnessU

(***************************************************************************)
(* Properties                                                              *)
(***************************************************************************)
\* An rseg that passed the not_free checks stays quiescent until its
\* tablespace is recreated: skip_allocation keeps trx_assign_rseg_low()
\* from handing it to a new transaction, so no transaction is active on it
\* and trx_ref_count is 0 (the ut_ad(!rseg->trx_ref_count) and
\* ut_a(UT_LIST_GET_LEN(rseg->undo_list) == 0) of the recreate loop).
PassedQuiescent ==
  \A r \in utPassed :
    /\ skipAlloc[r]
    /\ refCount[r] = 0
    /\ \A t \in Trx : trxState[t] = "active" => trxRseg[t] # r

\* The ut_ad(!head.trx_no || rseg->needs_purge <= head.trx_no) of the
\* recreate loop: every rseg that passed the checks has nothing left that
\* the purge position has not reached.
PassedNeedsPurged ==
  \A r \in utPassed : head.no = 0 \/ needsPurge[r] <= head.no

\* Once an rseg is marked skip_allocation it is eventually truncated and
\* handed out again: purge drains it, its transactions commit, and the
\* truncation of its tablespace (purge_sys.truncate.current, kept across
\* calls) eventually succeeds.
SkipCleared == \A r \in Rseg : skipAlloc[r] ~> ~skipAlloc[r]

====
