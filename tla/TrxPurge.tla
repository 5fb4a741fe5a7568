------------------------------ MODULE TrxPurge ------------------------------
(***************************************************************************)
(* The purge of committed undo logs, storage/innobase/trx/trx0purge.cc.    *)
(*                                                                         *)
(* Committing transactions append their undo log to the history list of    *)
(* their rollback segment (rseg) and, when the rseg has no pending log,    *)
(* push it on the purge queue.  The purge coordinator runs batches: it     *)
(* clones the oldest read view, walks the undo records in trx_no order     *)
(* through the queue and the per-rseg "last" pointers, hands every record  *)
(* to a worker node chosen by table id, waits for the workers, and         *)
(* sometimes truncates the history lists below its purge position.         *)
(*                                                                         *)
(* Data abstraction: a trx_no or trx_id is a value of the one counter      *)
(* trx_sys.max_trx_id; an undo log is a record [no, id, seg, next, lo,     *)
(* recs] where recs[u+1] is the table of the record with undo_no u and lo  *)
(* is the first undo_no not yet truncated from the start of the log; a     *)
(* history list is kept oldest first (flst "last" is index 1).  Pages      *)
(* hold RecsPerPage records; an undo segment is a model value.             *)
(***************************************************************************)
EXTENDS Integers, SequencesExt, BagsExt, DmlDelay

CONSTANTS
  Rseg,          \* rollback segments (trx_sys.rseg_array)
  Trx,           \* read-write transactions
  View,          \* read views of consistent-read transactions
  Table,         \* table ids of undo records
  Seg,           \* undo log segments
  SegRseg,       \* the rseg whose slots hold each segment
  MaxTrxId,      \* bound on trx_sys.max_trx_id
  MaxRecs,       \* bound on undo records per undo log
  RecsPerPage,   \* undo records per undo page
  BatchSize,     \* srv_purge_batch_size (pages)
  NPurgeThreads, \* n_tasks of trx_purge()
  UndoTruncation, \* srv_undo_tablespaces_active >= 2 /\ srv_undo_log_truncate
  MaxPurgeLag,   \* srv_max_purge_lag (innodb_max_purge_lag, 0 = no limit)
  MaxPurgeLagDelay, \* srv_max_purge_lag_delay (microseconds)
  NULL           \* no rseg / no segment / no view

ASSUME /\ SegRseg \in [Seg -> Rseg]
       /\ MaxTrxId \in Nat \ {0}
       /\ MaxRecs \in Nat \ {0}
       /\ RecsPerPage \in Nat \ {0}
       /\ BatchSize \in Nat \ {0}
       /\ NPurgeThreads \in Nat \ {0}
       /\ UndoTruncation \in BOOLEAN
       /\ MaxPurgeLag \in Nat /\ MaxPurgeLagDelay \in Nat

FIL_NULL == 0                \* rseg->last_page_no = FIL_NULL: trx_no 0 is never used
Node == 0 .. NPurgeThreads - 1
NoRec == [none |-> TRUE]     \* trx_purge_fetch_next_rec() returned NULL
DummyRec == [dummy |-> TRUE] \* &trx_purge_dummy_rec

VARIABLES
  \* transaction system (trx_sys, trx_t, read views)
  trxState, trxId, trxRseg, trxSeg, trxRecs, maxTrxId, views,
  \* rollback segments (trx_rseg_t and the rseg header page)
  history, last, needsPurge, refCount, cached, skipAlloc, currSize, histSize,
  \* undo log segments: header state, size in pages, trx_undo_t::trx_id
  segState, segSize, undoTrxId,
  \* purge_sys
  queue, pRseg, nextStored, hdr, offset, tail, head, pview, dmlDelay,
  pc, nPages, nodes, tableMap, thrIdx,
  \* history variables: every committed undo record, every purged record
  committed, purged

trxVars == <<trxState, trxId, trxRseg, trxSeg, trxRecs, maxTrxId, views>>
rsegVars == <<history, last, needsPurge, refCount, cached, skipAlloc,
              currSize, histSize, segState, segSize, undoTrxId>>
purgeVars == <<queue, pRseg, nextStored, hdr, offset, tail, head, pview,
               dmlDelay, pc, nPages, nodes, tableMap, thrIdx>>
vars == <<trxVars, rsegVars, purgeVars, committed, purged>>

UndoRec == [rseg : Rseg, no : 1 .. MaxTrxId, undo : 0 .. MaxRecs - 1, table : Table]
Pos == [no : 0 .. MaxTrxId + 1, undo : 0 .. MaxRecs]
\* purge_sys_t::iterator::operator<=
PosLeq(a, b) == a.no < b.no \/ (a.no = b.no /\ a.undo <= b.undo)
PageOf(u) == u \div RecsPerPage

\* The undo log of rseg r with trx_no no, and its index in history[r].
LogIdx(r, no) == CHOOSE i \in DOMAIN history[r] : history[r][i].no = no
Log(r, no) == history[r][LogIdx(r, no)]
RecsOf(r, L) == {[rseg |-> r, no |-> L.no, undo |-> u, table |-> L.recs[u + 1]] :
                   u \in L.lo .. Len(L.recs) - 1}
Pending == UNION {ToSet(nodes[n]) : n \in Node}
Dispatched == purged \cup Pending
ActiveIds == {trxId[t] : t \in {x \in Trx : trxState[x] = "active"}}
HistoryLen == SumFunction([r \in Rseg |-> Len(history[r])])  \* trx_sys.rseg_history_len

(***************************************************************************)
(* Read views (read0read.cc, trx0sys.cc).  A commit is one step, so no     *)
(* transaction is ever between its serialisation and the end of its        *)
(* commit, and low_limit_no = low_limit_id = max_trx_id at snapshot.       *)
(***************************************************************************)
Snapshot == [limit |-> maxTrxId, ids |-> ActiveIds]
\* ReadViewBase::changes_visible(id)
Sees(v, id) == id < v.limit /\ id \notin v.ids
\* purge_sys_t::clone_oldest_view(): the purge view is no newer than any open view
CloneOldestView ==
  LET open == {views[v] : v \in {w \in View : views[w] # NULL}}
  IN [limit |-> Min({maxTrxId} \cup {o.limit : o \in open}),
      ids |-> ActiveIds \cup UNION {o.ids : o \in open}]

OpenView(v) ==
  /\ views[v] = NULL
  /\ views' = [views EXCEPT ![v] = Snapshot]
  /\ UNCHANGED <<trxState, trxId, trxRseg, trxSeg, trxRecs, maxTrxId>>
  /\ UNCHANGED <<rsegVars, purgeVars, committed, purged>>

CloseView(v) ==
  /\ views[v] # NULL
  /\ views' = [views EXCEPT ![v] = NULL]
  /\ UNCHANGED <<trxState, trxId, trxRseg, trxSeg, trxRecs, maxTrxId>>
  /\ UNCHANGED <<rsegVars, purgeVars, committed, purged>>

(***************************************************************************)
(* A transaction is assigned an rseg that is not being truncated, a trx    *)
(* id, and an undo log segment: the first cached one of the rseg, whose    *)
(* previous log gets TRX_UNDO_NEXT_LOG, or a new one (trx_assign_rseg_low, *)
(* trx_undo_assign_low, trx_undo_reuse_cached, trx_undo_create).           *)
(***************************************************************************)
\* Bound: a transaction starts only if it and every active one can still
\* be given a trx_no below MaxTrxId, so that no run ends with a transaction
\* that can never commit.
TrxIdRoom == maxTrxId + Cardinality({x \in Trx : trxState[x] = "active"}) + 2 <= MaxTrxId

\* Mutant: skip_allocation is not tested when an rseg is assigned.
StartTrxIgnoreSkip(t, r, tb) ==
  /\ trxState[t] = "idle"
  /\ TrxIdRoom
  /\ \E s \in Seg :
       /\ IF cached[r] # <<>>
            THEN /\ s = Head(cached[r])
                 /\ cached' = [cached EXCEPT ![r] = Tail(@)]
                 /\ history' = [history EXCEPT ![r] =
                      [i \in DOMAIN @ |-> IF @[i].seg = s
                                          THEN [@[i] EXCEPT !.next = TRUE]
                                          ELSE @[i]]]
                 /\ UNCHANGED <<currSize, segSize>>
            ELSE /\ segState[s] = "free" /\ SegRseg[s] = r
                 /\ segSize' = [segSize EXCEPT ![s] = 1]
                 /\ currSize' = [currSize EXCEPT ![r] = @ + 1]
                 /\ UNCHANGED <<cached, history>>
       /\ segState' = [segState EXCEPT ![s] = "active"]
       /\ trxSeg' = [trxSeg EXCEPT ![t] = s]
       /\ undoTrxId' = [undoTrxId EXCEPT ![s] = maxTrxId]
  /\ trxState' = [trxState EXCEPT ![t] = "active"]
  /\ trxId' = [trxId EXCEPT ![t] = maxTrxId]
  /\ trxRseg' = [trxRseg EXCEPT ![t] = r]
  /\ trxRecs' = [trxRecs EXCEPT ![t] = <<tb>>]
  /\ maxTrxId' = maxTrxId + 1
  /\ refCount' = [refCount EXCEPT ![r] = @ + 1]
  /\ needsPurge' = [needsPurge EXCEPT ![r] = IF @ <= maxTrxId THEN maxTrxId + 1 ELSE @]
  /\ UNCHANGED <<views, last, skipAlloc, histSize, purgeVars, committed, purged>>

StartTrx(t, r, tb) ==
  /\ trxState[t] = "idle"
  /\ ~skipAlloc[r]
  /\ TrxIdRoom
  /\ \E s \in Seg :
       /\ IF cached[r] # <<>>
            THEN /\ s = Head(cached[r])
                 /\ cached' = [cached EXCEPT ![r] = Tail(@)]
                 /\ history' = [history EXCEPT ![r] =
                      [i \in DOMAIN @ |-> IF @[i].seg = s
                                          THEN [@[i] EXCEPT !.next = TRUE]
                                          ELSE @[i]]]
                 /\ UNCHANGED <<currSize, segSize>>
            ELSE /\ segState[s] = "free" /\ SegRseg[s] = r
                 /\ segSize' = [segSize EXCEPT ![s] = 1]
                 /\ currSize' = [currSize EXCEPT ![r] = @ + 1]
                 /\ UNCHANGED <<cached, history>>
       /\ segState' = [segState EXCEPT ![s] = "active"]
       /\ trxSeg' = [trxSeg EXCEPT ![t] = s]
       /\ undoTrxId' = [undoTrxId EXCEPT ![s] = maxTrxId]
  /\ trxState' = [trxState EXCEPT ![t] = "active"]
  /\ trxId' = [trxId EXCEPT ![t] = maxTrxId]
  /\ trxRseg' = [trxRseg EXCEPT ![t] = r]
  /\ trxRecs' = [trxRecs EXCEPT ![t] = <<tb>>]
  /\ maxTrxId' = maxTrxId + 1
  /\ refCount' = [refCount EXCEPT ![r] = @ + 1]
  /\ needsPurge' = [needsPurge EXCEPT ![r] = IF @ <= maxTrxId THEN maxTrxId + 1 ELSE @]
  /\ UNCHANGED <<views, last, skipAlloc, histSize, purgeVars, committed, purged>>

\* trx_undo_report_row_operation(): one more undo record, maybe on a new page
WriteUndo(t, tb) ==
  /\ trxState[t] = "active"
  /\ Len(trxRecs[t]) < MaxRecs
  /\ LET s == trxSeg[t]
         pages == PageOf(Len(trxRecs[t])) + 1
         grow == IF pages > segSize[s] THEN 1 ELSE 0
     IN /\ segSize' = [segSize EXCEPT ![s] = @ + grow]
        /\ currSize' = [currSize EXCEPT ![trxRseg[t]] = @ + grow]
  /\ trxRecs' = [trxRecs EXCEPT ![t] = Append(@, tb)]
  /\ UNCHANGED <<trxState, trxId, trxRseg, trxSeg, maxTrxId, views>>
  /\ UNCHANGED <<history, last, needsPurge, refCount, cached, skipAlloc,
                 histSize, segState, undoTrxId, purgeVars, committed, purged>>

(***************************************************************************)
(* Commit: trx_serialisation_number_get() gives trx_no and pushes the rseg *)
(* on the purge queue if it has no pending log; trx_undo_set_state_at_    *)
(* finish() makes a one-page segment CACHED or TO_PURGE; then              *)
(* trx_purge_add_undo_to_history() adds the log to the history list.  All  *)
(* of it runs under rseg->mutex, which set_next() also takes.              *)
(***************************************************************************)
\* Mutant: a cached segment is counted in TRX_RSEG_HISTORY_SIZE.
AddUndoToHistoryCountCached(t, no, isCached) ==
  LET r == trxRseg[t]
      s == trxSeg[t]
  IN /\ histSize' = [histSize EXCEPT ![r] = @ + segSize[s]]
     /\ history' = [history EXCEPT ![r] = Append(@, [no |-> no, id |-> trxId[t],
                       seg |-> s, next |-> FALSE, lo |-> 0, recs |-> trxRecs[t]])]
     /\ last' = [last EXCEPT ![r] = IF @ = FIL_NULL THEN no ELSE @]
     /\ cached' = [cached EXCEPT ![r] = IF isCached THEN <<s>> \o @ ELSE @]
     /\ segState' = [segState EXCEPT ![s] = IF isCached THEN "cached" ELSE "to_purge"]

trx_purge_add_undo_to_history(t, no, isCached) ==
  LET r == trxRseg[t]
      s == trxSeg[t]
  IN /\ histSize' = [histSize EXCEPT ![r] = IF isCached THEN @ ELSE @ + segSize[s]]
     /\ history' = [history EXCEPT ![r] = Append(@, [no |-> no, id |-> trxId[t],
                       seg |-> s, next |-> FALSE, lo |-> 0, recs |-> trxRecs[t]])]
     /\ last' = [last EXCEPT ![r] = IF @ = FIL_NULL THEN no ELSE @]
     /\ cached' = [cached EXCEPT ![r] = IF isCached THEN <<s>> \o @ ELSE @]
     /\ segState' = [segState EXCEPT ![s] = IF isCached THEN "cached" ELSE "to_purge"]

CommitTrx(t) ==
  /\ trxState[t] = "active"
  /\ maxTrxId < MaxTrxId
  /\ LET r == trxRseg[t]
         no == maxTrxId
     IN /\ queue' = IF last[r] = FIL_NULL THEN BagAdd(queue, <<no, r>>) ELSE queue
        /\ \E isCached \in IF segSize[trxSeg[t]] = 1 THEN BOOLEAN ELSE {FALSE} :
             trx_purge_add_undo_to_history(t, no, isCached)
        /\ committed' = committed \cup
             {[rseg |-> r, no |-> no, undo |-> u, table |-> trxRecs[t][u + 1]] :
                u \in 0 .. Len(trxRecs[t]) - 1}
        /\ refCount' = [refCount EXCEPT ![r] = @ - 1]
  /\ maxTrxId' = maxTrxId + 1
  /\ trxState' = [trxState EXCEPT ![t] = "idle"]
  /\ UNCHANGED <<trxId, trxRseg, trxSeg, trxRecs, views>>
  /\ UNCHANGED <<needsPurge, skipAlloc, currSize, segSize, undoTrxId>>
  /\ UNCHANGED <<pRseg, nextStored, hdr, offset, tail, head, pview, dmlDelay, pc,
                 nPages, nodes, tableMap, thrIdx, purged>>

(***************************************************************************)
(* The purge iterator.  Each operator maps an iterator state               *)
(*   [queue, last, rseg, stored, hdr, offset, tail, pages]                 *)
(* to the next one, the way the C function updates purge_sys.  offset 0 is *)
(* the dummy record (nothing to purge in this log), otherwise offset - 1   *)
(* is the undo_no of the next record to fetch.                             *)
(***************************************************************************)
IterState == [queue |-> queue, last |-> last, rseg |-> pRseg, stored |-> nextStored,
              hdr |-> hdr, offset |-> offset, tail |-> tail, pages |-> nPages]

\* Mutant: a max-heap instead of a min-heap (std::greater swapped).
SetNextMaxFirst(s) ==
  LET q == BagToSet(s.queue)
      e == CHOOSE x \in q : \A y \in q : x[1] >= y[1]
      r == e[2]
  IN [s EXCEPT !.queue = BagRemove(@, e), !.rseg = r,
               !.tail = [@ EXCEPT !.no = s.last[r]], !.hdr = s.last[r]]

\* TrxUndoRsegsIterator::set_next() with a non-empty queue.  Every queue
\* element holds the single rseg it was built from, so m_iter is at its end
\* whenever set_next() is called and a new element is popped.
SetNext(s) ==
  LET q == BagToSet(s.queue)
      e == CHOOSE x \in q : \A y \in q : x[1] <= y[1]
      r == e[2]
  IN [s EXCEPT !.queue = BagRemove(@, e), !.rseg = r,
               !.tail = [@ EXCEPT !.no = s.last[r]], !.hdr = s.last[r]]

\* trx_purge_read_undo_rec()
ReadUndoRec(s) ==
  LET r == s.rseg
      L == Log(r, s.last[r])
      first == IF needsPurge[r] # 0 /\ L.lo < Len(L.recs) THEN L.lo + 1 ELSE 0
  IN [s EXCEPT !.hdr = s.last[r], !.offset = first,
               !.tail = [@ EXCEPT !.undo = IF first = 0 THEN 0 ELSE first - 1],
               !.stored = TRUE]

\* trx_purge_choose_next_log()
ChooseNextLog(s) ==
  IF BagToSet(s.queue) = {} THEN [s EXCEPT !.rseg = NULL]
  ELSE ReadUndoRec(SetNext(s))

\* Mutant: last_page_no is not reset to FIL_NULL at the end of the list.
GetNextHistoryLogKeepLast(s) ==
  LET r == s.rseg
      h == history[r]
      i == LogIdx(r, s.last[r])
      s1 == [s EXCEPT !.tail = [no |-> s.last[r] + 1, undo |-> 0],
                      !.stored = FALSE, !.pages = @ + 1]
  IN IF i = Len(h) THEN s1
     ELSE [s1 EXCEPT !.last[r] = h[i + 1].no,
                     !.queue = BagAdd(@, <<h[i + 1].no, r>>)]

\* Mutant: the rseg is not pushed back on the purge queue.
GetNextHistoryLogNoPush(s) ==
  LET r == s.rseg
      h == history[r]
      i == LogIdx(r, s.last[r])
      s1 == [s EXCEPT !.tail = [no |-> s.last[r] + 1, undo |-> 0],
                      !.stored = FALSE, !.pages = @ + 1]
  IN IF i = Len(h) THEN [s1 EXCEPT !.last[r] = FIL_NULL]
     ELSE [s1 EXCEPT !.last[r] = h[i + 1].no]

\* trx_purge_rseg_get_next_history_log(): step to the next newer log
GetNextHistoryLog(s) ==
  LET r == s.rseg
      h == history[r]
      i == LogIdx(r, s.last[r])
      s1 == [s EXCEPT !.tail = [no |-> s.last[r] + 1, undo |-> 0],
                      !.stored = FALSE, !.pages = @ + 1]
  IN IF i = Len(h) THEN [s1 EXCEPT !.last[r] = FIL_NULL]
     ELSE [s1 EXCEPT !.last[r] = h[i + 1].no,
                     !.queue = BagAdd(@, <<h[i + 1].no, r>>)]

\* trx_purge_get_next_rec(): returns [st |-> iterator state, rec |-> record]
GetNextRec(s) ==
  IF s.offset = 0
  THEN [st |-> ChooseNextLog(GetNextHistoryLog(s)), rec |-> DummyRec]
  ELSE LET r == s.rseg
           L == Log(r, s.hdr)
           u == s.offset - 1
           rec == [rseg |-> r, no |-> s.hdr, undo |-> u, table |-> L.recs[u + 1]]
       IN IF u + 1 >= Len(L.recs)
          THEN [st |-> ChooseNextLog(GetNextHistoryLog(s)), rec |-> rec]
          ELSE [st |-> [s EXCEPT !.offset = u + 2, !.tail = [@ EXCEPT !.undo = u + 1],
                          !.pages = @ + IF PageOf(u + 1) # PageOf(u) THEN 1 ELSE 0],
                rec |-> rec]

\* trx_purge_fetch_next_rec()
FetchNextRec(s) ==
  LET s1 == IF s.stored THEN s ELSE ChooseNextLog(s)
  IN IF ~s1.stored \/ s1.tail.no >= pview.limit THEN [st |-> s1, rec |-> NoRec]
     ELSE GetNextRec(s1)

SetIterState(s) ==
  /\ queue' = s.queue
  /\ last' = s.last
  /\ pRseg' = s.rseg
  /\ nextStored' = s.stored
  /\ hdr' = s.hdr
  /\ offset' = s.offset
  /\ tail' = s.tail
  /\ nPages' = s.pages

(***************************************************************************)
(* The purge coordinator: trx_purge() runs one batch.                      *)
(***************************************************************************)
\* trx_purge() up to trx_purge_attach_undo_recs(): publish the DML delay,
\* clone the oldest view, start the batch at the current tail, forget the table-to-node map.
BatchStart ==
  /\ pc = "idle"
  /\ dmlDelay' \in DmlDelay(HistoryLen, MaxPurgeLag, MaxPurgeLagDelay)
  /\ pview' = CloneOldestView
  /\ head' = tail
  /\ nPages' = 0
  /\ tableMap' = [x \in {} |-> 0]
  /\ thrIdx' = 0
  /\ pc' = "attach"
  /\ UNCHANGED <<trxVars, rsegVars, queue, pRseg, nextStored, hdr, offset,
                 tail, nodes, committed, purged>>

\* Mutant: the new table is not entered in table_id_map.
DispatchRecNoMap(rec) ==
  LET known == rec.table \in DOMAIN tableMap
      n == IF known THEN tableMap[rec.table] ELSE thrIdx
  IN /\ nodes' = [nodes EXCEPT ![n] = Append(@, rec)]
     /\ tableMap' = tableMap
     /\ thrIdx' = IF known THEN thrIdx ELSE (thrIdx + 1) % NPurgeThreads

\* Mutant: the round-robin index is not wrapped at n_purge_threads.
DispatchRecNoWrap(rec) ==
  LET known == rec.table \in DOMAIN tableMap
      n == IF known THEN tableMap[rec.table] ELSE thrIdx
  IN /\ nodes' = [nodes EXCEPT ![n] = Append(@, rec)]
     /\ tableMap' = IF known THEN tableMap ELSE (rec.table :> n) @@ tableMap
     /\ thrIdx' = IF known THEN thrIdx ELSE thrIdx + 1

\* Queue a record on the node of its table (table_id_map), or on the node
\* of the current thr, which then advances round-robin.
DispatchRec(rec) ==
  LET known == rec.table \in DOMAIN tableMap
      n == IF known THEN tableMap[rec.table] ELSE thrIdx
  IN /\ nodes' = [nodes EXCEPT ![n] = Append(@, rec)]
     /\ tableMap' = IF known THEN tableMap ELSE (rec.table :> n) @@ tableMap
     /\ thrIdx' = IF known THEN thrIdx ELSE (thrIdx + 1) % NPurgeThreads

\* One turn of the loop in trx_purge_attach_undo_recs(): advance head,
\* fetch a record, give it to the node that already has its table or else
\* to the next node round-robin, stop at NULL or when BatchSize pages were
\* handled (a dummy record skips that test).
AttachStep ==
  /\ pc = "attach"
  /\ LET res == FetchNextRec(IterState)
         rec == res.rec
     IN /\ SetIterState(res.st)
        /\ head' = IF PosLeq(head, tail) THEN tail ELSE head
        /\ IF DOMAIN rec # DOMAIN DummyRec /\ DOMAIN rec # DOMAIN NoRec
             THEN /\ DispatchRec(rec)
                  /\ pc' = IF res.st.pages >= BatchSize THEN "run" ELSE "attach"
             ELSE /\ pc' = IF DOMAIN rec = DOMAIN NoRec THEN "run" ELSE "attach"
                  /\ UNCHANGED <<nodes, tableMap, thrIdx>>
  /\ UNCHANGED <<trxVars, history, needsPurge, refCount, cached, skipAlloc,
                 currSize, histSize, segState, segSize, undoTrxId, pview, dmlDelay,
                 committed, purged>>

\* A purge worker, or the coordinator itself (que_run_threads), runs the
\* row purge of the next record of its node (row_purge_step).
PurgeWorker(n) ==
  /\ pc = "run"
  /\ nodes[n] # <<>>
  /\ purged' = purged \cup {Head(nodes[n])}
  /\ nodes' = [nodes EXCEPT ![n] = Tail(@)]
  /\ UNCHANGED <<trxVars, rsegVars, queue, pRseg, nextStored, hdr, offset,
                 tail, head, pview, dmlDelay, pc, nPages, tableMap, thrIdx, committed>>

\* trx_purge_wait_for_workers_to_complete(); the caller then may or may not
\* call trx_purge_truncate_history() (every innodb_purge_rseg_truncate_frequency
\* batches).
BatchEnd ==
  /\ pc = "run"
  /\ \A n \in Node : nodes[n] = <<>>
  /\ pc' \in {"idle", "truncate"}
  /\ UNCHANGED <<trxVars, rsegVars, queue, pRseg, nextStored, hdr, offset,
                 tail, head, pview, dmlDelay, nPages, nodes, tableMap, thrIdx,
                 committed, purged>>

(***************************************************************************)
(* History truncation.                                                     *)
(***************************************************************************)
\* trx_undo_truncate_start(): free the pages of the log whose records all
\* precede limit undo_no; the header page is emptied instead of freed.
TruncateStart(L, undo) ==
  [L EXCEPT !.lo = IF undo >= Len(L.recs) THEN Len(L.recs)
                   ELSE Max({@, PageOf(undo) * RecsPerPage})]

\* Mutant: the log at the limit trx_no counts as below it (> for >=).
BeyondLimitStrict(L, limit) == L.no > limit.no

\* undo_trx_no >= limit.trx_no: the walk stops at this log.
BeyondLimit(L, limit) == L.no >= limit.no

\* Mutant: TRX_UNDO_NEXT_LOG is not tested.
FreeSegmentAny(L) == segState[L.seg] = "to_purge"

\* The whole segment of the log can be freed (trx_purge_free_segment).
FreeSegment(L) == segState[L.seg] = "to_purge" /\ ~L.next

\* trx_purge_truncate_rseg_history(): from the oldest log, remove every log
\* with trx_no below the limit (only if all), free the segment of a
\* TO_PURGE log that has no next log, truncate the start of the log at the
\* limit.  Result: the history left and the segments freed.
RECURSIVE TruncRsegHistory(_, _, _)
TruncRsegHistory(h, limit, all) ==
  IF h = <<>> THEN [h |-> h, freed |-> {}]
  ELSE LET L == Head(h) IN
    IF BeyondLimit(L, limit)
      THEN [h |-> IF L.no = limit.no THEN <<TruncateStart(L, limit.undo)>> \o Tail(h)
                  ELSE h,
            freed |-> {}]
    ELSE IF ~all THEN [h |-> h, freed |-> {}]
    ELSE LET rest == TruncRsegHistory(Tail(h), limit, all)
         IN [h |-> rest.h, freed |-> rest.freed \cup (IF FreeSegment(L) THEN {L.seg} ELSE {})]

SegPages(S) == SumFunctionOnSet(segSize, S)

\* trx_purge_truncate_history() up to the undo tablespace truncation: take
\* head (or tail while head.trx_no is 0), clamp it to low_limit_no, and
\* truncate every rseg, removing everything only if no transaction uses
\* the rseg and the purge view sees rseg->needs_purge.  With two or more
\* undo tablespaces and innodb_undo_log_truncate the function goes on to
\* the tablespace truncation (module UndoTruncate).
TruncateHistory ==
  /\ pc = "truncate"
  /\ LET useHead == head.no # 0
         h0 == IF useHead THEN head ELSE tail
         limit == IF h0.no >= pview.limit THEN [no |-> pview.limit, undo |-> 0] ELSE h0
         res == [r \in Rseg |-> TruncRsegHistory(history[r], limit,
                                  refCount[r] = 0 /\ Sees(pview, needsPurge[r]))]
         freed == UNION {res[r].freed : r \in Rseg}
     IN /\ head' = IF useHead THEN limit ELSE head
        /\ tail' = IF useHead THEN tail ELSE limit
        /\ history' = [r \in Rseg |-> res[r].h]
        /\ segState' = [s \in Seg |-> IF s \in freed THEN "free" ELSE segState[s]]
        /\ currSize' = [r \in Rseg |-> currSize[r] - SegPages(res[r].freed)]
        /\ histSize' = [r \in Rseg |-> histSize[r] - SegPages(res[r].freed)]
  /\ pc' = IF UndoTruncation THEN "undotrunc" ELSE "idle"
  /\ UNCHANGED <<trxVars, last, needsPurge, refCount, cached, skipAlloc, segSize, undoTrxId,
                 queue, pRseg, nextStored, hdr, offset, pview, dmlDelay, nPages, nodes,
                 tableMap, thrIdx, committed, purged>>

(***************************************************************************)
(* Specification                                                           *)
(***************************************************************************)
Init ==
  /\ trxState = [t \in Trx |-> "idle"]
  /\ trxId = [t \in Trx |-> 0]
  /\ trxRseg = [t \in Trx |-> NULL]
  /\ trxSeg = [t \in Trx |-> NULL]
  /\ trxRecs = [t \in Trx |-> <<>>]
  /\ maxTrxId = 1
  /\ views = [v \in View |-> NULL]
  /\ history = [r \in Rseg |-> <<>>]
  /\ last = [r \in Rseg |-> FIL_NULL]
  /\ needsPurge = [r \in Rseg |-> 0]
  /\ refCount = [r \in Rseg |-> 0]
  /\ cached = [r \in Rseg |-> <<>>]
  /\ skipAlloc = [r \in Rseg |-> FALSE]
  /\ currSize = [r \in Rseg |-> 1]
  /\ histSize = [r \in Rseg |-> 0]
  /\ segState = [s \in Seg |-> "free"]
  /\ segSize = [s \in Seg |-> 0]
  /\ undoTrxId = [s \in Seg |-> 0]
  /\ queue = EmptyBag
  /\ pRseg = NULL
  /\ nextStored = FALSE
  /\ hdr = 0
  /\ offset = 0
  /\ tail = [no |-> 0, undo |-> 0]
  /\ head = [no |-> 0, undo |-> 0]
  /\ pview = [limit |-> 1, ids |-> {}]
  /\ dmlDelay = 0
  /\ pc = "idle"
  /\ nPages = 0
  /\ nodes = [n \in Node |-> <<>>]
  /\ tableMap = [x \in {} |-> 0]
  /\ thrIdx = 0
  /\ committed = {}
  /\ purged = {}

Next ==
  \/ \E t \in Trx, r \in Rseg, tb \in Table : StartTrx(t, r, tb)
  \/ \E t \in Trx, tb \in Table : WriteUndo(t, tb)
  \/ \E t \in Trx : CommitTrx(t)
  \/ \E v \in View : OpenView(v) \/ CloseView(v)
  \/ BatchStart
  \/ AttachStep
  \/ \E n \in Node : PurgeWorker(n)
  \/ BatchEnd
  \/ TruncateHistory

\* The coordinator is woken while history exists and the workers are tasks
\* of the server's thread pool: their steps are weakly fair.  The second
\* conjunct is WF_vars(AttachStep) written out: AttachStep is enabled in
\* every state with pc = "attach" and always changes the iterator or pc.
Fairness ==
  /\ WF_vars(BatchStart)
  /\ (<>[](pc = "attach") => []<><<AttachStep>>_vars)
  /\ \A n \in Node : WF_vars(PurgeWorker(n))
  /\ WF_vars(BatchEnd)
  /\ WF_vars(TruncateHistory)

Spec == Init /\ [][Next]_vars
FairSpec == Spec /\ Fairness

(***************************************************************************)
(* Properties                                                              *)
(***************************************************************************)
TypeOK ==
  /\ trxState \in [Trx -> {"idle", "active"}]
  /\ maxTrxId \in 1 .. MaxTrxId
  /\ trxRecs \in [Trx -> Seq(Table)]
  /\ \A r \in Rseg : last[r] \in 0 .. MaxTrxId /\ refCount[r] \in Nat
  /\ currSize \in [Rseg -> Nat \ {0}]
  /\ histSize \in [Rseg -> Nat]
  /\ segState \in [Seg -> {"free", "active", "cached", "to_purge"}]
  /\ pRseg \in Rseg \cup {NULL}
  /\ thrIdx \in Node
  /\ tail \in Pos /\ head \in Pos
  /\ pc \in {"idle", "attach", "run", "truncate", "undotrunc"}
  /\ undoTrxId \in [Seg -> 0 .. MaxTrxId]
  /\ \A n \in Node : \A i \in DOMAIN nodes[n] : nodes[n][i] \in UndoRec
  /\ committed \subseteq UndoRec /\ purged \subseteq UndoRec

InHistory(c) == \E i \in DOMAIN history[c.rseg] :
                  /\ history[c.rseg][i].no = c.no
                  /\ c.undo >= history[c.rseg][i].lo

\* P2 of the spec, stated against the readers: no undo record that an open
\* read view may still need (trx_no >= its low_limit_no) is ever handed to
\* a purge worker.  It rests on clone_oldest_view() and on the
\* tail.trx_no >= low_limit_no test of trx_purge_fetch_next_rec().
NoPrematurePurge ==
  \A v \in View : views[v] # NULL =>
    \A d \in Dispatched : d.no < views[v].limit

\* No committed undo record leaves the history list before it was purged:
\* trx_purge_truncate_history() only removes what lies before the purge
\* position (head, or tail, clamped to low_limit_no), and that position
\* only passes records the iterator handed to the workers.
NoLostUndo ==
  \A c \in committed : c \in Dispatched \/ InHistory(c)

\* Records of one table are never held by two worker nodes at once:
\* table_id_map in trx_purge_attach_undo_recs() keeps every table of a
\* batch on the node that got its first record, so that two workers never
\* purge rows of the same table concurrently.
TableAffinity ==
  \A n, m \in Node : n # m =>
    {d.table : d \in ToSet(nodes[n])} \cap {d.table : d \in ToSet(nodes[m])} = {}

\* An undo segment is freed (trx_purge_free_segment) only when no undo log
\* in a history list, no active transaction and no cached-list entry
\* still lives in it: a reused cached segment carries the TRX_UNDO_NEXT_LOG
\* of its older log.
NoFreeLiveSegment ==
  \A s \in Seg : segState[s] = "free" =>
    /\ \A r \in Rseg : \A i \in DOMAIN history[r] : history[r][i].seg # s
    /\ \A t \in Trx : trxState[t] = "active" => trxSeg[t] # s
    /\ \A r \in Rseg : ~Contains(cached[r], s)

\* The purge queue and the rseg "last" pointers stay consistent with the
\* history lists (the ut_a/ut_ad of set_next() and of
\* trx_purge_rseg_get_next_history_log()): every queued rseg is queued
\* once, under the trx_no of its last pointer, not below tail; every last
\* pointer names a log still in the history; the stored purge position is
\* a log in the history at a record not truncated away.
IteratorConsistent ==
  /\ \A e \in BagToSet(queue) :
       /\ CopiesIn(e, queue) = 1
       /\ last[e[2]] = e[1]
       /\ tail.no <= e[1]
       /\ \A f \in BagToSet(queue) : f[2] = e[2] => f = e
  /\ \A r \in Rseg : last[r] # FIL_NULL =>
       \E i \in DOMAIN history[r] : history[r][i].no = last[r]
  /\ (pRseg # NULL /\ nextStored) =>
       \E i \in DOMAIN history[pRseg] :
         /\ history[pRseg][i].no = hdr
         /\ offset > 0 => offset - 1 >= history[pRseg][i].lo

\* rseg->curr_size counts the header page and every page of the undo
\* segments of the rseg, and TRX_RSEG_HISTORY_SIZE the pages of its
\* TO_PURGE segments (trx_purge_add_undo_to_history, trx_purge_free_segment).
SizeAccounting ==
  \A r \in Rseg :
    /\ currSize[r] = 1 + SegPages({s \in Seg : SegRseg[s] = r /\ segState[s] # "free"})
    /\ histSize[r] = SegPages({s \in Seg : SegRseg[s] = r /\ segState[s] = "to_purge"})

\* Every committed undo record is eventually handed to a worker and
\* purged, provided the coordinator and the workers keep being scheduled
\* (Fairness) and no read view holds the purge view back forever.  With
\* MaxTrxId bounding the commits, this is: from some point on, everything
\* committed has been purged.
EventuallyPurged ==
  <>[](committed \subseteq purged)

====
