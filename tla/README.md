# TLA+ models of InnoDB undo-log purge and its neighbours

These modules model the purge of committed undo logs in
`src/storage/innobase/trx/trx0purge.cc`, undo tablespace truncation, the DML
delay, the MHNSW vector index of `src/sql/vector_mhnsw.cc`, and the loading of
table definitions in `src/storage/innobase/dict/dict0load.cc`. TLC checks each
of them.

Purge has several actors:
- transactions committing into rollback segments;
- readers opening and closing views;
- one purge coordinator;
- the purge workers.

Their interleavings are what a unit test hardly reaches. So are the two counters
that tie the actors together, `purge_sys.head` and `purge_sys.tail`.

## The system

| part | code | what it does |
|---|---|---|
| rollback segment (rseg) | `trx_rseg_t`, rseg header page | Holds the history list of committed undo logs, newest first. `last_page_no`/`last_trx_no` locate the oldest unpurged log. Also holds `needs_purge`, `trx_ref_count`, `curr_size`, `TRX_RSEG_HISTORY_SIZE`, the cached undo segments and `skip_allocation`. |
| commit | `trx_purge_add_undo_to_history` (210-326) | Appends the log to the history. Makes a one-page segment CACHED for reuse, or TO_PURGE. The rseg is pushed on the purge queue if `last_page_no` was FIL_NULL. |
| purge queue | `purge_sys.purge_queue` | A min-heap of rsegs, keyed by the trx_no of their oldest unpurged log. |
| purge iterator | `set_next` (77-129) and `trx_purge_choose_next_log` … `trx_purge_fetch_next_rec` (812-1075) | Walks undo records in (trx_no, undo_no) order. `tail` is the next position. It stops at the fence `tail.trx_no >= low_limit_no`. |
| coordinator batch | `trx_purge` (1249-1287), `trx_purge_attach_undo_recs` (1082-1186) | Clones the oldest view and fetches records up to `srv_purge_batch_size` pages. Sends each record to its table's node or to the next node round-robin. Then waits for the workers. |
| history truncation | `trx_purge_truncate_history` (522-548), `trx_purge_truncate_rseg_history` (399-471), `trx_purge_free_segment` (346-391) | Removes the purged logs below `head`, or below `tail` while `head.trx_no` is 0, clamped to `low_limit_no`. Frees TO_PURGE segments. |
| undo tablespace truncation | `trx_purge_truncate_history` (550-806), `trx_purge_cleanse_purge_queue` (476-509) | Picks an oversized undo tablespace round-robin and stops allocation on its rsegs. Once every rseg passes the `not_free` checks, it shrinks the file and recreates the rseg headers. |
| DML delay | `trx_purge_dml_delay` (1193-1223) | Back-pressure delay from history length / `innodb_max_purge_lag`, published at each batch. |
| MHNSW index | `vector_mhnsw.cc` | The layered graph of `mhnsw_insert`, searched by `mhnsw_first`/`mhnsw_next`. |
| SYS_TABLES.TYPE decoding | `dict_sys_tables_rec_read` (563-669), `dict_sys_tables_type_to_tf` (457-476) | Turns the stored TYPE and N_COLS words into `dict_table_t::flags`, converting the TYPE format of MariaDB 10.2.2-10.2.6 (MDEV-12873). |
| dictionary load | `dict_load_table_one`, `dict_sys_tables_rec_read`, `dict_load_columns`, `dict_load_indexes`, `dict_load_fields` | Reads SYS_TABLES, SYS_COLUMNS, SYS_INDEXES and SYS_FIELDS READ COMMITTED. It reloads READ UNCOMMITTED when a column record shows an incomplete instant ALTER. |

Some code is not in this repository: transactions, read views, undo segment
allocation, DDL and row purge. The model includes it as the environment of the
code it checks, written from the spec, and marks it `spec_modelled` in the map.
A commit is one atomic step, so low_limit_no equals low_limit_id. A view's
`limit` is the `max_trx_id` at snapshot.

## Modules

### `TrxPurge.tla`: the core

State:
- **Transactions:** `trxState`, `trxId`, `trxRseg`, `trxSeg`, `trxRecs`, `maxTrxId`.
- **Read views:** `views`.
- **Per rseg:** `history`, `last`, `needsPurge`, `refCount`, `cached`, `skipAlloc`, `currSize`, `histSize`. History is oldest first; each log is `[no, id, seg, next, lo, recs]`.
- **Per segment:** `segState`, `segSize`.
- **`purge_sys`:**
  - `queue`: a bag, so that a double push would show;
  - `pRseg`, `nextStored`, `hdr`, `offset`, `tail`, `head`;
  - `pview`: the cloned view;
  - `pc`: the coordinator's phase;
  - `nPages`, `nodes`, `tableMap`, `thrIdx`;
  - `dmlDelay`: `srv_dml_needed_delay`.
- **History variables:** `committed`, `purged`.

The iterator functions are pure operators, one per C function, composed the way
the C functions call each other. Each one works on a record
`[queue, last, rseg, stored, hdr, offset, tail, pages]`.

The coordinator is a state machine:
- `BatchStart` (idle → attach): computes the DML delay and clones the view.
- `AttachStep`: one turn of the attach loop.
- `PurgeWorker(n)`.
- `BatchEnd` (run → idle or truncate).
- `TruncateHistory`.

`TruncRsegHistory` is a RECURSIVE operator. It models the `goto loop` of
`trx_purge_truncate_rseg_history`.

The environment actions are spec_modelled:
- `StartTrx`: never on a `skip_allocation` rseg. `TrxIdRoom` keeps trx ids within `MaxTrxId`.
- `WriteUndo`.
- `CommitTrx`.
- `OpenView`, `CloseView`.

### `PurgeAbstract.tla` and `PurgeRefinement.tla`: what purge promises

`PurgeAbstract` has four variables: `committed`, `dispatched`, `purged` and
`floor`. It has four actions:
- `Commit`: one whole log, with undo numbers 0..k and a trx_no above all earlier ones.
- `AdvanceFloor`: the purge view never gets older (spec P1).
- `Dispatch`: the least committed record not yet handed out, in (trx_no, undo_no) order.
- `Purge`: of a record that was handed out.

`PurgeRefinement` extends TrxPurge with
`Abs == INSTANCE PurgeAbstract WITH dispatched <- Dispatched, floor <- pview.limit`.
`Dispatched` is the purged records plus those queued on the nodes. `AbsSpec`
(`Abs!Spec`) is checked as a PROPERTY. Whether a dispatched record lies below
the floor is deliberately left out of the abstraction: the code breaks it (see
the finding at line 525). `MCTrxPurge` extends `PurgeRefinement`.

### `UndoTruncate.tla`: undo tablespace truncation

UndoTruncate extends TrxPurge. It adds four variables:
- `truncCurrent` and `truncLast`: `purge_sys.truncate.current` and `.last`;
- `utPassed`: the rsegs that passed the checks in this call;
- `oversized`: the spaces larger than `srv_max_undo_log_size`.

TruncateHistory continues to `pc = "undotrunc"` when `UndoTruncation` is TRUE.
Three actions then model the `while (srv_undo_log_truncate)` loop, so commits
and views interleave with it as they do in the code, which holds no mutex
between these steps:
- `UtSelect`: round-robin from `truncate.last`, or return.
- `UtCheckRseg(r)`: sets `skip_allocation` and runs the `not_free` tests of lines 602-626 (`NotFree`).
- `UtTruncate`: `trx_purge_cleanse_purge_queue`, then `fil_truncate_prepare`, which may fail (`PrepareOutcomes`). On success it recreates every rseg header of the space and resets `purge_sys.rseg` (786).

`UndoGrow` is the environment action in which the file grows past the limit.

### `DmlDelay.tla`, `DictTableFlags.tla` and `MCArith.tla`

`DmlDelay(h, lag, maxDelay)` is `trx_purge_dml_delay` as a pure operator. The
code computes `(ulint) ((ratio - .5) * 10000)` in double precision.

The exact value is `(10000h - 5000lag) / lag`. When lag is a power of two, every
floating-point step is exact. Otherwise the product may land just below a whole
number, so the operator returns `{e, e-1}` when the exact value is a whole
number `e`. A non-integral exact value truncates to its floor.

`DictTableFlags` holds the bit arithmetic of `dict_sys_tables_rec_read` as pure
operators over natural numbers, using the community module Bitwise:
- `TypeAdjust(type)` is the MDEV-12873 conversion. A TYPE matching
  `(type & 0x19f) == 0x101`, below `3 << 13`, with an unsigned `LLLL - 1 < 9`
  (`UMinusOneLess`, where LLLL = 0 wraps) drops its extraneous bit 7.
- `TypeToTf(type, notRedundant)` is `dict_sys_tables_type_to_tf`: bit 0 from
  N_COLS, the other persistent flags masked from TYPE.
- `TablesTypeRead(type, nCols)` composes the two. N_COLS is the pair of its
  `DICT_N_COLS_COMPACT` bit and the other 31 bits, because TLC integers stop
  below 2^31.
- The reference side: `TableFlags` is every valid combination of flags as the
  code's comments state them, `Tf` their word, and `StoredTypes` the TYPE words
  a table can have on disk (the current format and the 10.2.2-10.2.6 one).
  `OldFormatTypes` is the set of 10.2.2-10.2.6 words that differ from the
  current format, built from `OldType`, and `TypeWords` is every word up to
  bit 14. These are reference definitions taken from the comments, not code.

`MCArith` lets the history length grow and shrink over a range of settings, and
holds one stored table (`table`: its flags and one of its TYPE words) picked in
Init. `TypeDecode` also checks `TypeAdjust` over all of `TypeWords`. That part
is a constant, which TLC evaluates once.

### `Mhnsw.tla` and `MCMhnsw.tla`

The hidden index table is `graph`, keyed `<<layer, src>>`.

- `SearchLayer`, `VisitNeighbours` and `SearchLoop` are `search_layer` as RECURSIVE operators.
- `SelectNeighbours`.
- `UpdateSecondDegree`: the reverse links.
- `Descend`: the layer loops.
- `InsertLayers`.

Actions: `MhnswInsert(row, layer)`, `MhnswFirst(q)` and `MhnswNext`. Each runs to
completion under the table lock, so each is one step.

`MCMhnsw` places the rows at powers of two on a line, so no two rows are ever at
equal distance from a query. The code's constants (EF 200, M 24, EF_SEARCH 40)
are kept as written.

### `DictLoad.tla` and `MCDictLoad.tla`

The dictionary records are modelled as row versions:
- `sysTables` maps NAME to `[cur, prev]`. Each version is `[id, ncols, trx, del]`.
- `sysTableIds` is the secondary index ID_IND of SYS_TABLES. It maps `<<ID, NAME>>` to `[cur, prev]`, and each version is `[del, trx]`. The names are ordered in some fixed order (`NameRank`).
- `sysColumns` maps `<<TABLE_ID, POS>>` to `[cur, prev]`. Each version is `[name, trx, del]`.
- `sysIndexes` maps `<<TABLE_ID, ID>>` to `[cur, prev]`. Each version is `[nf, clust, trx, del]`: N_FIELDS, and whether TYPE has DICT_CLUSTERED.
- `sysFields` maps `<<INDEX_ID, POS>>` to `[cur, prev]`. Each version is `[name, trx, del]`.
- `prev` is what `row_vers_build_for_semi_consistent_read` rebuilds while the writer of `cur` is active.

The load code is modelled by these operators:
- `TablesRecRead` is `dict_sys_tables_rec_read`.
- `LoadColumns` is the loop of `dict_load_columns` with `dict_load_column_low`.
- `OldVersion` is the test at line 921.
- `SemiConsistent` is the test of `dict_load_index_low` and `dict_load_field_low`: the old version is read when the writer is active and the load is READ COMMITTED.
- `LoadIndexes` is the loop of `dict_load_indexes` with `dict_load_index_low`. It stops at a record of another table or at `dict_load_index_none`, skips `dict_load_index_del`, and ends with DB_CORRUPTION on a first index that is not clustered, a field error, a field naming no column, or no index.
- `LoadFields` is the loop of `dict_load_fields` with `dict_load_field_low`. A delete-marked record counts towards N_FIELDS.
- `LoadTableOne` is `dict_load_table_one`: `use_uncommitted` is 2, 1 or 0, `DB_SUCCESS_LOCKED_REC` leads to a reload, and the indexes are loaded with the same `uncommitted`. On DB_CORRUPTION from the index load the table is still returned, with the indexes loaded before the error.
- `LoadTable(n)` is `dict_sys_t::load_table`. It reads the dictionary and changes none of it, so the model evaluates it in every state, and `LoadConsistent` is a state invariant over it. The dictionary cache is not modelled, so every call loads.
- `LoadTableOnId(id)` and `TableOnId` are `dict_load_table_on_id`: they walk the ID_IND records from the id, delete-marked ones included. For each they call `load_table` of its NAME, and go on to the next record when that gives no table or a table of another id.

The environment (spec_modelled):
- `DdlWrite(n, d2)`: one DDL transaction at a time replaces the committed definition. The new one is none (DROP), the same table id (instant or in-place ALTER), or a fresh id (CREATE or rebuild). An ALTER that keeps the table id keeps its clustered index, keeps or drops each secondary index, and may add one. Index ids come from a counter that never goes back, like `dict_hdr_get_new_id`. The DDL writes the records that encode the new definition and delete-marks the ones it replaces.
- `DdlRename(n, m)`: RENAME TABLE. It delete-marks the SYS_TABLES record of n, inserts one for m, and moves the ID_IND entry. Columns and indexes are keyed by table id and stay.
- `DdlCommit` and `DdlRollback`.
- `PurgeDictStep`: removes committed delete-marked records.

A load is one step because it runs under `dict_sys.latch`, and the DDL
transactions write and commit their dictionary records under the same latch.
The model lets a load see every state between a DDL's writes and its commit or
rollback. That is the state a crash leaves behind when recovery finds an
incomplete DDL transaction, and the READ COMMITTED code paths exist to handle it.

**A DROP TABLE that is still active hides the table.** With `use_uncommitted = 1`
(line 924), any SYS_COLUMNS record written by an active transaction is taken for an
incomplete instant ALTER, and the table is reloaded READ UNCOMMITTED. A DROP TABLE
keeps the table id and delete-marks the column records. So while it is active,
`load_table` finds the SYS_TABLES record delete-marked and returns no table, and so
does `dict_load_table_on_id`, although the committed definition exists. TLC shows
this state. `LoadOnIdConsistent` therefore asks for the table only when no DDL is
active. It is listed as a hazard, not as a finding: whether a caller loads such a
table depends on rollback code outside this repository.

**The `ut_ad` of `dict_load_table_on_id` (line 2451).** When `load_table` of the
NAME gives a table of another id, the code asserts that the ID_IND record is
delete-marked. `TableOnId` returns `OnIdAssertFail` when it is not. During an
uncommitted rebuild (n1 from id 1 to id 2), the live entry `<<2, n1>>` leads to
the committed definition of id 1, so a load by id 2 trips the assertion. TLC
finds this state when `LoadOnIdConsistent` ranges over every id. The callers
are purge and rollback, and they load the table of an undo record. No undo
record of a table that only the active DDL has written is purged or rolled
back while that DDL is active. So `LoadOnIdConsistent` leaves out these ids
(`ActiveDdlIds`), and for every other id it checks that the assertion holds.

## Runs

| run | cfg | result | what it shows |
|---|---|---|---|
| core_safety | `MCTrxPurge.cfg` | pass, 290k states | `NoLostUndo`: no committed record leaves the history unpurged. `NoFreeLiveSegment`. `IteratorConsistent`: queue entries are unique, agree with `last` and are not below `tail`. `SizeAccounting`: `curr_size` and `TRX_RSEG_HISTORY_SIZE` are exact. `AbsSpec`: TrxPurge implements PurgeAbstract, whose `Dispatch` always takes the least pending record, so records reach the workers in global (trx_no, undo_no) order. |
| dispatch | `MCTrxPurgeDispatch.cfg` | pass, 65k states | `TableAffinity`: no table's records are on two nodes. `TypeOK`, including the `ut_a(thr != NULL)` of line 1172. This run also uses a non-zero `innodb_max_purge_lag`. |
| liveness | `MCTrxPurgeLive.cfg` | pass, 116k states | `EventuallyPurged`: with no reader views, every committed record is eventually purged. |
| premature_purge | `MCTrxPurgePremature.cfg` | **violation** | `NoPrematurePurge` (spec P2). See finding 1. |
| undo_truncate_safety | `MCUndoTruncate.cfg` | pass, 1.17M states | `IteratorConsistent` and `NoFreeLiveSegment` with truncation interleaved. `PassedQuiescent`: an rseg that passed the checks gets no new transaction and no reference before the recreate. |
| undo_truncate_live | `MCUndoTruncateLive.cfg` | pass, 293k states | `SkipCleared`: an rseg marked `skip_allocation` is eventually truncated and handed out again. |
| undo_truncate_lost | `MCUndoTruncateLost.cfg` | **violation** | `NoLostUndo`: the recreate discards an unpurged log. See finding 2. |
| undo_truncate_assert | `MCUndoTruncateAssert.cfg` | **violation** | `PassedNeedsPurged`, the `ut_ad` at line 744. See finding 3. |
| arith | `MCArith.cfg` | pass, 134k states | `DelayShape`: the delay is at most the maximum, 0 without a limit or below it, at least min(5000, max) above it, and monotone in the history length. `TypeDecode`: every TYPE word a valid table can have, in either format, with either N_COLS format, decodes to exactly that table's flags and column count. |
| mhnsw_scan | `MCMhnsw.cfg` | pass, 23k states | `ScanExact`: `mhnsw_first` then `mhnsw_next` return every indexed row, nearest first. |
| mhnsw_empty_first | `MCMhnswEmpty.cfg` | **violation** | `FirstFindsRow`. See finding 4. |
| dict_load | `MCDictLoad.cfg` | pass, 577k states | `LoadConsistent`: a loaded definition (columns and indexes) is the committed one or the one the active DDL wrote. It is never a mixture of record versions, never a corruption error, and never a table with part of its indexes. `LoadOnIdConsistent`: for the ids purge and rollback load, the load by id never trips the `ut_ad` of line 2451, returns a whole definition of that id, and finds it whenever no DDL is active, also after a RENAME left the old ID_IND entry before the new one. |

Every property of a passing run has a mutant in PROJECT.json, and TLC finds the
property violated once the mutant is substituted:
- `>` for `>=` at line 431;
- a max-heap instead of a min-heap, which breaks `AbsSpec`;
- the TRX_UNDO_NEXT_LOG test dropped;
- `last_page_no` not reset;
- a cached segment counted in the history size;
- `table_id_map` not updated;
- no wrap of the round-robin index;
- the rseg not pushed back;
- no queue cleanse;
- cached segments not freed at the recreate;
- `skip_allocation` ignored by `trx_assign_rseg_low`;
- the rseg-header page not counted in `not_free`;
- no clamp of the DML delay;
- the unsigned `LLLL - 1 < 9` done in signed arithmetic, so LLLL = 0 is converted;
- no reverse links in MHNSW;
- the index and field loads reading the latest record versions also READ COMMITTED;
- `dict_load_table_on_id` stopping at the first ID_IND record of the id.

## Findings

1. **The clamp at `trx0purge.cc:525` moves `tail` backwards.**
   - While `purge_sys.head.trx_no == 0`, the reference `head` is bound to `purge_sys.tail`, and the clamp writes `low_limit_no` into `tail.trx_no`. The iterator is then still stored on a log at or above `low_limit_no`.
   - A later batch with a higher view passes the fence at line 1056. It dispatches a record that an open view still needs.
   - TLC trace:
     1. A batch with limit 1 pops a log of trx_no 2 and stops at the fence.
     2. Truncation clamps `tail` to 1.
     3. A view with limit 2 is open.
     4. The next batch, with limit 2, dispatches (2, 0).
   - The path needs a truncation before any batch has dispatched a record. For example, `innodb_purge_rseg_truncate_frequency=1` right after startup.
2. **Undo truncation discards an unpurged log (`trx0purge.cc:616`).**
   - `purge_sys.sees(rseg->needs_purge)` (line 602) tests one id.
   - The cached-segment test `head.trx_no < undo->trx_id` compares a trx_no with a transaction id, and the transaction id is smaller than the log's trx_no.
   - So an rseg passes whose cached segment holds a committed log that purge has not reached, and the recreate discards that log.
   - The violation occurs with the clamp of finding 1 corrected as well.
3. **The `ut_ad(!head.trx_no || rseg->needs_purge <= head.trx_no)` at line 744 can fail.**
   - After the clamp lowers `tail`, the next batch starts `head` at the lowered value, below `needs_purge`.
   - With the clamp corrected, TLC finds no violation. So this is a second consequence of finding 1.
4. **`mhnsw_first` on an empty index returns 0 (`vector_mhnsw.cc:583`).**
   - This tells the handler that a row was read, while no row is positioned.
   - A handler index read is expected to return `HA_ERR_END_OF_FILE` instead.

## Bounds and why they suffice

**`MCTrxPurge.cfg`** has these bounds:
- 2 rsegs and 3 segments. Two of the segments are in r1, so one can be cached and reused while the other is in use.
- 2 transactions, 1 view and 1 table.
- `MaxTrxId = 5`.
- Up to 2 records per log, at 1 record per page, so records span pages.
- A batch of 2 pages.
- 2 nodes.

These bounds reach:
- cached reuse with TRX_UNDO_NEXT_LOG set;
- truncation in the middle of a log;
- a batch stopped by the batch size, by an empty queue, and by the fence;
- a view opened while a transaction is active.

**Other cfgs:**
- The dispatch run needs two tables in one batch. It uses one rseg and no views.
- The undo truncation runs use 2 undo tablespaces, with r1 and r2 in different spaces. `fil_truncate_prepare` may fail. The liveness run of truncation uses one transaction to stay within minutes.
- `MCArith` covers history lengths 0..12 against lags {0, 1, 2, 3, 5}. These include powers of two, lags that are not powers of two, and exact whole values. The maximum delays {0, 3000, 12345, 10^6} lie below, inside and above the computed range. The table ranges over all valid flag combinations (every ZIP_SSIZE, level 1..9, all NO_ROLLBACK values), both TYPE formats, and column counts 1 and 1023. Valid words never reach the LLLL = 0 wrap, LLLL >= 10 or the `3 << 13` bound. `OldFormatOnlyAdjusted` takes those branches: it runs over all 32768 words up to bit 14, and every higher word fails the `3 << 13` test as the top 8192 of them do.
- `MCMhnsw` uses 4 rows and up to 3 layers. This reaches descents through empty upper layers and reverse links. The index is smaller than EF_SEARCH and the neighbour limits, so the scan must be exact. The shrinking of a neighbour list is out of reach (see the hazards).
- `MCDictLoad` uses two names, two column names, 2 table ids, 4 index ids, at most 2 indexes of one field each, and 3 DDL transactions. CREATE, ALTER and DROP run on n1 only (`DdlName`), and RENAME moves a table between n1 and n2 in both directions, so both orders of the old and new ID_IND entries occur. 4 DDL transactions take more than 5 minutes. The run does not check deadlock: the dictionary is idle once the bounded DDL transactions are done and purge has nothing left. This reaches:
  - CREATE, then instant ALTER, ADD and DROP INDEX, rebuild, RENAME and DROP, each committed or rolled back;
  - loads while each of these is active;
  - insert-by-modify over unpurged delete-marked records.

  TLC reaches all three `use_uncommitted` modes, the reload, the end of the index loop at a fresh index of the active DDL, the old version of an index it drops, the skip of a committed dropped index, and old versions of SYS_FIELDS records.

**Symmetry** is used over transactions, tables and column names. Each is compared
only for equality. Rsegs and segments are not symmetric.

## Fairness

- **Coordinator and workers.** The coordinator runs while there is history: `purge_coordinator_callback` reschedules it. The workers are thread-pool tasks that the coordinator waits for. So the coordinator actions and every `PurgeWorker(n)` are weakly fair.
- **AttachStep.** Its WF conjunct is written out by hand, because TLC evaluates `ENABLED AttachStep` very slowly. AttachStep is enabled whenever `pc = "attach"`.
- **Undo truncation.** Liveness of truncation also assumes these:
  - Transactions eventually commit (WF on `CommitTrx`, an environment assumption).
  - Truncation is entered infinitely often when it may be (SF on `BatchEnd` to `truncate`). This is justified because every n-th batch truncates, with n = `innodb_purge_rseg_truncate_frequency`.
- **Reader views.** Liveness of purge needs the reader views to close. The liveness runs have no views, because a view held open forever blocks purge by design.

## Not modelled

- **Crash and recovery.** `trx_purge_free_segment` commits mini-transactions in a loop (line 369). A kill between them leaks the pages of the segment, as the comment there says. Modelling this needs a split of the persistent header from `trx_rseg_t`, and it is not done yet.
- **Two mutex windows of the iterator and truncation.** `GetNextHistoryLog` is one step, although the code releases `rseg->mutex` at line 853 between the empty test and the update of `last_page_no` and the push. `TruncateHistory` also cuts every rseg in one step, while the code takes each `rseg->mutex` in turn (535-548). The first window is benign: in the empty case `last_page_no = FIL_NULL` is written before the release, so a commit in the window pushes the rseg itself. Splitting the step needs an intermediate state of the iterator pipeline, which `AttachStep` runs in one step.
- **Row purge** (`row0purge.cc`) and the buffer-pool flushing of truncation. These are not in this repository, or are I/O.
- **Dictionary parts beyond tables, columns and indexes:**
  - SYS_VIRTUAL and SYS_FOREIGN loading, temporary index names, index TYPE bits other than DICT_CLUSTERED, and the root page check of the clustered index;
  - a rename of an indexed column, which rewrites SYS_FIELDS of a kept index;
  - the validity checks of SYS_TABLES.TYPE (`dict_sys_tables_type_valid`, whose final test is `dict_tf_is_valid_not_redundant` from dict0dict, not in this repository), MIX_LEN into `flags2`, and `dict_sys_tables_rec_check`. `DictTableFlags` checks the decoding on valid words only;
  - `dict_load_tablespaces` and `dict_find_max_space_id`: what they open and the max space id they record matter only to fil_system code that is not in this repository;
  - the INFORMATION_SCHEMA scans (`dict_startscan_system`, `dict_getnext_system`, `dict_process_sys_*_rec`): a READ UNCOMMITTED cursor walk that skips delete-marked records and parses with the functions already modelled; its caller, which releases the latch between records, is not in this repository;
  - virtual columns (`dict_load_virtual*`, the `DATA_VIRTUAL` branch of `dict_load_column_low`): the extra SYS_VIRTUAL rows multiply the states beyond reach;
  - tablespaces, foreign keys, and the dictionary cache (`find_table`).

  In the modelled environment, the skip of delete-marked records inside `dict_load_columns` and `dict_load_fields` is never reached, because the live positions of a definition are contiguous and index ids are never reused. That `LoadConsistent` holds shows that no DB_CORRUPTION branch of the index load is reached either.
- **MHNSW:** the shrinking of a neighbour list beyond M neighbours, and a context longer than EF_SEARCH. Both need more rows than TLC can enumerate. The code has no delete of index rows. The `limit` argument of `mhnsw_first` is unused: the search always uses 40, so a query for more rows gets at most 40. This needs more than 40 rows, out of TLC's reach.
- **Other sources.** The perfschema header and the mysql-test scripts have no state to model.
