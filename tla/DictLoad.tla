------------------------------ MODULE DictLoad ------------------------------
(***************************************************************************)
(* Loading a table definition from the data dictionary,                    *)
(* storage/innobase/dict/dict0load.cc: dict_load_table_one() reads the     *)
(* SYS_TABLES record of the name and the SYS_COLUMNS records of the table  *)
(* id, READ COMMITTED, and starts again READ UNCOMMITTED when a column     *)
(* record shows an incomplete instant ALTER.                               *)
(*                                                                         *)
(* Data abstraction: a SYS_TABLES record holds ID, N_COLS, DB_TRX_ID and   *)
(* the delete mark; a SYS_COLUMNS record, keyed <<TABLE_ID, POS>>, holds   *)
(* NAME; a SYS_INDEXES record, keyed <<TABLE_ID, ID>>, holds N_FIELDS and  *)
(* whether TYPE has DICT_CLUSTERED; a SYS_FIELDS record, keyed             *)
(* <<INDEX_ID, POS>>, holds COL_NAME; each has DB_TRX_ID and the delete    *)
(* mark.  A record is its latest version cur and, while the transaction   *)
(* that wrote cur is active, the version                                   *)
(* row_vers_build_for_semi_consistent_read() rebuilds from the undo log    *)
(* (prev, NoVer for a fresh insert).  Types, flags, prefix lengths,        *)
(* tablespaces, virtual columns and index pages are left out.              *)
(* dict_load_table_one() runs under dict_sys.latch and a DDL transaction   *)
(* writes and commits its dictionary records under the same latch, so a   *)
(* load is one step.                                                       *)
(*                                                                         *)
(* The DDL transactions (handler0alter.cc, row0mysql.cc, not in this       *)
(* repository) are the environment: one at a time per table, each         *)
(* replaces the committed definition by another one, writing the records   *)
(* that encode it, then commits or rolls back.  Table and index ids come   *)
(* from counters that never go back (dict_hdr_get_new_id()); an ALTER      *)
(* that keeps the table id keeps its clustered index and may drop or add   *)
(* secondary indexes.  Purge removes committed delete-marked records.      *)
(***************************************************************************)
EXTENDS Integers, SequencesExt

CONSTANTS
  Name,        \* table names (SYS_TABLES.NAME)
  DdlName,     \* bound: the names CREATE, ALTER and DROP TABLE run on
  ColName,     \* column names (SYS_COLUMNS.NAME)
  MaxTableId,  \* bound on the table ids DICT_HDR_TABLE_ID hands out
  MaxCols,     \* bound on the columns of a definition
  MaxIndexId,  \* bound on the index ids DICT_HDR_INDEX_ID hands out
  MaxIdx,      \* bound on the indexes of a definition
  MaxFields,   \* bound on the fields of an index
  MaxDdl       \* bound on the DDL transactions

ASSUME /\ DdlName \subseteq Name /\ MaxTableId \in Nat /\ MaxCols \in Nat \ {0} /\ MaxDdl \in Nat
       /\ MaxIndexId \in Nat /\ MaxIdx \in Nat \ {0} /\ MaxFields \in Nat \ {0}

NoVer == [none |-> TRUE]
NoTable == [none |-> TRUE]
Corrupt == [corrupt |-> TRUE]  \* nullptr after DB_CORRUPTION
\* Column names of a table, and the columns of an index, are distinct.
ColSeqs == {c \in UNION {[1 .. k -> ColName] : k \in 1 .. MaxCols} : IsInjective(c)}
\* A definition: the table id, the column names by position, and the
\* field names of each index by index id.
FieldSeqs(cols) ==
  {c \in UNION {[1 .. k -> Range(cols)] : k \in 1 .. MaxFields} : IsInjective(c)}

VARIABLES
  sysTables,   \* SYS_TABLES: NAME -> record
  sysTableIds, \* SYS_TABLES index ID_IND: <<ID, NAME>> -> record
  sysColumns,  \* SYS_COLUMNS: <<TABLE_ID, POS>> -> record
  sysIndexes,  \* SYS_INDEXES: <<TABLE_ID, ID>> -> record
  sysFields,   \* SYS_FIELDS: <<INDEX_ID, POS>> -> record
  ddl,         \* the active DDL transaction, 0 if none
  nextTrx,     \* the next transaction id
  nextId,      \* the next table id
  nextIdx,     \* the next index id
  committedDef, \* history: the committed definition of each name
  latestDef    \* history: the definition the active DDL wrote

dictVars == <<sysTables, sysTableIds, sysColumns, sysIndexes, sysFields>>
vars == <<dictVars, ddl, nextTrx, nextId, nextIdx, committedDef, latestDef>>

\* trx_sys.find(nullptr, id, false)
Active(t) == t # 0 /\ t = ddl

KeyLess(a, b) == a[1] < b[1] \/ (a[1] = b[1] /\ a[2] < b[2])

\* The order of ID_IND: ID, then NAME in some fixed order of the names.
NameRank(x) == CHOOSE i \in 1 .. Cardinality(Name) : SetToSeq(Name)[i] = x
IdNameLess(a, b) ==
  a[1] < b[1] \/ (a[1] = b[1] /\ NameRank(a[2]) < NameRank(b[2]))

(***************************************************************************)
(* dict_load_columns(): the loop over n_cols + n_skipped records, with     *)
(* dict_load_column_low() on each.  The result is "ok" with the column    *)
(* names, "reload" (DB_SUCCESS_LOCKED_REC), or "corrupt" (DB_CORRUPTION:   *)
(* POS mismatch, a record of another table, or none).                      *)
(***************************************************************************)
\* dict_load_column_low(): the record was written by an active
\* transaction, and the load is not READ UNCOMMITTED.
OldVersion(rec, use) == Active(rec.cur.trx) /\ use < 2

RECURSIVE LoadColumns(_, _, _, _, _, _)
LoadColumns(keys, id, ncols, use, acc, skipped) ==
  IF Len(acc) + skipped >= ncols + skipped THEN [st |-> "ok", cols |-> acc] \* i >= n_t_cols + n_skipped
  ELSE IF keys = <<>> \/ Head(keys)[1] # id THEN [st |-> "corrupt"]
  ELSE LET k == Head(keys)
           rec == sysColumns[k]
           mvcc == OldVersion(rec, use)
           v == IF mvcc THEN rec.prev ELSE rec.cur
       IN IF mvcc /\ use = 1 THEN [st |-> "reload"]
          ELSE IF v = NoVer THEN [st |-> "corrupt"]
          ELSE IF v.del THEN LoadColumns(Tail(keys), id, ncols, use, acc, skipped + 1)
          ELSE IF k[2] # Len(acc) THEN [st |-> "corrupt"]
          ELSE LoadColumns(Tail(keys), id, ncols, use, Append(acc, v.name), skipped)

(***************************************************************************)
(* dict_load_fields() and dict_load_indexes(): READ COMMITTED unless       *)
(* uncommitted, the old version of a record whose writer is active.        *)
(***************************************************************************)
\* Mutant: the index loader reads the latest versions also READ COMMITTED.
SemiConsistentNever(rec, uncommitted) == FALSE

\* dict_load_index_low(), dict_load_field_low(): trx_sys.find() of the
\* record's DB_TRX_ID, unless READ UNCOMMITTED.
SemiConsistent(rec, uncommitted) == Active(rec.cur.trx) /\ ~uncommitted

\* btr_pcur_open_on_user_rec() on (TABLE_ID) or (INDEX_ID) of SYS_INDEXES
\* or SYS_FIELDS and the records after it.
RecordsFrom(f, id) == SetToSortSeq({k \in DOMAIN f : k[1] >= id}, KeyLess)

\* The loop of dict_load_fields() over n_fields records.  A delete-marked
\* record counts towards n_fields but adds no field; a POS that is not
\* index->n_def, a record of another index, none, or an old version that
\* is missing or delete-marked is DB_CORRUPTION.
RECURSIVE LoadFields(_, _, _, _, _)
LoadFields(keys, iid, n, uncommitted, acc) ==
  IF n = 0 THEN [st |-> "ok", fields |-> acc]
  ELSE IF keys = <<>> \/ Head(keys)[1] # iid THEN [st |-> "corrupt"]
  ELSE LET k == Head(keys)
           rec == sysFields[k]
           v == IF SemiConsistent(rec, uncommitted) THEN rec.prev ELSE rec.cur
       IN IF k[2] # Len(acc) THEN [st |-> "corrupt"]
          ELSE IF SemiConsistent(rec, uncommitted) /\ (v = NoVer \/ v.del)
            THEN [st |-> "corrupt"]
          ELSE IF v.del THEN LoadFields(Tail(keys), iid, n - 1, uncommitted, acc)
          ELSE LoadFields(Tail(keys), iid, n - 1, uncommitted, Append(acc, v.name))

\* The loop of dict_load_indexes() over the SYS_INDEXES records of table
\* id.  It ends at a record of another table, or at one whose old version
\* is missing or delete-marked (dict_load_index_none); it skips a
\* delete-marked one (dict_load_index_del).  A secondary index before any
\* clustered one, a field load error, a field that names no column of the
\* table (dict_index_add_to_cache()), or no index at all is DB_CORRUPTION,
\* and the indexes loaded so far stay with the table.
RECURSIVE LoadIndexes(_, _, _, _, _)
LoadIndexes(keys, id, cols, uncommitted, acc) ==
  IF keys = <<>> \/ Head(keys)[1] # id
  THEN [st |-> IF DOMAIN acc = {} THEN "corrupt" ELSE "ok", idx |-> acc]
  ELSE LET k == Head(keys)
           rec == sysIndexes[k]
           v == IF SemiConsistent(rec, uncommitted) THEN rec.prev ELSE rec.cur
       IN IF SemiConsistent(rec, uncommitted) /\ (v = NoVer \/ v.del)
          THEN [st |-> IF DOMAIN acc = {} THEN "corrupt" ELSE "ok", idx |-> acc]
          ELSE IF v.del THEN LoadIndexes(Tail(keys), id, cols, uncommitted, acc)
          ELSE IF ~v.clust /\ DOMAIN acc = {} THEN [st |-> "corrupt", idx |-> acc]
          ELSE LET fl == LoadFields(RecordsFrom(sysFields, k[2]), k[2], v.nf,
                                    uncommitted, <<>>)
               IN IF fl.st = "corrupt" \/ ~(Range(fl.fields) \subseteq Range(cols))
                  THEN [st |-> "corrupt", idx |-> acc]
                  ELSE LoadIndexes(Tail(keys), id, cols, uncommitted,
                                   (k[2] :> fl.fields) @@ acc)

(***************************************************************************)
(* dict_sys_tables_rec_read(): the committed version of the record unless  *)
(* uncommitted; NoTable when there is none or it is delete-marked.         *)
(***************************************************************************)
TablesRecRead(n, uncommitted) ==
  IF n \notin DOMAIN sysTables THEN NoTable
  ELSE LET rec == sysTables[n]
           v == IF Active(rec.cur.trx) /\ ~uncommitted THEN rec.prev ELSE rec.cur
       IN IF v = NoVer \/ v.del THEN NoTable ELSE v

\* dict_load_table_one() from reload: read SYS_TABLES, derive
\* use_uncommitted, load the columns, go to reload once on
\* DB_SUCCESS_LOCKED_REC, then load the indexes with the same
\* uncommitted.  DB_CORRUPTION from dict_load_indexes() still returns the
\* table, with the indexes loaded before the error.
RECURSIVE LoadTableOne(_, _)
LoadTableOne(n, uncommitted) ==
  LET t == TablesRecRead(n, uncommitted)
  IN IF t = NoTable THEN NoTable
     ELSE LET use == IF uncommitted THEN 2
                     ELSE IF t.id = sysTables[n].cur.id THEN 1 ELSE 0
              cols == LoadColumns(RecordsFrom(sysColumns, t.id), t.id, t.ncols, use, <<>>, 0)
          IN IF cols.st = "reload" THEN LoadTableOne(n, TRUE)
             ELSE IF cols.st = "corrupt" THEN Corrupt
             ELSE [id |-> t.id, cols |-> cols.cols,
                   idx |-> LoadIndexes(RecordsFrom(sysIndexes, t.id), t.id, cols.cols,
                                       uncommitted, <<>>).idx]

(***************************************************************************)
(* The environment: DDL transactions and purge (spec_modelled).            *)
(***************************************************************************)
\* Write version v of key k of a system table f for transaction t: an
\* insert, or an update or delete-marking that keeps the old version for
\* MVCC.  A record that already holds v, but for DB_TRX_ID, is left alone.
Write(f, k, v) ==
  IF k \in DOMAIN f /\ [f[k].cur EXCEPT !.trx = v.trx] = v THEN f
  ELSE (k :> [cur |-> v, prev |-> IF k \in DOMAIN f THEN f[k].cur ELSE NoVer]) @@ f

TableIds(d) == IF d = NoTable THEN {} ELSE {d.id}
IndexIds(d) == IF d = NoTable THEN {} ELSE DOMAIN d.idx

\* The SYS_TABLES record a transaction t writes to replace the definition
\* of name n by d2: a delete mark for DROP TABLE, else ID and N_COLS.
EncodeTables(n, d2, t) ==
  IF d2 = NoTable
  THEN IF n \in DOMAIN sysTables /\ ~sysTables[n].cur.del
       THEN Write(sysTables, n, [sysTables[n].cur EXCEPT !.trx = t, !.del = TRUE])
       ELSE sysTables
  ELSE Write(sysTables, n, [id |-> d2.id, ncols |-> Len(d2.cols), trx |-> t, del |-> FALSE])

\* The SYS_COLUMNS, SYS_INDEXES and SYS_FIELDS records that encode
\* definition d, as written by transaction t; the clustered index is the
\* one with the least id.
ColumnRecs(d, t) ==
  IF d = NoTable THEN <<>>
  ELSE [k \in {<<d.id, p>> : p \in 0 .. Len(d.cols) - 1} |->
          [name |-> d.cols[k[2] + 1], trx |-> t, del |-> FALSE]]
IndexRecs(d, t) ==
  IF d = NoTable THEN <<>>
  ELSE [k \in {<<d.id, i>> : i \in DOMAIN d.idx} |->
          [nf |-> Len(d.idx[k[2]]), clust |-> k[2] = Min(DOMAIN d.idx),
           trx |-> t, del |-> FALSE]]
FieldRecs(d, t) ==
  IF d = NoTable THEN <<>>
  ELSE [k \in UNION {{<<i, p>> : p \in 0 .. Len(d.idx[i]) - 1} : i \in DOMAIN d.idx} |->
          [name |-> d.idx[k[1]][k[2] + 1], trx |-> t, del |-> FALSE]]

\* The records of d1 and d2 that are live and do not encode d2.
Stale(f, owners, new) ==
  {k \in DOMAIN f : k[1] \in owners /\ ~f[k].cur.del} \ DOMAIN new

\* Write the records new of a system table f for transaction t, and a
\* delete mark on every record of ks.
RECURSIVE DeleteMark(_, _, _)
DeleteMark(f, ks, t) ==
  IF ks = {} THEN f
  ELSE LET k == CHOOSE x \in ks : TRUE
       IN DeleteMark(Write(f, k, [f[k].cur EXCEPT !.trx = t, !.del = TRUE]), ks \ {k}, t)
RECURSIVE WriteAll(_, _, _)
WriteAll(f, new, ks) ==
  IF ks = {} THEN f
  ELSE LET k == CHOOSE x \in ks : TRUE IN WriteAll(Write(f, k, new[k]), new, ks \ {k})
RECURSIVE DeleteMarkIds(_, _, _)
DeleteMarkIds(f, ks, t) ==
  IF ks = {} THEN f
  ELSE LET k == CHOOSE x \in ks : TRUE
       IN DeleteMarkIds(Write(f, k, [del |-> TRUE, trx |-> t]), ks \ {k}, t)
RECURSIVE WriteAllIds(_, _, _)
WriteAllIds(f, ks, t) ==
  IF ks = {} THEN f
  ELSE LET k == CHOOSE x \in ks : TRUE
       IN WriteAllIds(Write(f, k, [del |-> FALSE, trx |-> t]), ks \ {k}, t)
Encode(f, owners, new, t) ==
  DeleteMark(WriteAll(f, new, DOMAIN new), Stale(f, owners, new), t)

\* The ID_IND entries of an update of SYS_TABLES from (id of d1, n1) to
\* (id of d2, n2): a delete mark on the old entry and an insert (or the
\* removal of a delete mark) of the new one, when they differ.
EncodeTableIds(n1, d1, n2, d2, t) ==
  LET old == {<<i, n1>> : i \in TableIds(d1)}
      new == {<<i, n2>> : i \in TableIds(d2)}
      marked == DeleteMarkIds(sysTableIds, old \ new, t)
  IN WriteAllIds(marked, new \ old, t)

\* The index sets of a DDL: one that keeps the table id keeps its
\* clustered index and any of its secondary indexes as they are and may
\* add one with id nextIdx; one with a fresh table id has fresh indexes.
IndexSets(d1, cols) ==
  LET keepIds == IF d1 = NoTable THEN {} ELSE DOMAIN d1.idx
      cl == IF d1 = NoTable THEN nextIdx ELSE Min(keepIds)
      sets == {S \in SUBSET (keepIds \cup {nextIdx}) : cl \in S /\ Cardinality(S) <= MaxIdx}
  IN {x \in UNION {[S -> FieldSeqs(cols)] : S \in sets} :
        \A i \in DOMAIN x \cap keepIds : x[i] = d1.idx[i]}
FreshIndexSets(cols) ==
  UNION {[S -> FieldSeqs(cols)] :
           S \in {{nextIdx}} \cup (IF MaxIdx > 1 THEN {{nextIdx, nextIdx + 1}} ELSE {})}

\* The definitions a DDL can leave: none (DROP TABLE), the same table id
\* with other columns or secondary indexes (instant or in-place ALTER), or
\* a fresh table id (CREATE TABLE or a table-rebuilding ALTER).
NextDefs(d1) ==
  ({NoTable}
   \cup UNION {{[id |-> i, cols |-> c, idx |-> x] : x \in IndexSets(d1, c)} :
                 i \in TableIds(d1), c \in ColSeqs}
   \cup UNION {{[id |-> nextId, cols |-> c, idx |-> x] : x \in FreshIndexSets(c)} :
                 c \in ColSeqs})
  \ {d1}

DdlWrite(n, d2) ==
  LET d1 == committedDef[n]
      t == nextTrx
      tids == TableIds(d1) \cup TableIds(d2)
  IN /\ ddl = 0
     /\ t <= MaxDdl
     /\ d2 \in NextDefs(d1)
     /\ d2 # NoTable => d2.id <= MaxTableId /\ \A i \in DOMAIN d2.idx : i <= MaxIndexId
     /\ sysTables' = EncodeTables(n, d2, t)
     /\ sysTableIds' = EncodeTableIds(n, d1, n, d2, t)
     /\ sysColumns' = Encode(sysColumns, tids, ColumnRecs(d2, t), t)
     /\ sysIndexes' = Encode(sysIndexes, tids, IndexRecs(d2, t), t)
     /\ sysFields' = Encode(sysFields, IndexIds(d1) \cup IndexIds(d2), FieldRecs(d2, t), t)
     /\ ddl' = t
     /\ nextTrx' = t + 1
     /\ nextId' = IF d2 # NoTable /\ d2.id = nextId THEN nextId + 1 ELSE nextId
     /\ nextIdx' = nextIdx + Cardinality(IndexIds(d2) \ IndexIds(d1))
     /\ latestDef' = [latestDef EXCEPT ![n] = d2]
     /\ UNCHANGED committedDef

\* RENAME TABLE n TO m (row_rename_table_for_mysql()): NAME is the key of
\* SYS_TABLES, so the record of n is delete-marked and one of m inserted,
\* and the ID_IND entry moves from <<id, n>> to <<id, m>>.
DdlRename(n, m) ==
  LET d == committedDef[n]
      t == nextTrx
  IN /\ ddl = 0
     /\ t <= MaxDdl
     /\ d # NoTable /\ committedDef[m] = NoTable
     /\ sysTables' = Write(Write(sysTables, n, [sysTables[n].cur EXCEPT !.trx = t, !.del = TRUE]),
                          m, [sysTables[n].cur EXCEPT !.trx = t])
     /\ sysTableIds' = EncodeTableIds(n, d, m, d, t)
     /\ ddl' = t
     /\ nextTrx' = t + 1
     /\ latestDef' = [latestDef EXCEPT ![n] = NoTable, ![m] = d]
     /\ UNCHANGED <<sysColumns, sysIndexes, sysFields, nextId, nextIdx, committedDef>>

\* trx commit: the old versions are no longer needed by anyone.
Committed(f) == [k \in DOMAIN f |-> IF f[k].cur.trx = ddl THEN [f[k] EXCEPT !.prev = NoVer]
                                    ELSE f[k]]

DdlCommit ==
  /\ ddl # 0
  /\ sysTables' = Committed(sysTables)
  /\ sysTableIds' = Committed(sysTableIds)
  /\ sysColumns' = Committed(sysColumns)
  /\ sysIndexes' = Committed(sysIndexes)
  /\ sysFields' = Committed(sysFields)
  /\ ddl' = 0
  /\ committedDef' = latestDef
  /\ UNCHANGED <<nextTrx, nextId, nextIdx, latestDef>>

\* trx rollback: every record the transaction wrote gets its old version
\* back; a fresh insert is removed.
RolledBack(f) ==
  LET keep == {k \in DOMAIN f : f[k].cur.trx # ddl \/ f[k].prev # NoVer}
  IN [k \in keep |-> IF f[k].cur.trx = ddl THEN [cur |-> f[k].prev, prev |-> NoVer]
                     ELSE f[k]]

DdlRollback ==
  /\ ddl # 0
  /\ sysTables' = RolledBack(sysTables)
  /\ sysTableIds' = RolledBack(sysTableIds)
  /\ sysColumns' = RolledBack(sysColumns)
  /\ sysIndexes' = RolledBack(sysIndexes)
  /\ sysFields' = RolledBack(sysFields)
  /\ ddl' = 0
  /\ latestDef' = committedDef
  /\ UNCHANGED <<nextTrx, nextId, nextIdx, committedDef>>

\* Purge removes a committed delete-marked record.
Removable(f) == {k \in DOMAIN f : f[k].cur.del /\ ~Active(f[k].cur.trx)}

Purged(f, k) == Restrict(f, DOMAIN f \ {k})

PurgeDict ==
  \/ \E k \in Removable(sysTables) :
       /\ sysTables' = Purged(sysTables, k)
       /\ UNCHANGED <<sysTableIds, sysColumns, sysIndexes, sysFields>>
  \/ \E k \in Removable(sysTableIds) :
       /\ sysTableIds' = Purged(sysTableIds, k)
       /\ UNCHANGED <<sysTables, sysColumns, sysIndexes, sysFields>>
  \/ \E k \in Removable(sysColumns) :
       /\ sysColumns' = Purged(sysColumns, k)
       /\ UNCHANGED <<sysTables, sysTableIds, sysIndexes, sysFields>>
  \/ \E k \in Removable(sysIndexes) :
       /\ sysIndexes' = Purged(sysIndexes, k)
       /\ UNCHANGED <<sysTables, sysTableIds, sysColumns, sysFields>>
  \/ \E k \in Removable(sysFields) :
       /\ sysFields' = Purged(sysFields, k)
       /\ UNCHANGED <<sysTables, sysTableIds, sysColumns, sysIndexes>>
PurgeDictStep ==
  /\ PurgeDict
  /\ UNCHANGED <<ddl, nextTrx, nextId, nextIdx, committedDef, latestDef>>

\* dict_sys_t::load_table() of a name not in the cache.  The load reads
\* the dictionary under dict_sys.latch and changes none of it, so the
\* model evaluates it in every state rather than taking it as a step.
LoadTable(n) == LoadTableOne(n, FALSE)

\* Mutant: the first ID_IND record of the id decides (no loop).
TableOnIdFirst(keys, id) ==
  IF keys = <<>> \/ Head(keys)[1] # id THEN NoTable
  ELSE LET t == LoadTable(Head(keys)[2])
       IN IF "id" \in DOMAIN t /\ t.id = id THEN t ELSE NoTable

\* The ut_ad(rec_get_deleted_flag(rec, 0)) of dict_load_table_on_id()
\* failing: a debug build stops there.
OnIdAssertFail == [assertFail |-> TRUE]

\* The loop of dict_load_table_on_id() over the ID_IND records from id,
\* delete-marked ones too: dict_sys.load_table() of the NAME, and on to
\* the next record when that gives no table or a table of another id.
\* A table of another id is asserted to come from a delete-marked ID_IND
\* record (the latest version, which the cursor reads).
RECURSIVE TableOnId(_, _)
TableOnId(keys, id) ==
  IF keys = <<>> \/ Head(keys)[1] # id THEN NoTable
  ELSE LET t == LoadTable(Head(keys)[2])
       IN IF "id" \in DOMAIN t /\ t.id = id THEN t
          ELSE IF "id" \in DOMAIN t /\ ~sysTableIds[Head(keys)].cur.del THEN OnIdAssertFail
          ELSE TableOnId(Tail(keys), id)

\* dict_load_table_on_id(): btr_pcur_open_on_user_rec() on ID_IND.
LoadTableOnId(id) ==
  TableOnId(SetToSortSeq({k \in DOMAIN sysTableIds : k[1] >= id}, IdNameLess), id)

Init ==
  /\ sysTables = [n \in {} |-> NoVer]
  /\ sysTableIds = [k \in {} |-> NoVer]
  /\ sysColumns = [k \in {} |-> NoVer]
  /\ sysIndexes = [k \in {} |-> NoVer]
  /\ sysFields = [k \in {} |-> NoVer]
  /\ ddl = 0
  /\ nextTrx = 1
  /\ nextId = 1
  /\ nextIdx = 1
  /\ committedDef = [n \in Name |-> NoTable]
  /\ latestDef = [n \in Name |-> NoTable]

Next ==
  \/ \E n \in DdlName : \E d \in NextDefs(committedDef[n]) : DdlWrite(n, d)
  \/ \E n, m \in Name : DdlRename(n, m)
  \/ DdlCommit
  \/ DdlRollback
  \/ PurgeDictStep

Spec == Init /\ [][Next]_vars

(***************************************************************************)
(* Properties                                                              *)
(***************************************************************************)
\* A table definition loaded from the dictionary is one that some
\* transaction wrote whole: the committed one (READ COMMITTED) or, while
\* a DDL transaction is active, the one it wrote (after the reload as READ
\* UNCOMMITTED); never a mixture of SYS_TABLES.N_COLS, SYS_COLUMNS,
\* SYS_INDEXES and SYS_FIELDS records of different versions, never a
\* corruption error, and never a table returned with part of its indexes.
\* It needs use_uncommitted of the columns and the uncommitted of the
\* indexes to agree, and the index loop to stop only past the table.
LoadConsistent ==
  \A n \in Name : LoadTable(n) \in {committedDef[n], latestDef[n]}

\* The table ids written only by the active DDL transaction.  Purge and
\* rollback load the table of an undo record by id, and no undo record of
\* such a table is purged or rolled back while the DDL is active.
ActiveDdlIds ==
  {d.id : d \in {latestDef[n] : n \in Name} \ {NoTable}}
    \ {d.id : d \in {committedDef[n] : n \in Name} \ {NoTable}}

\* What dict_load_table_on_id(), which purge and rollback use to open the
\* table of an undo record, returns for the ids they load is a whole
\* definition of that id, and never trips the assertion that a table of
\* another id comes from a delete-marked ID_IND record; and when no DDL
\* transaction is active it finds the table of every id that a definition
\* has, also when a RENAME TABLE left the delete-marked ID_IND entry of
\* the old name before the entry of the new one.  (While a DROP TABLE is
\* active the load finds no table: its delete-marked SYS_COLUMNS records
\* read as an incomplete instant ALTER.)
LoadOnIdConsistent ==
  \A id \in (1 .. MaxTableId) \ ActiveDdlIds :
    LET r == LoadTableOnId(id)
        written == {d \in {committedDef[n] : n \in Name} \cup {latestDef[n] : n \in Name} :
                      d # NoTable /\ d.id = id}
    IN /\ r # NoTable => r \in written
       /\ ddl = 0 /\ written # {} => r # NoTable

====
