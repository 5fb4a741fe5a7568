------------------------------- MODULE MCArith -------------------------------
(***************************************************************************)
(* Checks the two pure arithmetic operators of the project over bounded    *)
(* inputs: trx_purge_dml_delay() (DmlDelay) and the decoding of            *)
(* SYS_TABLES.TYPE and N_COLS (DictTableFlags).  The history length rises  *)
(* with commits and falls with purge.  innodb_max_purge_lag and            *)
(* innodb_max_purge_lag_delay are chosen in Init from small sets, and so   *)
(* is the rounding of the floating-point result (DmlDelay returns a set).  *)
(* Init also chooses one SYS_TABLES record: the flags of a valid table and *)
(* a TYPE word written for it, in every format a server wrote.             *)
(***************************************************************************)
EXTENDS DmlDelay, DictTableFlags

CONSTANTS
  MaxHist,     \* bound on trx_sys.rseg_history_len
  Lags,        \* values of srv_max_purge_lag
  MaxDelays    \* values of srv_max_purge_lag_delay

VARIABLES hist, lag, maxDelay,
  table    \* a SYS_TABLES record: the flags f it was written for, and TYPE

vars == <<hist, lag, maxDelay, table>>

Init ==
  /\ hist = 0
  /\ lag \in Lags
  /\ maxDelay \in MaxDelays
  /\ table \in UNION {{[f |-> f, type |-> t] : t \in StoredTypes(f)} : f \in TableFlags}

\* trx_purge_add_undo_to_history(): one more log in the history.
AddHistory ==
  /\ hist < MaxHist
  /\ hist' = hist + 1
  /\ UNCHANGED <<lag, maxDelay, table>>

\* trx_purge_free_segment() / history truncation: one log fewer.
RemoveHistory ==
  /\ hist > 0
  /\ hist' = hist - 1
  /\ UNCHANGED <<lag, maxDelay, table>>

Next == AddHistory \/ RemoveHistory

Spec == Init /\ [][Next]_vars

\* The delay trx_purge() publishes in srv_dml_needed_delay behaves as the
\* spec (4.3, step 1) and the comment in trx_purge_dml_delay() say, for
\* every rounding of the double arithmetic: no delay without a limit or
\* while the history is within it; at least 5000 microseconds (or the
\* configured maximum) once the history exceeds it; never more than
\* innodb_max_purge_lag_delay; and never less for a longer history.
DelayShape ==
  \A d \in DmlDelay(hist, lag, maxDelay) :
    /\ d <= maxDelay
    /\ (lag = 0 \/ hist <= lag) => d = 0
    /\ (lag > 0 /\ hist > lag) => d >= IF maxDelay < 5000 THEN maxDelay ELSE 5000
    /\ \A d2 \in DmlDelay(hist + 1, lag, maxDelay) : d <= d2

\* The MDEV-12873 adjustment over every word up to bit 14: it rewrites
\* exactly the 10.2.2-10.2.6 words, and leaves alone every other word,
\* those with LLLL = 0 (the unsigned LLLL - 1 wraps), LLLL >= 10 or a TYPE
\* at or above 3 << 13 included.
OldFormatOnlyAdjusted ==
  \A w \in TypeWords : (TypeAdjust(w) # w) <=> w \in OldFormatTypes

\* Every valid table reads back from SYS_TABLES with its flags and column
\* count (dict_sys_tables_rec_read()), whether its TYPE was written in the
\* current format or, for PAGE_COMPRESSED=YES, by MariaDB 10.2.2 to 10.2.6;
\* and the adjustment of lines 611-640 rewrites no other SYS_TABLES.TYPE
\* word (OldFormatOnlyAdjusted), so that a word it should leave to
\* dict_sys_tables_type_valid() is never turned into valid flags.
TypeDecode ==
  /\ OldFormatOnlyAdjusted
  /\ \A n \in {1, 1023} :
       TablesTypeRead(table.type, NColsField(table.f, n)) = [flags |-> Tf(table.f), ncols |-> n]
====
