--------------------------- MODULE DictTableFlags ---------------------------
(***************************************************************************)
(* The decoding of SYS_TABLES.TYPE and SYS_TABLES.N_COLS into the table    *)
(* flags, in dict_sys_tables_rec_read() and dict_sys_tables_type_to_tf()   *)
(* of storage/innobase/dict/dict0load.cc.  The fields are 32-bit words as  *)
(* natural numbers; the bit layout is the one the comments of these        *)
(* functions give (AALLLLCDBZZZZx: COMPACT bit 0, ZIP_SSIZE bits 1-4,      *)
(* ATOMIC_BLOBS bit 5, DATA_DIR bit 6, PAGE_COMPRESSION bit 7,             *)
(* PAGE_COMPRESSION_LEVEL bits 8-11, NO_ROLLBACK bits 12-13, the unused    *)
(* bits from DICT_TF_POS_UNUSED = 14).  dict_tf_is_valid_not_redundant()   *)
(* and dict_tf2_is_valid() (dict0dict, not in this repository) are left    *)
(* out: the decoder is checked on the flags of valid tables only.          *)
(***************************************************************************)
EXTENDS Integers, Bitwise

\* Bits of dict_table_t::flags (DICT_TF_MASK_*).
DICT_TF_MASK_ZIP_SSIZE == 30            \* bits 1-4
DICT_TF_MASK_ATOMIC_BLOBS == 32         \* bit 5
DICT_TF_MASK_DATA_DIR == 64             \* bit 6
DICT_TF_MASK_PAGE_COMPRESSION == 128    \* bit 7
DICT_TF_MASK_PAGE_COMPRESSION_LEVEL == 3840  \* bits 8-11
DICT_TF_MASK_NO_ROLLBACK == 12288       \* bits 12-13

\* Mutant: the comparison done in signed arithmetic, so a = 0 passes.
UMinusOneLessSigned(a, b) == a - 1 < b

\* The unsigned comparison a - 1 < b of uint32_t: a = 0 wraps to UINT32_MAX.
UMinusOneLess(a, b) == a # 0 /\ a - 1 < b

\* dict_sys_tables_rec_read(), MDEV-12873: a TYPE of the form
\* AALLLL10DB00001 written by MariaDB 10.2.2 to 10.2.6 for
\* PAGE_COMPRESSED=YES, with LLLL in 1..9, loses the extraneous 0 bit 7;
\* any other TYPE is left as it is.  ((type >> 9) & 0xf) - 1 is unsigned,
\* so LLLL = 0 wraps to a large value.
TypeAdjust(type) ==
  IF (type & 415) # 257 THEN type      \* (type & 0x19f) != 0x101
  ELSE IF type >= 3 * 2^13 THEN type
  ELSE IF UMinusOneLess(shiftR(type, 9) & 15, 9)
    THEN (type & 127) + 128 * shiftR(type, 8)      \* (type & 0x7f) | (type >> 1 & ~0x7f)
  ELSE type

\* dict_sys_tables_type_to_tf(): bit 0 of the flags is not_redundant; the
\* other persistent flags are the bits of TYPE.
TypeToTf(type, notRedundant) ==
  (IF notRedundant THEN 1 ELSE 0)
  + (type & (DICT_TF_MASK_ZIP_SSIZE + DICT_TF_MASK_ATOMIC_BLOBS + DICT_TF_MASK_DATA_DIR
             + DICT_TF_MASK_PAGE_COMPRESSION + DICT_TF_MASK_PAGE_COMPRESSION_LEVEL
             + DICT_TF_MASK_NO_ROLLBACK))

\* dict_sys_tables_rec_read() from the TYPE field on: the flags and the
\* column count.  N_COLS is the pair of its high bit DICT_N_COLS_COMPACT,
\* set unless ROW_FORMAT=REDUNDANT, and the other 31 bits (TLC integers
\* stop below 2^31); the bit is cleared once read.
TablesTypeRead(type, nCols) ==
  LET notRedundant == nCols.compact
  IN [flags |-> TypeToTf(TypeAdjust(type), notRedundant), ncols |-> nCols.n]

(***************************************************************************)
(* Reference: the flags of a table and the words that store them.          *)
(***************************************************************************)
\* The persistent flags of a valid table, as the comments state them:
\* REDUNDANT has only DATA_DIR and NO_ROLLBACK; PAGE_COMPRESSED=NO implies
\* PAGE_COMPRESSION_LEVEL=0, PAGE_COMPRESSED=YES has a level in 1..9 and
\* is not ROW_FORMAT=COMPRESSED.
TableFlags ==
  {f \in [compact : BOOLEAN, zip : 0 .. 15, blobs : 0 .. 1, dataDir : 0 .. 1,
          pc : 0 .. 1, level : 0 .. 9, noRollback : 0 .. 3] :
     /\ ~f.compact => f.zip = 0 /\ f.blobs = 0 /\ f.pc = 0
     /\ f.pc = 0 => f.level = 0
     /\ f.pc = 1 => f.level > 0 /\ f.zip = 0}

\* dict_table_t::flags of f.
Tf(f) ==
  (IF f.compact THEN 1 ELSE 0) + 2 * f.zip + 32 * f.blobs + 64 * f.dataDir
  + 128 * f.pc + 256 * f.level + 4096 * f.noRollback

\* SYS_TABLES.TYPE as written now: 1 for REDUNDANT and COMPACT, else the
\* flags (bit 0 set); DATA_DIR and NO_ROLLBACK are kept in both cases.
NewType(f) == Tf([f EXCEPT !.compact = TRUE])

\* SYS_TABLES.TYPE as MariaDB 10.2.2 to 10.2.6 wrote it for
\* PAGE_COMPRESSED=YES: a 0 SHARED_SPACE bit 7 shifts the bits above, and
\* ATOMIC_WRITES (now NO_ROLLBACK) is below 3.
OldType(f) ==
  1 + 2 * f.zip + 32 * f.blobs + 64 * f.dataDir
  + 256 * f.pc + 512 * f.level + 8192 * f.noRollback

\* SYS_TABLES.N_COLS of a table of n columns.
NColsField(f, n) == [compact |-> f.compact, n |-> n]

\* The SYS_TABLES.TYPE words a table with flags f can have: the current
\* format, and for PAGE_COMPRESSED=YES with ATOMIC_WRITES below 3 the one
\* of MariaDB 10.2.2 to 10.2.6.
StoredTypes(f) ==
  {NewType(f)} \cup (IF f.pc = 1 /\ f.noRollback < 3 THEN {OldType(f)} ELSE {})

\* The TYPE words in the format of MariaDB 10.2.2 to 10.2.6 that differ
\* from the current one: AALLLL10DB00001 with AA < 3 and LLLL in 1..9.
OldFormatTypes ==
  {OldType(f) : f \in {g \in TableFlags : g.pc = 1 /\ g.noRollback < 3}}

\* The 32-bit words up to bit 14, DICT_TF_POS_UNUSED; every higher word is
\* at or above 3 << 13 like the top 8192 of these.
TypeWords == 0 .. 2^15 - 1
====
