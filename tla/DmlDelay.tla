------------------------------ MODULE DmlDelay ------------------------------
(***************************************************************************)
(* trx_purge_dml_delay() (trx0purge.cc): the back-pressure delay that      *)
(* trx_purge() stores in srv_dml_needed_delay at the start of each batch.  *)
(*                                                                         *)
(* The code computes ratio = double(history_len) / double(max_purge_lag)   *)
(* and, when ratio > 1.0, delay = (ulint) ((ratio - .5) * 10000), which    *)
(* truncates toward zero, then clamps to srv_max_purge_lag_delay.  The     *)
(* exact value is (10000 * h - 5000 * lag) / lag.  When lag is a power of  *)
(* two every step is exact in binary floating point.  Otherwise h / lag is *)
(* rounded, and when the exact value is a whole number the product may     *)
(* land just below it, so the truncation gives one less: the operator      *)
(* returns the set of results the build can produce.  For the bounded      *)
(* inputs used here a non-integral exact value is at least 1 / lag from a  *)
(* whole number, far beyond the rounding error, so it truncates to its     *)
(* floor.                                                                  *)
(***************************************************************************)
EXTENDS Integers

\* lag is 2^k for some k.
IsPowerOfTwo(n) == \E k \in 0 .. n : 2 ^ k = n

\* (ulint) ((ratio - .5) * 10000) for ratio = h / lag > 1.
TruncatedDelay(h, lag) ==
  LET num == 10000 * h - 5000 * lag
      e == num \div lag
  IN IF num % lag = 0 /\ ~IsPowerOfTwo(lag) THEN {e, e - 1} ELSE {e}

\* Mutant: history equal to the lag already delays DML (>= for >).
DmlDelayGeq(h, lag, maxDelay) ==
  IF lag = 0 THEN {0}
  ELSE {IF d > maxDelay THEN maxDelay ELSE d :
          d \in IF h >= lag THEN TruncatedDelay(h, lag) ELSE {0}}

\* Mutant: the result is not clamped to srv_max_purge_lag_delay.
DmlDelayNoClamp(h, lag, maxDelay) ==
  IF lag = 0 THEN {0}
  ELSE IF h > lag THEN TruncatedDelay(h, lag) ELSE {0}

\* trx_purge_dml_delay(): h = trx_sys.rseg_history_len,
\* lag = srv_max_purge_lag, maxDelay = srv_max_purge_lag_delay.
DmlDelay(h, lag, maxDelay) ==
  IF lag = 0 THEN {0}
  ELSE {IF d > maxDelay THEN maxDelay ELSE d :
          d \in IF h > lag THEN TruncatedDelay(h, lag) ELSE {0}}

====
