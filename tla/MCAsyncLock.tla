----------------------------- MODULE MCAsyncLock -----------------------------
(***************************************************************************)
(* AsyncLock for TLC: two orders and one file, with enough calls for two   *)
(* waiters behind an order whose holder waits for the file, and for two    *)
(* orders whose holders want the file at once.                             *)
(***************************************************************************)
EXTENDS AsyncLock
=============================================================================
