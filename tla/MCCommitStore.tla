--------------------------- MODULE MCCommitStore ---------------------------
(***************************************************************************)
(* Two processes and three nonces: up to three commit() calls in all, over  *)
(* two tasks and two tests, so that a call can be overtaken, can fail and   *)
(* be retried by the same or by the other process.                          *)
(***************************************************************************)
EXTENDS CommitStore
=============================================================================
