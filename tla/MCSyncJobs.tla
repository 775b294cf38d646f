----------------------------- MODULE MCSyncJobs -----------------------------
(***************************************************************************)
(* Two jobs and a caller of one account, other accounts' jobs around them. *)
(***************************************************************************)
EXTENDS SyncJobs
=============================================================================
