----------------------------- MODULE MCBackups ------------------------------
(***************************************************************************)
(* One piece of evidence, and one export built by one request at a time,   *)
(* for TLC.                                                                *)
(***************************************************************************)
EXTENDS Backups
=============================================================================
