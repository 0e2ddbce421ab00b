------------------------------ MODULE MCHealth ------------------------------
(***************************************************************************)
(* Small instances of Health: two requests of any kind, and the one      *)
(* dependency that the server has, its bucket.                             *)
(***************************************************************************)
EXTENDS Health, TLC

CONSTANTS r1, r2, bucket
=============================================================================
