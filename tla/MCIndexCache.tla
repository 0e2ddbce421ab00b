---------------------------- MODULE MCIndexCache ----------------------------
(***************************************************************************)
(* A small instance of IndexCache: three requests, so that one may come    *)
(* after another was answered while a third still leads a flight.          *)
(***************************************************************************)
EXTENDS IndexCache, TLC

CONSTANTS r1, r2, r3
=============================================================================
