-------------------------- MODULE MCConnectionPool --------------------------
(***************************************************************************)
(* Instance of ConnectionPool for TLC.  Between them a review and a        *)
(* payment have every kind of session: one that only reads, one that waits *)
(* for a row, first, between and last.                                     *)
(***************************************************************************)
EXTENDS ConnectionPool

MCOperations == {"review", "pay"}

============================================================================
