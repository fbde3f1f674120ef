--------------------------- MODULE MCResultStore ---------------------------
(* TLC instance of ResultStore: two probe runs, batches of two, a channel  *)
(* of two, rows that expire, one failed call and one crash.                *)
EXTENDS ResultStore, TLC

CONSTANTS c1, c2
MCCallers == {c1, c2}
=============================================================================
