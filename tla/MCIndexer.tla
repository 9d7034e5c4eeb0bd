------------------------------ MODULE MCIndexer ------------------------------
(***************************************************************************)
(* TLC instances of Indexer: every second height carries a transfer.        *)
(***************************************************************************)
EXTENDS Indexer

MCRowCount(n, v) == (n + v) % 2
=============================================================================
