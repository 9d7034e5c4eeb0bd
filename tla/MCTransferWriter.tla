-------------------------- MODULE MCTransferWriter --------------------------
(***************************************************************************)
(* TLC instance of TransferWriter.  A height's decode has as many rows as   *)
(* its height plus its version modulo 2, so an orphan and its canonical     *)
(* replacement differ in length and transfer-less blocks occur.             *)
(***************************************************************************)
EXTENDS TransferWriter

MCRowCount(n, v) == (n + v) % 2
=============================================================================
