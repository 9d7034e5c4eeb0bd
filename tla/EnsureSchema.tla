----------------------------- MODULE EnsureSchema -----------------------------
(***************************************************************************)
(* What a start and the retention timer do to the database's indexes and    *)
(* partitions (apps/indexer/src/ensure-schema.ts): SchemaIndexes beside     *)
(* PartitionLadder, which are about different tables and share no state.    *)
(***************************************************************************)
EXTENDS SchemaIndexes, PartitionLadder

(* Indexes and partitions are there whenever something relies on them: a    *)
(* natural key at every moment, one whale index on each partition and not   *)
(* two, and a partition for every block up to the horizon of a run.         *)
SchemaKept == OneKeyLeft /\ OneIndexEach /\ LadderHolds
=============================================================================
