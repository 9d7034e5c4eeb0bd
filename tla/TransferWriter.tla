--------------------------- MODULE TransferWriter ---------------------------
(***************************************************************************)
(* The asynchronous token_transfers writer of the indexer                  *)
(* (apps/indexer/src/block-processor.ts).  Block workers only enqueue the   *)
(* transfers they decoded; one drainer writes them and moves the durable    *)
(* watermark W = indexer_cursor.transfers_durable_block, the point a crash  *)
(* resumes from.                                                            *)
(*                                                                          *)
(* JavaScript runs to completion between two awaits, so one action is the   *)
(* code from one await to the next: a drain is the action that takes the    *)
(* queue (part of whichever call started it), the transaction of            *)
(* writeTransferBlocks, and the UPDATE of persistDurableBlock.  A statement *)
(* and the continuation after its await are one action, because what other  *)
(* code may do in between commutes with the statement.                      *)
(*                                                                          *)
(* Simplifications: heights are offsets from an established watermark, so   *)
(* 0 is the W the database held when the model starts; the rows of a block  *)
(* are its decode's version and their number; metrics, logging, alerts and  *)
(* the holder-balance feed (disabled in the code) are left out.             *)
(***************************************************************************)
EXTENDS Integers, FiniteSets, Functions

CONSTANTS
  MaxBlock,        \* the heights of the model are 1..MaxBlock
  MaxVersion,      \* how often a height may be unwound (bound of the model)
  MaxFloorPersists,\* how many un-awaited UPDATEs of W are out (bound)
  RowCount(_, _)   \* how many transfers the decode of a height has, per version

Blocks   == 1 .. MaxBlock
Heights  == 0 .. MaxBlock
Versions == 0 .. MaxVersion

ASSUME BoundsAssumption == MaxBlock \in Nat /\ MaxVersion \in Nat /\ MaxFloorPersists \in Nat
ASSUME RowCountAssumption ==
  \A n \in Blocks, v \in Versions : RowCount(n, v) \in Nat

NoRows == MaxVersion + 1   \* token_transfers holds nothing for the height

(* A queued write.  A quarantine batch claims nothing about its block.      *)
Batch == [version : Versions, rows : Nat, quarantine : BOOLEAN]
RealBatch(n, v)    == [version |-> v, rows |-> RowCount(n, v), quarantine |-> FALSE]
QuarantineBatch    == [version |-> 0, rows |-> 0, quarantine |-> TRUE]
NoQueue            == [n \in {} |-> QuarantineBatch]

(* Why a height at or below W may lack its transfers (history only):        *)
(*   floor         the MAX_LAG skip jumped W over it, at once or when its   *)
(*                 un-awaited UPDATE landed later                           *)
(*   rewindFailed  the UPDATE rewinding W for a reorg failed                *)
(*   rewindSkipped W was above the fork but memory was not, so no rewind    *)
Excuses == {"none", "floor", "rewindFailed", "rewindSkipped"}

VARIABLES
  \* memory of the process
  transferPending,          \* Map: height -> queued batch
  transferPendingRows,      \* rows queued, kept incrementally
  transferWritten,          \* committed, not yet folded into W
  durableBlock,             \* W as the process knows it
  transferWriterSeeded,
  transferWriterPaused,
  writer,                   \* where the drainer is; "idle" iff not running
  drained,                  \* the drainer's local batch
  newDurable,               \* the fold being persisted
  floorPersists,            \* UPDATEs of setDurableFloor nobody awaits
  rollback,                 \* how far the poll loop's reorg recovery is
  \* the database
  token_transfers,          \* version whose rows the table holds, or NoRows
  transfers_durable_block,
  poison_blocks,
  blocks,                   \* heights that have a row in blocks
  \* history
  version,                  \* how often the height has been unwound
  excuse                    \* see Excuses

queueVars  == <<transferPending, transferPendingRows>>
drainVars  == <<writer, drained, newDurable>>
floorVars  == <<durableBlock, transferWritten>>
flagVars   == <<transferWriterSeeded, transferWriterPaused>>
memoryVars == <<queueVars, drainVars, floorVars, flagVars, floorPersists, rollback>>
dbVars     == <<token_transfers, transfers_durable_block, poison_blocks, blocks>>
history    == <<version, excuse>>
vars       == <<memoryVars, dbVars, history>>

Phases    == {"none", "quiesce", "persist", "unwindPoison", "unwindTransfers",
              "unwindBlocks"}
NoRollback == [phase |-> "none", fork |-> 0]

Init ==
  /\ transferPending = NoQueue
  /\ transferPendingRows = 0
  /\ transferWritten = {}
  /\ durableBlock = 0
  /\ transferWriterSeeded = FALSE
  /\ transferWriterPaused = FALSE
  /\ writer = "idle"
  /\ drained = NoQueue
  /\ newDurable = 0
  /\ floorPersists = {}
  /\ rollback = NoRollback
  /\ token_transfers = [n \in Blocks |-> NoRows]
  /\ transfers_durable_block = 0
  /\ poison_blocks = {}
  /\ blocks = {}
  /\ version = [n \in Blocks |-> 0]
  /\ excuse = [n \in Blocks |-> "none"]

-----------------------------------------------------------------------------
(* Helpers.                                                                 *)

Put(q, n, batch) == [m \in DOMAIN q \cup {n} |-> IF m = n THEN batch ELSE q[m]]

(* The map p, and what only q has.                                          *)
Merged(p, q) ==
  [m \in DOMAIN p \cup DOMAIN q |-> IF m \in DOMAIN p THEN p[m] ELSE q[m]]

RowsOf(q, S) == SumFunctionOnSet([n \in S |-> q[n].rows], S)

RowsAtIgnored(q, n) == 0   \* mutant: a replaced batch stays counted
RowsAt(q, n) == IF n \in DOMAIN q THEN q[n].rows ELSE 0

Above(S, f) == {n \in S : n > f}

(* Mutant: the DELETE takes every drained height, quarantined ones too.     *)
OverwrittenAll(q) ==
  [n \in Blocks |-> IF n \in DOMAIN q
                    THEN IF q[n].quarantine THEN NoRows ELSE q[n].version
                    ELSE token_transfers[n]]

(* What the table holds once the batches of q are written: the heights of   *)
(* the real batches are deleted and inserted, quarantined ones untouched.   *)
Overwritten(q) ==
  [n \in Blocks |-> IF n \in DOMAIN q /\ ~q[n].quarantine
                    THEN q[n].version ELSE token_transfers[n]]

Pardon(q) ==
  [n \in Blocks |-> IF n \in DOMAIN q /\ ~q[n].quarantine
                    THEN "none" ELSE excuse[n]]

Excused(S, why) ==
  [n \in Blocks |-> IF n \in S /\ excuse[n] = "none" THEN why ELSE excuse[n]]

Settled(n) == token_transfers[n] = version[n]

(* The head of the drainer's loop, run synchronously after each pass: take  *)
(* the whole queue, or stop.                                                *)
LoopHead(q, rows, paused) ==
  IF ~paused /\ DOMAIN q # {}
  THEN /\ drained' = q
       /\ transferPending' = NoQueue
       /\ transferPendingRows' = 0
       /\ writer' = "write"
  ELSE /\ drained' = NoQueue
       /\ transferPending' = q
       /\ transferPendingRows' = rows
       /\ writer' = "idle"

(* runTransferWriter() called when the queue is q.                          *)
RunTransferWriter(q, rows, seeded, paused) ==
  IF seeded /\ ~paused /\ writer = "idle"
  THEN LoopHead(q, rows, paused)
  ELSE /\ transferPending' = q
       /\ transferPendingRows' = rows
       /\ UNCHANGED <<writer, drained>>

(* The poll loop awaits its workers before it recovers from a reorg, and    *)
(* the gap healer only touches heights far below any fork.                  *)
MayTouch(n) == rollback.phase = "none" \/ n <= rollback.fork

-----------------------------------------------------------------------------
(* The callers' side: block workers, quarantine, the overlapping deploy     *)
(* generation, the MAX_LAG skip.                                            *)

(* processBlock: the block row is inserted, then the decode is handed over. *)
EnqueueTransferWrite(n) ==
  /\ MayTouch(n)
  /\ blocks' = blocks \cup {n}
  /\ LET batch == RealBatch(n, version[n])
     IN  RunTransferWriter(Put(transferPending, n, batch),
                           transferPendingRows - RowsAt(transferPending, n) + batch.rows,
                           transferWriterSeeded, transferWriterPaused)
  /\ UNCHANGED <<newDurable, floorVars, flagVars, floorPersists, rollback,
                 token_transfers, transfers_durable_block, poison_blocks,
                 history>>

(* The poll loop records the poison height, which requires the block row to *)
(* be absent, and enqueues the quarantine.  A queued real decode outranks.  *)
EnqueueQuarantinedBlock(n) ==
  /\ rollback.phase = "none"
  /\ n \notin blocks
  /\ poison_blocks' = poison_blocks \cup {n}
  /\ IF n \in DOMAIN transferPending /\ ~transferPending[n].quarantine
     THEN UNCHANGED <<queueVars, writer, drained>>
     ELSE RunTransferWriter(Put(transferPending, n, QuarantineBatch),
                            transferPendingRows - RowsAt(transferPending, n),
                            transferWriterSeeded, transferWriterPaused)
  /\ UNCHANGED <<newDurable, floorVars, flagVars, floorPersists, rollback,
                 token_transfers, transfers_durable_block, blocks, history>>

(* Deploys overlap by a minute: the other process writes a height itself.   *)
OtherGenerationWrites(n) ==
  /\ MayTouch(n)
  /\ blocks' = blocks \cup {n}
  /\ token_transfers' = [token_transfers EXCEPT ![n] = version[n]]
  /\ excuse' = [excuse EXCEPT ![n] = "none"]
  /\ UNCHANGED <<memoryVars, transfers_durable_block, poison_blocks, version>>

SetDurableFloor(b) ==
  /\ rollback.phase = "none"
  /\ transferWriterSeeded
  /\ b > durableBlock
  /\ Cardinality(floorPersists) < MaxFloorPersists
  /\ durableBlock' = b
  /\ transferWritten' = Above(transferWritten, b)
  /\ floorPersists' = floorPersists \cup {b}
  /\ excuse' = Excused({n \in durableBlock + 1 .. b : ~Settled(n)}, "floor")
  /\ UNCHANGED <<queueVars, drainVars, flagVars, rollback, dbVars, version>>

(* The UPDATE of a floor lands, whatever W has become meanwhile.            *)
FloorPersistLands(b) ==
  /\ b \in floorPersists
  /\ floorPersists' = floorPersists \ {b}
  /\ transfers_durable_block' = b
  /\ excuse' = Excused(durableBlock + 1 .. b, "floor")
  /\ UNCHANGED <<queueVars, drainVars, floorVars, flagVars, rollback,
                 token_transfers, poison_blocks, blocks, version>>

FloorPersistFails(b) ==
  /\ b \in floorPersists
  /\ floorPersists' = floorPersists \ {b}
  /\ UNCHANGED <<queueVars, drainVars, floorVars, flagVars, rollback, dbVars,
                 history>>

-----------------------------------------------------------------------------
(* The drainer.                                                             *)

(* Mutant: the fold jumps to the highest written block.                     *)
IsFoldOverHoles(w, written) ==
  /\ w \in durableBlock .. MaxBlock
  /\ w \in written \cup {durableBlock}
  /\ \A n \in written : n <= w \/ n <= durableBlock

(* The contiguous prefix of written blocks above W ends at w.               *)
IsFold(w, written) ==
  /\ w \in durableBlock .. MaxBlock
  /\ durableBlock + 1 .. w \subseteq written
  /\ w + 1 \notin written

(* writeTransferBlocks commits; the fold is computed and, if it moves W,    *)
(* its UPDATE is issued.                                                    *)
WriteCommits ==
  /\ writer = "write"
  /\ token_transfers' = Overwritten(drained)
  /\ excuse' = Pardon(drained)
  /\ transferWritten' = transferWritten \cup Above(DOMAIN drained, durableBlock)
  /\ \E w \in Heights :
       /\ IsFold(w, transferWritten')
       /\ \/ /\ w > durableBlock
             /\ newDurable' = w
             /\ writer' = "persist"
             /\ UNCHANGED <<queueVars, drained>>
          \/ /\ w = durableBlock
             /\ LoopHead(transferPending, transferPendingRows, transferWriterPaused)
             /\ UNCHANGED newDurable
  /\ UNCHANGED <<durableBlock, flagVars, floorPersists, rollback,
                 transfers_durable_block, poison_blocks, blocks, version>>

(* Mutant: a retried batch replaces a newer decode of the same block.       *)
RequeueClobbering ==
  /\ transferPending' = Merged(drained, transferPending)
  /\ transferPendingRows' = RowsOf(transferPending', DOMAIN transferPending')
  /\ drained' = NoQueue
  /\ newDurable' = 0
  /\ writer' = "backoff"

(* Mutant: the drainer ends with the failure instead of backing off.        *)
RequeueAndStop ==
  /\ transferPending' = Merged(transferPending, drained)
  /\ transferPendingRows' = transferPendingRows
       + RowsOf(drained, DOMAIN drained \ DOMAIN transferPending)
  /\ drained' = NoQueue
  /\ newDurable' = 0
  /\ writer' = "idle"

(* Mutant: the failed batch is forgotten.                                   *)
RequeueNothing ==
  /\ UNCHANGED queueVars
  /\ drained' = NoQueue
  /\ newDurable' = 0
  /\ writer' = "backoff"

(* The catch block: requeue without clobbering a newer decode, back off.    *)
Requeue ==
  /\ transferPending' = Merged(transferPending, drained)
  /\ transferPendingRows' = transferPendingRows
       + RowsOf(drained, DOMAIN drained \ DOMAIN transferPending)
  /\ drained' = NoQueue
  /\ newDurable' = 0
  /\ writer' = "backoff"

(* The transaction reports an error; it may have committed all the same.    *)
WriteFails ==
  /\ writer = "write"
  /\ \/ UNCHANGED <<token_transfers, excuse>>
     \/ /\ token_transfers' = Overwritten(drained)
        /\ excuse' = Pardon(drained)
  /\ Requeue
  /\ UNCHANGED <<floorVars, flagVars, floorPersists, rollback,
                 transfers_durable_block, poison_blocks, blocks, version>>

(* Only now does memory follow: fold, then take the next batch or stop.     *)
PersistCommits ==
  /\ writer = "persist"
  /\ transfers_durable_block' = newDurable
  /\ transferWritten' = transferWritten \ (durableBlock + 1 .. newDurable)
  /\ durableBlock' = newDurable
  /\ newDurable' = 0
  /\ LoopHead(transferPending, transferPendingRows, transferWriterPaused)
  /\ UNCHANGED <<flagVars, floorPersists, rollback, token_transfers,
                 poison_blocks, blocks, history>>

PersistFails ==
  /\ writer = "persist"
  /\ \/ UNCHANGED transfers_durable_block
     \/ transfers_durable_block' = newDurable
  /\ Requeue
  /\ UNCHANGED <<floorVars, flagVars, floorPersists, rollback,
                 token_transfers, poison_blocks, blocks, history>>

(* The 250 ms are over.                                                     *)
BackoffEnds ==
  /\ writer = "backoff"
  /\ LoopHead(transferPending, transferPendingRows, transferWriterPaused)
  /\ UNCHANGED <<newDurable, floorVars, flagVars, floorPersists, rollback,
                 dbVars, history>>

-----------------------------------------------------------------------------
(* Reorg recovery: rollbackTransferWriterTo(f), then unwindFrom(f + 1).     *)

(* Pause: no new drain starts, the one in flight finishes its pass.         *)
RollbackBegins(f) ==
  /\ transferWriterSeeded
  /\ rollback.phase = "none"
  /\ \A n \in Blocks : n > f => version[n] < MaxVersion
  /\ transferWriterPaused' = TRUE
  /\ rollback' = [phase |-> "quiesce", fork |-> f]
  /\ UNCHANGED <<queueVars, drainVars, floorVars, transferWriterSeeded,
                 floorPersists, dbVars, history>>

(* Mutant: the pause ends, but nobody restarts the drainer.                 *)
ResumeWithoutRestart(q, rows) ==
  /\ transferWriterPaused' = FALSE
  /\ transferPending' = q
  /\ transferPendingRows' = rows
  /\ UNCHANGED <<writer, drained>>
  /\ rollback' = [rollback EXCEPT !.phase = "unwindPoison"]

(* The finally block: always resume the writer.                             *)
Resume(q, rows) ==
  /\ transferWriterPaused' = FALSE
  /\ RunTransferWriter(q, rows, transferWriterSeeded, FALSE)
  /\ rollback' = [rollback EXCEPT !.phase = "unwindPoison"]

(* Mutant: the rollback does not wait for the drain in flight.              *)
QuiescedAtOnce == TRUE

(* What the rollback waits for after the pause.                             *)
Quiesced == writer = "idle"

(* The writer is idle: purge above the fork and, if W is above it, rewind W *)
(* in memory and issue its UPDATE.                                          *)
RollbackPurges ==
  /\ rollback.phase = "quiesce"
  /\ Quiesced
  /\ transferWritten' = transferWritten \ Above(Blocks, rollback.fork)
  /\ LET doomed == Above(DOMAIN transferPending, rollback.fork)
         kept   == Restrict(transferPending, DOMAIN transferPending \ doomed)
         rows   == transferPendingRows - RowsOf(transferPending, doomed)
     IN \/ /\ durableBlock > rollback.fork
           /\ durableBlock' = rollback.fork
           /\ rollback' = [rollback EXCEPT !.phase = "persist"]
           /\ transferPending' = kept
           /\ transferPendingRows' = rows
           /\ UNCHANGED <<writer, drained, transferWriterPaused, excuse>>
        \/ /\ durableBlock <= rollback.fork
           /\ Resume(kept, rows)
           /\ excuse' = Excused(rollback.fork + 1 .. transfers_durable_block,
                                "rewindSkipped")
           /\ UNCHANGED durableBlock
  /\ UNCHANGED <<newDurable, transferWriterSeeded, floorPersists, dbVars,
                 version>>

RollbackPersists ==
  /\ rollback.phase = "persist"
  /\ transfers_durable_block' = rollback.fork
  /\ Resume(transferPending, transferPendingRows)
  /\ UNCHANGED <<newDurable, floorVars, transferWriterSeeded, floorPersists,
                 token_transfers, poison_blocks, blocks, history>>

(* Logged, not fatal: the next fold persists a correct W again.             *)
RollbackPersistFails ==
  /\ rollback.phase = "persist"
  /\ Resume(transferPending, transferPendingRows)
  /\ excuse' = Excused(rollback.fork + 1 .. transfers_durable_block, "rewindFailed")
  /\ UNCHANGED <<newDurable, floorVars, transferWriterSeeded, floorPersists,
                 dbVars, version>>

UnwindPoison ==
  /\ rollback.phase = "unwindPoison"
  /\ poison_blocks' = poison_blocks \ Above(Blocks, rollback.fork)
  /\ rollback' = [rollback EXCEPT !.phase = "unwindTransfers"]
  /\ UNCHANGED <<queueVars, drainVars, floorVars, flagVars, floorPersists,
                 token_transfers, transfers_durable_block, blocks, history>>

UnwindTransfers ==
  /\ rollback.phase = "unwindTransfers"
  /\ token_transfers' = [n \in Blocks |-> IF n > rollback.fork THEN NoRows
                                          ELSE token_transfers[n]]
  /\ version' = [n \in Blocks |-> IF n > rollback.fork THEN version[n] + 1
                                  ELSE version[n]]
  /\ rollback' = [rollback EXCEPT !.phase = "unwindBlocks"]
  /\ UNCHANGED <<queueVars, drainVars, floorVars, flagVars, floorPersists,
                 transfers_durable_block, poison_blocks, blocks, excuse>>

UnwindBlocks ==
  /\ rollback.phase = "unwindBlocks"
  /\ blocks' = blocks \ Above(Blocks, rollback.fork)
  /\ rollback' = NoRollback
  /\ UNCHANGED <<queueVars, drainVars, floorVars, flagVars, floorPersists,
                 token_transfers, transfers_durable_block, poison_blocks,
                 history>>

(* A delete throws: the poll loop logs it and comes back later.             *)
UnwindFails ==
  /\ rollback.phase \in {"unwindPoison", "unwindTransfers", "unwindBlocks"}
  /\ rollback' = NoRollback
  /\ UNCHANGED <<queueVars, drainVars, floorVars, flagVars, floorPersists,
                 dbVars, history>>

-----------------------------------------------------------------------------
(* Crash and restart.                                                       *)

Crash ==
  /\ transferWriterSeeded
  /\ transferPending' = NoQueue
  /\ transferPendingRows' = 0
  /\ transferWritten' = {}
  /\ durableBlock' = 0
  /\ transferWriterSeeded' = FALSE
  /\ transferWriterPaused' = FALSE
  /\ writer' = "idle"
  /\ drained' = NoQueue
  /\ newDurable' = 0
  /\ floorPersists' = {}
  /\ rollback' = NoRollback
  /\ UNCHANGED <<dbVars, history>>

(* Seed W (the stored one, or the one getOrInitDurableBlock just stored) and *)
(* flush what was enqueued during startup.                                  *)
InitTransferWriter(seed) ==
  /\ ~transferWriterSeeded
  /\ durableBlock' = seed
  /\ transfers_durable_block' = seed
  /\ transferWriterSeeded' = TRUE
  /\ RunTransferWriter(transferPending, transferPendingRows, TRUE,
                       transferWriterPaused)
  /\ UNCHANGED <<newDurable, transferWritten, transferWriterPaused,
                 floorPersists, rollback, token_transfers, poison_blocks, blocks,
                 history>>

-----------------------------------------------------------------------------
ClientStep ==
  \/ \E n \in Blocks : EnqueueTransferWrite(n)
  \/ \E n \in Blocks : EnqueueQuarantinedBlock(n)
  \/ \E n \in Blocks : OtherGenerationWrites(n)
  \/ \E b \in Blocks : SetDurableFloor(b)
  \/ \E b \in Blocks : FloorPersistLands(b)
  \/ \E b \in Blocks : FloorPersistFails(b)

DrainStep ==
  \/ WriteCommits
  \/ WriteFails
  \/ PersistCommits
  \/ PersistFails
  \/ BackoffEnds

RecoveryStep ==
  \/ \E f \in 0 .. MaxBlock - 1 : RollbackBegins(f)
  \/ RollbackPurges
  \/ RollbackPersists
  \/ RollbackPersistFails
  \/ UnwindPoison
  \/ UnwindTransfers
  \/ UnwindBlocks
  \/ UnwindFails

Next ==
  \/ ClientStep
  \/ DrainStep
  \/ RecoveryStep
  \/ Crash
  \/ InitTransferWriter(transfers_durable_block)

Spec == Init /\ [][Next]_vars
-----------------------------------------------------------------------------
(* Properties.                                                              *)

IsQueue(q) == /\ q \in [DOMAIN q -> Batch]
              /\ DOMAIN q \subseteq Blocks

(* Every variable has its type (the row counter is RowCounterExact's).      *)
TypeOK ==
  /\ IsQueue(transferPending)
  /\ transferWritten \subseteq Blocks
  /\ durableBlock \in Heights
  /\ transferWriterSeeded \in BOOLEAN
  /\ transferWriterPaused \in BOOLEAN
  /\ writer \in {"idle", "write", "persist", "backoff"}
  /\ IsQueue(drained)
  /\ newDurable \in Heights
  /\ floorPersists \subseteq Blocks
  /\ rollback \in [phase : Phases, fork : Heights]
  /\ token_transfers \in [Blocks -> Versions \cup {NoRows}]
  /\ transfers_durable_block \in Heights
  /\ poison_blocks \subseteq Blocks
  /\ blocks \subseteq Blocks
  /\ version \in [Blocks -> Versions]
  /\ excuse \in [Blocks -> Excuses]

(* The counter that drives backpressure and the high-water alert is the sum *)
(* of what is queued, through replacement, drain, requeue and reorg purge.  *)
RowCounterExact ==
  transferPendingRows = RowsOf(transferPending, DOMAIN transferPending)

(* No lost wakeup: a non-empty queue always has a running drainer, or a     *)
(* rollback or a seed still to come that will start one.                    *)
NoLostWakeup ==
  \/ DOMAIN transferPending = {}
  \/ writer # "idle"
  \/ transferWriterPaused
  \/ ~transferWriterSeeded

(* Rows of a chain the indexer has unwound never reappear: a drain that was *)
(* under way when the reorg was noticed cannot commit behind the deletes.   *)
NoOrphanRows ==
  \A n \in Blocks : token_transfers[n] \in {version[n], NoRows}

(* The contract of W: every height at or below the stored watermark has its *)
(* transfers, was quarantined, or is one the code knowingly gives up.       *)
Accounted(n) ==
  \/ Settled(n)
  \/ n \in poison_blocks
  \/ excuse[n] # "none"

WatermarkSound == \A n \in 1 .. transfers_durable_block : Accounted(n)

(* The stored watermark behaves like the abstract one: W only ever claims   *)
(* accounted heights, and a reorg takes W back in the database before it    *)
(* takes back anything W claims.                                            *)
Stored == INSTANCE DurableWatermark
            WITH secure <- {n \in Blocks : Accounted(n)},
                 W <- transfers_durable_block
ImplementsDurableWatermark == Stored!Spec

(* A stale quarantine in the retry loop is a no-op: only the unwind of a    *)
(* reorg ever removes a height's rows, whoever wrote them.                  *)
OnlyUnwindDeletes ==
  [][\A n \in Blocks :
       token_transfers[n] # NoRows /\ token_transfers'[n] = NoRows
         => rollback.phase = "unwindTransfers" /\ n > rollback.fork]_vars

Queued(q, n) == n \in DOMAIN q /\ ~q[n].quarantine
Owed(n)      == Queued(transferPending, n) \/ Queued(drained, n)

(* A decode that was handed over is primary data: it leaves the writer only *)
(* as rows in the table, by the purge of a reorg below it, or with the      *)
(* process; no quarantine, retry or replacement takes it.                   *)
NoDecodeDropped ==
  [][\A n \in Blocks :
       Owed(n) /\ ~Owed(n)' =>
         \/ Settled(n)'
         \/ rollback.phase = "quiesce" /\ n > rollback.fork
         \/ ~transferWriterSeeded']_vars

(* The writer retries forever: a queued decode is eventually in the table,  *)
(* unless a reorg purge or a crash takes it.                                *)
EveryDecodeLands == \A n \in Blocks : Owed(n) ~> Settled(n) \/ ~Owed(n)
=============================================================================
