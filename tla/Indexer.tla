------------------------------- MODULE Indexer -------------------------------
(***************************************************************************)
(* The indexer's poll loop (apps/indexer/src/index.ts, main) composed with  *)
(* the transfer writer it feeds: a restart resumes from the blocks table    *)
(* and W, a pass hands a batch of heights to a pool of workers, a height    *)
(* every endpoint rejects is quarantined, a large lag abandons a range, and *)
(* a reorg takes the cursor back.                                           *)
(*                                                                          *)
(* Simplifications: an attempt at a height has the three outcomes the loop  *)
(* tells apart (success, exhausted-clean, anything else); detecting a reorg *)
(* may happen for any fork below the cursor; a pass that changes nothing    *)
(* (tip not ahead, gap row not recorded) is a stutter; the overlapping      *)
(* deploy generation is GapHealer's and TransferWriter's.                   *)
(***************************************************************************)
EXTENDS TransferWriter, FiniteSetsExt

CONSTANTS
  MaxLag,          \* MAX_LAG_BLOCKS
  SkipKeep,        \* MAX_LAG_SKIP_KEEP
  BatchSize,       \* INDEX_BATCH_SIZE
  Concurrency,     \* INDEX_CONCURRENCY
  HighWaterBlocks, \* TT_QUEUE_HIGH_WATER_BLOCKS
  HighWaterRows,   \* TT_QUEUE_HIGH_WATER_ROWS
  QuarantineAfter, \* POISON_BLOCK_QUARANTINE_AFTER
  Bad,             \* heights every endpoint rejects
  FreshDatabase,   \* the raw W is 0 at first: no restart has stored one
  MaxCrashes,      \* bounds of the model: crashes of an execution,
  Horizons,        \*   heights its chain may grow to,
  ReorgHorizon     \*   and the highest of them below which it has reorgs

ASSUME LagAssumption ==
  MaxLag \in Nat /\ SkipKeep \in Nat /\ MaxLag > SkipKeep   \* config.ts: min 201
ASSUME LoopAssumption ==
  BatchSize \in Nat \ {0} /\ QuarantineAfter \in Nat \ {0} /\ MaxCrashes \in Nat
ASSUME HorizonAssumption == Horizons \subseteq 1 .. MaxBlock /\ ReorgHorizon \in Nat

VARIABLES
  tip,            \* the chain's head
  loop,           \* where the poll loop is
  lastIndexed,    \* the cursor
  backfillUntil,  \* resumeGapBackfillUntil, 0 for null
  status,         \* blockStatus of the batch; "out" for heights outside it
  failure,        \* a worker failed: the pool winds down
  poisonBlocks,   \* PoisonBlockTracker's counts, up to the threshold
  gaps,           \* heights recorded in index_gaps
  crashes,
  horizon,        \* how long the chain gets in this execution
  cleanRun        \* history: consecutive clean failures of this very block

loopVars    == <<lastIndexed, backfillUntil, status, failure>>
limits      == <<crashes, horizon>>
indexerVars == <<tip, loop, loopVars, poisonBlocks, gaps, limits, cleanRun>>
allVars     == <<vars, indexerVars>>

NoBatch == [n \in Blocks |-> "out"]
None    == [n \in Blocks |-> 0]

IndexerInit ==
  /\ Init
  /\ tip = 0
  /\ loop = "boot"
  /\ lastIndexed = 0
  /\ backfillUntil = 0
  /\ status = NoBatch
  /\ failure = FALSE
  /\ poisonBlocks = None
  /\ gaps = {}
  /\ crashes = 0
  /\ horizon \in Horizons
  /\ cleanRun = None

-----------------------------------------------------------------------------
(* Start: getResumeCursor and getOrInitDurableBlock.                        *)

MaxIndexed == Max(blocks \cup {0})

(* Heights the resume scan counts as holes: recorded poison is excluded.    *)
Holes == (1 .. MaxIndexed) \ (blocks \cup poison_blocks)

ResumeWatermark ==
  IF FreshDatabase /\ transfers_durable_block = 0
  THEN MaxIndexed ELSE transfers_durable_block

BlockCursor == IF Holes = {} THEN MaxIndexed ELSE Min(Holes) - 1

ResumeAtBlockCursor == BlockCursor   \* mutant: W is ignored
ResumeAt == Min({BlockCursor, ResumeWatermark})

ResumeIndexing ==
  /\ loop = "boot"
  /\ InitTransferWriter(ResumeWatermark)
  /\ lastIndexed' = ResumeAt
  /\ backfillUntil' = IF ResumeAt < MaxIndexed THEN MaxIndexed ELSE 0
  /\ loop' = "top"
  /\ UNCHANGED <<tip, status, failure, poisonBlocks, gaps, limits, cleanRun>>

-----------------------------------------------------------------------------
(* A pass of the loop.                                                      *)

(* The backfill ends once the cursor reaches its target.                    *)
Backfilling == backfillUntil # 0 /\ lastIndexed < backfillUntil

SkipTo == tip - SkipKeep

(* planMaxLagSkip, unless a backfill is under way.                          *)
LagSkip == ~Backfilling /\ tip - lastIndexed > MaxLag /\ SkipTo >= lastIndexed + 1

(* The range is recorded first, then the cursor and W jump over it.         *)
AbandonRange ==
  /\ loop = "top"
  /\ LagSkip
  /\ SetDurableFloor(SkipTo)
  /\ gaps' = gaps \cup (lastIndexed + 1 .. SkipTo)
  /\ lastIndexed' = SkipTo
  /\ backfillUntil' = 0
  /\ loop' = "check"
  /\ UNCHANGED <<tip, status, failure, poisonBlocks, limits, cleanRun>>

(* W is already beyond the range (a replay under an earlier floor).         *)
AbandonRangeBelowW ==
  /\ loop = "top"
  /\ LagSkip
  /\ SkipTo <= durableBlock
  /\ gaps' = gaps \cup (lastIndexed + 1 .. SkipTo)
  /\ lastIndexed' = SkipTo
  /\ backfillUntil' = 0
  /\ loop' = "check"
  /\ UNCHANGED <<vars, tip, status, failure, poisonBlocks, limits, cleanRun>>

BatchEndUnclamped == lastIndexed + BatchSize   \* mutant: beyond the tip
BatchEnd == Min({lastIndexed + BatchSize, tip})

(* The boundary check saw no reorg: a batch and its worker pool.            *)
StartBatch ==
  /\ \/ loop = "top" /\ ~LagSkip
     \/ loop = "check"
  /\ tip > lastIndexed
  /\ backfillUntil' = IF Backfilling THEN backfillUntil ELSE 0
  /\ status' = [n \in Blocks |->
                  IF n \in lastIndexed + 1 .. BatchEnd THEN "pending" ELSE "out"]
  /\ failure' = FALSE
  /\ loop' = "batch"
  /\ UNCHANGED <<vars, tip, lastIndexed, poisonBlocks, gaps, limits, cleanRun>>

-----------------------------------------------------------------------------
(* The workers.                                                             *)

Is(s)  == {n \in Blocks : status[n] = s}
Active == Is("inflight") \cup Is("wrote")

Backpressure ==
  /\ transferPendingRows <= HighWaterRows
  /\ Cardinality(DOMAIN transferPending) <= HighWaterBlocks

ClaimNext ==
  /\ loop = "batch"
  /\ ~failure
  /\ Backpressure
  /\ Cardinality(Active) < Concurrency
  /\ Is("pending") # {}
  /\ status' = [status EXCEPT ![Min(Is("pending"))] = "inflight"]
  /\ UNCHANGED <<vars, tip, loop, lastIndexed, backfillUntil, failure,
                 poisonBlocks, gaps, limits, cleanRun>>

(* The point of no return: the block row is in.                             *)
BlockWrites(n) ==
  /\ status[n] = "inflight"
  /\ n \notin Bad
  /\ blocks' = blocks \cup {n}
  /\ status' = [status EXCEPT ![n] = "wrote"]
  /\ UNCHANGED <<memoryVars, token_transfers, transfers_durable_block,
                 poison_blocks, history, tip, loop, lastIndexed, backfillUntil,
                 failure, poisonBlocks, gaps, limits, cleanRun>>

(* Mutant: the cursor jumps to the last block that is done.                 *)
AdvancedOverHoles(st) == Max({lastIndexed} \cup {n \in Blocks : st[n] = "done"})

(* advanceLastIndexed: through the consecutive done slots, no further.      *)
Advanced(st) ==
  Max({h \in lastIndexed .. MaxBlock :
         \A n \in lastIndexed + 1 .. h : st[n] = "done"})

BlockDone(n) ==
  /\ status[n] = "wrote"
  /\ EnqueueTransferWrite(n)
  /\ status' = [status EXCEPT ![n] = "done"]
  /\ lastIndexed' = Advanced(status')
  /\ poisonBlocks' = [poisonBlocks EXCEPT ![n] = 0]
  /\ cleanRun' = [cleanRun EXCEPT ![n] = 0]
  /\ UNCHANGED <<tip, loop, backfillUntil, failure, gaps, limits>>

Counted(f, n) == [f EXCEPT ![n] = Min({@ + 1, QuarantineAfter})]

(* exhausted-clean: every endpoint tried, none wrote.                       *)
BlockFailsClean(n) ==
  /\ status[n] = "inflight"
  /\ status' = [status EXCEPT ![n] = "failed"]
  /\ failure' = TRUE
  /\ poisonBlocks' = Counted(poisonBlocks, n)
  /\ cleanRun' = Counted(cleanRun, n)
  /\ UNCHANGED <<vars, tip, loop, lastIndexed, backfillUntil, gaps, limits>>

CountUncleanToo(n) == Counted(poisonBlocks, n)   \* mutant
RecordUnclean(n)   == [poisonBlocks EXCEPT ![n] = 0]

(* aborted-dirty or unknown: writing had begun, the row may or may not be   *)
(* there.                                                                   *)
BlockFailsDirty(n) ==
  /\ n \in Active \ Bad
  /\ status' = [status EXCEPT ![n] = "failed"]
  /\ failure' = TRUE
  /\ poisonBlocks' = RecordUnclean(n)
  /\ cleanRun' = [cleanRun EXCEPT ![n] = 0]
  /\ UNCHANGED <<vars, tip, loop, lastIndexed, backfillUntil, gaps, limits>>

-----------------------------------------------------------------------------
(* The pool has wound down.                                                 *)

WoundDown == /\ loop = "batch"
             /\ Active = {}
             /\ failure \/ Is("pending") = {}

Blocker == lastIndexed + 1

NeverDuringBackfill == backfillUntil = 0   \* mutant: the exception is missing

(* A backfill may only step over a height whose poison is on record.        *)
BackfillAllows == backfillUntil = 0 \/ Blocker \in poison_blocks

Candidate ==
  /\ failure
  /\ Blocker \in Blocks
  /\ poisonBlocks[Blocker] >= QuarantineAfter
  /\ BackfillAllows

(* Counts the cursor has passed are pruned.                                 *)
Pruned(f, cursor) == [n \in Blocks |-> IF n <= cursor THEN 0 ELSE f[n]]

EndBatch ==
  /\ loop' = "top"
  /\ status' = NoBatch
  /\ failure' = FALSE
  /\ UNCHANGED <<tip, backfillUntil, limits>>

(* Quarantine: gap and poison row in one statement, step over, and hand the *)
(* writer a batch that claims nothing.                                      *)
QuarantineBlocker ==
  /\ WoundDown
  /\ Candidate
  /\ EnqueueQuarantinedBlock(Blocker)
  /\ gaps' = gaps \cup {Blocker}
  /\ lastIndexed' = Blocker
  /\ poisonBlocks' = Pruned(poisonBlocks, Blocker)
  /\ cleanRun' = [cleanRun EXCEPT ![Blocker] = 0]
  /\ EndBatch

(* Its row exists: partially persisted, so the count starts over.           *)
RefuseQuarantine ==
  /\ WoundDown
  /\ Candidate
  /\ Blocker \in blocks
  /\ poisonBlocks' = [Pruned(poisonBlocks, lastIndexed) EXCEPT ![Blocker] = 0]
  /\ UNCHANGED <<vars, lastIndexed, gaps, cleanRun>>
  /\ EndBatch

(* Nothing failed, the blocker is no candidate, or recording it failed.     *)
RetryBatch ==
  /\ WoundDown
  /\ poisonBlocks' = Pruned(poisonBlocks, lastIndexed)
  /\ UNCHANGED <<vars, lastIndexed, gaps, cleanRun>>
  /\ EndBatch

-----------------------------------------------------------------------------
(* recoverFromReorg.                                                        *)

(* Found at the boundary or on an idle loop; a missing row hides it.        *)
DetectReorg(f) ==
  /\ \/ loop = "top" /\ (tip <= lastIndexed \/ ~LagSkip)
     \/ loop = "check"
  /\ lastIndexed \in blocks
  /\ f < lastIndexed
  /\ horizon <= ReorgHorizon
  /\ RollbackBegins(f)
  /\ loop' = "recover"
  /\ backfillUntil' = IF tip > lastIndexed /\ ~Backfilling THEN 0 ELSE backfillUntil
  /\ UNCHANGED <<tip, lastIndexed, status, failure, poisonBlocks, gaps, limits,
                 cleanRun>>

RecoverStep ==
  /\ loop = "recover"
  /\ \/ RollbackPurges
     \/ RollbackPersists
     \/ RollbackPersistFails
     \/ UnwindPoison
     \/ UnwindTransfers
  /\ UNCHANGED indexerVars

KeepCounts(fork) == poisonBlocks   \* mutant: clearAbove is forgotten
ClearAbove(fork) == [n \in Blocks |-> IF n > fork THEN 0 ELSE poisonBlocks[n]]

RecoverEnds ==
  /\ loop = "recover"
  /\ UnwindBlocks
  /\ lastIndexed' = rollback.fork
  /\ poisonBlocks' = ClearAbove(rollback.fork)
  /\ cleanRun' = [n \in Blocks |-> IF n > rollback.fork THEN 0 ELSE cleanRun[n]]
  /\ loop' = "top"
  /\ UNCHANGED <<tip, backfillUntil, status, failure, gaps, limits>>

RecoverFails ==
  /\ loop = "recover"
  /\ UnwindFails
  /\ loop' = "top"
  /\ UNCHANGED <<tip, loopVars, poisonBlocks, gaps, limits, cleanRun>>

-----------------------------------------------------------------------------
ChainGrows ==
  /\ tip < horizon
  /\ tip' = tip + 1
  /\ UNCHANGED <<vars, loop, loopVars, poisonBlocks, gaps, limits, cleanRun>>

IndexerCrash ==
  /\ crashes < MaxCrashes
  /\ Crash
  /\ loop' = "boot"
  /\ lastIndexed' = 0
  /\ backfillUntil' = 0
  /\ status' = NoBatch
  /\ failure' = FALSE
  /\ poisonBlocks' = None
  /\ cleanRun' = None
  /\ crashes' = crashes + 1
  /\ UNCHANGED <<tip, gaps, horizon>>

WriterStep ==
  /\ \/ DrainStep
     \/ \E b \in Blocks : FloorPersistLands(b)
     \/ \E b \in Blocks : FloorPersistFails(b)
  /\ UNCHANGED indexerVars

WorkerStep ==
  \/ ClaimNext
  \/ \E n \in Blocks : BlockWrites(n)
  \/ \E n \in Blocks : BlockDone(n)
  \/ \E n \in Blocks : BlockFailsClean(n)
  \/ \E n \in Blocks : BlockFailsDirty(n)

LoopStep ==
  \/ ResumeIndexing
  \/ AbandonRange
  \/ AbandonRangeBelowW
  \/ StartBatch
  \/ QuarantineBlocker
  \/ RefuseQuarantine
  \/ RetryBatch
  \/ \E f \in 0 .. MaxBlock - 1 : DetectReorg(f)
  \/ RecoverStep
  \/ RecoverEnds
  \/ RecoverFails

IndexerNext ==
  \/ ChainGrows
  \/ WorkerStep
  \/ LoopStep
  \/ WriterStep
  \/ IndexerCrash

IndexerSpec == IndexerInit /\ [][IndexerNext]_allVars

(* Whatever is ready runs; endpoints and statements that are retried        *)
(* forever succeed at some point (SF), a height in Bad excepted.            *)
IndexerFairness ==
  /\ WF_allVars(LoopStep)
  /\ WF_allVars(ClaimNext)
  /\ \A n \in Blocks :
       /\ SF_allVars(BlockWrites(n))
       /\ SF_allVars(BlockDone(n))
       /\ WF_allVars(n \in Bad /\ BlockFailsClean(n))
  /\ SF_allVars(QuarantineBlocker)
  /\ WF_allVars(BackoffEnds /\ UNCHANGED indexerVars)
  /\ SF_allVars(WriteCommits /\ UNCHANGED indexerVars)
  /\ SF_allVars(PersistCommits /\ UNCHANGED indexerVars)
  /\ WF_allVars((\E b \in Blocks : FloorPersistLands(b) \/ FloorPersistFails(b))
                  /\ UNCHANGED indexerVars)

IndexerFairSpec == IndexerSpec /\ IndexerFairness
-----------------------------------------------------------------------------
(* Properties.                                                              *)

Statuses == {"out", "pending", "inflight", "wrote", "done", "failed"}

(* Every variable of the loop, and of the writer below it, has its type.    *)
IndexerTypeOK ==
  /\ TypeOK
  /\ tip \in Heights
  /\ loop \in {"boot", "top", "check", "batch", "recover"}
  /\ lastIndexed \in 0 .. tip
  /\ backfillUntil \in 0 .. tip
  /\ status \in [Blocks -> Statuses]
  /\ failure \in BOOLEAN
  /\ poisonBlocks \in [Blocks -> 0 .. QuarantineAfter]
  /\ gaps \subseteq 1 .. tip
  /\ crashes \in 0 .. MaxCrashes
  /\ horizon \in Horizons
  /\ cleanRun \in [Blocks -> 0 .. QuarantineAfter]

(* The cursor never passes a height that is neither indexed nor on record   *)
(* as abandoned, across retries, quarantine, skips, reorgs and restarts.    *)
CursorRecorded == \A n \in 1 .. lastIndexed : n \in blocks \cup gaps

(* Loss is visible: a height the cursor has passed has its transfers, or    *)
(* they are still owed by the writer, or it is recorded as missing.         *)
Visible(n) ==
  \/ Settled(n)
  \/ Owed(n)
  \/ n \in poison_blocks \cup gaps

(* The whole promise of W, to which the MAX_LAG skip is an exception.       *)
NoSilentLoss == \A n \in 1 .. lastIndexed : Visible(n)

(* The part that holds: the one exception is a height a skip's floor        *)
(* covered while its transfers were queued.                                 *)
LossVisible == \A n \in 1 .. lastIndexed : Visible(n) \/ excuse[n] = "floor"

(* ... where the chain does not reorganise; see reorg_partial for the rows  *)
(* of an unwind that failed half-way.                                       *)
LossVisibleUnderLag == horizon > ReorgHorizon => LossVisible

(* Whatever the cursor has passed is there or on record, row and transfers. *)
NothingUnrecorded == CursorRecorded /\ LossVisibleUnderLag

(* A height is quarantined only after QuarantineAfter consecutive clean     *)
(* failures of the very block that is now at that height.                   *)
QuarantineEarned ==
  [][\A n \in poison_blocks' \ poison_blocks : cleanRun[n] >= QuarantineAfter]_allVars

(* A height no endpoint serves costs one height: the cursor reaches the     *)
(* tip, also after a restart, provided its quarantine was on record before. *)
ReachesTip ==
  tip = MaxBlock /\ (crashes = 0 \/ Bad \subseteq poison_blocks)
    ~> lastIndexed = MaxBlock \/ loop = "boot"

(* What the floor of a skip is there for: W in memory does not stay behind  *)
(* waiting for transfers that never come, so once the cursor has everything *)
(* the fold gets there too.                                                 *)
WatermarkNotStuck ==
  lastIndexed = MaxBlock ~> durableBlock = MaxBlock \/ loop = "boot"

(* The stored W follows the cursor: once everything is indexed, a restart   *)
(* has nothing left to replay.                                              *)
WatermarkFollows ==
  lastIndexed = MaxBlock ~> transfers_durable_block = MaxBlock \/ loop = "boot"
=============================================================================
