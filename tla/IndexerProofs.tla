--------------------------- MODULE IndexerProofs ---------------------------
(***************************************************************************)
(* Theorems about Indexer: the poll loop over the transfer writer, for any  *)
(* number of heights, batch sizes, lags, bad heights, reorgs and restarts.  *)
(* What the writer keeps whoever feeds it is WriterInv of                   *)
(* TransferWriterProofs, and AccountInv too unless a restart raises W.      *)
(***************************************************************************)
EXTENDS Indexer, TransferWriterProofs, WellFoundedInduction

(* What the database and the batch hold lies below the tip, and what a      *)
(* worker has written has its row.                                          *)
BatchInv ==
  /\ tip <= horizon
  /\ blocks \subseteq 1 .. tip
  /\ \A n \in Blocks :
       /\ status[n] # "out" => loop = "batch" /\ n <= tip
       /\ status[n] \in {"wrote", "done"} => n \in blocks
       /\ poisonBlocks[n] > 0 => n <= tip

(* Where the loop is and what the writer is doing for it agree.             *)
PhaseInv ==
  /\ loop = "boot" <=> ~transferWriterSeeded
  /\ loop = "recover" <=> rollback.phase # "none"
  /\ loop = "recover" => rollback.fork < lastIndexed

(* Poison is recorded in the statement that records the gap.                *)
PoisonInGaps == poison_blocks \subseteq gaps

(* The tracker counts no more than the clean failures in a row.             *)
CountsEarned == \A n \in Blocks : poisonBlocks[n] <= cleanRun[n]

(* Without reorgs the writer gives nothing up but under a floor, and a      *)
(* drainer that persists has nothing left to write.                         *)
Reorgs == horizon <= ReorgHorizon

OnlyFloors == \A n \in Blocks : excuse[n] \in {"none", "floor"}

Passed(n) == n <= lastIndexed \/ status[n] = "done"

PassedVisible == \A n \in Blocks : Passed(n) => Visible(n) \/ excuse[n] = "floor"

LossInv ==
  ~ Reorgs => /\ rollback.phase = "none"
              /\ OnlyFloors
              /\ DrainedSettled
              /\ PassedVisible

-----------------------------------------------------------------------------
(* Least and greatest elements.                                             *)

LEMMA Least ==
  ASSUME NEW S \in SUBSET Nat, S # {}
  PROVE  Min(S) \in S /\ \A n \in S : Min(S) <= n
<1>1. PICK m \in S : \A n \in S : ~ (<<n, m>> \in OpToRel(<, Nat))
  BY NatLessThanWellFounded, WFMin
<1>2. \A n \in S : m <= n
  <2>1. \A n \in S : ~ (n < m)
    BY <1>1, Zenon DEF OpToRel
  <2>. QED
    BY <2>1
<1>. QED
  BY <1>2 DEF Min

LEMMA Greatest ==
  ASSUME NEW m \in Nat, NEW S \in SUBSET (0 .. m), S # {}
  PROVE  Max(S) \in S /\ \A n \in S : n <= Max(S)
<1>. DEFINE Mirror == {m - n : n \in S}
<1>1. Mirror \in SUBSET Nat /\ Mirror # {}
  <2>1. \A n \in S : m - n \in Nat
    OBVIOUS
  <2>. QED
    BY <2>1
<1>2. Min(Mirror) \in Mirror /\ \A k \in Mirror : Min(Mirror) <= k
  BY <1>1, Least
<1>3. PICK x \in S : Min(Mirror) = m - x
  BY <1>2
<1>4. \A n \in S : m - n \in Mirror
  OBVIOUS
<1>. HIDE DEF Mirror
<1>5. \A n \in S : n <= x
  BY <1>2, <1>3, <1>4
<1>. QED
  BY <1>5 DEF Max

LEMMA LeastOfTwo ==
  ASSUME NEW a \in Int, NEW b \in Int
  PROVE  Min({a, b}) = IF a <= b THEN a ELSE b
<1>1. Min({a, b}) \in {a, b} /\ \A y \in {a, b} : Min({a, b}) <= y
  <2>1. \E x \in {a, b} : \A y \in {a, b} : x <= y
    BY SMT
  <2>. QED
    BY <2>1 DEF Min
<1>. QED
  BY <1>1

(* Where a restart resumes: not above W, and every height below has its row *)
(* or its poison on record.                                                 *)
LEMMA ResumeIs ==
  ASSUME TypeOK, NEW t \in Heights, blocks \subseteq 1 .. t
  PROVE  /\ MaxIndexed \in 0 .. t /\ ResumeWatermark \in Heights
         /\ ResumeAt \in 0 .. MaxIndexed /\ ResumeAt <= ResumeWatermark
         /\ \A n \in 1 .. ResumeAt : n \in blocks \cup poison_blocks
<1>1. MaxIndexed \in 0 .. t
  <2>1. blocks \cup {0} \in SUBSET (0 .. t) /\ blocks \cup {0} # {} /\ t \in Nat
    BY BoundsAssumption DEF Heights
  <2>. QED
    BY <2>1, Greatest DEF MaxIndexed
<1>2. ResumeWatermark \in Heights
  BY <1>1, BoundsAssumption DEF ResumeWatermark, TypeOK, Heights
<1>3. BlockCursor \in 0 .. MaxIndexed /\ \A n \in 1 .. BlockCursor : n \in blocks \cup poison_blocks
  <2>1. CASE Holes = {}
    BY <1>1, <2>1 DEF BlockCursor, Holes
  <2>2. CASE Holes # {}
    <3>1. Holes \in SUBSET Nat
      BY <1>1 DEF Holes
    <3>2. Min(Holes) \in Holes /\ \A n \in Holes : Min(Holes) <= n
      BY <2>2, <3>1, Least
    <3>3. Min(Holes) \in 1 .. MaxIndexed
      BY <3>2 DEF Holes
    <3>4. BlockCursor = Min(Holes) - 1
      BY <2>2 DEF BlockCursor
    <3>5. \A n \in 1 .. MaxIndexed : n \in Holes \/ n \in blocks \cup poison_blocks
      BY DEF Holes
    <3>6. \A n \in 1 .. BlockCursor : n \in 1 .. MaxIndexed /\ n < Min(Holes)
      BY <1>1, <3>3, <3>4
    <3>7. \A n \in 1 .. BlockCursor : n \notin Holes
      BY <3>2, <3>3, <3>6, <1>1
    <3>. QED
      BY <1>1, <3>3, <3>4, <3>5, <3>6, <3>7
  <2>. QED
    BY <2>1, <2>2
<1>4. BlockCursor \in Int /\ ResumeWatermark \in Int /\ BlockCursor >= 0 /\ ResumeWatermark >= 0
  BY <1>1, <1>2, <1>3, BoundsAssumption DEF Heights
<1>5. ResumeAt = IF BlockCursor <= ResumeWatermark THEN BlockCursor ELSE ResumeWatermark
  BY <1>4, LeastOfTwo DEF ResumeAt
<1>. QED
  BY <1>1, <1>2, <1>3, <1>4, <1>5

LEMMA AdvancedIs ==
  ASSUME NEW st, lastIndexed \in Heights
  PROVE  /\ Advanced(st) \in lastIndexed .. MaxBlock
         /\ \A n \in lastIndexed + 1 .. Advanced(st) : st[n] = "done"
<1>. DEFINE S == {h \in lastIndexed .. MaxBlock : \A n \in lastIndexed + 1 .. h : st[n] = "done"}
<1>1. S \in SUBSET (0 .. MaxBlock) /\ lastIndexed \in S
  BY BoundsAssumption DEF Heights
<1>2. Max(S) \in S
  BY <1>1, Greatest, BoundsAssumption
<1>. QED
  BY <1>2 DEF Advanced

-----------------------------------------------------------------------------
(* The writer below the loop keeps its own invariant.                       *)

(* The types of the loop's own variables.                                   *)
LoopTypes ==
  /\ tip \in Heights
  /\ loop \in {"boot", "top", "check", "batch", "recover"}
  /\ lastIndexed \in 0 .. tip
  /\ backfillUntil \in 0 .. tip
  /\ status \in [Blocks -> Statuses]
  /\ failure \in BOOLEAN
  /\ poisonBlocks \in [Blocks -> 0 .. QuarantineAfter]
  /\ gaps \subseteq 1 .. tip
  /\ crashes \in 0 .. MaxCrashes
  /\ horizon \in Horizons
  /\ cleanRun \in [Blocks -> 0 .. QuarantineAfter]

LoopInv == WriterInv /\ LoopTypes /\ BatchInv /\ PhaseInv /\ PoisonInGaps

LEMMA LoopNumbers ==
  ASSUME LoopTypes, BatchInv
  PROVE  /\ tip \in Nat /\ tip <= MaxBlock /\ horizon \in Nat /\ horizon <= MaxBlock
         /\ lastIndexed \in Heights /\ lastIndexed \in Nat /\ MaxBlock \in Nat
         /\ MaxLag \in Nat /\ SkipKeep \in Nat
BY BoundsAssumption, HorizonAssumption, LagAssumption DEF LoopTypes, BatchInv, Heights

(* A skip goes to a height of the chain.                                    *)
LEMMA SkipIs ==
  ASSUME LoopTypes, BatchInv, LagSkip
  PROVE  SkipTo \in Blocks /\ SkipTo \in lastIndexed + 1 .. tip
<1>1. lastIndexed \in 0 .. tip
  BY DEF LoopTypes
<1>. QED
  BY <1>1, LoopNumbers DEF LagSkip, SkipTo, Blocks

(* A step of the loop over the writer is a step of the writer, a block row, *)
(* or a seed: the stored W itself once a W is stored.                       *)
LEMMA LoopFeedsWriter ==
  ASSUME LoopInv, [IndexerNext]_allVars
  PROVE  [FedNext]_vars /\ (~FreshDatabase => [RowsNext]_vars)
<1>. DEFINE Fed == [FedNext]_vars /\ (~FreshDatabase => [RowsNext]_vars)
<1>i. TypeOK /\ LoopTypes /\ BatchInv
  BY DEF LoopInv, WriterInv
<1>1. ASSUME UNCHANGED vars PROVE Fed
  BY <1>1
<1>n. ASSUME Next PROVE Fed
  BY <1>n DEF FedNext, RowsNext
<1>2. ASSUME NEW n \in Blocks, BlockWrites(n) PROVE Fed
  BY <1>2 DEF BlockWrites, RowWritten, FedNext, RowsNext
<1>3. ASSUME NEW n \in Blocks, BlockDone(n) PROVE Fed
  BY <1>3, <1>n DEF BlockDone, Next, ClientStep
<1>4. ASSUME ResumeIndexing PROVE Fed
  <2>1. InitTransferWriter(ResumeWatermark)
    BY <1>4 DEF ResumeIndexing
  <2>2. ResumeWatermark \in Heights
    BY <1>i, ResumeIs DEF LoopTypes, BatchInv
  <2>3. FedNext
    BY <2>1, <2>2 DEF FedNext
  <2>4. ASSUME ~FreshDatabase PROVE RowsNext
    <3>1. ResumeWatermark = transfers_durable_block
      BY <2>4 DEF ResumeWatermark
    <3>. QED
      BY <2>1, <3>1 DEF RowsNext, Next
  <2>. QED
    BY <2>3, <2>4
<1>5. ASSUME AbandonRange PROVE Fed
  <2>1. SetDurableFloor(SkipTo) /\ LagSkip
    BY <1>5 DEF AbandonRange
  <2>2. SkipTo \in Blocks
    BY <1>i, <2>1, SkipIs
  <2>. QED
    BY <1>n, <2>1, <2>2 DEF Next, ClientStep
<1>6. ASSUME QuarantineBlocker PROVE Fed
  BY <1>6, <1>n DEF QuarantineBlocker, Candidate, Next, ClientStep
<1>7. ASSUME NEW f \in 0 .. MaxBlock - 1, DetectReorg(f) PROVE Fed
  BY <1>7, <1>n DEF DetectReorg, Next, RecoveryStep
<1>8. ASSUME RecoverStep \/ RecoverEnds \/ RecoverFails PROVE Fed
  BY <1>8, <1>n DEF RecoverStep, RecoverEnds, RecoverFails, Next, RecoveryStep
<1>9. ASSUME IndexerCrash PROVE Fed
  BY <1>9, <1>n DEF IndexerCrash, Next
<1>10. ASSUME WriterStep PROVE Fed
  BY <1>10, <1>n DEF WriterStep, Next, ClientStep
<1>11. ASSUME \/ ChainGrows
              \/ ClaimNext
              \/ \E n \in Blocks : BlockFailsClean(n) \/ BlockFailsDirty(n)
              \/ AbandonRangeBelowW
              \/ StartBatch
              \/ RefuseQuarantine
              \/ RetryBatch
              \/ UNCHANGED allVars
       PROVE  UNCHANGED vars
  BY <1>11
  DEF ChainGrows, ClaimNext, BlockFailsClean, BlockFailsDirty, AbandonRangeBelowW, StartBatch,
      RefuseQuarantine, RetryBatch, allVars
<1>. HIDE DEF Fed
<1>12. Fed
  BY <1>1, <1>2, <1>3, <1>4, <1>5, <1>6, <1>7, <1>8, <1>9, <1>10, <1>11
  DEF IndexerNext, WorkerStep, LoopStep
<1>. QED
  BY <1>12 DEF Fed

LEMMA LoopKeepsWriter ==
  ASSUME LoopInv, [IndexerNext]_allVars
  PROVE  WriterInv'
BY LoopFeedsWriter, FedInv DEF LoopInv

LEMMA LoopKeepsAccount ==
  ASSUME ~FreshDatabase, LoopInv, AccountInv, [IndexerNext]_allVars
  PROVE  AccountInv'
BY LoopFeedsWriter, RowsInv DEF LoopInv, IInv

-----------------------------------------------------------------------------
(* The loop's own types, and where it is.                                   *)

(* What a step of the writer or of a recovery leaves alone.                 *)
LEMMA WriterQuiet ==
  ASSUME WriterStep
  PROVE  UNCHANGED <<rollback, transferWriterSeeded, blocks, poison_blocks, version>>
BY DEF WriterStep, DrainStep, WriteCommits, WriteFails, PersistCommits, PersistFails, BackoffEnds,
   FloorPersistLands, FloorPersistFails, flagVars, dbVars, history

LEMMA RecoverMoves ==
  ASSUME TypeOK, RecoverStep
  PROVE  /\ rollback.phase # "none" /\ rollback'.phase # "none" /\ rollback'.fork = rollback.fork
         /\ UNCHANGED <<transferWriterSeeded, blocks, indexerVars>>
         /\ poison_blocks' \subseteq poison_blocks
BY DEF RecoverStep, RollbackPurges, RollbackPersists, RollbackPersistFails, UnwindPoison,
   UnwindTransfers, Resume, TypeOK, flagVars, dbVars

LEMMA LoopInit == IndexerInit => LoopInv
<1>. SUFFICES ASSUME IndexerInit PROVE LoopInv
  OBVIOUS
<1>1. WriterInv
  BY InitInv DEF IndexerInit, IInv
<1>2. /\ 0 \in Heights /\ 0 \in 0 .. 0 /\ 0 \in 0 .. MaxCrashes /\ 0 \in 0 .. QuarantineAfter
      /\ horizon \in Horizons /\ 0 <= horizon
  BY BoundsAssumption, LoopAssumption, HorizonAssumption DEF Heights, IndexerInit
<1>3. status = NoBatch /\ poisonBlocks = None /\ cleanRun = None
  BY DEF IndexerInit
<1>4. /\ status \in [Blocks -> Statuses] /\ \A n \in Blocks : status[n] = "out"
      /\ poisonBlocks \in [Blocks -> 0 .. QuarantineAfter] /\ \A n \in Blocks : poisonBlocks[n] = 0
      /\ cleanRun \in [Blocks -> 0 .. QuarantineAfter]
  BY <1>2, <1>3 DEF NoBatch, None, Statuses
<1>5. LoopTypes
  BY <1>2, <1>4 DEF IndexerInit, LoopTypes
<1>6. BatchInv
  BY <1>2, <1>4 DEF IndexerInit, Init, BatchInv
<1>7. PhaseInv /\ PoisonInGaps
  BY DEF IndexerInit, Init, PhaseInv, PoisonInGaps, NoRollback
<1>. QED
  BY <1>1, <1>5, <1>6, <1>7 DEF LoopInv

(* What of LoopInv is about the loop.                                       *)
LoopPart == LoopTypes /\ BatchInv /\ PhaseInv /\ PoisonInGaps

LEMMA CountedType ==
  ASSUME NEW f \in [Blocks -> 0 .. QuarantineAfter], NEW n \in Blocks
  PROVE  /\ Counted(f, n) \in [Blocks -> 0 .. QuarantineAfter]
         /\ \A m \in Blocks : m # n => Counted(f, n)[m] = f[m]
         /\ Counted(f, n)[n] = IF f[n] + 1 <= QuarantineAfter THEN f[n] + 1 ELSE QuarantineAfter
<1>1. f[n] \in 0 .. QuarantineAfter /\ QuarantineAfter \in Nat
  BY LoopAssumption
<1>2. Min({f[n] + 1, QuarantineAfter}) = IF f[n] + 1 <= QuarantineAfter THEN f[n] + 1
                                         ELSE QuarantineAfter
  BY <1>1, LeastOfTwo
<1>3. Min({f[n] + 1, QuarantineAfter}) \in 0 .. QuarantineAfter
  BY <1>1, <1>2
<1>. QED
  BY <1>2, <1>3 DEF Counted

LEMMA PrunedType ==
  ASSUME NEW f \in [Blocks -> 0 .. QuarantineAfter], NEW c
  PROVE  /\ Pruned(f, c) \in [Blocks -> 0 .. QuarantineAfter]
         /\ \A m \in Blocks : Pruned(f, c)[m] \in {0, f[m]}
<1>1. 0 \in 0 .. QuarantineAfter
  BY LoopAssumption
<1>. QED
  BY <1>1 DEF Pruned

LEMMA LoopStepKeeps == LoopInv /\ [IndexerNext]_allVars => LoopPart'
<1>. SUFFICES ASSUME LoopInv, [IndexerNext]_allVars PROVE LoopPart'
  OBVIOUS
<1>i. TypeOK /\ LoopTypes /\ BatchInv /\ PhaseInv /\ PoisonInGaps
  BY DEF LoopInv, WriterInv
<1>n. /\ tip \in Nat /\ tip <= MaxBlock /\ horizon \in Nat /\ horizon <= MaxBlock
      /\ lastIndexed \in Heights /\ lastIndexed \in Nat /\ MaxBlock \in Nat
      /\ MaxLag \in Nat /\ SkipKeep \in Nat
  BY <1>i, LoopNumbers
<1>o. /\ NoBatch \in [Blocks -> Statuses] /\ \A n \in Blocks : NoBatch[n] = "out"
      /\ None \in [Blocks -> 0 .. QuarantineAfter] /\ \A n \in Blocks : None[n] = 0
  BY LoopAssumption DEF NoBatch, None, Statuses
<1>1. ASSUME ChainGrows PROVE LoopPart'
  <2>1. tip' = tip + 1 /\ tip + 1 <= horizon /\ tip + 1 \in Heights
    BY <1>1, <1>n, <1>i DEF ChainGrows, BatchInv, Heights
  <2>2. LoopTypes'
    BY <1>1, <1>i, <1>n, <2>1 DEF ChainGrows, LoopTypes, loopVars, limits
  <2>3. BatchInv'
    BY <1>1, <1>i, <1>n, <2>1
    DEF ChainGrows, BatchInv, loopVars, limits, vars, dbVars, Blocks
  <2>4. PhaseInv' /\ PoisonInGaps'
    BY <1>1, <1>i
    DEF ChainGrows, PhaseInv, PoisonInGaps, loopVars, vars, memoryVars, flagVars, dbVars
  <2>. QED
    BY <2>2, <2>3, <2>4 DEF LoopPart
<1>2. ASSUME ClaimNext PROVE LoopPart'
  <2>1. Is("pending") \in SUBSET Nat /\ Is("pending") # {}
    BY <1>2 DEF ClaimNext, Is, Blocks
  <2>2. Min(Is("pending")) \in Is("pending")
    BY <2>1, Least
  <2>3. PICK m \in Blocks : status[m] = "pending" /\ status' = [status EXCEPT ![m] = "inflight"]
    BY <1>2, <2>2 DEF ClaimNext, Is
  <2>4. LoopTypes'
    BY <1>2, <1>i, <2>3 DEF ClaimNext, LoopTypes, Statuses, limits
  <2>5. BatchInv'
    BY <1>2, <1>i, <2>3 DEF ClaimNext, BatchInv, LoopTypes, limits, vars, dbVars
  <2>6. PhaseInv' /\ PoisonInGaps'
    BY <1>2, <1>i DEF ClaimNext, PhaseInv, PoisonInGaps, vars, memoryVars, flagVars, dbVars
  <2>. QED
    BY <2>4, <2>5, <2>6 DEF LoopPart
<1>3. ASSUME NEW n \in Blocks, BlockWrites(n) PROVE LoopPart'
  <2>1. LoopTypes'
    BY <1>3, <1>i DEF BlockWrites, LoopTypes, Statuses, limits
  <2>2. n \in 1 .. tip
    BY <1>3, <1>i, <1>n DEF BlockWrites, BatchInv, Blocks
  <2>3. BatchInv'
    BY <1>3, <1>i, <2>2 DEF BlockWrites, BatchInv, LoopTypes, limits
  <2>4. PhaseInv' /\ PoisonInGaps'
    BY <1>3, <1>i DEF BlockWrites, PhaseInv, PoisonInGaps, memoryVars, flagVars
  <2>. QED
    BY <2>1, <2>3, <2>4 DEF LoopPart
<1>4. ASSUME NEW n \in Blocks, BlockDone(n) PROVE LoopPart'
  <2>1. /\ blocks' = blocks \cup {n} /\ status[n] = "wrote"
        /\ status' = [status EXCEPT ![n] = "done"] /\ lastIndexed' = Advanced(status')
        /\ UNCHANGED <<tip, loop, backfillUntil, failure, gaps, crashes, horizon>>
        /\ UNCHANGED <<rollback, transferWriterSeeded, poison_blocks>>
    BY <1>4 DEF BlockDone, EnqueueTransferWrite, flagVars, limits
  <2>2. n \in 1 .. tip /\ loop = "batch"
    BY <1>i, <1>n, <2>1 DEF BatchInv, Blocks
  <2>3. status' \in [Blocks -> Statuses]
    BY <1>i, <2>1 DEF LoopTypes, Statuses
  <2>4. \A m \in Blocks : status'[m] # "out" => m <= tip
    BY <1>i, <2>1, <2>2 DEF BatchInv, LoopTypes
  <2>5. lastIndexed' \in 0 .. tip
    <3>1. /\ lastIndexed' \in lastIndexed .. MaxBlock
          /\ \A m \in lastIndexed + 1 .. lastIndexed' : status'[m] = "done"
      BY <1>n, <2>1, AdvancedIs
    <3>2. CASE lastIndexed' = lastIndexed
      BY <3>2, <1>i DEF LoopTypes
    <3>3. CASE lastIndexed' # lastIndexed
      <4>1. lastIndexed' \in Blocks /\ lastIndexed' \in lastIndexed + 1 .. lastIndexed'
        BY <1>n, <3>1, <3>3 DEF Blocks
      <4>. QED
        BY <1>n, <2>4, <3>1, <4>1 DEF Blocks
    <3>. QED
      BY <3>2, <3>3
  <2>6. /\ poisonBlocks' \in [Blocks -> 0 .. QuarantineAfter]
        /\ cleanRun' \in [Blocks -> 0 .. QuarantineAfter]
        /\ \A m \in Blocks : poisonBlocks'[m] \in {0, poisonBlocks[m]}
    BY <1>4, <1>i, LoopAssumption DEF BlockDone, LoopTypes
  <2>7. LoopTypes'
    BY <1>i, <2>1, <2>3, <2>5, <2>6 DEF LoopTypes
  <2>8. BatchInv'
    BY <1>i, <2>1, <2>2, <2>4, <2>6 DEF BatchInv, LoopTypes
  <2>9. PhaseInv' /\ PoisonInGaps'
    BY <1>i, <2>1, <2>2 DEF PhaseInv, PoisonInGaps
  <2>. QED
    BY <2>7, <2>8, <2>9 DEF LoopPart
<1>5. ASSUME NEW n \in Blocks, BlockFailsClean(n) \/ BlockFailsDirty(n) PROVE LoopPart'
  <2>1. /\ status[n] # "out" /\ status' = [status EXCEPT ![n] = "failed"] /\ failure' = TRUE
        /\ UNCHANGED <<vars, tip, loop, lastIndexed, backfillUntil, gaps, limits>>
    BY <1>5 DEF BlockFailsClean, BlockFailsDirty, Active, Is
  <2>2. /\ poisonBlocks' \in [Blocks -> 0 .. QuarantineAfter]
        /\ cleanRun' \in [Blocks -> 0 .. QuarantineAfter]
        /\ \A m \in Blocks : m # n => poisonBlocks'[m] = poisonBlocks[m]
    <3>1. /\ poisonBlocks \in [Blocks -> 0 .. QuarantineAfter]
          /\ cleanRun \in [Blocks -> 0 .. QuarantineAfter] /\ 0 \in 0 .. QuarantineAfter
      BY <1>i, LoopAssumption DEF LoopTypes
    <3>2. CASE BlockFailsClean(n)
      BY <3>1, <3>2, CountedType DEF BlockFailsClean
    <3>3. CASE BlockFailsDirty(n)
      BY <3>1, <3>3 DEF BlockFailsDirty, RecordUnclean
    <3>. QED
      BY <1>5, <3>2, <3>3
  <2>3. LoopTypes'
    BY <1>i, <2>1, <2>2 DEF LoopTypes, Statuses, limits
  <2>4. BatchInv'
    BY <1>i, <2>1, <2>2 DEF BatchInv, LoopTypes, limits, vars, dbVars
  <2>5. PhaseInv' /\ PoisonInGaps'
    BY <1>i, <2>1 DEF PhaseInv, PoisonInGaps, vars, memoryVars, flagVars, dbVars
  <2>. QED
    BY <2>3, <2>4, <2>5 DEF LoopPart
<1>6. ASSUME ResumeIndexing PROVE LoopPart'
  <2>1. /\ lastIndexed' = ResumeAt /\ loop' = "top" /\ loop = "boot"
        /\ backfillUntil' = IF ResumeAt < MaxIndexed THEN MaxIndexed ELSE 0
        /\ UNCHANGED <<tip, status, failure, poisonBlocks, gaps, crashes, horizon, cleanRun>>
        /\ UNCHANGED <<rollback, poison_blocks, blocks>> /\ transferWriterSeeded' = TRUE
    BY <1>6 DEF ResumeIndexing, InitTransferWriter, limits
  <2>2. MaxIndexed \in 0 .. tip /\ ResumeAt \in 0 .. MaxIndexed
    BY <1>i, <1>n, ResumeIs DEF LoopTypes, BatchInv
  <2>3. lastIndexed' \in 0 .. tip /\ backfillUntil' \in 0 .. tip
    BY <1>n, <2>1, <2>2
  <2>4. LoopTypes'
    BY <1>i, <2>1, <2>3 DEF LoopTypes
  <2>5. BatchInv'
    BY <1>i, <2>1 DEF BatchInv
  <2>6. PhaseInv' /\ PoisonInGaps'
    BY <1>i, <2>1 DEF PhaseInv, PoisonInGaps
  <2>. QED
    BY <2>4, <2>5, <2>6 DEF LoopPart
<1>7. ASSUME AbandonRange \/ AbandonRangeBelowW PROVE LoopPart'
  <2>1. /\ loop = "top" /\ LagSkip /\ lastIndexed' = SkipTo /\ loop' = "check" /\ backfillUntil' = 0
        /\ gaps' = gaps \cup (lastIndexed + 1 .. SkipTo)
        /\ UNCHANGED <<tip, status, failure, poisonBlocks, crashes, horizon, cleanRun>>
        /\ UNCHANGED <<rollback, transferWriterSeeded, blocks, poison_blocks>>
    BY <1>7
    DEF AbandonRange, AbandonRangeBelowW, SetDurableFloor, limits, vars, memoryVars, flagVars, dbVars
  <2>2. SkipTo \in lastIndexed + 1 .. tip
    BY <1>i, <2>1, SkipIs
  <2>3. lastIndexed' \in 0 .. tip /\ lastIndexed + 1 .. SkipTo \subseteq 1 .. tip /\ 0 \in 0 .. tip
    BY <1>n, <2>1, <2>2
  <2>4. LoopTypes'
    BY <1>i, <2>1, <2>3 DEF LoopTypes
  <2>5. BatchInv'
    BY <1>i, <2>1 DEF BatchInv
  <2>6. PhaseInv' /\ PoisonInGaps'
    BY <1>i, <2>1 DEF PhaseInv, PoisonInGaps
  <2>. QED
    BY <2>4, <2>5, <2>6 DEF LoopPart
<1>8. ASSUME StartBatch PROVE LoopPart'
  <2>1. /\ loop \in {"top", "check"} /\ loop' = "batch" /\ failure' = FALSE
        /\ backfillUntil' \in {0, backfillUntil}
        /\ UNCHANGED <<tip, lastIndexed, poisonBlocks, gaps, crashes, horizon, cleanRun>>
        /\ UNCHANGED <<rollback, transferWriterSeeded, blocks, poison_blocks>>
    BY <1>8 DEF StartBatch, limits, vars, memoryVars, flagVars, dbVars
  <2>2. BatchEnd \in Int /\ BatchEnd <= tip
    BY <1>n, LeastOfTwo, LoopAssumption DEF BatchEnd
  <2>3. status' = [n \in Blocks |-> IF n \in lastIndexed + 1 .. BatchEnd THEN "pending" ELSE "out"]
    BY <1>8 DEF StartBatch
  <2>4. /\ status' \in [Blocks -> Statuses]
        /\ \A n \in Blocks : status'[n] # "out" => n \in lastIndexed + 1 .. BatchEnd
        /\ \A n \in Blocks : status'[n] \notin {"wrote", "done"}
    BY <2>3 DEF Statuses
  <2>5. \A n \in Blocks : status'[n] # "out" => n <= tip
    BY <1>n, <2>2, <2>4
  <2>6. LoopTypes'
    <3>1. backfillUntil' \in 0 .. tip
      BY <1>i, <1>n, <2>1 DEF LoopTypes
    <3>. QED
      BY <1>i, <2>1, <2>4, <3>1 DEF LoopTypes
  <2>7. BatchInv'
    BY <1>i, <2>1, <2>4, <2>5 DEF BatchInv
  <2>8. PhaseInv' /\ PoisonInGaps'
    BY <1>i, <2>1 DEF PhaseInv, PoisonInGaps
  <2>. QED
    BY <2>6, <2>7, <2>8 DEF LoopPart
<1>9. ASSUME QuarantineBlocker PROVE LoopPart'
  <2>1. /\ loop = "batch" /\ Blocker \in Blocks /\ poisonBlocks[Blocker] >= QuarantineAfter
        /\ loop' = "top" /\ status' = NoBatch /\ failure' = FALSE
        /\ gaps' = gaps \cup {Blocker} /\ lastIndexed' = Blocker
        /\ poison_blocks' = poison_blocks \cup {Blocker}
        /\ UNCHANGED <<tip, backfillUntil, crashes, horizon, rollback, transferWriterSeeded, blocks>>
    BY <1>9
    DEF QuarantineBlocker, WoundDown, Candidate, EnqueueQuarantinedBlock, EndBatch, limits, flagVars
  <2>2. Blocker \in 1 .. tip
    <3>1. poisonBlocks[Blocker] > 0
      BY <1>i, <2>1, LoopAssumption DEF LoopTypes
    <3>. QED
      BY <1>i, <1>n, <2>1, <3>1 DEF BatchInv, Blocks
  <2>3. /\ poisonBlocks' \in [Blocks -> 0 .. QuarantineAfter]
        /\ \A m \in Blocks : poisonBlocks'[m] \in {0, poisonBlocks[m]}
    BY <1>9, <1>i, PrunedType DEF QuarantineBlocker, LoopTypes
  <2>4. cleanRun' \in [Blocks -> 0 .. QuarantineAfter]
    <3>1. /\ cleanRun \in [Blocks -> 0 .. QuarantineAfter] /\ 0 \in 0 .. QuarantineAfter
          /\ cleanRun' = [cleanRun EXCEPT ![Blocker] = 0]
      BY <1>9, <1>i, LoopAssumption DEF QuarantineBlocker, LoopTypes
    <3>. QED
      BY <2>1, <3>1
  <2>5. LoopTypes'
    <3>1. Blocker \in 0 .. tip /\ gaps \cup {Blocker} \subseteq 1 .. tip
      BY <1>i, <1>n, <2>2 DEF LoopTypes
    <3>. QED
      BY <1>i, <1>o, <2>1, <2>3, <2>4, <3>1 DEF LoopTypes
  <2>6. BatchInv'
    BY <1>i, <1>o, <2>1, <2>3 DEF BatchInv
  <2>7. PhaseInv' /\ PoisonInGaps'
    BY <1>i, <2>1 DEF PhaseInv, PoisonInGaps
  <2>. QED
    BY <2>5, <2>6, <2>7 DEF LoopPart
<1>10. ASSUME RefuseQuarantine \/ RetryBatch PROVE LoopPart'
  <2>1. /\ loop = "batch" /\ loop' = "top" /\ status' = NoBatch /\ failure' = FALSE
        /\ UNCHANGED <<tip, backfillUntil, crashes, horizon, lastIndexed, gaps, cleanRun>>
        /\ UNCHANGED <<rollback, transferWriterSeeded, blocks, poison_blocks>>
    BY <1>10
    DEF RefuseQuarantine, RetryBatch, WoundDown, EndBatch, limits, vars, memoryVars, flagVars, dbVars
  <2>2. /\ poisonBlocks' \in [Blocks -> 0 .. QuarantineAfter]
        /\ \A m \in Blocks : poisonBlocks'[m] \in {0, poisonBlocks[m]}
    BY <1>10, <1>i, PrunedType, LoopAssumption DEF RefuseQuarantine, RetryBatch, LoopTypes
  <2>3. LoopTypes'
    BY <1>i, <1>o, <2>1, <2>2 DEF LoopTypes
  <2>4. BatchInv'
    BY <1>i, <1>o, <2>1, <2>2 DEF BatchInv
  <2>5. PhaseInv' /\ PoisonInGaps'
    BY <1>i, <2>1 DEF PhaseInv, PoisonInGaps
  <2>. QED
    BY <2>3, <2>4, <2>5 DEF LoopPart
<1>11. ASSUME NEW f \in 0 .. MaxBlock - 1, DetectReorg(f) PROVE LoopPart'
  <2>1. /\ loop \in {"top", "check"} /\ loop' = "recover" /\ f < lastIndexed
        /\ rollback' = [phase |-> "quiesce", fork |-> f] /\ backfillUntil' \in {0, backfillUntil}
        /\ UNCHANGED <<tip, lastIndexed, status, failure, poisonBlocks, gaps, crashes, horizon,
                       cleanRun, transferWriterSeeded, blocks, poison_blocks>>
    BY <1>11 DEF DetectReorg, RollbackBegins, limits, dbVars
  <2>2. LoopTypes'
    BY <1>i, <1>n, <2>1 DEF LoopTypes
  <2>3. BatchInv'
    BY <1>i, <2>1 DEF BatchInv
  <2>4. PhaseInv' /\ PoisonInGaps'
    BY <1>i, <2>1 DEF PhaseInv, PoisonInGaps
  <2>. QED
    BY <2>2, <2>3, <2>4 DEF LoopPart
<1>12. ASSUME RecoverStep PROVE LoopPart'
  <2>1. /\ rollback.phase # "none" /\ rollback'.phase # "none" /\ rollback'.fork = rollback.fork
        /\ UNCHANGED <<transferWriterSeeded, blocks, indexerVars>>
        /\ poison_blocks' \subseteq poison_blocks
    BY <1>12, <1>i, RecoverMoves
  <2>2. LoopTypes' /\ BatchInv'
    BY <1>i, <2>1 DEF LoopTypes, BatchInv, indexerVars, loopVars, limits
  <2>3. PhaseInv' /\ PoisonInGaps'
    BY <1>i, <2>1 DEF PhaseInv, PoisonInGaps, indexerVars, loopVars
  <2>. QED
    BY <2>2, <2>3 DEF LoopPart
<1>13. ASSUME RecoverEnds PROVE LoopPart'
  <2>1. /\ loop = "recover" /\ loop' = "top" /\ lastIndexed' = rollback.fork
        /\ blocks' = blocks \ Above(Blocks, rollback.fork) /\ rollback' = NoRollback
        /\ UNCHANGED <<tip, backfillUntil, status, failure, gaps, crashes, horizon,
                       transferWriterSeeded, poison_blocks>>
    BY <1>13 DEF RecoverEnds, UnwindBlocks, limits, flagVars
  <2>2. rollback.fork \in 0 .. tip
    <3>1. rollback.fork < lastIndexed /\ lastIndexed \in 0 .. tip
      BY <1>i, <2>1 DEF PhaseInv, LoopTypes
    <3>2. rollback.fork \in Heights
      BY <1>i DEF TypeOK
    <3>. QED
      BY <1>n, <3>1, <3>2 DEF Heights
  <2>3. /\ poisonBlocks' \in [Blocks -> 0 .. QuarantineAfter]
        /\ \A m \in Blocks : poisonBlocks'[m] \in {0, poisonBlocks[m]}
        /\ cleanRun' \in [Blocks -> 0 .. QuarantineAfter]
    BY <1>13, <1>i, LoopAssumption DEF RecoverEnds, ClearAbove, LoopTypes
  <2>4. LoopTypes'
    BY <1>i, <2>1, <2>2, <2>3 DEF LoopTypes
  <2>5. BatchInv'
    <3>1. \A n \in Blocks : status[n] = "out"
      BY <1>i, <2>1 DEF BatchInv
    <3>2. \A n \in Blocks : /\ status'[n] = "out"
                           /\ poisonBlocks'[n] > 0 => n <= tip
      BY <1>i, <2>1, <2>3, <3>1 DEF BatchInv
    <3>. QED
      BY <1>i, <2>1, <3>2 DEF BatchInv
  <2>6. PhaseInv' /\ PoisonInGaps'
    BY <1>i, <2>1 DEF PhaseInv, PoisonInGaps, NoRollback
  <2>. QED
    BY <2>4, <2>5, <2>6 DEF LoopPart
<1>14. ASSUME RecoverFails PROVE LoopPart'
  <2>1. /\ loop = "recover" /\ loop' = "top" /\ rollback' = NoRollback
        /\ UNCHANGED <<tip, loopVars, poisonBlocks, gaps, limits, cleanRun,
                       transferWriterSeeded, blocks, poison_blocks>>
    BY <1>14 DEF RecoverFails, UnwindFails, flagVars, dbVars
  <2>2. LoopTypes' /\ BatchInv'
    BY <1>i, <2>1 DEF LoopTypes, BatchInv, loopVars, limits
  <2>3. PhaseInv' /\ PoisonInGaps'
    BY <1>i, <2>1 DEF PhaseInv, PoisonInGaps, NoRollback
  <2>. QED
    BY <2>2, <2>3 DEF LoopPart
<1>15. ASSUME IndexerCrash PROVE LoopPart'
  <2>1. /\ crashes < MaxCrashes /\ crashes' = crashes + 1 /\ loop' = "boot" /\ lastIndexed' = 0
        /\ backfillUntil' = 0 /\ status' = NoBatch /\ failure' = FALSE /\ poisonBlocks' = None
        /\ cleanRun' = None /\ rollback' = NoRollback /\ transferWriterSeeded' = FALSE
        /\ UNCHANGED <<tip, gaps, horizon, blocks, poison_blocks>>
    BY <1>15 DEF IndexerCrash, Crash, dbVars
  <2>2. crashes' \in 0 .. MaxCrashes /\ 0 \in 0 .. tip
    BY <1>i, <1>n, <2>1, LoopAssumption DEF LoopTypes
  <2>3. LoopTypes'
    BY <1>i, <1>o, <2>1, <2>2 DEF LoopTypes
  <2>4. BatchInv'
    BY <1>i, <1>o, <2>1 DEF BatchInv
  <2>5. PhaseInv' /\ PoisonInGaps'
    BY <1>i, <2>1 DEF PhaseInv, PoisonInGaps, NoRollback
  <2>. QED
    BY <2>3, <2>4, <2>5 DEF LoopPart
<1>16. ASSUME UNCHANGED indexerVars,
              UNCHANGED <<rollback, transferWriterSeeded, blocks, poison_blocks>>
       PROVE  LoopPart'
  BY <1>16, <1>i
  DEF LoopPart, LoopTypes, BatchInv, PhaseInv, PoisonInGaps, indexerVars, loopVars, limits
<1>17. ASSUME WriterStep \/ UNCHANGED allVars PROVE LoopPart'
  BY <1>16, <1>17, WriterQuiet DEF WriterStep, allVars, vars, memoryVars, flagVars, dbVars
<1>. QED
  BY <1>1, <1>2, <1>3, <1>4, <1>5, <1>6, <1>7, <1>8, <1>9, <1>10, <1>11, <1>12, <1>13, <1>14,
     <1>15, <1>17
  DEF IndexerNext, WorkerStep, LoopStep

LEMMA LoopInvSuffices == LoopInv => IndexerTypeOK
BY DEF LoopInv, WriterInv, LoopTypes, IndexerTypeOK

LEMMA LoopStepInv == LoopInv /\ [IndexerNext]_allVars => LoopInv'
BY LoopKeepsWriter, LoopStepKeeps DEF LoopPart, LoopInv

(* LoopInv holds whatever W a restart seeds the writer with.                *)
LEMMA LoopInvHolds == IndexerSpec => []LoopInv
BY LoopInit, LoopStepInv, PTL DEF IndexerSpec

(* Every variable of the loop and of the writer has its type, for any       *)
(* constants, on a fresh database too.                                      *)
THEOREM IndexerTypes == IndexerSpec => []IndexerTypeOK
BY LoopInvHolds, LoopInvSuffices, PTL

-----------------------------------------------------------------------------
(* The cursor passes nothing that is not on record.                         *)

LEMMA CursorStep ==
  ASSUME LoopInv, LoopInv', CursorRecorded, [IndexerNext]_allVars
  PROVE  CursorRecorded'
<1>i. TypeOK /\ LoopTypes /\ BatchInv /\ PhaseInv /\ PoisonInGaps
  BY DEF LoopInv, WriterInv
<1>n. tip \in Nat /\ tip <= MaxBlock /\ lastIndexed \in Nat /\ lastIndexed \in Heights
  BY <1>i, LoopNumbers
<1>k. ASSUME lastIndexed' = lastIndexed, blocks \subseteq blocks', gaps \subseteq gaps'
      PROVE  CursorRecorded'
  BY <1>k DEF CursorRecorded
<1>1. ASSUME NEW n \in Blocks, BlockDone(n) PROVE CursorRecorded'
  <2>1. /\ blocks' = blocks \cup {n} /\ status' = [status EXCEPT ![n] = "done"]
        /\ status[n] = "wrote" /\ lastIndexed' = Advanced(status') /\ gaps' = gaps
    BY <1>1 DEF BlockDone, EnqueueTransferWrite
  <2>2. \A m \in Blocks : status'[m] = "done" => m \in blocks'
    BY <1>i, <2>1 DEF BatchInv, LoopTypes
  <2>3. /\ lastIndexed' \in lastIndexed .. MaxBlock
        /\ \A m \in lastIndexed + 1 .. lastIndexed' : status'[m] = "done"
    BY <1>n, <2>1, AdvancedIs
  <2>4. \A m \in 1 .. lastIndexed' : m \in 1 .. lastIndexed \/ m \in lastIndexed + 1 .. lastIndexed'
    BY <1>n, <2>3
  <2>5. \A m \in 1 .. lastIndexed' : m \in Blocks
    BY <1>n, <2>3, BoundsAssumption DEF Blocks
  <2>. QED
    BY <2>1, <2>2, <2>3, <2>4, <2>5 DEF CursorRecorded
<1>2. ASSUME ResumeIndexing PROVE CursorRecorded'
  <2>1. lastIndexed' = ResumeAt /\ UNCHANGED <<blocks, gaps>>
    BY <1>2 DEF ResumeIndexing, InitTransferWriter
  <2>2. \A n \in 1 .. ResumeAt : n \in blocks \cup poison_blocks
    BY <1>i, <1>n, ResumeIs DEF LoopTypes, BatchInv
  <2>. QED
    BY <1>i, <2>1, <2>2 DEF CursorRecorded, PoisonInGaps
<1>3. ASSUME AbandonRange \/ AbandonRangeBelowW PROVE CursorRecorded'
  <2>1. /\ lastIndexed' = SkipTo /\ LagSkip /\ blocks' = blocks
        /\ gaps' = gaps \cup (lastIndexed + 1 .. SkipTo)
    BY <1>3 DEF AbandonRange, AbandonRangeBelowW, SetDurableFloor, vars, dbVars
  <2>2. SkipTo \in lastIndexed + 1 .. tip
    BY <1>i, <2>1, SkipIs
  <2>3. \A m \in 1 .. SkipTo : m \in 1 .. lastIndexed \/ m \in lastIndexed + 1 .. SkipTo
    BY <1>n, <2>2
  <2>. QED
    BY <2>1, <2>3 DEF CursorRecorded
<1>4. ASSUME QuarantineBlocker PROVE CursorRecorded'
  <2>1. lastIndexed' = lastIndexed + 1 /\ gaps' = gaps \cup {lastIndexed + 1} /\ blocks' = blocks
    BY <1>4 DEF QuarantineBlocker, EnqueueQuarantinedBlock, Blocker
  <2>2. \A m \in 1 .. lastIndexed + 1 : m \in 1 .. lastIndexed \/ m = lastIndexed + 1
    BY <1>n
  <2>. QED
    BY <2>1, <2>2 DEF CursorRecorded
<1>5. ASSUME RecoverEnds PROVE CursorRecorded'
  <2>1. /\ lastIndexed' = rollback.fork /\ gaps' = gaps /\ loop = "recover"
        /\ blocks' = blocks \ Above(Blocks, rollback.fork)
    BY <1>5 DEF RecoverEnds, UnwindBlocks
  <2>2. rollback.fork < lastIndexed /\ rollback.fork \in Nat
    BY <1>i, <2>1, BoundsAssumption DEF PhaseInv, TypeOK, Heights
  <2>3. \A m \in 1 .. rollback.fork : m \in 1 .. lastIndexed /\ ~ (m > rollback.fork)
    BY <1>n, <2>2
  <2>. QED
    BY <2>1, <2>3 DEF CursorRecorded, Above
<1>6. ASSUME IndexerCrash PROVE CursorRecorded'
  BY <1>6 DEF IndexerCrash, CursorRecorded
<1>7. ASSUME \/ ChainGrows \/ ClaimNext
             \/ \E n \in Blocks : BlockWrites(n) \/ BlockFailsClean(n) \/ BlockFailsDirty(n)
             \/ StartBatch \/ RefuseQuarantine \/ RetryBatch
             \/ \E f \in 0 .. MaxBlock - 1 : DetectReorg(f)
             \/ RecoverFails \/ UNCHANGED allVars
      PROVE  CursorRecorded'
  BY <1>7, <1>k
  DEF ChainGrows, ClaimNext, BlockWrites, BlockFailsClean, BlockFailsDirty, StartBatch,
      RefuseQuarantine, RetryBatch, DetectReorg, RollbackBegins, RecoverFails, UnwindFails,
      allVars, vars, dbVars, indexerVars, loopVars
<1>8. ASSUME RecoverStep \/ WriterStep PROVE CursorRecorded'
  BY <1>8, <1>i, <1>k, RecoverMoves, WriterQuiet DEF WriterStep, indexerVars, loopVars
<1>. QED
  BY <1>1, <1>2, <1>3, <1>4, <1>5, <1>6, <1>7, <1>8 DEF IndexerNext, WorkerStep, LoopStep

-----------------------------------------------------------------------------
(* What is shown stays shown while the process lives.                       *)

Shown(n) == Visible(n) \/ excuse[n] = "floor"

(* What LossInv says of the writer, and that nothing shown gets lost.       *)
WriterLoss ==
  /\ OnlyFloors'
  /\ DrainedSettled'
  /\ \A n \in Blocks : Shown(n) => Shown(n)'

(* The drainer's steps.                                                     *)
LEMMA DrainKeepsShown ==
  ASSUME LoopInv, OnlyFloors, DrainedSettled, WriterStep
  PROVE  WriterLoss
<1>i. TypeOK /\ QueuesCurrent /\ DrainerIdle
  BY DEF LoopInv, WriterInv
<1>u. UNCHANGED <<poison_blocks, version, gaps>>
  BY WriterQuiet DEF WriterStep, indexerVars
<1>v. \A n : Queued(drained, n) => n \in Blocks /\ Overwritten(drained)[n] = version[n]
  BY <1>i DEF Queued, TypeOK, IsQueue, QueuesCurrent, Current, Overwritten
<1>w. ASSUME token_transfers' = Overwritten(drained), excuse' = Pardon(drained)
      PROVE  /\ OnlyFloors'
             /\ \A n \in Blocks : Queued(drained, n) => Settled(n)'
             /\ \A n \in Blocks : Settled(n) => Settled(n)'
             /\ \A n \in Blocks : excuse[n] = "floor" => Settled(n)' \/ excuse'[n] = "floor"
  <2>1. \A n \in Blocks : Queued(drained, n) => Settled(n)'
    BY <1>u, <1>v, <1>w DEF Settled
  <2>2. \A n \in Blocks : ~Queued(drained, n) => /\ token_transfers'[n] = token_transfers[n]
                                                 /\ excuse'[n] = excuse[n]
    BY <1>w DEF Queued, Overwritten, Pardon
  <2>3. OnlyFloors'
    BY <1>w DEF OnlyFloors, Pardon
  <2>. QED
    BY <1>u, <2>1, <2>2, <2>3 DEF Settled
<1>1. ASSUME WriteCommits PROVE WriterLoss
  <2>1. token_transfers' = Overwritten(drained) /\ excuse' = Pardon(drained)
    BY <1>1 DEF WriteCommits
  <2>2. \/ writer' = "persist" /\ UNCHANGED <<transferPending, drained>>
        \/ LoopHead(transferPending, transferPendingRows, transferWriterPaused)
    BY <1>1 DEF WriteCommits, queueVars
  <2>3. \A n : Queued(transferPending, n) => Owed(n)'
    BY <2>2, HeadKeepsOwed DEF Owed, Queued
  <2>4. DrainedSettled'
    BY <1>w, <2>1, <2>2, HeadKeepsOwed DEF DrainedSettled, Queued
  <2>. QED
    BY <1>u, <1>w, <2>1, <2>3, <2>4 DEF WriterLoss, Shown, Visible, Owed
<1>q. ASSUME Requeue PROVE \A n : Owed(n) => Owed(n)' \/ n \in poison_blocks
  <2>1. transferPending' = Merged(transferPending, drained)
    BY <1>q DEF Requeue
  <2>. QED
    BY <1>i, <2>1 DEF Owed, Queued, Merged, QueuesCurrent, Current
<1>2. ASSUME WriteFails PROVE WriterLoss
  <2>1. Requeue /\ writer' = "backoff"
    BY <1>2 DEF WriteFails, Requeue
  <2>2. CASE UNCHANGED <<token_transfers, excuse>>
    BY <1>u, <1>q, <2>1, <2>2
    DEF WriterLoss, Shown, Visible, Settled, OnlyFloors, DrainedSettled
  <2>3. CASE token_transfers' = Overwritten(drained) /\ excuse' = Pardon(drained)
    BY <1>u, <1>q, <1>w, <2>1, <2>3 DEF WriterLoss, Shown, Visible, DrainedSettled
  <2>. QED
    BY <1>2, <2>2, <2>3 DEF WriteFails
<1>3. ASSUME PersistFails PROVE WriterLoss
  <2>1. Requeue /\ writer' = "backoff" /\ UNCHANGED <<token_transfers, excuse>>
    BY <1>3 DEF PersistFails, Requeue, history
  <2>. QED
    BY <1>u, <1>q, <2>1 DEF WriterLoss, Shown, Visible, Settled, OnlyFloors, DrainedSettled
<1>4. ASSUME PersistCommits PROVE WriterLoss
  <2>1. /\ LoopHead(transferPending, transferPendingRows, transferWriterPaused)
        /\ writer = "persist" /\ UNCHANGED <<token_transfers, excuse>>
    BY <1>4 DEF PersistCommits, history
  <2>2. /\ writer' # "persist"
        /\ \A n : Queued(transferPending, n) => Owed(n)'
    BY <2>1, HeadKeepsOwed
  <2>3. \A n \in Blocks : Queued(drained, n) => Settled(n)
    BY <2>1 DEF DrainedSettled
  <2>4. \A n \in Blocks : Owed(n) => Owed(n)' \/ Settled(n)'
    BY <1>u, <2>1, <2>2, <2>3 DEF Owed, Settled
  <2>. QED
    BY <1>u, <2>1, <2>2, <2>4 DEF WriterLoss, Shown, Visible, Settled, OnlyFloors, DrainedSettled
<1>5. ASSUME BackoffEnds PROVE WriterLoss
  <2>1. /\ LoopHead(transferPending, transferPendingRows, transferWriterPaused)
        /\ writer = "backoff" /\ UNCHANGED <<token_transfers, excuse>>
    BY <1>5 DEF BackoffEnds, history, dbVars
  <2>2. /\ writer' # "persist"
        /\ \A n : Queued(transferPending, n) => Owed(n)'
    BY <2>1, HeadKeepsOwed
  <2>3. \A n : ~Queued(drained, n)
    BY <1>i, <2>1 DEF DrainerIdle, Queued, NoQueue
  <2>. QED
    BY <1>u, <2>1, <2>2, <2>3
    DEF WriterLoss, Shown, Visible, Settled, Owed, OnlyFloors, DrainedSettled
<1>6. ASSUME NEW b \in Blocks, FloorPersistLands(b) \/ FloorPersistFails(b) PROVE WriterLoss
  <2>1. /\ UNCHANGED <<token_transfers, transferPending, writer, drained>>
        /\ excuse' = excuse \/ excuse' = Excused(durableBlock + 1 .. b, "floor")
    BY <1>6 DEF FloorPersistLands, FloorPersistFails, history, dbVars, queueVars, drainVars
  <2>2. \A n \in Blocks : excuse'[n] \in {excuse[n], "floor"}
    BY <2>1 DEF Excused
  <2>3. DrainedSettled' /\ OnlyFloors'
    BY <1>u, <2>1, <2>2 DEF DrainedSettled, OnlyFloors, Settled, Queued
  <2>. QED
    BY <1>u, <2>1, <2>2, <2>3 DEF WriterLoss, Shown, Visible, Settled, Owed, Queued
<1>. QED
  BY <1>1, <1>2, <1>3, <1>4, <1>5, <1>6 DEF WriterStep, DrainStep

(* The loop's steps, without reorgs; a crash is the exception.              *)
LEMMA LoopKeepsShown ==
  ASSUME LoopInv, ~Reorgs, rollback.phase = "none", OnlyFloors, DrainedSettled,
         [IndexerNext]_allVars
  PROVE  /\ rollback'.phase = "none" /\ horizon' = horizon /\ OnlyFloors' /\ DrainedSettled'
         /\ WriterLoss \/ IndexerCrash
<1>i. TypeOK /\ QueuesCurrent /\ DrainerIdle /\ PhaseInv
  BY DEF LoopInv, WriterInv
<1>r. loop # "recover"
  BY <1>i DEF PhaseInv
<1>. DEFINE Quiet == rollback'.phase = "none" /\ horizon' = horizon
<1>q. ASSUME NEW q, \A n : Queued(transferPending, n) => Queued(q, n),
             NEW rows, NEW seeded, NEW paused, RunTransferWriter(q, rows, seeded, paused),
             UNCHANGED <<token_transfers, version, excuse>>,
             poison_blocks \subseteq poison_blocks', gaps \subseteq gaps'
      PROVE  WriterLoss
  <2>1. \A n : Owed(n) => Owed(n)'
    BY <1>i, <1>q, RunKeepsOwed DEF Owed
  <2>2. DrainedSettled'
    BY <1>i, <1>q, RunKeepsOwed DEF DrainedSettled, Settled, Queued
  <2>. QED
    BY <1>q, <2>1, <2>2 DEF WriterLoss, Shown, Visible, Settled, OnlyFloors
<1>k. ASSUME UNCHANGED <<transferPending, writer, drained, token_transfers, version>>,
             poison_blocks \subseteq poison_blocks', gaps \subseteq gaps',
             \A n \in Blocks : excuse'[n] \in {excuse[n], "floor"}
      PROVE  WriterLoss
  BY <1>k DEF WriterLoss, Shown, Visible, Owed, Settled, OnlyFloors, DrainedSettled, Queued
<1>1. ASSUME NEW n \in Blocks, BlockDone(n) PROVE Quiet /\ WriterLoss
  <2>. DEFINE q == Put(transferPending, n, RealBatch(n, version[n]))
  <2>1. EnqueueTransferWrite(n) /\ UNCHANGED <<gaps, horizon>>
    BY <1>1 DEF BlockDone, limits
  <2>2. \A m : Queued(transferPending, m) => Queued(q, m)
    BY DEF Queued, Put, RealBatch
  <2>3. /\ \E rows : RunTransferWriter(q, rows, transferWriterSeeded, transferWriterPaused)
        /\ UNCHANGED <<rollback, token_transfers, poison_blocks, version, excuse>>
    BY <2>1 DEF EnqueueTransferWrite, history
  <2>. HIDE DEF q
  <2>. QED
    BY <1>q, <2>1, <2>2, <2>3
<1>2. ASSUME ResumeIndexing PROVE Quiet /\ WriterLoss
  <2>1. /\ RunTransferWriter(transferPending, transferPendingRows, TRUE, transferWriterPaused)
        /\ UNCHANGED <<rollback, token_transfers, poison_blocks, version, excuse, gaps, horizon>>
    BY <1>2 DEF ResumeIndexing, InitTransferWriter, history, limits
  <2>. QED
    BY <1>q, <2>1
<1>3. ASSUME AbandonRange PROVE Quiet /\ WriterLoss
  <2>1. /\ UNCHANGED <<transferPending, writer, drained, token_transfers, version, poison_blocks>>
        /\ gaps \subseteq gaps' /\ UNCHANGED <<rollback, horizon>>
        /\ \E S : excuse' = Excused(S, "floor")
    BY <1>3 DEF AbandonRange, SetDurableFloor, queueVars, drainVars, dbVars, limits
  <2>2. \A n \in Blocks : excuse'[n] \in {excuse[n], "floor"}
    BY <2>1 DEF Excused
  <2>. QED
    BY <1>k, <2>1, <2>2
<1>4. ASSUME QuarantineBlocker PROVE Quiet /\ WriterLoss
  <2>. DEFINE n == Blocker
              q == Put(transferPending, n, QuarantineBatch)
  <2>1. /\ UNCHANGED <<rollback, horizon, token_transfers, version, excuse>>
        /\ poison_blocks \subseteq poison_blocks' /\ gaps \subseteq gaps'
    BY <1>4 DEF QuarantineBlocker, EnqueueQuarantinedBlock, EndBatch, limits, history
  <2>2. CASE n \in DOMAIN transferPending /\ ~transferPending[n].quarantine
    <3>1. UNCHANGED <<transferPending, writer, drained>>
      BY <1>4, <2>2 DEF QuarantineBlocker, EnqueueQuarantinedBlock, queueVars
    <3>. QED
      BY <1>k, <2>1, <3>1
  <2>3. CASE ~(n \in DOMAIN transferPending /\ ~transferPending[n].quarantine)
    <3>1. \E rows : RunTransferWriter(q, rows, transferWriterSeeded, transferWriterPaused)
      BY <1>4, <2>3 DEF QuarantineBlocker, EnqueueQuarantinedBlock
    <3>2. \A m : Queued(transferPending, m) => Queued(q, m)
      BY <2>3 DEF Queued, Put
    <3>. HIDE DEF q
    <3>. QED
      BY <1>q, <2>1, <3>1, <3>2
  <2>. QED
    BY <2>1, <2>2, <2>3
<1>5. ASSUME NEW f \in 0 .. MaxBlock - 1, DetectReorg(f) PROVE FALSE
  BY <1>5 DEF DetectReorg, Reorgs
<1>6. ASSUME RecoverStep \/ RecoverEnds \/ RecoverFails PROVE FALSE
  BY <1>6, <1>r DEF RecoverStep, RecoverEnds, RecoverFails
<1>7. ASSUME WriterStep PROVE Quiet /\ WriterLoss
  BY <1>7, DrainKeepsShown, WriterQuiet DEF WriterStep, indexerVars, limits
<1>8. ASSUME IndexerCrash PROVE Quiet /\ OnlyFloors' /\ DrainedSettled'
  BY <1>8 DEF IndexerCrash, Crash, NoRollback, history, OnlyFloors, DrainedSettled
<1>9. ASSUME \/ ChainGrows \/ ClaimNext
             \/ \E n \in Blocks : BlockFailsClean(n) \/ BlockFailsDirty(n)
             \/ AbandonRangeBelowW \/ StartBatch \/ RefuseQuarantine \/ RetryBatch
             \/ UNCHANGED allVars
      PROVE  Quiet /\ WriterLoss
  <2>1. UNCHANGED vars /\ gaps \subseteq gaps' /\ horizon' = horizon
    BY <1>9
    DEF ChainGrows, ClaimNext, BlockFailsClean, BlockFailsDirty, AbandonRangeBelowW, StartBatch,
        RefuseQuarantine, RetryBatch, EndBatch, allVars, indexerVars, limits
  <2>. QED
    BY <1>k, <2>1 DEF vars, memoryVars, queueVars, drainVars, dbVars, history
<1>10. ASSUME NEW n \in Blocks, BlockWrites(n) PROVE Quiet /\ WriterLoss
  BY <1>10, <1>k DEF BlockWrites, memoryVars, queueVars, drainVars, history, limits
<1>. HIDE DEF Quiet
<1>11. \/ Quiet /\ WriterLoss
       \/ Quiet /\ OnlyFloors' /\ DrainedSettled' /\ IndexerCrash
  BY <1>1, <1>2, <1>3, <1>4, <1>5, <1>6, <1>7, <1>8, <1>9, <1>10
  DEF IndexerNext, WorkerStep, LoopStep
<1>. QED
  BY <1>11 DEF WriterLoss, Quiet

(* What a step adds to the heights that have been passed it also shows.     *)
LEMMA NewlyPassedShown ==
  ASSUME ~FreshDatabase, LoopInv, AccountInv, OnlyFloors, [IndexerNext]_allVars, ~IndexerCrash,
         loop # "recover",
         NEW m \in Blocks, Passed(m)', ~Passed(m)
  PROVE  Shown(m)'
<1>i. TypeOK /\ LoopTypes /\ BatchInv /\ WatermarkSound /\ DrainerIdle
  BY DEF LoopInv, WriterInv, AccountInv
<1>n. tip \in Nat /\ tip <= MaxBlock /\ lastIndexed \in Nat /\ lastIndexed \in Heights /\ m \in Nat
  BY <1>i, LoopNumbers DEF Blocks
<1>1. ASSUME NEW n \in Blocks, BlockDone(n) PROVE Shown(m)'
  <2>1. /\ status' = [status EXCEPT ![n] = "done"] /\ lastIndexed' = Advanced(status')
        /\ EnqueueTransferWrite(n)
    BY <1>1 DEF BlockDone
  <2>2. /\ lastIndexed' \in lastIndexed .. MaxBlock
        /\ \A k \in lastIndexed + 1 .. lastIndexed' : status'[k] = "done"
    BY <1>n, <2>1, AdvancedIs
  <2>3. status'[m] = "done"
    BY <1>n, <2>2 DEF Passed
  <2>4. m = n
    BY <1>i, <2>1, <2>3 DEF Passed, LoopTypes
  <2>. DEFINE q == Put(transferPending, n, RealBatch(n, version[n]))
  <2>5. Queued(q, n)
    BY DEF Queued, Put, RealBatch
  <2>6. \E rows : RunTransferWriter(q, rows, transferWriterSeeded, transferWriterPaused)
    BY <2>1 DEF EnqueueTransferWrite
  <2>. HIDE DEF q
  <2>. QED
    BY <1>i, <2>4, <2>5, <2>6, RunKeepsOwed DEF Shown, Visible
<1>2. ASSUME ResumeIndexing PROVE Shown(m)'
  <2>1. /\ lastIndexed' = ResumeAt
        /\ UNCHANGED <<status, token_transfers, version, poison_blocks, excuse>>
    BY <1>2 DEF ResumeIndexing, InitTransferWriter, history
  <2>2. ResumeAt <= ResumeWatermark /\ MaxIndexed \in 0 .. tip /\ ResumeAt \in 0 .. MaxIndexed
    BY <1>i, <1>n, ResumeIs DEF LoopTypes, BatchInv
  <2>3. m <= ResumeAt
    BY <2>1 DEF Passed
  <2>4. transfers_durable_block = ResumeWatermark
    BY DEF ResumeWatermark
  <2>5. m \in 1 .. transfers_durable_block
    BY <1>i, <1>n, <2>2, <2>3, <2>4, BoundsAssumption DEF Blocks, TypeOK, Heights
  <2>6. Accounted(m) /\ excuse[m] \in {"none", "floor"}
    BY <1>i, <2>5 DEF WatermarkSound, OnlyFloors
  <2>. QED
    BY <2>1, <2>6 DEF Shown, Visible, Accounted, Settled
<1>3. ASSUME AbandonRange \/ AbandonRangeBelowW PROVE Shown(m)'
  <2>1. /\ lastIndexed' = SkipTo /\ gaps' = gaps \cup (lastIndexed + 1 .. SkipTo)
        /\ status' = status
    BY <1>3 DEF AbandonRange, AbandonRangeBelowW
  <2>2. m \in lastIndexed + 1 .. SkipTo
    BY <1>n, <2>1, BoundsAssumption DEF Passed, SkipTo
  <2>. QED
    BY <2>1, <2>2 DEF Shown, Visible
<1>4. ASSUME QuarantineBlocker PROVE Shown(m)'
  <2>1. lastIndexed' = Blocker /\ gaps' = gaps \cup {Blocker} /\ status' = NoBatch
    BY <1>4 DEF QuarantineBlocker, EndBatch
  <2>2. m = Blocker
    BY <1>n, <2>1 DEF Passed, NoBatch, Blocker
  <2>. QED
    BY <2>1, <2>2 DEF Shown, Visible
<1>5. ASSUME ClaimNext PROVE FALSE
  <2>1. Is("pending") \in SUBSET Nat /\ Is("pending") # {}
    BY <1>5 DEF ClaimNext, Is, Blocks
  <2>2. lastIndexed' = lastIndexed /\ \E k : status' = [status EXCEPT ![k] = "inflight"]
    BY <1>5 DEF ClaimNext
  <2>. QED
    BY <1>i, <2>2 DEF Passed, LoopTypes
<1>6. ASSUME NEW n \in Blocks, BlockWrites(n) \/ BlockFailsClean(n) \/ BlockFailsDirty(n)
      PROVE  FALSE
  <2>1. /\ lastIndexed' = lastIndexed
        /\ \E s \in {"wrote", "failed"} : status' = [status EXCEPT ![n] = s]
    BY <1>6 DEF BlockWrites, BlockFailsClean, BlockFailsDirty
  <2>. QED
    BY <1>i, <2>1 DEF Passed, LoopTypes
<1>7. ASSUME \/ ChainGrows \/ StartBatch \/ RefuseQuarantine \/ RetryBatch
             \/ \E f \in 0 .. MaxBlock - 1 : DetectReorg(f)
             \/ WriterStep \/ UNCHANGED allVars
      PROVE  FALSE
  <2>1. lastIndexed' = lastIndexed /\ (status' = status \/ \A n \in Blocks : status'[n] # "done")
    BY <1>7
    DEF ChainGrows, StartBatch, RefuseQuarantine, RetryBatch, EndBatch, NoBatch, DetectReorg,
        WriterStep, allVars, indexerVars, loopVars
  <2>. QED
    BY <2>1 DEF Passed
<1>. QED
  BY <1>1, <1>2, <1>3, <1>4, <1>5, <1>6, <1>7
  DEF IndexerNext, WorkerStep, LoopStep, RecoverStep, RecoverEnds, RecoverFails

LEMMA LossInit == IndexerInit => LossInv
BY DEF IndexerInit, Init, LossInv, NoRollback, OnlyFloors, DrainedSettled, PassedVisible, Passed,
   NoBatch, Blocks

LEMMA LossStep ==
  ASSUME ~FreshDatabase, LoopInv, AccountInv, LossInv, [IndexerNext]_allVars
  PROVE  LossInv'
<1>i. PhaseInv
  BY DEF LoopInv
<1>1. CASE Reorgs
  <2>1. horizon' = horizon
    BY DEF IndexerNext, ChainGrows, WorkerStep, ClaimNext, BlockWrites, BlockDone, BlockFailsClean,
       BlockFailsDirty, LoopStep, ResumeIndexing, AbandonRange, AbandonRangeBelowW, StartBatch,
       QuarantineBlocker, RefuseQuarantine, RetryBatch, EndBatch, DetectReorg, RecoverStep,
       RecoverEnds, RecoverFails, WriterStep, IndexerCrash, allVars, indexerVars, limits
  <2>. QED
    BY <1>1, <2>1 DEF LossInv, Reorgs
<1>2. CASE ~Reorgs
  <2>1. rollback.phase = "none" /\ OnlyFloors /\ DrainedSettled /\ PassedVisible
    BY <1>2 DEF LossInv
  <2>2. /\ rollback'.phase = "none" /\ OnlyFloors' /\ DrainedSettled'
        /\ WriterLoss \/ IndexerCrash
    BY <1>2, <2>1, LoopKeepsShown
  <2>3. CASE IndexerCrash
    <3>1. lastIndexed' = 0 /\ status' = NoBatch
      BY <2>3 DEF IndexerCrash
    <3>2. \A n \in Blocks : ~Passed(n)'
      BY <3>1 DEF Passed, NoBatch, Blocks
    <3>. QED
      BY <2>2, <3>2 DEF LossInv, PassedVisible
  <2>4. CASE ~IndexerCrash
    <3>1. loop # "recover"
      BY <1>i, <2>1 DEF PhaseInv
    <3>2. \A n \in Blocks : Passed(n) => Shown(n)'
      BY <2>1, <2>2, <2>4 DEF WriterLoss, PassedVisible, Shown
    <3>3. \A n \in Blocks : Passed(n)' => Shown(n)'
      BY <2>1, <2>4, <3>1, <3>2, NewlyPassedShown
    <3>. QED
      BY <2>2, <3>3 DEF LossInv, PassedVisible, Shown
  <2>. QED
    BY <2>3, <2>4
<1>. QED
  BY <1>1, <1>2

(* The cursor never passes a height that is neither indexed nor recorded as *)
(* abandoned, on a fresh database too: a resume point beyond the stored W   *)
(* still stops below the first hole.                                        *)
THEOREM CursorIsRecorded == IndexerSpec => []CursorRecorded
<1>1. IndexerInit => CursorRecorded
  BY DEF IndexerInit, CursorRecorded
<1>2. LoopInv /\ LoopInv' /\ CursorRecorded /\ [IndexerNext]_allVars => CursorRecorded'
  BY CursorStep
<1>. QED
  BY <1>1, <1>2, LoopInvHolds, PTL DEF IndexerSpec

(* What the database says of the transfers is true below a W that no        *)
(* restart raised.                                                          *)
LEMMA AccountHolds ==
  ASSUME ~FreshDatabase
  PROVE  IndexerSpec => []AccountInv
<1>1. IndexerInit => AccountInv
  BY InitInv DEF IndexerInit, IInv
<1>2. LoopInv /\ AccountInv /\ [IndexerNext]_allVars => AccountInv'
  BY LoopKeepsAccount
<1>. QED
  BY <1>1, <1>2, LoopInvHolds, PTL DEF IndexerSpec

(* Whatever the cursor has passed is there or on record, row and transfers, *)
(* across batches, retries, quarantine, skips and restarts, for any chain   *)
(* and any constants, once a W is stored.                                   *)
THEOREM NothingGoesUnrecorded ==
  ASSUME ~FreshDatabase
  PROVE  IndexerSpec => []NothingUnrecorded
<1>1. LoopInv /\ AccountInv /\ LossInv /\ [IndexerNext]_allVars => LossInv'
  BY LossStep
<1>2. LoopInv /\ CursorRecorded /\ LossInv => NothingUnrecorded
  <2>1. ASSUME LoopInv, LossInv, horizon > ReorgHorizon PROVE LossVisible
    <3>1. \A n \in 1 .. lastIndexed : n \in Blocks /\ n <= lastIndexed
      BY <2>1, LoopNumbers, BoundsAssumption DEF LoopInv, Blocks, Heights
    <3>2. ~Reorgs
      BY <2>1, LoopNumbers, HorizonAssumption DEF LoopInv, Reorgs
    <3>. QED
      BY <2>1, <3>1, <3>2 DEF LossInv, PassedVisible, Passed, LossVisible
  <2>. QED
    BY <2>1 DEF NothingUnrecorded, LossVisibleUnderLag
<1>3. IndexerSpec => []LossInv
  BY <1>1, LossInit, LoopInvHolds, AccountHolds, PTL DEF IndexerSpec
<1>. QED
  BY <1>2, <1>3, CursorIsRecorded, LoopInvHolds, PTL

-----------------------------------------------------------------------------
(* The writer keeps its promises under the loop that really feeds it.       *)

(* What the stored W claims is in the table or excused, and the writer      *)
(* still implements the abstract watermark.                                 *)
THEOREM WatermarkKeptByLoop ==
  ASSUME ~FreshDatabase
  PROVE  IndexerSpec => []WatermarkSound /\ ImplementsDurableWatermark
<1>1. IndexerInit => Stored!Init
  BY BoundsAssumption DEF IndexerInit, Init, Stored!Init, Accounted, Settled, NoRows
<1>2. LoopInv /\ AccountInv /\ LoopInv' /\ AccountInv' /\ [IndexerNext]_allVars
        => [Stored!Next]_<<{n \in Blocks : Accounted(n)}, transfers_durable_block>>
  BY LoopFeedsWriter, StoredStep DEF LoopInv, IInv
<1>3. AccountInv => WatermarkSound
  BY DEF AccountInv
<1>. QED
  BY <1>1, <1>2, <1>3, LoopInvHolds, AccountHolds, PTL
  DEF IndexerSpec, ImplementsDurableWatermark, Stored!Spec

(* Whatever W a restart seeds: no row of an unwound chain comes back, no    *)
(* wakeup is lost, the row counter is exact, only the unwind deletes, and   *)
(* no decode that was handed over is dropped.                               *)
THEOREM WriterKeptByLoop ==
  IndexerSpec => /\ [](NoOrphanRows /\ NoLostWakeup /\ RowCounterExact)
                 /\ OnlyUnwindDeletes
                 /\ NoDecodeDropped
<1>1. IndexerInit => NoLostWakeup /\ RowCounterExact /\ DropInv
  BY TotalEmpty
  DEF IndexerInit, Init, NoLostWakeup, RowCounterExact, Total, DropInv, DrainedSettled,
      OwedHasRow, NoClash, Owed, Queued, NoQueue
<1>2. LoopInv /\ NoLostWakeup /\ [IndexerNext]_allVars => NoLostWakeup'
  BY LoopFeedsWriter, WakeupStep DEF LoopInv
<1>3. LoopInv /\ RowCounterExact /\ [IndexerNext]_allVars => RowCounterExact'
  BY LoopFeedsWriter, CounterStep DEF LoopInv, WriterInv
<1>4. LoopInv /\ DropInv /\ [IndexerNext]_allVars => DropInv'
  BY LoopFeedsWriter, DropStep DEF LoopInv, Kept
<1>5. LoopInv => NoOrphanRows
  BY DEF LoopInv, WriterInv
<1>6. LoopInv /\ [IndexerNext]_allVars =>
        [\A n \in Blocks :
           token_transfers[n] # NoRows /\ token_transfers'[n] = NoRows
             => rollback.phase = "unwindTransfers" /\ n > rollback.fork]_vars
  BY LoopFeedsWriter, DeletesStep DEF LoopInv
<1>7. LoopInv /\ DropInv /\ [IndexerNext]_allVars =>
        [\A n \in Blocks :
           Owed(n) /\ ~Owed(n)' =>
             \/ Settled(n)'
             \/ rollback.phase = "quiesce" /\ n > rollback.fork
             \/ ~transferWriterSeeded']_vars
  BY LoopFeedsWriter, DropStep DEF LoopInv, Kept, MayGo
<1>. QED
  BY <1>1, <1>2, <1>3, <1>4, <1>5, <1>6, <1>7, LoopInvHolds, PTL
  DEF IndexerSpec, OnlyUnwindDeletes, NoDecodeDropped

-----------------------------------------------------------------------------
(* A quarantine is earned.                                                  *)

CountInv ==
  /\ poisonBlocks \in [Blocks -> 0 .. QuarantineAfter]
  /\ cleanRun \in [Blocks -> 0 .. QuarantineAfter]
  /\ CountsEarned

LEMMA CountInit == IndexerInit => CountInv
BY LoopAssumption DEF IndexerInit, CountInv, CountsEarned, None

(* Counts and runs grow together, and what resets a run resets its count.   *)
LEMMA CountStep == CountInv /\ [IndexerNext]_allVars => CountInv'
<1>. SUFFICES ASSUME CountInv, [IndexerNext]_allVars PROVE CountInv'
  OBVIOUS
<1>i. /\ poisonBlocks \in [Blocks -> 0 .. QuarantineAfter]
      /\ cleanRun \in [Blocks -> 0 .. QuarantineAfter]
      /\ \A n \in Blocks : poisonBlocks[n] <= cleanRun[n]
      /\ 0 \in 0 .. QuarantineAfter /\ QuarantineAfter \in Nat
  BY LoopAssumption DEF CountInv, CountsEarned
<1>1. ASSUME UNCHANGED <<poisonBlocks, cleanRun>> PROVE CountInv'
  BY <1>1 DEF CountInv, CountsEarned
<1>2. ASSUME NEW n \in Blocks, BlockDone(n) \/ BlockFailsDirty(n) PROVE CountInv'
  <2>1. /\ poisonBlocks' = [poisonBlocks EXCEPT ![n] = 0] /\ cleanRun' = [cleanRun EXCEPT ![n] = 0]
    BY <1>2 DEF BlockDone, BlockFailsDirty, RecordUnclean
  <2>. QED
    BY <1>i, <2>1 DEF CountInv, CountsEarned
<1>3. ASSUME NEW n \in Blocks, BlockFailsClean(n) PROVE CountInv'
  <2>1. /\ poisonBlocks' = Counted(poisonBlocks, n) /\ cleanRun' = Counted(cleanRun, n)
    BY <1>3 DEF BlockFailsClean
  <2>2. /\ poisonBlocks' \in [Blocks -> 0 .. QuarantineAfter]
        /\ \A m \in Blocks : m # n => poisonBlocks'[m] = poisonBlocks[m]
        /\ poisonBlocks'[n] = IF poisonBlocks[n] + 1 <= QuarantineAfter THEN poisonBlocks[n] + 1
                              ELSE QuarantineAfter
    BY <1>i, <2>1, CountedType
  <2>3. /\ cleanRun' \in [Blocks -> 0 .. QuarantineAfter]
        /\ \A m \in Blocks : m # n => cleanRun'[m] = cleanRun[m]
        /\ cleanRun'[n] = IF cleanRun[n] + 1 <= QuarantineAfter THEN cleanRun[n] + 1
                          ELSE QuarantineAfter
    BY <1>i, <2>1, CountedType
  <2>4. poisonBlocks'[n] <= cleanRun'[n]
    <3>1. poisonBlocks[n] \in 0 .. QuarantineAfter /\ cleanRun[n] \in 0 .. QuarantineAfter
      BY <1>i
    <3>. QED
      BY <1>i, <2>2, <2>3, <3>1
  <2>. QED
    BY <1>i, <2>2, <2>3, <2>4 DEF CountInv, CountsEarned
<1>4. ASSUME poisonBlocks' \in [Blocks -> 0 .. QuarantineAfter],
             cleanRun' \in [Blocks -> 0 .. QuarantineAfter],
             \A n \in Blocks : \/ poisonBlocks'[n] = 0
                               \/ poisonBlocks'[n] = poisonBlocks[n] /\ cleanRun'[n] = cleanRun[n]
      PROVE  CountInv'
  BY <1>4, <1>i DEF CountInv, CountsEarned
<1>5. ASSUME QuarantineBlocker PROVE CountInv'
  <2>1. /\ Blocker \in Blocks /\ poisonBlocks' = Pruned(poisonBlocks, Blocker)
        /\ cleanRun' = [cleanRun EXCEPT ![Blocker] = 0]
    BY <1>5 DEF QuarantineBlocker, Candidate
  <2>2. poisonBlocks'[Blocker] = 0
    BY <2>1, BoundsAssumption DEF Blocks, Pruned
  <2>3. cleanRun' \in [Blocks -> 0 .. QuarantineAfter]
    BY <1>i, <2>1
  <2>4. \A n \in Blocks : n # Blocker => cleanRun'[n] = cleanRun[n]
    BY <1>i, <2>1
  <2>5. /\ poisonBlocks' \in [Blocks -> 0 .. QuarantineAfter]
        /\ \A n \in Blocks : poisonBlocks'[n] \in {0, poisonBlocks[n]}
    BY <1>i, <2>1, PrunedType
  <2>6. \A n \in Blocks : \/ poisonBlocks'[n] = 0
                          \/ poisonBlocks'[n] = poisonBlocks[n] /\ cleanRun'[n] = cleanRun[n]
    BY <2>2, <2>4, <2>5
  <2>. QED
    BY <1>4, <2>3, <2>5, <2>6, Zenon
<1>6. ASSUME RetryBatch PROVE CountInv'
  BY <1>6, <1>4, <1>i, PrunedType DEF RetryBatch
<1>7. ASSUME RefuseQuarantine PROVE CountInv'
  <2>1. /\ poisonBlocks' = [Pruned(poisonBlocks, lastIndexed) EXCEPT ![Blocker] = 0]
        /\ cleanRun' = cleanRun
    BY <1>7 DEF RefuseQuarantine
  <2>2. /\ Pruned(poisonBlocks, lastIndexed) \in [Blocks -> 0 .. QuarantineAfter]
        /\ \A m \in Blocks : Pruned(poisonBlocks, lastIndexed)[m] \in {0, poisonBlocks[m]}
    BY <1>i, PrunedType
  <2>3. /\ poisonBlocks' \in [Blocks -> 0 .. QuarantineAfter]
        /\ \A m \in Blocks : poisonBlocks'[m] \in {0, poisonBlocks[m]}
    BY <1>i, <2>1, <2>2
  <2>. QED
    BY <1>i, <2>1, <2>3 DEF CountInv, CountsEarned
<1>8. ASSUME RecoverEnds PROVE CountInv'
  <2>1. /\ poisonBlocks' = [n \in Blocks |-> IF n > rollback.fork THEN 0 ELSE poisonBlocks[n]]
        /\ cleanRun' = [n \in Blocks |-> IF n > rollback.fork THEN 0 ELSE cleanRun[n]]
    BY <1>8 DEF RecoverEnds, ClearAbove
  <2>2. /\ poisonBlocks' \in [Blocks -> 0 .. QuarantineAfter]
        /\ cleanRun' \in [Blocks -> 0 .. QuarantineAfter]
    BY <1>i, <2>1
  <2>3. \A n \in Blocks : \/ poisonBlocks'[n] = 0
                          \/ poisonBlocks'[n] = poisonBlocks[n] /\ cleanRun'[n] = cleanRun[n]
    BY <2>1
  <2>. QED
    BY <1>4, <2>2, <2>3, Zenon
<1>9. ASSUME IndexerCrash PROVE CountInv'
  BY <1>9, <1>i DEF IndexerCrash, CountInv, CountsEarned, None
<1>10. ASSUME \/ ChainGrows \/ ClaimNext \/ \E n \in Blocks : BlockWrites(n)
              \/ ResumeIndexing \/ AbandonRange \/ AbandonRangeBelowW \/ StartBatch
              \/ \E f \in 0 .. MaxBlock - 1 : DetectReorg(f)
              \/ RecoverStep \/ RecoverFails \/ WriterStep \/ UNCHANGED allVars
       PROVE  CountInv'
  BY <1>10, <1>1
  DEF ChainGrows, ClaimNext, BlockWrites, ResumeIndexing, AbandonRange, AbandonRangeBelowW,
      StartBatch, DetectReorg, RecoverStep, RecoverFails, WriterStep, allVars, indexerVars
<1>. QED
  BY <1>2, <1>3, <1>5, <1>6, <1>7, <1>8, <1>9, <1>10 DEF IndexerNext, WorkerStep, LoopStep

(* Only the quarantine of the blocker adds a poison row.                    *)
LEMMA PoisonOnlyAtBlocker ==
  ASSUME [IndexerNext]_allVars, ~QuarantineBlocker
  PROVE  poison_blocks' \subseteq poison_blocks
<1>1. ASSUME RecoverStep \/ RecoverEnds \/ RecoverFails PROVE poison_blocks' \subseteq poison_blocks
  BY <1>1
  DEF RecoverStep, RecoverEnds, RecoverFails, RollbackPurges, RollbackPersists,
      RollbackPersistFails, UnwindPoison, UnwindTransfers, UnwindBlocks, UnwindFails, dbVars
<1>. QED
  BY <1>1, WriterQuiet
  DEF IndexerNext, ChainGrows, WorkerStep, ClaimNext, BlockWrites, BlockDone, BlockFailsClean,
      BlockFailsDirty, EnqueueTransferWrite, LoopStep, ResumeIndexing, InitTransferWriter,
      AbandonRange, SetDurableFloor, AbandonRangeBelowW, StartBatch, RefuseQuarantine, RetryBatch,
      DetectReorg, RollbackBegins, IndexerCrash, Crash, allVars, vars, dbVars

(* A height is quarantined only after QuarantineAfter clean failures in a   *)
(* row of the block that is now there, whatever was retried, unwound or     *)
(* restarted in between.                                                    *)
THEOREM QuarantineIsEarned == IndexerSpec => QuarantineEarned
<1>1. CountInv /\ [IndexerNext]_allVars
        => [\A n \in poison_blocks' \ poison_blocks : cleanRun[n] >= QuarantineAfter]_allVars
  <2>. SUFFICES ASSUME CountInv, [IndexerNext]_allVars,
                       NEW n \in poison_blocks', n \notin poison_blocks
                PROVE  cleanRun[n] >= QuarantineAfter
    OBVIOUS
  <2>1. QuarantineBlocker
    BY PoisonOnlyAtBlocker
  <2>2. n = Blocker /\ n \in Blocks /\ poisonBlocks[n] >= QuarantineAfter
    BY <2>1 DEF QuarantineBlocker, Candidate, EnqueueQuarantinedBlock
  <2>3. poisonBlocks[n] <= cleanRun[n] /\ poisonBlocks[n] \in Int /\ cleanRun[n] \in Int
    BY <2>2 DEF CountInv, CountsEarned
  <2>. QED
    BY <2>2, <2>3, LoopAssumption
<1>. QED
  BY <1>1, CountInit, CountStep, PTL DEF IndexerSpec, QuarantineEarned

=============================================================================
