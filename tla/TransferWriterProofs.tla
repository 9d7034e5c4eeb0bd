------------------------ MODULE TransferWriterProofs ------------------------
(***************************************************************************)
(* Theorems about TransferWriter, for every number of heights and unwinds   *)
(* and every row count.                                                     *)
(***************************************************************************)
EXTENDS TransferWriter, FiniteSetTheorems, WellFoundedInduction, TLAPS

(* The operations on the queue keep it a queue.                             *)
LEMMA QueuePut ==
  ASSUME NEW q, IsQueue(q), NEW n \in Blocks, NEW b \in Batch
  PROVE  IsQueue(Put(q, n, b))
BY DEF IsQueue, Put

LEMMA QueueMerged ==
  ASSUME NEW p, NEW q, IsQueue(p), IsQueue(q)
  PROVE  IsQueue(Merged(p, q))
BY DEF IsQueue, Merged

LEMMA QueueEmpty == IsQueue(NoQueue)
BY DEF IsQueue, NoQueue

LEMMA QueueRestrict ==
  ASSUME NEW q, IsQueue(q), NEW S, S \subseteq DOMAIN q
  PROVE  IsQueue(Restrict(q, S))
BY DEF IsQueue, Restrict

-----------------------------------------------------------------------------
(* The inductive invariant.                                                 *)

Purged    == rollback.phase \in Phases \ {"none", "quiesce"}
Unwinding == rollback.phase \in Phases \ {"none", "quiesce", "persist"}

(* A queued real decode is of the chain the indexer now has, a queued       *)
(* quarantine is recorded.                                                  *)
Current(q) == \A n \in DOMAIN q : IF q[n].quarantine THEN n \in poison_blocks
                                  ELSE q[n].version = version[n]
QueuesCurrent == Current(transferPending) /\ Current(drained)

(* A drainer that is not writing or persisting holds nothing.               *)
DrainerIdle ==
  /\ writer \in {"idle", "backoff"} => drained = NoQueue
  /\ writer # "persist" => newDurable = 0

(* Everything the process counts as durable is accounted for.               *)
MemorySound ==
  /\ \A n \in transferWritten : Accounted(n)
  /\ \A n \in 1 .. durableBlock : Accounted(n)
  /\ \A n \in 1 .. newDurable : Accounted(n)

(* From the purge to the end of the unwind the writer knows of no height    *)
(* above the fork.                                                          *)
WriterBelowFork ==
  Purged => /\ \A n \in DOMAIN transferPending \cup DOMAIN drained : n <= rollback.fork
            /\ \A n \in transferWritten : n <= rollback.fork
            /\ durableBlock <= rollback.fork
            /\ newDurable <= rollback.fork

(* While rows are taken back, W claims only excused heights above the fork. *)
RewoundFirst ==
  Unwinding => \A n \in rollback.fork + 1 .. transfers_durable_block :
                 excuse[n] # "none"

PausedInRollback ==
  /\ rollback.phase \in {"quiesce", "persist"} => transferWriterPaused
  /\ rollback.phase = "persist" => writer = "idle" /\ durableBlock = rollback.fork
  /\ rollback.phase # "none" => transferWriterSeeded

VersionsLeft ==
  rollback.phase \in Phases \ {"none", "unwindBlocks"} =>
    \A n \in Blocks : n > rollback.fork => version[n] < MaxVersion

(* What the writer keeps whatever it is seeded with and whoever inserts the *)
(* rows of blocks ...                                                       *)
WriterInv ==
  /\ TypeOK
  /\ QueuesCurrent
  /\ DrainerIdle
  /\ WriterBelowFork
  /\ PausedInRollback
  /\ VersionsLeft
  /\ NoOrphanRows

(* ... and what it keeps only where it is seeded with the stored watermark. *)
AccountInv == MemorySound /\ RewoundFirst /\ WatermarkSound

IInv == WriterInv /\ AccountInv

-----------------------------------------------------------------------------
(* What taking the queue does to it, whoever calls the drainer.             *)

(* Entries of the queue and of the drainer afterwards come from q or from   *)
(* the batch the drainer already held.                                      *)
Taken(q) ==
  /\ IsQueue(transferPending') /\ IsQueue(drained')
  /\ \A n \in DOMAIN transferPending' :
       n \in DOMAIN q /\ transferPending'[n] = q[n]
  /\ \A n \in DOMAIN drained' :
       \/ n \in DOMAIN q /\ drained'[n] = q[n]
       \/ n \in DOMAIN drained /\ drained'[n] = drained[n]

LEMMA LoopHeadTakes ==
  ASSUME NEW STATE q, NEW STATE rows, NEW STATE paused,
         IsQueue(q), LoopHead(q, rows, paused)
  PROVE  /\ Taken(q)
         /\ writer' \in {"idle", "write"}
         /\ writer' = "idle" => drained' = NoQueue
         /\ writer' = "idle" => paused \/ DOMAIN transferPending' = {}
<1>1. CASE ~paused /\ DOMAIN q # {}
  <2>1. /\ drained' = q
        /\ transferPending' = NoQueue
        /\ writer' = "write"
    BY <1>1 DEF LoopHead
  <2>2. DOMAIN NoQueue = {}
    BY DEF NoQueue
  <2> QED
    BY <2>1, <2>2, QueueEmpty DEF Taken
<1>2. CASE ~(~paused /\ DOMAIN q # {})
  <2>1. /\ drained' = NoQueue
        /\ transferPending' = q
        /\ writer' = "idle"
    BY <1>2 DEF LoopHead
  <2>2. DOMAIN NoQueue = {}
    BY DEF NoQueue
  <2> QED
    BY <1>2, <2>1, <2>2, QueueEmpty DEF Taken
<1> QED
  BY <1>1, <1>2

LEMMA RunTakes ==
  ASSUME NEW STATE q, NEW STATE rows, NEW STATE seeded, NEW STATE paused,
         IsQueue(q), IsQueue(drained),
         RunTransferWriter(q, rows, seeded, paused)
  PROVE  /\ Taken(q)
         /\ writer' \in {"idle", "write", writer}
         /\ writer # "idle" => writer' = writer /\ drained' = drained
         /\ writer' = "idle" /\ writer = "idle" => drained' \in {NoQueue, drained}
         /\ ~seeded \/ paused => writer' = writer /\ drained' = drained
         /\ \/ writer' # "idle"
            \/ ~seeded \/ paused
            \/ DOMAIN transferPending' = {}
<1>1. CASE seeded /\ ~paused /\ writer = "idle"
  <2>1. LoopHead(q, rows, paused)
    BY <1>1 DEF RunTransferWriter
  <2> QED
    BY <1>1, <2>1, LoopHeadTakes
<1>2. CASE ~(seeded /\ ~paused /\ writer = "idle")
  <2>1. /\ transferPending' = q
        /\ UNCHANGED <<writer, drained>>
    BY <1>2 DEF RunTransferWriter
  <2> QED
    BY <1>2, <2>1 DEF Taken
<1> QED
  BY <1>1, <1>2

-----------------------------------------------------------------------------
(* Every step preserves the invariant: one lemma per action, one step per   *)
(* group of conjuncts.                                                      *)

LEMMA InitInv == Init => IInv
<1> SUFFICES ASSUME Init PROVE IInv
  OBVIOUS
<1> USE DEF Init
<1>1. IsQueue(transferPending) /\ IsQueue(drained)
  BY QueueEmpty
<1>2. 0 \in Heights /\ 0 \in Versions
  BY BoundsAssumption DEF Heights, Versions
<1>3. rollback \in [phase : Phases, fork : Heights]
  BY <1>2 DEF NoRollback, Phases
<1>4. /\ token_transfers \in [Blocks -> Versions \cup {NoRows}]
      /\ version \in [Blocks -> Versions]
      /\ excuse \in [Blocks -> Excuses]
  BY <1>2 DEF Excuses
<1>5. TypeOK
  BY <1>1, <1>2, <1>3, <1>4 DEF TypeOK
<1>6. rollback.phase = "none"
  BY DEF NoRollback
<1>7. DOMAIN NoQueue = {}
  BY DEF NoQueue
<1> QED
  BY <1>5, <1>6, <1>7 DEF IInv, WriterInv, AccountInv, QueuesCurrent, Current, DrainerIdle, MemorySound,
     WriterBelowFork, RewoundFirst, PausedInRollback, VersionsLeft, NoOrphanRows,
     WatermarkSound, Purged, Unwinding, Phases

LEMMA TakenCurrent ==
  ASSUME NEW STATE q, Taken(q), Current(q), Current(drained),
         poison_blocks \subseteq poison_blocks', UNCHANGED version
  PROVE  Current(transferPending)' /\ Current(drained)'
<1>1. ASSUME NEW n \in DOMAIN transferPending'
      PROVE  IF transferPending'[n].quarantine THEN n \in poison_blocks'
             ELSE transferPending'[n].version = version'[n]
  BY <1>1 DEF Taken, Current
<1>2. ASSUME NEW n \in DOMAIN drained'
      PROVE  IF drained'[n].quarantine THEN n \in poison_blocks'
             ELSE drained'[n].version = version'[n]
  BY <1>2 DEF Taken, Current
<1> QED
  BY <1>1, <1>2 DEF Current

LEMMA FloorPersistFailsInv ==
  ASSUME WriterInv, NEW b \in Blocks, FloorPersistFails(b)
  PROVE  WriterInv' /\ (AccountInv => AccountInv')
<1> USE DEF WriterInv, AccountInv, FloorPersistFails, queueVars, drainVars, floorVars,
     flagVars, dbVars, history
<1>1. TypeOK'
  BY BoundsAssumption DEF TypeOK, IsQueue, Blocks, Heights, Versions, Excuses,
     NoRows, Phases
<1>2. (QueuesCurrent /\ DrainerIdle)'
  BY BoundsAssumption DEF QueuesCurrent, Current, DrainerIdle, TypeOK,
     IsQueue, WriterBelowFork, Purged, Phases
<1>3. AccountInv => MemorySound'
  BY BoundsAssumption DEF MemorySound, Accounted, Settled, TypeOK, Excuses,
     Heights, Blocks, WriterBelowFork, Purged, Phases
<1>4. WriterBelowFork' /\ (AccountInv => RewoundFirst')
  BY BoundsAssumption DEF WriterBelowFork, RewoundFirst, Purged, Unwinding,
     Phases, TypeOK, Excuses, Heights, Blocks
<1>5. (PausedInRollback /\ VersionsLeft)'
  BY DEF PausedInRollback, VersionsLeft, Phases, TypeOK
<1>6. NoOrphanRows' /\ (AccountInv => WatermarkSound')
  BY BoundsAssumption DEF NoOrphanRows, WatermarkSound, MemorySound,
     Accounted, Settled, TypeOK, Excuses, Heights, Blocks, RewoundFirst,
     Unwinding, Phases
<1> QED
  BY <1>1, <1>2, <1>3, <1>4, <1>5, <1>6 DEF WriterInv, AccountInv

(* An excuse is noted for some heights, the others keep theirs.             *)
LEMMA ExcusedType ==
  ASSUME excuse \in [Blocks -> Excuses], NEW S, NEW why \in Excuses
  PROVE  Excused(S, why) \in [Blocks -> Excuses]
  BY DEF Excused

LEMMA FloorPersistLandsInv ==
  ASSUME WriterInv, NEW b \in Blocks, FloorPersistLands(b)
  PROVE  WriterInv' /\ (AccountInv => AccountInv')
<1> USE DEF WriterInv, AccountInv, FloorPersistLands, queueVars, drainVars, floorVars,
     flagVars, Excused
<1>1. TypeOK'
  <2> HIDE DEF WriterInv
  <2>1. TypeOK
    BY DEF WriterInv
  <2> HIDE DEF Excused
  <2>2. excuse' \in [Blocks -> Excuses]
    <3>1. /\ excuse \in [Blocks -> Excuses]
          /\ "floor" \in Excuses
      BY <2>1 DEF TypeOK, Excuses
    <3>2. excuse' = Excused(durableBlock + 1 .. b, "floor")
      OBVIOUS
    <3> QED
      BY <3>1, <3>2, ExcusedType
  <2>3. /\ floorPersists' \subseteq Blocks
        /\ transfers_durable_block' \in Heights
    BY <2>1, BoundsAssumption DEF TypeOK, Blocks, Heights
  <2>4. UNCHANGED <<transferPending, transferWritten, durableBlock,
                    transferWriterSeeded, transferWriterPaused, writer,
                    drained, newDurable, rollback, token_transfers,
                    poison_blocks, blocks, version>>
    OBVIOUS
  <2> HIDE DEF FloorPersistLands
  <2> QED
    BY <2>1, <2>2, <2>3, <2>4 DEF TypeOK, IsQueue
<1>2. (QueuesCurrent /\ DrainerIdle)'
  BY BoundsAssumption DEF QueuesCurrent, Current, DrainerIdle, TypeOK,
     IsQueue, WriterBelowFork, Purged, Phases
<1>3. AccountInv => MemorySound'
  BY BoundsAssumption DEF MemorySound, Accounted, Settled, TypeOK, Excuses,
     Heights, Blocks, WriterBelowFork, Purged, Phases
<1>4. WriterBelowFork' /\ (AccountInv => RewoundFirst')
  BY BoundsAssumption DEF WriterBelowFork, RewoundFirst, Purged, Unwinding,
     Phases, TypeOK, Excuses, Heights, Blocks
<1>5. (PausedInRollback /\ VersionsLeft)'
  BY DEF PausedInRollback, VersionsLeft, Phases, TypeOK
<1>6. NoOrphanRows' /\ (AccountInv => WatermarkSound')
  BY BoundsAssumption DEF NoOrphanRows, WatermarkSound, MemorySound,
     Accounted, Settled, TypeOK, Excuses, Heights, Blocks, RewoundFirst,
     Unwinding, Phases
<1> QED
  BY <1>1, <1>2, <1>3, <1>4, <1>5, <1>6 DEF WriterInv, AccountInv

LEMMA SetDurableFloorInv ==
  ASSUME WriterInv, NEW b \in Blocks, SetDurableFloor(b)
  PROVE  WriterInv' /\ (AccountInv => AccountInv')
<1> USE DEF WriterInv, AccountInv, SetDurableFloor, queueVars, drainVars, flagVars, dbVars,
     Excused, Above
<1>1. TypeOK'
  <2> HIDE DEF WriterInv
  <2>1. TypeOK
    BY DEF WriterInv
  <2> HIDE DEF Excused
  <2>2. excuse' \in [Blocks -> Excuses]
    <3>1. /\ excuse \in [Blocks -> Excuses]
          /\ "floor" \in Excuses
      BY <2>1 DEF TypeOK, Excuses
    <3>2. excuse' = Excused({n \in durableBlock + 1 .. b : ~Settled(n)}, "floor")
      OBVIOUS
    <3> QED
      BY <3>1, <3>2, ExcusedType
  <2> QED
    BY <2>1, <2>2, BoundsAssumption, SMTT(30)
    DEF TypeOK, IsQueue, Blocks, Heights, Versions, NoRows, Phases
<1>2. (QueuesCurrent /\ DrainerIdle)'
  BY BoundsAssumption DEF QueuesCurrent, Current, DrainerIdle, TypeOK,
     IsQueue, WriterBelowFork, Purged, Phases
<1>3. AccountInv => MemorySound'
  BY BoundsAssumption DEF MemorySound, Accounted, Settled, TypeOK, Excuses,
     Heights, Blocks, WriterBelowFork, Purged, Phases
<1>4. WriterBelowFork' /\ (AccountInv => RewoundFirst')
  BY BoundsAssumption DEF WriterBelowFork, RewoundFirst, Purged, Unwinding,
     Phases, TypeOK, Excuses, Heights, Blocks
<1>5. (PausedInRollback /\ VersionsLeft)'
  BY DEF PausedInRollback, VersionsLeft, Phases, TypeOK
<1>6. NoOrphanRows' /\ (AccountInv => WatermarkSound')
  BY BoundsAssumption DEF NoOrphanRows, WatermarkSound, MemorySound,
     Accounted, Settled, TypeOK, Excuses, Heights, Blocks, RewoundFirst,
     Unwinding, Phases
<1> QED
  BY <1>1, <1>2, <1>3, <1>4, <1>5, <1>6 DEF WriterInv, AccountInv

LEMMA OtherGenerationWritesInv ==
  ASSUME WriterInv, NEW n \in Blocks, OtherGenerationWrites(n)
  PROVE  WriterInv' /\ (AccountInv => AccountInv')
<1> USE DEF WriterInv, AccountInv, OtherGenerationWrites, memoryVars, queueVars, drainVars,
     floorVars, flagVars, MayTouch
<1>1. TypeOK'
  BY BoundsAssumption DEF TypeOK, IsQueue, Blocks, Heights, Versions, Excuses,
     NoRows, Phases
<1>2. (QueuesCurrent /\ DrainerIdle)'
  BY BoundsAssumption DEF QueuesCurrent, Current, DrainerIdle, TypeOK,
     IsQueue, WriterBelowFork, Purged, Phases
<1>3. AccountInv => MemorySound'
  BY BoundsAssumption DEF MemorySound, Accounted, Settled, TypeOK, Excuses,
     Heights, Blocks, WriterBelowFork, Purged, Phases
<1>4. WriterBelowFork' /\ (AccountInv => RewoundFirst')
  BY BoundsAssumption DEF WriterBelowFork, RewoundFirst, Purged, Unwinding,
     Phases, TypeOK, Excuses, Heights, Blocks
<1>5. (PausedInRollback /\ VersionsLeft)'
  BY DEF PausedInRollback, VersionsLeft, Phases, TypeOK
<1>6. NoOrphanRows' /\ (AccountInv => WatermarkSound')
  BY BoundsAssumption DEF NoOrphanRows, WatermarkSound, MemorySound,
     Accounted, Settled, TypeOK, Excuses, Heights, Blocks, RewoundFirst,
     Unwinding, Phases
<1> QED
  BY <1>1, <1>2, <1>3, <1>4, <1>5, <1>6 DEF WriterInv, AccountInv

LEMMA RollbackBeginsInv ==
  ASSUME WriterInv, NEW f \in 0 .. MaxBlock - 1, RollbackBegins(f)
  PROVE  WriterInv' /\ (AccountInv => AccountInv')
<1> USE DEF WriterInv, AccountInv, RollbackBegins, queueVars, drainVars, floorVars, dbVars,
     history
<1>1. TypeOK'
  <2> HIDE DEF WriterInv
  <2>1. TypeOK
    BY DEF WriterInv
  <2> QED
    BY <2>1, BoundsAssumption, SMTT(30)
    DEF TypeOK, IsQueue, Blocks, Heights, Versions, Excuses, NoRows, Phases
<1>2. (QueuesCurrent /\ DrainerIdle)'
  BY BoundsAssumption DEF QueuesCurrent, Current, DrainerIdle, TypeOK,
     IsQueue, WriterBelowFork, Purged, Phases
<1>3. AccountInv => MemorySound'
  BY BoundsAssumption DEF MemorySound, Accounted, Settled, TypeOK, Excuses,
     Heights, Blocks, WriterBelowFork, Purged, Phases
<1>4. WriterBelowFork' /\ (AccountInv => RewoundFirst')
  BY BoundsAssumption DEF WriterBelowFork, RewoundFirst, Purged, Unwinding,
     Phases, TypeOK, Excuses, Heights, Blocks
<1>5. (PausedInRollback /\ VersionsLeft)'
  BY DEF PausedInRollback, VersionsLeft, Phases, TypeOK
<1>6. NoOrphanRows' /\ (AccountInv => WatermarkSound')
  BY BoundsAssumption DEF NoOrphanRows, WatermarkSound, MemorySound,
     Accounted, Settled, TypeOK, Excuses, Heights, Blocks, RewoundFirst,
     Unwinding, Phases
<1> QED
  BY <1>1, <1>2, <1>3, <1>4, <1>5, <1>6 DEF WriterInv, AccountInv

LEMMA UnwindPoisonInv ==
  ASSUME WriterInv, UnwindPoison
  PROVE  WriterInv' /\ (AccountInv => AccountInv')
<1> USE DEF WriterInv, AccountInv, UnwindPoison, queueVars, drainVars, floorVars, flagVars,
     history, Above
<1>0. \A n \in DOMAIN transferPending \cup DOMAIN drained :
        n \in Blocks /\ ~(n > rollback.fork)
  BY DEF WriterBelowFork, Purged, Phases, TypeOK, IsQueue, Blocks, Heights
<1>1. TypeOK'
  BY BoundsAssumption DEF TypeOK, IsQueue, Blocks, Heights, Versions, Excuses,
     NoRows, Phases
<1>2. (QueuesCurrent /\ DrainerIdle)'
  BY BoundsAssumption, <1>0 DEF QueuesCurrent, Current, DrainerIdle, TypeOK,
     IsQueue, WriterBelowFork, Purged, Phases
<1>3. AccountInv => MemorySound'
  BY BoundsAssumption DEF MemorySound, Accounted, Settled, TypeOK, Excuses,
     Heights, Blocks, WriterBelowFork, Purged, Phases
<1>4. WriterBelowFork' /\ (AccountInv => RewoundFirst')
  BY BoundsAssumption DEF WriterBelowFork, RewoundFirst, Purged, Unwinding,
     Phases, TypeOK, Excuses, Heights, Blocks
<1>5. (PausedInRollback /\ VersionsLeft)'
  BY DEF PausedInRollback, VersionsLeft, Phases, TypeOK
<1>6. NoOrphanRows' /\ (AccountInv => WatermarkSound')
  BY BoundsAssumption DEF NoOrphanRows, WatermarkSound, MemorySound,
     Accounted, Settled, TypeOK, Excuses, Heights, Blocks, RewoundFirst,
     Unwinding, Phases
<1> QED
  BY <1>1, <1>2, <1>3, <1>4, <1>5, <1>6 DEF WriterInv, AccountInv

LEMMA UnwindTransfersInv ==
  ASSUME WriterInv, UnwindTransfers
  PROVE  WriterInv' /\ (AccountInv => AccountInv')
<1> USE DEF WriterInv, AccountInv, UnwindTransfers, queueVars, drainVars, floorVars, flagVars
<1>0. \A n \in DOMAIN transferPending \cup DOMAIN drained :
        n \in Blocks /\ ~(n > rollback.fork)
  BY DEF WriterBelowFork, Purged, Phases, TypeOK, IsQueue, Blocks, Heights
<1>1. TypeOK'
  <2>1. version' \in [Blocks -> Versions]
    BY BoundsAssumption DEF TypeOK, Blocks, Heights, Versions, Phases, VersionsLeft
  <2>2. token_transfers' \in [Blocks -> Versions \cup {NoRows}]
    BY DEF TypeOK
  <2>3. rollback' \in [phase : Phases, fork : Heights]
    BY DEF TypeOK, Phases
  <2> QED
    BY <2>1, <2>2, <2>3 DEF TypeOK, IsQueue
<1>2. (QueuesCurrent /\ DrainerIdle)'
  BY BoundsAssumption, <1>0 DEF QueuesCurrent, Current, DrainerIdle, TypeOK,
     IsQueue, WriterBelowFork, Purged, Phases, Blocks
<1>3. AccountInv => MemorySound'
  BY BoundsAssumption DEF MemorySound, Accounted, Settled, TypeOK, Excuses,
     Heights, Blocks, WriterBelowFork, Purged, Phases
<1>4. WriterBelowFork' /\ (AccountInv => RewoundFirst')
  BY BoundsAssumption DEF WriterBelowFork, RewoundFirst, Purged, Unwinding,
     Phases, TypeOK, Excuses, Heights, Blocks
<1>5. (PausedInRollback /\ VersionsLeft)'
  BY DEF PausedInRollback, VersionsLeft, Phases, TypeOK
<1>6. NoOrphanRows' /\ (AccountInv => WatermarkSound')
  BY BoundsAssumption DEF NoOrphanRows, WatermarkSound, MemorySound,
     Accounted, Settled, TypeOK, Excuses, Heights, Blocks, RewoundFirst,
     Unwinding, Phases
<1> QED
  BY <1>1, <1>2, <1>3, <1>4, <1>5, <1>6 DEF WriterInv, AccountInv

LEMMA UnwindBlocksInv ==
  ASSUME WriterInv, UnwindBlocks
  PROVE  WriterInv' /\ (AccountInv => AccountInv')
<1> USE DEF WriterInv, AccountInv, UnwindBlocks, queueVars, drainVars, floorVars, flagVars,
     history, Above, NoRollback
<1>1. TypeOK'
  BY BoundsAssumption DEF TypeOK, IsQueue, Blocks, Heights, Versions, Excuses,
     NoRows, Phases
<1>2. (QueuesCurrent /\ DrainerIdle)'
  BY BoundsAssumption DEF QueuesCurrent, Current, DrainerIdle, TypeOK,
     IsQueue, WriterBelowFork, Purged, Phases
<1>3. AccountInv => MemorySound'
  BY BoundsAssumption DEF MemorySound, Accounted, Settled, TypeOK, Excuses,
     Heights, Blocks, WriterBelowFork, Purged, Phases
<1>4. WriterBelowFork' /\ (AccountInv => RewoundFirst')
  BY BoundsAssumption DEF WriterBelowFork, RewoundFirst, Purged, Unwinding,
     Phases, TypeOK, Excuses, Heights, Blocks
<1>5. (PausedInRollback /\ VersionsLeft)'
  BY DEF PausedInRollback, VersionsLeft, Phases, TypeOK
<1>6. NoOrphanRows' /\ (AccountInv => WatermarkSound')
  BY BoundsAssumption DEF NoOrphanRows, WatermarkSound, MemorySound,
     Accounted, Settled, TypeOK, Excuses, Heights, Blocks, RewoundFirst,
     Unwinding, Phases
<1> QED
  BY <1>1, <1>2, <1>3, <1>4, <1>5, <1>6 DEF WriterInv, AccountInv

LEMMA UnwindFailsInv ==
  ASSUME WriterInv, UnwindFails
  PROVE  WriterInv' /\ (AccountInv => AccountInv')
<1> USE DEF WriterInv, AccountInv, UnwindFails, queueVars, drainVars, floorVars, flagVars,
     dbVars, history, NoRollback
<1>1. TypeOK'
  BY BoundsAssumption DEF TypeOK, IsQueue, Blocks, Heights, Versions, Excuses,
     NoRows, Phases
<1>2. (QueuesCurrent /\ DrainerIdle)'
  BY BoundsAssumption DEF QueuesCurrent, Current, DrainerIdle, TypeOK,
     IsQueue, WriterBelowFork, Purged, Phases
<1>3. AccountInv => MemorySound'
  BY BoundsAssumption DEF MemorySound, Accounted, Settled, TypeOK, Excuses,
     Heights, Blocks, WriterBelowFork, Purged, Phases
<1>4. WriterBelowFork' /\ (AccountInv => RewoundFirst')
  BY BoundsAssumption DEF WriterBelowFork, RewoundFirst, Purged, Unwinding,
     Phases, TypeOK, Excuses, Heights, Blocks
<1>5. (PausedInRollback /\ VersionsLeft)'
  BY DEF PausedInRollback, VersionsLeft, Phases, TypeOK
<1>6. NoOrphanRows' /\ (AccountInv => WatermarkSound')
  BY BoundsAssumption DEF NoOrphanRows, WatermarkSound, MemorySound,
     Accounted, Settled, TypeOK, Excuses, Heights, Blocks, RewoundFirst,
     Unwinding, Phases
<1> QED
  BY <1>1, <1>2, <1>3, <1>4, <1>5, <1>6 DEF WriterInv, AccountInv

LEMMA CrashInv ==
  ASSUME WriterInv, Crash
  PROVE  WriterInv' /\ (AccountInv => AccountInv')
<1> USE DEF WriterInv, AccountInv, Crash, dbVars, history, NoRollback
<1>0. IsQueue(NoQueue) /\ DOMAIN NoQueue = {} /\ 0 \in Heights
  BY QueueEmpty, BoundsAssumption DEF NoQueue, Heights
<1>1. TypeOK'
  BY BoundsAssumption, <1>0 DEF TypeOK, IsQueue, Blocks, Heights, Versions,
     Excuses, NoRows, Phases
<1>2. (QueuesCurrent /\ DrainerIdle)'
  BY BoundsAssumption, <1>0 DEF QueuesCurrent, Current, DrainerIdle, TypeOK,
     IsQueue, WriterBelowFork, Purged, Phases
<1>3. AccountInv => MemorySound'
  BY BoundsAssumption DEF MemorySound, Accounted, Settled, TypeOK, Excuses,
     Heights, Blocks, WriterBelowFork, Purged, Phases
<1>4. WriterBelowFork' /\ (AccountInv => RewoundFirst')
  BY BoundsAssumption DEF WriterBelowFork, RewoundFirst, Purged, Unwinding,
     Phases, TypeOK, Excuses, Heights, Blocks
<1>5. (PausedInRollback /\ VersionsLeft)'
  BY DEF PausedInRollback, VersionsLeft, Phases, TypeOK
<1>6. NoOrphanRows' /\ (AccountInv => WatermarkSound')
  BY BoundsAssumption DEF NoOrphanRows, WatermarkSound, MemorySound,
     Accounted, Settled, TypeOK, Excuses, Heights, Blocks, RewoundFirst,
     Unwinding, Phases
<1> QED
  BY <1>1, <1>2, <1>3, <1>4, <1>5, <1>6 DEF WriterInv, AccountInv

LEMMA EnqueueTransferWriteInv ==
  ASSUME WriterInv, NEW n \in Blocks, EnqueueTransferWrite(n)
  PROVE  WriterInv' /\ (AccountInv => AccountInv')
<1> USE DEF WriterInv, AccountInv, EnqueueTransferWrite, floorVars, flagVars, history, MayTouch
<1> DEFINE q == Put(transferPending, n, RealBatch(n, version[n]))
<1>a. IsQueue(q)
  <2>1. RealBatch(n, version[n]) \in Batch
    BY RowCountAssumption DEF RealBatch, Batch, TypeOK
  <2> QED
    BY <2>1, QueuePut DEF TypeOK
<1>b. /\ Taken(q)
      /\ writer' \in {"idle", "write", writer}
      /\ writer # "idle" => writer' = writer
      /\ writer' \in {"idle", "backoff"} => drained' = NoQueue
      /\ transferWriterPaused => writer' = writer
  BY <1>a, RunTakes DEF DrainerIdle, TypeOK
<1>c. \A m \in DOMAIN q :
        \/ m = n /\ ~q[m].quarantine /\ q[m].version = version[m]
        \/ m \in DOMAIN transferPending /\ q[m] = transferPending[m]
  BY DEF Put, RealBatch
<1>1. TypeOK'
  BY BoundsAssumption, <1>a, <1>b, <1>c DEF TypeOK, IsQueue, Blocks, Heights,
     Versions, Excuses, NoRows, Phases, Taken
<1>2. (QueuesCurrent /\ DrainerIdle)'
  <2>1. Current(q)
    <3>1. Current(transferPending)
      BY DEF QueuesCurrent
    <3>2. ASSUME NEW m \in DOMAIN q
          PROVE  IF q[m].quarantine THEN m \in poison_blocks
                 ELSE q[m].version = version[m]
      BY <1>c, <3>1, <3>2 DEF Current
    <3> QED
      BY <3>2 DEF Current
  <2>2. Current(transferPending)' /\ Current(drained)'
    BY <1>b, <2>1, TakenCurrent DEF QueuesCurrent
  <2>3. DrainerIdle'
    BY <1>b DEF DrainerIdle
  <2> QED
    BY <2>2, <2>3 DEF QueuesCurrent
<1>3. AccountInv => MemorySound'
  BY BoundsAssumption DEF MemorySound, Accounted, Settled, TypeOK, Excuses,
     Heights, Blocks, WriterBelowFork, Purged, Phases
<1>4. WriterBelowFork' /\ (AccountInv => RewoundFirst')
  BY BoundsAssumption, <1>a, <1>b, <1>c DEF WriterBelowFork, RewoundFirst,
     Purged, Unwinding, Phases, TypeOK, Excuses, Heights, Blocks, Taken,
     IsQueue
<1>5. (PausedInRollback /\ VersionsLeft)'
  BY <1>a, <1>b, <1>c DEF PausedInRollback, VersionsLeft, Phases, TypeOK
<1>6. NoOrphanRows' /\ (AccountInv => WatermarkSound')
  BY BoundsAssumption DEF NoOrphanRows, WatermarkSound, MemorySound,
     Accounted, Settled, TypeOK, Excuses, Heights, Blocks, RewoundFirst,
     Unwinding, Phases
<1> QED
  BY <1>1, <1>2, <1>3, <1>4, <1>5, <1>6 DEF WriterInv, AccountInv

(* Another quarantine makes nothing unaccounted for.                        *)
LEMMA SoundKept ==
  ASSUME UNCHANGED <<token_transfers, version, excuse, transfers_durable_block>>,
         poison_blocks \subseteq poison_blocks'
  PROVE  (NoOrphanRows => NoOrphanRows') /\ (WatermarkSound => WatermarkSound')
BY DEF NoOrphanRows, WatermarkSound, Accounted, Settled

LEMMA EnqueueQuarantinedBlockInv ==
  ASSUME WriterInv, NEW n \in Blocks, EnqueueQuarantinedBlock(n)
  PROVE  WriterInv' /\ (AccountInv => AccountInv')
<1> USE DEF WriterInv, AccountInv, EnqueueQuarantinedBlock, queueVars, floorVars, flagVars,
     history
<1> DEFINE q == Put(transferPending, n, QuarantineBatch)
<1>a. IsQueue(q)
  <2>1. QuarantineBatch \in Batch
    BY BoundsAssumption DEF QuarantineBatch, Batch, Versions
  <2> QED
    BY <2>1, QueuePut DEF TypeOK
<1>b. /\ Taken(q) \/ Taken(transferPending)
      /\ writer' \in {"idle", "write", writer}
      /\ writer # "idle" => writer' = writer
      /\ writer' \in {"idle", "backoff"} => drained' = NoQueue
      /\ transferWriterPaused => writer' = writer
  <2>1. CASE n \in DOMAIN transferPending /\ ~transferPending[n].quarantine
    BY <2>1 DEF Taken, TypeOK, DrainerIdle
  <2>2. CASE ~(n \in DOMAIN transferPending /\ ~transferPending[n].quarantine)
    BY <1>a, <2>2, RunTakes DEF DrainerIdle, TypeOK
  <2> QED
    BY <2>1, <2>2
<1>c. \A m \in DOMAIN q :
        \/ m = n /\ q[m].quarantine
        \/ m \in DOMAIN transferPending /\ q[m] = transferPending[m]
  BY DEF Put, QuarantineBatch
<1>1. TypeOK'
  BY BoundsAssumption, <1>a, <1>b, <1>c DEF TypeOK, IsQueue, Blocks, Heights,
     Versions, Excuses, NoRows, Phases, Taken
<1>2. (QueuesCurrent /\ DrainerIdle)'
  <2>1. ASSUME NEW m \in DOMAIN q
        PROVE  IF q[m].quarantine THEN m \in poison_blocks'
               ELSE q[m].version = version[m]
    BY <1>c, <2>1 DEF Current, QueuesCurrent
  <2>2. ASSUME NEW m \in DOMAIN transferPending'
        PROVE  IF transferPending'[m].quarantine THEN m \in poison_blocks'
               ELSE transferPending'[m].version = version'[m]
    BY <1>b, <2>1, <2>2 DEF Taken, Current, QueuesCurrent
  <2>3. ASSUME NEW m \in DOMAIN drained'
        PROVE  IF drained'[m].quarantine THEN m \in poison_blocks'
               ELSE drained'[m].version = version'[m]
    BY <1>b, <2>1, <2>3 DEF Taken, Current, QueuesCurrent
  <2>4. DrainerIdle'
    BY <1>b DEF DrainerIdle
  <2> QED
    BY <2>2, <2>3, <2>4 DEF QueuesCurrent, Current
<1>3. AccountInv => MemorySound'
  BY BoundsAssumption DEF MemorySound, Accounted, Settled, TypeOK, Excuses,
     Heights, Blocks, WriterBelowFork, Purged, Phases
<1>4. WriterBelowFork' /\ (AccountInv => RewoundFirst')
  BY BoundsAssumption, <1>a, <1>b, <1>c DEF WriterBelowFork, RewoundFirst,
     Purged, Unwinding, Phases, TypeOK, Excuses, Heights, Blocks, Taken,
     IsQueue
<1>5. (PausedInRollback /\ VersionsLeft)'
  BY <1>a, <1>b, <1>c DEF PausedInRollback, VersionsLeft, Phases, TypeOK
<1>6. NoOrphanRows' /\ (AccountInv => WatermarkSound')
  <2>1. /\ UNCHANGED <<token_transfers, version, excuse, transfers_durable_block>>
        /\ poison_blocks \subseteq poison_blocks'
    OBVIOUS
  <2> QED
    BY <2>1, SoundKept
<1> QED
  BY <1>1, <1>2, <1>3, <1>4, <1>5, <1>6 DEF WriterInv, AccountInv

LEMMA InitTransferWriterInv ==
  ASSUME WriterInv, NEW seed \in Heights, InitTransferWriter(seed)
  PROVE  /\ WriterInv'
         /\ seed = transfers_durable_block /\ AccountInv => AccountInv'
<1> USE DEF WriterInv, AccountInv, InitTransferWriter, history
<1>b. /\ Taken(transferPending)
      /\ writer' \in {"idle", "write", writer}
      /\ writer # "idle" => writer' = writer
      /\ writer' \in {"idle", "backoff"} => drained' = NoQueue
      /\ transferWriterPaused => writer' = writer
  BY RunTakes DEF DrainerIdle, TypeOK
<1>1. TypeOK'
  BY BoundsAssumption, <1>b DEF TypeOK, IsQueue, Blocks, Heights, Versions,
     Excuses, NoRows, Phases, Taken
<1>2. (QueuesCurrent /\ DrainerIdle)'
  <2>1. Current(transferPending)' /\ Current(drained)'
    BY <1>b, TakenCurrent DEF QueuesCurrent
  <2>2. DrainerIdle'
    BY <1>b DEF DrainerIdle
  <2> QED
    BY <2>1, <2>2 DEF QueuesCurrent
<1>3. seed = transfers_durable_block /\ AccountInv => MemorySound'
  BY BoundsAssumption DEF MemorySound, Accounted, Settled, TypeOK, Excuses,
     Heights, Blocks, WriterBelowFork, Purged, Phases, WatermarkSound,
     PausedInRollback
<1>4. WriterBelowFork' /\ (AccountInv => RewoundFirst')
  BY BoundsAssumption, <1>b DEF WriterBelowFork, RewoundFirst, Purged,
     Unwinding, Phases, TypeOK, Excuses, Heights, Blocks, Taken, IsQueue,
     PausedInRollback
<1>5. (PausedInRollback /\ VersionsLeft)'
  BY <1>b DEF PausedInRollback, VersionsLeft, Phases, TypeOK
<1>6. NoOrphanRows'
  BY DEF NoOrphanRows
<1>7. seed = transfers_durable_block /\ AccountInv => WatermarkSound'
  <2> SUFFICES ASSUME seed = transfers_durable_block, AccountInv
               PROVE  WatermarkSound'
    OBVIOUS
  <2> QED
    BY BoundsAssumption DEF WatermarkSound, MemorySound, Accounted, Settled,
       TypeOK, Excuses, Heights, Blocks, RewoundFirst, Unwinding, Phases
<1> QED
  BY <1>1, <1>2, <1>3, <1>4, <1>5, <1>6, <1>7 DEF WriterInv, AccountInv

LEMMA BackoffEndsInv ==
  ASSUME WriterInv, BackoffEnds
  PROVE  WriterInv' /\ (AccountInv => AccountInv')
<1> USE DEF WriterInv, AccountInv, BackoffEnds, floorVars, flagVars, dbVars, history
<1>b. /\ Taken(transferPending)
      /\ writer' \in {"idle", "write"}
      /\ writer' = "idle" => drained' = NoQueue
  BY LoopHeadTakes DEF TypeOK
<1>1. TypeOK'
  BY BoundsAssumption, <1>b DEF TypeOK, IsQueue, Blocks, Heights, Versions,
     Excuses, NoRows, Phases, Taken
<1>2. (QueuesCurrent /\ DrainerIdle)'
  <2>1. Current(transferPending)' /\ Current(drained)'
    BY <1>b, TakenCurrent DEF QueuesCurrent
  <2>2. DrainerIdle'
    BY <1>b DEF DrainerIdle
  <2> QED
    BY <2>1, <2>2 DEF QueuesCurrent
<1>3. AccountInv => MemorySound'
  BY BoundsAssumption DEF MemorySound, Accounted, Settled, TypeOK, Excuses,
     Heights, Blocks, WriterBelowFork, Purged, Phases
<1>4. WriterBelowFork' /\ (AccountInv => RewoundFirst')
  BY BoundsAssumption, <1>b DEF WriterBelowFork, RewoundFirst, Purged,
     Unwinding, Phases, TypeOK, Excuses, Heights, Blocks, Taken, IsQueue
<1>5. (PausedInRollback /\ VersionsLeft)'
  BY <1>b DEF PausedInRollback, VersionsLeft, Phases, TypeOK
<1>6. NoOrphanRows' /\ (AccountInv => WatermarkSound')
  BY BoundsAssumption DEF NoOrphanRows, WatermarkSound, MemorySound,
     Accounted, Settled, TypeOK, Excuses, Heights, Blocks, RewoundFirst,
     Unwinding, Phases
<1> QED
  BY <1>1, <1>2, <1>3, <1>4, <1>5, <1>6 DEF WriterInv, AccountInv

LEMMA WriteCommitsInv ==
  ASSUME WriterInv, WriteCommits
  PROVE  WriterInv' /\ (AccountInv => AccountInv')
<1> USE DEF WriterInv, AccountInv, WriteCommits, queueVars, flagVars, Overwritten, Pardon,
     Above
<1> PICK w \in Heights :
       /\ IsFold(w, transferWritten')
       /\ \/ /\ w > durableBlock
             /\ newDurable' = w
             /\ writer' = "persist"
             /\ UNCHANGED <<queueVars, drained>>
          \/ /\ w = durableBlock
             /\ LoopHead(transferPending, transferPendingRows, transferWriterPaused)
             /\ UNCHANGED newDurable
  OBVIOUS
<1> HIDE DEF WriteCommits
<1>a. /\ writer = "write"
      /\ token_transfers' = Overwritten(drained)
      /\ excuse' = Pardon(drained)
      /\ transferWritten' = transferWritten \cup Above(DOMAIN drained, durableBlock)
      /\ UNCHANGED <<durableBlock, flagVars, floorPersists, rollback,
                     transfers_durable_block, poison_blocks, blocks, version>>
  BY DEF WriteCommits
<1>b. /\ Taken(transferPending)
      /\ writer' \in {"idle", "write", "persist"}
      /\ writer' = "idle" => drained' = NoQueue
      /\ \/ newDurable' = 0
         \/ newDurable' = w /\ writer' = "persist"
  <2>1. CASE w > durableBlock
    BY <2>1 DEF Taken, TypeOK, Heights, Blocks
  <2>2. CASE ~(w > durableBlock)
    <3>1. /\ LoopHead(transferPending, transferPendingRows, transferWriterPaused)
          /\ newDurable' = newDurable
      BY <2>2
    <3>2. IsQueue(transferPending) /\ newDurable = 0
      BY <1>a DEF TypeOK, DrainerIdle
    <3>3. /\ Taken(transferPending)
          /\ writer' \in {"idle", "write"}
          /\ writer' = "idle" => drained' = NoQueue
      BY ONLY <3>1, <3>2, LoopHeadTakes
    <3> QED
      BY <3>1, <3>2, <3>3
  <2> QED
    BY <2>1, <2>2
<1>c. /\ \A n \in Blocks : Accounted(n) => Accounted(n)'
      /\ \A n \in DOMAIN drained : Accounted(n)'
  BY <1>a, BoundsAssumption DEF Accounted, Settled, QueuesCurrent, Current,
     TypeOK, IsQueue, Excuses
<1>d. /\ transferWritten' \subseteq transferWritten \cup DOMAIN drained
      /\ w \in durableBlock .. MaxBlock
      /\ durableBlock + 1 .. w \subseteq transferWritten'
  BY <1>a DEF IsFold
<1>e. AccountInv => \A n \in 1 .. w : Accounted(n)'
  BY <1>c, <1>d, BoundsAssumption DEF MemorySound, TypeOK, Blocks, Heights
<1>1. TypeOK'
  BY BoundsAssumption, <1>a, <1>b, <1>d DEF TypeOK, IsQueue, Blocks, Heights,
     Versions, Excuses, NoRows, Phases, Taken, Batch
<1>2. (QueuesCurrent /\ DrainerIdle)'
  <2>1. Current(transferPending)' /\ Current(drained)'
    BY <1>a, <1>b, TakenCurrent DEF QueuesCurrent
  <2>2. DrainerIdle'
    BY <1>a, <1>b DEF DrainerIdle
  <2> QED
    BY <2>1, <2>2 DEF QueuesCurrent
<1>3. AccountInv => MemorySound'
  <2> HAVE AccountInv
  <2>1. \A n \in transferWritten' : Accounted(n)'
    BY <1>c, <1>d DEF MemorySound, TypeOK
  <2>2. \A n \in 1 .. durableBlock' : Accounted(n)'
    BY <1>a, <1>c, BoundsAssumption DEF MemorySound, TypeOK, Blocks, Heights
  <2>3. \A n \in 1 .. newDurable' : Accounted(n)'
    BY <1>b, <1>e
  <2> QED
    BY <2>1, <2>2, <2>3 DEF MemorySound, Accounted, Settled
<1>4. WriterBelowFork' /\ (AccountInv => RewoundFirst')
  <2>1. WriterBelowFork'
    <3>1. SUFFICES ASSUME Purged PROVE WriterBelowFork'
      BY <1>a DEF WriterBelowFork, Purged
    <3>2. \A n \in DOMAIN transferPending' \cup DOMAIN drained' : n <= rollback.fork
      BY <1>b, <3>1 DEF WriterBelowFork, Taken
    <3>3. \A n \in transferWritten' : n <= rollback.fork
      BY <1>d, <3>1 DEF WriterBelowFork
    <3>4. w <= rollback.fork
      <4>1. CASE w = durableBlock
        BY <3>1, <4>1 DEF WriterBelowFork
      <4>2. CASE w # durableBlock
        <5>1. w \in durableBlock + 1 .. w
          BY <1>d, <4>2, BoundsAssumption DEF TypeOK, Heights
        <5> QED
          BY <1>d, <3>3, <5>1
      <4> QED
        BY <4>1, <4>2
    <3> QED
      BY <1>a, <1>b, <3>1, <3>2, <3>3, <3>4, BoundsAssumption
         DEF WriterBelowFork, TypeOK, Heights
  <2>2. AccountInv => RewoundFirst'
    BY <1>a, BoundsAssumption DEF WriterBelowFork, RewoundFirst, Purged,
       Unwinding, Phases, TypeOK, Excuses, Heights, Blocks, IsQueue
  <2> QED
    BY <2>1, <2>2
<1>5. (PausedInRollback /\ VersionsLeft)'
  BY <1>a, <1>b DEF PausedInRollback, VersionsLeft, Phases, TypeOK
<1>6. NoOrphanRows' /\ (AccountInv => WatermarkSound')
  BY BoundsAssumption, <1>a, <1>c DEF NoOrphanRows, WatermarkSound,
     MemorySound, Accounted, Settled, TypeOK, Excuses, Heights, Blocks,
     RewoundFirst, Unwinding, Phases, QueuesCurrent, Current, IsQueue
<1> QED
  BY <1>1, <1>2, <1>3, <1>4, <1>5, <1>6 DEF WriterInv, AccountInv

LEMMA WriteFailsInv ==
  ASSUME WriterInv, WriteFails
  PROVE  WriterInv' /\ (AccountInv => AccountInv')
<1> USE DEF WriterInv, AccountInv, WriteFails, floorVars, flagVars, Overwritten, Pardon
<1>a. /\ writer = "write"
      /\ \/ UNCHANGED <<token_transfers, excuse>>
         \/ /\ token_transfers' = Overwritten(drained)
            /\ excuse' = Pardon(drained)
      /\ UNCHANGED <<floorVars, flagVars, floorPersists, rollback,
                     transfers_durable_block, poison_blocks, blocks, version>>
  OBVIOUS
<1>b. /\ transferPending' = Merged(transferPending, drained)
      /\ drained' = NoQueue /\ DOMAIN drained' = {}
      /\ newDurable' = 0
      /\ writer' = "backoff"
      /\ IsQueue(transferPending') /\ IsQueue(drained')
      /\ 0 \in Heights
  BY QueueMerged, QueueEmpty, BoundsAssumption DEF Requeue, TypeOK, NoQueue, Heights
<1>d. \A n \in DOMAIN transferPending' :
        \/ n \in DOMAIN transferPending /\ transferPending'[n] = transferPending[n]
        \/ n \in DOMAIN drained /\ transferPending'[n] = drained[n]
  BY <1>b DEF Merged
<1>c. \A n \in Blocks : Accounted(n) => Accounted(n)'
  BY <1>a, BoundsAssumption DEF Accounted, Settled, QueuesCurrent, Current,
     TypeOK, IsQueue, Excuses
<1>1. TypeOK'
  <2>1. token_transfers' \in [Blocks -> Versions \cup {NoRows}]
    BY <1>a DEF TypeOK, IsQueue, Batch
  <2>2. excuse' \in [Blocks -> Excuses]
    BY <1>a DEF TypeOK, Excuses
  <2> QED
    BY <1>a, <1>b, <2>1, <2>2 DEF TypeOK
<1>2. (QueuesCurrent /\ DrainerIdle)'
  BY BoundsAssumption, <1>a, <1>b, <1>d DEF QueuesCurrent, Current,
     DrainerIdle, TypeOK, IsQueue, WriterBelowFork, Purged, Phases, Taken,
     IsQueue, Blocks, Heights, Requeue
<1>3. AccountInv => MemorySound'
  BY BoundsAssumption, <1>a, <1>b, <1>c DEF MemorySound, Accounted, Settled,
     TypeOK, Excuses, Heights, Blocks, WriterBelowFork, Purged, Phases
<1>4. WriterBelowFork' /\ (AccountInv => RewoundFirst')
  BY BoundsAssumption, <1>a, <1>b, <1>d DEF WriterBelowFork, RewoundFirst,
     Purged, Unwinding, Phases, TypeOK, Excuses, Heights, Blocks, Taken,
     IsQueue
<1>5. (PausedInRollback /\ VersionsLeft)'
  BY <1>a, <1>b, <1>d DEF PausedInRollback, VersionsLeft, Phases, TypeOK
<1>6. NoOrphanRows' /\ (AccountInv => WatermarkSound')
  <2>1. NoOrphanRows'
    BY <1>a DEF NoOrphanRows, TypeOK, IsQueue, QueuesCurrent, Current
  <2>2. AccountInv => WatermarkSound'
    BY <1>a, <1>c, BoundsAssumption DEF WatermarkSound, Accounted, Settled,
       TypeOK, Blocks, Heights
  <2> QED
    BY <2>1, <2>2
<1> QED
  BY <1>1, <1>2, <1>3, <1>4, <1>5, <1>6 DEF WriterInv, AccountInv

LEMMA PersistFailsInv ==
  ASSUME WriterInv, PersistFails
  PROVE  WriterInv' /\ (AccountInv => AccountInv')
<1> USE DEF WriterInv, AccountInv, PersistFails, floorVars, flagVars, history
<1>a. writer = "persist"
  OBVIOUS
<1>b. /\ transferPending' = Merged(transferPending, drained)
      /\ drained' = NoQueue /\ DOMAIN drained' = {}
      /\ newDurable' = 0
      /\ writer' = "backoff"
      /\ IsQueue(transferPending') /\ IsQueue(drained')
      /\ 0 \in Heights
  BY QueueMerged, QueueEmpty, BoundsAssumption DEF Requeue, TypeOK, NoQueue, Heights
<1>d. \A n \in DOMAIN transferPending' :
        \/ n \in DOMAIN transferPending /\ transferPending'[n] = transferPending[n]
        \/ n \in DOMAIN drained /\ transferPending'[n] = drained[n]
  BY <1>b DEF Merged
<1>1. TypeOK'
  BY BoundsAssumption, <1>a, <1>b, <1>d DEF TypeOK, IsQueue, Blocks, Heights,
     Versions, Excuses, NoRows, Phases, Taken
<1>2. (QueuesCurrent /\ DrainerIdle)'
  BY BoundsAssumption, <1>a, <1>b, <1>d DEF QueuesCurrent, Current,
     DrainerIdle, TypeOK, IsQueue, WriterBelowFork, Purged, Phases, Taken,
     IsQueue, Blocks, Heights
<1>3. AccountInv => MemorySound'
  BY BoundsAssumption, <1>a, <1>b DEF MemorySound, Accounted, Settled, TypeOK,
     Excuses, Heights, Blocks, WriterBelowFork, Purged, Phases
<1>4. WriterBelowFork' /\ (AccountInv => RewoundFirst')
  BY BoundsAssumption, <1>a, <1>b, <1>d, <1>a DEF WriterBelowFork,
     RewoundFirst, Purged, Unwinding, Phases, TypeOK, Excuses, Heights,
     Blocks, Taken, IsQueue, WriterBelowFork
<1>5. (PausedInRollback /\ VersionsLeft)'
  BY <1>a, <1>b, <1>d DEF PausedInRollback, VersionsLeft, Phases, TypeOK
<1>6. NoOrphanRows' /\ (AccountInv => WatermarkSound')
  BY BoundsAssumption, <1>a, <1>b DEF NoOrphanRows, WatermarkSound,
     MemorySound, Accounted, Settled, TypeOK, Excuses, Heights, Blocks,
     RewoundFirst, Unwinding, Phases
<1> QED
  BY <1>1, <1>2, <1>3, <1>4, <1>5, <1>6 DEF WriterInv, AccountInv

LEMMA PersistCommitsInv ==
  ASSUME WriterInv, PersistCommits
  PROVE  WriterInv' /\ (AccountInv => AccountInv')
<1> USE DEF WriterInv, AccountInv, PersistCommits, flagVars, history
<1>a. writer = "persist" /\ newDurable' = 0 /\ 0 \in Heights
  BY BoundsAssumption DEF Heights
<1>b. /\ Taken(transferPending)
      /\ writer' \in {"idle", "write"}
      /\ writer' = "idle" => drained' = NoQueue
  BY LoopHeadTakes DEF TypeOK
<1>1. TypeOK'
  BY BoundsAssumption, <1>a, <1>b DEF TypeOK, IsQueue, Blocks, Heights,
     Versions, Excuses, NoRows, Phases, Taken
<1>2. (QueuesCurrent /\ DrainerIdle)'
  <2>1. Current(transferPending)' /\ Current(drained)'
    BY <1>b, TakenCurrent DEF QueuesCurrent
  <2>2. DrainerIdle'
    BY <1>b DEF DrainerIdle
  <2> QED
    BY <2>1, <2>2 DEF QueuesCurrent
<1>3. AccountInv => MemorySound'
  BY BoundsAssumption, <1>a, <1>b DEF MemorySound, Accounted, Settled, TypeOK,
     Excuses, Heights, Blocks, WriterBelowFork, Purged, Phases
<1>4. WriterBelowFork' /\ (AccountInv => RewoundFirst')
  BY BoundsAssumption, <1>a, <1>b DEF WriterBelowFork, RewoundFirst, Purged,
     Unwinding, Phases, TypeOK, Excuses, Heights, Blocks, Taken, IsQueue
<1>5. (PausedInRollback /\ VersionsLeft)'
  BY <1>a, <1>b DEF PausedInRollback, VersionsLeft, Phases, TypeOK
<1>6. NoOrphanRows' /\ (AccountInv => WatermarkSound')
  BY BoundsAssumption, <1>a DEF NoOrphanRows, WatermarkSound, MemorySound,
     Accounted, Settled, TypeOK, Excuses, Heights, Blocks, RewoundFirst,
     Unwinding, Phases
<1> QED
  BY <1>1, <1>2, <1>3, <1>4, <1>5, <1>6 DEF WriterInv, AccountInv

LEMMA RollbackPersistsInv ==
  ASSUME WriterInv, RollbackPersists
  PROVE  WriterInv' /\ (AccountInv => AccountInv')
<1> USE DEF WriterInv, AccountInv, RollbackPersists, floorVars, history
<1>a. /\ rollback.phase = "persist" /\ rollback.fork \in Heights
      /\ rollback' = [rollback EXCEPT !.phase = "unwindPoison"]
      /\ rollback'.phase = "unwindPoison" /\ rollback'.fork = rollback.fork
      /\ transferWriterPaused' = FALSE
  BY DEF Resume, TypeOK
<1>b. /\ Taken(transferPending)
      /\ writer' \in {"idle", "write", writer}
      /\ writer # "idle" => writer' = writer
      /\ writer' \in {"idle", "backoff"} => drained' = NoQueue
  BY RunTakes DEF DrainerIdle, TypeOK, Resume
<1>1. TypeOK'
  BY BoundsAssumption, <1>a, <1>b DEF TypeOK, IsQueue, Blocks, Heights,
     Versions, Excuses, NoRows, Phases, Taken
<1>2. (QueuesCurrent /\ DrainerIdle)'
  <2>1. Current(transferPending)' /\ Current(drained)'
    BY <1>a, <1>b, TakenCurrent DEF QueuesCurrent
  <2>2. DrainerIdle'
    BY <1>a, <1>b DEF DrainerIdle
  <2> QED
    BY <2>1, <2>2 DEF QueuesCurrent
<1>3. AccountInv => MemorySound'
  BY BoundsAssumption, <1>a DEF MemorySound, Accounted, Settled, TypeOK,
     Excuses, Heights, Blocks, WriterBelowFork, Purged, Phases
<1>4. WriterBelowFork' /\ (AccountInv => RewoundFirst')
  BY BoundsAssumption, <1>a, <1>b DEF WriterBelowFork, RewoundFirst, Purged,
     Unwinding, Phases, TypeOK, Excuses, Heights, Blocks, Taken, IsQueue
<1>5. (PausedInRollback /\ VersionsLeft)'
  BY <1>a, <1>b DEF PausedInRollback, VersionsLeft, Phases, TypeOK
<1>6. NoOrphanRows' /\ (AccountInv => WatermarkSound')
  BY BoundsAssumption, <1>a DEF NoOrphanRows, WatermarkSound, MemorySound,
     Accounted, Settled, TypeOK, Excuses, Heights, Blocks, RewoundFirst,
     Unwinding, Phases, PausedInRollback, Purged
<1> QED
  BY <1>1, <1>2, <1>3, <1>4, <1>5, <1>6 DEF WriterInv, AccountInv

LEMMA RollbackPersistFailsInv ==
  ASSUME WriterInv, RollbackPersistFails
  PROVE  WriterInv' /\ (AccountInv => AccountInv')
<1> USE DEF WriterInv, AccountInv, RollbackPersistFails, floorVars, dbVars, Excused
<1>a. /\ rollback.phase = "persist" /\ rollback.fork \in Heights
      /\ rollback' = [rollback EXCEPT !.phase = "unwindPoison"]
      /\ rollback'.phase = "unwindPoison" /\ rollback'.fork = rollback.fork
      /\ transferWriterPaused' = FALSE
  BY DEF Resume, TypeOK
<1>b. /\ Taken(transferPending)
      /\ writer' \in {"idle", "write", writer}
      /\ writer # "idle" => writer' = writer
      /\ writer' \in {"idle", "backoff"} => drained' = NoQueue
  BY RunTakes DEF DrainerIdle, TypeOK, Resume
<1>1. TypeOK'
  BY BoundsAssumption, <1>a, <1>b DEF TypeOK, IsQueue, Blocks, Heights,
     Versions, Excuses, NoRows, Phases, Taken
<1>2. (QueuesCurrent /\ DrainerIdle)'
  <2>1. Current(transferPending)' /\ Current(drained)'
    BY <1>a, <1>b, TakenCurrent DEF QueuesCurrent
  <2>2. DrainerIdle'
    BY <1>a, <1>b DEF DrainerIdle
  <2> QED
    BY <2>1, <2>2 DEF QueuesCurrent
<1>3. AccountInv => MemorySound'
  BY BoundsAssumption, <1>a DEF MemorySound, Accounted, Settled, TypeOK,
     Excuses, Heights, Blocks, WriterBelowFork, Purged, Phases
<1>4. WriterBelowFork' /\ (AccountInv => RewoundFirst')
  BY BoundsAssumption, <1>a, <1>b DEF WriterBelowFork, RewoundFirst, Purged,
     Unwinding, Phases, TypeOK, Excuses, Heights, Blocks, Taken, IsQueue
<1>5. (PausedInRollback /\ VersionsLeft)'
  BY <1>a, <1>b DEF PausedInRollback, VersionsLeft, Phases, TypeOK
<1>6. NoOrphanRows' /\ (AccountInv => WatermarkSound')
  BY BoundsAssumption, <1>a DEF NoOrphanRows, WatermarkSound, MemorySound,
     Accounted, Settled, TypeOK, Excuses, Heights, Blocks, RewoundFirst,
     Unwinding, Phases, PausedInRollback, Purged
<1> QED
  BY <1>1, <1>2, <1>3, <1>4, <1>5, <1>6 DEF WriterInv, AccountInv

LEMMA RollbackPurgesInv ==
  ASSUME WriterInv, RollbackPurges
  PROVE  WriterInv' /\ (AccountInv => AccountInv')
<1> USE DEF WriterInv, AccountInv, RollbackPurges, dbVars, Excused, Above, Quiesced
<1> DEFINE doomed == Above(DOMAIN transferPending, rollback.fork)
           kept   == Restrict(transferPending, DOMAIN transferPending \ doomed)
           rows   == transferPendingRows - RowsOf(transferPending, doomed)
<1>a. /\ IsQueue(kept)
      /\ \A n \in DOMAIN kept : /\ n \in DOMAIN transferPending
                               /\ kept[n] = transferPending[n]
                               /\ ~(n > rollback.fork)
  BY QueueRestrict DEF TypeOK, Restrict, Above
<1>b. /\ rollback.phase = "quiesce" /\ rollback.fork \in Heights
      /\ writer = "idle" /\ drained = NoQueue /\ DOMAIN drained = {}
      /\ transferWritten' = transferWritten \ Above(Blocks, rollback.fork)
      /\ UNCHANGED <<newDurable, transferWriterSeeded, floorPersists, dbVars,
                     version>>
  BY DEF DrainerIdle, TypeOK, NoQueue
<1>c. /\ \/ /\ durableBlock > rollback.fork
            /\ durableBlock' = rollback.fork
            /\ rollback' = [rollback EXCEPT !.phase = "persist"]
            /\ transferPending' = kept
            /\ UNCHANGED <<writer, drained, transferWriterPaused, excuse>>
         \/ /\ durableBlock <= rollback.fork
            /\ Resume(kept, rows)
            /\ excuse' = Excused(rollback.fork + 1 .. transfers_durable_block,
                                 "rewindSkipped")
            /\ UNCHANGED durableBlock
  OBVIOUS
<1> HIDE DEF RollbackPurges, kept, rows, doomed
<1>d. /\ Taken(kept)
      /\ rollback'.fork = rollback.fork
      /\ \/ /\ rollback'.phase = "persist"
            /\ rollback' = [rollback EXCEPT !.phase = "persist"]
            /\ writer' = "idle" /\ drained' = NoQueue
            /\ transferWriterPaused' = transferWriterPaused
            /\ durableBlock' = rollback.fork
            /\ excuse' = excuse
         \/ /\ rollback'.phase = "unwindPoison"
            /\ rollback' = [rollback EXCEPT !.phase = "unwindPoison"]
            /\ writer' \in {"idle", "write"}
            /\ writer' = "idle" => drained' = NoQueue
            /\ transferWriterPaused' = FALSE
            /\ excuse' = Excused(rollback.fork + 1 .. transfers_durable_block,
                                 "rewindSkipped")
  <2>1. CASE durableBlock > rollback.fork
    <3>1. /\ transferPending' = kept /\ drained' = drained /\ writer' = writer
          /\ rollback' = [rollback EXCEPT !.phase = "persist"]
          /\ transferWriterPaused' = transferWriterPaused
          /\ durableBlock' = rollback.fork
          /\ excuse' = excuse
      BY <1>b, <1>c, <2>1 DEF TypeOK, Heights
    <3>2. Taken(kept)
      BY <1>a, <3>1 DEF Taken, TypeOK
    <3> QED
      BY <1>b, <3>1, <3>2 DEF TypeOK
  <2>2. CASE ~(durableBlock > rollback.fork)
    <3>1. RunTransferWriter(kept, rows, transferWriterSeeded, FALSE)
      BY <1>b, <1>c, <2>2 DEF Resume, TypeOK, Heights
    <3>2. /\ Taken(kept)
          /\ writer' \in {"idle", "write"}
          /\ writer' = "idle" => drained' = NoQueue
      BY <1>a, <1>b, <3>1, RunTakes DEF TypeOK
    <3> QED
      BY <1>b, <1>c, <2>2, <3>2 DEF Resume, TypeOK
  <2> QED
    BY <2>1, <2>2
<1>e. \A n \in DOMAIN transferPending' \cup DOMAIN drained' :
        n \in Blocks /\ ~(n > rollback.fork)
  BY <1>a, <1>b, <1>d DEF Taken, IsQueue
<1>f. durableBlock' \in Heights /\ durableBlock' <= rollback.fork
      /\ durableBlock' <= durableBlock
  BY <1>b, <1>c DEF TypeOK, Heights
<1>1. TypeOK'
  BY BoundsAssumption, <1>b, <1>d, <1>e, <1>f DEF TypeOK, IsQueue, Blocks,
     Heights, Versions, Excuses, NoRows, Phases, Taken
<1>2. (QueuesCurrent /\ DrainerIdle)'
  <2>1. Current(kept) /\ Current(drained)
    BY <1>a, <1>b DEF QueuesCurrent, Current
  <2>2. Current(transferPending)' /\ Current(drained)'
    BY <1>b, <1>d, <2>1, TakenCurrent
  <2>3. DrainerIdle'
    BY <1>b, <1>d DEF DrainerIdle
  <2> QED
    BY <2>2, <2>3 DEF QueuesCurrent
<1>3. AccountInv => MemorySound'
  BY BoundsAssumption, <1>b, <1>d, <1>e, <1>f DEF MemorySound, Accounted,
     Settled, TypeOK, Excuses, Heights, Blocks, WriterBelowFork, Purged,
     Phases, DrainerIdle
<1>4. WriterBelowFork' /\ (AccountInv => RewoundFirst')
  <2>1. WriterBelowFork'
    <3>1. newDurable' = 0
      BY <1>b DEF DrainerIdle
    <3>2. \A n \in transferWritten' : n <= rollback.fork
      BY <1>b DEF TypeOK, Blocks, Heights
    <3> QED
      BY <1>b, <1>d, <1>e, <1>f, <3>1, <3>2 DEF WriterBelowFork, Blocks, Heights
  <2>2. AccountInv => RewoundFirst'
    <3> HAVE AccountInv
    <3>1. CASE rollback'.phase = "persist"
      BY <3>1 DEF RewoundFirst, Unwinding
    <3>2. CASE rollback'.phase = "unwindPoison"
      BY <1>b, <1>d, <3>2, BoundsAssumption
         DEF RewoundFirst, TypeOK, Blocks, Heights, Excuses
    <3> QED
      BY <1>d, <3>1, <3>2
  <2> QED
    BY <2>1, <2>2
<1>5. (PausedInRollback /\ VersionsLeft)'
  <2>1. PausedInRollback'
    <3>1. transferWriterPaused /\ transferWriterSeeded'
      BY <1>b DEF PausedInRollback
    <3>2. CASE rollback'.phase = "persist"
      BY <1>d, <3>1, <3>2 DEF PausedInRollback
    <3>3. CASE rollback'.phase = "unwindPoison"
      BY <3>1, <3>3 DEF PausedInRollback
    <3> QED
      BY <1>d, <3>2, <3>3
  <2>2. VersionsLeft'
    BY <1>b, <1>d DEF VersionsLeft, Phases
  <2> QED
    BY <2>1, <2>2
<1>6. NoOrphanRows' /\ (AccountInv => WatermarkSound')
  BY BoundsAssumption, <1>b, <1>d, <1>e, <1>f DEF NoOrphanRows,
     WatermarkSound, MemorySound, Accounted, Settled, TypeOK, Excuses,
     Heights, Blocks, RewoundFirst, Unwinding, Phases, DrainerIdle
<1> QED
  BY <1>1, <1>2, <1>3, <1>4, <1>5, <1>6 DEF WriterInv, AccountInv

LEMMA StutterInv ==
  ASSUME WriterInv, UNCHANGED vars
  PROVE  WriterInv' /\ (AccountInv => AccountInv')
<1> USE DEF WriterInv, AccountInv, vars, memoryVars, queueVars, drainVars, floorVars, flagVars,
     dbVars, history
<1>1. TypeOK' /\ (QueuesCurrent /\ DrainerIdle)'
  BY DEF TypeOK, QueuesCurrent, Current, DrainerIdle
<1>2. NoOrphanRows' /\ (AccountInv => (MemorySound /\ WatermarkSound)')
  BY DEF MemorySound, NoOrphanRows, WatermarkSound, Accounted, Settled
<1>3. WriterBelowFork' /\ (AccountInv => RewoundFirst')
  BY DEF WriterBelowFork, RewoundFirst, Purged, Unwinding
<1>4. (PausedInRollback /\ VersionsLeft)'
  BY DEF PausedInRollback, VersionsLeft
<1> QED
  BY <1>1, <1>2, <1>3, <1>4 DEF WriterInv, AccountInv

-----------------------------------------------------------------------------
(* The writer as the poll loop feeds it: a block's row is there before its  *)
(* decode is handed over, and a start seeds the writer with what it finds.  *)

RowWritten(n) ==
  /\ blocks' = blocks \cup {n}
  /\ UNCHANGED <<memoryVars, token_transfers, transfers_durable_block, poison_blocks, history>>

RowsNext == Next \/ \E n \in Blocks : RowWritten(n)

FedNext == RowsNext \/ \E seed \in Heights : InitTransferWriter(seed)

LEMMA RowWrittenInv ==
  ASSUME WriterInv, NEW n \in Blocks, RowWritten(n)
  PROVE  WriterInv' /\ (AccountInv => AccountInv')
<1>. USE DEF WriterInv, AccountInv, RowWritten, memoryVars, queueVars, drainVars, floorVars,
     flagVars, history
<1>1. TypeOK'
  BY DEF TypeOK, IsQueue
<1>2. (QueuesCurrent /\ DrainerIdle)'
  BY DEF QueuesCurrent, Current, DrainerIdle
<1>3. NoOrphanRows' /\ (AccountInv => (MemorySound /\ WatermarkSound)')
  BY DEF MemorySound, NoOrphanRows, WatermarkSound, Accounted, Settled
<1>4. WriterBelowFork' /\ (AccountInv => RewoundFirst')
  BY DEF WriterBelowFork, RewoundFirst, Purged, Unwinding
<1>5. (PausedInRollback /\ VersionsLeft)'
  BY DEF PausedInRollback, VersionsLeft
<1>. QED
  BY <1>1, <1>2, <1>3, <1>4, <1>5

-----------------------------------------------------------------------------
(* Theorems.                                                                *)

LEMMA NextInv ==
  ASSUME WriterInv, [Next]_vars
  PROVE  WriterInv' /\ (AccountInv => AccountInv')
<1>1. CASE ClientStep
  BY <1>1, EnqueueTransferWriteInv, EnqueueQuarantinedBlockInv,
     OtherGenerationWritesInv, SetDurableFloorInv, FloorPersistLandsInv,
     FloorPersistFailsInv DEF ClientStep
<1>2. CASE DrainStep
  BY <1>2, WriteCommitsInv, WriteFailsInv, PersistCommitsInv, PersistFailsInv,
     BackoffEndsInv DEF DrainStep
<1>3. CASE RecoveryStep
  BY <1>3, RollbackBeginsInv, RollbackPurgesInv, RollbackPersistsInv,
     RollbackPersistFailsInv, UnwindPoisonInv, UnwindTransfersInv,
     UnwindBlocksInv, UnwindFailsInv DEF RecoveryStep
<1>4. CASE Crash
  BY <1>4, CrashInv
<1>5. CASE InitTransferWriter(transfers_durable_block)
  BY <1>5, InitTransferWriterInv DEF WriterInv, TypeOK
<1>6. CASE UNCHANGED vars
  BY <1>6, StutterInv
<1> QED
  BY <1>1, <1>2, <1>3, <1>4, <1>5, <1>6 DEF Next

LEMMA RowsInv ==
  ASSUME IInv, [RowsNext]_vars
  PROVE  IInv'
BY NextInv, RowWrittenInv DEF IInv, RowsNext

LEMMA FedInv ==
  ASSUME WriterInv, [FedNext]_vars
  PROVE  WriterInv'
BY NextInv, RowWrittenInv, InitTransferWriterInv DEF FedNext, RowsNext

(* The writer's inductive invariant holds in every reachable state: types,  *)
(* queues of the current chain only, memory no further than the database    *)
(* warrants, and W rewound before an unwind deletes.                        *)
THEOREM Invariance == Spec => []IInv
<1>1. Init => IInv
  BY InitInv
<1>2. IInv /\ [Next]_vars => IInv'
  BY NextInv DEF IInv
<1> QED
  BY <1>1, <1>2, PTL DEF Spec

(* Every variable keeps its type.                                           *)
THEOREM TypeCorrect == Spec => []TypeOK
<1>1. IInv => TypeOK
  BY DEF IInv, WriterInv
<1> QED
  BY <1>1, Invariance, PTL

(* The stored watermark never claims a height whose transfers are missing,  *)
(* unless it was quarantined or is one of the excused ones.                 *)
THEOREM WatermarkCorrect == Spec => []WatermarkSound
<1>1. IInv => WatermarkSound
  BY DEF IInv, AccountInv
<1> QED
  BY <1>1, Invariance, PTL

(* No drain commits rows of a chain the indexer has unwound.                *)
THEOREM OrphansNeverReturn == Spec => []NoOrphanRows
<1>1. IInv => NoOrphanRows
  BY DEF IInv, WriterInv
<1> QED
  BY <1>1, Invariance, PTL

-----------------------------------------------------------------------------
(* NoLostWakeup is inductive once the types are known: whoever refills the  *)
(* queue or lifts what held the drainer back also runs it.                  *)

LEMMA WakeupStep ==
  ASSUME WriterInv, NoLostWakeup, [FedNext]_vars
  PROVE  NoLostWakeup'
<1> USE DEF NoLostWakeup, queueVars, drainVars, floorVars, flagVars, memoryVars,
     dbVars, history
<1>0. TypeOK /\ PausedInRollback /\ DrainerIdle
  BY DEF WriterInv
<1>1. ASSUME NEW n \in Blocks, EnqueueTransferWrite(n)
      PROVE  NoLostWakeup'
  <2>1. IsQueue(Put(transferPending, n, RealBatch(n, version[n])))
    <3>1. RealBatch(n, version[n]) \in Batch
      BY <1>0, RowCountAssumption DEF RealBatch, Batch, TypeOK
    <3> QED
      BY <1>0, <3>1, QueuePut DEF TypeOK
  <2> QED
    BY <1>0, <1>1, <2>1, RunTakes DEF EnqueueTransferWrite, TypeOK
<1>2. ASSUME NEW n \in Blocks, EnqueueQuarantinedBlock(n)
      PROVE  NoLostWakeup'
  <2>1. IsQueue(Put(transferPending, n, QuarantineBatch))
    <3>1. QuarantineBatch \in Batch
      BY BoundsAssumption DEF QuarantineBatch, Batch, Versions
    <3> QED
      BY <1>0, <3>1, QueuePut DEF TypeOK
  <2> QED
    BY <1>0, <1>2, <2>1, RunTakes DEF EnqueueQuarantinedBlock, TypeOK
<1>3. ASSUME NEW n \in Blocks,
             \/ OtherGenerationWrites(n)
             \/ SetDurableFloor(n)
             \/ FloorPersistLands(n)
             \/ FloorPersistFails(n)
      PROVE  NoLostWakeup'
  BY <1>3 DEF OtherGenerationWrites, SetDurableFloor, FloorPersistLands,
     FloorPersistFails
<1>4. CASE WriteCommits
  <2>1. CASE writer' = "persist"
    BY <2>1
  <2>2. CASE writer' # "persist"
    <3>1. LoopHead(transferPending, transferPendingRows, transferWriterPaused)
      BY <1>4, <2>2 DEF WriteCommits
    <3>2. UNCHANGED transferWriterPaused
      BY <1>4 DEF WriteCommits
    <3> QED
      BY <1>0, <3>1, <3>2, LoopHeadTakes DEF TypeOK
  <2> QED
    BY <2>1, <2>2
<1>5. CASE WriteFails \/ PersistFails
  BY <1>5 DEF WriteFails, PersistFails, Requeue
<1>6. CASE PersistCommits \/ BackoffEnds
  BY <1>0, <1>6, LoopHeadTakes DEF PersistCommits, BackoffEnds, TypeOK
<1>7. ASSUME NEW f \in 0 .. MaxBlock - 1, RollbackBegins(f)
      PROVE  NoLostWakeup'
  BY <1>7 DEF RollbackBegins
<1>8. CASE RollbackPurges
  <2> DEFINE doomed == Above(DOMAIN transferPending, rollback.fork)
             kept   == Restrict(transferPending, DOMAIN transferPending \ doomed)
             rows   == transferPendingRows - RowsOf(transferPending, doomed)
  <2>1. IsQueue(kept)
    BY <1>0, QueueRestrict DEF TypeOK
  <2>2. /\ rollback.phase = "quiesce"
        /\ \/ transferWriterPaused' = transferWriterPaused
           \/ Resume(kept, rows)
        /\ transferWriterSeeded' = transferWriterSeeded
    BY <1>8 DEF RollbackPurges
  <2> HIDE DEF kept, rows, doomed
  <2>3. CASE transferWriterPaused' = transferWriterPaused
    BY <1>0, <2>2, <2>3 DEF PausedInRollback
  <2>4. CASE Resume(kept, rows)
    <3>1. /\ RunTransferWriter(kept, rows, transferWriterSeeded, FALSE)
          /\ IsQueue(drained)
      BY <1>0, <2>4 DEF Resume, TypeOK
    <3>2. \/ writer' # "idle"
          \/ ~transferWriterSeeded
          \/ DOMAIN transferPending' = {}
      BY ONLY <2>1, <3>1, RunTakes
    <3> QED
      BY <2>2, <3>2
  <2> QED
    BY <2>2, <2>3, <2>4
<1>9. CASE RollbackPersists \/ RollbackPersistFails
  <2>1. /\ Resume(transferPending, transferPendingRows)
        /\ transferWriterSeeded' = transferWriterSeeded
    BY <1>9 DEF RollbackPersists, RollbackPersistFails
  <2> QED
    BY <1>0, <2>1, RunTakes DEF Resume, TypeOK
<1>10. CASE UnwindPoison \/ UnwindTransfers \/ UnwindBlocks \/ UnwindFails
  BY <1>10 DEF UnwindPoison, UnwindTransfers, UnwindBlocks, UnwindFails
<1>11. CASE Crash
  BY <1>11 DEF Crash
<1>12. ASSUME NEW seed \in Heights, InitTransferWriter(seed)
       PROVE  NoLostWakeup'
  BY <1>0, <1>12, RunTakes DEF InitTransferWriter, TypeOK
<1>13. ASSUME NEW n \in Blocks, RowWritten(n)
       PROVE  NoLostWakeup'
  BY <1>13 DEF RowWritten
<1>14. CASE UNCHANGED vars
  BY <1>14 DEF vars
<1>15. transfers_durable_block \in Heights
  BY <1>0 DEF TypeOK
<1> QED
  BY <1>1, <1>2, <1>3, <1>4, <1>5, <1>6, <1>7, <1>8, <1>9, <1>10, <1>11, <1>12,
     <1>13, <1>14, <1>15 DEF FedNext, RowsNext, Next, ClientStep, DrainStep, RecoveryStep

(* A non-empty queue always has a drainer, or one that will be started.     *)
THEOREM WakeupNeverLost == Spec => []NoLostWakeup
<1>1. Init => NoLostWakeup
  BY DEF Init, NoLostWakeup
<1>2. IInv /\ NoLostWakeup /\ [Next]_vars => NoLostWakeup'
  BY WakeupStep DEF IInv, FedNext, RowsNext
<1> QED
  BY <1>1, <1>2, Invariance, PTL DEF Spec

-----------------------------------------------------------------------------
(* Only the unwind of a reorg removes rows.                                 *)

LEMMA DeletesStep ==
  ASSUME WriterInv, [FedNext]_vars, NEW n \in Blocks,
         token_transfers[n] # NoRows, token_transfers'[n] = NoRows
  PROVE  rollback.phase = "unwindTransfers" /\ n > rollback.fork
<1>0. /\ token_transfers' # token_transfers
      /\ version[n] # NoRows
      /\ \A m \in DOMAIN drained : drained[m].version # NoRows
  BY BoundsAssumption DEF WriterInv, TypeOK, IsQueue, Batch, Versions, NoRows
<1>1. CASE ClientStep
  BY <1>0, <1>1 DEF ClientStep, EnqueueTransferWrite, EnqueueQuarantinedBlock,
     OtherGenerationWrites, SetDurableFloor, FloorPersistLands, FloorPersistFails,
     dbVars, WriterInv, TypeOK
<1>2. CASE DrainStep
  BY <1>0, <1>2 DEF DrainStep, WriteCommits, WriteFails, PersistCommits,
     PersistFails, BackoffEnds, Overwritten, dbVars
<1>3. CASE RecoveryStep
  BY <1>0, <1>3 DEF RecoveryStep, RollbackBegins, RollbackPurges,
     RollbackPersists, RollbackPersistFails, UnwindPoison, UnwindTransfers,
     UnwindBlocks, UnwindFails, dbVars
<1>4. CASE Crash \/ UNCHANGED vars
  BY <1>0, <1>4 DEF Crash, vars, dbVars
<1>5. ASSUME NEW seed, InitTransferWriter(seed) PROVE FALSE
  BY <1>0, <1>5 DEF InitTransferWriter
<1>6. ASSUME NEW m \in Blocks, RowWritten(m) PROVE FALSE
  BY <1>0, <1>6 DEF RowWritten
<1> QED
  BY <1>1, <1>2, <1>3, <1>4, <1>5, <1>6 DEF FedNext, RowsNext, Next

THEOREM DeletesOnlyInUnwind == Spec => OnlyUnwindDeletes
<1>1. IInv /\ [Next]_vars =>
        [\A n \in Blocks :
           token_transfers[n] # NoRows /\ token_transfers'[n] = NoRows
             => rollback.phase = "unwindTransfers" /\ n > rollback.fork]_vars
  BY DeletesStep DEF IInv, FedNext, RowsNext
<1> QED
  BY <1>1, Invariance, PTL DEF Spec, OnlyUnwindDeletes

-----------------------------------------------------------------------------
(* The refinement.  A step either keeps every accounted height accounted,   *)
(* or leaves W alone and only takes heights away (the deletes of a reorg).  *)

LEMMA StepSecures ==
  ASSUME WriterInv, RowsNext
  PROVE  \/ \A n \in Blocks : Accounted(n) => Accounted(n)'
         \/ /\ UNCHANGED transfers_durable_block
            /\ \A n \in Blocks : Accounted(n)' => Accounted(n)
<1> USE DEF Accounted, Settled, queueVars, drainVars, floorVars, flagVars,
     memoryVars, dbVars, history
<1>0. /\ excuse \in [Blocks -> Excuses]
      /\ token_transfers \in [Blocks -> Versions \cup {NoRows}]
      /\ version \in [Blocks -> Versions]
      /\ \A n \in DOMAIN drained : ~drained[n].quarantine => drained[n].version = version[n]
  BY DEF WriterInv, TypeOK, QueuesCurrent, Current
<1>1. CASE ClientStep
  BY <1>0, <1>1 DEF ClientStep, EnqueueTransferWrite, EnqueueQuarantinedBlock,
     OtherGenerationWrites, SetDurableFloor, FloorPersistLands, FloorPersistFails,
     Excused, Excuses
<1>2. CASE DrainStep
  BY <1>0, <1>2 DEF DrainStep, WriteCommits, WriteFails, PersistCommits,
     PersistFails, BackoffEnds, Overwritten, Pardon
<1>3. CASE RecoveryStep
  <2>1. CASE UnwindPoison
    BY <2>1 DEF UnwindPoison
  <2>2. CASE UnwindTransfers
    BY <1>0, <2>2, BoundsAssumption DEF UnwindTransfers, Versions, NoRows,
       WriterInv, VersionsLeft, Phases
  <2>3. CASE ~(UnwindPoison \/ UnwindTransfers)
    BY <1>0, <1>3, <2>3 DEF RecoveryStep, RollbackBegins, RollbackPurges,
       RollbackPersists, RollbackPersistFails, UnwindBlocks, UnwindFails, Excused,
       Excuses
  <2> QED
    BY <2>1, <2>2, <2>3
<1>4. CASE Crash \/ InitTransferWriter(transfers_durable_block)
  BY <1>4 DEF Crash, InitTransferWriter
<1>5. CASE \E n \in Blocks : RowWritten(n)
  BY <1>5 DEF RowWritten
<1> QED
  BY <1>1, <1>2, <1>3, <1>4, <1>5 DEF RowsNext, Next

LEMMA StoredStep ==
  ASSUME IInv, IInv', [RowsNext]_vars
  PROVE  [Stored!Next]_<<{n \in Blocks : Accounted(n)}, transfers_durable_block>>
<1> DEFINE now  == {n \in Blocks : Accounted(n)}
           next == {n \in Blocks : Accounted(n)'}
<1>0. /\ transfers_durable_block \in Heights
      /\ transfers_durable_block' \in Heights
      /\ 1 .. transfers_durable_block' \subseteq next
      /\ 1 .. transfers_durable_block' \subseteq Blocks
  BY BoundsAssumption DEF IInv, WriterInv, AccountInv, TypeOK, WatermarkSound, Heights, Blocks
<1>1. CASE UNCHANGED vars
  BY <1>1 DEF vars, dbVars, history, Accounted, Settled
<1>2. CASE RowsNext /\ now \subseteq next
  <2>1. next \in SUBSET (1 .. MaxBlock)
    BY DEF Blocks
  <2>2. Stored!Claim(transfers_durable_block', next)
    BY <1>0, <1>2 DEF Stored!Claim
  <2> QED
    BY <1>0, <2>1, <2>2 DEF Stored!Next, Heights
<1>3. CASE /\ UNCHANGED transfers_durable_block
           /\ next \subseteq now
  <2>1. now \ next \in SUBSET (1 .. MaxBlock)
    BY DEF Blocks
  <2>2. Stored!Retract(now \ next)
    BY <1>0, <1>3 DEF Stored!Retract
  <2> QED
    BY <2>1, <2>2 DEF Stored!Next
<1>4. CASE RowsNext
  <2>1. \/ now \subseteq next
        \/ UNCHANGED transfers_durable_block /\ next \subseteq now
    BY <1>4, StepSecures DEF IInv
  <2> QED
    BY <1>2, <1>3, <1>4, <2>1
<1> QED
  BY <1>1, <1>4

(* The writer implements the watermark the resume logic relies on.          *)
THEOREM Refinement == Spec => ImplementsDurableWatermark
<1>1. Init => Stored!Init
  BY BoundsAssumption DEF Init, Stored!Init, Accounted, Settled, NoRows
<1>2. IInv /\ IInv' /\ [Next]_vars
        => [Stored!Next]_<<{n \in Blocks : Accounted(n)}, transfers_durable_block>>
  BY StoredStep DEF RowsNext
<1> QED
  BY <1>1, <1>2, Invariance, PTL DEF Spec, ImplementsDurableWatermark, Stored!Spec

-----------------------------------------------------------------------------
(* No decode that was handed over is lost on the way to the table.          *)

(* What the drainer has left while it persists is in the table.             *)
DrainedSettled == writer = "persist" => \A n \in Blocks : Queued(drained, n) => Settled(n)

(* A queued decode's block has its row, so no quarantine joins or follows   *)
(* the decode that a requeue could prefer to it.                            *)
OwedHasRow == \A n \in Blocks : Owed(n) => n \in blocks

NoClash ==
  \A n \in Blocks : Queued(drained, n) /\ n \in DOMAIN transferPending =>
                      Queued(transferPending, n)

DropInv == DrainedSettled /\ OwedHasRow /\ NoClash

(* The decodes that a step may take from the writer.                        *)
MayGo(n) ==
  \/ Settled(n)'
  \/ rollback.phase = "quiesce" /\ n > rollback.fork
  \/ ~transferWriterSeeded'

Kept == DropInv' /\ \A n \in Blocks : Owed(n) /\ ~Owed(n)' => MayGo(n)

(* Whoever calls the drainer, a real batch of q is with the writer after,   *)
(* and nothing is there that was in neither.                                *)
LEMMA HeadKeepsOwed ==
  ASSUME NEW STATE q, NEW STATE rows, NEW STATE paused, LoopHead(q, rows, paused)
  PROVE  /\ \A n : Queued(q, n) <=> Owed(n)'
         /\ writer' \in {"idle", "write"}
         /\ \A n : ~(Queued(drained, n)' /\ n \in DOMAIN transferPending')
BY DEF LoopHead, Owed, Queued, NoQueue

LEMMA RunKeepsOwed ==
  ASSUME DrainerIdle, NEW STATE q, NEW STATE rows, NEW STATE seeded, NEW STATE paused,
         RunTransferWriter(q, rows, seeded, paused)
  PROVE  /\ \A n : Queued(q, n) \/ Queued(drained, n) <=> Owed(n)'
         /\ writer' = "persist" => writer = "persist" /\ drained' = drained
         /\ \A n : Queued(drained, n)' /\ n \in DOMAIN transferPending' =>
                     Queued(drained, n) /\ n \in DOMAIN q /\ transferPending'[n] = q[n]
<1>1. CASE seeded /\ ~paused /\ writer = "idle"
  <2>1. LoopHead(q, rows, paused) /\ drained = NoQueue
    BY <1>1 DEF RunTransferWriter, DrainerIdle
  <2>2. \A n : ~ Queued(drained, n)
    BY <2>1 DEF Queued, NoQueue
  <2>. QED
    BY <2>1, <2>2, HeadKeepsOwed
<1>2. CASE ~(seeded /\ ~paused /\ writer = "idle")
  BY <1>2 DEF RunTransferWriter, Owed, Queued
<1>. QED
  BY <1>1, <1>2

(* A requeue loses no decode: what a newer entry replaces is a decode too.  *)
LEMMA RequeueKeepsOwed ==
  ASSUME NoClash, Requeue, NEW n \in Blocks
  PROVE  Owed(n)' <=> Owed(n)
<1>1. transferPending' = Merged(transferPending, drained) /\ drained' = NoQueue
  BY DEF Requeue
<1>2. Queued(transferPending, n)' <=> Owed(n)
  BY <1>1 DEF Merged, Owed, Queued, NoClash
<1>. QED
  BY <1>1, <1>2 DEF Owed, Queued, NoQueue

(* The writer's own steps: it runs nothing, so all it held it holds.        *)
LEMMA NothingGoes ==
  ASSUME DropInv, \A n \in Blocks : Owed(n)' <=> Owed(n), blocks \subseteq blocks',
         writer' # "persist",
         \A n \in Blocks : ~(Queued(drained, n)' /\ n \in DOMAIN transferPending')
  PROVE  Kept
BY DEF Kept, DropInv, DrainedSettled, OwedHasRow, NoClash

LEMMA DropStep ==
  ASSUME WriterInv, DropInv, [FedNext]_vars
  PROVE  Kept
<1> USE DEF queueVars, drainVars, floorVars, flagVars, memoryVars, dbVars, history
<1>0. /\ TypeOK /\ PausedInRollback /\ DrainerIdle /\ WriterBelowFork /\ QueuesCurrent
      /\ DrainedSettled /\ OwedHasRow /\ NoClash
      /\ DOMAIN transferPending \subseteq Blocks /\ DOMAIN drained \subseteq Blocks
  BY DEF WriterInv, DropInv, TypeOK, IsQueue
<1>q. \A n : ~ Queued(NoQueue, n)
  BY DEF Queued, NoQueue
<1>1. ASSUME NEW n \in Blocks, EnqueueTransferWrite(n)
      PROVE  Kept
  <2> DEFINE q == Put(transferPending, n, RealBatch(n, version[n]))
  <2>1. \E rows : RunTransferWriter(q, rows, transferWriterSeeded, transferWriterPaused)
    BY <1>1 DEF EnqueueTransferWrite
  <2>2. /\ \A m : Queued(q, m) <=> m = n \/ Queued(transferPending, m)
        /\ DOMAIN q = DOMAIN transferPending \cup {n}
        /\ \A m \in DOMAIN q : m = n \/ q[m] = transferPending[m]
    BY DEF Queued, Put, RealBatch
  <2> HIDE DEF q
  <2>3. /\ \A m : Queued(q, m) \/ Queued(drained, m) <=> Owed(m)'
        /\ writer' = "persist" => writer = "persist" /\ drained' = drained
        /\ \A m : Queued(drained, m)' /\ m \in DOMAIN transferPending' =>
                    Queued(drained, m) /\ m \in DOMAIN q /\ transferPending'[m] = q[m]
    BY <1>0, <2>1, RunKeepsOwed
  <2>4. /\ blocks' = blocks \cup {n} /\ UNCHANGED <<token_transfers, version>>
    BY <1>1 DEF EnqueueTransferWrite
  <2>5. DrainedSettled'
    BY <1>0, <2>3, <2>4 DEF DrainedSettled, Queued, Settled
  <2>6. OwedHasRow' /\ \A m \in Blocks : Owed(m) => Owed(m)'
    BY <1>0, <2>2, <2>3, <2>4 DEF OwedHasRow, Owed
  <2>7. NoClash'
    BY <1>0, <2>2, <2>3 DEF NoClash, Queued
  <2>. QED
    BY <2>5, <2>6, <2>7 DEF Kept, DropInv
<1>2. ASSUME NEW n \in Blocks, EnqueueQuarantinedBlock(n)
      PROVE  Kept
  <2> DEFINE q == Put(transferPending, n, QuarantineBatch)
  <2>1. /\ UNCHANGED <<blocks, token_transfers, version>>
        /\ n \notin blocks /\ ~Owed(n)
    BY <1>0, <1>2 DEF EnqueueQuarantinedBlock, OwedHasRow
  <2>2. CASE UNCHANGED <<queueVars, writer, drained>>
    BY <1>0, <2>1, <2>2 DEF Kept, DropInv, DrainedSettled, OwedHasRow, NoClash, Owed, Queued,
       Settled
  <2>3. CASE \E rows : RunTransferWriter(q, rows, transferWriterSeeded, transferWriterPaused)
    <3>1. /\ \A m : Queued(q, m) <=> m # n /\ Queued(transferPending, m)
          /\ DOMAIN q = DOMAIN transferPending \cup {n}
          /\ \A m \in DOMAIN q : m = n \/ q[m] = transferPending[m]
      BY DEF Queued, Put, QuarantineBatch
    <3> HIDE DEF q
    <3>2. /\ \A m : Queued(q, m) \/ Queued(drained, m) <=> Owed(m)'
          /\ writer' = "persist" => writer = "persist" /\ drained' = drained
          /\ \A m : Queued(drained, m)' /\ m \in DOMAIN transferPending' =>
                      Queued(drained, m) /\ m \in DOMAIN q /\ transferPending'[m] = q[m]
      BY <1>0, <2>3, RunKeepsOwed
    <3>3. DrainedSettled'
      BY <1>0, <2>1, <3>2 DEF DrainedSettled, Queued, Settled
    <3>4. OwedHasRow' /\ \A m \in Blocks : Owed(m) => Owed(m)'
      BY <1>0, <2>1, <3>1, <3>2 DEF OwedHasRow, Owed
    <3>5. NoClash'
      BY <1>0, <2>1, <3>1, <3>2 DEF NoClash, Queued, Owed
    <3>. QED
      BY <3>3, <3>4, <3>5 DEF Kept, DropInv
  <2>. QED
    BY <1>2, <2>2, <2>3 DEF EnqueueQuarantinedBlock
<1>3. ASSUME NEW n \in Blocks,
             \/ OtherGenerationWrites(n)
             \/ SetDurableFloor(n)
             \/ FloorPersistLands(n)
             \/ FloorPersistFails(n)
      PROVE  Kept
  <2>1. /\ UNCHANGED <<transferPending, drained, writer, version>> /\ blocks \subseteq blocks'
        /\ token_transfers' \in {token_transfers, [token_transfers EXCEPT ![n] = version[n]]}
    BY <1>3 DEF OtherGenerationWrites, SetDurableFloor, FloorPersistLands, FloorPersistFails
  <2>2. \A m \in Blocks : Settled(m) => Settled(m)'
    BY <1>0, <2>1 DEF Settled, TypeOK
  <2>. QED
    BY <1>0, <2>1, <2>2 DEF Kept, DropInv, DrainedSettled, OwedHasRow, NoClash, Owed, Queued
<1>4. CASE WriteCommits
  <2>1. /\ writer = "write" /\ UNCHANGED <<blocks, version>>
        /\ token_transfers' = Overwritten(drained)
        /\ \/ writer' = "persist" /\ UNCHANGED <<transferPending, drained>>
           \/ LoopHead(transferPending, transferPendingRows, transferWriterPaused)
    BY <1>4 DEF WriteCommits
  <2>2. \A n \in Blocks : Queued(drained, n) => Settled(n)'
    BY <1>0, <2>1 DEF Overwritten, Queued, Settled, QueuesCurrent, Current
  <2>3. CASE writer' = "persist" /\ UNCHANGED <<transferPending, drained>>
    BY <1>0, <2>1, <2>2, <2>3 DEF Kept, DropInv, DrainedSettled, OwedHasRow, NoClash, Owed,
       Queued
  <2>4. CASE LoopHead(transferPending, transferPendingRows, transferWriterPaused)
    <3>1. /\ \A n : Queued(transferPending, n) <=> Owed(n)'
          /\ writer' \in {"idle", "write"}
          /\ \A n : ~(Queued(drained, n)' /\ n \in DOMAIN transferPending')
      BY <2>4, HeadKeepsOwed
    <3>. QED
      BY <1>0, <2>1, <2>2, <3>1 DEF Kept, DropInv, DrainedSettled, OwedHasRow, NoClash, Owed,
         MayGo
  <2>. QED
    BY <2>1, <2>3, <2>4
<1>5. CASE WriteFails \/ PersistFails
  <2>1. Requeue /\ blocks' = blocks
    BY <1>5 DEF WriteFails, PersistFails
  <2>2. writer' = "backoff" /\ drained' = NoQueue
    BY <2>1 DEF Requeue
  <2>3. \A n \in Blocks : Owed(n)' <=> Owed(n)
    BY <1>0, <2>1, RequeueKeepsOwed
  <2>. QED
    BY <1>0, <1>q, <2>1, <2>2, <2>3, NothingGoes DEF Queued
<1>6. CASE PersistCommits
  <2>1. /\ writer = "persist" /\ UNCHANGED <<blocks, version, token_transfers>>
        /\ LoopHead(transferPending, transferPendingRows, transferWriterPaused)
    BY <1>6 DEF PersistCommits
  <2>2. /\ \A n : Queued(transferPending, n) <=> Owed(n)'
        /\ writer' \in {"idle", "write"}
        /\ \A n : ~(Queued(drained, n)' /\ n \in DOMAIN transferPending')
    BY <2>1, HeadKeepsOwed
  <2>. QED
    BY <1>0, <2>1, <2>2 DEF Kept, DropInv, DrainedSettled, OwedHasRow, NoClash, Owed, MayGo,
       Settled
<1>7. CASE BackoffEnds
  <2>1. /\ drained = NoQueue /\ blocks' = blocks
        /\ LoopHead(transferPending, transferPendingRows, transferWriterPaused)
    BY <1>0, <1>7 DEF BackoffEnds, DrainerIdle
  <2>2. /\ \A n : Queued(transferPending, n) <=> Owed(n)'
        /\ writer' \in {"idle", "write"}
        /\ \A n : ~(Queued(drained, n)' /\ n \in DOMAIN transferPending')
    BY <2>1, HeadKeepsOwed
  <2>3. \A n \in Blocks : Owed(n)' <=> Owed(n)
    BY <1>q, <2>1, <2>2 DEF Owed
  <2>. QED
    BY <2>1, <2>2, <2>3, NothingGoes
<1>8. ASSUME NEW f \in 0 .. MaxBlock - 1, RollbackBegins(f)
      PROVE  Kept
  BY <1>0, <1>8 DEF RollbackBegins, Kept, DropInv, DrainedSettled, OwedHasRow, NoClash, Owed,
     Queued, Settled
<1>9. CASE RollbackPurges
  <2> DEFINE doomed == Above(DOMAIN transferPending, rollback.fork)
             kept   == Restrict(transferPending, DOMAIN transferPending \ doomed)
             rows   == transferPendingRows - RowsOf(transferPending, doomed)
  <2>1. /\ rollback.phase = "quiesce" /\ writer = "idle" /\ blocks' = blocks
        /\ \/ transferPending' = kept /\ UNCHANGED <<writer, drained>>
           \/ RunTransferWriter(kept, rows, transferWriterSeeded, FALSE)
    BY <1>9 DEF RollbackPurges, Quiesced, Resume
  <2>2. drained = NoQueue
    BY <1>0, <2>1 DEF DrainerIdle
  <2>3. \A n : Queued(kept, n) <=> Queued(transferPending, n) /\ ~(n > rollback.fork)
    BY DEF Queued, Restrict, Above
  <2> HIDE DEF doomed, kept, rows
  <2>4. /\ \A n : Queued(kept, n) <=> Owed(n)'
        /\ writer' # "persist"
        /\ \A n : ~(Queued(drained, n)' /\ n \in DOMAIN transferPending')
    <3>1. CASE transferPending' = kept /\ UNCHANGED <<writer, drained>>
      BY <1>q, <2>1, <2>2, <3>1 DEF Owed, Queued
    <3>2. CASE RunTransferWriter(kept, rows, transferWriterSeeded, FALSE)
      BY <1>0, <1>q, <2>1, <2>2, <3>2, RunKeepsOwed
    <3>. QED
      BY <2>1, <3>1, <3>2
  <2>5. \A n \in Blocks : Owed(n) /\ ~Owed(n)' => n > rollback.fork
    BY <1>q, <2>2, <2>3, <2>4 DEF Owed
  <2>. QED
    BY <1>0, <2>1, <2>3, <2>4, <2>5 DEF Kept, DropInv, DrainedSettled, OwedHasRow, NoClash,
       Owed, MayGo
<1>10. CASE RollbackPersists \/ RollbackPersistFails
  <2>1. /\ writer = "idle" /\ drained = NoQueue /\ blocks' = blocks
        /\ RunTransferWriter(transferPending, transferPendingRows, transferWriterSeeded, FALSE)
    BY <1>0, <1>10 DEF RollbackPersists, RollbackPersistFails, Resume, PausedInRollback,
       DrainerIdle
  <2>2. /\ \A n : Queued(transferPending, n) \/ Queued(drained, n) <=> Owed(n)'
        /\ writer' = "persist" => writer = "persist"
        /\ \A n : Queued(drained, n)' /\ n \in DOMAIN transferPending' => Queued(drained, n)
    BY <1>0, <2>1, RunKeepsOwed
  <2>. QED
    BY <1>q, <2>1, <2>2, NothingGoes DEF Owed
<1>11. CASE UnwindPoison \/ UnwindTransfers \/ UnwindBlocks \/ UnwindFails
  <2>1. /\ UNCHANGED <<transferPending, drained, writer>>
        /\ \A n \in DOMAIN transferPending \cup DOMAIN drained : ~(n > rollback.fork)
    BY <1>0, <1>11 DEF UnwindPoison, UnwindTransfers, UnwindBlocks, UnwindFails,
       WriterBelowFork, Purged, Phases, Blocks, Heights, TypeOK
  <2>2. /\ \A n \in Blocks : ~(n > rollback.fork) /\ n \in blocks => n \in blocks'
        /\ \A n \in Blocks : ~(n > rollback.fork) /\ Settled(n) => Settled(n)'
    BY <1>11 DEF UnwindPoison, UnwindTransfers, UnwindBlocks, UnwindFails, Above, Settled
  <2>. QED
    BY <1>0, <2>1, <2>2 DEF Kept, DropInv, DrainedSettled, OwedHasRow, NoClash, Owed, Queued
<1>12. CASE Crash
  BY <1>q, <1>12 DEF Crash, Kept, DropInv, DrainedSettled, OwedHasRow, NoClash, Owed, Queued,
     NoQueue, MayGo
<1>13. ASSUME NEW seed \in Heights, InitTransferWriter(seed)
       PROVE  Kept
  <2>1. RunTransferWriter(transferPending, transferPendingRows, TRUE, transferWriterPaused)
    BY <1>13 DEF InitTransferWriter
  <2>2. UNCHANGED <<blocks, token_transfers, version>>
    BY <1>13 DEF InitTransferWriter
  <2>3. /\ \A n : Owed(n) <=> Owed(n)'
        /\ writer' = "persist" => writer = "persist" /\ drained' = drained
        /\ \A n : Queued(drained, n)' /\ n \in DOMAIN transferPending' =>
                    /\ Queued(drained, n) /\ n \in DOMAIN transferPending
                    /\ transferPending'[n] = transferPending[n]
    BY <1>0, <2>1, RunKeepsOwed DEF Owed
  <2>. QED
    BY <1>0, <2>2, <2>3 DEF Kept, DropInv, DrainedSettled, OwedHasRow, NoClash, Queued, Settled
<1>14. ASSUME NEW n \in Blocks, RowWritten(n)
       PROVE  Kept
  BY <1>0, <1>14 DEF RowWritten, Kept, DropInv, DrainedSettled, OwedHasRow, NoClash, Owed,
     Queued, Settled
<1>15. CASE UNCHANGED vars
  BY <1>0, <1>15 DEF vars, Kept, DropInv, DrainedSettled, OwedHasRow, NoClash, Owed, Queued,
     Settled
<1>16. transfers_durable_block \in Heights
  BY <1>0 DEF TypeOK
<1>. QED
  BY <1>1, <1>2, <1>3, <1>4, <1>5, <1>6, <1>7, <1>8, <1>9, <1>10, <1>11, <1>12, <1>13, <1>14,
     <1>15, <1>16 DEF FedNext, RowsNext, Next, ClientStep, DrainStep, RecoveryStep

(* A decode that was handed over leaves the writer only as rows in the      *)
(* table, by the purge of a reorg below it, or with the process.            *)
THEOREM NothingDropped == Spec => NoDecodeDropped
<1>1. Init => DropInv
  BY DEF Init, DropInv, DrainedSettled, OwedHasRow, NoClash, Owed, Queued, NoQueue
<1>2. IInv /\ DropInv /\ [Next]_vars => DropInv'
  BY DropStep DEF Kept, IInv, FedNext, RowsNext
<1>3. IInv /\ DropInv /\ [Next]_vars =>
        [\A n \in Blocks :
           Owed(n) /\ ~Owed(n)' =>
             \/ Settled(n)'
             \/ rollback.phase = "quiesce" /\ n > rollback.fork
             \/ ~transferWriterSeeded']_vars
  BY DropStep DEF Kept, MayGo, IInv, FedNext, RowsNext
<1>. QED
  BY <1>1, <1>2, <1>3, Invariance, PTL DEF Spec, NoDecodeDropped

-----------------------------------------------------------------------------
(* The row counter: sums over sets, the rows of a queue, every step.        *)

(* One step of the sum: the value of a set, given those of its subsets.     *)
Addend(f, g, s) ==
  IF s = {} THEN 0 ELSE f[CHOOSE x \in s : TRUE] + g[s \ {CHOOSE x \in s : TRUE}]

(* g is the function that SumFunctionOnSet computes by recursion.           *)
IsSum(f, S, g) == g = [s \in SUBSET S |-> Addend(f, g, s)]

(* The library's sum over a set is the value at it of such a function.      *)
LEMMA SumUnfolds ==
  ASSUME NEW f, NEW S
  PROVE  SumFunctionOnSet(f, S) = (CHOOSE g : IsSum(f, S, g))[S]
BY DEF SumFunctionOnSet, FoldFunctionOnSet, MapThenFoldSet, Addend, IsSum

LEMMA LeastNat ==
  ASSUME NEW S \in SUBSET Nat, S # {}
  PROVE  \E m \in S : \A n \in S : m <= n
<1>1. PICK m \in S : \A n \in S : ~ (<<n, m>> \in OpToRel(<, Nat))
  BY NatLessThanWellFounded, WFMin
<1>2. \A n \in S : ~ (n < m)
  BY <1>1, Zenon DEF OpToRel
<1>. QED
  BY <1>2

(* A family of subsets of a finite set has a member all of whose proper     *)
(* subsets are outside.                                                     *)
LEMMA LeastSet ==
  ASSUME NEW S, IsFiniteSet(S), NEW F \in SUBSET (SUBSET S), F # {}
  PROVE  \E m \in F : \A t \in F : t \subseteq m => t = m
<1>. DEFINE Sizes == {n \in Nat : \E t \in F : Cardinality(t) = n}
<1>1. \A t \in F : IsFiniteSet(t) /\ Cardinality(t) \in Nat
  BY FS_Subset, FS_CardinalityType
<1>2. Sizes # {}
  BY <1>1
<1>3. PICK k \in Sizes : \A n \in Sizes : k <= n
  BY <1>2, LeastNat
<1>4. PICK m \in F : Cardinality(m) = k
  OBVIOUS
<1>5. ASSUME NEW t \in F, t \subseteq m
      PROVE  t = m
  <2>1. Cardinality(t) <= k /\ (Cardinality(t) = k => t = m)
    BY <1>1, <1>4, <1>5, FS_Subset
  <2>2. Cardinality(t) \in Sizes
    BY <1>1
  <2>. QED
    BY <1>3, <2>1, <2>2
<1>. QED
  BY <1>4, <1>5

(* The recursion of the sum has a solution: a solution for the subsets of   *)
(* at most n members extends to those of n + 1.                             *)
Small(S, n) == {s \in SUBSET S : Cardinality(s) <= n}

LEMMA SumExists ==
  ASSUME NEW f, NEW S, IsFiniteSet(S)
  PROVE  \E g : IsSum(f, S, g)
<1>. DEFINE Has(n) == \E g : g = [s \in Small(S, n) |-> Addend(f, g, s)]
            Lacking == {n \in Nat : ~Has(n)}
<1>0. \A s \in SUBSET S : IsFiniteSet(s) /\ Cardinality(s) \in Nat
  BY FS_Subset, FS_CardinalityType
<1>1. Has(0)
  <2>. DEFINE g == [s \in Small(S, 0) |-> 0]
  <2>1. \A s \in Small(S, 0) : s = {}
    BY <1>0, FS_EmptySet DEF Small
  <2>2. \A s \in Small(S, 0) : g[s] = Addend(f, g, s)
    BY <2>1 DEF Addend
  <2>3. g = [s \in Small(S, 0) |-> g[s]]
    OBVIOUS
  <2> HIDE DEF g
  <2>4. g = [s \in Small(S, 0) |-> Addend(f, g, s)]
    BY <2>2, <2>3
  <2>. QED
    BY <2>4
<1>2. ASSUME NEW n \in Nat, Has(n)
      PROVE  Has(n + 1)
  <2>1. PICK g : g = [s \in Small(S, n) |-> Addend(f, g, s)]
    BY <1>2
  <2>. DEFINE h == [s \in Small(S, n + 1) |->
                      IF s \in Small(S, n) THEN g[s] ELSE Addend(f, g, s)]
  <2>2. ASSUME NEW s \in Small(S, n + 1)
        PROVE  h[s] = Addend(f, h, s)
    <3>1. h[s] = Addend(f, g, s)
      <4>1. s \in Small(S, n) => g[s] = Addend(f, g, s)
        BY <2>1
      <4>. QED
        BY <4>1
    <3>2. CASE s = {}
      BY <3>1, <3>2 DEF Addend
    <3>3. CASE s # {}
      <4>. DEFINE c == CHOOSE x \in s : TRUE
      <4>1. c \in s
        BY <3>3
      <4>2. s \in SUBSET S /\ Cardinality(s) <= n + 1
        BY DEF Small
      <4> HIDE DEF c
      <4>3. Cardinality(s \ {c}) = Cardinality(s) - 1
        BY <1>0, <4>1, <4>2, FS_RemoveElement
      <4>4. s \ {c} \in SUBSET S
        BY <4>2
      <4>5. Cardinality(s \ {c}) \in Nat /\ Cardinality(s) \in Nat
        BY <1>0, <4>2, <4>4
      <4>6. s \ {c} \in Small(S, n) /\ s \ {c} \in Small(S, n + 1)
        BY <4>2, <4>3, <4>4, <4>5 DEF Small
      <4>7. h[s \ {c}] = g[s \ {c}]
        BY <4>6
      <4> HIDE DEF h
      <4>. QED
        BY <3>1, <4>7 DEF Addend, c
    <3>. QED
      BY <3>2, <3>3
  <2>3. h = [s \in Small(S, n + 1) |-> h[s]]
    OBVIOUS
  <2> HIDE DEF h
  <2>4. h = [s \in Small(S, n + 1) |-> Addend(f, h, s)]
    BY <2>2, <2>3
  <2>. QED
    BY <2>4
<1> HIDE DEF Has
<1>3. \A n \in Nat : Has(n)
  <2>. SUFFICES ASSUME Lacking # {} PROVE FALSE
    OBVIOUS
  <2>1. PICK m \in Lacking : \A n \in Lacking : m <= n
    <3>1. Lacking \in SUBSET Nat
      OBVIOUS
    <3> HIDE DEF Lacking
    <3>. QED
      BY <3>1, LeastNat
  <2>2. m \in Nat /\ m # 0
    BY <1>1
  <2>3. m - 1 \in Nat /\ (m - 1) + 1 = m
    BY <2>2
  <2>4. Has(m - 1)
    BY <2>1, <2>2, <2>3
  <2>5. Has((m - 1) + 1)
    BY <1>2, <2>3, <2>4
  <2>. QED
    BY <2>3, <2>5
<1>4. Has(Cardinality(S))
  BY <1>0, <1>3
<1>5. Small(S, Cardinality(S)) = SUBSET S
  <2>1. \A s \in SUBSET S : Cardinality(s) <= Cardinality(S)
    BY FS_Subset
  <2>. QED
    BY <2>1 DEF Small
<1>. QED
  BY <1>4, <1>5 DEF Has, IsSum

(* The solution takes any member first, whichever CHOOSE would.             *)
LEMMA AnyFirst ==
  ASSUME NEW f, NEW S, IsFiniteSet(S), \A x \in S : f[x] \in Nat,
         NEW g, IsSum(f, S, g)
  PROVE  \A s \in SUBSET S :
           /\ g[s] \in Nat
           /\ s = {} => g[s] = 0
           /\ \A y \in s : g[s] = f[y] + g[s \ {y}]
<1>. DEFINE Good(s) == /\ g[s] \in Nat
                       /\ s = {} => g[s] = 0
                       /\ \A y \in s : g[s] = f[y] + g[s \ {y}]
            Bad == {s \in SUBSET S : ~Good(s)}
<1>1. \A s \in SUBSET S : g[s] = Addend(f, g, s)
  BY DEF IsSum
<1> HIDE DEF Good
<1>. SUFFICES ASSUME Bad # {} PROVE FALSE
  BY DEF Good
<1>2. PICK m \in Bad : \A t \in Bad : t \subseteq m => t = m
  <2>1. Bad \in SUBSET (SUBSET S)
    OBVIOUS
  <2> HIDE DEF Bad
  <2>. QED
    BY <2>1, LeastSet
<1>3. m \in SUBSET S /\ \A t \in SUBSET m : t # m => Good(t)
  BY <1>2
<1>4. CASE m = {}
  <2>1. g[m] = 0
    BY <1>1, <1>3, <1>4 DEF Addend
  <2>. QED
    BY <1>4, <2>1 DEF Good
<1>5. CASE m # {}
  <2>. DEFINE c == CHOOSE x \in m : TRUE
  <2>1. c \in m
    BY <1>5
  <2>2. g[m] = f[c] + g[m \ {c}]
    BY <1>1, <1>3, <1>5 DEF Addend
  <2> HIDE DEF c
  <2>3. g[m] \in Nat
    <3>1. m \ {c} \in SUBSET m /\ m \ {c} # m
      BY <2>1
    <3>2. g[m \ {c}] \in Nat /\ f[c] \in Nat
      BY <1>3, <2>1, <3>1 DEF Good
    <3>. QED
      BY <2>2, <3>2
  <2>4. ASSUME NEW y \in m, y # c
        PROVE  g[m] = f[y] + g[m \ {y}]
    <3>. DEFINE rest == (m \ {y}) \ {c}
    <3>1. (m \ {c}) \ {y} = rest
      OBVIOUS
    <3>2. /\ Good(m \ {c}) /\ y \in m \ {c}
          /\ Good(m \ {y}) /\ c \in m \ {y}
          /\ Good(rest)
      <4>1. /\ m \ {c} \in SUBSET m /\ m \ {c} # m
            /\ m \ {y} \in SUBSET m /\ m \ {y} # m
            /\ rest \in SUBSET m /\ rest # m
        BY <2>1, <2>4
      <4>. QED
        BY <1>3, <2>1, <2>4, <4>1
    <3>3. g[m \ {c}] = f[y] + g[rest]
      BY <3>1, <3>2 DEF Good
    <3>4. g[m \ {y}] = f[c] + g[rest]
      BY <3>2 DEF Good
    <3>5. g[rest] \in Nat
      BY <3>2 DEF Good
    <3>6. f[c] \in Nat /\ f[y] \in Nat
      BY <1>3, <2>1
    <3> HIDE DEF rest
    <3>. QED
      BY <2>2, <3>3, <3>4, <3>5, <3>6
  <2>. QED
    BY <1>5, <2>2, <2>3, <2>4 DEF Good
<1>. QED
  BY <1>4, <1>5

(* The sum of no numbers, of a set and of a set without one member.         *)
LEMMA SumStep ==
  ASSUME NEW f, NEW S, IsFiniteSet(S), \A x \in S : f[x] \in Nat
  PROVE  /\ SumFunctionOnSet(f, S) \in Nat
         /\ S = {} => SumFunctionOnSet(f, S) = 0
         /\ \A y \in S : SumFunctionOnSet(f, S) = f[y] + SumFunctionOnSet(f, S \ {y})
<1>. DEFINE Sol(T) == CHOOSE g : IsSum(f, T, g)
<1>1. \A T \in SUBSET S : IsFiniteSet(T) /\ IsSum(f, T, Sol(T))
  BY FS_Subset, SumExists
<1>2. \A T : SumFunctionOnSet(f, T) = Sol(T)[T]
  BY SumUnfolds
<1> HIDE DEF Sol
<1>3. SumFunctionOnSet(f, S) \in Nat /\ (S = {} => SumFunctionOnSet(f, S) = 0)
  BY <1>1, <1>2, AnyFirst
<1>4. ASSUME NEW y \in S
      PROVE  SumFunctionOnSet(f, S) = f[y] + SumFunctionOnSet(f, S \ {y})
  <2>. DEFINE T == S \ {y}
              Apart == {t \in SUBSET T : Sol(S)[t] # Sol(T)[t]}
  <2>0. /\ T \in SUBSET S /\ IsFiniteSet(T) /\ IsSum(f, T, Sol(T))
        /\ S \in SUBSET S /\ IsSum(f, S, Sol(S))
        /\ \A x \in T : f[x] \in Nat
    BY <1>1
  <2>1. Sol(S)[S] = f[y] + Sol(S)[T]
    BY <2>0, AnyFirst
  <2>2. Apart = {}
    <3>. SUFFICES ASSUME Apart # {} PROVE FALSE
      OBVIOUS
    <3>1. PICK m \in Apart : \A t \in Apart : t \subseteq m => t = m
      <4>1. Apart \in SUBSET (SUBSET T)
        OBVIOUS
      <4> HIDE DEF Apart, T
      <4>. QED
        BY <2>0, <4>1, LeastSet
    <3>2. m \in SUBSET T /\ m \in SUBSET S
      BY <2>0
    <3>3. CASE m = {}
      <4>1. Sol(S)[m] = 0 /\ Sol(T)[m] = 0
        BY <2>0, <3>2, <3>3, AnyFirst
      <4>. QED
        BY <4>1
    <3>4. CASE m # {}
      <4>1. PICK x : x \in m
        BY <3>4
      <4>2. /\ Sol(S)[m] = f[x] + Sol(S)[m \ {x}]
            /\ Sol(T)[m] = f[x] + Sol(T)[m \ {x}]
        BY <2>0, <3>2, <4>1, AnyFirst
      <4>3. m \ {x} \in SUBSET T /\ m \ {x} \subseteq m /\ m \ {x} # m
        BY <3>2, <4>1
      <4>4. m \ {x} \notin Apart
        BY <3>1, <4>3
      <4>5. Sol(S)[m \ {x}] = Sol(T)[m \ {x}]
        BY <4>3, <4>4
      <4>. QED
        BY <4>2, <4>5
    <3>. QED
      BY <3>3, <3>4
  <2>3. Sol(S)[T] = Sol(T)[T]
    BY <2>2
  <2>. QED
    BY <1>2, <2>1, <2>3
<1>. QED
  BY <1>3, <1>4

(* A sum looks at its set only.                                             *)
LEMMA SumSame ==
  ASSUME NEW f, NEW h, NEW S, IsFiniteSet(S),
         \A x \in S : f[x] \in Nat /\ h[x] = f[x]
  PROVE  SumFunctionOnSet(f, S) = SumFunctionOnSet(h, S)
<1>. DEFINE Apart == {t \in SUBSET S : SumFunctionOnSet(f, t) # SumFunctionOnSet(h, t)}
<1>. SUFFICES ASSUME Apart # {} PROVE FALSE
  OBVIOUS
<1>1. PICK m \in Apart : \A t \in Apart : t \subseteq m => t = m
  <2>1. Apart \in SUBSET (SUBSET S)
    OBVIOUS
  <2> HIDE DEF Apart
  <2>. QED
    BY <2>1, LeastSet
<1>2. m \in SUBSET S /\ IsFiniteSet(m)
  BY FS_Subset
<1>3. CASE m = {}
  <2>1. SumFunctionOnSet(f, m) = 0 /\ SumFunctionOnSet(h, m) = 0
    BY <1>2, <1>3, SumStep
  <2>. QED
    BY <2>1
<1>4. CASE m # {}
  <2>1. PICK x : x \in m
    BY <1>4
  <2>2. /\ SumFunctionOnSet(f, m) = f[x] + SumFunctionOnSet(f, m \ {x})
        /\ SumFunctionOnSet(h, m) = h[x] + SumFunctionOnSet(h, m \ {x})
    <3>1. \A y \in m : f[y] \in Nat /\ h[y] \in Nat
      BY <1>2
    <3>. QED
      BY <1>2, <2>1, <3>1, SumStep
  <2>3. /\ m \ {x} \in SUBSET S /\ m \ {x} \subseteq m /\ m \ {x} # m
        /\ h[x] = f[x]
    BY <1>2, <2>1
  <2>4. m \ {x} \notin Apart
    BY <1>1, <2>3
  <2>. QED
    BY <2>2, <2>3, <2>4
<1>. QED
  BY <1>3, <1>4

(* The rows of a part of a queue.                                           *)
LEMMA RowsStep ==
  ASSUME NEW q, IsQueue(q), NEW S \in SUBSET DOMAIN q
  PROVE  /\ IsFiniteSet(S)
         /\ RowsOf(q, S) \in Nat
         /\ S = {} => RowsOf(q, S) = 0
         /\ \A n \in S : RowsOf(q, S) = q[n].rows + RowsOf(q, S \ {n})
<1>. DEFINE f == [n \in S |-> q[n].rows]
<1>1. \A n \in S : q[n].rows \in Nat
  BY DEF IsQueue, Batch
<1>2. IsFiniteSet(S)
  <2>1. IsFiniteSet(Blocks)
    BY BoundsAssumption, FS_Interval DEF Blocks
  <2>. QED
    BY <2>1, FS_Subset DEF IsQueue
<1>3. \A n \in S : f[n] \in Nat /\ f[n] = q[n].rows
  BY <1>1
<1>4. RowsOf(q, S) = SumFunctionOnSet(f, S)
  BY DEF RowsOf
<1>5. ASSUME NEW n \in S
      PROVE  RowsOf(q, S \ {n}) = SumFunctionOnSet(f, S \ {n})
  <2>. DEFINE T == S \ {n}
              h == [k \in T |-> q[k].rows]
  <2>1. \A x \in T : f[x] \in Nat /\ h[x] = f[x]
    BY <1>3
  <2>2. IsFiniteSet(T)
    BY <1>2, FS_Subset
  <2>3. RowsOf(q, T) = SumFunctionOnSet(h, T)
    BY DEF RowsOf
  <2> HIDE DEF T, h, f
  <2>4. SumFunctionOnSet(f, T) = SumFunctionOnSet(h, T)
    BY <2>1, <2>2, SumSame
  <2>. QED
    BY <2>3, <2>4 DEF T
<1> HIDE DEF f
<1>. QED
  BY <1>2, <1>3, <1>4, <1>5, SumStep

LEMMA RowsSame ==
  ASSUME NEW p, NEW q, NEW S, \A n \in S : p[n] = q[n]
  PROVE  RowsOf(p, S) = RowsOf(q, S)
<1>1. [n \in S |-> p[n].rows] = [n \in S |-> q[n].rows]
  OBVIOUS
<1>. QED
  BY <1>1 DEF RowsOf

LEMMA RowsSplit ==
  ASSUME NEW q, IsQueue(q), NEW S \in SUBSET DOMAIN q, NEW T \in SUBSET DOMAIN q,
         S \cap T = {}
  PROVE  RowsOf(q, S \cup T) = RowsOf(q, S) + RowsOf(q, T)
<1>. DEFINE Wrong == {t \in SUBSET T : RowsOf(q, S \cup t) # RowsOf(q, S) + RowsOf(q, t)}
<1>. SUFFICES ASSUME Wrong # {} PROVE FALSE
  OBVIOUS
<1>1. PICK m \in Wrong : \A t \in Wrong : t \subseteq m => t = m
  <2>1. Wrong \in SUBSET (SUBSET T) /\ IsFiniteSet(T)
    BY RowsStep
  <2> HIDE DEF Wrong
  <2>. QED
    BY <2>1, LeastSet
<1>2. m \in SUBSET T /\ m \in SUBSET DOMAIN q /\ S \cup m \in SUBSET DOMAIN q
  OBVIOUS
<1>3. CASE m = {}
  <2>1. RowsOf(q, m) = 0 /\ RowsOf(q, S) \in Nat /\ S \cup m = S
    BY <1>2, <1>3, RowsStep
  <2>2. RowsOf(q, S \cup m) = RowsOf(q, S)
    BY <2>1
  <2>3. RowsOf(q, S \cup m) = RowsOf(q, S) + RowsOf(q, m)
    BY <2>1, <2>2
  <2>. QED
    BY <2>3
<1>4. CASE m # {}
  <2>1. PICK x : x \in m
    BY <1>4
  <2>2. (S \cup m) \ {x} = S \cup (m \ {x})
    BY <1>2, <2>1
  <2>3. /\ RowsOf(q, S \cup m) = q[x].rows + RowsOf(q, S \cup (m \ {x}))
        /\ RowsOf(q, m) = q[x].rows + RowsOf(q, m \ {x})
    <3>1. RowsOf(q, m) = q[x].rows + RowsOf(q, m \ {x})
      BY <1>2, <2>1, RowsStep
    <3>2. RowsOf(q, S \cup m) = q[x].rows + RowsOf(q, (S \cup m) \ {x})
      BY <1>2, <2>1, RowsStep
    <3>. QED
      BY <2>2, <3>1, <3>2
  <2>4. /\ m \ {x} \in SUBSET T /\ m \ {x} \subseteq m /\ m \ {x} # m
        /\ m \ {x} \in SUBSET DOMAIN q
    BY <1>2, <2>1
  <2>5. RowsOf(q, S \cup (m \ {x})) = RowsOf(q, S) + RowsOf(q, m \ {x})
    BY <1>1, <2>4
  <2>6. q[x].rows \in Nat /\ RowsOf(q, S) \in Nat /\ RowsOf(q, m \ {x}) \in Nat
    <3>1. RowsOf(q, S) \in Nat /\ RowsOf(q, m \ {x}) \in Nat
      BY <2>4, RowsStep
    <3>. QED
      BY <1>2, <2>1, <3>1 DEF IsQueue, Batch
  <2>7. RowsOf(q, S \cup m) = RowsOf(q, S) + RowsOf(q, m)
    BY <2>3, <2>5, <2>6
  <2>. QED
    BY <2>7
<1>. QED
  BY <1>3, <1>4

(* What the operations do to the rows of the whole queue.                   *)
Total(q) == RowsOf(q, DOMAIN q)

LEMMA TotalPut ==
  ASSUME NEW q, IsQueue(q), NEW n \in Blocks, NEW b \in Batch
  PROVE  /\ Total(q) \in Nat
         /\ Total(Put(q, n, b)) = Total(q) - RowsAt(q, n) + b.rows
<1>. DEFINE p == Put(q, n, b)
            rest == DOMAIN q \ {n}
<1>1. /\ DOMAIN p = DOMAIN q \cup {n} /\ p[n] = b
      /\ \A k \in rest : p[k] = q[k]
  BY DEF Put
<1>2. IsQueue(p)
  BY QueuePut
<1> HIDE DEF p
<1>3. Total(p) = b.rows + RowsOf(p, rest)
  <2>1. DOMAIN p \in SUBSET DOMAIN p /\ n \in DOMAIN p /\ DOMAIN p \ {n} = rest
    BY <1>1
  <2> HIDE DEF rest
  <2>. QED
    BY <1>1, <1>2, <2>1, RowsStep DEF Total
<1>4. RowsOf(p, rest) = RowsOf(q, rest)
  BY <1>1, RowsSame
<1>5. Total(q) = RowsAt(q, n) + RowsOf(q, rest)
  <2>1. CASE n \in DOMAIN q
    BY <2>1, RowsStep DEF Total, RowsAt
  <2>2. CASE n \notin DOMAIN q
    <3>1. rest = DOMAIN q
      BY <2>2
    <3>2. RowsOf(q, DOMAIN q) \in Nat
      BY RowsStep
    <3>. QED
      BY <2>2, <3>1, <3>2 DEF Total, RowsAt
  <2>. QED
    BY <2>1, <2>2
<1>6. /\ Total(q) \in Nat /\ RowsOf(q, rest) \in Nat
      /\ RowsAt(q, n) \in Nat /\ b.rows \in Nat
  <2>1. Total(q) \in Nat /\ RowsOf(q, rest) \in Nat
    BY RowsStep DEF Total
  <2>. QED
    BY <2>1 DEF RowsAt, IsQueue, Batch
<1> HIDE DEF rest
<1>. QED
  BY <1>3, <1>4, <1>5, <1>6 DEF p

LEMMA TotalMerged ==
  ASSUME NEW p, NEW q, IsQueue(p), IsQueue(q)
  PROVE  Total(Merged(p, q)) = Total(p) + RowsOf(q, DOMAIN q \ DOMAIN p)
<1>. DEFINE m == Merged(p, q)
            more == DOMAIN q \ DOMAIN p
<1>1. /\ DOMAIN m = DOMAIN p \cup more /\ DOMAIN p \cap more = {}
      /\ \A k \in DOMAIN p : m[k] = p[k]
      /\ \A k \in more : m[k] = q[k]
  BY DEF Merged
<1>2. IsQueue(m)
  BY QueueMerged
<1> HIDE DEF m, more
<1>3. RowsOf(m, DOMAIN p \cup more) = RowsOf(m, DOMAIN p) + RowsOf(m, more)
  BY <1>1, <1>2, RowsSplit
<1>4. RowsOf(m, DOMAIN p) = RowsOf(p, DOMAIN p) /\ RowsOf(m, more) = RowsOf(q, more)
  BY <1>1, RowsSame
<1>. QED
  BY <1>1, <1>3, <1>4 DEF Total, m, more

LEMMA TotalRestrict ==
  ASSUME NEW q, IsQueue(q), NEW S \in SUBSET DOMAIN q
  PROVE  Total(Restrict(q, DOMAIN q \ S)) = Total(q) - RowsOf(q, S)
<1>. DEFINE kept == DOMAIN q \ S
            r == Restrict(q, kept)
<1>1. /\ DOMAIN r = kept
      /\ \A k \in kept : r[k] = q[k]
  BY DEF Restrict
<1>2. /\ kept \in SUBSET DOMAIN q /\ kept \cap S = {}
      /\ DOMAIN q = kept \cup S
  OBVIOUS
<1> HIDE DEF kept, r
<1>3. RowsOf(q, DOMAIN q) = RowsOf(q, kept) + RowsOf(q, S)
  BY <1>2, RowsSplit
<1>4. RowsOf(r, kept) = RowsOf(q, kept)
  BY <1>1, RowsSame
<1>5. RowsOf(q, kept) \in Nat /\ RowsOf(q, S) \in Nat
  BY <1>2, RowsStep
<1>. QED
  BY <1>1, <1>3, <1>4, <1>5 DEF Total, r, kept

LEMMA TotalEmpty == Total(NoQueue) = 0
<1>1. DOMAIN NoQueue = {}
  BY DEF NoQueue
<1>. QED
  BY <1>1, QueueEmpty, RowsStep DEF Total

(* The head of the loop and the start of the drainer pass the count on.     *)
LEMMA HeadCounts ==
  ASSUME NEW STATE q, NEW STATE rows, NEW STATE paused,
         rows = Total(q), LoopHead(q, rows, paused)
  PROVE  transferPendingRows' = Total(transferPending')
BY TotalEmpty DEF LoopHead

LEMMA RunCounts ==
  ASSUME NEW STATE q, NEW STATE rows, NEW STATE seeded, NEW STATE paused,
         rows = Total(q), RunTransferWriter(q, rows, seeded, paused)
  PROVE  transferPendingRows' = Total(transferPending')
BY HeadCounts DEF RunTransferWriter

LEMMA RequeueCounts ==
  ASSUME TypeOK, transferPendingRows = Total(transferPending), Requeue
  PROVE  transferPendingRows' = Total(transferPending')
<1>1. IsQueue(transferPending) /\ IsQueue(drained)
  BY DEF TypeOK
<1>. QED
  BY <1>1, TotalMerged DEF Requeue

(* The counter through every step.                                          *)
LEMMA CounterStep ==
  ASSUME TypeOK, RowCounterExact, [FedNext]_vars
  PROVE  RowCounterExact'
<1>0. transferPendingRows = Total(transferPending)
  BY DEF RowCounterExact, Total
<1>. SUFFICES transferPendingRows' = Total(transferPending')
  BY DEF RowCounterExact, Total
<1>. USE DEF queueVars
<1>q. IsQueue(transferPending) /\ IsQueue(drained)
  BY DEF TypeOK
<1>1. ASSUME NEW n \in Blocks, EnqueueTransferWrite(n)
      PROVE  transferPendingRows' = Total(transferPending')
  <2>1. RealBatch(n, version[n]) \in Batch
    BY RowCountAssumption DEF TypeOK, RealBatch, Batch
  <2>2. Total(Put(transferPending, n, RealBatch(n, version[n])))
          = transferPendingRows - RowsAt(transferPending, n) + RealBatch(n, version[n]).rows
    BY <1>0, <1>q, <2>1, TotalPut
  <2>. QED
    BY <1>1, <2>2, RunCounts DEF EnqueueTransferWrite
<1>2. ASSUME NEW n \in Blocks, EnqueueQuarantinedBlock(n)
      PROVE  transferPendingRows' = Total(transferPending')
  <2>1. CASE n \in DOMAIN transferPending /\ ~transferPending[n].quarantine
    BY <1>0, <1>2, <2>1 DEF EnqueueQuarantinedBlock
  <2>2. CASE ~(n \in DOMAIN transferPending /\ ~transferPending[n].quarantine)
    <3>1. QuarantineBatch \in Batch /\ QuarantineBatch.rows = 0
      BY BoundsAssumption DEF QuarantineBatch, Batch, Versions
    <3>2. Total(Put(transferPending, n, QuarantineBatch))
            = Total(transferPending) - RowsAt(transferPending, n) + QuarantineBatch.rows
      BY <1>q, <3>1, TotalPut
    <3>3. Total(transferPending) \in Nat /\ RowsAt(transferPending, n) \in Nat
      BY <1>q, <3>1, TotalPut DEF RowsAt, IsQueue, Batch
    <3>4. Total(Put(transferPending, n, QuarantineBatch))
            = transferPendingRows - RowsAt(transferPending, n)
      BY <1>0, <3>1, <3>2, <3>3
    <3>. QED
      BY <1>2, <2>2, <3>4, RunCounts DEF EnqueueQuarantinedBlock
  <2>. QED
    BY <2>1, <2>2
<1>3. ASSUME NEW n \in Blocks,
             \/ OtherGenerationWrites(n) \/ SetDurableFloor(n)
             \/ FloorPersistLands(n) \/ FloorPersistFails(n)
      PROVE  transferPendingRows' = Total(transferPending')
  BY <1>0, <1>3 DEF OtherGenerationWrites, SetDurableFloor, FloorPersistLands,
     FloorPersistFails, memoryVars
<1>4. CASE WriteCommits
  BY <1>0, <1>4, HeadCounts DEF WriteCommits
<1>5. CASE WriteFails \/ PersistFails
  BY <1>0, <1>5, RequeueCounts DEF WriteFails, PersistFails
<1>6. CASE PersistCommits \/ BackoffEnds
  BY <1>0, <1>6, HeadCounts DEF PersistCommits, BackoffEnds
<1>7. ASSUME NEW f \in 0 .. MaxBlock - 1, RollbackBegins(f)
      PROVE  transferPendingRows' = Total(transferPending')
  BY <1>0, <1>7 DEF RollbackBegins
<1>8. CASE RollbackPurges
  <2>. DEFINE doomed == Above(DOMAIN transferPending, rollback.fork)
              kept   == Restrict(transferPending, DOMAIN transferPending \ doomed)
              rows   == transferPendingRows - RowsOf(transferPending, doomed)
  <2>1. doomed \in SUBSET DOMAIN transferPending
    BY DEF Above
  <2>2. rows = Total(kept)
    <3> HIDE DEF doomed
    <3>. QED
      BY <1>0, <1>q, <2>1, TotalRestrict
  <2>3. \/ transferPending' = kept /\ transferPendingRows' = rows
        \/ RunTransferWriter(kept, rows, transferWriterSeeded, FALSE)
    BY <1>8 DEF RollbackPurges, Resume
  <2> HIDE DEF kept, rows
  <2>4. CASE transferPending' = kept /\ transferPendingRows' = rows
    BY <2>2, <2>4
  <2>5. CASE RunTransferWriter(kept, rows, transferWriterSeeded, FALSE)
    BY <2>2, <2>5, RunCounts
  <2>. QED
    BY <2>3, <2>4, <2>5
<1>9. CASE RollbackPersists \/ RollbackPersistFails
  <2>1. RunTransferWriter(transferPending, transferPendingRows, transferWriterSeeded, FALSE)
    BY <1>9 DEF RollbackPersists, RollbackPersistFails, Resume
  <2>. QED
    BY <1>0, <2>1, RunCounts
<1>10. CASE UnwindPoison \/ UnwindTransfers \/ UnwindBlocks \/ UnwindFails
  BY <1>0, <1>10 DEF UnwindPoison, UnwindTransfers, UnwindBlocks, UnwindFails
<1>11. CASE Crash
  BY <1>11, TotalEmpty DEF Crash
<1>12. ASSUME NEW seed \in Heights, InitTransferWriter(seed)
       PROVE  transferPendingRows' = Total(transferPending')
  <2>1. RunTransferWriter(transferPending, transferPendingRows, TRUE, transferWriterPaused)
    BY <1>12 DEF InitTransferWriter
  <2>. QED
    BY <1>0, <2>1, RunCounts
<1>13. ASSUME NEW n \in Blocks, RowWritten(n)
       PROVE  transferPendingRows' = Total(transferPending')
  BY <1>0, <1>13 DEF RowWritten, memoryVars
<1>14. CASE UNCHANGED vars
  BY <1>0, <1>14 DEF vars, memoryVars
<1>15. transfers_durable_block \in Heights
  BY DEF TypeOK
<1>. QED
  BY <1>1, <1>2, <1>3, <1>4, <1>5, <1>6, <1>7, <1>8, <1>9, <1>10, <1>11, <1>12, <1>13,
     <1>14, <1>15 DEF FedNext, RowsNext, Next, ClientStep, DrainStep, RecoveryStep

(* The counter that drives backpressure and the high-water alert is exactly *)
(* the number of rows queued, whatever the heights' rows are and however    *)
(* replacement, drain, requeue, purge, crash and seed follow one another.   *)
THEOREM CounterExact == Spec => []RowCounterExact
<1>1. Init => RowCounterExact
  BY TotalEmpty DEF Init, RowCounterExact, Total
<1>2. IInv /\ RowCounterExact /\ [Next]_vars => RowCounterExact'
  BY CounterStep DEF IInv, WriterInv, FedNext, RowsNext
<1>. QED
  BY <1>1, <1>2, Invariance, PTL DEF Spec
=============================================================================
