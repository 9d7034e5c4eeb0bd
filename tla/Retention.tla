------------------------------ MODULE Retention ------------------------------
(***************************************************************************)
(* The retention job of the indexer                                         *)
(* (apps/indexer/src/retention-cleanup.ts, retention-policy.ts): a body     *)
(* window after which what can be fetched again is pruned, and, only if one *)
(* is configured, a compact window after which the rows themselves go.      *)
(* Blocks are indexed, and gaps healed, while a run is under way.           *)
(*                                                                          *)
(* The block of height n is mined on day n; days pass, and gaps are healed, *)
(* between any two statements of a run.  A batch loop removes what it is to *)
(* remove, or fails after some of the batches; every failure is logged and  *)
(* the run goes on.                                                         *)
(***************************************************************************)
EXTENDS Integers, FiniteSets, FiniteSetsExt

CONSTANTS
  MaxTime,    \* bound of the model: last day
  MaxFailed,  \* bound of the model: failures of one run
  Policies,   \* [body, compact, width]: RETENTION_DAYS, COMPACT_RETENTION_DAYS,
              \* blocks of a partition (1 where the table has none)
  Immortal,   \* COMPACT_RETENTION_DAYS is not set
  MinDays     \* EMERGENCY_RETENTION_MIN_DAYS

Windows == Nat \ {0}

ASSUME RetentionAssumption ==
  /\ MaxTime \in Nat \ {0} /\ MaxFailed \in Nat
  /\ MinDays \in Windows
  /\ Immortal \in Windows /\ Immortal > MaxTime
  /\ Policies \subseteq [body : Windows, compact : Windows, width : Windows]

Days == 1 .. MaxTime

VARIABLES
  now,
  policy,
  blocks,     \* heights with a row in blocks
  full,       \* heights whose transactions have their input
  pruned,     \* heights whose transactions are left without it (body_pruned)
  bodies,     \* heights with logs, dex trades and the like
  transfers,  \* heights with token and internal transfers
  gaps,       \* heights in index_gaps that are not healed
  healing,    \* height the gap healer is indexing, 0 if none
  floor,      \* compact_cutoff_block, 0 for NULL
  job,        \* what the run is at
  \* history
  indexed,    \* heights that were ever indexed
  healed,     \* those of them that the healer brought
  tightest,   \* the shortest compact window that was ever applied
  unpublished,\* a cutoff was applied without being published
  ragged      \* a cutoff was taken at the far side of an unhealed hole that
              \* reaches into the window

rowsVars      == <<blocks, full, pruned, bodies, transfers>>
worldVars     == <<now, policy, gaps, healing>>
pastVars      == <<indexed, healed, tightest, unpublished, ragged>>
retentionVars == <<worldVars, rowsVars, floor, job, pastVars>>

Resting == [at |-> "idle", body |-> 0, compact |-> 0, override |-> FALSE,
            cut |-> 0, compactCut |-> 0, failed |-> 0]

RetentionInit ==
  /\ now = 1
  /\ policy \in Policies
  /\ blocks = {1} /\ full = {1} /\ bodies = {1} /\ transfers = {1}
  /\ pruned = {} /\ gaps = {}
  /\ healing = 0
  /\ floor = 0
  /\ job = Resting
  /\ indexed = {1} /\ healed = {}
  /\ tightest = Immortal
  /\ unpublished = FALSE /\ ragged = FALSE

-----------------------------------------------------------------------------
(* The indexer and the gap healer.                                          *)

Indexes(n) ==
  /\ blocks' = blocks \cup {n}
  /\ full' = full \cup {n}
  /\ bodies' = bodies \cup {n}
  /\ transfers' = transfers \cup {n}
  /\ indexed' = indexed \cup {n}

(* A day passes; its block is indexed, or abandoned and recorded.           *)
NewDay ==
  /\ now < MaxTime
  /\ now' = now + 1
  /\ \/ Indexes(now') /\ UNCHANGED gaps
     \/ gaps' = gaps \cup {now'} /\ UNCHANGED <<blocks, full, bodies, transfers, indexed>>
  /\ UNCHANGED <<policy, pruned, healing, floor, job, healed, tightest, unpublished, ragged>>

(* Not below the floor, as it is when the gap is claimed.                   *)
HealStarts ==
  /\ healing = 0
  /\ \E n \in gaps : n >= floor /\ healing' = n
  /\ UNCHANGED <<now, policy, gaps, rowsVars, floor, job, pastVars>>

HealLands ==
  /\ healing # 0
  /\ Indexes(healing)
  /\ gaps' = gaps \ {healing}
  /\ healed' = healed \cup {healing}
  /\ healing' = 0
  /\ UNCHANGED <<now, policy, pruned, floor, job, tightest, unpublished, ragged>>

-----------------------------------------------------------------------------
(* A run.                                                                   *)

Since(day) == {n \in blocks : n >= day}

(* The window starts that many days ago; that many days before the last     *)
(* indexed block if nothing that recent is indexed.                         *)
WindowEdge(days) == IF Since(now - days) # {} THEN now - days ELSE Max(blocks) - days

(* The first indexed block inside the window; 0 if nothing is indexed.      *)
CutoffBlock(days) == IF blocks = {} THEN 0 ELSE Min(Since(WindowEdge(days)))

Ragged(days) ==
  blocks # {} /\ \E n \in gaps : WindowEdge(days) <= n /\ n < CutoffBlock(days)

Starts(body, compact, override) ==
  [Resting EXCEPT !.at = "cutoff", !.body = body, !.compact = compact,
                  !.override = override]

(* A statement fails, which is logged; the run goes on.                     *)
FailedTo(next) ==
  /\ job.failed < MaxFailed
  /\ job' = [job EXCEPT !.at = next, !.failed = job.failed + 1]

(* A tick that finds a run under way is skipped.                            *)
StartRun ==
  /\ job.at = "idle"
  /\ job' = Starts(policy.body, policy.compact, FALSE)
  /\ UNCHANGED <<worldVars, rowsVars, floor, pastVars>>

(* The query for the cutoff may fail: the step it is for is skipped.        *)
TakeCutoff ==
  /\ job.at = "cutoff"
  /\ \/ /\ job' = [job EXCEPT !.at = "bodies", !.cut = CutoffBlock(job.body)]
        /\ ragged' = (ragged \/ Ragged(job.body))
     \/ /\ FailedTo("bodies")
        /\ UNCHANGED ragged
  /\ UNCHANGED <<worldVars, rowsVars, floor, indexed, healed, tightest, unpublished>>

(* One loop, the rows it is to remove, and what of the table is left.       *)
Loop(from, next, gone, left, table) ==
  /\ job.at = from
  /\ \/ /\ left = table \ gone
        /\ job' = [job EXCEPT !.at = next]
     \/ /\ \E some \in SUBSET (table \cap gone) : left = table \ some
        /\ FailedTo(next)
  /\ UNCHANGED <<worldVars, floor, pastVars>>

Below(cut) == {n \in Days : n < cut}

Tables == SUBSET Days

PruneBodies ==
  \E left \in Tables :
    /\ Loop("bodies", "inputs", Below(job.cut), left, bodies)
    /\ bodies' = left
    /\ UNCHANGED <<blocks, full, pruned, transfers>>

(* Mutant: any compact window makes the pass redundant.                     *)
AnyCompactWindow == job.compact # Immortal
(* The compact window removes the same rows later in the run.               *)
BodyPruneIsRedundant == job.compact # Immortal /\ job.compact <= job.body

(* transactions.input is emptied in place.                                  *)
PruneInputs ==
  \E left \in Tables :
    /\ Loop("inputs", "compact",
            IF BodyPruneIsRedundant THEN {} ELSE Below(job.cut), left, full)
    /\ full' = left
    /\ pruned' = pruned \cup (full \ left)
    /\ UNCHANGED <<blocks, bodies, transfers>>

(* Only a finite compact window goes on to the rows themselves.             *)
SkipCompact ==
  /\ job.at = "compact"
  /\ job.compact = Immortal
  /\ job' = [job EXCEPT !.at = "decide"]
  /\ UNCHANGED <<worldVars, rowsVars, floor, pastVars>>

TakeCompactCutoff ==
  /\ job.at = "compact"
  /\ job.compact # Immortal
  /\ \/ LET cut == CutoffBlock(job.compact)
        IN  /\ job' = [job EXCEPT !.at = IF cut > 0 THEN "publish" ELSE "decide",
                                  !.compactCut = cut]
            /\ ragged' = (ragged \/ Ragged(job.compact))
            /\ tightest' = Min({tightest, job.compact})
     \/ /\ FailedTo("decide")
        /\ UNCHANGED <<ragged, tightest>>
  /\ UNCHANGED <<worldVars, rowsVars, floor, indexed, healed, unpublished>>

BareFloor(cut) == cut   \* mutant: the floor moves back when the policy relaxes
RaisedFloor(cut) == Max({floor, cut})

(* Before anything is deleted; the deletions follow even if this fails.     *)
Publish ==
  /\ job.at = "publish"
  /\ \/ /\ floor' = RaisedFloor(job.compactCut)
        /\ job' = [job EXCEPT !.at = "sweep"]
        /\ UNCHANGED unpublished
     \/ /\ FailedTo("sweep")
        /\ unpublished' = TRUE
        /\ UNCHANGED floor
  /\ UNCHANGED <<worldVars, rowsVars, indexed, healed, tightest, ragged>>

NotSwept == {}   \* mutant: the bodies are left to the body window
Swept == Below(job.compactCut)

SweepBodies ==
  \E left \in Tables :
    /\ Loop("sweep", "transfers", Swept, left, bodies)
    /\ bodies' = left
    /\ UNCHANGED <<blocks, full, pruned, transfers>>

(* Heights of the partition a height is in.                                 *)
Partition(n) == {m \in Days : (m - 1) \div policy.width = (n - 1) \div policy.width}

(* Mutant: the partition that straddles the cutoff goes too.                *)
Touched(cut) == {n \in Days : \E m \in Partition(n) : m < cut}
(* Partitions that are below the cutoff as a whole.                         *)
Droppable(cut) == {n \in Days : \A m \in Partition(n) : m < cut}

DropTransfers ==
  \E left \in Tables :
    /\ Loop("transfers", "transactions", Droppable(job.compactCut), left, transfers)
    /\ \A n \in transfers \ left : Partition(n) \cap left = {}
    /\ transfers' = left
    /\ UNCHANGED <<blocks, full, pruned, bodies>>

DeleteTransactions ==
  \E left \in Tables :
    /\ Loop("transactions", "blocks", Below(job.compactCut), left, full \cup pruned)
    /\ full' = full \cap left
    /\ pruned' = pruned \cap left
    /\ UNCHANGED <<blocks, bodies, transfers>>

EveryBlock == Below(job.compactCut)   \* mutant: whether its transactions are gone or not
Childless == Below(job.compactCut) \ (full \cup pruned)

DeleteBlocks ==
  \E left \in Tables :
    /\ Loop("blocks", "decide", Childless, left, blocks)
    /\ blocks' = left
    /\ UNCHANGED <<full, pruned, bodies, transfers>>

(* Mutant: an immortal window counts as one that can be tightened.          *)
TightensAny(compact) == compact > MinDays
TightensCompact(compact) == compact # Immortal /\ compact > MinDays

(* The disk has been over the line that demands action at some point of the *)
(* run: once more, with the window tightened that holds it.                 *)
Emergency ==
  /\ job.at = "decide"
  /\ ~job.override
  /\ \/ /\ TightensCompact(job.compact)
        /\ job' = Starts(policy.body, MinDays, TRUE)
     \/ /\ ~TightensCompact(job.compact)
        /\ job.body > MinDays
        /\ job' = Starts(MinDays, policy.compact, TRUE)
  /\ UNCHANGED <<worldVars, rowsVars, floor, pastVars>>

EndRun ==
  /\ job.at = "decide"
  /\ job' = Resting
  /\ UNCHANGED <<worldVars, rowsVars, floor, pastVars>>

(* The process dies.                                                        *)
Die ==
  /\ job.at # "idle" \/ healing # 0
  /\ job' = Resting
  /\ healing' = 0
  /\ UNCHANGED <<now, policy, gaps, rowsVars, floor, pastVars>>

RetentionNext ==
  \/ NewDay
  \/ HealStarts
  \/ HealLands
  \/ StartRun
  \/ TakeCutoff
  \/ PruneBodies
  \/ PruneInputs
  \/ SkipCompact
  \/ TakeCompactCutoff
  \/ Publish
  \/ SweepBodies
  \/ DropTransfers
  \/ DeleteTransactions
  \/ DeleteBlocks
  \/ Emergency
  \/ EndRun
  \/ Die

RetentionSpec == RetentionInit /\ [][RetentionNext]_retentionVars

-----------------------------------------------------------------------------
RetentionTypeOK ==
  /\ now \in Days
  /\ policy \in Policies
  /\ \A table \in {blocks, full, pruned, bodies, transfers, gaps, indexed, healed} :
       table \subseteq 1 .. now
  /\ full \cap pruned = {}
  /\ full \cup pruned \subseteq blocks   \* transactions_block_number_fkey
  /\ healing \in gaps \cup {0}
  /\ floor \in 0 .. now
  /\ job.at \in {"idle", "cutoff", "bodies", "inputs", "compact", "publish", "sweep",
                  "transfers", "transactions", "blocks", "decide"}
  /\ job.cut \in 0 .. now /\ job.compactCut \in 0 .. now

Kept(n) == n \in blocks /\ n \in full \cup pruned /\ n \in transfers

(* Without a compact window no disk pressure, no failure and no re-run ever *)
(* costs a row of blocks, transactions or transfers                         *)
(* (retention-cleanup.ts:925, retention-policy.ts).                         *)
CompactImmortal == policy.compact = Immortal => \A n \in indexed : Kept(n)

(* Whatever fails, straddles a partition or is healed meanwhile, an indexed *)
(* block younger than the shortest compact window ever applied keeps its    *)
(* row, its transactions and its transfers, as long as no hole lay across   *)
(* a window's edge when its cutoff was taken.                               *)
KeepsWindow ==
  ~ragged => \A n \in indexed : n >= now - tightest => Kept(n)

(* What no policy has asked for is not deleted.                             *)
RowsKept == CompactImmortal /\ KeepsWindow

(* What retention has destroyed lies below the published floor, before and  *)
(* after every re-run with another window, unless publishing failed: readers*)
(* of the floor (explorer/lib/retention.ts, index-gaps.ts, the gap healer)  *)
(* never take destroyed history for history that was never there.           *)
FloorTruthful == ~unpublished => \A n \in indexed : ~Kept(n) => n < floor

(* A run that failed at nothing leaves, on the far side of its cutoffs, no  *)
(* logs, trades or gas rows whose transactions are gone, whatever earlier   *)
(* runs left behind and whichever of the two windows is the shorter.        *)
NoOrphans ==
  job.at = "decide" /\ job.failed = 0 =>
    \A n \in bodies \ (full \cup pruned \cup healed) : n >= job.cut /\ n >= job.compactCut

(* ... and no transaction input older than the body window: the pass that   *)
(* is skipped as redundant is made up for in the same run, unless the index *)
(* is so stale between the two windows that the shorter one, taken from the *)
(* last indexed block, reaches further back than the longer.                *)
CleanRunPrunes ==
  /\ job.at = "decide" /\ job.failed = 0
  /\ job.compact <= job.body => job.compactCut >= job.cut
  => \A n \in full \ healed : n >= job.cut

(* Nothing is left over on the far side of the cutoffs.                     *)
CleanRun == NoOrphans /\ CleanRunPrunes

(* As the comment on publishing the floor has it: a gap inside the window   *)
(* is not written off as aged out.  The code does not keep this: the cutoff *)
(* is the first indexed block of the window, so that a hole at the edge of  *)
(* the window lies below the floor.                                         *)
GapsInWindowCounted == \A n \in gaps : n >= now - tightest => n >= floor
=============================================================================
