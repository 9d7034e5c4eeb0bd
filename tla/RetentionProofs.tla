--------------------------- MODULE RetentionProofs ---------------------------
(***************************************************************************)
(* Theorems about Retention, for every horizon, every set of policies and   *)
(* every number of failures.                                                *)
(***************************************************************************)
EXTENDS Retention, TLAPS, WellFoundedInduction

(* A set of heights has a least and a greatest element.                     *)
LEMMA NatMin ==
  ASSUME NEW S \in SUBSET Nat, S # {}
  PROVE  Min(S) \in S /\ \A n \in S : Min(S) <= n
<1>1. \E m \in S : \A n \in S : ~ (<<n, m>> \in OpToRel(<, Nat))
  BY NatLessThanWellFounded, WFMin
<1>2. PICK m \in S : \A n \in S : ~ (<<n, m>> \in OpToRel(<, Nat))
  BY <1>1
<1>3. S \subseteq Nat
  OBVIOUS
<1>4. \A n \in S : ~ (n < m)
  BY <1>2, <1>3, Zenon DEF OpToRel
<1>5. \A n \in S : m <= n
  BY <1>3, <1>4
<1>. QED
  BY <1>5 DEF Min

LEMMA BoundedMax ==
  ASSUME NEW m \in Nat, NEW S \in SUBSET (0 .. m), S # {}
  PROVE  Max(S) \in S /\ \A n \in S : n <= Max(S)
<1> DEFINE T == {m - n : n \in S}
<1>1. T \in SUBSET Nat /\ T # {}
  <2>1. \A n \in S : m - n \in Nat
    OBVIOUS
  <2>. QED
    BY <2>1
<1> HIDE DEF T
<1>2. Min(T) \in T /\ \A t \in T : Min(T) <= t
  BY <1>1, NatMin
<1>3. PICK x \in S : Min(T) = m - x
  BY <1>2 DEF T
<1>4. \A n \in S : m - x <= m - n
  BY <1>2, <1>3 DEF T
<1>5. \A n \in S : x >= n
  BY <1>4
<1>. QED
  BY <1>5 DEF Max

(* A cutoff is an indexed height: the first one at or above the edge of the *)
(* window, which is never inside the last so many days.                     *)
LEMMA CutoffIsIndexed ==
  ASSUME now \in Nat, blocks \subseteq 1 .. now, blocks # {}, NEW days \in Windows
  PROVE  /\ CutoffBlock(days) \in blocks
         /\ WindowEdge(days) \in Int /\ WindowEdge(days) <= now - days
         /\ \A n \in blocks : n >= WindowEdge(days) => CutoffBlock(days) <= n
<1>1. Max(blocks) \in blocks
  <2>1. blocks \in SUBSET (0 .. now)
    OBVIOUS
  <2>. QED
    BY <2>1, BoundedMax
<1> DEFINE last == Max(blocks)
<1>2. /\ last \in Int /\ last <= now /\ days \in Nat /\ days > 0
      /\ WindowEdge(days) = now - days \/ WindowEdge(days) = last - days
  <2>1. last \in 1 .. now
    BY <1>1
  <2>2. days \in Nat /\ days > 0
    BY DEF Windows
  <2>3. WindowEdge(days) = now - days \/ WindowEdge(days) = last - days
    BY DEF WindowEdge
  <2>. QED
    BY <2>1, <2>2, <2>3
<1> HIDE DEF last
<1>3. Since(WindowEdge(days)) # {}
  <2>1. CASE Since(now - days) # {}
    BY <2>1 DEF WindowEdge
  <2>2. CASE Since(now - days) = {}
    <3>1. last \in Since(last - days)
      BY <1>1, <1>2 DEF Since, last
    <3>. QED
      BY <2>2, <3>1 DEF WindowEdge, last
  <2>. QED
    BY <2>1, <2>2
<1>4. Since(WindowEdge(days)) \in SUBSET Nat
  <2>1. \A n \in blocks : n \in Nat
    OBVIOUS
  <2>. QED
    BY <2>1 DEF Since
<1>5. /\ Min(Since(WindowEdge(days))) \in Since(WindowEdge(days))
      /\ \A n \in Since(WindowEdge(days)) : Min(Since(WindowEdge(days))) <= n
  BY <1>3, <1>4, NatMin
<1>6. CutoffBlock(days) = Min(Since(WindowEdge(days)))
  BY DEF CutoffBlock
<1>. QED
  BY <1>2, <1>5, <1>6 DEF Since

(* The floor that is published, and the shortest window that was applied.   *)
LEMMA FloorRises ==
  ASSUME NEW cut \in Nat, floor \in Nat
  PROVE  /\ RaisedFloor(cut) \in {floor, cut}
         /\ RaisedFloor(cut) >= floor /\ RaisedFloor(cut) >= cut
<1>1. \E x \in {floor, cut} : \A y \in {floor, cut} : x >= y
  OBVIOUS
<1>. QED
  BY <1>1 DEF RaisedFloor, Max

LEMMA LesserOfTwo ==
  ASSUME NEW a \in Nat, NEW b \in Nat
  PROVE  Min({a, b}) \in {a, b} /\ Min({a, b}) <= a /\ Min({a, b}) <= b
BY NatMin

-----------------------------------------------------------------------------
(* Where the job is, and what it knows there.                               *)

Deleting == {"sweep", "transfers", "transactions", "blocks"}
JobSteps == {"idle", "cutoff", "bodies", "inputs", "compact", "publish", "decide"}
              \cup Deleting

JobType ==
  /\ job \in [at : JobSteps, body : Nat, compact : Nat, override : BOOLEAN,
              cut : Nat, compactCut : Nat, failed : Nat]
  /\ job.cut <= now /\ job.compactCut <= now
  /\ job.at # "idle" => job.body \in Windows /\ job.compact \in Windows

(* Every day's block was indexed or is a gap, and what tables hold is of    *)
(* blocks that were indexed.                                                *)
HistoryType ==
  /\ indexed \cup gaps = 1 .. now
  /\ indexed \cap gaps = {}
  /\ blocks \subseteq indexed
  /\ bodies \subseteq indexed
  /\ transfers \subseteq indexed
  /\ healed \subseteq indexed
  /\ full \cup pruned \subseteq blocks
  /\ full \cap pruned = {}
  /\ healing \in gaps \cup {0}

TypeInv ==
  /\ now \in Days
  /\ policy \in Policies
  /\ floor \in 0 .. now
  /\ tightest \in Windows
  /\ JobType
  /\ HistoryType

LEMMA TypeInvSuffices == TypeInv => RetentionTypeOK
BY DEF TypeInv, JobType, JobSteps, Deleting, HistoryType, RetentionTypeOK

-----------------------------------------------------------------------------
(* What the statements of a run have in common.                             *)

SameJob == /\ job'.body = job.body /\ job'.compact = job.compact
           /\ job'.cut = job.cut /\ job'.compactCut = job.compactCut

(* A run goes on, whether the statement failed or not.                      *)
LEMMA JobGoesOn ==
  ASSUME JobType, job.at # "idle", now' = now, NEW next \in JobSteps,
         job' = [job EXCEPT !.at = next] \/ FailedTo(next)
  PROVE  JobType' /\ SameJob /\ job'.at = next
<1>1. CASE job' = [job EXCEPT !.at = next]
  BY <1>1 DEF JobType, SameJob
<1>2. CASE FailedTo(next)
  <2>1. job' = [job EXCEPT !.at = next, !.failed = job.failed + 1]
    BY <1>2 DEF FailedTo
  <2>2. job.failed + 1 \in Nat
    BY DEF JobType
  <2>3. job' \in [at : JobSteps, body : Nat, compact : Nat, override : BOOLEAN,
                 cut : Nat, compactCut : Nat, failed : Nat]
    BY <2>1, <2>2 DEF JobType
  <2>4. SameJob /\ job'.at = next
    BY <2>1 DEF JobType, SameJob
  <2>. QED
    BY <2>3, <2>4 DEF JobType, SameJob
<1>. QED
  BY <1>1, <1>2

(* A batch loop takes nothing but what it is to take, from its own table.   *)
LEMMA LoopTakes ==
  ASSUME JobType, NEW from \in JobSteps \ {"idle"}, NEW next \in JobSteps,
         NEW gone, NEW left, NEW table, Loop(from, next, gone, left, table)
  PROVE  /\ job.at = from /\ job'.at = next
         /\ JobType' /\ SameJob
         /\ left \subseteq table /\ table \ left \subseteq gone
         /\ UNCHANGED <<worldVars, floor, pastVars>>
<1>1. job.at = from /\ UNCHANGED <<worldVars, floor, pastVars>>
  BY DEF Loop
<1>2. job' = [job EXCEPT !.at = next] \/ FailedTo(next)
  BY DEF Loop
<1>3. left \subseteq table /\ table \ left \subseteq gone
  BY DEF Loop
<1>. QED
  BY <1>1, <1>2, <1>3, JobGoesOn DEF worldVars

(* A run that starts does so with a policy or with the least window.        *)
LEMMA JobStarts ==
  ASSUME NEW body \in Windows, NEW compact \in Windows, NEW override \in BOOLEAN,
         now' = now, now \in Nat, job' = Starts(body, compact, override)
  PROVE  JobType' /\ job'.at = "cutoff" /\ job'.compact = compact
<1>1. job' = [at |-> "cutoff", body |-> body, compact |-> compact, override |-> override,
              cut |-> 0, compactCut |-> 0, failed |-> 0]
  BY DEF Starts, Resting
<1>. QED
  BY <1>1 DEF JobType, JobSteps, Windows

LEMMA JobRests ==
  ASSUME now' \in Nat, job' = Resting
  PROVE  JobType' /\ job'.at = "idle"
BY DEF JobType, JobSteps, Resting

LEMMA PolicyWindows ==
  ASSUME policy \in Policies
  PROVE  policy.body \in Windows /\ policy.compact \in Windows
BY RetentionAssumption

-----------------------------------------------------------------------------
(* Every action keeps the types.                                            *)

LEMMA TypeInit == RetentionInit => TypeInv
<1> SUFFICES ASSUME RetentionInit PROVE TypeInv
  OBVIOUS
<1>1. now = 1 /\ now \in Days
  BY RetentionAssumption DEF RetentionInit, Days
<1>2. JobType
  BY <1>1 DEF RetentionInit, JobType, JobSteps, Resting
<1>3. HistoryType
  BY <1>1 DEF RetentionInit, HistoryType
<1>4. tightest \in Windows /\ policy \in Policies
  BY RetentionAssumption DEF RetentionInit
<1>5. floor \in 0 .. now
  BY <1>1 DEF RetentionInit
<1>. QED
  BY <1>1, <1>2, <1>3, <1>4, <1>5 DEF TypeInv

(* A height is indexed for the first time.                                  *)
LEMMA TypeIndexes ==
  ASSUME HistoryType, NEW n, n \notin indexed, Indexes(n), UNCHANGED pruned,
         gaps' = gaps \ {n}, indexed \cup gaps \cup {n} = 1 .. now',
         healed' \subseteq healed \cup {n}, healing' \in gaps' \cup {0}
  PROVE  HistoryType'
<1>1. indexed' = indexed \cup {n}
  BY DEF Indexes
<1>2. indexed' \cup gaps' = 1 .. now' /\ indexed' \cap gaps' = {}
  BY <1>1 DEF HistoryType
<1>. QED
  BY <1>1, <1>2 DEF HistoryType, Indexes

(* The cutoffs are heights there have been.                                 *)
LEMMA CutoffType ==
  ASSUME TypeInv, NEW days \in Windows
  PROVE  CutoffBlock(days) \in Nat /\ CutoffBlock(days) <= now
<1>1. CASE blocks = {}
  BY <1>1 DEF CutoffBlock, TypeInv, Days
<1>2. CASE blocks # {}
  <2>1. blocks \subseteq 1 .. now /\ now \in Nat
    BY DEF TypeInv, HistoryType, Days
  <2>2. CutoffBlock(days) \in blocks
    BY <1>2, <2>1, CutoffIsIndexed
  <2>3. CutoffBlock(days) \in 1 .. now
    BY <2>1, <2>2
  <2>. QED
    BY <2>1, <2>3
<1>. QED
  BY <1>1, <1>2

LEMMA TypeNext ==
  ASSUME TypeInv, [RetentionNext]_retentionVars
  PROVE  TypeInv'
<1> USE DEF TypeInv
<1>a. now \in Nat /\ MaxTime \in Nat
  BY RetentionAssumption DEF Days
<1>1. CASE NewDay
  <2>1. now' = now + 1 /\ now' \in Days
    BY <1>1, <1>a DEF NewDay, Days
  <2>2. JobType'
    BY <1>1, <2>1 DEF NewDay, JobType, Days
  <2>3. HistoryType'
    <3>1. CASE Indexes(now') /\ UNCHANGED gaps
      <4>1. gaps' = gaps \ {now + 1}
        BY <1>a, <3>1, <2>1 DEF HistoryType
      <4>2. indexed \cup gaps \cup {now + 1} = 1 .. now'
        BY <1>a, <2>1 DEF HistoryType
      <4>3. UNCHANGED <<pruned, healed, healing>> /\ Indexes(now + 1)
        BY <1>1, <2>1, <3>1 DEF NewDay
      <4>4. now + 1 \notin indexed
        BY <1>a DEF HistoryType
      <4>5. healing' \in gaps' \cup {0}
        BY <3>1, <4>3 DEF HistoryType
      <4>. QED
        BY <4>1, <4>2, <4>3, <4>4, <4>5, TypeIndexes
    <3>2. CASE gaps' = gaps \cup {now'}
                 /\ UNCHANGED <<blocks, full, bodies, transfers, indexed>>
      <4>1. indexed' \cup gaps' = 1 .. now' /\ indexed' \cap gaps' = {}
        BY <1>a, <2>1, <3>2 DEF HistoryType
      <4>. QED
        BY <1>1, <3>2, <4>1 DEF NewDay, HistoryType
    <3>. QED
      BY <1>1, <3>1, <3>2 DEF NewDay
  <2>. QED
    BY <1>1, <1>a, <2>1, <2>2, <2>3 DEF NewDay
<1>2. CASE HealStarts
  BY <1>2 DEF HealStarts, rowsVars, pastVars, JobType, HistoryType
<1>3. CASE HealLands
  <2>1. /\ Indexes(healing) /\ UNCHANGED pruned /\ gaps' = gaps \ {healing}
        /\ healed' = healed \cup {healing} /\ healing' = 0 /\ healing # 0
        /\ UNCHANGED <<now, policy, floor, job, tightest>>
    BY <1>3 DEF HealLands
  <2>2. /\ healing \notin indexed
        /\ indexed \cup gaps \cup {healing} = 1 .. now'
    BY <2>1 DEF HistoryType
  <2>3. HistoryType'
    BY <2>1, <2>2, TypeIndexes
  <2>. QED
    BY <2>1, <2>3 DEF JobType
<1>4. CASE StartRun
  <2>1. JobType'
    BY <1>4, <1>a, JobStarts, PolicyWindows DEF StartRun, worldVars
  <2>. QED
    BY <1>4, <2>1 DEF StartRun, worldVars, rowsVars, pastVars, HistoryType
<1>5. CASE TakeCutoff
  <2>1. JobType'
    <3>1. CASE job' = [job EXCEPT !.at = "bodies", !.cut = CutoffBlock(job.body)]
      <4>1. CutoffBlock(job.body) \in Nat /\ CutoffBlock(job.body) <= now
        BY <1>5, CutoffType DEF TakeCutoff, JobType
      <4>. QED
        BY <1>5, <3>1, <4>1 DEF TakeCutoff, JobType, JobSteps, worldVars
    <3>2. CASE FailedTo("bodies")
      BY <1>5, <3>2, JobGoesOn DEF TakeCutoff, JobSteps, worldVars
    <3>. QED
      BY <1>5, <3>1, <3>2 DEF TakeCutoff
  <2>. QED
    BY <1>5, <2>1 DEF TakeCutoff, worldVars, rowsVars, HistoryType
<1>6. CASE PruneBodies
  <2>1. PICK left \in Tables :
          /\ Loop("bodies", "inputs", Below(job.cut), left, bodies)
          /\ bodies' = left
          /\ UNCHANGED <<blocks, full, pruned, transfers>>
    BY <1>6 DEF PruneBodies
  <2>. QED
    BY <2>1, LoopTakes DEF JobSteps, worldVars, pastVars, HistoryType
<1>7. CASE PruneInputs
  <2>1. PICK left \in Tables :
          /\ Loop("inputs", "compact",
                  IF BodyPruneIsRedundant THEN {} ELSE Below(job.cut), left, full)
          /\ full' = left
          /\ pruned' = pruned \cup (full \ left)
          /\ UNCHANGED <<blocks, bodies, transfers>>
    BY <1>7 DEF PruneInputs
  <2>2. /\ left \subseteq full /\ JobType'
        /\ UNCHANGED <<worldVars, floor, pastVars>>
    BY <2>1, LoopTakes DEF JobSteps
  <2>. QED
    BY <2>1, <2>2 DEF worldVars, pastVars, HistoryType
<1>8. CASE SkipCompact
  BY <1>8, JobGoesOn DEF SkipCompact, JobSteps, worldVars, rowsVars, pastVars, HistoryType
<1>9. CASE TakeCompactCutoff
  <2> DEFINE cut == CutoffBlock(job.compact)
  <2>1. JobType' /\ tightest' \in Windows
    <3>1. CASE /\ job' = [job EXCEPT !.at = IF cut > 0 THEN "publish" ELSE "decide",
                                    !.compactCut = cut]
               /\ tightest' = Min({tightest, job.compact})
      <4>1. job.compact \in Windows
        BY <1>9 DEF TakeCompactCutoff, JobType
      <4>2. cut \in Nat /\ cut <= now
        BY <4>1, CutoffType
      <4>3. tightest' \in Windows
        BY <3>1, <4>1, LesserOfTwo DEF Windows
      <4> HIDE DEF cut
      <4>4. JobType'
        BY <1>9, <3>1, <4>2 DEF TakeCompactCutoff, JobType, JobSteps, worldVars
      <4>. QED
        BY <4>3, <4>4
    <3>2. CASE FailedTo("decide") /\ UNCHANGED <<ragged, tightest>>
      BY <1>9, <3>2, JobGoesOn DEF TakeCompactCutoff, JobSteps, worldVars
    <3>. QED
      BY <1>9, <3>1, <3>2 DEF TakeCompactCutoff
  <2>. QED
    BY <1>9, <2>1 DEF TakeCompactCutoff, worldVars, rowsVars, HistoryType
<1>10. CASE Publish
  <2>1. JobType'
    BY <1>10, JobGoesOn DEF Publish, JobSteps, Deleting, worldVars
  <2>2. floor' \in 0 .. now
    BY <1>10, FloorRises DEF Publish, JobType, Days
  <2>. QED
    BY <1>10, <2>1, <2>2 DEF Publish, worldVars, rowsVars, HistoryType
<1>11. CASE SweepBodies
  <2>1. PICK left \in Tables :
          /\ Loop("sweep", "transfers", Swept, left, bodies)
          /\ bodies' = left
          /\ UNCHANGED <<blocks, full, pruned, transfers>>
    BY <1>11 DEF SweepBodies
  <2>2. /\ left \subseteq bodies /\ JobType'
        /\ UNCHANGED <<worldVars, floor, pastVars>>
    BY <2>1, LoopTakes DEF JobSteps, Deleting
  <2>. QED
    BY <2>1, <2>2 DEF worldVars, pastVars, HistoryType
<1>12. CASE DropTransfers
  <2>1. PICK left \in Tables :
          /\ Loop("transfers", "transactions", Droppable(job.compactCut), left, transfers)
          /\ transfers' = left
          /\ UNCHANGED <<blocks, full, pruned, bodies>>
    BY <1>12 DEF DropTransfers
  <2>2. /\ left \subseteq transfers /\ JobType'
        /\ UNCHANGED <<worldVars, floor, pastVars>>
    BY <2>1, LoopTakes DEF JobSteps, Deleting
  <2>. QED
    BY <2>1, <2>2 DEF worldVars, pastVars, HistoryType
<1>13. CASE DeleteTransactions
  <2>1. PICK left \in Tables :
          /\ Loop("transactions", "blocks", Below(job.compactCut), left, full \cup pruned)
          /\ full' = full \cap left
          /\ pruned' = pruned \cap left
          /\ UNCHANGED <<blocks, bodies, transfers>>
    BY <1>13 DEF DeleteTransactions
  <2>2. /\ left \subseteq full \cup pruned /\ JobType'
        /\ UNCHANGED <<worldVars, floor, pastVars>>
    BY <2>1, LoopTakes DEF JobSteps, Deleting
  <2>. QED
    BY <2>1, <2>2 DEF worldVars, pastVars, HistoryType
<1>14. CASE DeleteBlocks
  <2>1. PICK left \in Tables :
          /\ Loop("blocks", "decide", Childless, left, blocks)
          /\ blocks' = left
          /\ UNCHANGED <<full, pruned, bodies, transfers>>
    BY <1>14 DEF DeleteBlocks
  <2>2. /\ left \subseteq blocks /\ blocks \ left \subseteq Childless /\ JobType'
        /\ UNCHANGED <<worldVars, floor, pastVars>>
    BY <2>1, LoopTakes DEF JobSteps, Deleting
  <2>3. full \cup pruned \subseteq left
    BY <2>2 DEF Childless, HistoryType
  <2>. QED
    BY <2>1, <2>2, <2>3 DEF worldVars, pastVars, HistoryType
<1>15. CASE Emergency
  <2>1. MinDays \in Windows /\ policy.body \in Windows /\ policy.compact \in Windows
    BY PolicyWindows, RetentionAssumption
  <2>2. JobType'
    BY <1>15, <1>a, <2>1, JobStarts DEF Emergency, worldVars
  <2>. QED
    BY <1>15, <2>2 DEF Emergency, worldVars, rowsVars, pastVars, HistoryType
<1>16. CASE EndRun
  BY <1>16, <1>a, JobRests DEF EndRun, worldVars, rowsVars, pastVars, HistoryType
<1>17. CASE Die
  BY <1>17, <1>a, JobRests DEF Die, rowsVars, pastVars, HistoryType
<1>18. CASE UNCHANGED retentionVars
  BY <1>18 DEF retentionVars, worldVars, rowsVars, pastVars, JobType, HistoryType
<1>. QED
  BY <1>1, <1>2, <1>3, <1>4, <1>5, <1>6, <1>7, <1>8, <1>9, <1>10, <1>11, <1>12, <1>13,
     <1>14, <1>15, <1>16, <1>17, <1>18 DEF RetentionNext

(* Type correctness of the retention job.                                   *)
THEOREM RetentionTypes == RetentionSpec => []RetentionTypeOK
<1>1. RetentionInit => TypeInv
  BY TypeInit
<1>2. TypeInv /\ [RetentionNext]_retentionVars => TypeInv'
  BY TypeNext
<1>3. TypeInv => RetentionTypeOK
  BY TypeInvSuffices
<1>. QED
  BY <1>1, <1>2, <1>3, PTL DEF RetentionSpec

-----------------------------------------------------------------------------
(* What a step may take: rows are lost in the deleting steps only, and only *)
(* below the cutoff of the run; a height is whole when it is first indexed. *)

Spares(n) == Kept(n) => Kept(n)' \/ (job.at \in Deleting /\ n < job.compactCut)

LEMMA Untouched ==
  ASSUME UNCHANGED <<blocks, transfers>>, full' \cup pruned' = full \cup pruned,
         UNCHANGED indexed
  PROVE  /\ \A n \in indexed : Spares(n)
         /\ \A n \in indexed' \ indexed : Kept(n)'
BY DEF Spares, Kept

LEMMA NewHeightWhole ==
  ASSUME NEW n, Indexes(n), UNCHANGED pruned
  PROVE  /\ \A m \in indexed : Spares(m)
         /\ \A m \in indexed' \ indexed : Kept(m)'
BY DEF Spares, Kept, Indexes

LEMMA StepSpares ==
  ASSUME TypeInv, [RetentionNext]_retentionVars
  PROVE  /\ \A n \in indexed : Spares(n)
         /\ \A n \in indexed' \ indexed : Kept(n)'
<1>a. JobType
  BY DEF TypeInv
<1>1. CASE NewDay
  <2>1. CASE Indexes(now')
    BY <1>1, <2>1, NewHeightWhole DEF NewDay
  <2>2. CASE UNCHANGED <<blocks, full, bodies, transfers, indexed>>
    BY <1>1, <2>2, Untouched DEF NewDay
  <2>. QED
    BY <1>1, <2>1, <2>2 DEF NewDay
<1>2. CASE HealLands
  BY <1>2, NewHeightWhole DEF HealLands
<1>3. CASE \/ HealStarts \/ StartRun \/ TakeCutoff \/ SkipCompact \/ TakeCompactCutoff
           \/ Publish \/ Emergency \/ EndRun \/ Die \/ UNCHANGED retentionVars
  <2>1. UNCHANGED <<blocks, full, pruned, transfers, indexed>>
    BY <1>3 DEF HealStarts, StartRun, TakeCutoff, SkipCompact, TakeCompactCutoff, Publish,
                Emergency, EndRun, Die, retentionVars, rowsVars, pastVars
  <2>. QED
    BY <2>1, Untouched
<1>4. CASE PruneBodies
  <2>1. UNCHANGED <<blocks, full, pruned, transfers, indexed>>
    BY <1>4 DEF PruneBodies, Loop, pastVars
  <2>. QED
    BY <2>1, Untouched
<1>5. CASE PruneInputs
  <2>1. PICK left \in Tables :
          /\ Loop("inputs", "compact",
                  IF BodyPruneIsRedundant THEN {} ELSE Below(job.cut), left, full)
          /\ full' = left
          /\ pruned' = pruned \cup (full \ left)
          /\ UNCHANGED <<blocks, bodies, transfers>>
    BY <1>5 DEF PruneInputs
  <2>2. left \subseteq full /\ UNCHANGED indexed
    BY <1>a, <2>1, LoopTakes DEF JobSteps, pastVars
  <2>3. full' \cup pruned' = full \cup pruned
    BY <2>1, <2>2
  <2>. QED
    BY <2>1, <2>2, <2>3, Untouched
<1>6. CASE SweepBodies
  <2>1. UNCHANGED <<blocks, full, pruned, transfers, indexed>>
    BY <1>6 DEF SweepBodies, Loop, pastVars
  <2>. QED
    BY <2>1, Untouched
<1>7. CASE DropTransfers
  <2>1. PICK left \in Tables :
          /\ Loop("transfers", "transactions", Droppable(job.compactCut), left, transfers)
          /\ transfers' = left
          /\ UNCHANGED <<blocks, full, pruned, bodies>>
    BY <1>7 DEF DropTransfers
  <2>2. /\ job.at = "transfers" /\ UNCHANGED indexed
        /\ transfers \ left \subseteq Droppable(job.compactCut)
    BY <1>a, <2>1, LoopTakes DEF JobSteps, Deleting, pastVars
  <2>3. \A n \in Droppable(job.compactCut) : n < job.compactCut
    BY DEF Droppable, Partition
  <2>. QED
    BY <2>1, <2>2, <2>3 DEF Spares, Kept, Deleting
<1>8. CASE DeleteTransactions
  <2>1. PICK left \in Tables :
          /\ Loop("transactions", "blocks", Below(job.compactCut), left, full \cup pruned)
          /\ full' = full \cap left
          /\ pruned' = pruned \cap left
          /\ UNCHANGED <<blocks, bodies, transfers>>
    BY <1>8 DEF DeleteTransactions
  <2>2. /\ job.at = "transactions" /\ UNCHANGED indexed
        /\ (full \cup pruned) \ left \subseteq Below(job.compactCut)
    BY <1>a, <2>1, LoopTakes DEF JobSteps, Deleting, pastVars
  <2>. QED
    BY <2>1, <2>2 DEF Spares, Kept, Deleting, Below
<1>9. CASE DeleteBlocks
  <2>1. PICK left \in Tables :
          /\ Loop("blocks", "decide", Childless, left, blocks)
          /\ blocks' = left
          /\ UNCHANGED <<full, pruned, bodies, transfers>>
    BY <1>9 DEF DeleteBlocks
  <2>2. /\ job.at = "blocks" /\ UNCHANGED indexed
        /\ blocks \ left \subseteq Childless
    BY <1>a, <2>1, LoopTakes DEF JobSteps, Deleting, pastVars
  <2>. QED
    BY <2>1, <2>2 DEF Spares, Kept, Deleting, Childless, Below
<1>. QED
  BY <1>1, <1>2, <1>3, <1>4, <1>5, <1>6, <1>7, <1>8, <1>9 DEF RetentionNext

-----------------------------------------------------------------------------
(* An immortal compact window.                                              *)

CompactOff ==
  policy.compact = Immortal =>
    /\ job.at \notin Deleting \cup {"publish"}
    /\ job.at # "idle" => job.compact = Immortal

LEMMA PolicyFixed == [RetentionNext]_retentionVars => policy' = policy
BY DEF RetentionNext, NewDay, HealStarts, HealLands, StartRun, TakeCutoff,
   PruneBodies, PruneInputs, SkipCompact, TakeCompactCutoff, Publish, SweepBodies,
   DropTransfers, DeleteTransactions, DeleteBlocks, Emergency, EndRun, Die, Loop,
   retentionVars, worldVars

(* No run deletes anything, not even the one disk pressure calls for.       *)
LEMMA CompactStaysOff ==
  ASSUME TypeInv, CompactOff, [RetentionNext]_retentionVars
  PROVE  CompactOff'
<1> SUFFICES ASSUME policy'.compact = Immortal
             PROVE  /\ job'.at \notin Deleting \cup {"publish"}
                    /\ job'.at # "idle" => job'.compact = Immortal
  BY DEF CompactOff
<1>1. JobType /\ policy' = policy /\ now \in Nat
  BY PolicyFixed, RetentionAssumption DEF TypeInv, Days
<1>2. /\ job.at \notin Deleting \cup {"publish"}
      /\ job.at # "idle" => job.compact = Immortal
  BY <1>1 DEF CompactOff
<1>3. CASE NewDay \/ HealStarts \/ HealLands \/ UNCHANGED retentionVars
  BY <1>2, <1>3 DEF NewDay, HealStarts, HealLands, retentionVars
<1>4. CASE StartRun
  BY <1>1, <1>4, JobStarts, PolicyWindows DEF StartRun, worldVars, Deleting, TypeInv
<1>5. CASE TakeCutoff
  BY <1>1, <1>2, <1>5 DEF TakeCutoff, FailedTo, JobType, Deleting
<1>6. CASE PruneBodies
  BY <1>1, <1>2, <1>6 DEF PruneBodies, Loop, FailedTo, JobType, Deleting
<1>7. CASE PruneInputs
  BY <1>1, <1>2, <1>7 DEF PruneInputs, Loop, FailedTo, JobType, Deleting
<1>8. CASE SkipCompact
  BY <1>1, <1>2, <1>8 DEF SkipCompact, JobType, Deleting
<1>9. CASE \/ TakeCompactCutoff \/ Publish \/ SweepBodies \/ DropTransfers
           \/ DeleteTransactions \/ DeleteBlocks
  BY <1>2, <1>9 DEF TakeCompactCutoff, Publish, SweepBodies, DropTransfers,
                    DeleteTransactions, DeleteBlocks, Loop, Deleting
<1>10. CASE Emergency
  <2>1. job' = Starts(MinDays, Immortal, TRUE)
    BY <1>1, <1>2, <1>10 DEF Emergency, TightensCompact
  <2>. QED
    BY <2>1 DEF Starts, Resting, Deleting
<1>11. CASE EndRun \/ Die
  BY <1>11 DEF EndRun, Die, Resting, Deleting
<1>. QED
  BY <1>3, <1>4, <1>5, <1>6, <1>7, <1>8, <1>9, <1>10, <1>11 DEF RetentionNext

(* Without a compact window no row of blocks, transactions or transfers is  *)
(* ever deleted, whatever fails and whatever the disk says.                 *)
THEOREM NothingDeletedWithoutWindow == RetentionSpec => []CompactImmortal
<1>1. RetentionInit => CompactOff /\ CompactImmortal
  BY DEF RetentionInit, Resting, CompactOff, CompactImmortal, Kept, Deleting
<1>2. TypeInv /\ CompactOff /\ CompactImmortal /\ [RetentionNext]_retentionVars
        => CompactOff' /\ CompactImmortal'
  <2> SUFFICES ASSUME TypeInv, CompactOff, CompactImmortal, [RetentionNext]_retentionVars
               PROVE  CompactOff' /\ CompactImmortal'
    OBVIOUS
  <2>1. policy' = policy
    BY PolicyFixed
  <2>2. CompactOff'
    BY CompactStaysOff
  <2>. QED
    BY <2>1, <2>2, StepSpares DEF Spares, CompactOff, CompactImmortal
<1>. QED
  BY <1>1, <1>2, TypeInit, TypeNext, PTL DEF RetentionSpec

-----------------------------------------------------------------------------
(* The published floor and the window.                                      *)

(* What a run deletes below is published, and spares the window.            *)
CutPublished == ~unpublished /\ job.at \in Deleting => job.compactCut <= floor

CutSpares ==
  ~ragged /\ job.at \in Deleting \cup {"publish"} =>
    \A n \in 1 .. now : n >= now - tightest => n >= job.compactCut

CutInv == CutPublished /\ CutSpares /\ FloorTruthful /\ KeepsWindow

LEMMA WorldMovesOn ==
  ASSUME TypeInv, [RetentionNext]_retentionVars
  PROVE  /\ now' >= now /\ floor' >= floor /\ tightest' <= tightest
         /\ unpublished => unpublished'
         /\ ragged => ragged'
<1>1. /\ now \in Nat /\ floor \in Nat /\ tightest \in Nat /\ JobType
  BY RetentionAssumption DEF TypeInv, Days, Windows
<1>2. CASE NewDay
  BY <1>1, <1>2 DEF NewDay
<1>3. CASE TakeCutoff
  <2>1. UNCHANGED <<now, floor, tightest, unpublished>>
    BY <1>3 DEF TakeCutoff, worldVars
  <2>2. ragged => ragged'
    BY <1>3 DEF TakeCutoff
  <2>. QED
    BY <1>1, <2>1, <2>2
<1>4. CASE TakeCompactCutoff
  <2>1. tightest' = Min({tightest, job.compact}) \/ tightest' = tightest
    BY <1>4 DEF TakeCompactCutoff
  <2>2. tightest' <= tightest
    BY <1>1, <2>1, LesserOfTwo DEF JobType
  <2>3. ragged => ragged'
    BY <1>4 DEF TakeCompactCutoff
  <2>4. UNCHANGED <<now, floor, unpublished>>
    BY <1>4 DEF TakeCompactCutoff, worldVars
  <2>. QED
    BY <1>1, <2>2, <2>3, <2>4
<1>5. CASE Publish
  <2>1. floor' = RaisedFloor(job.compactCut) \/ floor' = floor
    BY <1>5 DEF Publish
  <2>2. floor' >= floor
    BY <1>1, <2>1, FloorRises DEF JobType
  <2>3. unpublished => unpublished'
    BY <1>5 DEF Publish
  <2>4. UNCHANGED <<now, tightest, ragged>>
    BY <1>5 DEF Publish, worldVars
  <2>. QED
    BY <1>1, <2>2, <2>3, <2>4
<1>6. CASE \/ HealStarts \/ HealLands \/ StartRun \/ PruneBodies \/ PruneInputs
           \/ SkipCompact \/ SweepBodies \/ DropTransfers \/ DeleteTransactions
           \/ DeleteBlocks \/ Emergency \/ EndRun \/ Die \/ UNCHANGED retentionVars
  <2>1. UNCHANGED <<now, floor, tightest, unpublished, ragged>>
    BY <1>6 DEF HealStarts, HealLands, StartRun, PruneBodies, PruneInputs, SkipCompact,
                SweepBodies, DropTransfers, DeleteTransactions, DeleteBlocks, Emergency,
                EndRun, Die, Loop, retentionVars, worldVars, pastVars
  <2>. QED
    BY <1>1, <2>1
<1>. QED
  BY <1>2, <1>3, <1>4, <1>5, <1>6 DEF RetentionNext

(* A step either keeps the run below its cutoff or is one of two.           *)
LEMMA CutFixed ==
  ASSUME TypeInv, [RetentionNext]_retentionVars, ~TakeCompactCutoff, ~Publish,
         job'.at \in Deleting \cup {"publish"}
  PROVE  job' # job => /\ job.at \in Deleting /\ job'.at \in Deleting
                       /\ job'.compactCut = job.compactCut
<1>1. JobType
  BY DEF TypeInv
<1>2. CASE NewDay \/ HealStarts \/ HealLands \/ UNCHANGED retentionVars
  BY <1>2 DEF NewDay, HealStarts, HealLands, retentionVars
<1>3. CASE \/ StartRun \/ SkipCompact \/ TakeCutoff \/ PruneBodies \/ PruneInputs
           \/ Emergency \/ EndRun \/ Die
  <2>1. job'.at \in {"idle", "cutoff", "bodies", "inputs", "compact", "decide"}
    <3>1. CASE StartRun \/ Emergency \/ EndRun \/ Die
      <4>1. /\ Resting.at = "idle"
            /\ \A b, c, o : Starts(b, c, o).at = "cutoff"
        BY DEF Starts, Resting
      <4>2. job' = Resting \/ \E b, c, o : job' = Starts(b, c, o)
        BY <3>1 DEF StartRun, Emergency, EndRun, Die
      <4>. QED
        BY <4>1, <4>2
    <3>2. CASE TakeCutoff
      BY <1>1, <3>2 DEF TakeCutoff, FailedTo, JobType
    <3>3. CASE SkipCompact
      BY <1>1, <3>3 DEF SkipCompact, JobType
    <3>4. CASE PruneBodies
      BY <1>1, <3>4 DEF PruneBodies, Loop, FailedTo, JobType
    <3>5. CASE PruneInputs
      BY <1>1, <3>5 DEF PruneInputs, Loop, FailedTo, JobType
    <3>. QED
      BY <1>3, <3>1, <3>2, <3>3, <3>4, <3>5
  <2>. QED
    BY <2>1 DEF Deleting
<1>4. CASE SweepBodies \/ DropTransfers \/ DeleteTransactions \/ DeleteBlocks
  <2>1. job.at \in Deleting
    BY <1>4 DEF SweepBodies, DropTransfers, DeleteTransactions, DeleteBlocks, Loop, Deleting
  <2>2. \E next \in JobSteps : job' = [job EXCEPT !.at = next] \/ FailedTo(next)
    BY <1>4 DEF SweepBodies, DropTransfers, DeleteTransactions, DeleteBlocks, Loop,
                JobSteps, Deleting
  <2>3. PICK next \in JobSteps : job' = [job EXCEPT !.at = next] \/ FailedTo(next)
    BY <2>2
  <2>4. job'.compactCut = job.compactCut
    BY <1>1, <2>3 DEF FailedTo, JobType
  <2>5. job'.at # "publish"
    BY <1>1, <1>4 DEF SweepBodies, DropTransfers, DeleteTransactions, DeleteBlocks, Loop,
                      FailedTo, JobType
  <2>. QED
    BY <2>1, <2>4, <2>5
<1>. QED
  BY <1>2, <1>3, <1>4 DEF RetentionNext

LEMMA CutPublishedNext ==
  ASSUME TypeInv, CutPublished, [RetentionNext]_retentionVars
  PROVE  CutPublished'
<1> SUFFICES ASSUME ~unpublished', job'.at \in Deleting
             PROVE  job'.compactCut <= floor'
  BY DEF CutPublished
<1>1. ~unpublished /\ floor' >= floor
  BY WorldMovesOn
<1>2. floor \in Nat /\ floor' \in Nat /\ JobType
  BY TypeNext, RetentionAssumption DEF TypeInv, Days
<1>3. CASE TakeCompactCutoff
  BY <1>2, <1>3 DEF TakeCompactCutoff, FailedTo, JobType, Deleting
<1>4. CASE Publish
  <2>1. floor' = RaisedFloor(job.compactCut) /\ job' = [job EXCEPT !.at = "sweep"]
    BY <1>4 DEF Publish
  <2>. QED
    BY <1>2, <2>1, FloorRises DEF JobType
<1>5. CASE ~TakeCompactCutoff /\ ~Publish
  <2>1. job.at \in Deleting /\ job'.compactCut = job.compactCut
    BY <1>5, CutFixed
  <2>. QED
    BY <1>1, <1>2, <2>1 DEF CutPublished, JobType
<1>. QED
  BY <1>3, <1>4, <1>5

(* The cutoff that is taken from a window without a hole at its edge lies   *)
(* below everything the window keeps.                                       *)
LEMMA CutTaken ==
  ASSUME TypeInv, KeepsWindow, TakeCompactCutoff, ~ragged', job'.at = "publish"
  PROVE  \A n \in 1 .. now : n >= now - tightest' => n >= job'.compactCut
<1> DEFINE cut == CutoffBlock(job.compact)
<1>1. /\ now \in Nat /\ tightest \in Nat /\ job.compact \in Windows
      /\ blocks \subseteq 1 .. now /\ indexed \cup gaps = 1 .. now
  BY RetentionAssumption
     DEF TypeInv, Days, Windows, JobType, HistoryType, TakeCompactCutoff
<1>2. /\ job' = [job EXCEPT !.at = IF cut > 0 THEN "publish" ELSE "decide",
                           !.compactCut = cut]
      /\ ragged' = (ragged \/ Ragged(job.compact))
      /\ tightest' = Min({tightest, job.compact})
  BY DEF TakeCompactCutoff, FailedTo, TypeInv, JobType
<1>3. cut > 0 /\ job'.compactCut = cut
  BY <1>2 DEF TypeInv, JobType
<1>4. ~ragged /\ ~Ragged(job.compact)
  BY <1>2
<1>5. /\ job.compact \in Nat /\ tightest' \in Nat
      /\ tightest' <= tightest /\ tightest' <= job.compact
  BY <1>1, <1>2, LesserOfTwo DEF Windows
<1>6. blocks # {}
  BY <1>3 DEF CutoffBlock
<1>7. /\ cut \in blocks
      /\ WindowEdge(job.compact) \in Int /\ WindowEdge(job.compact) <= now - job.compact
      /\ \A n \in blocks : n >= WindowEdge(job.compact) => cut <= n
  BY <1>1, <1>6, CutoffIsIndexed
<1> HIDE DEF cut
<1>8. ASSUME NEW n \in 1 .. now, n >= now - tightest', n < cut
      PROVE  FALSE
  <2> DEFINE edge == WindowEdge(job.compact)
             window == job.compact
             least == tightest'
  <2>a. /\ now \in Nat /\ n \in Nat /\ tightest \in Nat
        /\ window \in Nat /\ least \in Nat /\ edge \in Int
        /\ least <= tightest /\ least <= window
        /\ edge <= now - window /\ n >= now - least
    <3>1. now \in Nat /\ n \in Nat /\ tightest \in Nat
      BY <1>1, <1>8
    <3>2. window \in Nat /\ least \in Nat /\ least <= tightest /\ least <= window
      BY <1>5
    <3>3. edge \in Int /\ edge <= now - window /\ n >= now - least
      BY <1>7, <1>8
    <3>. QED
      BY <3>1, <3>2, <3>3
  <2> HIDE DEF edge, window, least
  <2>b. n >= edge /\ n >= now - tightest
    BY <2>a
  <2>1. n >= WindowEdge(job.compact)
    BY <2>b DEF edge
  <2>2. n \notin gaps
    BY <1>4, <1>6, <1>8, <2>1 DEF Ragged, cut
  <2>4. n \in blocks
    BY <1>1, <1>4, <1>8, <2>b, <2>2 DEF KeepsWindow, Kept
  <2>. QED
    BY <1>1, <1>7, <1>8, <2>1, <2>4
<1>. QED
  BY <1>1, <1>3, <1>7, <1>8

(* A window that moves on and is never widened reaches no further back.     *)
LEMMA LaterWindow ==
  ASSUME NEW n \in Nat, now \in Nat, now' \in Nat, tightest \in Nat, tightest' \in Nat,
         now' >= now, tightest' <= tightest, n >= now' - tightest'
  PROVE  n >= now - tightest
<1>1. \A t, u, v, w \in Nat : u >= t /\ w <= v /\ n >= u - w => n >= t - v
  OBVIOUS
<1>. QED
  BY <1>1

LEMMA CutSparesNext ==
  ASSUME TypeInv, CutSpares, KeepsWindow, [RetentionNext]_retentionVars
  PROVE  CutSpares'
<1> SUFFICES ASSUME ~ragged', job'.at \in Deleting \cup {"publish"},
                    NEW n \in 1 .. now', n >= now' - tightest'
             PROVE  n >= job'.compactCut
  BY DEF CutSpares
<1>1. ~ragged /\ now' >= now /\ tightest' <= tightest
  BY WorldMovesOn
<1>2. /\ now \in Nat /\ now' \in Nat /\ tightest \in Nat /\ tightest' \in Nat
      /\ JobType /\ JobType'
  BY TypeNext, RetentionAssumption DEF TypeInv, Days, Windows
<1>3. CASE TakeCompactCutoff
  <2>1. now' = now /\ job'.at = "publish"
    BY <1>2, <1>3 DEF TakeCompactCutoff, FailedTo, JobType, Deleting, worldVars
  <2>. QED
    BY <1>3, <2>1, CutTaken
<1>4. CASE ~TakeCompactCutoff
  <2>1. job.at \in Deleting \cup {"publish"} /\ job'.compactCut = job.compactCut
    <3>1. CASE Publish
      BY <1>2, <3>1 DEF Publish, FailedTo, JobType
    <3>2. CASE ~Publish
      BY <1>4, <3>2, CutFixed
    <3>. QED
      BY <3>1, <3>2
  <2>2. CASE n \in 1 .. now
    <3>1. n >= now - tightest
      <4>1. n \in Nat /\ n >= now' - tightest'
        BY <2>2
      <4>. QED
        BY <1>1, <1>2, <4>1, LaterWindow
    <3>. QED
      BY <1>1, <2>1, <2>2, <3>1 DEF CutSpares
  <2>3. CASE n > now
    BY <1>2, <2>1, <2>3 DEF JobType
  <2>. QED
    BY <1>2, <2>2, <2>3
<1>. QED
  BY <1>3, <1>4

LEMMA CutInvNext ==
  ASSUME TypeInv, CutInv, [RetentionNext]_retentionVars
  PROVE  CutInv'
<1>1. CutPublished' /\ CutSpares'
  BY CutPublishedNext, CutSparesNext DEF CutInv
<1>2. /\ now \in Nat /\ now' \in Nat /\ floor \in Nat /\ floor' \in Nat
      /\ tightest \in Nat /\ tightest' \in Nat /\ JobType
      /\ indexed \subseteq 1 .. now /\ indexed' \subseteq 1 .. now'
  BY TypeNext, RetentionAssumption DEF TypeInv, Days, Windows, HistoryType
<1>3. FloorTruthful'
  <2> SUFFICES ASSUME ~unpublished', NEW n \in indexed', ~Kept(n)'
               PROVE  n < floor'
    BY DEF FloorTruthful
  <2>1. n \in indexed /\ Spares(n)
    BY StepSpares
  <2>2. ~unpublished /\ floor' >= floor
    BY WorldMovesOn
  <2>3. CASE Kept(n)
    BY <1>2, <2>1, <2>2, <2>3 DEF Spares, CutInv, CutPublished, JobType
  <2>4. CASE ~Kept(n)
    BY <1>2, <2>1, <2>2, <2>4 DEF CutInv, FloorTruthful
  <2>. QED
    BY <2>3, <2>4
<1>4. KeepsWindow'
  <2> SUFFICES ASSUME ~ragged', NEW n \in indexed', n >= now' - tightest', ~Kept(n)'
               PROVE  FALSE
    BY DEF KeepsWindow
  <2>1. n \in indexed /\ Spares(n)
    BY StepSpares
  <2>2. ~ragged /\ n >= now - tightest
    <3>1. ~ragged /\ now' >= now /\ tightest' <= tightest /\ n \in Nat
      BY <1>2, <2>1, WorldMovesOn
    <3>. QED
      BY <1>2, <3>1, LaterWindow
  <2>3. Kept(n)
    BY <2>1, <2>2 DEF CutInv, KeepsWindow
  <2>4. job.at \in Deleting /\ n < job.compactCut
    BY <2>1, <2>3 DEF Spares
  <2>. QED
    BY <1>2, <2>1, <2>2, <2>4 DEF CutInv, CutSpares, JobType
<1>. QED
  BY <1>1, <1>3, <1>4 DEF CutInv

LEMMA CutInvInit == RetentionInit => CutInv
<1> SUFFICES ASSUME RetentionInit PROVE CutInv
  OBVIOUS
<1>1. indexed = {1} /\ Kept(1)
  BY DEF RetentionInit, Kept
<1>2. job.at = "idle"
  BY DEF RetentionInit, Resting
<1>. QED
  BY <1>1, <1>2
     DEF CutInv, CutPublished, CutSpares, FloorTruthful, KeepsWindow, Deleting

(* What retention has destroyed lies below the floor it has published.      *)
THEOREM DestroyedBelowFloor == RetentionSpec => []FloorTruthful
<1>1. CutInv => FloorTruthful
  BY DEF CutInv
<1>. QED
  BY <1>1, TypeInit, TypeNext, CutInvInit, CutInvNext, PTL DEF RetentionSpec

(* A young block keeps its rows while no hole lies across a window's edge.  *)
THEOREM WindowKept == RetentionSpec => []KeepsWindow
<1>1. CutInv => KeepsWindow
  BY DEF CutInv
<1>. QED
  BY <1>1, TypeInit, TypeNext, CutInvInit, CutInvNext, PTL DEF RetentionSpec

(* Nothing is deleted that no policy has asked for.                         *)
THEOREM OnlyWhatIsAsked == RetentionSpec => []RowsKept
BY NothingDeletedWithoutWindow, WindowKept, PTL DEF RowsKept

-----------------------------------------------------------------------------
(* What a run without a failure leaves behind.                              *)

BodiesAbove(cut) == \A n \in bodies \ healed : n >= cut
StillAbove(cut)  == \A n \in bodies' \ healed' : n >= cut

BodiesSwept ==
  /\ job.at \in {"cutoff", "bodies", "inputs", "compact"} => job.compactCut = 0
  /\ job.failed = 0 =>
       /\ job.at \in JobSteps \ {"idle", "cutoff", "bodies"} => BodiesAbove(job.cut)
       /\ job.at \in {"transfers", "transactions", "blocks", "decide"} =>
            BodiesAbove(job.compactCut)

LEMMA FailureCounted ==
  ASSUME JobType, NEW next, FailedTo(next)
  PROVE  job'.failed # 0
<1>1. job.failed \in Nat /\ job'.failed = job.failed + 1
  BY DEF FailedTo, JobType
<1>. QED
  BY <1>1

(* A loop over the bodies that succeeds leaves none below its cutoff.       *)
LEMMA LoopClears ==
  ASSUME TypeInv, NEW from, NEW next, NEW cut \in Nat, NEW left,
         Loop(from, next, Below(cut), left, bodies), bodies' = left, job'.failed = 0
  PROVE  StillAbove(cut) /\ job' = [job EXCEPT !.at = next]
<1>1. JobType /\ bodies \subseteq Days /\ now \in Nat /\ MaxTime \in Nat
  BY RetentionAssumption DEF TypeInv, HistoryType, Days
<1>2. ~FailedTo(next)
  BY <1>1, FailureCounted
<1>3. left = bodies \ Below(cut) /\ job' = [job EXCEPT !.at = next]
  BY <1>2 DEF Loop
<1>4. healed' = healed
  BY DEF Loop, pastVars
<1>5. \A n \in left : n >= cut
  BY <1>1, <1>3 DEF Below, Days
<1>. QED
  BY <1>3, <1>4, <1>5 DEF BodiesAbove, StillAbove

(* Blocks that arrive meanwhile lie above every cutoff, or are healed.      *)
LEMMA BodiesStay ==
  ASSUME TypeInv, NEW cut \in Nat, cut <= now, BodiesAbove(cut),
         [RetentionNext]_retentionVars
  PROVE  StillAbove(cut)
<1>1. now \in Nat /\ bodies \subseteq 1 .. now
  BY RetentionAssumption DEF TypeInv, HistoryType, Days
<1>2. CASE NewDay
  <2>1. bodies' \subseteq bodies \cup {now + 1} /\ healed' = healed
    BY <1>2 DEF NewDay, Indexes
  <2>. QED
    BY <1>1, <2>1 DEF BodiesAbove, StillAbove
<1>3. CASE HealLands
  BY <1>3 DEF HealLands, Indexes, BodiesAbove, StillAbove
<1>4. CASE ~NewDay /\ ~HealLands
  <2>1. bodies' \subseteq bodies /\ healed' = healed
    <3>1. CASE PruneBodies \/ SweepBodies
      BY <3>1 DEF PruneBodies, SweepBodies, Loop, pastVars
    <3>2. CASE \/ HealStarts \/ StartRun \/ TakeCutoff \/ PruneInputs \/ SkipCompact
               \/ TakeCompactCutoff \/ Publish \/ DropTransfers \/ DeleteTransactions
               \/ DeleteBlocks \/ Emergency \/ EndRun \/ Die \/ UNCHANGED retentionVars
      BY <3>2 DEF HealStarts, StartRun, TakeCutoff, PruneInputs, SkipCompact,
                  TakeCompactCutoff, Publish, DropTransfers, DeleteTransactions,
                  DeleteBlocks, Emergency, EndRun, Die, Loop, retentionVars, rowsVars, pastVars
    <3>. QED
      BY <1>4, <3>1, <3>2 DEF RetentionNext
  <2>. QED
    BY <2>1 DEF BodiesAbove, StillAbove
<1>. QED
  BY <1>2, <1>3, <1>4

LEMMA Unfailed ==
  ASSUME JobType, NEW next, job' = [job EXCEPT !.at = next] \/ FailedTo(next),
         job'.failed = 0
  PROVE  job.failed = 0
BY FailureCounted DEF JobType

LEMMA LoopUnfailed ==
  ASSUME JobType, NEW from, NEW next, NEW gone, NEW left, NEW table,
         Loop(from, next, gone, left, table), job'.failed = 0
  PROVE  job.failed = 0
<1>1. job' = [job EXCEPT !.at = next] \/ FailedTo(next)
  BY DEF Loop
<1>. QED
  BY <1>1, Unfailed

LEMMA BodiesSweptNext ==
  ASSUME TypeInv, BodiesSwept, [RetentionNext]_retentionVars
  PROVE  BodiesSwept'
<1>1. /\ now \in Nat /\ JobType /\ JobType' /\ TypeInv'
      /\ job.cut \in Nat /\ job.cut <= now
      /\ job.compactCut \in Nat /\ job.compactCut <= now
  BY TypeNext, RetentionAssumption DEF TypeInv, Days, JobType
<1>2. StillAbove(0)
  BY <1>1 DEF TypeInv, HistoryType, BodiesAbove, StillAbove
<1>3. CASE job' = job
  BY <1>1, <1>3, BodiesStay DEF BodiesSwept, BodiesAbove, StillAbove
<1>4. CASE StartRun \/ Emergency \/ EndRun \/ Die
  <2>1. /\ Resting.at = "idle"
        /\ \A b, c, o : Starts(b, c, o).at = "cutoff" /\ Starts(b, c, o).compactCut = 0
    BY DEF Starts, Resting
  <2>2. job' = Resting \/ \E b, c, o : job' = Starts(b, c, o)
    BY <1>4 DEF StartRun, Emergency, EndRun, Die
  <2>. QED
    BY <2>1, <2>2 DEF BodiesSwept
<1>5. CASE TakeCutoff
  <2>1. job.at = "cutoff" /\ job'.at = "bodies" /\ job'.compactCut = job.compactCut
    BY <1>1, <1>5 DEF TakeCutoff, FailedTo, JobType
  <2>. QED
    BY <2>1 DEF BodiesSwept
<1>6. CASE PruneBodies
  <2>1. PICK left \in Tables :
          Loop("bodies", "inputs", Below(job.cut), left, bodies) /\ bodies' = left
    BY <1>6 DEF PruneBodies
  <2>2. job.at = "bodies" /\ job'.at = "inputs" /\ SameJob
    BY <1>1, <2>1, LoopTakes DEF JobSteps
  <2>3. job'.failed = 0 => StillAbove(job.cut)
    BY <1>1, <2>1, LoopClears
  <2>. QED
    BY <2>2, <2>3 DEF BodiesSwept, SameJob, BodiesAbove, StillAbove
<1>7. CASE PruneInputs
  <2>1. PICK left : Loop("inputs", "compact",
                         IF BodyPruneIsRedundant THEN {} ELSE Below(job.cut), left, full)
    BY <1>7 DEF PruneInputs
  <2>2. job.at = "inputs" /\ job'.at = "compact" /\ SameJob
    BY <1>1, <2>1, LoopTakes DEF JobSteps
  <2>3. job'.failed = 0 => job.failed = 0
    BY <1>1, <2>1, LoopUnfailed
  <2>4. job'.failed = 0 => StillAbove(job.cut)
    BY <1>1, <2>2, <2>3, BodiesStay DEF BodiesSwept, JobSteps
  <2>. QED
    BY <2>2, <2>4 DEF BodiesSwept, SameJob, BodiesAbove, StillAbove
<1>8. CASE SkipCompact
  <2>1. /\ job.at = "compact" /\ job'.at = "decide" /\ SameJob
        /\ job'.failed = job.failed
    BY <1>1, <1>8 DEF SkipCompact, JobType, SameJob
  <2>2. job'.failed = 0 => StillAbove(job.cut)
    BY <1>1, <2>1, BodiesStay DEF BodiesSwept, JobSteps
  <2>. QED
    BY <1>2, <2>1, <2>2 DEF BodiesSwept, SameJob, BodiesAbove, StillAbove
<1>9. CASE TakeCompactCutoff
  <2>1. CASE FailedTo("decide")
    BY <1>1, <2>1, FailureCounted, JobGoesOn, <1>9
       DEF BodiesSwept, TakeCompactCutoff, worldVars, JobSteps
  <2>2. CASE ~FailedTo("decide")
    <3>a. /\ job.at = "compact"
          /\ \E c : job' = [job EXCEPT !.at = IF c > 0 THEN "publish" ELSE "decide",
                                      !.compactCut = c]
      BY <1>9, <2>2 DEF TakeCompactCutoff
    <3>b. PICK c : job' = [job EXCEPT !.at = IF c > 0 THEN "publish" ELSE "decide",
                                      !.compactCut = c]
      BY <3>a
    <3>1. /\ job.at = "compact" /\ job'.cut = job.cut /\ job'.failed = job.failed
          /\ job'.at = "publish" \/ (job'.at = "decide" /\ ~(job'.compactCut > 0))
      BY <1>1, <3>a, <3>b DEF JobType
    <3>2. job'.at = "decide" => job'.compactCut = 0
      BY <1>1, <3>1 DEF JobType
    <3>3. job'.failed = 0 => StillAbove(job.cut)
      BY <1>1, <3>1, BodiesStay DEF BodiesSwept, JobSteps
    <3>. QED
      BY <1>2, <3>1, <3>2, <3>3 DEF BodiesSwept, BodiesAbove, StillAbove
  <2>. QED
    BY <2>1, <2>2
<1>10. CASE Publish
  <2>1. job' = [job EXCEPT !.at = "sweep"] \/ FailedTo("sweep")
    BY <1>10 DEF Publish
  <2>2. job.at = "publish" /\ job'.at = "sweep" /\ SameJob
    BY <1>1, <1>10, <2>1, JobGoesOn DEF Publish, worldVars, JobSteps, Deleting
  <2>3. job'.failed = 0 => StillAbove(job.cut)
    BY <1>1, <2>1, <2>2, Unfailed, BodiesStay DEF BodiesSwept, JobSteps
  <2>. QED
    BY <2>2, <2>3 DEF BodiesSwept, SameJob, BodiesAbove, StillAbove
<1>11. CASE SweepBodies
  <2>1. PICK left \in Tables :
          Loop("sweep", "transfers", Below(job.compactCut), left, bodies) /\ bodies' = left
    BY <1>11 DEF SweepBodies, Swept
  <2>2. job.at = "sweep" /\ job'.at = "transfers" /\ SameJob
    BY <1>1, <2>1, LoopTakes DEF JobSteps, Deleting
  <2>3. job'.failed = 0 => job.failed = 0 /\ StillAbove(job.compactCut)
    BY <1>1, <2>1, LoopClears, LoopUnfailed
  <2>4. job'.failed = 0 => StillAbove(job.cut)
    BY <1>1, <2>2, <2>3, BodiesStay DEF BodiesSwept, JobSteps, Deleting
  <2>. QED
    BY <2>2, <2>3, <2>4 DEF BodiesSwept, SameJob, BodiesAbove, StillAbove
<1>12. CASE DropTransfers \/ DeleteTransactions \/ DeleteBlocks
  <2>1. PICK from \in {"transfers", "transactions", "blocks"},
             next \in {"transactions", "blocks", "decide"} :
          \E gone, left, table : Loop(from, next, gone, left, table)
    BY <1>12 DEF DropTransfers, DeleteTransactions, DeleteBlocks
  <2>2. job.at = from /\ job'.at = next /\ SameJob
    BY <1>1, <2>1, LoopTakes DEF JobSteps, Deleting
  <2>3. job'.failed = 0 => job.failed = 0
    BY <1>1, <2>1, LoopUnfailed
  <2>4. job'.failed = 0 => StillAbove(job.cut) /\ StillAbove(job.compactCut)
    BY <1>1, <2>2, <2>3, BodiesStay DEF BodiesSwept, JobSteps, Deleting
  <2>. QED
    BY <2>2, <2>4 DEF BodiesSwept, SameJob, BodiesAbove, StillAbove
<1>. QED
  BY <1>3, <1>4, <1>5, <1>6, <1>7, <1>8, <1>9, <1>10, <1>11, <1>12
     DEF RetentionNext, NewDay, HealStarts, HealLands, retentionVars

(* After a run without a failure no body of a block that is not healed lies *)
(* below either cutoff.                                                     *)
THEOREM NoOrphansLeft == RetentionSpec => []NoOrphans
<1>1. RetentionInit => BodiesSwept
  BY DEF RetentionInit, Resting, BodiesSwept
<1>2. TypeInv /\ BodiesSwept => NoOrphans
  BY DEF BodiesSwept, BodiesAbove, StillAbove, NoOrphans, TypeInv, JobType, JobSteps
<1>. QED
  BY <1>1, <1>2, TypeInit, TypeNext, BodiesSweptNext, PTL DEF RetentionSpec

-----------------------------------------------------------------------------
(* The inputs of transactions, in the same manner.                          *)

FullAbove(cut)      == \A n \in full \ healed : n >= cut
FullStillAbove(cut) == \A n \in full' \ healed' : n >= cut

InputsPruned ==
  job.failed = 0 =>
    /\ job.at \in {"compact", "publish", "decide"} \cup Deleting =>
         BodyPruneIsRedundant \/ FullAbove(job.cut)
    /\ job.at \in {"blocks", "decide"} => FullAbove(job.compactCut)

LEMMA FullStays ==
  ASSUME TypeInv, NEW cut \in Nat, cut <= now, FullAbove(cut),
         [RetentionNext]_retentionVars
  PROVE  FullStillAbove(cut)
<1>1. now \in Nat /\ full \subseteq 1 .. now
  BY RetentionAssumption DEF TypeInv, HistoryType, Days
<1>2. CASE NewDay
  <2>1. full' \subseteq full \cup {now + 1} /\ healed' = healed
    BY <1>2 DEF NewDay, Indexes
  <2>. QED
    BY <1>1, <2>1 DEF FullAbove, FullStillAbove
<1>3. CASE HealLands
  BY <1>3 DEF HealLands, Indexes, FullAbove, FullStillAbove
<1>4. CASE ~NewDay /\ ~HealLands
  <2>1. full' \subseteq full /\ healed' = healed
    <3>1. CASE PruneInputs \/ DeleteTransactions
      BY <3>1 DEF PruneInputs, DeleteTransactions, Loop, pastVars
    <3>2. CASE \/ HealStarts \/ StartRun \/ TakeCutoff \/ PruneBodies \/ SkipCompact
               \/ TakeCompactCutoff \/ Publish \/ SweepBodies \/ DropTransfers
               \/ DeleteBlocks \/ Emergency \/ EndRun \/ Die \/ UNCHANGED retentionVars
      BY <3>2 DEF HealStarts, StartRun, TakeCutoff, PruneBodies, SkipCompact,
                  TakeCompactCutoff, Publish, SweepBodies, DropTransfers,
                  DeleteBlocks, Emergency, EndRun, Die, Loop, retentionVars, rowsVars, pastVars
    <3>. QED
      BY <1>4, <3>1, <3>2 DEF RetentionNext
  <2>. QED
    BY <2>1 DEF FullAbove, FullStillAbove
<1>. QED
  BY <1>2, <1>3, <1>4

(* A loop over transactions that succeeds leaves no input below its cutoff. *)
LEMMA LoopEmpties ==
  ASSUME TypeInv, NEW from, NEW next, NEW cut \in Nat, NEW left, NEW table,
         Loop(from, next, Below(cut), left, table), full' \subseteq left, full' \subseteq full,
         job'.failed = 0
  PROVE  FullStillAbove(cut)
<1>1. JobType /\ full \subseteq Days /\ now \in Nat /\ MaxTime \in Nat
  BY RetentionAssumption DEF TypeInv, HistoryType, Days
<1>2. ~FailedTo(next)
  BY <1>1, FailureCounted
<1>3. left = table \ Below(cut)
  BY <1>2 DEF Loop
<1>. QED
  BY <1>1, <1>3 DEF Below, Days, FullStillAbove

LEMMA InputsPrunedNext ==
  ASSUME TypeInv, BodiesSwept, InputsPruned, [RetentionNext]_retentionVars
  PROVE  InputsPruned'
<1>1. /\ now \in Nat /\ JobType /\ JobType' /\ TypeInv'
      /\ job.cut \in Nat /\ job.cut <= now
      /\ job.compactCut \in Nat /\ job.compactCut <= now
  BY TypeNext, RetentionAssumption DEF TypeInv, Days, JobType
<1>2. FullStillAbove(0)
  BY <1>1 DEF TypeInv, HistoryType, FullStillAbove
<1>3. CASE job' = job
  BY <1>1, <1>3, FullStays DEF InputsPruned, FullAbove, FullStillAbove, BodyPruneIsRedundant
<1>4. CASE StartRun \/ Emergency \/ EndRun \/ Die
  <2>1. /\ Resting.at = "idle"
        /\ \A b, c, o : Starts(b, c, o).at = "cutoff"
    BY DEF Starts, Resting
  <2>2. job' = Resting \/ \E b, c, o : job' = Starts(b, c, o)
    BY <1>4 DEF StartRun, Emergency, EndRun, Die
  <2>. QED
    BY <2>1, <2>2 DEF InputsPruned, Deleting
<1>5. CASE TakeCutoff \/ PruneBodies
  <2>1. job'.at \in {"bodies", "inputs"}
    <3>1. CASE TakeCutoff
      BY <1>1, <3>1 DEF TakeCutoff, FailedTo, JobType
    <3>2. CASE PruneBodies
      <4>1. PICK left \in Tables : Loop("bodies", "inputs", Below(job.cut), left, bodies)
        BY <3>2 DEF PruneBodies
      <4>. QED
        BY <1>1, <4>1, LoopTakes DEF JobSteps
    <3>. QED
      BY <1>5, <3>1, <3>2
  <2>. QED
    BY <2>1 DEF InputsPruned, Deleting
<1>6. CASE PruneInputs
  <2>1. PICK left : /\ Loop("inputs", "compact",
                            IF BodyPruneIsRedundant THEN {} ELSE Below(job.cut), left, full)
                    /\ full' = left
    BY <1>6 DEF PruneInputs
  <2>2. job.at = "inputs" /\ job'.at = "compact" /\ SameJob
    BY <1>1, <2>1, LoopTakes DEF JobSteps
  <2>3. left \subseteq full
    BY <2>1 DEF Loop
  <2>4. job'.failed = 0 => BodyPruneIsRedundant \/ FullStillAbove(job.cut)
    BY <1>1, <2>1, <2>3, LoopEmpties
  <2>. QED
    BY <2>2, <2>4 DEF InputsPruned, SameJob, FullAbove, FullStillAbove, BodyPruneIsRedundant
<1>7. CASE SkipCompact
  <2>1. /\ job.at = "compact" /\ job'.at = "decide" /\ SameJob
        /\ job'.failed = job.failed /\ job.compactCut = 0
    BY <1>1, <1>7 DEF SkipCompact, JobType, SameJob, BodiesSwept
  <2>2. job'.failed = 0 => BodyPruneIsRedundant \/ FullStillAbove(job.cut)
    BY <1>1, <2>1, FullStays DEF InputsPruned
  <2>. QED
    BY <1>2, <2>1, <2>2 DEF InputsPruned, SameJob, FullAbove, FullStillAbove,
                            BodyPruneIsRedundant
<1>8. CASE TakeCompactCutoff
  <2>1. CASE FailedTo("decide")
    BY <1>1, <2>1, FailureCounted DEF InputsPruned
  <2>2. CASE ~FailedTo("decide")
    <3>a. /\ job.at = "compact"
          /\ \E c : job' = [job EXCEPT !.at = IF c > 0 THEN "publish" ELSE "decide",
                                      !.compactCut = c]
      BY <1>8, <2>2 DEF TakeCompactCutoff
    <3>b. PICK c : job' = [job EXCEPT !.at = IF c > 0 THEN "publish" ELSE "decide",
                                      !.compactCut = c]
      BY <3>a
    <3>1. /\ job.at = "compact" /\ job'.cut = job.cut /\ job'.failed = job.failed
          /\ job'.body = job.body /\ job'.compact = job.compact
          /\ job'.at = "publish" \/ (job'.at = "decide" /\ ~(job'.compactCut > 0))
      BY <1>1, <3>a, <3>b DEF JobType
    <3>2. job'.at = "decide" => job'.compactCut = 0
      BY <1>1, <3>1 DEF JobType
    <3>3. job'.failed = 0 => BodyPruneIsRedundant \/ FullStillAbove(job.cut)
      BY <1>1, <3>1, FullStays DEF InputsPruned
    <3>. QED
      BY <1>2, <3>1, <3>2, <3>3 DEF InputsPruned, FullAbove, FullStillAbove,
                                    BodyPruneIsRedundant
  <2>. QED
    BY <2>1, <2>2
<1>9. CASE Publish
  <2>1. job' = [job EXCEPT !.at = "sweep"] \/ FailedTo("sweep")
    BY <1>9 DEF Publish
  <2>2. job.at = "publish" /\ job'.at = "sweep" /\ SameJob
    BY <1>1, <1>9, <2>1, JobGoesOn DEF Publish, worldVars, JobSteps, Deleting
  <2>3. job'.failed = 0 => BodyPruneIsRedundant \/ FullStillAbove(job.cut)
    BY <1>1, <2>1, <2>2, Unfailed, FullStays DEF InputsPruned
  <2>. QED
    BY <2>2, <2>3 DEF InputsPruned, SameJob, FullAbove, FullStillAbove, BodyPruneIsRedundant
<1>10. CASE SweepBodies \/ DropTransfers
  <2>1. PICK from \in {"sweep", "transfers"}, next \in {"transfers", "transactions"} :
          \E gone, left, table : Loop(from, next, gone, left, table)
    BY <1>10 DEF SweepBodies, DropTransfers
  <2>2. job.at = from /\ job'.at = next /\ SameJob
    BY <1>1, <2>1, LoopTakes DEF JobSteps, Deleting
  <2>3. job'.failed = 0 => BodyPruneIsRedundant \/ FullStillAbove(job.cut)
    BY <1>1, <2>1, <2>2, LoopUnfailed, FullStays DEF InputsPruned, Deleting
  <2>. QED
    BY <2>2, <2>3 DEF InputsPruned, SameJob, FullAbove, FullStillAbove, BodyPruneIsRedundant
<1>11. CASE DeleteTransactions
  <2>1. PICK left \in Tables :
          /\ Loop("transactions", "blocks", Below(job.compactCut), left, full \cup pruned)
          /\ full' = full \cap left
    BY <1>11 DEF DeleteTransactions
  <2>2. job.at = "transactions" /\ job'.at = "blocks" /\ SameJob
    BY <1>1, <2>1, LoopTakes DEF JobSteps, Deleting
  <2>3. job'.failed = 0 => FullStillAbove(job.compactCut)
    BY <1>1, <2>1, LoopEmpties
  <2>4. job'.failed = 0 => BodyPruneIsRedundant \/ FullStillAbove(job.cut)
    BY <1>1, <2>1, <2>2, LoopUnfailed, FullStays DEF InputsPruned, Deleting
  <2>. QED
    BY <2>2, <2>3, <2>4 DEF InputsPruned, SameJob, FullAbove, FullStillAbove,
                            BodyPruneIsRedundant
<1>12. CASE DeleteBlocks
  <2>1. PICK left \in Tables : Loop("blocks", "decide", Childless, left, blocks)
    BY <1>12 DEF DeleteBlocks
  <2>2. job.at = "blocks" /\ job'.at = "decide" /\ SameJob
    BY <1>1, <2>1, LoopTakes DEF JobSteps, Deleting
  <2>3. job'.failed = 0 => /\ BodyPruneIsRedundant \/ FullStillAbove(job.cut)
                          /\ FullStillAbove(job.compactCut)
    BY <1>1, <2>1, <2>2, LoopUnfailed, FullStays DEF InputsPruned, Deleting
  <2>. QED
    BY <2>2, <2>3 DEF InputsPruned, SameJob, FullAbove, FullStillAbove, BodyPruneIsRedundant
<1>. QED
  BY <1>3, <1>4, <1>5, <1>6, <1>7, <1>8, <1>9, <1>10, <1>11, <1>12
     DEF RetentionNext, NewDay, HealStarts, HealLands, retentionVars

(* The pass that empties inputs may be left out when it is redundant: a run *)
(* without a failure leaves no input, and no orphaned body, on the far side *)
(* of its cutoffs.                                                          *)
THEOREM NothingLeftOver == RetentionSpec => []CleanRun
<1>1. RetentionInit => BodiesSwept /\ InputsPruned
  BY DEF RetentionInit, Resting, BodiesSwept, InputsPruned, Deleting
<1>2. TypeInv /\ InputsPruned => CleanRunPrunes
  <2>1. SUFFICES ASSUME TypeInv, InputsPruned, job.at = "decide", job.failed = 0,
                        job.compact <= job.body => job.compactCut >= job.cut,
                        NEW n \in full \ healed
                 PROVE  n >= job.cut
    BY DEF CleanRunPrunes
  <2>2. job.cut \in Nat /\ job.compactCut \in Nat /\ n \in Nat
    BY <2>1, RetentionAssumption DEF TypeInv, JobType, HistoryType, Days
  <2>. QED
    BY <2>1, <2>2 DEF InputsPruned, FullAbove, BodyPruneIsRedundant
<1>. QED
  BY <1>1, <1>2, NoOrphansLeft, TypeInit, TypeNext, BodiesSweptNext, InputsPrunedNext, PTL
     DEF RetentionSpec, CleanRun
=============================================================================
