------------------------------ MODULE GapHealer ------------------------------
(***************************************************************************)
(* The gap healer (apps/indexer/src/gap-healer.ts) of overlapping deploy    *)
(* generations, next to what works on the same rows: the resume backfill of *)
(* a generation that boots, the transfer queue each process holds in        *)
(* memory, and retention.                                                   *)
(*                                                                          *)
(* A tick is cut at its statements: claim, selection of the absent heights, *)
(* one processBlock after another (block row, transactions, enqueue), flush,*)
(* verification, cursor, stamp.  The lease's clock has three stages, fresh, *)
(* expiring (less than LEASE_SAFETY_MS left) and lapsed; nothing clears a   *)
(* lease, it only lapses.                                                   *)
(*                                                                          *)
(* Simplifications: a height's row is absent, bare (fewer transactions than *)
(* tx_count) or full; a draining queue lands at once; reorgs and the        *)
(* recording of new gaps happen within resumeWindow of the tip, out of the  *)
(* healer's reach; quarantine decisions are given.                          *)
(***************************************************************************)
EXTENDS Integers, FiniteSets, FiniteSetsExt

CONSTANTS
  Procs,            \* generations of the indexer
  MaxHeight,        \* the heights of the model are 1..MaxHeight
  GapEnd,           \* index_gaps: from_block -> to_block
  Poison,           \* quarantined heights, all of them absent
  ResumeWindow,     \* RESUME_GAP_SCAN_BLOCKS
  HealBatch,        \* GAP_HEAL_BATCH
  FirstNewest, MaxNewest,  \* MAX(blocks.number) at first and at most
  MaxFloor,         \* retention's cutoff at most
  MaxCrashes,       \* bound of the model
  BlockFitsMargin   \* one processBlock always ends within LEASE_SAFETY_MS

Heights == 1 .. MaxHeight
Gaps    == DOMAIN GapEnd
InGap(n) == \E g \in Gaps : n \in g .. GapEnd[g]

ASSUME HeightAssumption == MaxHeight \in Nat /\ MaxHeight <= FirstNewest
ASSUME GapAssumption ==
  /\ Gaps \subseteq Heights
  /\ \A g \in Gaps : GapEnd[g] \in g .. MaxHeight
ASSUME PoisonAssumption == Poison \subseteq {n \in Heights : InGap(n)}
ASSUME BatchAssumption == HealBatch \in Nat \ {0}   \* re-clamped on entry
ASSUME BoundAssumption ==
  /\ FirstNewest \in Nat /\ MaxNewest \in Nat /\ FirstNewest <= MaxNewest
  /\ ResumeWindow \in Nat
  /\ MaxFloor \in Nat \ {0}
  /\ MaxCrashes \in Nat

VARIABLES
  \* the database
  row,          \* blocks and transactions
  landed,       \* heights whose transfers are in token_transfers
  cutoff,       \* heights below it are, or are about to be, deleted by retention
  floor,        \* compact_cutoff_block, the cutoff as it was published
  newest,       \* MAX(blocks.number)
  healed_at,    \* gaps that are stamped
  heal_cursor,  \* 0 for NULL
  lease,        \* heal_lease_owner and what is left of heal_lease_until
  \* the processes
  tick,         \* the healer's tick
  queue,        \* transfers enqueued, not yet written
  backfill,     \* heights the resume backfill has left
  filling,      \* the one it is processing, 0 for none
  \* history
  lost,         \* full rows whose transfers went with an error or a process
  crashes

retVars  == <<cutoff, floor>>
rowVars  == <<row, landed, retVars, newest>>
gapVars  == <<healed_at, heal_cursor, lease>>
fillVars == <<backfill, filling>>
vars     == <<rowVars, gapVars, tick, queue, fillVars, lost, crashes>>

Nobody  == "nobody"
NoLease == [owner |-> Nobody, left |-> "lapsed"]
Off(ph) == [phase |-> ph, gap |-> 0, healFrom |-> 0, verifyFrom |-> 0,
            windowEnd |-> 0, missing |-> {}]

Init ==
  /\ row = [n \in Heights |-> IF InGap(n) THEN "absent" ELSE "full"]
  /\ landed = {n \in Heights : ~InGap(n)}
  /\ cutoff = 1
  /\ floor = 1
  /\ newest = FirstNewest
  /\ healed_at = {}
  /\ heal_cursor = [g \in Gaps |-> 0]
  /\ lease = [g \in Gaps |-> NoLease]
  /\ tick = [p \in Procs |-> Off("down")]
  /\ queue = [p \in Procs |-> {}]
  /\ backfill = [p \in Procs |-> {}]
  /\ filling = [p \in Procs |-> 0]
  /\ lost = {}
  /\ crashes = 0

-----------------------------------------------------------------------------
(* Selecting and claiming a gap.                                            *)

Absent(n) == row[n] = "absent"

HealFrom(g)   == Max({g, floor, heal_cursor[g] + 1})
VerifyFrom(g) == Max({g, floor})

(* A defect no tick acts on, and nothing left that one would act on.        *)
Blocked(g)    == \E n \in VerifyFrom(g) .. GapEnd[g] :
                   \/ n \in Poison /\ Absent(n)
                   \/ row[n] = "bare"
Repairable(g) == \E n \in HealFrom(g) .. GapEnd[g] : n \notin Poison /\ Absent(n)

NeverUnfinishable(g) == FALSE   \* mutant: the oldest gap whatever it holds
Unfinishable(g) == Blocked(g) /\ ~Repairable(g)

Leased(g) == lease[g].left # "lapsed"

(* Retained, and clear of the resume scan's territory.                      *)
Eligible(g) ==
  /\ g \notin healed_at
  /\ GapEnd[g] >= floor
  /\ GapEnd[g] < newest - ResumeWindow
  /\ ~Unfinishable(g)

(* Mutant: a leased gap is passed over and the next one taken.              *)
UnleasedCandidate == {g \in Gaps : Eligible(g) /\ ~Leased(g)}

(* The oldest eligible gap, leased or not: overlapping ranges must compete  *)
(* for one lease.                                                           *)
Candidates == {g \in Gaps : Eligible(g)}

(* Repeated in the UPDATE, which makes the claim atomic.                    *)
StillClaimable(g) == ~Leased(g)

WindowEndUnclamped(g) == HealFrom(g) + HealBatch - 1   \* mutant
WindowEnd(g) == Min({GapEnd[g], HealFrom(g) + HealBatch - 1})

ClaimGap(p) ==
  /\ tick[p].phase = "idle"
  /\ backfill[p] = {}   \* a replaying cursor lags: the lag guard
  /\ Candidates # {}
  /\ LET g == Min(Candidates) IN
       /\ StillClaimable(g)
       /\ lease' = [lease EXCEPT ![g] = [owner |-> p, left |-> "fresh"]]
       /\ tick' = [tick EXCEPT ![p] =
            [phase |-> "select", gap |-> g, healFrom |-> HealFrom(g),
             verifyFrom |-> VerifyFrom(g), missing |-> {},
             windowEnd |-> WindowEnd(g)]]
  /\ UNCHANGED <<rowVars, healed_at, heal_cursor, queue, fillVars, lost, crashes>>

Window(p) == tick[p].healFrom .. tick[p].windowEnd

(* The work set: absent heights only, quarantined ones excluded.            *)
SelectMissing(p) ==
  /\ tick[p].phase = "select"
  /\ tick' = [tick EXCEPT ![p].phase = "blocks",
                ![p].missing = {n \in Window(p) : Absent(n) /\ n \notin Poison}]
  /\ UNCHANGED <<rowVars, gapVars, queue, fillVars, lost, crashes>>

-----------------------------------------------------------------------------
(* Re-indexing the work set, one processBlock after another.                *)

At(p)     == Min(tick[p].missing)
Holds(p)  == lease[tick[p].gap].owner = p /\ Leased(tick[p].gap)
GoTo(p, phase) == tick' = [tick EXCEPT ![p].phase = phase]
EndTick(p)     == tick' = [tick EXCEPT ![p] = Off("idle")]

MidBlock == {"insertBlock", "insertTransactions", "enqueue"}

(* The local deadline stops a tick before the lease lapses.                 *)
NoDeadline(p)     == TRUE   \* mutant
BeforeDeadline(p) == Holds(p) /\ lease[tick[p].gap].left = "fresh"

StartBlock(p) ==
  /\ tick[p].phase = "blocks"
  /\ tick[p].missing # {}
  /\ BeforeDeadline(p)
  /\ GoTo(p, "insertBlock")
  /\ UNCHANGED <<rowVars, gapVars, queue, fillVars, lost, crashes>>

(* The lease is about to lapse, or the indexer lags: yield.                 *)
YieldTick(p) ==
  /\ tick[p].phase = "blocks"
  /\ tick[p].missing # {}
  /\ EndTick(p)
  /\ UNCHANGED <<rowVars, gapVars, queue, fillVars, lost, crashes>>

InsertBlock(p) ==
  /\ tick[p].phase = "insertBlock"
  /\ row' = [row EXCEPT ![At(p)] = IF @ = "absent" THEN "bare" ELSE @]
  /\ GoTo(p, "insertTransactions")
  /\ UNCHANGED <<landed, retVars, newest, gapVars, queue, fillVars, lost, crashes>>

InsertTransactions(p) ==
  /\ tick[p].phase = "insertTransactions"
  /\ row' = [row EXCEPT ![At(p)] = "full"]
  /\ GoTo(p, "enqueue")
  /\ UNCHANGED <<landed, retVars, newest, gapVars, queue, fillVars, lost, crashes>>

EnqueueTransfers(p) ==
  /\ tick[p].phase = "enqueue"
  /\ queue' = [queue EXCEPT ![p] = @ \cup {At(p)}]
  /\ tick' = [tick EXCEPT ![p].phase = "blocks", ![p].missing = @ \ {At(p)}]
  /\ UNCHANGED <<rowVars, gapVars, fillVars, lost, crashes>>

(* reindexBlock rejects, before or after its writes: no clean-up.           *)
FailBlock(p) ==
  /\ tick[p].phase \in MidBlock
  /\ lost' = IF tick[p].phase = "enqueue" THEN lost \cup {At(p)} ELSE lost
  /\ EndTick(p)
  /\ UNCHANGED <<rowVars, gapVars, queue, fillVars, crashes>>

-----------------------------------------------------------------------------
(* Confirming the window.                                                   *)

NotFlushed(p) == TRUE   \* mutant: nobody waits for the queue
Flushed(p)    == queue[p] = {}

FlushTransfers(p) ==
  /\ tick[p].phase = "blocks"
  /\ tick[p].missing = {}
  /\ Flushed(p)
  /\ GoTo(p, "verify")
  /\ UNCHANGED <<rowVars, gapVars, queue, fillVars, lost, crashes>>

FlushTimesOut(p) ==
  /\ tick[p].phase = "blocks"
  /\ tick[p].missing = {}
  /\ queue[p] # {}
  /\ EndTick(p)
  /\ UNCHANGED <<rowVars, gapVars, queue, fillVars, lost, crashes>>

(* Mutant: a block row is taken for a complete block.                       *)
PresentIsComplete(n) == n \in Poison \/ ~Absent(n)

(* A quarantined height does not hold the cursor.                           *)
Complete(n) == n \in Poison \/ row[n] = "full"

VerifyWindow(p) ==
  /\ tick[p].phase = "verify"
  /\ \/ /\ \A n \in Window(p) : Complete(n)
        /\ GoTo(p, "cursor")
     \/ /\ \E n \in Window(p) : ~Complete(n)
        /\ EndTick(p)
  /\ UNCHANGED <<rowVars, gapVars, queue, fillVars, lost, crashes>>

(* Fenced by the lease.                                                     *)
AdvanceCursor(p) ==
  /\ tick[p].phase = "cursor"
  /\ Holds(p)
  /\ tick[p].gap \notin healed_at
  /\ heal_cursor' = [heal_cursor EXCEPT ![tick[p].gap] = Max({@, tick[p].windowEnd})]
  /\ \/ tick[p].windowEnd < GapEnd[tick[p].gap] /\ EndTick(p)
     \/ tick[p].windowEnd = GapEnd[tick[p].gap] /\ GoTo(p, "stamp")
  /\ UNCHANGED <<rowVars, healed_at, lease, queue, fillVars, lost, crashes>>

(* Mutant: the density proof starts at this tick's window.                  *)
DenseWindow(p) ==
  \A n \in tick[p].healFrom .. GapEnd[tick[p].gap] : row[n] = "full"

(* One statement that proves the whole retained range dense again,          *)
(* quarantined heights included.                                            *)
Dense(p) ==
  \A n \in tick[p].verifyFrom .. GapEnd[tick[p].gap] : row[n] = "full"

StampHealed(p) ==
  /\ tick[p].phase = "stamp"
  /\ Holds(p)
  /\ Dense(p)
  /\ healed_at' = healed_at \cup {tick[p].gap}
  /\ EndTick(p)
  /\ UNCHANGED <<rowVars, heal_cursor, lease, queue, fillVars, lost, crashes>>

(* The UPDATE matched no row.                                               *)
FenceRefuses(p) ==
  /\ \/ tick[p].phase = "cursor" /\ ~Holds(p)
     \/ tick[p].phase = "stamp" /\ (~Holds(p) \/ ~Dense(p))
  /\ EndTick(p)
  /\ UNCHANGED <<rowVars, gapVars, queue, fillVars, lost, crashes>>

-----------------------------------------------------------------------------
(* The environment: the clock, the transfer writer, the other writers of    *)
(* these rows, processes that come and go.                                  *)

LeaseAges(g) ==
  /\ \/ /\ lease[g].left = "fresh"
        /\ lease' = [lease EXCEPT ![g].left = "expiring"]
     \/ /\ lease[g].left = "expiring"
        /\ BlockFitsMargin =>
             \A p \in Procs : tick[p].gap = g => tick[p].phase \notin MidBlock
        /\ lease' = [lease EXCEPT ![g].left = "lapsed"]
  /\ UNCHANGED <<rowVars, healed_at, heal_cursor, tick, queue, fillVars, lost, crashes>>

DrainQueue(p) ==
  /\ queue[p] # {}
  /\ landed' = landed \cup queue[p]
  /\ queue' = [queue EXCEPT ![p] = {}]
  /\ UNCHANGED <<row, retVars, newest, gapVars, tick, fillVars, lost, crashes>>

(* getResumeCursor: from the first hole of the window up to the newest row. *)
ResumeHoles == {n \in Heights : n >= newest - ResumeWindow /\ Absent(n) /\ n \notin Poison}

Boot(p) ==
  /\ tick[p].phase = "down"
  /\ tick' = [tick EXCEPT ![p] = Off("idle")]
  /\ backfill' = [backfill EXCEPT ![p] =
       IF ResumeHoles = {} THEN {} ELSE Min(ResumeHoles) .. MaxHeight]
  /\ UNCHANGED <<rowVars, gapVars, queue, filling, lost, crashes>>

BackfillStarts(p) ==
  /\ backfill[p] # {}
  /\ filling[p] = 0
  /\ filling' = [filling EXCEPT ![p] = Min(backfill[p])]
  /\ UNCHANGED <<rowVars, gapVars, tick, queue, backfill, lost, crashes>>

BackfillWrites(p) ==
  /\ filling[p] # 0
  /\ row' = [row EXCEPT ![filling[p]] = "full"]
  /\ queue' = [queue EXCEPT ![p] = @ \cup {filling[p]}]
  /\ backfill' = [backfill EXCEPT ![p] = @ \ {filling[p]}]
  /\ filling' = [filling EXCEPT ![p] = 0]
  /\ UNCHANGED <<landed, retVars, newest, gapVars, tick, lost, crashes>>

ChainGrows ==
  /\ newest < MaxNewest
  /\ newest' = newest + 1
  /\ UNCHANGED <<row, landed, retVars, gapVars, tick, queue, fillVars, lost, crashes>>

(* A retention run publishes its cutoff as the floor, and goes on to delete *)
(* below the cutoff even when the UPDATE failed; a later run tries again.   *)
RetentionRuns ==
  /\ cutoff' \in {c \in {cutoff, cutoff + 1} : c <= MaxFloor}
  /\ floor' \in {floor, cutoff'}
  /\ <<cutoff, floor>>' # <<cutoff, floor>>
  /\ UNCHANGED <<row, landed, newest, gapVars, tick, queue, fillVars, lost, crashes>>

(* Transactions go before the block row.                                    *)
RetentionDeletes(n) ==
  /\ n < cutoff
  /\ ~Absent(n)
  /\ row' = [row EXCEPT ![n] = IF @ = "full" THEN "bare" ELSE "absent"]
  /\ UNCHANGED <<landed, retVars, newest, gapVars, tick, queue, fillVars, lost, crashes>>

Crash(p) ==
  /\ tick[p].phase # "down"
  /\ crashes < MaxCrashes
  /\ crashes' = crashes + 1
  /\ lost' = lost \cup queue[p]
                  \cup {n \in Heights : tick[p].phase = "enqueue" /\ n = At(p)}
  /\ tick' = [tick EXCEPT ![p] = Off("down")]
  /\ queue' = [queue EXCEPT ![p] = {}]
  /\ backfill' = [backfill EXCEPT ![p] = {}]
  /\ filling' = [filling EXCEPT ![p] = 0]
  /\ UNCHANGED <<rowVars, gapVars>>

-----------------------------------------------------------------------------
BlockStep(p) ==
  \/ StartBlock(p)
  \/ InsertBlock(p)
  \/ InsertTransactions(p)
  \/ EnqueueTransfers(p)

ConfirmStep(p) ==
  \/ FlushTransfers(p)
  \/ VerifyWindow(p)
  \/ AdvanceCursor(p)
  \/ StampHealed(p)
  \/ FenceRefuses(p)

GiveUp(p) ==
  \/ YieldTick(p)
  \/ FailBlock(p)
  \/ FlushTimesOut(p)

BackfillStep(p) == BackfillStarts(p) \/ BackfillWrites(p)

Environment ==
  \/ ChainGrows
  \/ RetentionRuns
  \/ \E n \in Heights : RetentionDeletes(n)
  \/ \E g \in Gaps : LeaseAges(g)

Next ==
  \/ \E p \in Procs :
       \/ Boot(p)
       \/ ClaimGap(p)
       \/ SelectMissing(p)
       \/ BlockStep(p)
       \/ ConfirmStep(p)
       \/ GiveUp(p)
       \/ BackfillStep(p)
       \/ DrainQueue(p)
       \/ Crash(p)
  \/ Environment

Spec == Init /\ [][Next]_vars

(* The interval timer claims again and again, leases lapse, the writer      *)
(* retries until it lands.  A lease comfortably exceeds the work of a tick, *)
(* so of a step that is tried forever some try falls within the lease, and  *)
(* one that may fail succeeds at some point (SF).                           *)
Fairness ==
  /\ \A g \in Gaps : WF_vars(LeaseAges(g))
  /\ \A p \in Procs :
       /\ WF_vars(Boot(p))
       /\ WF_vars(SelectMissing(p))
       /\ WF_vars(BackfillStep(p))
       /\ WF_vars(DrainQueue(p))
       /\ WF_vars(FlushTransfers(p))
       /\ WF_vars(VerifyWindow(p))
       /\ WF_vars(FenceRefuses(p))
       /\ WF_vars(YieldTick(p) /\ ~BeforeDeadline(p))
       /\ SF_vars(ClaimGap(p))
       /\ SF_vars(SelectMissing(p) /\ BeforeDeadline(p))
       /\ SF_vars(StartBlock(p))
       /\ SF_vars(InsertBlock(p))
       /\ SF_vars(InsertTransactions(p))
       /\ SF_vars(EnqueueTransfers(p))
       /\ SF_vars(FlushTransfers(p) /\ Holds(p))
       /\ SF_vars(VerifyWindow(p) /\ Holds(p))
       /\ SF_vars(AdvanceCursor(p))
       /\ SF_vars(StampHealed(p))

FairSpec == Spec /\ Fairness
-----------------------------------------------------------------------------
(* Properties.                                                              *)

Ticks == [phase : {"down", "idle", "select", "blocks", "verify", "cursor", "stamp"}
                    \cup MidBlock,
          gap : Gaps \cup {0}, healFrom : 0 .. MaxHeight + 1, verifyFrom : 0 .. MaxHeight,
          windowEnd : 0 .. MaxHeight, missing : SUBSET Heights]

(* Every variable has its type.                                             *)
TypeOK ==
  /\ row \in [Heights -> {"absent", "bare", "full"}]
  /\ landed \subseteq Heights
  /\ cutoff \in 1 .. MaxFloor
  /\ floor \in 1 .. cutoff
  /\ newest \in FirstNewest .. MaxNewest
  /\ healed_at \subseteq Gaps
  /\ heal_cursor \in [Gaps -> 0 .. MaxHeight]
  /\ lease \in [Gaps -> [owner : Procs \cup {Nobody},
                         left : {"fresh", "expiring", "lapsed"}]]
  /\ tick \in [Procs -> Ticks]
  /\ queue \in [Procs -> SUBSET Heights]
  /\ backfill \in [Procs -> SUBSET Heights]
  /\ filling \in [Procs -> Heights \cup {0}]
  /\ lost \subseteq Heights
  /\ crashes \in 0 .. MaxCrashes

(* A height somebody is re-indexing for the healer, and had not written.    *)
Healing(p, n) == tick[p].phase \in MidBlock /\ n = At(p)

(* Two healers never run processBlock for one height that is retained:      *)
(* overlapping ranges compete for one lease and a tick stops before its     *)
(* lease lapses.  (A height retention deletes below a cutoff it failed to   *)
(* publish looks repairable again, and may be in two hands.)                *)
HealersAlone ==
  \A p, q \in Procs : p # q =>
    ~ \E n \in cutoff .. MaxHeight : Healing(p, n) /\ Healing(q, n)

(* A heal is a first write, never a replay: nothing of the height is there  *)
(* when processBlock starts to write, unless it is about to be deleted.     *)
FirstWriteOnly ==
  \A p \in Procs :
    tick[p].phase = "insertBlock" => Absent(At(p)) \/ At(p) < cutoff

(* A height is in one writer's hands, and only once: HealersAlone and       *)
(* FirstWriteOnly.                                                          *)
OneWritePerHeight == HealersAlone /\ FirstWriteOnly

(* heal_cursor only passes heights that are complete, quarantined or no     *)
(* longer retained.                                                         *)
CursorVerified ==
  \A g \in Gaps : \A n \in g .. heal_cursor[g] : n < cutoff \/ n \in Poison \/ row[n] = "full"

Retained(g) == Max({g, cutoff}) .. GapEnd[g]

(* A stamped range stays dense where it is retained, all of it: what an     *)
(* earlier tick confirmed and quarantined heights included.                 *)
HealedIsDense ==
  \A g \in healed_at : \A n \in Retained(g) : row[n] = "full"

(* What a row of index_gaps says is so: cursor (CursorVerified), stamp      *)
(* (HealedIsDense) and the values of its columns (TypeOK).                  *)
GapRowsTrue == TypeOK /\ CursorVerified /\ HealedIsDense

(* Transfers a generation holds in memory.                                  *)
InMemory(q) == queue[q] \cup {n \in Heights : tick[q].phase = "enqueue" /\ n = At(q)}

(* What the cursor claims besides: it never moves over a height whose       *)
(* transfers its own process still has in memory.  They landed, went with   *)
(* an error or a process, or are in the hands of another generation.        *)
DrainedBeforeCursor ==
  [][\A g \in Gaps : heal_cursor'[g] # heal_cursor[g] =>
       \A n \in g .. heal_cursor'[g] :
         \/ n < cutoff
         \/ n \in Poison \cup landed \cup lost
         \/ \E q \in Procs \ {lease[g].owner} : n \in InMemory(q)]_vars

Aged(g)    == GapEnd[g] < floor
Damaged(g) == \E n \in g .. GapEnd[g] : n \in Poison \/ row[n] = "bare"

(* An unfinishable range does not starve the others: a gap without a        *)
(* quarantined or half-written height is healed, or retention overtakes it. *)
EveryGapHeals ==
  \A g \in Gaps : newest = MaxNewest ~> g \in healed_at \/ Aged(g) \/ Damaged(g)
=============================================================================
