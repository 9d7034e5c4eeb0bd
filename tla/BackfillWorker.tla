---------------------------- MODULE BackfillWorker ----------------------------
(***************************************************************************)
(* The lazy backfill worker (apps/indexer/src/backfill-worker.ts), for one  *)
(* entity and the instances of the worker that overlap while a deploy rolls *)
(* over.  An instance claims the entity under a lease, reserves a page of   *)
(* the hourly budget, checks its claim, asks the provider and commits rows  *)
(* and watermark in one transaction fenced by the claim.                    *)
(*                                                                          *)
(* The lease may lapse whenever an instance is slow: the next claim makes a *)
(* zombie of it.  The claim's time stamp is represented by the instance:    *)
(* one that still has a claim in hand makes no other, so the stamp in the   *)
(* row is its own exactly if it was the last to claim.  Cooldowns, pauses,  *)
(* disk pressure and politeness only delay a claim.                         *)
(***************************************************************************)
EXTENDS BackfillCache

CONSTANTS
  Instances,
  MaxPages,      \* maxPagesPerHour
  MaxRows,       \* maxRowsPerEntity
  MaxAttempts,
  Nobody         \* no claim was made yet

ASSUME BackfillAssumption ==
  /\ MaxPages \in Nat \ {0}
  /\ MaxRows \in Nat \ {0}
  /\ MaxAttempts \in Nat \ {0}
  /\ Nobody \notin Instances

VARIABLES
  holder,    \* who made the last claim (last_attempt_at)
  lapsed,    \* leaseSec have passed since
  written,   \* rows_written
  attempts,
  used,      \* pages_used of this hour
  work,      \* what each instance is at, with the row its claim returned
  faults     \* history: failures that are the entity's own, since a page was cached

backfillVars == <<cacheVars, holder, lapsed, written, attempts, used, work, faults>>

Resting == [at |-> "idle", cursor |-> 0, written |-> 0, attempts |-> 0, page |-> {}]

BackfillInit ==
  /\ CacheInit
  /\ holder = Nobody
  /\ lapsed = FALSE
  /\ written = 0
  /\ attempts = 0
  /\ used = 0
  /\ work = [i \in Instances |-> Resting]
  /\ faults = 0

At(i, where) == work[i].at = where
Goes(i, where) == work' = [work EXCEPT ![i].at = where]
Rests(i) == work' = [work EXCEPT ![i] = Resting]

AnyRunning(i) == status = "running"   \* mutant: the stamp is not compared
(* fencedUpdate moves the row only for the claim that still owns it.        *)
HoldsLease(i) == status = "running" /\ holder = i

NeverReclaimed == FALSE   \* mutant: a crashed claim is nobody's
Lapsed == status = "running" /\ lapsed

(* Mutant: an entity that failed too often is tried again.                  *)
ClaimableForever == status \in {"pending", "partial", "error"} \/ Lapsed

Claimable ==
  \/ status \in {"pending", "partial"}
  \/ Lapsed
  \/ status = "error" /\ attempts < MaxAttempts

Claim(i) ==
  /\ At(i, "idle")
  /\ Claimable
  /\ status' = "running"
  /\ holder' = i
  /\ lapsed' = FALSE
  /\ work' = [work EXCEPT ![i] = [at |-> "claimed", cursor |-> cursor, page |-> {},
                                  written |-> written, attempts |-> attempts]]
  /\ UNCHANGED <<historyVars, cursor, cache, written, attempts, used, faults>>

(* INSERT ... ON CONFLICT DO UPDATE ... WHERE pages_used < cap.             *)
Reserve(i) ==
  /\ At(i, "claimed")
  /\ used < MaxPages
  /\ used' = used + 1
  /\ Goes(i, "reserved")
  /\ UNCHANGED <<cacheVars, holder, lapsed, written, attempts, faults>>

(* Where the entity waits for its next claim, by the row that was claimed.  *)
Waiting(i) == IF work[i].written > 0 THEN "partial" ELSE "pending"

(* A fenced transition that leaves cursor and rows alone.                   *)
Settles(i, outcome, burnt) ==
  /\ status' = IF HoldsLease(i) THEN outcome ELSE status
  /\ attempts' = IF HoldsLease(i) THEN attempts + burnt ELSE attempts
  /\ Rests(i)
  /\ UNCHANGED <<historyVars, cursor, cache, holder, lapsed, written, used>>

ReserveDenied(i) ==
  /\ At(i, "claimed")
  /\ used >= MaxPages
  /\ Settles(i, Waiting(i), 0)
  /\ UNCHANGED faults

Verify(i) ==
  /\ At(i, "reserved")
  /\ IF HoldsLease(i) THEN Goes(i, "verified") ELSE Rests(i)
  /\ UNCHANGED <<cacheVars, holder, lapsed, written, attempts, used, faults>>

Fetch(i) ==
  /\ At(i, "verified")
  /\ work' = [work EXCEPT ![i].at = "fetched",
                          ![i].page = PageFrom(work[i].cursor, head)]
  /\ UNCHANGED <<cacheVars, holder, lapsed, written, attempts, used, faults>>

CountsFault(i) ==
  faults' = IF HoldsLease(i) /\ faults < MaxAttempts THEN faults + 1 ELSE faults

(* Out of budget, switched off, not configured: not the entity's fault.     *)
OperationalBurns(i) == 1   \* mutant: an outage marches entities to the give-up bound
OperationalCost(i) == 0

OperationalFailure(i) ==
  /\ At(i, "verified")
  /\ Settles(i, Waiting(i), OperationalCost(i))
  /\ UNCHANGED faults

GivesUp(i) == work[i].attempts + 1 >= MaxAttempts /\ work[i].written > 0

(* Any other answer that is not ok.                                         *)
ProviderFailure(i) ==
  /\ At(i, "verified")
  /\ Settles(i, IF GivesUp(i) THEN "capped" ELSE "error", 1)
  /\ CountsFault(i)

(* The call throws.                                                         *)
FetchThrows(i) ==
  /\ At(i, "verified")
  /\ Settles(i, "error", 1)
  /\ CountsFault(i)

(* All or skip: a row that cannot be cached caps the entity where it is.    *)
CacheUsableRows(i) == FALSE   \* mutant: the page is cached without those rows
SkipPage(i) == work[i].page \cap unusable # {}

CapUncacheable(i) ==
  /\ At(i, "fetched")
  /\ SkipPage(i)
  /\ Settles(i, "capped", 0)
  /\ UNCHANGED faults

StatusAfter(next, total) ==
  IF next = 0 THEN "complete" ELSE IF total >= MaxRows THEN "capped" ELSE "partial"

(* Rows and watermark in one transaction; a refused fence rolls both back.  *)
CommitPage(i) ==
  /\ At(i, "fetched")
  /\ ~SkipPage(i)
  /\ IF HoldsLease(i)
     THEN LET page == work[i].page
              total == work[i].written + Cardinality(page)
          IN  /\ cache' = cache \cup (page \ unusable)
              /\ cursor' = NextCursor(page)
              /\ written' = total
              /\ status' = StatusAfter(NextCursor(page), total)
              /\ attempts' = 0
              /\ faults' = 0
     ELSE UNCHANGED <<cache, cursor, written, status, attempts, faults>>
  /\ Rests(i)
  /\ UNCHANGED <<historyVars, holder, lapsed, used>>

RowsKept(i) == cache \cup work[i].page   \* mutant: the rows are written outside the transaction
RowsRolledBack(i) == cache

(* The transaction fails.                                                   *)
WriteFails(i) ==
  /\ At(i, "fetched")
  /\ ~SkipPage(i)
  /\ status' = IF HoldsLease(i) THEN "error" ELSE status
  /\ attempts' = IF HoldsLease(i) THEN attempts + 1 ELSE attempts
  /\ cache' = RowsRolledBack(i)
  /\ CountsFault(i)
  /\ Rests(i)
  /\ UNCHANGED <<historyVars, cursor, holder, lapsed, written, used>>

(* The process dies, or a statement fails and the loop starts over: the     *)
(* claim is left behind.                                                    *)
Abandon(i) ==
  /\ ~At(i, "idle")
  /\ Rests(i)
  /\ UNCHANGED <<cacheVars, holder, lapsed, written, attempts, used, faults>>

LeaseLapses ==
  /\ status = "running"
  /\ ~lapsed
  /\ lapsed' = TRUE
  /\ UNCHANGED <<cacheVars, holder, written, attempts, used, work, faults>>

NewHour ==
  /\ used > 0
  /\ used' = 0
  /\ UNCHANGED <<cacheVars, holder, lapsed, written, attempts, work, faults>>

Request == (Grow \/ Enqueue) /\ UNCHANGED <<holder, lapsed, written, attempts, used, work, faults>>

Proceed(i) ==
  \/ Claim(i)
  \/ Reserve(i)
  \/ ReserveDenied(i)
  \/ Verify(i)

Answered(i) ==
  \/ Fetch(i)
  \/ ProviderFailure(i)
  \/ FetchThrows(i)

Written(i) ==
  \/ CapUncacheable(i)
  \/ CommitPage(i)
  \/ WriteFails(i)

BackfillNext ==
  \/ Request
  \/ LeaseLapses
  \/ NewHour
  \/ \E i \in Instances :
       \/ Proceed(i)
       \/ Answered(i)
       \/ OperationalFailure(i)
       \/ Written(i)
       \/ Abandon(i)

BackfillSpec == BackfillInit /\ [][BackfillNext]_backfillVars

(* Instances keep polling, hours and leases pass; budget, provider answer   *)
(* and a page written within the lease come again and again.                *)
BackfillFairness ==
  /\ WF_backfillVars(LeaseLapses)
  /\ WF_backfillVars(NewHour)
  /\ WF_backfillVars(\E i \in Instances : Claim(i))
  /\ SF_backfillVars(\E i \in Instances : HoldsLease(i) /\ Reserve(i))
  /\ SF_backfillVars(\E i \in Instances : HoldsLease(i) /\ Verify(i))
  /\ SF_backfillVars(\E i \in Instances : HoldsLease(i) /\ Answered(i))
  /\ SF_backfillVars(\E i \in Instances : HoldsLease(i) /\ Written(i))
-----------------------------------------------------------------------------
(* Properties.                                                              *)

(* Every variable has its type.                                             *)
BackfillTypeOK ==
  /\ head \in Heads
  /\ unusable \in Unusables
  /\ status \in Statuses
  /\ cursor \in {0} \cup Rows
  /\ cache \subseteq Rows
  /\ holder \in Instances \cup {Nobody}
  /\ lapsed \in BOOLEAN
  /\ written \in 0 .. Cardinality(Rows)
  /\ attempts \in 0 .. MaxAttempts
  /\ used \in 0 .. MaxPages
  /\ work \in [Instances ->
                 [at : {"idle", "claimed", "reserved", "verified", "fetched"},
                  cursor : {0} \cup Rows, written : 0 .. Cardinality(Rows),
                  attempts : 0 .. MaxAttempts, page : SUBSET Rows]]
  /\ faults \in 0 .. MaxAttempts

(* The worker keeps the promise its readers rely on, whatever zombies and   *)
(* crashed instances left half done.                                        *)
KeepsCachePromise == CacheSpec

(* An entity is given up for failures of its own, MaxAttempts of them since *)
(* its last page: an outage of the provider never exhausts it.              *)
GivenUpDeserved == attempts <= faults

(* What the entity's row says of it is so: how far it is cached             *)
(* (CachedIsStretch) and how often it failed.                               *)
WatermarkTrue == CachedIsStretch /\ GivenUpDeserved

(* An entity that was asked for is settled: its whole history is cached, it *)
(* is capped, or it has failed as often as it may; a claim that was left    *)
(* behind is taken up again.                                                *)
Settled ==
  \/ status \in {"complete", "capped"}
  \/ status = "error" /\ attempts >= MaxAttempts

EveryEntitySettles == (status = "pending") ~> Settled
=============================================================================
