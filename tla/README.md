# altscan: a verification project

altscan is a self-hosted block explorer for BNB Chain and Ethereum: an indexer
per chain that writes a PostgreSQL database, an explorer (Next.js) that reads it,
and a few small sites around them. This directory holds TLA+ models of the part
whose correctness is hardest to see in the code, the indexer and what shares its
tables and budgets, with the TLC configurations that check them and TLAPS proofs
about all of them.

Everything below cites the repository's files relative to its root.

## 1. Inventory

### The parts of the system

| part | state it keeps | operations | interacts with |
|---|---|---|---|
| poll loop and worker pool (`apps/indexer/src/index.ts`) | cursor `lastIndexed`, batch status, `resumeGapBackfillUntil` | resume, skip a range (MAX_LAG), check for a reorg, index a batch with N workers, quarantine a height, recover from a reorg | every other part of the indexer |
| block processor (`block-processor.ts`, first half) | address and balance coalescers | fetch, decode and write one block, in several statements without a transaction | RPC endpoints, database, transfer writer, webhook notifier |
| transfer writer (`block-processor.ts`, second half) | a queue by height in memory, the heights written but not folded, W in memory; `indexer_cursor.transfers_durable_block` in the database | enqueue, drain, requeue, quarantine, floor, rollback, flush, seed | poll loop, healer, database |
| poison block tracker (`poison-block.ts`) | counts of clean failures by height; table `poison_blocks` | count, forget, clear above a fork, prune | poll loop, resume scan, healer, reorg unwind |
| gap healer (`gap-healer.ts`) | table `index_gaps` with lease, cursor and stamp | one tick: claim, select, re-index, flush, verify, advance, stamp | the healer of the overlapping generation, the resume backfill, retention, the transfer writer |
| reorg handler (`reorg-handler.ts`) | none of its own | check pinned to one endpoint, corroborate, unwind | poll loop, RPC failover, all tables with a height |
| RPC failover and endpoint health (`rpc-failover.ts`, `endpoint-health.ts`) | failure streaks and cooldowns by endpoint and kind of request | try the endpoints in order, with the boundary of the first side effect | poll loop, block processor, reorg handler |
| retention (`retention-cleanup.ts`, `retention-policy.ts`) | `compact_cutoff_block`, the disk percentage | publish a cutoff, delete below it in batches that yield to the indexer, emergency re-run | healer, completeness of /api/health |
| schema and indexes (`ensure-schema.ts`) | the catalog: indexes with their validity, partitions | at a start: sweep invalid indexes, build missing ones in the background, retire replaced ones, extend the partitions | the starts of the overlapping generation, retention, every writer |
| webhook notifier (`webhook-notifier.ts`) | `webhook_deliveries`, failure counts, runs in flight | claim, deliver, count, deactivate | block processor |
| backfill worker (`backfill-worker.ts`, `backfill-budget.ts`) | `backfill_watermarks` with lease and status, `backfill_budget` | claim an entity, reserve a page, fetch, write and advance under a fence | data providers, explorer's serve path |
| token metadata healer (`token-metadata-healer.ts`, `token-metadata.ts`) | a cursor, the map of tokens tried lately, strikes against tokens | one run: choose rows from head and walk, ask, mark, move the cursor | RPC endpoints, retention (holder counts) |
| other metadata (`validator-syncer.ts`, `contract-verifier.ts`) | rows of metadata | periodic refresh by upsert | RPC endpoints |
| explorer (`apps/explorer`) | page and body caches | render pages, serve the API, enqueue backfills | database, providers, Redis |
| rate limit and cache (`packages/explorer-core`) | a counter per key and window, in Redis or memory | check, get, set | explorer |
| data providers (`packages/providers`) | budgets of compute units and calls | reserve, call, reconcile | explorer, backfill worker |
| OAuth server (`packages/oauth`) | signed tokens, no store | register, authorize, exchange | explorer, altscan.io |
| admin, status, altscan.io (`apps/admin`, `apps/status`, `apps/altscan-site`) | settings, last polls | CRUD, poll, classify | explorers |

### Which behaviours are hard

* **Interleaving.** The indexer is one JavaScript process: code runs to completion
  between two awaits, and everything that was read before an await may be stale
  after it. N block workers, one drain of the transfer writer, the healer's timer,
  retention's timer and un-awaited UPDATEs share the same variables and tables.
* **Two processes.** A deploy overlaps two generations of the indexer for a minute
  or more: two healers, two writers, a resume scan next to a running loop.
* **Crashes.** Block rows are committed at once, transfers only sit in memory until
  they drain. W is what tells a restart which heights it may skip.
* **The chain moves.** Reorgs take heights back while drains, retries and counts
  about the old blocks are still under way; endpoints lag, disagree or serve another
  chain.
* **Partial failure.** Almost nothing is one transaction: `processBlock`, the
  unwind, the retention run and the healer's tick are sequences of statements.
* **Safety valves that exclude one another.** The bulk skip, the quarantine and the
  resume backfill each guard against the other two.

`PROJECT.json` lists every such hazard at its line with the properties about it.

### What makes each part correct

* Transfer writer: W never claims a height whose transfers are missing; rows of an
  unwound chain never return; nothing that was queued is dropped or left asleep;
  only a reorg deletes rows.
* Poll loop: the cursor passes only what is indexed or on record; whatever a crash
  takes is replayed or visible; one unservable height costs one height and not
  the chain; a quarantine is earned by the block it is applied to.
* Healer: no two writers on one height, a cursor that only passes complete heights,
  a stamp only on a dense range, no gap starved by another.
* Reorg handler: what is deleted is indexed again; a wrong endpoint deletes nothing
  by itself; the index converges to the chain.
* Failover: every endpoint is tried and none is dropped; no retry after a side effect.
* Webhook notifier: at most one delivery per webhook and block, deactivation after
  five failures in a row.
* Backfill worker: no page is lost or counted under a lost lease, the hourly budget
  holds over both instances, a failing entity neither blocks others nor loses what
  it has cached.
* Retention: what disappears was asked for and lies below the published floor; a
  run without a failure leaves nothing of what it was to remove.
* Schema: some natural key of `dex_trades` is in force at every moment; a build that was
  interrupted is finished by later starts, and nothing is built twice; every block
  about to be written has a partition.
* Token healer: no token is asked twice in a run, none is passed over in its turn,
  and contracts that take the endpoint down do not keep the others from being healed.
* History pages: a reader sees every row once, whatever the worker does meanwhile.
* Provider budget: every admitted call is debited once, in the month it was admitted
  in, and no ceiling is passed; a budget that refuses shows as limited.

## 2. Plan

Order: the most important behaviour first.

1. `TransferWriter` with its abstract specification `DurableWatermark` and its
   proofs (`TransferWriterProofs`). **Done.**
2. `Indexer`: the poll loop, composed with `TransferWriter` by EXTENDS: its
   actions are the writer's actions plus the loop's variables. **Done.**
3. `GapHealer`: two generations over one database. **Done.**
4. `ReorgHandler`: check, batch and unwind against a network of endpoints. **Done.**
5. `RpcFailover`: streaks, waves and cooldowns per kind of request, several callers
   under way. It closes the open choice of `FailOver` in `ReorgHandler`. **Done.**
6. `BackfillCache`, what the cache of an entity promises; `BackfillWorker`, which
   implements it under leases, budget and two instances; `HistoryServe`, a reader of
   it. **Done.**
7. `WebhookNotifier`: overlapping runs, claim before send, crash between the two.
   Theorem: at most one delivery. **Done.**
8. `Retention`: the run with its emergency re-run, beside an index that grows and is
   healed. Theorems: what is destroyed. **Done.**
9. `TokenHealer` and `ProviderBudget`. **Done.**
10. `SchemaIndexes` and `PartitionLadder`: what a start does to indexes and partitions
    beside another start. Theorems: a key is left, nothing is built twice. **Done.**
11. Proofs of the invariants and action properties that the runs check, for the poll loop,
    the gap healer, the reorg handler, the failover, the backfill worker with its
    refinement, the reader of its cache, the partitions, the provider budget and the token
    healer; of the row counter of the writer; of the writer under the loop, on a fresh
    database too; of the services and chores put side by side. **Done.**
12. The window of the rate limit with its in-memory fallback; the life of an OAuth
    code; the quota of the admin console.

Parts that share no state are put side by side in one instance (`MCServices`, where the
backfill worker and the reader share the cache, and `MCMaintenance`): a behaviour is one of
the part chosen at the start.

Runs are kept to two to five heights, two processes or endpoints and one or two
failures of each kind: each hazard of the list needs at most that many to show,
and the mutants in `PROJECT.json` show that the bounds do reach it.

## 3. The modules and the code

### TransferWriter (`block-processor.ts`, from `PendingBatch` to `flushTransferWriter`)

`transferPending`, `transferPendingRows`, `transferWritten`, `durableBlock`,
`transferWriterSeeded` and `transferWriterPaused` are the module-level variables of
the same names; `writer` and `drained` are the program counter and the local batch
of `runTransferWriter`; `newDurable` is the fold it is persisting; `floorPersists`
holds the un-awaited UPDATEs of `setDurableFloor`; `rollback` is the program counter
of `rollbackTransferWriterTo` followed by `unwindFrom`. `token_transfers`,
`transfers_durable_block`, `poison_blocks` and `blocks` are tables. `version` counts
how often a height was unwound, which is how the model tells an orphan's rows from
the canonical ones; `excuse` records why a height at or below W may lack its rows.

One action is the code from one await to the next:

* `EnqueueTransferWrite`, `EnqueueQuarantinedBlock`, `SetDurableFloor`,
  `InitTransferWriter`: the exported calls. Each includes the call of
  `runTransferWriter` it ends with, which takes the queue at once if it can.
* `WriteCommits` / `WriteFails`: the transaction of `writeTransferBlocks` and what
  follows, up to the next await: the fold, or the merge back into the queue.
* `PersistCommits` / `PersistFails`: the UPDATE of W and the next loop head. A
  failure may have committed (the connection can break after the COMMIT).
* `BackoffEnds`: the end of the 250 ms sleep after a failure.
* `RollbackBegins`, `RollbackPurges`, `RollbackPersists`, `RollbackPersistFails`,
  `UnwindPoison`, `UnwindTransfers`, `UnwindBlocks`, `UnwindFails`: the reorg.
* `FloorPersistLands`, `FloorPersistFails`: an un-awaited UPDATE, whenever it likes.
* `OtherGenerationWrites`: the overlapping process commits a height.
* `Crash`: the process and everything in memory goes.

`DurableWatermark` is what the resume logic needs: a set of secure heights, and a W
that only ever moves to where everything below is secure and never claims a height
at the moment it stops being secure. `ImplementsDurableWatermark` is the refinement,
with `secure` the heights whose rows are there, that are quarantined or excused.

### Indexer (`index.ts`, `poison-block.ts`, `planMaxLagSkip`)

EXTENDS `TransferWriter`. `loop` is the place of `main`'s loop, `status` the
`blockStatus` of the batch, `poisonBlocks` the tracker's counts, `gaps` the heights
in `index_gaps`, `cleanRun` a history variable that says what the counts should
mean. `ResumeIndexing` is `getResumeCursor`: MAX(blocks), holes, W, the adoption of a
database from before the writer. `AbandonRange` is the MAX_LAG skip; a failed record
of it is a stutter. `StartBatch`, `ClaimNext`, `BlockWrites`, `BlockDone`,
`BlockFailsClean`, `BlockFailsDirty` and `EndBatch` are the pool; `Backpressure` is
the wait before `processBlock`. `QuarantineBlocker`, `RefuseQuarantine` and
`RetryBatch` are the three ends of a failed batch. `DetectReorg`, `RecoverStep`,
`RecoverEnds`, `RecoverFails` drive the writer's rollback actions.

### GapHealer (`gap-healer.ts`)

`tick` is one healer tick per generation, with the phases between its statements:
`ClaimGap`, `SelectMissing`, `StartBlock` and the three writes of a block,
`FlushTransfers` or `FlushTimesOut`, `VerifyWindow`, `AdvanceCursor`, `StampHealed`;
`FenceRefuses` and `YieldTick` are the early ends. A lease is fresh, expiring (within
`LEASE_SAFETY_MS`) or lapsed, and ages at any time. `Boot` runs the resume scan and
leaves the heights of its backfill to `BackfillStarts` and `BackfillWrites`, which
take no lease. Retention raises its cutoff, publishes it or fails to
(`RetentionRuns`), and deletes transactions before blocks below it
(`RetentionDeletes`).

### ReorgHandler (`reorg-handler.ts`, and the batches and restarts between its checks)

The network is `chain` (what the hash at a height is after each reorg), `view`
(how far each endpoint is) and `Foreign` (endpoints of another chain). `check` is
`detectReorgPinned`: at which endpoint it is, which were tried, which found no
agreement, and where in `detectReorg` and `findForkPoint` the next read is: an
endpoint may catch up between two reads of one check. `FailOver` leaves the order of
endpoints open; `Conclude` is the catch clause with its corroboration. `IndexBlock`,
`BlockFailsDirty` and `BlockFailsClean` are the three outcomes of a block from any
endpoint; the block row is inserted with ON CONFLICT DO NOTHING. The unwind is
`UnwindPoison`, `UnwindChildren`, `UnwindBlocks`, each of which may be the last
(`UnwindFails`, `Restart`).

### RpcFailover (`rpc-failover.ts`, `endpoint-health.ts`)

`failures`, `age` and `waves` per kind and endpoint are `EndpointHealth`'s map; time is
the age of the last failure in base cooldowns. A `call` is one use of
`processWithFailover` or `readWithFailover` with the order it took at its start:
`Orders` is every list `order` can make of one look at the clock, by whose turn it is. Then
`EndpointFails`, `WritesBegin` (`onWritesBegan`), `FailsAfterWrites`, `DatabaseFails`
and `Succeeds` are the outcomes of asking one endpoint.

### WebhookNotifier (`webhook-notifier.ts`)

`runs` holds the runs of each process, one per slot of `MAX_INFLIGHT_NOTIFY_RUNS`, with
what is still to be delivered and the two lists that are settled at the end; `claims`
is `webhook_deliveries`, `hook` and `failCount` the row in `webhooks`. `Select`,
`ClaimDelivery`, `Deliver`, `Reset`, `CountFailure` and `ReleaseSlot` are its statements,
each with its failure; a failed claim may have committed. `Register`, `Delete` and
`Seal` are the explorer's API and the sealing of keys, `Prune` is retention, `NotifierDies` a
process that goes. `posts`, `failed` and `excused` are history.

### BackfillCache, BackfillWorker, HistoryServe

The provider's history of one entity is numbered in its order; blocks appear at its
head (`Grow`). `BackfillCache` is the promise: `Take` starts a page, `CachePage` caches
it whole and moves the watermark, `Leave` gives up. `BackfillWorker` follows
`backfill-worker.ts`: `Claim`, `Reserve` or `ReserveDenied`, `Verify`, `Fetch` or its
failures, `CommitPage` or `WriteFails`, every one fenced by the claim
(`HoldsLease`), with leases that lapse (`LeaseLapses`, `Abandon`) and hours that pass.
`KeepsCachePromise` is the refinement. `HistoryServe` follows the history and transfers
routes and `backfill-serve.ts`: `Open`, `ReadWatermark`, then `ServeLocal` from the cache or
`ServeProvider`, then `Seam`, the decision whether the cache continues page 1, with
the cursors the code hands out.

### Retention (`retention-cleanup.ts`, `retention-policy.ts`)

`job` is the run: where it is, its windows, its cutoffs, how often it failed. The
actions are the statements of `runCleanup` in their order: `TakeCutoff`,
`PruneBodies`, `PruneInputs`, `TakeCompactCutoff`, `Publish`, `SweepBodies`,
`DropTransfers`, `DeleteTransactions`, `DeleteBlocks`, `Emergency`, `EndRun`. A loop of
batches either removes everything or fails after some of it (`Loop`). The index grows
by a block a day; a day may instead be abandoned as a gap, which may be healed.

### TokenHealer (`token-metadata-healer.ts`, `token-metadata.ts`, `token-heal-query.ts`)

`open` (the tokens still a placeholder) and `holders` are the table; `cursor`, `tried` and
`strikes` the module-level variables; `heal` is the run under way. `ListHead` and `ReadPage`
are the two listings, `AskToken` one token with its outcome, `StopAsking` the ends of a run
(streak, time), `EndHealRun` moves the cursor. `Throttle` is an endpoint that stops
answering, `HoldersMove` retention's recount.

### ProviderBudget (`moralis.ts`, `redis-client.ts`)

`ScriptAdmits`, `ScriptDenies` and `ScriptThrows` are the Lua script as the caller sees
it, `MemoryAdmits` the ledger of a process without Redis, `DeniedUnasked` the refusal
while the client knows that Redis is gone. `RedisTurns` is a server that becomes full,
unreachable or well again, `ClientNotices` the client's flag.

### SchemaIndexes and PartitionLadder (`ensure-schema.ts`)

`leaf` is the state of each ordinary index (absent, building, dead, valid), `parent` and
`attached` the partitioned index, `boot` the place of each generation. A behaviour
follows one index, because statements about different ones do not touch each other: the
natural key of `dex_trades` (`CreateKey`, `CheckKey`, `RetireKey`), or the one of the two
indexes of `token_transfers` that is resumed by the names of the children
(`ensurePartitionedWhaleIndex`) or by what the catalog has attached
(`ensurePartitionedTtWhaleIndex`): `BeginPartitions`, `CreateParent`, `ReadCovered`, then
per partition `PassOver`, or `CreateChild` and `Attach`, and `EndPartitions`. `Boot` lists
the invalid indexes, `SweepDrops` and `SweepSkips` are the drops by name. A build goes on
in the database when the process that asked for it is gone (`BuildEnds`, `BuildDies`);
what PostgreSQL does to a parent when a child is attached is taken from the comments of
the code, for the version it names as the one in production. Partitions are made at the
upper end, with a clone of the index where there is a parent (`ForwardPartition`), and
dropped at the lower (`DropPartition`). Reads that follow one another and only decide
the next statement are one step.

`EnsureSchema` puts it beside `PartitionLadder`, which has the partitions of `internal_transactions` as ranges and the plan
each process computes from them with `RangesToCreate` (a recursive function, like the
loop of `partitionRangesToCreate`); then `CreatePartition`, `CreateRefused`,
`CreateThrows`. The anchor is at most one off the newest block.

### Bounds and simplifications

* `MaxBlock`, `MaxHeight`: the heights, as offsets from an established cursor, so
  that height 0 is always there. `MaxVersion`, `MaxReorgs`: reorgs. `MaxFloorPersists`:
  un-awaited UPDATEs in flight. `MaxCrashes`, `MaxFaults`: crashes, failures.
  `MaxNewest`, `MaxFloor`: how far the tip and retention move. `Horizons`,
  `ReorgHorizon`: how long the chain of an execution gets, and that only the short
  ones reorganise. `Crews`: which callers are at work together. `Prunable`: blocks
  retention reaches in a webhook's life. `Heads`, `Unusables`: how the provider's
  history may end and which rows lack a log index. `MaxTime`, `MaxFailed`: days, and
  failures of one retention run. `MaxMoves`, `MaxFlips`: changes of holder counts and
  of the endpoint. `MaxMonth`: months. `MaxPartition`, `LadderTop`: partitions ever made,
  heights of ranges, the latter from `MaxWidth`, the widest configuration. These are the only bounds of the models, and
  each is a guard of the actions it bounds or a choice of the initial state.
* Quantities the code compares with a threshold only are counted up to it
  (streaks, cooldowns, webhook failures, poison counts).
* The window of the resume scan (`RESUME_GAP_SCAN_BLOCKS`) covers all heights of
  `Indexer` and `ReorgHandler`; in `GapHealer` it is `ResumeWindow`.
* A graceful shutdown flushes the queue first; it is a drain followed by `Crash`.
* The rows of a block are its version and their number in `TransferWriter`, absent,
  bare or full in `GapHealer`, the set of endpoints' hashes they came from in
  `ReorgHandler`.
* Reorgs are left out of `GapHealer`: the process refuses to start unless
  REORG_DEPTH < RESUME_GAP_SCAN_BLOCKS, and the healer stays below that window.

## 4. What the runs check

Runs that pass:

| run | instance | what it shows |
|---|---|---|
| `writer_safety` | 2 heights, 1 unwind of each, 1 floor UPDATE out, crashes without limit | `WatermarkSound` and the refinement of `DurableWatermark`; `NoOrphanRows`; `NoLostWakeup`; `NoDecodeDropped`; `OnlyUnwindDeletes`; `RowCounterExact` |
| `indexer_safety` | 2 workers, 1 unservable height, 1 crash; 3 heights with lag and skips, or 2 with a reorg of each whose recovery may fail or die | `NothingUnrecorded`, `QuarantineEarned` |
| `indexer_liveness` | 2 heights, 1 unservable, a queue of one block, restart, fair | `ReachesTip`, `WatermarkFollows`, `EveryDecodeLands` |
| `healer_safety` | 2 generations, 3 heights, overlapping gaps, 1 quarantined height, moving retention, crash | `GapRowsTrue`, `OneWritePerHeight`, `DrainedBeforeCursor` |
| `healer_liveness` | 3 heights, 2 gaps, window as long as a gap, 1 quarantined height, a resume backfill, a moving tip, crash, fair | `EveryGapHeals` |
| `reorg_unwind` | 2 heights, 2 endpoints, one of them possibly of another chain, K = 1 and a reorg of any depth, 2 failures, fair | `IndexUsable`, `OneEndpointDeletesNothing`, `TipConverges` |
| `services` | failover: 2 endpoints, 2 workers or a worker and a reader; backfill: 2 instances, 7 rows, pages of 2; history: the same rows, local pages of 1; schema: 2 generations, one of which may be stopped, up to 2 partitions; ladder: 2 processes, widths 2 and 2 or 2 and 3, 4 heights | `OutcomeTrue`, `HealthEarned`; `WatermarkTrue`, `KeepsCachePromise`, `EntitiesSettle`; `EachRowOnce`; `SchemaKept`, `SchemaSettles` |
| `maintenance` | retention: 3 days, 2 policies, 1 failure a run; token healer: 4 tokens, batches of 2; budget: 2 processes, 2 months, room for one call; webhooks: 2 processes, 2 blocks, limit 2 | `RowsKept`, `FloorTruthful`, `CleanRun`; `TurnsTaken`, `TokensSettle`; `BudgetKept`; `AtMostOnce`, `FailCountTrue`, `StaysOff`, `RunsEnd` |

Some properties are conjunctions of statements that are about one promise and have a
name of their own in the module; each conjunct has a mutant that breaks it:
`GapRowsTrue` (the healer's cursor is verified, a healed range is dense),
`OneWritePerHeight` (never two healers, only first writes), `IndexUsable` (no hole below
the cursor), `OutcomeTrue` (exhausted means all endpoints were asked; one writer per
attempt), `HealthEarned` (demotions are deserved; a wave escalates once),
`FailCountTrue` (counts match the failures; a deactivation is earned), `WatermarkTrue`
(the cache is a stretch; giving up is deserved), `EachRowOnce` (nothing skipped, nothing
twice), `RowsKept` (no compact window, no loss; nothing inside the window), `CleanRun`
(no orphaned bodies, no inputs left), `TurnsTaken` (asked once, turn kept), `BudgetKept`
(debits exact, ceilings hold, a refusal shows), `NothingUnrecorded` (the cursor passes only
what is indexed or recorded; without a reorg the transfers are visible too), `SchemaKept`
(a key is left; one index per partition; a ladder without a gap).

Two heights are enough for the writer because its rules relate two heights at most (a
prefix and the first hole; a height at the fork and one above it), and for the
reorg handler because a fork is at the common height 0 or at 1. The poll loop needs
three, for a skip that abandons two and keeps one; the skip over heights that are
indexed is in `indexer_stuck` and, with four heights, in `indexer_silent_loss`. The
generations are symmetric in `healer_safety`; no run with a liveness property uses
symmetry. The seven rows of the history put three rows in each of two blocks, so that
a page ends inside a block, and their hashes in another order than the provider's. The
four tokens of the healer let two aborting contracts, a reverting one and one that
answers compete for a head of two and a batch of two. Two webhook runs and a limit of
two are the least with which a reset can overtake a failure. Two generations, of which
one may be stopped for good, are a deploy or a death with its successor; with two
partitions one is there from the start and one is born under a parent that is not yet
valid. Widths of 2 and 3 over five heights make ranges that begin inside each other.

`healer_safety` assumes `BlockFitsMargin`: one `processBlock` ends within
`LEASE_SAFETY_MS`. Nothing in the code enforces it (see the known limits).

Runs that end in a counterexample, each the disagreement of the code with a comment
of the repository (quoted in `PROJECT.json` under "findings"):

| run | property | in one sentence |
|---|---|---|
| `indexer_silent_loss` | `NoSilentLoss` | the floor of a skip covers indexed, still queued heights; a crash loses them |
| `indexer_stuck` | `WatermarkNotStuck` | a fold being persisted overwrites a floor raised meanwhile |
| `reorg_partial` | `UnwindIsRetried` | after a failed unwind the next check may pass |
| `retention_floor` | `GapsInWindowCounted` | the published floor is the first indexed block of the window and jumps a gap at its edge |

### Known limits of the code

The models contain the following behaviours too. No run is kept for them; each can be
seen by checking the statement as an invariant (or property) of the instance named.

* A first quarantine is refused during a resume backfill, and so is a skip: a height
  that turns out unservable while it is replayed pins the cursor
  (`index.ts:775`; `Indexer`, 3 heights, `Bad = {2}`, 1 crash, fair:
  `tip = MaxBlock ~> lastIndexed = MaxBlock` fails). `ReachesTip` therefore asks for
  a quarantine that was on record before the crash.
* W = 0 of a database that started empty is read as a cursor from before the writer
  (`index.ts:951`; `Indexer`, `FreshDatabase = TRUE`, `Bad = {}`, no skip, 1 crash:
  `NoSilentLoss` fails). The passing runs set `FreshDatabase = FALSE`.
* The rewind of W in a reorg is decided on W in memory; the stored W can be higher
  (`block-processor.ts:1377`; `TransferWriter`: heights excused as `"rewindSkipped"`
  lie below `transfers_durable_block`).
* A drain that keeps failing puts its batch back into a queue that was refilled, so
  the heights in memory exceed the high-water mark (`block-processor.ts:1533`).
* With a window shorter than a gap, a half-written block in an early window starves
  later gaps (`gap-healer.ts:218`; `GapHealer`, gaps 1..2 and 3..3, `HealBatch = 1`:
  `EveryGapHeals` fails).
* The healer's cursor passes a height whose transfers went with a crash
  (`gap-healer.ts:448`; the code keeps the healer off by default for this reason,
  `index.ts:340-352`). `DrainedBeforeCursor` says what remains: they were not in the
  memory of the tick that passed it.
* The resume scan and the healer read MAX(blocks) at different times, so that one
  height can be in the hands of both (`gap-healer.ts:217`; `GapHealer`, 2 generations,
  `ResumeWindow = 4`, `FirstNewest = 5`, `MaxNewest = 7`). `OneWriter` is proved where no gap
  crosses that line meanwhile (`NoGapCrosses`).
* Of two nested ranges the inner one can be eligible first; when MAX(blocks) has passed
  the outer, older one, a second healer claims that and works on heights the first one has in
  hand (`gap-healer.ts:196-200`, which calls overlap impossible; `GapHealer`, gaps 1..3 and
  2..2, `ResumeWindow = 0`, `FirstNewest = 3`, `MaxNewest = 4`: `HealersAlone` fails).
  `NeverTwoHealers` is proved where that cannot be (`OuterDoesNotCross`).
* One block may outlast the lease's margin (`gap-healer.ts:84`;
  `BlockFitsMargin = FALSE`: `HealersAlone` fails).
* Retention deletes below a cutoff whose publication failed
  (`retention-cleanup.ts:961`; `GapHealer`: `floor < cutoff` and a row below `cutoff`
  is gone).
* The boundary check compares one hash; an orphan below a canonical block stays
  (`index.ts:601`; `ReorgHandler`: `loop = "batch"` and a height below `lastIndexed`
  whose hash is not the one the endpoint just asked has there).
* A retry at another endpoint writes its transactions under the first one's block row
  (`block-processor.ts:424`; `ReorgHandler`: `children[n]` is not `{stored[n]}`).
* Poison rows dropped by an unwind that then fails are of heights that are absent
  (`reorg-handler.ts:270-273`; `ReorgHandler`: a height below the cursor without a row
  and not in `poison_blocks`).
* An endpoint that agrees with a block of its own needs no second one
  (`reorg-handler.ts:228`; `ReorgHandler`, a foreign endpoint: `OneEndpointDeletesNothing`
  without its premise fails).

* A page that throws or whose write fails counts against the entity; at the bound it
  ends in `error` and its cached pages are hidden from readers
  (`backfill-worker.ts:333-342, 457-463`; the comment at :353-360 excludes this for a
  refused call only).
* When the worker's page ends inside a block, its rest is cached above the position of
  a reader who is in that block by hash order (`backfill-serve.ts:342`; `HistoryServe`:
  `NothingSkippedEver` fails; `NothingSkipped` excepts a reader that was overtaken).
* While the Redis client knows that its server is gone, calls are denied without a
  script, and health, which reads what the scripts said, shows no limit
  (`moralis.ts:740-743`; `ProviderBudget`: `DenialShown` fails).
* The pass that empties inputs is left out when the compact window is not longer than
  the body window; where the index is stale between the two, the compact cutoff reaches
  less far than the body's (`retention-policy.ts:75-80`). `CleanRunPrunes` excepts it.
* A hole across the edge of a window makes the cutoff jump it, so that rows inside the
  window may go with a later run (`retention-cleanup.ts:214-218`): `KeepsWindow` asks for
  windows without one. `FloorTruthful` excepts a publication that failed.
* As many unhealable tokens at the head of the list as the retry window has room for
  (`TOKEN_HEAL_BATCH` times the runs of a window) starve those behind them, and a token
  whose holder count falls between two pages may be walked over twice
  (`token-metadata-healer.ts`). `TokensSettle` is checked with fewer.
* The sweep drops by name what it listed as invalid a moment ago; what the overlapping
  generation has built since under that name goes, valid as it is, and when the old key
  of `dex_trades` was retired on the strength of it, none is left until the next start
  has built one (`ensure-schema.ts:728-735`; `SchemaIndexes`: `OneKeyLeft` without
  `outdated` fails).
* A child index whose build is still running is attached by a second generation; if the
  build then dies, the child can be neither dropped alone nor built again, and the
  partition stays without the index (`ensure-schema.ts:1233-1235, 1313-1315`;
  `SchemaIndexes`: `AttachedDead(p)` is reachable and stays).
* Trades that were repeated while no key was in force keep the unique build from ever
  ending (`ensure-schema.ts:1019`; `SchemaIndexes` with `repeated`).
* Processes with different widths extend one ladder: a shorter partition of the wanted
  name is taken for it, and the blocks between have none until the next run
  (`ensure-schema.ts:1459-1461`; `PartitionLadder`: `RunCovers` for every run fails).
* A failed address flush drops its snapshot and a retried block counts its addresses
  again (`block-processor.ts:781`): `tx_count` drifts, which the code accepts. Not modelled.

Each property that passes has a mutant of a mapped definition, written as a second
definition next to it and marked as such, under which TLC finds it violated.

Deadlock is checked for the transfer writer and the reorg handler. The poll loop with
a bounded chain, the healer with all gaps stamped, and the parts of `services` and
`maintenance` when their days, rows or budgets are used up, really stop: there it is off.

### Fairness

* Writer: a sleep ends, a rollback goes on, a seed happens (weak). A transaction and
  an UPDATE may fail any number of times, but the writer retries forever, so they are
  strongly fair: a database that fails every single time is not assumed to make
  progress. Enqueues, reorgs, failures and crashes are not fair.
* Poll loop: the loop and the pool run (weak); an attempt at a servable height
  succeeds at some point (strong); recording a quarantine is a statement that is
  retried (strong).
* Healer: the interval timer fires again and again, leases lapse (weak); steps that
  need the lease are strongly fair, because a lease (10 minutes) comfortably exceeds a
  tick, so not every try can run out of it.
* Reorg handler: loop, check, batch and unwind run, endpoints catch up (weak).
  Nothing is assumed about growth, reorgs and failures; `TipConverges` starts when
  the model's allowance of them is spent.
* Schema: generations start again and again and take the steps that fail at nothing
  (weak); a sweep's drop, the parent's creation, a build and an attach may fail any
  number of times, but not every time they are tried (strong). `SchemaSettles` is about
  behaviours in which generations overlap only for so long.
* Webhooks: every statement and every POST answers or times out, so a run goes on
  (weak). Backfill: the worker polls, hours pass and leases lapse (weak); a step under a
  lease that is held is strongly fair, because a lease comfortably exceeds a page.
  Token healer: its timer fires and a run goes on (weak). The others need none.
* Where two parts of `services` need the same kind of fairness, one condition is put on
  the steps of both: a behaviour takes the steps of one part only.

## 5. What is proved

Eight modules hold the theorems; `PROJECT.json` lists the ones to know. Each is for every
value of the constants its module's assumptions allow, so for any number of heights,
processes, endpoints, tokens or months, where the run of the same property looks at a few.
All follow one pattern: a property is seldom inductive, so an invariant is found that is
(each was checked by TLC on the instance of the run first), shown to hold initially
and to be kept by every action in a lemma of its own, and the property is read off it.

### TransferWriterProofs

For every number of heights, unwinds and pending floor UPDATEs and for every function
from decodes to row counts:

* `TypeCorrect`, `WatermarkCorrect`, `OrphansNeverReturn`, `WakeupNeverLost`:
  `Spec => []TypeOK`, `[]WatermarkSound`, `[]NoOrphanRows`, `[]NoLostWakeup`;
* `DeletesOnlyInUnwind` and `NothingDropped`: the action properties `OnlyUnwindDeletes`
  and `NoDecodeDropped`;
* `CounterExact`: `Spec => []RowCounterExact`;
* `Refinement`: `Spec => ImplementsDurableWatermark`.

Assumptions: `BoundsAssumption` (the bounds are naturals) and `RowCountAssumption`
(a decode has a natural number of rows).

`WatermarkSound` is not inductive, because a drain in flight moves W by
what memory says. `IInv` is inductive, in two parts:

* `WriterInv`, what the writer keeps whoever feeds it: types and `NoOrphanRows`,
  `QueuesCurrent` (whatever is queued or drained is of the current chain, or a recorded
  quarantine), `WriterBelowFork` (between purge and the end of the unwind the writer knows
  nothing above the fork), `PausedInRollback`, `DrainerIdle` and `VersionsLeft` (the phases
  fit together);
* `AccountInv`, what the database says of the transfers: `WatermarkSound`, `MemorySound`
  (heights counted as written, W in memory and the fold being persisted are accounted
  for) and `RewoundFirst` (while rows are deleted the stored W claims only excused heights
  above the fork).

The lemma of an action shows that it keeps `WriterInv` and, given that, `AccountInv`. Besides
the writer's own steps the lemmas cover the two things a loop does to it: a block row of its
own (`RowWritten`, with `Next` in `RowsNext`) and a start with a seed other than the stored W
(`FedNext`). Every part survives a block row (`RowsInv`), all but `AccountInv` survive any
seed (`FedInv`).

`DeletesOnlyInUnwind` follows from the version conjuncts of a commit and `Refinement` by
mapping each action to `Claim`, `Secure`, `Retract` or a stutter. `NoLostWakeup` is inductive
together with `WriterInv`.

`NoDecodeDropped` needs `DropInv`: what the drainer still holds while it persists W is
already in the table (`DrainedSettled`), a queued decode's block has its row
(`OwedHasRow`), and therefore no quarantine of that height sits in the queue while its
decode is being drained (`NoClash`). This is what makes the merge of a failed batch
harmless: the newer entry that wins is never a quarantine.

`RowCounterExact` is inductive with `TypeOK`; its proof is about the sum. The library's
`SumFunctionOnSet` is a recursive function that removes a chosen member at a time:
`SumExists` shows that there is such a function (a solution for the subsets of at most n
members extends to those of n + 1), `AnyFirst` that any member may go first, `SumStep` and
`SumSame` what that says of a sum. `RowsSplit` adds the rows of disjoint parts of a queue,
and `TotalPut`, `TotalMerged` and `TotalRestrict` say what an enqueue, a requeue and a
purge do to the whole. The arguments by size pick a least counterexample (`LeastSet`).

### IndexerProofs

For any heights, batch sizes, workers, lags, unservable heights, reorgs and restarts:

* `IndexerTypes` (`IndexerTypeOK`), `CursorIsRecorded` (`CursorRecorded`) and
  `QuarantineIsEarned` (`QuarantineEarned`);
* `WriterKeptByLoop`: `NoOrphanRows`, `NoLostWakeup`, `RowCounterExact`, `OnlyUnwindDeletes` and
  `NoDecodeDropped` of the writer as the loop drives it, with the block rows, quarantines and
  resumed cursors that the environment of `TransferWriter` alone leaves free;
* on a database on which a W was once stored (`~FreshDatabase`), `NothingGoesUnrecorded`
  (`NothingUnrecorded`) and `WatermarkKeptByLoop`: `WatermarkSound` and the refinement
  `ImplementsDurableWatermark` under the loop.

The last two are false on a fresh database, where W = 0 is taken for a cursor from before the
writer and a restart raises W to the highest block row (known limits); the others hold there
too. So what a wrong seed costs is what W says of the transfers: the cursor still stops below
the first hole, and nothing queued is lost or comes back.

`LoopFeedsWriter` carries the writer's lemmas over: a step of the loop is a step of `FedNext`,
and of `RowsNext` once a W is stored. `LoopInv` is the writer's `WriterInv` with what the loop adds: `BatchInv` (what the statuses of a
batch say of rows and queue), `PhaseInv` (the phases of loop, pool and rollback fit together)
and `PoisonInGaps`. `CursorRecorded` is then inductive. The half of `NothingUnrecorded` that is
about transfers needs `LossInv`: in an execution that does not reorganise, whatever the
cursor or a worker of the batch has passed is visible, unless the floor of a skip excused
it (`PassedVisible`); nothing but such a floor excuses anything (`OnlyFloors`), and a drainer
that persists W has nothing left to write (`DrainedSettled`). `CountInv` (the tracker's count never exceeds the clean failures
in a row that there were) gives the quarantine.

### GapHealerProofs

For any set of gaps, windows, heights, generations and movements of the tip and of retention:

* `HealerTypes`, `GapRowsHold` (`GapRowsTrue`), `CursorWaitsForTransfers`
  (`DrainedBeforeCursor`), without any hypothesis;
* `NeverTwoHealers`: no two healers on one height, if `BlockFitsMargin` (one block ends
  within the lease's margin, as the run assumes too) and `OuterDoesNotCross`;
* `OneWriter` (`OneWritePerHeight`): nor a second write by anyone, if `BlockFitsMargin` and
  `NoGapCrosses`.

`TickInv` says where a tick can be and with what; `RowInv` adds to the two statements of
`GapRowsTrue` that everything behind a tick's own position is complete (`BehindInv`).
`DrainedInv` with `Accounted` says that what a process has in memory above its verified
position is there for its own flush. For one writer, `HeldInv` (a tick inside a block holds
its lease), `OldestInv` (the gap a tick works on is the oldest one that covers the height and was
eligible), `UnwrittenInv` (what it is about to write is not there) and `TerritoryInv` (healer
and resume backfill are on different sides of the line each has read).

The two hypotheses about gaps are where the proof found the code's argument to have a hole.
The claim takes the oldest eligible gap, and the comment at `gap-healer.ts:196-200` concludes that
overlap is "impossible rather than merely unlikely". But a range becomes eligible by the
MAX(blocks) of the moment, and of two nested ranges the inner one may be eligible first:
a healer is at work in it when the outer, older one becomes eligible, and its lease is
another row's. `OuterDoesNotCross` excludes that (an older range that covers a later one
is eligible from the start, or never). Likewise healer and resume backfill divide the heights at a
line each reads for itself; `NoGapCrosses` says that no gap changes sides while generations
overlap. The code ensures neither; both hold in the instance of `healer_safety`, and TLC
finds the two writers in instances without them (see the known limits).

### ReorgHandlerProofs

For any endpoints, sets of strangers, depths, batches, heights, reorgs and failures:

* `ReorgTypes`, `IndexStaysUsable` (`IndexUsable`), without any hypothesis;
* `OneWordDeletesNothing` (`OneEndpointDeletesNothing`), if `TooFewStrangers`: fewer endpoints
  serve another chain than are needed to corroborate a claim (two, or the only one there is).
  That is the property's own premise: with as many strangers as witnesses asked for, a
  check has no way to tell.

`HoleInv` adds to `NoHoleBelowCursor` that a finished height of a batch has its row (`DoneInv`)
and that a height is stepped over only while its chain is stored (`PoisonInv`). For one
endpoint's word, `GenesisInv`: on a chain that never reorganised there are only the hashes of its
first branch and a stranger's (`OnlyGenesis`); while none of a stranger's is stored nobody
unwinds and only strangers disagree (`CleanInv`), since what a check compares is there
(`TipInv`). With too few of them a disagreement is never corroborated.

### ServicesProofs

* `RpcFailover`, for any pool, callers, kinds of request and crews: `FailoverTypes`,
  `OutcomeHolds` (`OutcomeTrue`), `HealthIsEarned` (`HealthEarned`). `HealthAssumption` says that
  cooldowns double up to the longest one in `MaxWaves` waves, which is what `Math.min` of the
  code's constants does. `CallSound`: an endpoint of the pool was asked or is still in the
  call's list, and nothing was written before the one being asked. `EarnedFor`: the failures
  held against an endpoint are its streak, and a demotion that has lapsed has a probation
  not yet blown, so that the first of several workers to fail it uses it up.
* `BackfillWorker`, for any history, pages, instances and attempts: `BackfillTypes`,
  `RowSaysWhatIsSo` (`WatermarkTrue`) and the refinement `WorkerImplementsCache`
  (`KeepsCachePromise`). `BackfillInv`: a claim that still holds the lease has the cursor, the
  count and the attempts of the row, and a page that was fetched is the one that follows
  the claim's cursor at some head there was (`ClaimSound`); the row itself counts what is cached
  and is claimable only where there is more to fetch (`RowTrue`). A step of the worker is
  then one of `Grow`, `Enqueue`, `Take`, `CachePage`, `Leave`, or a stutter: in particular what
  an instance does that has lost its lease.
* `HistoryServe`, for any history, hashes, page sizes and caps: `ServeTypes` and
  `PagesAreTheHistory` (`EachRowOnce`). `CacheInv` adds to the stretch that a whole page at
  least lies above the cursor; `SnapshotTrue` says what a watermark read earlier is
  still good for; `ToCome` are the rows a cursor has yet to show, and
  `CursorSound` that every row owed was shown or is to come, and, in a calm session,
  that nothing to come was shown. `SeamStep` is the heart: by `KeyOrder` the boundary
  block, less what was seen of it, is what the cache has below page 1.

* The three beside each other, `SchemaIndexes` and `PartitionLadder`, as `MCServices` runs them:
  `ServicesTypes` (`ServicesTypeOK`) and `ServicesKeepPromises`, all that the run checks of them
  but liveness. A step of one part is a stutter of the others (`PartsRun`), save that the
  worker and the reader have the cache in common: `EntityInv` says that whichever of the two
  was not chosen has not begun, so that the cache keeps the invariant of the one that runs.

### MaintenanceProofs

* `WebhookNotifier`, for every set of webhooks, blocks, processes and slots and every limit:
  `WebhookTypes`, `SentAtMostOnce` (`AtMostOnce`), `OffForGood` (`StaysOff`) and
  `FailCountHolds` (`FailCountTrue`). `OnceInv` adds that every POST was preceded by its claim
  (`SentClaimed`, `PostsClaimed`) and that a delivery a run is about to send is in no
  other hands and was not sent (`PostsAlone`); `RunsPlaced` says at which block and webhook a
  run can be. `CountInv`: a run deals with a webhook once (`RunsSound`), so that the
  failures still to be added are as many as the slots that owe one, and the count with them is
  the number of failures, or at most that where a failed settlement excuses it.
* `ProviderBudget`, for any processes, prices and months: `BudgetTypesHold`, `BudgetHolds`
  (`BudgetKept`). `BudgetInv`: without Redis a process' memory is what it spent this month
  (`MemoryExact`), with a Redis that takes writes nobody stands refused, and who was refused
  has its flag set.
* `TokenHealer`, for any tokens, holder counts and sizes of head, batch, page and window:
  `TokenTypesHold`, `TurnsAreTaken` (`TurnsTaken`). `RunSound` bounds what a run has taken at
  each of its stages, `TurnInv` puts what it took from the walk at or above where the walk
  has come to and remembers for each row the place above it, to which the cursor goes
  back, and `TakenOnce` keeps head and walk apart while no holder count moves.
* The three beside each other and beside `Retention`, as `MCMaintenance` runs them:
  `MaintenanceTypes` (`MaintenanceTypeOK`) and `ChoresKeepPromises`, all that the run checks of
  them but liveness. They share no state, so a behaviour of the whole is one of each
  (`PartsAside`, `PartsRun`).

### RetentionProofs

For any policies, partition widths, numbers of days and
failures: `OnlyWhatIsAsked` (`RowsKept`), `DestroyedBelowFloor` (`FloorTruthful`) and
`NothingLeftOver` (`CleanRun`), with `NothingDeletedWithoutWindow`, `WindowKept` and
`NoOrphansLeft` for their conjuncts. Assumption: `RetentionAssumption`. The inductive
invariants: `TypeInv` (types, and that indexed days and gaps partition the days so
far), `CompactOff` (without a compact window no compact cutoff is ever set), `CutInv`
(where a run stands decides which cutoff is published and what it spares), `BodiesSwept`
and `InputsPruned` (what the loops done so far have emptied as long as none failed). The
lemmas about cutoffs (`CutoffIsIndexed`, `NatMin`, `BoundedMax`) carry the arithmetic, one lemma
per loop says what it may take (`StepSpares`, `LoopTakes`, `LoopEmpties`).

### SchemaIndexesProofs

For any number of generations and partitions, any processes, widths and heights:
`SchemaIsKept` (`SchemaKept`), from `KeyNeverMissing` (`OneKeyLeft`), `NothingBuiltTwice`
(`OneIndexEach`) and `LadderWhole` (`LadderHolds`), and the types, `SchemaTypes` and
`LadderTypes`. Assumptions: `SchemaAssumption` and `LadderAssumption`. `KeyInv` adds that whoever is about to retire the old key has seen the new
one valid (`RetiresReplaced`). `PartInv` adds that only partitions that are there have an
index (`OnlyHere`) and that what a generation still has to do lies at or below the newest
partition and, once it has read what is covered, has no clone it does not know of
(`TodoKnown`): a partition born with a clone is above all of it.

The plan of `partitionRangesToCreate` is a recursive function whose argument climbs:
`ClimbExists` shows that there is one such function (there is one above every height
but finitely many; the least height with one is 0), `PlanPasses` and `PlanCreates` what
one turn of the loop adds, and `RangesPlan` what the whole returns (`Plans`): ranges
in order, in nobody's way, that together with what exists cover every block, and that lie
between multiples of the width if what exists does. `LadderInv` keeps that of the plan of
every process while others work on the ladder (`PlanSound`): `Clear` while it is alone,
`Provided` while it is alone or all have one width, where a partition of the wanted name is
the wanted one (`SameStart`).

### Only model-checked

All liveness: it needs fairness and ENABLED, which the prover does not handle. Every invariant
and every action property of a passing run has a theorem.

## 6. What is not modelled, and why

See `PROJECT.json` under "components". In short: the coalescers of addresses and balances,
whose counts the code calls eventually consistent; validators and verified contracts,
refreshed by single-flight upserts; the window of the rate limit and the bounded caches,
whose loss is meant to go unnoticed; decoding, SQL text, pages and configuration, which hold
no state and are most of the repository's lines; the creation of tables and columns and the
one-time partition migration; the OAuth server, which signs tokens and stores nothing; the
admin console, the status page and altscan.io.

## 7. Running it

    tlc -workers 4 -config MCTransferWriter_safety.cfg MCTransferWriter
    tlapm TransferWriterProofs.tla

Every configuration is named after its module and its run in `PROJECT.json`; the modules
with theorems are the ones whose names end in `Proofs`.
