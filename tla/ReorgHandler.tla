---------------------------- MODULE ReorgHandler ----------------------------
(***************************************************************************)
(* Reorg detection and rollback (apps/indexer/src/reorg-handler.ts) between *)
(* the batches of the poll loop that it gates, with several RPC endpoints   *)
(* that may lag behind the chain or serve a different one.                  *)
(*                                                                          *)
(* A check is cut at its reads, all pinned to one endpoint, whose view may  *)
(* move between two of them; the unwind is cut at its statements.           *)
(*                                                                          *)
(* Simplifications: heights are offsets from one no reorg reaches (0);      *)
(* a block is known by the reorg that made its hash; the rows of a block    *)
(* below its blocks row (transactions, logs, ...) are one set; the order in *)
(* which endpoints are tried is open (RpcFailover's); the rollback of      *)
(* the transfer writer is TransferWriter's, so a restart may replay from    *)
(* any height; a behaviour has reorgs or a foreign endpoint, not both; heal *)
(* cursors lie out of a reorg's reach (the check at start that REORG_DEPTH  *)
(* < RESUME_GAP_SCAN_BLOCKS) and are left out.                              *)
(***************************************************************************)
EXTENDS Integers, FiniteSets, FiniteSetsExt

CONSTANTS
  Endpoints,
  Strangers,    \* which sets of endpoints may serve a different chain
  MaxHeight,    \* the heights of the model are 1..MaxHeight
  ReorgDepth,   \* K
  BatchSize,    \* INDEX_BATCH_SIZE
  MaxReorgs,    \* bound of the model: chain reorgs
  MaxFaults     \* bound of the model: failures of reads, writes, processes

Heights == 1 .. MaxHeight
Epochs  == 0 .. MaxReorgs
Alien   == MaxReorgs + 1   \* hashes of the foreign chain
NoRow   == MaxReorgs + 2
Hashes  == 0 .. Alien

ASSUME EndpointAssumption ==
  /\ IsFiniteSet(Endpoints) /\ Endpoints # {}
  /\ Strangers \subseteq SUBSET Endpoints
ASSUME DepthAssumption == ReorgDepth \in Nat \ {0} /\ BatchSize \in Nat \ {0}
ASSUME BoundAssumption == MaxHeight \in Nat \ {0} /\ MaxReorgs \in Nat /\ MaxFaults \in Nat

VARIABLES
  \* the network
  chain,       \* chain[e][n]: the hash at height n after the e-th reorg
  epoch,       \* reorgs so far
  head,        \* the chain's head
  view,        \* what an endpoint has seen: an epoch and a head
  foreign,     \* the endpoints that serve a different chain
  \* the database
  stored,      \* blocks.hash, or NoRow
  children,    \* whose transactions and derived rows the height has
  poison_blocks,
  \* the process
  loop,
  lastIndexed,
  check,       \* the check under way
  pending,     \* heights of the batch nobody has taken yet
  done,        \* heights of the batch that succeeded
  failure,
  fork,        \* the fork point being rolled back to
  \* history
  abandoned,   \* heights stepped over on the chain that is stored
  faults

netVars   == <<chain, epoch, head, view, foreign>>
dbVars    == <<stored, children, poison_blocks>>
batchVars == <<pending, done, failure>>
vars == <<netVars, dbVars, loop, lastIndexed, check, batchVars, fork, abandoned, faults>>

NoCheck == [at |-> "nobody", tried |-> {}, unresolved |-> {}, read |-> "none",
            n |-> 0, to |-> 0]

Init ==
  /\ chain = [e \in Epochs |-> [n \in 0 .. MaxHeight |-> 0]]
  /\ foreign \in Strangers
  /\ epoch = IF foreign = {} THEN 0 ELSE MaxReorgs
  /\ head = 1
  /\ view = [p \in Endpoints |-> [epoch |-> epoch, head |-> 1]]
  /\ stored = [n \in Heights |-> NoRow]
  /\ children = [n \in Heights |-> {}]
  /\ poison_blocks = {}
  /\ loop = "top"
  /\ lastIndexed = 0
  /\ check = NoCheck
  /\ pending = {}
  /\ done = {}
  /\ failure = FALSE
  /\ fork = 0
  /\ abandoned = {}
  /\ faults = 0

Fault == faults < MaxFaults /\ faults' = faults + 1

-----------------------------------------------------------------------------
(* The network.                                                             *)

ChainGrows ==
  /\ head < MaxHeight
  /\ head' = head + 1
  /\ UNCHANGED <<chain, epoch, view, foreign, dbVars, loop, lastIndexed, check, batchVars,
                 fork, abandoned, faults>>

ChainReorgs(f) ==
  /\ epoch < MaxReorgs
  /\ f < head
  /\ epoch' = epoch + 1
  /\ chain' = [e \in Epochs |-> IF e <= epoch THEN chain[e]
                ELSE [n \in 0 .. MaxHeight |-> IF n > f THEN epoch + 1 ELSE chain[epoch][n]]]
  /\ UNCHANGED <<head, view, foreign, dbVars, loop, lastIndexed, check, batchVars, fork,
                 abandoned, faults>>

EndpointCatchesUp(p) ==
  /\ view[p] # [epoch |-> epoch, head |-> head]
  /\ view' = [view EXCEPT ![p] = [epoch |-> epoch, head |-> head]]
  /\ UNCHANGED <<chain, epoch, head, foreign, dbVars, loop, lastIndexed, check, batchVars,
                 fork, abandoned, faults>>

Has(p, n) == n <= view[p].head

HashAt(p, n) ==
  IF p \in foreign THEN Alien ELSE chain[view[p].epoch][n]

(* Height 0 is below every reorg and the database always has it.            *)
Stored(n) == IF n = 0 THEN 0 ELSE stored[n]

-----------------------------------------------------------------------------
(* detectReorgPinned.                                                       *)

BatchEndUnclamped(h) == lastIndexed + BatchSize   \* mutant: not bounded by the tip
BatchEnd(h) == Min({h, lastIndexed + BatchSize})

(* The tip read sets the batch; with nothing to index the check is idle.    *)
StartCheck(q, p) ==
  /\ loop = "top"
  /\ loop' = "check"
  /\ check' = [at |-> p, tried |-> {p}, unresolved |-> {}, read |-> "boundary",
               n |-> lastIndexed, to |-> BatchEnd(view[q].head)]
  /\ UNCHANGED <<netVars, dbVars, lastIndexed, batchVars, fork, abandoned, faults>>

At       == check.at
Untried  == Endpoints \ check.tried
Floor    == Max({0, lastIndexed - ReorgDepth})

(* No reorg: the batch, or back to the top when there is nothing to index.  *)
NotAReorg ==
  /\ IF check.to > lastIndexed
     THEN /\ loop' = "batch"
          /\ pending' = lastIndexed + 1 .. check.to
     ELSE /\ loop' = "top"
          /\ UNCHANGED pending
  /\ done' = {}
  /\ failure' = FALSE
  /\ check' = NoCheck
  /\ UNCHANGED fork

WalkFrom(n) ==
  /\ check' = [check EXCEPT !.read = "walk", !.n = n]
  /\ UNCHANGED <<loop, batchVars, fork>>

ReadBoundary ==
  /\ loop = "check" /\ check.read = "boundary"
  /\ \/ Stored(lastIndexed) = NoRow /\ NotAReorg
     \/ /\ Stored(lastIndexed) # NoRow
        /\ \/ /\ ~Has(At, lastIndexed + 1)
              /\ check' = [check EXCEPT !.read = "tip"]
              /\ UNCHANGED <<loop, batchVars, fork>>
           \/ /\ Has(At, lastIndexed + 1)
              /\ IF HashAt(At, lastIndexed) = Stored(lastIndexed)
                 THEN NotAReorg ELSE WalkFrom(lastIndexed)
  /\ UNCHANGED <<netVars, dbVars, lastIndexed, abandoned, faults>>

ReadTip ==
  /\ loop = "check" /\ check.read = "tip"
  /\ IF ~Has(At, lastIndexed) \/ HashAt(At, lastIndexed) = Stored(lastIndexed)
     THEN NotAReorg ELSE WalkFrom(lastIndexed)
  /\ UNCHANGED <<netVars, dbVars, lastIndexed, abandoned, faults>>

Agrees(n) == /\ Stored(n) # NoRow
             /\ Has(At, n)
             /\ HashAt(At, n) = Stored(n)

(* A missing row or block neither agrees nor disagrees.                     *)
Walk ==
  /\ loop = "check" /\ check.read = "walk"
  /\ check.n >= Floor
  /\ IF Agrees(check.n)
     THEN /\ loop' = "unwindPoison"
          /\ fork' = check.n
          /\ check' = NoCheck
     ELSE /\ check' = [check EXCEPT !.n = @ - 1]
          /\ UNCHANGED <<loop, fork>>
  /\ UNCHANGED <<netVars, dbVars, lastIndexed, batchVars, abandoned, faults>>

(* The whole check starts over on the next endpoint.                        *)
FailOver(unresolved) ==
  \E p \in Untried :
    /\ check' = [check EXCEPT !.at = p, !.tried = @ \cup {p}, !.read = "boundary",
                   !.n = lastIndexed, !.unresolved = unresolved]
    /\ UNCHANGED <<loop, fork>>

TrustOne(unresolved) == unresolved # {}   \* mutant: one endpoint's word will do
NeverTrust(unresolved) == FALSE   \* mutant: a reorg deeper than K is never unwound
Corroborated(unresolved) ==
  unresolved # {} /\ Cardinality(unresolved) >= Min({2, Cardinality(Endpoints)})

(* The check is over: roll back to the floor only if corroborated.          *)
Conclude(unresolved) ==
  /\ check' = NoCheck
  /\ IF Corroborated(unresolved)
     THEN loop' = "unwindPoison" /\ fork' = Floor
     ELSE loop' = "top" /\ UNCHANGED fork

(* UnresolvedForkError.                                                     *)
WalkEnds ==
  /\ loop = "check" /\ check.read = "walk"
  /\ check.n < Floor
  /\ LET unresolved == check.unresolved \cup {At}
     IN  FailOver(unresolved) \/ (Untried = {} /\ Conclude(unresolved))
  /\ UNCHANGED <<netVars, dbVars, lastIndexed, batchVars, abandoned, faults>>

(* A read errs or the check exceeds its timeout. Only the endpoint's fault  *)
(* fails over; the database's ends the check whoever is left to ask.        *)
ReadFails ==
  /\ loop = "check"
  /\ Fault
  /\ FailOver(check.unresolved) \/ Conclude(check.unresolved)
  /\ UNCHANGED <<netVars, dbVars, lastIndexed, batchVars, abandoned>>

-----------------------------------------------------------------------------
(* The batch.                                                               *)

(* The block row is inserted unless the height has one.                     *)
WithRow(n, h) == [stored EXCEPT ![n] = IF @ = NoRow THEN h ELSE @]

Advanced(d) == Max({h \in lastIndexed .. MaxHeight : lastIndexed + 1 .. h \subseteq d})

IndexBlock(n, p) ==
  /\ loop = "batch" /\ ~failure
  /\ n \in pending
  /\ Has(p, n)
  /\ stored' = WithRow(n, HashAt(p, n))
  /\ children' = [children EXCEPT ![n] = @ \cup {HashAt(p, n)}]
  /\ pending' = pending \ {n}
  /\ done' = done \cup {n}
  /\ lastIndexed' = Advanced(done')
  /\ UNCHANGED <<netVars, poison_blocks, loop, check, failure, fork, abandoned, faults>>

(* aborted-dirty: the block row is in, nothing else.                        *)
BlockFailsDirty(n, p) ==
  /\ loop = "batch" /\ ~failure
  /\ n \in pending
  /\ Has(p, n)
  /\ Fault
  /\ stored' = WithRow(n, HashAt(p, n))
  /\ pending' = pending \ {n}
  /\ failure' = TRUE
  /\ UNCHANGED <<netVars, children, poison_blocks, loop, lastIndexed, check, done,
                 fork, abandoned>>

(* exhausted-clean, or no endpoint has the block.                           *)
BlockFailsClean(n) ==
  /\ loop = "batch" /\ ~failure
  /\ n \in pending
  /\ faults < MaxFaults \/ \A p \in Endpoints : ~Has(p, n)
  /\ faults' = Min({MaxFaults, faults + 1})
  /\ pending' = pending \ {n}
  /\ failure' = TRUE
  /\ UNCHANGED <<netVars, dbVars, loop, lastIndexed, check, done, fork, abandoned>>

EndBatch ==
  /\ loop = "batch"
  /\ failure \/ pending = {}
  /\ loop' = "top"
  /\ pending' = {}
  /\ UNCHANGED <<netVars, dbVars, lastIndexed, check, done, failure, fork, abandoned,
                 faults>>

(* The block above the cursor is quarantined: its row must be absent.       *)
Quarantine ==
  /\ loop = "batch" /\ failure
  /\ Fault
  /\ lastIndexed < MaxHeight
  /\ stored[lastIndexed + 1] = NoRow
  /\ lastIndexed + 1 \notin done
  /\ poison_blocks' = poison_blocks \cup {lastIndexed + 1}
  /\ abandoned' = abandoned \cup {lastIndexed + 1}
  /\ lastIndexed' = lastIndexed + 1
  /\ loop' = "top"
  /\ pending' = {}
  /\ UNCHANGED <<netVars, stored, children, check, done, failure, fork>>

-----------------------------------------------------------------------------
(* recoverFromReorg: unwindFrom(fork + 1), then the cursor.                 *)

Below(S) == {n \in S : n <= fork}

UnwindPoison ==
  /\ loop = "unwindPoison"
  /\ poison_blocks' = Below(poison_blocks)
  /\ loop' = "unwindChildren"
  /\ UNCHANGED <<netVars, stored, children, lastIndexed, check, batchVars, fork,
                 abandoned, faults>>

UnwindChildren ==
  /\ loop = "unwindChildren"
  /\ children' = [n \in Heights |-> IF n > fork THEN {} ELSE children[n]]
  /\ loop' = "unwindBlocks"
  /\ UNCHANGED <<netVars, stored, poison_blocks, lastIndexed, check, batchVars, fork,
                 abandoned, faults>>

CursorKept == lastIndexed   \* mutant: the cursor stays above the fork
CursorBack == fork

UnwindBlocks ==
  /\ loop = "unwindBlocks"
  /\ stored' = [n \in Heights |-> IF n > fork THEN NoRow ELSE stored[n]]
  /\ abandoned' = Below(abandoned)
  /\ lastIndexed' = CursorBack
  /\ loop' = "top"
  /\ UNCHANGED <<netVars, children, poison_blocks, check, batchVars, fork,
                 faults>>

Unwinding == loop \in {"unwindPoison", "unwindChildren", "unwindBlocks"}

UnwindFails ==
  /\ Unwinding
  /\ Fault
  /\ loop' = "top"
  /\ UNCHANGED <<netVars, dbVars, lastIndexed, check, batchVars, fork, abandoned>>

(* A restart: from the first hole that is not recorded poison, or from the  *)
(* watermark, anywhere below.                                               *)
Newest == Max({0} \cup {n \in Heights : stored[n] # NoRow})
Holes  == {n \in 1 .. Newest : stored[n] = NoRow /\ n \notin poison_blocks}

Restart(w) ==
  /\ Fault
  /\ w <= IF Holes = {} THEN Newest ELSE Min(Holes) - 1
  /\ lastIndexed' = w
  /\ loop' = "top"
  /\ check' = NoCheck
  /\ pending' = {} /\ done' = {} /\ failure' = FALSE
  /\ UNCHANGED <<netVars, dbVars, fork, abandoned>>

-----------------------------------------------------------------------------
Network ==
  \/ ChainGrows
  \/ \E f \in 0 .. MaxHeight - 1 : ChainReorgs(f)
  \/ \E p \in Endpoints : EndpointCatchesUp(p)

CheckStep ==
  \/ \E q, p \in Endpoints : StartCheck(q, p)
  \/ ReadBoundary
  \/ ReadTip
  \/ Walk
  \/ WalkEnds

BatchStep ==
  \/ \E n \in Heights, p \in Endpoints : IndexBlock(n, p)
  \/ \E n \in Heights : BlockFailsClean(n)
  \/ EndBatch

UnwindStep ==
  \/ UnwindPoison
  \/ UnwindChildren
  \/ UnwindBlocks

Failures ==
  \/ ReadFails
  \/ \E n \in Heights, p \in Endpoints : BlockFailsDirty(n, p)
  \/ Quarantine
  \/ UnwindFails
  \/ \E w \in 0 .. MaxHeight : Restart(w)

Next == Network \/ CheckStep \/ BatchStep \/ UnwindStep \/ Failures

Spec == Init /\ [][Next]_vars

(* The loop runs, and lagging endpoints catch up; no chain has to grow.     *)
Fairness ==
  /\ WF_vars(CheckStep)
  /\ WF_vars(BatchStep)
  /\ WF_vars(UnwindStep)
  /\ \A p \in Endpoints : WF_vars(EndpointCatchesUp(p))

FairSpec == Spec /\ Fairness
-----------------------------------------------------------------------------
(* Properties.                                                              *)

Loops == {"top", "check", "batch", "unwindPoison", "unwindChildren", "unwindBlocks"}

(* Every variable has its type.                                             *)
TypeOK ==
  /\ chain \in [Epochs -> [0 .. MaxHeight -> Epochs]]
  /\ epoch \in Epochs
  /\ head \in Heights
  /\ view \in [Endpoints -> [epoch : Epochs, head : Heights]]
  /\ foreign \in Strangers
  /\ stored \in [Heights -> Hashes \cup {NoRow}]
  /\ children \in [Heights -> SUBSET Hashes]
  /\ poison_blocks \subseteq Heights
  /\ loop \in Loops
  /\ lastIndexed \in 0 .. MaxHeight
  /\ check \in [at : Endpoints \cup {"nobody"}, tried : SUBSET Endpoints,
                unresolved : SUBSET Endpoints, to : 0 .. MaxHeight,
                read : {"none", "boundary", "tip", "walk"}, n : -1 .. MaxHeight]
  /\ pending \subseteq Heights
  /\ done \subseteq Heights
  /\ failure \in BOOLEAN
  /\ fork \in 0 .. MaxHeight
  /\ abandoned \subseteq Heights
  /\ faults \in 0 .. MaxFaults

(* Whatever an unwind deletes is indexed again: below the cursor there is   *)
(* no hole but the heights that were stepped over on this very chain, even  *)
(* when an unwind fails half-way or the process restarts.                   *)
NoHoleBelowCursor ==
  \A n \in 1 .. lastIndexed : stored[n] # NoRow \/ n \in abandoned

(* The state between any two statements, a failing one included: types, and *)
(* no hole below the cursor.                                                *)
IndexUsable == TypeOK /\ NoHoleBelowCursor

(* One endpoint's word deletes nothing: while the chain has not reorganised *)
(* and no endpoint of a different chain has supplied a block, every block   *)
(* stays, whichever endpoint a check asks, finds behind or cannot read.     *)
OneEndpointDeletesNothing ==
  [][(\A n \in Heights : chain[epoch][n] = 0) /\ (\A n \in Heights : stored[n] # Alien) =>
       \A n \in Heights : stored[n] # NoRow => stored'[n] # NoRow]_vars

(* A retry re-runs the whole unwind: below the cursor no block is left      *)
(* without its rows once the loop indexes again.                            *)
UnwindIsRetried ==
  loop = "batch" => \A n \in 1 .. lastIndexed : stored[n] # NoRow => children[n] # {}

Quiet == epoch = MaxReorgs /\ head = MaxHeight /\ faults = MaxFaults /\ foreign = {}

(* Once the chain stops reorganising, the block at the cursor is canonical  *)
(* and the cursor at the head, however deep the reorgs and whatever K.      *)
TipConverges ==
  Quiet ~> lastIndexed = MaxHeight /\ stored[MaxHeight] \in {chain[epoch][MaxHeight], NoRow}
=============================================================================
