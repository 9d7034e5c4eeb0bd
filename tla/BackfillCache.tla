---------------------------- MODULE BackfillCache ----------------------------
(***************************************************************************)
(* What the lazy backfill of one entity promises those who read its cache   *)
(* (backfill_watermarks and backfill_address_txs / backfill_token_transfers;*)
(* apps/indexer/src/backfill-worker.ts): the cache is a stretch of the      *)
(* provider's history, from the head it had once down to oldest_cursor, and *)
(* grows by whole pages at its lower end, the watermark with it.            *)
(*                                                                          *)
(* BackfillWorker implements this; HistoryServe is a reader of it.          *)
(*                                                                          *)
(* The provider's history is external: rows are numbered in its order, 1 is *)
(* the oldest; rows appear at the head, a block at a time.  A page cursor   *)
(* is the row the next page starts with, 0 stands for null.                 *)
(***************************************************************************)
EXTENDS Integers, FiniteSets, FiniteSetsExt

CONSTANTS
  BlockOf,    \* block number of each row: the rows are DOMAIN BlockOf = 1 .. n
  Heads,      \* the newest rows the history may end with: ends of blocks
  PageSize,   \* rows of a page
  Unusables   \* the sets of rows that may have no usable log_index

Rows == DOMAIN BlockOf

ASSUME HistoryAssumption ==
  /\ IsFiniteSet(Rows)
  /\ Rows = 1 .. Cardinality(Rows)
  /\ \A r \in Rows : BlockOf[r] \in Nat
  /\ \A r, s \in Rows : r < s => BlockOf[r] <= BlockOf[s]
  /\ Heads \subseteq Rows
  /\ \A h \in Heads, r \in Rows : r > h => BlockOf[r] > BlockOf[h]
  /\ PageSize \in Nat \ {0}
  /\ Unusables \subseteq SUBSET Rows

VARIABLES
  head,      \* newest row the provider has
  unusable,  \* rows without a usable log_index (none for address_txs)
  status,    \* backfill_watermarks.status, "none" without a row
  cursor,    \* oldest_cursor
  cache      \* rows cached

historyVars == <<head, unusable>>
cacheVars   == <<historyVars, status, cursor, cache>>

(* One page of the provider, from the head if there is no cursor.           *)
PageFrom(c, h) ==
  LET first == IF c = 0 THEN h ELSE c
  IN  {r \in Rows : r <= first /\ r > first - PageSize}

NextCursor(page) == IF page = {} THEN 0 ELSE Min(page) - 1

HistoryInit ==
  /\ head \in Heads
  /\ unusable \in Unusables

CacheInit ==
  /\ HistoryInit
  /\ status = "none"
  /\ cursor = 0
  /\ cache = {}

Grow ==
  /\ \E h \in Heads : h > head /\ head' = h
  /\ UNCHANGED <<unusable, status, cursor, cache>>

Enqueue ==
  /\ status = "none"
  /\ status' = "pending"
  /\ UNCHANGED <<historyVars, cursor, cache>>

Take ==
  /\ status \in {"pending", "partial", "error"}
  /\ status' = "running"
  /\ UNCHANGED <<historyVars, cursor, cache>>

(* The whole page or nothing: a row that cannot be cached keeps the page    *)
(* out.  The page may have been asked for when the history was shorter.     *)
CachePage ==
  /\ status = "running"
  /\ \E h \in Heads :
       LET page == PageFrom(cursor, h)
       IN  /\ h <= head
           /\ page \cap unusable = {}
           /\ cache' = cache \cup page
           /\ cursor' = NextCursor(page)
           /\ status' \in IF cursor' = 0 THEN {"complete"} ELSE {"partial", "capped"}
  /\ UNCHANGED historyVars

Leave ==
  /\ status = "running"
  /\ status' \in {"error", "capped", IF cache = {} THEN "pending" ELSE "partial"}
  /\ UNCHANGED <<historyVars, cursor, cache>>

CacheNext ==
  \/ Grow
  \/ Enqueue
  \/ Take
  \/ CachePage
  \/ Leave

CacheSpec == CacheInit /\ [][CacheNext]_cacheVars

Statuses == {"none", "pending", "running", "partial", "complete", "capped", "error"}

(* The cache is the history from some head down to the cursor, without a    *)
(* hole and without a row beyond it: what the cursor leaves to the provider *)
(* and what is cached are exactly the history there was at that head.       *)
CachedIsStretch ==
  cache # {} => /\ Max(cache) \in Heads
                /\ cache = cursor + 1 .. Max(cache)
=============================================================================
