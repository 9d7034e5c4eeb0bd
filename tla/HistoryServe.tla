----------------------------- MODULE HistoryServe -----------------------------
(***************************************************************************)
(* Paging through an address' history in the explorer                       *)
(* (apps/explorer/lib/backfill-serve.ts and the routes                      *)
(* app/api/internal/address/[address]/history and .../transfers), above the *)
(* cache the backfill worker is filling at the same time (BackfillCache).   *)
(*                                                                          *)
(* Page 1 is the provider's.  Further pages come from the cache once it is  *)
(* contiguous with page 1, then from the provider again where the worker    *)
(* stopped.  A request reads the watermark first, then the cache or the     *)
(* provider, then, after a live page 1, whether the cache covers it; the    *)
(* worker may be anywhere between two of these reads.                       *)
(*                                                                          *)
(* The provider orders the rows of a block in its own way, the cache by     *)
(* hash: a local position is a number that orders rows by block, then hash. *)
(***************************************************************************)
EXTENDS BackfillCache

CONSTANTS
  HashRank,   \* place of each row's hash among those of its block, from 1
  LocalSize,  \* rows of a local page (PAGE)
  SeenCap     \* exclusions a cursor may carry (SEEN_CAP)

MaxRank == Cardinality(Rows) + 1

ASSUME ServeAssumption ==
  /\ \A r \in Rows : HashRank[r] \in 1 .. MaxRank - 1
  /\ \A r, s \in Rows : (r # s /\ BlockOf[r] = BlockOf[s]) => HashRank[r] # HashRank[s]
  /\ LocalSize \in Nat \ {0}
  /\ SeenCap \in Nat

VARIABLES
  session,  \* what the reader's request is at, its cursor, the watermark it read
  \* history
  served,   \* how often each row was shown
  owed,     \* rows page 1 makes the reader expect
  calm,     \* no read of the watermark failed, nor did it move, in this session
  overtaken \* the worker cached a row above the position of a local cursor

viewVars  == <<session, served, owed, calm, overtaken>>
serveVars == <<cacheVars, viewVars>>

(* Positions.                                                               *)
Key(r)    == BlockOf[r] * (MaxRank + 1) + HashRank[r]
TopKey(b) == b * (MaxRank + 1) + MaxRank     \* (b, TOP_HASH)
TopBoundary == TopKey(1 + Max({BlockOf[r] : r \in Rows}))

HeadCursor      == [source |-> "head", pos |-> 0, seen |-> {}]
LocalCursor(k, seen) == [source |-> "local", pos |-> k, seen |-> seen]
ProviderCursor(c)    == [source |-> "provider", pos |-> c, seen |-> {}]
NoCursor        == [source |-> "end", pos |-> 0, seen |-> {}]

ProviderTail(c) == IF c = 0 THEN NoCursor ELSE ProviderCursor(c)

NoWatermark == [status |-> "none", cursor |-> 0]
Closed == [at |-> "closed", cursor |-> HeadCursor, wm |-> NoWatermark, page |-> {}]

ServeInit ==
  /\ CacheInit
  /\ session = Closed
  /\ served = [r \in Rows |-> 0]
  /\ owed = {}
  /\ calm = TRUE
  /\ overtaken = FALSE

(* cacheUsable                                                              *)
Usable(wm) == wm.status \in {"complete", "capped", "partial"}

Shows(rows) == served' = [r \in Rows |-> IF r \in rows /\ served[r] < 2
                                         THEN served[r] + 1 ELSE served[r]]

Asks(c) == session' = [session EXCEPT !.at = "ask", !.cursor = c, !.page = {}]

-----------------------------------------------------------------------------
(* A local page: the rows below the position, less those seen.              *)

LocalRows(cur) == {r \in cache : Key(r) < cur.pos} \ cur.seen

LocalPage(cur) ==
  {r \in LocalRows(cur) :
     Cardinality({s \in LocalRows(cur) : Key(s) > Key(r)}) < LocalSize}

LastOf(page) == CHOOSE r \in page : \A s \in page : Key(r) <= Key(s)

NoCarry(seen, last) == {}   \* mutant: the exclusions serve the first local page only
(* carrySeamExclusions: for as long as the page ends inside the boundary    *)
(* block.                                                                   *)
Carry(seen, last) == {r \in seen : BlockOf[r] = BlockOf[last]}

(* After the last cached row: nothing if the cache is complete, else where  *)
(* the worker stopped, by the watermark read before the rows.               *)
AfterCache(wm) == IF wm.status = "complete" THEN NoCursor ELSE ProviderTail(wm.cursor)

NextLocal(cur, wm) ==
  LET page == LocalPage(cur)
  IN  IF page # LocalRows(cur)
      THEN LocalCursor(Key(LastOf(page)), Carry(cur.seen, LastOf(page)))
      ELSE AfterCache(wm)

-----------------------------------------------------------------------------
(* The steps of a request.                                                  *)

Open ==
  /\ session.at \in {"closed", "done", "limited"}
  /\ session' = [Closed EXCEPT !.at = "ask"]
  /\ served' = [r \in Rows |-> 0]
  /\ owed' = {}
  /\ calm' = TRUE
  /\ overtaken' = FALSE
  /\ UNCHANGED cacheVars

Watermark == [status |-> status, cursor |-> cursor]

(* readWatermark; a failure counts as no watermark.  Without one the entity *)
(* is enqueued on the way, if the viewer is not a bot.                      *)
ReadWatermark ==
  /\ session.at = "ask"
  /\ session.cursor.source # "end"
  /\ \/ /\ session' = [session EXCEPT !.at = "answer", !.wm = Watermark]
        /\ UNCHANGED calm
     \/ /\ session' = [session EXCEPT !.at = "answer", !.wm = NoWatermark]
        /\ calm' = FALSE
  /\ UNCHANGED <<cacheVars, served, owed, overtaken>>

(* The last page had no next cursor.                                        *)
Close ==
  /\ session.at = "ask"
  /\ session.cursor.source = "end"
  /\ session' = [session EXCEPT !.at = "done", !.wm = NoWatermark]
  /\ UNCHANGED <<cacheVars, served, owed, calm, overtaken>>

ServeLocal ==
  /\ session.at = "answer"
  /\ session.cursor.source = "local"
  /\ Usable(session.wm)
  /\ Shows(LocalPage(session.cursor))
  /\ Asks(NextLocal(session.cursor, session.wm))
  /\ UNCHANGED <<cacheVars, owed, calm, overtaken>>

(* A local cursor whose cache is not usable at the moment is answered with  *)
(* the provider's head.                                                     *)
FromProvider ==
  /\ session.at = "answer"
  /\ session.cursor.source = "local" => ~Usable(session.wm)

LivePage ==
  PageFrom(IF session.cursor.source = "provider" THEN session.cursor.pos ELSE 0, head)

ServeProvider ==
  /\ FromProvider
  /\ Shows(LivePage)
  /\ owed' = IF session.cursor.source = "head" THEN {r \in Rows : r <= head} ELSE owed
  /\ IF session.cursor.source = "head" /\ Usable(session.wm) /\ LivePage # {}
     THEN session' = [session EXCEPT !.at = "seam", !.page = LivePage]
     ELSE Asks(ProviderTail(NextCursor(LivePage)))
  /\ UNCHANGED <<cacheVars, calm, overtaken>>

CacheNotEmpty(oldest) == \E r \in cache : r < oldest   \* mutant: rows below are enough
(* cacheCoversFrom: a cached row at or above the oldest block of page 1.    *)
CoversFrom(oldest) == \E r \in cache : BlockOf[r] >= BlockOf[oldest]

(* Mutant: the hand-over is anchored at the oldest row's own hash.          *)
AtOldestRow(page) == LocalCursor(Key(Min(page)), {})

(* Everything at or below the boundary block, less what page 1 showed of it.*)
AtBoundary(page) ==
  LocalCursor(TopKey(BlockOf[Min(page)]),
              {r \in page : BlockOf[r] = BlockOf[Min(page)]})

(* Mutant: the cursor carries whatever page 1 showed of the block.          *)
HandsOverUncapped(page) ==
  CoversFrom(Min(page)) /\ AtBoundary(page).seen \cap unusable = {}

HandsOver(page) ==
  /\ CoversFrom(Min(page))
  /\ Cardinality(AtBoundary(page).seen) <= SeenCap
  /\ AtBoundary(page).seen \cap unusable = {}

(* Step 2, after a live page 1; the look at the cache may fail.             *)
Seam ==
  /\ session.at = "seam"
  /\ \/ /\ HandsOver(session.page)
        /\ Asks(AtBoundary(session.page))
     \/ Asks(ProviderTail(NextCursor(session.page)))
  /\ UNCHANGED <<cacheVars, served, owed, calm, overtaken>>

(* The provider is out: the cached head if page 1 was asked for, else the   *)
(* reader is told that the list is limited.                                 *)
Outage ==
  /\ FromProvider
  /\ LET cur  == LocalCursor(TopBoundary, {})
         page == LocalPage(cur)
     IN  \/ /\ session.cursor.source = "head"
            /\ Usable(session.wm)
            /\ page # {}
            /\ Shows(page)
            /\ owed' = {r \in Rows : r <= Max(cache)}
            /\ Asks(NextLocal(cur, session.wm))
         \/ /\ session' = [session EXCEPT !.at = "limited"]
            /\ UNCHANGED <<served, owed>>
  /\ UNCHANGED <<cacheVars, calm, overtaken>>

(* A page of the worker ended inside the block the reader is in: the rest   *)
(* of it is ordered by its hashes.                                          *)
Overtakes ==
  /\ session.cursor.source = "local"
  /\ \E r \in cache' \ cache : Key(r) >= session.cursor.pos

Fill ==
  /\ CacheNext
  /\ overtaken' = (overtaken \/ Overtakes)
  /\ calm' = (calm /\ UNCHANGED <<status, cursor>>)
  /\ UNCHANGED <<session, served, owed>>

Reader ==
  \/ Open
  \/ ReadWatermark
  \/ Close
  \/ ServeLocal
  \/ ServeProvider
  \/ Seam
  \/ Outage

ServeNext == Reader \/ Fill

ServeSpec == ServeInit /\ [][ServeNext]_serveVars
-----------------------------------------------------------------------------
(* Properties.                                                              *)

(* Every variable has its type, and no cursor carries more exclusions than  *)
(* the next request accepts.                                                *)
ServeTypeOK ==
  /\ status \in Statuses
  /\ cursor \in {0} \cup Rows
  /\ cache \subseteq Rows
  /\ session \in [at : {"closed", "ask", "answer", "seam", "done", "limited"},
                  cursor : [source : {"head", "local", "provider", "end"},
                            pos : 0 .. TopBoundary, seen : SUBSET Rows],
                  wm : [status : Statuses, cursor : {0} \cup Rows],
                  page : SUBSET Rows]
  /\ Cardinality(session.cursor.seen) <= SeenCap
  /\ served \in [Rows -> 0 .. 2]
  /\ owed \subseteq Rows
  /\ calm \in BOOLEAN
  /\ overtaken \in BOOLEAN

(* A reader who pages to the end has been shown every row there was at page *)
(* 1, whatever the worker committed, gave up or claimed in between, and     *)
(* whatever arrived at the head since the backfill.                         *)
NothingSkippedEver ==
  session.at = "done" => \A r \in owed : served[r] >= 1

(* The same for a reader above whose local position no row was cached: what *)
(* the code does not keep (NothingSkippedEver) it fails to keep only there. *)
NothingSkipped ==
  ~overtaken => NothingSkippedEver

(* While the worker leaves the entity alone, no row is shown twice: the     *)
(* seam between provider order and hash order is exact.                     *)
NothingTwice ==
  calm => \A r \in Rows : served[r] <= 1

(* Both: the pages together are the history, each row of it once.           *)
EachRowOnce == NothingSkipped /\ NothingTwice
=============================================================================
