----------------------------- MODULE TokenHealer -----------------------------
(***************************************************************************)
(* The token metadata healer of the indexer                                 *)
(* (apps/indexer/src/token-metadata-healer.ts and the decisions of          *)
(* token-metadata.ts): a timer that asks the chain again for tokens whose   *)
(* name, symbol or supply the first fetch left as a placeholder.  A run     *)
(* takes the tokens with holders first and fills up from a walk through the *)
(* whole list that resumes where the last run left it.                      *)
(*                                                                          *)
(* A token is a number, its address; the list is ordered by holders, then   *)
(* address, both descending, and a place in the list is one number.  Time   *)
(* is counted in runs: an entry of the tried map lasts Window of them.      *)
(***************************************************************************)
EXTENDS Integers, FiniteSets, FiniteSetsExt

CONSTANTS
  Tokens,        \* 1 .. n
  Nature,        \* what the contract of a token does: "answers", "reverts" or "aborts"
  FirstHolders,  \* holder counts the list starts with
  MaxHolders,
  HeadMin,       \* HEAD_MIN_HOLDERS
  HeadLimit,     \* HEAD_LIMIT
  Batch,         \* TOKEN_HEAL_BATCH
  MaxPages,      \* HEAL_MAX_PAGES
  MinAttempts,   \* tokens that fit into RUN_BUDGET_MS however slow they are
  StreakLimit,   \* TRANSPORT_STREAK_LIMIT
  StrikeLimit,   \* TRANSPORT_STRIKE_LIMIT
  Window,        \* HEAL_RETRY_MS, in runs
  MaxMoves,      \* bounds of the model: changes of a holder count,
  MaxFlips       \*   endpoints starting to hang or to answer

ASSUME TokenHealerAssumption ==
  /\ IsFiniteSet(Tokens)
  /\ Tokens = 1 .. Cardinality(Tokens)
  /\ Nature \in [Tokens -> {"answers", "reverts", "aborts"}]
  /\ FirstHolders \subseteq [Tokens -> 0 .. MaxHolders]
  /\ MaxHolders \in Nat
  /\ {HeadMin, HeadLimit, Batch, MaxPages, MinAttempts, StreakLimit, StrikeLimit, Window}
       \subseteq Nat \ {0}

VARIABLES
  open,       \* tokens that are candidates: still a placeholder
  holders,    \* holder_count
  throttled,  \* the endpoints hang instead of answering
  tried,      \* runs an entry of the tried map has left, 0 for none
  strikes,
  cursor,     \* healCursor
  heal,       \* the run under way
  moves, flips,
  \* history
  owed        \* tail rows the last run took and got no answer for, and where

tokenVars == <<open, holders, throttled, tried, strikes, cursor, heal, moves, flips, owed>>

Place(h, t) == h * (Cardinality(Tokens) + 1) + t
PlaceOf(t)  == Place(holders[t], t)
ListTop     == Place(MaxHolders + 1, 0)
PageRows    == 2 * Batch

(* The first n of a set of rows, in list order.                             *)
FirstRows(rows, n) ==
  {r \in rows : Cardinality({q \in rows : q.place > r.place}) < n}

AsRead(ts) == {[token |-> t, place |-> PlaceOf(t)] : t \in ts}

NoRun == [at |-> "idle", head |-> {}, tail |-> {}, todo |-> {}, pos |-> 0, pages |-> 0,
          streak |-> 0, asked |-> {}]

TokenHealerInit ==
  /\ open = Tokens
  /\ holders \in FirstHolders
  /\ throttled \in BOOLEAN
  /\ tried = [t \in Tokens |-> 0]
  /\ strikes = [t \in Tokens |-> 0]
  /\ cursor = ListTop
  /\ heal = NoRun
  /\ moves = 0 /\ flips = 0
  /\ owed = {}

-----------------------------------------------------------------------------
(* The rest of the world.                                                   *)

(* recomputeHolderCounts of the retention job.                              *)
HoldersMove ==
  /\ moves < MaxMoves
  /\ moves' = moves + 1
  /\ \E t \in Tokens, h \in 0 .. MaxHolders :
       h # holders[t] /\ holders' = [holders EXCEPT ![t] = h]
  /\ UNCHANGED <<open, throttled, tried, strikes, cursor, heal, flips, owed>>

Throttle ==
  /\ flips < MaxFlips
  /\ flips' = flips + 1
  /\ throttled' = ~throttled
  /\ UNCHANGED <<open, holders, tried, strikes, cursor, heal, moves, owed>>

-----------------------------------------------------------------------------
(* Choosing the rows of a run.                                              *)

(* A tick while a run is under way is skipped; entries of the tried map     *)
(* that have lapsed are dropped.                                            *)
BeginRun ==
  /\ heal.at = "idle"
  /\ heal' = [NoRun EXCEPT !.at = "head"]
  /\ tried' = [t \in Tokens |-> Max({tried[t] - 1, 0})]
  /\ UNCHANGED <<open, holders, throttled, strikes, cursor, moves, flips, owed>>

Untried(rows) == {r \in rows : tried[r.token] = 0}

(* The head is listed from the top every time.                              *)
ListHead ==
  /\ heal.at = "head"
  /\ LET listed == FirstRows(AsRead({t \in open : holders[t] >= HeadMin}), HeadLimit)
         head   == FirstRows(Untried(listed), Batch)
     IN  heal' = [heal EXCEPT !.at = IF Cardinality(head) = Batch THEN "ask" ELSE "page",
                              !.head = head, !.todo = head, !.pos = cursor]
  /\ UNCHANGED <<open, holders, throttled, tried, strikes, cursor, moves, flips, owed>>

Wanted == Batch - Cardinality(heal.head)

NotExcluded(rows) == rows   \* mutant: rows the head has taken are taken again
(* Rows the head has taken are passed over.                                 *)
Excluded(rows) == {r \in rows : \A h \in heal.head : h.token # r.token}

(* The place just before a row: where to resume for it to be seen again.    *)
Before(r, page) == Min({heal.pos} \cup {q.place : q \in {p \in page : p.place > r.place}})

(* One page of the walk.  It stops at the row that fills the batch; a short *)
(* page is the end of the list.                                             *)
ReadPage ==
  /\ heal.at = "page"
  /\ LET page  == FirstRows(AsRead({t \in open : PlaceOf(t) < heal.pos}), PageRows)
         fresh == Excluded(Untried(page))
         taken == FirstRows(fresh, Wanted - Cardinality(heal.tail))
         tail  == heal.tail \cup
                    {[token |-> r.token, place |-> r.place, prev |-> Before(r, page)] : r \in taken}
         filled == Cardinality(tail) >= Wanted
         ended  == ~filled /\ Cardinality(page) < PageRows
         places == IF filled THEN {r.place : r \in taken} ELSE {r.place : r \in page}
     IN  heal' = [heal EXCEPT
           !.tail = tail,
           !.pages = @ + 1,
           !.pos = IF ended THEN ListTop ELSE IF places = {} THEN @ ELSE Min(places),
           !.at = IF filled \/ ended \/ heal.pages + 1 = MaxPages THEN "ask" ELSE "page",
           !.todo = heal.todo \cup tail]
  /\ UNCHANGED <<open, holders, throttled, tried, strikes, cursor, moves, flips, owed>>

-----------------------------------------------------------------------------
(* Asking for them, one after the other.                                    *)

(* Mutant: a transport failure is never an answer.                          *)
NeverWrittenOff(failed, struck) == ~failed
(* What fails StrikeLimit runs in a row is the contract's doing.            *)
MarksTried(failed, struck) == ~failed \/ struck >= StrikeLimit

(* Head before tail, each in list order.                                    *)
NextToAsk ==
  LET heads == heal.todo \cap heal.head
  IN  FirstRows(IF heads # {} THEN heads ELSE heal.todo, 1)

(* What has resolved is written even if the rest of the fetch failed; a row *)
(* whose last placeholder that was is no candidate any more.                *)
AskToken ==
  /\ heal.at = "ask"
  /\ \E r \in NextToAsk, settled \in BOOLEAN :
       LET t      == r.token
           failed == throttled \/ Nature[t] = "aborts"
           struck == IF failed THEN Min({strikes[t] + 1, StrikeLimit}) ELSE 0
           marks  == MarksTried(failed, struck)
           streak == IF failed THEN heal.streak + 1 ELSE 0
       IN  /\ settled => Nature[t] = "answers"
           /\ ~failed /\ Nature[t] = "answers" => settled
           /\ open' = IF settled THEN open \ {t} ELSE open
           /\ tried' = IF marks THEN [tried EXCEPT ![t] = Window] ELSE tried
           /\ strikes' = [strikes EXCEPT ![t] = IF marks THEN 0 ELSE struck]
           /\ heal' = [heal EXCEPT !.todo = @ \ {r}, !.streak = streak,
                                   !.asked = @ \cup {t},
                                   !.at = IF streak >= StreakLimit THEN "resume" ELSE @]
  /\ UNCHANGED <<holders, throttled, cursor, moves, flips, owed>>

(* Nothing is left to ask for, or the minute is over.                       *)
StopAsking ==
  /\ heal.at = "ask"
  /\ heal.todo = {} \/ Cardinality(heal.asked) >= MinAttempts
  /\ heal' = [heal EXCEPT !.at = "resume"]
  /\ UNCHANGED <<open, holders, throttled, tried, strikes, cursor, moves, flips, owed>>

Unsettled == {r \in heal.tail : tried[r.token] = 0}

PastAll == heal.pos   \* mutant: wherever the scan has come to
(* Before the first row that got no answer, or wherever the scan has come   *)
(* to.                                                                      *)
ResumeAt ==
  IF Unsettled = {} THEN heal.pos
  ELSE (CHOOSE r \in Unsettled : \A q \in Unsettled : q.place <= r.place).prev

EndHealRun ==
  /\ heal.at = "resume"
  /\ cursor' = ResumeAt
  /\ owed' = {[token |-> r.token, place |-> r.place] : r \in Unsettled}
  /\ heal' = NoRun
  /\ UNCHANGED <<open, holders, throttled, tried, strikes, moves, flips>>

(* A database error aborts the run and leaves the cursor where it was.      *)
AbortHealRun ==
  /\ heal.at \in {"head", "page", "ask"}
  /\ heal' = NoRun
  /\ UNCHANGED <<open, holders, throttled, tried, strikes, cursor, moves, flips, owed>>

HealSteps == ListHead \/ ReadPage \/ AskToken \/ StopAsking \/ EndHealRun

TokenHealerNext ==
  \/ HoldersMove
  \/ Throttle
  \/ BeginRun
  \/ ListHead
  \/ ReadPage
  \/ AskToken
  \/ StopAsking
  \/ EndHealRun
  \/ AbortHealRun

TokenHealerSpec == TokenHealerInit /\ [][TokenHealerNext]_tokenVars

(* The timer fires for ever and nothing in a run waits without a timeout.   *)
TokenHealerFairness ==
  /\ WF_tokenVars(BeginRun)
  /\ WF_tokenVars(HealSteps)

TokenHealerFairSpec == TokenHealerSpec /\ TokenHealerFairness

-----------------------------------------------------------------------------
TokenHealerTypeOK ==
  /\ open \subseteq Tokens
  /\ holders \in [Tokens -> 0 .. MaxHolders]
  /\ tried \in [Tokens -> 0 .. Window]
  /\ strikes \in [Tokens -> 0 .. StrikeLimit - 1]
  /\ cursor \in 1 .. ListTop
  /\ heal.at \in {"idle", "head", "page", "ask", "resume"}
  /\ heal.streak \in 0 .. StreakLimit
  /\ Cardinality(heal.todo) + Cardinality(heal.asked) <= Batch

(* No token is asked for twice in a run, though two listings of a changing  *)
(* table chose the rows, as long as no holder count moves meanwhile.        *)
AskedOnce == moves = 0 => \A r \in heal.todo : r.token \notin heal.asked

(* A row the walk has taken without getting an answer keeps its turn: when  *)
(* the next run starts, it still lies ahead of the cursor.                  *)
TurnKept == heal.at = "head" => \A r \in owed : r.place < cursor

(* Each row has its turn, and one of them.                                  *)
TurnsTaken == AskedOnce /\ TurnKept

(* Every token whose contract answers is healed in the end, once the        *)
(* endpoints stop hanging and the runs stop failing, however many of the    *)
(* tokens ahead of it revert or take the endpoint down each time.           *)
TokensHealed ==
  <>[](~throttled) /\ <>[][~AbortHealRun]_tokenVars
    => \A t \in Tokens : Nature[t] = "answers" => <>(t \notin open)
=============================================================================
