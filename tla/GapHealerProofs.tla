--------------------------- MODULE GapHealerProofs ---------------------------
(***************************************************************************)
(* Theorems about GapHealer, for any number of generations, heights and     *)
(* gaps, however the ranges overlap.                                        *)
(***************************************************************************)
EXTENDS GapHealer, TLAPS, FiniteSetTheorems, WellFoundedInduction

Active == {"select", "blocks", "verify", "cursor", "stamp"} \cup MidBlock

(* What a tick carries from one statement to the next.                      *)
TickOK(p) ==
  /\ tick[p].phase \in Active =>
       /\ tick[p].gap \in Gaps
       /\ tick[p].gap <= tick[p].healFrom
       /\ tick[p].windowEnd <= GapEnd[tick[p].gap]
       /\ tick[p].verifyFrom <= tick[p].gap \/ tick[p].verifyFrom <= cutoff
       /\ tick[p].missing \subseteq Window(p) \ Poison
       /\ backfill[p] = {}
  /\ tick[p].phase \in MidBlock => tick[p].missing # {}
  /\ tick[p].phase = "down" => backfill[p] = {}
  /\ filling[p] # 0 => filling[p] \in backfill[p]

TickInv == \A p \in Procs : TickOK(p)

(* A height no cursor has to wait for.                                      *)
Passed(n) == n < cutoff \/ n \in Poison \/ row[n] = "full"

(* What a tick has left behind its window, and what it has verified.        *)
BehindInv ==
  \A p \in Procs :
    /\ tick[p].phase \in Active =>
         \A n \in tick[p].gap .. tick[p].healFrom - 1 : Passed(n)
    /\ tick[p].phase = "cursor" => \A n \in Window(p) : Passed(n)

(* A full row's transfers landed, are lost, or are in somebody's memory.    *)
Accounted ==
  \A n \in Heights : row[n] = "full" =>
    n \in landed \cup lost \/ \E q \in Procs : n \in InMemory(q)

DrainedInv ==
  \A p \in Procs : tick[p].phase \in {"verify", "cursor"} => queue[p] = {}

(* A gap that may leave the resume scan's territory.                        *)
Healable(g) == GapEnd[g] < MaxNewest - ResumeWindow

(* A range around a later one does not leave the territory of the resume    *)
(* scan after the range inside it.                                          *)
OuterDoesNotCross ==
  \A g, h \in Gaps :
    g < h /\ GapEnd[h] < GapEnd[g] /\ Healable(g) => GapEnd[g] < FirstNewest - ResumeWindow

(* No range leaves it while the generations overlap.                        *)
NoGapCrosses ==
  \A g \in Gaps : Healable(g) => GapEnd[g] < FirstNewest - ResumeWindow

(* No older range that a healer may take has the height.                    *)
Oldest(n, g) == \A h \in Gaps : h < g /\ Healable(h) => n \notin h .. GapEnd[h]

(* A healer that writes has its lease.                                      *)
HeldInv == \A p \in Procs : tick[p].phase \in MidBlock => Holds(p)

OldestInv ==
  \A p \in Procs : tick[p].phase \in Active =>
    /\ Healable(tick[p].gap)
    /\ \A n \in tick[p].missing : n >= cutoff => Oldest(n, tick[p].gap)
    /\ tick[p].phase = "select" =>
         \A n \in Window(p) \ Poison :
           n >= cutoff /\ Absent(n) => Oldest(n, tick[p].gap)

(* Nothing is written yet of what a lease holder is about to write.         *)
UnwrittenInv ==
  \A p \in Procs : tick[p].phase \in Active /\ Holds(p) =>
    \A n \in tick[p].missing :
      \/ n < cutoff \/ Absent(n)
      \/ tick[p].phase \in {"insertTransactions", "enqueue"} /\ n = At(p)

(* The resume scan's territory.                                             *)
TerritoryInv ==
  \A p \in Procs : \A n \in backfill[p] : n >= FirstNewest - ResumeWindow

-----------------------------------------------------------------------------
(* Least and greatest elements.                                             *)

LEMMA Least ==
  ASSUME NEW S \in SUBSET Nat, S # {}
  PROVE  Min(S) \in S /\ \A n \in S : Min(S) <= n
<1>1. PICK m \in S : \A n \in S : ~ (<<n, m>> \in OpToRel(<, Nat))
  BY NatLessThanWellFounded, WFMin
<1>2. \A n \in S : m <= n
  <2>1. \A n \in S : ~ (n < m)
    BY <1>1, Zenon DEF OpToRel
  <2>. QED
    BY <2>1
<1>. QED
  BY <1>2 DEF Min

LEMMA LeastOfTwo ==
  ASSUME NEW a \in Int, NEW b \in Int
  PROVE  Min({a, b}) = IF a <= b THEN a ELSE b
<1>1. Min({a, b}) \in {a, b} /\ \A y \in {a, b} : Min({a, b}) <= y
  <2>1. \E x \in {a, b} : \A y \in {a, b} : x <= y
    BY SMT
  <2>. QED
    BY <2>1 DEF Min
<1>. QED
  BY <1>1

LEMMA GreatestOfTwo ==
  ASSUME NEW a \in Int, NEW b \in Int
  PROVE  Max({a, b}) = IF a <= b THEN b ELSE a
<1>1. Max({a, b}) \in {a, b} /\ \A y \in {a, b} : y <= Max({a, b})
  <2>1. \E x \in {a, b} : \A y \in {a, b} : x >= y
    BY SMT
  <2>. QED
    BY <2>1 DEF Max
<1>. QED
  BY <1>1

LEMMA GreatestOfThree ==
  ASSUME NEW a \in Int, NEW b \in Int, NEW c \in Int
  PROVE  /\ Max({a, b, c}) \in {a, b, c}
         /\ a <= Max({a, b, c}) /\ b <= Max({a, b, c}) /\ c <= Max({a, b, c})
<1>1. \E x \in {a, b, c} : \A y \in {a, b, c} : x >= y
  <2>1. CASE a >= b /\ a >= c
    BY <2>1
  <2>2. CASE b >= a /\ b >= c
    BY <2>2
  <2>3. CASE c >= a /\ c >= b
    BY <2>3
  <2>. QED
    BY <2>1, <2>2, <2>3
<1>. QED
  BY <1>1 DEF Max

LEMMA GapsAreNumbers == Gaps \subseteq Nat /\ \A g \in Gaps : GapEnd[g] \in Heights
  BY GapAssumption, HeightAssumption, BoundAssumption DEF Heights

(* The window a claim hands out.                                            *)
LEMMA Claimed ==
  ASSUME TypeOK, NEW g \in Gaps, GapEnd[g] >= floor
  PROVE  /\ HealFrom(g) \in 1 .. MaxHeight + 1 /\ g <= HealFrom(g)
         /\ \A n \in g .. HealFrom(g) - 1 : n < floor \/ n <= heal_cursor[g]
         /\ VerifyFrom(g) \in 1 .. MaxHeight
         /\ VerifyFrom(g) <= g \/ VerifyFrom(g) <= floor
         /\ WindowEnd(g) \in 0 .. MaxHeight /\ WindowEnd(g) <= GapEnd[g]
<1>1. /\ g \in 1 .. MaxHeight /\ GapEnd[g] \in g .. MaxHeight /\ MaxHeight \in Nat
      /\ floor \in Nat /\ floor >= 1 /\ heal_cursor[g] \in 0 .. MaxHeight
  BY GapAssumption, HeightAssumption, BoundAssumption DEF TypeOK, Heights
<1>2. /\ HealFrom(g) \in {g, floor, heal_cursor[g] + 1} /\ g <= HealFrom(g)
      /\ floor <= HealFrom(g) /\ heal_cursor[g] + 1 <= HealFrom(g)
  <2>1. g \in Int /\ floor \in Int /\ heal_cursor[g] + 1 \in Int
    BY <1>1
  <2>. QED
    BY <2>1, GreatestOfThree, Zenon DEF HealFrom
<1>3. VerifyFrom(g) = IF g <= floor THEN floor ELSE g
  BY <1>1, GreatestOfTwo DEF VerifyFrom
<1>4. WindowEnd(g) = IF GapEnd[g] <= HealFrom(g) + HealBatch - 1
                     THEN GapEnd[g] ELSE HealFrom(g) + HealBatch - 1
  <2>1. GapEnd[g] \in Int /\ HealFrom(g) + HealBatch - 1 \in Int
    BY <1>1, <1>2, BatchAssumption
  <2>. QED
    BY <2>1, LeastOfTwo DEF WindowEnd
<1>. QED
  BY <1>1, <1>2, <1>3, <1>4, BatchAssumption

(* The height a tick is at.                                                 *)
LEMMA AtHeight ==
  ASSUME TypeOK, TickInv, NEW p \in Procs, tick[p].phase \in MidBlock
  PROVE  /\ At(p) \in tick[p].missing /\ At(p) \in Heights /\ At(p) \notin Poison
         /\ At(p) \in Window(p)
         /\ tick[p].gap \in Gaps /\ At(p) \in tick[p].gap .. GapEnd[tick[p].gap]
<1>1. tick[p] \in Ticks
  BY DEF TypeOK
<1>2. tick[p].missing \in SUBSET Nat /\ tick[p].missing \subseteq Heights
  BY <1>1 DEF Ticks, Heights
<1>3. tick[p].missing # {} /\ tick[p].phase \in Active
  BY DEF TickInv, TickOK, Active
<1>4. At(p) \in tick[p].missing
  BY <1>2, <1>3, Least DEF At
<1>5. /\ tick[p].gap \in Gaps /\ tick[p].gap <= tick[p].healFrom
      /\ tick[p].windowEnd <= GapEnd[tick[p].gap] /\ tick[p].missing \subseteq Window(p) \ Poison
  BY <1>3 DEF TickInv, TickOK
<1>6. tick[p].gap \in Nat /\ GapEnd[tick[p].gap] \in Nat /\ tick[p].healFrom \in Nat
      /\ tick[p].windowEnd \in Nat
  BY <1>1, <1>5, GapAssumption, HeightAssumption DEF Ticks, Heights
<1>. QED
  BY <1>2, <1>4, <1>5, <1>6 DEF Window

-----------------------------------------------------------------------------
(* Types.                                                                   *)

LEMMA TypeInit == Init => TypeOK /\ TickInv
<1>. SUFFICES ASSUME Init PROVE TypeOK /\ TickInv
  OBVIOUS
<1>1. Off("down") \in Ticks
  BY HeightAssumption, BoundAssumption DEF Off, Ticks
<1>2. TypeOK
  <2>1. row \in [Heights -> {"absent", "bare", "full"}]
    BY DEF Init
  <2>2. lease \in [Gaps -> [owner : Procs \cup {Nobody}, left : {"fresh", "expiring", "lapsed"}]]
    BY DEF Init, NoLease
  <2>3. heal_cursor \in [Gaps -> 0 .. MaxHeight] /\ healed_at \subseteq Gaps
    BY HeightAssumption, BoundAssumption DEF Init
  <2>4. tick \in [Procs -> Ticks] /\ queue \in [Procs -> SUBSET Heights]
        /\ backfill \in [Procs -> SUBSET Heights] /\ filling \in [Procs -> Heights \cup {0}]
    BY <1>1 DEF Init
  <2>5. /\ landed \subseteq Heights /\ lost \subseteq Heights
        /\ cutoff \in 1 .. MaxFloor /\ floor \in 1 .. cutoff
        /\ newest \in FirstNewest .. MaxNewest /\ crashes \in 0 .. MaxCrashes
    BY BoundAssumption DEF Init
  <2>. QED
    BY <2>1, <2>2, <2>3, <2>4, <2>5 DEF TypeOK
<1>3. TickInv
  BY DEF Init, TickInv, TickOK, Off, Active, MidBlock
<1>. QED
  BY <1>2, <1>3

(* A tick that moves on keeps its record.                                   *)
LEMMA Phases ==
  ASSUME TypeOK, NEW p \in Procs
  PROVE  /\ Off("idle") \in Ticks /\ Off("down") \in Ticks
         /\ tick[p] \in Ticks
         /\ \A ph \in Active : [tick[p] EXCEPT !.phase = ph] \in Ticks
         /\ \A S \in SUBSET Heights :
              [tick[p] EXCEPT !.phase = "blocks", !.missing = S] \in Ticks
<1>1. Off("idle") \in Ticks /\ Off("down") \in Ticks
  BY HeightAssumption, BoundAssumption DEF Off, Ticks
<1>2. tick[p] \in Ticks
  BY DEF TypeOK
<1>3. \A ph \in Active : [tick[p] EXCEPT !.phase = ph] \in Ticks
  BY <1>2 DEF Ticks, Active
<1>4. ASSUME NEW S \in SUBSET Heights
      PROVE  [tick[p] EXCEPT !.phase = "blocks", !.missing = S] \in Ticks
  <2>1. [tick[p] EXCEPT !.phase = "blocks"] \in Ticks
    BY <1>3 DEF Active
  <2>. QED
    BY <1>2, <2>1 DEF Ticks
<1>. QED
  BY <1>1, <1>2, <1>3, <1>4

LEMMA TypeStep == TypeOK /\ TickInv /\ [Next]_vars => TypeOK'
<1>. SUFFICES ASSUME TypeOK, TickInv, [Next]_vars PROVE TypeOK'
  OBVIOUS
<1>. USE DEF rowVars, retVars, gapVars, fillVars
<1>1. ASSUME NEW p \in Procs, Boot(p) PROVE TypeOK'
  <2>1. Off("idle") \in Ticks
    BY Phases
  <2>2. ASSUME ResumeHoles # {} PROVE Min(ResumeHoles) .. MaxHeight \subseteq Heights
    <3>1. ResumeHoles \in SUBSET Nat /\ ResumeHoles \subseteq Heights
      BY DEF ResumeHoles, Heights
    <3>2. Min(ResumeHoles) \in Heights
      BY <2>2, <3>1, Least
    <3>. QED
      BY <3>2, HeightAssumption, BoundAssumption DEF Heights
  <2>3. tick' \in [Procs -> Ticks] /\ backfill' \in [Procs -> SUBSET Heights]
    BY <1>1, <2>1, <2>2 DEF Boot, TypeOK
  <2>. QED
    BY <1>1, <2>3 DEF Boot, TypeOK
<1>2. ASSUME NEW p \in Procs, ClaimGap(p) PROVE TypeOK'
  <2>. DEFINE g == Min(Candidates)
  <2>1. g \in Candidates
    <3>1. Candidates \subseteq Gaps /\ Gaps \subseteq Nat
      BY GapsAreNumbers, Zenon DEF Candidates
    <3>. QED
      BY <1>2, <3>1, Least DEF ClaimGap
  <2>2. g \in Gaps /\ GapEnd[g] >= floor
    BY <2>1 DEF Candidates, Eligible
  <2>3. /\ lease' = [lease EXCEPT ![g] = [owner |-> p, left |-> "fresh"]]
        /\ tick' = [tick EXCEPT ![p] =
             [phase |-> "select", gap |-> g, healFrom |-> HealFrom(g),
              verifyFrom |-> VerifyFrom(g), missing |-> {}, windowEnd |-> WindowEnd(g)]]
    BY <1>2 DEF ClaimGap
  <2>4. /\ HealFrom(g) \in 0 .. MaxHeight + 1 /\ VerifyFrom(g) \in 0 .. MaxHeight
        /\ WindowEnd(g) \in 0 .. MaxHeight
    BY <2>2, Claimed, HeightAssumption, BoundAssumption
  <2>. HIDE DEF g
  <2>5. [phase |-> "select", gap |-> g, healFrom |-> HealFrom(g),
         verifyFrom |-> VerifyFrom(g), missing |-> {}, windowEnd |-> WindowEnd(g)] \in Ticks
    BY <2>2, <2>4 DEF Ticks
  <2>6. tick' \in [Procs -> Ticks]
    BY <2>3, <2>5 DEF TypeOK
  <2>7. lease' \in [Gaps -> [owner : Procs \cup {Nobody}, left : {"fresh", "expiring", "lapsed"}]]
    BY <2>2, <2>3 DEF TypeOK
  <2>. QED
    BY <1>2, <2>6, <2>7 DEF ClaimGap, TypeOK
<1>3. ASSUME NEW p \in Procs, SelectMissing(p) PROVE TypeOK'
  <2>. DEFINE S == {n \in Window(p) : Absent(n) /\ n \notin Poison}
  <2>1. S \subseteq Heights
    <3>1. /\ tick[p].gap \in Heights /\ GapEnd[tick[p].gap] \in Heights
          /\ tick[p].gap <= tick[p].healFrom /\ tick[p].windowEnd <= GapEnd[tick[p].gap]
      BY <1>3, GapAssumption DEF SelectMissing, TickInv, TickOK, Active, Heights
    <3>2. tick[p] \in Ticks
      BY Phases
    <3>3. tick[p].healFrom \in Nat /\ tick[p].windowEnd \in Nat
      BY <3>2 DEF Ticks
    <3>. QED
      BY <3>1, <3>3, HeightAssumption, BoundAssumption DEF Window, Heights
  <2>2. tick' = [tick EXCEPT ![p] = [tick[p] EXCEPT !.phase = "blocks", !.missing = S]]
    BY <1>3 DEF SelectMissing, TypeOK, Ticks
  <2>. HIDE DEF S
  <2>3. tick' \in [Procs -> Ticks]
    BY <2>1, <2>2, Phases DEF TypeOK
  <2>. QED
    BY <1>3, <2>3 DEF SelectMissing, TypeOK
<1>4. ASSUME NEW p \in Procs, NEW ph \in Active, GoTo(p, ph) PROVE tick' \in [Procs -> Ticks]
  BY <1>4, Phases DEF GoTo, TypeOK
<1>5. ASSUME NEW p \in Procs, EndTick(p) PROVE tick' \in [Procs -> Ticks]
  BY <1>5, Phases DEF EndTick, TypeOK
<1>6. ASSUME NEW p \in Procs, StartBlock(p) PROVE TypeOK'
  BY <1>4, <1>6 DEF StartBlock, TypeOK, Active, MidBlock
<1>7. ASSUME NEW p \in Procs, InsertBlock(p) PROVE TypeOK'
  <2>1. tick' \in [Procs -> Ticks]
    BY <1>4, <1>7 DEF InsertBlock, Active, MidBlock
  <2>2. row' \in [Heights -> {"absent", "bare", "full"}]
    BY <1>7 DEF InsertBlock, TypeOK
  <2>. QED
    BY <1>7, <2>1, <2>2 DEF InsertBlock, TypeOK
<1>8. ASSUME NEW p \in Procs, InsertTransactions(p) PROVE TypeOK'
  <2>1. tick' \in [Procs -> Ticks]
    BY <1>4, <1>8 DEF InsertTransactions, Active, MidBlock
  <2>2. row' \in [Heights -> {"absent", "bare", "full"}]
    BY <1>8 DEF InsertTransactions, TypeOK
  <2>. QED
    BY <1>8, <2>1, <2>2 DEF InsertTransactions, TypeOK
<1>9. ASSUME NEW p \in Procs, EnqueueTransfers(p) PROVE TypeOK'
  <2>1. At(p) \in Heights
    BY <1>9, AtHeight DEF EnqueueTransfers, MidBlock
  <2>2. tick' = [tick EXCEPT ![p] = [tick[p] EXCEPT !.phase = "blocks",
                                                    !.missing = tick[p].missing \ {At(p)}]]
    BY <1>9 DEF EnqueueTransfers, TypeOK, Ticks
  <2>3. tick[p].missing \ {At(p)} \in SUBSET Heights
    BY Phases DEF Ticks
  <2>4. tick' \in [Procs -> Ticks]
    BY <2>2, <2>3, Phases DEF TypeOK
  <2>5. queue' \in [Procs -> SUBSET Heights]
    BY <1>9, <2>1 DEF EnqueueTransfers, TypeOK
  <2>. QED
    BY <1>9, <2>4, <2>5 DEF EnqueueTransfers, TypeOK
<1>10. ASSUME NEW p \in Procs, FlushTransfers(p) PROVE TypeOK'
  BY <1>4, <1>10 DEF FlushTransfers, TypeOK, Active
<1>11. ASSUME NEW p \in Procs, VerifyWindow(p) PROVE TypeOK'
  BY <1>4, <1>5, <1>11 DEF VerifyWindow, TypeOK, Active
<1>12. ASSUME NEW p \in Procs, AdvanceCursor(p) PROVE TypeOK'
  <2>1. tick' \in [Procs -> Ticks]
    BY <1>4, <1>5, <1>12 DEF AdvanceCursor, Active
  <2>2. heal_cursor' \in [Gaps -> 0 .. MaxHeight]
    <3>1. tick[p].gap \in Gaps /\ tick[p].windowEnd \in 0 .. MaxHeight
      BY <1>12, Phases DEF AdvanceCursor, TickInv, TickOK, Active, Ticks
    <3>2. heal_cursor[tick[p].gap] \in 0 .. MaxHeight
      BY <3>1 DEF TypeOK
    <3>3. Max({heal_cursor[tick[p].gap], tick[p].windowEnd}) \in 0 .. MaxHeight
      BY <3>1, <3>2, GreatestOfTwo
    <3>. QED
      BY <1>12, <3>1, <3>3 DEF AdvanceCursor, TypeOK
  <2>. QED
    BY <1>12, <2>1, <2>2 DEF AdvanceCursor, TypeOK
<1>13. ASSUME NEW p \in Procs, StampHealed(p) PROVE TypeOK'
  <2>1. tick' \in [Procs -> Ticks]
    BY <1>5, <1>13 DEF StampHealed
  <2>2. tick[p].gap \in Gaps
    BY <1>13 DEF StampHealed, TickInv, TickOK, Active
  <2>. QED
    BY <1>13, <2>1, <2>2 DEF StampHealed, TypeOK
<1>14. ASSUME NEW p \in Procs, FenceRefuses(p) PROVE TypeOK'
  BY <1>5, <1>14 DEF FenceRefuses, TypeOK
<1>15. ASSUME NEW p \in Procs, YieldTick(p) PROVE TypeOK'
  BY <1>5, <1>15 DEF YieldTick, TypeOK
<1>16. ASSUME NEW p \in Procs, FailBlock(p) PROVE TypeOK'
  <2>1. At(p) \in Heights
    BY <1>16, AtHeight DEF FailBlock
  <2>. QED
    BY <1>5, <1>16, <2>1 DEF FailBlock, TypeOK
<1>17. ASSUME NEW p \in Procs, FlushTimesOut(p) PROVE TypeOK'
  BY <1>5, <1>17 DEF FlushTimesOut, TypeOK
<1>18. ASSUME NEW p \in Procs, BackfillStarts(p) PROVE TypeOK'
  <2>1. backfill[p] \in SUBSET Nat /\ backfill[p] \subseteq Heights /\ backfill[p] # {}
    BY <1>18 DEF BackfillStarts, TypeOK, Heights
  <2>2. Min(backfill[p]) \in Heights
    BY <2>1, Least
  <2>. QED
    BY <1>18, <2>2 DEF BackfillStarts, TypeOK
<1>19. ASSUME NEW p \in Procs, BackfillWrites(p) PROVE TypeOK'
  <2>1. filling[p] \in Heights
    BY <1>19 DEF BackfillWrites, TypeOK
  <2>2. row' \in [Heights -> {"absent", "bare", "full"}]
    BY <1>19 DEF BackfillWrites, TypeOK
  <2>3. queue' \in [Procs -> SUBSET Heights]
    BY <1>19, <2>1 DEF BackfillWrites, TypeOK
  <2>4. backfill' \in [Procs -> SUBSET Heights] /\ filling' \in [Procs -> Heights \cup {0}]
    BY <1>19 DEF BackfillWrites, TypeOK
  <2>. QED
    BY <1>19, <2>2, <2>3, <2>4 DEF BackfillWrites, TypeOK
<1>20. ASSUME NEW p \in Procs, DrainQueue(p) PROVE TypeOK'
  BY <1>20 DEF DrainQueue, TypeOK
<1>21. ASSUME NEW p \in Procs, Crash(p) PROVE TypeOK'
  <2>1. tick' \in [Procs -> Ticks]
    BY <1>21, Phases DEF Crash, TypeOK
  <2>2. lost' \subseteq Heights
    BY <1>21 DEF Crash, TypeOK
  <2>3. crashes' \in 0 .. MaxCrashes
    BY <1>21, BoundAssumption DEF Crash, TypeOK
  <2>4. /\ queue' \in [Procs -> SUBSET Heights] /\ backfill' \in [Procs -> SUBSET Heights]
        /\ filling' \in [Procs -> Heights \cup {0}]
    BY <1>21 DEF Crash, TypeOK
  <2>. QED
    BY <1>21, <2>1, <2>2, <2>3, <2>4 DEF Crash, TypeOK
<1>22. ASSUME ChainGrows PROVE TypeOK'
  BY <1>22, BoundAssumption DEF ChainGrows, TypeOK
<1>23. ASSUME RetentionRuns PROVE TypeOK'
  BY <1>23, BoundAssumption DEF RetentionRuns, TypeOK
<1>24. ASSUME NEW n \in Heights, RetentionDeletes(n) PROVE TypeOK'
  <2>1. row' \in [Heights -> {"absent", "bare", "full"}]
    BY <1>24 DEF RetentionDeletes, TypeOK
  <2>. QED
    BY <1>24, <2>1 DEF RetentionDeletes, TypeOK
<1>25. ASSUME NEW g \in Gaps, LeaseAges(g) PROVE TypeOK'
  <2>1. lease' \in [Gaps -> [owner : Procs \cup {Nobody}, left : {"fresh", "expiring", "lapsed"}]]
    BY <1>25 DEF LeaseAges, TypeOK
  <2>. QED
    BY <1>25, <2>1 DEF LeaseAges, TypeOK
<1>26. CASE UNCHANGED vars
  BY <1>26 DEF vars, TypeOK
<1>. QED
  BY <1>1, <1>2, <1>3, <1>6, <1>7, <1>8, <1>9, <1>10, <1>11, <1>12, <1>13, <1>14, <1>15, <1>16,
     <1>17, <1>18, <1>19, <1>20, <1>21, <1>22, <1>23, <1>24, <1>25, <1>26
     DEF Next, BlockStep, ConfirmStep, GiveUp, BackfillStep, Environment

-----------------------------------------------------------------------------
(* What a tick carries.                                                     *)

(* Retention only moves up, and a full row stays full above its cutoff.     *)
LEMMA FullStays ==
  ASSUME TypeOK, TickInv, [Next]_vars
  PROVE  /\ cutoff \in Int /\ cutoff' \in Int /\ cutoff <= cutoff'
         /\ \A n \in Heights : row[n] = "full" => n < cutoff' \/ row'[n] = "full"
<1>. USE DEF rowVars, retVars, gapVars, fillVars, TypeOK
<1>1. CASE row' = row /\ cutoff' = cutoff
  BY <1>1, BoundAssumption
<1>2. ASSUME NEW p \in Procs, InsertBlock(p)
      PROVE  cutoff' = cutoff /\ \A n \in Heights : row[n] = "full" => row'[n] = "full"
  BY <1>2 DEF InsertBlock
<1>3. ASSUME NEW p \in Procs, InsertTransactions(p)
      PROVE  cutoff' = cutoff /\ \A n \in Heights : row[n] = "full" => row'[n] = "full"
  BY <1>3 DEF InsertTransactions
<1>4. ASSUME NEW p \in Procs, BackfillWrites(p)
      PROVE  cutoff' = cutoff /\ \A n \in Heights : row[n] = "full" => row'[n] = "full"
  BY <1>4 DEF BackfillWrites
<1>5. CASE cutoff' = cutoff /\ \A n \in Heights : row[n] = "full" => row'[n] = "full"
  BY <1>5, BoundAssumption
<1>6. CASE RetentionRuns
  <2>1. row' = row /\ (cutoff' = cutoff \/ cutoff' = cutoff + 1)
    BY <1>6 DEF RetentionRuns
  <2>2. cutoff \in Int /\ cutoff' \in Int /\ cutoff <= cutoff'
    BY <2>1, BoundAssumption
  <2>3. Heights \subseteq Int
    BY DEF Heights
  <2>. QED
    BY <2>1, <2>2, <2>3
<1>7. ASSUME NEW m \in Heights, RetentionDeletes(m)
      PROVE  cutoff' = cutoff /\ \A n \in Heights : row[n] = "full" => n < cutoff' \/ row'[n] = "full"
  BY <1>7, BoundAssumption DEF RetentionDeletes, Heights
<1>8. CASE /\ ~ (row' = row /\ cutoff' = cutoff)
           /\ ~ RetentionRuns
           /\ ~ \E p \in Procs : InsertBlock(p) \/ InsertTransactions(p) \/ BackfillWrites(p)
           /\ ~ \E m \in Heights : RetentionDeletes(m)
  <2>1. FALSE
    BY <1>8 DEF Next, vars, Boot, ClaimGap, SelectMissing, BlockStep, StartBlock,
       EnqueueTransfers, ConfirmStep, FlushTransfers, VerifyWindow, AdvanceCursor, StampHealed,
       FenceRefuses, GiveUp, YieldTick, FailBlock, FlushTimesOut, BackfillStep, BackfillStarts,
       DrainQueue, Crash, Environment, ChainGrows, LeaseAges
  <2>. QED
    BY <2>1
<1>9. CASE \E p \in Procs : InsertBlock(p) \/ InsertTransactions(p) \/ BackfillWrites(p)
  BY <1>2, <1>3, <1>4, <1>5, <1>9
<1>10. CASE \E m \in Heights : RetentionDeletes(m)
  <2>1. cutoff' = cutoff /\ \A n \in Heights : row[n] = "full" => n < cutoff' \/ row'[n] = "full"
    BY <1>7, <1>10
  <2>. QED
    BY <2>1, BoundAssumption
<1>. QED
  BY <1>1, <1>6, <1>8, <1>9, <1>10, Zenon

LEMMA PassedStays ==
  ASSUME TypeOK, TickInv, [Next]_vars, NEW n \in Heights, Passed(n)
  PROVE  Passed(n)'
<1>1. n \in Int
  BY DEF Heights
<1>. QED
  BY <1>1, FullStays DEF Passed

(* A process that a step does not concern.                                  *)
LEMMA TickKept ==
  ASSUME TypeOK, TickInv, NEW q \in Procs, cutoff \in Int, cutoff' \in Int, cutoff <= cutoff',
         tick'[q] = tick[q], backfill'[q] = backfill[q], filling'[q] = filling[q]
  PROVE  TickOK(q)'
<1>1. tick[q] \in Ticks
  BY Phases
<1>2. tick[q].verifyFrom \in Int
  BY <1>1 DEF Ticks
<1>. QED
  BY <1>2 DEF TickInv, TickOK, Window

(* One that moves on to another statement.                                  *)
LEMMA TickMoves ==
  ASSUME TypeOK, TickInv, NEW q \in Procs, NEW ph \in Active, cutoff' = cutoff,
         tick[q].phase \in Active, tick'[q] = [tick[q] EXCEPT !.phase = ph],
         backfill'[q] = backfill[q], filling'[q] = filling[q],
         ph \in MidBlock => tick[q].missing # {}
  PROVE  TickOK(q)'
<1>1. tick[q] \in Ticks
  BY Phases
<1>2. /\ tick'[q].phase = ph /\ tick'[q].gap = tick[q].gap /\ tick'[q].healFrom = tick[q].healFrom
      /\ tick'[q].windowEnd = tick[q].windowEnd /\ tick'[q].verifyFrom = tick[q].verifyFrom
      /\ tick'[q].missing = tick[q].missing
  BY <1>1 DEF Ticks
<1>. QED
  BY <1>2 DEF TickInv, TickOK, Window, Active, MidBlock

LEMMA TickStep == TypeOK /\ TickInv /\ [Next]_vars => TickInv'
<1>. SUFFICES ASSUME TypeOK, TickInv, [Next]_vars, NEW q \in Procs PROVE TickOK(q)'
  BY DEF TickInv
<1>0. cutoff \in Int /\ cutoff' \in Int /\ cutoff <= cutoff'
  BY FullStays
<1>k. ASSUME tick'[q] = tick[q], backfill'[q] = backfill[q], filling'[q] = filling[q]
      PROVE  TickOK(q)'
  BY <1>0, <1>k, TickKept
<1>t. TickOK(q) /\ tick[q] \in Ticks /\ tick \in [Procs -> Ticks]
      /\ backfill \in [Procs -> SUBSET Heights] /\ filling \in [Procs -> Heights \cup {0}]
  BY Phases DEF TickInv, TypeOK
<1>i. ASSUME tick'[q] = Off("idle"), backfill'[q] = backfill[q], filling'[q] = filling[q]
      PROVE  TickOK(q)'
  BY <1>i, <1>t DEF TickOK, Off, Active, MidBlock
<1>m. ASSUME NEW ph \in Active, cutoff' = cutoff, tick[q].phase \in Active,
             tick'[q] = [tick[q] EXCEPT !.phase = ph],
             backfill'[q] = backfill[q], filling'[q] = filling[q],
             ph \in MidBlock => tick[q].missing # {}
      PROVE  TickOK(q)'
  BY <1>m, TickMoves
<1>. USE DEF rowVars, retVars, gapVars, fillVars
<1>1. ASSUME NEW p \in Procs, Boot(p) PROVE TickOK(q)'
  <2>1. CASE q = p
    BY <1>1, <1>t, <2>1 DEF Boot, TickOK, Off, Active, MidBlock
  <2>2. CASE q # p
    BY <1>1, <1>t, <1>k, <2>2 DEF Boot
  <2>. QED
    BY <2>1, <2>2
<1>2. ASSUME NEW p \in Procs, ClaimGap(p) PROVE TickOK(q)'
  <2>. DEFINE g == Min(Candidates)
  <2>1. g \in Candidates
    <3>1. Candidates \subseteq Gaps /\ Gaps \subseteq Nat
      BY GapsAreNumbers, Zenon DEF Candidates
    <3>. QED
      BY <1>2, <3>1, Least DEF ClaimGap
  <2>2. g \in Gaps /\ GapEnd[g] >= floor
    BY <2>1 DEF Candidates, Eligible
  <2>3. tick' = [tick EXCEPT ![p] =
             [phase |-> "select", gap |-> g, healFrom |-> HealFrom(g),
              verifyFrom |-> VerifyFrom(g), missing |-> {}, windowEnd |-> WindowEnd(g)]]
    BY <1>2 DEF ClaimGap
  <2>. HIDE DEF g
  <2>4. /\ g <= HealFrom(g) /\ WindowEnd(g) <= GapEnd[g]
        /\ VerifyFrom(g) <= g \/ VerifyFrom(g) <= cutoff
    <3>1. floor <= cutoff /\ floor \in Int
      BY BoundAssumption DEF TypeOK
    <3>2. VerifyFrom(g) \in Int
      BY <2>2, Claimed
    <3>. QED
      BY <1>0, <2>2, <3>1, <3>2, Claimed
  <2>5. CASE q = p
    <3>1. /\ tick'[q].phase = "select" /\ tick'[q].gap = g /\ tick'[q].healFrom = HealFrom(g)
          /\ tick'[q].verifyFrom = VerifyFrom(g) /\ tick'[q].windowEnd = WindowEnd(g)
          /\ tick'[q].missing = {}
      BY <1>t, <2>3, <2>5
    <3>2. backfill'[q] = {} /\ filling'[q] = 0 /\ cutoff' = cutoff
      BY <1>2, <1>t, <2>5 DEF ClaimGap, TickOK
    <3>. QED
      BY <2>2, <2>4, <3>1, <3>2 DEF TickOK, Active, MidBlock
  <2>6. CASE q # p
    BY <1>2, <1>k, <1>t, <2>6, <2>3 DEF ClaimGap
  <2>. QED
    BY <2>5, <2>6
<1>3. ASSUME NEW p \in Procs, SelectMissing(p) PROVE TickOK(q)'
  <2>1. CASE q = p
    <3>1. /\ tick'[q].phase = "blocks" /\ tick'[q].gap = tick[q].gap
          /\ tick'[q].healFrom = tick[q].healFrom /\ tick'[q].windowEnd = tick[q].windowEnd
          /\ tick'[q].verifyFrom = tick[q].verifyFrom
          /\ tick'[q].missing = {n \in Window(q) : Absent(n) /\ n \notin Poison}
      BY <1>3, <1>t, <2>1 DEF SelectMissing, Ticks
    <3>2. cutoff' = cutoff /\ backfill'[q] = backfill[q] /\ filling'[q] = filling[q]
      BY <1>3 DEF SelectMissing
    <3>. QED
      BY <1>3, <1>t, <2>1, <3>1, <3>2 DEF SelectMissing, TickOK, Window, Active, MidBlock
  <2>2. CASE q # p
    BY <1>3, <1>t, <1>k, <2>2 DEF SelectMissing
  <2>. QED
    BY <2>1, <2>2
<1>4. ASSUME NEW p \in Procs, StartBlock(p) PROVE TickOK(q)'
  BY <1>4, <1>k, <1>m, <1>t DEF StartBlock, GoTo, Active, MidBlock
<1>5. ASSUME NEW p \in Procs, InsertBlock(p) PROVE TickOK(q)'
  BY <1>5, <1>k, <1>m, <1>t DEF InsertBlock, GoTo, TickOK, Active, MidBlock
<1>6. ASSUME NEW p \in Procs, InsertTransactions(p) PROVE TickOK(q)'
  BY <1>6, <1>k, <1>m, <1>t DEF InsertTransactions, GoTo, TickOK, Active, MidBlock
<1>7. ASSUME NEW p \in Procs, EnqueueTransfers(p) PROVE TickOK(q)'
  <2>1. CASE q = p
    <3>1. /\ tick'[q].phase = "blocks" /\ tick'[q].gap = tick[q].gap
          /\ tick'[q].healFrom = tick[q].healFrom /\ tick'[q].windowEnd = tick[q].windowEnd
          /\ tick'[q].verifyFrom = tick[q].verifyFrom
          /\ tick'[q].missing \subseteq tick[q].missing
      BY <1>7, <1>t, <2>1 DEF EnqueueTransfers, Ticks
    <3>2. cutoff' = cutoff /\ backfill'[q] = backfill[q] /\ filling'[q] = filling[q]
      BY <1>7 DEF EnqueueTransfers
    <3>. QED
      BY <1>7, <1>t, <2>1, <3>1, <3>2 DEF EnqueueTransfers, TickOK, Window, Active, MidBlock
  <2>2. CASE q # p
    BY <1>7, <1>t, <1>k, <2>2 DEF EnqueueTransfers
  <2>. QED
    BY <2>1, <2>2
<1>8. ASSUME NEW p \in Procs, FlushTransfers(p) PROVE TickOK(q)'
  BY <1>8, <1>k, <1>m, <1>t DEF FlushTransfers, GoTo, Active, MidBlock
<1>9. ASSUME NEW p \in Procs, VerifyWindow(p) PROVE TickOK(q)'
  BY <1>9, <1>k, <1>i, <1>m, <1>t DEF VerifyWindow, GoTo, EndTick, Active, MidBlock
<1>10. ASSUME NEW p \in Procs, AdvanceCursor(p) PROVE TickOK(q)'
  BY <1>10, <1>k, <1>i, <1>m, <1>t DEF AdvanceCursor, GoTo, EndTick, Active, MidBlock
<1>11. ASSUME NEW p \in Procs, EndTick(p), UNCHANGED fillVars PROVE TickOK(q)'
  BY <1>11, <1>k, <1>i, <1>t DEF EndTick
<1>12. ASSUME NEW p \in Procs,
              \/ StampHealed(p) \/ FenceRefuses(p) \/ YieldTick(p) \/ FailBlock(p)
              \/ FlushTimesOut(p)
       PROVE  TickOK(q)'
  BY <1>11, <1>12 DEF StampHealed, FenceRefuses, YieldTick, FailBlock, FlushTimesOut
<1>13. ASSUME NEW p \in Procs, BackfillStarts(p) PROVE TickOK(q)'
  <2>1. CASE q = p
    <3>1. backfill[p] \in SUBSET Nat /\ backfill[p] # {}
      BY <1>13 DEF BackfillStarts, TypeOK, Heights
    <3>2. filling'[p] \in backfill[p]
      BY <1>13, <1>t, <3>1, Least DEF BackfillStarts
    <3>. QED
      BY <1>13, <1>t, <2>1, <3>1, <3>2 DEF BackfillStarts, TickOK, Window
  <2>2. CASE q # p
    BY <1>13, <1>t, <1>k, <2>2 DEF BackfillStarts
  <2>. QED
    BY <2>1, <2>2
<1>14. ASSUME NEW p \in Procs, BackfillWrites(p) PROVE TickOK(q)'
  <2>1. CASE q = p
    <3>1. tick[p].phase \notin Active /\ tick[p].phase # "down"
      BY <1>14, <1>t, <2>1 DEF BackfillWrites, TickOK
    <3>2. filling'[p] = 0 /\ tick' = tick
      BY <1>14, <1>t DEF BackfillWrites
    <3>. QED
      BY <2>1, <3>1, <3>2 DEF TickOK, Active
  <2>2. CASE q # p
    BY <1>14, <1>t, <1>k, <2>2 DEF BackfillWrites
  <2>. QED
    BY <2>1, <2>2
<1>15. ASSUME NEW p \in Procs, DrainQueue(p) PROVE TickOK(q)'
  BY <1>15, <1>k DEF DrainQueue
<1>16. ASSUME NEW p \in Procs, Crash(p) PROVE TickOK(q)'
  <2>1. CASE q = p
    BY <1>16, <1>t, <2>1 DEF Crash, TickOK, Off, Active, MidBlock
  <2>2. CASE q # p
    BY <1>16, <1>t, <1>k, <2>2 DEF Crash
  <2>. QED
    BY <2>1, <2>2
<1>17. CASE Environment
  BY <1>17, <1>k DEF Environment, ChainGrows, RetentionRuns, RetentionDeletes, LeaseAges
<1>18. CASE UNCHANGED vars
  BY <1>18, <1>k DEF vars
<1>. QED
  BY <1>1, <1>2, <1>3, <1>4, <1>5, <1>6, <1>7, <1>8, <1>9, <1>10, <1>12, <1>13, <1>14, <1>15,
     <1>16, <1>17, <1>18 DEF Next, BlockStep, ConfirmStep, GiveUp, BackfillStep

(* Every variable has its type, whatever the generations do: in particular  *)
(* heal_cursor stays within the gap's heights and a tick's window within    *)
(* its gap (healNextGap, the columns of index_gaps).                        *)
THEOREM HealerTypes == Spec => []TypeOK
<1>1. TypeOK /\ TickInv /\ [Next]_vars => (TypeOK /\ TickInv)'
  BY TypeStep, TickStep
<1>2. Spec => [](TypeOK /\ TickInv)
  BY TypeInit, <1>1, PTL DEF Spec
<1>. QED
  BY <1>2, PTL

-----------------------------------------------------------------------------
(* What the rows of index_gaps say.                                         *)

RowInv == BehindInv /\ CursorVerified /\ HealedIsDense

LEMMA RowInit == Init => RowInv
<1>. SUFFICES ASSUME Init PROVE RowInv
  OBVIOUS
<1>1. BehindInv
  BY DEF Init, BehindInv, Off, Active, MidBlock
<1>2. CursorVerified
  <2>1. \A g \in Gaps : g \in Nat /\ g > 0
    BY GapAssumption DEF Heights
  <2>. QED
    BY <2>1 DEF Init, CursorVerified
<1>3. HealedIsDense
  BY DEF Init, HealedIsDense
<1>. QED
  BY <1>1, <1>2, <1>3 DEF RowInv

(* The heights a tick knows about.                                          *)
LEMMA TickHeights ==
  ASSUME TypeOK, TickInv, NEW p \in Procs, tick[p].phase \in Active
  PROVE  /\ tick[p].gap \in Gaps /\ tick[p].gap \in Heights /\ GapEnd[tick[p].gap] \in Heights
         /\ tick[p].healFrom \in Nat /\ tick[p].windowEnd \in Nat /\ tick[p].verifyFrom \in Nat
         /\ tick[p].gap .. tick[p].healFrom - 1 \subseteq Heights
         /\ Window(p) \subseteq Heights
         /\ Window(p) \subseteq tick[p].gap .. GapEnd[tick[p].gap]
<1>1. /\ tick[p].gap \in Gaps /\ tick[p].gap <= tick[p].healFrom
      /\ tick[p].windowEnd <= GapEnd[tick[p].gap]
  BY DEF TickInv, TickOK
<1>2. tick[p].gap \in Heights /\ GapEnd[tick[p].gap] \in Heights
  BY <1>1, GapAssumption, GapsAreNumbers
<1>3. tick[p] \in Ticks
  BY Phases
<1>4. tick[p].healFrom \in 0 .. MaxHeight + 1 /\ tick[p].windowEnd \in 0 .. MaxHeight
      /\ tick[p].verifyFrom \in 0 .. MaxHeight
  BY <1>3 DEF Ticks
<1>. QED
  BY <1>1, <1>2, <1>4, HeightAssumption, BoundAssumption DEF Heights, Window

(* What is behind a tick's window, and in a window it verified.             *)
Behind(q) ==
  /\ tick[q].phase \in Active =>
       \A n \in tick[q].gap .. tick[q].healFrom - 1 : Passed(n)
  /\ tick[q].phase = "cursor" => \A n \in Window(q) : Passed(n)

LEMMA BehindStep ==
  ASSUME TypeOK, TickInv, RowInv, [Next]_vars
  PROVE  BehindInv'
<1>. SUFFICES ASSUME NEW q \in Procs PROVE Behind(q)'
  BY DEF BehindInv, Behind
<1>t. Behind(q) /\ tick[q] \in Ticks /\ tick \in [Procs -> Ticks]
  BY Phases DEF RowInv, BehindInv, Behind, TypeOK
<1>k. ASSUME tick'[q].phase \in Active => tick[q].phase \in Active,
             tick'[q].phase = "cursor" => tick[q].phase = "cursor",
             tick'[q].phase \in Active =>
               /\ tick'[q].gap = tick[q].gap /\ tick'[q].healFrom = tick[q].healFrom
               /\ tick'[q].windowEnd = tick[q].windowEnd
      PROVE  Behind(q)'
  <2>1. CASE tick'[q].phase \notin Active
    BY <2>1 DEF Behind, Active
  <2>2. CASE tick'[q].phase \in Active
    <3>1. /\ tick[q].gap .. tick[q].healFrom - 1 \subseteq Heights
          /\ Window(q) \subseteq Heights
      BY <1>k, <2>2, TickHeights
    <3>2. \A n \in tick[q].gap .. tick[q].healFrom - 1 : Passed(n)'
      BY <1>k, <1>t, <2>2, <3>1, PassedStays DEF Behind
    <3>3. tick'[q].phase = "cursor" => \A n \in Window(q) : Passed(n)'
      BY <1>k, <1>t, <2>2, <3>1, PassedStays DEF Behind
    <3>. QED
      BY <1>k, <2>2, <3>2, <3>3 DEF Behind, Window
  <2>. QED
    BY <2>1, <2>2
<1>s. ASSUME tick'[q] = tick[q] PROVE Behind(q)'
  BY <1>k, <1>s
<1>i. ASSUME tick'[q] = Off("idle") \/ tick'[q] = Off("down") PROVE Behind(q)'
  BY <1>i DEF Behind, Off, Active, MidBlock
<1>m. ASSUME NEW ph \in Active, ph # "cursor", tick[q].phase \in Active,
             tick'[q] = [tick[q] EXCEPT !.phase = ph]
      PROVE  Behind(q)'
  <2>1. /\ tick'[q].phase = ph /\ tick'[q].gap = tick[q].gap
        /\ tick'[q].healFrom = tick[q].healFrom /\ tick'[q].windowEnd = tick[q].windowEnd
    BY <1>m, <1>t DEF Ticks
  <2>. QED
    BY <1>k, <1>m, <2>1
<1>. USE DEF rowVars, retVars, gapVars, fillVars
<1>1. ASSUME NEW p \in Procs, Boot(p) PROVE Behind(q)'
  BY <1>1, <1>i, <1>s, <1>t DEF Boot
<1>2. ASSUME NEW p \in Procs, ClaimGap(p) PROVE Behind(q)'
  <2>. DEFINE g == Min(Candidates)
  <2>1. g \in Candidates
    <3>1. Candidates \subseteq Gaps /\ Gaps \subseteq Nat
      BY GapsAreNumbers, Zenon DEF Candidates
    <3>. QED
      BY <1>2, <3>1, Least DEF ClaimGap
  <2>2. g \in Gaps /\ GapEnd[g] >= floor
    BY <2>1 DEF Candidates, Eligible
  <2>3. tick' = [tick EXCEPT ![p] =
             [phase |-> "select", gap |-> g, healFrom |-> HealFrom(g),
              verifyFrom |-> VerifyFrom(g), missing |-> {}, windowEnd |-> WindowEnd(g)]]
    BY <1>2 DEF ClaimGap
  <2>. HIDE DEF g
  <2>4. CASE q = p
    <3>1. /\ tick'[q].phase = "select" /\ tick'[q].gap = g /\ tick'[q].healFrom = HealFrom(g)
      BY <1>t, <2>3, <2>4
    <3>2. \A n \in g .. HealFrom(g) - 1 : n < floor \/ n <= heal_cursor[g]
      BY <2>2, Claimed
    <3>3. floor <= cutoff /\ floor \in Int /\ cutoff \in Int /\ heal_cursor[g] \in Int /\ g \in Int
      BY <2>2, BoundAssumption, GapsAreNumbers DEF TypeOK
    <3>4. \A n \in g .. HealFrom(g) - 1 : Passed(n)
      <4>1. \A n \in g .. heal_cursor[g] : Passed(n)
        BY <2>2 DEF RowInv, CursorVerified, Passed
      <4>. QED
        BY <3>2, <3>3, <4>1 DEF Passed
    <3>5. row' = row /\ cutoff' = cutoff
      BY <1>2 DEF ClaimGap
    <3>. QED
      BY <3>1, <3>4, <3>5 DEF Behind, Passed
  <2>5. CASE q # p
    BY <1>s, <1>t, <2>3, <2>5
  <2>. QED
    BY <2>4, <2>5
<1>3. ASSUME NEW p \in Procs, SelectMissing(p) PROVE Behind(q)'
  <2>1. CASE q = p
    <3>1. /\ tick'[q].phase = "blocks" /\ tick'[q].gap = tick[q].gap
          /\ tick'[q].healFrom = tick[q].healFrom /\ tick'[q].windowEnd = tick[q].windowEnd
          /\ tick[q].phase \in Active
      BY <1>3, <1>t, <2>1 DEF SelectMissing, Ticks, Active
    <3>. QED
      BY <1>k, <3>1
  <2>2. CASE q # p
    BY <1>3, <1>s, <1>t, <2>2 DEF SelectMissing
  <2>. QED
    BY <2>1, <2>2
<1>4. ASSUME NEW p \in Procs, StartBlock(p) PROVE Behind(q)'
  BY <1>4, <1>s, <1>m, <1>t DEF StartBlock, GoTo, Active, MidBlock
<1>5. ASSUME NEW p \in Procs, InsertBlock(p) PROVE Behind(q)'
  BY <1>5, <1>s, <1>m, <1>t DEF InsertBlock, GoTo, Active, MidBlock
<1>6. ASSUME NEW p \in Procs, InsertTransactions(p) PROVE Behind(q)'
  BY <1>6, <1>s, <1>m, <1>t DEF InsertTransactions, GoTo, Active, MidBlock
<1>7. ASSUME NEW p \in Procs, EnqueueTransfers(p) PROVE Behind(q)'
  <2>1. CASE q = p
    <3>1. /\ tick'[q].phase = "blocks" /\ tick'[q].gap = tick[q].gap
          /\ tick'[q].healFrom = tick[q].healFrom /\ tick'[q].windowEnd = tick[q].windowEnd
          /\ tick[q].phase \in Active
      BY <1>7, <1>t, <2>1 DEF EnqueueTransfers, Ticks, Active, MidBlock
    <3>. QED
      BY <1>k, <3>1
  <2>2. CASE q # p
    BY <1>7, <1>s, <1>t, <2>2 DEF EnqueueTransfers
  <2>. QED
    BY <2>1, <2>2
<1>8. ASSUME NEW p \in Procs, FlushTransfers(p) PROVE Behind(q)'
  BY <1>8, <1>s, <1>m, <1>t DEF FlushTransfers, GoTo, Active, MidBlock
<1>9. ASSUME NEW p \in Procs, VerifyWindow(p) PROVE Behind(q)'
  <2>1. CASE q = p /\ GoTo(p, "cursor")
    <3>1. \A n \in Window(q) : Complete(n)
      BY <1>9, <1>t, <2>1 DEF VerifyWindow, GoTo, EndTick, Off, Ticks
    <3>2. \A n \in Window(q) : Passed(n)
      BY <3>1 DEF Complete, Passed
    <3>3. /\ tick'[q].phase = "cursor" /\ tick'[q].gap = tick[q].gap
          /\ tick'[q].healFrom = tick[q].healFrom /\ tick'[q].windowEnd = tick[q].windowEnd
          /\ tick[q].phase \in Active
      BY <1>9, <1>t, <2>1 DEF VerifyWindow, GoTo, Ticks, Active
    <3>4. row' = row /\ cutoff' = cutoff
      BY <1>9 DEF VerifyWindow
    <3>. QED
      BY <1>t, <3>2, <3>3, <3>4 DEF Behind, Passed, Window
  <2>2. CASE q = p /\ EndTick(p)
    BY <1>i, <1>t, <2>2 DEF EndTick
  <2>3. CASE q # p
    BY <1>9, <1>s, <1>t, <2>3 DEF VerifyWindow, GoTo, EndTick
  <2>. QED
    BY <1>9, <2>1, <2>2, <2>3 DEF VerifyWindow
<1>10. ASSUME NEW p \in Procs, AdvanceCursor(p) PROVE Behind(q)'
  BY <1>10, <1>s, <1>i, <1>m, <1>t DEF AdvanceCursor, GoTo, EndTick, Active, MidBlock
<1>11. ASSUME NEW p \in Procs, EndTick(p) PROVE Behind(q)'
  BY <1>11, <1>s, <1>i, <1>t DEF EndTick
<1>12. ASSUME NEW p \in Procs,
              \/ StampHealed(p) \/ FenceRefuses(p) \/ YieldTick(p) \/ FailBlock(p)
              \/ FlushTimesOut(p)
       PROVE  Behind(q)'
  BY <1>11, <1>12 DEF StampHealed, FenceRefuses, YieldTick, FailBlock, FlushTimesOut
<1>13. ASSUME NEW p \in Procs, Crash(p) PROVE Behind(q)'
  BY <1>13, <1>s, <1>i, <1>t DEF Crash
<1>14. CASE tick' = tick
  BY <1>14, <1>s
<1>. QED
  BY <1>1, <1>2, <1>3, <1>4, <1>5, <1>6, <1>7, <1>8, <1>9, <1>10, <1>12, <1>13, <1>14
     DEF Next, BlockStep, ConfirmStep, GiveUp, BackfillStep, BackfillStarts, BackfillWrites,
     DrainQueue, Environment, ChainGrows, RetentionRuns, RetentionDeletes, LeaseAges, vars

(* Where a step leaves the cursor, everything is passed.                    *)
LEMMA CursorPasses ==
  ASSUME TypeOK, TickInv, RowInv, [Next]_vars, NEW g \in Gaps, NEW n \in g .. heal_cursor'[g]
  PROVE  n \in Heights /\ Passed(n)
<1>1. /\ g \in Heights /\ heal_cursor[g] \in 0 .. MaxHeight /\ heal_cursor'[g] \in 0 .. MaxHeight
  BY GapAssumption, TypeStep DEF TypeOK
<1>2. n \in Heights
  BY <1>1, HeightAssumption, BoundAssumption DEF Heights
<1>4. CASE n <= heal_cursor[g]
  <2>1. n \in g .. heal_cursor[g]
    BY <1>1, <1>4 DEF Heights
  <2>. QED
    BY <1>2, <2>1 DEF RowInv, CursorVerified, Passed
<1>5. CASE ~ (n <= heal_cursor[g])
  <2>1. heal_cursor' # heal_cursor
    BY <1>1, <1>5 DEF Heights
  <2>2. PICK p \in Procs : AdvanceCursor(p)
    BY <2>1 DEF Next, vars, rowVars, gapVars, Boot, ClaimGap, SelectMissing, BlockStep,
       StartBlock, InsertBlock, InsertTransactions, EnqueueTransfers, ConfirmStep,
       FlushTransfers, VerifyWindow, StampHealed, FenceRefuses, GiveUp, YieldTick, FailBlock,
       FlushTimesOut, BackfillStep, BackfillStarts, BackfillWrites, DrainQueue, Crash,
       Environment, ChainGrows, RetentionRuns, RetentionDeletes, LeaseAges
  <2>3. /\ tick[p].phase = "cursor" /\ tick[p].phase \in Active
        /\ heal_cursor' = [heal_cursor EXCEPT ![tick[p].gap]
                             = Max({heal_cursor[tick[p].gap], tick[p].windowEnd})]
    BY <2>2 DEF AdvanceCursor, Active, TypeOK
  <2>4. tick[p].gap = g
    BY <1>1, <1>5, <2>3 DEF TypeOK, Heights
  <2>5. heal_cursor'[g] = Max({heal_cursor[g], tick[p].windowEnd})
    BY <2>3, <2>4 DEF TypeOK
  <2>6. tick[p].healFrom \in Nat /\ tick[p].windowEnd \in Nat
    BY <2>3, TickHeights
  <2>7. n <= tick[p].windowEnd
    BY <1>1, <1>5, <2>5, <2>6, GreatestOfTwo DEF Heights
  <2>8. CASE n < tick[p].healFrom
    <3>1. n \in tick[p].gap .. tick[p].healFrom - 1
      BY <1>1, <2>4, <2>6, <2>8 DEF Heights
    <3>. QED
      BY <1>2, <2>3, <3>1 DEF RowInv, BehindInv
  <2>9. CASE n >= tick[p].healFrom
    <3>1. n \in Window(p)
      BY <1>1, <2>6, <2>7, <2>9 DEF Heights, Window
    <3>. QED
      BY <1>2, <2>3, <3>1 DEF RowInv, BehindInv
  <2>. QED
    BY <1>2, <2>6, <2>8, <2>9 DEF Heights
<1>. QED
  BY <1>2, <1>4, <1>5

LEMMA CursorStep ==
  ASSUME TypeOK, TickInv, RowInv, [Next]_vars
  PROVE  CursorVerified'
<1>1. ASSUME NEW g \in Gaps, NEW n \in g .. heal_cursor'[g] PROVE Passed(n)'
  BY CursorPasses, PassedStays
<1>. QED
  BY <1>1 DEF CursorVerified, Passed

LEMMA DenseStep ==
  ASSUME TypeOK, TickInv, RowInv, [Next]_vars
  PROVE  HealedIsDense'
<1>. SUFFICES ASSUME NEW g \in healed_at', NEW n \in Retained(g)' PROVE row'[n] = "full"
  BY DEF HealedIsDense
<1>0. cutoff \in Int /\ cutoff' \in Int /\ cutoff <= cutoff'
  BY FullStays
<1>1. g \in Gaps /\ g \in Heights /\ GapEnd[g] \in Heights
  BY TypeStep, GapAssumption, GapsAreNumbers DEF TypeOK
<1>2. n \in Heights /\ g <= n /\ cutoff' <= n /\ cutoff <= n /\ n <= GapEnd[g]
  <2>1. Max({g, cutoff'}) = IF g <= cutoff' THEN cutoff' ELSE g
    BY <1>0, <1>1, GreatestOfTwo DEF Heights
  <2>. QED
    BY <1>0, <1>1, <2>1, HeightAssumption, BoundAssumption DEF Retained, Heights
<1>3. SUFFICES row[n] = "full"
  BY <1>0, <1>2, FullStays DEF Heights
<1>4. CASE g \in healed_at
  <2>1. Max({g, cutoff}) = IF g <= cutoff THEN cutoff ELSE g
    BY <1>0, <1>1, GreatestOfTwo DEF Heights
  <2>2. n \in Retained(g)
    BY <1>0, <1>1, <1>2, <2>1 DEF Retained, Heights
  <2>. QED
    BY <1>4, <2>2 DEF RowInv, HealedIsDense
<1>5. CASE g \notin healed_at
  <2>1. PICK p \in Procs : StampHealed(p)
    BY <1>5 DEF Next, vars, rowVars, gapVars, Boot, ClaimGap, SelectMissing, BlockStep,
       StartBlock, InsertBlock, InsertTransactions, EnqueueTransfers, ConfirmStep,
       FlushTransfers, VerifyWindow, AdvanceCursor, FenceRefuses, GiveUp, YieldTick, FailBlock,
       FlushTimesOut, BackfillStep, BackfillStarts, BackfillWrites, DrainQueue, Crash,
       Environment, ChainGrows, RetentionRuns, RetentionDeletes, LeaseAges
  <2>2. tick[p].phase \in Active /\ tick[p].gap = g /\ Dense(p)
    BY <1>5, <2>1 DEF StampHealed, Active
  <2>3. tick[p].verifyFrom <= g \/ tick[p].verifyFrom <= cutoff
    BY <2>2 DEF TickInv, TickOK
  <2>4. tick[p].verifyFrom \in Nat
    BY <2>2, TickHeights
  <2>5. n \in tick[p].verifyFrom .. GapEnd[g]
    BY <1>0, <1>1, <1>2, <2>3, <2>4 DEF Heights
  <2>. QED
    BY <2>2, <2>5 DEF Dense
<1>. QED
  BY <1>4, <1>5

LEMMA RowsHold == Spec => [](TypeOK /\ TickInv /\ RowInv)
<1>1. Init => TypeOK /\ TickInv /\ RowInv
  BY TypeInit, RowInit
<1>2. TypeOK /\ TickInv /\ RowInv /\ [Next]_vars => (TypeOK /\ TickInv /\ RowInv)'
  BY TypeStep, TickStep, BehindStep, CursorStep, DenseStep DEF RowInv
<1>. QED
  BY <1>1, <1>2, PTL DEF Spec

(* What a row of index_gaps says is so: heal_cursor only passes heights     *)
(* that are complete, quarantined or below retention's cutoff, and a range  *)
(* with healed_at set is dense above it (healNextGap), whatever the other   *)
(* generation, retention, crashes and lapsing leases do.                    *)
THEOREM GapRowsHold == Spec => []GapRowsTrue
<1>1. TypeOK /\ TickInv /\ RowInv => GapRowsTrue
  BY DEF RowInv, GapRowsTrue
<1>. QED
  BY <1>1, RowsHold, PTL

-----------------------------------------------------------------------------
(* What the cursor claims about transfers.                                  *)

LEMMA MemoryInit == Init => Accounted /\ DrainedInv
  BY DEF Init, Accounted, DrainedInv, Off

LEMMA MemoryKept ==
  ASSUME NEW q \in Procs, queue[q] \subseteq queue'[q],
         tick[q].phase = "enqueue" => tick'[q] = tick[q]
  PROVE  InMemory(q) \subseteq InMemory(q)'
  BY DEF InMemory, At

LEMMA AccountedStep ==
  ASSUME TypeOK, TickInv, Accounted, [Next]_vars
  PROVE  Accounted'
<1>. DEFINE Safe(n) == n \in landed \cup lost \/ \E q \in Procs : n \in InMemory(q)
<1>1. SUFFICES ASSUME NEW n \in Heights, row'[n] = "full" PROVE Safe(n)'
  BY DEF Accounted
<1>t. /\ tick \in [Procs -> Ticks] /\ queue \in [Procs -> SUBSET Heights]
      /\ row \in [Heights -> {"absent", "bare", "full"}]
  BY DEF TypeOK
<1>2. row[n] = "full" => Safe(n)
  BY DEF Accounted
<1>k. ASSUME landed \subseteq landed', lost \subseteq lost', row[n] = "full",
             \A q \in Procs : InMemory(q) \subseteq InMemory(q)' \cup landed' \cup lost'
      PROVE  Safe(n)'
  BY <1>2, <1>k
<1>s. ASSUME landed \subseteq landed', lost \subseteq lost', row[n] = "full",
             \A q \in Procs : /\ queue[q] \subseteq queue'[q]
                              /\ tick[q].phase = "enqueue" => tick'[q] = tick[q]
      PROVE  Safe(n)'
  BY <1>k, <1>s, MemoryKept
<1>. USE DEF rowVars, retVars, gapVars, fillVars
<1>3. ASSUME NEW p \in Procs, InsertTransactions(p) PROVE Safe(n)'
  <2>1. CASE n = At(p)
    <3>1. tick'[p].phase = "enqueue" /\ tick'[p].missing = tick[p].missing
      BY <1>3, <1>t DEF InsertTransactions, GoTo, Ticks
    <3>2. n \in InMemory(p)'
      BY <2>1, <3>1 DEF InMemory, At
    <3>. QED
      BY <3>2
  <2>2. CASE n # At(p)
    <3>1. row[n] = "full"
      BY <1>1, <1>3, <1>t, <2>2 DEF InsertTransactions
    <3>. QED
      BY <1>3, <1>s, <1>t, <3>1 DEF InsertTransactions, GoTo
  <2>. QED
    BY <2>1, <2>2
<1>4. ASSUME NEW p \in Procs, BackfillWrites(p) PROVE Safe(n)'
  <2>1. CASE n = filling[p]
    BY <1>4, <1>t, <2>1 DEF BackfillWrites, InMemory
  <2>2. CASE n # filling[p]
    <3>1. row[n] = "full"
      BY <1>1, <1>4, <1>t, <2>2 DEF BackfillWrites
    <3>. QED
      BY <1>4, <1>s, <1>t, <3>1 DEF BackfillWrites
  <2>. QED
    BY <2>1, <2>2
<1>5. ASSUME NEW p \in Procs, InsertBlock(p) PROVE Safe(n)'
  <2>1. row[n] = "full"
    BY <1>1, <1>5, <1>t DEF InsertBlock
  <2>. QED
    BY <1>5, <1>s, <1>t, <2>1 DEF InsertBlock, GoTo
<1>6. ASSUME NEW m \in Heights, RetentionDeletes(m) PROVE Safe(n)'
  <2>1. row[n] = "full"
    BY <1>1, <1>6, <1>t DEF RetentionDeletes
  <2>. QED
    BY <1>6, <1>s, <1>t, <2>1 DEF RetentionDeletes
<1>7. ASSUME NEW p \in Procs, EnqueueTransfers(p) PROVE Safe(n)'
  <2>1. row[n] = "full"
    BY <1>1, <1>7 DEF EnqueueTransfers
  <2>2. InMemory(p) \subseteq queue'[p]
    BY <1>7, <1>t DEF EnqueueTransfers, InMemory
  <2>3. ASSUME NEW q \in Procs PROVE InMemory(q) \subseteq InMemory(q)'
    <3>1. CASE q = p
      BY <2>2, <3>1 DEF InMemory
    <3>2. CASE q # p
      BY <1>7, <1>t, <3>2, MemoryKept DEF EnqueueTransfers
    <3>. QED
      BY <3>1, <3>2
  <2>. QED
    BY <1>7, <1>k, <2>1, <2>3 DEF EnqueueTransfers
<1>8. ASSUME NEW p \in Procs, FailBlock(p) PROVE Safe(n)'
  <2>1. row[n] = "full"
    BY <1>1, <1>8 DEF FailBlock
  <2>2. InMemory(p) \subseteq queue'[p] \cup lost' /\ lost \subseteq lost'
    BY <1>8, <1>t DEF FailBlock, InMemory
  <2>3. ASSUME NEW q \in Procs PROVE InMemory(q) \subseteq InMemory(q)' \cup lost'
    <3>1. CASE q = p
      BY <2>2, <3>1 DEF InMemory
    <3>2. CASE q # p
      BY <1>8, <1>t, <3>2, MemoryKept DEF FailBlock, EndTick
    <3>. QED
      BY <3>1, <3>2
  <2>. QED
    BY <1>8, <1>k, <2>1, <2>2, <2>3 DEF FailBlock
<1>9. ASSUME NEW p \in Procs, DrainQueue(p) PROVE Safe(n)'
  <2>1. row[n] = "full"
    BY <1>1, <1>9 DEF DrainQueue
  <2>2. InMemory(p) \subseteq InMemory(p)' \cup landed'
    BY <1>9, <1>t DEF DrainQueue, InMemory, At
  <2>3. ASSUME NEW q \in Procs PROVE InMemory(q) \subseteq InMemory(q)' \cup landed'
    <3>1. CASE q = p
      BY <2>2, <3>1
    <3>2. CASE q # p
      BY <1>9, <1>t, <3>2, MemoryKept DEF DrainQueue
    <3>. QED
      BY <3>1, <3>2
  <2>. QED
    BY <1>9, <1>k, <2>1, <2>3 DEF DrainQueue
<1>10. ASSUME NEW p \in Procs, Crash(p) PROVE Safe(n)'
  <2>1. row[n] = "full"
    BY <1>1, <1>10 DEF Crash
  <2>2. InMemory(p) \subseteq lost' /\ lost \subseteq lost'
    BY <1>10 DEF Crash, InMemory
  <2>3. ASSUME NEW q \in Procs PROVE InMemory(q) \subseteq InMemory(q)' \cup lost'
    <3>1. CASE q = p
      BY <2>2, <3>1
    <3>2. CASE q # p
      BY <1>10, <1>t, <3>2, MemoryKept DEF Crash
    <3>. QED
      BY <3>1, <3>2
  <2>. QED
    BY <1>10, <1>k, <2>1, <2>2, <2>3 DEF Crash
<1>11. ASSUME NEW p \in Procs,
              \/ Boot(p) \/ ClaimGap(p) \/ SelectMissing(p) \/ StartBlock(p) \/ FlushTransfers(p)
              \/ VerifyWindow(p) \/ AdvanceCursor(p) \/ StampHealed(p) \/ FenceRefuses(p)
              \/ YieldTick(p) \/ FlushTimesOut(p)
       PROVE  Safe(n)'
  <2>1. /\ row' = row /\ landed' = landed /\ lost' = lost /\ queue' = queue
        /\ tick[p].phase # "enqueue"
    BY <1>11 DEF Boot, ClaimGap, SelectMissing, StartBlock, FlushTransfers, VerifyWindow,
       AdvanceCursor, StampHealed, FenceRefuses, YieldTick, FlushTimesOut
  <2>2. \A q \in Procs : q # p => tick'[q] = tick[q]
    BY <1>11, <1>t DEF Boot, ClaimGap, SelectMissing, StartBlock, FlushTransfers, VerifyWindow,
       AdvanceCursor, StampHealed, FenceRefuses, YieldTick, FlushTimesOut, GoTo, EndTick
  <2>. QED
    BY <1>1, <1>s, <2>1, <2>2
<1>12. CASE /\ row' = row /\ landed' = landed /\ lost' = lost /\ queue' = queue /\ tick' = tick
  BY <1>1, <1>12, <1>s
<1>. QED
  BY <1>3, <1>4, <1>5, <1>6, <1>7, <1>8, <1>9, <1>10, <1>11, <1>12
     DEF Next, BlockStep, ConfirmStep, GiveUp, BackfillStep, BackfillStarts, Environment,
     ChainGrows, RetentionRuns, LeaseAges, vars

LEMMA DrainedStep ==
  ASSUME TypeOK, TickInv, DrainedInv, [Next]_vars
  PROVE  DrainedInv'
<1>. SUFFICES ASSUME NEW q \in Procs, tick'[q].phase \in {"verify", "cursor"}
              PROVE  queue'[q] = {}
  BY DEF DrainedInv
<1>t. tick \in [Procs -> Ticks] /\ queue \in [Procs -> SUBSET Heights]
  BY DEF TypeOK
<1>1. \/ tick[q].phase \in {"verify", "cursor"}
      \/ tick[q].phase = "blocks" /\ queue[q] = {} /\ queue' = queue
  <2>1. ASSUME NEW p \in Procs,
               Boot(p) \/ ClaimGap(p) \/ SelectMissing(p) \/ EnqueueTransfers(p)
        PROVE  tick[q].phase \in {"verify", "cursor"}
    <3>1. CASE Boot(p) \/ ClaimGap(p)
      BY <1>t, <3>1 DEF Boot, ClaimGap, Off
    <3>2. CASE SelectMissing(p)
      BY <1>t, <3>2 DEF SelectMissing, Ticks
    <3>3. CASE EnqueueTransfers(p)
      BY <1>t, <3>3 DEF EnqueueTransfers, Ticks
    <3>. QED
      BY <2>1, <3>1, <3>2, <3>3
  <2>2. ASSUME NEW p \in Procs, StartBlock(p) \/ InsertBlock(p) \/ InsertTransactions(p)
        PROVE  tick[q].phase \in {"verify", "cursor"}
    <3>1. PICK ph \in MidBlock : GoTo(p, ph)
      BY <2>2 DEF StartBlock, InsertBlock, InsertTransactions, MidBlock
    <3>2. q # p
      BY <1>t, <3>1 DEF GoTo, Ticks, MidBlock
    <3>. QED
      BY <1>t, <3>1, <3>2 DEF GoTo
  <2>3. ASSUME NEW p \in Procs, FlushTransfers(p)
        PROVE  \/ tick[q].phase \in {"verify", "cursor"}
               \/ tick[q].phase = "blocks" /\ queue[q] = {} /\ queue' = queue
    BY <1>t, <2>3 DEF FlushTransfers, Flushed, GoTo, Ticks
  <2>4. ASSUME NEW p \in Procs, VerifyWindow(p) \/ AdvanceCursor(p)
        PROVE  tick[q].phase \in {"verify", "cursor"}
    BY <1>t, <2>4 DEF VerifyWindow, AdvanceCursor, GoTo, EndTick, Off, Ticks
  <2>5. ASSUME NEW p \in Procs, EndTick(p) \/ Crash(p)
        PROVE  tick[q].phase \in {"verify", "cursor"}
    BY <1>t, <2>5 DEF EndTick, Crash, Off
  <2>6. CASE tick' = tick
    BY <2>6
  <2>. QED
    BY <2>1, <2>2, <2>3, <2>4, <2>5, <2>6
       DEF Next, BlockStep, ConfirmStep, GiveUp, BackfillStep, BackfillStarts, BackfillWrites,
       StampHealed, FenceRefuses, YieldTick, FailBlock, FlushTimesOut, DrainQueue, Environment,
       ChainGrows, RetentionRuns, RetentionDeletes, LeaseAges, vars
<1>2. CASE tick[q].phase \in {"verify", "cursor"}
  <2>1. queue[q] = {} /\ filling[q] = 0 /\ tick[q].phase \in Active /\ tick[q].phase # "enqueue"
    BY <1>2 DEF DrainedInv, TickInv, TickOK, Active
  <2>2. ASSUME NEW p \in Procs, BackfillWrites(p) \/ EnqueueTransfers(p) PROVE queue'[q] = {}
    BY <1>t, <2>1, <2>2 DEF BackfillWrites, EnqueueTransfers
  <2>3. ASSUME NEW p \in Procs, DrainQueue(p) \/ Crash(p) PROVE queue'[q] = {}
    BY <1>t, <2>1, <2>3 DEF DrainQueue, Crash
  <2>4. CASE queue' = queue
    BY <2>1, <2>4
  <2>. QED
    BY <2>2, <2>3, <2>4
       DEF Next, vars, Boot, ClaimGap, SelectMissing, BlockStep, StartBlock, InsertBlock,
       InsertTransactions, ConfirmStep, FlushTransfers, VerifyWindow, AdvanceCursor, StampHealed,
       FenceRefuses, GiveUp, YieldTick, FailBlock, FlushTimesOut, BackfillStep, BackfillStarts,
       Environment, ChainGrows, RetentionRuns, RetentionDeletes, LeaseAges
<1>. QED
  BY <1>1, <1>2

LEMMA CursorStepDrained ==
  ASSUME TypeOK, TickInv, RowInv, Accounted, DrainedInv, [Next]_vars,
         NEW g \in Gaps, heal_cursor'[g] # heal_cursor[g], NEW n \in g .. heal_cursor'[g]
  PROVE  \/ n < cutoff
         \/ n \in Poison \cup landed \cup lost
         \/ \E q \in Procs \ {lease[g].owner} : n \in InMemory(q)
<1>1. PICK p \in Procs : AdvanceCursor(p)
  BY DEF Next, vars, rowVars, gapVars, Boot, ClaimGap, SelectMissing, BlockStep,
     StartBlock, InsertBlock, InsertTransactions, EnqueueTransfers, ConfirmStep,
     FlushTransfers, VerifyWindow, StampHealed, FenceRefuses, GiveUp, YieldTick, FailBlock,
     FlushTimesOut, BackfillStep, BackfillStarts, BackfillWrites, DrainQueue, Crash,
     Environment, ChainGrows, RetentionRuns, RetentionDeletes, LeaseAges
<1>2. tick[p].phase = "cursor" /\ tick[p].gap = g
  BY <1>1 DEF AdvanceCursor, TypeOK
<1>3. lease[g].owner = p
  BY <1>1, <1>2 DEF AdvanceCursor, Holds
<1>4. InMemory(p) = {}
  BY <1>2 DEF DrainedInv, InMemory
<1>5. n \in Heights /\ Passed(n)
  BY CursorPasses
<1>. QED
  BY <1>3, <1>4, <1>5 DEF Passed, Accounted

(* heal_cursor never moves over a height whose transfers its own process    *)
(* still has in memory: the flush before the verification sees to it        *)
(* (flushTransferWriter in healNextGap), and nothing else of the process    *)
(* enqueues meanwhile.                                                      *)
THEOREM CursorWaitsForTransfers == Spec => DrainedBeforeCursor
<1>. DEFINE Inv == TypeOK /\ TickInv /\ RowInv /\ Accounted /\ DrainedInv
<1>1. Init => Inv
  BY TypeInit, RowInit, MemoryInit
<1>2. Inv /\ [Next]_vars => Inv'
  BY TypeStep, TickStep, BehindStep, CursorStep, DenseStep, AccountedStep, DrainedStep
     DEF RowInv
<1>3. Inv /\ [Next]_vars =>
        [\A g \in Gaps : heal_cursor'[g] # heal_cursor[g] =>
           \A n \in g .. heal_cursor'[g] :
             \/ n < cutoff
             \/ n \in Poison \cup landed \cup lost
             \/ \E q \in Procs \ {lease[g].owner} : n \in InMemory(q)]_vars
  BY CursorStepDrained
<1>. QED
  BY <1>1, <1>2, <1>3, PTL DEF Spec, DrainedBeforeCursor

-----------------------------------------------------------------------------
(* One healer at a height.                                                  *)

(* Writing and deleting make no height absent that is retained.             *)
LEMMA AbsentBefore ==
  ASSUME TypeOK, TickInv, [Next]_vars, NEW n \in Heights, Absent(n)', n >= cutoff'
  PROVE  Absent(n) /\ n >= cutoff
<1>0. cutoff \in Int /\ cutoff' \in Int /\ cutoff <= cutoff' /\ n \in Int
  BY FullStays DEF Heights
<1>t. row \in [Heights -> {"absent", "bare", "full"}]
  BY DEF TypeOK
<1>. USE DEF rowVars, retVars, gapVars, fillVars, Absent
<1>1. ASSUME NEW p \in Procs, InsertBlock(p) PROVE row[n] = "absent"
  BY <1>t, <1>1 DEF InsertBlock
<1>2. ASSUME NEW p \in Procs, InsertTransactions(p) PROVE row[n] = "absent"
  BY <1>t, <1>2 DEF InsertTransactions
<1>3. ASSUME NEW p \in Procs, BackfillWrites(p) PROVE row[n] = "absent"
  BY <1>t, <1>3 DEF BackfillWrites
<1>4. ASSUME NEW m \in Heights, RetentionDeletes(m) PROVE row[n] = "absent"
  BY <1>0, <1>t, <1>4 DEF RetentionDeletes
<1>5. CASE row' = row
  BY <1>0, <1>5
<1>6. row[n] = "absent"
  BY <1>1, <1>2, <1>3, <1>4, <1>5
     DEF Next, vars, Boot, ClaimGap, SelectMissing, BlockStep, StartBlock, EnqueueTransfers,
     ConfirmStep, FlushTransfers, VerifyWindow, AdvanceCursor, StampHealed, FenceRefuses, GiveUp,
     YieldTick, FailBlock, FlushTimesOut, BackfillStep, BackfillStarts, DrainQueue, Crash,
     Environment, ChainGrows, RetentionRuns, LeaseAges
<1>. QED
  BY <1>0, <1>6

(* What a claim is sure of: an absent, retained height of the oldest        *)
(* eligible gap is in no older gap that a healer may ever take.             *)
LEMMA ClaimIsOldest ==
  ASSUME OuterDoesNotCross, TypeOK, RowInv, NEW g \in Candidates, g = Min(Candidates),
         NEW n \in Heights, n >= cutoff, n \notin Poison, Absent(n)
  PROVE  Oldest(n, g)
<1>. SUFFICES ASSUME NEW h \in Gaps, h < g, Healable(h), n \in h .. GapEnd[h]
              PROVE  FALSE
  BY DEF Oldest
<1>1. /\ h \in Nat /\ g \in Gaps /\ g \in Nat /\ GapEnd[h] \in Nat /\ GapEnd[g] \in Nat
      /\ n \in Nat
  BY GapsAreNumbers DEF Candidates, Heights
<1>2. /\ cutoff \in Int /\ floor \in Int /\ floor <= cutoff /\ newest \in Int
      /\ FirstNewest <= newest /\ newest <= MaxNewest /\ heal_cursor[h] \in Nat
  BY BoundAssumption DEF TypeOK
<1>3. h \notin Candidates
  <2>1. Candidates \in SUBSET Nat
    <3>1. Candidates \subseteq Gaps /\ Gaps \subseteq Nat
      BY GapsAreNumbers, Zenon DEF Candidates
    <3>. QED
      BY <3>1
  <2>2. ASSUME h \in Candidates PROVE g <= h
    BY <2>1, <2>2, Least
  <2>. QED
    BY <1>1, <2>2
<1>4. ~ Eligible(h)
  BY <1>3 DEF Candidates
<1>5. h \notin healed_at
  <2>1. Max({h, cutoff}) = IF h <= cutoff THEN cutoff ELSE h
    BY <1>1, <1>2, GreatestOfTwo
  <2>2. n \in Retained(h)
    BY <1>1, <1>2, <2>1 DEF Retained
  <2>. QED
    BY <2>2 DEF RowInv, HealedIsDense, Absent
<1>6. GapEnd[h] >= floor
  BY <1>1, <1>2
<1>7. GapEnd[h] < newest - ResumeWindow
  <2>1. GapEnd[g] < newest - ResumeWindow
    BY DEF Candidates, Eligible
  <2>2. ASSUME GapEnd[g] < GapEnd[h] PROVE GapEnd[h] < FirstNewest - ResumeWindow
    BY <1>1, <2>2 DEF OuterDoesNotCross
  <2>. QED
    BY <1>1, <1>2, <2>1, <2>2, BoundAssumption
<1>8. Repairable(h)
  <2>1. heal_cursor[h] < n
    <3>1. ASSUME n <= heal_cursor[h] PROVE FALSE
      <4>1. n \in h .. heal_cursor[h]
        BY <1>1, <1>2, <3>1
      <4>. QED
        BY <1>1, <1>2, <4>1 DEF RowInv, CursorVerified, Absent
    <3>. QED
      BY <1>1, <1>2, <3>1
  <2>2. HealFrom(h) \in {h, floor, heal_cursor[h] + 1}
    <3>1. h \in Int /\ floor \in Int /\ heal_cursor[h] + 1 \in Int
      BY <1>1, <1>2
    <3>. QED
      BY <3>1, GreatestOfThree, Zenon DEF HealFrom
  <2>3. n \in HealFrom(h) .. GapEnd[h]
    BY <1>1, <1>2, <2>1, <2>2
  <2>. QED
    BY <2>3 DEF Repairable
<1>. QED
  BY <1>4, <1>5, <1>6, <1>7, <1>8 DEF Eligible, Unfinishable

LEMMA LeaseInit == Init => HeldInv /\ OldestInv /\ UnwrittenInv /\ TerritoryInv
  BY DEF Init, HeldInv, OldestInv, UnwrittenInv, TerritoryInv, Off, Active, MidBlock

LEMMA HeldStep ==
  ASSUME BlockFitsMargin, TypeOK, TickInv, HeldInv, [Next]_vars
  PROVE  HeldInv'
<1>. SUFFICES ASSUME NEW q \in Procs, tick'[q].phase \in MidBlock PROVE Holds(q)'
  BY DEF HeldInv
<1>t. tick[q] \in Ticks /\ tick \in [Procs -> Ticks]
      /\ lease \in [Gaps -> [owner : Procs \cup {Nobody}, left : {"fresh", "expiring", "lapsed"}]]
  BY Phases DEF TypeOK
<1>. USE DEF rowVars, retVars, gapVars, fillVars
<1>k. ASSUME tick[q].phase \in MidBlock \/ Holds(q), tick'[q].gap = tick[q].gap, lease' = lease
      PROVE  Holds(q)'
  BY <1>k DEF HeldInv, Holds, Leased
<1>s. ASSUME tick'[q] = tick[q], lease' = lease PROVE Holds(q)'
  BY <1>s, <1>k
<1>1. ASSUME NEW p \in Procs, ClaimGap(p) PROVE Holds(q)'
  <2>1. q # p
    BY <1>t, <1>1 DEF ClaimGap, MidBlock
  <2>2. tick'[q] = tick[q] /\ Holds(q)
    BY <1>t, <1>1, <2>1 DEF ClaimGap, HeldInv
  <2>. DEFINE g == Min(Candidates)
  <2>3. ~ Leased(g) /\ lease' = [lease EXCEPT ![g] = [owner |-> p, left |-> "fresh"]]
    BY <1>1 DEF ClaimGap, StillClaimable
  <2>. HIDE DEF g
  <2>4. tick[q].gap # g
    BY <2>2, <2>3 DEF Holds
  <2>5. lease'[tick[q].gap] = lease[tick[q].gap]
    BY <1>t, <2>3, <2>4
  <2>. QED
    BY <2>2, <2>5 DEF Holds, Leased
<1>2. ASSUME NEW g \in Gaps, LeaseAges(g) PROVE Holds(q)'
  <2>1. tick' = tick /\ Holds(q)
    BY <1>2 DEF LeaseAges, HeldInv
  <2>2. CASE tick[q].gap # g
    <3>1. tick[q].gap \in Gaps
      BY <2>1, AtHeight
    <3>2. lease'[tick[q].gap] = lease[tick[q].gap]
      <4>1. \/ lease' = [lease EXCEPT ![g].left = "expiring"]
            \/ lease' = [lease EXCEPT ![g].left = "lapsed"]
        BY <1>2 DEF LeaseAges
      <4>. QED
        BY <1>t, <2>2, <3>1, <4>1
    <3>. QED
      BY <2>1, <3>2 DEF Holds, Leased
  <2>3. CASE tick[q].gap = g
    <3>1. lease' = [lease EXCEPT ![g].left = "expiring"]
      BY <1>2, <2>1, <2>3 DEF LeaseAges
    <3>2. lease'[g].owner = lease[g].owner /\ lease'[g].left = "expiring"
      BY <1>t, <3>1
    <3>. QED
      BY <2>1, <2>3, <3>2 DEF Holds, Leased
  <2>. QED
    BY <2>2, <2>3
<1>3. ASSUME NEW p \in Procs, StartBlock(p) PROVE Holds(q)'
  <2>1. CASE q = p
    BY <1>t, <1>3, <1>k, <2>1 DEF StartBlock, BeforeDeadline, GoTo, Ticks
  <2>2. CASE q # p
    BY <1>t, <1>3, <1>s, <2>2 DEF StartBlock, GoTo
  <2>. QED
    BY <2>1, <2>2
<1>4. ASSUME NEW p \in Procs, InsertBlock(p) \/ InsertTransactions(p) PROVE Holds(q)'
  <2>1. CASE q = p
    <3>1. tick[q].phase \in MidBlock /\ lease' = lease
      BY <1>4, <2>1 DEF InsertBlock, InsertTransactions, MidBlock
    <3>2. PICK ph \in MidBlock : GoTo(p, ph)
      BY <1>4 DEF InsertBlock, InsertTransactions, MidBlock
    <3>3. tick'[q].gap = tick[q].gap
      BY <1>t, <2>1, <3>2 DEF GoTo, Ticks
    <3>. QED
      BY <1>k, <3>1, <3>3
  <2>2. CASE q # p
    BY <1>t, <1>4, <1>s, <2>2 DEF InsertBlock, InsertTransactions, GoTo
  <2>. QED
    BY <2>1, <2>2
<1>5. ASSUME NEW p \in Procs, SelectMissing(p) \/ EnqueueTransfers(p) PROVE Holds(q)'
  <2>1. tick'[p].phase = "blocks"
    BY <1>t, <1>5 DEF SelectMissing, EnqueueTransfers, Ticks
  <2>2. q # p
    BY <2>1 DEF MidBlock
  <2>. QED
    BY <1>t, <1>5, <1>s, <2>2 DEF SelectMissing, EnqueueTransfers
<1>6. ASSUME NEW p \in Procs, EndTick(p) \/ Boot(p) \/ Crash(p), lease' = lease PROVE Holds(q)'
  <2>1. q # p
    BY <1>t, <1>6 DEF EndTick, Boot, Crash, Off, MidBlock
  <2>. QED
    BY <1>t, <1>6, <1>s, <2>1 DEF EndTick, Boot, Crash
<1>7. ASSUME NEW p \in Procs, GoTo(p, "verify") \/ GoTo(p, "cursor") \/ GoTo(p, "stamp"),
             lease' = lease
      PROVE  Holds(q)'
  <2>1. q # p
    BY <1>t, <1>7 DEF GoTo, MidBlock, Ticks
  <2>. QED
    BY <1>t, <1>7, <1>s, <2>1 DEF GoTo
<1>8. CASE tick' = tick /\ lease' = lease
  BY <1>8, <1>s
<1>9. ASSUME NEW p \in Procs,
             FlushTransfers(p) \/ VerifyWindow(p) \/ AdvanceCursor(p) \/ StampHealed(p)
               \/ FenceRefuses(p) \/ YieldTick(p) \/ FailBlock(p) \/ FlushTimesOut(p)
      PROVE  Holds(q)'
  BY <1>6, <1>7, <1>9 DEF FlushTransfers, VerifyWindow, AdvanceCursor, StampHealed, FenceRefuses,
     YieldTick, FailBlock, FlushTimesOut
<1>10. ASSUME NEW p \in Procs, Boot(p) \/ Crash(p) PROVE Holds(q)'
  BY <1>6, <1>10 DEF Boot, Crash
<1>. QED
  BY <1>1, <1>2, <1>3, <1>4, <1>5, <1>8, <1>9, <1>10
     DEF Next, BlockStep, ConfirmStep, GiveUp, BackfillStep, BackfillStarts, BackfillWrites,
     DrainQueue, Environment, ChainGrows, RetentionRuns, RetentionDeletes, vars

(* What is known of the heights of a tick's window.                         *)
OldestFor(q) ==
  tick[q].phase \in Active =>
    /\ Healable(tick[q].gap)
    /\ \A n \in tick[q].missing : n >= cutoff => Oldest(n, tick[q].gap)
    /\ tick[q].phase = "select" =>
         \A n \in Window(q) \ Poison :
           n >= cutoff /\ Absent(n) => Oldest(n, tick[q].gap)

LEMMA OldestStep ==
  ASSUME OuterDoesNotCross, TypeOK, TickInv, RowInv, OldestInv, [Next]_vars
  PROVE  OldestInv'
<1>. SUFFICES ASSUME NEW q \in Procs PROVE OldestFor(q)'
  BY DEF OldestInv, OldestFor
<1>t. OldestFor(q) /\ tick[q] \in Ticks /\ tick \in [Procs -> Ticks]
  BY Phases DEF OldestInv, OldestFor, TypeOK
<1>0. cutoff \in Int /\ cutoff' \in Int /\ cutoff <= cutoff' /\ Heights \subseteq Int
  BY FullStays DEF Heights
<1>k. ASSUME tick'[q].phase \in Active =>
               /\ tick[q].phase \in Active /\ tick'[q].gap = tick[q].gap
               /\ tick'[q].missing \subseteq tick[q].missing
               /\ tick'[q].phase = "select" =>
                    /\ tick[q].phase = "select" /\ tick'[q].healFrom = tick[q].healFrom
                    /\ tick'[q].windowEnd = tick[q].windowEnd
      PROVE  OldestFor(q)'
  <2>1. CASE tick'[q].phase \notin Active
    BY <2>1 DEF OldestFor, Active
  <2>2. CASE tick'[q].phase \in Active
    <3>1. tick[q].missing \subseteq Heights /\ Window(q) \subseteq Heights
      BY <1>k, <1>t, <2>2, TickHeights DEF Ticks
    <3>2. \A n \in tick'[q].missing : n >= cutoff' => Oldest(n, tick[q].gap)
      <4>1. \A n \in tick[q].missing : n >= cutoff => Oldest(n, tick[q].gap)
        BY <1>k, <1>t, <2>2 DEF OldestFor
      <4>2. tick'[q].missing \subseteq tick[q].missing
        BY <1>k, <2>2
      <4>3. ASSUME NEW n \in tick'[q].missing, n >= cutoff' PROVE Oldest(n, tick[q].gap)
        <5>1. n \in Int /\ n \in tick[q].missing
          BY <1>0, <3>1, <4>2
        <5>2. n >= cutoff
          BY <1>0, <4>3, <5>1
        <5>. QED
          BY <4>1, <5>1, <5>2
      <4>. QED
        BY <4>3
    <3>3. ASSUME tick'[q].phase = "select", NEW n \in Window(q) \ Poison, n >= cutoff', Absent(n)'
          PROVE  Oldest(n, tick[q].gap)
      BY <1>k, <1>t, <2>2, <3>1, <3>3, AbsentBefore DEF OldestFor
    <3>4. tick'[q].phase = "select" =>
            \A n \in Window(q)' \ Poison :
              n >= cutoff' /\ Absent(n)' => Oldest(n, tick[q].gap)
      BY <1>k, <2>2, <3>3 DEF Window
    <3>5. Healable(tick[q].gap)
      BY <1>k, <1>t, <2>2 DEF OldestFor
    <3>. QED
      BY <1>k, <2>2, <3>2, <3>4, <3>5 DEF OldestFor, Healable, Oldest
  <2>. QED
    BY <2>1, <2>2
<1>s. ASSUME tick'[q] = tick[q] PROVE OldestFor(q)'
  BY <1>k, <1>s
<1>i. ASSUME tick'[q] = Off("idle") \/ tick'[q] = Off("down") PROVE OldestFor(q)'
  BY <1>i DEF OldestFor, Off, Active, MidBlock
<1>. USE DEF rowVars, retVars, gapVars, fillVars
<1>1. ASSUME NEW p \in Procs, Boot(p) \/ EndTick(p) \/ Crash(p) PROVE OldestFor(q)'
  BY <1>1, <1>i, <1>s, <1>t DEF Boot, EndTick, Crash
<1>2. ASSUME NEW p \in Procs, ClaimGap(p) PROVE OldestFor(q)'
  <2>. DEFINE g == Min(Candidates)
  <2>1. g \in Candidates
    <3>1. Candidates \subseteq Gaps /\ Gaps \subseteq Nat
      BY GapsAreNumbers, Zenon DEF Candidates
    <3>. QED
      BY <1>2, <3>1, Least DEF ClaimGap
  <2>2. tick' = [tick EXCEPT ![p] =
             [phase |-> "select", gap |-> g, healFrom |-> HealFrom(g),
              verifyFrom |-> VerifyFrom(g), missing |-> {}, windowEnd |-> WindowEnd(g)]]
        /\ row' = row /\ cutoff' = cutoff
    BY <1>2 DEF ClaimGap
  <2>3. \A n \in Heights : n >= cutoff /\ n \notin Poison /\ Absent(n) => Oldest(n, g)
    BY <2>1, ClaimIsOldest
  <2>. HIDE DEF g
  <2>4. g \in Gaps /\ GapEnd[g] \in Int /\ GapEnd[g] < newest - ResumeWindow /\ GapEnd[g] >= floor
    <3>1. g \in Gaps /\ GapEnd[g] < newest - ResumeWindow /\ GapEnd[g] >= floor
      BY <2>1 DEF Candidates, Eligible
    <3>. QED
      BY <3>1, GapsAreNumbers DEF Heights
  <2>5. Healable(g)
    BY <2>4, BoundAssumption DEF TypeOK, Healable
  <2>6. CASE q = p
    <3>1. /\ tick'[q].phase = "select" /\ tick'[q].gap = g /\ tick'[q].healFrom = HealFrom(g)
          /\ tick'[q].windowEnd = WindowEnd(g) /\ tick'[q].missing = {}
      BY <1>t, <2>2, <2>6
    <3>2. Window(q)' \subseteq Heights
      <4>1. HealFrom(g) \in 1 .. MaxHeight + 1 /\ WindowEnd(g) \in 0 .. MaxHeight
        BY <2>4, Claimed
      <4>. QED
        BY <3>1, <4>1, HeightAssumption, BoundAssumption DEF Window, Heights
    <3>. QED
      BY <2>2, <2>3, <2>5, <3>1, <3>2 DEF OldestFor, Oldest, Healable, Absent
  <2>7. CASE q # p
    BY <1>s, <1>t, <2>2, <2>7
  <2>. QED
    BY <2>6, <2>7
<1>3. ASSUME NEW p \in Procs, SelectMissing(p) PROVE OldestFor(q)'
  <2>1. CASE q = p
    <3>1. /\ tick'[q].phase = "blocks" /\ tick'[q].gap = tick[q].gap
          /\ tick'[q].missing = {n \in Window(q) : Absent(n) /\ n \notin Poison}
      BY <1>3, <1>t, <2>1 DEF SelectMissing, Ticks
    <3>2. tick[q].phase = "select" /\ cutoff' = cutoff
      BY <1>3, <2>1 DEF SelectMissing
    <3>. QED
      BY <1>t, <3>1, <3>2 DEF OldestFor, Oldest, Healable, Active
  <2>2. CASE q # p
    BY <1>3, <1>s, <1>t, <2>2 DEF SelectMissing
  <2>. QED
    BY <2>1, <2>2
<1>4. ASSUME NEW p \in Procs, EnqueueTransfers(p) PROVE OldestFor(q)'
  <2>1. CASE q = p
    <3>1. /\ tick'[q].phase = "blocks" /\ tick'[q].gap = tick[q].gap
          /\ tick'[q].missing \subseteq tick[q].missing /\ tick[q].phase \in Active
      BY <1>4, <1>t, <2>1 DEF EnqueueTransfers, Ticks, Active, MidBlock
    <3>. QED
      BY <1>k, <3>1
  <2>2. CASE q # p
    BY <1>4, <1>s, <1>t, <2>2 DEF EnqueueTransfers
  <2>. QED
    BY <2>1, <2>2
<1>5. ASSUME NEW p \in Procs, NEW ph \in Active \ {"select"}, GoTo(p, ph),
             tick[p].phase \in Active
      PROVE  OldestFor(q)'
  <2>1. CASE q = p
    <3>1. /\ tick'[q].phase = ph /\ tick'[q].gap = tick[q].gap
          /\ tick'[q].missing = tick[q].missing
      BY <1>5, <1>t, <2>1 DEF GoTo, Ticks
    <3>. QED
      BY <1>5, <1>k, <2>1, <3>1
  <2>2. CASE q # p
    BY <1>5, <1>s, <1>t, <2>2 DEF GoTo
  <2>. QED
    BY <2>1, <2>2
<1>6. ASSUME NEW p \in Procs, BlockStep(p) \/ ConfirmStep(p) \/ GiveUp(p) PROVE OldestFor(q)'
  <2>1. CASE \/ StartBlock(p) \/ InsertBlock(p) \/ InsertTransactions(p) \/ FlushTransfers(p)
    <3>1. tick[p].phase \in Active /\ \E ph \in Active \ {"select"} : GoTo(p, ph)
      BY <2>1 DEF StartBlock, InsertBlock, InsertTransactions, FlushTransfers, Active, MidBlock
    <3>. QED
      BY <1>5, <3>1
  <2>2. CASE VerifyWindow(p) \/ AdvanceCursor(p)
    <3>1. tick[p].phase \in Active /\ (EndTick(p) \/ \E ph \in Active \ {"select"} : GoTo(p, ph))
      BY <2>2 DEF VerifyWindow, AdvanceCursor, Active, MidBlock
    <3>. QED
      BY <1>1, <1>5, <3>1
  <2>3. CASE \/ StampHealed(p) \/ FenceRefuses(p) \/ YieldTick(p) \/ FailBlock(p)
             \/ FlushTimesOut(p)
    BY <1>1, <2>3 DEF StampHealed, FenceRefuses, YieldTick, FailBlock, FlushTimesOut
  <2>. QED
    BY <1>4, <1>6, <2>1, <2>2, <2>3 DEF BlockStep, ConfirmStep, GiveUp
<1>7. CASE tick' = tick
  BY <1>7, <1>s
<1>. QED
  BY <1>1, <1>2, <1>3, <1>6, <1>7
     DEF Next, BackfillStep, BackfillStarts, BackfillWrites,
     DrainQueue, Environment, ChainGrows, RetentionRuns, RetentionDeletes, LeaseAges, vars

(* Two lease holders have no retained height in common.                     *)
LEMMA OneHolder ==
  ASSUME TypeOK, TickInv, OldestInv, NEW p \in Procs, NEW q \in Procs, p # q,
         tick[p].phase \in Active, tick[q].phase \in Active, Holds(p), Holds(q),
         NEW n \in tick[p].missing, n \in tick[q].missing, n >= cutoff
  PROVE  FALSE
<1>1. tick[p].gap # tick[q].gap
  BY DEF Holds
<1>2. \A r \in {p, q} : /\ tick[r].gap \in Gaps /\ Healable(tick[r].gap)
                        /\ Oldest(n, tick[r].gap)
  BY TickHeights DEF OldestInv
<1>3. \A r \in {p, q} : n \in tick[r].gap .. GapEnd[tick[r].gap]
  BY TickHeights DEF TickInv, TickOK
<1>4. tick[p].gap \in Nat /\ tick[q].gap \in Nat
  BY <1>2, GapsAreNumbers
<1>5. CASE tick[p].gap < tick[q].gap
  BY <1>2, <1>3, <1>5 DEF Oldest
<1>6. CASE tick[q].gap < tick[p].gap
  BY <1>2, <1>3, <1>6 DEF Oldest
<1>. QED
  BY <1>1, <1>4, <1>5, <1>6

LEMMA AloneHolds ==
  ASSUME TypeOK, TickInv, HeldInv, OldestInv
  PROVE  HealersAlone
<1>. SUFFICES ASSUME NEW p \in Procs, NEW q \in Procs, p # q, NEW n \in cutoff .. MaxHeight,
                     Healing(p, n), Healing(q, n)
              PROVE  FALSE
  BY DEF HealersAlone
<1>1. n \in tick[p].missing /\ n \in tick[q].missing
  BY AtHeight DEF Healing
<1>2. /\ tick[p].phase \in Active /\ tick[q].phase \in Active /\ Holds(p) /\ Holds(q)
  BY DEF Healing, HeldInv, Active
<1>3. n >= cutoff
  BY BoundAssumption DEF TypeOK
<1>. QED
  BY <1>1, <1>2, <1>3, OneHolder

(* What a lease holder is about to write.                                   *)
UnwrittenBy(q) ==
  tick[q].phase \in Active /\ Holds(q) =>
    \A n \in tick[q].missing :
      \/ n < cutoff \/ Absent(n)
      \/ tick[q].phase \in {"insertTransactions", "enqueue"} /\ n = At(q)

LEMMA UnwrittenStep ==
  ASSUME NoGapCrosses, TypeOK, TickInv, HeldInv, OldestInv, UnwrittenInv, TerritoryInv,
         [Next]_vars
  PROVE  UnwrittenInv'
<1>. SUFFICES ASSUME NEW q \in Procs, tick'[q].phase \in Active, Holds(q)',
                     NEW n \in tick'[q].missing
              PROVE  \/ n < cutoff' \/ Absent(n)'
                     \/ tick'[q].phase \in {"insertTransactions", "enqueue"} /\ n = At(q)'
  BY DEF UnwrittenInv
<1>. DEFINE Written == tick'[q].phase \in {"insertTransactions", "enqueue"} /\ n = At(q)'
            Goal == n < cutoff' \/ Absent(n)' \/ Written
<1>t. /\ tick[q] \in Ticks /\ tick \in [Procs -> Ticks]
      /\ row \in [Heights -> {"absent", "bare", "full"}]
      /\ lease \in [Gaps -> [owner : Procs \cup {Nobody}, left : {"fresh", "expiring", "lapsed"}]]
  BY Phases DEF TypeOK
<1>n. n \in Heights /\ n \in Int
  <2>1. tick'[q] \in Ticks
    BY TypeStep DEF TypeOK
  <2>. QED
    BY <2>1 DEF Ticks, Heights
<1>0. cutoff \in Int /\ cutoff' \in Int /\ cutoff <= cutoff'
  BY FullStays
<1>b. UnwrittenBy(q)
  BY DEF UnwrittenInv, UnwrittenBy
<1>. USE DEF rowVars, retVars, gapVars, fillVars

(* Somebody else's step: the height was the tick's before.                  *)
<1>o. ASSUME tick'[q] = tick[q], Holds(q),
             Absent(n) /\ n >= cutoff => Absent(n)'
      PROVE  Goal
  <2>1. n \in tick[q].missing /\ tick[q].phase \in Active
    BY <1>o
  <2>2. CASE n < cutoff \/ Absent(n)
    BY <1>0, <1>n, <1>o, <2>2
  <2>3. CASE tick[q].phase \in {"insertTransactions", "enqueue"} /\ n = At(q)
    BY <1>o, <2>3 DEF At
  <2>. QED
    BY <1>b, <1>o, <2>1, <2>2, <2>3 DEF UnwrittenBy
<1>1. ASSUME NEW p \in Procs, InsertBlock(p) \/ InsertTransactions(p), p # q PROVE Goal
  <2>1. tick'[q] = tick[q] /\ Holds(q) /\ tick[q].phase \in Active
    BY <1>t, <1>1 DEF InsertBlock, InsertTransactions, GoTo, Holds, Leased
  <2>2. tick[p].phase \in MidBlock
    BY <1>1 DEF InsertBlock, InsertTransactions, MidBlock
  <2>3. tick[p].phase \in Active /\ Holds(p) /\ At(p) \in tick[p].missing /\ At(p) \in Heights
    BY <2>2, AtHeight DEF HeldInv, Active
  <2>4. n >= cutoff => n # At(p)
    BY <1>1, <2>1, <2>3, OneHolder
  <2>5. n # At(p) => row'[n] = row[n]
    BY <1>t, <1>n, <1>1 DEF InsertBlock, InsertTransactions
  <2>. QED
    BY <1>o, <2>1, <2>4, <2>5 DEF Absent
<1>2. ASSUME NEW p \in Procs, BackfillWrites(p) PROVE Goal
  <2>1. tick' = tick /\ lease' = lease
    BY <1>2 DEF BackfillWrites
  <2>2. Holds(q) /\ tick[q].phase \in Active /\ n \in tick[q].missing
    BY <2>1 DEF Holds, Leased
  <2>3. filling[p] \in backfill[p] /\ filling[p] >= FirstNewest - ResumeWindow
    BY <1>2 DEF BackfillWrites, TickInv, TickOK, TerritoryInv
  <2>4. tick[q].gap \in Gaps /\ GapEnd[tick[q].gap] < FirstNewest - ResumeWindow
    BY <2>2, TickHeights DEF OldestInv, NoGapCrosses
  <2>5. n <= GapEnd[tick[q].gap] /\ GapEnd[tick[q].gap] \in Int
    <3>1. n \in Window(q)
      BY <2>2 DEF TickInv, TickOK
    <3>. QED
      BY <2>2, <3>1, TickHeights DEF Heights
  <2>6. filling[p] \in Int
    BY <2>3 DEF TypeOK, Heights
  <2>7. n # filling[p]
    BY <1>n, <2>3, <2>4, <2>5, <2>6, BoundAssumption
  <2>8. row'[n] = row[n]
    BY <1>t, <1>n, <1>2, <2>7 DEF BackfillWrites
  <2>. QED
    BY <1>o, <2>1, <2>2, <2>8 DEF Absent
<1>3. ASSUME NEW m \in Heights, RetentionDeletes(m) PROVE Goal
  <2>1. tick' = tick /\ Holds(q)
    BY <1>3 DEF RetentionDeletes, Holds, Leased
  <2>2. Absent(n) => Absent(n)'
    BY <1>t, <1>n, <1>3 DEF RetentionDeletes, Absent
  <2>. QED
    BY <1>o, <2>1, <2>2
<1>4. ASSUME NEW p \in Procs, ClaimGap(p) PROVE Goal
  <2>. DEFINE g == Min(Candidates)
  <2>1. /\ lease' = [lease EXCEPT ![g] = [owner |-> p, left |-> "fresh"]]
        /\ tick' = [tick EXCEPT ![p] =
             [phase |-> "select", gap |-> g, healFrom |-> HealFrom(g),
              verifyFrom |-> VerifyFrom(g), missing |-> {}, windowEnd |-> WindowEnd(g)]]
        /\ row' = row
    BY <1>4 DEF ClaimGap
  <2>. HIDE DEF g
  <2>2. q # p
    BY <1>t, <2>1
  <2>3. tick'[q] = tick[q] /\ tick[q].gap \in Gaps
    BY <1>t, <2>1, <2>2, TickHeights
  <2>4. lease'[tick[q].gap].owner = q
    BY <2>3 DEF Holds
  <2>5. tick[q].gap # g
    BY <1>t, <2>1, <2>2, <2>3, <2>4
  <2>6. lease'[tick[q].gap] = lease[tick[q].gap]
    BY <1>t, <2>1, <2>3, <2>5
  <2>7. Holds(q)
    BY <2>3, <2>6 DEF Holds, Leased
  <2>. QED
    BY <1>o, <2>1, <2>3, <2>7 DEF Absent
<1>5. ASSUME NEW g \in Gaps, LeaseAges(g) PROVE Goal
  <2>1. tick' = tick /\ row' = row /\ tick[q].gap \in Gaps
    BY <1>5, TickHeights DEF LeaseAges
  <2>2. Holds(q)
    <3>1. CASE tick[q].gap = g
      BY <1>t, <1>5, <2>1, <3>1 DEF LeaseAges, Holds, Leased
    <3>2. CASE tick[q].gap # g
      <4>1. \/ lease' = [lease EXCEPT ![g].left = "expiring"]
            \/ lease' = [lease EXCEPT ![g].left = "lapsed"]
        BY <1>5 DEF LeaseAges
      <4>2. lease'[tick[q].gap] = lease[tick[q].gap]
        BY <1>t, <2>1, <3>2, <4>1
      <4>. QED
        BY <2>1, <4>2 DEF Holds, Leased
    <3>. QED
      BY <3>1, <3>2
  <2>. QED
    BY <1>o, <2>1, <2>2 DEF Absent
<1>6. ASSUME tick'[q] = tick[q], row' = row, lease' = lease PROVE Goal
  <2>1. Holds(q)
    BY <1>6 DEF Holds, Leased
  <2>. QED
    BY <1>o, <1>6, <2>1 DEF Absent

(* The tick's own steps.                                                    *)
<1>7. CASE SelectMissing(q)
  <2>1. tick'[q].missing = {m \in Window(q) : Absent(m) /\ m \notin Poison} /\ row' = row
    BY <1>t, <1>7 DEF SelectMissing, Ticks
  <2>. QED
    BY <2>1 DEF Absent
<1>8. ASSUME tick[q].phase \in Active, tick'[q].missing \subseteq tick[q].missing,
             lease' = lease, tick'[q].gap = tick[q].gap
      PROVE  \/ n < cutoff' \/ Absent(n)
             \/ tick[q].phase \in {"insertTransactions", "enqueue"} /\ n = At(q)
  <2>1. Holds(q) /\ n \in tick[q].missing
    BY <1>8 DEF Holds, Leased
  <2>. QED
    BY <1>0, <1>n, <1>8, <1>b, <2>1 DEF UnwrittenBy
<1>9. CASE StartBlock(q) \/ FlushTransfers(q)
  <2>1. tick[q].phase = "blocks" /\ lease' = lease /\ row' = row
        /\ (GoTo(q, "insertBlock") \/ GoTo(q, "verify"))
    BY <1>9 DEF StartBlock, FlushTransfers
  <2>2. tick'[q].missing = tick[q].missing /\ tick'[q].gap = tick[q].gap
    BY <1>t, <2>1 DEF GoTo, Ticks
  <2>. QED
    BY <1>8, <2>1, <2>2 DEF Absent, Active
<1>10. CASE VerifyWindow(q) \/ AdvanceCursor(q)
  <2>1. /\ tick[q].phase \in {"verify", "cursor"} /\ lease' = lease /\ row' = row
        /\ GoTo(q, "cursor") \/ GoTo(q, "stamp") \/ EndTick(q)
    BY <1>10 DEF VerifyWindow, AdvanceCursor
  <2>2. ~ EndTick(q)
    BY <1>t DEF EndTick, Off, Active, MidBlock
  <2>3. tick'[q].missing = tick[q].missing /\ tick'[q].gap = tick[q].gap
    BY <1>t, <2>1, <2>2 DEF GoTo, Ticks
  <2>. QED
    BY <1>8, <2>1, <2>3 DEF Absent, Active
<1>11. CASE InsertBlock(q)
  <2>1. /\ tick'[q].missing = tick[q].missing /\ tick'[q].phase = "insertTransactions"
        /\ tick'[q].gap = tick[q].gap /\ tick[q].phase = "insertBlock" /\ lease' = lease
    BY <1>t, <1>11 DEF InsertBlock, GoTo, Ticks
  <2>2. At(q)' = At(q)
    BY <2>1 DEF At
  <2>3. n # At(q) => row'[n] = row[n]
    BY <1>t, <1>n, <1>11 DEF InsertBlock
  <2>. QED
    BY <1>8, <2>1, <2>2, <2>3 DEF Absent, Active, MidBlock
<1>12. CASE InsertTransactions(q)
  <2>1. /\ tick'[q].missing = tick[q].missing /\ tick'[q].phase = "enqueue"
        /\ tick'[q].gap = tick[q].gap /\ tick[q].phase = "insertTransactions" /\ lease' = lease
    BY <1>t, <1>12 DEF InsertTransactions, GoTo, Ticks
  <2>2. At(q)' = At(q)
    BY <2>1 DEF At
  <2>3. n # At(q) => row'[n] = row[n]
    BY <1>t, <1>n, <1>12 DEF InsertTransactions
  <2>. QED
    BY <1>8, <2>1, <2>2, <2>3 DEF Absent, Active, MidBlock
<1>13. CASE EnqueueTransfers(q)
  <2>1. /\ tick'[q].missing = tick[q].missing \ {At(q)} /\ tick'[q].gap = tick[q].gap
        /\ tick[q].phase = "enqueue" /\ lease' = lease /\ row' = row
    BY <1>t, <1>13 DEF EnqueueTransfers, Ticks
  <2>2. n # At(q)
    BY <2>1
  <2>. QED
    BY <1>8, <2>1, <2>2 DEF Absent, Active, MidBlock
<1>14. CASE EndTick(q) \/ Boot(q) \/ Crash(q)
  BY <1>t, <1>14 DEF EndTick, Boot, Crash, Off, Active, MidBlock
<1>15. ASSUME NEW p \in Procs,
              \/ SelectMissing(p) \/ StartBlock(p) \/ FlushTransfers(p) \/ VerifyWindow(p)
              \/ AdvanceCursor(p) \/ EnqueueTransfers(p) \/ Boot(p) \/ Crash(p) \/ StampHealed(p)
              \/ FenceRefuses(p) \/ YieldTick(p) \/ FailBlock(p) \/ FlushTimesOut(p)
       PROVE  Goal
  <2>1. CASE p = q
    BY <1>7, <1>9, <1>10, <1>13, <1>14, <1>15, <2>1
       DEF StampHealed, FenceRefuses, YieldTick, FailBlock, FlushTimesOut
  <2>2. CASE p # q
    <3>1. row' = row /\ lease' = lease
      BY <1>15 DEF SelectMissing, StartBlock, FlushTransfers, VerifyWindow, AdvanceCursor,
         EnqueueTransfers, Boot, Crash, StampHealed, FenceRefuses, YieldTick, FailBlock,
         FlushTimesOut
    <3>2. tick'[q] = tick[q]
      BY <1>t, <1>15, <2>2 DEF SelectMissing, StartBlock, FlushTransfers, VerifyWindow,
         AdvanceCursor, EnqueueTransfers, Boot, Crash, StampHealed, FenceRefuses, YieldTick,
         FailBlock, FlushTimesOut, GoTo, EndTick
    <3>. QED
      BY <1>6, <3>1, <3>2
  <2>. QED
    BY <2>1, <2>2
<1>16. CASE tick' = tick /\ row' = row /\ lease' = lease
  BY <1>6, <1>16
<1>17. ASSUME NEW p \in Procs, InsertBlock(p) \/ InsertTransactions(p) PROVE Goal
  BY <1>1, <1>11, <1>12, <1>17
<1>. QED
  BY <1>2, <1>3, <1>4, <1>5, <1>15, <1>16, <1>17
     DEF Next, BlockStep, ConfirmStep, GiveUp, BackfillStep, BackfillStarts, DrainQueue,
     Environment, ChainGrows, RetentionRuns, vars

LEMMA TerritoryStep ==
  ASSUME TypeOK, TickInv, TerritoryInv, [Next]_vars
  PROVE  TerritoryInv'
<1>. SUFFICES ASSUME NEW q \in Procs, NEW n \in backfill'[q]
              PROVE  n >= FirstNewest - ResumeWindow
  BY DEF TerritoryInv
<1>t. backfill \in [Procs -> SUBSET Heights]
  BY DEF TypeOK
<1>. USE DEF rowVars, retVars, gapVars, fillVars
<1>1. ASSUME NEW p \in Procs, Boot(p), n \notin backfill[q]
      PROVE  n >= FirstNewest - ResumeWindow
  <2>1. ResumeHoles # {} /\ n \in Min(ResumeHoles) .. MaxHeight
    BY <1>t, <1>1 DEF Boot
  <2>2. ResumeHoles \in SUBSET Nat /\ \A h \in ResumeHoles : h >= newest - ResumeWindow
    BY DEF ResumeHoles, Heights
  <2>3. Min(ResumeHoles) \in Nat /\ Min(ResumeHoles) >= newest - ResumeWindow
    BY <2>1, <2>2, Least
  <2>4. newest \in Int /\ newest >= FirstNewest
    BY BoundAssumption DEF TypeOK
  <2>. QED
    BY <2>1, <2>3, <2>4, HeightAssumption, BoundAssumption
<1>2. CASE n \in backfill[q]
  BY <1>2 DEF TerritoryInv
<1>3. ASSUME NEW p \in Procs, BackfillWrites(p) \/ Crash(p) PROVE n \in backfill[q]
  BY <1>t, <1>3 DEF BackfillWrites, Crash
<1>4. CASE backfill' = backfill
  BY <1>2, <1>4
<1>. QED
  BY <1>1, <1>2, <1>3, <1>4
     DEF Next, vars, ClaimGap, SelectMissing, BlockStep, StartBlock, InsertBlock,
     InsertTransactions, EnqueueTransfers, ConfirmStep, FlushTransfers, VerifyWindow,
     AdvanceCursor, StampHealed, FenceRefuses, GiveUp, YieldTick, FailBlock, FlushTimesOut,
     BackfillStep, BackfillStarts, DrainQueue, Environment, ChainGrows, RetentionRuns,
     RetentionDeletes, LeaseAges

(* Two healers never run processBlock for one retained height, if one       *)
(* processBlock ends within LEASE_SAFETY_MS and no range that spans another *)
(* becomes eligible after the one inside it.  The tip, booting generations' *)
(* backfills, retention and crashes are free.  (Without the second          *)
(* condition it is false: a healer is at work on the inner range when       *)
(* MAX(blocks) makes the outer one eligible, whose lease is another.)       *)
THEOREM NeverTwoHealers ==
  ASSUME BlockFitsMargin, OuterDoesNotCross
  PROVE  Spec => []HealersAlone
<1>. DEFINE Inv == TypeOK /\ TickInv /\ RowInv /\ HeldInv /\ OldestInv
<1>1. Init => Inv
  BY TypeInit, RowInit, LeaseInit
<1>2. Inv /\ [Next]_vars => Inv'
  BY TypeStep, TickStep, BehindStep, CursorStep, DenseStep, HeldStep, OldestStep DEF RowInv
<1>3. Inv => HealersAlone
  BY AloneHolds
<1>. QED
  BY <1>1, <1>2, <1>3, PTL DEF Spec

(* A retained height is in one writer's hands, and written once: no second  *)
(* healer, no replay, not the resume backfill of a booting generation       *)
(* either, if besides no range leaves the resume scan's territory while the *)
(* generations overlap (the comment on MAX(number) in healNextGap).         *)
THEOREM OneWriter ==
  ASSUME BlockFitsMargin, NoGapCrosses
  PROVE  Spec => []OneWritePerHeight
<1>. DEFINE Inv == /\ TypeOK /\ TickInv /\ RowInv /\ HeldInv /\ OldestInv
                   /\ UnwrittenInv /\ TerritoryInv
<1>0. OuterDoesNotCross
  BY DEF NoGapCrosses, OuterDoesNotCross
<1>1. Init => Inv
  BY TypeInit, RowInit, LeaseInit
<1>2. Inv /\ [Next]_vars => Inv'
  BY <1>0, TypeStep, TickStep, BehindStep, CursorStep, DenseStep, HeldStep, OldestStep,
     UnwrittenStep, TerritoryStep DEF RowInv
<1>3. Inv => OneWritePerHeight
  <2>1. SUFFICES ASSUME Inv PROVE FirstWriteOnly
    BY AloneHolds DEF OneWritePerHeight
  <2>2. ASSUME NEW p \in Procs, tick[p].phase = "insertBlock" PROVE Absent(At(p)) \/ At(p) < cutoff
    <3>1. tick[p].phase \in MidBlock /\ tick[p].phase \in Active
      BY <2>2 DEF Active, MidBlock
    <3>2. Holds(p) /\ At(p) \in tick[p].missing
      BY <2>1, <3>1, AtHeight DEF HeldInv
    <3>. QED
      BY <2>1, <2>2, <3>1, <3>2 DEF UnwrittenInv
  <2>. QED
    BY <2>2 DEF FirstWriteOnly
<1>. QED
  BY <1>1, <1>2, <1>3, PTL DEF Spec

=============================================================================
