--------------------------- MODULE PartitionLadder ---------------------------
(***************************************************************************)
(* The partitions of internal_transactions                                  *)
(* (apps/indexer/src/ensure-schema.ts): ensureInternalTxPartitions keeps    *)
(* them ahead of the block about to be written.  It runs at boot and from   *)
(* the retention timer, in processes whose configured widths may differ     *)
(* while deploys overlap; retention drops the oldest partitions whole.      *)
(***************************************************************************)
EXTENDS Integers, Sequences, FiniteSets, FiniteSetsExt

CONSTANTS
  Extenders,  \* the processes
  Widths,     \* what their PARTITION_BLOCKS may be
  Ahead,      \* how many widths ahead
  Keep,       \* blocks retention keeps behind the head
  MaxWidth,   \* the widest of them
  MaxHeight   \* bound of the model: heights of the chain

ASSUME LadderAssumption ==
  /\ MaxWidth \in Nat \ {0}
  /\ Widths \subseteq [Extenders -> 1 .. MaxWidth]
  /\ Ahead \in Nat \ {0} /\ Keep \in Nat /\ MaxHeight \in Nat

VARIABLES
  widths,   \* PARTITION_BLOCKS of each process
  height,   \* MAX(blocks.number), 0 with an empty table
  ladder,   \* the partitions, as [lo, hi)
  plan      \* what each process is at

ladderVars == <<widths, height, ladder, plan>>

NoPlan == [at |-> "idle", from |-> 0, ranges |-> <<>>, alone |-> TRUE]

LadderTop == MaxHeight + (Ahead + 2) * MaxWidth

LadderInit ==
  /\ widths \in Widths
  /\ height \in 0 .. MaxHeight
  /\ ladder = {}
  /\ plan = [g \in Extenders |-> NoPlan]

Within(b, r)    == r.lo <= b /\ b < r.hi
HasPartition(b) == \E r \in ladder : Within(b, r)
Overlaps(r, q)  == r.lo < q.hi /\ q.lo < r.hi

-----------------------------------------------------------------------------
(* partitionRangesToCreate.                                                 *)

StraddlingEnd(existing, lo, width) == lo + width   \* mutant: the next partition is not looked for

(* A range stops short of the next partition there is.                      *)
RangeEnd(existing, lo, width) ==
  Min({lo + width} \cup {r.lo : r \in {q \in existing : q.lo > lo}})

Reached(b, to) == b >= to   \* mutant: the last block is left out
Passed(b, to)  == b > to

RangesToCreate(existing, width, from, to) ==
  LET climb[b \in 0 .. LadderTop] ==
        LET hit == {r \in existing : Within(b, r)}
            end == IF hit # {} THEN Max({r.hi : r \in hit}) ELSE RangeEnd(existing, b, width)
        IN  IF Passed(b, to) THEN <<>>
            ELSE IF hit # {} THEN climb[end]
            ELSE <<[lo |-> b, hi |-> end]>> \o climb[end]
  IN  climb[(from \div width) * width]

-----------------------------------------------------------------------------
(* ensureInternalTxPartitions.  At boot the anchor is the block the indexer *)
(* resumes at, the next one or one of before, later the newest block; with  *)
(* none of them there is nothing to do.                                     *)
Horizon(g, from) == from + Ahead * widths[g]

PlanLadder(g) ==
  /\ plan[g].at = "idle"
  /\ \E from \in height - 1 .. height + 1 :
       /\ from > 0
       /\ plan' = [plan EXCEPT ![g] =
            [at |-> "create", from |-> from, alone |-> TRUE,
             ranges |-> RangesToCreate(ladder, widths[g], from, Horizon(g, from))]]
  /\ UNCHANGED <<widths, height, ladder>>

(* Those at work who did not do it themselves are no longer alone.          *)
Disturbed(hs) ==
  [h \in Extenders |-> IF h \in hs /\ plan[h] # NoPlan THEN [plan[h] EXCEPT !.alone = FALSE]
                                                    ELSE plan[h]]

(* A partition of the same name, that is of the same lower end, is taken    *)
(* for the one wanted.                                                      *)
CreatePartition(g) ==
  /\ plan[g].at = "create" /\ plan[g].ranges # <<>>
  /\ LET range == Head(plan[g].ranges)
         fits  == \A r \in ladder : r.lo # range.lo
     IN  /\ fits => \A r \in ladder : ~Overlaps(r, range)
         /\ ladder' = IF fits THEN ladder \cup {range} ELSE ladder
         /\ plan' = [(IF fits THEN Disturbed(Extenders \ {g}) ELSE plan) EXCEPT ![g].ranges = Tail(@)]
  /\ UNCHANGED <<widths, height>>

(* Postgres refuses a range that overlaps another.  The run ends.           *)
CreateRefused(g) ==
  /\ plan[g].at = "create" /\ plan[g].ranges # <<>>
  /\ LET range == Head(plan[g].ranges)
     IN  \E r \in ladder : r.lo # range.lo /\ Overlaps(r, range)
  /\ plan' = [plan EXCEPT ![g].at = "refused"]
  /\ UNCHANGED <<widths, height, ladder>>

(* Any other error ends the run too.                                        *)
CreateThrows(g) ==
  /\ plan[g].at = "create" /\ plan[g].ranges # <<>>
  /\ plan' = [plan EXCEPT ![g] = NoPlan]
  /\ UNCHANGED <<widths, height, ladder>>

LadderDone(g) ==
  /\ plan[g].at = "create" /\ plan[g].ranges = <<>>
  /\ plan' = [plan EXCEPT ![g].at = "done"]
  /\ UNCHANGED <<widths, height, ladder>>

LadderRests(g) ==
  /\ plan[g].at \in {"done", "refused"}
  /\ plan' = [plan EXCEPT ![g] = NoPlan]
  /\ UNCHANGED <<widths, height, ladder>>

-----------------------------------------------------------------------------
(* The chain grows; retention drops what lies wholly below its cutoff.      *)
HeightGrows ==
  /\ height < MaxHeight
  /\ height' = height + 1
  /\ UNCHANGED <<widths, ladder, plan>>

DropOldest ==
  /\ \E r \in ladder :
       /\ r.hi <= height - Keep
       /\ \A q \in ladder : q.lo >= r.lo
       /\ ladder' = ladder \ {r}
  /\ plan' = Disturbed(Extenders)
  /\ UNCHANGED <<widths, height>>

LadderNext ==
  \/ HeightGrows
  \/ DropOldest
  \/ \E g \in Extenders :
       \/ PlanLadder(g)
       \/ CreatePartition(g)
       \/ CreateRefused(g)
       \/ CreateThrows(g)
       \/ LadderDone(g)
       \/ LadderRests(g)

LadderSpec == LadderInit /\ [][LadderNext]_ladderVars

-----------------------------------------------------------------------------
LadderTypeOK ==
  /\ height \in 0 .. MaxHeight
  /\ \A r \in ladder : r.lo \in 0 .. LadderTop /\ r.hi \in r.lo + 1 .. LadderTop
  /\ \A g \in Extenders : plan[g].at \in {"idle", "create", "refused", "done"}

(* A process alone at it never proposes a range that straddles a partition, *)
(* whatever widths and anchors made those that are there.                   *)
NeverStraddles == \A g \in Extenders : plan[g].at = "refused" => ~plan[g].alone

(* After a run that met no error every block from its anchor to its horizon *)
(* has a partition to be written to, also where another process was at it;  *)
(* one with another width may have made a shorter partition of a name that  *)
(* is then taken for the one wanted, which the next run makes good.         *)
RunCovers ==
  \A g \in Extenders :
    plan[g].at = "done" /\ (plan[g].alone \/ \A h \in Extenders : widths[h] = widths[g]) =>
      \A b \in plan[g].from .. Horizon(g, plan[g].from) : b >= height - Keep => HasPartition(b)

LadderHolds == NeverStraddles /\ RunCovers
=============================================================================
