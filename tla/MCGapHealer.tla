----------------------------- MODULE MCGapHealer -----------------------------
(* Instances of GapHealer.                                                  *)
EXTENDS GapHealer, TLC

Overlapping == 1 :> 3 @@ 3 :> 3   \* a reorg moved the cursor back between two skips
TwoGaps     == 1 :> 2 @@ 3 :> 3

Generations == Permutations(Procs)
=============================================================================
