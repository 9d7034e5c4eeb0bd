-------------------------- MODULE DurableWatermark --------------------------
(***************************************************************************)
(* What the indexer's resume logic relies on (getResumeCursor in            *)
(* apps/indexer/src/index.ts): a stored watermark W such that a restart may *)
(* skip every height at or below W.  A height is secure when a restart may  *)
(* skip it: its transfers are committed, it was quarantined, or it was      *)
(* abandoned.  How heights become secure, and how many processes, drains    *)
(* and retries that takes, is not said here.                                *)
(***************************************************************************)
EXTENDS Integers

CONSTANT MaxBlock

VARIABLES secure, W

Init ==
  /\ secure = {}
  /\ W = 0

(* Heights become secure.                                                   *)
Secure(S) ==
  /\ secure' = secure \cup S
  /\ UNCHANGED W

(* W moves, up or down, to a height with only secure ones below it.         *)
Claim(w, S) ==
  /\ secure' = secure \cup S
  /\ 1 .. w \subseteq secure'
  /\ W' = w

(* Heights stop being secure, which W must have stopped claiming before.    *)
Retract(S) ==
  /\ S \cap 1 .. W = {}
  /\ secure' = secure \ S
  /\ UNCHANGED W

Next ==
  \E S \in SUBSET (1 .. MaxBlock) :
    \/ Secure(S)
    \/ Retract(S)
    \/ \E w \in 0 .. MaxBlock : Claim(w, S)

Spec == Init /\ [][Next]_<<secure, W>>

(* A restart never skips a height whose transfers it still needs.           *)
NothingClaimedInsecure == 1 .. W \subseteq secure
=============================================================================
