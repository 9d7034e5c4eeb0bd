------------------------- MODULE ReorgHandlerProofs -------------------------
(***************************************************************************)
(* Theorems about ReorgHandler, for any endpoints, heights, reorgs, batch   *)
(* sizes and any REORG_DEPTH.                                               *)
(***************************************************************************)
EXTENDS ReorgHandler, TLAPS, FiniteSetTheorems, WellFoundedInduction

(* No check looks above the cursor, and no fork lies above it.              *)
ForkInv ==
  /\ loop = "check" => check.n <= lastIndexed /\ check.read # "none" /\ check.at \in Endpoints
  /\ Unwinding => fork <= lastIndexed

(* What the batch counts as done has its row.                               *)
DoneInv == loop = "batch" => \A n \in done : stored[n] # NoRow

(* A decision to skip a height is as durable as the skip.                   *)
PoisonInv ==
  /\ poison_blocks \subseteq abandoned
  /\ loop \in {"unwindChildren", "unwindBlocks"} => \A n \in poison_blocks : n <= fork

(* The chain never reorganised.                                             *)
NeverReorged == \A n \in Heights : chain[epoch][n] = 0

OnlyGenesis ==
  NeverReorged =>
    /\ chain = [e \in Epochs |-> [n \in 0 .. MaxHeight |-> 0]]
    /\ \A n \in Heights : stored[n] \in {0, Alien, NoRow}

(* Nor has the database a block of another chain: nobody unwinds, and only  *)
(* a foreign endpoint can disagree with what is stored.                     *)
Clean == NeverReorged /\ \A n \in Heights : stored[n] # Alien

CleanInv ==
  Clean =>
    /\ ~ Unwinding
    /\ loop = "check" => /\ check.unresolved \subseteq foreign
                         /\ check.read = "walk" => check.at \in foreign

(* The tip is compared with a row that is there.                            *)
TipInv == loop = "check" /\ check.read = "tip" => Stored(lastIndexed) # NoRow

(* The endpoints that serve another chain are too few to corroborate one    *)
(* another.                                                                 *)
TooFewStrangers ==
  \A S \in Strangers : Cardinality(S) < Min({2, Cardinality(Endpoints)})

-----------------------------------------------------------------------------
(* Least and greatest elements.                                             *)

LEMMA Least ==
  ASSUME NEW S \in SUBSET Nat, S # {}
  PROVE  Min(S) \in S /\ \A n \in S : Min(S) <= n
<1>1. PICK m \in S : \A n \in S : ~ (<<n, m>> \in OpToRel(<, Nat))
  BY NatLessThanWellFounded, WFMin
<1>2. \A n \in S : m <= n
  <2>1. \A n \in S : ~ (n < m)
    BY <1>1, Zenon DEF OpToRel
  <2>. QED
    BY <2>1
<1>. QED
  BY <1>2 DEF Min

LEMMA Greatest ==
  ASSUME NEW m \in Nat, NEW S \in SUBSET (0 .. m), S # {}
  PROVE  Max(S) \in S /\ \A n \in S : n <= Max(S)
<1>. DEFINE Mirror == {m - n : n \in S}
<1>1. Mirror \in SUBSET Nat /\ Mirror # {}
  <2>1. \A n \in S : m - n \in Nat
    OBVIOUS
  <2>. QED
    BY <2>1
<1>2. Min(Mirror) \in Mirror /\ \A k \in Mirror : Min(Mirror) <= k
  BY <1>1, Least
<1>3. PICK x \in S : Min(Mirror) = m - x
  BY <1>2
<1>4. \A n \in S : m - n \in Mirror
  OBVIOUS
<1>. HIDE DEF Mirror
<1>5. \A n \in S : n <= x
  BY <1>2, <1>3, <1>4
<1>. QED
  BY <1>5 DEF Max

LEMMA LeastOfTwo ==
  ASSUME NEW a \in Int, NEW b \in Int
  PROVE  Min({a, b}) = IF a <= b THEN a ELSE b
<1>1. Min({a, b}) \in {a, b} /\ \A y \in {a, b} : Min({a, b}) <= y
  <2>1. \E x \in {a, b} : \A y \in {a, b} : x <= y
    BY SMT
  <2>. QED
    BY <2>1 DEF Min
<1>. QED
  BY <1>1

LEMMA GreatestOfTwo ==
  ASSUME NEW a \in Int, NEW b \in Int
  PROVE  Max({a, b}) = IF a <= b THEN b ELSE a
<1>1. Max({a, b}) \in {a, b} /\ \A y \in {a, b} : y <= Max({a, b})
  <2>1. \E x \in {a, b} : \A y \in {a, b} : x >= y
    BY SMT
  <2>. QED
    BY <2>1 DEF Max
<1>. QED
  BY <1>1

(* The walk's last height.                                                  *)
LEMMA FloorIs ==
  ASSUME lastIndexed \in 0 .. MaxHeight
  PROVE  Floor \in 0 .. lastIndexed
BY GreatestOfTwo, DepthAssumption, BoundAssumption DEF Floor

LEMMA BatchEndIs ==
  ASSUME lastIndexed \in 0 .. MaxHeight, NEW h \in Heights
  PROVE  BatchEnd(h) \in 0 .. MaxHeight
BY LeastOfTwo, DepthAssumption, BoundAssumption DEF BatchEnd, Heights

(* The cursor advances over what is done, and only over that.               *)
LEMMA AdvancedIs ==
  ASSUME lastIndexed \in 0 .. MaxHeight, NEW d
  PROVE  Advanced(d) \in lastIndexed .. MaxHeight /\ lastIndexed + 1 .. Advanced(d) \subseteq d
<1>. DEFINE S == {h \in lastIndexed .. MaxHeight : lastIndexed + 1 .. h \subseteq d}
<1>1. S \in SUBSET (0 .. MaxHeight) /\ lastIndexed \in S
  BY BoundAssumption
<1>2. Max(S) \in S
  BY <1>1, Greatest, BoundAssumption
<1>. QED
  BY <1>2 DEF Advanced

(* The heights where a restart may resume: every one below is stored or     *)
(* recorded poison.                                                         *)
LEMMA ResumeIs ==
  ASSUME NEW w \in 0 .. MaxHeight, w <= IF Holes = {} THEN Newest ELSE Min(Holes) - 1
  PROVE  \A n \in 1 .. w : stored[n] # NoRow \/ n \in poison_blocks
<1>1. Newest \in 0 .. MaxHeight
  <2>. DEFINE S == {0} \cup {n \in Heights : stored[n] # NoRow}
  <2>1. S \in SUBSET (0 .. MaxHeight) /\ S # {}
    BY BoundAssumption DEF Heights
  <2>. QED
    BY <2>1, Greatest, BoundAssumption DEF Newest
<1>2. CASE Holes = {}
  BY <1>1, <1>2, BoundAssumption DEF Holes
<1>3. CASE Holes # {}
  <2>1. Holes \in SUBSET Nat
    BY <1>1 DEF Holes
  <2>2. Min(Holes) \in Holes /\ \A n \in Holes : Min(Holes) <= n
    BY <2>1, <1>3, Least
  <2>3. Min(Holes) \in 1 .. Newest
    BY <2>2 DEF Holes
  <2>. QED
    BY <1>1, <1>3, <2>2, <2>3 DEF Holes
<1>. QED
  BY <1>2, <1>3

LEMMA HashType ==
  ASSUME TypeOK, NEW p \in Endpoints, NEW n \in 0 .. MaxHeight
  PROVE  HashAt(p, n) \in Hashes
<1>1. view[p].epoch \in Epochs
  BY DEF TypeOK
<1>2. chain[view[p].epoch] \in [0 .. MaxHeight -> Epochs]
  BY <1>1 DEF TypeOK
<1>3. chain[view[p].epoch][n] \in Epochs
  BY <1>2
<1>. QED
  BY <1>3, BoundAssumption DEF HashAt, Hashes, Epochs, Alien

LEMMA RowWritten ==
  ASSUME TypeOK, NEW n \in Heights, NEW h \in Hashes
  PROVE  /\ WithRow(n, h) \in [Heights -> Hashes \cup {NoRow}]
         /\ WithRow(n, h)[n] # NoRow
         /\ \A m \in Heights : m # n => WithRow(n, h)[m] = stored[m]
         /\ \A m \in Heights : stored[m] # NoRow => WithRow(n, h)[m] = stored[m]
BY BoundAssumption DEF WithRow, TypeOK, Hashes, NoRow, Alien

-----------------------------------------------------------------------------
(* Types, in parts.                                                         *)

Checks == [at : Endpoints \cup {"nobody"}, tried : SUBSET Endpoints,
           unresolved : SUBSET Endpoints, to : 0 .. MaxHeight,
           read : {"none", "boundary", "tip", "walk"}, n : -1 .. MaxHeight]

NetTypes ==
  /\ chain \in [Epochs -> [0 .. MaxHeight -> Epochs]]
  /\ epoch \in Epochs
  /\ head \in Heights
  /\ view \in [Endpoints -> [epoch : Epochs, head : Heights]]
  /\ foreign \in Strangers

DbTypes ==
  /\ stored \in [Heights -> Hashes \cup {NoRow}]
  /\ children \in [Heights -> SUBSET Hashes]
  /\ poison_blocks \subseteq Heights

LoopTypes ==
  /\ loop \in Loops
  /\ lastIndexed \in 0 .. MaxHeight
  /\ pending \subseteq Heights
  /\ done \subseteq Heights
  /\ failure \in BOOLEAN
  /\ fork \in 0 .. MaxHeight
  /\ abandoned \subseteq Heights
  /\ faults \in 0 .. MaxFaults

TypeInv == NetTypes /\ DbTypes /\ check \in Checks /\ LoopTypes /\ ForkInv

LEMMA TypeInvSuffices == TypeInv => TypeOK
BY DEF TypeInv, TypeOK, NetTypes, DbTypes, LoopTypes, Checks

LEMMA NobodyChecks == NoCheck \in Checks
BY BoundAssumption DEF NoCheck, Checks

LEMMA TypeInit == Init => TypeInv
<1>. SUFFICES ASSUME Init PROVE TypeInv
  OBVIOUS
<1>1. epoch \in Epochs /\ head \in Heights /\ 0 \in Epochs
  BY BoundAssumption DEF Init, Epochs, Heights
<1>2. chain \in [Epochs -> [0 .. MaxHeight -> Epochs]]
  BY <1>1, BoundAssumption DEF Init
<1>3. check \in Checks
  BY NobodyChecks DEF Init
<1>4. view \in [Endpoints -> [epoch : Epochs, head : Heights]]
  <2>1. [epoch |-> epoch, head |-> 1] \in [epoch : Epochs, head : Heights]
    BY <1>1, BoundAssumption DEF Heights
  <2>. QED
    BY <2>1 DEF Init
<1>5. DbTypes
  BY DEF Init, DbTypes
<1>6. LoopTypes
  <2>1. 0 \in 0 .. MaxHeight /\ 0 \in 0 .. MaxFaults
    BY BoundAssumption
  <2>. QED
    BY <2>1 DEF Init, LoopTypes, Loops
<1>. QED
  BY <1>1, <1>2, <1>3, <1>4, <1>5, <1>6 DEF Init, TypeInv, NetTypes, ForkInv, Unwinding

LEMMA NetKept == NetTypes /\ UNCHANGED netVars => NetTypes'
BY DEF NetTypes, netVars

LEMMA DbKept == DbTypes /\ UNCHANGED dbVars => DbTypes'
BY DEF DbTypes, dbVars

(* A check that fails over, concludes, finds nothing or starts its walk.    *)
LEMMA NotAReorgTypes ==
  ASSUME TypeInv, NotAReorg, faults' \in 0 .. MaxFaults,
         UNCHANGED <<netVars, dbVars, lastIndexed, abandoned>>
  PROVE  TypeInv'
<1>1. loop' \in {"batch", "top"} /\ pending' \subseteq Heights
  <2>1. check.to \in 0 .. MaxHeight /\ lastIndexed \in 0 .. MaxHeight /\ pending \subseteq Heights
    BY DEF TypeInv, Checks, LoopTypes
  <2>2. CASE check.to > lastIndexed
    <3>1. lastIndexed + 1 .. check.to \subseteq Heights
      BY <2>1, BoundAssumption DEF Heights
    <3>. QED
      BY <2>2, <3>1 DEF NotAReorg
  <2>3. CASE ~ (check.to > lastIndexed)
    BY <2>1, <2>3 DEF NotAReorg
  <2>. QED
    BY <2>2, <2>3
<1>2. LoopTypes'
  BY <1>1 DEF NotAReorg, TypeInv, LoopTypes, Loops
<1>3. NetTypes' /\ DbTypes'
  BY NetKept, DbKept DEF TypeInv
<1>4. check' \in Checks
  BY NobodyChecks DEF NotAReorg
<1>. QED
  BY <1>1, <1>2, <1>3, <1>4 DEF TypeInv, ForkInv, Unwinding

LEMMA WalkFromTypes ==
  ASSUME TypeInv, loop = "check", WalkFrom(lastIndexed), faults' = faults,
         UNCHANGED <<netVars, dbVars, lastIndexed, abandoned>>
  PROVE  TypeInv'
<1>1. check' \in Checks /\ check'.n = lastIndexed /\ check'.read = "walk" /\ check'.at = check.at
  <2>1. lastIndexed \in -1 .. MaxHeight /\ check \in Checks
    BY BoundAssumption DEF TypeInv, LoopTypes
  <2>. QED
    BY <2>1 DEF WalkFrom, Checks
<1>2. NetTypes' /\ DbTypes'
  BY NetKept, DbKept DEF TypeInv
<1>3. LoopTypes'
  BY DEF WalkFrom, TypeInv, LoopTypes, batchVars
<1>. QED
  BY <1>1, <1>2, <1>3 DEF WalkFrom, TypeInv, ForkInv, Unwinding, LoopTypes

LEMMA FailOverTypes ==
  ASSUME TypeInv, loop = "check", NEW U \in SUBSET Endpoints, FailOver(U),
         faults' \in 0 .. MaxFaults,
         UNCHANGED <<netVars, dbVars, lastIndexed, batchVars, abandoned>>
  PROVE  TypeInv'
<1>1. PICK p \in Untried :
        check' = [check EXCEPT !.at = p, !.tried = @ \cup {p}, !.read = "boundary",
                    !.n = lastIndexed, !.unresolved = U]
  BY DEF FailOver
<1>2. check' \in Checks /\ check'.n = lastIndexed /\ check'.read = "boundary" /\ check'.at = p
  <2>1. lastIndexed \in -1 .. MaxHeight /\ check \in Checks
    BY BoundAssumption DEF TypeInv, LoopTypes
  <2>2. p \in Endpoints
    BY DEF Untried
  <2>. QED
    BY <1>1, <2>1, <2>2 DEF Checks
<1>3. NetTypes' /\ DbTypes'
  BY NetKept, DbKept DEF TypeInv
<1>4. LoopTypes'
  BY DEF FailOver, TypeInv, LoopTypes, batchVars
<1>5. loop' = "check" /\ p \in Endpoints /\ lastIndexed' \in 0 .. MaxHeight
  BY <1>4 DEF FailOver, Untried, LoopTypes
<1>. QED
  BY <1>2, <1>3, <1>4, <1>5 DEF TypeInv, ForkInv, Unwinding

LEMMA ConcludeTypes ==
  ASSUME TypeInv, loop = "check", NEW U, Conclude(U), faults' \in 0 .. MaxFaults,
         UNCHANGED <<netVars, dbVars, lastIndexed, batchVars, abandoned>>
  PROVE  TypeInv'
<1>1. Floor \in 0 .. lastIndexed /\ lastIndexed \in 0 .. MaxHeight /\ fork \in 0 .. MaxHeight
  BY FloorIs DEF TypeInv, LoopTypes
<1>2. check' \in Checks
  BY NobodyChecks DEF Conclude
<1>3. \/ loop' = "unwindPoison" /\ fork' = Floor
      \/ loop' = "top" /\ fork' = fork
  BY DEF Conclude
<1>4. fork' \in 0 .. MaxHeight /\ loop' \in Loops /\ loop' # "check"
      /\ (loop' # "top" => fork' <= lastIndexed)
  BY <1>1, <1>3, BoundAssumption DEF Loops
<1>5. NetTypes' /\ DbTypes'
  BY NetKept, DbKept DEF TypeInv
<1>6. LoopTypes'
  BY <1>4 DEF TypeInv, LoopTypes, batchVars
<1>. QED
  BY <1>2, <1>4, <1>5, <1>6 DEF TypeInv, ForkInv, Unwinding

LEMMA TypeStep == TypeInv /\ [Next]_vars => TypeInv'
<1>. SUFFICES ASSUME TypeInv, [Next]_vars PROVE TypeInv'
  OBVIOUS
<1>t. TypeOK
  BY TypeInvSuffices
<1>n. UNCHANGED netVars => NetTypes'
  BY NetKept DEF TypeInv
<1>d. UNCHANGED dbVars => DbTypes'
  BY DbKept DEF TypeInv
<1>l. lastIndexed \in 0 .. MaxHeight /\ faults \in 0 .. MaxFaults /\ check \in Checks
  BY DEF TypeInv, LoopTypes
<1>f. loop = "check" => At \in Endpoints
  BY DEF TypeInv, ForkInv, At
<1>r. Fault => faults' \in 0 .. MaxFaults
  BY <1>l, BoundAssumption DEF Fault
<1>k. UNCHANGED <<loop, lastIndexed, check, fork>> => ForkInv'
  BY DEF TypeInv, ForkInv, Unwinding
<1>q. loop' \in {"top", "batch"} => ForkInv'
  BY DEF ForkInv, Unwinding
<1>1. ASSUME ChainGrows PROVE TypeInv'
  <2>1. NetTypes'
    BY <1>1, BoundAssumption DEF ChainGrows, TypeInv, NetTypes, Heights
  <2>2. LoopTypes'
    BY <1>1 DEF ChainGrows, TypeInv, LoopTypes, batchVars
  <2>. QED
    BY <1>1, <1>d, <1>k, <2>1, <2>2, Zenon DEF ChainGrows, TypeInv
<1>2. ASSUME NEW f \in 0 .. MaxHeight - 1, ChainReorgs(f) PROVE TypeInv'
  <2>1. epoch + 1 \in Epochs /\ epoch \in Epochs
    BY <1>2, <1>t, BoundAssumption DEF ChainReorgs, TypeOK, Epochs
  <2>2. \A e \in Epochs : chain[e] \in [0 .. MaxHeight -> Epochs]
    BY <1>t DEF TypeOK
  <2>3. [n \in 0 .. MaxHeight |-> IF n > f THEN epoch + 1 ELSE chain[epoch][n]]
          \in [0 .. MaxHeight -> Epochs]
    <3>1. \A n \in 0 .. MaxHeight : chain[epoch][n] \in Epochs
      BY <2>1, <2>2
    <3>. QED
      BY <2>1, <3>1
  <2>4. chain' \in [Epochs -> [0 .. MaxHeight -> Epochs]]
    BY <1>2, <2>2, <2>3, Zenon DEF ChainReorgs
  <2>5. NetTypes'
    BY <1>2, <2>1, <2>4 DEF ChainReorgs, TypeInv, NetTypes
  <2>6. LoopTypes'
    BY <1>2 DEF ChainReorgs, TypeInv, LoopTypes, batchVars
  <2>. QED
    BY <1>2, <1>d, <1>k, <2>5, <2>6, Zenon DEF ChainReorgs, TypeInv
<1>3. ASSUME NEW p \in Endpoints, EndpointCatchesUp(p) PROVE TypeInv'
  <2>1. view' \in [Endpoints -> [epoch : Epochs, head : Heights]]
    BY <1>3, <1>t DEF EndpointCatchesUp, TypeOK
  <2>2. NetTypes'
    BY <1>3, <2>1 DEF EndpointCatchesUp, TypeInv, NetTypes
  <2>3. LoopTypes'
    BY <1>3 DEF EndpointCatchesUp, TypeInv, LoopTypes, batchVars
  <2>. QED
    BY <1>3, <1>d, <1>k, <2>2, <2>3, Zenon DEF EndpointCatchesUp, TypeInv
<1>4. ASSUME NEW q \in Endpoints, NEW p \in Endpoints, StartCheck(q, p) PROVE TypeInv'
  <2>1. view[q].head \in Heights
    BY <1>t DEF TypeOK
  <2>2. BatchEnd(view[q].head) \in 0 .. MaxHeight
    BY <1>l, <2>1, BatchEndIs
  <2>3. check' \in Checks /\ check'.n = lastIndexed /\ check'.read = "boundary" /\ check'.at = p
    BY <1>4, <1>l, <2>2, BoundAssumption DEF StartCheck, Checks
  <2>4. LoopTypes'
    BY <1>4 DEF StartCheck, TypeInv, LoopTypes, batchVars, Loops
  <2>5. ForkInv'
    BY <1>4, <1>l, <2>3 DEF StartCheck, ForkInv, Unwinding
  <2>. QED
    BY <1>4, <1>n, <1>d, <2>3, <2>4, <2>5, Zenon DEF StartCheck, TypeInv
<1>5. ASSUME ReadBoundary PROVE TypeInv'
  <2>1. CASE NotAReorg
    BY <1>5, <2>1, <1>l, NotAReorgTypes DEF ReadBoundary
  <2>2. CASE WalkFrom(lastIndexed)
    BY <1>5, <2>2, WalkFromTypes DEF ReadBoundary
  <2>3. CASE check' = [check EXCEPT !.read = "tip"] /\ UNCHANGED <<loop, batchVars, fork>>
    <3>1. check' \in Checks /\ check'.n = check.n /\ check'.read = "tip" /\ check'.at = check.at
      BY <2>3, <1>l DEF Checks
    <3>2. LoopTypes'
      BY <1>5, <2>3 DEF ReadBoundary, TypeInv, LoopTypes, batchVars
    <3>3. ForkInv'
      BY <1>5, <2>3, <3>1 DEF ReadBoundary, TypeInv, ForkInv, Unwinding
    <3>. QED
      BY <1>5, <1>n, <1>d, <3>1, <3>2, <3>3, Zenon DEF ReadBoundary, TypeInv
  <2>. QED
    BY <1>5, <2>1, <2>2, <2>3 DEF ReadBoundary
<1>6. ASSUME ReadTip PROVE TypeInv'
  BY <1>6, <1>l, NotAReorgTypes, WalkFromTypes DEF ReadTip
<1>7. ASSUME Walk PROVE TypeInv'
  <2>1. /\ Floor \in 0 .. lastIndexed /\ check.n >= Floor /\ check.n <= lastIndexed
        /\ check.n \in -1 .. MaxHeight
    BY <1>7, <1>l, FloorIs DEF Walk, TypeInv, Checks, ForkInv
  <2>2. CASE Agrees(check.n)
    <3>1. check.n \in 0 .. MaxHeight
      BY <2>1, <1>l
    <3>2. LoopTypes'
      BY <1>7, <2>2, <3>1 DEF Walk, TypeInv, LoopTypes, batchVars, Loops
    <3>3. ForkInv'
      BY <1>7, <2>1, <2>2 DEF Walk, ForkInv, Unwinding
    <3>. QED
      BY <1>7, <2>2, <1>n, <1>d, <3>2, <3>3, NobodyChecks, Zenon DEF Walk, TypeInv
  <2>3. CASE ~ Agrees(check.n)
    <3>1. check.n - 1 \in -1 .. MaxHeight /\ check.n - 1 <= lastIndexed
      BY <2>1, <1>l, BoundAssumption
    <3>2. check' = [check EXCEPT !.n = check.n - 1] /\ UNCHANGED <<loop, fork>>
      BY <1>7, <2>3 DEF Walk
    <3>3. check' \in Checks /\ check'.n = check.n - 1 /\ check'.read = check.read
          /\ check'.at = check.at
      BY <3>1, <3>2, <1>l DEF Checks
    <3>4. LoopTypes'
      BY <1>7, <3>2 DEF Walk, TypeInv, LoopTypes, batchVars
    <3>5. ForkInv'
      BY <1>7, <3>1, <3>2, <3>3 DEF Walk, TypeInv, ForkInv, Unwinding
    <3>. QED
      BY <1>7, <1>n, <1>d, <3>3, <3>4, <3>5, Zenon DEF Walk, TypeInv
  <2>. QED
    BY <2>2, <2>3
<1>8. ASSUME WalkEnds PROVE TypeInv'
  <2>1. check.unresolved \cup {At} \in SUBSET Endpoints
    BY <1>8, <1>f, <1>l DEF WalkEnds, Checks
  <2>2. FailOver(check.unresolved \cup {At}) \/ Conclude(check.unresolved \cup {At})
    BY <1>8 DEF WalkEnds
  <2>. QED
    BY <1>8, <1>l, <2>1, <2>2, FailOverTypes, ConcludeTypes DEF WalkEnds
<1>9. ASSUME ReadFails PROVE TypeInv'
  <2>1. check.unresolved \in SUBSET Endpoints
    BY <1>l DEF Checks
  <2>. QED
    BY <1>9, <1>r, <2>1, FailOverTypes, ConcludeTypes DEF ReadFails
<1>10. ASSUME NEW n \in Heights, NEW p \in Endpoints, IndexBlock(n, p) PROVE TypeInv'
  <2>1. HashAt(p, n) \in Hashes
    BY <1>t, HashType, BoundAssumption DEF Heights
  <2>2. stored' \in [Heights -> Hashes \cup {NoRow}]
    BY <1>10, <2>1, <1>t, RowWritten DEF IndexBlock
  <2>3. children' \in [Heights -> SUBSET Hashes]
    BY <1>10, <2>1, <1>t DEF IndexBlock, TypeOK
  <2>4. lastIndexed' \in lastIndexed .. MaxHeight
    BY <1>10, <1>l, AdvancedIs DEF IndexBlock
  <2>5. lastIndexed' \in 0 .. MaxHeight
    BY <2>4, <1>l
  <2>6. DbTypes'
    BY <1>10, <2>2, <2>3 DEF IndexBlock, TypeInv, DbTypes
  <2>7. LoopTypes'
    BY <1>10, <2>5 DEF IndexBlock, TypeInv, LoopTypes
  <2>8. loop' = "batch" /\ check' = check /\ UNCHANGED netVars
    BY <1>10 DEF IndexBlock
  <2>. QED
    BY <1>n, <1>q, <1>l, <2>6, <2>7, <2>8 DEF TypeInv
<1>11. ASSUME NEW n \in Heights, NEW p \in Endpoints, BlockFailsDirty(n, p) PROVE TypeInv'
  <2>1. HashAt(p, n) \in Hashes
    BY <1>t, HashType, BoundAssumption DEF Heights
  <2>2. stored' \in [Heights -> Hashes \cup {NoRow}]
    BY <1>11, <2>1, <1>t, RowWritten DEF BlockFailsDirty
  <2>3. DbTypes'
    BY <1>11, <2>2 DEF BlockFailsDirty, TypeInv, DbTypes
  <2>4. LoopTypes'
    BY <1>11, <1>r DEF BlockFailsDirty, TypeInv, LoopTypes
  <2>5. loop' = "batch" /\ check' = check /\ UNCHANGED netVars
    BY <1>11 DEF BlockFailsDirty
  <2>. QED
    BY <1>n, <1>q, <1>l, <2>3, <2>4, <2>5 DEF TypeInv
<1>12. ASSUME NEW n \in Heights, BlockFailsClean(n) PROVE TypeInv'
  <2>1. faults' \in 0 .. MaxFaults
    BY <1>12, <1>l, LeastOfTwo, BoundAssumption DEF BlockFailsClean
  <2>2. LoopTypes'
    BY <1>12, <2>1 DEF BlockFailsClean, TypeInv, LoopTypes
  <2>3. loop' = "batch" /\ check' = check /\ UNCHANGED netVars /\ UNCHANGED dbVars
    BY <1>12 DEF BlockFailsClean
  <2>. QED
    BY <1>n, <1>d, <1>q, <1>l, <2>2, <2>3 DEF TypeInv
<1>13. ASSUME EndBatch PROVE TypeInv'
  <2>1. LoopTypes'
    BY <1>13 DEF EndBatch, TypeInv, LoopTypes, Loops
  <2>. QED
    BY <1>13, <1>n, <1>d, <1>q, <1>l, <2>1 DEF EndBatch, TypeInv
<1>14. ASSUME Quarantine PROVE TypeInv'
  <2>1. lastIndexed + 1 \in Heights /\ lastIndexed + 1 \in 0 .. MaxHeight
    BY <1>14, <1>l, BoundAssumption DEF Quarantine, Heights
  <2>2. LoopTypes'
    BY <1>14, <1>r, <2>1 DEF Quarantine, TypeInv, LoopTypes, Loops
  <2>3. DbTypes'
    BY <1>14, <2>1 DEF Quarantine, TypeInv, DbTypes
  <2>. QED
    BY <1>14, <1>n, <1>q, <1>l, <2>2, <2>3 DEF Quarantine, TypeInv
<1>15. ASSUME UnwindPoison PROVE TypeInv'
  <2>1. LoopTypes' /\ DbTypes'
    BY <1>15 DEF UnwindPoison, Below, TypeInv, LoopTypes, DbTypes, Loops, batchVars
  <2>2. ForkInv'
    BY <1>15 DEF UnwindPoison, TypeInv, ForkInv, Unwinding
  <2>. QED
    BY <1>15, <1>n, <1>l, <2>1, <2>2 DEF UnwindPoison, TypeInv
<1>16. ASSUME UnwindChildren PROVE TypeInv'
  <2>1. LoopTypes' /\ DbTypes'
    BY <1>16 DEF UnwindChildren, TypeInv, LoopTypes, DbTypes, Loops, batchVars
  <2>2. ForkInv'
    BY <1>16 DEF UnwindChildren, TypeInv, ForkInv, Unwinding
  <2>. QED
    BY <1>16, <1>n, <1>l, <2>1, <2>2 DEF UnwindChildren, TypeInv
<1>17. ASSUME UnwindBlocks PROVE TypeInv'
  <2>1. LoopTypes' /\ DbTypes'
    BY <1>17 DEF UnwindBlocks, CursorBack, Below, TypeInv, LoopTypes, DbTypes, Loops, batchVars
  <2>. QED
    BY <1>17, <1>n, <1>q, <1>l, <2>1 DEF UnwindBlocks, TypeInv
<1>18. ASSUME UnwindFails PROVE TypeInv'
  <2>1. LoopTypes'
    BY <1>18, <1>r DEF UnwindFails, TypeInv, LoopTypes, Loops, batchVars
  <2>. QED
    BY <1>18, <1>n, <1>d, <1>q, <1>l, <2>1 DEF UnwindFails, TypeInv
<1>19. ASSUME NEW w \in 0 .. MaxHeight, Restart(w) PROVE TypeInv'
  <2>1. LoopTypes'
    BY <1>19, <1>r DEF Restart, TypeInv, LoopTypes, Loops
  <2>. QED
    BY <1>19, <1>n, <1>d, <1>q, NobodyChecks, <2>1 DEF Restart, TypeInv
<1>20. ASSUME UNCHANGED vars PROVE TypeInv'
  <2>1. LoopTypes'
    BY <1>20 DEF vars, TypeInv, LoopTypes, batchVars
  <2>. QED
    BY <1>20, <1>n, <1>d, <1>k, <1>l, <2>1 DEF vars, TypeInv
<1>. QED
  BY <1>1, <1>2, <1>3, <1>4, <1>5, <1>6, <1>7, <1>8, <1>9, <1>10, <1>11, <1>12, <1>13, <1>14,
     <1>15, <1>16, <1>17, <1>18, <1>19, <1>20
  DEF Next, Network, CheckStep, BatchStep, UnwindStep, Failures

(* Every behaviour keeps the types, for any constants.                      *)
THEOREM ReorgTypes == Spec => []TypeOK
<1>1. Spec => []TypeInv
  BY TypeInit, TypeStep, PTL DEF Spec
<1>. QED
  BY <1>1, TypeInvSuffices, PTL
-----------------------------------------------------------------------------
(* No hole below the cursor.                                                *)

HoleInv == NoHoleBelowCursor /\ DoneInv /\ PoisonInv

LEMMA HoleInit == Init => HoleInv
BY DEF Init, HoleInv, NoHoleBelowCursor, DoneInv, PoisonInv

(* A step that takes no row away, nor the cursor anywhere.                  *)
LEMMA HolesKept ==
  ASSUME TypeInv, HoleInv, TypeInv',
         \A n \in Heights : stored[n] # NoRow => stored'[n] # NoRow,
         UNCHANGED <<poison_blocks, lastIndexed, abandoned>>,
         loop' \notin {"unwindChildren", "unwindBlocks"},
         loop' = "batch" => done' = {} \/ (loop = "batch" /\ done' = done)
  PROVE  HoleInv'
<1>1. 1 .. lastIndexed \subseteq Heights /\ done \subseteq Heights
  BY BoundAssumption DEF TypeInv, LoopTypes, Heights
<1>. QED
  BY <1>1 DEF HoleInv, NoHoleBelowCursor, DoneInv, PoisonInv

LEMMA HoleStep == TypeInv /\ HoleInv /\ [Next]_vars => HoleInv'
<1>. SUFFICES ASSUME TypeInv, HoleInv, [Next]_vars PROVE HoleInv'
  OBVIOUS
<1>t. TypeOK /\ TypeInv'
  BY TypeInvSuffices, TypeStep
<1>l. lastIndexed \in 0 .. MaxHeight /\ done \subseteq Heights /\ 1 .. lastIndexed \subseteq Heights
  BY BoundAssumption DEF TypeInv, LoopTypes, Heights
<1>1. ASSUME UNCHANGED <<dbVars, loop, lastIndexed, abandoned, done, fork>> PROVE HoleInv'
  <2>1. UNCHANGED <<stored, poison_blocks, loop, lastIndexed, abandoned, done, fork>>
    BY <1>1 DEF dbVars
  <2>. QED
    BY <2>1 DEF HoleInv, NoHoleBelowCursor, DoneInv, PoisonInv
<1>2. ASSUME UNCHANGED <<dbVars, lastIndexed, abandoned>>,
             loop' \notin {"unwindChildren", "unwindBlocks", "batch"}
      PROVE  HoleInv'
  BY <1>2 DEF HoleInv, NoHoleBelowCursor, DoneInv, PoisonInv, dbVars
<1>3. ASSUME NotAReorg, UNCHANGED <<dbVars, lastIndexed, abandoned>> PROVE HoleInv'
  BY <1>3 DEF NotAReorg, HoleInv, NoHoleBelowCursor, DoneInv, PoisonInv, dbVars
<1>4. ASSUME Network PROVE HoleInv'
  <2>1. UNCHANGED <<dbVars, loop, lastIndexed, abandoned, done, fork>>
    BY <1>4 DEF Network, ChainGrows, ChainReorgs, EndpointCatchesUp, batchVars
  <2>. QED
    BY <1>1, <2>1
<1>5. ASSUME CheckStep \/ ReadFails PROVE HoleInv'
  <2>1. UNCHANGED <<dbVars, lastIndexed, abandoned>>
    BY <1>5 DEF CheckStep, StartCheck, ReadBoundary, ReadTip, Walk, WalkEnds, ReadFails
  <2>2. \/ NotAReorg
        \/ loop' \in {"check", "top", "unwindPoison"}
    BY <1>5
    DEF CheckStep, StartCheck, ReadBoundary, ReadTip, Walk, WalkEnds, ReadFails, WalkFrom, FailOver,
        Conclude
  <2>. QED
    BY <1>2, <1>3, <2>1, <2>2
<1>6. ASSUME NEW n \in Heights, NEW p \in Endpoints, IndexBlock(n, p) PROVE HoleInv'
  <2>1. HashAt(p, n) \in Hashes
    BY <1>t, HashType, BoundAssumption DEF Heights
  <2>2. /\ stored'[n] # NoRow
        /\ \A m \in Heights : stored[m] # NoRow => stored'[m] # NoRow
    BY <1>6, <2>1, <1>t, RowWritten DEF IndexBlock
  <2>3. \A m \in done' : stored'[m] # NoRow
    BY <1>6, <1>l, <2>2 DEF IndexBlock, HoleInv, DoneInv
  <2>4. lastIndexed' \in lastIndexed .. MaxHeight /\ lastIndexed + 1 .. lastIndexed' \subseteq done'
    BY <1>6, <1>l, AdvancedIs DEF IndexBlock
  <2>5. \A m \in 1 .. lastIndexed : stored'[m] # NoRow \/ m \in abandoned'
    BY <1>6, <1>l, <2>2 DEF IndexBlock, HoleInv, NoHoleBelowCursor
  <2>6. NoHoleBelowCursor'
    <3>. SUFFICES ASSUME NEW m \in 1 .. lastIndexed' PROVE stored'[m] # NoRow \/ m \in abandoned'
      BY DEF NoHoleBelowCursor
    <3>1. m \in 1 .. lastIndexed \/ m \in lastIndexed + 1 .. lastIndexed'
      BY <1>l, <2>4
    <3>. QED
      BY <2>3, <2>4, <2>5, <3>1
  <2>. QED
    BY <1>6, <2>3, <2>6 DEF IndexBlock, HoleInv, DoneInv, PoisonInv
<1>7. ASSUME NEW n \in Heights, NEW p \in Endpoints, BlockFailsDirty(n, p) PROVE HoleInv'
  <2>1. HashAt(p, n) \in Hashes
    BY <1>t, HashType, BoundAssumption DEF Heights
  <2>2. \A m \in Heights : stored[m] # NoRow => stored'[m] # NoRow
    BY <1>7, <2>1, <1>t, RowWritten DEF BlockFailsDirty
  <2>. QED
    BY <1>7, <1>t, <2>2, HolesKept DEF BlockFailsDirty
<1>8. ASSUME NEW n \in Heights, BlockFailsClean(n) PROVE HoleInv'
  BY <1>1, <1>8 DEF BlockFailsClean
<1>9. ASSUME EndBatch PROVE HoleInv'
  BY <1>2, <1>9 DEF EndBatch
<1>10. ASSUME Quarantine PROVE HoleInv'
  <2>1. NoHoleBelowCursor'
    <3>. SUFFICES ASSUME NEW m \in 1 .. lastIndexed' PROVE stored'[m] # NoRow \/ m \in abandoned'
      BY DEF NoHoleBelowCursor
    <3>1. m \in 1 .. lastIndexed \/ m = lastIndexed + 1
      BY <1>10, <1>l DEF Quarantine
    <3>. QED
      BY <1>10, <3>1 DEF Quarantine, HoleInv, NoHoleBelowCursor
  <2>. QED
    BY <1>10, <2>1 DEF Quarantine, HoleInv, DoneInv, PoisonInv
<1>11. ASSUME UnwindPoison PROVE HoleInv'
  BY <1>11 DEF UnwindPoison, Below, HoleInv, NoHoleBelowCursor, DoneInv, PoisonInv
<1>12. ASSUME UnwindChildren PROVE HoleInv'
  BY <1>12 DEF UnwindChildren, HoleInv, NoHoleBelowCursor, DoneInv, PoisonInv
<1>13. ASSUME UnwindBlocks PROVE HoleInv'
  <2>1. fork <= lastIndexed /\ fork \in 0 .. MaxHeight
    BY <1>13 DEF UnwindBlocks, TypeInv, ForkInv, LoopTypes, Unwinding
  <2>2. NoHoleBelowCursor'
    <3>. SUFFICES ASSUME NEW m \in 1 .. fork PROVE stored'[m] # NoRow \/ m \in abandoned'
      BY <1>13 DEF UnwindBlocks, CursorBack, NoHoleBelowCursor
    <3>1. m \in 1 .. lastIndexed /\ m \in Heights /\ m <= fork /\ ~ (m > fork)
      BY <1>l, <2>1 DEF Heights
    <3>2. stored'[m] = stored[m]
      BY <1>13, <3>1 DEF UnwindBlocks
    <3>. QED
      BY <1>13, <3>1, <3>2 DEF UnwindBlocks, Below, HoleInv, NoHoleBelowCursor
  <2>. QED
    BY <1>13, <2>2 DEF UnwindBlocks, Below, HoleInv, DoneInv, PoisonInv
<1>14. ASSUME UnwindFails PROVE HoleInv'
  BY <1>2, <1>14 DEF UnwindFails
<1>15. ASSUME NEW w \in 0 .. MaxHeight, Restart(w) PROVE HoleInv'
  <2>1. \A n \in 1 .. w : stored[n] # NoRow \/ n \in poison_blocks
    BY <1>15, ResumeIs DEF Restart
  <2>. QED
    BY <1>15, <2>1 DEF Restart, HoleInv, NoHoleBelowCursor, DoneInv, PoisonInv, dbVars
<1>16. ASSUME UNCHANGED vars PROVE HoleInv'
  BY <1>1, <1>16 DEF vars, batchVars
<1>. QED
  BY <1>4, <1>5, <1>6, <1>7, <1>8, <1>9, <1>10, <1>11, <1>12, <1>13, <1>14, <1>15, <1>16
  DEF Next, BatchStep, UnwindStep, Failures

(* The index is usable between any two statements of a check, a batch, an   *)
(* unwind or a restart: every variable has its type, and below the cursor   *)
(* there is no hole but a height given up on the chain that is stored.      *)
THEOREM IndexStaysUsable == Spec => []IndexUsable
<1>1. TypeInv /\ HoleInv => IndexUsable
  BY TypeInvSuffices DEF IndexUsable, HoleInv
<1>. QED
  BY <1>1, TypeInit, TypeStep, HoleInit, HoleStep, PTL DEF Spec
-----------------------------------------------------------------------------
(* Nothing is unwound on one endpoint's word.                               *)

GenesisInv == OnlyGenesis /\ CleanInv /\ TipInv

LEMMA GenesisInit == Init => GenesisInv
<1>. SUFFICES ASSUME Init PROVE GenesisInv
  OBVIOUS
<1>1. \A n \in Heights : stored[n] \in {0, Alien, NoRow}
  BY DEF Init
<1>2. chain = [e \in Epochs |-> [n \in 0 .. MaxHeight |-> 0]]
  BY DEF Init
<1>3. loop = "top"
  BY DEF Init
<1>. QED
  BY <1>1, <1>2, <1>3 DEF GenesisInv, OnlyGenesis, CleanInv, TipInv, Unwinding

(* Once the chain reorganises, it has.                                      *)
LEMMA ReorgShows ==
  ASSUME TypeInv, NEW f \in 0 .. MaxHeight - 1, ChainReorgs(f)
  PROVE  ~ NeverReorged'
<1>1. /\ epoch \in Epochs /\ epoch + 1 \in Epochs /\ epoch + 1 # 0
      /\ MaxHeight \in Heights /\ MaxHeight > f /\ MaxHeight \in 0 .. MaxHeight
  BY BoundAssumption DEF ChainReorgs, TypeInv, NetTypes, Epochs, Heights
<1>2. ~ (epoch + 1 <= epoch)
  BY <1>1 DEF Epochs
<1>3. chain'[epoch + 1] = [n \in 0 .. MaxHeight |-> IF n > f THEN epoch + 1 ELSE chain[epoch][n]]
  BY <1>1, <1>2, Zenon DEF ChainReorgs
<1>4. chain'[epoch + 1][MaxHeight] = epoch + 1 /\ epoch' = epoch + 1
  BY <1>1, <1>3 DEF ChainReorgs
<1>. QED
  BY <1>1, <1>4 DEF NeverReorged

(* While it has not, every endpoint but a foreign one serves the genesis    *)
(* chain.                                                                   *)
LEMMA GenesisHash ==
  ASSUME TypeInv, OnlyGenesis, NeverReorged, NEW p \in Endpoints, NEW n \in 0 .. MaxHeight
  PROVE  HashAt(p, n) = IF p \in foreign THEN Alien ELSE 0
<1>1. view[p].epoch \in Epochs
  BY DEF TypeInv, NetTypes
<1>2. chain = [e \in Epochs |-> [m \in 0 .. MaxHeight |-> 0]]
  BY DEF OnlyGenesis
<1>3. chain[view[p].epoch] = [m \in 0 .. MaxHeight |-> 0]
  BY <1>1, <1>2
<1>. QED
  BY <1>3 DEF HashAt

LEMMA GenesisStored ==
  ASSUME OnlyGenesis, Clean, NEW n \in 0 .. MaxHeight
  PROVE  Stored(n) \in {0, NoRow} /\ Stored(n) # Alien
<1>1. n # 0 => n \in Heights
  BY BoundAssumption DEF Heights
<1>2. Alien # 0 /\ Alien # NoRow
  BY BoundAssumption DEF Alien, NoRow
<1>. QED
  BY <1>1, <1>2 DEF OnlyGenesis, Clean, Stored

(* No number of foreign endpoints corroborates.                             *)
LEMMA Uncorroborated ==
  ASSUME TooFewStrangers, TypeInv, NEW U \in SUBSET foreign
  PROVE  ~ Corroborated(U)
<1>1. foreign \in Strangers /\ foreign \in SUBSET Endpoints
  BY EndpointAssumption DEF TypeInv, NetTypes
<1>2. IsFiniteSet(foreign)
  BY <1>1, EndpointAssumption, FS_Subset
<1>3. Cardinality(U) <= Cardinality(foreign) /\ IsFiniteSet(U)
  BY <1>2, FS_Subset
<1>4. Cardinality(foreign) \in Nat /\ Cardinality(U) \in Nat /\ Cardinality(Endpoints) \in Nat
  BY <1>2, <1>3, EndpointAssumption, FS_CardinalityType
<1>5. Cardinality(foreign) < Min({2, Cardinality(Endpoints)})
  BY <1>1 DEF TooFewStrangers
<1>6. Min({2, Cardinality(Endpoints)}) \in Int
  BY <1>4, LeastOfTwo
<1>. QED
  BY <1>3, <1>4, <1>5, <1>6 DEF Corroborated

LEMMA GenesisStep ==
  ASSUME TooFewStrangers
  PROVE  TypeInv /\ GenesisInv /\ [Next]_vars => GenesisInv'
<1>. SUFFICES ASSUME TypeInv, GenesisInv, [Next]_vars PROVE GenesisInv'
  OBVIOUS
<1>t. TypeOK /\ lastIndexed \in 0 .. MaxHeight /\ check \in Checks
  BY TypeInvSuffices DEF TypeInv, LoopTypes
<1>g. OnlyGenesis /\ CleanInv /\ TipInv
  BY DEF GenesisInv
<1>f. loop = "check" => At \in Endpoints
  BY DEF TypeInv, ForkInv, At
<1>1. ASSUME UNCHANGED <<chain, epoch, foreign, stored>> PROVE OnlyGenesis' /\ (Clean' <=> Clean)
  BY <1>1, <1>g DEF OnlyGenesis, NeverReorged, Clean
<1>2. ASSUME UNCHANGED <<chain, epoch, foreign, stored>>,
             loop' # "check", ~ Unwinding'
      PROVE  GenesisInv'
  BY <1>1, <1>2 DEF GenesisInv, CleanInv, TipInv
<1>3. ASSUME UNCHANGED <<chain, epoch, foreign, stored, loop, lastIndexed, check>>
      PROVE  GenesisInv'
  BY <1>1, <1>3, <1>g DEF GenesisInv, CleanInv, TipInv, Unwinding, Stored
<1>4. ASSUME UNCHANGED <<chain, epoch, foreign>>, loop' \in {"top", "batch"},
             NeverReorged => \A n \in Heights : stored'[n] \in {0, Alien, NoRow}
      PROVE  GenesisInv'
  <2>1. OnlyGenesis'
    BY <1>4, <1>g DEF OnlyGenesis, NeverReorged
  <2>. QED
    BY <1>4, <2>1 DEF GenesisInv, CleanInv, TipInv, Unwinding
<1>5. ASSUME NotAReorg, UNCHANGED <<netVars, dbVars, lastIndexed>> PROVE GenesisInv'
  BY <1>2, <1>5 DEF NotAReorg, Unwinding, netVars, dbVars
<1>6. ASSUME loop = "check", Clean => At \in foreign, WalkFrom(lastIndexed),
             UNCHANGED <<netVars, dbVars, lastIndexed>>
      PROVE  GenesisInv'
  <2>1. /\ check'.read = "walk" /\ check'.at = check.at /\ check'.unresolved = check.unresolved
        /\ loop' = "check" /\ UNCHANGED <<chain, epoch, foreign, stored>>
    BY <1>6, <1>t DEF WalkFrom, Checks, netVars, dbVars
  <2>. QED
    BY <1>1, <1>6, <1>g, <2>1 DEF GenesisInv, CleanInv, TipInv, Unwinding, At
<1>7. ASSUME loop = "check", NEW U, Clean => U \subseteq foreign, FailOver(U),
             UNCHANGED <<netVars, dbVars, lastIndexed>>
      PROVE  GenesisInv'
  <2>1. /\ check'.read = "boundary" /\ check'.unresolved = U
        /\ loop' = "check" /\ UNCHANGED <<chain, epoch, foreign, stored>>
    BY <1>7, <1>t DEF FailOver, Checks, netVars, dbVars
  <2>. QED
    BY <1>1, <1>7, <1>g, <2>1 DEF GenesisInv, CleanInv, TipInv, Unwinding
<1>8. ASSUME NEW U, Clean => U \subseteq foreign, Conclude(U),
             UNCHANGED <<netVars, dbVars, lastIndexed>>
      PROVE  GenesisInv'
  <2>1. UNCHANGED <<chain, epoch, foreign, stored>> /\ loop' \in {"top", "unwindPoison"}
    BY <1>8 DEF Conclude, netVars, dbVars
  <2>2. Clean => loop' = "top"
    BY <1>8, Uncorroborated DEF Conclude
  <2>. QED
    BY <1>1, <2>1, <2>2 DEF GenesisInv, CleanInv, TipInv, Unwinding
<1>9. ASSUME NEW p \in Endpoints, NEW n \in Heights PROVE NeverReorged => HashAt(p, n) \in {0, Alien}
  BY <1>g, GenesisHash, BoundAssumption DEF Heights
<1>10. ASSUME ChainGrows \/ \E p \in Endpoints : EndpointCatchesUp(p) PROVE GenesisInv'
  BY <1>3, <1>10 DEF ChainGrows, EndpointCatchesUp, dbVars
<1>11. ASSUME NEW f \in 0 .. MaxHeight - 1, ChainReorgs(f) PROVE GenesisInv'
  <2>1. ~ NeverReorged'
    BY <1>11, ReorgShows
  <2>. QED
    BY <1>11, <1>g, <2>1
    DEF ChainReorgs, dbVars, GenesisInv, OnlyGenesis, CleanInv, Clean, TipInv, Stored
<1>12. ASSUME NEW q \in Endpoints, NEW p \in Endpoints, StartCheck(q, p) PROVE GenesisInv'
  <2>1. /\ check'.read = "boundary" /\ check'.unresolved = {}
        /\ loop' = "check" /\ UNCHANGED <<chain, epoch, foreign, stored>>
    BY <1>12 DEF StartCheck, netVars, dbVars
  <2>. QED
    BY <1>1, <2>1 DEF GenesisInv, CleanInv, TipInv, Unwinding
<1>13. ASSUME ReadBoundary PROVE GenesisInv'
  <2>1. CASE NotAReorg
    BY <1>5, <1>13, <2>1 DEF ReadBoundary
  <2>2. CASE /\ Stored(lastIndexed) # NoRow
             /\ check' = [check EXCEPT !.read = "tip"] /\ UNCHANGED <<loop, batchVars, fork>>
    <3>1. /\ check'.read = "tip" /\ check'.unresolved = check.unresolved
          /\ loop' = "check" /\ UNCHANGED <<chain, epoch, foreign, stored, lastIndexed>>
      BY <1>13, <1>t, <2>2 DEF ReadBoundary, Checks, netVars, dbVars
    <3>. QED
      BY <1>1, <1>13, <1>g, <2>2, <3>1
      DEF ReadBoundary, GenesisInv, CleanInv, TipInv, Unwinding, Stored
  <2>3. CASE /\ Stored(lastIndexed) # NoRow /\ HashAt(At, lastIndexed) # Stored(lastIndexed)
             /\ WalkFrom(lastIndexed)
    <3>1. Clean => At \in foreign
      BY <1>13, <1>t, <1>g, <1>f, <2>3, GenesisHash, GenesisStored DEF ReadBoundary, Clean
    <3>. QED
      BY <1>6, <1>13, <2>3, <3>1 DEF ReadBoundary
  <2>. QED
    BY <1>13, <2>1, <2>2, <2>3 DEF ReadBoundary
<1>14. ASSUME ReadTip PROVE GenesisInv'
  <2>1. CASE NotAReorg
    BY <1>5, <1>14, <2>1 DEF ReadTip
  <2>2. CASE HashAt(At, lastIndexed) # Stored(lastIndexed) /\ WalkFrom(lastIndexed)
    <3>1. Stored(lastIndexed) # NoRow
      BY <1>14, <1>g DEF ReadTip, TipInv
    <3>2. Clean => At \in foreign
      BY <1>14, <1>t, <1>g, <1>f, <2>2, <3>1, GenesisHash, GenesisStored DEF ReadTip, Clean
    <3>. QED
      BY <1>6, <1>14, <2>2, <3>2 DEF ReadTip
  <2>. QED
    BY <1>14, <2>1, <2>2 DEF ReadTip
<1>15. ASSUME Walk PROVE GenesisInv'
  <2>1. check.n \in 0 .. MaxHeight
    <3>1. Floor \in 0 .. lastIndexed /\ check.n >= Floor /\ check.n \in -1 .. MaxHeight
      BY <1>15, <1>t, FloorIs DEF Walk, Checks
    <3>. QED
      BY <3>1, <1>t
  <2>2. ASSUME Clean, Agrees(check.n) PROVE FALSE
    <3>1. At \in foreign /\ At \in Endpoints
      BY <1>15, <1>g, <1>f, <2>2 DEF Walk, CleanInv, At
    <3>2. HashAt(At, check.n) = Alien
      BY <2>1, <2>2, <3>1, <1>g, GenesisHash DEF Clean
    <3>. QED
      BY <2>1, <2>2, <3>2, <1>g, GenesisStored DEF Agrees
  <2>3. UNCHANGED <<chain, epoch, foreign, stored>>
    BY <1>15 DEF Walk, netVars, dbVars
  <2>4. CASE Agrees(check.n)
    <3>1. ~ Clean /\ loop' = "unwindPoison"
      BY <1>15, <2>2, <2>4 DEF Walk
    <3>. QED
      BY <1>1, <2>3, <3>1 DEF GenesisInv, CleanInv, TipInv
  <2>5. CASE ~ Agrees(check.n)
    <3>1. /\ check'.read = "walk" /\ check'.at = check.at /\ check'.unresolved = check.unresolved
          /\ loop' = "check"
      BY <1>15, <1>t, <2>5 DEF Walk, Checks
    <3>. QED
      BY <1>1, <1>15, <1>g, <2>3, <3>1 DEF Walk, GenesisInv, CleanInv, TipInv, Unwinding
  <2>. QED
    BY <2>4, <2>5
<1>16. ASSUME WalkEnds PROVE GenesisInv'
  <2>1. Clean => check.unresolved \cup {At} \subseteq foreign
    BY <1>16, <1>g DEF WalkEnds, CleanInv, At
  <2>2. FailOver(check.unresolved \cup {At}) \/ Conclude(check.unresolved \cup {At})
    BY <1>16 DEF WalkEnds
  <2>. QED
    BY <1>7, <1>8, <1>16, <2>1, <2>2 DEF WalkEnds
<1>17. ASSUME ReadFails PROVE GenesisInv'
  <2>1. Clean => check.unresolved \subseteq foreign
    BY <1>17, <1>g DEF ReadFails, CleanInv
  <2>. QED
    BY <1>7, <1>8, <1>17, <2>1 DEF ReadFails
<1>18. ASSUME NEW n \in Heights, NEW p \in Endpoints, IndexBlock(n, p) \/ BlockFailsDirty(n, p)
       PROVE  GenesisInv'
  <2>1. /\ stored' = WithRow(n, HashAt(p, n)) /\ loop' = "batch"
        /\ UNCHANGED <<chain, epoch, foreign>>
    BY <1>18 DEF IndexBlock, BlockFailsDirty, netVars
  <2>2. stored \in [Heights -> Hashes \cup {NoRow}]
    BY <1>t DEF TypeOK
  <2>3. NeverReorged => \A m \in Heights : stored'[m] \in {0, Alien, NoRow}
    BY <1>9, <1>g, <2>1, <2>2 DEF WithRow, OnlyGenesis
  <2>. QED
    BY <1>4, <2>1, <2>3
<1>19. ASSUME \/ \E n \in Heights : BlockFailsClean(n)
              \/ EndBatch
              \/ Quarantine
              \/ UnwindFails
              \/ \E w \in 0 .. MaxHeight : Restart(w)
       PROVE  GenesisInv'
  <2>1. UNCHANGED <<chain, epoch, foreign, stored>> /\ loop' \in {"top", "batch"}
    BY <1>19 DEF BlockFailsClean, EndBatch, Quarantine, UnwindFails, Restart, netVars, dbVars
  <2>. QED
    BY <1>4, <1>g, <2>1 DEF OnlyGenesis
<1>20. ASSUME UnwindPoison \/ UnwindChildren PROVE GenesisInv'
  <2>1. UNCHANGED <<chain, epoch, foreign, stored>> /\ loop' # "check" /\ Unwinding
    BY <1>20 DEF UnwindPoison, UnwindChildren, Unwinding, netVars
  <2>2. ~ Clean
    BY <1>g, <2>1 DEF CleanInv
  <2>. QED
    BY <1>1, <2>1, <2>2 DEF GenesisInv, CleanInv, TipInv
<1>21. ASSUME UnwindBlocks PROVE GenesisInv'
  <2>1. /\ stored' = [n \in Heights |-> IF n > fork THEN NoRow ELSE stored[n]] /\ loop' = "top"
        /\ UNCHANGED <<chain, epoch, foreign>>
    BY <1>21 DEF UnwindBlocks, netVars
  <2>2. NeverReorged => \A m \in Heights : stored'[m] \in {0, Alien, NoRow}
    BY <1>g, <2>1 DEF OnlyGenesis
  <2>. QED
    BY <1>4, <2>1, <2>2
<1>22. ASSUME UNCHANGED vars PROVE GenesisInv'
  BY <1>3, <1>22 DEF vars, netVars, dbVars
<1>. QED
  BY <1>10, <1>11, <1>12, <1>13, <1>14, <1>15, <1>16, <1>17, <1>18, <1>19, <1>20, <1>21, <1>22
  DEF Next, Network, CheckStep, BatchStep, UnwindStep, Failures

(* What is stored stays, unless the loop unwinds.                           *)
LEMMA RowsStay ==
  ASSUME TypeInv, CleanInv, [Next]_vars, Clean, NEW n \in Heights, stored[n] # NoRow
  PROVE  stored'[n] # NoRow
<1>t. TypeOK
  BY TypeInvSuffices
<1>u. ~ Unwinding
  BY DEF CleanInv
<1>1. ASSUME NEW m \in Heights, NEW p \in Endpoints, IndexBlock(m, p) \/ BlockFailsDirty(m, p)
      PROVE  stored'[n] # NoRow
  <2>1. HashAt(p, m) \in Hashes
    BY <1>t, HashType, BoundAssumption DEF Heights
  <2>2. WithRow(m, HashAt(p, m))[n] = stored[n]
    BY <2>1, <1>t, RowWritten
  <2>. QED
    BY <1>1, <2>2 DEF IndexBlock, BlockFailsDirty
<1>2. ASSUME Network PROVE stored'[n] # NoRow
  BY <1>2 DEF Network, ChainGrows, ChainReorgs, EndpointCatchesUp, dbVars
<1>3. ASSUME CheckStep \/ ReadFails PROVE stored'[n] # NoRow
  BY <1>3 DEF CheckStep, StartCheck, ReadBoundary, ReadTip, Walk, WalkEnds, ReadFails, dbVars
<1>4. ASSUME UnwindStep \/ UnwindFails PROVE stored'[n] # NoRow
  BY <1>4, <1>u DEF UnwindStep, UnwindPoison, UnwindChildren, UnwindBlocks, UnwindFails, Unwinding
<1>5. ASSUME \/ \E m \in Heights : BlockFailsClean(m)
             \/ EndBatch
             \/ Quarantine
             \/ \E w \in 0 .. MaxHeight : Restart(w)
             \/ UNCHANGED vars
      PROVE  stored'[n] # NoRow
  BY <1>5 DEF BlockFailsClean, EndBatch, Quarantine, Restart, vars, dbVars
<1>. QED
  BY <1>1, <1>2, <1>3, <1>4, <1>5 DEF Next, BatchStep, Failures

(* One endpoint's word deletes nothing: as long as the endpoints of another *)
(* chain are too few to corroborate one another, no check, whichever        *)
(* endpoints it asks, leads to an unwind of a chain that did not reorganise. *)
THEOREM OneWordDeletesNothing ==
  ASSUME TooFewStrangers
  PROVE  Spec => OneEndpointDeletesNothing
<1>1. TypeInv /\ GenesisInv /\ [Next]_vars =>
        [(\A n \in Heights : chain[epoch][n] = 0) /\ (\A n \in Heights : stored[n] # Alien) =>
           \A n \in Heights : stored[n] # NoRow => stored'[n] # NoRow]_vars
  BY RowsStay DEF GenesisInv, Clean, NeverReorged
<1>2. Spec => [](TypeInv /\ GenesisInv)
  <2>1. Init => TypeInv /\ GenesisInv
    BY TypeInit, GenesisInit
  <2>2. TypeInv /\ GenesisInv /\ [Next]_vars => TypeInv' /\ GenesisInv'
    BY TypeStep, GenesisStep
  <2>. QED
    BY <2>1, <2>2, PTL DEF Spec
<1>. QED
  BY <1>1, <1>2, PTL DEF Spec, OneEndpointDeletesNothing

=============================================================================
