------------------------- MODULE SchemaIndexesProofs -------------------------
(***************************************************************************)
(* Theorems about SchemaIndexes, for any number of generations and          *)
(* partitions, and about PartitionLadder, for any processes, widths and     *)
(* heights.                                                                 *)
(***************************************************************************)
EXTENDS EnsureSchema, TLAPS, FiniteSetTheorems, SequenceTheorems, WellFoundedInduction

Places == {"off", "sweep", "building", "made", "failed", "retire", "parent", "covered", "loop",
           "gone"}

BootState == [at : Places, listed : SUBSET IndexNames, todo : SUBSET Partitions,
              seen : SUBSET Partitions, on : IndexNames]

(* What is built, attached or dropped: the types.                           *)
TypeInv ==
  /\ followed \in {"key", "byName", "byCatalog"}
  /\ leaf \in [IndexNames -> {"none", "building", "dead", "valid"}]
  /\ parts \in SUBSET Partitions
  /\ parent \in {"none", "invalid", "valid"}
  /\ attached \in [Partitions -> {"none", "built", "cloned"}]
  /\ boot \in [Generations -> BootState]
  /\ keyed \in BOOLEAN /\ outdated \in BOOLEAN /\ oldKey \in BOOLEAN

LEMMA Least ==
  ASSUME NEW S \in SUBSET Partitions, S # {}
  PROVE  Min(S) \in S /\ \A n \in S : Min(S) <= n
<1>1. S \in SUBSET Nat
  BY DEF Partitions
<1>2. PICK m \in S : \A n \in S : ~ (<<n, m>> \in OpToRel(<, Nat))
  BY <1>1, NatLessThanWellFounded, WFMin
<1>3. \A n \in S : m <= n
  <2>1. \A n \in S : ~ (n < m)
    BY <1>1, <1>2, Zenon DEF OpToRel
  <2>. QED
    BY <1>1, <2>1
<1>. QED
  BY <1>3 DEF Min

LEMMA Greatest ==
  ASSUME NEW S \in SUBSET Partitions, S # {}
  PROVE  Max(S) \in S /\ \A n \in S : n <= Max(S)
<1> DEFINE T == {MaxPartition + 1 - n : n \in S}
<1>1. T \in SUBSET Partitions /\ T # {}
  <2>1. \A n \in S : MaxPartition + 1 - n \in Partitions
    BY SchemaAssumption DEF Partitions
  <2>. QED
    BY <2>1
<1> HIDE DEF T
<1>2. Min(T) \in T /\ \A t \in T : Min(T) <= t
  BY <1>1, Least
<1>3. PICK x \in S : Min(T) = MaxPartition + 1 - x
  BY <1>2 DEF T
<1>4. \A n \in S : MaxPartition + 1 - x <= MaxPartition + 1 - n
  BY <1>2, <1>3 DEF T
<1>5. \A n \in S : x >= n
  BY <1>4, SchemaAssumption DEF Partitions
<1>. QED
  BY <1>5 DEF Max

-----------------------------------------------------------------------------
LEMMA TypeInit == SchemaInit => TypeInv
<1>1. Asleep \in BootState
  BY DEF Asleep, BootState, Places, IndexNames, NewKey
<1>2. FirstParts \in SUBSET Partitions
  BY SchemaAssumption DEF Partitions
<1>. QED
  BY <1>1, <1>2 DEF SchemaInit, TypeInv

LEMMA TypeStep == TypeInv /\ [SchemaNext]_schemaVars => TypeInv'
<1> SUFFICES ASSUME TypeInv, [SchemaNext]_schemaVars PROVE TypeInv'
  OBVIOUS
<1> USE DEF TypeInv
<1>a. Asleep \in BootState /\ NewKey \in IndexNames
  BY DEF Asleep, BootState, Places, IndexNames, NewKey
<1>b. \A g \in Generations : \A at \in Places : Turns(g, at) => boot' \in [Generations -> BootState]
  BY DEF Turns, BootState
<1>c. \A g \in Generations : Sleeps(g) => boot' \in [Generations -> BootState]
  BY <1>a DEF Sleeps
<1>d. \A g \in Generations, n \in IndexNames : Strike(g, n) => boot' \in [Generations -> BootState]
  BY DEF Strike, BootState
<1>e. \A g \in Generations, n \in IndexNames : Create(g, n) => TypeInv'
  <2> SUFFICES ASSUME NEW g \in Generations, NEW n \in IndexNames, Create(g, n) PROVE TypeInv'
    OBVIOUS
  <2>1. PICK at \in Places : boot' = [boot EXCEPT ![g] = [@ EXCEPT !.at = at, !.on = n]]
    BY DEF Create, Places
  <2>2. boot' \in [Generations -> BootState]
    <3>1. [boot[g] EXCEPT !.at = at, !.on = n] \in BootState
      BY DEF BootState
    <3>. QED
      BY <2>1, <3>1
  <2>3. leaf' \in [IndexNames -> {"none", "building", "dead", "valid"}]
    BY DEF Create
  <2>. QED
    BY <2>2, <2>3 DEF Create
<1>f. \A g \in Generations, p \in IndexNames : MovesAlong(g, p) => boot' \in [Generations -> BootState]
  <2> SUFFICES ASSUME NEW g \in Generations, NEW p \in IndexNames, MovesAlong(g, p)
               PROVE  boot' \in [Generations -> BootState]
    OBVIOUS
  <2>1. [boot[g] EXCEPT !.at = "loop", !.on = NewKey,
                        !.todo = boot[g].todo \ {p}, !.seen = boot[g].seen \ {p}] \in BootState
    BY <1>a DEF BootState, Places
  <2>. QED
    BY <2>1 DEF MovesAlong
<1>g. \A n \in IndexNames, at \in Places : Resume(n, at) => boot' \in [Generations -> BootState]
  BY DEF Resume, BootState
<1>1. CASE ReplayTrade
  BY <1>1 DEF ReplayTrade, catalog
<1>2. CASE ForwardPartition
  BY <1>2 DEF ForwardPartition
<1>3. CASE DropPartition
  <2>1. Min(parts) \in IndexNames => leaf' \in [IndexNames -> {"none", "building", "dead", "valid"}]
    BY <1>3 DEF DropPartition
  <2>. QED
    BY <1>3 DEF DropPartition
<1>4. ASSUME NEW n \in IndexNames, BuildEnds(n) PROVE TypeInv'
  BY <1>4, <1>g DEF BuildEnds, Places
<1>5. ASSUME NEW n \in IndexNames, BuildDies(n) PROVE TypeInv'
  BY <1>5, <1>g DEF BuildDies, Places
<1>6. ASSUME NEW g \in Generations, Boot(g) PROVE TypeInv'
  <2>1. [[Asleep EXCEPT !.at = "sweep"] EXCEPT !.listed = InvalidIndexes] \in BootState
    BY <1>a DEF BootState, Places, InvalidIndexes
  <2>. QED
    BY <1>6, <2>1 DEF Boot, catalog
<1>7. ASSUME NEW g \in Generations, SweepSkips(g) PROVE TypeInv'
  <2>1. PICK n \in boot[g].listed : Strike(g, n)
    BY <1>7 DEF SweepSkips
  <2>2. n \in IndexNames
    BY DEF BootState
  <2>. QED
    BY <1>7, <1>d, <2>1, <2>2 DEF SweepSkips, catalog
<1>8. ASSUME NEW g \in Generations, SweepDrops(g) PROVE TypeInv'
  <2>1. PICK n \in boot[g].listed : leaf' = [leaf EXCEPT ![n] = "none"] /\ Strike(g, n)
                                  /\ outdated' = (outdated \/ leaf[n] = "valid")
    BY <1>8 DEF SweepDrops
  <2>2. n \in IndexNames
    BY DEF BootState
  <2>. QED
    BY <1>8, <1>d, <2>1, <2>2 DEF SweepDrops
<1>9. ASSUME NEW g \in Generations, CreateKey(g) PROVE TypeInv'
  BY <1>9, <1>a, <1>e DEF CreateKey
<1>10. ASSUME NEW g \in Generations, CheckKey(g) PROVE TypeInv'
  BY <1>10, <1>b, <1>c DEF CheckKey, catalog, Places
<1>11. ASSUME NEW g \in Generations, RetireKey(g) PROVE TypeInv'
  BY <1>11, <1>c DEF RetireKey
<1>12. ASSUME NEW g \in Generations, RetireFails(g) PROVE TypeInv'
  BY <1>12, <1>c DEF RetireFails, catalog
<1>13. ASSUME NEW g \in Generations, BeginPartitions(g) PROVE TypeInv'
  BY <1>13, <1>c DEF BeginPartitions, catalog, BootState, Places
<1>14. ASSUME NEW g \in Generations, CreateParent(g) PROVE TypeInv'
  BY <1>14, <1>b DEF CreateParent, Places
<1>15. ASSUME NEW g \in Generations, CreateParentFails(g) PROVE TypeInv'
  BY <1>15, <1>c DEF CreateParentFails, catalog
<1>16. ASSUME NEW g \in Generations, ReadCovered(g) PROVE TypeInv'
  <2>1. boot[g] \in BootState /\ Covered \cap boot[g].todo \in SUBSET Partitions
    BY <1>a DEF BootState
  <2>2. [[boot[g] EXCEPT !.at = "loop"] EXCEPT !.seen = Covered \cap boot[g].todo] \in BootState
    BY <2>1 DEF BootState, Places
  <2>. QED
    BY <1>16, <2>2 DEF ReadCovered, catalog
<1>17. ASSUME NEW g \in Generations, PassOver(g) PROVE TypeInv'
  <2>1. boot[g].todo \in SUBSET Partitions /\ boot[g].todo # {}
    BY <1>17 DEF PassOver, BootState
  <2>2. Min(boot[g].todo) \in IndexNames
    BY <2>1, Least DEF IndexNames
  <2>. QED
    BY <1>17, <1>f, <2>2 DEF PassOver, catalog
<1>18. ASSUME NEW g \in Generations, CreateChild(g) PROVE TypeInv'
  <2>1. boot[g].todo \in SUBSET Partitions /\ boot[g].todo # {}
    BY <1>18 DEF CreateChild, BootState
  <2>2. Min(boot[g].todo) \in IndexNames
    BY <2>1, Least DEF IndexNames
  <2>. QED
    BY <1>18, <1>e, <2>2 DEF CreateChild
<1>19. ASSUME NEW g \in Generations, Attach(g) PROVE TypeInv'
  <2>1. boot[g].on \in IndexNames
    BY DEF BootState
  <2>2. parent' \in {"none", "invalid", "valid"}
    BY <1>19 DEF Attach, LooksAgain
  <2>3. attached' \in [Partitions -> {"none", "built", "cloned"}]
    BY <1>19 DEF Attach
  <2>. QED
    BY <1>19, <1>f, <2>1, <2>2, <2>3 DEF Attach
<1>20. ASSUME NEW g \in Generations, PartitionFails(g) PROVE TypeInv'
  <2>1. boot[g].on \in IndexNames
    BY DEF BootState
  <2>. QED
    BY <1>20, <1>f, <2>1 DEF PartitionFails, catalog
<1>21. ASSUME NEW g \in Generations, EndPartitions(g) PROVE TypeInv'
  BY <1>21, <1>c DEF EndPartitions, LooksAgain
<1>22. ASSUME NEW g \in Generations, Stopped(g) PROVE TypeInv'
  <2>1. [Asleep EXCEPT !.at = "gone"] \in BootState
    BY <1>a DEF BootState, Places
  <2>. QED
    BY <1>22, <2>1 DEF Stopped, catalog
<1>23. CASE UNCHANGED schemaVars
  BY <1>23 DEF schemaVars, catalog
<1>. QED
  BY <1>1, <1>2, <1>3, <1>4, <1>5, <1>6, <1>7, <1>8, <1>9, <1>10, <1>11, <1>12, <1>13, <1>14,
     <1>15, <1>16, <1>17, <1>18, <1>19, <1>20, <1>21, <1>22, <1>23
  DEF SchemaNext, Onward

-----------------------------------------------------------------------------
(* The natural key.  Whoever is about to retire the old one has seen the    *)
(* new one valid, and only a sweep has taken a valid index since.           *)
RetiresReplaced ==
  \A g \in Generations : IsAt(g, "retire") /\ ~outdated => leaf[NewKey] = "valid"

KeyInv == OneKeyLeft /\ (followed = "key" => RetiresReplaced)

LEMMA KeyInit == SchemaInit => KeyInv
BY DEF SchemaInit, KeyInv, OneKeyLeft, RetiresReplaced, IsAt, Asleep

(* What leaves the key, its history and the places of retirement alone.     *)
LEMMA KeyUntouched ==
  ASSUME KeyInv, followed' = followed, keyed' = keyed, outdated' = outdated, oldKey' = oldKey,
         leaf[NewKey] = "valid" => leaf'[NewKey] = "valid",
         \A h \in Generations : IsAt(h, "retire")' => IsAt(h, "retire")
  PROVE  KeyInv'
BY DEF KeyInv, OneKeyLeft, RetiresReplaced

LEMMA KeyStep == TypeInv /\ KeyInv /\ [SchemaNext]_schemaVars => KeyInv'
<1> SUFFICES ASSUME TypeInv, KeyInv, [SchemaNext]_schemaVars PROVE KeyInv'
  OBVIOUS
<1>a. /\ boot \in [Generations -> BootState]
      /\ leaf \in [IndexNames -> {"none", "building", "dead", "valid"}]
      /\ NewKey \in IndexNames /\ NewKey \notin Partitions
  BY DEF TypeInv, IndexNames, NewKey, Partitions
<1>b. \A g \in Generations : Sleeps(g) =>
        \A h \in Generations : IsAt(h, "retire")' => IsAt(h, "retire")
  BY <1>a DEF Sleeps, IsAt, Asleep
<1>c. \A g \in Generations, at \in Places \ {"retire"} : Turns(g, at) =>
        \A h \in Generations : IsAt(h, "retire")' => IsAt(h, "retire")
  BY <1>a DEF Turns, IsAt, BootState
<1>d. \A g \in Generations : \A n : Strike(g, n) =>
        \A h \in Generations : IsAt(h, "retire")' => IsAt(h, "retire")
  BY <1>a DEF Strike, IsAt, BootState
<1>e. \A g \in Generations : \A n : MovesAlong(g, n) =>
        \A h \in Generations : IsAt(h, "retire")' => IsAt(h, "retire")
  BY <1>a DEF MovesAlong, IsAt, BootState
<1>f. \A n, at : at # "retire" /\ Resume(n, at) =>
        \A h \in Generations : IsAt(h, "retire")' => IsAt(h, "retire")
  BY <1>a DEF Resume, IsAt, BootState
<1>g. ASSUME NEW g \in Generations, NEW n \in IndexNames, Create(g, n) PROVE KeyInv'
  <2>1. \A h \in Generations : IsAt(h, "retire")' => IsAt(h, "retire")
    BY <1>a, <1>g DEF Create, IsAt, BootState
  <2>2. leaf[NewKey] = "valid" => leaf'[NewKey] = "valid"
    BY <1>a, <1>g DEF Create
  <2>. QED
    BY <1>g, <2>1, <2>2, KeyUntouched DEF Create
<1>1. CASE ReplayTrade
  BY <1>1, KeyUntouched DEF ReplayTrade, catalog, IsAt
<1>2. CASE ForwardPartition
  BY <1>2, KeyUntouched DEF ForwardPartition, IsAt
<1>3. CASE DropPartition
  BY <1>3 DEF DropPartition, OfPartition, KeyInv, OneKeyLeft
<1>4. ASSUME NEW n \in IndexNames, BuildEnds(n) PROVE KeyInv'
  <2>1. \A h \in Generations : IsAt(h, "retire")' => IsAt(h, "retire")
    BY <1>4, <1>f DEF BuildEnds
  <2>2. leaf[NewKey] = "valid" => leaf'[NewKey] = "valid"
    BY <1>a, <1>4 DEF BuildEnds
  <2>3. n = NewKey => leaf'[NewKey] = "valid"
    BY <1>a, <1>4 DEF BuildEnds
  <2>4. n # NewKey => keyed' = keyed
    BY <1>4 DEF BuildEnds, TypeInv
  <2>. QED
    BY <1>4, <2>1, <2>2, <2>3, <2>4 DEF BuildEnds, KeyInv, OneKeyLeft, RetiresReplaced
<1>5. ASSUME NEW n \in IndexNames, BuildDies(n) PROVE KeyInv'
  <2>1. \A h \in Generations : IsAt(h, "retire")' => IsAt(h, "retire")
    BY <1>5, <1>f DEF BuildDies
  <2>2. leaf[NewKey] = "valid" => leaf'[NewKey] = "valid"
    BY <1>a, <1>5 DEF BuildDies
  <2>. QED
    BY <1>5, <2>1, <2>2, KeyUntouched DEF BuildDies
<1>6. ASSUME NEW g \in Generations, Boot(g) PROVE KeyInv'
  <2>1. \A h \in Generations : IsAt(h, "retire")' => IsAt(h, "retire")
    BY <1>a, <1>6 DEF Boot, IsAt, Asleep
  <2>. QED
    BY <1>6, <2>1, KeyUntouched DEF Boot, catalog
<1>7. ASSUME NEW g \in Generations, SweepSkips(g) PROVE KeyInv'
  BY <1>7, <1>d, KeyUntouched DEF SweepSkips, catalog
<1>8. ASSUME NEW g \in Generations, SweepDrops(g) PROVE KeyInv'
  <2>1. PICK n \in boot[g].listed : leaf' = [leaf EXCEPT ![n] = "none"] /\ Strike(g, n)
                                  /\ outdated' = (outdated \/ leaf[n] = "valid")
    BY <1>8 DEF SweepDrops
  <2>2. ~outdated' => ~outdated /\ (leaf[NewKey] = "valid" => leaf'[NewKey] = "valid")
    BY <1>a, <2>1
  <2>3. \A h \in Generations : IsAt(h, "retire")' => IsAt(h, "retire")
    BY <1>d, <2>1
  <2>. QED
    BY <1>8, <2>2, <2>3 DEF SweepDrops, KeyInv, OneKeyLeft, RetiresReplaced
<1>9. ASSUME NEW g \in Generations, CreateKey(g) PROVE KeyInv'
  BY <1>9, <1>a, <1>g DEF CreateKey
<1>10. ASSUME NEW g \in Generations, CheckKey(g) PROVE KeyInv'
  <2>1. CASE ReplacementValid(NewKey)
    <3>1. \A h \in Generations : IsAt(h, "retire")' => IsAt(h, "retire") \/ leaf'[NewKey] = "valid"
      BY <1>10, <2>1 DEF CheckKey, ReplacementValid, catalog
    <3>. QED
      BY <1>10, <3>1 DEF CheckKey, catalog, KeyInv, OneKeyLeft, RetiresReplaced
  <2>2. CASE ~ReplacementValid(NewKey)
    BY <1>10, <1>b, <2>2, KeyUntouched DEF CheckKey, catalog
  <2>. QED
    BY <2>1, <2>2
<1>11. ASSUME NEW g \in Generations, RetireKey(g) PROVE KeyInv'
  <2>1. \A h \in Generations : IsAt(h, "retire")' => IsAt(h, "retire")
    BY <1>11, <1>b DEF RetireKey
  <2>2. followed = "key" /\ ~outdated => leaf[NewKey] = "valid"
    BY <1>11 DEF RetireKey, KeyInv, RetiresReplaced
  <2>. QED
    BY <1>11, <2>1, <2>2 DEF RetireKey, KeyInv, OneKeyLeft, RetiresReplaced
<1>12. ASSUME NEW g \in Generations, RetireFails(g) PROVE KeyInv'
  BY <1>12, <1>b, KeyUntouched DEF RetireFails, catalog
<1>13. ASSUME NEW g \in Generations, BeginPartitions(g) PROVE KeyInv'
  BY <1>13 DEF BeginPartitions, OfPartition, KeyInv, OneKeyLeft
<1>14. ASSUME NEW g \in Generations, CreateParent(g) PROVE KeyInv'
  BY <1>14, <1>c, KeyUntouched DEF CreateParent, Places
<1>15. ASSUME NEW g \in Generations, CreateParentFails(g) PROVE KeyInv'
  BY <1>15, <1>b, KeyUntouched DEF CreateParentFails, catalog
<1>16. ASSUME NEW g \in Generations, ReadCovered(g) PROVE KeyInv'
  <2>1. \A h \in Generations : IsAt(h, "retire")' => IsAt(h, "retire")
    BY <1>a, <1>16 DEF ReadCovered, IsAt, BootState
  <2>. QED
    BY <1>16, <2>1, KeyUntouched DEF ReadCovered, catalog
<1>17. ASSUME NEW g \in Generations, PassOver(g) PROVE KeyInv'
  BY <1>17 DEF PassOver, catalog, KeyInv, OneKeyLeft
<1>18. ASSUME NEW g \in Generations, CreateChild(g) PROVE KeyInv'
  <2>1. boot[g].todo \in SUBSET Partitions /\ boot[g].todo # {}
    BY <1>a, <1>18 DEF CreateChild, BootState
  <2>2. Min(boot[g].todo) \in IndexNames
    BY <2>1, Least DEF IndexNames
  <2>. QED
    BY <1>18, <1>g, <2>2 DEF CreateChild
<1>19. ASSUME NEW g \in Generations, Attach(g) PROVE KeyInv'
  BY <1>19 DEF Attach, OfPartition, KeyInv, OneKeyLeft
<1>20. ASSUME NEW g \in Generations, PartitionFails(g) PROVE KeyInv'
  BY <1>20, <1>e, KeyUntouched DEF PartitionFails, catalog
<1>21. ASSUME NEW g \in Generations, EndPartitions(g) PROVE KeyInv'
  BY <1>21, <1>b, KeyUntouched DEF EndPartitions
<1>22. ASSUME NEW g \in Generations, Stopped(g) PROVE KeyInv'
  <2>1. \A h \in Generations : IsAt(h, "retire")' => IsAt(h, "retire")
    BY <1>a, <1>22 DEF Stopped, IsAt, Asleep
  <2>. QED
    BY <1>22, <2>1, KeyUntouched DEF Stopped, catalog
<1>23. CASE UNCHANGED schemaVars
  BY <1>23, KeyUntouched DEF schemaVars, catalog, IsAt
<1>. QED
  BY <1>1, <1>2, <1>3, <1>4, <1>5, <1>6, <1>7, <1>8, <1>9, <1>10, <1>11, <1>12, <1>13, <1>14,
     <1>15, <1>16, <1>17, <1>18, <1>19, <1>20, <1>21, <1>22, <1>23
  DEF SchemaNext, Onward

-----------------------------------------------------------------------------
(* One index on each partition.  What a generation still has to do lies     *)
(* among the partitions there were, so one that is born with a clone is not *)
(* in it, and of those that were, it knows by the catalog which have one.   *)
Working(g) == \E at \in {"loop", "building", "made", "failed"} : IsAt(g, at)

NotAbove(p) == \E q \in parts : p <= q

OnlyHere ==
  \A p \in Partitions \ parts : leaf[p] = "none" /\ attached[p] = "none"

TodoKnown ==
  \A g \in Generations : \A p \in boot[g].todo :
    /\ NotAbove(p)
    /\ Working(g) /\ p \notin boot[g].seen => attached[p] # "cloned"

PartInv ==
  followed = "byCatalog" => parts # {} /\ OnlyHere /\ TodoKnown /\ OneIndexEach

LEMMA PartInit == SchemaInit => PartInv
<1> SUFFICES ASSUME SchemaInit, followed = "byCatalog" PROVE PartInv
  BY DEF PartInv
<1>1. parts # {}
  BY SchemaAssumption DEF SchemaInit, OfPartition
<1>2. OnlyHere /\ OneIndexEach
  <2>1. \A p \in Partitions : leaf[p] = "none" /\ attached[p] = "none"
    BY DEF SchemaInit, IndexNames
  <2>2. \A p \in parts : p \in Partitions
    BY SchemaAssumption DEF SchemaInit, OfPartition, Partitions
  <2>. QED
    BY <2>1, <2>2 DEF OnlyHere, OneIndexEach
<1>3. TodoKnown
  BY DEF SchemaInit, TodoKnown, Asleep
<1>. QED
  BY <1>1, <1>2, <1>3 DEF PartInv

(* What a generation has to do gets no more, and the catalog stays.         *)
LEMMA PartUntouched ==
  ASSUME PartInv, followed' = followed, parts' = parts, attached' = attached,
         \A p \in parts : leaf[p] = "none" => leaf'[p] = "none",
         \A p \in Partitions \ parts : leaf[p] = "none" => leaf'[p] = "none",
         \A h \in Generations : \A p \in boot'[h].todo :
           /\ p \in boot[h].todo
           /\ Working(h)' /\ p \notin boot'[h].seen => Working(h) /\ p \notin boot[h].seen
  PROVE  PartInv'
BY DEF PartInv, OnlyHere, TodoKnown, OneIndexEach, NotAbove

LEMMA FollowedStays == [SchemaNext]_schemaVars => followed' = followed
<1>1. ReplayTrade \/ ForwardPartition \/ DropPartition => followed' = followed
  BY DEF ReplayTrade, ForwardPartition, DropPartition
<1>2. \A n : BuildEnds(n) \/ BuildDies(n) => followed' = followed
  BY DEF BuildEnds, BuildDies
<1>3. \A g : Boot(g) \/ SweepSkips(g) \/ SweepDrops(g) \/ Stopped(g) => followed' = followed
  BY DEF Boot, SweepSkips, SweepDrops, Stopped
<1>4. \A g : CreateKey(g) \/ CheckKey(g) \/ RetireKey(g) \/ RetireFails(g) => followed' = followed
  BY DEF CreateKey, CheckKey, RetireKey, RetireFails, Create
<1>5. \A g : BeginPartitions(g) \/ CreateParent(g) \/ CreateParentFails(g) \/ ReadCovered(g)
              => followed' = followed
  BY DEF BeginPartitions, CreateParent, CreateParentFails, ReadCovered
<1>6. \A g : PassOver(g) \/ CreateChild(g) => followed' = followed
  BY DEF PassOver, CreateChild, Create
<1>7. \A g : Attach(g) \/ PartitionFails(g) \/ EndPartitions(g) => followed' = followed
  BY DEF Attach, PartitionFails, EndPartitions
<1>. QED
  BY <1>1, <1>2, <1>3, <1>4, <1>5, <1>6, <1>7 DEF SchemaNext, Onward, schemaVars

LEMMA PartStep == TypeInv /\ PartInv /\ [SchemaNext]_schemaVars => PartInv'
<1> SUFFICES ASSUME TypeInv, PartInv, [SchemaNext]_schemaVars, followed = "byCatalog"
             PROVE  PartInv'
  BY FollowedStays DEF PartInv
<1> DEFINE Lighter ==
      \A h \in Generations : \A p \in boot'[h].todo :
        /\ p \in boot[h].todo
        /\ Working(h)' /\ p \notin boot'[h].seen => Working(h) /\ p \notin boot[h].seen
<1>a. /\ boot \in [Generations -> BootState]
      /\ leaf \in [IndexNames -> {"none", "building", "dead", "valid"}]
      /\ attached \in [Partitions -> {"none", "built", "cloned"}]
      /\ parts \in SUBSET Partitions /\ parts # {}
      /\ Partitions \subseteq IndexNames /\ Partitions \subseteq Nat /\ NewKey \notin Partitions
      /\ OnlyHere /\ TodoKnown /\ OneIndexEach
  BY DEF TypeInv, PartInv, IndexNames, Partitions, NewKey
<1>b. \A g \in Generations : Sleeps(g) => Lighter
  BY <1>a DEF Sleeps, Asleep, Working, IsAt
<1>c. \A g \in Generations, at \in {"covered", "retire"} : Turns(g, at) => Lighter
  BY <1>a DEF Turns, Working, IsAt, BootState
<1>d. \A g \in Generations : \A n : Strike(g, n) => Lighter
  BY <1>a DEF Strike, Working, IsAt, BootState
<1>e. \A g \in Generations : \A n : Working(g) /\ MovesAlong(g, n) => Lighter
  BY <1>a DEF MovesAlong, Working, IsAt, BootState
<1>f. \A n, at : Resume(n, at) => Lighter
  BY <1>a DEF Resume, Builders, Working, IsAt, BootState
<1> HIDE DEF Lighter
<1>1. CASE ReplayTrade
  BY <1>1 DEF ReplayTrade
<1>2. CASE ForwardPartition
  <2>1. PICK p \in Partitions :
          /\ p = Max(parts) + 1
          /\ parts' = parts \cup {p}
          /\ attached' = [attached EXCEPT ![p] = IF parent = "none" THEN "none" ELSE "cloned"]
    BY <1>2 DEF ForwardPartition
  <2>2. Max(parts) \in parts /\ \A q \in parts : q <= Max(parts)
    BY <1>a, Greatest
  <2>3. \A q \in parts : q < p
    <3>1. \A q \in parts : q \in Nat
      BY <1>a
    <3>. QED
      BY <2>1, <2>2, <3>1
  <2>4. p \notin parts
    BY <1>a, <2>3
  <2>5. leaf[p] = "none"
    BY <1>a, <2>1, <2>4 DEF OnlyHere
  <2>6. \A g \in Generations : p \notin boot[g].todo
    BY <1>a, <2>3 DEF TodoKnown, NotAbove
  <2>7. leaf' = leaf /\ boot' = boot /\ followed' = followed
    BY <1>2 DEF ForwardPartition
  <2>8. OnlyHere'
    BY <1>a, <2>1, <2>4, <2>7 DEF OnlyHere
  <2>9. TodoKnown'
    <3>1. ASSUME NEW g \in Generations, NEW t \in boot[g].todo
          PROVE  /\ NotAbove(t)'
                 /\ attached'[t] = attached[t]
      <4>1. t # p /\ t \in Partitions
        BY <1>a, <2>6 DEF BootState
      <4>. QED
        BY <1>a, <2>1, <4>1 DEF TodoKnown, NotAbove
    <3>. QED
      BY <1>a, <2>7, <3>1 DEF TodoKnown, Working, IsAt
  <2>10. OneIndexEach'
    BY <1>a, <2>1, <2>5, <2>7 DEF OneIndexEach
  <2>. QED
    BY <1>a, <2>1, <2>8, <2>9, <2>10 DEF PartInv
<1>3. CASE DropPartition
  <2> DEFINE m == Min(parts)
  <2>1. m \in parts /\ \A q \in parts : m <= q
    BY <1>a, Least
  <2>2. /\ parts' = parts \ {m} /\ followed' = followed /\ boot' = boot
        /\ leaf' = [leaf EXCEPT ![m] = "none"]
        /\ attached' = [attached EXCEPT ![m] = "none"]
    BY <1>3 DEF DropPartition
  <2>3. PICK q \in parts : q # m
    <3>1. Cardinality({m}) = 1
      BY FS_Singleton
    <3>2. parts # {m}
      BY <1>3, <3>1 DEF DropPartition
    <3>. QED
      BY <2>1, <3>2
  <2> HIDE DEF m
  <2>4. \A t \in Partitions : NotAbove(t) => NotAbove(t)'
    BY <1>a, <2>1, <2>2, <2>3 DEF NotAbove
  <2>5. OnlyHere'
    BY <1>a, <2>1, <2>2 DEF OnlyHere
  <2>6. TodoKnown'
    <3>1. \A g \in Generations : boot[g].todo \subseteq Partitions
      BY <1>a DEF BootState
    <3>. QED
      BY <1>a, <2>1, <2>2, <2>4, <3>1 DEF TodoKnown, Working, IsAt
  <2>7. OneIndexEach'
    BY <1>a, <2>1, <2>2 DEF OneIndexEach
  <2>. QED
    BY <2>2, <2>3, <2>5, <2>6, <2>7 DEF PartInv
<1>4. ASSUME NEW n \in IndexNames, BuildEnds(n) \/ BuildDies(n) PROVE PartInv'
  <2>1. Lighter
    BY <1>4, <1>f DEF BuildEnds, BuildDies
  <2>2. \A p \in Partitions : leaf[p] = "none" => leaf'[p] = "none"
    BY <1>a, <1>4 DEF BuildEnds, BuildDies
  <2>. QED
    BY <1>a, <1>4, <2>1, <2>2, PartUntouched DEF BuildEnds, BuildDies, Lighter
<1>6. ASSUME NEW g \in Generations, Boot(g) PROVE PartInv'
  <2>1. Lighter
    BY <1>a, <1>6 DEF Boot, Asleep, Working, IsAt, Lighter
  <2>. QED
    BY <1>6, <2>1, PartUntouched DEF Boot, catalog, Lighter
<1>7. ASSUME NEW g \in Generations, SweepSkips(g) PROVE PartInv'
  <2>1. Lighter
    BY <1>7, <1>d DEF SweepSkips
  <2>. QED
    BY <1>7, <2>1, PartUntouched DEF SweepSkips, catalog, Lighter
<1>8. ASSUME NEW g \in Generations, SweepDrops(g) PROVE PartInv'
  <2>1. PICK n \in boot[g].listed : leaf' = [leaf EXCEPT ![n] = "none"] /\ Strike(g, n)
    BY <1>8 DEF SweepDrops
  <2>2. Lighter
    BY <1>d, <2>1
  <2>3. \A p \in Partitions : leaf[p] = "none" => leaf'[p] = "none"
    BY <1>a, <2>1
  <2>. QED
    BY <1>a, <1>8, <2>2, <2>3, PartUntouched DEF SweepDrops, Lighter
<1>9. ASSUME NEW g \in Generations, CreateKey(g) \/ CheckKey(g) PROVE PartInv'
  BY <1>9 DEF CreateKey, CheckKey
<1>11. ASSUME NEW g \in Generations, RetireKey(g) \/ RetireFails(g) PROVE PartInv'
  <2>1. Lighter
    BY <1>11, <1>b DEF RetireKey, RetireFails
  <2>. QED
    BY <1>11, <2>1, PartUntouched DEF RetireKey, RetireFails, catalog, Lighter
<1>13. ASSUME NEW g \in Generations, BeginPartitions(g) PROVE PartInv'
  <2>1. CASE parent = "valid"
    BY <1>13, <1>b, <2>1, PartUntouched DEF BeginPartitions, catalog, Lighter
  <2>2. CASE parent # "valid"
    <3>1. boot' = [boot EXCEPT ![g].at = "parent", ![g].todo = parts] /\ UNCHANGED <<followed, catalog>>
      BY <1>13, <2>2 DEF BeginPartitions
    <3>2. ~Working(g)' /\ \A t \in boot'[g].todo : t \in parts
      BY <1>a, <3>1 DEF Working, IsAt, BootState
    <3>3. \A h \in Generations \ {g} : boot'[h] = boot[h]
      BY <1>a, <3>1
    <3>4. TodoKnown'
      <4>1. \A t \in parts : NotAbove(t)
        BY <1>a DEF NotAbove
      <4>2. \A t : NotAbove(t) => NotAbove(t)'
        BY <3>1 DEF NotAbove, catalog
      <4>3. \A h \in Generations \ {g} : Working(h)' => Working(h)
        BY <3>3 DEF Working, IsAt
      <4>. QED
        BY <1>a, <3>1, <3>2, <3>3, <4>1, <4>2, <4>3 DEF TodoKnown, catalog
    <3>. QED
      BY <1>a, <3>1, <3>4 DEF PartInv, OnlyHere, OneIndexEach, catalog
  <2>. QED
    BY <2>1, <2>2
<1>14. ASSUME NEW g \in Generations, CreateParent(g) PROVE PartInv'
  BY <1>14, <1>c, PartUntouched DEF CreateParent, Lighter
<1>15. ASSUME NEW g \in Generations, CreateParentFails(g) PROVE PartInv'
  BY <1>15, <1>b, PartUntouched DEF CreateParentFails, catalog, Lighter
<1>16. ASSUME NEW g \in Generations, ReadCovered(g) PROVE PartInv'
  <2>1. boot' = [boot EXCEPT ![g].at = "loop", ![g].seen = Covered \cap boot[g].todo]
        /\ UNCHANGED <<followed, catalog>>
    BY <1>16 DEF ReadCovered
  <2>2. boot'[g].todo = boot[g].todo /\ boot'[g].seen = Covered \cap boot[g].todo
    BY <1>a, <2>1 DEF BootState
  <2>3. \A t \in boot[g].todo : t \notin Covered => attached[t] # "cloned"
    <3>1. \A t \in boot[g].todo : t \in Partitions
      BY <1>a DEF BootState
    <3>. QED
      BY <1>a, <3>1 DEF Covered, OnlyHere
  <2>4. \A h \in Generations \ {g} : boot'[h] = boot[h]
    BY <1>a, <2>1
  <2>5. TodoKnown'
    <3>1. \A t : NotAbove(t) => NotAbove(t)'
      BY <2>1 DEF NotAbove, catalog
    <3>2. \A h \in Generations \ {g} : Working(h)' => Working(h)
      BY <2>4 DEF Working, IsAt
    <3>. QED
      BY <1>a, <2>1, <2>2, <2>3, <2>4, <3>1, <3>2 DEF TodoKnown, catalog
  <2>. QED
    BY <1>a, <2>1, <2>5 DEF PartInv, OnlyHere, OneIndexEach, catalog
<1>17. ASSUME NEW g \in Generations, PassOver(g) PROVE PartInv'
  BY <1>17, <1>e, PartUntouched DEF PassOver, Working, catalog, Lighter
<1>18. ASSUME NEW g \in Generations, CreateChild(g) PROVE PartInv'
  <2> DEFINE p == Min(boot[g].todo)
  <2>1. p \in boot[g].todo /\ p \in Partitions
    <3>1. boot[g].todo \in SUBSET Partitions /\ boot[g].todo # {}
      BY <1>a, <1>18 DEF CreateChild, BootState
    <3>. QED
      BY <3>1, Least
  <2>2. p \notin boot[g].seen /\ Create(g, p) /\ Working(g)
    BY <1>18 DEF CreateChild, Working
  <2>3. attached[p] # "cloned"
    BY <1>a, <2>1, <2>2 DEF TodoKnown
  <2> HIDE DEF p
  <2>4. /\ leaf' = leaf \/ (p \in parts /\ leaf' = [leaf EXCEPT ![p] = "building"])
        /\ parts' = parts /\ attached' = attached /\ followed' = followed
    BY <2>1, <2>2 DEF Create
  <2>5. Lighter
    BY <1>a, <2>2 DEF Create, Working, IsAt, BootState, Lighter
  <2>6. OnlyHere' /\ OneIndexEach'
    BY <1>a, <2>1, <2>3, <2>4 DEF OnlyHere, OneIndexEach
  <2>7. TodoKnown'
    BY <1>a, <2>4, <2>5 DEF TodoKnown, NotAbove, Lighter
  <2>. QED
    BY <1>a, <2>4, <2>6, <2>7 DEF PartInv
<1>19. ASSUME NEW g \in Generations, Attach(g) PROVE PartInv'
  <2> DEFINE p == boot[g].on
  <2>1. /\ p \in parts /\ attached' = [attached EXCEPT ![p] = "built"]
        /\ leaf' = leaf /\ parts' = parts /\ followed' = followed
    BY <1>19 DEF Attach
  <2>2. Lighter
    BY <1>19, <1>e DEF Attach, Working
  <2> HIDE DEF p
  <2>3. \A t \in Partitions : attached'[t] = "cloned" => attached[t] = "cloned"
    BY <1>a, <2>1
  <2>4. OnlyHere' /\ OneIndexEach'
    BY <1>a, <2>1 DEF OnlyHere, OneIndexEach
  <2>5. TodoKnown'
    <3>1. \A h \in Generations : boot[h].todo \subseteq Partitions
      BY <1>a DEF BootState
    <3>. QED
      BY <1>a, <2>1, <2>2, <2>3, <3>1 DEF TodoKnown, NotAbove, Lighter
  <2>. QED
    BY <1>a, <2>1, <2>4, <2>5 DEF PartInv
<1>20. ASSUME NEW g \in Generations, PartitionFails(g) PROVE PartInv'
  BY <1>20, <1>e, PartUntouched DEF PartitionFails, Working, catalog, Lighter
<1>21. ASSUME NEW g \in Generations, EndPartitions(g) PROVE PartInv'
  BY <1>21, <1>b, PartUntouched DEF EndPartitions, Lighter
<1>22. ASSUME NEW g \in Generations, Stopped(g) PROVE PartInv'
  <2>1. Lighter
    BY <1>a, <1>22 DEF Stopped, Asleep, Working, IsAt, Lighter
  <2>. QED
    BY <1>22, <2>1, PartUntouched DEF Stopped, catalog, Lighter
<1>23. CASE UNCHANGED schemaVars
  <2>1. boot' = boot /\ UNCHANGED <<followed, catalog>>
    BY <1>23 DEF schemaVars
  <2>2. \A h \in Generations : Working(h)' => Working(h)
    BY <2>1 DEF Working, IsAt
  <2>. QED
    BY <2>1, <2>2, PartUntouched DEF catalog
<1>. QED
  BY <1>1, <1>2, <1>3, <1>4, <1>6, <1>7, <1>8, <1>9, <1>11, <1>13, <1>14,
     <1>15, <1>16, <1>17, <1>18, <1>19, <1>20, <1>21, <1>22, <1>23
  DEF SchemaNext, Onward

-----------------------------------------------------------------------------
(* Every variable keeps its type.                                           *)
THEOREM SchemaTypes == SchemaSpec => []SchemaTypeOK
<1>1. TypeInv => SchemaTypeOK
  BY DEF TypeInv, SchemaTypeOK, BootState
<1>. QED
  BY TypeInit, TypeStep, <1>1, PTL DEF SchemaSpec

(* Some natural key of dex_trades is in force at every moment once there    *)
(* was one, whatever the overlapping starts build, retire and lose, unless  *)
(* a sweep dropped by its name what had become valid since it was listed.   *)
THEOREM KeyNeverMissing == SchemaSpec => []OneKeyLeft
<1>1. KeyInv => OneKeyLeft
  BY DEF KeyInv
<1>. QED
  BY TypeInit, TypeStep, KeyInit, KeyStep, <1>1, PTL DEF SchemaSpec

(* Resumed by what the catalog has attached, no start builds an index       *)
(* beside the clone a partition was born with.                              *)
THEOREM NothingBuiltTwice == SchemaSpec => []OneIndexEach
<1>1. PartInv => OneIndexEach
  BY DEF PartInv, OneIndexEach
<1>. QED
  BY TypeInit, TypeStep, PartInit, PartStep, <1>1, PTL DEF SchemaSpec

-----------------------------------------------------------------------------
(* PartitionLadder.                                                         *)

Ranges == [lo : 0 .. LadderTop, hi : 0 .. LadderTop]

(* Ranges as they may be in the catalog.                                    *)
Proper(r) == r \in Ranges /\ r.lo < r.hi

(* The ranges of one width lie between its multiples.                       *)
Aligned(r, w) == \E k \in Nat : r.lo = k * w /\ r.hi = (k + 1) * w

LEMMA LeastNat ==
  ASSUME NEW S \in SUBSET Nat, S # {}
  PROVE  Min(S) \in S /\ \A n \in S : Min(S) <= n
<1>1. PICK m \in S : \A n \in S : ~ (<<n, m>> \in OpToRel(<, Nat))
  BY NatLessThanWellFounded, WFMin
<1>2. \A n \in S : m <= n
  <2>1. \A n \in S : ~ (n < m)
    BY <1>1, Zenon DEF OpToRel
  <2>. QED
    BY <2>1
<1>. QED
  BY <1>2 DEF Min

LEMMA GreatestNat ==
  ASSUME NEW m \in Nat, NEW S \in SUBSET (0 .. m), S # {}
  PROVE  Max(S) \in S /\ \A n \in S : n <= Max(S)
<1>. DEFINE Mirror == {m - n : n \in S}
<1>1. Mirror \in SUBSET Nat /\ Mirror # {}
  <2>1. \A n \in S : m - n \in Nat
    OBVIOUS
  <2>. QED
    BY <2>1
<1>2. Min(Mirror) \in Mirror /\ \A k \in Mirror : Min(Mirror) <= k
  BY <1>1, LeastNat
<1>3. PICK x \in S : Min(Mirror) = m - x
  BY <1>2
<1>4. \A n \in S : m - n \in Mirror
  OBVIOUS
<1>. HIDE DEF Mirror
<1>5. \A n \in S : n <= x
  BY <1>2, <1>3, <1>4
<1>. QED
  BY <1>5 DEF Max

LEMMA Multiples ==
  ASSUME NEW w \in Nat \ {0}, NEW k \in Nat, NEW m \in Nat
  PROVE  /\ k * w \in Nat /\ (k + 1) * w = k * w + w
         /\ k < m => (k + 1) * w <= m * w
         /\ k <= m => k * w <= m * w
<1>1. k * w \in Nat /\ (k + 1) * w = k * w + w
  OBVIOUS
<1>2. ASSUME NEW d \in Nat PROVE (k + d) * w >= k * w
  OBVIOUS
<1>3. ASSUME NEW d \in Nat PROVE (k + 1 + d) * w >= (k + 1) * w
  OBVIOUS
<1>4. k < m => (k + 1) * w <= m * w
  <2>. SUFFICES ASSUME k < m PROVE (k + 1) * w <= m * w
    OBVIOUS
  <2>1. m - (k + 1) \in Nat /\ m = k + 1 + (m - (k + 1))
    OBVIOUS
  <2>. QED
    BY <2>1, <1>3
<1>5. k <= m => k * w <= m * w
  <2>. SUFFICES ASSUME k <= m PROVE k * w <= m * w
    OBVIOUS
  <2>1. m - k \in Nat /\ m = k + (m - k)
    OBVIOUS
  <2>. QED
    BY <2>1, <1>2
<1>. QED
  BY <1>1, <1>4, <1>5

(* The first range begins at a multiple at or below the anchor.             *)
LEMMA Floor ==
  ASSUME NEW w \in Nat \ {0}, NEW n \in Nat
  PROVE  /\ n \div w \in Nat
         /\ (n \div w) * w \in Nat /\ (n \div w) * w <= n
OBVIOUS

LEMMA LadderNumbers ==
  /\ MaxWidth \in Nat \ {0} /\ Ahead \in Nat \ {0} /\ Keep \in Nat /\ MaxHeight \in Nat
  /\ LadderTop \in Nat
  /\ \A v \in Widths, g \in Extenders : v[g] \in 1 .. MaxWidth /\ v[g] \in Nat \ {0}
<1>1. /\ MaxWidth \in Nat \ {0} /\ Ahead \in Nat \ {0} /\ Keep \in Nat /\ MaxHeight \in Nat
      /\ \A v \in Widths, g \in Extenders : v[g] \in 1 .. MaxWidth
  BY LadderAssumption
<1>2. (Ahead + 2) * MaxWidth \in Nat
  BY <1>1
<1>. QED
  BY <1>1, <1>2 DEF LadderTop

(* A plan's last range ends below the top.                                  *)
LEMMA TopSuffices ==
  ASSUME NEW w \in 1 .. MaxWidth, NEW from \in 1 .. MaxHeight + 1
  PROVE  /\ from + Ahead * w \in Nat
         /\ from + Ahead * w + w <= LadderTop
<1>1. /\ MaxWidth \in Nat \ {0} /\ Ahead \in Nat \ {0} /\ MaxHeight \in Nat
  BY LadderNumbers
<1>2. Ahead * w <= Ahead * MaxWidth /\ Ahead * w \in Nat /\ Ahead * MaxWidth \in Nat
  BY <1>1
<1>3. (Ahead + 2) * MaxWidth = Ahead * MaxWidth + MaxWidth + MaxWidth
  BY <1>1
<1>. QED
  BY <1>1, <1>2, <1>3 DEF LadderTop

-----------------------------------------------------------------------------
(* What partitionRangesToCreate returns.                                    *)

(* Where the climb goes from b.                                             *)
Above(existing, w, b) ==
  IF \E r \in existing : Within(b, r)
  THEN Max({r.hi : r \in {q \in existing : Within(b, q)}})
  ELSE RangeEnd(existing, b, w)

LEMMA AboveFacts ==
  ASSUME NEW existing, \A r \in existing : Proper(r), NEW w \in 1 .. MaxWidth,
         NEW b \in Nat, b + w <= LadderTop
  PROVE  /\ Above(existing, w, b) \in b + 1 .. LadderTop
         /\ (\E r \in existing : Within(b, r)) =>
              \E r \in existing : Within(b, r) /\ Above(existing, w, b) = r.hi
         /\ (\A r \in existing : ~Within(b, r)) =>
              /\ \A r \in existing : r.lo > b => Above(existing, w, b) <= r.lo
              /\ \/ Above(existing, w, b) = b + w
                 \/ \E r \in existing : r.lo > b /\ Above(existing, w, b) = r.lo
              /\ Above(existing, w, b) <= b + w
<1>0. LadderTop \in Nat /\ MaxWidth \in Nat /\ w \in Nat \ {0}
  BY LadderNumbers
<1>a. \A r \in existing : r.lo \in 0 .. LadderTop /\ r.hi \in 0 .. LadderTop /\ r.lo < r.hi
  BY DEF Proper, Ranges
<1>1. CASE \E r \in existing : Within(b, r)
  <2>. DEFINE ends == {r.hi : r \in {q \in existing : Within(b, q)}}
  <2>1. ends \in SUBSET (0 .. LadderTop) /\ ends # {}
    BY <1>1, <1>a
  <2>2. Above(existing, w, b) = Max(ends)
    BY <1>1 DEF Above
  <2>3. Max(ends) \in ends
    <3> HIDE DEF ends
    <3>. QED
      BY <1>0, <2>1, GreatestNat
  <2>4. PICK r \in existing : Within(b, r) /\ Max(ends) = r.hi
    BY <2>3
  <2> HIDE DEF ends
  <2>5. r.hi \in b + 1 .. LadderTop
    BY <1>0, <1>a, <2>4 DEF Within
  <2>. QED
    BY <1>1, <2>2, <2>4, <2>5
<1>2. CASE \A r \in existing : ~Within(b, r)
  <2>. DEFINE ends == {b + w} \cup {r.lo : r \in {q \in existing : q.lo > b}}
  <2>1. /\ ends \in SUBSET Nat /\ b + w \in ends
        /\ \A n \in ends : n = b + w \/ \E r \in existing : r.lo > b /\ n = r.lo
        /\ \A r \in existing : r.lo > b => r.lo \in ends
    BY <1>0, <1>a
  <2>2. Above(existing, w, b) = Min(ends)
    BY <1>2 DEF Above, RangeEnd
  <2> HIDE DEF ends
  <2>3. Min(ends) \in ends /\ \A n \in ends : Min(ends) <= n
    BY <2>1, LeastNat
  <2>4. Min(ends) <= b + w /\ \A r \in existing : r.lo > b => Min(ends) <= r.lo
    BY <2>1, <2>3
  <2>5. Min(ends) > b /\ Min(ends) \in Nat
    <3>1. Min(ends) = b + w \/ \E r \in existing : r.lo > b /\ Min(ends) = r.lo
      BY <2>1, <2>3
    <3>2. Min(ends) \in Nat
      BY <2>1, <2>3
    <3>. QED
      BY <1>0, <3>1, <3>2
  <2>. QED
    BY <1>0, <1>2, <2>1, <2>2, <2>3, <2>4, <2>5
<1>. QED
  BY <1>1, <1>2

(* One turn of the loop, f being what the turns from further up return.     *)
ClimbTurn(existing, w, to, f, b) ==
  IF b > to THEN <<>>
  ELSE IF \E r \in existing : Within(b, r) THEN f[Above(existing, w, b)]
  ELSE <<[lo |-> b, hi |-> Above(existing, w, b)]>> \o f[Above(existing, w, b)]

(* Each turn goes up, so there is a function that does them all.            *)
LEMMA ClimbExists ==
  ASSUME NEW existing, \A r \in existing : Proper(r), NEW w \in 1 .. MaxWidth,
         NEW to \in Nat, to + w <= LadderTop
  PROVE  \E f : f = [b \in 0 .. LadderTop |-> ClimbTurn(existing, w, to, f, b)]
<1>. DEFINE Body(f, b) == ClimbTurn(existing, w, to, f, b)
            Down == {m \in 0 .. LadderTop : \E f : f = [b \in m .. LadderTop |-> Body(f, b)]}
<1>0. LadderTop \in Nat /\ w \in Nat \ {0}
  BY LadderNumbers
<1>1. LadderTop \in Down
  <2>. DEFINE g == [b \in LadderTop .. LadderTop |-> <<>>]
  <2>1. \A b \in LadderTop .. LadderTop : Body(g, b) = <<>>
    BY <1>0 DEF ClimbTurn
  <2>2. [b \in LadderTop .. LadderTop |-> Body(g, b)] = g
    BY <2>1
  <2> HIDE DEF g, Body
  <2>3. \E f : f = [b \in LadderTop .. LadderTop |-> Body(f, b)]
    BY <2>2
  <2>. QED
    BY <1>0, <2>3
<1>2. ASSUME NEW m \in Down, m # 0
      PROVE  m - 1 \in Down
  <2>1. PICK f : f = [b \in m .. LadderTop |-> Body(f, b)]
    OBVIOUS
  <2>. DEFINE g == [b \in m - 1 .. LadderTop |-> IF b = m - 1 THEN Body(f, b) ELSE f[b]]
  <2>0. m \in Nat \ {0} /\ m <= LadderTop
    <3>1. m \in 0 .. LadderTop
      OBVIOUS
    <3>. QED
      BY <1>0, <1>2, <3>1
  <2>2. ASSUME NEW b \in m - 1 .. LadderTop
        PROVE  g[b] = Body(g, b)
    <3>1. CASE b > to
      <4>1. Body(f, b) = <<>> /\ Body(g, b) = <<>>
        BY <3>1 DEF ClimbTurn
      <4>2. b # m - 1 => f[b] = Body(f, b)
        <5>1. b # m - 1 => b \in m .. LadderTop
          BY <2>0
        <5> HIDE DEF Body
        <5>. QED
          BY <2>1, <5>1
      <4> HIDE DEF Body
      <4>. QED
        BY <4>1, <4>2
    <3>2. CASE ~(b > to)
      <4>1. b \in Nat /\ b + w <= LadderTop
        BY <1>0, <2>0, <3>2
      <4>2. Above(existing, w, b) \in b + 1 .. LadderTop
        BY <4>1, AboveFacts
      <4>3. Above(existing, w, b) \in m - 1 .. LadderTop /\ Above(existing, w, b) # m - 1
        BY <2>0, <4>1, <4>2
      <4> HIDE DEF Body
      <4>4. g[Above(existing, w, b)] = f[Above(existing, w, b)]
        BY <4>3
      <4> HIDE DEF g
      <4>5. Body(f, b) = Body(g, b)
        BY <4>4 DEF ClimbTurn, Body
      <4>6. b # m - 1 => f[b] = Body(f, b)
        <5>1. b # m - 1 => b \in m .. LadderTop
          BY <2>0
        <5>. QED
          BY <2>1, <5>1
      <4>. QED
        BY <4>5, <4>6 DEF g
    <3>. QED
      BY <3>1, <3>2
  <2>3. g = [b \in m - 1 .. LadderTop |-> g[b]]
    OBVIOUS
  <2> HIDE DEF g, Body
  <2>4. g = [b \in m - 1 .. LadderTop |-> Body(g, b)]
    BY <2>2, <2>3
  <2>5. \E h : h = [b \in m - 1 .. LadderTop |-> Body(h, b)]
    BY <2>4
  <2>. QED
    BY <1>0, <2>0, <2>5
<1>3. 0 \in Down
  <2>1. Down \subseteq 0 .. LadderTop
    OBVIOUS
  <2> HIDE DEF Down
  <2>2. Down \in SUBSET Nat /\ Down # {}
    BY <1>0, <1>1, <2>1
  <2>3. Min(Down) \in Down /\ \A m \in Down : Min(Down) <= m
    BY <2>2, LeastNat
  <2>4. Min(Down) # 0 => Min(Down) - 1 \in Down
    BY <1>2, <2>3
  <2>5. Min(Down) \in Nat
    BY <2>2, <2>3
  <2>. QED
    BY <2>3, <2>4, <2>5
<1> HIDE DEF Body
<1>4. \E f : f = [b \in 0 .. LadderTop |-> Body(f, b)]
  BY <1>3
<1>. QED
  BY <1>4 DEF Body

(* A plan from b on: proper ranges in their order, clear of what is there,  *)
(* that leave no block up to the horizon without a partition; of one width  *)
(* throughout if what is there is.                                          *)
Plans(existing, w, b, to, s) ==
  /\ s \in Seq(Ranges)
  /\ \A i \in 1 .. Len(s) :
       /\ Proper(s[i]) /\ b <= s[i].lo
       /\ \A r \in existing : ~Overlaps(r, s[i])
  /\ \A i, j \in 1 .. Len(s) : i < j => s[i].hi <= s[j].lo
  /\ \A x \in b .. to : \/ \E r \in existing : Within(x, r)
                        \/ \E i \in 1 .. Len(s) : Within(x, s[i])
  /\ (\A r \in existing : Aligned(r, w)) /\ (\E k \in Nat : b = k * w) =>
       \A i \in 1 .. Len(s) : Aligned(s[i], w)

LEMMA Prepended ==
  ASSUME NEW S, NEW x \in S, NEW t \in Seq(S)
  PROVE  /\ <<x>> \o t \in Seq(S) /\ Len(<<x>> \o t) = Len(t) + 1
         /\ (<<x>> \o t)[1] = x
         /\ \A i \in 1 .. Len(t) : (<<x>> \o t)[i + 1] = t[i]
         /\ \A i \in 2 .. Len(t) + 1 : (<<x>> \o t)[i] = t[i - 1]
<1>1. <<x>> \in Seq(S) /\ Len(<<x>>) = 1 /\ <<x>>[1] = x
  OBVIOUS
<1>. QED
  BY <1>1, ConcatProperties, LenProperties

(* A block that has a partition is passed over.                             *)
LEMMA PlanPasses ==
  ASSUME NEW existing, \A r \in existing : Proper(r), NEW w \in 1 .. MaxWidth,
         NEW b \in Nat, NEW to \in Nat, b + w <= LadderTop, NEW t,
         \E r \in existing : Within(b, r),
         Plans(existing, w, Above(existing, w, b), to, t)
  PROVE  Plans(existing, w, b, to, t)
<1>. DEFINE e == Above(existing, w, b)
<1>1. PICK r \in existing : Within(b, r) /\ e = r.hi
  BY AboveFacts
<1>2. e \in b + 1 .. LadderTop /\ LadderTop \in Nat
  BY AboveFacts, LadderNumbers
<1>3. r.lo \in Nat /\ r.hi \in Nat /\ r.lo <= b
  BY <1>1, LadderNumbers DEF Proper, Ranges, Within
<1> HIDE DEF e
<1>4. Plans(existing, w, e, to, t)
  BY DEF e
<1>5. t \in Seq(Ranges) /\ \A i \in 1 .. Len(t) : t[i].lo \in Nat
  <2>1. t \in Seq(Ranges)
    BY <1>4 DEF Plans
  <2>2. \A i \in 1 .. Len(t) : t[i] \in Ranges
    BY <2>1
  <2>. QED
    BY <2>1, <2>2, LadderNumbers DEF Ranges
<1>6. \A i \in 1 .. Len(t) : /\ Proper(t[i]) /\ b <= t[i].lo
                             /\ \A q \in existing : ~Overlaps(q, t[i])
  BY <1>2, <1>4, <1>5 DEF Plans
<1>7. \A i, j \in 1 .. Len(t) : i < j => t[i].hi <= t[j].lo
  BY <1>4 DEF Plans
<1>8. ASSUME NEW x \in b .. to
      PROVE  \/ \E q \in existing : Within(x, q)
             \/ \E i \in 1 .. Len(t) : Within(x, t[i])
  <2>1. CASE x < e
    <3>1. Within(x, r)
      BY <1>1, <1>3, <2>1 DEF Within
    <3>. QED
      BY <3>1
  <2>2. CASE x >= e
    <3>1. x \in e .. to
      BY <1>2, <2>2
    <3>. QED
      BY <1>4, <3>1 DEF Plans
  <2>. QED
    BY <1>2, <2>1, <2>2
<1>9. (\A q \in existing : Aligned(q, w)) /\ (\E k \in Nat : b = k * w) =>
        \A i \in 1 .. Len(t) : Aligned(t[i], w)
  <2>1. (\A q \in existing : Aligned(q, w)) => \E k \in Nat : e = k * w
    <3>1. Aligned(r, w) => \E k \in Nat : r.hi = (k + 1) * w /\ k + 1 \in Nat
      BY DEF Aligned
    <3>. QED
      BY <1>1, <3>1
  <2>. QED
    BY <1>4, <2>1 DEF Plans
<1>. QED
  BY <1>5, <1>6, <1>7, <1>8, <1>9 DEF Plans

(* A block without one gets one, up to where the next one begins.           *)
LEMMA PlanCreates ==
  ASSUME NEW existing, \A r \in existing : Proper(r), NEW w \in 1 .. MaxWidth,
         NEW b \in Nat, NEW to \in Nat, b + w <= LadderTop, NEW t,
         \A r \in existing : ~Within(b, r),
         Plans(existing, w, Above(existing, w, b), to, t)
  PROVE  Plans(existing, w, b, to, <<[lo |-> b, hi |-> Above(existing, w, b)]>> \o t)
<1>. DEFINE e == Above(existing, w, b)
            new == [lo |-> b, hi |-> e]
            s == <<new>> \o t
<1>1. /\ e \in b + 1 .. LadderTop /\ LadderTop \in Nat /\ e <= b + w
      /\ \A r \in existing : r.lo > b => e <= r.lo
      /\ e = b + w \/ \E r \in existing : r.lo > b /\ e = r.lo
  BY AboveFacts, LadderNumbers
<1>2. Plans(existing, w, e, to, t)
  OBVIOUS
<1> HIDE DEF e
<1>3. new \in Ranges /\ Proper(new) /\ new.lo = b /\ new.hi = e
  BY <1>1 DEF Ranges, Proper
<1>4. t \in Seq(Ranges) /\ Len(t) \in Nat
  BY <1>2 DEF Plans
<1>5. \A i \in 1 .. Len(t) : t[i] \in Ranges /\ t[i].lo \in Nat /\ t[i].hi \in Nat
  <2>1. \A i \in 1 .. Len(t) : t[i] \in Ranges
    BY <1>4
  <2>. QED
    BY <2>1, <1>1 DEF Ranges
<1> HIDE DEF new
<1>6. /\ s \in Seq(Ranges) /\ Len(s) = Len(t) + 1 /\ s[1] = new
      /\ \A i \in 1 .. Len(t) : s[i + 1] = t[i]
      /\ \A i \in 2 .. Len(t) + 1 : s[i] = t[i - 1]
  BY <1>3, <1>4, Prepended
<1> HIDE DEF s
<1>7. \A r \in existing : r.lo \in Nat /\ r.hi \in Nat /\ ~Overlaps(r, new)
  <2>. SUFFICES ASSUME NEW r \in existing PROVE r.lo \in Nat /\ r.hi \in Nat /\ ~Overlaps(r, new)
    OBVIOUS
  <2>1. r.lo \in Nat /\ r.hi \in Nat
    BY <1>1 DEF Proper, Ranges
  <2>2. ~(r.lo <= b /\ b < r.hi)
    BY DEF Within
  <2>. QED
    BY <1>1, <1>3, <2>1, <2>2 DEF Overlaps
<1>8. ASSUME NEW i \in 1 .. Len(s)
      PROVE  /\ Proper(s[i]) /\ b <= s[i].lo
             /\ \A r \in existing : ~Overlaps(r, s[i])
  <2>1. CASE i = 1
    BY <1>3, <1>6, <1>7, <2>1
  <2>2. CASE i # 1
    <3>1. i - 1 \in 1 .. Len(t) /\ s[i] = t[i - 1]
      BY <1>4, <1>6, <2>2
    <3>2. /\ Proper(t[i - 1]) /\ e <= t[i - 1].lo
          /\ \A r \in existing : ~Overlaps(r, t[i - 1])
      BY <1>2, <3>1 DEF Plans
    <3>. QED
      BY <1>1, <1>5, <3>1, <3>2
  <2>. QED
    BY <2>1, <2>2
<1>9. ASSUME NEW i \in 1 .. Len(s), NEW j \in 1 .. Len(s), i < j
      PROVE  s[i].hi <= s[j].lo
  <2>1. j - 1 \in 1 .. Len(t) /\ s[j] = t[j - 1]
    BY <1>4, <1>6, <1>9
  <2>2. CASE i = 1
    BY <1>2, <1>3, <1>6, <2>1, <2>2 DEF Plans
  <2>3. CASE i # 1
    <3>1. i - 1 \in 1 .. Len(t) /\ s[i] = t[i - 1] /\ i - 1 < j - 1
      BY <1>4, <1>6, <1>9, <2>3
    <3>. QED
      BY <1>2, <2>1, <3>1 DEF Plans
  <2>. QED
    BY <2>2, <2>3
<1>10. ASSUME NEW x \in b .. to
       PROVE  \/ \E r \in existing : Within(x, r)
              \/ \E i \in 1 .. Len(s) : Within(x, s[i])
  <2>1. CASE x < e
    <3>1. Within(x, s[1]) /\ 1 \in 1 .. Len(s)
      BY <1>1, <1>3, <1>4, <1>6, <2>1 DEF Within
    <3>. QED
      BY <3>1
  <2>2. CASE x >= e
    <3>1. x \in e .. to
      BY <1>1, <2>2
    <3>2. CASE \E r \in existing : Within(x, r)
      BY <3>2
    <3>3. CASE \E i \in 1 .. Len(t) : Within(x, t[i])
      <4>1. PICK i \in 1 .. Len(t) : Within(x, t[i])
        BY <3>3
      <4>2. i + 1 \in 1 .. Len(s) /\ s[i + 1] = t[i]
        BY <1>4, <1>6
      <4>. QED
        BY <4>1, <4>2
    <3>. QED
      BY <1>2, <3>1, <3>2, <3>3 DEF Plans
  <2>. QED
    BY <1>1, <2>1, <2>2
<1>11. ASSUME \A r \in existing : Aligned(r, w), \E k \in Nat : b = k * w,
              NEW i \in 1 .. Len(s)
       PROVE  Aligned(s[i], w)
  <2>0. w \in Nat \ {0}
    BY LadderNumbers
  <2>1. PICK k \in Nat : b = k * w
    BY <1>11
  <2>2. b + w = (k + 1) * w
    BY <2>0, <2>1, Multiples
  <2>3. e = (k + 1) * w
    <3>1. ASSUME NEW r \in existing, r.lo > b
          PROVE  b + w <= r.lo
      <4>1. PICK m \in Nat : r.lo = m * w
        BY <1>11 DEF Aligned
      <4>2. k < m
        <5>1. m <= k => m * w <= k * w
          BY <2>0, Multiples
        <5>2. m * w \in Nat /\ k * w \in Nat
          BY <2>0, Multiples
        <5>. QED
          BY <2>1, <3>1, <4>1, <5>1, <5>2
      <4>. QED
        BY <2>0, <2>2, <4>1, <4>2, Multiples
    <3>2. e = b + w
      <4>1. CASE \E r \in existing : r.lo > b /\ e = r.lo
        BY <1>1, <2>0, <3>1, <4>1
      <4>. QED
        BY <1>1, <4>1
    <3>. QED
      BY <2>2, <3>2
  <2>4. CASE i = 1
    <3>1. s[i].lo = k * w /\ s[i].hi = (k + 1) * w
      BY <1>3, <1>6, <2>1, <2>3, <2>4
    <3>. QED
      BY <3>1 DEF Aligned
  <2>5. CASE i # 1
    <3>1. i - 1 \in 1 .. Len(t) /\ s[i] = t[i - 1]
      BY <1>4, <1>6, <2>5
    <3>2. \E m \in Nat : e = m * w
      <4>1. k + 1 \in Nat
        OBVIOUS
      <4>. QED
        BY <2>3, <4>1
    <3>. QED
      BY <1>2, <1>11, <3>1, <3>2 DEF Plans
  <2>. QED
    BY <2>4, <2>5
<1>12. Plans(existing, w, b, to, s)
  BY <1>6, <1>8, <1>9, <1>10, <1>11 DEF Plans
<1>. QED
  BY <1>12 DEF s, new, e

(* What is computed is a plan from the multiple below the anchor on.        *)
LEMMA RangesPlan ==
  ASSUME NEW existing, \A r \in existing : Proper(r), NEW w \in 1 .. MaxWidth,
         NEW from \in 1 .. MaxHeight + 1, NEW to, to = from + Ahead * w
  PROVE  Plans(existing, w, (from \div w) * w, to, RangesToCreate(existing, w, from, to))
<1>. DEFINE climb[b \in 0 .. LadderTop] ==
              LET hit == {r \in existing : Within(b, r)}
                  end == IF hit # {} THEN Max({r.hi : r \in hit}) ELSE RangeEnd(existing, b, w)
              IN  IF Passed(b, to) THEN <<>>
                  ELSE IF hit # {} THEN climb[end]
                  ELSE <<[lo |-> b, hi |-> end]>> \o climb[end]
            Next(f, b) == ClimbTurn(existing, w, to, f, b)
<1>0. LadderTop \in Nat /\ to \in Nat /\ to + w <= LadderTop /\ w \in Nat \ {0}
  BY TopSuffices, LadderNumbers
<1>1. RangesToCreate(existing, w, from, to) = climb[(from \div w) * w]
  BY DEF RangesToCreate
<1>3. \E f : f = [b \in 0 .. LadderTop |-> Next(f, b)]
  BY <1>0, ClimbExists
<1>4. ASSUME NEW f, NEW b \in 0 .. LadderTop
      PROVE  Next(f, b) =
               LET hit == {r \in existing : Within(b, r)}
                   end == IF hit # {} THEN Max({r.hi : r \in hit}) ELSE RangeEnd(existing, b, w)
               IN  IF Passed(b, to) THEN <<>>
                   ELSE IF hit # {} THEN f[end]
                   ELSE <<[lo |-> b, hi |-> end]>> \o f[end]
  <2>. DEFINE hit == {r \in existing : Within(b, r)}
  <2>1. hit # {} <=> \E r \in existing : Within(b, r)
    OBVIOUS
  <2>2. Above(existing, w, b) = IF hit # {} THEN Max({r.hi : r \in hit}) ELSE RangeEnd(existing, b, w)
    BY <2>1 DEF Above
  <2> HIDE DEF climb
  <2>. QED
    BY <2>1, <2>2 DEF ClimbTurn, Passed
<1>5. climb = [b \in 0 .. LadderTop |-> Next(climb, b)]
  <2>. DEFINE Body(f, b) ==
               LET hit == {r \in existing : Within(b, r)}
                   end == IF hit # {} THEN Max({r.hi : r \in hit}) ELSE RangeEnd(existing, b, w)
               IN  IF Passed(b, to) THEN <<>>
                   ELSE IF hit # {} THEN f[end]
                   ELSE <<[lo |-> b, hi |-> end]>> \o f[end]
  <2>1. climb = CHOOSE f : f = [b \in 0 .. LadderTop |-> Body(f, b)]
    BY DEF climb
  <2>2. ASSUME NEW f PROVE [b \in 0 .. LadderTop |-> Body(f, b)] = [b \in 0 .. LadderTop |-> Next(f, b)]
    <3>1. \A b \in 0 .. LadderTop : Body(f, b) = Next(f, b)
      BY <1>4
    <3> HIDE DEF Body, Next
    <3>. QED
      BY <3>1
  <2> HIDE DEF Body, Next, climb
  <2>3. \E f : f = [b \in 0 .. LadderTop |-> Body(f, b)]
    BY <1>3, <2>2
  <2>4. climb = [b \in 0 .. LadderTop |-> Body(climb, b)]
    BY <2>1, <2>3
  <2>. QED
    BY <2>2, <2>4
<1> HIDE DEF climb
<1>6. \A b \in 0 .. LadderTop : climb[b] = Next(climb, b)
  <2> HIDE DEF Next
  <2>. QED
    BY <1>5
<1>7. \A b \in 0 .. LadderTop : Plans(existing, w, b, to, climb[b])
  <2>. DEFINE Bad == {b \in 0 .. LadderTop : ~Plans(existing, w, b, to, climb[b])}
  <2>. SUFFICES ASSUME Bad # {} PROVE FALSE
    OBVIOUS
  <2>. DEFINE b == Max(Bad)
  <2>1. b \in Bad /\ \A c \in Bad : c <= b
    <3>1. Bad \in SUBSET (0 .. LadderTop)
      OBVIOUS
    <3> HIDE DEF Bad
    <3>. QED
      BY <1>0, <3>1, GreatestNat
  <2>2. b \in 0 .. LadderTop /\ ~Plans(existing, w, b, to, climb[b])
    BY <2>1
  <2>3. \A c \in 0 .. LadderTop : c > b => Plans(existing, w, c, to, climb[c])
    <3>1. \A c \in 0 .. LadderTop : c \notin Bad => Plans(existing, w, c, to, climb[c])
      OBVIOUS
    <3> HIDE DEF Bad
    <3>. QED
      BY <2>1, <2>2, <3>1
  <2> HIDE DEF b, Bad
  <2>4. CASE b > to
    <3>1. climb[b] = <<>>
      BY <1>6, <2>2, <2>4 DEF ClimbTurn
    <3>2. <<>> \in Seq(Ranges) /\ Len(<<>>) = 0
      OBVIOUS
    <3>3. Plans(existing, w, b, to, <<>>)
      BY <1>0, <2>2, <2>4, <3>2 DEF Plans
    <3>. QED
      BY <2>2, <3>1, <3>3
  <2>5. CASE ~(b > to)
    <3>1. b \in Nat /\ b + w <= LadderTop
      BY <1>0, <2>2, <2>5
    <3>2. Above(existing, w, b) \in b + 1 .. LadderTop
      BY <3>1, AboveFacts
    <3>3. Above(existing, w, b) \in 0 .. LadderTop /\ Above(existing, w, b) > b
      BY <1>0, <3>1, <3>2
    <3>4. Plans(existing, w, Above(existing, w, b), to, climb[Above(existing, w, b)])
      BY <2>3, <3>3
    <3>5. CASE \E r \in existing : Within(b, r)
      <4>1. climb[b] = climb[Above(existing, w, b)]
        BY <1>6, <2>2, <2>5, <3>5 DEF ClimbTurn
      <4>. QED
        BY <1>0, <2>2, <3>1, <3>4, <3>5, <4>1, PlanPasses
    <3>6. CASE \A r \in existing : ~Within(b, r)
      <4>1. climb[b] = <<[lo |-> b, hi |-> Above(existing, w, b)]>> \o climb[Above(existing, w, b)]
        BY <1>6, <2>2, <2>5, <3>6 DEF ClimbTurn
      <4>. QED
        BY <1>0, <2>2, <3>1, <3>4, <3>6, <4>1, PlanCreates
    <3>. QED
      BY <3>5, <3>6
  <2>. QED
    BY <2>4, <2>5
<1>8. (from \div w) * w \in 0 .. LadderTop
  <2>1. from \in Nat /\ MaxHeight \in Nat /\ Ahead \in Nat /\ from <= to
    <3>1. from \in Nat /\ MaxHeight \in Nat /\ Ahead \in Nat /\ Ahead * w \in Nat
      BY <1>0, LadderNumbers
    <3>. QED
      BY <1>0, <3>1
  <2>2. (from \div w) * w \in Nat /\ (from \div w) * w <= from
    BY <1>0, <2>1, Floor
  <2>. QED
    BY <1>0, <2>1, <2>2
<1>. QED
  BY <1>1, <1>7, <1>8

-----------------------------------------------------------------------------
(* The ladder and the plans under way.                                      *)

SameWidth == \A g, h \in Extenders : widths[g] = widths[h]

PlanRecord == [at : {"idle", "create", "refused", "done"}, from : 0 .. MaxHeight + 1,
               ranges : Seq(Ranges), alone : BOOLEAN]

(* What is still to be created is in nobody's way.                          *)
Clear(there, ranges) ==
  /\ \A i \in 1 .. Len(ranges) : \A r \in there : ~Overlaps(r, ranges[i])
  /\ \A i, j \in 1 .. Len(ranges) : i < j => ranges[i].hi <= ranges[j].lo

(* Every block up to the horizon that is kept has a partition or is to get  *)
(* one.                                                                     *)
Provided(p, w, there, low) ==
  \A b \in p.from .. p.from + Ahead * w : b >= low =>
    \/ \E r \in there : Within(b, r)
    \/ \E i \in 1 .. Len(p.ranges) : Within(b, p.ranges[i])

PlanSound(p, w, there, low, same) ==
  /\ p \in PlanRecord
  /\ \A i \in 1 .. Len(p.ranges) : Proper(p.ranges[i])
  /\ p.at = "create" /\ p.alone => Clear(there, p.ranges)
  /\ p.at \in {"create", "done"} /\ (p.alone \/ same) => Provided(p, w, there, low)
  /\ p.at = "create" /\ same => \A i \in 1 .. Len(p.ranges) : Aligned(p.ranges[i], w)
  /\ p.at = "done" => p.ranges = <<>>
  /\ p.at = "refused" => ~p.alone

LadderInv ==
  /\ widths \in Widths
  /\ height \in 0 .. MaxHeight
  /\ \A r \in ladder : Proper(r)
  /\ SameWidth => \A r \in ladder, g \in Extenders : Aligned(r, widths[g])
  /\ DOMAIN plan = Extenders
  /\ \A g \in Extenders : PlanSound(plan[g], widths[g], ladder, height - Keep, SameWidth)

LEMMA RestSound ==
  ASSUME NEW w, NEW there, NEW low, NEW same \in BOOLEAN
  PROVE  PlanSound(NoPlan, w, there, low, same)
<1>1. <<>> \in Seq(Ranges) /\ Len(<<>>) = 0
  OBVIOUS
<1>2. 0 \in 0 .. MaxHeight + 1
  BY LadderNumbers
<1>3. NoPlan \in PlanRecord
  BY <1>1, <1>2 DEF NoPlan, PlanRecord
<1>. QED
  BY <1>1, <1>3 DEF NoPlan, PlanSound

LEMMA TailOf ==
  ASSUME NEW S, NEW s \in Seq(S), s # <<>>
  PROVE  /\ Tail(s) \in Seq(S) /\ Len(Tail(s)) = Len(s) - 1 /\ Len(s) \in Nat \ {0}
         /\ Head(s) = s[1]
         /\ \A i \in 1 .. Len(Tail(s)) : i + 1 \in 1 .. Len(s) /\ Tail(s)[i] = s[i + 1]
         /\ \A i \in 1 .. Len(s) : i # 1 => i - 1 \in 1 .. Len(Tail(s)) /\ Tail(s)[i - 1] = s[i]
<1>1. Tail(s) \in Seq(S) /\ Len(Tail(s)) = Len(s) - 1 /\ Len(s) \in Nat \ {0} /\ Head(s) = s[1]
  BY HeadTailProperties, EmptySeq
<1>2. \A i \in 1 .. Len(s) - 1 : Tail(s)[i] = s[i + 1]
  BY <1>1 DEF Tail
<1>3. \A i \in 1 .. Len(Tail(s)) : i + 1 \in 1 .. Len(s) /\ Tail(s)[i] = s[i + 1]
  BY <1>1, <1>2
<1>4. ASSUME NEW i \in 1 .. Len(s), i # 1
      PROVE  i - 1 \in 1 .. Len(Tail(s)) /\ Tail(s)[i - 1] = s[i]
  <2>1. i - 1 \in 1 .. Len(Tail(s)) /\ (i - 1) + 1 = i
    BY <1>1, <1>4
  <2>. QED
    BY <1>3, <2>1
<1>. QED
  BY <1>1, <1>3, <1>4

(* A plan outlives what others do: it is no longer alone, and no block      *)
(* that is kept loses its partition.                                        *)
LEMMA PlanOutlives ==
  ASSUME NEW p, NEW w, NEW there, NEW new, NEW low, NEW lower, NEW same \in BOOLEAN,
         PlanSound(p, w, there, low, same),
         \A b \in Nat : b >= lower => b >= low,
         \A b \in Nat, r \in there : b >= lower /\ Within(b, r) => \E q \in new : Within(b, q)
  PROVE  PlanSound([p EXCEPT !.alone = FALSE], w, new, lower, same)
<1>. DEFINE q == [p EXCEPT !.alone = FALSE]
<1>1. p \in PlanRecord /\ p.from \in Nat
  BY LadderNumbers DEF PlanSound, PlanRecord
<1>2. /\ q.at = p.at /\ q.from = p.from /\ q.ranges = p.ranges /\ q.alone = FALSE
      /\ q \in PlanRecord
  BY <1>1 DEF PlanRecord
<1> HIDE DEF q
<1>3. ASSUME Provided(p, w, there, low)
      PROVE  Provided(q, w, new, lower)
  <2>. SUFFICES ASSUME NEW b \in p.from .. p.from + Ahead * w, b >= lower
                PROVE  \/ \E r \in new : Within(b, r)
                       \/ \E i \in 1 .. Len(p.ranges) : Within(b, p.ranges[i])
    BY <1>2 DEF Provided
  <2>1. b \in Nat
    BY <1>1
  <2>2. \/ \E r \in there : Within(b, r)
        \/ \E i \in 1 .. Len(p.ranges) : Within(b, p.ranges[i])
    BY <1>3, <2>1 DEF Provided
  <2>. QED
    BY <2>1, <2>2
<1>4. PlanSound(q, w, new, lower, same)
  BY <1>2, <1>3 DEF PlanSound
<1>. QED
  BY <1>4 DEF q

(* The same of a plan that nothing is made in the way of.                   *)
LEMMA PlanStays ==
  ASSUME NEW p, NEW w, NEW there, NEW low, NEW lower, NEW same \in BOOLEAN,
         PlanSound(p, w, there, low, same),
         \A b \in Nat : b >= lower => b >= low
  PROVE  PlanSound(p, w, there, lower, same)
<1>1. p.from \in Nat
  BY LadderNumbers DEF PlanSound, PlanRecord
<1>2. Provided(p, w, there, low) => Provided(p, w, there, lower)
  <2>1. \A b \in p.from .. p.from + Ahead * w : b \in Nat
    BY <1>1
  <2>. QED
    BY <2>1 DEF Provided
<1>. QED
  BY <1>2 DEF PlanSound

LEMMA LadderInitInv == LadderInit => LadderInv
<1>. SUFFICES ASSUME LadderInit PROVE LadderInv
  OBVIOUS
<1>1. \A g \in Extenders : PlanSound(plan[g], widths[g], ladder, height - Keep, SameWidth)
  <2>1. SameWidth \in BOOLEAN
    BY DEF SameWidth
  <2>. QED
    BY <2>1, RestSound DEF LadderInit
<1>. QED
  BY <1>1 DEF LadderInit, LadderInv

LEMMA PlanStarts ==
  ASSUME LadderInv, NEW g \in Extenders, PlanLadder(g)
  PROVE  LadderInv'
<1>. DEFINE w == widths[g]
            low == height - Keep
<1>1. PICK from \in height - 1 .. height + 1 :
        /\ from > 0
        /\ plan' = [plan EXCEPT ![g] =
             [at |-> "create", from |-> from, alone |-> TRUE,
              ranges |-> RangesToCreate(ladder, w, from, Horizon(g, from))]]
  BY DEF PlanLadder
<1>2. widths' = widths /\ height' = height /\ ladder' = ladder
  BY DEF PlanLadder
<1>3. w \in 1 .. MaxWidth /\ w \in Nat \ {0} /\ height \in Nat /\ height <= MaxHeight /\ MaxHeight \in Nat
  BY LadderNumbers DEF LadderInv
<1>4. from \in 1 .. MaxHeight + 1 /\ from \in Nat
  BY <1>1, <1>3
<1>. DEFINE to == from + Ahead * w
            ranges == RangesToCreate(ladder, w, from, to)
            new == [at |-> "create", from |-> from, alone |-> TRUE, ranges |-> ranges]
            b0 == (from \div w) * w
<1>5. Horizon(g, from) = to
  BY DEF Horizon
<1>6. plan' = [plan EXCEPT ![g] = new]
  BY <1>1, <1>5
<1>7. Plans(ladder, w, b0, to, ranges)
  <2>1. \A r \in ladder : Proper(r)
    BY DEF LadderInv
  <2>. QED
    BY <1>3, <1>4, <2>1, RangesPlan
<1>8. b0 \in Nat /\ b0 <= from /\ from \div w \in Nat
  BY <1>3, <1>4, Floor
<1>. HIDE DEF ranges
<1>9. new \in PlanRecord
  <2>1. ranges \in Seq(Ranges)
    BY <1>7 DEF Plans
  <2>2. from \in 0 .. MaxHeight + 1
    BY <1>3, <1>4
  <2>. QED
    BY <2>1, <2>2 DEF PlanRecord
<1>10. \A i \in 1 .. Len(ranges) : Proper(ranges[i])
  BY <1>7 DEF Plans
<1>11. Clear(ladder, ranges)
  BY <1>7 DEF Plans, Clear
<1>12. Provided(new, w, ladder, low)
  <2>. SUFFICES ASSUME NEW b \in from .. from + Ahead * w
                PROVE  \/ \E r \in ladder : Within(b, r)
                       \/ \E i \in 1 .. Len(ranges) : Within(b, ranges[i])
    BY DEF Provided
  <2>1. b \in b0 .. to
    BY <1>4, <1>8
  <2>. QED
    BY <1>7, <2>1 DEF Plans
<1>13. SameWidth => \A i \in 1 .. Len(ranges) : Aligned(ranges[i], w)
  <2>1. SameWidth => \A r \in ladder : Aligned(r, w)
    BY DEF LadderInv
  <2>2. \E k \in Nat : b0 = k * w
    BY <1>8
  <2> HIDE DEF b0, w, to
  <2>. QED
    BY <1>7, <2>1, <2>2 DEF Plans
<1>14. PlanSound(new, w, ladder, low, SameWidth)
  <2>1. /\ new.at = "create" /\ new.from = from /\ new.ranges = ranges /\ new.alone
    OBVIOUS
  <2> HIDE DEF new, w, low
  <2>. QED
    BY <1>9, <1>10, <1>11, <1>12, <1>13, <2>1 DEF PlanSound
<1>15. ASSUME NEW h \in Extenders
       PROVE  PlanSound(plan'[h], widths[h], ladder, height - Keep, SameWidth)
  <2>1. plan'[h] = IF h = g THEN new ELSE plan[h]
    BY <1>6 DEF LadderInv
  <2> HIDE DEF new
  <2>. QED
    BY <1>14, <2>1 DEF LadderInv
<1>16. DOMAIN plan' = Extenders
  BY <1>6 DEF LadderInv
<1>17. SameWidth' <=> SameWidth
  BY <1>2 DEF SameWidth
<1>. QED
  BY <1>2, <1>15, <1>16, <1>17 DEF LadderInv

(* A plan that ends in one of the other ways.                               *)
LEMMA PlanMoves ==
  ASSUME LadderInv, NEW g \in Extenders, NEW new,
         UNCHANGED <<widths, height, ladder>>,
         plan' = [plan EXCEPT ![g] = new],
         PlanSound(new, widths[g], ladder, height - Keep, SameWidth)
  PROVE  LadderInv'
<1>1. ASSUME NEW h \in Extenders
      PROVE  PlanSound(plan'[h], widths[h], ladder, height - Keep, SameWidth)
  <2>1. plan'[h] = IF h = g THEN new ELSE plan[h]
    BY DEF LadderInv
  <2>. QED
    BY <2>1 DEF LadderInv
<1>2. DOMAIN plan' = Extenders
  BY DEF LadderInv
<1>3. SameWidth' <=> SameWidth
  BY DEF SameWidth
<1>. QED
  BY <1>1, <1>2, <1>3 DEF LadderInv

LEMMA PlanRefused ==
  ASSUME LadderInv, NEW g \in Extenders, CreateRefused(g)
  PROVE  LadderInv'
<1>. DEFINE p == plan[g]
            new == [p EXCEPT !.at = "refused"]
<1>1. PlanSound(p, widths[g], ladder, height - Keep, SameWidth)
  BY DEF LadderInv
<1>2. p.at = "create" /\ p.ranges # <<>> /\ p \in PlanRecord
  BY <1>1 DEF CreateRefused, PlanSound
<1>3. Head(p.ranges) = p.ranges[1] /\ 1 \in 1 .. Len(p.ranges)
  <2>1. p.ranges \in Seq(Ranges)
    BY <1>2 DEF PlanRecord
  <2>. QED
    BY <1>2, <2>1, TailOf
<1>4. \E r \in ladder : Overlaps(r, p.ranges[1])
  BY <1>3 DEF CreateRefused
<1>5. ~p.alone
  BY <1>1, <1>2, <1>3, <1>4 DEF PlanSound, Clear
<1>6. plan' = [plan EXCEPT ![g] = new]
  BY DEF CreateRefused, LadderInv
<1> HIDE DEF p
<1>7. /\ new \in PlanRecord /\ new.at = "refused" /\ new.ranges = p.ranges
      /\ new.alone = p.alone
  BY <1>2 DEF PlanRecord
<1> HIDE DEF new
<1>8. PlanSound(new, widths[g], ladder, height - Keep, SameWidth)
  BY <1>1, <1>5, <1>7 DEF PlanSound
<1>. QED
  BY <1>6, <1>8, PlanMoves DEF CreateRefused

LEMMA PlanDone ==
  ASSUME LadderInv, NEW g \in Extenders, LadderDone(g)
  PROVE  LadderInv'
<1>. DEFINE p == plan[g]
            new == [p EXCEPT !.at = "done"]
<1>1. PlanSound(p, widths[g], ladder, height - Keep, SameWidth)
  BY DEF LadderInv
<1>2. p.at = "create" /\ p.ranges = <<>> /\ p \in PlanRecord
  BY <1>1 DEF LadderDone, PlanSound
<1>3. plan' = [plan EXCEPT ![g] = new]
  BY DEF LadderDone, LadderInv
<1> HIDE DEF p
<1>4. /\ new \in PlanRecord /\ new.at = "done" /\ new.ranges = p.ranges
      /\ new.alone = p.alone /\ new.from = p.from
  BY <1>2 DEF PlanRecord
<1> HIDE DEF new
<1>5. Provided(p, widths[g], ladder, height - Keep) => Provided(new, widths[g], ladder, height - Keep)
  BY <1>4 DEF Provided
<1>6. PlanSound(new, widths[g], ladder, height - Keep, SameWidth)
  BY <1>1, <1>2, <1>4, <1>5 DEF PlanSound
<1>. QED
  BY <1>3, <1>6, PlanMoves DEF LadderDone

LEMMA PlanRests ==
  ASSUME LadderInv, NEW g \in Extenders, CreateThrows(g) \/ LadderRests(g)
  PROVE  LadderInv'
<1>1. PlanSound(NoPlan, widths[g], ladder, height - Keep, SameWidth)
  <2>1. SameWidth \in BOOLEAN
    BY DEF SameWidth
  <2>. QED
    BY <2>1, RestSound
<1>2. plan' = [plan EXCEPT ![g] = NoPlan] /\ UNCHANGED <<widths, height, ladder>>
  BY DEF CreateThrows, LadderRests
<1>. QED
  BY <1>1, <1>2, PlanMoves

(* The others, when the ladder has changed under them.                      *)
LEMMA OthersSound ==
  ASSUME LadderInv, NEW hs, NEW h \in Extenders, h \in hs, NEW new,
         \A b \in Nat, r \in ladder :
           b >= height - Keep /\ Within(b, r) => \E q \in new : Within(b, q)
  PROVE  PlanSound(Disturbed(hs)[h], widths[h], new, height - Keep, SameWidth)
<1>1. Disturbed(hs)[h] = IF plan[h] # NoPlan THEN [plan[h] EXCEPT !.alone = FALSE] ELSE NoPlan
  BY DEF Disturbed
<1>2. PlanSound(plan[h], widths[h], ladder, height - Keep, SameWidth)
  BY DEF LadderInv
<1>3. SameWidth \in BOOLEAN
  BY DEF SameWidth
<1>4. PlanSound(NoPlan, widths[h], new, height - Keep, SameWidth)
  BY <1>3, RestSound
<1>5. PlanSound([plan[h] EXCEPT !.alone = FALSE], widths[h], new, height - Keep, SameWidth)
  BY <1>2, <1>3, PlanOutlives
<1>. QED
  BY <1>1, <1>4, <1>5

LEMMA OldestDropped ==
  ASSUME LadderInv, DropOldest
  PROVE  LadderInv'
<1>1. PICK r \in ladder : r.hi <= height - Keep /\ ladder' = ladder \ {r}
  BY DEF DropOldest
<1>2. widths' = widths /\ height' = height /\ plan' = Disturbed(Extenders)
  BY DEF DropOldest
<1>3. height - Keep \in Int /\ r.hi \in Nat
  BY LadderNumbers DEF LadderInv, Proper, Ranges
<1>4. \A b \in Nat, q \in ladder :
        b >= height - Keep /\ Within(b, q) => \E p \in ladder' : Within(b, p)
  <2>. SUFFICES ASSUME NEW b \in Nat, NEW q \in ladder, b >= height - Keep, Within(b, q)
                PROVE  q \in ladder'
    OBVIOUS
  <2>1. q # r
    BY <1>1, <1>3 DEF Within
  <2>. QED
    BY <1>1, <2>1
<1>5. \A h \in Extenders :
        PlanSound(plan'[h], widths[h], ladder', height - Keep, SameWidth)
  BY <1>2, <1>4, OthersSound
<1>6. DOMAIN plan' = Extenders
  BY <1>2 DEF Disturbed
<1>7. SameWidth' <=> SameWidth
  BY <1>2 DEF SameWidth
<1>8. \A q \in ladder' : q \in ladder
  BY <1>1
<1>. QED
  BY <1>2, <1>5, <1>6, <1>7, <1>8 DEF LadderInv

LEMMA ChainGrows ==
  ASSUME LadderInv, HeightGrows
  PROVE  LadderInv'
<1>1. height' = height + 1 /\ height < MaxHeight /\ UNCHANGED <<widths, ladder, plan>>
  BY DEF HeightGrows
<1>2. height \in Nat /\ MaxHeight \in Nat /\ Keep \in Nat /\ height' \in 0 .. MaxHeight
  BY <1>1, LadderNumbers DEF LadderInv
<1>3. \A b \in Nat : b >= height' - Keep => b >= height - Keep
  BY <1>1, <1>2
<1>4. SameWidth \in BOOLEAN /\ SameWidth' = SameWidth
  BY <1>1 DEF SameWidth
<1>5. \A g \in Extenders : PlanSound(plan[g], widths[g], ladder, height' - Keep, SameWidth)
  <2>. SUFFICES ASSUME NEW g \in Extenders
                PROVE  PlanSound(plan[g], widths[g], ladder, height' - Keep, SameWidth)
    OBVIOUS
  <2>1. PlanSound(plan[g], widths[g], ladder, height - Keep, SameWidth)
    BY DEF LadderInv
  <2>. QED
    BY <1>3, <1>4, <2>1, PlanStays
<1>6. \A g \in Extenders : PlanSound(plan[g], widths[g], ladder, height' - Keep, SameWidth')
  BY <1>4, <1>5
<1>7. SameWidth' => \A r \in ladder, g \in Extenders : Aligned(r, widths[g])
  BY <1>4 DEF LadderInv
<1>8. /\ widths \in Widths /\ DOMAIN plan = Extenders
      /\ \A r \in ladder : Proper(r)
  BY DEF LadderInv
<1>9. widths' = widths /\ ladder' = ladder /\ plan' = plan
  BY <1>1
<1>. QED
  BY <1>2, <1>6, <1>7, <1>8, <1>9 DEF LadderInv

(* What is made of a plan when its first range has its partition.           *)
LEMMA PlanShrinks ==
  ASSUME NEW p, NEW w \in Nat \ {0}, NEW there, NEW new, NEW low \in Int, NEW same \in BOOLEAN,
         PlanSound(p, w, there, low, same), \A r \in there : Proper(r),
         p.at = "create", p.ranges # <<>>,
         \A r \in there : r \in new,
         \A r \in new : r \in there \/ r = Head(p.ranges),
         p.alone \/ same => \E r \in new : r.lo = Head(p.ranges).lo /\ r.hi = Head(p.ranges).hi
  PROVE  PlanSound([p EXCEPT !.ranges = Tail(@)], w, new, low, same)
<1>. DEFINE q == [p EXCEPT !.ranges = Tail(@)]
            t == Tail(p.ranges)
<1>1. p \in PlanRecord /\ p.ranges \in Seq(Ranges)
  BY DEF PlanSound, PlanRecord
<1>2. /\ t \in Seq(Ranges) /\ Head(p.ranges) = p.ranges[1] /\ 1 \in 1 .. Len(p.ranges)
      /\ Len(p.ranges) \in Nat /\ Len(t) \in Nat
      /\ \A i \in 1 .. Len(t) : i + 1 \in 1 .. Len(p.ranges) /\ t[i] = p.ranges[i + 1]
      /\ \A i \in 1 .. Len(p.ranges) : i # 1 => i - 1 \in 1 .. Len(t) /\ t[i - 1] = p.ranges[i]
  BY <1>1, TailOf
<1>3. /\ q.at = p.at /\ q.from = p.from /\ q.ranges = t /\ q.alone = p.alone
      /\ q \in PlanRecord
  BY <1>1, <1>2 DEF PlanRecord
<1> HIDE DEF q, t
<1>4. \A i \in 1 .. Len(p.ranges) : Proper(p.ranges[i])
  BY DEF PlanSound
<1>5. \A i \in 1 .. Len(t) : Proper(t[i])
  BY <1>2, <1>4
<1>6. ASSUME p.alone
      PROVE  Clear(new, t)
  <2>1. Clear(there, p.ranges)
    BY <1>6 DEF PlanSound
  <2>2. ASSUME NEW i \in 1 .. Len(t), NEW r \in new
        PROVE  ~Overlaps(r, t[i])
    <3>1. i + 1 \in 1 .. Len(p.ranges) /\ t[i] = p.ranges[i + 1]
      BY <1>2
    <3>2. CASE r \in there
      BY <2>1, <3>1, <3>2 DEF Clear
    <3>3. CASE r = p.ranges[1]
      <4>1. 1 < i + 1
        BY <1>2
      <4>2. p.ranges[1].hi <= p.ranges[i + 1].lo
        BY <1>2, <2>1, <3>1, <4>1 DEF Clear
      <4>3. Proper(p.ranges[1]) /\ Proper(p.ranges[i + 1])
        BY <1>2, <1>4, <3>1
      <4>4. /\ p.ranges[1].hi \in Nat /\ p.ranges[i + 1].lo \in Nat
        BY <4>3, LadderNumbers DEF Proper, Ranges
      <4>. QED
        BY <3>1, <3>3, <4>2, <4>4 DEF Overlaps
    <3>. QED
      BY <1>2, <3>2, <3>3
  <2>3. ASSUME NEW i \in 1 .. Len(t), NEW j \in 1 .. Len(t), i < j
        PROVE  t[i].hi <= t[j].lo
    <3>1. /\ i + 1 \in 1 .. Len(p.ranges) /\ t[i] = p.ranges[i + 1]
          /\ j + 1 \in 1 .. Len(p.ranges) /\ t[j] = p.ranges[j + 1]
      BY <1>2
    <3>2. i + 1 < j + 1
      BY <1>2, <2>3
    <3>. QED
      BY <2>1, <3>1, <3>2 DEF Clear
  <2>. QED
    BY <2>2, <2>3 DEF Clear
<1>7. ASSUME p.alone \/ same
      PROVE  Provided(q, w, new, low)
  <2>. SUFFICES ASSUME NEW b \in p.from .. p.from + Ahead * w, b >= low
                PROVE  \/ \E r \in new : Within(b, r)
                       \/ \E i \in 1 .. Len(t) : Within(b, t[i])
    BY <1>3 DEF Provided
  <2>1. \/ \E r \in there : Within(b, r)
        \/ \E i \in 1 .. Len(p.ranges) : Within(b, p.ranges[i])
    BY <1>7 DEF PlanSound, Provided
  <2>2. CASE \E r \in there : Within(b, r)
    BY <2>2
  <2>3. ASSUME NEW i \in 1 .. Len(p.ranges), Within(b, p.ranges[i]), i # 1
        PROVE  \E k \in 1 .. Len(t) : Within(b, t[k])
    BY <1>2, <2>3
  <2>4. CASE Within(b, p.ranges[1])
    <3>1. PICK r \in new : r.lo = p.ranges[1].lo /\ r.hi = p.ranges[1].hi
      BY <1>2, <1>7
    <3>2. Within(b, r)
      BY <2>4, <3>1 DEF Within
    <3>. QED
      BY <3>2
  <2>. QED
    BY <2>1, <2>2, <2>3, <2>4
<1>8. same => \A i \in 1 .. Len(t) : Aligned(t[i], w)
  <2>1. same => \A i \in 1 .. Len(p.ranges) : Aligned(p.ranges[i], w)
    BY DEF PlanSound
  <2>. QED
    BY <1>2, <2>1
<1>9. PlanSound(q, w, new, low, same)
  BY <1>3, <1>5, <1>6, <1>7, <1>8 DEF PlanSound
<1>. QED
  BY <1>9 DEF q

(* Of two ranges of one width that begin at one block neither is longer.    *)
LEMMA SameStart ==
  ASSUME NEW w \in Nat \ {0}, NEW r, NEW s, Aligned(r, w), Aligned(s, w), r.lo = s.lo
  PROVE  r.hi = s.hi
<1>1. PICK k \in Nat : r.lo = k * w /\ r.hi = (k + 1) * w
  BY DEF Aligned
<1>2. PICK m \in Nat : s.lo = m * w /\ s.hi = (m + 1) * w
  BY DEF Aligned
<1>3. k * w \in Nat /\ m * w \in Nat /\ (k + 1) * w = k * w + w /\ (m + 1) * w = m * w + w
  BY Multiples
<1>. QED
  BY <1>1, <1>2, <1>3

LEMMA PartitionCreated ==
  ASSUME LadderInv, NEW g \in Extenders, CreatePartition(g)
  PROVE  LadderInv'
<1>. DEFINE p == plan[g]
            w == widths[g]
            low == height - Keep
            range == Head(p.ranges)
            fits == \A r \in ladder : r.lo # range.lo
            new == IF fits THEN ladder \cup {range} ELSE ladder
            own == [p EXCEPT !.ranges = Tail(@)]
            rest == IF fits THEN Disturbed(Extenders \ {g}) ELSE plan
<1>1. /\ p.at = "create" /\ p.ranges # <<>>
      /\ fits => \A r \in ladder : ~Overlaps(r, range)
      /\ ladder' = new /\ widths' = widths /\ height' = height
      /\ plan' = [rest EXCEPT ![g].ranges = Tail(@)]
  BY DEF CreatePartition
<1>2. PlanSound(p, w, ladder, low, SameWidth)
  BY DEF LadderInv
<1>3. /\ w \in Nat \ {0} /\ low \in Int /\ SameWidth \in BOOLEAN
  BY LadderNumbers DEF LadderInv, SameWidth
<1>4. p \in PlanRecord /\ p.ranges \in Seq(Ranges)
  BY <1>2 DEF PlanSound, PlanRecord
<1>5. range = p.ranges[1] /\ 1 \in 1 .. Len(p.ranges)
  BY <1>1, <1>4, TailOf
<1>6. Proper(range)
  BY <1>2, <1>5 DEF PlanSound
<1>7. SameWidth => Aligned(range, w)
  BY <1>1, <1>2, <1>5 DEF PlanSound
<1>8. /\ DOMAIN rest = Extenders /\ rest[g] = p
  BY DEF Disturbed, LadderInv
<1>9. plan' = [h \in Extenders |-> IF h = g THEN own ELSE rest[h]]
  BY <1>1, <1>8
<1>10. \A r \in ladder : Proper(r)
  BY DEF LadderInv
<1>11. /\ \A r \in ladder : r \in new
       /\ \A r \in new : r \in ladder \/ r = range
  OBVIOUS
<1>12. p.alone \/ SameWidth => \E r \in new : r.lo = range.lo /\ r.hi = range.hi
  <2>1. CASE fits
    BY <2>1
  <2>2. CASE ~fits
    <3>1. PICK r \in ladder : r.lo = range.lo
      BY <2>2
    <3>2. Overlaps(r, range)
      BY <1>6, <1>10, <3>1, LadderNumbers DEF Overlaps, Proper, Ranges
    <3>3. ~p.alone
      BY <1>1, <1>2, <1>5, <3>2 DEF PlanSound, Clear
    <3>4. SameWidth => r.hi = range.hi
      <4>1. SameWidth => Aligned(r, w)
        BY DEF LadderInv
      <4> HIDE DEF range, w
      <4>. QED
        BY <1>3, <1>7, <3>1, <4>1, SameStart
    <3>. QED
      BY <2>2, <3>1, <3>3, <3>4
  <2>. QED
    BY <2>1, <2>2
<1> HIDE DEF p, w, low, fits
<1>13. PlanSound(own, w, new, low, SameWidth)
  <2> HIDE DEF new
  <2>. QED
    BY <1>1, <1>2, <1>3, <1>10, <1>11, <1>12, PlanShrinks
<1>14. ASSUME NEW h \in Extenders, h # g
       PROVE  PlanSound(rest[h], widths[h], new, low, SameWidth)
  <2>1. CASE fits
    <3>1. \A b \in Nat, r \in ladder :
            b >= height - Keep /\ Within(b, r) => \E q \in new : Within(b, q)
      BY <1>11
    <3>2. PlanSound(Disturbed(Extenders \ {g})[h], widths[h], new, height - Keep, SameWidth)
      <4> HIDE DEF new
      <4>. QED
        BY <1>14, <3>1, OthersSound
    <3>. QED
      BY <2>1, <3>2 DEF low
  <2>2. CASE ~fits
    BY <2>2 DEF LadderInv, low
  <2>. QED
    BY <2>1, <2>2
<1> HIDE DEF own, rest, new, range
<1>15. \A h \in Extenders : PlanSound(plan'[h], widths[h], new, low, SameWidth)
  BY <1>9, <1>13, <1>14 DEF w
<1>16. SameWidth' <=> SameWidth
  BY <1>1 DEF SameWidth
<1>17. \A r \in new : Proper(r)
  BY <1>6, <1>10, <1>11
<1>18. SameWidth => \A r \in new, h \in Extenders : Aligned(r, widths[h])
  <2>. SUFFICES ASSUME SameWidth, NEW r \in new, NEW h \in Extenders
                PROVE  Aligned(r, widths[h])
    OBVIOUS
  <2>1. widths[h] = w
    BY DEF SameWidth, w
  <2>2. CASE r \in ladder
    BY <2>2 DEF LadderInv
  <2>3. CASE r = range
    BY <1>7, <2>1, <2>3
  <2>. QED
    BY <1>11, <2>2, <2>3
<1>19. \A h \in Extenders : PlanSound(plan'[h], widths'[h], ladder', height' - Keep, SameWidth')
  BY <1>1, <1>15, <1>16 DEF low
<1>20. SameWidth' => \A r \in ladder', h \in Extenders : Aligned(r, widths'[h])
  BY <1>1, <1>16, <1>18
<1>21. /\ widths' \in Widths /\ height' \in 0 .. MaxHeight /\ DOMAIN plan' = Extenders
       /\ \A r \in ladder' : Proper(r)
  BY <1>1, <1>9, <1>17 DEF LadderInv
<1>. QED
  BY <1>19, <1>20, <1>21 DEF LadderInv

LEMMA LadderStep == LadderInv /\ [LadderNext]_ladderVars => LadderInv'
<1>. SUFFICES ASSUME LadderInv, [LadderNext]_ladderVars
              PROVE  LadderInv'
  OBVIOUS
<1>1. CASE UNCHANGED ladderVars
  <2>1. widths' = widths /\ height' = height /\ ladder' = ladder /\ plan' = plan
    BY <1>1 DEF ladderVars
  <2>. QED
    BY <2>1 DEF LadderInv, SameWidth
<1>2. CASE HeightGrows
  BY <1>2, ChainGrows
<1>3. CASE DropOldest
  BY <1>3, OldestDropped
<1>4. ASSUME NEW g \in Extenders, PlanLadder(g) PROVE LadderInv'
  BY <1>4, PlanStarts
<1>5. ASSUME NEW g \in Extenders, CreatePartition(g) PROVE LadderInv'
  BY <1>5, PartitionCreated
<1>6. ASSUME NEW g \in Extenders, CreateRefused(g) PROVE LadderInv'
  BY <1>6, PlanRefused
<1>7. ASSUME NEW g \in Extenders, CreateThrows(g) \/ LadderRests(g) PROVE LadderInv'
  BY <1>7, PlanRests
<1>8. ASSUME NEW g \in Extenders, LadderDone(g) PROVE LadderInv'
  BY <1>8, PlanDone
<1>. QED
  BY <1>1, <1>2, <1>3, <1>4, <1>5, <1>6, <1>7, <1>8 DEF LadderNext

THEOREM LadderSound == LadderSpec => []LadderInv
<1>. QED
  BY LadderInitInv, LadderStep, PTL DEF LadderSpec

(* The partitions stay within the catalog's bounds, and none is empty:      *)
(* what CREATE TABLE ... FOR VALUES FROM (lo) TO (hi) demands of every one. *)
THEOREM LadderTypes == LadderSpec => []LadderTypeOK
<1>1. LadderInv => LadderTypeOK
  <2>. SUFFICES ASSUME LadderInv PROVE LadderTypeOK
    OBVIOUS
  <2>1. \A r \in ladder : r.lo \in 0 .. LadderTop /\ r.hi \in r.lo + 1 .. LadderTop
    BY LadderNumbers DEF LadderInv, Proper, Ranges
  <2>2. \A g \in Extenders : plan[g].at \in {"idle", "create", "refused", "done"}
    BY DEF LadderInv, PlanSound, PlanRecord
  <2>. QED
    BY <2>1, <2>2 DEF LadderInv, LadderTypeOK
<1>. QED
  BY <1>1, LadderSound, PTL

(* A run of ensureInternalTxPartitions with the ladder to itself is never   *)
(* refused a range, and after a run to the end every block up to its        *)
(* horizon has a partition to be written to, also where others of the same  *)
(* width were at it: for any widths and anchors, whatever they made before. *)
THEOREM LadderWhole == LadderSpec => []LadderHolds
<1>1. LadderInv => NeverStraddles
  BY DEF LadderInv, PlanSound, NeverStraddles
<1>2. LadderInv => RunCovers
  <2>. SUFFICES ASSUME LadderInv, NEW g \in Extenders, plan[g].at = "done",
                       plan[g].alone \/ \A h \in Extenders : widths[h] = widths[g],
                       NEW b \in plan[g].from .. Horizon(g, plan[g].from), b >= height - Keep
                PROVE  HasPartition(b)
    BY DEF RunCovers
  <2>1. (\A h \in Extenders : widths[h] = widths[g]) => SameWidth
    BY DEF SameWidth
  <2>2. PlanSound(plan[g], widths[g], ladder, height - Keep, SameWidth)
    BY DEF LadderInv
  <2>3. Provided(plan[g], widths[g], ladder, height - Keep) /\ plan[g].ranges = <<>>
    BY <2>1, <2>2 DEF PlanSound
  <2>4. Len(plan[g].ranges) = 0
    BY <2>3
  <2>5. b \in plan[g].from .. plan[g].from + Ahead * widths[g]
    BY DEF Horizon
  <2>. QED
    BY <2>3, <2>4, <2>5 DEF Provided, HasPartition
<1>. QED
  BY <1>1, <1>2, LadderSound, PTL DEF LadderHolds

-----------------------------------------------------------------------------
(* What ensureSchema and the retention timer do to indexes and partitions,  *)
(* by any number of processes: a natural key is left, no partition gets two *)
(* indexes, and no block is without a partition.                            *)
THEOREM SchemaIsKept == SchemaSpec /\ LadderSpec => []SchemaKept
<1>1. OneKeyLeft /\ OneIndexEach /\ LadderHolds => SchemaKept
  BY DEF SchemaKept
<1>. QED
  BY KeyNeverMissing, NothingBuiltTwice, LadderWhole, <1>1, PTL
=============================================================================
