---------------------------- MODULE SchemaIndexes ----------------------------
(***************************************************************************)
(* What ensureSchema does about indexes when an indexer process starts      *)
(* (apps/indexer/src/ensure-schema.ts): it sweeps invalid ones, builds what *)
(* is missing with CREATE INDEX CONCURRENTLY in the background, and retires *)
(* an old one once its replacement is valid.  Deploys overlap, so two       *)
(* generations may be at it at once, beside partitions that come and go.    *)
(*                                                                          *)
(* Statements about different indexes do not touch one another; a behaviour *)
(* follows one of three: the natural key of dex_trades, and the two indexes *)
(* of the partitioned token_transfers, one of which is resumed by the names *)
(* of the child indexes and one by what the catalog has attached.           *)
(***************************************************************************)
EXTENDS Integers, FiniteSets, FiniteSetsExt

CONSTANTS
  Generations,    \* indexer processes that may overlap
  FirstParts,     \* partitions the migration has made
  MaxPartition    \* bound of the model: partitions ever made

ASSUME SchemaAssumption ==
  /\ MaxPartition \in Nat
  /\ FirstParts \in SUBSET (1 .. MaxPartition) /\ FirstParts # {}

VARIABLES
  followed,   \* the index this behaviour is about
  leaf,       \* the ordinary index of each name: none, building, dead, valid
  oldKey,     \* dex_tx_log_unique is there
  parts,      \* partitions of token_transfers
  parent,     \* the partitioned index: none, invalid, valid
  attached,   \* what a partition has attached: none, its built child, a clone
  boot,       \* what ensureSchema of each generation is at
  \* history
  keyed,      \* dex_trades has had a natural key
  repeated,   \* dex_trades holds a trade twice
  outdated    \* a sweep dropped what had become valid since it was listed

catalog    == <<leaf, oldKey, parts, parent, attached>>
schemaVars == <<followed, catalog, boot, keyed, repeated, outdated>>

NewKey      == 0
Partitions  == 1 .. MaxPartition
IndexNames  == {NewKey} \cup Partitions
OfPartition == followed \in {"byName", "byCatalog"}

Asleep == [at |-> "off", listed |-> {}, todo |-> {}, seen |-> {}, on |-> NewKey]

SchemaInit ==
  /\ followed \in {"key", "byName", "byCatalog"}
  /\ leaf = [n \in IndexNames |-> "none"]
  /\ oldKey \in BOOLEAN /\ (OfPartition => ~oldKey)
  /\ parts = IF OfPartition THEN FirstParts ELSE {}
  /\ parent = "none"
  /\ attached = [p \in Partitions |-> "none"]
  /\ boot = [g \in Generations |-> Asleep]
  /\ keyed = oldKey
  /\ repeated = FALSE /\ outdated = FALSE

IsAt(g, at) == boot[g].at = at
Turns(g, at) == boot' = [boot EXCEPT ![g].at = at]
Sleeps(g)    == boot' = [boot EXCEPT ![g] = Asleep]

-----------------------------------------------------------------------------
(* Postgres, as the code relies on it.                                      *)

(* A parent turns valid when every partition has a valid child attached,    *)
(* and that is looked at when a child is attached, be it once more (as on   *)
(* the version in production), not when one is dropped.                     *)
Serves(att, p) == att[p] = "cloned" \/ (att[p] = "built" /\ leaf[p] = "valid")
Whole(att)     == \A p \in parts : Serves(att, p)

LooksAgain(att) == parent' = IF Whole(att) THEN "valid" ELSE parent

(* A build goes on when the process that asked for it is gone, and a child  *)
(* that is attached by then is not looked at again.                         *)
Builders(n) == {g \in Generations : IsAt(g, "building") /\ boot[g].on = n}

Resume(n, at) ==
  boot' = [g \in Generations |-> IF g \in Builders(n) THEN [boot[g] EXCEPT !.at = at] ELSE boot[g]]

BuildEnds(n) ==
  /\ leaf[n] = "building"
  /\ n = NewKey => ~repeated
  /\ leaf' = [leaf EXCEPT ![n] = "valid"]
  /\ keyed' = (keyed \/ n = NewKey)
  /\ Resume(n, "made")
  /\ UNCHANGED <<followed, oldKey, parts, parent, attached, repeated, outdated>>

(* A duplicate in the table, a timeout or a lost connection: the index      *)
(* stays in the catalog, invalid.  The statement has thrown.                *)
BuildDies(n) ==
  /\ leaf[n] = "building"
  /\ leaf' = [leaf EXCEPT ![n] = "dead"]
  /\ Resume(n, IF n = NewKey THEN "made" ELSE "failed")
  /\ UNCHANGED <<followed, oldKey, parts, parent, attached, keyed, repeated, outdated>>

(* A block is processed again.  With a natural key in force its trades      *)
(* conflict and nothing happens.                                            *)
ReplayTrade ==
  /\ followed = "key"
  /\ ~oldKey /\ leaf[NewKey] # "valid"
  /\ repeated' = TRUE
  /\ UNCHANGED <<followed, catalog, boot, keyed, outdated>>

-----------------------------------------------------------------------------
(* Partitions.                                                              *)

(* ensureForwardPartitions, at boot or from the retention timer: the ladder *)
(* is extended from its upper end, one transaction each, as far as the lock *)
(* can be had.  Postgres gives a new partition an index of its own naming   *)
(* for each one the parent table has.                                       *)
ForwardPartition ==
  /\ OfPartition
  /\ \E p \in Partitions :
       /\ p = Max(parts) + 1
       /\ parts' = parts \cup {p}
       /\ attached' = [attached EXCEPT ![p] = IF parent = "none" THEN "none" ELSE "cloned"]
  /\ UNCHANGED <<followed, leaf, oldKey, parent, boot, keyed, repeated, outdated>>

(* Retention drops the oldest partition, which waits for a build on it.     *)
DropPartition ==
  /\ OfPartition
  /\ Cardinality(parts) > 1
  /\ LET p == Min(parts)
     IN  /\ leaf[p] # "building"
         /\ parts' = parts \ {p}
         /\ leaf' = [leaf EXCEPT ![p] = "none"]
         /\ attached' = [attached EXCEPT ![p] = "none"]
  /\ UNCHANGED <<followed, oldKey, parent, boot, keyed, repeated, outdated>>

-----------------------------------------------------------------------------
(* sweepInvalidIndexes.                                                     *)

InvalidChildren == {n \in Partitions : leaf[n] = "dead"}   \* mutant: not the key
(* Invalid, and no build of it is running.                                  *)
InvalidIndexes == {n \in IndexNames : leaf[n] = "dead"}

Boot(g) ==
  /\ IsAt(g, "off")
  /\ boot' = [boot EXCEPT ![g] = [Asleep EXCEPT !.at = "sweep", !.listed = InvalidIndexes]]
  /\ UNCHANGED <<followed, catalog, keyed, repeated, outdated>>

Strike(g, n) == boot' = [boot EXCEPT ![g].listed = @ \ {n}]

(* DROP INDEX goes by the name: it takes what has the name by now.  It does *)
(* not get its lock beside a build, and is refused for an attached child.   *)
SweepDrops(g) ==
  /\ IsAt(g, "sweep")
  /\ \E n \in boot[g].listed :
       /\ leaf[n] \in {"dead", "valid"}
       /\ n \in Partitions => attached[n] # "built"
       /\ leaf' = [leaf EXCEPT ![n] = "none"]
       /\ outdated' = (outdated \/ leaf[n] = "valid")
       /\ Strike(g, n)
  /\ UNCHANGED <<followed, oldKey, parts, parent, attached, keyed, repeated>>

(* The lock cannot be had in time, or the DROP is refused, or there is      *)
(* nothing of the name: the next boot tries again.                          *)
SweepSkips(g) ==
  /\ IsAt(g, "sweep")
  /\ \E n \in boot[g].listed : Strike(g, n)
  /\ UNCHANGED <<followed, catalog, keyed, repeated, outdated>>

-----------------------------------------------------------------------------
(* CREATE INDEX CONCURRENTLY IF NOT EXISTS: whatever has the name already,  *)
(* valid or not, is left as it is.  A partition that is gone is an error.   *)
Create(g, n) ==
  LET next == IF n \in Partitions \ parts THEN "failed"
              ELSE IF leaf[n] = "none" THEN "building" ELSE "made"
  IN  /\ boot' = [boot EXCEPT ![g] = [@ EXCEPT !.at = next, !.on = n]]
      /\ leaf' = IF next = "building" THEN [leaf EXCEPT ![n] = next] ELSE leaf
      /\ UNCHANGED <<followed, oldKey, parts, parent, attached, keyed, repeated, outdated>>

-----------------------------------------------------------------------------
(* The natural key moves from (tx_hash, log_index) to (block, log_index).   *)

CreateKey(g) ==
  /\ followed = "key"
  /\ IsAt(g, "sweep") /\ boot[g].listed = {}
  /\ Create(g, NewKey)

ReplacementAssumed(n) == TRUE   \* mutant: the build has been issued, so it is there
(* plainIndexIsValid.                                                       *)
ReplacementValid(n) == leaf[n] = "valid"

(* retireOldDexKeySql: nothing to run unless the replacement is valid.      *)
CheckKey(g) ==
  /\ followed = "key"
  /\ IsAt(g, "made")
  /\ IF ReplacementValid(NewKey) THEN Turns(g, "retire") ELSE Sleeps(g)
  /\ UNCHANGED <<followed, catalog, keyed, repeated, outdated>>

RetireKey(g) ==
  /\ IsAt(g, "retire")
  /\ oldKey' = FALSE
  /\ Sleeps(g)
  /\ UNCHANGED <<followed, leaf, parts, parent, attached, keyed, repeated, outdated>>

RetireFails(g) ==
  /\ IsAt(g, "retire")
  /\ Sleeps(g)
  /\ UNCHANGED <<followed, catalog, keyed, repeated, outdated>>

-----------------------------------------------------------------------------
(* ensurePartitionedWhaleIndex and ensurePartitionedTtWhaleIndex.           *)

(* A valid parent is left alone; otherwise the partitions are listed.       *)
BeginPartitions(g) ==
  /\ OfPartition
  /\ IsAt(g, "sweep") /\ boot[g].listed = {}
  /\ IF parent = "valid" THEN Sleeps(g)
     ELSE boot' = [boot EXCEPT ![g].at = "parent", ![g].todo = parts]
  /\ UNCHANGED <<followed, catalog, keyed, repeated, outdated>>

(* CREATE INDEX IF NOT EXISTS ... ON ONLY.                                  *)
CreateParent(g) ==
  /\ IsAt(g, "parent")
  /\ parent' = IF parent = "none" THEN "invalid" ELSE parent
  /\ Turns(g, "covered")
  /\ UNCHANGED <<followed, leaf, oldKey, parts, attached, keyed, repeated, outdated>>

CreateParentFails(g) ==
  /\ IsAt(g, "parent")
  /\ Sleeps(g)
  /\ UNCHANGED <<followed, catalog, keyed, repeated, outdated>>

CoveredByName == {p \in parts : attached[p] = "built"}   \* mutant: clones are not seen
(* listAttachedChildIndexes knows children by their name, which a clone has *)
(* not; listPartitionsWithAttachedIndex asks for the partition.             *)
Covered ==
  IF followed = "byName" THEN {p \in parts : attached[p] = "built"}
                         ELSE {p \in parts : attached[p] # "none"}

ReadCovered(g) ==
  /\ IsAt(g, "covered")
  /\ boot' = [boot EXCEPT ![g].at = "loop", ![g].seen = Covered \cap boot[g].todo]
  /\ UNCHANGED <<followed, catalog, keyed, repeated, outdated>>

MovesAlong(g, p) ==
  boot' = [boot EXCEPT ![g] = [@ EXCEPT !.at = "loop", !.on = NewKey,
                                        !.todo = boot[g].todo \ {p}, !.seen = boot[g].seen \ {p}]]

(* By catalog, a partition that was covered is passed over.                *)
PassOver(g) ==
  /\ followed = "byCatalog"
  /\ IsAt(g, "loop") /\ boot[g].todo # {}
  /\ LET p == Min(boot[g].todo) IN p \in boot[g].seen /\ MovesAlong(g, p)
  /\ UNCHANGED <<followed, catalog, keyed, repeated, outdated>>

(* By name, the child is created for every one, and then attached if it was *)
(* not.                                                                     *)
CreateChild(g) ==
  /\ IsAt(g, "loop") /\ boot[g].todo # {}
  /\ LET p == Min(boot[g].todo)
     IN  /\ followed = "byCatalog" => p \notin boot[g].seen
         /\ Create(g, p)

AttachDue(g) == ~(followed = "byName" /\ boot[g].on \in boot[g].seen)

(* A child is attached whether or not it is valid by now.                   *)
Attach(g) ==
  /\ OfPartition /\ IsAt(g, "made")
  /\ AttachDue(g)
  /\ LET p == boot[g].on
     IN  /\ p \in parts /\ leaf[p] # "none" /\ attached[p] # "cloned"
         /\ attached' = [attached EXCEPT ![p] = "built"]
         /\ LooksAgain(attached')
  /\ MovesAlong(g, boot[g].on)
  /\ UNCHANGED <<followed, leaf, oldKey, parts, keyed, repeated, outdated>>

(* The partition or the child is gone, the partition has a clone, or the    *)
(* lock cannot be had; or there was nothing to attach.  The loop goes on.   *)
PartitionFails(g) ==
  /\ OfPartition
  /\ IsAt(g, "made") \/ IsAt(g, "failed")
  /\ MovesAlong(g, boot[g].on)
  /\ UNCHANGED <<followed, catalog, keyed, repeated, outdated>>

(* By catalog, a parent that is invalid with every partition covered has a  *)
(* child attached once more.                                                *)
EndPartitions(g) ==
  /\ IsAt(g, "loop") /\ boot[g].todo = {}
  /\ IF followed = "byCatalog" /\ \A p \in parts : attached[p] # "none"
     THEN LooksAgain(attached)
     ELSE UNCHANGED parent
  /\ Sleeps(g)
  /\ UNCHANGED <<followed, leaf, oldKey, parts, attached, keyed, repeated, outdated>>

-----------------------------------------------------------------------------
(* One of the generations is stopped for good, wherever it is: the deploy   *)
(* that overlapped is over, or the process died and the other is its        *)
(* successor.  A build it asked for goes on.                                *)
Stopped(g) ==
  /\ \A h \in Generations : ~IsAt(h, "gone")
  /\ Cardinality(Generations) > 1
  /\ boot' = [boot EXCEPT ![g] = [Asleep EXCEPT !.at = "gone"]]
  /\ UNCHANGED <<followed, catalog, keyed, repeated, outdated>>

(* Steps that fail at nothing and wait for nothing.                         *)
Onward(g) ==
  \/ Boot(g)
  \/ SweepSkips(g)
  \/ CreateKey(g)
  \/ CheckKey(g)
  \/ BeginPartitions(g)
  \/ ReadCovered(g)
  \/ PassOver(g)
  \/ CreateChild(g)
  \/ PartitionFails(g)
  \/ EndPartitions(g)

(* Steps that make something that lasts.                                    *)
Gains ==
  \/ \E n \in IndexNames : BuildEnds(n)
  \/ \E g \in Generations :
       \/ RetireKey(g)
       \/ Attach(g) /\ attached[boot[g].on] = "none"

SchemaNext ==
  \/ ReplayTrade
  \/ ForwardPartition
  \/ DropPartition
  \/ \E n \in IndexNames : BuildEnds(n)
  \/ \E n \in IndexNames : BuildDies(n)
  \/ \E g \in Generations :
       \/ Onward(g)
       \/ SweepDrops(g)
       \/ RetireKey(g)
       \/ RetireFails(g)
       \/ CreateParent(g)
       \/ CreateParentFails(g)
       \/ Attach(g)
       \/ Stopped(g)

SchemaSpec == SchemaInit /\ [][SchemaNext]_schemaVars

-----------------------------------------------------------------------------
SchemaTypeOK ==
  /\ leaf \in [IndexNames -> {"none", "building", "dead", "valid"}]
  /\ parts \subseteq Partitions
  /\ parent \in {"none", "invalid", "valid"}
  /\ attached \in [Partitions -> {"none", "built", "cloned"}]
  /\ \A g \in Generations :
       /\ boot[g].listed \subseteq IndexNames
       /\ boot[g].todo \cup boot[g].seen \subseteq Partitions

(* Some natural key of dex_trades is in force at every moment, whatever the *)
(* two generations retire, build and lose, so that a replayed block adds    *)
(* nothing; unless a sweep took an index that had become valid meanwhile.   *)
OneKeyLeft ==
  followed = "key" /\ keyed /\ ~outdated => oldKey \/ leaf[NewKey] = "valid"

(* Resumed by the catalog, the build never puts an index of its own beside  *)
(* the clone a partition was born with.                                     *)
OneIndexEach ==
  followed = "byCatalog" => \A p \in parts : attached[p] = "cloned" => leaf[p] = "none"

(* A child that was attached before its build died can neither be swept nor *)
(* built again.                                                             *)
AttachedDead(p) == attached[p] = "built" /\ leaf[p] = "dead"

(* What a crash, a dead build or a dropped partition interrupted is made up *)
(* for by later boots: the new key comes into force and the old one goes,   *)
(* unless repeated trades are there to stop it; every partition is served,  *)
(* but for a dead child that was attached.  Only sweeps of generations that *)
(* overlap time and again could undo it time and again.                     *)
IndexesInPlace ==
  /\ followed = "key" => repeated \/ (leaf[NewKey] = "valid" /\ ~oldKey)
  /\ \A p \in parts : Serves(attached, p) \/ AttachedDead(p)

Overlap == Cardinality({g \in Generations : boot[g].at \notin {"off", "gone"}}) > 1

IndexesSettle == <>[]~Overlap => <>[]IndexesInPlace
=============================================================================
