------------------------------ MODULE MCServices ------------------------------
(***************************************************************************)
(* Parts of the system that do not share state, side by side: each          *)
(* behaviour is one of the part chosen at the start, the others rest.       *)
(***************************************************************************)
EXTENDS RpcFailover, BackfillWorker, HistoryServe, EnsureSchema

CONSTANTS r1, i1, i2, g1, g2

VARIABLE part

(* Two workers whose fetches fail together, or a worker and a reader of     *)
(* another kind of request.                                                 *)
TwoOfAKindOrTwoKinds == {{0, 1}, {0, r1}}

(* Seven rows, three of them in each of the first two blocks, in an order   *)
(* of the hashes that is not the provider's.                                *)
SevenRows == <<1, 1, 1, 2, 2, 2, 3>>
HashOrder == <<3, 1, 2, 2, 3, 1, 1>>

(* Deploys overlap with one width, or with a width that was changed.        *)
SameOrChanged == {[g \in {g1, g2} |-> 2], [g \in {g1, g2} |-> IF g = g1 THEN 2 ELSE 3]}

workerVars == <<holder, lapsed, written, attempts, used, work, faults>>

(* The parts that rest are where one execution of them starts.              *)
Init ==
  /\ part \in {"failover", "backfill", "history", "schema", "ladder"}
  /\ FailoverInit
  /\ BackfillInit
  /\ ServeInit
  /\ SchemaInit
  /\ LadderInit
  /\ part # "failover" => crew = {0, 1}
  /\ part \notin {"backfill", "history"} => head = 3 /\ unusable = {}
  /\ part # "schema" => followed = "key" /\ oldKey
  /\ part # "ladder" => height = 0 /\ widths[g1] = widths[g2]

Failing == part = "failover"
  /\ UNCHANGED <<part, backfillVars, viewVars, schemaVars, ladderVars>>
Backfilling == part = "backfill"
  /\ UNCHANGED <<part, failoverVars, viewVars, schemaVars, ladderVars>>
Serving == part = "history"
  /\ UNCHANGED <<part, failoverVars, workerVars, schemaVars, ladderVars>>
Indexing == part = "schema"
  /\ UNCHANGED <<part, failoverVars, backfillVars, viewVars, ladderVars>>
Partitioning == part = "ladder"
  /\ UNCHANGED <<part, failoverVars, backfillVars, viewVars, schemaVars>>

Next ==
  \/ Failing /\ FailoverNext
  \/ Backfilling /\ BackfillNext
  \/ Serving /\ ServeNext
  \/ Indexing /\ SchemaNext
  \/ Partitioning /\ LadderNext

vars == <<part, failoverVars, backfillVars, viewVars, schemaVars, ladderVars>>

(* The fairness of each part, where it is the one that runs.  A behaviour   *)
(* takes the steps of one part only, so a condition on the steps of two is  *)
(* the condition on each.                                                   *)
Fairness ==
  /\ WF_vars(Backfilling /\ LeaseLapses)
  /\ WF_vars(Backfilling /\ NewHour)
  /\ WF_vars(\/ Backfilling /\ \E i \in Instances : Claim(i)
             \/ Indexing /\ \E g \in Generations : Onward(g))
  /\ SF_vars(\/ Backfilling /\ \E i \in Instances : HoldsLease(i) /\ Reserve(i)
             \/ Indexing /\ \E g \in Generations : CreateParent(g))
  /\ SF_vars(\/ Backfilling /\ \E i \in Instances : HoldsLease(i) /\ Verify(i)
             \/ Indexing /\ \E g \in Generations : SweepDrops(g))
  /\ SF_vars(\/ Backfilling /\ \E i \in Instances : HoldsLease(i) /\ Answered(i)
             \/ Indexing /\ Gains)
  /\ SF_vars(Backfilling /\ \E i \in Instances : HoldsLease(i) /\ Written(i))

Spec == Init /\ [][Next]_vars /\ Fairness

(* Every variable of every part has its type.                               *)
ServicesTypeOK ==
  /\ FailoverTypeOK /\ BackfillTypeOK /\ ServeTypeOK
  /\ SchemaTypeOK /\ LadderTypeOK

(* An entity that was asked for is settled by the workers, where they run.  *)
EntitiesSettle == part = "backfill" => EveryEntitySettles

(* Later boots make up for what was interrupted, where boots are looked at. *)
SchemaSettles == part = "schema" => IndexesSettle
=============================================================================
