----------------------------- MODULE RpcFailover -----------------------------
(***************************************************************************)
(* Failover between RPC endpoints (apps/indexer/src/rpc-failover.ts) over   *)
(* the health it keeps of them per kind of request                          *)
(* (apps/indexer/src/endpoint-health.ts).                                   *)
(*                                                                          *)
(* Several callers are under way at once: block workers of the pool and the *)
(* reads of the loop.  Each takes an order of the endpoints when it starts  *)
(* and asks them one by one; what the others meanwhile learn about an       *)
(* endpoint changes its health, not the order a caller already has.         *)
(*                                                                          *)
(* Time is the age of an endpoint's last failure, counted in base cooldowns *)
(* and up to the longest one; a streak is counted up to DemoteAfter and     *)
(* waves up to the one whose cooldown is the longest: beyond these bounds   *)
(* the code does not tell values apart.  Time stops mattering for an        *)
(* endpoint that is not demoted.                                            *)
(***************************************************************************)
EXTENDS Integers, FiniteSets, Sequences, FiniteSetsExt

CONSTANTS
  PoolSize,      \* the endpoints are 0..PoolSize-1, in configuration order
  Workers,       \* callers of processWithFailover, numbered (workerId)
  Readers,       \* callers of readWithFailover
  Kinds,         \* HealthKind
  BlockKind,     \* the kind of every block fetch
  DemoteAfter,   \* demoteAfter
  MaxCooldown,   \* maxCooldownMs, in units of cooldownMs
  MaxWaves,      \* the first wave whose cooldown is the longest
  Crews          \* bound: the sets of callers that are at work together

ASSUME PoolAssumption ==
  /\ PoolSize \in Nat \ {0}
  /\ Workers \subseteq Nat
  /\ Workers \cap Readers = {}
  /\ BlockKind \in Kinds
  /\ Crews \subseteq SUBSET (Workers \cup Readers)

ASSUME HealthAssumption ==
  /\ DemoteAfter \in Nat \ {0}
  /\ MaxCooldown \in Nat \ {0}
  /\ MaxWaves \in Nat
  /\ \A w \in 0 .. MaxWaves - 1 : 2^w \in 1 .. MaxCooldown - 1
  /\ 2^MaxWaves \in Nat /\ 2^MaxWaves >= MaxCooldown

Pool    == 0 .. PoolSize - 1
Callers == Workers \cup Readers

VARIABLES
  crew,      \* who is at work
  failures,  \* consecutiveFailures, by kind and endpoint
  age,       \* time since lastFailureAt
  waves,     \* failedWaves
  call,      \* what each caller is at
  \* history
  turns,     \* demotions that lapsed since the last success
  streak     \* faults of the endpoint itself since its last success

healthVars   == <<failures, age, waves>>
failoverVars == <<crew, healthVars, call, turns, streak>>

-----------------------------------------------------------------------------
(* Endpoint health.                                                         *)

(* 2^w base cooldowns, capped.                                              *)
CooldownFor(w) == Min({2^w, MaxCooldown})

HasLapsed(k, p) == age[k][p] >= CooldownFor(waves[k][p])

IsDemoted(k, p) == failures[k][p] >= DemoteAfter /\ ~HasLapsed(k, p)

Saturated(n, most) == Min({n, most})

(* Mutant: every failure of a demoted endpoint escalates.                   *)
EveryFailureEscalates(k, p) == failures[k][p] >= DemoteAfter

(* A failure after the demotion had lapsed: it had its turn and blew it.    *)
BlowsProbation(k, p) == failures[k][p] >= DemoteAfter /\ HasLapsed(k, p)

RecordFailure(k, p) ==
  /\ waves' = [waves EXCEPT ![k][p] =
                 IF BlowsProbation(k, p) THEN Saturated(@ + 1, MaxWaves) ELSE @]
  /\ failures' = [failures EXCEPT ![k][p] = Saturated(@ + 1, DemoteAfter)]
  /\ age' = [age EXCEPT ![k][p] = 0]

SuccessForEveryKind(k, p) == Kinds   \* mutant: health is not kept by kind
ClearedBy(k, p) == {k}

(* The state of the endpoint is deleted, for this kind only.                *)
RecordSuccess(k, p) ==
  LET cleared(f) == [j \in Kinds |-> IF j \in ClearedBy(k, p)
                                     THEN [f[j] EXCEPT ![p] = 0] ELSE f[j]]
  IN  /\ failures' = cleared(failures)
      /\ waves' = cleared(waves)
      /\ age' = cleared(age)

(* Where an endpoint stands in the rotation of a caller, whose number is    *)
(* brought into the pool.                                                   *)
Turn(start, p) == (p - start) % PoolSize

(* The clock moves on while the health is read: what is demoted for certain *)
(* and what may have lapsed a moment ago.                                   *)
SurelyDemoted(k) ==
  {p \in Pool : IsDemoted(k, p) /\ age[k][p] + 1 < CooldownFor(waves[k][p])}
MaybeDemoted(k) == {p \in Pool : IsDemoted(k, p)}

Snapshots(k) == {D \in SUBSET MaybeDemoted(k) : SurelyDemoted(k) \subseteq D}

(* The endpoints of S in rotation, first those outside D, then those in it. *)
Listings(S, D, start) ==
  {o \in [1 .. Cardinality(S) -> S] :
     /\ \A p \in S : \E i \in DOMAIN o : o[i] = p
     /\ \A i, j \in DOMAIN o : i < j =>
          IF o[i] \in D <=> o[j] \in D
          THEN Turn(start, o[i]) < Turn(start, o[j])
          ELSE o[j] \in D}

(* Mutant: the two halves are judged by two looks at the clock.             *)
OrdersFromTwoLooks(k, start) ==
  UNION {Listings((Pool \ x[1]) \cup x[2], x[2], start) :
           x \in {y \in Snapshots(k) \X Snapshots(k) : y[2] \subseteq y[1]}}

(* Healthy endpoints in rotation, then the demoted ones: one look.          *)
Orders(k, start) == UNION {Listings(Pool, D, start) : D \in Snapshots(k)}

-----------------------------------------------------------------------------
(* A call.                                                                  *)

Idle == [state |-> "idle", kind |-> BlockKind, order |-> <<>>, asked |-> {},
         wrote |-> {}]

FailoverInit ==
  /\ crew \in Crews
  /\ failures = [k \in Kinds |-> [p \in Pool |-> 0]]
  /\ age = [k \in Kinds |-> [p \in Pool |-> 0]]
  /\ waves = [k \in Kinds |-> [p \in Pool |-> 0]]
  /\ call = [c \in Callers |-> Idle]
  /\ turns = [k \in Kinds |-> [p \in Pool |-> 0]]
  /\ streak = [k \in Kinds |-> [p \in Pool |-> 0]]

Underway(c) == call[c].state \in {"asking", "writing"}

StartCall(c, k, start) ==
  /\ ~Underway(c)
  /\ \E o \in Orders(k, start) :
       call' = [call EXCEPT ![c] = [Idle EXCEPT !.state = "asking", !.kind = k,
                                                !.order = o]]
  /\ UNCHANGED <<healthVars, turns, streak>>

Endpoint(c) == Head(call[c].order)

Ends(c, outcome) ==
  call' = [call EXCEPT ![c].state = outcome, ![c].order = <<>>,
                       ![c].asked = @ \cup {Endpoint(c)}]

(* The next endpoint, or the end of the list.                               *)
MovesOn(c) ==
  IF Len(call[c].order) > 1
  THEN call' = [call EXCEPT ![c].state = "asking", ![c].order = Tail(@),
                            ![c].asked = @ \cup {Endpoint(c)}]
  ELSE Ends(c, IF c \in Workers THEN "exhausted-clean" ELSE "idle")

Faulted(k, p) == streak' = [streak EXCEPT ![k][p] = Saturated(@ + 1, DemoteAfter)]

(* onWritesBegan: this endpoint's answer is being written.                  *)
WritesBegin(c) ==
  /\ c \in Workers
  /\ call[c].state = "asking"
  /\ call' = [call EXCEPT ![c].state = "writing", ![c].wrote = @ \cup {Endpoint(c)}]
  /\ UNCHANGED <<healthVars, turns, streak>>

Succeeds(c) ==
  /\ call[c].state = IF c \in Workers THEN "writing" ELSE "asking"
  /\ LET k == call[c].kind  p == Endpoint(c)
     IN  /\ RecordSuccess(k, p)
         /\ turns' = [turns EXCEPT ![k][p] = 0]
         /\ streak' = [streak EXCEPT ![k][p] = 0]
  /\ call' = [call EXCEPT ![c] = Idle]

(* The endpoint's fault, a timeout included, before anything was written.   *)
EndpointFails(c) ==
  /\ call[c].state = "asking"
  /\ RecordFailure(call[c].kind, Endpoint(c))
  /\ Faulted(call[c].kind, Endpoint(c))
  /\ MovesOn(c)
  /\ UNCHANGED turns

RetryAfterWrites(c) == MovesOn(c)   \* mutant: the boundary is ignored
AbortDirty(c) == Ends(c, "aborted-dirty")

(* Anything after the first write: nobody is blamed, nothing is retried.    *)
FailsAfterWrites(c) ==
  /\ call[c].state = "writing"
  /\ AbortDirty(c)
  /\ UNCHANGED <<healthVars, turns, streak>>

(* Mutant: whoever is being asked is charged for the database.              *)
BlameEndpoint(c) ==
  /\ RecordFailure(call[c].kind, Endpoint(c))
  /\ call' = [call EXCEPT ![c] = Idle]
BlameNobody(c) ==
  /\ UNCHANGED healthVars
  /\ call' = [call EXCEPT ![c] = Idle]

(* The database fails inside a read's callback: the next endpoint would not *)
(* help.  A worker's callback does not touch it before its first write.     *)
DatabaseFails(c) ==
  /\ c \in Readers
  /\ call[c].state = "asking"
  /\ BlameNobody(c)
  /\ UNCHANGED <<turns, streak>>

(* Time passes; a demotion may lapse with it.                               *)
Demoted == {x \in Kinds \X Pool : IsDemoted(x[1], x[2])}

Tick ==
  /\ Demoted # {}
  /\ age' = [k \in Kinds |-> [p \in Pool |->
               IF <<k, p>> \in Demoted THEN Saturated(age[k][p] + 1, MaxCooldown)
                                        ELSE age[k][p]]]
  /\ turns' = [k \in Kinds |-> [p \in Pool |->
                 IF <<k, p>> \in Demoted /\ age'[k][p] >= CooldownFor(waves[k][p])
                 THEN Saturated(turns[k][p] + 1, MaxWaves) ELSE turns[k][p]]]
  /\ UNCHANGED <<failures, waves, call, streak>>

FailoverStep ==
  \/ \E w \in Workers \cap crew : StartCall(w, BlockKind, w)
  \/ \E r \in Readers \cap crew, k \in Kinds \ {BlockKind}, s \in Pool : StartCall(r, k, s)
  \/ \E c \in Callers :
       \/ WritesBegin(c)
       \/ Succeeds(c)
       \/ EndpointFails(c)
       \/ FailsAfterWrites(c)
       \/ DatabaseFails(c)
  \/ Tick

FailoverNext == FailoverStep /\ UNCHANGED crew

FailoverSpec == FailoverInit /\ [][FailoverNext]_failoverVars
-----------------------------------------------------------------------------
(* Properties.                                                              *)

States == {"idle", "asking", "writing", "exhausted-clean", "aborted-dirty"}

(* Every variable has its type.                                             *)
FailoverTypeOK ==
  /\ crew \in Crews
  /\ failures \in [Kinds -> [Pool -> 0 .. DemoteAfter]]
  /\ age \in [Kinds -> [Pool -> 0 .. MaxCooldown]]
  /\ waves \in [Kinds -> [Pool -> 0 .. MaxWaves]]
  /\ call \in [Callers -> [state : States, kind : Kinds, order : Seq(Pool),
                           asked : SUBSET Pool, wrote : SUBSET Pool]]
  /\ turns \in [Kinds -> [Pool -> 0 .. MaxWaves]]
  /\ streak \in [Kinds -> [Pool -> 0 .. DemoteAfter]]

(* exhausted-clean is what licenses a quarantine: every endpoint was asked, *)
(* none was left out because its demotion lapsed at the wrong moment, and   *)
(* none of them wrote.                                                      *)
ExhaustedMeansAll ==
  \A c \in Workers : call[c].state = "exhausted-clean" =>
    call[c].asked = Pool /\ call[c].wrote = {}

(* One call writes what one endpoint said: after the first write no other   *)
(* endpoint is asked, and a call that wrote and failed ends aborted-dirty.  *)
OneWriter ==
  \A c \in Workers : call[c].wrote # {} =>
    /\ Cardinality(call[c].wrote) = 1
    /\ call[c].state \in {"writing", "aborted-dirty"}

(* The outcome a call reports is what happened: what is quarantined was     *)
(* refused by all, and what may be retried was not written.                 *)
OutcomeTrue == ExhaustedMeansAll /\ OneWriter

(* A cooldown doubles once per probation an endpoint was given and blew,    *)
(* however many workers were asking it when it failed.                      *)
EscalationPerWave == \A k \in Kinds, p \in Pool : waves[k][p] <= turns[k][p]

(* An endpoint is demoted for a kind of request by DemoteAfter faults of    *)
(* its own at that kind and by nothing else, and stays so until it serves   *)
(* that very kind: success at another one does not hide its faults.         *)
DemotionDeserved ==
  \A k \in Kinds, p \in Pool :
    failures[k][p] >= DemoteAfter <=> streak[k][p] >= DemoteAfter

(* What is held against an endpoint is earned: its demotion by faults of    *)
(* its own, the length of it by probations it blew.                         *)
HealthEarned == DemotionDeserved /\ EscalationPerWave
=============================================================================
