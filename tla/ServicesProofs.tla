---------------------------- MODULE ServicesProofs ----------------------------
(***************************************************************************)
(* Theorems about RpcFailover, for any pool, any callers, kinds of request, *)
(* thresholds and cooldowns, about BackfillWorker, for any history of the   *)
(* provider, page size, budget and number of instances, about HistoryServe, *)
(* for any page sizes and hashes and any cap of exclusions, and about       *)
(* MCServices, which has SchemaIndexes and PartitionLadder beside them.     *)
(***************************************************************************)
EXTENDS MCServices, SchemaIndexesProofs, FiniteSetTheorems, SequenceTheorems,
        WellFoundedInduction, TLAPS

LEMMA LeastOfTwo ==
  ASSUME NEW m \in Nat, NEW n \in Nat
  PROVE  Min({m, n}) = IF m <= n THEN m ELSE n
<1> DEFINE least == IF m <= n THEN m ELSE n
<1>1. least \in {m, n} /\ \A x \in {m, n} : least <= x
  OBVIOUS
<1>2. \A x \in {m, n} : (\A y \in {m, n} : x <= y) => x = least
  OBVIOUS
<1>. QED
  BY <1>1, <1>2 DEF Min

-----------------------------------------------------------------------------
(* The health of an endpoint.                                               *)

LEMMA SaturatedType ==
  ASSUME NEW n \in Nat, NEW most \in Nat
  PROVE  /\ Saturated(n, most) \in 0 .. most
         /\ Saturated(n, most) = IF n <= most THEN n ELSE most
BY LeastOfTwo DEF Saturated

(* A cooldown ends, and not at once.                                        *)
LEMMA CooldownType ==
  ASSUME NEW w \in 0 .. MaxWaves
  PROVE  CooldownFor(w) \in 1 .. MaxCooldown
<1>1. 2^w \in Nat \ {0} /\ MaxCooldown \in Nat \ {0}
  <2>1. CASE w = MaxWaves
    BY <2>1, HealthAssumption
  <2>2. CASE w # MaxWaves
    <3>1. w \in 0 .. MaxWaves - 1
      BY <2>2, HealthAssumption
    <3>. QED
      BY <3>1, HealthAssumption
  <2>. QED
    BY <2>1, <2>2
<1>. QED
  BY <1>1, LeastOfTwo DEF CooldownFor

HealthTypes ==
  /\ failures \in [Kinds -> [Pool -> 0 .. DemoteAfter]]
  /\ age \in [Kinds -> [Pool -> 0 .. MaxCooldown]]
  /\ waves \in [Kinds -> [Pool -> 0 .. MaxWaves]]
  /\ turns \in [Kinds -> [Pool -> 0 .. MaxWaves]]
  /\ streak \in [Kinds -> [Pool -> 0 .. DemoteAfter]]

(* The failures held against an endpoint are its faults since it last       *)
(* served; a demotion that has lapsed is a probation not yet blown.         *)
EarnedFor(k, p) ==
  /\ failures[k][p] = streak[k][p]
  /\ waves[k][p] <= turns[k][p]
  /\ failures[k][p] >= DemoteAfter /\ HasLapsed(k, p) =>
       waves[k][p] < turns[k][p] \/ turns[k][p] = MaxWaves

HealthInv == HealthTypes /\ \A k \in Kinds, p \in Pool : EarnedFor(k, p)

LEMMA HealthConstants ==
  /\ DemoteAfter \in Nat \ {0} /\ MaxCooldown \in Nat \ {0} /\ MaxWaves \in Nat
  /\ 0 \in 0 .. DemoteAfter /\ 0 \in 0 .. MaxCooldown /\ 0 \in 0 .. MaxWaves
BY HealthAssumption

LEMMA HealthInit == FailoverInit => HealthInv
<1>. SUFFICES ASSUME FailoverInit PROVE HealthInv
  OBVIOUS
<1>1. HealthTypes
  BY HealthConstants DEF FailoverInit, HealthTypes
<1>2. \A k \in Kinds, p \in Pool : EarnedFor(k, p)
  BY HealthConstants DEF FailoverInit, EarnedFor
<1>. QED
  BY <1>1, <1>2 DEF HealthInv

(* The fault of an endpoint.                                                *)
LEMMA FaultEarned ==
  ASSUME HealthInv, NEW k \in Kinds, NEW p \in Pool, RecordFailure(k, p), Faulted(k, p),
         turns' = turns
  PROVE  HealthInv'
<1> DEFINE W == IF BlowsProbation(k, p) THEN Saturated(waves[k][p] + 1, MaxWaves)
                                        ELSE waves[k][p]
           N == Saturated(failures[k][p] + 1, DemoteAfter)
           M == Saturated(streak[k][p] + 1, DemoteAfter)
<1>a. /\ HealthTypes /\ EarnedFor(k, p)
      /\ failures[k][p] \in 0 .. DemoteAfter /\ streak[k][p] = failures[k][p]
      /\ waves[k][p] \in 0 .. MaxWaves /\ turns[k][p] \in 0 .. MaxWaves
  BY DEF HealthInv, HealthTypes, EarnedFor
<1>1. /\ waves' = [waves EXCEPT ![k][p] = W]
      /\ failures' = [failures EXCEPT ![k][p] = N]
      /\ streak' = [streak EXCEPT ![k][p] = M]
      /\ age' = [age EXCEPT ![k][p] = 0]
  BY DEF RecordFailure, Faulted
<1>2. N \in 0 .. DemoteAfter /\ M = N
  <2>1. failures[k][p] + 1 \in Nat
    BY <1>a
  <2>2. N \in 0 .. DemoteAfter
    BY <2>1, HealthConstants, SaturatedType
  <2>. QED
    BY <1>a, <2>2
<1>3. W \in 0 .. MaxWaves /\ W <= turns[k][p]
  <2>1. CASE ~BlowsProbation(k, p)
    BY <1>a, <2>1 DEF EarnedFor
  <2>2. CASE BlowsProbation(k, p)
    <3>1. waves[k][p] < turns[k][p] \/ turns[k][p] = MaxWaves
      BY <1>a, <2>2 DEF EarnedFor, BlowsProbation
    <3>2. /\ W = Saturated(waves[k][p] + 1, MaxWaves)
          /\ waves[k][p] + 1 \in Nat
      BY <1>a, <2>2
    <3>3. /\ W \in 0 .. MaxWaves
          /\ W = IF waves[k][p] + 1 <= MaxWaves THEN waves[k][p] + 1 ELSE MaxWaves
      <4> HIDE DEF W
      <4>. QED
        BY <3>2, HealthConstants, SaturatedType
    <3> HIDE DEF W
    <3>. QED
      BY <1>a, <3>1, <3>3, HealthConstants
  <2>. QED
    BY <2>1, <2>2
<1> HIDE DEF W, N, M
<1>4. HealthTypes'
  BY <1>a, <1>1, <1>2, <1>3, HealthConstants DEF HealthTypes
<1>5. /\ failures'[k][p] = N /\ streak'[k][p] = N /\ waves'[k][p] = W /\ age'[k][p] = 0
      /\ turns'[k][p] = turns[k][p]
  BY <1>a, <1>1, <1>2 DEF HealthTypes
<1>6. EarnedFor(k, p)'
  <2>1. CooldownFor(W) \in 1 .. MaxCooldown
    BY <1>3, CooldownType
  <2>2. ~HasLapsed(k, p)'
    BY <1>5, <2>1 DEF HasLapsed
  <2>. QED
    BY <1>3, <1>5, <2>2 DEF EarnedFor
<1>7. ASSUME NEW l \in Kinds, NEW q \in Pool, l # k \/ q # p
      PROVE  EarnedFor(l, q)'
  <2>1. /\ failures'[l][q] = failures[l][q] /\ streak'[l][q] = streak[l][q]
        /\ waves'[l][q] = waves[l][q] /\ age'[l][q] = age[l][q] /\ turns'[l][q] = turns[l][q]
    BY <1>a, <1>1, <1>7 DEF HealthTypes
  <2>. QED
    BY <2>1 DEF HealthInv, EarnedFor, HasLapsed
<1>. QED
  BY <1>4, <1>6, <1>7 DEF HealthInv

LEMMA SuccessEarned ==
  ASSUME HealthInv, NEW k \in Kinds, NEW p \in Pool, RecordSuccess(k, p),
         turns' = [turns EXCEPT ![k][p] = 0], streak' = [streak EXCEPT ![k][p] = 0]
  PROVE  HealthInv'
<1>a. HealthTypes
  BY DEF HealthInv
<1>1. /\ failures' = [j \in Kinds |-> IF j = k THEN [failures[j] EXCEPT ![p] = 0] ELSE failures[j]]
      /\ waves' = [j \in Kinds |-> IF j = k THEN [waves[j] EXCEPT ![p] = 0] ELSE waves[j]]
      /\ age' = [j \in Kinds |-> IF j = k THEN [age[j] EXCEPT ![p] = 0] ELSE age[j]]
  BY DEF RecordSuccess, ClearedBy
<1>2. HealthTypes'
  BY <1>a, <1>1, HealthConstants DEF HealthTypes
<1>3. /\ failures'[k][p] = 0 /\ streak'[k][p] = 0 /\ waves'[k][p] = 0 /\ turns'[k][p] = 0
  BY <1>a, <1>1 DEF HealthTypes
<1>4. EarnedFor(k, p)'
  BY <1>3, HealthConstants DEF EarnedFor
<1>5. ASSUME NEW l \in Kinds, NEW q \in Pool, l # k \/ q # p
      PROVE  EarnedFor(l, q)'
  <2>1. /\ failures'[l][q] = failures[l][q] /\ streak'[l][q] = streak[l][q]
        /\ waves'[l][q] = waves[l][q] /\ age'[l][q] = age[l][q] /\ turns'[l][q] = turns[l][q]
    BY <1>a, <1>1, <1>5 DEF HealthTypes
  <2>. QED
    BY <2>1 DEF HealthInv, EarnedFor, HasLapsed
<1>. QED
  BY <1>2, <1>4, <1>5 DEF HealthInv

LEMMA TickEarned ==
  ASSUME HealthInv, Tick
  PROVE  HealthInv'
<1>a. HealthTypes
  BY DEF HealthInv
<1>1. /\ \A k \in Kinds, p \in Pool :
           age'[k][p] = IF <<k, p>> \in Demoted THEN Saturated(age[k][p] + 1, MaxCooldown)
                                                ELSE age[k][p]
      /\ \A k \in Kinds, p \in Pool :
           turns'[k][p] = IF <<k, p>> \in Demoted /\ age'[k][p] >= CooldownFor(waves[k][p])
                          THEN Saturated(turns[k][p] + 1, MaxWaves) ELSE turns[k][p]
      /\ UNCHANGED <<failures, waves, streak>>
  BY DEF Tick
<1>b. ASSUME NEW k \in Kinds, NEW p \in Pool
      PROVE  /\ age[k][p] \in 0 .. MaxCooldown /\ turns[k][p] \in 0 .. MaxWaves
             /\ waves[k][p] \in 0 .. MaxWaves /\ failures[k][p] \in 0 .. DemoteAfter
             /\ Saturated(age[k][p] + 1, MaxCooldown) \in 0 .. MaxCooldown
             /\ Saturated(turns[k][p] + 1, MaxWaves) \in 0 .. MaxWaves
             /\ Saturated(turns[k][p] + 1, MaxWaves) =
                  IF turns[k][p] + 1 <= MaxWaves THEN turns[k][p] + 1 ELSE MaxWaves
  <2>1. /\ age[k][p] \in 0 .. MaxCooldown /\ turns[k][p] \in 0 .. MaxWaves
        /\ waves[k][p] \in 0 .. MaxWaves /\ failures[k][p] \in 0 .. DemoteAfter
    BY <1>a DEF HealthTypes
  <2>2. age[k][p] + 1 \in Nat /\ turns[k][p] + 1 \in Nat
    BY <2>1
  <2>. QED
    BY <2>1, <2>2, HealthConstants, SaturatedType
<1>2. HealthTypes'
  <2>1. age' \in [Kinds -> [Pool -> 0 .. MaxCooldown]]
    <3>1. age' = [k \in Kinds |-> [p \in Pool |->
                    IF <<k, p>> \in Demoted THEN Saturated(age[k][p] + 1, MaxCooldown)
                                            ELSE age[k][p]]]
      BY DEF Tick
    <3>. QED
      BY <1>b, <3>1
  <2>2. turns' \in [Kinds -> [Pool -> 0 .. MaxWaves]]
    <3>1. turns' = [k \in Kinds |-> [p \in Pool |->
                     IF <<k, p>> \in Demoted /\ age'[k][p] >= CooldownFor(waves[k][p])
                     THEN Saturated(turns[k][p] + 1, MaxWaves) ELSE turns[k][p]]]
      BY DEF Tick
    <3>. QED
      BY <1>b, <3>1
  <2>. QED
    BY <1>a, <1>1, <2>1, <2>2 DEF HealthTypes
<1>3. ASSUME NEW k \in Kinds, NEW p \in Pool
      PROVE  EarnedFor(k, p)'
  <2>a. EarnedFor(k, p)
    BY DEF HealthInv
  <2>b. /\ waves'[k][p] = waves[k][p] /\ failures'[k][p] = failures[k][p]
        /\ streak'[k][p] = streak[k][p]
        /\ HasLapsed(k, p)' <=> age'[k][p] >= CooldownFor(waves[k][p])
    BY <1>1 DEF HasLapsed
  <2>1. CASE <<k, p>> \in Demoted /\ age'[k][p] >= CooldownFor(waves[k][p])
    <3>1. turns'[k][p] = IF turns[k][p] + 1 <= MaxWaves THEN turns[k][p] + 1 ELSE MaxWaves
      BY <1>1, <1>b, <2>1
    <3>. QED
      BY <1>b, <2>a, <2>b, <3>1, HealthConstants DEF EarnedFor
  <2>2. CASE <<k, p>> \in Demoted /\ ~(age'[k][p] >= CooldownFor(waves[k][p]))
    <3>1. turns'[k][p] = turns[k][p]
      BY <1>1, <2>2
    <3>. QED
      BY <2>a, <2>b, <2>2, <3>1 DEF EarnedFor
  <2>3. CASE <<k, p>> \notin Demoted
    <3>1. turns'[k][p] = turns[k][p] /\ age'[k][p] = age[k][p]
      BY <1>1, <2>3
    <3>. QED
      BY <2>a, <2>b, <3>1 DEF EarnedFor, HasLapsed
  <2>. QED
    BY <2>1, <2>2, <2>3
<1>. QED
  BY <1>2, <1>3 DEF HealthInv

-----------------------------------------------------------------------------
(* The calls.                                                               *)

(* Every endpoint has been asked or is still to be; nothing was written     *)
(* before the one that is being asked, and whoever wrote is the only one.   *)
CallSound(c) ==
  LET now == call[c] IN
  /\ Underway(c) => now.order # <<>>
  /\ c \in Workers =>
       /\ now.state = "asking" =>
            /\ now.wrote = {}
            /\ \A p \in Pool : p \in now.asked
                               \/ \E i \in 1 .. Len(now.order) : now.order[i] = p
       /\ now.state = "exhausted-clean" => now.wrote = {} /\ now.asked = Pool
       /\ now.state \in {"writing", "aborted-dirty"} => \E p \in Pool : now.wrote = {p}
       /\ now.state = "idle" => now.wrote = {}

Calls == [state : States, kind : Kinds, order : Seq(Pool),
          asked : SUBSET Pool, wrote : SUBSET Pool]

CallInv == crew \in Crews /\ call \in [Callers -> Calls] /\ \A c \in Callers : CallSound(c)

FailoverInv == HealthInv /\ CallInv

LEMMA TailFacts ==
  ASSUME NEW S, NEW o \in Seq(S), o # <<>>
  PROVE  /\ Tail(o) \in Seq(S) /\ Len(Tail(o)) = Len(o) - 1
         /\ \A i \in 1 .. Len(o) - 1 : Tail(o)[i] = o[i + 1]
         /\ Len(o) > 1 => Tail(o) # <<>>
<1>1. Tail(o) \in Seq(S) /\ Len(Tail(o)) = Len(o) - 1 /\ Len(o) \in Nat \ {0}
  BY HeadTailProperties, EmptySeq
<1>2. \A i \in 1 .. Len(o) - 1 : Tail(o)[i] = o[i + 1]
  BY <1>1, HeadTailProperties
<1>3. Tail(o) = <<>> => Len(Tail(o)) = 0
  BY EmptySeq
<1>. QED
  BY <1>1, <1>2, <1>3

LEMMA IdleCall == Idle \in Calls
<1>1. <<>> \in Seq(Pool) /\ BlockKind \in Kinds
  BY PoolAssumption
<1>. QED
  BY <1>1 DEF Idle, Calls, States

(* One call changes, to one that is sound.                                  *)
LEMMA OneCallMoves ==
  ASSUME CallInv, crew' = crew, NEW c \in Callers, NEW now \in Calls,
         call' = [call EXCEPT ![c] = now],
         CallSound(c)'
  PROVE  CallInv'
<1>1. call' \in [Callers -> Calls] /\ \A d \in Callers : d # c => call'[d] = call[d]
  BY DEF CallInv
<1>2. ASSUME NEW d \in Callers, d # c
      PROVE  CallSound(d)'
  BY <1>1, <1>2 DEF CallInv, CallSound, Underway
<1>. QED
  BY <1>1, <1>2 DEF CallInv

LEMMA StartSound ==
  ASSUME CallInv, crew' = crew, NEW c \in Callers, NEW k \in Kinds, NEW start, StartCall(c, k, start)
  PROVE  CallInv'
<1>1. PICK o \in Orders(k, start) :
        call' = [call EXCEPT ![c] = [Idle EXCEPT !.state = "asking", !.kind = k, !.order = o]]
  BY DEF StartCall
<1>2. PICK D \in Snapshots(k) : o \in Listings(Pool, D, start)
  BY <1>1 DEF Orders
<1>3. Cardinality(Pool) = PoolSize /\ PoolSize \in Nat \ {0}
  BY PoolAssumption, FS_Interval DEF Pool
<1>4. /\ o \in [1 .. PoolSize -> Pool]
      /\ \A p \in Pool : \E i \in 1 .. PoolSize : o[i] = p
  BY <1>2, <1>3 DEF Listings
<1>5. o \in Seq(Pool) /\ Len(o) = PoolSize /\ o # <<>>
  BY <1>3, <1>4
<1> DEFINE now == [Idle EXCEPT !.state = "asking", !.kind = k, !.order = o]
<1>6. /\ now \in Calls
      /\ now.state = "asking" /\ now.order = o /\ now.wrote = {}
  BY <1>5 DEF Idle, Calls, States
<1> HIDE DEF now
<1>7. call' = [call EXCEPT ![c] = now] /\ call'[c] = now
  BY <1>1 DEF CallInv, now
<1>8. CallSound(c)'
  BY <1>4, <1>5, <1>6, <1>7 DEF CallSound, Underway
<1>. QED
  BY <1>6, <1>7, <1>8, OneCallMoves

LEMMA EndpointInPool ==
  ASSUME CallInv, NEW c \in Callers, Underway(c)
  PROVE  /\ call[c] \in Calls /\ call[c].order \in Seq(Pool) /\ call[c].order # <<>>
         /\ Len(call[c].order) \in Nat \ {0} /\ Endpoint(c) = call[c].order[1]
         /\ Endpoint(c) \in Pool /\ call[c].kind \in Kinds
<1>1. call[c] \in Calls /\ call[c].order \in Seq(Pool) /\ call[c].order # <<>>
  BY DEF CallInv, CallSound, Calls
<1>2. call[c].kind \in Kinds
  BY <1>1 DEF Calls
<1>. QED
  BY <1>1, <1>2 DEF Endpoint

(* An endpoint that was asked in vain before any write.                     *)
LEMMA MovesOnSound ==
  ASSUME CallInv, crew' = crew, NEW c \in Callers, call[c].state = "asking", MovesOn(c)
  PROVE  CallInv'
<1> DEFINE r == call[c]
           o == r.order
           e == Endpoint(c)
<1>1. /\ r \in Calls /\ o \in Seq(Pool) /\ o # <<>> /\ Len(o) \in Nat \ {0}
      /\ e = o[1] /\ e \in Pool
  BY EndpointInPool DEF Underway
<1>2. c \in Workers =>
        r.wrote = {} /\ \A p \in Pool : p \in r.asked \/ \E i \in 1 .. Len(o) : o[i] = p
  BY DEF CallInv, CallSound
<1>3. CASE Len(o) > 1
  <2> DEFINE now == [r EXCEPT !.state = "asking", !.order = Tail(o), !.asked = r.asked \cup {e}]
  <2>1. call' = [call EXCEPT ![c] = now]
    BY <1>3 DEF MovesOn, CallInv
  <2>2. /\ Tail(o) \in Seq(Pool) /\ Len(Tail(o)) = Len(o) - 1 /\ Tail(o) # <<>>
        /\ \A i \in 1 .. Len(o) - 1 : Tail(o)[i] = o[i + 1]
    <3> HIDE DEF o
    <3>1. /\ Tail(o) \in Seq(Pool) /\ Len(Tail(o)) = Len(o) - 1
          /\ \A i \in 1 .. Len(o) - 1 : Tail(o)[i] = o[i + 1]
      BY <1>1, TailFacts
    <3>2. Tail(o) # <<>>
      BY <1>1, <1>3, TailFacts
    <3>. QED
      BY <3>1, <3>2
  <2>3. /\ now \in Calls
        /\ now.state = "asking" /\ now.order = Tail(o) /\ now.wrote = r.wrote
        /\ now.asked = r.asked \cup {e}
    BY <1>1, <2>2 DEF Calls, States
  <2>4. ASSUME NEW p \in Pool, c \in Workers, p \notin now.asked
        PROVE  \E i \in 1 .. Len(Tail(o)) : Tail(o)[i] = p
    <3>1. PICK i \in 1 .. Len(o) : o[i] = p
      BY <1>2, <2>3, <2>4
    <3>2. i # 1 /\ p # e
      BY <1>1, <2>3, <2>4, <3>1
    <3>3. i - 1 \in 1 .. Len(Tail(o)) /\ Tail(o)[i - 1] = o[i]
      BY <1>1, <2>2, <3>1, <3>2
    <3>. QED
      BY <3>1, <3>3
  <2> HIDE DEF now, o, e
  <2>5. call'[c] = now
    BY <2>1 DEF CallInv
  <2>6. CallSound(c)'
    BY <1>2, <2>2, <2>3, <2>4, <2>5 DEF CallSound, Underway
  <2>. QED
    BY <2>1, <2>3, <2>6, OneCallMoves
<1>4. CASE ~(Len(o) > 1)
  <2> DEFINE s == IF c \in Workers THEN "exhausted-clean" ELSE "idle"
             now == [r EXCEPT !.state = s, !.order = <<>>, !.asked = r.asked \cup {e}]
  <2>1. call' = [call EXCEPT ![c] = now]
    BY <1>4 DEF MovesOn, Ends, CallInv
  <2>2. /\ now \in Calls
        /\ now.state = s /\ now.wrote = r.wrote /\ now.asked = r.asked \cup {e}
    <3>1. <<>> \in Seq(Pool) /\ s \in States /\ r.asked \cup {e} \in SUBSET Pool
      BY <1>1 DEF Calls, States
    <3> HIDE DEF s, e
    <3>. QED
      BY <1>1, <3>1 DEF Calls
  <2>3. c \in Workers => now.asked = Pool
    <3>1. \A i \in 1 .. Len(o) : o[i] = e
      BY <1>1, <1>4
    <3>2. r.asked \subseteq Pool
      BY <1>1 DEF Calls
    <3>. QED
      BY <1>1, <1>2, <2>2, <3>1, <3>2
  <2> HIDE DEF now, o, e
  <2>4. call'[c] = now
    BY <2>1 DEF CallInv
  <2>5. CallSound(c)'
    BY <1>2, <2>2, <2>3, <2>4 DEF CallSound, Underway
  <2>. QED
    BY <2>1, <2>2, <2>5, OneCallMoves
<1>. QED
  BY <1>3, <1>4

LEMMA IdleSound ==
  ASSUME CallInv, crew' = crew, NEW c \in Callers, call' = [call EXCEPT ![c] = Idle]
  PROVE  CallInv'
<1>1. call'[c] = Idle
  BY DEF CallInv
<1>2. CallSound(c)'
  BY <1>1 DEF CallSound, Underway, Idle
<1>. QED
  BY <1>2, IdleCall, OneCallMoves

LEMMA WritesSound ==
  ASSUME CallInv, crew' = crew, NEW c \in Callers, WritesBegin(c)
  PROVE  CallInv'
<1> DEFINE r == call[c]
           e == Endpoint(c)
           now == [r EXCEPT !.state = "writing", !.wrote = r.wrote \cup {e}]
<1>1. r \in Calls /\ r.order # <<>> /\ e \in Pool
  BY EndpointInPool DEF WritesBegin, Underway
<1>2. r.wrote = {}
  BY DEF WritesBegin, CallInv, CallSound
<1>3. call' = [call EXCEPT ![c] = now]
  BY DEF WritesBegin, CallInv
<1>4. now \in Calls /\ now.state = "writing" /\ now.wrote = {e} /\ now.order = r.order
  BY <1>1, <1>2 DEF Calls, States
<1> HIDE DEF now, e
<1>5. call'[c] = now
  BY <1>3 DEF CallInv
<1>6. CallSound(c)'
  BY <1>1, <1>4, <1>5 DEF CallSound, Underway
<1>. QED
  BY <1>3, <1>4, <1>6, OneCallMoves

LEMMA AbortSound ==
  ASSUME CallInv, crew' = crew, NEW c \in Callers, FailsAfterWrites(c)
  PROVE  CallInv'
<1> DEFINE r == call[c]
           e == Endpoint(c)
           now == [r EXCEPT !.state = "aborted-dirty", !.order = <<>>, !.asked = r.asked \cup {e}]
<1>1. r \in Calls /\ e \in Pool
  BY EndpointInPool DEF FailsAfterWrites, Underway
<1>2. c \in Workers => \E p \in Pool : r.wrote = {p}
  BY DEF FailsAfterWrites, CallInv, CallSound
<1>3. call' = [call EXCEPT ![c] = now]
  BY DEF FailsAfterWrites, AbortDirty, Ends, CallInv
<1>4. now \in Calls /\ now.state = "aborted-dirty" /\ now.wrote = r.wrote
  <2>1. <<>> \in Seq(Pool) /\ r.asked \cup {e} \in SUBSET Pool
    BY <1>1 DEF Calls
  <2> HIDE DEF e
  <2>. QED
    BY <1>1, <2>1 DEF Calls, States
<1> HIDE DEF now, e
<1>5. call'[c] = now
  BY <1>3 DEF CallInv
<1>6. CallSound(c)'
  BY <1>2, <1>4, <1>5 DEF CallSound, Underway
<1>. QED
  BY <1>3, <1>4, <1>6, OneCallMoves

-----------------------------------------------------------------------------
(* Every step of the failover.                                              *)

LEMMA FailoverNextInv ==
  ASSUME FailoverInv, [FailoverNext]_failoverVars
  PROVE  FailoverInv'
<1>a. HealthInv /\ CallInv
  BY DEF FailoverInv
<1>b. crew' = crew
  BY DEF FailoverNext, failoverVars
<1>c. ASSUME UNCHANGED <<healthVars, turns, streak>>
      PROVE  HealthInv'
  BY <1>a, <1>c DEF healthVars, HealthInv, HealthTypes, EarnedFor, HasLapsed
<1>d. ASSUME UNCHANGED call
      PROVE  CallInv'
  BY <1>a, <1>b, <1>d DEF CallInv, CallSound, Underway
<1>1. ASSUME NEW c \in Callers, NEW k \in Kinds, NEW start, StartCall(c, k, start)
      PROVE  FailoverInv'
  <2>1. UNCHANGED <<healthVars, turns, streak>>
    BY <1>1 DEF StartCall
  <2>. QED
    BY <1>a, <1>b, <1>c, <1>1, <2>1, StartSound DEF FailoverInv
<1>2. ASSUME NEW c \in Callers, WritesBegin(c)
      PROVE  FailoverInv'
  <2>1. UNCHANGED <<healthVars, turns, streak>>
    BY <1>2 DEF WritesBegin
  <2>. QED
    BY <1>a, <1>b, <1>c, <1>2, <2>1, WritesSound DEF FailoverInv
<1>3. ASSUME NEW c \in Callers, Succeeds(c)
      PROVE  FailoverInv'
  <2>1. Underway(c)
    BY <1>3 DEF Succeeds, Underway
  <2>2. call[c].kind \in Kinds /\ Endpoint(c) \in Pool
    BY <1>a, <2>1, EndpointInPool
  <2>3. HealthInv'
    BY <1>a, <1>3, <2>2, SuccessEarned DEF Succeeds
  <2>4. CallInv'
    BY <1>a, <1>b, <1>3, IdleSound DEF Succeeds
  <2>. QED
    BY <2>3, <2>4 DEF FailoverInv
<1>4. ASSUME NEW c \in Callers, EndpointFails(c)
      PROVE  FailoverInv'
  <2>1. Underway(c)
    BY <1>4 DEF EndpointFails, Underway
  <2>2. call[c].kind \in Kinds /\ Endpoint(c) \in Pool
    BY <1>a, <2>1, EndpointInPool
  <2>3. HealthInv'
    BY <1>a, <1>4, <2>2, FaultEarned DEF EndpointFails
  <2>4. CallInv'
    BY <1>a, <1>b, <1>4, MovesOnSound DEF EndpointFails
  <2>. QED
    BY <2>3, <2>4 DEF FailoverInv
<1>5. ASSUME NEW c \in Callers, FailsAfterWrites(c)
      PROVE  FailoverInv'
  <2>1. UNCHANGED <<healthVars, turns, streak>>
    BY <1>5 DEF FailsAfterWrites
  <2>. QED
    BY <1>a, <1>b, <1>c, <1>5, <2>1, AbortSound DEF FailoverInv
<1>6. ASSUME NEW c \in Callers, DatabaseFails(c)
      PROVE  FailoverInv'
  <2>1. UNCHANGED <<healthVars, turns, streak>> /\ call' = [call EXCEPT ![c] = Idle]
    BY <1>6 DEF DatabaseFails, BlameNobody
  <2>. QED
    BY <1>a, <1>b, <1>c, <2>1, IdleSound DEF FailoverInv
<1>7. CASE Tick
  <2>1. UNCHANGED call
    BY <1>7 DEF Tick
  <2>. QED
    BY <1>a, <1>d, <1>7, <2>1, TickEarned DEF FailoverInv
<1>8. CASE UNCHANGED failoverVars
  BY <1>c, <1>d, <1>8 DEF failoverVars, FailoverInv
<1>9. /\ \A w \in Workers \cap crew : w \in Callers
      /\ \A r \in Readers \cap crew : r \in Callers
      /\ BlockKind \in Kinds
  BY PoolAssumption DEF Callers
<1>. QED
  BY <1>1, <1>2, <1>3, <1>4, <1>5, <1>6, <1>7, <1>8, <1>9 DEF FailoverNext, FailoverStep

LEMMA FailoverInitInv == FailoverInit => FailoverInv
<1>. SUFFICES ASSUME FailoverInit PROVE FailoverInv
  OBVIOUS
<1>1. CallInv
  BY IdleCall DEF FailoverInit, CallInv, CallSound, Underway, Idle
<1>. QED
  BY <1>1, HealthInit DEF FailoverInv

(* Every variable of the failover has its type.                             *)
THEOREM FailoverTypes == FailoverSpec => []FailoverTypeOK
<1>1. FailoverInv => FailoverTypeOK
  BY DEF FailoverInv, HealthInv, HealthTypes, CallInv, Calls, FailoverTypeOK
<1>. QED
  BY <1>1, FailoverInitInv, FailoverNextInv, PTL DEF FailoverSpec

(* What a call reports is what happened: a block is given up only when      *)
(* every endpoint was asked and none wrote, and none is asked after one     *)
(* whose answer was being written, whatever the others learn meanwhile.     *)
THEOREM OutcomeHolds == FailoverSpec => []OutcomeTrue
<1>1. FailoverInv => OutcomeTrue
  <2>. SUFFICES ASSUME FailoverInv, NEW c \in Workers
                PROVE  /\ call[c].state = "exhausted-clean" =>
                            call[c].asked = Pool /\ call[c].wrote = {}
                       /\ call[c].wrote # {} =>
                            /\ Cardinality(call[c].wrote) = 1
                            /\ call[c].state \in {"writing", "aborted-dirty"}
    BY DEF OutcomeTrue, ExhaustedMeansAll, OneWriter
  <2>1. c \in Callers /\ call[c] \in Calls /\ CallSound(c)
    BY DEF FailoverInv, CallInv, Callers
  <2>2. call[c].state \in States
    BY <2>1 DEF Calls
  <2>. QED
    BY <2>1, <2>2, FS_Singleton DEF CallSound, States
<1>. QED
  BY <1>1, FailoverInitInv, FailoverNextInv, PTL DEF FailoverSpec

(* An endpoint is demoted by its own faults alone, and for longer only by   *)
(* probations it was given and blew, however many callers were asking it.   *)
THEOREM HealthIsEarned == FailoverSpec => []HealthEarned
<1>1. FailoverInv => HealthEarned
  BY DEF FailoverInv, HealthInv, EarnedFor, HealthEarned, DemotionDeserved, EscalationPerWave
<1>. QED
  BY <1>1, FailoverInitInv, FailoverNextInv, PTL DEF FailoverSpec

-----------------------------------------------------------------------------
(* BackfillWorker.                                                          *)
(*                                                                          *)
(* The claim in an instance's hand is the row it was made from for as long  *)
(* as the fence would let it through; the row is settled only by such a     *)
(* claim, so what it adds to the cache continues what is there.             *)

Works ==
  [at : {"idle", "claimed", "reserved", "verified", "fetched"},
   cursor : {0} \cup Rows, written : 0 .. Cardinality(Rows),
   attempts : 0 .. MaxAttempts, page : SUBSET Rows]

RowTypes ==
  /\ head \in Heads
  /\ unusable \in Unusables
  /\ status \in Statuses
  /\ cursor \in {0} \cup Rows
  /\ cache \subseteq Rows
  /\ holder \in Instances \cup {Nobody}
  /\ lapsed \in BOOLEAN
  /\ attempts \in 0 .. MaxAttempts
  /\ used \in 0 .. MaxPages
  /\ faults \in 0 .. MaxAttempts

(* An entity is claimed again only where there is more to fetch, and only   *)
(* while it may fail once more.                                             *)
RowTrue ==
  /\ CachedIsStretch
  /\ written = Cardinality(cache)
  /\ cache = {} => cursor = 0
  /\ cache # {} /\ status \in {"none", "pending", "running", "partial", "error"} => cursor # 0
  /\ attempts <= faults
  /\ status \in {"none", "pending", "running", "partial"} => attempts < MaxAttempts

ClaimSound(i) ==
  /\ HoldsLease(i) /\ ~At(i, "idle") =>
       /\ work[i].cursor = cursor
       /\ work[i].written = written
       /\ work[i].attempts = attempts
  /\ At(i, "fetched") =>
       \E h \in Heads : h <= head /\ work[i].page = PageFrom(work[i].cursor, h)

BackfillInv ==
  /\ RowTypes
  /\ work \in [Instances -> Works]
  /\ RowTrue
  /\ \A i \in Instances : ClaimSound(i)

LEMMA RowNumbers ==
  /\ Cardinality(Rows) \in Nat /\ Rows = 1 .. Cardinality(Rows) /\ IsFiniteSet(Rows)
  /\ Heads \subseteq Rows /\ PageSize \in Nat \ {0}
<1>1. IsFiniteSet(Rows) /\ Rows = 1 .. Cardinality(Rows)
  BY HistoryAssumption
<1>. QED
  BY <1>1, HistoryAssumption, FS_CardinalityType

LEMMA IntervalEnds ==
  ASSUME NEW a \in Int, NEW b \in Int, a <= b
  PROVE  Min(a .. b) = a /\ Max(a .. b) = b
<1>1. /\ a \in a .. b /\ \A y \in a .. b : a <= y
      /\ b \in a .. b /\ \A y \in a .. b : b >= y
  OBVIOUS
<1>2. \A x \in a .. b : /\ (\A y \in a .. b : x <= y) => x = a
                        /\ (\A y \in a .. b : x >= y) => x = b
  BY <1>1
<1>. QED
  BY <1>1, <1>2 DEF Min, Max

(* A page is an interval, and the next one ends just below it.              *)
LEMMA PageFacts ==
  ASSUME NEW c \in {0} \cup Rows, NEW h \in Heads
  PROVE  LET first == IF c = 0 THEN h ELSE c
         IN  /\ first \in Rows
             /\ \E low \in Rows : /\ low <= first
                                  /\ PageFrom(c, h) = low .. first
                                  /\ NextCursor(PageFrom(c, h)) = low - 1
<1> DEFINE first == IF c = 0 THEN h ELSE c
           low == IF first > PageSize THEN first - PageSize + 1 ELSE 1
<1>1. first \in Rows /\ first \in Nat \ {0} /\ PageSize \in Nat \ {0}
  BY RowNumbers
<1>2. low \in Rows /\ low \in Int /\ low <= first
  BY <1>1, RowNumbers
<1>3. PageFrom(c, h) = {r \in Rows : r <= first /\ r > first - PageSize}
  BY DEF PageFrom
<1>4. {r \in Rows : r <= first /\ r > first - PageSize} = low .. first
  <2>1. \A r \in Rows : r <= first /\ r > first - PageSize <=> r \in low .. first
    BY <1>1, RowNumbers
  <2>2. low .. first \subseteq Rows
    BY <1>1, <1>2, RowNumbers
  <2> HIDE DEF low, first
  <2>. QED
    BY <2>1, <2>2
<1> HIDE DEF low, first
<1>5. low .. first # {} /\ Min(low .. first) = low
  <2>1. low \in Int /\ first \in Int /\ low <= first
    BY <1>1, <1>2
  <2>. QED
    BY <2>1, IntervalEnds
<1>6. NextCursor(PageFrom(c, h)) = low - 1
  BY <1>3, <1>4, <1>5 DEF NextCursor
<1>7. \E l \in Rows : /\ l <= first
                      /\ PageFrom(c, h) = l .. first
                      /\ NextCursor(PageFrom(c, h)) = l - 1
  BY <1>2, <1>3, <1>4, <1>6
<1>. QED
  BY <1>1, <1>7 DEF first

(* A page cached where the cursor says extends the stretch downwards.       *)
LEMMA StretchGrows ==
  ASSUME RowTypes, RowTrue, status = "running", NEW h \in Heads, NEW page,
         page = PageFrom(cursor, h)
  PROVE  /\ page \subseteq Rows /\ NextCursor(page) \in {0} \cup Rows
         /\ cache \cup page # {}
         /\ Max(cache \cup page) \in Heads
         /\ cache \cup page = NextCursor(page) + 1 .. Max(cache \cup page)
         /\ Cardinality(cache \cup page) = Cardinality(cache) + Cardinality(page)
<1>1. cursor \in {0} \cup Rows /\ cache \subseteq Rows
  BY DEF RowTypes
<1> DEFINE first == IF cursor = 0 THEN h ELSE cursor
<1>2. PICK low \in Rows : first \in Rows /\ low <= first
                          /\ page = low .. first /\ NextCursor(page) = low - 1
  BY <1>1, PageFacts
<1>3. low \in Nat \ {0} /\ first \in Nat \ {0} /\ low .. first \subseteq Rows
  BY <1>2, RowNumbers
<1>4. page \subseteq Rows /\ NextCursor(page) \in {0} \cup Rows
  BY <1>2, <1>3, RowNumbers
<1>5. page # {}
  BY <1>2, <1>3
<1>6. /\ page \cap cache = {}
      /\ \E top \in Heads : top \in Int /\ low <= top /\ cache \cup page = low .. top
  <2>1. CASE cache = {}
    <3>1. first = h
      BY <2>1 DEF RowTrue
    <3>. QED
      BY <1>2, <1>3, <2>1, <3>1
  <2>2. CASE cache # {}
    <3>1. /\ first = cursor /\ Max(cache) \in Heads
          /\ cache = cursor + 1 .. Max(cache)
      BY <2>2 DEF RowTrue, CachedIsStretch
    <3>2. Max(cache) \in Int /\ first \in Int /\ first < Max(cache)
      <4>1. Max(cache) \in Int /\ cursor \in Int
        BY <1>1, <3>1, RowNumbers
      <4>2. cursor + 1 .. Max(cache) # {}
        BY <2>2, <3>1
      <4> HIDE DEF first
      <4>. QED
        BY <3>1, <4>1, <4>2
    <3> HIDE DEF first
    <3> DEFINE top == Max(cache)
    <3>3. top \in Heads /\ top \in Int /\ first < top /\ cache = first + 1 .. top
      BY <3>1, <3>2
    <3> HIDE DEF top
    <3>4. cache \cup page = low .. top /\ page \cap cache = {}
      BY <1>2, <1>3, <3>3
    <3>. QED
      BY <1>2, <1>3, <3>3, <3>4
  <2>. QED
    BY <2>1, <2>2
<1>7. PICK top \in Heads : top \in Int /\ low <= top /\ cache \cup page = low .. top
  BY <1>6
<1>8. Max(cache \cup page) = top
  <2>1. low \in Int /\ top \in Int /\ low <= top
    BY <1>3, <1>7
  <2>. QED
    BY <1>7, <2>1, IntervalEnds
<1>9. Cardinality(cache \cup page) = Cardinality(cache) + Cardinality(page)
  <2>1. IsFiniteSet(cache) /\ IsFiniteSet(page)
    BY <1>1, <1>4, RowNumbers, FS_Subset
  <2>2. /\ Cardinality(cache \cup page) =
             Cardinality(cache) + Cardinality(page) - Cardinality(cache \cap page)
        /\ Cardinality(cache) \in Nat /\ Cardinality(page) \in Nat
    BY <2>1, FS_Union, FS_CardinalityType
  <2>3. Cardinality(cache \cap page) = 0
    BY <1>6, FS_EmptySet
  <2>. QED
    BY <2>2, <2>3
<1>10. cache \cup page = NextCursor(page) + 1 .. Max(cache \cup page)
  BY <1>2, <1>3, <1>7, <1>8
<1>. QED
  BY <1>4, <1>5, <1>7, <1>8, <1>9, <1>10

LEMMA CacheCounted ==
  ASSUME RowTypes, RowTrue
  PROVE  written \in 0 .. Cardinality(Rows) /\ (written > 0 <=> cache # {})
<1>1. cache \subseteq Rows /\ written = Cardinality(cache)
  BY DEF RowTypes, RowTrue
<1>2. /\ IsFiniteSet(cache) /\ Cardinality(cache) <= Cardinality(Rows)
      /\ Cardinality(cache) \in Nat
  BY <1>1, RowNumbers, FS_Subset, FS_CardinalityType
<1>3. Cardinality(cache) = 0 <=> cache = {}
  BY <1>2, FS_EmptySet
<1>. QED
  BY <1>1, <1>2, <1>3, RowNumbers

(* What an instance is at moves on, the others' does not.                   *)
LEMMA WorkMoves ==
  ASSUME work \in [Instances -> Works], NEW i \in Instances, NEW now \in Works,
         work' = [work EXCEPT ![i] = now]
  PROVE  /\ work' \in [Instances -> Works]
         /\ work'[i] = now
         /\ \A j \in Instances : j # i => work'[j] = work[j]
OBVIOUS

LEMMA OtherClaim ==
  ASSUME NEW j \in Instances, ClaimSound(j), UNCHANGED head, work'[j] = work[j],
         HoldsLease(j)' => HoldsLease(j) /\ UNCHANGED <<cursor, written, attempts>>
  PROVE  ClaimSound(j)'
BY DEF ClaimSound, At

LEMMA RestingClaim ==
  ASSUME NEW i \in Instances, work'[i] = Resting
  PROVE  ClaimSound(i)'
BY DEF ClaimSound, At, Resting

LEMMA RestingWork == Resting \in Works
<1>1. 0 \in 0 .. Cardinality(Rows) /\ 0 \in 0 .. MaxAttempts
  BY RowNumbers, BackfillAssumption
<1>. QED
  BY <1>1 DEF Resting, Works

-----------------------------------------------------------------------------
(* The steps of the worker: each keeps the invariant, and is a step of the  *)
(* cache its readers are promised, or changes nothing of it.                *)

LEMMA RequestKeeps ==
  ASSUME BackfillInv, Request
  PROVE  BackfillInv' /\ CacheNext
<1>1. /\ head' \in Heads /\ head' >= head
      /\ UNCHANGED <<unusable, cursor, cache>>
      /\ status' = status \/ (status = "none" /\ status' = "pending")
  <2>1. CASE Grow
    <3>1. head \in Rows /\ head' \in Rows /\ head' > head /\ head' \in Heads
      BY <2>1, RowNumbers DEF Grow, BackfillInv, RowTypes
    <3>2. head' >= head
      BY <3>1, RowNumbers
    <3>. QED
      BY <2>1, <3>1, <3>2 DEF Grow
  <2>2. CASE Enqueue
    <3>1. head \in Rows /\ head' = head /\ head \in Heads
      BY <2>2, RowNumbers DEF Enqueue, historyVars, BackfillInv, RowTypes
    <3>2. head' >= head
      BY <3>1, RowNumbers
    <3>. QED
      BY <2>2, <3>1, <3>2 DEF Enqueue, historyVars
  <2>. QED
    BY <2>1, <2>2 DEF Request
<1>2. UNCHANGED <<holder, lapsed, written, attempts, used, work, faults>>
  BY DEF Request
<1>3. RowTypes'
  BY <1>1, <1>2 DEF BackfillInv, RowTypes, Statuses
<1>4. RowTrue'
  BY <1>1, <1>2 DEF BackfillInv, RowTrue, CachedIsStretch
<1>5. ASSUME NEW j \in Instances PROVE ClaimSound(j)'
  <2>1. HoldsLease(j)' => HoldsLease(j)
    BY <1>1, <1>2 DEF HoldsLease
  <2>2. ASSUME NEW h \in Heads, h <= head PROVE h <= head'
    <3>1. h \in Nat /\ head \in Nat /\ head' \in Nat
      BY <1>1, RowNumbers DEF BackfillInv, RowTypes
    <3>. QED
      BY <1>1, <2>2, <3>1
  <2>. QED
    BY <1>1, <1>2, <2>1, <2>2 DEF BackfillInv, ClaimSound, At
<1>. QED
  BY <1>1, <1>2, <1>3, <1>4, <1>5 DEF BackfillInv, Request, CacheNext

LEMMA ClaimKeeps ==
  ASSUME BackfillInv, NEW i \in Instances, Claim(i)
  PROVE  BackfillInv' /\ [CacheNext]_cacheVars
<1>1. /\ status' = "running" /\ holder' = i /\ lapsed' = FALSE
      /\ UNCHANGED <<head, unusable, cursor, cache, written, attempts, used, faults>>
  BY DEF Claim, historyVars
<1> DEFINE now == [at |-> "claimed", cursor |-> cursor, page |-> {},
                   written |-> written, attempts |-> attempts]
<1>2. now \in Works
  BY CacheCounted DEF BackfillInv, RowTypes, Works
<1>3. work' = [work EXCEPT ![i] = now]
  BY DEF Claim
<1>4. /\ now.at = "claimed" /\ now.cursor = cursor
      /\ now.written = written /\ now.attempts = attempts
  OBVIOUS
<1> HIDE DEF now
<1>5. /\ work' \in [Instances -> Works] /\ work'[i] = now
      /\ \A j \in Instances : j # i => work'[j] = work[j]
  BY <1>2, <1>3, WorkMoves DEF BackfillInv
<1>6. status \in {"pending", "partial", "error", "running"} /\ (status = "error" => attempts < MaxAttempts)
  BY DEF Claim, Claimable, Lapsed
<1>7. RowTypes'
  BY <1>1 DEF BackfillInv, RowTypes, Statuses
<1>8. RowTrue'
  BY <1>1, <1>6 DEF BackfillInv, RowTrue, CachedIsStretch
<1>9. ASSUME NEW j \in Instances PROVE ClaimSound(j)'
  <2>1. CASE j = i
    BY <1>1, <1>4, <1>5, <2>1 DEF ClaimSound, At
  <2>2. CASE j # i
    BY <1>1, <1>5, <2>2, OtherClaim DEF BackfillInv, HoldsLease
  <2>. QED
    BY <2>1, <2>2
<1>10. [CacheNext]_cacheVars
  <2>1. CASE status = "running"
    BY <1>1, <2>1 DEF cacheVars, historyVars
  <2>2. CASE status # "running"
    BY <1>1, <1>6, <2>2 DEF CacheNext, Take, historyVars
  <2>. QED
    BY <2>1, <2>2
<1>. QED
  BY <1>5, <1>7, <1>8, <1>9, <1>10 DEF BackfillInv

SameClaim(now, then) ==
  now.cursor = then.cursor /\ now.written = then.written /\ now.attempts = then.attempts

(* An instance goes on with its claim, or drops it; the row stays.          *)
LEMMA ProgressKeeps ==
  ASSUME BackfillInv, NEW i \in Instances, NEW now \in Works,
         work' = [work EXCEPT ![i] = now],
         now = Resting \/ SameClaim(now, work[i]),
         ~At(i, "idle"),
         now.at = "fetched" =>
           \E h \in Heads : h <= head /\ now.page = PageFrom(work[i].cursor, h),
         UNCHANGED <<cacheVars, holder, lapsed, written, attempts, faults>>,
         used' \in 0 .. MaxPages
  PROVE  BackfillInv'
<1>1. UNCHANGED <<head, unusable, cursor, cache, status, holder, lapsed, written, attempts, faults>>
  BY DEF cacheVars, historyVars
<1>2. /\ work' \in [Instances -> Works] /\ work'[i] = now
      /\ \A j \in Instances : j # i => work'[j] = work[j]
  BY WorkMoves DEF BackfillInv
<1>3. RowTypes'
  BY <1>1 DEF BackfillInv, RowTypes
<1>4. RowTrue'
  BY <1>1 DEF BackfillInv, RowTrue, CachedIsStretch
<1>5. ASSUME NEW j \in Instances PROVE ClaimSound(j)'
  <2>1. CASE j # i
    BY <1>1, <1>2, <2>1, OtherClaim DEF BackfillInv, HoldsLease
  <2>2. CASE j = i /\ now = Resting
    BY <1>2, <2>2, RestingClaim
  <2>3. CASE j = i /\ now # Resting
    <3>2. SameClaim(now, work[i])
      BY <2>3
    <3>3. HoldsLease(i)' = HoldsLease(i)
      BY <1>1 DEF HoldsLease
    <3>4. ClaimSound(i)
      BY DEF BackfillInv
    <3>. QED
      BY <1>1, <1>2, <2>3, <3>2, <3>3, <3>4 DEF ClaimSound, At, SameClaim
  <2>. QED
    BY <2>1, <2>2, <2>3
<1>. QED
  BY <1>2, <1>3, <1>4, <1>5 DEF BackfillInv

LEMMA OnwardKeeps ==
  ASSUME BackfillInv, NEW i \in Instances,
         Reserve(i) \/ Verify(i) \/ Fetch(i) \/ Abandon(i)
  PROVE  BackfillInv' /\ UNCHANGED cacheVars
<1>1. /\ UNCHANGED <<cacheVars, holder, lapsed, written, attempts, faults>>
      /\ ~At(i, "idle")
  BY DEF Reserve, Verify, Fetch, Abandon, At
<1>2. used' \in 0 .. MaxPages
  <2>1. used \in 0 .. MaxPages /\ MaxPages \in Nat
    BY BackfillAssumption DEF BackfillInv, RowTypes
  <2>2. CASE Reserve(i)
    BY <2>1, <2>2 DEF Reserve
  <2>. QED
    BY <2>1, <2>2 DEF Verify, Fetch, Abandon
<1>3. work[i] \in Works /\ work \in [Instances -> Works]
  BY DEF BackfillInv
<1>4. ASSUME NEW where \in {"reserved", "verified"}, Goes(i, where)
      PROVE  BackfillInv'
  <2> DEFINE now == [work[i] EXCEPT !.at = where]
  <2>1. now \in Works /\ now.at = where /\ SameClaim(now, work[i])
    BY <1>3 DEF Works, SameClaim
  <2>2. work' = [work EXCEPT ![i] = now]
    BY <1>3, <1>4 DEF Goes
  <2> HIDE DEF now
  <2>. QED
    BY <1>1, <1>2, <2>1, <2>2, ProgressKeeps
<1>5. CASE Rests(i)
  <2>1. work' = [work EXCEPT ![i] = Resting] /\ Resting.at # "fetched"
    BY <1>5 DEF Rests, Resting
  <2>. QED
    BY <1>1, <1>2, <2>1, RestingWork, ProgressKeeps
<1>6. CASE Fetch(i)
  <2> DEFINE page == PageFrom(work[i].cursor, head)
             now == [work[i] EXCEPT !.at = "fetched", !.page = page]
  <2>1. page \subseteq Rows /\ head \in Heads /\ head \in Nat
    BY RowNumbers DEF PageFrom, BackfillInv, RowTypes
  <2>2. now \in Works /\ now.page = page /\ SameClaim(now, work[i])
    BY <1>3, <2>1 DEF Works, SameClaim
  <2>3. work' = [work EXCEPT ![i] = now]
    BY <1>3, <1>6 DEF Fetch
  <2>4. \E h \in Heads : h <= head /\ now.page = PageFrom(work[i].cursor, h)
    BY <2>1, <2>2
  <2> HIDE DEF now, page
  <2>. QED
    BY <1>1, <1>2, <2>2, <2>3, <2>4, ProgressKeeps
<1>. QED
  BY <1>1, <1>4, <1>5, <1>6 DEF Reserve, Verify, Abandon

(* A fenced transition ends the claim it was made by; under a claim that    *)
(* was taken over it does nothing.                                          *)
LEMMA SettlesKeeps ==
  ASSUME BackfillInv, NEW i \in Instances, ~At(i, "idle"),
         NEW outcome \in {"error", "capped", Waiting(i)}, NEW burnt \in {0, 1},
         burnt = 1 => outcome # Waiting(i),
         Settles(i, outcome, burnt),
         \/ burnt = 0 /\ UNCHANGED faults
         \/ burnt = 1 /\ CountsFault(i)
  PROVE  BackfillInv' /\ [CacheNext]_cacheVars
<1>1. /\ UNCHANGED <<head, unusable, cursor, cache, holder, lapsed, written, used>>
      /\ work' = [work EXCEPT ![i] = Resting]
      /\ Waiting(i) \in {"partial", "pending"}
  BY DEF Settles, historyVars, Rests, Waiting
<1>2. /\ work' \in [Instances -> Works] /\ work'[i] = Resting
      /\ \A j \in Instances : j # i => work'[j] = work[j]
  BY <1>1, RestingWork, WorkMoves DEF BackfillInv
<1>3. CASE ~HoldsLease(i)
  <2>1. UNCHANGED <<status, attempts, faults>>
    BY <1>3 DEF Settles, CountsFault
  <2>2. RowTypes' /\ RowTrue'
    BY <1>1, <2>1 DEF BackfillInv, RowTypes, RowTrue, CachedIsStretch
  <2>3. ASSUME NEW j \in Instances PROVE ClaimSound(j)'
    BY <1>1, <1>2, <2>1, OtherClaim, RestingClaim DEF BackfillInv, HoldsLease
  <2>4. UNCHANGED cacheVars
    BY <1>1, <2>1 DEF cacheVars, historyVars
  <2>. QED
    BY <1>2, <2>2, <2>3, <2>4 DEF BackfillInv
<1>4. CASE HoldsLease(i)
  <2>1. /\ status = "running" /\ holder = i
        /\ status' = outcome /\ attempts' = attempts + burnt
    BY <1>4 DEF HoldsLease, Settles
  <2>2. /\ attempts \in Nat /\ faults \in 0 .. MaxAttempts /\ MaxAttempts \in Nat
        /\ attempts <= faults /\ attempts < MaxAttempts
    BY <2>1, BackfillAssumption DEF BackfillInv, RowTypes, RowTrue
  <2>3. /\ attempts' \in 0 .. MaxAttempts /\ faults' \in 0 .. MaxAttempts
        /\ attempts' <= faults'
        /\ outcome = Waiting(i) => attempts' < MaxAttempts
    <3>1. CASE burnt = 0
      BY <2>1, <2>2, <3>1
    <3>2. CASE burnt = 1
      <4>1. faults' = IF faults < MaxAttempts THEN faults + 1 ELSE faults
        BY <1>4, <3>2 DEF CountsFault
      <4>. QED
        BY <2>1, <2>2, <3>2, <4>1
    <3>. QED
      BY <3>1, <3>2
  <2>4. RowTypes'
    BY <1>1, <2>1, <2>3 DEF BackfillInv, RowTypes, Statuses
  <2>5. RowTrue'
    BY <1>1, <2>1, <2>3 DEF BackfillInv, RowTrue, CachedIsStretch
  <2>6. ASSUME NEW j \in Instances PROVE ClaimSound(j)'
    <3>1. ~HoldsLease(j)'
      BY <1>1, <2>1 DEF HoldsLease
    <3>. QED
      BY <1>1, <1>2, <3>1, OtherClaim, RestingClaim DEF BackfillInv
  <2>7. CacheNext
    <3>1. work[i].written = Cardinality(cache)
      BY <1>4 DEF BackfillInv, ClaimSound, RowTrue
    <3>2. Waiting(i) = IF cache = {} THEN "pending" ELSE "partial"
      BY <3>1, CacheCounted DEF BackfillInv, RowTrue, Waiting
    <3>. QED
      BY <1>1, <2>1, <3>2 DEF CacheNext, Leave, historyVars
  <2>. QED
    BY <1>2, <2>4, <2>5, <2>6, <2>7 DEF BackfillInv
<1>. QED
  BY <1>3, <1>4

LEMMA FailureKeeps ==
  ASSUME BackfillInv, NEW i \in Instances,
         \/ ReserveDenied(i)
         \/ OperationalFailure(i)
         \/ ProviderFailure(i)
         \/ FetchThrows(i)
         \/ CapUncacheable(i)
  PROVE  BackfillInv' /\ [CacheNext]_cacheVars
<1>1. Waiting(i) \in {"partial", "pending"}
  BY DEF Waiting
<1>2. PICK outcome \in {"error", "capped", Waiting(i)}, burnt \in {0, 1} :
        /\ ~At(i, "idle")
        /\ burnt = 1 => outcome # Waiting(i)
        /\ Settles(i, outcome, burnt)
        /\ \/ burnt = 0 /\ UNCHANGED faults
           \/ burnt = 1 /\ CountsFault(i)
  <2>1. CASE ReserveDenied(i)
    BY <2>1 DEF ReserveDenied, At
  <2>2. CASE OperationalFailure(i)
    BY <2>2 DEF OperationalFailure, OperationalCost, At
  <2>3. CASE ProviderFailure(i)
    <3>1. CASE GivesUp(i)
      BY <1>1, <2>3, <3>1 DEF ProviderFailure, At
    <3>2. CASE ~GivesUp(i)
      BY <1>1, <2>3, <3>2 DEF ProviderFailure, At
    <3>. QED
      BY <3>1, <3>2
  <2>4. CASE FetchThrows(i)
    BY <1>1, <2>4 DEF FetchThrows, At
  <2>5. CASE CapUncacheable(i)
    BY <2>5 DEF CapUncacheable, At
  <2>. QED
    BY <2>1, <2>2, <2>3, <2>4, <2>5
<1>. QED
  BY <1>2, SettlesKeeps

LEMMA CommitKeeps ==
  ASSUME BackfillInv, NEW i \in Instances, CommitPage(i)
  PROVE  BackfillInv' /\ [CacheNext]_cacheVars
<1>1. /\ UNCHANGED <<head, unusable, holder, lapsed, used>>
      /\ work' = [work EXCEPT ![i] = Resting]
  BY DEF CommitPage, historyVars, Rests
<1>2. /\ work' \in [Instances -> Works] /\ work'[i] = Resting
      /\ \A j \in Instances : j # i => work'[j] = work[j]
  BY <1>1, RestingWork, WorkMoves DEF BackfillInv
<1>3. CASE ~HoldsLease(i)
  <2>1. UNCHANGED <<cache, cursor, written, status, attempts, faults>>
    BY <1>3 DEF CommitPage
  <2>2. RowTypes' /\ RowTrue'
    BY <1>1, <2>1 DEF BackfillInv, RowTypes, RowTrue, CachedIsStretch
  <2>3. ASSUME NEW j \in Instances PROVE ClaimSound(j)'
    BY <1>1, <1>2, <2>1, OtherClaim, RestingClaim DEF BackfillInv, HoldsLease
  <2>4. UNCHANGED cacheVars
    BY <1>1, <2>1 DEF cacheVars, historyVars
  <2>. QED
    BY <1>2, <2>2, <2>3, <2>4 DEF BackfillInv
<1>4. CASE HoldsLease(i)
  <2> DEFINE page == work[i].page
             next == NextCursor(page)
             total == work[i].written + Cardinality(page)
  <2>1. /\ status = "running" /\ holder = i /\ At(i, "fetched")
        /\ page \cap unusable = {}
    BY <1>4 DEF HoldsLease, CommitPage, SkipPage
  <2>2. PICK h \in Heads : h <= head /\ page = PageFrom(cursor, h)
    BY <1>4, <2>1 DEF BackfillInv, ClaimSound, At
  <2>3. work[i].written = Cardinality(cache)
    BY <1>4, <2>1 DEF BackfillInv, ClaimSound, At, RowTrue
  <2>4. page \ unusable = page
    BY <2>1
  <2>5. /\ cache' = cache \cup (page \ unusable)
        /\ cursor' = next /\ written' = total
        /\ status' = StatusAfter(next, total)
        /\ attempts' = 0 /\ faults' = 0
    BY <1>4 DEF CommitPage
  <2>6. cache' = cache \cup page
    BY <2>4, <2>5
  <2>7. /\ page \subseteq Rows /\ next \in {0} \cup Rows
        /\ cache \cup page # {}
        /\ Max(cache \cup page) \in Heads
        /\ cache \cup page = next + 1 .. Max(cache \cup page)
        /\ Cardinality(cache \cup page) = Cardinality(cache) + Cardinality(page)
    BY <2>1, <2>2, StretchGrows DEF BackfillInv
  <2>8. /\ status' \in IF next = 0 THEN {"complete"} ELSE {"partial", "capped"}
        /\ status' \in Statuses
    BY <2>5 DEF StatusAfter, Statuses
  <2>9. 0 \in 0 .. MaxAttempts /\ 0 < MaxAttempts
    BY BackfillAssumption
  <2>10. CacheNext
    BY <1>1, <2>1, <2>2, <2>5, <2>6, <2>8 DEF CacheNext, CachePage, historyVars
  <2> HIDE DEF page, next, total
  <2>11. RowTypes'
    BY <1>1, <2>5, <2>6, <2>7, <2>8, <2>9 DEF BackfillInv, RowTypes
  <2>12. CachedIsStretch'
    BY <2>5, <2>6, <2>7 DEF CachedIsStretch
  <2>13. written' = Cardinality(cache')
    BY <2>3, <2>5, <2>6, <2>7 DEF total
  <2>14. RowTrue'
    BY <2>5, <2>6, <2>7, <2>8, <2>9, <2>12, <2>13 DEF RowTrue
  <2>15. ASSUME NEW j \in Instances PROVE ClaimSound(j)'
    <3>1. ~HoldsLease(j)'
      BY <2>8 DEF HoldsLease
    <3>. QED
      BY <1>1, <1>2, <3>1, OtherClaim, RestingClaim DEF BackfillInv
  <2>. QED
    BY <1>2, <2>10, <2>11, <2>14, <2>15 DEF BackfillInv
<1>. QED
  BY <1>3, <1>4

LEMMA WriteFailureKeeps ==
  ASSUME BackfillInv, NEW i \in Instances, WriteFails(i)
  PROVE  BackfillInv' /\ [CacheNext]_cacheVars
<1>1. CASE HoldsLease(i)
  <2>1. Settles(i, "error", 1)
    BY <1>1 DEF WriteFails, RowsRolledBack, Settles
  <2>2. "error" # Waiting(i) /\ ~At(i, "idle") /\ CountsFault(i)
    BY DEF Waiting, WriteFails, At
  <2>. QED
    BY <2>1, <2>2, SettlesKeeps
<1>2. CASE ~HoldsLease(i)
  <2>1. Settles(i, "error", 1)
    BY <1>2 DEF WriteFails, RowsRolledBack, Settles
  <2>2. "error" # Waiting(i) /\ ~At(i, "idle") /\ CountsFault(i)
    BY DEF Waiting, WriteFails, At
  <2>. QED
    BY <2>1, <2>2, SettlesKeeps
<1>. QED
  BY <1>1, <1>2

LEMMA TimeKeeps ==
  ASSUME BackfillInv, LeaseLapses \/ NewHour \/ UNCHANGED backfillVars
  PROVE  BackfillInv' /\ UNCHANGED cacheVars
<1>1. UNCHANGED <<cacheVars, holder, written, attempts, work, faults>>
  BY DEF LeaseLapses, NewHour, backfillVars
<1>2. UNCHANGED <<head, unusable, status, cursor, cache>>
  BY <1>1 DEF cacheVars, historyVars
<1>3. lapsed' \in BOOLEAN /\ used' \in 0 .. MaxPages
  <2>1. lapsed \in BOOLEAN /\ used \in 0 .. MaxPages /\ 0 \in 0 .. MaxPages
    BY BackfillAssumption DEF BackfillInv, RowTypes
  <2>2. lapsed' = TRUE \/ lapsed' = lapsed
    BY DEF LeaseLapses, NewHour, backfillVars
  <2>3. used' = 0 \/ used' = used
    BY DEF LeaseLapses, NewHour, backfillVars
  <2>. QED
    BY <2>1, <2>2, <2>3
<1>4. RowTypes' /\ RowTrue'
  BY <1>1, <1>2, <1>3 DEF BackfillInv, RowTypes, RowTrue, CachedIsStretch
<1>5. ASSUME NEW j \in Instances PROVE ClaimSound(j)'
  BY <1>1, <1>2, OtherClaim DEF BackfillInv, HoldsLease
<1>. QED
  BY <1>1, <1>4, <1>5 DEF BackfillInv

LEMMA BackfillNextKeeps ==
  ASSUME BackfillInv, [BackfillNext]_backfillVars
  PROVE  BackfillInv' /\ [CacheNext]_cacheVars
<1>1. CASE Request
  BY <1>1, RequestKeeps
<1>2. CASE LeaseLapses \/ NewHour \/ UNCHANGED backfillVars
  BY <1>2, TimeKeeps
<1>3. ASSUME NEW i \in Instances,
             Proceed(i) \/ Answered(i) \/ OperationalFailure(i) \/ Written(i) \/ Abandon(i)
      PROVE  BackfillInv' /\ [CacheNext]_cacheVars
  <2>1. CASE Claim(i)
    BY <2>1, ClaimKeeps
  <2>2. CASE Reserve(i) \/ Verify(i) \/ Fetch(i) \/ Abandon(i)
    BY <2>2, OnwardKeeps
  <2>3. CASE \/ ReserveDenied(i) \/ OperationalFailure(i) \/ ProviderFailure(i)
             \/ FetchThrows(i) \/ CapUncacheable(i)
    BY <2>3, FailureKeeps
  <2>4. CASE CommitPage(i)
    BY <2>4, CommitKeeps
  <2>5. CASE WriteFails(i)
    BY <2>5, WriteFailureKeeps
  <2>. QED
    BY <1>3, <2>1, <2>2, <2>3, <2>4, <2>5 DEF Proceed, Answered, Written
<1>. QED
  BY <1>1, <1>2, <1>3 DEF BackfillNext

LEMMA BackfillInitInv == BackfillInit => BackfillInv /\ CacheInit
<1>. SUFFICES ASSUME BackfillInit PROVE BackfillInv
  BY DEF BackfillInit
<1>1. /\ head \in Heads /\ unusable \in Unusables /\ status = "none" /\ cursor = 0
      /\ cache = {} /\ holder = Nobody /\ lapsed = FALSE /\ written = 0
      /\ attempts = 0 /\ used = 0 /\ faults = 0
      /\ work = [i \in Instances |-> Resting]
  BY DEF BackfillInit, CacheInit, HistoryInit
<1>2. 0 \in 0 .. MaxAttempts /\ 0 < MaxAttempts /\ 0 \in 0 .. MaxPages
  BY BackfillAssumption
<1>3. RowTypes
  BY <1>1, <1>2 DEF RowTypes, Statuses
<1>4. RowTrue
  BY <1>1, <1>2, FS_EmptySet DEF RowTrue, CachedIsStretch
<1>5. work \in [Instances -> Works]
  BY <1>1, RestingWork
<1>6. \A i \in Instances : ClaimSound(i)
  BY <1>1 DEF ClaimSound, HoldsLease, At, Resting
<1>. QED
  BY <1>3, <1>4, <1>5, <1>6 DEF BackfillInv

LEMMA BackfillKept == BackfillSpec => []BackfillInv /\ CacheSpec
<1>1. BackfillInv /\ [BackfillNext]_backfillVars => BackfillInv' /\ [CacheNext]_cacheVars
  BY BackfillNextKeeps
<1>. QED
  BY <1>1, BackfillInitInv, PTL DEF BackfillSpec, CacheSpec

(* Every variable of the worker has its type.                               *)
THEOREM BackfillTypes == BackfillSpec => []BackfillTypeOK
<1>1. BackfillInv => BackfillTypeOK
  BY CacheCounted DEF BackfillInv, RowTypes, Works, BackfillTypeOK
<1>. QED
  BY <1>1, BackfillKept, PTL

(* However many instances work on an entity at once, and wherever they die, *)
(* its cache is the history from some head down to the cursor, and it has   *)
(* failed as often as its row says.                                         *)
THEOREM RowSaysWhatIsSo == BackfillSpec => []WatermarkTrue
<1>1. BackfillInv => WatermarkTrue
  BY DEF BackfillInv, RowTrue, WatermarkTrue, GivenUpDeserved
<1>. QED
  BY <1>1, BackfillKept, PTL

(* The worker implements what its readers are promised of the cache.        *)
THEOREM WorkerImplementsCache == BackfillSpec => KeepsCachePromise
<1>. QED
  BY BackfillKept DEF KeepsCachePromise

-----------------------------------------------------------------------------
(* HistoryServe.                                                            *)

LEMMA LeastOf ==
  ASSUME NEW S \in SUBSET Nat, S # {}
  PROVE  \E m \in S : \A n \in S : m <= n
<1>1. PICK m \in S : \A n \in S : ~ (<<n, m>> \in OpToRel(<, Nat))
  BY NatLessThanWellFounded, WFMin
<1>2. \A n \in S : ~ (n < m)
  BY <1>1, Zenon DEF OpToRel
<1>. QED
  BY <1>2

LEMMA GreatestOf ==
  ASSUME NEW top \in Nat, NEW S \in SUBSET (0 .. top), S # {}
  PROVE  \E m \in S : \A n \in S : n <= m
<1>. DEFINE Mirror == {top - n : n \in S}
<1>1. Mirror \in SUBSET Nat /\ Mirror # {}
  <2>1. \A n \in S : top - n \in Nat
    OBVIOUS
  <2>. QED
    BY <2>1
<1>2. PICK k \in Mirror : \A n \in Mirror : k <= n
  BY <1>1, LeastOf
<1>3. PICK x \in S : k = top - x
  BY <1>2
<1>4. \A n \in S : top - n \in Mirror
  OBVIOUS
<1>. HIDE DEF Mirror
<1>. QED
  BY <1>2, <1>3, <1>4

(* A page is cut where the one before it ended, at most PageSize rows on.   *)
LEMMA PageCut ==
  ASSUME NEW c \in {0} \cup Rows, NEW h \in Heads
  PROVE  LET first == IF c = 0 THEN h ELSE c
             page  == PageFrom(c, h)
         IN  /\ page \subseteq Rows
             /\ \E low \in Rows : /\ low <= first /\ page = low .. first
                                  /\ NextCursor(page) = low - 1 /\ Min(page) = low
                                  /\ low = 1 \/ low + PageSize = first + 1
                                  /\ low + PageSize >= first + 1
<1> DEFINE first == IF c = 0 THEN h ELSE c
           page == PageFrom(c, h)
<1>1. PICK low \in Rows : first \in Rows /\ low <= first /\ page = low .. first
                          /\ NextCursor(page) = low - 1
  BY PageFacts
<1>2. first \in Nat \ {0} /\ low \in Nat \ {0} /\ PageSize \in Nat \ {0}
      /\ low .. first \subseteq Rows
  BY <1>1, RowNumbers
<1>3. Min(page) = low
  BY <1>1, <1>2, IntervalEnds
<1>4. \A r \in Rows : r \in page <=> r <= first /\ r > first - PageSize
  BY DEF PageFrom
<1> HIDE DEF first, page
<1>5. low = 1 \/ low + PageSize = first + 1
  <2>1. SUFFICES ASSUME low # 1 PROVE low + PageSize = first + 1
    OBVIOUS
  <2>2. low - 1 \in Rows /\ low - 1 <= first /\ low - 1 \notin page
    BY <1>1, <1>2, <2>1, RowNumbers
  <2>3. low - 1 <= first - PageSize
    BY <1>2, <1>4, <2>2
  <2>4. low > first - PageSize
    BY <1>1, <1>2, <1>4
  <2>. QED
    BY <1>2, <2>3, <2>4
<1>6. page \subseteq Rows
  BY <1>1, <1>2
<1>7. low + PageSize >= first + 1
  BY <1>1, <1>2, <1>4
<1>8. \E l \in Rows : /\ l <= first /\ page = l .. first
                      /\ NextCursor(page) = l - 1 /\ Min(page) = l
                      /\ l = 1 \/ l + PageSize = first + 1
                      /\ l + PageSize >= first + 1
  BY <1>1, <1>3, <1>5, <1>7
<1>. QED
  BY <1>6, <1>8 DEF first, page

(* Local positions: rows by block, then hash.                               *)
LEMMA RowKeys ==
  /\ MaxRank \in Nat \ {0}
  /\ \A r \in Rows : /\ BlockOf[r] \in Nat /\ HashRank[r] \in 1 .. MaxRank - 1
                     /\ Key(r) \in Nat /\ TopKey(BlockOf[r]) \in Nat
<1>1. MaxRank \in Nat \ {0}
  BY RowNumbers DEF MaxRank
<1>2. \A r \in Rows : BlockOf[r] \in Nat /\ HashRank[r] \in 1 .. MaxRank - 1
  BY HistoryAssumption, ServeAssumption
<1>3. \A b \in Nat : b * (MaxRank + 1) \in Nat
  BY <1>1
<1>. QED
  BY <1>1, <1>2, <1>3 DEF Key, TopKey

LEMMA BlocksInOrder ==
  ASSUME NEW a \in Nat, NEW b \in Nat, a < b
  PROVE  a * (MaxRank + 1) + (MaxRank + 1) <= b * (MaxRank + 1)
<1>1. MaxRank + 1 \in Nat /\ MaxRank \in Nat
  BY RowKeys
<1>2. \A d \in Nat : (a + 1 + d) * (MaxRank + 1) >= (a + 1) * (MaxRank + 1)
  BY <1>1
<1>3. b - (a + 1) \in Nat /\ b = a + 1 + (b - (a + 1))
  OBVIOUS
<1>4. b * (MaxRank + 1) >= (a + 1) * (MaxRank + 1)
  BY <1>2, <1>3
<1>5. (a + 1) * (MaxRank + 1) = a * (MaxRank + 1) + (MaxRank + 1)
  BY <1>1
<1>6. a * (MaxRank + 1) \in Nat /\ b * (MaxRank + 1) \in Nat
  BY <1>1
<1>. QED
  BY <1>1, <1>4, <1>5, <1>6

LEMMA KeyOrder ==
  ASSUME NEW r \in Rows, NEW s \in Rows
  PROVE  /\ BlockOf[r] <= BlockOf[s] => Key(r) < TopKey(BlockOf[s])
         /\ BlockOf[r] > BlockOf[s] => Key(r) > TopKey(BlockOf[s])
<1> DEFINE M == MaxRank + 1
           a == BlockOf[r]
           b == BlockOf[s]
<1>1. /\ MaxRank \in Nat \ {0} /\ a \in Nat /\ b \in Nat
      /\ HashRank[r] \in 1 .. MaxRank - 1
  BY RowKeys
<1>2. a * M \in Nat /\ b * M \in Nat
  BY <1>1
<1>3. Key(r) = a * M + HashRank[r] /\ TopKey(b) = b * M + MaxRank
  BY DEF Key, TopKey
<1>4. a < b => a * M + M <= b * M
  BY <1>1, BlocksInOrder
<1>5. a > b => b * M + M <= a * M
  BY <1>1, BlocksInOrder
<1>6. M = MaxRank + 1
  OBVIOUS
<1>7. a = b => a * M = b * M
  OBVIOUS
<1> DEFINE aM == a * M
           bM == b * M
<1>8. /\ aM \in Nat /\ bM \in Nat
      /\ Key(r) = aM + HashRank[r] /\ TopKey(b) = bM + MaxRank
      /\ a < b => aM + M <= bM
      /\ a > b => bM + M <= aM
      /\ a = b => aM = bM
  BY <1>2, <1>3, <1>4, <1>5, <1>7
<1> HIDE DEF aM, bM, M
<1>9. a <= b => Key(r) < TopKey(b)
  BY <1>1, <1>6, <1>8
<1>10. a > b => Key(r) > TopKey(b)
  BY <1>1, <1>6, <1>8
<1>. QED
  BY <1>9, <1>10

LEMMA AllBelowBoundary ==
  ASSUME NEW h \in Heads
  PROVE  /\ TopBoundary \in Nat
         /\ \A r \in Rows : Key(r) < TopBoundary /\ TopKey(BlockOf[r]) <= TopBoundary
         /\ {0} \cup Rows \subseteq 0 .. TopBoundary
<1> DEFINE n == Cardinality(Rows)
           Blocks == {BlockOf[r] : r \in Rows}
<1>1. n \in Rows /\ n \in Nat \ {0} /\ \A r \in Rows : r <= n
  BY RowNumbers
<1>2. \A r \in Rows : BlockOf[r] <= BlockOf[n] /\ BlockOf[r] \in Nat /\ BlockOf[n] \in Nat
  <2>1. TAKE r \in Rows
  <2>2. r \in Nat /\ n \in Nat /\ r <= n
    BY <1>1, RowNumbers
  <2>3. r < n => BlockOf[r] <= BlockOf[n]
    BY <1>1, HistoryAssumption
  <2>4. BlockOf[r] \in Nat /\ BlockOf[n] \in Nat
    BY <1>1, RowKeys
  <2> HIDE DEF n
  <2>. QED
    BY <2>2, <2>3, <2>4
<1>3. /\ BlockOf[n] \in Blocks /\ \A b \in Blocks : b <= BlockOf[n] /\ b \in Nat
      /\ BlockOf[n] \in Nat
  BY <1>1, <1>2
<1> HIDE DEF Blocks, n
<1>4. Max(Blocks) = BlockOf[n]
  <2>1. \A x \in Blocks : (\A y \in Blocks : x >= y) => x = BlockOf[n]
    BY <1>3
  <2>2. BlockOf[n] \in Blocks /\ \A y \in Blocks : BlockOf[n] >= y
    BY <1>3
  <2>. QED
    BY <2>1, <2>2 DEF Max
<1>5. TopBoundary = TopKey(1 + BlockOf[n])
  BY <1>4 DEF TopBoundary, Blocks
<1>6. MaxRank \in Nat \ {0}
  BY RowKeys
<1> DEFINE top == (1 + BlockOf[n]) * (MaxRank + 1)
<1>7. top \in Nat /\ TopBoundary = top + MaxRank
  BY <1>3, <1>5, <1>6 DEF TopKey
<1>8. ASSUME NEW r \in Rows
      PROVE  Key(r) < TopBoundary /\ TopKey(BlockOf[r]) <= TopBoundary
  <2>1. BlockOf[r] < 1 + BlockOf[n] /\ 1 + BlockOf[n] \in Nat /\ BlockOf[r] \in Nat
    BY <1>2
  <2> DEFINE mine == BlockOf[r] * (MaxRank + 1)
  <2>2. mine + (MaxRank + 1) <= top /\ mine \in Nat
    BY <1>6, <2>1, BlocksInOrder
  <2>3. Key(r) = mine + HashRank[r] /\ TopKey(BlockOf[r]) = mine + MaxRank
        /\ HashRank[r] \in 1 .. MaxRank - 1
    BY RowKeys DEF Key, TopKey
  <2> HIDE DEF mine, top
  <2>. QED
    BY <1>6, <1>7, <2>2, <2>3
<1>9. TopBoundary \in Nat
  <2> HIDE DEF top
  <2>. QED
    BY <1>6, <1>7
<1>10. {0} \cup Rows \subseteq 0 .. TopBoundary
  <2>1. MaxRank = n + 1
    BY DEF MaxRank, n
  <2>2. \A r \in {0} \cup Rows : r \in Nat /\ r <= n
    BY <1>1, RowNumbers
  <2> HIDE DEF top
  <2>. QED
    BY <1>1, <1>7, <2>1, <2>2
<1>. QED
  BY <1>8, <1>9, <1>10

(* The cache ends at a head there was, and a whole page at least lies above *)
(* the cursor.                                                              *)
CacheInv ==
  /\ head \in Heads /\ unusable \in Unusables /\ status \in Statuses
  /\ cursor \in {0} \cup Rows /\ cache \subseteq Rows
  /\ cache = {} => cursor = 0 /\ status \notin {"complete", "partial"}
  /\ cache # {} =>
       /\ cursor = 0 <=> status = "complete"
       /\ \E m \in Heads : /\ m <= head /\ cursor < m /\ cache = cursor + 1 .. m
                           /\ cursor = 0 \/ cursor + PageSize <= m

Cursors == [source : {"head", "local", "provider", "end"}, pos : 0 .. TopBoundary,
            seen : SUBSET Rows]

Watermarks == [status : Statuses, cursor : {0} \cup Rows]

ViewTypes ==
  /\ session \in [at : {"closed", "ask", "answer", "seam", "done", "limited"},
                  cursor : Cursors, wm : Watermarks, page : SUBSET Rows]
  /\ Cardinality(session.cursor.seen) <= SeenCap
  /\ served \in [Rows -> 0 .. 2]
  /\ owed \subseteq Rows
  /\ calm \in BOOLEAN /\ overtaken \in BOOLEAN

(* What a watermark read earlier still says of the cache.                   *)
SnapshotTrue(wm) ==
  Usable(wm) =>
    /\ wm.cursor >= cursor
    /\ wm.cursor # 0 => cache # {}
    /\ wm.status = "complete" => status = "complete"
    /\ wm.cursor = 0 /\ wm.status # "complete" => status = "capped" /\ cache = {}

(* The rows a reader with this cursor is yet to be shown.                   *)
ToCome(cur, r) ==
  \/ cur.source = "provider" /\ r <= cur.pos
  \/ cur.source = "local" /\ (r \in LocalRows(cur) \/ r <= cursor)

CursorSound(cur) ==
  /\ cur.source = "provider" => cur.pos \in Rows
  /\ cur.source = "local" => cache # {} /\ (calm => Usable(Watermark))
  /\ \A r \in cur.seen : served[r] >= 1 /\ cur.pos <= TopKey(BlockOf[r])
  /\ cur.source = "head" => owed = {} /\ \A r \in Rows : served[r] = 0
  /\ ~overtaken => \A r \in owed : served[r] >= 1 \/ ToCome(cur, r)
  /\ calm => \A r \in Rows : ToCome(cur, r) => served[r] = 0

(* Page 1 has been shown and nothing else.                                  *)
SeamSound ==
  /\ session.cursor.source = "head"
  /\ Usable(session.wm)
  /\ \A r \in Rows : served[r] = IF r \in session.page THEN 1 ELSE 0
  /\ \E h \in Heads : /\ h <= head /\ session.page = PageFrom(0, h)
                      /\ owed = {r \in Rows : r <= h}
                      /\ calm => \A r \in cache : r <= h

ViewInv ==
  /\ ViewTypes
  /\ session.at \in {"ask", "answer"} => CursorSound(session.cursor)
  /\ session.at = "answer" => session.cursor.source # "end"
  /\ session.at \in {"answer", "seam"} =>
       /\ SnapshotTrue(session.wm)
       /\ calm => session.wm = Watermark
  /\ session.at = "seam" => SeamSound
  /\ session.at = "done" /\ ~overtaken => \A r \in owed : served[r] >= 1
  /\ \A r \in owed : r <= head
  /\ calm => \A r \in Rows : served[r] <= 1

(* A local page ends where the next one begins: what is left of the rows    *)
(* lies below the last one shown.                                           *)
LEMMA LocalPageCut ==
  ASSUME NEW h \in Heads, cache \subseteq Rows, NEW cur
  PROVE  /\ LocalRows(cur) \subseteq cache /\ LocalPage(cur) \subseteq LocalRows(cur)
         /\ LocalPage(cur) # LocalRows(cur) =>
              /\ LastOf(LocalPage(cur)) \in LocalPage(cur)
              /\ \A r \in LocalPage(cur) : Key(LastOf(LocalPage(cur))) <= Key(r)
              /\ \A r \in LocalRows(cur) \ LocalPage(cur) : Key(r) < Key(LastOf(LocalPage(cur)))
<1> DEFINE rows == LocalRows(cur)
           page == LocalPage(cur)
           Over(r) == {s \in rows : Key(s) > Key(r)}
<1>1. rows \subseteq cache /\ rows \subseteq Rows
  BY DEF LocalRows
<1>2. \A r : r \in page <=> r \in rows /\ Cardinality(Over(r)) < LocalSize
  BY DEF LocalPage
<1> HIDE DEF rows, page
<1>3. \A r \in rows : Key(r) \in 0 .. TopBoundary
  BY <1>1, RowKeys, AllBelowBoundary
<1>4. IsFiniteSet(rows)
  BY <1>1, RowNumbers, FS_Subset
<1>5. ASSUME page # rows
      PROVE  /\ LastOf(page) \in page
             /\ \A r \in page : Key(LastOf(page)) <= Key(r)
             /\ \A r \in rows \ page : Key(r) < Key(LastOf(page))
  <2> DEFINE Keys == {Key(r) : r \in rows}
             Shown == {Key(r) : r \in page}
  <2>1. Keys \in SUBSET (0 .. TopBoundary) /\ Keys # {}
    BY <1>2, <1>3, <1>5
  <2>2. PICK g \in rows : \A r \in rows : Key(r) <= Key(g)
    <3>1. TopBoundary \in Nat
      BY AllBelowBoundary
    <3>2. PICK k \in Keys : \A n \in Keys : n <= k
      <4> HIDE DEF Keys
      <4>. QED
        BY <2>1, <3>1, GreatestOf
    <3>3. PICK g \in rows : k = Key(g)
      BY <3>2
    <3>. QED
      BY <3>2, <3>3
  <2>3. Over(g) = {}
    <3>1. \A r \in rows : ~(Key(r) > Key(g))
      BY <1>3, <2>2
    <3>. QED
      BY <3>1
  <2>4. g \in page
    <3>1. Cardinality(Over(g)) = 0
      BY <2>3, FS_EmptySet
    <3>2. 0 < LocalSize
      BY ServeAssumption
    <3> HIDE DEF Over
    <3>. QED
      BY <1>2, <3>1, <3>2
  <2>5. Shown \in SUBSET Nat /\ Shown # {}
    <3>1. \A r \in page : Key(r) \in Nat
      BY <1>1, <1>2, RowKeys
    <3>. QED
      BY <2>4, <3>1
  <2>6. PICK k \in Shown : \A n \in Shown : k <= n
    <3> HIDE DEF Shown
    <3>. QED
      BY <2>5, LeastOf
  <2>7. PICK l \in page : k = Key(l)
    BY <2>6
  <2>8. \A r \in page : Key(l) <= Key(r)
    BY <2>6, <2>7
  <2>9. LastOf(page) \in page /\ \A r \in page : Key(LastOf(page)) <= Key(r)
    BY <2>8 DEF LastOf
  <2>10. ASSUME NEW r \in rows \ page, NEW s \in page
         PROVE  Key(r) < Key(s)
    <3>1. Key(r) \in Nat /\ Key(s) \in Nat
      BY <1>1, <1>2, RowKeys
    <3>2. SUFFICES ASSUME Key(r) >= Key(s) PROVE FALSE
      BY <3>1
    <3>3. \A q \in rows : Key(q) > Key(r) => Key(q) > Key(s)
      BY <1>3, <3>1, <3>2
    <3>4. Over(r) \subseteq Over(s)
      BY <3>3
    <3>5. IsFiniteSet(Over(s))
      BY <1>4, FS_Subset
    <3> HIDE DEF Over
    <3>6. /\ Cardinality(Over(r)) <= Cardinality(Over(s))
          /\ Cardinality(Over(r)) \in Nat /\ Cardinality(Over(s)) \in Nat
      BY <3>4, <3>5, FS_Subset, FS_CardinalityType
    <3>7. Cardinality(Over(s)) < LocalSize /\ LocalSize \in Nat
      BY <1>2, ServeAssumption
    <3>8. Cardinality(Over(r)) < LocalSize
      BY <3>6, <3>7
    <3>. QED
      BY <1>2, <3>8
  <2> HIDE DEF Over, Keys, Shown
  <2>. QED
    BY <2>9, <2>10
<1>6. page \subseteq rows
  BY <1>2
<1>. QED
  BY <1>1, <1>5, <1>6 DEF rows, page

(* The provider's cursor after a page: what the page left.                  *)
LEMMA TailKept ==
  ASSUME NEW h \in Heads, NEW n \in {0} \cup Rows
  PROVE  /\ ProviderTail(n) \in Cursors
         /\ ProviderTail(n).source \in {"provider", "end"}
         /\ ProviderTail(n).source = "provider" => ProviderTail(n).pos \in Rows
         /\ ProviderTail(n).seen = {}
         /\ \A r \in Rows : ToCome(ProviderTail(n), r) <=> r <= n
<1>1. TopBoundary \in Nat /\ n \in 0 .. TopBoundary
  BY AllBelowBoundary
<1>2. \A r \in Rows : r > 0 /\ r \in Nat
  BY RowNumbers
<1>3. CASE n = 0
  <2>1. ProviderTail(n) = [source |-> "end", pos |-> 0, seen |-> {}]
    BY <1>3 DEF ProviderTail, NoCursor
  <2>2. \A r \in Rows : ~(r <= n)
    BY <1>2, <1>3
  <2>. QED
    BY <1>1, <2>1, <2>2 DEF ToCome, Cursors
<1>4. CASE n # 0
  <2>1. ProviderTail(n) = [source |-> "provider", pos |-> n, seen |-> {}]
    BY <1>4 DEF ProviderTail, ProviderCursor
  <2>. QED
    BY <1>1, <1>4, <2>1 DEF ToCome, Cursors
<1>. QED
  BY <1>3, <1>4

(* The cursor after a local page.                                           *)
LEMMA NextKept ==
  ASSUME CacheInv, NEW cur \in Cursors, cur.source = "local", cache # {},
         Cardinality(cur.seen) <= SeenCap, NEW wm \in Watermarks, Usable(wm), SnapshotTrue(wm)
  PROVE  LET next == NextLocal(cur, wm)
             left == LocalRows(cur) \ LocalPage(cur)
         IN  /\ next \in Cursors /\ Cardinality(next.seen) <= SeenCap
             /\ next.source \in {"local", "provider", "end"}
             /\ next.source = "provider" => next.pos \in Rows
             /\ \A r \in next.seen : r \in cur.seen /\ next.pos <= TopKey(BlockOf[r])
             /\ \A r \in Rows : r \in left \/ r <= cursor => ToCome(next, r)
             /\ wm = Watermark /\ (\A r \in cur.seen : cur.pos <= TopKey(BlockOf[r])) =>
                  \A r \in Rows : ToCome(next, r) => r \in left \/ r <= cursor
<1> DEFINE next == NextLocal(cur, wm)
           page == LocalPage(cur)
           rows == LocalRows(cur)
           last == LastOf(page)
<1>1. /\ head \in Heads /\ cache \subseteq Rows /\ cursor \in {0} \cup Rows
      /\ cursor = 0 <=> status = "complete"
  BY DEF CacheInv
<1>2. /\ rows \subseteq cache /\ page \subseteq rows
      /\ page # rows => /\ last \in page
                        /\ \A r \in page : Key(last) <= Key(r)
                        /\ \A r \in rows \ page : Key(r) < Key(last)
  BY <1>1, LocalPageCut
<1>3. \A r : r \in rows <=> r \in cache /\ Key(r) < cur.pos /\ r \notin cur.seen
  BY DEF LocalRows
<1>4. cur.seen \subseteq Rows /\ cur.pos \in Nat /\ IsFiniteSet(cur.seen)
  <2>1. cur.seen \subseteq Rows /\ cur.pos \in 0 .. TopBoundary /\ TopBoundary \in Nat
    BY <1>1, AllBelowBoundary DEF Cursors
  <2>. QED
    BY <2>1, RowNumbers, FS_Subset
<1>5. ASSUME page # rows
      PROVE  /\ next = [source |-> "local", pos |-> Key(last), seen |-> Carry(cur.seen, last)]
             /\ next \in Cursors /\ Cardinality(next.seen) <= SeenCap
             /\ \A r \in next.seen : r \in cur.seen /\ next.pos <= TopKey(BlockOf[r])
             /\ \A r \in Rows : r \in rows \ page \/ r <= cursor => ToCome(next, r)
             /\ (\A r \in cur.seen : cur.pos <= TopKey(BlockOf[r])) =>
                  \A r \in Rows : ToCome(next, r) => r \in rows \ page \/ r <= cursor
  <2>1. next = [source |-> "local", pos |-> Key(last), seen |-> Carry(cur.seen, last)]
    BY <1>5 DEF NextLocal, LocalCursor
  <2>2. last \in page /\ last \in rows /\ last \in Rows /\ Key(last) < cur.pos
    BY <1>1, <1>2, <1>3, <1>5
  <2>3. Key(last) \in 0 .. TopBoundary
    BY <1>1, <2>2, RowKeys, AllBelowBoundary
  <2> HIDE DEF page, rows, last, next
  <2>4. \A r : r \in Carry(cur.seen, last) <=> r \in cur.seen /\ BlockOf[r] = BlockOf[last]
    BY DEF Carry
  <2>5. next \in Cursors
    BY <1>4, <2>1, <2>3, <2>4 DEF Cursors
  <2>6. Cardinality(next.seen) <= SeenCap
    <3>1. Carry(cur.seen, last) \subseteq cur.seen
      BY <2>4
    <3>2. /\ Cardinality(Carry(cur.seen, last)) <= Cardinality(cur.seen)
          /\ Cardinality(Carry(cur.seen, last)) \in Nat /\ Cardinality(cur.seen) \in Nat
      BY <1>4, <3>1, FS_Subset, FS_CardinalityType
    <3>. QED
      BY <2>1, <3>2, ServeAssumption
  <2>7. \A r \in next.seen : r \in cur.seen /\ next.pos <= TopKey(BlockOf[r])
    <3>. SUFFICES ASSUME NEW r \in Carry(cur.seen, last)
                  PROVE  r \in cur.seen /\ Key(last) <= TopKey(BlockOf[r])
      BY <2>1
    <3>1. r \in cur.seen /\ BlockOf[r] = BlockOf[last] /\ r \in Rows
      BY <1>4, <2>4
    <3>2. Key(last) < TopKey(BlockOf[last]) /\ Key(last) \in Nat /\ TopKey(BlockOf[last]) \in Nat
      BY <2>2, KeyOrder, RowKeys
    <3>. QED
      BY <3>1, <3>2
  <2>8. ASSUME NEW r \in Rows
        PROVE  ToCome(next, r) <=> \/ r \in cache /\ Key(r) < Key(last) /\ r \notin Carry(cur.seen, last)
                                   \/ r <= cursor
    BY <2>1 DEF ToCome, LocalRows
  <2>9. ASSUME NEW r \in Rows, r \in rows \ page \/ r <= cursor
        PROVE  ToCome(next, r)
    <3>1. r \in rows \ page => r \in cache /\ Key(r) < Key(last) /\ r \notin Carry(cur.seen, last)
      BY <1>2, <1>3, <1>5, <2>4
    <3>. QED
      BY <2>8, <2>9, <3>1
  <2>10. ASSUME \A r \in cur.seen : cur.pos <= TopKey(BlockOf[r]),
                NEW r \in Rows, ToCome(next, r), ~(r <= cursor)
         PROVE  r \in rows \ page
    <3>1. r \in cache /\ Key(r) < Key(last) /\ r \notin Carry(cur.seen, last)
      BY <2>8, <2>10
    <3>2. Key(r) \in Nat /\ Key(last) \in Nat
      BY <2>2, RowKeys
    <3>3. r \notin page
      BY <1>2, <1>5, <3>1, <3>2
    <3>4. Key(r) < cur.pos
      BY <1>4, <2>2, <3>1, <3>2
    <3>5. r \notin cur.seen
      <4>1. SUFFICES ASSUME r \in cur.seen PROVE FALSE
        OBVIOUS
      <4>2. BlockOf[r] # BlockOf[last]
        BY <2>4, <3>1, <4>1
      <4>3. Key(last) < TopKey(BlockOf[r]) /\ TopKey(BlockOf[r]) \in Nat
        BY <1>4, <2>2, <2>10, <3>2, <4>1, RowKeys
      <4>4. BlockOf[last] \in Nat /\ BlockOf[r] \in Nat /\ TopKey(BlockOf[last]) \in Nat
        BY <2>2, RowKeys
      <4>5. ~(BlockOf[last] > BlockOf[r])
        BY <2>2, <3>2, <4>3, KeyOrder
      <4>6. BlockOf[r] > BlockOf[last]
        BY <4>2, <4>4, <4>5
      <4>7. Key(r) > TopKey(BlockOf[last]) /\ Key(last) < TopKey(BlockOf[last])
        BY <2>2, <4>4, <4>6, KeyOrder
      <4>. QED
        BY <3>1, <3>2, <4>4, <4>7
    <3>. QED
      BY <1>3, <3>1, <3>3, <3>4, <3>5
  <2>. QED
    BY <2>1, <2>5, <2>6, <2>7, <2>9, <2>10
<1>6. ASSUME page = rows
      PROVE  /\ next \in Cursors /\ next.seen = {}
             /\ next.source \in {"provider", "end"}
             /\ next.source = "provider" => next.pos \in Rows
             /\ \A r \in Rows : r <= cursor => ToCome(next, r)
             /\ wm = Watermark => \A r \in Rows : ToCome(next, r) => r <= cursor
  <2>1. next = AfterCache(wm)
    BY <1>6 DEF NextLocal
  <2>2. wm.cursor \in {0} \cup Rows /\ wm.cursor \in Nat /\ cursor \in Nat
    BY <1>1, RowNumbers DEF Watermarks
  <2>3. /\ wm.cursor >= cursor
        /\ wm.status = "complete" => status = "complete"
    BY DEF SnapshotTrue
  <2>4. \A r \in Rows : r > 0 /\ r \in Nat
    BY RowNumbers
  <2> HIDE DEF page, rows, last, next
  <2>5. CASE wm.status = "complete"
    <3>1. next = [source |-> "end", pos |-> 0, seen |-> {}] /\ cursor = 0
      BY <1>1, <2>1, <2>3, <2>5 DEF AfterCache, NoCursor
    <3>2. next \in Cursors
      BY <1>1, <3>1, AllBelowBoundary DEF Cursors
    <3>3. \A r \in Rows : ~(r <= cursor)
      BY <2>4, <3>1
    <3>. QED
      BY <3>1, <3>2, <3>3 DEF ToCome
  <2>6. CASE wm.status # "complete"
    <3>1. next = ProviderTail(wm.cursor)
      BY <2>1, <2>6 DEF AfterCache
    <3>2. /\ next \in Cursors /\ next.source \in {"provider", "end"} /\ next.seen = {}
          /\ next.source = "provider" => next.pos \in Rows
          /\ \A r \in Rows : ToCome(next, r) <=> r <= wm.cursor
      BY <1>1, <2>2, <3>1, TailKept
    <3>3. \A r \in Rows : r <= cursor => r <= wm.cursor
      BY <2>2, <2>3, <2>4
    <3>4. wm = Watermark => wm.cursor = cursor
      BY DEF Watermark
    <3>. QED
      BY <3>2, <3>3, <3>4
  <2>. QED
    BY <2>5, <2>6
<1>7. Cardinality({}) = 0 /\ 0 <= SeenCap
  BY FS_EmptySet, ServeAssumption
<1> HIDE DEF page, rows, last, next
<1>8. CASE page # rows
  BY <1>5, <1>8 DEF page, rows, next
<1>9. CASE page = rows
  BY <1>6, <1>7, <1>9 DEF page, rows, next
<1>. QED
  BY <1>8, <1>9

(* What the cache may do between two reads.                                 *)
CacheMoved ==
  /\ CacheInv'
  /\ head <= head' /\ cache \subseteq cache'
  /\ cache # {} => cursor' <= cursor /\ \A r \in cache' \ cache : r <= cursor
  /\ \A r \in Rows : r <= cursor => r \in cache' \/ r <= cursor'
  /\ status \in {"complete", "capped"} => UNCHANGED <<status, cursor, cache>>
  /\ UNCHANGED <<status, cursor>> => UNCHANGED cache

LEMMA CacheStays ==
  ASSUME CacheInv, UNCHANGED <<unusable, cursor, cache>>, head' \in Heads, head <= head',
         status' \in Statuses,
         cache = {} => status' \notin {"complete", "partial"},
         cache # {} => (status' = "complete" <=> status = "complete"),
         status \in {"complete", "capped"} => status' = status
  PROVE  CacheMoved
<1>1. CacheInv'
  <2>1. cache' = cache /\ cursor' = cursor /\ unusable' = unusable
    OBVIOUS
  <2>2. ASSUME cache # {}
        PROVE  \E m \in Heads : /\ m <= head' /\ cursor < m /\ cache = cursor + 1 .. m
                                /\ cursor = 0 \/ cursor + PageSize <= m
    <3>1. PICK m \in Heads : /\ m <= head /\ cursor < m /\ cache = cursor + 1 .. m
                             /\ cursor = 0 \/ cursor + PageSize <= m
      BY <2>2 DEF CacheInv
    <3>2. m \in Nat /\ head \in Nat /\ head' \in Nat
      BY RowNumbers DEF CacheInv
    <3>3. m <= head'
      BY <3>1, <3>2
    <3>. QED
      BY <3>1, <3>3
  <2>3. /\ head \in Heads /\ unusable \in Unusables /\ cursor \in {0} \cup Rows /\ cache \subseteq Rows
        /\ cache = {} => cursor = 0
        /\ cache # {} => (cursor = 0 <=> status = "complete")
    BY DEF CacheInv
  <2>. QED
    BY <2>1, <2>2, <2>3 DEF CacheInv
<1>2. cursor \in Int
  BY RowNumbers DEF CacheInv
<1>. QED
  BY <1>1, <1>2 DEF CacheMoved

LEMMA PageCached ==
  ASSUME CacheInv, CachePage
  PROVE  CacheMoved
<1>1. PICK h \in Heads :
        /\ h <= head /\ cache' = cache \cup PageFrom(cursor, h)
        /\ cursor' = NextCursor(PageFrom(cursor, h))
        /\ status' \in IF cursor' = 0 THEN {"complete"} ELSE {"partial", "capped"}
  BY DEF CachePage
<1>2. /\ status = "running" /\ head' = head /\ unusable' = unusable
      /\ head \in Heads /\ unusable \in Unusables /\ cursor \in {0} \cup Rows /\ cache \subseteq Rows
  BY DEF CachePage, CacheInv, historyVars
<1> DEFINE first == IF cursor = 0 THEN h ELSE cursor
           page == PageFrom(cursor, h)
<1>3. PICK low \in Rows : /\ page \subseteq Rows /\ low <= first /\ page = low .. first
                          /\ NextCursor(page) = low - 1
                          /\ low = 1 \/ low + PageSize = first + 1
  BY <1>2, PageCut
<1>4. /\ first \in Nat /\ low \in Nat \ {0} /\ PageSize \in Nat \ {0} /\ cursor \in Nat
      /\ h \in Nat /\ head \in Nat /\ low - 1 \in {0} \cup Rows
  BY <1>1, <1>2, RowNumbers
<1>5. cache' = cache \cup page /\ cursor' = low - 1 /\ cache' # {} /\ cache' \subseteq Rows
  <2>1. cache' = cache \cup page /\ cursor' = NextCursor(page)
    BY <1>1
  <2> HIDE DEF first, page
  <2>2. low \in page
    BY <1>3, <1>4
  <2>. QED
    BY <1>2, <1>3, <2>1, <2>2
<1>6. /\ status' \in {"complete", "partial", "capped"} /\ status' # status
      /\ cursor' = 0 <=> status' = "complete"
  BY <1>1, <1>2
<1>7. \E m \in Heads : /\ m <= head /\ cursor' < m /\ cache' = cursor' + 1 .. m
                       /\ cursor' = 0 \/ cursor' + PageSize <= m
  <2>1. CASE cache = {}
    <3>1. cursor = 0 /\ first = h
      BY <2>1 DEF CacheInv
    <3> HIDE DEF first, page
    <3>2. cache' = cursor' + 1 .. h /\ cursor' < h /\ (cursor' = 0 \/ cursor' + PageSize <= h)
      BY <1>3, <1>4, <1>5, <2>1, <3>1
    <3>. QED
      BY <1>1, <3>2
  <2>2. CASE cache # {}
    <3>1. cursor # 0
      BY <1>2, <2>2 DEF CacheInv
    <3>2. PICK m \in Heads : /\ m <= head /\ cursor < m /\ cache = cursor + 1 .. m
                             /\ cursor = 0 \/ cursor + PageSize <= m
      BY <2>2 DEF CacheInv
    <3>3. m \in Nat /\ first = cursor
      BY <3>1, RowNumbers
    <3> HIDE DEF first, page
    <3>4. cache' = cursor' + 1 .. m
      <4>1. \A r : r \in cache' <=> r \in low .. cursor \/ r \in cursor + 1 .. m
        BY <1>3, <1>5, <3>2, <3>3
      <4>. QED
        BY <1>3, <1>4, <1>5, <3>2, <3>3, <4>1
    <3>5. cursor' < m /\ (cursor' = 0 \/ cursor' + PageSize <= m)
      BY <1>3, <1>4, <1>5, <3>1, <3>2, <3>3
    <3>. QED
      BY <3>2, <3>4, <3>5
  <2>. QED
    BY <2>1, <2>2
<1>8. CacheInv'
  BY <1>2, <1>4, <1>5, <1>6, <1>7 DEF CacheInv, Statuses
<1>9. cache # {} => cursor' <= cursor /\ \A r \in cache' \ cache : r <= cursor
  <2>1. SUFFICES ASSUME cache # {}
                 PROVE  cursor' <= cursor /\ \A r \in cache' \ cache : r <= cursor
    OBVIOUS
  <2>2. first = cursor
    BY <1>2, <2>1 DEF CacheInv
  <2> HIDE DEF first, page
  <2>. QED
    BY <1>3, <1>4, <1>5, <2>2
<1>10. \A r \in Rows : r <= cursor => r \in cache' \/ r <= cursor'
  <2>1. SUFFICES ASSUME NEW r \in Rows, r <= cursor, ~(r <= cursor')
                 PROVE  r \in page
    BY <1>5
  <2>2. r \in Nat \ {0}
    BY RowNumbers
  <2>3. first = cursor
    BY <1>4, <2>1, <2>2
  <2> HIDE DEF first, page
  <2>. QED
    BY <1>3, <1>4, <1>5, <2>1, <2>2, <2>3
<1>. QED
  BY <1>2, <1>4, <1>5, <1>6, <1>8, <1>9, <1>10 DEF CacheMoved

LEMMA CacheStep ==
  ASSUME CacheInv, CacheNext
  PROVE  CacheMoved
<1>1. head \in Heads /\ head \in Nat /\ status \in Statuses
  BY RowNumbers DEF CacheInv
<1>2. CASE Grow
  <2>1. /\ head' \in Heads /\ head < head' /\ UNCHANGED <<unusable, status, cursor, cache>>
    BY <1>2 DEF Grow
  <2>2. head' \in Nat
    BY <2>1, RowNumbers
  <2>3. cache = {} => status \notin {"complete", "partial"}
    BY DEF CacheInv
  <2>. QED
    BY <1>1, <2>1, <2>2, <2>3, CacheStays
<1>3. CASE Enqueue
  BY <1>1, <1>3, CacheStays DEF Enqueue, historyVars, Statuses
<1>4. CASE Take
  BY <1>1, <1>4, CacheStays DEF Take, historyVars, Statuses
<1>5. CASE CachePage
  BY <1>5, PageCached
<1>6. CASE Leave
  <2>1. /\ status = "running" /\ UNCHANGED <<head, unusable, cursor, cache>>
        /\ status' \in {"error", "capped", "pending", "partial"}
        /\ cache = {} => status' # "partial"
    BY <1>6 DEF Leave, historyVars
  <2>2. status' \in Statuses /\ head' = head
    BY <2>1 DEF Statuses
  <2>. QED
    BY <1>1, <2>1, <2>2, CacheStays
<1>. QED
  BY <1>2, <1>3, <1>4, <1>5, <1>6 DEF CacheNext

(* A cursor that is handed to the reader is sound if it is of a kind that   *)
(* loses nothing and repeats nothing.                                       *)
LEMMA HandedOver ==
  ASSUME NEW next \in Cursors, session'.cursor = next,
         next.source \in {"local", "provider", "end"},
         UNCHANGED cacheVars,
         next.source = "provider" => next.pos \in Rows,
         next.source = "local" => cache # {} /\ (calm' => Usable(Watermark)),
         \A r \in next.seen : served'[r] >= 1 /\ next.pos <= TopKey(BlockOf[r]),
         ~overtaken' => \A r \in owed' : served'[r] >= 1 \/ ToCome(next, r),
         calm' => \A r \in Rows : ToCome(next, r) => served'[r] = 0
  PROVE  CursorSound(session.cursor)'
<1>1. cache' = cache /\ cursor' = cursor /\ status' = status
  BY DEF cacheVars
<1>2. ASSUME NEW r
      PROVE  ToCome(session.cursor, r)' <=> ToCome(next, r)
  BY <1>1 DEF ToCome, LocalRows
<1>3. Usable(Watermark)' <=> Usable(Watermark)
  BY <1>1 DEF Usable, Watermark
<1>. QED
  BY <1>1, <1>2, <1>3 DEF CursorSound

(* What is shown.                                                           *)
LEMMA Shown ==
  ASSUME served \in [Rows -> 0 .. 2], NEW rows, Shows(rows)
  PROVE  /\ served' \in [Rows -> 0 .. 2]
         /\ \A r \in Rows : /\ r \in rows => served'[r] >= 1
                            /\ served'[r] >= served[r]
                            /\ r \notin rows => served'[r] = served[r]
                            /\ r \in rows /\ served[r] = 0 => served'[r] = 1
<1>1. \A r \in Rows : /\ served'[r] = IF r \in rows /\ served[r] < 2 THEN served[r] + 1 ELSE served[r]
                      /\ served[r] \in 0 .. 2
  BY DEF Shows
<1>2. served' \in [Rows -> 0 .. 2]
  <2>1. served' = [r \in Rows |-> IF r \in rows /\ served[r] < 2 THEN served[r] + 1 ELSE served[r]]
    BY DEF Shows
  <2>2. \A r \in Rows : (IF r \in rows /\ served[r] < 2 THEN served[r] + 1 ELSE served[r]) \in 0 .. 2
    BY <1>1
  <2>. QED
    BY <2>1, <2>2
<1>. QED
  BY <1>1, <1>2

(* The reader asks for the page after.                                      *)
LEMMA Asked ==
  ASSUME ViewTypes, NEW next \in Cursors, Asks(next)
  PROVE  /\ session' = [at |-> "ask", cursor |-> next, wm |-> session.wm, page |-> {}]
         /\ session.wm \in Watermarks /\ session.cursor \in Cursors
         /\ session.page \subseteq Rows
<1>1. session \in [at : {"closed", "ask", "answer", "seam", "done", "limited"},
                   cursor : Cursors, wm : Watermarks, page : SUBSET Rows]
  BY DEF ViewTypes
<1>2. session' = [session EXCEPT !.at = "ask", !.cursor = next, !.page = {}]
  BY DEF Asks
<1>. QED
  BY <1>1, <1>2

(* An answer that ends in a sound cursor.                                   *)
LEMMA AnswerSound ==
  ASSUME CacheInv, ViewTypes, NEW next \in Cursors, Asks(next),
         Cardinality(next.seen) <= SeenCap,
         UNCHANGED <<cacheVars, calm, overtaken>>,
         served' \in [Rows -> 0 .. 2], owed' \subseteq Rows, \A r \in owed' : r <= head,
         calm => \A r \in Rows : served'[r] <= 1,
         CursorSound(session.cursor)'
  PROVE  ViewInv'
<1>1. /\ session' = [at |-> "ask", cursor |-> next, wm |-> session.wm, page |-> {}]
      /\ session.wm \in Watermarks
  BY Asked
<1>2. /\ session'.at = "ask" /\ session'.cursor = next
      /\ session' \in [at : {"closed", "ask", "answer", "seam", "done", "limited"},
                       cursor : Cursors, wm : Watermarks, page : SUBSET Rows]
  BY <1>1
<1>3. ViewTypes'
  BY <1>2 DEF ViewTypes
<1>4. head' = head /\ calm' = calm
  BY DEF cacheVars, historyVars
<1>. QED
  BY <1>2, <1>3, <1>4 DEF ViewInv

LEMMA OpenSound ==
  ASSUME CacheInv, ViewInv, Open
  PROVE  ViewInv'
<1> DEFINE now == [at |-> "ask", cursor |-> HeadCursor, wm |-> NoWatermark, page |-> {}]
<1>1. /\ session' = now /\ served' = [r \in Rows |-> 0] /\ owed' = {}
      /\ calm' = TRUE /\ overtaken' = FALSE /\ UNCHANGED cacheVars
  BY DEF Open, Closed
<1>2. /\ HeadCursor \in Cursors /\ HeadCursor.source = "head" /\ HeadCursor.seen = {}
      /\ Cardinality({}) = 0 /\ 0 <= SeenCap
  <2>1. 0 \in 0 .. TopBoundary
    BY AllBelowBoundary DEF CacheInv
  <2>. QED
    BY <2>1, FS_EmptySet, ServeAssumption DEF HeadCursor, Cursors
<1>3. NoWatermark \in Watermarks
  BY DEF NoWatermark, Watermarks, Statuses
<1>4. /\ now \in [at : {"closed", "ask", "answer", "seam", "done", "limited"},
                  cursor : Cursors, wm : Watermarks, page : SUBSET Rows]
      /\ now.at = "ask" /\ now.cursor = HeadCursor
  BY <1>2, <1>3
<1> HIDE DEF now
<1>5. ViewTypes'
  <2>1. served' \in [Rows -> 0 .. 2]
    BY <1>1
  <2>2. session'.cursor = HeadCursor /\ Cardinality(session'.cursor.seen) <= SeenCap
    BY <1>1, <1>2, <1>4
  <2>. QED
    BY <1>1, <1>4, <2>1, <2>2 DEF ViewTypes
<1>6. CursorSound(session.cursor)'
  BY <1>1, <1>2, <1>4 DEF CursorSound, ToCome
<1>. QED
  BY <1>1, <1>4, <1>5, <1>6 DEF ViewInv

(* A watermark just read is true.                                           *)
LEMMA ReadSound ==
  ASSUME CacheInv, ViewInv, ReadWatermark
  PROVE  ViewInv'
<1>1. PICK wm \in {Watermark, NoWatermark} :
        /\ session' = [session EXCEPT !.at = "answer", !.wm = wm]
        /\ \/ wm = Watermark /\ calm' = calm
           \/ wm = NoWatermark /\ calm' = FALSE
  BY DEF ReadWatermark
<1>2. /\ session.at = "ask" /\ CursorSound(session.cursor) /\ ViewTypes
      /\ session.cursor.source # "end"
      /\ UNCHANGED <<served, owed, overtaken>>
      /\ head' = head /\ cache' = cache /\ status' = status /\ cursor' = cursor
  BY DEF ReadWatermark, ViewInv, cacheVars, historyVars
<1>3. wm \in Watermarks
  BY <1>1 DEF Watermark, NoWatermark, Watermarks, Statuses, CacheInv
<1>4. /\ session'.at = "answer" /\ session'.cursor = session.cursor /\ session'.wm = wm
      /\ session' \in [at : {"closed", "ask", "answer", "seam", "done", "limited"},
                       cursor : Cursors, wm : Watermarks, page : SUBSET Rows]
  BY <1>1, <1>2, <1>3 DEF ViewTypes
<1>5. ViewTypes'
  BY <1>1, <1>2, <1>4 DEF ViewTypes
<1>6. \A r : ToCome(session.cursor, r)' <=> ToCome(session.cursor, r)
  BY <1>2, <1>4 DEF ToCome, LocalRows
<1>7. Usable(Watermark)' <=> Usable(Watermark)
  BY <1>2 DEF Usable, Watermark
<1>8. calm' => calm
  BY <1>1
<1>9. CursorSound(session.cursor)'
  BY <1>2, <1>4, <1>6, <1>7, <1>8 DEF CursorSound
<1>10. SnapshotTrue(wm)
  <2>1. CASE wm = NoWatermark
    BY <2>1 DEF NoWatermark, SnapshotTrue, Usable
  <2>2. CASE wm = Watermark
    <3>1. wm.status = status /\ wm.cursor = cursor /\ cursor \in Nat
      BY <2>2, RowNumbers DEF Watermark, CacheInv
    <3>2. status \in {"complete", "capped", "partial"} /\ cursor = 0 /\ status # "complete" =>
            status = "capped" /\ cache = {}
      BY DEF CacheInv
    <3>3. cursor # 0 => cache # {}
      BY DEF CacheInv
    <3>. QED
      BY <3>1, <3>2, <3>3 DEF SnapshotTrue, Usable
  <2>. QED
    BY <2>1, <2>2
<1>11. SnapshotTrue(session.wm)' /\ (calm' => session'.wm = Watermark')
  BY <1>1, <1>2, <1>4, <1>10 DEF SnapshotTrue, Usable, Watermark
<1>12. (\A r \in owed' : r <= head') /\ (calm' => \A r \in Rows : served'[r] <= 1)
  BY <1>2, <1>8 DEF ViewInv
<1>. QED
  BY <1>2, <1>4, <1>5, <1>9, <1>11, <1>12 DEF ViewInv

LEMMA CloseSound ==
  ASSUME CacheInv, ViewInv, Close
  PROVE  ViewInv'
<1>1. /\ session' = [session EXCEPT !.at = "done", !.wm = NoWatermark]
      /\ session.at = "ask" /\ session.cursor.source = "end"
      /\ UNCHANGED <<cacheVars, served, owed, calm, overtaken>>
  BY DEF Close
<1>2. ViewTypes /\ CursorSound(session.cursor)
  BY <1>1 DEF ViewInv
<1>3. NoWatermark \in Watermarks
  BY DEF NoWatermark, Watermarks, Statuses
<1>4. /\ session'.at = "done" /\ session'.cursor = session.cursor
      /\ session' \in [at : {"closed", "ask", "answer", "seam", "done", "limited"},
                       cursor : Cursors, wm : Watermarks, page : SUBSET Rows]
  BY <1>1, <1>2, <1>3 DEF ViewTypes
<1>5. ViewTypes'
  BY <1>1, <1>2, <1>4 DEF ViewTypes
<1>6. ~overtaken => \A r \in owed : served[r] >= 1
  BY <1>1, <1>2 DEF CursorSound, ToCome
<1>. QED
  BY <1>1, <1>4, <1>5, <1>6 DEF ViewInv, cacheVars, historyVars

LEMMA LocalSound ==
  ASSUME CacheInv, ViewInv, ServeLocal
  PROVE  ViewInv'
<1> DEFINE cur == session.cursor
           wm == session.wm
           page == LocalPage(cur)
           next == NextLocal(cur, wm)
           left == LocalRows(cur) \ page
<1>1. /\ session.at = "answer" /\ cur.source = "local" /\ Usable(wm)
      /\ Shows(page) /\ Asks(next)
      /\ UNCHANGED <<cacheVars, owed, calm, overtaken>>
  BY DEF ServeLocal
<1>2. /\ ViewTypes /\ CursorSound(cur) /\ SnapshotTrue(wm)
      /\ calm => wm = Watermark
  BY <1>1 DEF ViewInv
<1>3. /\ cur \in Cursors /\ wm \in Watermarks /\ Cardinality(cur.seen) <= SeenCap
      /\ served \in [Rows -> 0 .. 2] /\ cache # {} /\ head \in Heads /\ cache \subseteq Rows
      /\ \A r \in cur.seen : r \in Rows /\ served[r] >= 1 /\ cur.pos <= TopKey(BlockOf[r])
  BY <1>1, <1>2 DEF ViewTypes, CursorSound, CacheInv, Cursors
<1>4. /\ next \in Cursors /\ Cardinality(next.seen) <= SeenCap
      /\ next.source \in {"local", "provider", "end"}
      /\ next.source = "provider" => next.pos \in Rows
      /\ \A r \in next.seen : r \in cur.seen /\ next.pos <= TopKey(BlockOf[r])
      /\ \A r \in Rows : r \in left \/ r <= cursor => ToCome(next, r)
      /\ wm = Watermark => \A r \in Rows : ToCome(next, r) => r \in left \/ r <= cursor
  <2> HIDE DEF cur, wm
  <2>. QED
    BY <1>1, <1>2, <1>3, NextKept
<1>5. session'.cursor = next
  <2> HIDE DEF next
  <2>. QED
    BY <1>1, <1>2, <1>4, Asked
<1>6. page \subseteq LocalRows(cur) /\ LocalRows(cur) \subseteq cache
  BY <1>3, LocalPageCut
<1>7. \A r \in Rows : ToCome(cur, r) <=> r \in LocalRows(cur) \/ r <= cursor
  BY <1>1 DEF ToCome
<1>8. ASSUME NEW r \in Rows, r <= cursor PROVE r \notin page
  <2>1. r \notin cache
    <3>1. PICK m \in Heads : cache = cursor + 1 .. m
      BY <1>3 DEF CacheInv
    <3>2. r \in Nat /\ cursor \in Nat
      BY RowNumbers DEF CacheInv
    <3>. QED
      BY <1>8, <3>1, <3>2
  <2>. QED
    BY <1>6, <2>1
<1> HIDE DEF page, next
<1>9. /\ served' \in [Rows -> 0 .. 2]
      /\ \A r \in Rows : /\ r \in page => served'[r] >= 1
                         /\ served'[r] >= served[r]
                         /\ r \notin page => served'[r] = served[r]
                         /\ r \in page /\ served[r] = 0 => served'[r] = 1
      /\ \A r \in Rows : served[r] \in 0 .. 2 /\ served'[r] \in 0 .. 2
  BY <1>1, <1>3, Shown
<1>10. /\ owed' = owed /\ calm' = calm /\ overtaken' = overtaken /\ owed \subseteq Rows
       /\ \A r \in owed : r <= head
  BY <1>1, <1>2 DEF ViewInv, ViewTypes
<1>11. calm => \A r \in Rows : ToCome(next, r) => served'[r] = 0
  <2>. SUFFICES ASSUME calm, NEW r \in Rows, ToCome(next, r)
                PROVE  served'[r] = 0
    OBVIOUS
  <2>1. r \in left \/ r <= cursor
    BY <1>2, <1>4
  <2>2. ToCome(cur, r) /\ r \notin page
    BY <1>7, <1>8, <2>1
  <2>3. served[r] = 0
    BY <1>2, <2>2 DEF CursorSound
  <2>. QED
    BY <1>9, <2>2, <2>3
<1>12. ~overtaken => \A r \in owed : served'[r] >= 1 \/ ToCome(next, r)
  <2>. SUFFICES ASSUME ~overtaken, NEW r \in owed, ~(served'[r] >= 1)
                PROVE  ToCome(next, r)
    OBVIOUS
  <2>1. r \in Rows /\ r \notin page /\ ~(served[r] >= 1)
    BY <1>9, <1>10
  <2>2. ToCome(cur, r)
    BY <1>2, <2>1 DEF CursorSound
  <2>. QED
    BY <1>4, <1>7, <2>1, <2>2
<1>13. calm => \A r \in Rows : served'[r] <= 1
  <2>. SUFFICES ASSUME calm, NEW r \in Rows PROVE served'[r] <= 1
    OBVIOUS
  <2>1. CASE r \in page
    <3>1. ToCome(cur, r)
      BY <1>6, <1>7, <2>1
    <3>. QED
      BY <1>2, <1>9, <2>1, <3>1 DEF CursorSound
  <2>2. CASE r \notin page
    BY <1>9, <2>2 DEF ViewInv
  <2>. QED
    BY <2>1, <2>2
<1>14. \A r \in next.seen : served'[r] >= 1 /\ next.pos <= TopKey(BlockOf[r])
  BY <1>3, <1>4, <1>9
<1>15. calm => Usable(Watermark)
  BY <1>1, <1>2
<1> HIDE DEF cur, wm, left
<1>16. CursorSound(session.cursor)'
  BY <1>1, <1>3, <1>4, <1>5, <1>10, <1>11, <1>12, <1>14, <1>15, HandedOver
<1>. QED
  BY <1>1, <1>2, <1>4, <1>9, <1>10, <1>13, <1>16, AnswerSound

(* After the provider's page for the rows up to `first`.                    *)
LEMMA PageServed ==
  ASSUME CacheInv, ViewInv, NEW c \in {0} \cup Rows, NEW h \in Heads, NEW first, NEW low \in Rows,
         first = IF c = 0 THEN h ELSE c,
         PageFrom(c, h) = low .. first, NextCursor(PageFrom(c, h)) = low - 1,
         Asks(ProviderTail(NextCursor(PageFrom(c, h)))),
         UNCHANGED <<cacheVars, calm, overtaken>>,
         served' \in [Rows -> 0 .. 2], owed' \subseteq Rows, \A r \in owed' : r <= head,
         \A r \in Rows : r \in low .. first => served'[r] >= 1,
         calm => \A r \in Rows : served'[r] <= 1 /\ (r < low => served'[r] = 0),
         ~overtaken => \A r \in owed' : served'[r] >= 1 \/ r <= first
  PROVE  ViewInv'
<1> DEFINE n == NextCursor(PageFrom(c, h))
           next == ProviderTail(n)
<1>1. /\ low \in Nat \ {0} /\ first \in Nat /\ n = low - 1 /\ n \in {0} \cup Rows
      /\ \A r \in Rows : r \in Nat
  BY RowNumbers
<1>2. /\ head \in Heads /\ ViewTypes
  BY DEF CacheInv, ViewInv
<1> HIDE DEF n
<1>3. /\ next \in Cursors /\ next.source \in {"provider", "end"} /\ next.seen = {}
      /\ next.source = "provider" => next.pos \in Rows
      /\ \A r \in Rows : ToCome(next, r) <=> r <= n
  BY <1>1, <1>2, TailKept
<1>4. Asks(next)
  BY DEF n
<1> HIDE DEF next
<1>5. session'.cursor = next
  BY <1>2, <1>3, <1>4, Asked
<1>6. ~overtaken => \A r \in owed' : served'[r] >= 1 \/ ToCome(next, r)
  <2>. SUFFICES ASSUME ~overtaken, NEW r \in owed', ~(served'[r] >= 1)
                PROVE  r <= n
    BY <1>3
  <2>1. r \in Rows /\ r <= first /\ r \notin low .. first /\ r \in Nat
    BY <1>1
  <2>. QED
    BY <1>1, <2>1
<1>7. calm => \A r \in Rows : ToCome(next, r) => served'[r] = 0
  <2>. SUFFICES ASSUME calm, NEW r \in Rows, ToCome(next, r)
                PROVE  r < low
    OBVIOUS
  <2>. QED
    BY <1>1, <1>3
<1>8. CursorSound(session.cursor)'
  BY <1>3, <1>5, <1>6, <1>7, HandedOver
<1>9. Cardinality(next.seen) <= SeenCap
  BY <1>3, FS_EmptySet, ServeAssumption
<1>. QED
  BY <1>2, <1>3, <1>4, <1>8, <1>9, AnswerSound

LEMMA ProviderSound ==
  ASSUME CacheInv, ViewInv, ServeProvider
  PROVE  ViewInv'
<1> DEFINE cur == session.cursor
           wm == session.wm
           c == IF cur.source = "provider" THEN cur.pos ELSE 0
           first == IF c = 0 THEN head ELSE c
<1>1. /\ session.at = "answer" /\ Shows(LivePage)
      /\ cur.source = "local" => ~Usable(wm)
      /\ owed' = IF cur.source = "head" THEN {r \in Rows : r <= head} ELSE owed
      /\ UNCHANGED <<cacheVars, calm, overtaken>>
  BY DEF ServeProvider, FromProvider
<1>2. /\ ViewTypes /\ CursorSound(cur) /\ SnapshotTrue(wm) /\ cur.source # "end"
      /\ calm => wm = Watermark
  BY <1>1 DEF ViewInv
<1>3. /\ cur.source \in {"head", "local", "provider"} /\ c \in {0} \cup Rows
      /\ served \in [Rows -> 0 .. 2] /\ head \in Heads /\ head \in Nat /\ owed \subseteq Rows
  BY <1>2, RowNumbers DEF ViewTypes, CursorSound, CacheInv, Cursors
<1>4. LivePage = PageFrom(c, head)
  BY DEF LivePage
<1>5. PICK low \in Rows : /\ low <= first /\ PageFrom(c, head) = low .. first
                          /\ NextCursor(PageFrom(c, head)) = low - 1
  BY <1>3, PageCut
<1>6. low \in Nat \ {0} /\ first \in Nat /\ \A r \in Rows : r \in Nat \ {0}
  BY <1>3, RowNumbers
<1>7. /\ served' \in [Rows -> 0 .. 2]
      /\ \A r \in Rows : /\ r \in low .. first => served'[r] >= 1
                         /\ served'[r] >= served[r]
                         /\ r \notin low .. first => served'[r] = served[r]
                         /\ r \in low .. first /\ served[r] = 0 => served'[r] = 1
      /\ \A r \in Rows : served[r] \in 0 .. 2 /\ served'[r] \in 0 .. 2
  BY <1>1, <1>3, <1>4, <1>5, Shown
<1>8. calm => \A r \in Rows : r <= first => served[r] = 0
  <2>1. CASE cur.source = "head"
    BY <1>2, <2>1 DEF CursorSound
  <2>2. CASE cur.source = "local"
    BY <1>1, <1>2, <2>2 DEF CursorSound
  <2>3. CASE cur.source = "provider"
    <3>1. first = cur.pos
      BY <1>2, <1>6, <2>3 DEF CursorSound
    <3> HIDE DEF first
    <3>. QED
      BY <1>2, <2>3, <3>1 DEF CursorSound, ToCome
  <2>. QED
    BY <1>3, <2>1, <2>2, <2>3
<1>9. owed' \subseteq Rows /\ \A r \in owed' : r <= head
  BY <1>1, <1>3 DEF ViewInv
<1>10. ~overtaken => \A r \in owed' : served[r] >= 1 \/ r <= first
  <2>1. CASE cur.source \in {"head", "local"}
    <3>1. first = head
      BY <2>1
    <3>. QED
      BY <1>9, <3>1
  <2>2. CASE cur.source = "provider"
    <3>1. first = cur.pos /\ owed' = owed
      BY <1>1, <1>2, <1>6, <2>2 DEF CursorSound
    <3>2. ~overtaken => \A r \in owed : served[r] >= 1 \/ ToCome(cur, r)
      BY <1>2 DEF CursorSound
    <3>3. \A r : ToCome(cur, r) => r <= cur.pos
      BY <2>2 DEF ToCome
    <3> HIDE DEF first
    <3>. QED
      BY <3>1, <3>2, <3>3
  <2>. QED
    BY <1>3, <2>1, <2>2
<1>11. calm => \A r \in Rows : served'[r] <= 1 /\ (r < low => served'[r] = 0)
  <2>. SUFFICES ASSUME calm, NEW r \in Rows
                PROVE  served'[r] <= 1 /\ (r < low => served'[r] = 0)
    OBVIOUS
  <2>1. served[r] <= 1 /\ r \in Nat /\ served[r] \in Nat
    BY <1>3, <1>6 DEF ViewInv
  <2>2. r <= first => served[r] = 0
    BY <1>8
  <2> HIDE DEF first
  <2>3. CASE r \in low .. first
    BY <1>5, <1>6, <1>7, <2>2, <2>3
  <2>4. CASE r \notin low .. first
    BY <1>5, <1>6, <1>7, <2>1, <2>2, <2>4
  <2>. QED
    BY <2>3, <2>4
<1>12. ~overtaken => \A r \in owed' : served'[r] >= 1 \/ r <= first
  <2>. SUFFICES ASSUME ~overtaken, NEW r \in owed'
                PROVE  served'[r] >= 1 \/ r <= first
    OBVIOUS
  <2>1. served[r] >= 1 \/ r <= first
    BY <1>10
  <2>2. r \in Rows /\ served'[r] >= served[r] /\ served[r] \in 0 .. 2 /\ served'[r] \in 0 .. 2
    BY <1>7, <1>9
  <2> HIDE DEF first
  <2>. QED
    BY <2>1, <2>2
<1>13. CASE Asks(ProviderTail(NextCursor(LivePage)))
  <2>1. Asks(ProviderTail(NextCursor(PageFrom(c, head))))
    BY <1>4, <1>13
  <2>2. first = IF c = 0 THEN head ELSE c
    OBVIOUS
  <2>3. \A r \in Rows : r \in low .. first => served'[r] >= 1
    BY <1>7
  <2> HIDE DEF first, c
  <2>. QED
    BY <1>1, <1>3, <1>5, <1>7, <1>9, <1>11, <1>12, <2>1, <2>2, <2>3, PageServed
<1>14. CASE /\ cur.source = "head" /\ Usable(wm)
            /\ session' = [session EXCEPT !.at = "seam", !.page = LivePage]
  <2>1. c = 0 /\ first = head
    BY <1>14
  <2>2. PageFrom(c, head) \subseteq Rows
    BY <1>3, PageCut
  <2>3. /\ session'.at = "seam" /\ session'.cursor = cur /\ session'.wm = wm
        /\ session'.page = PageFrom(0, head)
        /\ session' \in [at : {"closed", "ask", "answer", "seam", "done", "limited"},
                         cursor : Cursors, wm : Watermarks, page : SUBSET Rows]
    BY <1>2, <1>4, <1>14, <2>1, <2>2 DEF ViewTypes
  <2>4. ViewTypes'
    BY <1>1, <1>2, <1>7, <1>9, <2>3 DEF ViewTypes
  <2>5. head' = head /\ cache' = cache /\ status' = status /\ cursor' = cursor
    BY <1>1 DEF cacheVars, historyVars
  <2>6. \A r \in Rows : served[r] = 0
    BY <1>2, <1>14 DEF CursorSound
  <2>7. \A r \in cache : r <= head
    <3>1. SUFFICES ASSUME cache # {} PROVE \A r \in cache : r <= head
      OBVIOUS
    <3>2. PICK m \in Heads : m <= head /\ cache = cursor + 1 .. m
      BY <3>1 DEF CacheInv
    <3>3. m \in Nat
      BY RowNumbers
    <3>. QED
      BY <1>3, <3>2, <3>3, RowNumbers DEF CacheInv
  <2>8. \A r \in Rows : served'[r] = IF r \in PageFrom(0, head) THEN 1 ELSE 0
    BY <1>5, <1>7, <2>1, <2>6
  <2>9. owed' = {r \in Rows : r <= head}
    BY <1>1, <1>14
  <2>10. \E h \in Heads : /\ h <= head /\ session'.page = PageFrom(0, h)
                          /\ owed' = {r \in Rows : r <= h}
                          /\ \A r \in cache : r <= h
    BY <1>3, <2>3, <2>7, <2>9
  <2>11. SeamSound'
    BY <1>14, <2>3, <2>5, <2>8, <2>10 DEF SeamSound, Usable
  <2>12. SnapshotTrue(session.wm)' /\ (calm' => session'.wm = Watermark')
    BY <1>1, <1>2, <2>3, <2>5 DEF SnapshotTrue, Usable, Watermark
  <2>13. \A r \in Rows : served'[r] <= 1
    BY <2>8
  <2>. QED
    BY <1>9, <2>3, <2>4, <2>5, <2>11, <2>12, <2>13 DEF ViewInv
<1>. QED
  BY <1>13, <1>14 DEF ServeProvider

(* The seam: below page 1 the cache continues, from the boundary block on,  *)
(* less what was seen of that block.                                        *)
LEMMA SeamStep ==
  ASSUME CacheInv, ViewInv, Seam
  PROVE  ViewInv'
<1> DEFINE page == session.page
           tail == ProviderTail(NextCursor(page))
           next == AtBoundary(page)
<1>1. /\ session.at = "seam"
      /\ \/ HandsOver(page) /\ Asks(next)
         \/ Asks(tail)
      /\ UNCHANGED <<cacheVars, served, owed, calm, overtaken>>
  BY DEF Seam
<1>2. /\ ViewTypes /\ SeamSound
      /\ calm => session.wm = Watermark
  BY <1>1 DEF ViewInv
<1>3. PICK h \in Heads : /\ h <= head /\ page = PageFrom(0, h)
                         /\ owed = {r \in Rows : r <= h}
                         /\ calm => \A r \in cache : r <= h
  BY <1>2 DEF SeamSound
<1>4. PICK low \in Rows : /\ low <= h /\ page = low .. h /\ page \subseteq Rows
                          /\ NextCursor(page) = low - 1 /\ Min(page) = low
                          /\ low + PageSize >= h + 1
  BY <1>3, PageCut
<1>5. /\ head \in Heads /\ h \in Rows /\ h \in Nat /\ low \in Nat \ {0} /\ head \in Nat
      /\ \A r \in Rows : r \in Nat \ {0}
      /\ cursor \in Nat /\ PageSize \in Nat \ {0} /\ cache \subseteq Rows
  BY RowNumbers DEF CacheInv
<1>6. /\ served \in [Rows -> 0 .. 2] /\ owed \subseteq Rows
      /\ \A r \in Rows : served[r] = IF r \in page THEN 1 ELSE 0
      /\ \A r \in owed : r <= head
  BY <1>2 DEF ViewTypes, SeamSound, ViewInv
<1> HIDE DEF page
<1>7. CASE Asks(tail)
  <2>1. \A r \in Rows : r \in low .. h => served'[r] >= 1
    BY <1>1, <1>4, <1>6
  <2>2. \A r \in Rows : served'[r] <= 1 /\ (r < low => served'[r] = 0)
    BY <1>1, <1>4, <1>5, <1>6
  <2>3. \A r \in owed : r <= h
    BY <1>3
  <2>. QED
    BY <1>1, <1>3, <1>4, <1>5, <1>6, <1>7, <2>1, <2>2, <2>3, PageServed
<1>8. CASE HandsOver(page) /\ Asks(next)
  <2> DEFINE block == BlockOf[low]
             seen == {r \in page : BlockOf[r] = block}
  <2>1. /\ next = [source |-> "local", pos |-> TopKey(block), seen |-> seen]
        /\ Cardinality(next.seen) <= SeenCap
        /\ \E r \in cache : BlockOf[r] >= block
    BY <1>4, <1>8 DEF HandsOver, AtBoundary, LocalCursor, CoversFrom
  <2>2. next \in Cursors
    <3>1. TopKey(block) \in Nat /\ TopKey(block) <= TopBoundary /\ TopBoundary \in Nat
      BY <1>5, RowKeys, AllBelowBoundary
    <3>2. seen \subseteq Rows
      BY <1>4
    <3> HIDE DEF next, block, seen
    <3>. QED
      BY <2>1, <3>1, <3>2 DEF Cursors
  <2>3. session'.cursor = next
    <3> HIDE DEF next
    <3>. QED
      BY <1>2, <1>8, <2>2, Asked
  <2> HIDE DEF next
  <2>4. \A r \in Rows : ToCome(next, r) <=> \/ r \in cache /\ Key(r) < TopKey(block) /\ r \notin seen
                                            \/ r <= cursor
    BY <2>1 DEF ToCome, LocalRows
  <2>5. PICK q \in cache : BlockOf[q] >= block
    BY <2>1
  <2>6. PICK m \in Heads : /\ m <= head /\ cursor < m /\ cache = cursor + 1 .. m
                           /\ cursor = 0 \/ cursor + PageSize <= m
    BY <2>5 DEF CacheInv
  <2>7. m \in Rows /\ m \in Nat /\ q \in Rows /\ q \in Nat /\ q <= m
    BY <1>5, <2>5, <2>6, RowNumbers
  <2>8. ASSUME NEW r \in Rows, NEW s \in Rows, r <= s
        PROVE  BlockOf[r] <= BlockOf[s]
    <3>1. r \in Nat /\ s \in Nat /\ BlockOf[r] \in Nat
      BY <1>5, RowKeys
    <3>2. r < s => BlockOf[r] <= BlockOf[s]
      BY HistoryAssumption
    <3>. QED
      BY <2>8, <3>1, <3>2
  <2>9. ASSUME NEW r \in owed, ~(served[r] >= 1)
        PROVE  ToCome(next, r)
    <3>1. r \in Rows /\ r <= h /\ r \notin page /\ r \in Nat
      BY <1>3, <1>5, <1>6, <2>9
    <3>2. r < low
      BY <1>4, <1>5, <3>1
    <3>3. BlockOf[r] <= block
      BY <1>5, <2>8, <3>1, <3>2
    <3>4. Key(r) < TopKey(block)
      BY <3>1, <3>3, KeyOrder
    <3>5. r <= m
      <4>1. SUFFICES ASSUME r > m PROVE FALSE
        BY <2>7, <3>1
      <4>2. BlockOf[r] > BlockOf[m]
        BY <2>6, <3>1, <4>1, HistoryAssumption
      <4>3. BlockOf[q] <= BlockOf[m]
        BY <2>7, <2>8
      <4>4. BlockOf[r] \in Nat /\ BlockOf[m] \in Nat /\ BlockOf[q] \in Nat /\ block \in Nat
        BY <2>7, <3>1, RowKeys
      <4>. QED
        BY <2>5, <3>3, <4>2, <4>3, <4>4
    <3>6. r \in cache \/ r <= cursor
      BY <1>5, <2>6, <2>7, <3>1, <3>5
    <3>. QED
      BY <2>4, <3>1, <3>4, <3>6
  <2>10. ASSUME calm, NEW r \in Rows, ToCome(next, r)
         PROVE  served[r] = 0
    <3>1. SUFFICES ASSUME r \in page PROVE FALSE
      BY <1>6
    <3>2. r \in Nat /\ r >= low
      BY <1>4, <1>5, <3>1
    <3>3. CASE r <= cursor
      <4>1. m <= h
        BY <1>3, <2>6, <2>7, <2>10, <1>5
      <4>2. cursor # 0
        BY <1>5, <3>3
      <4>. QED
        BY <1>4, <1>5, <2>6, <2>7, <3>2, <3>3, <4>1, <4>2
    <3>4. CASE r \in cache /\ Key(r) < TopKey(block) /\ r \notin seen
      <4>1. BlockOf[r] # block
        BY <3>1, <3>4
      <4>2. block <= BlockOf[r] /\ block \in Nat /\ BlockOf[r] \in Nat
        BY <1>5, <2>8, <3>2, RowKeys
      <4>3. BlockOf[r] > block
        BY <4>1, <4>2
      <4>4. Key(r) > TopKey(block) /\ Key(r) \in Nat /\ TopKey(block) \in Nat
        BY <4>3, KeyOrder, RowKeys
      <4>. QED
        BY <3>4, <4>4
    <3>. QED
      BY <2>4, <2>10, <3>3, <3>4
  <2>11. ASSUME NEW r \in next.seen
         PROVE  served[r] >= 1 /\ next.pos <= TopKey(BlockOf[r])
    <3>1. r \in page /\ BlockOf[r] = block /\ r \in Rows
      BY <1>4, <2>1, <2>11
    <3>2. served[r] = 1 /\ next.pos = TopKey(BlockOf[r])
      BY <1>6, <2>1, <3>1
    <3>3. TopKey(BlockOf[r]) \in Nat
      BY <3>1, RowKeys
    <3>. QED
      BY <3>2, <3>3
  <2>12. calm => Usable(Watermark)
    BY <1>2 DEF SeamSound
  <2>13. CursorSound(session.cursor)'
    BY <1>1, <2>1, <2>2, <2>3, <2>5, <2>9, <2>10, <2>11, <2>12, HandedOver
  <2>14. \A r \in Rows : served'[r] <= 1
    BY <1>1, <1>6
  <2>. QED
    BY <1>1, <1>2, <1>6, <1>8, <2>1, <2>2, <2>13, <2>14, AnswerSound
<1>. QED
  BY <1>1, <1>7, <1>8

LEMMA OutageSound ==
  ASSUME CacheInv, ViewInv, Outage
  PROVE  ViewInv'
<1> DEFINE cur == LocalCursor(TopBoundary, {})
           wm == session.wm
           page == LocalPage(cur)
           next == NextLocal(cur, wm)
           left == LocalRows(cur) \ page
<1>1. /\ session.at = "answer" /\ UNCHANGED <<cacheVars, calm, overtaken>>
      /\ \/ /\ session.cursor.source = "head" /\ Usable(wm) /\ page # {} /\ Shows(page)
            /\ owed' = {r \in Rows : r <= Max(cache)} /\ Asks(next)
         \/ session' = [session EXCEPT !.at = "limited"] /\ UNCHANGED <<served, owed>>
  BY DEF Outage, FromProvider
<1>2. /\ ViewTypes /\ CursorSound(session.cursor) /\ SnapshotTrue(wm)
      /\ calm => wm = Watermark
  BY <1>1 DEF ViewInv
<1>3. CASE session' = [session EXCEPT !.at = "limited"] /\ UNCHANGED <<served, owed>>
  <2>1. /\ session'.at = "limited" /\ session'.cursor = session.cursor
        /\ session' \in [at : {"closed", "ask", "answer", "seam", "done", "limited"},
                         cursor : Cursors, wm : Watermarks, page : SUBSET Rows]
    BY <1>2, <1>3 DEF ViewTypes
  <2>2. ViewTypes'
    BY <1>1, <1>2, <1>3, <2>1 DEF ViewTypes
  <2>. QED
    BY <1>1, <1>3, <2>1, <2>2 DEF ViewInv, cacheVars, historyVars
<1>4. CASE /\ session.cursor.source = "head" /\ Usable(wm) /\ page # {} /\ Shows(page)
           /\ owed' = {r \in Rows : r <= Max(cache)} /\ Asks(next)
  <2>1. /\ head \in Heads /\ cache \subseteq Rows /\ wm \in Watermarks
        /\ served \in [Rows -> 0 .. 2] /\ \A r \in Rows : served[r] = 0
    BY <1>2, <1>4 DEF CacheInv, ViewTypes, CursorSound
  <2>2. /\ cur \in Cursors /\ cur.source = "local" /\ cur.seen = {} /\ cur.pos = TopBoundary
        /\ Cardinality(cur.seen) <= SeenCap
    <3>1. TopBoundary \in 0 .. TopBoundary
      BY <2>1, AllBelowBoundary
    <3>. QED
      BY <3>1, FS_EmptySet, ServeAssumption DEF LocalCursor, Cursors
  <2>3. page \subseteq LocalRows(cur) /\ LocalRows(cur) \subseteq cache
    BY <2>1, LocalPageCut
  <2>4. LocalRows(cur) = cache
    <3>1. \A r \in cache : Key(r) < TopBoundary
      BY <2>1, AllBelowBoundary
    <3>. QED
      BY <2>2, <3>1 DEF LocalRows
  <2>5. cache # {}
    BY <1>4, <2>3
  <2>6. /\ next \in Cursors /\ Cardinality(next.seen) <= SeenCap
        /\ next.source \in {"local", "provider", "end"}
        /\ next.source = "provider" => next.pos \in Rows
        /\ \A r \in next.seen : r \in cur.seen /\ next.pos <= TopKey(BlockOf[r])
        /\ \A r \in Rows : r \in left \/ r <= cursor => ToCome(next, r)
        /\ wm = Watermark => \A r \in Rows : ToCome(next, r) => r \in left \/ r <= cursor
    <3> HIDE DEF cur, wm
    <3>. QED
      BY <1>2, <1>4, <2>1, <2>2, <2>5, NextKept
  <2>7. PICK m \in Heads : m <= head /\ cursor < m /\ cache = cursor + 1 .. m
    BY <2>5 DEF CacheInv
  <2>8. /\ m \in Nat /\ cursor \in Nat /\ head \in Nat /\ \A r \in Rows : r \in Nat \ {0}
    BY RowNumbers DEF CacheInv
  <2>9. Max(cache) = m
    <3>1. cursor + 1 \in Int /\ m \in Int /\ cursor + 1 <= m
      BY <2>7, <2>8
    <3>. QED
      BY <2>7, <3>1, IntervalEnds
  <2>10. owed' \subseteq Rows /\ \A r \in owed' : r <= m /\ r <= head /\ r \in Nat
    BY <1>4, <2>7, <2>8, <2>9
  <2> HIDE DEF page, next
  <2>11. /\ served' \in [Rows -> 0 .. 2]
         /\ \A r \in Rows : served'[r] = IF r \in page THEN 1 ELSE 0
    BY <1>4, <2>1, Shown
  <2>12. session'.cursor = next
    BY <1>2, <1>4, <2>6, Asked
  <2>13. ASSUME NEW r \in owed', ~(served'[r] >= 1)
         PROVE  ToCome(next, r)
    <3>1. r \in Rows /\ r \notin page
      BY <2>10, <2>11, <2>13
    <3>2. r \in cache \/ r <= cursor
      BY <2>7, <2>8, <2>10
    <3>. QED
      BY <2>4, <2>6, <3>1, <3>2
  <2>14. ASSUME calm, NEW r \in Rows, ToCome(next, r)
         PROVE  served'[r] = 0
    <3>1. r \in left \/ r <= cursor
      BY <1>2, <2>6, <2>14
    <3>2. r <= cursor => r \notin cache
      BY <2>7, <2>8
    <3>3. r \notin page
      BY <2>3, <3>1, <3>2
    <3>. QED
      BY <2>11, <3>3
  <2>15. calm => Usable(Watermark)
    BY <1>2, <1>4
  <2>16. \A r \in next.seen : FALSE
    BY <2>2, <2>6
  <2>17. \A r \in Rows : served'[r] <= 1
    BY <2>11
  <2> HIDE DEF cur, wm, left
  <2>18. CursorSound(session.cursor)'
    BY <1>1, <2>5, <2>6, <2>12, <2>13, <2>14, <2>15, <2>16, HandedOver
  <2>. QED
    BY <1>1, <1>2, <1>4, <2>6, <2>10, <2>11, <2>17, <2>18, AnswerSound
<1>. QED
  BY <1>1, <1>3, <1>4

(* What the worker does between two steps of the reader.                    *)
LEMMA SnapshotStays ==
  ASSUME CacheInv, CacheMoved, NEW wm \in Watermarks, SnapshotTrue(wm)
  PROVE  SnapshotTrue(wm)'
<1>. SUFFICES ASSUME Usable(wm)
              PROVE  /\ wm.cursor >= cursor'
                     /\ wm.cursor # 0 => cache' # {}
                     /\ wm.status = "complete" => status' = "complete"
                     /\ wm.cursor = 0 /\ wm.status # "complete" => status' = "capped" /\ cache' = {}
  BY DEF SnapshotTrue, Usable
<1>1. /\ wm.cursor >= cursor
      /\ wm.cursor # 0 => cache # {}
      /\ wm.status = "complete" => status = "complete"
      /\ wm.cursor = 0 /\ wm.status # "complete" => status = "capped" /\ cache = {}
  BY DEF SnapshotTrue
<1>2. /\ cache \subseteq cache'
      /\ cache # {} => cursor' <= cursor
      /\ status \in {"complete", "capped"} =>
           status' = status /\ cursor' = cursor /\ cache' = cache
  BY DEF CacheMoved
<1>3. wm.cursor \in Nat /\ cursor \in Nat /\ cursor' \in Nat
  BY RowNumbers DEF Watermarks, CacheInv, CacheMoved
<1>4. cache = {} => status \in {"complete", "capped"}
  BY <1>1
<1>5. wm.cursor >= cursor'
  BY <1>1, <1>2, <1>3, <1>4
<1>. QED
  BY <1>1, <1>2, <1>5

LEMMA FillSound ==
  ASSUME CacheInv, ViewInv, Fill
  PROVE  CacheInv' /\ ViewInv'
<1>1. /\ CacheNext /\ overtaken' = (overtaken \/ Overtakes)
      /\ calm' = (calm /\ UNCHANGED <<status, cursor>>)
      /\ session' = session /\ served' = served /\ owed' = owed
  BY DEF Fill
<1>2. CacheMoved
  BY <1>1, CacheStep
<1>3. CacheInv'
  BY <1>2 DEF CacheMoved
<1>4. calm' => calm /\ status' = status /\ cursor' = cursor /\ cache' = cache
  BY <1>1, <1>2 DEF CacheMoved
<1>5. /\ head \in Nat /\ head' \in Nat /\ head <= head' /\ cursor \in Nat
      /\ \A r \in Rows : r \in Nat
  <2>1. head' \in Heads /\ head \in Heads /\ cursor \in {0} \cup Rows /\ head <= head'
    BY <1>2, <1>3 DEF CacheMoved, CacheInv
  <2>. QED
    BY <2>1, RowNumbers
<1>6. ViewTypes
  BY DEF ViewInv
<1>7. overtaken \in BOOLEAN /\ calm \in BOOLEAN /\ Overtakes \in BOOLEAN
  BY <1>6 DEF ViewTypes, Overtakes
<1>8. overtaken' \in BOOLEAN /\ calm' \in BOOLEAN
  BY <1>1, <1>7
<1>9. ViewTypes'
  BY <1>1, <1>6, <1>8 DEF ViewTypes
<1>10. ASSUME CursorSound(session.cursor)
       PROVE  CursorSound(session.cursor)'
  <2> DEFINE cur == session.cursor
  <2>1. session'.cursor = cur /\ cur.seen \subseteq Rows
    BY <1>1, <1>6 DEF ViewTypes, Cursors
  <2>2. cur.source = "local" => cache' # {} /\ (calm' => Usable(Watermark)')
    <3>1. cur.source = "local" => cache # {} /\ (calm => Usable(Watermark))
      BY <1>10 DEF CursorSound
    <3>2. cache \subseteq cache'
      BY <1>2 DEF CacheMoved
    <3>3. calm' => (Usable(Watermark)' <=> Usable(Watermark))
      BY <1>4 DEF Usable, Watermark
    <3> HIDE DEF cur
    <3>. QED
      BY <1>4, <3>1, <3>2, <3>3
  <2>3. ASSUME ~overtaken', NEW r \in owed, ~(served[r] >= 1)
        PROVE  ToCome(session.cursor, r)'
    <3>1. ~overtaken /\ ~Overtakes
      BY <1>1, <1>7, <2>3
    <3>2. ToCome(cur, r) /\ r \in Rows /\ r \notin cur.seen
      BY <1>6, <1>10, <2>3, <3>1 DEF CursorSound, ViewTypes
    <3>3. CASE cur.source = "provider"
      BY <2>1, <3>2, <3>3 DEF ToCome
    <3>4. CASE cur.source = "local"
      <4>1. cur.pos \in Nat /\ Key(r) \in Nat
        <5>1. cur.pos \in 0 .. TopBoundary /\ TopBoundary \in Nat
          BY <1>6, AllBelowBoundary DEF ViewTypes, Cursors, CacheInv
        <5>. QED
          BY <3>2, <5>1, RowKeys
      <4>2. r \in cache' \ cache => Key(r) < cur.pos
        BY <3>1, <3>4, <4>1 DEF Overtakes
      <4>3. \/ r \in cache' /\ Key(r) < cur.pos
            \/ r <= cursor'
        <5>1. CASE r \in LocalRows(cur)
          BY <1>2, <5>1 DEF LocalRows, CacheMoved
        <5>2. CASE r <= cursor
          <6>1. r \notin cache
            <7>1. SUFFICES ASSUME cache # {} PROVE r \notin cache
              OBVIOUS
            <7>2. PICK m \in Heads : cache = cursor + 1 .. m
              BY <7>1 DEF CacheInv
            <7>. QED
              BY <1>5, <3>2, <5>2, <7>2
          <6>2. r \in cache' \/ r <= cursor'
            BY <1>2, <3>2, <5>2 DEF CacheMoved
          <6>. QED
            BY <4>2, <6>1, <6>2
        <5>. QED
          BY <3>2, <3>4, <5>1, <5>2 DEF ToCome
      <4>. QED
        BY <2>1, <3>2, <3>4, <4>3 DEF ToCome, LocalRows
    <3>. QED
      BY <3>2, <3>3, <3>4 DEF ToCome
  <2>4. ASSUME calm', NEW r \in Rows, ToCome(session.cursor, r)'
        PROVE  served[r] = 0
    <3>1. cursor' = cursor /\ cache' = cache /\ calm
      BY <1>4, <2>4
    <3>2. ToCome(session.cursor, r)
      BY <2>1, <2>4, <3>1 DEF ToCome, LocalRows
    <3>. QED
      BY <1>10, <3>1, <3>2 DEF CursorSound
  <2> HIDE DEF cur
  <2>5. /\ cur.source = "provider" => cur.pos \in Rows
        /\ \A r \in cur.seen : served[r] >= 1 /\ cur.pos <= TopKey(BlockOf[r])
        /\ cur.source = "head" => owed = {} /\ \A r \in Rows : served[r] = 0
    BY <1>10 DEF CursorSound, cur
  <2>. QED
    BY <1>1, <2>1, <2>2, <2>3, <2>4, <2>5 DEF CursorSound
<1>11. ASSUME session.at \in {"answer", "seam"}
       PROVE  /\ SnapshotTrue(session.wm)'
              /\ calm' => session'.wm = Watermark'
  <2>1. /\ SnapshotTrue(session.wm) /\ session.wm \in Watermarks
        /\ calm => session.wm = Watermark
    BY <1>6, <1>11 DEF ViewInv, ViewTypes
  <2>2. SnapshotTrue(session.wm)'
    <3>1. \A wm \in Watermarks : SnapshotTrue(wm) => SnapshotTrue(wm)'
      BY <1>2, SnapshotStays
    <3>. QED
      BY <1>1, <2>1, <3>1 DEF SnapshotTrue, Usable
  <2>3. calm' => session'.wm = Watermark'
    BY <1>1, <1>4, <2>1 DEF Watermark
  <2>. QED
    BY <2>2, <2>3
<1>12. ASSUME session.at = "seam"
       PROVE  SeamSound'
  <2>1. SeamSound
    BY <1>12 DEF ViewInv
  <2>2. PICK h \in Heads : /\ h <= head /\ session.page = PageFrom(0, h)
                           /\ owed = {r \in Rows : r <= h}
                           /\ calm => \A r \in cache : r <= h
    BY <2>1 DEF SeamSound
  <2>3. h \in Nat /\ h <= head'
    BY <1>5, <2>2, RowNumbers
  <2>4. calm' => \A r \in cache' : r <= h
    BY <1>4, <2>2
  <2>5. Usable(session.wm)' <=> Usable(session.wm)
    BY <1>1 DEF Usable
  <2>. QED
    BY <1>1, <2>1, <2>2, <2>3, <2>4, <2>5 DEF SeamSound
<1>13. \A r \in owed : r <= head'
  <2>1. \A r \in owed : r \in Nat /\ r <= head
    BY <1>5, <1>6 DEF ViewInv, ViewTypes
  <2>. QED
    BY <1>5, <2>1
<1>14. ~overtaken' => ~overtaken
  BY <1>1, <1>7
<1>15. ViewInv'
  <2>1. session'.at \in {"ask", "answer"} => CursorSound(session.cursor)'
    BY <1>1, <1>10 DEF ViewInv
  <2>2. session'.at = "answer" => session'.cursor.source # "end"
    BY <1>1 DEF ViewInv
  <2>3. session'.at \in {"answer", "seam"} =>
          SnapshotTrue(session.wm)' /\ (calm' => session'.wm = Watermark')
    BY <1>1, <1>11
  <2>4. session'.at = "seam" => SeamSound'
    BY <1>1, <1>12
  <2>5. session'.at = "done" /\ ~overtaken' => \A r \in owed' : served'[r] >= 1
    BY <1>1, <1>14 DEF ViewInv
  <2>6. calm' => \A r \in Rows : served'[r] <= 1
    BY <1>1, <1>4 DEF ViewInv
  <2>7. \A r \in owed' : r <= head'
    BY <1>1, <1>13
  <2>. QED
    BY <1>9, <2>1, <2>2, <2>3, <2>4, <2>5, <2>6, <2>7 DEF ViewInv
<1>. QED
  BY <1>3, <1>15

LEMMA ServeInitInv == ServeInit => CacheInv /\ ViewInv
<1>. SUFFICES ASSUME ServeInit PROVE CacheInv /\ ViewInv
  OBVIOUS
<1>1. /\ head \in Heads /\ unusable \in Unusables /\ status = "none" /\ cursor = 0 /\ cache = {}
      /\ session = Closed /\ served = [r \in Rows |-> 0] /\ owed = {}
      /\ calm = TRUE /\ overtaken = FALSE
  BY DEF ServeInit, CacheInit, HistoryInit
<1>2. CacheInv
  BY <1>1 DEF CacheInv, Statuses
<1>3. /\ session = [at |-> "closed", cursor |-> HeadCursor, wm |-> NoWatermark, page |-> {}]
      /\ HeadCursor = [source |-> "head", pos |-> 0, seen |-> {}]
      /\ NoWatermark = [status |-> "none", cursor |-> 0]
  BY <1>1 DEF Closed, HeadCursor, NoWatermark
<1>4. 0 \in 0 .. TopBoundary /\ Cardinality({}) = 0 /\ 0 <= SeenCap
  BY <1>1, AllBelowBoundary, FS_EmptySet, ServeAssumption
<1>5. HeadCursor \in Cursors /\ NoWatermark \in Watermarks
  BY <1>3, <1>4 DEF Cursors, Watermarks, Statuses
<1>6. /\ session.at = "closed" /\ Cardinality(session.cursor.seen) <= SeenCap
      /\ session \in [at : {"closed", "ask", "answer", "seam", "done", "limited"},
                      cursor : Cursors, wm : Watermarks, page : SUBSET Rows]
  BY <1>3, <1>4, <1>5
<1>7. served \in [Rows -> 0 .. 2] /\ \A r \in Rows : served[r] = 0
  BY <1>1
<1>8. ViewTypes
  BY <1>1, <1>6, <1>7 DEF ViewTypes
<1>. QED
  BY <1>1, <1>2, <1>6, <1>7, <1>8 DEF ViewInv

LEMMA ServeStep == CacheInv /\ ViewInv /\ [ServeNext]_serveVars => CacheInv' /\ ViewInv'
<1>. SUFFICES ASSUME CacheInv, ViewInv, [ServeNext]_serveVars
              PROVE  CacheInv' /\ ViewInv'
  OBVIOUS
<1>1. ASSUME UNCHANGED cacheVars PROVE CacheInv'
  BY <1>1 DEF CacheInv, cacheVars, historyVars
<1>2. CASE Fill
  BY <1>2, FillSound
<1>3. CASE UNCHANGED serveVars
  <2>1. /\ session' = session /\ served' = served /\ owed' = owed /\ calm' = calm
        /\ overtaken' = overtaken /\ UNCHANGED cacheVars
        /\ head' = head /\ status' = status /\ cursor' = cursor /\ cache' = cache
    BY <1>3 DEF serveVars, viewVars, cacheVars, historyVars
  <2>2. ViewTypes' <=> ViewTypes
    BY <2>1 DEF ViewTypes
  <2>3. SeamSound' <=> SeamSound
    BY <2>1 DEF SeamSound, Usable
  <2>4. CursorSound(session.cursor)' <=> CursorSound(session.cursor)
    BY <2>1 DEF CursorSound, ToCome, LocalRows, Usable, Watermark
  <2>5. SnapshotTrue(session.wm)' <=> SnapshotTrue(session.wm)
    BY <2>1 DEF SnapshotTrue, Usable
  <2>6. Watermark' = Watermark
    BY <2>1 DEF Watermark
  <2>7. ViewInv'
    BY <2>1, <2>2, <2>3, <2>4, <2>5, <2>6 DEF ViewInv
  <2>. QED
    BY <1>1, <2>1, <2>7
<1>4. CASE Open
  BY <1>1, <1>4, OpenSound DEF Open
<1>5. CASE ReadWatermark
  BY <1>1, <1>5, ReadSound DEF ReadWatermark
<1>6. CASE Close
  BY <1>1, <1>6, CloseSound DEF Close
<1>7. CASE ServeLocal
  BY <1>1, <1>7, LocalSound DEF ServeLocal
<1>8. CASE ServeProvider
  BY <1>1, <1>8, ProviderSound DEF ServeProvider
<1>9. CASE Seam
  BY <1>1, <1>9, SeamStep DEF Seam
<1>10. CASE Outage
  BY <1>1, <1>10, OutageSound DEF Outage
<1>. QED
  BY <1>2, <1>3, <1>4, <1>5, <1>6, <1>7, <1>8, <1>9, <1>10 DEF ServeNext, Reader

THEOREM ServeKept == ServeSpec => [](CacheInv /\ ViewInv)
<1>. QED
  BY ServeInitInv, ServeStep, PTL DEF ServeSpec

(* Every variable of the reader has its type, and no cursor carries more    *)
(* exclusions than the next request accepts (SEEN_CAP).                     *)
THEOREM ServeTypes == ServeSpec => []ServeTypeOK
<1>1. CacheInv /\ ViewInv => ServeTypeOK
  BY DEF CacheInv, ViewInv, ViewTypes, ServeTypeOK, Cursors, Watermarks
<1>. QED
  BY <1>1, ServeKept, PTL

(* Who pages to the end through any mixture of provider and cache has been  *)
(* shown every row there was at page 1, unless the worker cached a row      *)
(* above his position, and none twice while the worker left the entity      *)
(* alone: for any history, page sizes, hashes and caps of the exclusions.   *)
THEOREM PagesAreTheHistory == ServeSpec => []EachRowOnce
<1>1. CacheInv /\ ViewInv => EachRowOnce
  BY DEF ViewInv, EachRowOnce, NothingSkipped, NothingSkippedEver, NothingTwice
<1>. QED
  BY <1>1, ServeKept, PTL

-----------------------------------------------------------------------------
(* The parts side by side.                                                  *)

WorkersRest ==
  /\ holder = Nobody /\ lapsed = FALSE /\ written = 0 /\ attempts = 0 /\ used = 0
  /\ work = [i \in Instances |-> Resting] /\ faults = 0

ReaderRests == session = Closed /\ served = [r \in Rows |-> 0] /\ overtaken = FALSE

(* The cache is the worker's or the reader's: who does not run has not      *)
(* begun, and the one who does keeps what he keeps on his own.              *)
EntityInv ==
  /\ part # "history" => BackfillInv /\ ViewTypes /\ ReaderRests
  /\ part = "history" => CacheInv /\ ViewInv /\ WorkersRest

LEMMA EntityInit == Init => EntityInv /\ CacheInit
<1>. SUFFICES ASSUME Init PROVE EntityInv /\ CacheInit
  OBVIOUS
<1>1. BackfillInit /\ ServeInit
  BY DEF Init
<1>2. BackfillInv /\ CacheInit /\ CacheInv /\ ViewInv
  BY <1>1, BackfillInitInv, ServeInitInv
<1>3. ReaderRests /\ WorkersRest
  BY <1>1 DEF BackfillInit, ServeInit, ReaderRests, WorkersRest
<1>. QED
  BY <1>2, <1>3 DEF EntityInv, ViewInv

(* Where neither the worker nor a reader runs, nothing of either changes.   *)
LEMMA EntityUntouched ==
  ASSUME EntityInv, UNCHANGED <<part, backfillVars, viewVars>>
  PROVE  EntityInv' /\ UNCHANGED cacheVars
<1>1. UNCHANGED <<part, cacheVars, backfillVars, viewVars, serveVars>>
  BY DEF backfillVars, serveVars
<1>2. CASE part # "history"
  <2>1. BackfillInv'
    BY <1>1, <1>2, BackfillNextKeeps DEF EntityInv
  <2>2. ViewTypes' /\ ReaderRests'
    BY <1>1, <1>2 DEF EntityInv, ViewTypes, ReaderRests, viewVars
  <2>. QED
    BY <1>1, <1>2, <2>1, <2>2 DEF EntityInv
<1>3. CASE part = "history"
  <2>1. CacheInv' /\ ViewInv'
    BY <1>1, <1>3, ServeStep DEF EntityInv
  <2>2. WorkersRest'
    BY <1>1, <1>3 DEF EntityInv, WorkersRest, backfillVars
  <2>. QED
    BY <1>1, <1>3, <2>1, <2>2 DEF EntityInv
<1>. QED
  BY <1>1, <1>2, <1>3

LEMMA EntityNext ==
  ASSUME EntityInv, [Next]_vars
  PROVE  EntityInv' /\ [CacheNext]_cacheVars
<1>1. CASE Backfilling /\ BackfillNext
  <2>1. part' = part /\ part # "history" /\ UNCHANGED viewVars
    BY <1>1 DEF Backfilling
  <2>2. BackfillInv' /\ [CacheNext]_cacheVars
    BY <1>1, <2>1, BackfillNextKeeps DEF EntityInv
  <2>3. ViewTypes' /\ ReaderRests'
    BY <2>1 DEF EntityInv, ViewTypes, ReaderRests, viewVars
  <2>. QED
    BY <2>1, <2>2, <2>3 DEF EntityInv
<1>2. CASE Serving /\ ServeNext
  <2>1. part' = part /\ part = "history" /\ UNCHANGED workerVars
    BY <1>2 DEF Serving
  <2>2. CacheInv' /\ ViewInv'
    BY <1>2, <2>1, ServeStep DEF EntityInv
  <2>3. WorkersRest'
    BY <2>1 DEF EntityInv, WorkersRest, workerVars
  <2>4. [CacheNext]_cacheVars
    BY <1>2 DEF ServeNext, Fill, Reader, Open, ReadWatermark, Close, ServeLocal,
                ServeProvider, Seam, Outage
  <2>. QED
    BY <2>1, <2>2, <2>3, <2>4 DEF EntityInv
<1>3. CASE UNCHANGED <<part, backfillVars, viewVars>>
  BY <1>3, EntityUntouched
<1>. QED
  BY <1>1, <1>2, <1>3 DEF Next, Failing, Indexing, Partitioning, vars

LEMMA EntityKept == Spec => []EntityInv /\ CacheSpec
BY EntityInit, EntityNext, PTL DEF Spec, CacheSpec

(* The other parts' behaviours are those they have alone.                   *)
LEMMA PartsRun == Spec => FailoverSpec /\ SchemaSpec /\ LadderSpec
<1>1. Init => FailoverInit /\ SchemaInit /\ LadderInit
  BY DEF Init
<1>2. ASSUME [Next]_vars
      PROVE  [FailoverNext]_failoverVars /\ [SchemaNext]_schemaVars /\ [LadderNext]_ladderVars
  BY <1>2 DEF Next, Failing, Backfilling, Serving, Indexing, Partitioning, vars
<1>. QED
  BY <1>1, <1>2, PTL DEF Spec, FailoverSpec, SchemaSpec, LadderSpec

LEMMA EntityTypes == EntityInv => BackfillTypeOK /\ ServeTypeOK
<1>. SUFFICES ASSUME EntityInv PROVE BackfillTypeOK /\ ServeTypeOK
  OBVIOUS
<1>1. CASE part # "history"
  <2>1. BackfillTypeOK
    BY <1>1, CacheCounted DEF EntityInv, BackfillInv, RowTypes, Works, BackfillTypeOK
  <2>2. ServeTypeOK
    BY <1>1, <2>1 DEF EntityInv, BackfillTypeOK, ViewTypes, ServeTypeOK, Cursors, Watermarks
  <2>. QED
    BY <2>1, <2>2
<1>2. CASE part = "history"
  <2>1. CacheInv /\ ViewInv /\ WorkersRest
    BY <1>2 DEF EntityInv
  <2>2. ServeTypeOK
    BY <2>1 DEF CacheInv, ViewInv, ViewTypes, ServeTypeOK, Cursors, Watermarks
  <2>3. /\ 0 \in 0 .. Cardinality(Rows) /\ 0 \in 0 .. MaxAttempts /\ 0 \in 0 .. MaxPages
    BY RowNumbers, BackfillAssumption
  <2>4. work \in [Instances -> Works]
    BY <2>1, RestingWork DEF WorkersRest
  <2>. QED
    BY <2>1, <2>2, <2>3, <2>4 DEF CacheInv, WorkersRest, Works, BackfillTypeOK
<1>. QED
  BY <1>1, <1>2

LEMMA EntityTrue == EntityInv => WatermarkTrue /\ EachRowOnce
<1>1. CASE part # "history"
  BY <1>1 DEF EntityInv, BackfillInv, RowTrue, WatermarkTrue, GivenUpDeserved,
              ReaderRests, Closed, EachRowOnce, NothingSkipped, NothingSkippedEver, NothingTwice
<1>2. CASE part = "history"
  <2>. SUFFICES ASSUME EntityInv PROVE WatermarkTrue /\ EachRowOnce
    OBVIOUS
  <2>1. CacheInv /\ ViewInv /\ WorkersRest
    BY <1>2 DEF EntityInv
  <2>2. ASSUME cache # {}
        PROVE  Max(cache) \in Heads /\ cache = cursor + 1 .. Max(cache)
    <3>1. PICK m \in Heads : cursor < m /\ cache = cursor + 1 .. m
      BY <2>1, <2>2 DEF CacheInv
    <3>2. m \in Int /\ cursor \in Int /\ cursor + 1 \in Int /\ cursor + 1 <= m
      BY <2>1, <3>1, RowNumbers DEF CacheInv
    <3>3. Max(cursor + 1 .. m) = m
      BY <3>2, IntervalEnds
    <3>. QED
      BY <3>1, <3>3
  <2>3. WatermarkTrue
    BY <2>1, <2>2 DEF WorkersRest, WatermarkTrue, CachedIsStretch, GivenUpDeserved
  <2>4. EachRowOnce
    BY <2>1 DEF ViewInv, EachRowOnce, NothingSkipped, NothingSkippedEver, NothingTwice
  <2>. QED
    BY <2>3, <2>4
<1>. QED
  BY <1>1, <1>2

(* Every variable of every service has its type, where they run side by     *)
(* side.                                                                    *)
THEOREM ServicesTypes == Spec => []ServicesTypeOK
BY PartsRun, EntityKept, EntityTypes, FailoverTypes, SchemaTypes, LadderTypes, PTL
DEF ServicesTypeOK

(* All that is checked of the services side by side but that entities and   *)
(* indexes settle: what a call reports is what happened, an endpoint's      *)
(* health is its own, an entity's row says what is cached of it and its     *)
(* pages are its history, keys, indexes and partitions are there, and the   *)
(* cache is moved as its readers rely on.                                   *)
THEOREM ServicesKeepPromises ==
  Spec => /\ [](OutcomeTrue /\ HealthEarned)
          /\ [](WatermarkTrue /\ EachRowOnce)
          /\ []SchemaKept
          /\ KeepsCachePromise
<1>1. FailoverSpec => [](OutcomeTrue /\ HealthEarned)
  BY OutcomeHolds, HealthIsEarned, PTL
<1>2. Spec => [](WatermarkTrue /\ EachRowOnce)
  BY EntityKept, EntityTrue, PTL
<1>3. Spec => KeepsCachePromise
  BY EntityKept DEF KeepsCachePromise
<1>. QED
  BY PartsRun, SchemaIsKept, <1>1, <1>2, <1>3
=============================================================================
