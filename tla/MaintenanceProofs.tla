-------------------------- MODULE MaintenanceProofs --------------------------
(***************************************************************************)
(* Theorems about the processes' shared chores, for any numbers of          *)
(* processes, runs under way, webhooks, blocks, tokens, months and calls:   *)
(* WebhookNotifier, then ProviderBudget, then TokenHealer; and about        *)
(* MCMaintenance, which has Retention beside them.                          *)
(***************************************************************************)
EXTENDS MCMaintenance, RetentionProofs, FiniteSetTheorems, WellFoundedInduction, TLAPS

LEMMA UpToType ==
  ASSUME NEW most \in Nat, NEW n \in Nat
  PROVE  UpTo(most, n) \in 0 .. most /\ (n <= most => UpTo(most, n) = n)
BY DEF UpTo

LEMMA FreeType == Free \in Run
BY DEF Free, Run

(* The state of a run is replaced, that of every other run is not.          *)
LEMMA RunReplaced ==
  ASSUME runs \in [Notifiers -> [Slots -> Run]], NEW p \in Notifiers, NEW i \in Slots,
         NEW run, runs' = [runs EXCEPT ![p][i] = run]
  PROVE  /\ runs'[p][i] = run
         /\ \A q \in Notifiers, j \in Slots :
              q # p \/ j # i => runs'[q][j] = runs[q][j]
         /\ run \in Run => runs' \in [Notifiers -> [Slots -> Run]]
OBVIOUS

-----------------------------------------------------------------------------
(* Type correctness.                                                        *)

LEMMA WebhookTypeInit == WebhookInit => WebhookTypeOK
BY FreeType, WebhookAssumption DEF WebhookInit, WebhookTypeOK

LEMMA SentType ==
  ASSUME sent \in [Hooks -> [Blocks -> 0 .. 2]], NEW w \in Hooks, NEW b \in Blocks,
         sent' = [sent EXCEPT ![w][b] = UpTo(2, @ + 1)]
  PROVE  sent' \in [Hooks -> [Blocks -> 0 .. 2]]
<1>1. UpTo(2, sent[w][b] + 1) \in 0 .. 2
  BY UpToType
<1>. QED
  BY <1>1

(* Where a run is, it has a block; where it delivers, a webhook.            *)
Placed(run) ==
  /\ run.phase # "idle" => run.block \in Blocks
  /\ run.phase = "post" => run.now \in Hooks

RunsPlaced == \A p \in Notifiers, i \in Slots : Placed(runs[p][i])

WebhookTypeInv == WebhookTypeOK /\ RunsPlaced

(* One slot moves on to a state of its type.                                *)
LEMMA RunMoves ==
  ASSUME runs \in [Notifiers -> [Slots -> Run]], RunsPlaced,
         NEW p \in Notifiers, NEW i \in Slots, NEW run \in Run, Placed(run),
         Becomes(p, i, run)
  PROVE  runs' \in [Notifiers -> [Slots -> Run]] /\ RunsPlaced'
<1>1. runs' = [runs EXCEPT ![p][i] = run]
  BY DEF Becomes
<1>2. /\ runs' \in [Notifiers -> [Slots -> Run]]
      /\ runs'[p][i] = run
      /\ \A q \in Notifiers, j \in Slots : q # p \/ j # i => runs'[q][j] = runs[q][j]
  BY <1>1, RunReplaced
<1>. QED
  BY <1>2 DEF RunsPlaced

LEMMA WebhookTypeNext ==
  ASSUME WebhookTypeInv, [WebhookNext]_webhookVars
  PROVE  WebhookTypeInv'
<1> USE DEF WebhookTypeInv
<1>a. runs \in [Notifiers -> [Slots -> Run]] /\ FailLimit \in Nat \ {0}
  BY WebhookAssumption DEF WebhookTypeOK
<1>b. Placed(Free) /\ Free \in Run
  BY FreeType DEF Placed, Free
<1>1. ASSUME NEW w \in Hooks, Register(w) \/ Delete(w) \/ Seal(w)
      PROVE  WebhookTypeInv'
  BY <1>1 DEF Register, Delete, Seal, WebhookTypeOK, claimVars, RunsPlaced
<1>2. ASSUME NEW b \in Blocks, Prune(b)
      PROVE  WebhookTypeInv'
  BY <1>2, WebhookAssumption DEF Prune, WebhookTypeOK, RunsPlaced
<1>3. ASSUME NEW p \in Notifiers, NEW b \in Blocks, Notify(p, b)
      PROVE  WebhookTypeInv'
  <2>1. PICK i \in Slots : Becomes(p, i, [Free EXCEPT !.phase = "select", !.block = b])
    BY <1>3 DEF Notify
  <2> DEFINE run == [Free EXCEPT !.phase = "select", !.block = b]
  <2>2. run \in Run /\ Placed(run)
    BY DEF Free, Run, Placed
  <2> HIDE DEF run
  <2>3. runs' \in [Notifiers -> [Slots -> Run]] /\ RunsPlaced'
    BY <1>a, <2>1, <2>2, RunMoves DEF run
  <2>. QED
    BY <1>3, <2>3 DEF Notify, WebhookTypeOK, claimVars
<1>4. ASSUME NEW p \in Notifiers, NEW i \in Slots, Advance(p, i)
      PROVE  WebhookTypeInv'
  <2> DEFINE r == runs[p][i]
  <2>a. r \in Run /\ Placed(r)
    BY <1>a DEF RunsPlaced
  <2>b. ASSUME NEW run \in Run, Placed(run), Becomes(p, i, run)
        PROVE  runs' \in [Notifiers -> [Slots -> Run]] /\ RunsPlaced'
    BY <1>a, <2>b, RunMoves
  <2> HIDE DEF r
  <2>1. CASE Select(p, i)
    <3>1. PICK ws \in SUBSET Hooks :
            Becomes(p, i, IF ws = {} THEN Free
                          ELSE [r EXCEPT !.phase = "hooks", !.todo = ws])
      BY <2>1 DEF Select, Selected, r
    <3>2. CASE ws = {}
      BY <1>b, <2>1, <2>b, <3>1, <3>2 DEF Select, WebhookTypeOK, claimVars
    <3>3. CASE ws # {}
      <4> DEFINE run == [r EXCEPT !.phase = "hooks", !.todo = ws]
      <4>1. run \in Run /\ Placed(run)
        BY <2>1, <2>a DEF Run, Placed, Select, Is, r
      <4> HIDE DEF run
      <4>2. runs' \in [Notifiers -> [Slots -> Run]] /\ RunsPlaced'
        BY <2>b, <3>1, <3>3, <4>1 DEF run
      <4>. QED
        BY <2>1, <4>2 DEF Select, WebhookTypeOK, claimVars
    <3>. QED
      BY <3>2, <3>3
  <2>2. CASE SelectFails(p, i) \/ ReleaseSlot(p, i)
    BY <1>b, <2>2, <2>b DEF SelectFails, ReleaseSlot, Released, WebhookTypeOK, claimVars
  <2>3. CASE ClaimDelivery(p, i)
    <3>1. PICK w \in r.todo :
            /\ claims' = claims \cup {<<w, Without(r, w).block>>}
            /\ Becomes(p, i, IF Deliverable(w, Without(r, w).block)
                             THEN [Without(r, w) EXCEPT !.phase = "post", !.now = w]
                             ELSE Without(r, w))
      BY <2>3 DEF ClaimDelivery, r
    <3>2. r.phase = "hooks" /\ w \in Hooks /\ r.block \in Blocks
      BY <2>3, <2>a DEF ClaimDelivery, Is, r, Run, Placed
    <3>3. Without(r, w) \in Run /\ Without(r, w).block = r.block
          /\ Placed(Without(r, w))
      BY <2>a, <3>2 DEF Run, Without, Placed
    <3>4. /\ [Without(r, w) EXCEPT !.phase = "post", !.now = w] \in Run
          /\ Placed([Without(r, w) EXCEPT !.phase = "post", !.now = w])
      BY <3>2, <3>3 DEF Run, Placed
    <3>5. runs' \in [Notifiers -> [Slots -> Run]] /\ RunsPlaced'
      BY <2>b, <3>1, <3>3, <3>4
    <3>6. claims' \in SUBSET (Hooks \X Blocks)
      BY <3>1, <3>2, <3>3 DEF WebhookTypeOK
    <3>. QED
      BY <2>3, <3>5, <3>6 DEF ClaimDelivery, WebhookTypeOK
  <2>4. CASE ClaimDeliveryFails(p, i)
    <3>1. PICK w \in r.todo :
            /\ Becomes(p, i, Without(r, w))
            /\ claims' = claims \/ claims' = claims \cup {<<w, r.block>>}
      BY <2>4 DEF ClaimDeliveryFails, FailClosed, r
    <3>2. r.phase = "hooks" /\ w \in Hooks /\ r.block \in Blocks
      BY <2>4, <2>a DEF ClaimDeliveryFails, Is, r, Run, Placed
    <3>3. Without(r, w) \in Run /\ Placed(Without(r, w))
      BY <2>a, <3>2 DEF Run, Without, Placed
    <3>4. runs' \in [Notifiers -> [Slots -> Run]] /\ RunsPlaced'
      BY <2>b, <3>1, <3>3
    <3>5. claims' \in SUBSET (Hooks \X Blocks)
      BY <3>1, <3>2 DEF WebhookTypeOK
    <3>. QED
      BY <2>4, <3>4, <3>5 DEF ClaimDeliveryFails, WebhookTypeOK
  <2>5. CASE Deliver(p, i)
    <3>1. r.phase = "post" /\ r.now \in Hooks /\ r.block \in Blocks
      BY <2>5, <2>a DEF Deliver, Is, r, Placed
    <3>2. PICK ok \in SUBSET Hooks, bad \in SUBSET Hooks :
            Becomes(p, i, [r EXCEPT !.phase = "hooks", !.now = None, !.ok = ok, !.bad = bad])
      <4>1. CASE Delivered(p, i, r.now)
        <5>1. r.ok \cup {r.now} \in SUBSET Hooks /\ r.bad \in SUBSET Hooks
          BY <2>a, <3>1 DEF Run
        <5>2. [r EXCEPT !.phase = "hooks", !.now = None, !.ok = @ \cup {r.now}]
                = [r EXCEPT !.phase = "hooks", !.now = None,
                            !.ok = r.ok \cup {r.now}, !.bad = r.bad]
          BY <2>a DEF Run
        <5>. QED
          BY <4>1, <5>1, <5>2 DEF Delivered, r
      <4>2. CASE Undelivered(p, i, r.now)
        <5>1. r.ok \in SUBSET Hooks /\ r.bad \cup {r.now} \in SUBSET Hooks
          BY <2>a, <3>1 DEF Run
        <5>2. [r EXCEPT !.phase = "hooks", !.now = None, !.bad = @ \cup {r.now}]
                = [r EXCEPT !.phase = "hooks", !.now = None,
                            !.ok = r.ok, !.bad = r.bad \cup {r.now}]
          BY <2>a DEF Run
        <5>. QED
          BY <4>2, <5>1, <5>2 DEF Undelivered, r
      <4>. QED
        BY <2>5, <4>1, <4>2 DEF Deliver, r
    <3>3. LET run == [r EXCEPT !.phase = "hooks", !.now = None, !.ok = ok, !.bad = bad]
          IN  run \in Run /\ Placed(run)
      BY <2>a, <3>1 DEF Run, Placed
    <3>4. runs' \in [Notifiers -> [Slots -> Run]] /\ RunsPlaced'
      BY <2>b, <3>2, <3>3
    <3>5. sent' \in [Hooks -> [Blocks -> 0 .. 2]]
      BY <2>5, <3>1, SentType DEF Deliver, Delivered, Undelivered, WebhookTypeOK, r
    <3>6. failed' \in [Hooks -> 0 .. FailLimit]
      <4>1. UpTo(FailLimit, failed[r.now] + 1) \in 0 .. FailLimit
        BY <1>a, <3>1, UpToType DEF WebhookTypeOK
      <4>2. failed' = failed
            \/ failed' = [failed EXCEPT ![r.now] = UpTo(FailLimit, failed[r.now] + 1)]
        BY <2>5 DEF Deliver, Delivered, Undelivered, r
      <4>. QED
        BY <3>1, <4>1, <4>2 DEF WebhookTypeOK
    <3>. QED
      BY <2>5, <3>4, <3>5, <3>6 DEF Deliver, ClaimKept, WebhookTypeOK
  <2>6. CASE Reset(p, i)
    <3>1. r.phase = "hooks" /\ Becomes(p, i, [r EXCEPT !.phase = "count", !.ok = {}])
      BY <2>6 DEF Reset, Is, r
    <3>2. LET run == [r EXCEPT !.phase = "count", !.ok = {}] IN run \in Run /\ Placed(run)
      BY <2>a, <3>1 DEF Run, Placed
    <3>3. runs' \in [Notifiers -> [Slots -> Run]] /\ RunsPlaced'
      BY <2>b, <3>1, <3>2
    <3>4. excused' \in SUBSET Hooks
      BY <2>6, <2>a DEF Reset, WebhookTypeOK, Run, r
    <3>5. failCount' \in [Hooks -> 0 .. FailLimit]
      BY <2>6, <1>a DEF Reset, WebhookTypeOK
    <3>. QED
      BY <2>6, <3>3, <3>4, <3>5 DEF Reset, WebhookTypeOK, claimVars
  <2>7. CASE CountFailure(p, i)
    <3>1. PICK w \in r.bad :
           /\ Becomes(p, i, [r EXCEPT !.bad = @ \ {w}])
           /\ \/ /\ failCount' = [failCount EXCEPT ![w] = Counted(@)]
                 /\ hook' = [hook EXCEPT ![w] = StillActive(w)]
                 /\ UNCHANGED excused
              \/ /\ excused' = excused \cup {w}
                 /\ UNCHANGED <<failCount, hook>>
      BY <2>7 DEF CountFailure, r
    <3>2. r.phase = "count" /\ w \in Hooks
      BY <2>7, <2>a DEF CountFailure, Is, Run, r
    <3>3. LET run == [r EXCEPT !.bad = @ \ {w}] IN run \in Run /\ Placed(run)
      BY <2>a, <3>2 DEF Run, Placed
    <3>4. runs' \in [Notifiers -> [Slots -> Run]] /\ RunsPlaced'
      BY <2>b, <3>1, <3>3
    <3>5. Counted(failCount[w]) \in 0 .. FailLimit
      BY <1>a, <3>2, UpToType DEF Counted, WebhookTypeOK
    <3>6. /\ failCount' \in [Hooks -> 0 .. FailLimit]
          /\ hook' \in [Hooks -> {"unborn", "on", "off", "deleted"}]
          /\ excused' \in SUBSET Hooks
      BY <3>1, <3>2, <3>5 DEF WebhookTypeOK, StillActive
    <3>. QED
      BY <2>7, <3>4, <3>6 DEF CountFailure, WebhookTypeOK, claimVars
  <2>. QED
    BY <1>4, <2>1, <2>2, <2>3, <2>4, <2>5, <2>6, <2>7 DEF Advance
<1>5. ASSUME NEW p \in Notifiers, NotifierDies(p)
      PROVE  WebhookTypeInv'
  <2>1. runs' \in [Notifiers -> [Slots -> Run]] /\ RunsPlaced'
    BY <1>5, <1>a, <1>b DEF NotifierDies, RunsPlaced
  <2>2. excused' \in SUBSET Hooks
    <3>1. \A i \in Slots : runs[p][i].bad \in SUBSET Hooks
      BY <1>a DEF Run
    <3>. QED
      BY <1>5, <3>1 DEF NotifierDies, WebhookTypeOK
  <2>. QED
    BY <1>5, <2>1, <2>2 DEF NotifierDies, WebhookTypeOK, claimVars
<1>6. CASE UNCHANGED webhookVars
  BY <1>6 DEF webhookVars, claimVars, WebhookTypeOK, RunsPlaced
<1>. QED
  BY <1>1, <1>2, <1>3, <1>4, <1>5, <1>6 DEF WebhookNext

(* What the notifier may do, whatever of it is fair.                        *)
WebhookSteps == WebhookInit /\ [][WebhookNext]_webhookVars

LEMMA WebhookTypesKept == WebhookSteps => []WebhookTypeOK
<1>1. WebhookInit => WebhookTypeInv
  <2>1. WebhookInit => RunsPlaced
    BY DEF WebhookInit, RunsPlaced, Placed, Free
  <2>. QED
    BY <2>1, WebhookTypeInit DEF WebhookTypeInv
<1>2. WebhookTypeInv => WebhookTypeOK
  BY DEF WebhookTypeInv
<1>. QED
  BY <1>1, <1>2, WebhookTypeNext, PTL DEF WebhookSteps

(* Every variable of the notifier has its type.                             *)
THEOREM WebhookTypes == WebhookSpec => []WebhookTypeOK
BY WebhookTypesKept DEF WebhookSpec, WebhookSteps

-----------------------------------------------------------------------------
(* At most one POST per webhook and block, while the claim is kept.         *)

Posts(p, i, w, b) ==
  runs[p][i].phase = "post" /\ runs[p][i].now = w /\ runs[p][i].block = b

(* What was sent is claimed.                                                *)
SentClaimed == \A w \in Hooks, b \in Blocks \ forgotten : sent[w][b] # 0 => <<w, b>> \in claims

(* What is about to be sent is claimed, and was not sent before.            *)
PostsClaimed ==
  \A p \in Notifiers, i \in Slots, w \in Hooks, b \in Blocks \ forgotten :
    Posts(p, i, w, b) => <<w, b>> \in claims /\ sent[w][b] = 0

(* A claim belongs to one run.                                              *)
PostsAlone ==
  \A p, q \in Notifiers, i, j \in Slots, w \in Hooks, b \in Blocks \ forgotten :
    Posts(p, i, w, b) /\ Posts(q, j, w, b) => p = q /\ i = j

OnceInv == SentClaimed /\ PostsClaimed /\ PostsAlone /\ AtMostOnce

(* A step sends nothing, begins no POST and gives up only claims of blocks  *)
(* that are pruned.                                                         *)
LEMMA QuietStep ==
  ASSUME OnceInv, sent' = sent, forgotten \subseteq forgotten',
         \A w \in Hooks, b \in Blocks \ forgotten' : <<w, b>> \in claims => <<w, b>> \in claims',
         \A p \in Notifiers, i \in Slots, w \in Hooks, b \in Blocks :
           Posts(p, i, w, b)' => Posts(p, i, w, b)
  PROVE  OnceInv'
<1>1. SentClaimed' /\ AtMostOnce'
  BY DEF OnceInv, SentClaimed, AtMostOnce
<1>2. PostsClaimed'
  BY DEF OnceInv, PostsClaimed
<1>3. PostsAlone'
  BY DEF OnceInv, PostsAlone
<1>. QED
  BY <1>1, <1>2, <1>3 DEF OnceInv

LEMMA OnceNext ==
  ASSUME WebhookTypeInv, OnceInv, [WebhookNext]_webhookVars
  PROVE  OnceInv'
<1>a. runs \in [Notifiers -> [Slots -> Run]] /\ RunsPlaced
  BY DEF WebhookTypeInv, WebhookTypeOK
<1>b. ASSUME NEW p \in Notifiers, NEW i \in Slots, NEW run, Becomes(p, i, run),
             run.phase # "post"
      PROVE  \A q \in Notifiers, j \in Slots, w \in Hooks, b \in Blocks :
               Posts(q, j, w, b)' => Posts(q, j, w, b)
  <2>1. runs' = [runs EXCEPT ![p][i] = run]
    BY <1>b DEF Becomes
  <2>2. /\ runs'[p][i] = run
        /\ \A q \in Notifiers, j \in Slots : q # p \/ j # i => runs'[q][j] = runs[q][j]
    BY <1>a, <2>1, RunReplaced
  <2>. QED
    BY <1>b, <2>2 DEF Posts
<1>1. CASE \E w \in Hooks : Register(w) \/ Delete(w) \/ Seal(w)
  BY <1>1, QuietStep DEF Register, Delete, Seal, claimVars, Posts
<1>2. CASE \E b \in Blocks : Prune(b)
  <2>1. /\ sent' = sent /\ forgotten \subseteq forgotten' /\ runs' = runs
        /\ \A w \in Hooks, b \in Blocks \ forgotten' :
             <<w, b>> \in claims => <<w, b>> \in claims'
    BY <1>2 DEF Prune
  <2>. QED
    BY <2>1, QuietStep DEF Posts
<1>3. ASSUME NEW p \in Notifiers, NEW b \in Blocks, Notify(p, b)
      PROVE  OnceInv'
  <2>1. PICK i \in Slots : Becomes(p, i, [Free EXCEPT !.phase = "select", !.block = b])
    BY <1>3 DEF Notify
  <2>2. [Free EXCEPT !.phase = "select", !.block = b].phase # "post"
    BY DEF Free
  <2>3. UNCHANGED <<sent, forgotten, claims>>
    BY <1>3 DEF Notify, claimVars
  <2>. QED
    BY <1>b, <2>1, <2>2, <2>3, QuietStep
<1>4. ASSUME NEW p \in Notifiers, NEW i \in Slots, Advance(p, i)
      PROVE  OnceInv'
  <2> DEFINE r == runs[p][i]
  <2>a. r \in Run /\ Placed(r)
    BY <1>a DEF RunsPlaced
  <2> HIDE DEF r
  <2>1. CASE Select(p, i) \/ SelectFails(p, i) \/ Reset(p, i) \/ CountFailure(p, i)
             \/ ReleaseSlot(p, i)
    <3>1. \E run : Becomes(p, i, run) /\ run.phase # "post"
      <4>1. CASE Select(p, i)
        <5>1. PICK ws : Becomes(p, i, IF ws = {} THEN Free
                                      ELSE [r EXCEPT !.phase = "hooks", !.todo = ws])
          BY <4>1 DEF Select, r
        <5>2. /\ [r EXCEPT !.phase = "hooks", !.todo = ws].phase = "hooks"
              /\ Free.phase = "idle"
          BY <2>a DEF Run, Free
        <5>3. CASE ws = {}
          BY <5>1, <5>2, <5>3
        <5>4. CASE ws # {}
          BY <5>1, <5>2, <5>4
        <5>. QED
          BY <5>3, <5>4
      <4>2. CASE SelectFails(p, i) \/ ReleaseSlot(p, i)
        BY <4>2 DEF SelectFails, ReleaseSlot, Released, Free
      <4>3. CASE Reset(p, i)
        <5>1. Becomes(p, i, [r EXCEPT !.phase = "count", !.ok = {}])
          BY <4>3 DEF Reset, r
        <5>2. [r EXCEPT !.phase = "count", !.ok = {}].phase = "count"
          BY <2>a DEF Run
        <5>. QED
          BY <5>1, <5>2
      <4>4. CASE CountFailure(p, i)
        BY <2>a, <4>4 DEF CountFailure, Is, Run, r
      <4>. QED
        BY <2>1, <4>1, <4>2, <4>3, <4>4
    <3>2. UNCHANGED <<sent, forgotten, claims>>
      BY <2>1 DEF Select, SelectFails, Reset, CountFailure, ReleaseSlot, claimVars
    <3>. QED
      BY <1>b, <3>1, <3>2, QuietStep
  <2>2. CASE ClaimDeliveryFails(p, i)
    <3>1. PICK w \in r.todo :
            /\ Becomes(p, i, Without(r, w))
            /\ claims' = claims \/ claims' = claims \cup {<<w, r.block>>}
      BY <2>2 DEF ClaimDeliveryFails, FailClosed, r
    <3>2. Without(r, w).phase # "post"
      BY <2>2, <2>a DEF ClaimDeliveryFails, Is, r, Without, Run
    <3>3. UNCHANGED <<sent, forgotten>> /\ claims \subseteq claims'
      BY <2>2, <3>1 DEF ClaimDeliveryFails
    <3>. QED
      BY <1>b, <3>1, <3>2, <3>3, QuietStep
  <2>3. CASE ClaimDelivery(p, i)
    <3>1. PICK w \in r.todo :
            /\ claims' = claims \cup {<<w, Without(r, w).block>>}
            /\ Becomes(p, i, IF Deliverable(w, Without(r, w).block)
                             THEN [Without(r, w) EXCEPT !.phase = "post", !.now = w]
                             ELSE Without(r, w))
      BY <2>3 DEF ClaimDelivery, r
    <3> DEFINE b == r.block
               run == [Without(r, w) EXCEPT !.phase = "post", !.now = w]
    <3>2. /\ r.phase = "hooks" /\ w \in Hooks /\ b \in Blocks
          /\ Without(r, w).block = b /\ Without(r, w).phase = "hooks"
          /\ run.phase = "post" /\ run.now = w /\ run.block = b
      BY <2>3, <2>a DEF ClaimDelivery, Is, r, Run, Placed, Without
    <3>3. UNCHANGED <<sent, forgotten>> /\ claims' = claims \cup {<<w, b>>}
      BY <2>3, <3>1, <3>2 DEF ClaimDelivery
    <3>4. CASE ~Deliverable(w, b)
      BY <1>b, <3>1, <3>2, <3>3, <3>4, QuietStep
    <3>5. CASE Deliverable(w, b)
      <4> HIDE DEF b, run
      <4>1. runs' = [runs EXCEPT ![p][i] = run]
        BY <3>1, <3>2, <3>5 DEF Becomes, run
      <4>2. /\ runs'[p][i] = run
            /\ \A q \in Notifiers, j \in Slots : q # p \/ j # i => runs'[q][j] = runs[q][j]
        BY <1>a, <4>1, RunReplaced
      <4>3. \A q \in Notifiers, j \in Slots, v \in Hooks, c \in Blocks :
              Posts(q, j, v, c)' =>
                Posts(q, j, v, c) \/ (q = p /\ j = i /\ v = w /\ c = b)
        BY <3>2, <4>2 DEF Posts
      <4>4. b \notin forgotten => sent[w][b] = 0
        BY <3>2, <3>5 DEF OnceInv, SentClaimed, Deliverable
      <4>5. \A q \in Notifiers, j \in Slots : b \notin forgotten => ~Posts(q, j, w, b)
        BY <3>2, <3>5 DEF OnceInv, PostsClaimed, Deliverable
      <4>6. SentClaimed' /\ AtMostOnce'
        BY <3>3 DEF OnceInv, SentClaimed, AtMostOnce
      <4>7. PostsClaimed'
        BY <3>3, <4>3, <4>4 DEF OnceInv, PostsClaimed
      <4>8. PostsAlone'
        BY <3>3, <4>3, <4>5 DEF OnceInv, PostsAlone
      <4>. QED
        BY <4>6, <4>7, <4>8 DEF OnceInv
    <3>. QED
      BY <3>4, <3>5
  <2>4. CASE Deliver(p, i)
    <3>a. r.phase = "post" /\ r.now \in Hooks /\ r.block \in Blocks
      BY <2>4, <2>a DEF Deliver, Is, r, Placed
    <3>b. PICK w \in Hooks, b \in Blocks : w = r.now /\ b = r.block
      BY <3>a
    <3>1. r.phase = "post" /\ w = r.now /\ b = r.block
      BY <3>a, <3>b
    <3>2. UNCHANGED <<claims, forgotten>>
      BY <2>4 DEF Deliver, ClaimKept
    <3>3. \E run : Becomes(p, i, run) /\ run.phase # "post"
      <4>1. \/ Becomes(p, i, [r EXCEPT !.phase = "hooks", !.now = None, !.ok = @ \cup {w}])
            \/ Becomes(p, i, [r EXCEPT !.phase = "hooks", !.now = None, !.bad = @ \cup {w}])
        BY <2>4, <3>1 DEF Deliver, Delivered, Undelivered, r
      <4>2. /\ [r EXCEPT !.phase = "hooks", !.now = None, !.ok = @ \cup {w}].phase = "hooks"
            /\ [r EXCEPT !.phase = "hooks", !.now = None, !.bad = @ \cup {w}].phase = "hooks"
        BY <2>a DEF Run
      <4>. QED
        BY <4>1, <4>2
    <3>4. \A q \in Notifiers, j \in Slots, v \in Hooks, c \in Blocks :
            Posts(q, j, v, c)' => Posts(q, j, v, c) /\ ~(q = p /\ j = i)
      <4>1. PICK run : Becomes(p, i, run) /\ run.phase # "post"
        BY <3>3
      <4>2. runs'[p][i] = run
        BY <1>a, <4>1, RunReplaced DEF Becomes
      <4>. QED
        BY <1>b, <4>1, <4>2 DEF Posts
    <3>5. \/ sent' = sent
          \/ sent' = [sent EXCEPT ![w][b] = UpTo(2, sent[w][b] + 1)]
      BY <2>4, <3>1 DEF Deliver, Delivered, Undelivered, r
    <3>6. Posts(p, i, w, b)
      BY <3>1 DEF Posts, r
    <3>7. b \notin forgotten => /\ <<w, b>> \in claims /\ sent[w][b] = 0
                            /\ UpTo(2, sent[w][b] + 1) = 1
      BY <3>1, <3>6, UpToType DEF OnceInv, PostsClaimed
    <3>8. \A v \in Hooks, c \in Blocks : v # w \/ c # b => sent'[v][c] = sent[v][c]
      BY <3>1, <3>5 DEF WebhookTypeInv, WebhookTypeOK
    <3>9. b \notin forgotten => sent'[w][b] \in {0, 1}
      BY <3>1, <3>5, <3>7 DEF WebhookTypeInv, WebhookTypeOK
    <3>10. SentClaimed' /\ AtMostOnce'
      BY <3>1, <3>2, <3>7, <3>8, <3>9 DEF OnceInv, SentClaimed, AtMostOnce
    <3>11. \A q \in Notifiers, j \in Slots :
             b \notin forgotten => ~Posts(q, j, w, b)'
      BY <3>1, <3>4, <3>6 DEF OnceInv, PostsAlone
    <3>12. PostsClaimed'
      BY <3>2, <3>4, <3>8, <3>11 DEF OnceInv, PostsClaimed
    <3>13. PostsAlone'
      BY <3>2, <3>4 DEF OnceInv, PostsAlone
    <3>. QED
      BY <3>10, <3>12, <3>13 DEF OnceInv
  <2>. QED
    BY <1>4, <2>1, <2>2, <2>3, <2>4 DEF Advance
<1>5. ASSUME NEW p \in Notifiers, NotifierDies(p)
      PROVE  OnceInv'
  <2>1. runs' = [runs EXCEPT ![p] = [i \in Slots |-> Free]] /\ Free.phase # "post"
    BY <1>5 DEF NotifierDies, Free
  <2>2. \A q \in Notifiers, j \in Slots, w \in Hooks, b \in Blocks :
          Posts(q, j, w, b)' => Posts(q, j, w, b)
    BY <1>a, <2>1 DEF Posts
  <2>3. UNCHANGED <<sent, forgotten, claims>>
    BY <1>5 DEF NotifierDies, claimVars
  <2>. QED
    BY <2>2, <2>3, QuietStep
<1>6. CASE UNCHANGED webhookVars
  BY <1>6, QuietStep DEF webhookVars, claimVars, Posts
<1>. QED
  BY <1>1, <1>2, <1>3, <1>4, <1>5, <1>6 DEF WebhookNext

LEMMA OnceKept == WebhookSteps => []AtMostOnce
<1>1. WebhookInit => WebhookTypeInv /\ OnceInv
  <2>1. WebhookInit => RunsPlaced
    BY DEF WebhookInit, RunsPlaced, Placed, Free
  <2>2. WebhookInit => OnceInv
    BY DEF WebhookInit, OnceInv, SentClaimed, PostsClaimed, PostsAlone, AtMostOnce,
           Posts, Free
  <2>. QED
    BY <2>1, <2>2, WebhookTypeInit DEF WebhookTypeInv
<1>2. OnceInv => AtMostOnce
  BY DEF OnceInv
<1>. QED
  BY <1>1, <1>2, WebhookTypeNext, OnceNext, PTL DEF WebhookSteps

(* No webhook is sent a block twice before retention reaches the block.     *)
THEOREM SentAtMostOnce == WebhookSpec => []AtMostOnce
BY OnceKept DEF WebhookSpec, WebhookSteps

LEMMA OffKept == WebhookSteps => StaysOff
<1>1. ASSUME WebhookTypeInv, [WebhookNext]_webhookVars, NEW w \in Hooks, hook[w] = "off"
      PROVE  hook'[w] \in {"off", "deleted"}
  <2>1. hook \in [Hooks -> {"unborn", "on", "off", "deleted"}]
    BY <1>1 DEF WebhookTypeInv, WebhookTypeOK
  <2>2. CASE \E v \in Hooks : Register(v) \/ Delete(v) \/ Seal(v)
    BY <1>1, <2>1, <2>2 DEF Register, Delete, Seal
  <2>3. CASE \E p \in Notifiers, i \in Slots : CountFailure(p, i)
    <3>1. PICK p \in Notifiers, i \in Slots : CountFailure(p, i)
      BY <2>3
    <3>2. hook' = hook \/ \E v \in Hooks \cup runs[p][i].bad :
                            hook' = [hook EXCEPT ![v] = StillActive(v)]
      BY <3>1 DEF CountFailure
    <3>. QED
      BY <1>1, <2>1, <3>2 DEF StillActive
  <2>4. CASE hook' = hook
    BY <1>1, <2>4
  <2>. QED
    BY <1>1, <2>2, <2>3, <2>4
       DEF WebhookNext, Prune, Notify, Advance, Select, SelectFails, ClaimDelivery,
           ClaimDeliveryFails, Deliver, Reset, ReleaseSlot, NotifierDies, webhookVars
<1>2. WebhookInit => WebhookTypeInv
  <2>1. WebhookInit => RunsPlaced
    BY DEF WebhookInit, RunsPlaced, Placed, Free
  <2>. QED
    BY <2>1, WebhookTypeInit DEF WebhookTypeInv
<1>3. WebhookTypeInv /\ [WebhookNext]_webhookVars =>
        [\A w \in Hooks : hook[w] = "off" => hook'[w] \in {"off", "deleted"}]_webhookVars
  BY <1>1
<1>. QED
  BY <1>2, <1>3, WebhookTypeNext, PTL DEF WebhookSteps, StaysOff

(* No run that settles late switches a webhook back on.                     *)
THEOREM OffForGood == WebhookSpec => StaysOff
BY OffKept DEF WebhookSpec, WebhookSteps

-----------------------------------------------------------------------------
(* The failures of a webhook, counted exactly while nothing excuses it.     *)

(* The slots whose run has a failure of the webhook still to settle.        *)
Owing(w) == {s \in Notifiers \X Slots : w \in runs[s[1]][s[2]].bad}

CountedFor(w) ==
  /\ hook[w] = "off" => failed[w] >= FailLimit
  /\ UpTo(FailLimit, failCount[w] + YetToCount(w)) <= failed[w]
  /\ (w \notin excused /\ hook[w] # "deleted") =>
       UpTo(FailLimit, failCount[w] + YetToCount(w)) = failed[w]

(* A run has begun with nothing, deals with a webhook once, and only with   *)
(* those there are.                                                         *)
Sound(run) ==
  /\ run.phase \in {"idle", "select"} => run.bad = {}
  /\ run.phase = "hooks" => run.todo \cap run.bad = {}
  /\ run.phase = "post" =>
       /\ run.todo \cap run.bad = {}
       /\ run.now \notin run.todo \cup run.bad

Handles(run, w) ==
  w \in run.bad \/ (run.phase \in {"hooks", "post"} /\ w \in run.todo)
                \/ (run.phase = "post" /\ w = run.now)

RunsSound ==
  \A p \in Notifiers, i \in Slots :
    /\ Sound(runs[p][i])
    /\ \A w \in Hooks : Handles(runs[p][i], w) => hook[w] # "unborn"

CountInv == RunsSound /\ \A w \in Hooks : CountedFor(w)

LEMMA UpToMonotone ==
  ASSUME NEW most \in Nat, NEW m \in Nat, NEW n \in Nat, m <= n
  PROVE  UpTo(most, m) <= UpTo(most, n)
BY DEF UpTo

LEMMA SlotSets ==
  ASSUME NEW S \in SUBSET (Notifiers \X Slots)
  PROVE  IsFiniteSet(S) /\ Cardinality(S) \in Nat
<1>1. IsFiniteSet(Notifiers \X Slots)
  BY WebhookAssumption, FS_Product
<1>. QED
  BY <1>1, FS_Subset, FS_CardinalityType

LEMMA YetToCountType ==
  ASSUME NEW w
  PROVE  /\ YetToCount(w) = Cardinality(Owing(w)) /\ YetToCount(w) \in Nat
         /\ YetToCount(w)' = Cardinality(Owing(w)') /\ YetToCount(w)' \in Nat
<1>1. YetToCount(w) = Cardinality(Owing(w)) /\ YetToCount(w)' = Cardinality(Owing(w)')
  BY DEF YetToCount, Owing
<1>2. Owing(w) \in SUBSET (Notifiers \X Slots) /\ Owing(w)' \in SUBSET (Notifiers \X Slots)
  BY DEF Owing
<1>. QED
  BY <1>1, <1>2, SlotSets

(* What a run that moves on changes about the failures still to settle.     *)
LEMMA YetToCountMoves ==
  ASSUME runs \in [Notifiers -> [Slots -> Run]],
         NEW p \in Notifiers, NEW i \in Slots, NEW run, Becomes(p, i, run), NEW w
  PROVE  /\ (w \in run.bad <=> w \in runs[p][i].bad) => YetToCount(w)' = YetToCount(w)
         /\ w \in run.bad /\ w \notin runs[p][i].bad => YetToCount(w)' = YetToCount(w) + 1
         /\ w \notin run.bad /\ w \in runs[p][i].bad => YetToCount(w)' = YetToCount(w) - 1
<1>a. runs' = [runs EXCEPT ![p][i] = run]
  BY DEF Becomes
<1>b. /\ runs'[p][i] = run
      /\ \A q \in Notifiers, j \in Slots : q # p \/ j # i => runs'[q][j] = runs[q][j]
  BY <1>a, RunReplaced
<1>c. \A q \in Notifiers, j \in Slots :
        <<q, j>> # <<p, i>> => runs'[q][j].bad = runs[q][j].bad
  BY <1>b
<1>d. /\ YetToCount(w) = Cardinality(Owing(w)) /\ YetToCount(w)' = Cardinality(Owing(w)')
      /\ IsFiniteSet(Owing(w))
  <2>1. Owing(w) \in SUBSET (Notifiers \X Slots)
    BY DEF Owing
  <2>. QED
    BY <2>1, SlotSets, YetToCountType
<1>1. /\ <<p, i>> \in Owing(w) <=> w \in runs[p][i].bad
      /\ <<p, i>> \in Owing(w)' <=> w \in run.bad
  BY <1>b DEF Owing
<1>2. \A s \in Notifiers \X Slots : s # <<p, i>> => (s \in Owing(w)' <=> s \in Owing(w))
  BY <1>c DEF Owing
<1>3. Owing(w) \subseteq Notifiers \X Slots /\ Owing(w)' \subseteq Notifiers \X Slots
  BY DEF Owing
<1>4. CASE w \in run.bad <=> w \in runs[p][i].bad
  <2>1. Owing(w)' = Owing(w)
    <3>1. \A s \in Notifiers \X Slots : s \in Owing(w)' <=> s \in Owing(w)
      BY <1>1, <1>2, <1>4
    <3>. QED
      BY <1>3, <3>1
  <2>. QED
    BY <1>4, <1>d, <2>1
<1>5. CASE w \in run.bad /\ w \notin runs[p][i].bad
  <2>1. Owing(w)' = Owing(w) \cup {<<p, i>>} /\ <<p, i>> \notin Owing(w)
    BY <1>1, <1>2, <1>3, <1>5
  <2>. QED
    BY <1>5, <1>d, <2>1, FS_AddElement
<1>6. CASE w \notin run.bad /\ w \in runs[p][i].bad
  <2>1. Owing(w)' = Owing(w) \ {<<p, i>>} /\ <<p, i>> \in Owing(w)
    BY <1>1, <1>2, <1>3, <1>6
  <2>. QED
    BY <1>6, <1>d, <2>1, FS_RemoveElement
<1>. QED
  BY <1>4, <1>5, <1>6

(* A webhook whose count, failures and runs a step leaves alone.            *)
LEMMA CountUntouched ==
  ASSUME NEW w, CountedFor(w), failCount'[w] = failCount[w], failed'[w] = failed[w],
         YetToCount(w)' = YetToCount(w), excused \subseteq excused',
         \/ hook'[w] = hook[w]
         \/ hook'[w] = "deleted"
         \/ hook[w] = "unborn" /\ hook'[w] = "on"
  PROVE  CountedFor(w)'
BY DEF CountedFor

(* A webhook that is excused, when less of it is counted than before.       *)
LEMMA CountExcused ==
  ASSUME WebhookTypeOK, NEW w \in Hooks, CountedFor(w), w \in excused',
         hook'[w] = hook[w], failed'[w] = failed[w],
         failCount'[w] \in Nat, failCount'[w] <= failCount[w],
         YetToCount(w)' <= YetToCount(w)
  PROVE  CountedFor(w)'
<1>1. /\ FailLimit \in Nat /\ failCount[w] \in Nat /\ failed[w] \in Nat
      /\ YetToCount(w) \in Nat /\ YetToCount(w)' \in Nat
  BY WebhookAssumption, YetToCountType DEF WebhookTypeOK
<1>2. UpTo(FailLimit, failCount'[w] + YetToCount(w)')
        <= UpTo(FailLimit, failCount[w] + YetToCount(w))
  BY <1>1, UpToMonotone
<1>3. /\ UpTo(FailLimit, failCount[w] + YetToCount(w)) \in Nat
      /\ UpTo(FailLimit, failCount'[w] + YetToCount(w)') \in Nat
  BY <1>1 DEF UpTo
<1>. QED
  BY <1>1, <1>2, <1>3 DEF CountedFor

LEMMA OneRunSound ==
  ASSUME runs \in [Notifiers -> [Slots -> Run]], RunsSound,
         NEW p \in Notifiers, NEW i \in Slots, NEW run, Becomes(p, i, run), Sound(run),
         \A w \in Hooks : hook[w] # "unborn" => hook'[w] # "unborn",
         \A w \in Hooks : Handles(run, w) => hook'[w] # "unborn"
  PROVE  RunsSound'
<1>1. runs' = [runs EXCEPT ![p][i] = run]
  BY DEF Becomes
<1>2. /\ runs'[p][i] = run
      /\ \A q \in Notifiers, j \in Slots : q # p \/ j # i => runs'[q][j] = runs[q][j]
  BY <1>1, RunReplaced
<1>3. ASSUME NEW q \in Notifiers, NEW j \in Slots
      PROVE  /\ Sound(runs[q][j])'
             /\ \A w \in Hooks : Handles(runs[q][j], w)' => hook'[w] # "unborn"
  <2>1. CASE q = p /\ j = i
    BY <1>2, <2>1 DEF Sound, Handles
  <2>2. CASE q # p \/ j # i
    <3>1. runs'[q][j] = runs[q][j]
      BY <1>2, <2>2
    <3>. QED
      BY <3>1 DEF RunsSound, Sound, Handles
  <2>. QED
    BY <2>1, <2>2
<1>. QED
  BY <1>3 DEF RunsSound

(* A run moves on and settles nothing; it keeps or ends what it handled.    *)
LEMMA RunMovesQuietly ==
  ASSUME WebhookTypeOK, CountInv,
         NEW p \in Notifiers, NEW i \in Slots, NEW run, Becomes(p, i, run), Sound(run),
         run.bad = runs[p][i].bad,
         \A w \in Hooks : Handles(run, w) => hook[w] # "unborn",
         UNCHANGED <<hook, failCount, failed, excused>>
  PROVE  CountInv'
<1>1. runs \in [Notifiers -> [Slots -> Run]]
  BY DEF WebhookTypeOK
<1>2. RunsSound'
  BY <1>1, OneRunSound DEF CountInv
<1>3. ASSUME NEW w \in Hooks
      PROVE  CountedFor(w)'
  <2>1. YetToCount(w)' = YetToCount(w)
    BY <1>1, YetToCountMoves
  <2>. QED
    BY <2>1, CountUntouched DEF CountInv
<1>. QED
  BY <1>2, <1>3 DEF CountInv

LEMMA CountNext ==
  ASSUME WebhookTypeInv, CountInv, [WebhookNext]_webhookVars
  PROVE  CountInv'
<1>a. /\ runs \in [Notifiers -> [Slots -> Run]] /\ RunsPlaced /\ RunsSound
      /\ WebhookTypeOK /\ FailLimit \in Nat \ {0}
      /\ \A w \in Hooks : CountedFor(w)
      /\ \A w \in Hooks : failCount[w] \in 0 .. FailLimit /\ failed[w] \in 0 .. FailLimit
  BY WebhookAssumption DEF WebhookTypeInv, WebhookTypeOK, CountInv
<1>1. ASSUME NEW v \in Hooks, Register(v) \/ Delete(v) \/ Seal(v)
      PROVE  CountInv'
  <2>1. /\ UNCHANGED <<failCount, failed, excused, runs>>
        /\ \A w \in Hooks : \/ hook'[w] = hook[w]
                            \/ hook'[w] = "deleted"
                            \/ hook[w] = "unborn" /\ hook'[w] = "on"
    BY <1>1, <1>a DEF Register, Delete, Seal, WebhookTypeOK
  <2>2. ASSUME NEW w \in Hooks
        PROVE  CountedFor(w)'
    <3>1. YetToCount(w)' = YetToCount(w)
      BY <2>1 DEF YetToCount
    <3>. QED
      BY <1>a, <2>1, <3>1, CountUntouched
  <2>3. RunsSound'
    BY <1>a, <2>1 DEF RunsSound, Sound, Handles
  <2>. QED
    BY <2>2, <2>3 DEF CountInv
<1>2. CASE UNCHANGED <<hook, failCount, failed, excused, runs>>
  <2>1. ASSUME NEW w \in Hooks
        PROVE  CountedFor(w)'
    <3>1. YetToCount(w)' = YetToCount(w)
      BY <1>2 DEF YetToCount
    <3>. QED
      BY <1>2, <1>a, <3>1, CountUntouched
  <2>2. RunsSound'
    BY <1>2, <1>a DEF RunsSound, Sound, Handles
  <2>. QED
    BY <2>1, <2>2 DEF CountInv
<1>3. ASSUME NEW p \in Notifiers, NEW b \in Blocks, Notify(p, b)
      PROVE  CountInv'
  <2> DEFINE run == [Free EXCEPT !.phase = "select", !.block = b]
  <2>1. PICK i \in Slots : runs[p][i].phase = "idle" /\ Becomes(p, i, run)
    BY <1>3 DEF Notify, Is
  <2>2. runs[p][i].bad = {} /\ run.bad = {} /\ run.phase = "select"
    BY <1>a, <2>1 DEF RunsSound, Sound, Free
  <2>3. Sound(run) /\ \A w \in Hooks : ~Handles(run, w)
    BY <2>2 DEF Sound, Handles
  <2>4. UNCHANGED <<hook, failCount, failed, excused>>
    BY <1>3 DEF Notify
  <2> HIDE DEF run
  <2>. QED
    BY <1>a, <2>1, <2>2, <2>3, <2>4, RunMovesQuietly
<1>4. ASSUME NEW p \in Notifiers, NEW i \in Slots, Advance(p, i)
      PROVE  CountInv'
  <2> DEFINE r == runs[p][i]
  <2>a. /\ r \in Run /\ Placed(r) /\ Sound(r)
        /\ \A w \in Hooks : Handles(r, w) => hook[w] # "unborn"
    BY <1>a DEF RunsPlaced, RunsSound
  <2>b. ASSUME NEW run, Becomes(p, i, run), Sound(run), run.bad = r.bad,
               \A w \in Hooks : Handles(run, w) => hook[w] # "unborn",
               UNCHANGED <<hook, failCount, failed, excused>>
        PROVE  CountInv'
    BY <1>a, <2>b, RunMovesQuietly
  <2>c. Sound(Free) /\ Free.bad = {} /\ \A w \in Hooks : ~Handles(Free, w)
    BY DEF Sound, Free, Handles
  <2>d. ASSUME NEW run
        PROVE  Becomes(p, i, run) <=> runs' = [runs EXCEPT ![p][i] = run]
    BY DEF Becomes
  <2> HIDE DEF r
  <2>1. CASE Select(p, i)
    <3>1. PICK ws \in SUBSET Hooks :
            /\ ws = Selected(p, r.block)
            /\ Becomes(p, i, IF ws = {} THEN Free
                             ELSE [r EXCEPT !.phase = "hooks", !.todo = ws])
      BY <2>1 DEF Select, Selected, r
    <3>2. r.bad = {} /\ UNCHANGED <<hook, failCount, failed, excused>>
      BY <2>1, <2>a DEF Select, Is, r, Sound
    <3>3. CASE ws = {}
      BY <2>b, <2>c, <3>1, <3>2, <3>3
    <3>4. CASE ws # {}
      <4> DEFINE run == [r EXCEPT !.phase = "hooks", !.todo = ws]
      <4>1. run.phase = "hooks" /\ run.todo = ws /\ run.bad = {}
        BY <2>a, <3>2 DEF Run
      <4>2. Becomes(p, i, run)
        BY <3>1, <3>4
      <4>3. Sound(run) /\ \A w \in Hooks : Handles(run, w) => w \in ws
        BY <4>1 DEF Sound, Handles
      <4>4. \A w \in Hooks : Handles(run, w) => hook[w] # "unborn"
        BY <3>1, <4>3 DEF Selected
      <4> HIDE DEF run
      <4>. QED
        BY <2>b, <3>2, <4>1, <4>2, <4>3, <4>4
    <3>. QED
      BY <3>3, <3>4
  <2>2. CASE SelectFails(p, i) \/ ReleaseSlot(p, i)
    <3>1. /\ Becomes(p, i, Free) /\ r.bad = {}
          /\ UNCHANGED <<hook, failCount, failed, excused>>
      BY <2>2, <2>a DEF SelectFails, ReleaseSlot, Released, Is, Sound, r
    <3>. QED
      BY <2>b, <2>c, <3>1
  <2>3. CASE ClaimDelivery(p, i)
    <3>1. PICK w \in r.todo :
            Becomes(p, i, IF Deliverable(w, Without(r, w).block)
                          THEN [Without(r, w) EXCEPT !.phase = "post", !.now = w]
                          ELSE Without(r, w))
      BY <2>3 DEF ClaimDelivery, r
    <3> DEFINE run == [Without(r, w) EXCEPT !.phase = "post", !.now = w]
    <3>2. r.phase = "hooks" /\ UNCHANGED <<hook, failCount, failed, excused>>
      BY <2>3 DEF ClaimDelivery, Is, r
    <3>3. /\ Without(r, w).todo = r.todo \ {w} /\ Without(r, w).phase = "hooks"
          /\ Without(r, w).bad = r.bad
          /\ run.phase = "post" /\ run.now = w /\ run.todo = r.todo \ {w} /\ run.bad = r.bad
      BY <2>a, <3>2 DEF Run, Without
    <3>4. w \in Hooks /\ r.todo \cap r.bad = {}
      BY <2>a, <3>2 DEF Run, Sound
    <3>5. Sound(Without(r, w)) /\ Sound(run)
      BY <3>3, <3>4 DEF Sound
    <3>6. \A v \in Hooks : /\ Handles(Without(r, w), v) => Handles(r, v)
                           /\ Handles(run, v) => Handles(r, v)
      BY <3>2, <3>3 DEF Handles
    <3>7. CASE Deliverable(w, Without(r, w).block)
      <4>1. Becomes(p, i, run)
        BY <3>1, <3>7
      <4>2. run.bad = r.bad /\ \A v \in Hooks : Handles(run, v) => hook[v] # "unborn"
        BY <2>a, <3>3, <3>6
      <4> HIDE DEF run
      <4>. QED
        BY <2>b, <3>2, <3>5, <4>1, <4>2
    <3>8. CASE ~Deliverable(w, Without(r, w).block)
      <4>1. Becomes(p, i, Without(r, w))
        BY <3>1, <3>8
      <4>2. /\ Without(r, w).bad = r.bad
            /\ \A v \in Hooks : Handles(Without(r, w), v) => hook[v] # "unborn"
        BY <2>a, <3>3, <3>6
      <4>. QED
        BY <2>b, <3>2, <3>5, <4>1, <4>2
    <3>. QED
      BY <3>7, <3>8
  <2>4. CASE ClaimDeliveryFails(p, i)
    <3>1. PICK w \in r.todo : Becomes(p, i, Without(r, w))
      BY <2>4 DEF ClaimDeliveryFails, FailClosed, r
    <3>2. r.phase = "hooks" /\ UNCHANGED <<hook, failCount, failed, excused>>
      BY <2>4 DEF ClaimDeliveryFails, Is, r
    <3>3. /\ Without(r, w).todo = r.todo \ {w} /\ Without(r, w).phase = "hooks"
          /\ Without(r, w).bad = r.bad
      BY <2>a, <3>2 DEF Run, Without
    <3>4. Sound(Without(r, w)) /\ \A v \in Hooks : Handles(Without(r, w), v) => Handles(r, v)
      BY <2>a, <3>2, <3>3 DEF Sound, Handles
    <3>. QED
      BY <2>a, <2>b, <3>1, <3>2, <3>3, <3>4
  <2>5. CASE Deliver(p, i)
    <3>1. /\ r.phase = "post" /\ r.now \in Hooks /\ r.now \notin r.todo \cup r.bad
          /\ r.todo \cap r.bad = {} /\ hook[r.now] # "unborn"
          /\ UNCHANGED <<hook, failCount, excused>>
      BY <2>5, <2>a DEF Deliver, Is, r, Placed, Sound, Handles
    <3>2. CASE Delivered(p, i, r.now)
      <4> DEFINE run == [r EXCEPT !.phase = "hooks", !.now = None, !.ok = @ \cup {r.now}]
      <4>1. Becomes(p, i, run) /\ failed' = failed
        BY <3>2 DEF Delivered, r
      <4>2. run.phase = "hooks" /\ run.todo = r.todo /\ run.bad = r.bad
        BY <2>a DEF Run
      <4> HIDE DEF run
      <4>3. Sound(run) /\ \A v \in Hooks : Handles(run, v) => Handles(r, v)
        BY <3>1, <4>2 DEF Sound, Handles
      <4>. QED
        BY <2>a, <2>b, <3>1, <4>1, <4>2, <4>3
    <3>3. CASE Undelivered(p, i, r.now)
      <4> DEFINE run == [r EXCEPT !.phase = "hooks", !.now = None, !.bad = @ \cup {r.now}]
      <4>1. /\ Becomes(p, i, run)
            /\ failed' = [failed EXCEPT ![r.now] = UpTo(FailLimit, failed[r.now] + 1)]
        BY <3>3 DEF Undelivered, r
      <4>2. run.phase = "hooks" /\ run.todo = r.todo /\ run.bad = r.bad \cup {r.now}
        BY <2>a DEF Run
      <4> HIDE DEF run
      <4>3. Sound(run) /\ \A v \in Hooks : Handles(run, v) => Handles(r, v)
        BY <3>1, <4>2 DEF Sound, Handles
      <4>4. RunsSound'
        BY <1>a, <2>a, <3>1, <4>1, <4>3, OneRunSound
      <4>5. ASSUME NEW w \in Hooks
            PROVE  CountedFor(w)'
        <5>1. CASE w # r.now
          <6>1. w \in run.bad <=> w \in runs[p][i].bad
            BY <4>2, <5>1 DEF r
          <6>2. YetToCount(w)' = YetToCount(w)
            BY <1>a, <4>1, <6>1, YetToCountMoves
          <6>3. failed'[w] = failed[w]
            BY <1>a, <4>1, <5>1 DEF WebhookTypeOK
          <6>. QED
            BY <1>a, <3>1, <6>2, <6>3, CountUntouched
        <5>2. CASE w = r.now
          <6>1. w \in run.bad /\ w \notin runs[p][i].bad
            BY <3>1, <4>2, <5>2 DEF r
          <6>2. YetToCount(w)' = YetToCount(w) + 1 /\ YetToCount(w) \in Nat
            BY <1>a, <4>1, <6>1, YetToCountMoves, YetToCountType
          <6>3. failed'[w] = UpTo(FailLimit, failed[w] + 1)
            BY <1>a, <4>1, <5>2 DEF WebhookTypeOK
          <6>4. failCount'[w] = failCount[w] /\ hook'[w] = hook[w] /\ excused' = excused
            BY <3>1
          <6>5. /\ failCount[w] \in Nat /\ failed[w] \in 0 .. FailLimit
                /\ FailLimit \in Nat \ {0} /\ CountedFor(w)
            BY <1>a
          <6>6. /\ failed'[w] >= failed[w]
                /\ UpTo(FailLimit, failCount'[w] + YetToCount(w)') <= failed'[w]
                /\ UpTo(FailLimit, failCount[w] + YetToCount(w)) = failed[w] =>
                     UpTo(FailLimit, failCount'[w] + YetToCount(w)') = failed'[w]
            BY <6>2, <6>3, <6>4, <6>5 DEF CountedFor, UpTo
          <6>7. failed'[w] \in Nat
            BY <6>3, <6>5 DEF UpTo
          <6>. QED
            BY <6>4, <6>5, <6>6, <6>7 DEF CountedFor
        <5>. QED
          BY <5>1, <5>2
      <4>. QED
        BY <4>4, <4>5 DEF CountInv
    <3>. QED
      BY <2>5, <3>2, <3>3 DEF Deliver, r
  <2>6. CASE Reset(p, i)
    <3> DEFINE run == [r EXCEPT !.phase = "count", !.ok = {}]
    <3>1. /\ Becomes(p, i, run) /\ UNCHANGED <<hook, failed>>
          /\ excused' = excused \cup r.ok
          /\ \/ failCount' = failCount
             \/ failCount' = [w \in Hooks |-> IF w \in r.ok /\ hook[w] # "deleted"
                                              THEN 0 ELSE failCount[w]]
      BY <2>6 DEF Reset, r
    <3>2. run.phase = "count" /\ run.bad = r.bad
      BY <2>a DEF Run
    <3> HIDE DEF run
    <3>3. Sound(run) /\ \A v \in Hooks : Handles(run, v) => Handles(r, v)
      BY <3>2 DEF Sound, Handles
    <3>4. RunsSound'
      BY <1>a, <2>a, <3>1, <3>3, OneRunSound
    <3>5. ASSUME NEW w \in Hooks
          PROVE  CountedFor(w)'
      <4>1. w \in run.bad <=> w \in runs[p][i].bad
        BY <3>2 DEF r
      <4>2. YetToCount(w)' = YetToCount(w) /\ YetToCount(w) \in Nat
        BY <1>a, <3>1, <4>1, YetToCountMoves, YetToCountType
      <4>3. CASE failCount'[w] = failCount[w]
        BY <1>a, <3>1, <4>2, <4>3, CountUntouched
      <4>4. CASE failCount'[w] # failCount[w]
        <5>1. w \in r.ok /\ failCount'[w] = 0
          BY <3>1, <4>4
        <5>2. w \in excused' /\ failCount'[w] \in Nat /\ failCount'[w] <= failCount[w]
          BY <1>a, <3>1, <5>1
        <5>. QED
          BY <1>a, <3>1, <4>2, <5>2, CountExcused
      <4>. QED
        BY <4>3, <4>4
    <3>. QED
      BY <3>4, <3>5 DEF CountInv
  <2>7. CASE CountFailure(p, i)
    <3>1. PICK v \in r.bad :
           /\ Becomes(p, i, [r EXCEPT !.bad = @ \ {v}])
           /\ \/ /\ hook[v] # "deleted"
                 /\ failCount' = [failCount EXCEPT ![v] = Counted(@)]
                 /\ hook' = [hook EXCEPT ![v] = StillActive(v)]
                 /\ UNCHANGED excused
              \/ /\ excused' = excused \cup {v}
                 /\ UNCHANGED <<failCount, hook>>
      BY <2>7 DEF CountFailure, r
    <3> DEFINE run == [r EXCEPT !.bad = @ \ {v}]
    <3>2. /\ r.phase = "count" /\ v \in Hooks /\ failed' = failed
          /\ run.phase = "count" /\ run.bad = r.bad \ {v}
      BY <2>7, <2>a DEF CountFailure, Is, Run, r
    <3>3. Becomes(p, i, run) /\ excused \subseteq excused'
      BY <3>1
    <3> HIDE DEF run
    <3>4. Sound(run) /\ \A w \in Hooks : Handles(run, w) => Handles(r, w)
      BY <3>2 DEF Sound, Handles
    <3>5. \A w \in Hooks : /\ w # v => hook'[w] = hook[w] /\ failCount'[w] = failCount[w]
                           /\ hook[w] # "unborn" => hook'[w] # "unborn"
      BY <1>a, <3>1, <3>2 DEF WebhookTypeOK, StillActive
    <3>6. RunsSound'
      BY <1>a, <2>a, <3>3, <3>4, <3>5, OneRunSound
    <3>7. ASSUME NEW w \in Hooks, w # v
          PROVE  CountedFor(w)'
      <4>1. w \in run.bad <=> w \in runs[p][i].bad
        BY <3>2, <3>7 DEF r
      <4>2. YetToCount(w)' = YetToCount(w)
        BY <1>a, <3>3, <4>1, YetToCountMoves
      <4>. QED
        BY <1>a, <3>2, <3>3, <3>5, <3>7, <4>2, CountUntouched
    <3>8. CountedFor(v)'
      <4>1. v \notin run.bad /\ v \in runs[p][i].bad
        BY <3>1, <3>2 DEF r
      <4>2. /\ YetToCount(v)' = YetToCount(v) - 1
            /\ YetToCount(v) \in Nat /\ YetToCount(v)' \in Nat
        BY <1>a, <3>3, <4>1, YetToCountMoves, YetToCountType
      <4>3. CASE /\ excused' = excused \cup {v}
                 /\ UNCHANGED <<failCount, hook>>
        BY <1>a, <3>2, <4>2, <4>3, CountExcused
      <4>4. CASE /\ hook[v] # "deleted"
                 /\ failCount' = [failCount EXCEPT ![v] = Counted(@)]
                 /\ hook' = [hook EXCEPT ![v] = StillActive(v)]
                 /\ UNCHANGED excused
        <5>1. /\ failCount'[v] = UpTo(FailLimit, failCount[v] + 1)
              /\ hook'[v] = StillActive(v)
          BY <1>a, <3>2, <4>4 DEF WebhookTypeOK, Counted
        <5>2. /\ failCount[v] \in 0 .. FailLimit /\ failed[v] \in 0 .. FailLimit
              /\ failed'[v] = failed[v] /\ FailLimit \in Nat \ {0} /\ CountedFor(v)
          BY <1>a, <3>2
        <5>3. UpTo(FailLimit, failCount'[v] + YetToCount(v)')
                = UpTo(FailLimit, failCount[v] + YetToCount(v))
          BY <4>2, <5>1, <5>2 DEF UpTo
        <5>4. failCount[v] + 1 >= FailLimit => failed[v] >= FailLimit
          BY <4>2, <5>2 DEF CountedFor, UpTo
        <5>5. hook[v] # "unborn" /\ hook[v] \in {"unborn", "on", "off", "deleted"}
          BY <1>a, <2>a, <3>1, <3>2 DEF Handles, WebhookTypeOK
        <5>6. hook'[v] = "off" => failed[v] >= FailLimit \/ hook[v] = "deleted"
          <6>1. CASE hook[v] = "on"
            BY <5>1, <5>2, <5>4, <6>1 DEF StillActive
          <6>2. CASE hook[v] = "off"
            BY <5>2, <6>2 DEF CountedFor
          <6>. QED
            BY <5>5, <6>1, <6>2
        <5>. QED
          BY <4>4, <5>2, <5>3, <5>6 DEF CountedFor
      <4>. QED
        BY <3>1, <4>3, <4>4
    <3>. QED
      BY <3>6, <3>7, <3>8 DEF CountInv
  <2>. QED
    BY <1>4, <2>1, <2>2, <2>3, <2>4, <2>5, <2>6, <2>7 DEF Advance
<1>5. ASSUME NEW p \in Notifiers, NotifierDies(p)
      PROVE  CountInv'
  <2>1. /\ runs' = [runs EXCEPT ![p] = [i \in Slots |-> Free]]
        /\ excused' = excused \cup UNION {runs[p][i].bad : i \in Slots}
        /\ UNCHANGED <<hook, failCount, failed>>
    BY <1>5 DEF NotifierDies
  <2>2. Sound(Free) /\ Free.bad = {} /\ \A w \in Hooks : ~Handles(Free, w)
    BY DEF Sound, Free, Handles
  <2>3. \A q \in Notifiers, i \in Slots :
          runs'[q][i] = IF q = p THEN Free ELSE runs[q][i]
    BY <1>a, <2>1
  <2>4. RunsSound'
    <3>1. ASSUME NEW q \in Notifiers, NEW j \in Slots
          PROVE  /\ Sound(runs[q][j])'
                 /\ \A w \in Hooks : Handles(runs[q][j], w)' => hook'[w] # "unborn"
      BY <1>a, <2>1, <2>2, <2>3 DEF RunsSound, Sound, Handles
    <3>. QED
      BY <3>1 DEF RunsSound
  <2>5. ASSUME NEW w \in Hooks
        PROVE  CountedFor(w)'
    <3>1. /\ YetToCount(w) \in Nat /\ YetToCount(w)' \in Nat
          /\ YetToCount(w) = Cardinality(Owing(w)) /\ YetToCount(w)' = Cardinality(Owing(w)')
      BY YetToCountType
    <3>2. Owing(w)' \subseteq Owing(w)
      BY <2>2, <2>3 DEF Owing
    <3>3. CASE w \in excused'
      <4>1. Owing(w) \in SUBSET (Notifiers \X Slots)
        BY DEF Owing
      <4>2. YetToCount(w)' <= YetToCount(w)
        BY <3>1, <3>2, <4>1, SlotSets, FS_Subset
      <4>. QED
        BY <1>a, <2>1, <3>3, <4>2, CountExcused
    <3>4. CASE w \notin excused'
      <4>1. \A i \in Slots : w \notin runs[p][i].bad
        BY <2>1, <3>4
      <4>2. Owing(w)' = Owing(w)
        BY <2>2, <2>3, <3>2, <4>1 DEF Owing
      <4>3. YetToCount(w)' = YetToCount(w) /\ excused \subseteq excused'
        BY <2>1, <3>1, <4>2
      <4>. QED
        BY <1>a, <2>1, <4>3, CountUntouched
    <3>. QED
      BY <3>3, <3>4
  <2>. QED
    BY <2>4, <2>5 DEF CountInv
<1>. QED
  BY <1>1, <1>2, <1>3, <1>4, <1>5 DEF WebhookNext, Prune, webhookVars

LEMMA FailCountKept == WebhookSteps => []FailCountTrue
<1>1. WebhookInit => WebhookTypeInv /\ CountInv
  <2>1. WebhookInit => RunsPlaced
    BY DEF WebhookInit, RunsPlaced, Placed, Free
  <2>2. ASSUME WebhookInit
        PROVE  CountInv
    <3>1. RunsSound
      BY <2>2 DEF WebhookInit, RunsSound, Sound, Handles, Free
    <3>2. ASSUME NEW w \in Hooks
          PROVE  CountedFor(w)
      <4>1. Owing(w) = {}
        BY <2>2 DEF WebhookInit, Owing, Free
      <4>2. YetToCount(w) = 0
        BY <4>1, FS_EmptySet, YetToCountType
      <4>. QED
        BY <2>2, <4>2, WebhookAssumption DEF WebhookInit, CountedFor, UpTo
    <3>. QED
      BY <3>1, <3>2 DEF CountInv
  <2>. QED
    BY <2>1, <2>2, WebhookTypeInit DEF WebhookTypeInv
<1>2. CountInv => FailCountTrue
  BY DEF CountInv, CountedFor, FailCountTrue, DeactivationEarned, FailuresCounted
<1>. QED
  BY <1>1, <1>2, WebhookTypeNext, CountNext, PTL DEF WebhookSteps

(* The count of a webhook's failures is true, however runs overlap and die: *)
(* neither too high, nor, until a success or a lost settlement, too low.    *)
THEOREM FailCountHolds == WebhookSpec => []FailCountTrue
BY FailCountKept DEF WebhookSpec, WebhookSteps

-----------------------------------------------------------------------------
(* ProviderBudget.                                                          *)
(*                                                                          *)
(* Without Redis a process' memory is what it has spent this month; with    *)
(* Redis nobody has been refused by it while it takes writes, so the flag   *)
(* of one who was refused can only be cleared by a write that went through. *)

BudgetTypes ==
  /\ shared \in BOOLEAN /\ month \in Months
  /\ redis \in {"up", "full", "gone"}
  /\ unavailable \in [Processes -> BOOLEAN] /\ unwritable \in [Processes -> BOOLEAN]
  /\ ledger \in [Months -> 0 .. CuMax] /\ hourly \in 0 .. HourlyMax
  /\ memory \in [Processes -> [month : Months, cu : 0 .. CuMax, hourly : 0 .. HourlyMax]]
  /\ calls \in [Processes -> [month : Months, cost : Costs] \cup {NoCall}]
  /\ spent \in [Processes -> [Months -> Nat]] /\ billed \in [Months -> Nat]
  /\ refused \subseteq denied /\ denied \subseteq Processes

MemoryExact(p) ==
  ~shared =>
    /\ calls[p] = NoCall
    /\ spent[p][memory[p].month] = memory[p].cu
    /\ \A m \in Months : /\ spent[p][m] <= CuMax
                         /\ m > memory[p].month => spent[p][m] = 0
    /\ memory[p].month <= month

BudgetInv ==
  /\ BudgetTypes
  /\ DebitExact
  /\ ~shared => corrupted = {}
  /\ \A p \in Processes : MemoryExact(p)
  /\ redis = "up" => refused = {}
  /\ \A p \in refused : unwritable[p]

LEMMA BudgetNumbers ==
  /\ CuMax \in Nat /\ HourlyMax \in Nat /\ MaxMonth \in Nat \ {0}
  /\ Costs \subseteq Nat \ {0} /\ Months = 1 .. MaxMonth
  /\ NoCall \notin [month : Months, cost : Costs]
BY ProviderBudgetAssumption DEF Months, NoCall

LEMMA BudgetInitInv == ProviderBudgetInit => BudgetInv
<1>. SUFFICES ASSUME ProviderBudgetInit PROVE BudgetInv
  OBVIOUS
<1>1. 0 \in 0 .. CuMax /\ 0 \in 0 .. HourlyMax /\ 1 \in Months /\ 0 <= CuMax
  BY BudgetNumbers
<1>2. BudgetTypes
  BY <1>1 DEF ProviderBudgetInit, BudgetTypes
<1>3. DebitExact
  BY DEF ProviderBudgetInit, DebitExact
<1>4. ASSUME NEW p \in Processes PROVE MemoryExact(p)
  <2>1. /\ calls[p] = NoCall /\ memory[p] = [month |-> 1, cu |-> 0, hourly |-> 0] /\ month = 1
        /\ \A m \in Months : spent[p][m] = 0
    BY DEF ProviderBudgetInit
  <2>. QED
    BY <1>1, <2>1 DEF MemoryExact
<1>. QED
  BY <1>2, <1>3, <1>4 DEF ProviderBudgetInit, BudgetInv

(* Time and Redis charge nobody.                                            *)
LEMMA WorldKeepsBudget ==
  ASSUME BudgetInv, MonthTurns \/ HourTurns \/ RedisTurns \/ Corrupt
  PROVE  BudgetInv'
<1>a. BudgetTypes /\ DebitExact
  BY DEF BudgetInv
<1>1. CASE MonthTurns
  <2>1. /\ month' = month + 1 /\ month < MaxMonth /\ month \in Months
        /\ UNCHANGED <<shared, redis, unavailable, ledger, hourly, memory, unwritable, calls,
                       spent, billed, corrupted, denied, refused>>
    BY <1>1, <1>a DEF MonthTurns, spending, BudgetTypes
  <2>2. month' \in Months /\ month' >= month /\ month \in Nat
    BY <2>1, BudgetNumbers
  <2>3. BudgetTypes'
    BY <1>a, <2>1, <2>2 DEF BudgetTypes
  <2>4. ASSUME NEW p \in Processes PROVE MemoryExact(p)'
    <3>1. MemoryExact(p) /\ memory[p].month \in Nat
      BY <1>a, BudgetNumbers DEF BudgetInv, BudgetTypes
    <3>2. memory[p].month <= month => memory[p].month <= month'
      BY <2>1, <2>2, <3>1
    <3>. QED
      BY <2>1, <3>1, <3>2 DEF MemoryExact
  <2>. QED
    BY <2>1, <2>3, <2>4 DEF BudgetInv, DebitExact
<1>2. CASE HourTurns
  <2>1. /\ hourly' = 0 /\ memory' = [p \in Processes |-> [memory[p] EXCEPT !.hourly = 0]]
        /\ UNCHANGED <<shared, month, redis, unavailable, ledger, unwritable, calls,
                       spent, billed, corrupted, denied, refused>>
    BY <1>2 DEF HourTurns, spending
  <2>2. 0 \in 0 .. HourlyMax
    BY BudgetNumbers
  <2>3. ASSUME NEW p \in Processes
        PROVE  /\ memory'[p] \in [month : Months, cu : 0 .. CuMax, hourly : 0 .. HourlyMax]
               /\ memory'[p].month = memory[p].month /\ memory'[p].cu = memory[p].cu
    BY <1>a, <2>1, <2>2 DEF BudgetTypes
  <2>4. BudgetTypes'
    BY <1>a, <2>1, <2>2, <2>3 DEF BudgetTypes
  <2>5. \A p \in Processes : MemoryExact(p)'
    BY <2>1, <2>3 DEF BudgetInv, MemoryExact
  <2>. QED
    BY <2>1, <2>4, <2>5 DEF BudgetInv, DebitExact
<1>3. CASE RedisTurns
  <2>1. /\ redis' \in {"up", "full", "gone"}
        /\ denied' = IF redis' = "up" THEN {} ELSE denied
        /\ refused' = IF redis' = "up" THEN {} ELSE refused
        /\ UNCHANGED <<shared, month, unavailable, ledger, hourly, memory, unwritable, calls,
                       spent, billed, corrupted>>
    BY <1>3 DEF RedisTurns, spending
  <2>2. BudgetTypes'
    BY <1>a, <2>1 DEF BudgetTypes
  <2>. QED
    BY <2>1, <2>2 DEF BudgetInv, DebitExact, MemoryExact
<1>4. CASE Corrupt
  <2>1. /\ shared /\ ledger' = [ledger EXCEPT ![month] = 0]
        /\ corrupted' = corrupted \cup {month}
        /\ UNCHANGED <<shared, month, redis, unavailable, hourly, memory, unwritable, calls,
                       spent, billed, denied, refused>>
    BY <1>4 DEF Corrupt, spending
  <2>2. BudgetTypes'
    <3>1. 0 \in 0 .. CuMax
      BY BudgetNumbers
    <3>. QED
      BY <1>a, <2>1, <3>1 DEF BudgetTypes
  <2>3. DebitExact'
    BY <1>a, <2>1 DEF DebitExact, BudgetTypes
  <2>. QED
    BY <2>1, <2>2, <2>3 DEF BudgetInv, MemoryExact
<1>. QED
  BY <1>1, <1>2, <1>3, <1>4

(* A call that spends nothing.                                              *)
LEMMA UnspentKeepsBudget ==
  ASSUME BudgetInv,
         UNCHANGED <<shared, month, redis, ledger, hourly, memory, spent, billed, corrupted>>,
         unavailable' \in [Processes -> BOOLEAN], unwritable' \in [Processes -> BOOLEAN],
         calls' \in [Processes -> [month : Months, cost : Costs] \cup {NoCall}],
         ~shared => UNCHANGED calls,
         refused' \subseteq denied', denied' \subseteq Processes,
         redis = "up" => refused' = {},
         \A p \in refused' : unwritable'[p]
  PROVE  BudgetInv'
<1>1. BudgetTypes'
  BY DEF BudgetInv, BudgetTypes
<1>2. \A p \in Processes : MemoryExact(p)'
  BY DEF BudgetInv, MemoryExact
<1>. QED
  BY <1>1, <1>2 DEF BudgetInv, DebitExact

LEMMA AskingKeepsBudget ==
  ASSUME BudgetInv, NEW p \in Processes,
         \/ ClientNotices(p)
         \/ CallScript(p)
         \/ ScriptDenies(p)
         \/ ScriptThrows(p)
         \/ DeniedUnasked(p)
  PROVE  BudgetInv'
<1>a. /\ BudgetTypes
      /\ redis = "up" => refused = {}
      /\ \A q \in refused : unwritable[q]
      /\ unavailable \in [Processes -> BOOLEAN] /\ unwritable \in [Processes -> BOOLEAN]
      /\ calls \in [Processes -> [month : Months, cost : Costs] \cup {NoCall}]
      /\ refused \subseteq denied /\ denied \subseteq Processes
  BY DEF BudgetInv, BudgetTypes
<1>1. CASE ClientNotices(p)
  <2>1. /\ UNCHANGED <<shared, month, redis, ledger, hourly, memory, unwritable, calls, spent,
                       billed, corrupted, denied, refused>>
        /\ unavailable' = [unavailable EXCEPT ![p] = redis = "gone"]
    BY <1>1 DEF ClientNotices, spending
  <2>2. unavailable' \in [Processes -> BOOLEAN]
    BY <1>a, <2>1
  <2>. QED
    BY <1>a, <2>1, <2>2, UnspentKeepsBudget
<1>2. CASE CallScript(p)
  <2>1. /\ UNCHANGED <<shared, month, redis, unavailable, ledger, hourly, memory, unwritable,
                       spent, billed, corrupted, denied, refused>>
        /\ shared
    BY <1>2 DEF CallScript, spending
  <2>2. PICK cost \in Costs : calls' = [calls EXCEPT ![p] = [month |-> month, cost |-> cost]]
    BY <1>2 DEF CallScript
  <2>3. [month |-> month, cost |-> cost] \in [month : Months, cost : Costs]
    BY <1>a DEF BudgetTypes
  <2>4. calls' \in [Processes -> [month : Months, cost : Costs] \cup {NoCall}]
    BY <1>a, <2>2, <2>3
  <2>. QED
    BY <1>a, <2>1, <2>4, UnspentKeepsBudget
<1>b. ASSUME calls[p] # NoCall PROVE shared
  BY <1>b DEF BudgetInv, MemoryExact
<1>3. CASE ScriptDenies(p)
  <2>1. /\ UNCHANGED <<shared, month, redis, unavailable, ledger, hourly, memory, unwritable,
                       spent, billed, corrupted, denied, refused>>
        /\ calls' = [calls EXCEPT ![p] = NoCall] /\ shared
    BY <1>b, <1>3 DEF ScriptDenies, FlagAfterDenial, spending
  <2>2. calls' \in [Processes -> [month : Months, cost : Costs] \cup {NoCall}]
    BY <1>a, <2>1
  <2>. QED
    BY <1>a, <2>1, <2>2, UnspentKeepsBudget
<1>4. CASE ScriptThrows(p)
  <2>1. /\ UNCHANGED <<shared, month, redis, unavailable, ledger, hourly, memory,
                       spent, billed, corrupted>>
        /\ calls' = [calls EXCEPT ![p] = NoCall] /\ shared /\ redis # "up"
        /\ unwritable' = [unwritable EXCEPT ![p] = TRUE]
        /\ denied' = denied \cup {p} /\ refused' = refused \cup {p}
    BY <1>b, <1>4 DEF ScriptThrows, FailsClosed, spending
  <2>2. /\ calls' \in [Processes -> [month : Months, cost : Costs] \cup {NoCall}]
        /\ unwritable' \in [Processes -> BOOLEAN]
        /\ refused' \subseteq denied' /\ denied' \subseteq Processes
    BY <1>a, <2>1
  <2>3. \A q \in refused' : unwritable'[q]
    BY <1>a, <2>1
  <2>. QED
    BY <1>a, <2>1, <2>2, <2>3, UnspentKeepsBudget
<1>5. CASE DeniedUnasked(p)
  <2>1. /\ UNCHANGED <<shared, month, redis, unavailable, ledger, hourly, memory, unwritable,
                       calls, spent, billed, corrupted, refused>>
        /\ denied' = denied \cup {p}
    BY <1>5 DEF DeniedUnasked, FailsClosed, spending
  <2>. QED
    BY <1>a, <2>1, UnspentKeepsBudget
<1>. QED
  BY <1>1, <1>2, <1>3, <1>4, <1>5

LEMMA AdmittedKeepsBudget ==
  ASSUME BudgetInv, NEW p \in Processes, ScriptAdmits(p)
  PROVE  BudgetInv'
<1> DEFINE m0 == calls[p].month
           c0 == calls[p].cost
<1>1. BudgetTypes /\ DebitExact /\ shared /\ refused = {}
  BY DEF BudgetInv, MemoryExact, ScriptAdmits
<1>2. m0 \in Months /\ c0 \in Costs /\ c0 \in Nat
  <2>1. calls[p] \in [month : Months, cost : Costs]
    BY <1>1 DEF ScriptAdmits, BudgetTypes
  <2>. QED
    BY <2>1, BudgetNumbers
<1>3. /\ UNCHANGED <<shared, month, redis, unavailable, memory, corrupted, denied, refused>>
      /\ ledger' = [ledger EXCEPT ![m0] = ledger[m0] + c0] /\ hourly' = hourly + 1
      /\ spent' = [spent EXCEPT ![p][m0] = spent[p][m0] + c0]
      /\ billed' = [billed EXCEPT ![m0] = billed[m0] + c0]
      /\ unwritable' = [unwritable EXCEPT ![p] = FALSE]
      /\ calls' = [calls EXCEPT ![p] = NoCall]
      /\ ledger[m0] + c0 <= CuMax /\ hourly < HourlyMax
  BY DEF ScriptAdmits, Spend, Fits
<1>4. /\ ledger[m0] + c0 \in 0 .. CuMax /\ hourly + 1 \in 0 .. HourlyMax
      /\ billed[m0] + c0 \in Nat /\ spent[p][m0] + c0 \in Nat
  <2>1. /\ ledger[m0] \in 0 .. CuMax /\ hourly \in 0 .. HourlyMax
        /\ billed[m0] \in Nat /\ spent[p] \in [Months -> Nat]
    BY <1>1, <1>2 DEF BudgetTypes
  <2>2. spent[p][m0] \in Nat
    BY <1>2, <2>1
  <2>3. ledger[m0] + c0 <= CuMax /\ hourly < HourlyMax
    BY <1>3
  <2> HIDE DEF m0, c0
  <2>4. ledger[m0] + c0 \in 0 .. CuMax /\ hourly + 1 \in 0 .. HourlyMax
    BY <1>2, <2>1, <2>3, BudgetNumbers
  <2>5. billed[m0] + c0 \in Nat /\ spent[p][m0] + c0 \in Nat
    BY <1>2, <2>1, <2>2
  <2>. QED
    BY <2>4, <2>5
<1> HIDE DEF m0, c0
<1>5. BudgetTypes'
  <2>1. /\ ledger' \in [Months -> 0 .. CuMax] /\ billed' \in [Months -> Nat]
        /\ unwritable' \in [Processes -> BOOLEAN]
        /\ calls' \in [Processes -> [month : Months, cost : Costs] \cup {NoCall}]
    BY <1>1, <1>2, <1>3, <1>4 DEF BudgetTypes
  <2>2. spent' \in [Processes -> [Months -> Nat]]
    <3>1. spent[p] \in [Months -> Nat] /\ spent \in [Processes -> [Months -> Nat]]
      BY <1>1 DEF BudgetTypes
    <3>2. [spent[p] EXCEPT ![m0] = spent[p][m0] + c0] \in [Months -> Nat]
      BY <1>2, <1>4, <3>1
    <3>3. spent' = [spent EXCEPT ![p] = [spent[p] EXCEPT ![m0] = spent[p][m0] + c0]]
      BY <1>3
    <3>. QED
      BY <3>1, <3>2, <3>3
  <2>. QED
    BY <1>1, <1>3, <1>4, <2>1, <2>2 DEF BudgetTypes
<1>6. DebitExact'
  BY <1>1, <1>2, <1>3 DEF DebitExact, BudgetTypes
<1>. QED
  BY <1>1, <1>3, <1>5, <1>6 DEF BudgetInv, MemoryExact

(* Without Redis a process is charged to the present month, to which its    *)
(* memory is rolled first.                                                  *)
LEMMA MemoryKeepsBudget ==
  ASSUME BudgetInv, NEW p \in Processes, MemoryAdmits(p)
  PROVE  BudgetInv'
<1>1. /\ BudgetTypes /\ ~shared /\ MemoryExact(p) /\ corrupted = {}
      /\ \A q \in Processes : MemoryExact(q)
  BY DEF BudgetInv, MemoryAdmits
<1>2. PICK cost \in Costs :
        /\ Fits(Rolled(p).cu, Rolled(p).hourly, cost)
        /\ Remembers(p, cost)
        /\ Spend(p, month, cost)
  BY DEF MemoryAdmits
<1> DEFINE r == Rolled(p)
           held == [r EXCEPT !.cu = r.cu + cost, !.hourly = r.hourly + 1]
<1>3. /\ memory[p] \in [month : Months, cu : 0 .. CuMax, hourly : 0 .. HourlyMax]
      /\ month \in Months /\ month \in Nat /\ memory[p].month \in Nat
      /\ cost \in Nat /\ 0 \in 0 .. CuMax
  BY <1>1, BudgetNumbers DEF BudgetTypes
<1>4. /\ r \in [month : Months, cu : 0 .. CuMax, hourly : 0 .. HourlyMax]
      /\ r.month = month /\ r.cu = spent[p][month]
  <2>1. CASE memory[p].month = month
    BY <1>1, <1>3, <2>1 DEF Rolled, MemoryExact
  <2>2. CASE memory[p].month # month
    <3>1. r = [memory[p] EXCEPT !.month = month, !.cu = 0]
      BY <2>2 DEF Rolled
    <3>2. spent[p][month] = 0
      BY <1>1, <1>3, <2>2 DEF MemoryExact
    <3>. QED
      BY <1>3, <3>1, <3>2
  <2>. QED
    BY <2>1, <2>2
<1>5. /\ r.cu + cost \in 0 .. CuMax /\ r.hourly + 1 \in 0 .. HourlyMax
  BY <1>2, <1>3, <1>4, BudgetNumbers DEF Fits
<1>6. memory' = [memory EXCEPT ![p] = held]
  BY <1>2 DEF Remembers
<1> HIDE DEF r
<1>7. /\ held \in [month : Months, cu : 0 .. CuMax, hourly : 0 .. HourlyMax]
      /\ held.month = month /\ held.cu = spent[p][month] + cost
  BY <1>4, <1>5
<1> HIDE DEF held
<1>8. /\ UNCHANGED <<shared, month, redis, unavailable, ledger, hourly, unwritable, calls,
                     corrupted, denied, refused>>
      /\ spent' = [spent EXCEPT ![p][month] = spent[p][month] + cost]
      /\ billed' = [billed EXCEPT ![month] = billed[month] + cost]
  BY <1>2 DEF MemoryAdmits, Spend
<1>9. /\ memory' \in [Processes -> [month : Months, cu : 0 .. CuMax, hourly : 0 .. HourlyMax]]
      /\ memory'[p] = held /\ \A q \in Processes : q # p => memory'[q] = memory[q]
  BY <1>1, <1>6, <1>7 DEF BudgetTypes
<1>10. /\ spent' \in [Processes -> [Months -> Nat]] /\ billed' \in [Months -> Nat]
       /\ spent'[p] = [spent[p] EXCEPT ![month] = spent[p][month] + cost]
       /\ \A q \in Processes : q # p => spent'[q] = spent[q]
  <2>1. /\ spent \in [Processes -> [Months -> Nat]] /\ spent[p] \in [Months -> Nat]
        /\ billed \in [Months -> Nat]
    BY <1>1 DEF BudgetTypes
  <2>2. spent[p][month] + cost \in Nat /\ billed[month] + cost \in Nat
    BY <1>3, <2>1
  <2>3. [spent[p] EXCEPT ![month] = spent[p][month] + cost] \in [Months -> Nat]
    BY <1>3, <2>1, <2>2
  <2>4. spent' = [spent EXCEPT ![p] = [spent[p] EXCEPT ![month] = spent[p][month] + cost]]
    BY <1>8
  <2>. QED
    BY <1>3, <1>8, <2>1, <2>2, <2>3, <2>4
<1>11. BudgetTypes'
  BY <1>1, <1>8, <1>9, <1>10 DEF BudgetTypes
<1>12. MemoryExact(p)'
  <2>1. spent[p] \in [Months -> Nat]
    BY <1>1 DEF BudgetTypes
  <2>2. spent'[p][month] = spent[p][month] + cost /\ spent[p][month] + cost <= CuMax
    BY <1>3, <1>4, <1>5, <1>10, <2>1, BudgetNumbers
  <2>3. \A m \in Months : m # month => spent'[p][m] = spent[p][m]
    BY <1>10, <2>1
  <2>4. ASSUME NEW m \in Months
        PROVE  /\ spent'[p][m] <= CuMax
               /\ m > month => spent'[p][m] = 0
    <3>1. m \in Nat
      BY BudgetNumbers
    <3>. QED
      BY <1>1, <1>3, <2>2, <2>3, <3>1 DEF MemoryExact
  <2>5. calls'[p] = NoCall /\ memory'[p].month = month /\ memory'[p].cu = spent'[p][month]
    BY <1>1, <1>7, <1>8, <1>9, <2>2 DEF MemoryExact
  <2>. QED
    BY <1>3, <1>8, <2>4, <2>5 DEF MemoryExact
<1>13. ASSUME NEW q \in Processes PROVE MemoryExact(q)'
  <2>1. CASE q # p
    BY <1>1, <1>8, <1>9, <1>10, <2>1 DEF MemoryExact
  <2>. QED
    BY <1>12, <2>1
<1>. QED
  BY <1>1, <1>8, <1>11, <1>13 DEF BudgetInv, DebitExact

LEMMA BudgetNextInv ==
  ASSUME BudgetInv, [ProviderBudgetNext]_budgetVars
  PROVE  BudgetInv'
<1>1. CASE UNCHANGED budgetVars
  <2>1. UNCHANGED <<shared, month, redis, unavailable, ledger, hourly, memory, unwritable,
                    calls, spent, billed, corrupted, denied, refused>>
    BY <1>1 DEF budgetVars, spending
  <2>. QED
    BY <2>1 DEF BudgetInv, BudgetTypes, DebitExact, MemoryExact
<1>2. CASE ProviderBudgetNext
  BY <1>2, WorldKeepsBudget, AskingKeepsBudget, AdmittedKeepsBudget, MemoryKeepsBudget
  DEF ProviderBudgetNext
<1>. QED
  BY <1>1, <1>2

LEMMA BudgetKeeps == ProviderBudgetSpec => []BudgetInv
<1>. QED
  BY BudgetInitInv, BudgetNextInv, PTL DEF ProviderBudgetSpec

(* Every variable of the budget has its type, the ledgers within their      *)
(* ceilings.                                                                *)
THEOREM BudgetTypesHold == ProviderBudgetSpec => []ProviderBudgetTypeOK
<1>1. BudgetInv => ProviderBudgetTypeOK
  BY DEF BudgetInv, BudgetTypes, ProviderBudgetTypeOK
<1>. QED
  BY <1>1, BudgetKeeps, PTL

(* Whatever Redis does between a call's debit and its answer, the ledger is *)
(* what was spent, the spending is within the budget, and one who was       *)
(* refused by a full Redis shows it.                                        *)
THEOREM BudgetHolds == ProviderBudgetSpec => []BudgetKept
<1>1. BudgetInv => BudgetKept
  <2>. SUFFICES ASSUME BudgetInv PROVE BudgetKept
    OBVIOUS
  <2>1. CeilingHolds
    <3>. SUFFICES ASSUME NEW m \in Months, m \notin corrupted
                  PROVE  IF shared THEN billed[m] <= CuMax
                                   ELSE \A p \in Processes : spent[p][m] <= CuMax
      BY DEF CeilingHolds
    <3>1. CASE shared
      <4>1. billed[m] = ledger[m] /\ ledger[m] \in 0 .. CuMax
        BY <3>1 DEF BudgetInv, DebitExact, BudgetTypes
      <4>. QED
        BY <3>1, <4>1, BudgetNumbers
    <3>2. CASE ~shared
      BY <3>2 DEF BudgetInv, MemoryExact
    <3>. QED
      BY <3>1, <3>2
  <2>2. RefusalShown
    BY DEF BudgetInv, RefusalShown, HealthLimited
  <2>. QED
    BY <2>1, <2>2 DEF BudgetKept, BudgetInv
<1>. QED
  BY <1>1, BudgetKeeps, PTL

-----------------------------------------------------------------------------
(* TokenHealer.                                                             *)

LEMMA LeastNat ==
  ASSUME NEW S \in SUBSET Nat, S # {}
  PROVE  Min(S) \in S /\ \A n \in S : Min(S) <= n
<1>1. PICK m \in S : \A n \in S : ~ (<<n, m>> \in OpToRel(<, Nat))
  BY NatLessThanWellFounded, WFMin
<1>2. \A n \in S : m <= n
  <2>1. \A n \in S : ~ (n < m)
    BY <1>1, Zenon DEF OpToRel
  <2>2. \A n \in S : n \in Nat
    OBVIOUS
  <2>. QED
    BY <2>1, <2>2
<1>. QED
  BY <1>2 DEF Min

LEMMA LessOfTwo ==
  ASSUME NEW m \in Int, NEW n \in Int
  PROVE  /\ Min({m, n}) = IF m <= n THEN m ELSE n
         /\ Max({m, n}) = IF m >= n THEN m ELSE n
<1>1. \E x \in {m, n} : \A y \in {m, n} : x <= y
  OBVIOUS
<1>2. \E x \in {m, n} : \A y \in {m, n} : x >= y
  OBVIOUS
<1>3. Min({m, n}) \in {m, n} /\ Min({m, n}) <= m /\ Min({m, n}) <= n
  BY <1>1 DEF Min
<1>4. Max({m, n}) \in {m, n} /\ Max({m, n}) >= m /\ Max({m, n}) >= n
  BY <1>2 DEF Max
<1>. QED
  BY <1>3, <1>4

(* The list: each token has its place.                                      *)

LEMMA TokenNumbers ==
  /\ IsFiniteSet(Tokens) /\ Cardinality(Tokens) \in Nat
  /\ Tokens = 1 .. Cardinality(Tokens) /\ MaxHolders \in Nat
  /\ HeadLimit \in Nat \ {0} /\ Batch \in Nat \ {0} /\ StreakLimit \in Nat \ {0}
  /\ StrikeLimit \in Nat \ {0} /\ Window \in Nat \ {0}
BY TokenHealerAssumption, FS_CardinalityType

LEMMA Multiples ==
  ASSUME NEW a \in Nat, NEW b \in Nat, NEW k \in Nat, a < b
  PROVE  a * k \in Nat /\ b * k \in Nat /\ a * k + k <= b * k
<1>1. PICK d \in Nat : b = a + 1 + d
  <2>1. b - a - 1 \in Nat /\ b = a + 1 + (b - a - 1)
    OBVIOUS
  <2>. QED
    BY <2>1
<1>2. b * k = a * k + k + d * k
  BY <1>1
<1>3. d * k \in Nat /\ a * k \in Nat
  OBVIOUS
<1>. QED
  BY <1>2, <1>3

LEMMA PlaceBounds ==
  ASSUME NEW h \in 0 .. MaxHolders, NEW t \in Tokens
  PROVE  Place(h, t) \in Nat \ {0} /\ Place(h, t) < ListTop /\ ListTop \in Nat
<1> DEFINE k == Cardinality(Tokens) + 1
<1>1. k \in Nat /\ t \in Nat \ {0} /\ t < k /\ h \in Nat /\ MaxHolders + 1 \in Nat
      /\ h < MaxHolders + 1
  BY TokenNumbers
<1> HIDE DEF k
<1>2. /\ h * k \in Nat /\ (MaxHolders + 1) * k \in Nat
      /\ h * k + k <= (MaxHolders + 1) * k
  BY <1>1, Multiples
<1>3. Place(h, t) = h * k + t /\ ListTop = (MaxHolders + 1) * k + 0
  BY DEF Place, ListTop, k
<1>. QED
  BY <1>1, <1>2, <1>3

LEMMA PlacesDiffer ==
  ASSUME NEW h \in 0 .. MaxHolders, NEW g \in 0 .. MaxHolders, NEW t \in Tokens, NEW u \in Tokens,
         Place(h, t) = Place(g, u)
  PROVE  t = u
<1> DEFINE k == Cardinality(Tokens) + 1
<1>1. k \in Nat /\ t \in Nat \ {0} /\ t < k /\ u \in Nat \ {0} /\ u < k /\ h \in Nat /\ g \in Nat
  BY TokenNumbers
<1>2. h * k + t = g * k + u
  BY DEF Place
<1> HIDE DEF k
<1>3. h * k \in Nat /\ g * k \in Nat
  BY <1>1
<1>4. ~(h < g)
  <2>1. SUFFICES ASSUME h < g PROVE FALSE
    OBVIOUS
  <2>2. h * k + k <= g * k
    BY <1>1, <2>1, Multiples
  <2>. QED
    BY <1>1, <1>2, <1>3, <2>2
<1>5. ~(g < h)
  <2>1. SUFFICES ASSUME g < h PROVE FALSE
    OBVIOUS
  <2>2. g * k + k <= h * k
    BY <1>1, <2>1, Multiples
  <2>. QED
    BY <1>1, <1>2, <1>3, <2>2
<1>6. h = g
  BY <1>1, <1>4, <1>5
<1>. QED
  BY <1>1, <1>2, <1>3, <1>6

(* At most n rows are the first n, if no two have one place.                *)
LEMMA FirstRowsFew ==
  ASSUME NEW rows, IsFiniteSet(rows), NEW n \in Nat,
         \A r \in rows : r.place \in Nat,
         \A r, q \in rows : r.place = q.place => r = q
  PROVE  /\ FirstRows(rows, n) \subseteq rows
         /\ IsFiniteSet(FirstRows(rows, n))
         /\ Cardinality(FirstRows(rows, n)) <= n
<1> DEFINE first == FirstRows(rows, n)
           after(r) == {q \in rows : q.place > r.place}
<1>1. first \subseteq rows
  BY DEF FirstRows
<1>2. IsFiniteSet(first) /\ Cardinality(first) \in Nat
  BY <1>1, FS_Subset, FS_CardinalityType
<1>3. CASE first = {}
  BY <1>1, <1>2, <1>3, FS_EmptySet
<1>4. CASE first # {}
  <2> DEFINE places == {r.place : r \in first}
  <2>1. places \in SUBSET Nat /\ places # {}
    BY <1>1, <1>4
  <2> HIDE DEF places
  <2>2. Min(places) \in places /\ \A m \in places : Min(places) <= m
    BY <2>1, LeastNat
  <2>3. PICK r \in first : \A q \in first : r.place <= q.place
    BY <2>2 DEF places
  <2> HIDE DEF first
  <2>4. first \ {r} \subseteq after(r)
    <3>1. ASSUME NEW q \in first, q # r PROVE q.place > r.place
      <4>1. q \in rows /\ r \in rows /\ q.place \in Nat /\ r.place \in Nat /\ q.place # r.place
        BY <1>1, <3>1
      <4>. QED
        BY <2>3, <4>1
    <3>. QED
      BY <1>1, <3>1
  <2>5. IsFiniteSet(after(r)) /\ Cardinality(after(r)) \in Nat
    BY FS_Subset, FS_CardinalityType
  <2>6. Cardinality(after(r)) < n
    BY DEF FirstRows, first
  <2>7. Cardinality(first \ {r}) = Cardinality(first) - 1
    BY <1>2, FS_RemoveElement
  <2>8. Cardinality(first \ {r}) <= Cardinality(after(r))
    BY <2>4, <2>5, FS_Subset
  <2>9. Cardinality(first) <= n
    BY <1>2, <2>5, <2>6, <2>7, <2>8
  <2>. QED
    BY <1>1, <1>2, <2>9 DEF first
<1>. QED
  BY <1>3, <1>4

LEMMA ImageFinite ==
  ASSUME NEW S, IsFiniteSet(S), NEW f, f = [x \in S |-> f[x]]
  PROVE  /\ IsFiniteSet({f[x] : x \in S})
         /\ Cardinality({f[x] : x \in S}) <= Cardinality(S)
<1> DEFINE T == {f[x] : x \in S}
<1>1. f \in [S -> T] /\ \A t \in T : \E x \in S : f[x] = t
  OBVIOUS
<1> HIDE DEF T
<1>2. f \in Surjection(S, T)
  BY <1>1 DEF Surjection
<1>3. IsFiniteSet(T) /\ Cardinality(T) <= Cardinality(S)
  BY <1>2, FS_Surjection
<1>. QED
  BY <1>3 DEF T

(* Rows as one listing of the table reads them.                             *)

ListRow == [token : Tokens, place : 1 .. ListTop]
WalkRow == [token : Tokens, place : 1 .. ListTop, prev : 1 .. ListTop]

LEMMA AsReadFacts ==
  ASSUME holders \in [Tokens -> 0 .. MaxHolders], NEW rows, rows \subseteq AsRead(Tokens)
  PROVE  /\ IsFiniteSet(rows)
         /\ \A r \in rows : /\ r \in ListRow /\ r.token \in Tokens
                            /\ r.place = PlaceOf(r.token)
                            /\ r.place \in Nat \ {0} /\ r.place < ListTop
         /\ \A r, q \in rows : r.place = q.place => r = q
         /\ \A r, q \in rows : r.token = q.token => r = q
<1>1. IsFiniteSet(rows)
  <2> DEFINE f == [t \in Tokens |-> [token |-> t, place |-> PlaceOf(t)]]
  <2>1. AsRead(Tokens) = {f[t] : t \in Tokens}
    BY DEF AsRead
  <2>a. f = [t \in Tokens |-> f[t]]
    OBVIOUS
  <2> HIDE DEF f
  <2>2. IsFiniteSet({f[t] : t \in Tokens})
    BY <2>a, TokenNumbers, ImageFinite
  <2>. QED
    BY <2>1, <2>2, FS_Subset
<1>2. \A r \in rows : \E t \in Tokens : r = [token |-> t, place |-> PlaceOf(t)]
  BY DEF AsRead
<1>3. ASSUME NEW r \in rows
      PROVE  /\ r \in ListRow /\ r.token \in Tokens /\ r.place = PlaceOf(r.token)
             /\ r.place \in Nat \ {0} /\ r.place < ListTop
             /\ r = [token |-> r.token, place |-> PlaceOf(r.token)]
  <2>1. PICK t \in Tokens : r = [token |-> t, place |-> PlaceOf(t)]
    BY <1>2, <1>3
  <2>2. r.token = t /\ r.place = PlaceOf(t)
    BY <2>1
  <2>3. PlaceOf(t) \in Nat \ {0} /\ PlaceOf(t) < ListTop /\ ListTop \in Nat
    BY PlaceBounds DEF PlaceOf
  <2>4. r.place \in 1 .. ListTop
    BY <2>2, <2>3
  <2>. QED
    BY <2>1, <2>2, <2>3, <2>4 DEF ListRow
<1>4. \A r, q \in rows : r.token = q.token => r = q
  BY <1>3
<1>5. \A r, q \in rows : r.place = q.place => r = q
  <2>1. ASSUME NEW r \in rows, NEW q \in rows, r.place = q.place
        PROVE  r.token = q.token
    <3>1. /\ Place(holders[r.token], r.token) = Place(holders[q.token], q.token)
          /\ r.token \in Tokens /\ q.token \in Tokens
          /\ holders[r.token] \in 0 .. MaxHolders /\ holders[q.token] \in 0 .. MaxHolders
      BY <1>3, <2>1 DEF PlaceOf
    <3>. QED
      BY <3>1, PlacesDiffer
  <2>. QED
    BY <1>4, <2>1
<1>. QED
  BY <1>1, <1>3, <1>4, <1>5

LEMMA FirstOfListing ==
  ASSUME holders \in [Tokens -> 0 .. MaxHolders], NEW rows, rows \subseteq AsRead(Tokens),
         NEW n \in Nat
  PROVE  /\ FirstRows(rows, n) \subseteq rows /\ IsFiniteSet(FirstRows(rows, n))
         /\ Cardinality(FirstRows(rows, n)) \in Nat /\ Cardinality(FirstRows(rows, n)) <= n
<1>1. /\ IsFiniteSet(rows) /\ \A r \in rows : r.place \in Nat
      /\ \A r, q \in rows : r.place = q.place => r = q
  BY AsReadFacts
<1>. QED
  BY <1>1, FirstRowsFew, FS_CardinalityType

-----------------------------------------------------------------------------
(* A run takes at most Batch rows; those of the walk lie at or above where  *)
(* it has come to, and each remembers a place above its own.                *)

HealRuns ==
  [at : {"idle", "head", "page", "ask", "resume"}, head : SUBSET ListRow, tail : SUBSET WalkRow,
   todo : SUBSET (ListRow \cup WalkRow), pos : 0 .. ListTop, pages : Nat,
   streak : 0 .. StreakLimit, asked : SUBSET Tokens]

TokenTypes ==
  /\ open \subseteq Tokens
  /\ holders \in [Tokens -> 0 .. MaxHolders]
  /\ tried \in [Tokens -> 0 .. Window]
  /\ strikes \in [Tokens -> 0 .. StrikeLimit - 1]
  /\ cursor \in 1 .. ListTop
  /\ moves \in Nat
  /\ heal \in HealRuns

RunSound ==
  /\ IsFiniteSet(heal.head) /\ IsFiniteSet(heal.tail)
  /\ IsFiniteSet(heal.todo) /\ IsFiniteSet(heal.asked)
  /\ Cardinality(heal.todo) + Cardinality(heal.asked) <= Batch
  /\ heal.at \in {"idle", "head"} => heal = [NoRun EXCEPT !.at = heal.at]
  /\ heal.at = "page" =>
       /\ heal.todo = heal.head \cup heal.tail
       /\ heal.asked = {}
       /\ Cardinality(heal.head) + Cardinality(heal.tail) < Batch
       /\ \A r \in heal.tail : r.place >= heal.pos
  /\ heal.at \in {"page", "ask", "resume"} => heal.pos # 0
  /\ heal.at \in {"page", "ask"} => heal.streak < StreakLimit

TurnInv ==
  /\ \A r \in owed : r.place < cursor
  /\ \A r \in heal.tail : r.place < r.prev

TakenOnce ==
  moves = 0 =>
    /\ \A r \in heal.head \cup heal.tail : r.place = PlaceOf(r.token)
    /\ \A r, q \in heal.todo : r.token = q.token => r = q
    /\ \A r \in heal.todo : r.token \notin heal.asked

HealerInv == TokenTypes /\ RunSound /\ TurnInv /\ TakenOnce

(* TLC: HealerInv holds initially.                                          *)
LEMMA NoRunSound ==
  ASSUME NEW where \in {"idle", "head"}
  PROVE  LET run == [NoRun EXCEPT !.at = where]
         IN  /\ run \in HealRuns /\ run.at = where
             /\ run.head = {} /\ run.tail = {} /\ run.todo = {} /\ run.asked = {}
             /\ run = [NoRun EXCEPT !.at = run.at]
<1>1. 0 \in 0 .. ListTop /\ 0 \in 0 .. StreakLimit
  <2>1. ListTop \in Nat
    BY TokenNumbers, Multiples DEF ListTop, Place
  <2>. QED
    BY <2>1, TokenNumbers
<1>. QED
  BY <1>1 DEF NoRun, HealRuns

(* A run ends, or one begins, with nothing taken.                           *)
LEMMA EmptyRunKeeps ==
  ASSUME HealerInv, NEW where \in {"idle", "head"}, heal' = [NoRun EXCEPT !.at = where],
         UNCHANGED <<open, holders, strikes, moves>>,
         tried' \in [Tokens -> 0 .. Window],
         cursor' \in 1 .. ListTop, \A r \in owed' : r.place < cursor'
  PROVE  HealerInv'
<1>1. /\ heal' \in HealRuns /\ heal'.at = where
      /\ heal'.head = {} /\ heal'.tail = {} /\ heal'.todo = {} /\ heal'.asked = {}
      /\ heal' = [NoRun EXCEPT !.at = heal'.at]
  BY NoRunSound
<1>2. TokenTypes'
  BY <1>1 DEF HealerInv, TokenTypes
<1>3. RunSound'
  <2>1. IsFiniteSet({}) /\ Cardinality({}) = 0 /\ 0 + 0 <= Batch
    BY FS_EmptySet, TokenNumbers
  <2>. QED
    BY <1>1, <2>1 DEF RunSound
<1>4. TurnInv' /\ TakenOnce'
  BY <1>1 DEF TurnInv, TakenOnce
<1>. QED
  BY <1>2, <1>3, <1>4 DEF HealerInv

(* What the world does to the table leaves the run alone.                   *)
LEMMA WorldKeepsRun ==
  ASSUME HealerInv, HoldersMove \/ Throttle \/ UNCHANGED tokenVars
  PROVE  HealerInv'
<1>a. TokenTypes /\ RunSound /\ TurnInv /\ TakenOnce
  BY DEF HealerInv
<1>1. CASE HoldersMove
  <2>1. /\ UNCHANGED <<open, tried, strikes, cursor, heal, owed>>
        /\ moves' = moves + 1
    BY <1>1 DEF HoldersMove
  <2>2. holders' \in [Tokens -> 0 .. MaxHolders]
    BY <1>1, <1>a DEF HoldersMove, TokenTypes
  <2>3. moves' \in Nat /\ moves' # 0
    BY <1>a, <2>1 DEF TokenTypes
  <2>4. TokenTypes'
    BY <1>a, <2>1, <2>2, <2>3 DEF TokenTypes
  <2>5. RunSound' /\ TurnInv' /\ TakenOnce'
    BY <1>a, <2>1, <2>3 DEF RunSound, TurnInv, TakenOnce
  <2>. QED
    BY <2>4, <2>5 DEF HealerInv
<1>2. CASE Throttle \/ UNCHANGED tokenVars
  <2>1. UNCHANGED <<open, holders, tried, strikes, cursor, heal, moves, owed>>
    BY <1>2 DEF Throttle, tokenVars
  <2>. QED
    BY <1>a, <2>1 DEF HealerInv, TokenTypes, RunSound, TurnInv, TakenOnce, PlaceOf
<1>. QED
  BY <1>1, <1>2

LEMMA BeginKeeps ==
  ASSUME HealerInv, BeginRun \/ AbortHealRun
  PROVE  HealerInv'
<1>a. TokenTypes /\ RunSound /\ TurnInv /\ TakenOnce
  BY DEF HealerInv
<1>1. CASE BeginRun
  <2>1. /\ UNCHANGED <<open, holders, strikes, cursor, moves, owed>>
        /\ heal' = [NoRun EXCEPT !.at = "head"]
        /\ tried' = [t \in Tokens |-> Max({tried[t] - 1, 0})]
    BY <1>1 DEF BeginRun
  <2>2. ASSUME NEW t \in Tokens PROVE Max({tried[t] - 1, 0}) \in 0 .. Window
    <3>1. tried[t] \in 0 .. Window /\ Window \in Nat
      BY <1>a, TokenNumbers DEF TokenTypes
    <3>2. tried[t] - 1 \in Int /\ 0 \in Int
      BY <3>1
    <3>3. Max({tried[t] - 1, 0}) = IF tried[t] - 1 >= 0 THEN tried[t] - 1 ELSE 0
      BY <3>2, LessOfTwo
    <3>. QED
      BY <3>1, <3>3
  <2>3. tried' \in [Tokens -> 0 .. Window]
    BY <2>1, <2>2
  <2>4. cursor' \in 1 .. ListTop /\ \A r \in owed' : r.place < cursor'
    BY <1>a, <2>1 DEF TokenTypes, TurnInv
  <2>. QED
    BY <2>1, <2>3, <2>4, EmptyRunKeeps
<1>2. CASE AbortHealRun
  <2>1. /\ UNCHANGED <<open, holders, tried, strikes, cursor, moves, owed>>
        /\ heal' = NoRun
    BY <1>2 DEF AbortHealRun
  <2>2. heal' = [NoRun EXCEPT !.at = "idle"]
    BY <2>1 DEF NoRun
  <2>3. /\ tried' \in [Tokens -> 0 .. Window]
        /\ cursor' \in 1 .. ListTop /\ \A r \in owed' : r.place < cursor'
    BY <1>a, <2>1 DEF TokenTypes, TurnInv
  <2>. QED
    BY <2>1, <2>2, <2>3, EmptyRunKeeps
<1>. QED
  BY <1>1, <1>2

LEMMA ListHeadKeeps ==
  ASSUME HealerInv, ListHead
  PROVE  HealerInv'
<1>a. TokenTypes /\ RunSound /\ TurnInv /\ TakenOnce
  BY DEF HealerInv
<1> DEFINE listed == FirstRows(AsRead({t \in open : holders[t] >= HeadMin}), HeadLimit)
           first == FirstRows(Untried(listed), Batch)
           next == IF Cardinality(first) = Batch THEN "ask" ELSE "page"
<1>1. /\ UNCHANGED <<open, holders, tried, strikes, cursor, moves, owed>>
      /\ heal.at = "head"
      /\ heal' = [heal EXCEPT !.at = next, !.head = first, !.todo = first, !.pos = cursor]
  BY DEF ListHead
<1>2. /\ heal \in HealRuns /\ heal.tail = {} /\ heal.asked = {} /\ heal.streak = 0
      /\ cursor \in 1 .. ListTop /\ holders \in [Tokens -> 0 .. MaxHolders]
  BY <1>1, <1>a DEF RunSound, TokenTypes, NoRun
<1>3. /\ first \subseteq AsRead(Tokens) /\ IsFiniteSet(first)
      /\ Cardinality(first) \in Nat /\ Cardinality(first) <= Batch
  <2>1. Untried(listed) \subseteq AsRead(Tokens)
    BY <1>a DEF Untried, FirstRows, AsRead, TokenTypes
  <2>2. Batch \in Nat
    BY TokenNumbers
  <2> HIDE DEF listed
  <2>. QED
    BY <1>2, <2>1, <2>2, FirstOfListing
<1> HIDE DEF listed, first
<1>4. /\ \A r \in first : r \in ListRow /\ r.place = PlaceOf(r.token)
      /\ \A r, q \in first : r.token = q.token => r = q
  BY <1>2, <1>3, AsReadFacts
<1>5. /\ heal'.at = next /\ heal'.head = first /\ heal'.todo = first /\ heal'.pos = cursor
      /\ heal'.tail = {} /\ heal'.asked = {} /\ heal'.streak = 0
  BY <1>1, <1>2 DEF HealRuns
<1>6. heal' \in HealRuns
  <2>1. first \in SUBSET ListRow /\ first \in SUBSET (ListRow \cup WalkRow) /\ cursor \in 0 .. ListTop
    BY <1>2, <1>4
  <2>2. next \in {"idle", "head", "page", "ask", "resume"}
    OBVIOUS
  <2> HIDE DEF next
  <2>. QED
    BY <1>1, <1>2, <2>1, <2>2 DEF HealRuns
<1>7. TokenTypes'
  BY <1>1, <1>6, <1>a DEF TokenTypes
<1>8. RunSound'
  <2>1. /\ IsFiniteSet({}) /\ Cardinality({}) = 0
        /\ Cardinality(first) + 0 <= Batch
        /\ next = "page" => Cardinality(first) + 0 < Batch
    BY <1>3, FS_EmptySet, TokenNumbers
  <2>2. cursor # 0 /\ 0 < StreakLimit
    BY <1>2, TokenNumbers
  <2>3. first = first \cup {} /\ next \notin {"idle", "head"}
    OBVIOUS
  <2> HIDE DEF next
  <2>. QED
    BY <1>3, <1>5, <2>1, <2>2, <2>3 DEF RunSound
<1>9. TurnInv'
  BY <1>1, <1>5, <1>a DEF TurnInv
<1>10. TakenOnce'
  BY <1>1, <1>4, <1>5 DEF TakenOnce, PlaceOf
<1>. QED
  BY <1>7, <1>8, <1>9, <1>10 DEF HealerInv

(* The row just taken lies below the place the walk would resume at for it. *)
LEMMA BeforeFacts ==
  ASSUME TokenTypes, heal.pos # 0, NEW page, page \subseteq AsRead(Tokens),
         NEW r \in page, \A q \in page : q.place < heal.pos
  PROVE  Before(r, page) \in 1 .. ListTop /\ r.place < Before(r, page)
<1> DEFINE above == {heal.pos} \cup {q.place : q \in {p \in page : p.place > r.place}}
<1>1. heal.pos \in 1 .. ListTop /\ ListTop \in Nat
  <2>1. heal.pos \in 0 .. ListTop
    BY DEF TokenTypes, HealRuns
  <2>2. ListTop \in Nat
    BY TokenNumbers, Multiples DEF ListTop, Place
  <2>. QED
    BY <2>1, <2>2
<1>2. \A q \in page : q.place \in 1 .. ListTop
  <2>1. holders \in [Tokens -> 0 .. MaxHolders]
    BY DEF TokenTypes
  <2>2. \A q \in page : q \in ListRow
    BY <2>1, AsReadFacts
  <2>. QED
    BY <2>2 DEF ListRow
<1>3. \A n \in above : n \in 1 .. ListTop /\ r.place < n
  BY <1>1, <1>2
<1>4. above \in SUBSET Nat /\ above # {}
  BY <1>1, <1>3
<1>5. Before(r, page) = Min(above)
  BY DEF Before
<1> HIDE DEF above
<1>6. Min(above) \in above
  BY <1>4, LeastNat
<1>. QED
  BY <1>3, <1>5, <1>6

LEMMA ReadPageKeeps ==
  ASSUME HealerInv, ReadPage
  PROVE  HealerInv'
<1>a. TokenTypes /\ RunSound /\ TurnInv /\ TakenOnce
  BY DEF HealerInv
<1> DEFINE page  == FirstRows(AsRead({t \in open : PlaceOf(t) < heal.pos}), PageRows)
           fresh == Excluded(Untried(page))
           taken == FirstRows(fresh, Wanted - Cardinality(heal.tail))
           row   == [r \in taken |-> [token |-> r.token, place |-> r.place,
                                      prev |-> Before(r, page)]]
           added == {row[r] : r \in taken}
           tail  == heal.tail \cup added
           filled == Cardinality(tail) >= Wanted
           ended  == ~filled /\ Cardinality(page) < PageRows
           places == IF filled THEN {r.place : r \in taken} ELSE {r.place : r \in page}
           stop  == IF ended THEN ListTop ELSE IF places = {} THEN heal.pos ELSE Min(places)
           next  == IF filled \/ ended \/ heal.pages + 1 = MaxPages THEN "ask" ELSE "page"
<1>1. /\ UNCHANGED <<open, holders, tried, strikes, cursor, moves, owed>>
      /\ heal.at = "page"
      /\ heal' = [heal EXCEPT !.tail = tail, !.pages = heal.pages + 1, !.pos = stop,
                              !.at = next, !.todo = heal.todo \cup tail]
  <2>1. {[token |-> r.token, place |-> r.place, prev |-> Before(r, page)] : r \in taken} = added
    OBVIOUS
  <2> HIDE DEF row, page, fresh, taken
  <2>. QED
    BY <2>1 DEF ReadPage, page, fresh, taken
<1>2. /\ heal \in HealRuns /\ heal.asked = {} /\ heal.todo = heal.head \cup heal.tail
      /\ IsFiniteSet(heal.head) /\ IsFiniteSet(heal.tail)
      /\ Cardinality(heal.head) \in Nat /\ Cardinality(heal.tail) \in Nat
      /\ Cardinality(heal.head) + Cardinality(heal.tail) < Batch
      /\ \A r \in heal.tail : r.place >= heal.pos
      /\ heal.pos # 0 /\ heal.streak < StreakLimit
      /\ holders \in [Tokens -> 0 .. MaxHolders]
  BY <1>1, <1>a, FS_CardinalityType DEF RunSound, TokenTypes
<1>3. heal.pos \in 1 .. ListTop /\ ListTop \in Nat /\ PageRows \in Nat \ {0}
      /\ Wanted - Cardinality(heal.tail) \in Nat \ {0}
  <2>1. ListTop \in Nat
    BY TokenNumbers, Multiples DEF ListTop, Place
  <2>2. heal.pos \in 0 .. ListTop
    BY <1>2 DEF HealRuns
  <2>3. Batch \in Nat \ {0}
    BY TokenNumbers
  <2>. QED
    BY <1>2, <2>1, <2>2, <2>3 DEF PageRows, Wanted
<1>4. /\ page \subseteq AsRead(Tokens)
      /\ \A r \in page : r \in ListRow /\ r.place = PlaceOf(r.token) /\ r.place < heal.pos
  <2>1. page \subseteq AsRead({t \in open : PlaceOf(t) < heal.pos})
    BY DEF FirstRows
  <2>2. open \subseteq Tokens
    BY <1>a DEF TokenTypes
  <2> HIDE DEF page
  <2>3. page \subseteq AsRead(Tokens)
    BY <2>1, <2>2 DEF AsRead
  <2>4. \A r \in page : r \in ListRow /\ r.place = PlaceOf(r.token)
    BY <1>2, <2>3, AsReadFacts
  <2>5. \A r \in page : r.place < heal.pos
    BY <2>1 DEF AsRead
  <2>. QED
    BY <2>3, <2>4, <2>5
<1> HIDE DEF page
<1>5. /\ taken \subseteq page /\ IsFiniteSet(taken) /\ Cardinality(taken) \in Nat
      /\ Cardinality(taken) <= Wanted - Cardinality(heal.tail)
      /\ \A r \in taken : \A h \in heal.head : h.token # r.token
  <2>1. fresh \subseteq page /\ \A r \in fresh : \A h \in heal.head : h.token # r.token
    BY DEF Excluded, Untried
  <2>2. fresh \subseteq AsRead(Tokens)
    BY <1>4, <2>1
  <2> HIDE DEF fresh
  <2>3. /\ taken \subseteq fresh /\ IsFiniteSet(taken) /\ Cardinality(taken) \in Nat
        /\ Cardinality(taken) <= Wanted - Cardinality(heal.tail)
    BY <1>2, <1>3, <2>2, FirstOfListing
  <2> HIDE DEF taken
  <2>. QED
    BY <2>1, <2>3
<1> HIDE DEF fresh, taken
<1>6. ASSUME NEW w \in added
      PROVE  \E r \in taken : /\ w.token = r.token /\ w.place = r.place
                              /\ w \in WalkRow /\ w.place < w.prev
  <2>1. PICK r \in taken : w = [token |-> r.token, place |-> r.place, prev |-> Before(r, page)]
    BY <1>6
  <2>2. r \in page /\ r \in ListRow /\ r.place < heal.pos
    BY <1>4, <1>5
  <2>3. Before(r, page) \in 1 .. ListTop /\ r.place < Before(r, page)
    BY <1>2, <1>4, <1>a, <2>2, BeforeFacts
  <2>4. w.token = r.token /\ w.place = r.place /\ w.prev = Before(r, page)
    BY <2>1
  <2>5. r.token \in Tokens /\ r.place \in 1 .. ListTop
    BY <2>2 DEF ListRow
  <2>6. w \in WalkRow
    BY <2>1, <2>3, <2>5 DEF WalkRow
  <2>. QED
    BY <2>3, <2>4, <2>6
<1>7. IsFiniteSet(added) /\ Cardinality(added) \in Nat /\ Cardinality(added) <= Cardinality(taken)
  <2>1. row = [r \in taken |-> row[r]]
    OBVIOUS
  <2> HIDE DEF row
  <2>. QED
    BY <1>5, <2>1, ImageFinite, FS_CardinalityType
<1> HIDE DEF row, added
<1>8. /\ IsFiniteSet(tail) /\ Cardinality(tail) \in Nat
      /\ Cardinality(tail) <= Wanted
  <2>1. Cardinality(tail) = Cardinality(heal.tail) + Cardinality(added)
                              - Cardinality(heal.tail \cap added)
        /\ IsFiniteSet(tail) /\ IsFiniteSet(heal.tail \cap added)
    BY <1>2, <1>7, FS_Union, FS_Intersection
  <2>2. Cardinality(heal.tail \cap added) \in Nat /\ Cardinality(tail) \in Nat
    BY <2>1, FS_CardinalityType
  <2>3. Batch \in Nat
    BY TokenNumbers
  <2> HIDE DEF tail
  <2>. QED
    BY <1>2, <1>5, <1>7, <2>1, <2>2, <2>3 DEF Wanted
<1>9. Wanted \in Nat /\ Cardinality(heal.head) + Wanted = Batch
  <2>1. Batch \in Nat
    BY TokenNumbers
  <2>. QED
    BY <1>2, <2>1 DEF Wanted
<1>10. \A r \in page : r.place \in 1 .. ListTop
  BY <1>4 DEF ListRow
<1>11. /\ stop \in 1 .. ListTop
       /\ next = "page" => page # {} /\ \A r \in page : stop <= r.place
  <2>1. places \in SUBSET Nat /\ \A n \in places : n \in 1 .. ListTop
    BY <1>5, <1>10
  <2>2. next = "page" => ~filled /\ ~ended /\ Cardinality(page) >= PageRows
    <3>1. Cardinality(page) \in Nat
      BY <1>2, <1>4, AsReadFacts, FS_CardinalityType
    <3>2. next = "page" => ~filled /\ ~ended
      OBVIOUS
    <3>. QED
      BY <1>3, <3>1, <3>2
  <2>3. next = "page" => page # {}
    <3>1. page = {} => Cardinality(page) = 0
      BY FS_EmptySet
    <3>. QED
      BY <1>3, <2>2, <3>1
  <2>4. next = "page" => places = {r.place : r \in page} /\ places # {}
    BY <2>2, <2>3
  <2> HIDE DEF places
  <2>5. places # {} => Min(places) \in places /\ \A n \in places : Min(places) <= n
    BY <2>1, LeastNat
  <2>6. stop \in 1 .. ListTop
    <3>1. ListTop \in 1 .. ListTop
      BY <1>3
    <3>2. places # {} => Min(places) \in 1 .. ListTop
      BY <2>1, <2>5
    <3>3. stop \in {ListTop, heal.pos} \/ (places # {} /\ stop = Min(places))
      OBVIOUS
    <3>. QED
      BY <1>3, <3>1, <3>2, <3>3
  <2>7. next = "page" => stop = Min(places)
    BY <2>2, <2>4
  <2>. QED
    BY <2>3, <2>4, <2>5, <2>6, <2>7
<1>12. next \in {"ask", "page"} /\ (next = "page" => Cardinality(tail) < Wanted)
  BY <1>8, <1>9
<1> HIDE DEF tail, stop, next
<1>13. /\ heal'.at = next /\ heal'.head = heal.head /\ heal'.tail = tail /\ heal'.pos = stop
       /\ heal'.todo = heal.head \cup tail /\ heal'.asked = {} /\ heal'.streak = heal.streak
  <2>1. heal.todo \cup tail = heal.head \cup tail
    BY <1>2 DEF tail
  <2>. QED
    BY <1>1, <1>2, <2>1 DEF HealRuns
<1>14. heal' \in HealRuns
  <2>1. heal.head \in SUBSET ListRow /\ heal.tail \in SUBSET WalkRow /\ heal.pages + 1 \in Nat
    BY <1>2 DEF HealRuns
  <2>2. tail \in SUBSET WalkRow
    BY <1>6, <2>1 DEF tail
  <2>3. heal.todo \cup tail \in SUBSET (ListRow \cup WalkRow)
    BY <1>2, <2>1, <2>2
  <2>4. stop \in 0 .. ListTop /\ next \in {"idle", "head", "page", "ask", "resume"}
    BY <1>11, <1>12
  <2>. QED
    BY <1>1, <1>2, <2>1, <2>2, <2>3, <2>4 DEF HealRuns
<1>15. TokenTypes'
  BY <1>1, <1>14, <1>a DEF TokenTypes
<1>16. RunSound'
  <2>1. /\ IsFiniteSet({}) /\ Cardinality({}) = 0
        /\ IsFiniteSet(heal.head \cup tail)
        /\ Cardinality(heal.head \cup tail) = Cardinality(heal.head) + Cardinality(tail)
                                                - Cardinality(heal.head \cap tail)
        /\ Cardinality(heal.head \cup tail) \in Nat
        /\ Cardinality(heal.head \cap tail) \in Nat
    BY <1>2, <1>8, FS_EmptySet, FS_Union, FS_Intersection, FS_CardinalityType
  <2>2. Cardinality(heal.head \cup tail) + 0 <= Batch
    BY <1>2, <1>8, <1>9, <2>1
  <2>3. next = "page" => Cardinality(heal.head) + Cardinality(tail) < Batch
    BY <1>2, <1>8, <1>9, <1>12
  <2>4. next = "page" => \A r \in tail : r.place >= stop
    <3>1. SUFFICES ASSUME next = "page", NEW w \in tail PROVE w.place >= stop
      OBVIOUS
    <3>2. PICK r \in page : TRUE
      BY <1>11, <3>1
    <3>3. CASE w \in added
      <4>1. PICK q \in taken : w.place = q.place
        BY <1>6, <3>3
      <4>. QED
        BY <1>5, <1>10, <1>11, <3>1, <4>1
    <3>4. CASE w \in heal.tail
      <4>1. w.place >= heal.pos /\ w.place \in Nat
        BY <1>2, <3>4 DEF HealRuns, WalkRow
      <4>2. stop <= r.place /\ r.place < heal.pos
        BY <1>4, <1>11, <3>1, <3>2
      <4>. QED
        BY <1>3, <1>10, <1>11, <4>1, <4>2
    <3>. QED
      BY <3>3, <3>4 DEF tail
  <2>5. stop # 0
    BY <1>3, <1>11
  <2>. QED
    BY <1>2, <1>8, <1>12, <1>13, <2>1, <2>2, <2>3, <2>4, <2>5 DEF RunSound
<1>17. TurnInv'
  <2>1. \A w \in tail : w.place < w.prev
    BY <1>6, <1>a DEF TurnInv, tail
  <2>. QED
    BY <1>1, <1>13, <1>a, <2>1 DEF TurnInv
<1>18. TakenOnce'
  <2>. SUFFICES ASSUME moves = 0
       PROVE  /\ \A r \in heal.head \cup tail : r.place = PlaceOf(r.token)
              /\ \A r, q \in heal.head \cup tail : r.token = q.token => r = q
    BY <1>1, <1>13 DEF TakenOnce, PlaceOf
  <2>1. /\ \A r \in heal.head \cup heal.tail : r.place = PlaceOf(r.token)
        /\ \A r, q \in heal.head \cup heal.tail : r.token = q.token => r = q
    BY <1>2, <1>a DEF TakenOnce
  <2>2. \A w \in added : w.place = PlaceOf(w.token) /\ w.place < heal.pos
    BY <1>4, <1>5, <1>6
  <2>3. ASSUME NEW w \in added, NEW q \in heal.head \cup heal.tail PROVE w.token # q.token
    <3>1. CASE q \in heal.head
      BY <1>5, <1>6, <3>1
    <3>2. CASE q \in heal.tail
      <4>1. q.place >= heal.pos /\ q.place = PlaceOf(q.token) /\ q.place \in Nat
        BY <1>2, <2>1, <3>2 DEF HealRuns, WalkRow
      <4>2. w.place \in Nat
        BY <1>6 DEF WalkRow
      <4>. QED
        BY <1>3, <2>2, <4>1, <4>2
    <3>. QED
      BY <3>1, <3>2
  <2>4. ASSUME NEW w \in added, NEW v \in added, w.token = v.token PROVE w = v
    <3>1. PICK r \in taken, q \in taken : row[r] = w /\ row[q] = v
      BY <2>4 DEF added
    <3>2. r.token = q.token
      BY <2>4, <3>1 DEF row
    <3>3. r = q
      BY <1>2, <1>4, <1>5, <3>2, AsReadFacts
    <3>. QED
      BY <3>1, <3>3
  <2>. QED
    BY <2>1, <2>2, <2>3, <2>4 DEF tail
<1>. QED
  BY <1>15, <1>16, <1>17, <1>18 DEF HealerInv

LEMMA AskKeeps ==
  ASSUME HealerInv, AskToken
  PROVE  HealerInv'
<1>a. TokenTypes /\ RunSound /\ TurnInv /\ TakenOnce
  BY DEF HealerInv
<1>1. heal.at = "ask" /\ UNCHANGED <<holders, cursor, moves, owed>>
  BY DEF AskToken
<1>2. PICK r \in NextToAsk, settled \in BOOLEAN :
        LET t      == r.token
            failing == throttled \/ Nature[t] = "aborts"
            struck == IF failing THEN Min({strikes[t] + 1, StrikeLimit}) ELSE 0
            marks  == MarksTried(failing, struck)
            streak == IF failing THEN heal.streak + 1 ELSE 0
        IN  /\ open' = IF settled THEN open \ {t} ELSE open
            /\ tried' = IF marks THEN [tried EXCEPT ![t] = Window] ELSE tried
            /\ strikes' = [strikes EXCEPT ![t] = IF marks THEN 0 ELSE struck]
            /\ heal' = [heal EXCEPT !.todo = heal.todo \ {r}, !.streak = streak,
                                    !.asked = heal.asked \cup {t},
                                    !.at = IF streak >= StreakLimit THEN "resume" ELSE heal.at]
  BY DEF AskToken
<1> DEFINE t      == r.token
           failing == throttled \/ Nature[t] = "aborts"
           struck == IF failing THEN Min({strikes[t] + 1, StrikeLimit}) ELSE 0
           marks  == MarksTried(failing, struck)
           streak == IF failing THEN heal.streak + 1 ELSE 0
           next   == IF streak >= StreakLimit THEN "resume" ELSE "ask"
<1>3. /\ open' = IF settled THEN open \ {t} ELSE open
      /\ tried' = IF marks THEN [tried EXCEPT ![t] = Window] ELSE tried
      /\ strikes' = [strikes EXCEPT ![t] = IF marks THEN 0 ELSE struck]
      /\ heal' = [heal EXCEPT !.todo = heal.todo \ {r}, !.streak = streak,
                              !.asked = heal.asked \cup {t}, !.at = next]
  BY <1>1, <1>2
<1>4. /\ heal \in HealRuns /\ heal.streak < StreakLimit /\ heal.pos # 0
      /\ IsFiniteSet(heal.todo) /\ IsFiniteSet(heal.asked)
      /\ IsFiniteSet(heal.head) /\ IsFiniteSet(heal.tail)
      /\ Cardinality(heal.todo) + Cardinality(heal.asked) <= Batch
  BY <1>1, <1>a DEF RunSound, TokenTypes
<1>5. r \in heal.todo /\ t \in Tokens
  <2>1. r \in heal.todo
    BY DEF NextToAsk, FirstRows
  <2>2. heal.todo \subseteq ListRow \cup WalkRow
    BY <1>4 DEF HealRuns
  <2>. QED
    BY <2>1, <2>2 DEF ListRow, WalkRow
<1>6. (~marks => struck \in 0 .. StrikeLimit - 1) /\ 0 \in 0 .. StrikeLimit - 1
  <2>1. strikes[t] \in 0 .. StrikeLimit - 1 /\ StrikeLimit \in Nat \ {0}
    BY <1>5, <1>a, TokenNumbers DEF TokenTypes
  <2>2. Min({strikes[t] + 1, StrikeLimit}) =
          IF strikes[t] + 1 <= StrikeLimit THEN strikes[t] + 1 ELSE StrikeLimit
    BY <2>1, LessOfTwo
  <2>3. ~marks => failing /\ ~(struck >= StrikeLimit)
    BY DEF MarksTried
  <2> HIDE DEF t
  <2>. QED
    BY <2>1, <2>2, <2>3
<1>7. /\ streak \in 0 .. StreakLimit
      /\ next \in {"ask", "resume"}
      /\ next = "ask" => streak < StreakLimit
  <2>1. heal.streak \in 0 .. StreakLimit /\ StreakLimit \in Nat \ {0}
    BY <1>4, TokenNumbers DEF HealRuns
  <2> HIDE DEF failing
  <2>. QED
    BY <1>4, <2>1
<1> HIDE DEF t, failing, struck, marks, streak, next
<1>8. /\ heal'.todo = heal.todo \ {r} /\ heal'.streak = streak
      /\ heal'.asked = heal.asked \cup {t} /\ heal'.at = next
      /\ heal'.head = heal.head /\ heal'.tail = heal.tail /\ heal'.pos = heal.pos
  BY <1>3, <1>4 DEF HealRuns
<1>9. TokenTypes'
  <2>1. open' \subseteq Tokens
    BY <1>3, <1>a DEF TokenTypes
  <2>2. tried' \in [Tokens -> 0 .. Window]
    <3>1. Window \in 0 .. Window
      BY TokenNumbers
    <3>. QED
      BY <1>3, <1>5, <1>a, <3>1 DEF TokenTypes
  <2>3. strikes' \in [Tokens -> 0 .. StrikeLimit - 1]
    <3>1. (IF marks THEN 0 ELSE struck) \in 0 .. StrikeLimit - 1
      BY <1>6
    <3>. QED
      BY <1>3, <1>5, <1>a, <3>1 DEF TokenTypes
  <2>4. heal' \in HealRuns
    <3>1. /\ heal.todo \ {r} \in SUBSET (ListRow \cup WalkRow)
          /\ heal.asked \cup {t} \in SUBSET Tokens
          /\ next \in {"idle", "head", "page", "ask", "resume"}
      BY <1>4, <1>5, <1>7 DEF HealRuns
    <3>. QED
      BY <1>3, <1>4, <1>7, <3>1 DEF HealRuns
  <2>. QED
    BY <1>1, <1>a, <2>1, <2>2, <2>3, <2>4 DEF TokenTypes
<1>10. RunSound'
  <2>1. /\ IsFiniteSet(heal.todo \ {r}) /\ IsFiniteSet(heal.asked \cup {t})
        /\ Cardinality(heal.todo \ {r}) = Cardinality(heal.todo) - 1
        /\ Cardinality(heal.asked \cup {t}) \in
             {Cardinality(heal.asked), Cardinality(heal.asked) + 1}
        /\ Cardinality(heal.todo) \in Nat /\ Cardinality(heal.asked) \in Nat
    BY <1>4, <1>5, FS_RemoveElement, FS_AddElement, FS_CardinalityType
  <2>2. Cardinality(heal.todo \ {r}) + Cardinality(heal.asked \cup {t}) <= Batch
    BY <1>4, <2>1, TokenNumbers
  <2>. QED
    BY <1>4, <1>7, <1>8, <2>1, <2>2 DEF RunSound
<1>11. TurnInv'
  BY <1>1, <1>8, <1>a DEF TurnInv
<1>12. TakenOnce'
  <2>. SUFFICES ASSUME moves = 0
       PROVE  /\ \A q \in heal.head \cup heal.tail : q.place = PlaceOf(q.token)
              /\ \A q, s \in heal.todo \ {r} : q.token = s.token => q = s
              /\ \A q \in heal.todo \ {r} : q.token \notin heal.asked \cup {t}
    BY <1>1, <1>8 DEF TakenOnce, PlaceOf
  <2>1. /\ \A q \in heal.head \cup heal.tail : q.place = PlaceOf(q.token)
        /\ \A q, s \in heal.todo : q.token = s.token => q = s
        /\ \A q \in heal.todo : q.token \notin heal.asked
    BY <1>a DEF TakenOnce
  <2>. QED
    BY <1>5, <2>1 DEF t
<1>. QED
  BY <1>9, <1>10, <1>11, <1>12 DEF HealerInv

LEMMA StopKeeps ==
  ASSUME HealerInv, StopAsking
  PROVE  HealerInv'
<1>a. TokenTypes /\ RunSound /\ TurnInv /\ TakenOnce
  BY DEF HealerInv
<1>1. /\ UNCHANGED <<open, holders, tried, strikes, cursor, moves, owed>>
      /\ heal.at = "ask" /\ heal' = [heal EXCEPT !.at = "resume"]
  BY DEF StopAsking
<1>2. heal \in HealRuns /\ heal' \in HealRuns
  BY <1>1, <1>a DEF TokenTypes, HealRuns
<1>3. /\ heal'.todo = heal.todo /\ heal'.asked = heal.asked /\ heal'.at = "resume"
      /\ heal'.head = heal.head /\ heal'.tail = heal.tail /\ heal'.pos = heal.pos
  BY <1>1, <1>2 DEF HealRuns
<1>. QED
  BY <1>1, <1>2, <1>3, <1>a DEF HealerInv, TokenTypes, RunSound, TurnInv, TakenOnce, PlaceOf

(* The next run resumes at or above every row that got no answer.           *)
LEMMA EndKeeps ==
  ASSUME HealerInv, EndHealRun
  PROVE  HealerInv'
<1>a. TokenTypes /\ RunSound /\ TurnInv /\ TakenOnce
  BY DEF HealerInv
<1>1. /\ UNCHANGED <<open, holders, tried, strikes, moves>>
      /\ heal.at = "resume" /\ heal' = NoRun /\ cursor' = ResumeAt
      /\ owed' = {[token |-> r.token, place |-> r.place] : r \in Unsettled}
  BY DEF EndHealRun
<1>2. heal \in HealRuns /\ heal.pos # 0 /\ Unsettled \subseteq heal.tail
  BY <1>1, <1>a DEF RunSound, TokenTypes, Unsettled
<1>3. \A r \in Unsettled : /\ r.place \in 1 .. ListTop /\ r.prev \in 1 .. ListTop
                           /\ r.place < r.prev
  BY <1>2, <1>a DEF HealRuns, WalkRow, TurnInv
<1>4. ListTop \in Nat
  BY TokenNumbers, Multiples DEF ListTop, Place
<1>5. ResumeAt \in 1 .. ListTop /\ \A r \in Unsettled : r.place < ResumeAt
  <2>1. CASE Unsettled = {}
    BY <1>2, <1>4, <2>1 DEF ResumeAt, HealRuns
  <2>2. CASE Unsettled # {}
    <3> DEFINE depths == {ListTop - r.place : r \in Unsettled}
    <3>1. depths \in SUBSET Nat /\ depths # {}
      <4>1. \A r \in Unsettled : ListTop - r.place \in Nat
        BY <1>3, <1>4
      <4>. QED
        BY <2>2, <4>1
    <3> HIDE DEF depths
    <3>2. Min(depths) \in depths /\ \A n \in depths : Min(depths) <= n
      BY <3>1, LeastNat
    <3>3. PICK top \in Unsettled : Min(depths) = ListTop - top.place
      BY <3>2 DEF depths
    <3>4. \A q \in Unsettled : ListTop - top.place <= ListTop - q.place
      BY <3>2, <3>3 DEF depths
    <3>5. \A q \in Unsettled : q.place <= top.place
      BY <1>3, <1>4, <3>4
    <3> DEFINE chosen == CHOOSE r \in Unsettled : \A q \in Unsettled : q.place <= r.place
    <3>6. chosen \in Unsettled /\ \A q \in Unsettled : q.place <= chosen.place
      BY <3>5
    <3>7. ResumeAt = chosen.prev
      BY <2>2 DEF ResumeAt
    <3> HIDE DEF chosen
    <3>. QED
      BY <1>3, <1>4, <3>6, <3>7
  <2>. QED
    BY <2>1, <2>2
<1>6. heal' = [NoRun EXCEPT !.at = "idle"]
  BY <1>1 DEF NoRun
<1>7. tried' \in [Tokens -> 0 .. Window]
  BY <1>1, <1>a DEF TokenTypes
<1>8. cursor' \in 1 .. ListTop /\ \A r \in owed' : r.place < cursor'
  BY <1>1, <1>5
<1>. QED
  BY <1>1, <1>6, <1>7, <1>8, EmptyRunKeeps

LEMMA TokenNextInv ==
  ASSUME HealerInv, [TokenHealerNext]_tokenVars
  PROVE  HealerInv'
BY WorldKeepsRun, BeginKeeps, ListHeadKeeps, ReadPageKeeps, AskKeeps, StopKeeps, EndKeeps
DEF TokenHealerNext

LEMMA TokenInitInv == TokenHealerInit => HealerInv
<1>. SUFFICES ASSUME TokenHealerInit PROVE HealerInv
  OBVIOUS
<1>1. /\ open = Tokens /\ holders \in FirstHolders /\ cursor = ListTop /\ heal = NoRun
      /\ tried = [t \in Tokens |-> 0] /\ strikes = [t \in Tokens |-> 0]
      /\ moves = 0 /\ owed = {}
  BY DEF TokenHealerInit
<1>2. NoRun = [NoRun EXCEPT !.at = "idle"]
  BY DEF NoRun
<1>3. /\ heal \in HealRuns /\ heal.at = "idle" /\ heal.head = {} /\ heal.tail = {}
      /\ heal.todo = {} /\ heal.asked = {} /\ heal = [NoRun EXCEPT !.at = heal.at]
  BY <1>1, <1>2, NoRunSound
<1>4. ListTop \in 1 .. ListTop
  <2>1. 0 * (Cardinality(Tokens) + 1) + (Cardinality(Tokens) + 1)
          <= (MaxHolders + 1) * (Cardinality(Tokens) + 1)
    BY TokenNumbers, Multiples
  <2>2. /\ Cardinality(Tokens) + 1 \in Nat \ {0}
        /\ 0 * (Cardinality(Tokens) + 1) = 0
        /\ ListTop = (MaxHolders + 1) * (Cardinality(Tokens) + 1)
        /\ ListTop \in Nat
    BY TokenNumbers, Multiples DEF ListTop, Place
  <2>. QED
    BY <2>1, <2>2
<1>5. TokenTypes
  <2>1. /\ holders \in [Tokens -> 0 .. MaxHolders]
        /\ 0 \in 0 .. Window /\ 0 \in 0 .. StrikeLimit - 1
    BY <1>1, TokenHealerAssumption, TokenNumbers
  <2>. QED
    BY <1>1, <1>3, <1>4, <2>1 DEF TokenTypes
<1>6. RunSound
  <2>1. IsFiniteSet({}) /\ Cardinality({}) = 0 /\ 0 + 0 <= Batch
    BY FS_EmptySet, TokenNumbers
  <2>. QED
    BY <1>3, <2>1 DEF RunSound
<1>7. TurnInv /\ TakenOnce
  BY <1>1, <1>3 DEF TurnInv, TakenOnce
<1>. QED
  BY <1>5, <1>6, <1>7 DEF HealerInv

LEMMA HealerKept == TokenHealerSpec => []HealerInv
<1>. QED
  BY TokenInitInv, TokenNextInv, PTL DEF TokenHealerSpec

(* Every variable of the token healer has its type, and a run asks for no   *)
(* more tokens than the batch has room for.                                 *)
THEOREM TokenTypesHold == TokenHealerSpec => []TokenHealerTypeOK
<1>1. HealerInv => TokenHealerTypeOK
  BY DEF HealerInv, TokenTypes, RunSound, HealRuns, TokenHealerTypeOK
<1>. QED
  BY <1>1, HealerKept, PTL

(* Each row has its turn, and one: what a run took in vain lies ahead of    *)
(* where the next one starts, and no token is asked for twice in a run      *)
(* while no holder count moves.                                             *)
THEOREM TurnsAreTaken == TokenHealerSpec => []TurnsTaken
<1>1. HealerInv => TurnsTaken
  BY DEF HealerInv, TurnInv, TakenOnce, TurnsTaken, AskedOnce, TurnKept
<1>. QED
  BY <1>1, HealerKept, PTL


-----------------------------------------------------------------------------
(* The parts side by side.                                                  *)

(* A behaviour of the parts side by side is one of each of them: where one  *)
(* part runs, the others stutter.                                           *)
LEMMA PartsAside ==
  ASSUME [Next]_vars
  PROVE  /\ [RetentionNext]_retentionVars
         /\ [TokenHealerNext]_tokenVars
         /\ [ProviderBudgetNext]_budgetVars
         /\ [WebhookNext]_webhookVars
<1>1. CASE Retaining /\ RetentionNext
  BY <1>1 DEF Retaining
<1>2. CASE HealingTokens /\ TokenHealerNext
  BY <1>2 DEF HealingTokens
<1>3. CASE Budgeting /\ ProviderBudgetNext
  BY <1>3 DEF Budgeting
<1>4. CASE Notifying /\ WebhookNext
  BY <1>4 DEF Notifying
<1>5. CASE UNCHANGED vars
  BY <1>5 DEF vars
<1>. QED
  BY <1>1, <1>2, <1>3, <1>4, <1>5 DEF Next

LEMMA PartsRun == Spec => /\ RetentionSpec
                          /\ TokenHealerSpec
                          /\ ProviderBudgetSpec
                          /\ WebhookSteps
<1>1. Init => RetentionInit /\ TokenHealerInit /\ ProviderBudgetInit /\ WebhookInit
  BY DEF Init
<1>. QED
  BY <1>1, PartsAside, PTL
  DEF Spec, RetentionSpec, TokenHealerSpec, ProviderBudgetSpec, WebhookSteps

(* Every variable of every chore has its type, where they run side by side. *)
THEOREM MaintenanceTypes == Spec => []MaintenanceTypeOK
BY PartsRun, RetentionTypes, TokenTypesHold, BudgetTypesHold, WebhookTypesKept, PTL
DEF MaintenanceTypeOK

(* All that is checked of the chores side by side but that runs end: what   *)
(* retention destroys was asked for and lies below the floor, a run leaves  *)
(* nothing over, the tokens get their turns, the budget is kept, a webhook  *)
(* is sent a block once, and is off for good after failures of its own.     *)
THEOREM ChoresKeepPromises ==
  Spec => /\ [](RowsKept /\ FloorTruthful /\ CleanRun)
          /\ [](TurnsTaken /\ BudgetKept)
          /\ [](AtMostOnce /\ FailCountTrue)
          /\ StaysOff
<1>1. RetentionSpec => [](RowsKept /\ FloorTruthful /\ CleanRun)
  BY OnlyWhatIsAsked, DestroyedBelowFloor, NothingLeftOver, PTL
<1>2. TokenHealerSpec /\ ProviderBudgetSpec => [](TurnsTaken /\ BudgetKept)
  BY TurnsAreTaken, BudgetHolds, PTL
<1>3. WebhookSteps => [](AtMostOnce /\ FailCountTrue) /\ StaysOff
  BY OnceKept, FailCountKept, OffKept, PTL
<1>. QED
  BY PartsRun, <1>1, <1>2, <1>3
=============================================================================
