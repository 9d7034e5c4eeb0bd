--------------------------- MODULE WebhookNotifier ---------------------------
(***************************************************************************)
(* Webhook notifications (apps/indexer/src/webhook-notifier.ts).            *)
(*                                                                          *)
(* processBlock starts a run per block and does not wait for it, so runs    *)
(* for several blocks overlap inside a process, a block that is processed   *)
(* again has a second run, and the indexer, the healer and a backfill do    *)
(* this in processes of their own.  A run selects the webhooks, delivers to *)
(* one after the other, each delivery claimed in the ledger beforehand, and *)
(* settles the counts of failures at its end.  Any statement may fail, a    *)
(* failed INSERT may have been committed, a process may die.                *)
(*                                                                          *)
(* Counts beyond the limit are not told apart, nor copies beyond the second.*)
(***************************************************************************)
EXTENDS Integers, FiniteSets

CONSTANTS
  Hooks,        \* webhook ids: serial, never used twice
  Blocks,       \* block hashes
  Watches,      \* [Hooks -> SUBSET Blocks]: the blocks with a tx the hook is for
  Notifiers,    \* processes that index blocks
  KeyHolders,   \* those configured with WEBHOOK_SECRET_KEY
  Slots,        \* 1 .. MAX_INFLIGHT_NOTIFY_RUNS
  FailLimit,    \* WEBHOOK_FAIL_LIMIT
  Prunable,     \* bound: blocks retention reaches in this execution
  None          \* no webhook, no block

ASSUME WebhookAssumption ==
  /\ Watches \in [Hooks -> SUBSET Blocks]
  /\ IsFiniteSet(Notifiers)
  /\ KeyHolders \subseteq Notifiers
  /\ IsFiniteSet(Slots) /\ Slots \subseteq Nat
  /\ FailLimit \in Nat \ {0}
  /\ Prunable \subseteq Blocks
  /\ None \notin Hooks \cup Blocks

VARIABLES
  hook,       \* row of webhooks: none yet, active, inactive, deleted
  failCount,  \* fail_count
  sealed,     \* webhooks whose signing key is sealed
  claims,     \* webhook_deliveries
  forgotten,  \* blocks whose claims retention has deleted
  runs,       \* by process and slot: what notifyBlock is at
  \* history
  sent,       \* POSTs that went out, by webhook and block
  failed,     \* deliveries that failed, by webhook
  excused     \* webhooks with a success, or a settlement that was lost

claimVars   == <<claims, forgotten>>
webhookVars == <<hook, failCount, sealed, claimVars, runs, sent, failed, excused>>

Free == [phase |-> "idle", block |-> None, todo |-> {}, now |-> None,
         ok |-> {}, bad |-> {}]

UpTo(most, n) == IF n > most THEN most ELSE n

WebhookInit ==
  /\ hook = [w \in Hooks |-> "unborn"]
  /\ failCount = [w \in Hooks |-> 0]
  /\ sealed = {}
  /\ claims = {}
  /\ forgotten = {}
  /\ runs = [p \in Notifiers |-> [i \in Slots |-> Free]]
  /\ sent = [w \in Hooks |-> [b \in Blocks |-> 0]]
  /\ failed = [w \in Hooks |-> 0]
  /\ excused = {}

Is(p, i, phase) == runs[p][i].phase = phase
Becomes(p, i, run) == runs' = [runs EXCEPT ![p][i] = run]

-----------------------------------------------------------------------------
(* The explorer's API, the sealing loop, retention.                         *)

Register(w) ==
  /\ hook[w] = "unborn"
  /\ hook' = [hook EXCEPT ![w] = "on"]
  /\ UNCHANGED <<failCount, sealed, claimVars, runs, sent, failed, excused>>

Delete(w) ==
  /\ hook[w] \in {"on", "off"}
  /\ hook' = [hook EXCEPT ![w] = "deleted"]
  /\ UNCHANGED <<failCount, sealed, claimVars, runs, sent, failed, excused>>

(* sealPlaintextWebhookSecrets: one row, guarded on the plaintext it read.  *)
Seal(w) ==
  /\ KeyHolders # {}
  /\ hook[w] \in {"on", "off"}
  /\ w \notin sealed
  /\ sealed' = sealed \cup {w}
  /\ UNCHANGED <<hook, failCount, claimVars, runs, sent, failed, excused>>

(* The ledger is pruned with the other bodies of the block.                 *)
Prune(b) ==
  /\ b \in Prunable \ forgotten
  /\ claims' = {c \in claims : c[2] # b}
  /\ forgotten' = forgotten \cup {b}
  /\ UNCHANGED <<hook, failCount, sealed, runs, sent, failed, excused>>

-----------------------------------------------------------------------------
(* A run.                                                                   *)

(* With every slot taken the notification is skipped: nothing changes.      *)
Notify(p, b) ==
  \E i \in Slots :
    /\ Is(p, i, "idle")
    /\ \A j \in Slots : j < i => ~Is(p, j, "idle")
    /\ Becomes(p, i, [Free EXCEPT !.phase = "select", !.block = b])
    /\ UNCHANGED <<hook, failCount, sealed, claimVars, sent, failed, excused>>

(* The signing key as the row that was selected holds it.                   *)
Signable(p, w) == w \notin sealed \/ p \in KeyHolders

Selected(p, b) ==
  {w \in Hooks : hook[w] = "on" /\ b \in Watches[w] /\ Signable(p, w)}

Select(p, i) ==
  /\ Is(p, i, "select")
  /\ LET ws == Selected(p, runs[p][i].block)
     IN  Becomes(p, i, IF ws = {} THEN Free
                       ELSE [runs[p][i] EXCEPT !.phase = "hooks", !.todo = ws])
  /\ UNCHANGED <<hook, failCount, sealed, claimVars, sent, failed, excused>>

SlotKept(run) == [run EXCEPT !.phase = "lost"]   \* mutant: no finally
Released(run) == Free

SelectFails(p, i) ==
  /\ Is(p, i, "select")
  /\ Becomes(p, i, Released(runs[p][i]))
  /\ UNCHANGED <<hook, failCount, sealed, claimVars, sent, failed, excused>>

Without(run, w) == [run EXCEPT !.todo = @ \ {w}]

Unclaimed(w, b) == TRUE   \* mutant: the INSERT overwrites instead of conflicting
Deliverable(w, b) == <<w, b>> \notin claims

(* INSERT ... ON CONFLICT DO NOTHING RETURNING, before the POST.            *)
ClaimDelivery(p, i) ==
  /\ Is(p, i, "hooks")
  /\ \E w \in runs[p][i].todo :
       LET run == Without(runs[p][i], w)
       IN  /\ claims' = claims \cup {<<w, run.block>>}
           /\ Becomes(p, i, IF Deliverable(w, run.block)
                            THEN [run EXCEPT !.phase = "post", !.now = w]
                            ELSE run)
  /\ UNCHANGED <<hook, failCount, sealed, forgotten, sent, failed, excused>>

(* The ledger cannot be reached, or does not answer: fail closed.           *)
FailOpen(run, w)   == [run EXCEPT !.phase = "post", !.now = w]   \* mutant
(* Mutant: the delivery that was skipped is held against the webhook.       *)
FailCharged(run, w) == [run EXCEPT !.bad = @ \cup {w}]
FailClosed(run, w) == run

ClaimDeliveryFails(p, i) ==
  /\ Is(p, i, "hooks")
  /\ \E w \in runs[p][i].todo :
       /\ Becomes(p, i, FailClosed(Without(runs[p][i], w), w))
       /\ \/ claims' = claims
          \/ claims' = claims \cup {<<w, runs[p][i].block>>}
  /\ UNCHANGED <<hook, failCount, sealed, forgotten, sent, failed, excused>>

Delivered(p, i, w) ==
  /\ sent' = [sent EXCEPT ![w][runs[p][i].block] = UpTo(2, @ + 1)]
  /\ Becomes(p, i, [runs[p][i] EXCEPT !.phase = "hooks", !.now = None,
                                      !.ok = @ \cup {w}])
  /\ UNCHANGED failed

ClaimReleased(w, b) == claims \ {<<w, b>>}   \* mutant: so that a replay retries
ClaimKept(w, b) == claims

(* An error status, a timeout, a connection lost before or after the POST   *)
(* went out, or a URL that is no longer safe to send to.                    *)
Undelivered(p, i, w) ==
  /\ \/ UNCHANGED sent
     \/ sent' = [sent EXCEPT ![w][runs[p][i].block] = UpTo(2, @ + 1)]
  /\ Becomes(p, i, [runs[p][i] EXCEPT !.phase = "hooks", !.now = None,
                                      !.bad = @ \cup {w}])
  /\ failed' = [failed EXCEPT ![w] = UpTo(FailLimit, @ + 1)]

Deliver(p, i) ==
  /\ Is(p, i, "post")
  /\ LET w == runs[p][i].now
     IN  \/ Delivered(p, i, w) /\ UNCHANGED claims
         \/ Undelivered(p, i, w) /\ claims' = ClaimKept(w, runs[p][i].block)
  /\ UNCHANGED <<hook, failCount, sealed, forgotten, excused>>

(* The loop is over; the webhooks that answered are reset in one UPDATE.    *)
Reset(p, i) ==
  LET run == runs[p][i]
  IN  /\ Is(p, i, "hooks")
      /\ run.todo = {}
      /\ Becomes(p, i, [run EXCEPT !.phase = "count", !.ok = {}])
      /\ excused' = excused \cup run.ok
      /\ \/ UNCHANGED failCount     \* nothing to reset, or the UPDATE failed
         \/ failCount' = [w \in Hooks |-> IF w \in run.ok /\ hook[w] # "deleted"
                                          THEN 0 ELSE failCount[w]]
      /\ UNCHANGED <<hook, sealed, claimVars, sent, failed>>

CountedFromSelect(n) == 1   \* mutant: the select never loaded fail_count
Counted(n) == UpTo(FailLimit, n + 1)

(* Mutant: active follows from the count, and the limit is met exactly.     *)
OffAtTheLimit(w) == IF failCount[w] + 1 = FailLimit THEN "off" ELSE "on"

(* Mutant: any failure switches the webhook off.                            *)
OffAtOnce(w) == "off"

(* active AND fail_count + 1 < limit, on the row as it is.                  *)
StillActive(w) ==
  IF hook[w] = "on" /\ failCount[w] + 1 < FailLimit THEN "on" ELSE "off"

CountFailure(p, i) ==
  LET run == runs[p][i]
  IN  /\ Is(p, i, "count")
      /\ \E w \in run.bad :
           /\ Becomes(p, i, [run EXCEPT !.bad = @ \ {w}])
           /\ \/ /\ hook[w] # "deleted"
                 /\ failCount' = [failCount EXCEPT ![w] = Counted(@)]
                 /\ hook' = [hook EXCEPT ![w] = StillActive(w)]
                 /\ UNCHANGED excused
              \/ /\ excused' = excused \cup {w}   \* the UPDATE failed, or no row
                 /\ UNCHANGED <<failCount, hook>>
      /\ UNCHANGED <<sealed, claimVars, sent, failed>>

ReleaseSlot(p, i) ==
  /\ Is(p, i, "count")
  /\ runs[p][i].bad = {}
  /\ Becomes(p, i, Released(runs[p][i]))
  /\ UNCHANGED <<hook, failCount, sealed, claimVars, sent, failed, excused>>

(* The process dies with its runs; what they had not settled is lost.       *)
NotifierDies(p) ==
  /\ \E i \in Slots : ~Is(p, i, "idle")
  /\ runs' = [runs EXCEPT ![p] = [i \in Slots |-> Free]]
  /\ excused' = excused \cup UNION {runs[p][i].bad : i \in Slots}
  /\ UNCHANGED <<hook, failCount, sealed, claimVars, sent, failed>>

Advance(p, i) ==
  \/ Select(p, i)
  \/ SelectFails(p, i)
  \/ ClaimDelivery(p, i)
  \/ ClaimDeliveryFails(p, i)
  \/ Deliver(p, i)
  \/ Reset(p, i)
  \/ CountFailure(p, i)
  \/ ReleaseSlot(p, i)

WebhookNext ==
  \/ \E w \in Hooks : Register(w) \/ Delete(w) \/ Seal(w)
  \/ \E b \in Blocks : Prune(b)
  \/ \E p \in Notifiers :
       \/ \E b \in Blocks : Notify(p, b)
       \/ \E i \in Slots : Advance(p, i)
       \/ NotifierDies(p)

(* Every statement of a run answers or times out.                           *)
WebhookFairness == \A p \in Notifiers, i \in Slots : WF_webhookVars(Advance(p, i))

WebhookSpec == WebhookInit /\ [][WebhookNext]_webhookVars /\ WebhookFairness
-----------------------------------------------------------------------------
(* Properties.                                                              *)

Run == [phase : {"idle", "select", "hooks", "post", "count"},
        block : Blocks \cup {None}, todo : SUBSET Hooks,
        now : Hooks \cup {None}, ok : SUBSET Hooks, bad : SUBSET Hooks]

(* Every variable has its type.                                             *)
WebhookTypeOK ==
  /\ hook \in [Hooks -> {"unborn", "on", "off", "deleted"}]
  /\ failCount \in [Hooks -> 0 .. FailLimit]
  /\ sealed \in SUBSET Hooks
  /\ claims \in SUBSET (Hooks \X Blocks)
  /\ forgotten \in SUBSET Blocks
  /\ runs \in [Notifiers -> [Slots -> Run]]
  /\ sent \in [Hooks -> [Blocks -> 0 .. 2]]
  /\ failed \in [Hooks -> 0 .. FailLimit]
  /\ excused \in SUBSET Hooks

(* A webhook is sent a block at most once, however often the block is       *)
(* processed again, by whichever process, and whatever fails in between, as *)
(* long as retention has not reached the block.                             *)
AtMostOnce ==
  \A w \in Hooks, b \in Blocks : b \notin forgotten => sent[w][b] <= 1

(* A webhook that was switched off stays off: no run that began before, and *)
(* settles after, switches it back on.                                      *)
StaysOff ==
  [][\A w \in Hooks : hook[w] = "off" => hook'[w] \in {"off", "deleted"}]_webhookVars

(* It takes as many failed deliveries as the limit says to switch it off:   *)
(* neither a ledger that is down, nor a key this process lacks, nor a       *)
(* process that dies counts against the webhook.                            *)
DeactivationEarned ==
  \A w \in Hooks : hook[w] = "off" => failed[w] >= FailLimit

(* No failure is lost between overlapping runs: until a success resets the  *)
(* count or a settlement fails, the count and what the runs under way have  *)
(* still to add make up the failures there were.                            *)
YetToCount(w) ==
  Cardinality({s \in Notifiers \X Slots : w \in runs[s[1]][s[2]].bad})

FailuresCounted ==
  \A w \in Hooks : (w \notin excused /\ hook[w] # "deleted") =>
    UpTo(FailLimit, failCount[w] + YetToCount(w)) = failed[w]

(* The count is neither too high (DeactivationEarned) nor too low           *)
(* (FailuresCounted).                                                       *)
FailCountTrue == DeactivationEarned /\ FailuresCounted

(* A run gives its slot back, whatever fails: skipping is never permanent.  *)
RunsEnd ==
  \A p \in Notifiers, i \in Slots : []<>(runs[p][i].phase = "idle")
=============================================================================
