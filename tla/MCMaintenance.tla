---------------------------- MODULE MCMaintenance ----------------------------
(***************************************************************************)
(* Housekeeping that shares no state, side by side: each behaviour is one   *)
(* of the part chosen at the start, the others rest.                        *)
(***************************************************************************)
EXTENDS Retention, TokenHealer, ProviderBudget, WebhookNotifier

CONSTANTS web, indexer, w1, b1, b2, p1, p2

VARIABLE part

(* An immortal compact window, and one longer than the body window with     *)
(* partitions of two blocks; disk pressure tightens either.                 *)
TwoPolicies == {[body |-> 2, compact |-> 9, width |-> 1],
                [body |-> 1, compact |-> 2, width |-> 2]}

(* Behind two contracts that take the endpoint down and one that reverts,   *)
(* one that answers; the head has one that answers not.                     *)
FourNatures == <<"answers", "reverts", "aborts", "aborts">>
HeadOfTwo   == {<<0, 1, 0, 1>>}

(* One webhook for every block.                                             *)
WatchesAll == [w \in {w1} |-> {b1, b2}]

(* The parts that rest are where one execution of them starts.              *)
Init ==
  /\ part \in {"retention", "tokens", "budget", "webhooks"}
  /\ RetentionInit
  /\ TokenHealerInit
  /\ ProviderBudgetInit
  /\ WebhookInit
  /\ part # "retention" => policy.compact = Immortal
  /\ part # "tokens" => ~throttled
  /\ part # "budget" => shared

Retaining == part = "retention" /\ UNCHANGED <<part, tokenVars, budgetVars, webhookVars>>
HealingTokens == part = "tokens" /\ UNCHANGED <<part, retentionVars, budgetVars, webhookVars>>
Budgeting == part = "budget" /\ UNCHANGED <<part, retentionVars, tokenVars, webhookVars>>
Notifying == part = "webhooks" /\ UNCHANGED <<part, retentionVars, tokenVars, budgetVars>>

Next ==
  \/ Retaining /\ RetentionNext
  \/ HealingTokens /\ TokenHealerNext
  \/ Budgeting /\ ProviderBudgetNext
  \/ Notifying /\ WebhookNext

vars == <<part, retentionVars, tokenVars, budgetVars, webhookVars>>

Fairness ==
  /\ WF_vars(HealingTokens /\ BeginRun)
  /\ WF_vars(HealingTokens /\ HealSteps)
  /\ \A p \in Notifiers, i \in Slots : WF_vars(Notifying /\ Advance(p, i))

Spec == Init /\ [][Next]_vars /\ Fairness

(* Every variable of every part has its type.                               *)
MaintenanceTypeOK ==
  /\ RetentionTypeOK /\ TokenHealerTypeOK /\ ProviderBudgetTypeOK /\ WebhookTypeOK

(* Every token that answers is healed in the end, where the healer runs.    *)
TokensSettle == part = "tokens" => TokensHealed
=============================================================================
