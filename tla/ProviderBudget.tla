---------------------------- MODULE ProviderBudget ----------------------------
(***************************************************************************)
(* Admission of metered calls to the data provider                          *)
(* (packages/providers/src/moralis.ts over the shared Redis client,         *)
(* packages/explorer-core/src/redis-client.ts): a call is debited to a      *)
(* monthly ledger and an hourly counter before it is sent, in the Redis the *)
(* processes of a chain share, or in the memory of each process where no    *)
(* Redis is configured.  Redis may be unreachable, or full and refuse       *)
(* writes while it answers reads.  One bucket; its daily counter behaves as *)
(* the hourly one does.                                                     *)
(***************************************************************************)
EXTENDS Integers

CONSTANTS
  Processes,
  Costs,       \* CU_COST of the calls
  CuMax,       \* MORALIS_MONTHLY_CU_MAX
  HourlyMax,
  MaxMonth     \* bound of the model: last month

ASSUME ProviderBudgetAssumption ==
  /\ CuMax \in Nat /\ HourlyMax \in Nat /\ MaxMonth \in Nat \ {0}
  /\ Costs \subseteq Nat \ {0}

Months == 1 .. MaxMonth

VARIABLES
  shared,      \* REDIS_URL is set
  month,
  redis,       \* "up", "full" or "gone"
  unavailable, \* redisUnavailable of each process's client
  ledger,      \* moralis:cu of each month in Redis
  hourly,      \* the bucket's hourly key in Redis
  memory,      \* memCu and memCounters of each process
  unwritable,  \* ledgerUnwritable of each process
  calls,       \* the script call of each process that is on its way
  \* history
  spent,       \* what each process was admitted to spend, by month charged,
  billed,      \*   and what all of them were
  corrupted,   \* months whose key held what no counter holds
  denied,      \* since Redis last began to take writes: processes denied for want
               \* of a ledger,
  refused      \* and those of them whose script was called

spending == <<spent, billed>>
budgetVars == <<shared, month, redis, unavailable, ledger, hourly, memory, unwritable,
                calls, spending, corrupted, denied, refused>>

NoCall == [month |-> 0, cost |-> 0]

ProviderBudgetInit ==
  /\ shared \in BOOLEAN
  /\ month = 1
  /\ redis = "up"
  /\ unavailable = [p \in Processes |-> FALSE]
  /\ ledger = [m \in Months |-> 0]
  /\ hourly = 0
  /\ memory = [p \in Processes |-> [month |-> 1, cu |-> 0, hourly |-> 0]]
  /\ unwritable = [p \in Processes |-> FALSE]
  /\ calls = [p \in Processes |-> NoCall]
  /\ spent = [p \in Processes |-> [m \in Months |-> 0]]
  /\ billed = [m \in Months |-> 0]
  /\ corrupted = {}
  /\ denied = {} /\ refused = {}

-----------------------------------------------------------------------------
(* Time, and Redis.                                                         *)

MonthTurns ==
  /\ month < MaxMonth
  /\ month' = month + 1
  /\ UNCHANGED <<shared, redis, unavailable, ledger, hourly, memory, unwritable, calls,
                 spending, corrupted, denied, refused>>

(* The hourly key expires; each process's hour ends when it next looks.     *)
HourTurns ==
  /\ hourly' = 0
  /\ memory' = [p \in Processes |-> [memory[p] EXCEPT !.hourly = 0]]
  /\ UNCHANGED <<shared, month, redis, unavailable, ledger, unwritable, calls, spending,
                 corrupted, denied, refused>>

RedisTurns ==
  /\ shared
  /\ \E state \in {"up", "full", "gone"} \ {redis} :
       /\ redis' = state
       /\ denied' = IF state = "up" THEN {} ELSE denied
       /\ refused' = IF state = "up" THEN {} ELSE refused
  /\ UNCHANGED <<shared, month, unavailable, ledger, hourly, memory, unwritable, calls,
                 spending, corrupted>>

(* The client's error and connect events.                                   *)
ClientNotices(p) ==
  /\ shared
  /\ unavailable[p] # (redis = "gone")
  /\ unavailable' = [unavailable EXCEPT ![p] = redis = "gone"]
  /\ UNCHANGED <<shared, month, redis, ledger, hourly, memory, unwritable, calls, spending,
                 corrupted, denied, refused>>

(* A key that holds something INCRBY would refuse is deleted on sight       *)
(* (bound of the model: once a month).                                      *)
Corrupt ==
  /\ shared
  /\ ledger[month] > 0 /\ month \notin corrupted
  /\ ledger' = [ledger EXCEPT ![month] = 0]
  /\ corrupted' = corrupted \cup {month}
  /\ UNCHANGED <<shared, month, redis, unavailable, hourly, memory, unwritable, calls,
                 spending, denied, refused>>

-----------------------------------------------------------------------------
(* acquire.                                                                 *)

Spend(p, m, cost) ==
  /\ spent' = [spent EXCEPT ![p][m] = @ + cost]
  /\ billed' = [billed EXCEPT ![m] = @ + cost]

(* The month of the key is the month in which the script is called.         *)
CallScript(p) ==
  /\ shared /\ ~unavailable[p]
  /\ calls[p] = NoCall
  /\ \E cost \in Costs : calls' = [calls EXCEPT ![p] = [month |-> month, cost |-> cost]]
  /\ UNCHANGED <<shared, month, redis, unavailable, ledger, hourly, memory, unwritable,
                 spending, corrupted, denied, refused>>

(* Mutant: compared before the cost of the call is added.                   *)
FitsBeforeCost(cu, hour, cost) == cu < CuMax /\ hour < HourlyMax
Fits(cu, hour, cost) == cu + cost <= CuMax /\ hour < HourlyMax

FlagCleared(p) == [unwritable EXCEPT ![p] = FALSE]   \* mutant: by any answer
(* A denial proves nothing about whether the ledger can be written.         *)
FlagAfterDenial(p) == unwritable

(* ADMIT_LUA looks at every ceiling before it writes.                       *)
ScriptDenies(p) ==
  /\ calls[p] # NoCall
  /\ redis # "gone"
  /\ ~Fits(ledger[calls[p].month], hourly, calls[p].cost)
  /\ unwritable' = FlagAfterDenial(p)
  /\ calls' = [calls EXCEPT ![p] = NoCall]
  /\ UNCHANGED <<shared, month, redis, unavailable, ledger, hourly, memory, spending,
                 corrupted, denied, refused>>

ScriptAdmits(p) ==
  /\ calls[p] # NoCall
  /\ redis = "up"
  /\ Fits(ledger[calls[p].month], hourly, calls[p].cost)
  /\ ledger' = [ledger EXCEPT ![calls[p].month] = @ + calls[p].cost]
  /\ hourly' = hourly + 1
  /\ Spend(p, calls[p].month, calls[p].cost)
  /\ unwritable' = [unwritable EXCEPT ![p] = FALSE]
  /\ calls' = [calls EXCEPT ![p] = NoCall]
  /\ UNCHANGED <<shared, month, redis, unavailable, memory, corrupted, denied, refused>>

(* memCu and memCounters, rolled to the present.                            *)
Rolled(p) == IF memory[p].month = month THEN memory[p]
             ELSE [memory[p] EXCEPT !.month = month, !.cu = 0]

Remembers(p, cost) ==
  memory' = [memory EXCEPT ![p] = [Rolled(p) EXCEPT !.cu = @ + cost, !.hourly = @ + 1]]

(* Mutant: a call that Redis did not answer goes to the memory ledger.      *)
FallsThrough(p, cost) ==
  IF Fits(Rolled(p).cu, Rolled(p).hourly, cost)
  THEN Remembers(p, cost) /\ Spend(p, month, cost) /\ UNCHANGED denied
  ELSE denied' = denied \cup {p} /\ UNCHANGED <<memory, spending>>
(* Redis is configured and did not answer.                                  *)
FailsClosed(p, cost) == denied' = denied \cup {p} /\ UNCHANGED <<memory, spending>>

(* The script throws: its first write is refused, or nothing answers.       *)
ScriptThrows(p) ==
  /\ calls[p] # NoCall
  /\ \/ redis = "gone"
     \/ redis = "full" /\ Fits(ledger[calls[p].month], hourly, calls[p].cost)
  /\ FailsClosed(p, calls[p].cost)
  /\ unwritable' = [unwritable EXCEPT ![p] = TRUE]
  /\ refused' = refused \cup {p}
  /\ calls' = [calls EXCEPT ![p] = NoCall]
  /\ UNCHANGED <<shared, month, redis, unavailable, ledger, hourly, corrupted>>

(* The client has said so already: nothing is sent.                         *)
DeniedUnasked(p) ==
  /\ shared /\ unavailable[p]
  /\ \E cost \in Costs : FailsClosed(p, cost)
  /\ UNCHANGED <<shared, month, redis, unavailable, ledger, hourly, unwritable, calls,
                 corrupted, refused>>

(* No Redis at all: the memory of the process is the ledger.                *)
MemoryAdmits(p) ==
  /\ ~shared
  /\ \E cost \in Costs :
       /\ Fits(Rolled(p).cu, Rolled(p).hourly, cost)
       /\ Remembers(p, cost)
       /\ Spend(p, month, cost)
  /\ UNCHANGED <<shared, month, redis, unavailable, ledger, hourly, unwritable, calls,
                 corrupted, denied, refused>>

ProviderBudgetNext ==
  \/ MonthTurns
  \/ HourTurns
  \/ RedisTurns
  \/ Corrupt
  \/ \E p \in Processes :
       \/ ClientNotices(p)
       \/ CallScript(p)
       \/ ScriptDenies(p)
       \/ ScriptAdmits(p)
       \/ ScriptThrows(p)
       \/ DeniedUnasked(p)
       \/ MemoryAdmits(p)

ProviderBudgetSpec == ProviderBudgetInit /\ [][ProviderBudgetNext]_budgetVars

-----------------------------------------------------------------------------
(* getMoralisHealthState, as process p answers it.                          *)

Reachable(p) == redis # "gone" /\ ~unavailable[p]

HealthLimited(p) ==
  LET live == shared /\ Reachable(p)
      cu   == IF live THEN ledger[month] ELSE memory[p].cu
      hour == IF live THEN hourly ELSE memory[p].hourly
  IN  cu >= CuMax \/ hour >= HourlyMax \/ unwritable[p]

-----------------------------------------------------------------------------
ProviderBudgetTypeOK ==
  /\ month \in Months
  /\ redis \in {"up", "full", "gone"}
  /\ \A p \in Processes : unavailable[p] \in BOOLEAN /\ unwritable[p] \in BOOLEAN
  /\ \A m \in Months : ledger[m] \in 0 .. CuMax
  /\ hourly \in 0 .. HourlyMax
  /\ \A p \in Processes : memory[p].cu \in 0 .. CuMax /\ memory[p].hourly \in 0 .. HourlyMax
  /\ refused \subseteq denied /\ denied \subseteq Processes

(* Each admitted call is in the ledger of the month it was charged to and   *)
(* no denied one is, whoever else was asking, whatever Redis did between    *)
(* the two, and on whichever side of midnight the answer came.              *)
DebitExact ==
  shared => \A m \in Months \ corrupted : ledger[m] = billed[m]

(* No ledger is ever overdrawn: the processes that share a Redis stay under *)
(* the ceiling together, and an outage gives none of them a second one; a   *)
(* process without Redis stays under its own.                               *)
CeilingHolds ==
  \A m \in Months \ corrupted :
    IF shared THEN billed[m] <= CuMax ELSE \A p \in Processes : spent[p][m] <= CuMax

(* A process that was refused by a full Redis says so until a write goes    *)
(* through, though reads still answer and show a comfortable tally.         *)
RefusalShown ==
  \A p \in refused : redis = "full" /\ ~unavailable[p] => HealthLimited(p)

(* The ledger is the spending, the spending is within the budget, and a     *)
(* ledger that cannot be written to does not pass for one with room.        *)
BudgetKept == DebitExact /\ CeilingHolds /\ RefusalShown

(* As the comment on ledgerUnwritable has it: while every call is denied    *)
(* for want of a ledger, health says limited.  The code does not keep this: *)
(* when the client knows that Redis is gone no script is called, nothing    *)
(* sets the flag, and the readout shows the empty ledger in memory.         *)
DenialShown == \A p \in denied : HealthLimited(p)
=============================================================================
