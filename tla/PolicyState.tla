----------------------------- MODULE PolicyState ----------------------------
(***************************************************************************)
(* What the services that turn a device's policy into kernel state share:  *)
(* the DevicePolicy and QuotaPeriod rows of PostgreSQL, the device's tc    *)
(* class and nft block element, and the requests and cycles in flight.     *)
(*                                                                         *)
(* Every device here is validated, has an address and is seen on layer 2   *)
(* (DeviceBlocking models the other kinds). Download and upload are shaped *)
(* alike, so one rate stands for the pair.                                 *)
(***************************************************************************)
EXTENDS Naturals

CONSTANTS Devices, Requests,
          Collector,   \* the accounting cycle's calls of recordUsage
          Scheduler,   \* the schedule cycle's calls of limitDownload
          Rates,       \* the rates an admin or a schedule rule sets
          Throttle,    \* the fixed rate of the quota action "throttle"
          Amounts,     \* the quotas an admin sets
          MaxUsed,     \* usage is not told apart beyond this
          LastDay,     \* quota periods are daily: days 0..LastDay
          None         \* the SQL NULL, an unshaped device, an absent row

ASSUME PolicyAssumption ==
    /\ Throttle \notin Rates \cup {None}
    /\ None \notin Rates
    /\ {Collector, Scheduler} \cap Requests = {} /\ Collector # Scheduler
    /\ LastDay \in Nat /\ MaxUsed \in Nat /\ Amounts \subseteq 0..MaxUsed

Actions == {"notify-only", "throttle", "block"}
Days    == 0..LastDay
Shapes  == Rates \cup {Throttle, None}

VARIABLES
    policy,    \* policy[d]: the DevicePolicy row
    used,      \* used[d][day]: usage in the QuotaPeriod row, or None
    shape,     \* shape[d]: the rate of d's tc class, or None without one
    element,   \* element[d]: d's MAC is in the nft set blocked_macs
    today,
    task       \* task[p]: where request or collector p stands

policyVars == <<policy, used, shape, element, today, task>>

Procs == Requests \cup {Collector, Scheduler}

Policy == [limit    : Rates \cup {None},    \* downloadLimit and uploadLimit
           quota    : Amounts \cup {None},  \* quota and quotaPeriod
           action   : Actions \cup {None},  \* quotaAction
           enforced : Actions \cup {None},  \* quotaEnforcedAction
           blocked  : BOOLEAN,
           scheduled : BOOLEAN]             \* scheduleId is set

NewPolicy == [limit |-> None, quota |-> None, action |-> None,
              enforced |-> None, blocked |-> FALSE, scheduled |-> FALSE]

\* A call in flight: pc names the await it stands at; the other fields are the
\* values it read before that await and uses after it.
Task == [pc     : {"idle", "observe", "find", "create", "add", "zero", "finish",
                   "enforce", "apply", "store", "clear", "restore", "release",
                   "unstore", "persist", "shape", "unshape", "scan", "base",
                   "flag", "element"},
         op     : {"none", "usage", "reconcile", "get", "reset",
                   "limit", "unlimit", "block", "unblock"},
         dev    : Devices \cup {None},
         day    : Days,                    \* of the period row found
         quota  : Amounts \cup {None},
         was    : Actions \cup {None},     \* the enforced action to clear
         next   : Actions \cup {None},     \* the action to apply
         rate   : Rates \cup {None},
         todo   : SUBSET Devices]

Idle == [pc |-> "idle", op |-> "none", dev |-> None, day |-> 0, quota |-> None,
         was |-> None, next |-> None, rate |-> None, todo |-> {}]

Call(op, d) == [Idle EXCEPT !.op = op, !.dev = d]

At(p, pc) == task[p].pc = pc

Goto(p, t) == task' = [task EXCEPT ![p] = t]
Step(p, pc) == Goto(p, [task[p] EXCEPT !.pc = pc])
Return(p)  == Goto(p, Idle)

SetPolicy(d, row) == policy' = [policy EXCEPT ![d] = row]
SetShape(d, rate) == shape' = [shape EXCEPT ![d] = rate]
SetElement(d, in) == element' = [element EXCEPT ![d] = in]

\* TrafficEnforcer.clearBaseState deletes the root qdisc, every class with it.
ClearBaseState == shape' = [d \in Devices |-> None]

Throttled(row) == row.enforced = "throttle"

\* What the policy row asks of tc.
Desired(row) == IF Throttled(row) THEN Throttle ELSE row.limit

Exhausted(d) ==
    /\ policy[d].quota # None
    /\ used[d][today] # None
    /\ used[d][today] >= policy[d].quota

PolicyInit ==
    /\ policy = [d \in Devices |-> NewPolicy]
    /\ used = [d \in Devices |-> [day \in Days |-> None]]
    /\ shape = [d \in Devices |-> None]
    /\ element = [d \in Devices |-> FALSE]
    /\ today = 0
    /\ task = [p \in Procs |-> Idle]

PolicyStateTypeOK ==
    /\ policy \in [Devices -> Policy]
    /\ used \in [Devices -> [Days -> 0..MaxUsed \cup {None}]]
    /\ shape \in [Devices -> Shapes]
    /\ element \in [Devices -> BOOLEAN]
    /\ today \in Days
    /\ task \in [Procs -> Task]
=============================================================================
