----------------------------- MODULE DevicePolicy ---------------------------
(***************************************************************************)
(* A device's policy and everyone who acts on it: the admin's requests,    *)
(* the collector that counts usage, the reconciliation of tc and the       *)
(* schedule cycle, with restarts, failed commands and the passing of time. *)
(***************************************************************************)
EXTENDS QuotaService, ScheduleEnforcement

vars == <<policyVars, recon, scheduleVars>>

cycles == <<recon, scheduleVars>>

-----------------------------------------------------------------------------
\* Requests (DevicePolicyService.upsertDevicePolicy, FirewallService).

\* A PATCH of the quota, or of the profile, whose limit and quota become the
\* device's; then reconcilePolicy. tc is left to the reconciliation cycle.
Patch(r, d) ==
    /\ At(r, "idle")
    /\ \E quota \in Amounts \cup {None}, action \in Actions \cup {None} :
          /\ SetPolicy(d, [policy[d] EXCEPT !.quota = quota, !.action = action])
          /\ policy' # policy
    /\ Goto(r, [Call("reconcile", d) EXCEPT !.pc = "observe"])
    /\ UNCHANGED <<used, shape, element, today, cycles>>

AssignProfile(r, d) ==
    /\ At(r, "idle")
    /\ \E limit \in Rates \cup {None}, quota \in Amounts \cup {None} :
          SetPolicy(d, [policy[d] EXCEPT !.limit = limit, !.quota = quota])
    /\ Goto(r, [Call("reconcile", d) EXCEPT !.pc = "observe"])
    /\ UNCHANGED <<used, shape, element, today, cycles>>

AssignSchedule(r, d) ==
    /\ At(r, "idle")
    /\ SetPolicy(d, [policy[d] EXCEPT !.scheduled = ~@])
    /\ UNCHANGED <<used, shape, element, today, task, cycles>>

\* blockDevice and unblockDevice: the policy first, then the element.
BlockRequest(r, d) ==
    /\ At(r, "idle")
    /\ \E op \in {"block", "unblock"} : Goto(r, [Call(op, d) EXCEPT !.pc = "flag"])
    /\ UNCHANGED <<policy, used, shape, element, today, cycles>>

PersistBlocked(r) ==
    LET t == task[r] IN
    /\ At(r, "flag")
    /\ SetPolicy(t.dev, [policy[t.dev] EXCEPT !.blocked = (t.op = "block")])
    /\ Step(r, "element")
    /\ UNCHANGED <<used, shape, element, today, cycles>>

EnforceBlocked(r) ==
    /\ At(r, "element")
    /\ SetElement(task[r].dev, task[r].op = "block")
    /\ Return(r)
    /\ UNCHANGED <<policy, used, shape, today, cycles>>

NewRequest(r, d) ==
    \/ Patch(r, d) \/ AssignProfile(r, d) \/ AssignSchedule(r, d)
    \/ BlockRequest(r, d)
    \/ (GetQuota(r, d) \/ ResetQuota(r, d)) /\ UNCHANGED cycles
    \/ \/ ClearDownload(r, d)
       \/ \E rate \in Rates : LimitDownload(r, d, rate)
       /\ UNCHANGED scheduleVars

\* The next await of a call in flight.
TaskStep(p) ==
    \/ (ReconcilePolicy(p) \/ QuotaStep(p)) /\ UNCHANGED cycles
    \/ LimitStep(p) /\ UNCHANGED scheduleVars
    \/ PersistBlocked(p) \/ EnforceBlocked(p)

CollectorReads(d) == RecordUsage(d) /\ UNCHANGED cycles

ReconciliationStep == ReconcileStep /\ UNCHANGED scheduleVars

-----------------------------------------------------------------------------
\* Faults, and time.

\* Whatever a call awaits may fail; the caller reports it and does not retry.
\* A failed schedule cycle is an unhandled rejection and ends the process.
TaskFails(p) ==
    /\ p # Scheduler /\ ~At(p, "idle")
    /\ Return(p)
    /\ UNCHANGED <<policy, used, shape, element, today, cycles>>

ReconciliationFails == ReconcileFails /\ UNCHANGED scheduleVars

\* The process dies and starts again: what was in flight and scheduledStates
\* are gone, and FirewallService.reconcile makes the elements what the policies
\* say, without regard to quota or schedule. A host that restarts loses tc too.
Restart ==
    /\ \/ UNCHANGED shape
       \/ ClearBaseState
    /\ element' = [d \in Devices |-> policy[d].blocked]
    /\ task' = [p \in Procs |-> Idle]
    /\ recon' = NoRecon
    /\ states' = [d \in Devices |-> None]
    /\ cycle' = NoCycle
    /\ UNCHANGED <<policy, used, today, window>>

NewDay ==
    /\ today < LastDay
    /\ today' = today + 1
    /\ UNCHANGED <<policy, used, shape, element, task, cycles>>

WindowTurns ==
    /\ window' = ~window
    /\ UNCHANGED <<policyVars, recon, states, cycle>>

-----------------------------------------------------------------------------
Init == PolicyInit /\ recon = NoRecon /\ ScheduleInit

Service ==
    \/ \E p \in Procs : TaskStep(p)
    \/ \E d \in Devices : CollectorReads(d)
    \/ ReconciliationStep
    \/ ScheduleStep

Fault == Restart \/ ReconciliationFails \/ \E p \in Procs : TaskFails(p)

Time == NewDay \/ WindowTurns

Ask == \E r \in Requests, d \in Devices : NewRequest(r, d)

Next == Service \/ Fault \/ Time \/ Ask

\* Calls and cycles run to their end and the timers fire again. A device that
\* the kernel lets through has traffic, so the collector records its usage.
Fairness ==
    /\ \A p \in Procs : WF_vars(TaskStep(p))
    /\ \A d \in Devices : SF_vars(CollectorReads(d) /\ ~element[d])
    /\ WF_vars(ReconciliationStep)
    /\ WF_vars(ScheduleStep)

Spec == Init /\ [][Next]_vars /\ Fairness

-----------------------------------------------------------------------------
\* Type correctness of the rows, the kernel, the calls and the cycles.
PolicyTypeOK == PolicyStateTypeOK /\ TrafficReconcileTypeOK /\ ScheduleTypeOK

\* A schedule and a throttle on one device never settle: the schedule applies
\* the policy's limit every cycle, the reconciliation the throttle.
Contested(d) ==
    policy[d].scheduled /\ Throttled(policy[d]) /\ policy[d].limit # None

\* Whatever handlers, cycles, failures and restarts did to tc in whatever
\* order, in the end a device is shaped as its policy says: by its limit, by
\* the quota throttle while that is enforced, or not at all
\* (TrafficReconciliationService.reconcile against every other writer of tc).
LimitsSettle ==
    \A d \in Devices : <>[](Contested(d) \/ shape[d] = Desired(policy[d]))

\* A quota stays exhausted only with its action enforced, whichever calls
\* overlapped or failed when it was exhausted, when the action was changed or
\* when it was reset; or the device is cut off, has no traffic, and nothing
\* looks at its quota (QuotaService.recordUsage and enforceQuotaAction).
QuotaTakesEffect ==
    \A d \in Devices :
        <>[](Exhausted(d) /\ policy[d].action # None
                => policy[d].enforced = policy[d].action \/ element[d])

\* The limit in the policy is the admin's: a step of the schedule cycle does
\* not change it (ScheduleEnforcementService.ts:12, "without mutating the
\* persisted desired policy").
ScheduleLeavesPolicy ==
    [][task[Scheduler] # Idle /\ task'[Scheduler] # task[Scheduler]
          => \A d \in Devices : policy'[d].limit = policy[d].limit]_vars

\* What a quota enforces ends with its period: in a new period that has no row
\* yet, the enforcement ends or a new exhaustion justifies it
\* (network-control-system-implementation-spec(3).md:150, "auto/manual reset").
QuotaEnds ==
    \A d \in Devices :
        (/\ policy[d].enforced # None /\ policy[d].quota # None
         /\ today > 0 /\ used[d][today] = None)
            ~> \/ policy[d].enforced = None \/ policy[d].quota = None
               \/ Exhausted(d) \/ policy[d].blocked
=============================================================================
