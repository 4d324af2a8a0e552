---------------------------- MODULE TrafficLimits ---------------------------
(***************************************************************************)
(* application/enforcement/TrafficEnforcementService.ts, the admin's       *)
(* limits, written to the policy and then to tc, and                       *)
(* TrafficReconciliationService.ts, the cycle that reads every policy and  *)
(* repairs every class from what it read.                                  *)
(***************************************************************************)
EXTENDS PolicyState

VARIABLE recon   \* the reconciliation cycle in flight

besideLimits == <<used, element, today>>

\* plan is what the snapshot of the policies asks of tc, todo the devices not
\* yet shaped.
Recon == [pc : {"idle", "apply", "base"},
          plan : [Devices -> Shapes], todo : SUBSET Devices]

NoRecon == [pc |-> "idle", plan |-> [d \in Devices |-> None], todo |-> {}]

-----------------------------------------------------------------------------
\* The limit endpoints, and the scheduler's calls of limitDownload.

LimitDownload(p, d, rate) ==
    /\ At(p, "idle")
    /\ Goto(p, [Call("limit", d) EXCEPT !.pc = "persist", !.rate = rate])
    /\ UNCHANGED <<policy, shape, recon, besideLimits>>

ClearDownload(r, d) ==
    /\ At(r, "idle")
    /\ Goto(r, [Call("unlimit", d) EXCEPT !.pc = "persist"])
    /\ UNCHANGED <<policy, shape, recon, besideLimits>>

\* The desired limit is durable before tc is touched.
PersistLimit(p) ==
    LET t == task[p] IN
    /\ At(p, "persist")
    /\ SetPolicy(t.dev, [policy[t.dev] EXCEPT !.limit = t.rate])
    /\ Step(p, IF t.op = "limit" THEN "shape" ELSE "unshape")
    /\ UNCHANGED <<shape, recon, besideLimits>>

ShapeDevice(p) ==
    /\ At(p, "shape")
    /\ SetShape(task[p].dev, task[p].rate)
    /\ Return(p)
    /\ UNCHANGED <<policy, recon, besideLimits>>

UnshapeDevice(p) ==
    /\ At(p, "unshape")
    /\ SetShape(task[p].dev, None)
    /\ Goto(p, [task[p] EXCEPT !.pc = "scan", !.todo = Devices])
    /\ UNCHANGED <<policy, recon, besideLimits>>

\* clearBaseStateWhenUnused reads the policies one by one until it meets a
\* limit; a quota throttle is not one. If it meets none, the base state goes.
ScanPolicy(p) ==
    /\ At(p, "scan")
    /\ \E d \in task[p].todo :
          LET rest == task[p].todo \ {d} IN
          \/ policy[d].limit # None /\ Return(p)
          \/ /\ policy[d].limit = None
             /\ Goto(p, [task[p] EXCEPT !.todo = rest,
                                        !.pc = IF rest = {} THEN "base" ELSE "scan"])
    /\ UNCHANGED <<policy, shape, recon, besideLimits>>

ClearUnusedBase(p) ==
    /\ At(p, "base")
    /\ ClearBaseState
    /\ Return(p)
    /\ UNCHANGED <<policy, recon, besideLimits>>

LimitStep(p) ==
    \/ PersistLimit(p) \/ ShapeDevice(p) \/ UnshapeDevice(p)
    \/ ScanPolicy(p) \/ ClearUnusedBase(p)

-----------------------------------------------------------------------------
\* TrafficReconciliationService.reconcile.

\* As Snapshot, were a quota throttle not wanted of tc.
FaultySnapshot == [d \in Devices |-> policy[d].limit]

Snapshot == [d \in Devices |-> Desired(policy[d])]

\* Every policy is read at once; if none asks for shaping, the base state goes.
ReconcileRead ==
    LET wanted == {d \in Devices : Snapshot[d] # None} IN
    /\ recon.pc = "idle"
    /\ recon' = [pc |-> IF wanted = {} THEN "base" ELSE "apply",
                 plan |-> Snapshot, todo |-> wanted]
    /\ UNCHANGED <<policy, shape, task, besideLimits>>

\* One device of the snapshot is shaped as the snapshot says.
ReconcileDevice ==
    /\ recon.pc = "apply"
    /\ \E d \in recon.todo :
          /\ SetShape(d, recon.plan[d])
          /\ recon' = [recon EXCEPT !.todo = @ \ {d}]
    /\ UNCHANGED <<policy, task, besideLimits>>

\* reconcileDownloadState: the classes the snapshot does not expect are stale.
RemoveStale ==
    /\ recon.pc = "apply" /\ recon.todo = {}
    /\ shape' = [d \in Devices |-> IF recon.plan[d] # None THEN shape[d] ELSE None]
    /\ recon' = NoRecon
    /\ UNCHANGED <<policy, task, besideLimits>>

ReconcileBase ==
    /\ recon.pc = "base"
    /\ ClearBaseState
    /\ recon' = NoRecon
    /\ UNCHANGED <<policy, task, besideLimits>>

\* A tc command fails: the device is skipped until the next cycle, the removal
\* of stale classes is left to it, or the cycle ends.
ReconcileFails ==
    /\ \/ /\ recon.pc = "apply"
          /\ \E d \in recon.todo : recon' = [recon EXCEPT !.todo = @ \ {d}]
       \/ /\ recon.pc = "apply" /\ recon.todo = {} /\ recon' = NoRecon
       \/ /\ recon.pc = "base" /\ recon' = NoRecon
    /\ UNCHANGED <<policy, shape, task, besideLimits>>

ReconcileStep == ReconcileRead \/ ReconcileDevice \/ RemoveStale \/ ReconcileBase

TrafficReconcileTypeOK == recon \in Recon
=============================================================================
