---------------------------- MODULE QuotaService ----------------------------
(***************************************************************************)
(* application/quota/QuotaService.ts: counting a device's usage against    *)
(* its quota and enforcing what the policy says when it is exhausted. The  *)
(* collector calls recordUsage, requests call getQuota, resetQuota and,    *)
(* after a policy PATCH, reconcilePolicy. Nothing serialises them: each    *)
(* action below is what runs between two awaits.                           *)
(*                                                                         *)
(* clearQuota has no caller and is left out.                               *)
(***************************************************************************)
EXTENDS PolicyState

Capped(n) == IF n > MaxUsed THEN MaxUsed ELSE n

database == <<policy, used>>

\* The policy read that recordUsage, getQuota and reconcilePolicy begin with.
\* Without a quota, what an older quota enforces is cleared.
Observe(p, op, d) ==
    LET row  == policy[d]
        call == [Call(op, d) EXCEPT !.quota = row.quota,
                    !.was = IF op = "reconcile" \/ row.quota = None
                            THEN row.enforced ELSE None]
    IN /\ \/ row.quota # None /\ Goto(p, [call EXCEPT !.pc = "find"])
          \/ /\ row.quota = None /\ row.enforced # None
             /\ Goto(p, [call EXCEPT !.pc = "clear"])
          \/ row.quota = None /\ row.enforced = None /\ Return(p)
       /\ UNCHANGED <<database, shape, element, today>>

RecordUsage(d) == At(Collector, "idle") /\ Observe(Collector, "usage", d)
GetQuota(r, d) == At(r, "idle") /\ Observe(r, "get", d)
ReconcilePolicy(r) == At(r, "observe") /\ Observe(r, "reconcile", task[r].dev)

\* resetQuota clears the enforced action first; without a quota it throws.
ResetQuota(r, d) ==
    /\ At(r, "idle") /\ policy[d].quota # None
    /\ Goto(r, [Call("reset", d) EXCEPT !.pc = "clear", !.was = policy[d].enforced])
    /\ UNCHANGED <<database, shape, element, today>>

\* findCurrent. reconcilePolicy decides on the row as it is; the others go on
\* to create the missing row, or to the row they found.
FindCurrent(p) ==
    LET t     == task[p]
        row   == used[t.dev][today]
        spent == row # None /\ row >= t.quota
    IN /\ At(p, "find")
       /\ \/ /\ t.op = "reconcile" /\ spent
             /\ Goto(p, [Call(t.op, t.dev) EXCEPT !.pc = "enforce"])
          \/ /\ t.op = "reconcile" /\ ~spent /\ t.was # None
             /\ Step(p, "clear")
          \/ /\ t.op = "reconcile" /\ ~spent /\ t.was = None
             /\ Return(p)
          \/ /\ t.op # "reconcile" /\ row = None
             /\ Goto(p, [t EXCEPT !.pc = "create", !.day = today, !.was = None])
          \/ /\ t.op = "usage" /\ row # None
             /\ Goto(p, [t EXCEPT !.pc = "add", !.day = today, !.was = None])
          \/ /\ t.op = "reset" /\ row # None
             /\ Goto(p, [t EXCEPT !.pc = "zero", !.day = today])
          \/ /\ t.op = "get" /\ row # None
             /\ Return(p)
       /\ UNCHANGED <<database, shape, element, today>>

\* The row is unique per device and period: the second of two creators throws.
Create(p) ==
    LET t == task[p] IN
    /\ At(p, "create")
    /\ \/ /\ used[t.dev][t.day] # None
          /\ Return(p) /\ UNCHANGED used
       \/ /\ used[t.dev][t.day] = None
          /\ used' = [used EXCEPT ![t.dev][t.day] = 0]
          /\ CASE t.op = "usage" -> Step(p, "add")
               [] t.op = "reset" -> Step(p, "finish")
               [] t.op = "get"   -> Return(p)
    /\ UNCHANGED <<policy, shape, element, today>>

\* incrementUsage of the row found, and the test of exhaustion against the
\* quota read at the beginning.
IncrementUsage(p) ==
    LET t == task[p] IN
    /\ At(p, "add")
    /\ \E bytes \in 1..MaxUsed :
          LET total == Capped(used[t.dev][t.day] + bytes) IN
          /\ used' = [used EXCEPT ![t.dev][t.day] = total]
          /\ IF total >= t.quota
             THEN Goto(p, [Call("usage", t.dev) EXCEPT !.pc = "enforce"])
             ELSE Return(p)
    /\ UNCHANGED <<policy, shape, element, today>>

\* The end of resetQuota: the row restarts from zero, and once more nothing is
\* recorded as enforced.
ResetUsage(p) ==
    /\ At(p, "zero")
    /\ used' = [used EXCEPT ![task[p].dev][task[p].day] = 0]
    /\ Step(p, "finish")
    /\ UNCHANGED <<policy, shape, element, today>>

FinishReset(p) ==
    /\ At(p, "finish")
    /\ SetPolicy(task[p].dev, [policy[task[p].dev] EXCEPT !.enforced = None])
    /\ Return(p)
    /\ UNCHANGED <<used, shape, element, today>>

\* As EnforceQuotaAction, were any enforced action taken for the one asked for.
FaultyEnforceQuotaAction(p) ==
    LET t   == task[p]
        row == policy[t.dev]
    IN /\ At(p, "enforce")
       /\ \/ /\ row.action = None
             /\ Goto(p, [t EXCEPT !.pc = "clear", !.was = row.enforced])
          \/ /\ row.action # None /\ row.enforced # None
             /\ Return(p)
          \/ /\ row.action # None /\ row.enforced = None
             /\ Goto(p, [t EXCEPT !.pc = "apply", !.next = row.action])
       /\ UNCHANGED <<database, shape, element, today>>

\* enforceQuotaAction reads the policy again and decides on what it reads.
EnforceQuotaAction(p) ==
    LET t   == task[p]
        row == policy[t.dev]
    IN /\ At(p, "enforce")
       /\ \/ /\ row.action = None
             /\ Goto(p, [t EXCEPT !.pc = "clear", !.was = row.enforced])
          \/ /\ row.action # None /\ row.enforced = row.action
             /\ Return(p)
          \/ /\ row.action # None /\ row.enforced \notin {None, row.action}
             /\ Goto(p, [t EXCEPT !.pc = "clear", !.was = row.enforced,
                                  !.next = row.action])
          \/ /\ row.action # None /\ row.enforced = None
             /\ Goto(p, [t EXCEPT !.pc = "apply", !.next = row.action])
       /\ UNCHANGED <<database, shape, element, today>>

Apply(p) ==
    LET t == task[p] IN
    /\ At(p, "apply")
    /\ CASE t.next = "throttle"    -> SetShape(t.dev, Throttle) /\ UNCHANGED element
         [] t.next = "block"       -> SetElement(t.dev, TRUE) /\ UNCHANGED shape
         [] t.next = "notify-only" -> UNCHANGED <<shape, element>>
    /\ Step(p, "store")
    /\ UNCHANGED <<database, today>>

\* As StoreEnforced, were the caller stored for the action.
FaultyStoreEnforced(p) ==
    LET t == task[p] IN
    /\ At(p, "store")
    /\ SetPolicy(t.dev, [policy[t.dev] EXCEPT !.enforced = t.op])
    /\ Return(p)
    /\ UNCHANGED <<used, shape, element, today>>

StoreEnforced(p) ==
    LET t == task[p] IN
    /\ At(p, "store")
    /\ SetPolicy(t.dev, [policy[t.dev] EXCEPT !.enforced = t.next])
    /\ Return(p)
    /\ UNCHANGED <<used, shape, element, today>>

\* clearQuotaEnforcement undoes the action it was told of. clearQuotaThrottle
\* reads the limit to restore, unblockForQuota keeps a device that the admin
\* has blocked; each reads the policy before it touches the kernel.
ClearQuotaEnforcement(p) ==
    LET t   == task[p]
        row == policy[t.dev]
    IN /\ At(p, "clear")
       /\ \/ /\ t.was = "throttle"
             /\ Goto(p, [t EXCEPT !.pc = "restore", !.rate = row.limit])
          \/ /\ t.was = "block" /\ ~row.blocked
             /\ Step(p, "release")
          \/ /\ t.was = "block" /\ row.blocked
             /\ Step(p, "unstore")
          \/ /\ t.was \in {None, "notify-only"}
             /\ Step(p, "unstore")
       /\ UNCHANGED <<database, shape, element, today>>

RestoreLimit(p) ==
    /\ At(p, "restore")
    /\ SetShape(task[p].dev, task[p].rate)
    /\ Step(p, "unstore")
    /\ UNCHANGED <<database, element, today>>

ReleaseElement(p) ==
    /\ At(p, "release")
    /\ SetElement(task[p].dev, FALSE)
    /\ Step(p, "unstore")
    /\ UNCHANGED <<database, shape, today>>

\* Nothing is enforced any more; then the caller goes on: with the new action,
\* with the row to reset, or not at all.
StoreCleared(p) ==
    LET t == task[p] IN
    /\ At(p, "unstore")
    /\ SetPolicy(t.dev, [policy[t.dev] EXCEPT !.enforced = None])
    /\ \/ t.next # None /\ Goto(p, [t EXCEPT !.pc = "apply", !.was = None, !.rate = None])
       \/ t.op = "reset" /\ Goto(p, [Call("reset", t.dev) EXCEPT !.pc = "find"])
       \/ t.next = None /\ t.op # "reset" /\ Return(p)
    /\ UNCHANGED <<used, shape, element, today>>

QuotaStep(p) ==
    \/ FindCurrent(p) \/ Create(p) \/ IncrementUsage(p)
    \/ ResetUsage(p) \/ FinishReset(p)
    \/ EnforceQuotaAction(p) \/ Apply(p) \/ StoreEnforced(p)
    \/ ClearQuotaEnforcement(p) \/ RestoreLimit(p) \/ ReleaseElement(p)
    \/ StoreCleared(p)
=============================================================================
