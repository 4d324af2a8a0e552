----------------------------- MODULE PolicyProofs ---------------------------
(***************************************************************************)
(* The types of DevicePolicy for any devices, rates, quotas, requests and  *)
(* any rule, and what they rest on: what a call in flight has read of the  *)
(* device it acts on, and that the usage row it found is still there.      *)
(***************************************************************************)
EXTENDS MCDevicePolicy, TLAPS

Usage == 0 .. MaxUsed

Ops == {"none", "usage", "reconcile", "get", "reset", "limit", "unlimit", "block", "unblock"}

\* A call in flight has a device; one that looks for the usage row is of a kind
\* that does, and one that counts has a quota and, in the rows u, a row to add
\* to; one that enforces has an action.
TaskInv(t, u) ==
    /\ t.pc # "idle" => t.dev \in Devices
    /\ t.pc = "find" => t.op \in {"usage", "get", "reset", "reconcile"}
    /\ t.pc = "create" => t.op \in {"usage", "get", "reset"}
    /\ t.pc \in {"find", "create"} /\ t.op # "reset" => t.quota \in Amounts
    /\ t.pc = "add" => t.quota \in Amounts /\ u[t.dev][t.day] \in Usage
    /\ t.pc \in {"apply", "store"} => t.next \in Actions

TInv ==
    /\ PolicyTypeOK
    /\ \A p \in Procs : TaskInv(task[p], used)
    /\ cycle.pc \in {"element", "limits"} => cycle.dev \in Devices

-----------------------------------------------------------------------------
\* Calls.
LEMMA CallTyped ==
    ASSUME NEW op \in Ops, NEW d \in Devices
    PROVE  /\ Call(op, d) \in Task /\ Idle \in Task
           /\ Call(op, d).pc = "idle" /\ Call(op, d).op = op /\ Call(op, d).dev = d
<1>1. Idle \in Task /\ 0 \in Days
  BY PolicyAssumption DEF Idle, Task, Days
<1>2. /\ Idle.pc = "idle" /\ [Idle EXCEPT !.op = op] \in Task
      /\ [Idle EXCEPT !.op = op].pc = "idle" /\ [Idle EXCEPT !.op = op].op = op
  BY <1>1 DEF Task, Ops, Idle
<1> QED BY <1>1, <1>2 DEF Call, Task

LEMMA IdleInv == ASSUME NEW u PROVE TaskInv(Idle, u)
  BY DEF TaskInv, Idle

\* A step that asks of a call only that it has a device.
LEMMA PlainInv ==
    ASSUME NEW t, NEW u, t.dev \in Devices, t.pc \notin {"find", "create", "add", "apply", "store"}
    PROVE  TaskInv(t, u)
  BY DEF TaskInv

\* A row of the day that has a usage keeps having one.
RowsStay(v) ==
    \A d \in Devices, day \in Days : used[d][day] \in Usage => v[d][day] \in Usage

LEMMA TaskInvStays ==
    ASSUME NEW t \in Task, NEW v, TaskInv(t, used), RowsStay(v)
    PROVE  TaskInv(t, v)
  BY DEF TaskInv, RowsStay, Task

\* One call goes on, and the others stand where they stood.
LEMMA TaskGoesOn ==
    ASSUME TInv, NEW p \in Procs, NEW t \in Task, TaskInv(t, used'), Goto(p, t), RowsStay(used')
    PROVE  /\ task' \in [Procs -> Task]
           /\ \A q \in Procs : TaskInv(task'[q], used')
<1>1. task \in [Procs -> Task] /\ \A q \in Procs : task[q] \in Task /\ TaskInv(task[q], used)
  BY DEF TInv, PolicyTypeOK, PolicyStateTypeOK
<1>2. /\ task' \in [Procs -> Task] /\ task'[p] = t
      /\ \A q \in Procs : q # p => task'[q] = task[q]
  BY <1>1 DEF Goto
<1>3. ASSUME NEW q \in Procs, q # p PROVE TaskInv(task'[q], used')
  BY <1>1, <1>2, <1>3, TaskInvStays
<1> QED BY <1>2, <1>3

LEMMA TasksStay ==
    ASSUME TInv, UNCHANGED task, RowsStay(used')
    PROVE  /\ task' \in [Procs -> Task]
           /\ \A q \in Procs : TaskInv(task'[q], used')
<1>1. task \in [Procs -> Task] /\ \A q \in Procs : task[q] \in Task /\ TaskInv(task[q], used)
  BY DEF TInv, PolicyTypeOK, PolicyStateTypeOK
<1>2. ASSUME NEW q \in Procs PROVE TaskInv(task'[q], used')
  BY <1>1, <1>2, TaskInvStays
<1> QED BY <1>1, <1>2

\* The rest of the invariant, of what a call in flight leaves alone.
KernelInv ==
    /\ policy \in [Devices -> Policy]
    /\ used \in [Devices -> [Days -> Usage \cup {None}]]
    /\ shape \in [Devices -> Shapes]
    /\ element \in [Devices -> BOOLEAN]
    /\ today \in Days

CyclesInv ==
    /\ recon \in Recon
    /\ window \in BOOLEAN
    /\ states \in [Devices -> BOOLEAN \cup {None}]
    /\ cycle \in Cycle
    /\ cycle.pc \in {"element", "limits"} => cycle.dev \in Devices

LEMMA Parts ==
    TInv <=> /\ KernelInv /\ CyclesInv
             /\ task \in [Procs -> Task] /\ \A q \in Procs : TaskInv(task[q], used)
  BY DEF TInv, KernelInv, CyclesInv, PolicyTypeOK, PolicyStateTypeOK, TrafficReconcileTypeOK,
         ScheduleTypeOK, Usage

\* The same, one step later.
LEMMA PartsNext ==
    ASSUME KernelInv', CyclesInv', task' \in [Procs -> Task],
           \A q \in Procs : TaskInv(task'[q], used')
    PROVE  TInv'
  BY DEF TInv, KernelInv, CyclesInv, PolicyTypeOK, PolicyStateTypeOK, TrafficReconcileTypeOK,
         ScheduleTypeOK, Usage

\* A call goes on and the rows of usage stay.
LEMMA QuietCall ==
    ASSUME TInv, NEW p \in Procs, NEW t \in Task, TaskInv(t, used), Goto(p, t),
           UNCHANGED used, KernelInv', CyclesInv'
    PROVE  TInv'
<1>1. TaskInv(t, used') /\ RowsStay(used')
  BY DEF RowsStay
<1> QED BY <1>1, TaskGoesOn, PartsNext

\* The fields of a call in flight.
LEMMA Flight ==
    ASSUME TInv, NEW p \in Procs
    PROVE  /\ task[p] \in Task /\ TaskInv(task[p], used)
           /\ task[p].op \in Ops /\ task[p].day \in Days
           /\ task[p].quota \in Amounts \cup {None}
           /\ task[p].was \in Actions \cup {None} /\ task[p].next \in Actions \cup {None}
           /\ task[p].rate \in Rates \cup {None} /\ task[p].todo \subseteq Devices
           /\ task[p].pc # "idle" => task[p].dev \in Devices
  BY DEF TInv, PolicyTypeOK, PolicyStateTypeOK, Task, TaskInv, Ops

LEMMA PolicyRow ==
    ASSUME TInv, NEW d \in Devices
    PROVE  /\ policy[d] \in Policy
           /\ policy[d].limit \in Rates \cup {None} /\ policy[d].quota \in Amounts \cup {None}
           /\ policy[d].action \in Actions \cup {None}
           /\ policy[d].enforced \in Actions \cup {None}
           /\ policy[d].blocked \in BOOLEAN /\ policy[d].scheduled \in BOOLEAN
  BY DEF TInv, PolicyTypeOK, PolicyStateTypeOK, Policy

\* The parts of the kernel's state and of the database, each written in turn.
LEMMA KernelStays == ASSUME TInv, UNCHANGED <<policy, used, shape, element, today>> PROVE KernelInv'
  BY Parts DEF KernelInv

LEMMA CyclesStay == ASSUME TInv, UNCHANGED <<recon, window, states, cycle>> PROVE CyclesInv'
  BY Parts DEF CyclesInv

LEMMA PolicyWritten ==
    ASSUME TInv, NEW d \in Devices, NEW row \in Policy, SetPolicy(d, row),
           UNCHANGED <<used, shape, element, today>>
    PROVE  KernelInv'
  BY Parts DEF KernelInv, SetPolicy

LEMMA ShapeWritten ==
    ASSUME TInv, NEW d \in Devices, NEW rate \in Shapes, SetShape(d, rate),
           UNCHANGED <<policy, used, element, today>>
    PROVE  KernelInv'
  BY Parts DEF KernelInv, SetShape

LEMMA ElementWritten ==
    ASSUME TInv, NEW d \in Devices, NEW in \in BOOLEAN, SetElement(d, in),
           UNCHANGED <<policy, used, shape, today>>
    PROVE  KernelInv'
  BY Parts DEF KernelInv, SetElement

LEMMA BaseCleared ==
    ASSUME TInv, ClearBaseState, UNCHANGED <<policy, used, element, today>>
    PROVE  KernelInv'
  BY Parts DEF KernelInv, ClearBaseState, Shapes

LEMMA RowWritten ==
    ASSUME TInv, NEW d \in Devices, NEW day \in Days, NEW n \in Usage,
           used' = [used EXCEPT ![d][day] = n], UNCHANGED <<policy, shape, element, today>>
    PROVE  KernelInv' /\ RowsStay(used') /\ used'[d][day] = n
  BY Parts DEF KernelInv, RowsStay

-----------------------------------------------------------------------------
\* QuotaService.
LEMMA ObserveKeepsTInv ==
    ASSUME TInv, NEW p \in Procs, NEW op \in Ops \cap {"usage", "get", "reconcile"},
           NEW d \in Devices, Observe(p, op, d), UNCHANGED <<recon, window, states, cycle>>
    PROVE  TInv'
<1> DEFINE row  == policy[d]
           was  == IF op = "reconcile" \/ row.quota = None THEN row.enforced ELSE None
           call == [Call(op, d) EXCEPT !.quota = row.quota, !.was = was]
<1>1. KernelInv' /\ CyclesInv' /\ UNCHANGED used
  BY KernelStays, CyclesStay DEF Observe, database
<1>2. /\ Call(op, d) \in Task /\ Call(op, d).dev = d /\ Call(op, d).op = op
      /\ was \in Actions \cup {None} /\ row.quota \in Amounts \cup {None}
  BY CallTyped, PolicyRow
<1>3. call \in Task /\ call.dev = d /\ call.op = op /\ call.quota = row.quota
  <2> HIDE DEF row, was
  <2> QED BY <1>2 DEF Task
<1>4. PICK t : /\ Goto(p, t)
               /\ \/ row.quota # None /\ t = [call EXCEPT !.pc = "find"]
                  \/ t = [call EXCEPT !.pc = "clear"]
                  \/ t = Idle
  BY DEF Observe, Return
<1>5. t \in Task /\ TaskInv(t, used)
  <2> HIDE DEF call
  <2>1. CASE row.quota # None /\ t = [call EXCEPT !.pc = "find"]
    BY <1>3, <2>1, PolicyRow DEF Task, TaskInv
  <2>2. CASE t = [call EXCEPT !.pc = "clear"]
    BY <1>3, <2>2 DEF Task, TaskInv
  <2>3. CASE t = Idle
    BY <2>3, CallTyped, IdleInv
  <2> QED BY <1>4, <2>1, <2>2, <2>3
<1> QED BY <1>1, <1>4, <1>5, QuietCall

LEMMA FindCurrentKeepsTInv ==
    ASSUME TInv, NEW p \in Procs, FindCurrent(p), UNCHANGED <<recon, window, states, cycle>>
    PROVE  TInv'
<1> DEFINE t   == task[p]
           row == used[t.dev][today]
<1>1. KernelInv' /\ CyclesInv' /\ UNCHANGED used
  BY KernelStays, CyclesStay DEF FindCurrent, database
<1>2. /\ t \in Task /\ t.pc = "find" /\ t.dev \in Devices /\ today \in Days
      /\ t.op \in {"usage", "get", "reset", "reconcile"}
      /\ t.op # "reset" => t.quota \in Amounts
      /\ row \in Usage \cup {None}
  BY Flight, Parts DEF FindCurrent, At, TaskInv, KernelInv
<1>3. PICK s : /\ Goto(p, s)
               /\ \/ s = [Call(t.op, t.dev) EXCEPT !.pc = "enforce"]
                  \/ s = [t EXCEPT !.pc = "clear"]
                  \/ s = Idle
                  \/ t.op # "reconcile"
                     /\ s = [t EXCEPT !.pc = "create", !.day = today, !.was = None]
                  \/ t.op = "usage" /\ row # None
                     /\ s = [t EXCEPT !.pc = "add", !.day = today, !.was = None]
                  \/ s = [t EXCEPT !.pc = "zero", !.day = today]
  BY DEF FindCurrent, Return, Step
<1> HIDE DEF t
<1>4. s \in Task /\ TaskInv(s, used)
  <2>1. CASE s = [Call(t.op, t.dev) EXCEPT !.pc = "enforce"]
    <3>1. Call(t.op, t.dev) \in Task /\ Call(t.op, t.dev).dev = t.dev
      BY <1>2, CallTyped DEF Ops
    <3>2. s \in Task /\ s.pc = "enforce" /\ s.dev = t.dev
      BY <2>1, <3>1 DEF Task
    <3> QED BY <1>2, <3>2 DEF TaskInv
  <2>2. CASE s = [t EXCEPT !.pc = "clear"]
    <3>1. s \in Task /\ s.pc = "clear" /\ s.dev = t.dev
      BY <1>2, <2>2 DEF Task
    <3> QED BY <3>1, <1>2, PlainInv
  <2>3. CASE s = Idle
    BY <1>2, <2>3, CallTyped, IdleInv DEF Ops
  <2>4. CASE t.op # "reconcile" /\ s = [t EXCEPT !.pc = "create", !.day = today, !.was = None]
    BY <1>2, <2>4 DEF Task, TaskInv
  <2>5. CASE t.op = "usage" /\ row # None
             /\ s = [t EXCEPT !.pc = "add", !.day = today, !.was = None]
    BY <1>2, <2>5 DEF Task, TaskInv
  <2>6. CASE s = [t EXCEPT !.pc = "zero", !.day = today]
    <3>1. s \in Task /\ s.pc = "zero" /\ s.dev = t.dev
      BY <1>2, <2>6 DEF Task
    <3> QED BY <1>2, <3>1, PlainInv
  <2> QED BY <1>3, <2>1, <2>2, <2>3, <2>4, <2>5, <2>6
<1> QED BY <1>1, <1>3, <1>4, QuietCall

LEMMA CallReturns ==
    ASSUME TInv, NEW p \in Procs, Return(p), UNCHANGED used, KernelInv', CyclesInv'
    PROVE  TInv'
<1>1. Idle \in Task
  BY PolicyAssumption DEF Idle, Task, Days
<1> QED BY <1>1, IdleInv, QuietCall DEF Return

LEMMA CreateKeepsTInv ==
    ASSUME TInv, NEW p \in Procs, Create(p), UNCHANGED <<recon, window, states, cycle>>
    PROVE  TInv'
<1> DEFINE t == task[p]
<1>1. /\ t \in Task /\ t.dev \in Devices /\ t.day \in Days /\ 0 \in Usage
      /\ t.op \in {"usage", "get", "reset"}
      /\ t.op # "reset" => t.quota \in Amounts
  <2>1. t.pc = "create" /\ t \in Task /\ TaskInv(t, used) /\ t.dev \in Devices /\ t.day \in Days
    BY Flight DEF Create, At
  <2>2. 0 \in Usage
    BY PolicyAssumption DEF Usage
  <2> QED BY <2>1, <2>2 DEF TaskInv
<1>2. CyclesInv'
  BY CyclesStay
<1>3. /\ UNCHANGED <<policy, shape, element, today>>
      /\ \/ UNCHANGED used /\ Return(p)
         \/ /\ used' = [used EXCEPT ![t.dev][t.day] = 0]
            /\ \/ t.op = "usage" /\ Step(p, "add")
               \/ Step(p, "finish")
               \/ Return(p)
  <2>1. CASE t.op = "usage"
    BY <2>1 DEF Create
  <2>2. CASE t.op = "get"
    BY <2>2 DEF Create
  <2>3. CASE t.op = "reset"
    BY <2>3 DEF Create
  <2> QED BY <1>1, <2>1, <2>2, <2>3
<1>4. CASE UNCHANGED used /\ Return(p)
  BY <1>2, <1>3, <1>4, KernelStays, CallReturns
<1>5. CASE /\ used' = [used EXCEPT ![t.dev][t.day] = 0]
           /\ \/ t.op = "usage" /\ Step(p, "add")
              \/ Step(p, "finish")
              \/ Return(p)
  <2>1. KernelInv' /\ RowsStay(used') /\ used'[t.dev][t.day] = 0
    BY <1>1, <1>3, <1>5, RowWritten
  <2>2. PICK s : /\ Goto(p, s)
                 /\ \/ s = Idle
                    \/ s = [t EXCEPT !.pc = "finish"]
                    \/ t.op = "usage" /\ s = [t EXCEPT !.pc = "add"]
    BY <1>5 DEF Return, Step
  <2> HIDE DEF t
  <2>3. s \in Task /\ TaskInv(s, used')
    <3>1. CASE s = Idle
      BY <1>1, <3>1, CallTyped, IdleInv DEF Ops
    <3>2. CASE s = [t EXCEPT !.pc = "finish"]
      <4>1. s \in Task /\ s.pc = "finish" /\ s.dev = t.dev
        BY <1>1, <3>2 DEF Task
      <4> QED BY <1>1, <4>1, PlainInv
    <3>3. CASE t.op = "usage" /\ s = [t EXCEPT !.pc = "add"]
      <4>1. /\ s \in Task /\ s.pc = "add" /\ s.dev = t.dev /\ s.day = t.day
            /\ s.quota = t.quota
        BY <1>1, <3>3 DEF Task
      <4> QED BY <1>1, <2>1, <3>3, <4>1 DEF TaskInv
    <3> QED BY <2>2, <3>1, <3>2, <3>3
  <2> QED BY <1>2, <2>1, <2>2, <2>3, TaskGoesOn, PartsNext
<1> QED BY <1>3, <1>4, <1>5

LEMMA IncrementUsageKeepsTInv ==
    ASSUME TInv, NEW p \in Procs, IncrementUsage(p), UNCHANGED <<recon, window, states, cycle>>
    PROVE  TInv'
<1> DEFINE t == task[p]
<1>1. /\ t \in Task /\ t.dev \in Devices /\ t.day \in Days
      /\ used[t.dev][t.day] \in Usage /\ t.quota \in Amounts
  BY Flight DEF IncrementUsage, At, TaskInv
<1>2. PICK bytes \in 1 .. MaxUsed :
          /\ used' = [used EXCEPT ![t.dev][t.day] = Capped(used[t.dev][t.day] + bytes)]
          /\ \/ Goto(p, [Call("usage", t.dev) EXCEPT !.pc = "enforce"])
             \/ Goto(p, Idle)
  BY DEF IncrementUsage, Return
<1>3. Capped(used[t.dev][t.day] + bytes) \in Usage
  BY <1>1, PolicyAssumption DEF Capped, Usage
<1>4. KernelInv' /\ RowsStay(used') /\ CyclesInv'
  BY <1>1, <1>2, <1>3, RowWritten, CyclesStay DEF IncrementUsage
<1>5. PICK s : Goto(p, s) /\ s \in {[Call("usage", t.dev) EXCEPT !.pc = "enforce"], Idle}
  BY <1>2
<1>6. s \in Task /\ TaskInv(s, used')
  <2>1. CASE s = Idle
    BY <1>1, <2>1, CallTyped, IdleInv DEF Ops
  <2>2. CASE s = [Call("usage", t.dev) EXCEPT !.pc = "enforce"]
    <3>1. Call("usage", t.dev) \in Task /\ Call("usage", t.dev).dev = t.dev
      BY <1>1, CallTyped DEF Ops
    <3>2. s \in Task /\ s.pc = "enforce" /\ s.dev = t.dev
      BY <2>2, <3>1 DEF Task
    <3> QED BY <1>1, <3>2 DEF TaskInv
  <2> QED BY <1>5, <2>1, <2>2
<1> QED BY <1>4, <1>5, <1>6, TaskGoesOn, PartsNext

LEMMA ResetUsageKeepsTInv ==
    ASSUME TInv, NEW p \in Procs, ResetUsage(p), UNCHANGED <<recon, window, states, cycle>>
    PROVE  TInv'
<1> DEFINE t == task[p]
<1>1. t \in Task /\ t.dev \in Devices /\ t.day \in Days /\ 0 \in Usage
  BY Flight, PolicyAssumption DEF ResetUsage, At, Usage
<1>2. KernelInv' /\ RowsStay(used') /\ CyclesInv'
  BY <1>1, RowWritten, CyclesStay DEF ResetUsage
<1>3. Goto(p, [t EXCEPT !.pc = "finish"])
  BY DEF ResetUsage, Step
<1>4. [t EXCEPT !.pc = "finish"] \in Task /\ TaskInv([t EXCEPT !.pc = "finish"], used')
  <2> DEFINE s == [t EXCEPT !.pc = "finish"]
  <2>1. s \in Task /\ s.pc = "finish" /\ s.dev = t.dev
    BY <1>1 DEF Task
  <2> QED BY <1>1, <2>1, PlainInv
<1> QED BY <1>2, <1>3, <1>4, TaskGoesOn, PartsNext

\* The row of a policy with another value.
LEMMA PolicyEdited ==
    ASSUME TInv, NEW d \in Devices
    PROVE  /\ \A e \in Actions \cup {None} : [policy[d] EXCEPT !.enforced = e] \in Policy
           /\ \A l \in Rates \cup {None} : [policy[d] EXCEPT !.limit = l] \in Policy
           /\ \A b \in BOOLEAN : [policy[d] EXCEPT !.blocked = b] \in Policy
           /\ \A b \in BOOLEAN : [policy[d] EXCEPT !.scheduled = b] \in Policy
           /\ \A q \in Amounts \cup {None}, a \in Actions \cup {None} :
                 [policy[d] EXCEPT !.quota = q, !.action = a] \in Policy
           /\ \A l \in Rates \cup {None}, q \in Amounts \cup {None} :
                 [policy[d] EXCEPT !.limit = l, !.quota = q] \in Policy
<1>1. policy[d] \in Policy
  BY PolicyRow
<1> QED BY <1>1 DEF Policy

LEMMA EnforceActionKeepsTInv ==
    ASSUME TInv, NEW p \in Procs, EnforceQuotaAction(p), UNCHANGED <<recon, window, states, cycle>>
    PROVE  TInv'
<1> DEFINE t   == task[p]
           row == policy[t.dev]
<1>1. KernelInv' /\ CyclesInv' /\ UNCHANGED used
  BY KernelStays, CyclesStay DEF EnforceQuotaAction, database
<1>2. t \in Task /\ t.pc = "enforce" /\ t.dev \in Devices
  BY Flight DEF EnforceQuotaAction, At
<1>3. row.action \in Actions \cup {None} /\ row.enforced \in Actions \cup {None}
  BY <1>2, PolicyRow
<1>4. PICK s : /\ Goto(p, s)
               /\ \/ s = [t EXCEPT !.pc = "clear", !.was = row.enforced]
                  \/ s = Idle
                  \/ s = [t EXCEPT !.pc = "clear", !.was = row.enforced, !.next = row.action]
                  \/ row.action # None /\ s = [t EXCEPT !.pc = "apply", !.next = row.action]
  BY DEF EnforceQuotaAction, Return
<1> HIDE DEF t
<1>5. s \in Task /\ TaskInv(s, used)
  <2>1. CASE s = [t EXCEPT !.pc = "clear", !.was = row.enforced]
    <3>1. s \in Task /\ s.pc = "clear" /\ s.dev = t.dev
      BY <1>2, <1>3, <2>1 DEF Task
    <3> QED BY <1>2, <3>1, PlainInv
  <2>2. CASE s = Idle
    BY <1>2, <2>2, CallTyped, IdleInv DEF Ops
  <2>3. CASE s = [t EXCEPT !.pc = "clear", !.was = row.enforced, !.next = row.action]
    <3>1. s \in Task /\ s.pc = "clear" /\ s.dev = t.dev
      BY <1>2, <1>3, <2>3 DEF Task
    <3> QED BY <1>2, <3>1, PlainInv
  <2>4. CASE row.action # None /\ s = [t EXCEPT !.pc = "apply", !.next = row.action]
    BY <1>2, <1>3, <2>4 DEF Task, TaskInv
  <2> QED BY <1>4, <2>1, <2>2, <2>3, <2>4
<1> QED BY <1>1, <1>4, <1>5, QuietCall

\* A call that stays with its device at a step that asks for no more of it.
LEMMA CallSteps ==
    ASSUME TInv, NEW p \in Procs, task[p].pc # "idle",
           NEW pc \in {"zero", "finish", "enforce", "clear", "restore", "release", "unstore",
                       "shape", "unshape", "element", "scan", "base"},
           Step(p, pc), UNCHANGED used, KernelInv', CyclesInv'
    PROVE  TInv'
<1>1. task[p] \in Task /\ task[p].dev \in Devices
  BY Flight
<1>2. [task[p] EXCEPT !.pc = pc] \in Task /\ TaskInv([task[p] EXCEPT !.pc = pc], used)
  <2> DEFINE s == [task[p] EXCEPT !.pc = pc]
  <2>1. s \in Task /\ s.pc = pc /\ s.dev = task[p].dev
    BY <1>1 DEF Task
  <2> QED BY <1>1, <2>1 DEF TaskInv
<1> QED BY <1>2, QuietCall DEF Step

LEMMA ApplyKeepsTInv ==
    ASSUME TInv, NEW p \in Procs, Apply(p), UNCHANGED <<recon, window, states, cycle>>
    PROVE  TInv'
<1> DEFINE t == task[p]
<1>1. t \in Task /\ t.dev \in Devices /\ t.next \in Actions /\ UNCHANGED <<policy, used, today>>
  BY Flight DEF Apply, At, TaskInv, database
<1>2. KernelInv'
  <2>1. CASE t.next = "throttle"
    <3>1. SetShape(t.dev, Throttle) /\ UNCHANGED element
      BY <2>1 DEF Apply
    <3> QED BY <1>1, <3>1, ShapeWritten DEF Shapes
  <2>2. CASE t.next = "block"
    <3>1. SetElement(t.dev, TRUE) /\ UNCHANGED shape
      BY <2>2 DEF Apply
    <3> QED BY <1>1, <3>1, ElementWritten
  <2>3. CASE t.next = "notify-only"
    <3>1. UNCHANGED <<shape, element>>
      BY <2>3 DEF Apply
    <3> QED BY <1>1, <3>1, KernelStays
  <2> QED BY <1>1, <2>1, <2>2, <2>3 DEF Actions
<1>3. [t EXCEPT !.pc = "store"] \in Task /\ TaskInv([t EXCEPT !.pc = "store"], used)
  <2> DEFINE s == [t EXCEPT !.pc = "store"]
  <2>1. s \in Task /\ s.pc = "store" /\ s.dev = t.dev /\ s.next = t.next
    BY <1>1 DEF Task
  <2> QED BY <1>1, <2>1 DEF TaskInv
<1>4. Goto(p, [t EXCEPT !.pc = "store"])
  BY DEF Apply, Step
<1> QED BY <1>1, <1>2, <1>3, <1>4, CyclesStay, QuietCall

LEMMA StoreCallsKeepTInv ==
    ASSUME TInv, NEW p \in Procs, FinishReset(p) \/ StoreEnforced(p),
           UNCHANGED <<recon, window, states, cycle>>
    PROVE  TInv'
<1> DEFINE t == task[p]
<1>1. t.dev \in Devices /\ t.next \in Actions \cup {None} /\ UNCHANGED <<used, shape, element, today>>
  BY Flight DEF FinishReset, StoreEnforced, At
<1>2. PICK e \in Actions \cup {None} : SetPolicy(t.dev, [policy[t.dev] EXCEPT !.enforced = e])
  BY <1>1 DEF FinishReset, StoreEnforced
<1>3. KernelInv' /\ CyclesInv' /\ UNCHANGED used /\ Return(p)
  BY <1>1, <1>2, PolicyEdited, PolicyWritten, CyclesStay DEF FinishReset, StoreEnforced
<1> QED BY <1>3, CallReturns

LEMMA ClearKeepsTInv ==
    ASSUME TInv, NEW p \in Procs, ClearQuotaEnforcement(p), UNCHANGED <<recon, window, states, cycle>>
    PROVE  TInv'
<1> DEFINE t   == task[p]
           row == policy[t.dev]
<1>1. KernelInv' /\ CyclesInv' /\ UNCHANGED used /\ t.pc # "idle"
  BY KernelStays, CyclesStay DEF ClearQuotaEnforcement, database, At
<1>2. t \in Task /\ t.dev \in Devices /\ row.limit \in Rates \cup {None}
  BY <1>1, Flight, PolicyRow
<1>3. \/ Goto(p, [t EXCEPT !.pc = "restore", !.rate = row.limit])
      \/ Step(p, "release") \/ Step(p, "unstore")
  BY DEF ClearQuotaEnforcement
<1>4. CASE Goto(p, [t EXCEPT !.pc = "restore", !.rate = row.limit])
  <2> DEFINE s == [t EXCEPT !.pc = "restore", !.rate = row.limit]
  <2>1. s \in Task /\ TaskInv(s, used)
    <3>1. s \in Task /\ s.pc = "restore" /\ s.dev = t.dev
      BY <1>2 DEF Task
    <3> QED BY <1>2, <3>1, PlainInv
  <2> HIDE DEF s
  <2>2. Goto(p, s)
    BY <1>4 DEF s
  <2> QED BY <1>1, <2>1, <2>2, QuietCall
<1> QED BY <1>1, <1>3, <1>4, CallSteps

LEMMA UndoKeepsTInv ==
    ASSUME TInv, NEW p \in Procs, RestoreLimit(p) \/ ReleaseElement(p),
           UNCHANGED <<recon, window, states, cycle>>
    PROVE  TInv'
<1>1. task[p].pc # "idle" /\ task[p].dev \in Devices /\ task[p].rate \in Rates \cup {None}
  BY Flight DEF RestoreLimit, ReleaseElement, At
<1>2. UNCHANGED used /\ Step(p, "unstore") /\ CyclesInv'
  BY CyclesStay DEF RestoreLimit, ReleaseElement, database
<1>3. KernelInv'
  <2>1. CASE RestoreLimit(p)
    BY <1>1, <2>1, ShapeWritten DEF RestoreLimit, database, Shapes
  <2>2. CASE ReleaseElement(p)
    BY <1>1, <2>2, ElementWritten DEF ReleaseElement, database
  <2> QED BY <2>1, <2>2
<1> QED BY <1>1, <1>2, <1>3, CallSteps

LEMMA StoreClearedKeepsTInv ==
    ASSUME TInv, NEW p \in Procs, StoreCleared(p), UNCHANGED <<recon, window, states, cycle>>
    PROVE  TInv'
<1> DEFINE t == task[p]
<1>1. t \in Task /\ t.dev \in Devices /\ t.next \in Actions \cup {None}
  BY Flight DEF StoreCleared, At
<1>2. KernelInv' /\ CyclesInv' /\ UNCHANGED used
  BY <1>1, PolicyEdited, PolicyWritten, CyclesStay DEF StoreCleared
<1>3. PICK s : /\ Goto(p, s)
               /\ \/ t.next # None /\ s = [t EXCEPT !.pc = "apply", !.was = None, !.rate = None]
                  \/ s = [Call("reset", t.dev) EXCEPT !.pc = "find"]
                  \/ s = Idle
  BY DEF StoreCleared, Return
<1> HIDE DEF t
<1>4. s \in Task /\ TaskInv(s, used)
  <2>1. CASE t.next # None /\ s = [t EXCEPT !.pc = "apply", !.was = None, !.rate = None]
    BY <1>1, <2>1 DEF Task, TaskInv
  <2>2. CASE s = [Call("reset", t.dev) EXCEPT !.pc = "find"]
    <3>1. /\ Call("reset", t.dev) \in Task /\ Call("reset", t.dev).dev = t.dev
          /\ Call("reset", t.dev).op = "reset"
      BY <1>1, CallTyped DEF Ops
    <3> QED BY <1>1, <2>2, <3>1 DEF Task, TaskInv
  <2>3. CASE s = Idle
    BY <1>1, <2>3, CallTyped, IdleInv DEF Ops
  <2> QED BY <1>3, <2>1, <2>2, <2>3
<1> QED BY <1>2, <1>3, <1>4, QuietCall

LEMMA QuotaStepKeepsTInv ==
    ASSUME TInv, NEW p \in Procs, QuotaStep(p), UNCHANGED <<recon, window, states, cycle>>
    PROVE  TInv'
  BY FindCurrentKeepsTInv, CreateKeepsTInv, IncrementUsageKeepsTInv, ResetUsageKeepsTInv,
     EnforceActionKeepsTInv, ApplyKeepsTInv, StoreCallsKeepTInv, ClearKeepsTInv, UndoKeepsTInv,
     StoreClearedKeepsTInv DEF QuotaStep

-----------------------------------------------------------------------------
\* TrafficLimits.
LEMMA LimitDownloadKeepsTInv ==
    ASSUME TInv, NEW p \in Procs, NEW d \in Devices, NEW rate \in Rates, LimitDownload(p, d, rate),
           CyclesInv'
    PROVE  TInv'
<1> DEFINE t == [Call("limit", d) EXCEPT !.pc = "persist", !.rate = rate]
<1>1. Call("limit", d) \in Task /\ Call("limit", d).dev = d
  BY CallTyped DEF Ops
<1>2. t \in Task /\ t.pc = "persist" /\ t.dev = d
  BY <1>1 DEF Task
<1>3. TaskInv(t, used)
  BY <1>2 DEF TaskInv
<1>4. Goto(p, t) /\ UNCHANGED used /\ KernelInv'
  BY KernelStays DEF LimitDownload, besideLimits
<1> QED BY <1>2, <1>3, <1>4, QuietCall

LEMMA ClearDownloadKeepsTInv ==
    ASSUME TInv, NEW p \in Procs, NEW d \in Devices, ClearDownload(p, d), UNCHANGED scheduleVars
    PROVE  TInv'
<1> DEFINE t == [Call("unlimit", d) EXCEPT !.pc = "persist"]
<1>1. Call("unlimit", d) \in Task /\ Call("unlimit", d).dev = d
  BY CallTyped DEF Ops
<1>2. t \in Task /\ t.pc = "persist" /\ t.dev = d
  BY <1>1 DEF Task
<1>3. TaskInv(t, used)
  BY <1>2 DEF TaskInv
<1>4. Goto(p, t) /\ UNCHANGED used /\ KernelInv' /\ CyclesInv'
  BY KernelStays, CyclesStay DEF ClearDownload, besideLimits, scheduleVars
<1> QED BY <1>2, <1>3, <1>4, QuietCall

LEMMA LimitStepKeepsTInv ==
    ASSUME TInv, NEW p \in Procs, LimitStep(p), UNCHANGED scheduleVars
    PROVE  TInv'
<1> DEFINE t == task[p]
<1>1. t.pc # "idle" /\ UNCHANGED <<used, element, today>> /\ CyclesInv'
  BY CyclesStay DEF LimitStep, PersistLimit, ShapeDevice, UnshapeDevice, ScanPolicy,
                    ClearUnusedBase, besideLimits, scheduleVars, At
<1>2. t \in Task /\ t.dev \in Devices /\ t.rate \in Rates \cup {None} /\ t.todo \subseteq Devices
  BY <1>1, Flight
<1>3. CASE PersistLimit(p)
  <2>1. KernelInv'
    BY <1>1, <1>2, <1>3, PolicyEdited, PolicyWritten DEF PersistLimit
  <2>2. Step(p, "shape") \/ Step(p, "unshape")
    BY <1>3 DEF PersistLimit
  <2> QED BY <1>1, <2>1, <2>2, CallSteps
<1>4. CASE ShapeDevice(p)
  <2>1. KernelInv'
    BY <1>1, <1>2, <1>4, ShapeWritten DEF ShapeDevice, Shapes
  <2> QED BY <1>1, <1>4, <2>1, CallReturns DEF ShapeDevice
<1>5. CASE UnshapeDevice(p)
  <2> DEFINE s == [t EXCEPT !.pc = "scan", !.todo = Devices]
  <2>1. KernelInv'
    BY <1>1, <1>2, <1>5, ShapeWritten DEF UnshapeDevice, Shapes
  <2>2. s \in Task /\ s.pc = "scan" /\ s.dev = t.dev
    BY <1>2 DEF Task
  <2>3. TaskInv(s, used)
    BY <1>2, <2>2 DEF TaskInv
  <2>4. Goto(p, s)
    BY <1>5 DEF UnshapeDevice
  <2> QED BY <1>1, <2>1, <2>2, <2>3, <2>4, QuietCall
<1>6. CASE ScanPolicy(p)
  <2>1. KernelInv'
    BY <1>1, <1>6, KernelStays DEF ScanPolicy
  <2>2. PICK d \in t.todo :
            \/ Return(p)
            \/ Goto(p, [t EXCEPT !.todo = t.todo \ {d},
                                 !.pc = IF t.todo \ {d} = {} THEN "base" ELSE "scan"])
    BY <1>6 DEF ScanPolicy
  <2> DEFINE rest == t.todo \ {d}
             pc   == IF rest = {} THEN "base" ELSE "scan"
             s    == [t EXCEPT !.todo = rest, !.pc = pc]
  <2>3. rest \in SUBSET Devices /\ pc \in {"base", "scan"}
    BY <1>2
  <2>4. CASE Goto(p, s)
    <3> HIDE DEF rest, pc
    <3>1. s \in Task /\ s.pc \in {"base", "scan"} /\ s.dev = t.dev
      BY <1>2, <2>3 DEF Task
    <3>2. TaskInv(s, used)
      BY <1>2, <3>1 DEF TaskInv
    <3> QED BY <1>1, <2>1, <2>4, <3>1, <3>2, QuietCall
  <2>5. CASE Return(p)
    BY <1>1, <2>1, <2>5, CallReturns
  <2> QED BY <2>2, <2>4, <2>5
<1>7. CASE ClearUnusedBase(p)
  <2>1. KernelInv'
    BY <1>1, <1>7, BaseCleared DEF ClearUnusedBase
  <2> QED BY <1>1, <1>7, <2>1, CallReturns DEF ClearUnusedBase
<1> QED BY <1>3, <1>4, <1>5, <1>6, <1>7 DEF LimitStep

LEMMA SnapshotTyped == ASSUME TInv PROVE Snapshot \in [Devices -> Shapes]
<1>1. ASSUME NEW d \in Devices PROVE Desired(policy[d]) \in Shapes
  BY PolicyRow DEF Desired, Shapes
<1> QED BY <1>1 DEF Snapshot

\* The reconciliation of tc leaves the calls alone.
LEMMA ReconcileKeepsTInv ==
    ASSUME TInv, ReconcileStep \/ ReconcileFails, UNCHANGED scheduleVars
    PROVE  TInv'
<1>1. /\ UNCHANGED <<policy, used, element, today, task, window, states, cycle>>
      /\ KernelInv /\ CyclesInv /\ recon \in Recon
  BY Parts DEF ReconcileStep, ReconcileFails, ReconcileRead, ReconcileDevice, RemoveStale,
               ReconcileBase, besideLimits, scheduleVars, CyclesInv
<1>2. NoRecon \in Recon
  BY DEF NoRecon, Recon, Shapes
<1>3. recon.plan \in [Devices -> Shapes] /\ recon.todo \subseteq Devices
  BY <1>1 DEF Recon
<1>4. \A d \in recon.todo : [recon EXCEPT !.todo = recon.todo \ {d}] \in Recon
  BY <1>1 DEF Recon
<1>5. shape' \in [Devices -> Shapes] /\ recon' \in Recon
  <2>1. shape \in [Devices -> Shapes]
    BY <1>1 DEF KernelInv
  <2>2. CASE ReconcileRead
    <3> DEFINE wanted == {d \in Devices : Snapshot[d] # None}
               pc     == IF wanted = {} THEN "base" ELSE "apply"
    <3>1. pc \in {"base", "apply"} /\ wanted \in SUBSET Devices
      OBVIOUS
    <3>2. recon' = [pc |-> pc, plan |-> Snapshot, todo |-> wanted] /\ UNCHANGED shape
      BY <2>2 DEF ReconcileRead
    <3> HIDE DEF wanted, pc
    <3> QED BY <2>1, <3>1, <3>2, SnapshotTyped DEF Recon
  <2>3. CASE ReconcileDevice
    <3>1. PICK d \in recon.todo : /\ SetShape(d, recon.plan[d])
                                  /\ recon' = [recon EXCEPT !.todo = recon.todo \ {d}]
      BY <2>3 DEF ReconcileDevice
    <3> QED BY <1>3, <1>4, <2>1, <3>1 DEF SetShape
  <2>4. CASE RemoveStale
    BY <1>2, <2>1, <2>4 DEF RemoveStale, Shapes
  <2>5. CASE ReconcileBase
    BY <1>2, <2>5 DEF ReconcileBase, ClearBaseState, Shapes
  <2>6. CASE ReconcileFails
    BY <1>2, <1>4, <2>1, <2>6 DEF ReconcileFails
  <2> QED BY <2>2, <2>3, <2>4, <2>5, <2>6 DEF ReconcileStep
<1>6. KernelInv' /\ CyclesInv'
  BY <1>1, <1>5 DEF KernelInv, CyclesInv
<1>7. RowsStay(used')
  BY <1>1 DEF RowsStay
<1> QED BY <1>1, <1>6, <1>7, TasksStay, PartsNext

-----------------------------------------------------------------------------
\* ScheduleEnforcement.
LEMMA NoCycleTyped ==
    /\ NoCycle \in Cycle /\ NoCycle.pc = "idle"
    /\ \A active \in BOOLEAN, todo \in SUBSET Devices :
          LET next == [NoCycle EXCEPT !.pc = "device", !.active = active, !.todo = todo]
          IN next \in Cycle /\ next.pc = "device"
  BY DEF NoCycle, Cycle

LEMMA WithoutTyped ==
    ASSUME cycle \in Cycle, NEW d
    PROVE  Without(d) \in Cycle /\ Without(d).pc \in {"idle", "device"}
<1>1. cycle.active \in BOOLEAN /\ cycle.todo \ {d} \in SUBSET Devices
  BY DEF Cycle
<1> QED BY <1>1, NoCycleTyped DEF Without

\* The element that the cycle enforces.
Due(d) == IF ~cycle.active \/ RuleBlocked = None THEN policy[d].blocked ELSE RuleBlocked

LEMMA ReadDeviceKeepsCycles ==
    ASSUME TInv, ReadDevice
    PROVE  CyclesInv' /\ UNCHANGED <<policy, used, shape, element, today, task>>
<1>1. PICK d \in cycle.todo :
        LET seen == [cycle EXCEPT !.dev = d, !.limit = policy[d].limit, !.blocked = Due(d)] IN
        \/ cycle' = Without(d) /\ UNCHANGED states
        \/ cycle' = [seen EXCEPT !.pc = "element"] /\ UNCHANGED states
        \/ /\ cycle' = [seen EXCEPT !.pc = "limits"]
           /\ states' = [states EXCEPT ![d] = IF cycle.active THEN Due(d) ELSE None]
  BY DEF ReadDevice, Due
<1>2. /\ UNCHANGED <<policy, used, shape, element, today, task, recon, window>>
      /\ CyclesInv /\ cycle \in Cycle /\ d \in Devices
  BY Parts DEF ReadDevice, besideSchedule, CyclesInv, Cycle
<1>3. Due(d) \in BOOLEAN /\ policy[d].limit \in Rates \cup {None}
  BY <1>2, PolicyRow, RuleAssumption DEF Due
<1> DEFINE seen == [cycle EXCEPT !.dev = d, !.limit = policy[d].limit, !.blocked = Due(d)]
<1>4. seen \in Cycle /\ seen.dev = d
  BY <1>2, <1>3 DEF Cycle
<1>5. CASE cycle' = Without(d) /\ UNCHANGED states
  BY <1>2, <1>5, WithoutTyped DEF CyclesInv
<1> HIDE DEF seen
<1>6. CASE cycle' = [seen EXCEPT !.pc = "element"] /\ UNCHANGED states
  <2>1. cycle' \in Cycle /\ cycle'.dev = d
    BY <1>4, <1>6 DEF Cycle
  <2> QED BY <1>2, <1>6, <2>1 DEF CyclesInv
<1>7. CASE /\ cycle' = [seen EXCEPT !.pc = "limits"]
           /\ states' = [states EXCEPT ![d] = IF cycle.active THEN Due(d) ELSE None]
  <2>1. cycle' \in Cycle /\ cycle'.dev = d
    BY <1>4, <1>7 DEF Cycle
  <2>2. states' \in [Devices -> BOOLEAN \cup {None}]
    BY <1>2, <1>3, <1>7 DEF CyclesInv
  <2> QED BY <1>2, <2>1, <2>2 DEF CyclesInv
<1> QED BY <1>1, <1>2, <1>5, <1>6, <1>7 DEF seen

LEMMA ScheduleKeepsTInv == ASSUME TInv, ScheduleStep PROVE TInv'
<1>1. /\ CyclesInv /\ cycle \in Cycle /\ window \in BOOLEAN
      /\ states \in [Devices -> BOOLEAN \cup {None}]
  BY Parts DEF CyclesInv
<1>2. CASE BeginCycle
  <2>1. CyclesInv'
    BY <1>1, <1>2, NoCycleTyped DEF BeginCycle, CyclesInv, besideSchedule
  <2>2. KernelInv' /\ RowsStay(used')
    BY <1>2, KernelStays DEF BeginCycle, besideSchedule, RowsStay
  <2> QED BY <1>2, <2>1, <2>2, TasksStay, PartsNext DEF BeginCycle
<1>3. CASE ReadDevice
  <2>1. CyclesInv' /\ UNCHANGED <<policy, used, shape, element, today, task>>
    BY <1>3, ReadDeviceKeepsCycles
  <2>2. KernelInv' /\ RowsStay(used')
    BY <2>1, KernelStays DEF RowsStay
  <2> QED BY <2>1, <2>2, TasksStay, PartsNext
<1>4. CASE EnforceTarget
  <2>1. /\ cycle.dev \in Devices /\ cycle.blocked \in BOOLEAN /\ cycle.active \in BOOLEAN
        /\ UNCHANGED <<policy, used, shape, today, task, recon, window>>
    BY <1>1, <1>4 DEF EnforceTarget, CyclesInv, Cycle, besideSchedule
  <2>2. KernelInv' /\ RowsStay(used')
    BY <1>4, <2>1, ElementWritten DEF EnforceTarget, RowsStay
  <2>3. cycle' \in Cycle /\ cycle'.dev = cycle.dev
    BY <1>1, <1>4 DEF EnforceTarget, Cycle
  <2>4. states' \in [Devices -> BOOLEAN \cup {None}]
    BY <1>1, <1>4, <2>1 DEF EnforceTarget
  <2>5. CyclesInv'
    BY <1>1, <2>1, <2>3, <2>4 DEF CyclesInv
  <2> QED BY <2>1, <2>2, <2>5, TasksStay, PartsNext
<1>5. CASE ApplyLimit
  <2> DEFINE rate == IF cycle.active /\ RuleLimit # None THEN RuleLimit ELSE cycle.limit
  <2>1. cycle.dev \in Devices /\ rate \in Rates \cup {None} /\ Scheduler \in Procs
    BY <1>1, <1>5, RuleAssumption DEF ApplyLimit, CyclesInv, Cycle, Procs
  <2>2. /\ cycle' = Without(cycle.dev) /\ UNCHANGED <<window, states, recon>>
        /\ \/ rate # None /\ LimitDownload(Scheduler, cycle.dev, rate)
           \/ UNCHANGED <<policy, shape, element, task, used, today>>
    BY <1>5 DEF ApplyLimit, LimitDownload
  <2>3. CyclesInv'
    BY <1>1, <2>2, WithoutTyped DEF CyclesInv
  <2>4. CASE rate # None /\ LimitDownload(Scheduler, cycle.dev, rate)
    BY <2>1, <2>3, <2>4, LimitDownloadKeepsTInv
  <2>5. CASE UNCHANGED <<policy, shape, element, task, used, today>>
    <3>1. KernelInv' /\ RowsStay(used')
      BY <2>5, KernelStays DEF RowsStay
    <3> QED BY <2>3, <2>5, <3>1, TasksStay, PartsNext
  <2> QED BY <2>2, <2>4, <2>5
<1> QED BY <1>2, <1>3, <1>4, <1>5 DEF ScheduleStep

-----------------------------------------------------------------------------
\* DevicePolicy: the requests, the faults and time.
LEMMA CallBegins ==
    ASSUME TInv, NEW p \in Procs, NEW op \in Ops, NEW d \in Devices,
           NEW pc \in {"observe", "flag"}, Goto(p, [Call(op, d) EXCEPT !.pc = pc]),
           UNCHANGED used, KernelInv', CyclesInv'
    PROVE  TInv'
<1> DEFINE t == [Call(op, d) EXCEPT !.pc = pc]
<1>1. Call(op, d) \in Task /\ Call(op, d).dev = d
  BY CallTyped
<1>2. t \in Task /\ t.pc = pc /\ t.dev = d
  BY <1>1 DEF Task
<1>3. TaskInv(t, used)
  BY <1>2 DEF TaskInv
<1> QED BY <1>2, <1>3, QuietCall

LEMMA ResetKeepsTInv ==
    ASSUME TInv, NEW r \in Procs, NEW d \in Devices, ResetQuota(r, d), UNCHANGED cycles
    PROVE  TInv'
<1> DEFINE was == policy[d].enforced
           t   == [Call("reset", d) EXCEPT !.pc = "clear", !.was = was]
<1>1. KernelInv' /\ CyclesInv' /\ UNCHANGED used /\ Goto(r, t)
  BY KernelStays, CyclesStay DEF ResetQuota, database, cycles, scheduleVars
<1>2. Call("reset", d) \in Task /\ Call("reset", d).dev = d /\ was \in Actions \cup {None}
  BY CallTyped, PolicyRow DEF Ops
<1> HIDE DEF was
<1>3. t \in Task /\ t.pc = "clear" /\ t.dev = d
  BY <1>2 DEF Task
<1>4. TaskInv(t, used)
  BY <1>3 DEF TaskInv
<1> QED BY <1>1, <1>3, <1>4, QuietCall

LEMMA RequestKeepsTInv ==
    ASSUME TInv, NEW r \in Requests, NEW d \in Devices, NewRequest(r, d)
    PROVE  TInv'
<1>1. r \in Procs
  BY DEF Procs
<1>2. CASE Patch(r, d)
  <2>1. PICK quota \in Amounts \cup {None}, action \in Actions \cup {None} :
            SetPolicy(d, [policy[d] EXCEPT !.quota = quota, !.action = action])
    BY <1>2 DEF Patch
  <2>2. UNCHANGED <<used, shape, element, today>> /\ CyclesInv'
    BY <1>2, CyclesStay DEF Patch, cycles, scheduleVars
  <2>3. KernelInv'
    BY <2>1, <2>2, PolicyEdited, PolicyWritten
  <2> QED BY <1>1, <1>2, <2>2, <2>3, CallBegins DEF Patch, Ops
<1>3. CASE AssignProfile(r, d)
  <2>1. PICK limit \in Rates \cup {None}, quota \in Amounts \cup {None} :
            SetPolicy(d, [policy[d] EXCEPT !.limit = limit, !.quota = quota])
    BY <1>3 DEF AssignProfile
  <2>2. UNCHANGED <<used, shape, element, today>> /\ CyclesInv'
    BY <1>3, CyclesStay DEF AssignProfile, cycles, scheduleVars
  <2>3. KernelInv'
    BY <2>1, <2>2, PolicyEdited, PolicyWritten
  <2> QED BY <1>1, <1>3, <2>2, <2>3, CallBegins DEF AssignProfile, Ops
<1>4. CASE AssignSchedule(r, d)
  <2>1. UNCHANGED <<used, shape, element, today, task>> /\ CyclesInv' /\ RowsStay(used')
    BY <1>4, CyclesStay DEF AssignSchedule, cycles, scheduleVars, RowsStay
  <2>2. PICK b \in BOOLEAN : SetPolicy(d, [policy[d] EXCEPT !.scheduled = b])
    BY <1>4 DEF AssignSchedule
  <2>3. KernelInv'
    BY <2>1, <2>2, PolicyEdited, PolicyWritten
  <2> QED BY <2>1, <2>3, TasksStay, PartsNext
<1>5. CASE BlockRequest(r, d)
  <2>1. PICK op \in {"block", "unblock"} : Goto(r, [Call(op, d) EXCEPT !.pc = "flag"])
    BY <1>5 DEF BlockRequest
  <2>2. KernelInv' /\ CyclesInv' /\ UNCHANGED used
    BY <1>5, KernelStays, CyclesStay DEF BlockRequest, cycles, scheduleVars
  <2>3. op \in Ops
    BY DEF Ops
  <2> QED BY <1>1, <2>1, <2>2, <2>3, CallBegins
<1>6. CASE GetQuota(r, d) /\ UNCHANGED cycles
  BY <1>1, <1>6, ObserveKeepsTInv DEF GetQuota, cycles, scheduleVars, Ops
<1>7. CASE ResetQuota(r, d) /\ UNCHANGED cycles
  BY <1>1, <1>7, ResetKeepsTInv
<1>8. CASE ClearDownload(r, d) /\ UNCHANGED scheduleVars
  BY <1>1, <1>8, ClearDownloadKeepsTInv
<1>9. ASSUME NEW rate \in Rates, LimitDownload(r, d, rate), UNCHANGED scheduleVars PROVE TInv'
  <2>1. CyclesInv'
    BY <1>9, CyclesStay DEF LimitDownload, scheduleVars
  <2> QED BY <1>1, <1>9, <2>1, LimitDownloadKeepsTInv
<1> QED BY <1>2, <1>3, <1>4, <1>5, <1>6, <1>7, <1>8, <1>9 DEF NewRequest

LEMMA TaskStepKeepsTInv == ASSUME TInv, NEW p \in Procs, TaskStep(p) PROVE TInv'
<1>1. CASE ReconcilePolicy(p) /\ UNCHANGED cycles
  <2>1. task[p].dev \in Devices
    BY <1>1, Flight DEF ReconcilePolicy, At
  <2> QED BY <1>1, <2>1, ObserveKeepsTInv DEF ReconcilePolicy, cycles, scheduleVars, Ops
<1>2. CASE QuotaStep(p) /\ UNCHANGED cycles
  BY <1>2, QuotaStepKeepsTInv DEF cycles, scheduleVars
<1>3. CASE LimitStep(p) /\ UNCHANGED scheduleVars
  BY <1>3, LimitStepKeepsTInv
<1>4. CASE PersistBlocked(p)
  <2>1. task[p].pc # "idle" /\ task[p].dev \in Devices
    BY <1>4, Flight DEF PersistBlocked, At
  <2>2. PICK b \in BOOLEAN : SetPolicy(task[p].dev, [policy[task[p].dev] EXCEPT !.blocked = b])
    BY <1>4 DEF PersistBlocked
  <2>3. KernelInv' /\ CyclesInv' /\ UNCHANGED used /\ Step(p, "element")
    BY <1>4, <2>1, <2>2, PolicyEdited, PolicyWritten, CyclesStay
       DEF PersistBlocked, cycles, scheduleVars
  <2> QED BY <2>1, <2>3, CallSteps
<1>5. CASE EnforceBlocked(p)
  <2>1. task[p].dev \in Devices /\ SetElement(task[p].dev, task[p].op = "block")
    BY <1>5, Flight DEF EnforceBlocked, At
  <2>2. KernelInv' /\ CyclesInv' /\ UNCHANGED used /\ Return(p)
    BY <1>5, <2>1, ElementWritten, CyclesStay DEF EnforceBlocked, cycles, scheduleVars
  <2> QED BY <2>2, CallReturns
<1> QED BY <1>1, <1>2, <1>3, <1>4, <1>5 DEF TaskStep

LEMMA FaultKeepsTInv == ASSUME TInv, Fault PROVE TInv'
<1>1. CASE Restart
  <2>1. KernelInv'
    <3>1. /\ KernelInv /\ UNCHANGED <<policy, used, today>>
          /\ element' = [d \in Devices |-> policy[d].blocked]
      BY <1>1, Parts DEF Restart
    <3>2. shape' \in [Devices -> Shapes]
      BY <1>1, <3>1 DEF Restart, KernelInv, ClearBaseState, Shapes
    <3> QED BY <3>1, <3>2, PolicyRow DEF KernelInv
  <2>2. CyclesInv'
    <3>1. NoRecon \in Recon
      BY DEF NoRecon, Recon, Shapes
    <3> QED BY <1>1, <3>1, NoCycleTyped, Parts DEF Restart, CyclesInv
  <2>3. task' = [q \in Procs |-> Idle]
    BY <1>1 DEF Restart
  <2>4. Idle \in Task
    BY PolicyAssumption DEF Idle, Task, Days
  <2> QED BY <2>1, <2>2, <2>3, <2>4, IdleInv, PartsNext
<1>2. CASE ReconciliationFails
  BY <1>2, ReconcileKeepsTInv DEF ReconciliationFails
<1>3. ASSUME NEW p \in Procs, TaskFails(p) PROVE TInv'
  BY <1>3, KernelStays, CyclesStay, CallReturns DEF TaskFails, cycles, scheduleVars
<1> QED BY <1>1, <1>2, <1>3 DEF Fault

LEMMA TimeKeepsTInv == ASSUME TInv, Time PROVE TInv'
<1>1. CASE NewDay
  <2>1. /\ UNCHANGED <<policy, used, shape, element, task>> /\ today' \in Days
        /\ CyclesInv' /\ KernelInv
    BY <1>1, PolicyAssumption, CyclesStay, Parts DEF NewDay, cycles, scheduleVars, KernelInv, Days
  <2>2. KernelInv' /\ RowsStay(used')
    BY <2>1 DEF KernelInv, RowsStay
  <2> QED BY <2>1, <2>2, TasksStay, PartsNext
<1>2. CASE WindowTurns
  <2>1. UNCHANGED <<policy, used, shape, element, today, task, recon, states, cycle>> /\ window' = ~window
    BY <1>2 DEF WindowTurns, policyVars
  <2>2. KernelInv' /\ RowsStay(used')
    BY <2>1, KernelStays DEF RowsStay
  <2>3. CyclesInv'
    BY <2>1, Parts DEF CyclesInv
  <2> QED BY <2>1, <2>2, <2>3, TasksStay, PartsNext
<1> QED BY <1>1, <1>2 DEF Time

LEMMA ServiceKeepsTInv == ASSUME TInv, Service PROVE TInv'
<1>1. ASSUME NEW d \in Devices, CollectorReads(d) PROVE TInv'
  BY <1>1, ObserveKeepsTInv DEF CollectorReads, RecordUsage, cycles, scheduleVars, Ops, Procs
<1> QED BY <1>1, TaskStepKeepsTInv, ReconcileKeepsTInv, ScheduleKeepsTInv
        DEF Service, ReconciliationStep

LEMMA StutterKeepsTInv == ASSUME TInv, UNCHANGED vars PROVE TInv'
<1>1. UNCHANGED <<policy, used, shape, element, today, task, recon, window, states, cycle>>
  BY DEF vars, policyVars, scheduleVars
<1>2. KernelInv' /\ CyclesInv' /\ RowsStay(used')
  BY <1>1, KernelStays, CyclesStay DEF RowsStay
<1> QED BY <1>1, <1>2, TasksStay, PartsNext

LEMMA StepKeepsTInv == ASSUME TInv, [Next]_vars PROVE TInv'
  BY ServiceKeepsTInv, FaultKeepsTInv, TimeKeepsTInv, RequestKeepsTInv, StutterKeepsTInv
  DEF Next, Ask

-----------------------------------------------------------------------------
\* Nothing is in flight at first.
LEMMA InitTInv ==
    ASSUME policy \in [Devices -> Policy], shape \in [Devices -> Shapes],
           used = [d \in Devices |-> [day \in Days |-> None]],
           element = [d \in Devices |-> FALSE], today = 0,
           task = [p \in Procs |-> Idle], recon = NoRecon, ScheduleInit
    PROVE  TInv
<1>1. KernelInv
  BY PolicyAssumption DEF KernelInv, Days
<1>2. NoRecon \in Recon
  BY DEF NoRecon, Recon, Shapes
<1>3. CyclesInv
  BY <1>2, NoCycleTyped DEF CyclesInv, ScheduleInit
<1>4. Idle \in Task
  BY PolicyAssumption DEF Idle, Task, Days
<1> QED BY <1>1, <1>3, <1>4, IdleInv, Parts

\* Whatever requests, cycles, failures, restarts and turns of the clock did in
\* whatever order, the rows, the kernel and the calls in flight stay within
\* their types: usage is added only to a row that is there, and only actions
\* are recorded as enforced (QuotaService.recordUsage, enforceQuotaAction).
THEOREM PolicyTypes == Spec => []PolicyTypeOK
<1>1. Init => TInv
  <2> SUFFICES ASSUME Init PROVE TInv
    OBVIOUS
  <2>1. NewPolicy \in Policy /\ None \in Shapes
    BY DEF NewPolicy, Policy, Shapes
  <2> QED BY <2>1, InitTInv DEF Init, PolicyInit
<1>2. TInv /\ [Next]_vars => TInv'
  BY StepKeepsTInv
<1>3. TInv => PolicyTypeOK
  BY DEF TInv
<1> QED BY <1>1, <1>2, <1>3, PTL DEF Spec

\* The same of a backend that has been set up.
THEOREM PolicyTypesOnceSetUp == MCSpec => []PolicyTypeOK
<1>1. MCInit => TInv
  <2> SUFFICES ASSUME MCInit PROVE TInv
    OBVIOUS
  <2>1. policy \in [Devices -> Policy]
    BY DEF MCInit, Policy, Actions
  <2>2. \A d \in Devices : Desired(policy[d]) \in Shapes
    BY <2>1 DEF Desired, Policy, Shapes
  <2>3. shape \in [Devices -> Shapes]
    BY <2>2 DEF MCInit
  <2> QED BY <2>1, <2>3, InitTInv DEF MCInit
<1>2. TInv /\ [MCNext]_mcVars => TInv'
  <2>1. ASSUME [MCNext]_mcVars PROVE [Next]_vars
    BY <2>1 DEF MCNext, mcVars, Next
  <2> QED BY <2>1, StepKeepsTInv
<1>3. TInv => PolicyTypeOK
  BY DEF TInv
<1> QED BY <1>1, <1>2, <1>3, PTL DEF MCSpec
=============================================================================
