------------------------ MODULE TcEnforcementProofs -------------------------
(***************************************************************************)
(* For any devices, classes, rates, addresses, priorities and number of    *)
(* requests: the cycle of TrafficReconciliationService removes no class    *)
(* that its snapshot of the policies asks for, and no command is given an  *)
(* object of another type than it takes.                                   *)
(***************************************************************************)
EXTENDS TcEnforcement, FiniteSetTheorems, SequenceTheorems, WellFoundedInduction,
        TLAPS

\* What the actions need to know of the shape of calls and of tc.
Fields == {"pc", "op", "dev", "dir", "ip", "rate", "found", "prio", "todo", "seen"}
Parts  == {"qdisc", "root", "class", "filters"}

JobShape == DOMAIN job = Procs /\ DOMAIN job[Reconciler] = Fields

TcShape ==
    /\ DOMAIN tc = Directions
    /\ \A dir \in Directions : DOMAIN tc[dir] = Parts /\ DOMAIN tc[dir].class = Classes

RootSteps  == {"qdisc", "qdiscAdd", "root", "rootAdd"}
LimitSteps == {"link", "linkAdd", "class", "classAdd", "classAgain", "classSet",
               "filter", "probe", "filterDrop", "filterAdd", "filterAgain",
               "probeAgain", "filterRetry", "relink", "relinkAdd", "redirects",
               "redirectDrop", "ingress", "ingressAdd", "redirectAdd"}
BaseSteps  == {"base", "baseDrop", "baseLink", "baseRedirects", "baseRedirectDrop",
               "baseIngress", "baseLinkDrop"}
StaleSteps == {"staleLink", "staleClasses", "staleFilters", "sweep", "purge",
               "targets", "staleRedirects", "redirectSweep"}

\* The cycle is only ever in one of the calls it makes: it limits to a rate, it
\* clears the base when the snapshot has no limit, and the classes it is about to
\* purge are none of the expected ones.
CycleCall(j) ==
    \/ j.pc = "idle"
    \/ j.op = "init" /\ j.pc \in RootSteps
    \/ j.op = "limit" /\ j.pc \in RootSteps \cup LimitSteps /\ j.rate # None
    \/ /\ j.op = "base" /\ j.pc \in BaseSteps
       /\ \A d \in Devices, dir \in Directions : cycle.want[d][dir] = None
    \/ /\ j.op = "stale" /\ j.pc \in StaleSteps
       /\ j.pc = "purge" => \A c \in j.todo : c \notin Expected(j.dir)

CycleInv == JobShape /\ CycleCall(job[Reconciler])
KeepInv  == CycleInv /\ TcShape

\* The classes of the snapshot are there after the step if they were before.
Kept ==
    \A d \in Devices, dir \in Directions :
        cycle.want[d][dir] # None /\ tc[dir].class[ClassOf[d]] # None
          => tc'[dir].class[ClassOf[d]] # None

-----------------------------------------------------------------------------
\* How the cycle goes from one call to the next.

\* A call of the cycle may be replaced by any call that is one of its own.
LEMMA NewCall ==
    ASSUME JobShape, NEW j, DOMAIN j = Fields, CycleCall(j)', Goto(Reconciler, j)
    PROVE  CycleInv'
  BY DEF JobShape, Goto, CycleInv, CycleCall, Procs, Expected

\* The calls that the cycle starts.
LEMMA StartedCalls ==
    /\ DOMAIN Idle = Fields /\ Idle.pc = "idle"
    /\ \A d, dir, a, rate :
          LET j == LimitCall(d, dir, a, rate) IN
          DOMAIN j = Fields /\ j.op = "limit" /\ j.rate = rate /\ j.pc \in {"qdisc", "link"}
    /\ \A dir :
          LET j == StaleCall(dir) IN
          DOMAIN j = Fields /\ j.op = "stale" /\ j.pc \in {"staleClasses", "staleLink"}
  BY DEF Idle, LimitCall, StaleCall, Fields

LEMMA EndCycleKeeps == ASSUME JobShape, EndCycle PROVE CycleInv'
<1>1. CycleCall(Idle)'
  BY DEF CycleCall, Idle
<1>2. QED
  BY <1>1, NewCall, StartedCalls DEF EndCycle

LEMMA PlannedLimitKeeps ==
    ASSUME JobShape, NEW d, NEW dir, cycle.want[d][dir] # None,
           Goto(Reconciler, PlannedLimit(d, dir))
    PROVE  CycleInv'
<1>1. PICK j : j = PlannedLimit(d, dir)
  OBVIOUS
<1>2. DOMAIN j = Fields /\ j.op = "limit" /\ j.rate # None /\ j.pc \in {"qdisc", "link"}
  <2>1. j = LimitCall(d, dir, cycle.ip[d], cycle.want[d][dir])
    BY <1>1 DEF PlannedLimit
  <2> QED BY <2>1 DEF LimitCall, Idle, Fields
<1>3. CycleCall(j)'
  BY <1>2 DEF CycleCall, RootSteps, LimitSteps
<1>4. QED
  BY <1>1, <1>2, <1>3, NewCall

\* NextDevice takes only limits that the snapshot has.
LEMMA NextDeviceKeeps == ASSUME JobShape, NextDevice PROVE CycleInv'
<1>1. CASE Goto(Reconciler, StaleCall("download"))
  <2>1. CycleCall(StaleCall("download"))'
    BY StartedCalls DEF CycleCall, StaleSteps
  <2>2. QED
    BY <1>1, <2>1, NewCall, StartedCalls
<1>2. QED
  BY <1>1, PlannedLimitKeeps DEF NextDevice

LEMMA NextStaleKeeps == ASSUME JobShape, NEW dir, NextStale(dir) PROVE CycleInv'
<1>1. CASE Goto(Reconciler, StaleCall("upload"))
  <2>1. CycleCall(StaleCall("upload"))'
    BY StartedCalls DEF CycleCall, StaleSteps
  <2>2. QED
    BY <1>1, <2>1, NewCall, StartedCalls
<1>2. QED
  BY <1>1, EndCycleKeeps DEF NextStale

LEMMA ReturnKeeps ==
    ASSUME TcAssumption, JobShape, Return(Reconciler)
    PROVE  CycleInv'
<1>1. CASE /\ cycle.want[job[Reconciler].dev]["upload"] # None
           /\ Goto(Reconciler, PlannedLimit(job[Reconciler].dev, "upload"))
  <2>1. PICK d : d = job[Reconciler].dev
    OBVIOUS
  <2>2. QED
    BY <1>1, <2>1, PlannedLimitKeeps
<1>2. QED
  BY <1>1, NextDeviceKeeps, NextStaleKeeps, EndCycleKeeps DEF Return, TcAssumption

LEMMA AbortKeeps ==
    ASSUME TcAssumption, JobShape, Abort(Reconciler)
    PROVE  CycleInv'
  BY NextDeviceKeeps, NextStaleKeeps, EndCycleKeeps DEF Abort, TcAssumption

\* The next command of the same call.
LEMMA GoKeeps ==
    ASSUME CycleInv, NEW pc, Go(Reconciler, pc), ~At(Reconciler, "idle"),
           \/ pc \in RootSteps /\ job[Reconciler].op \in {"init", "limit"}
           \/ pc \in LimitSteps /\ job[Reconciler].op = "limit"
           \/ pc \in BaseSteps /\ job[Reconciler].op = "base"
           \/ pc \in StaleSteps \ {"purge"} /\ job[Reconciler].op = "stale"
    PROVE  CycleInv'
<1>1. PICK j : j = [job[Reconciler] EXCEPT !.pc = pc]
  OBVIOUS
<1>2. DOMAIN j = Fields /\ j.pc = pc /\ j.op = job[Reconciler].op
        /\ j.rate = job[Reconciler].rate
  BY <1>1 DEF CycleInv, JobShape, Fields
<1>3. CycleCall(j)'
  BY <1>2 DEF CycleInv, CycleCall, At, Go, RootSteps, LimitSteps, BaseSteps, StaleSteps
<1>4. Goto(Reconciler, j)
  BY <1>1 DEF Go, Step, Goto, CycleInv, JobShape, Fields, Procs
<1>5. QED
  BY <1>2, <1>3, <1>4, NewCall DEF CycleInv

\* Or a call that differs in other fields as well.
LEMMA KeepKeeps ==
    ASSUME CycleInv, NEW j, Keep(Reconciler, j), DOMAIN j = Fields, CycleCall(j)
    PROVE  CycleInv'
<1>1. CycleCall(j)'
  BY DEF Keep, CycleCall, Expected
<1>2. QED
  BY <1>1, NewCall DEF CycleInv, Keep

-----------------------------------------------------------------------------
\* What the commands leave of the shape of tc and of its classes.

\* Kept speaks of classes of devices only.
LEMMA KeptIfClasses ==
    ASSUME TcAssumption,
           \A dir \in Directions, c \in Classes :
              tc[dir].class[c] # None => tc'[dir].class[c] # None
    PROVE  Kept
  BY DEF Kept, TcAssumption

LEMMA FiltersKeep ==
    ASSUME TcAssumption, TcShape, NEW e, NEW prio, NEW v,
           tc' = [tc EXCEPT ![e].filters[prio] = v]
    PROVE  TcShape' /\ Kept
<1>1. ASSUME NEW dir \in Directions
      PROVE  DOMAIN tc'[dir] = Parts /\ tc'[dir].class = tc[dir].class
  BY DEF TcShape, Parts
<1>2. TcShape'
  BY <1>1 DEF TcShape
<1>3. QED
  BY <1>1, <1>2, KeptIfClasses

LEMMA DropFiltersKeeps ==
    ASSUME TcAssumption, TcShape, NEW e, NEW prio, DropFilters(e, prio)
    PROVE  TcShape' /\ Kept
  BY FiltersKeep DEF DropFilters

LEMMA SetClassKeeps ==
    ASSUME TcAssumption, TcShape, NEW e, NEW c, NEW rate, SetClass(e, c, rate)
    PROVE  /\ TcShape'
           /\ rate # None => Kept
           /\ \A dir \in Directions, k \in Classes :
                 dir # e \/ k # c => tc'[dir].class[k] = tc[dir].class[k]
<1>1. ASSUME NEW dir \in Directions
      PROVE  /\ DOMAIN tc'[dir] = Parts /\ DOMAIN tc'[dir].class = Classes
             /\ \A k \in Classes : tc'[dir].class[k] \in {rate, tc[dir].class[k]}
             /\ \A k \in Classes : dir # e \/ k # c => tc'[dir].class[k] = tc[dir].class[k]
  BY DEF TcShape, SetClass, Parts
<1>2. TcShape'
  BY <1>1 DEF TcShape, SetClass
<1>3. QED
  BY <1>1, <1>2, KeptIfClasses

LEMMA UnchangedKeeps == ASSUME TcAssumption, TcShape, UNCHANGED tc PROVE TcShape' /\ Kept
  BY KeptIfClasses DEF TcShape

LEMMA OtherPartKeeps ==
    ASSUME TcAssumption, TcShape, NEW e, NEW v,
           \/ tc' = [tc EXCEPT ![e].qdisc = v]
           \/ tc' = [tc EXCEPT ![e].root = v]
    PROVE  TcShape' /\ Kept
<1>1. ASSUME NEW dir \in Directions
      PROVE  DOMAIN tc'[dir] = Parts /\ tc'[dir].class = tc[dir].class
  BY DEF TcShape, Parts
<1>2. TcShape'
  BY <1>1 DEF TcShape
<1>3. QED
  BY <1>1, <1>2, KeptIfClasses

LEMMA NoTcKeeps ==
    ASSUME TcShape, NEW e, tc' = [tc EXCEPT ![e] = NoTc]
    PROVE  TcShape'
  BY DEF TcShape, NoTc, Parts

-----------------------------------------------------------------------------
\* The steps of the cycle.

LEMMA CallOfStep ==
    ASSUME CycleInv
    PROVE  LET j == job[Reconciler] IN
           /\ j.pc \in LimitSteps => j.op = "limit" /\ j.rate # None
           /\ j.pc \in RootSteps => j.op \in {"init", "limit"}
           /\ j.pc \in BaseSteps =>
                 /\ j.op = "base"
                 /\ \A d \in Devices, dir \in Directions : cycle.want[d][dir] = None
           /\ j.pc \in StaleSteps => j.op = "stale"
           /\ j.pc \in {"idle"} \cup RootSteps \cup LimitSteps \cup BaseSteps
                          \cup StaleSteps
  BY DEF CycleInv, CycleCall, LimitSteps, RootSteps, BaseSteps, StaleSteps

\* A call of the same kind may change any of its other fields.
LEMMA SameCall ==
    ASSUME CycleInv, NEW j, Keep(Reconciler, j), DOMAIN j = Fields,
           j.op = job[Reconciler].op, j.rate = job[Reconciler].rate,
           \/ j.pc \in LimitSteps /\ job[Reconciler].pc \in LimitSteps
           \/ j.pc \in BaseSteps /\ job[Reconciler].pc \in BaseSteps
           \/ j.pc \in StaleSteps \ {"purge"} /\ job[Reconciler].pc \in StaleSteps
    PROVE  CycleInv'
<1>1. CycleCall(j)
  BY CallOfStep DEF CycleCall
<1>2. QED
  BY <1>1, KeepKeeps

LEMMA NewTodo ==
    ASSUME CycleInv, NEW todo, Keep(Reconciler, [job[Reconciler] EXCEPT !.todo = todo]),
           job[Reconciler].pc \in LimitSteps \cup BaseSteps \cup (StaleSteps \ {"purge"})
    PROVE  CycleInv'
<1>1. PICK j : j = [job[Reconciler] EXCEPT !.todo = todo]
  OBVIOUS
<1>2. DOMAIN j = Fields /\ j.pc = job[Reconciler].pc /\ j.op = job[Reconciler].op
        /\ j.rate = job[Reconciler].rate
  BY <1>1 DEF CycleInv, JobShape, Fields
<1>3. QED
  BY <1>1, <1>2, SameCall

LEMMA NextTodo ==
    ASSUME CycleInv, NEW pc, NEW todo,
           Keep(Reconciler, [job[Reconciler] EXCEPT !.pc = pc, !.todo = todo]),
           \/ pc \in LimitSteps /\ job[Reconciler].pc \in LimitSteps
           \/ pc \in BaseSteps /\ job[Reconciler].pc \in BaseSteps
           \/ pc \in StaleSteps \ {"purge"} /\ job[Reconciler].pc \in StaleSteps
    PROVE  CycleInv'
<1>1. PICK j : j = [job[Reconciler] EXCEPT !.pc = pc, !.todo = todo]
  OBVIOUS
<1>2. DOMAIN j = Fields /\ j.pc = pc /\ j.op = job[Reconciler].op
        /\ j.rate = job[Reconciler].rate
  BY <1>1 DEF CycleInv, JobShape, Fields
<1>3. QED
  BY <1>1, <1>2, SameCall

LEMMA NextSeen ==
    ASSUME CycleInv, NEW pc \in StaleSteps \ {"purge"}, NEW seen,
           Keep(Reconciler, [job[Reconciler] EXCEPT !.pc = pc, !.seen = seen]),
           job[Reconciler].pc \in StaleSteps
    PROVE  CycleInv'
<1>1. PICK j : j = [job[Reconciler] EXCEPT !.pc = pc, !.seen = seen]
  OBVIOUS
<1>2. DOMAIN j = Fields /\ j.pc = pc /\ j.op = job[Reconciler].op
        /\ j.rate = job[Reconciler].rate
  BY <1>1 DEF CycleInv, JobShape, Fields
<1>3. QED
  BY <1>1, <1>2, SameCall

LEMMA LimitCycle ==
    ASSUME TcAssumption, CycleInv, LimitStep(Reconciler)
    PROVE  CycleInv'
<1> DEFINE J == job[Reconciler]
<1>1. CASE UploadLink(Reconciler)
  BY <1>1, CallOfStep, GoKeeps, AbortKeeps
  DEF UploadLink, EnsureLink, At, LimitSteps, RootSteps, CycleInv
<1>2. CASE RedirectLink(Reconciler)
  BY <1>2, CallOfStep, GoKeeps, AbortKeeps
  DEF RedirectLink, EnsureLink, At, LimitSteps, CycleInv
<1>3. CASE ReadRoot(Reconciler)
  BY <1>3, CallOfStep, GoKeeps, ReturnKeeps
  DEF ReadRoot, On, At, LimitSteps, RootSteps, CycleInv
<1>4. CASE AddRoot(Reconciler)
  BY <1>4, CallOfStep, GoKeeps, ReturnKeeps, AbortKeeps
  DEF AddRoot, On, At, LimitSteps, RootSteps, CycleInv
<1>5. CASE ReadClass(Reconciler)
  BY <1>5, CallOfStep, GoKeeps, AbortKeeps DEF ReadClass, On, At, LimitSteps, CycleInv
<1>6. CASE WriteClass(Reconciler)
  BY <1>6, CallOfStep, GoKeeps, AbortKeeps DEF WriteClass, On, At, LimitSteps, CycleInv
<1>7. ASSUME AfterFilter(Reconciler), J.pc \in LimitSteps
      PROVE  CycleInv'
  <2>1. PICK j : j = [J EXCEPT !.pc = "relink", !.found = None, !.prio = None]
    OBVIOUS
  <2>2. DOMAIN j = Fields /\ j.pc = "relink" /\ j.op = J.op /\ j.rate = J.rate
    BY <2>1 DEF CycleInv, JobShape, Fields
  <2>3. QED
    BY <1>7, <2>1, <2>2, SameCall, ReturnKeeps DEF AfterFilter, LimitSteps, CycleInv
<1>8. CASE ReadFilter(Reconciler)
  <2> DEFINE f == FilterOf(J.dir, ClassOf[J.dev])
  <2>1. PICK found : found = IF f = None THEN None ELSE f.prio
    OBVIOUS
  <2>2. PICK j : j = [J EXCEPT !.found = found,
                       !.pc = IF J.pc = "filter" THEN "probe" ELSE "probeAgain"]
    OBVIOUS
  <2>3. AfterFilter(Reconciler) \/ Keep(Reconciler, j)
    BY <1>8, <2>1, <2>2 DEF ReadFilter
  <2>4. /\ DOMAIN j = Fields /\ j.op = J.op /\ j.rate = J.rate
        /\ j.pc \in {"probe", "probeAgain"}
    BY <2>2 DEF CycleInv, JobShape, Fields
  <2>5. J.pc \in LimitSteps
    BY <1>8 DEF ReadFilter, On, At, LimitSteps
  <2>6. QED
    BY <1>7, <2>3, <2>4, <2>5, SameCall DEF LimitSteps
<1>9. CASE ProbePriority(Reconciler)
  <2> DEFINE taken == {f.prio : f \in FiltersOn(J.dir)} \ {J.found}
  <2>1. PICK prio :
           prio = FirstFree(IF J.pc = "probe" THEN FilterBase[ClassOf[J.dev]]
                            ELSE (J.prio + 1) % Priorities, taken)
    OBVIOUS
  <2>2. PICK j : j = [J EXCEPT !.prio = prio,
                 !.pc = CASE J.pc = "probeAgain" -> "filterRetry"
                          [] J.pc = "probe" /\ J.found = None -> "filterAdd"
                          [] OTHER -> "filterDrop"]
    OBVIOUS
  <2>3. Abort(Reconciler) \/ Keep(Reconciler, j)
    BY <1>9, <2>1, <2>2 DEF ProbePriority
  <2>4. /\ DOMAIN j = Fields /\ j.op = J.op /\ j.rate = J.rate
        /\ j.pc \in {"filterRetry", "filterAdd", "filterDrop"}
    BY <2>2 DEF CycleInv, JobShape, Fields
  <2>5. QED
    BY <1>9, <2>3, <2>4, SameCall, AbortKeeps
    DEF ProbePriority, On, At, LimitSteps, CycleInv
<1>10. CASE DropFilter(Reconciler)
  BY <1>10, CallOfStep, GoKeeps, AbortKeeps DEF DropFilter, On, At, LimitSteps, CycleInv
<1>11. CASE AddFilter(Reconciler)
  BY <1>11, <1>7, CallOfStep, GoKeeps, AbortKeeps
  DEF AddFilter, On, At, LimitSteps, CycleInv
<1>12. CASE ReadRedirects(Reconciler)
  <2>1. ASSUME NEW pc \in {"ingress", "redirectDrop"}, NEW prio, NEW todo,
               Keep(Reconciler, [J EXCEPT !.pc = pc, !.prio = prio, !.todo = todo])
        PROVE  CycleInv'
    <3>1. PICK j : j = [J EXCEPT !.pc = pc, !.prio = prio, !.todo = todo]
      OBVIOUS
    <3>2. DOMAIN j = Fields /\ j.pc = pc /\ j.op = J.op /\ j.rate = J.rate
      BY <3>1 DEF CycleInv, JobShape, Fields
    <3>3. J.pc \in LimitSteps
      BY <1>12 DEF ReadRedirects, At, LimitSteps
    <3>4. QED
      BY <2>1, <3>1, <3>2, <3>3, SameCall DEF LimitSteps
  <2>2. \/ Return(Reconciler) \/ Abort(Reconciler)
        \/ \E prio, todo : \E pc \in {"ingress", "redirectDrop"} :
              Keep(Reconciler, [J EXCEPT !.pc = pc, !.prio = prio, !.todo = todo])
    BY <1>12 DEF ReadRedirects
  <2>3. QED
    BY <1>12, <2>1, <2>2, ReturnKeeps, AbortKeeps DEF ReadRedirects, CycleInv
<1>13. CASE DropOldRedirects(Reconciler)
  <2>1. J.pc \in LimitSteps
    BY <1>13 DEF DropOldRedirects, DropEach, At, LimitSteps
  <2>2. CASE AfterRedirectDrop(Reconciler)
    BY <2>1, <2>2, NextTodo, ReturnKeeps DEF AfterRedirectDrop, LimitSteps, CycleInv
  <2>3. QED
    BY <1>13, <2>1, <2>2, NewTodo DEF DropOldRedirects, DropEach
<1>14. CASE EnsureIngress(Reconciler)
  BY <1>14, CallOfStep, GoKeeps, AbortKeeps DEF EnsureIngress, At, LimitSteps, CycleInv
<1>15. CASE AddRedirect(Reconciler)
  BY <1>15, ReturnKeeps, AbortKeeps DEF AddRedirect, CycleInv
<1>16. CASE LinkMissing(Reconciler)
  BY <1>16, AbortKeeps DEF LinkMissing, CycleInv
<1>17. QED
  BY <1>1, <1>2, <1>3, <1>4, <1>5, <1>6, <1>8, <1>9, <1>10, <1>11, <1>12, <1>13,
     <1>14, <1>15, <1>16 DEF LimitStep

LEMMA BaseCycle ==
    ASSUME TcAssumption, CycleInv, ClearBaseStep(Reconciler)
    PROVE  CycleInv'
<1>1. CASE ClearRoot(Reconciler)
  BY <1>1, CallOfStep, GoKeeps DEF ClearRoot, At, BaseSteps
<1>2. CASE ReadAllRedirects(Reconciler)
  <2>1. CASE Return(Reconciler)
    BY <2>1, ReturnKeeps DEF CycleInv
  <2>2. CASE At(Reconciler, "baseLink") /\ Go(Reconciler, "baseRedirects")
    BY <2>2, CallOfStep, GoKeeps DEF At, BaseSteps
  <2>3. CASE At(Reconciler, "baseRedirects")
    <3> DEFINE prios == {r.prio : r \in {s \in redirects : s.live}}
    <3>1. PICK todo : todo = prios
      OBVIOUS
    <3>2. PICK pc \in {"baseIngress", "baseRedirectDrop"} :
             pc = IF todo = {} THEN "baseIngress" ELSE "baseRedirectDrop"
      OBVIOUS
    <3>3. Keep(Reconciler, [job[Reconciler] EXCEPT !.pc = pc, !.todo = todo])
      BY <1>2, <2>3, <3>1, <3>2 DEF ReadAllRedirects, At
    <3>4. QED
      BY <2>3, <3>3, NextTodo DEF At, BaseSteps
  <2>4. QED
    BY <1>2, <2>1, <2>2, <2>3 DEF ReadAllRedirects
<1>3. CASE DropAllRedirects(Reconciler)
  <2>1. job[Reconciler].pc \in BaseSteps
    BY <1>3 DEF DropAllRedirects, DropEach, At, BaseSteps
  <2>2. CASE AfterBaseRedirects(Reconciler)
    BY <2>1, <2>2, NextTodo DEF AfterBaseRedirects, BaseSteps
  <2>3. QED
    BY <1>3, <2>1, <2>2, NewTodo DEF DropAllRedirects, DropEach
<1>4. CASE RemoveIngress(Reconciler)
  BY <1>4, CallOfStep, GoKeeps DEF RemoveIngress, At, BaseSteps
<1>5. CASE RemoveLink(Reconciler)
  BY <1>5, ReturnKeeps DEF RemoveLink, CycleInv
<1>6. QED
  BY <1>1, <1>2, <1>3, <1>4, <1>5 DEF ClearBaseStep

\* The cycle never runs clearDownload or clearUpload.
LEMMA NoClear == ASSUME CycleInv PROVE ~ClearStep(Reconciler)
<1>1. job[Reconciler].pc \notin {"unredirect", "unlink", "unredirectDrop", "unfilter",
                                "unfilterDrop", "unclass", "unclassDrop"}
  BY CallOfStep DEF RootSteps, LimitSteps, BaseSteps, StaleSteps
<1>2. QED
  BY <1>1 DEF ClearStep, ReadOwnRedirects, DropOwnRedirects, DropEach, ClearFilter,
              ClearClass, On, At

LEMMA StaleCycle ==
    ASSUME TcAssumption, CycleInv, ReconcileStep
    PROVE  CycleInv'
<1> DEFINE J == job[Reconciler]
<1>1. CASE Snapshot
  <2> DEFINE limited == {d \in Devices : Limited(d)}
  <2>1. PICK j : j = IF limited = {} THEN [Idle EXCEPT !.pc = "base", !.op = "base"]
                     ELSE [Idle EXCEPT !.pc = "qdisc", !.op = "init", !.dir = "download"]
    OBVIOUS
  <2>2. Goto(Reconciler, j) /\ cycle' = [want |-> want, ip |-> ip, left |-> limited]
    BY <1>1, <2>1 DEF Snapshot
  <2>3. DOMAIN j = Fields
    BY <2>1 DEF Idle, Fields
  <2>4. CASE limited = {}
    <3>1. \A d \in Devices, dir \in Directions : (cycle.want[d][dir])' = None
      BY <2>2, <2>4 DEF Limited
    <3>2. j.op = "base" /\ j.pc = "base"
      BY <2>1, <2>4 DEF Idle
    <3>3. CycleCall(j)'
      BY <3>1, <3>2 DEF CycleCall, BaseSteps
    <3>4. QED
      BY <2>2, <2>3, <3>3, NewCall DEF CycleInv
  <2>5. CASE limited # {}
    <3>1. j.op = "init" /\ j.pc = "qdisc"
      BY <2>1, <2>5 DEF Idle
    <3>2. CycleCall(j)'
      BY <3>1 DEF CycleCall, RootSteps
    <3>3. QED
      BY <2>2, <2>3, <3>2, NewCall DEF CycleInv
  <2>6. QED
    BY <2>4, <2>5
<1>2. CASE FindStaleLink
  BY <1>2, CallOfStep, GoKeeps, NextStaleKeeps DEF FindStaleLink, At, StaleSteps, CycleInv
<1>3. CASE ReadStale
  BY <1>3, NextSeen, NextTodo DEF ReadStale, On, At, StaleSteps
<1>4. CASE SweepFilter
  <2>1. ASSUME NEW todo, Keep(Reconciler, [J EXCEPT !.todo = todo])
        PROVE  CycleInv'
    BY <1>4, <2>1, NewTodo DEF SweepFilter, At, StaleSteps
  <2>2. CASE Keep(Reconciler, [J EXCEPT !.pc = "purge",
                    !.todo = J.seen \ Expected(J.dir), !.seen = {}])
    <3>1. PICK j : j = [J EXCEPT !.pc = "purge",
                          !.todo = J.seen \ Expected(J.dir), !.seen = {}]
      OBVIOUS
    <3>2. /\ DOMAIN j = Fields /\ j.op = J.op /\ j.pc = "purge" /\ j.dir = J.dir
          /\ j.todo = J.seen \ Expected(J.dir)
      BY <3>1 DEF CycleInv, JobShape, Fields
    <3>3. J.op = "stale"
      BY <1>4, CallOfStep DEF SweepFilter, At, StaleSteps
    <3>4. CycleCall(j)
      BY <3>2, <3>3 DEF CycleCall, StaleSteps
    <3>5. QED
      BY <2>2, <3>1, <3>2, <3>4, KeepKeeps
  <2>3. QED
    BY <1>4, <2>1, <2>2 DEF SweepFilter
<1>5. CASE PurgeClass
  <2>1. J.pc = "purge" /\ J.op = "stale"
    BY <1>5, CallOfStep DEF PurgeClass, At, StaleSteps
  <2>2. ASSUME NEW c, Keep(Reconciler, [J EXCEPT !.todo = @ \ {c}])
        PROVE  CycleInv'
    <3>1. PICK j : j = [J EXCEPT !.todo = @ \ {c}]
      OBVIOUS
    <3>2. /\ DOMAIN j = Fields /\ j.op = J.op /\ j.pc = J.pc /\ j.dir = J.dir
          /\ j.todo = J.todo \ {c}
      BY <3>1 DEF CycleInv, JobShape, Fields
    <3>3. CycleCall(j)
      BY <2>1, <3>2 DEF CycleInv, CycleCall, RootSteps, LimitSteps, BaseSteps, StaleSteps
    <3>4. QED
      BY <2>2, <3>1, <3>2, <3>3, KeepKeeps
  <2>3. QED
    BY <1>5, <2>1, <2>2, GoKeeps, AbortKeeps, ReturnKeeps
    DEF PurgeClass, At, StaleSteps, CycleInv
<1>6. CASE ReadStaleRedirects
  BY <1>6, NextSeen, NextTodo, ReturnKeeps DEF ReadStaleRedirects, On, At, StaleSteps, CycleInv
<1>7. CASE SweepRedirect
  <2>1. J.pc \in StaleSteps \ {"purge"}
    BY <1>7 DEF SweepRedirect, DropEach, At, StaleSteps
  <2>2. QED
    BY <1>7, <2>1, NewTodo, ReturnKeeps DEF SweepRedirect, DropEach, CycleInv
<1>8. QED
  BY <1>1, <1>2, <1>3, <1>4, <1>5, <1>6, <1>7 DEF ReconcileStep

-----------------------------------------------------------------------------
\* What the steps do to tc.

LEMMA LimitTc ==
    ASSUME TcAssumption, TcShape, NEW p, LimitStep(p)
    PROVE  TcShape' /\ (CycleInv /\ p = Reconciler => Kept)
<1>1. CASE UNCHANGED tc
  BY <1>1, UnchangedKeeps
<1>2. CASE AddRoot(p)
  BY <1>2, UnchangedKeeps, OtherPartKeeps DEF AddRoot
<1>3. CASE WriteClass(p)
  <2>1. CASE UNCHANGED tc
    BY <2>1, UnchangedKeeps
  <2>2. ASSUME ~UNCHANGED tc
        PROVE  /\ job[p].pc \in LimitSteps
               /\ SetClass(job[p].dir, ClassOf[job[p].dev], job[p].rate)
    BY <1>3, <2>2 DEF WriteClass, On, At, LimitSteps
  <2>3. QED
    BY <2>1, <2>2, SetClassKeeps, CallOfStep
<1>4. CASE DropFilter(p)
  BY <1>4, UnchangedKeeps, DropFiltersKeeps DEF DropFilter
<1>5. CASE AddFilter(p)
  <2>1. CASE UNCHANGED tc
    BY <2>1, UnchangedKeeps
  <2>2. ASSUME NEW e, NEW prio, NEW f, AppendFilter(e, prio, f)
        PROVE  TcShape' /\ Kept
    <3>1. PICK v : v = Append(tc[e].filters[prio], f)
      OBVIOUS
    <3>2. tc' = [tc EXCEPT ![e].filters[prio] = v]
      BY <2>2, <3>1 DEF AppendFilter
    <3>3. QED
      BY <3>2, FiltersKeep
  <2>3. QED
    BY <1>5, <2>1, <2>2 DEF AddFilter
<1>6. QED
  BY <1>1, <1>2, <1>3, <1>4, <1>5
  DEF LimitStep, UploadLink, RedirectLink, EnsureLink, ReadRoot, ReadClass, ReadFilter,
      ProbePriority, ReadRedirects, DropOldRedirects, DropEach, EnsureIngress,
      AddRedirect, LinkMissing, kernel

LEMMA ClearTc ==
    ASSUME TcAssumption, TcShape, NEW p, ClearStep(p)
    PROVE  TcShape'
<1>1. CASE ReadOwnRedirects(p) \/ DropOwnRedirects(p)
  BY <1>1, UnchangedKeeps DEF ReadOwnRedirects, DropOwnRedirects, DropEach, kernel
<1>2. CASE ClearFilter(p)
  BY <1>2, UnchangedKeeps, DropFiltersKeeps DEF ClearFilter
<1>3. CASE ClearClass(p)
  BY <1>3, UnchangedKeeps, SetClassKeeps DEF ClearClass
<1>4. QED
  BY <1>1, <1>2, <1>3 DEF ClearStep

LEMMA BaseTc ==
    ASSUME TcAssumption, TcShape, NEW p, ClearBaseStep(p)
    PROVE  TcShape' /\ (CycleInv /\ p = Reconciler => Kept)
<1>1. TcShape'
  <2>1. CASE ClearRoot(p)
    BY <2>1, UnchangedKeeps, NoTcKeeps DEF ClearRoot
  <2>2. CASE ReadAllRedirects(p) \/ DropAllRedirects(p) \/ RemoveIngress(p)
    BY <2>2, UnchangedKeeps
    DEF ReadAllRedirects, DropAllRedirects, DropEach, RemoveIngress, kernel
  <2>3. CASE RemoveLink(p)
    BY <2>3, NoTcKeeps DEF RemoveLink
  <2>4. QED
    BY <2>1, <2>2, <2>3 DEF ClearBaseStep
<1>2. ASSUME CycleInv, p = Reconciler
      PROVE  Kept
  <2>1. job[Reconciler].pc \in BaseSteps
    BY <1>2 DEF ClearBaseStep, ClearRoot, ReadAllRedirects, DropAllRedirects, DropEach,
                RemoveIngress, RemoveLink, At, BaseSteps
  <2>2. QED
    BY <1>2, <2>1, CallOfStep DEF Kept
<1>3. QED
  BY <1>1, <1>2

\* The classes that are purged are none of the expected ones.
LEMMA StaleTc ==
    ASSUME TcAssumption, TcShape, CycleInv, ReconcileStep
    PROVE  TcShape' /\ Kept
<1>1. CASE UNCHANGED tc
  BY <1>1, UnchangedKeeps
<1>2. CASE SweepFilter
  BY <1>2, UnchangedKeeps, DropFiltersKeeps DEF SweepFilter
<1>3. CASE PurgeClass
  <2>1. CASE UNCHANGED tc
    BY <2>1, UnchangedKeeps
  <2>2. CASE ~UNCHANGED tc
    <3>1. PICK c \in job[Reconciler].todo : SetClass(job[Reconciler].dir, c, None)
      BY <1>3, <2>2 DEF PurgeClass
    <3>2. c \notin Expected(job[Reconciler].dir)
      BY <1>3, <3>1 DEF PurgeClass, At, CycleInv, CycleCall, RootSteps, LimitSteps,
                        BaseSteps
    <3>3. ASSUME NEW d \in Devices, NEW dir \in Directions, cycle.want[d][dir] # None
          PROVE  dir # job[Reconciler].dir \/ ClassOf[d] # c
      BY <3>2, <3>3 DEF Expected
    <3>4. ClassOf \in [Devices -> Classes]
      BY DEF TcAssumption
    <3>5. QED
      BY <3>1, <3>3, <3>4, SetClassKeeps DEF Kept
  <2>3. QED
    BY <2>1, <2>2
<1>4. QED
  BY <1>1, <1>2, <1>3
  DEF ReconcileStep, Snapshot, FindStaleLink, ReadStale, ReadStaleRedirects,
      SweepRedirect, DropEach, kernel

-----------------------------------------------------------------------------
\* Steps of others do not touch the cycle's call.

LEMMA RequestKeeps ==
    ASSUME TcAssumption, CycleInv, NEW r \in Requests, NEW j, Goto(r, j), UNCHANGED cycle
    PROVE  CycleInv' /\ job'[Reconciler] = job[Reconciler]
  BY DEF TcAssumption, Goto, CycleInv, JobShape, CycleCall, Expected, Procs

\* Whatever ends a step of a request.
LEMMA RequestMoves ==
    ASSUME TcAssumption, CycleInv, NEW r \in Requests,
           \/ Return(r) \/ Abort(r)
           \/ \E pc : Go(r, pc)
           \/ \E j : Keep(r, j)
    PROVE  CycleInv' /\ job'[Reconciler] = job[Reconciler]
<1>1. CASE Return(r) \/ Abort(r)
  BY <1>1, RequestKeeps DEF Return, Abort, TcAssumption
<1>2. ASSUME NEW pc, Go(r, pc)
      PROVE  CycleInv' /\ job'[Reconciler] = job[Reconciler]
  <2>1. PICK j : j = [job[r] EXCEPT !.pc = pc]
    OBVIOUS
  <2>2. Goto(r, j) /\ UNCHANGED cycle
    BY <1>2, <2>1 DEF Go, Step, Goto
  <2>3. QED
    BY <2>2, RequestKeeps
<1>3. CASE \E j : Keep(r, j)
  BY <1>3, RequestKeeps DEF Keep
<1>4. QED
  BY <1>1, <1>2, <1>3

LEMMA RequestStep ==
    ASSUME TcAssumption, CycleInv, NEW r \in Requests, CallStep(r)
    PROVE  CycleInv' /\ job'[Reconciler] = job[Reconciler]
<1>1. CASE LimitStep(r)
  <2>1. CASE UploadLink(r) \/ RedirectLink(r)
    BY <2>1, RequestMoves DEF UploadLink, RedirectLink, EnsureLink
  <2>2. CASE ReadRoot(r) \/ AddRoot(r)
    BY <2>2, RequestMoves DEF ReadRoot, AddRoot
  <2>3. CASE ReadClass(r) \/ WriteClass(r)
    BY <2>3, RequestMoves DEF ReadClass, WriteClass
  <2>4. CASE ReadFilter(r)
    BY <2>4, RequestMoves DEF ReadFilter, AfterFilter
  <2>5. CASE ProbePriority(r)
    BY <2>5, RequestMoves DEF ProbePriority
  <2>6. CASE DropFilter(r) \/ AddFilter(r)
    BY <2>6, RequestMoves DEF DropFilter, AddFilter, AfterFilter
  <2>7. CASE ReadRedirects(r)
    BY <2>7, RequestMoves DEF ReadRedirects
  <2>8. CASE DropOldRedirects(r)
    BY <2>8, RequestMoves DEF DropOldRedirects, DropEach, AfterRedirectDrop
  <2>9. CASE EnsureIngress(r) \/ AddRedirect(r) \/ LinkMissing(r)
    BY <2>9, RequestMoves DEF EnsureIngress, AddRedirect, LinkMissing
  <2>10. QED
    BY <1>1, <2>1, <2>2, <2>3, <2>4, <2>5, <2>6, <2>7, <2>8, <2>9 DEF LimitStep
<1>2. CASE ClearStep(r)
  <2>1. CASE ReadOwnRedirects(r)
    BY <2>1, RequestMoves DEF ReadOwnRedirects, ScanPolicies
  <2>2. CASE DropOwnRedirects(r)
    BY <2>2, RequestMoves DEF DropOwnRedirects, DropEach, AfterUnredirect
  <2>3. CASE ClearFilter(r)
    BY <2>3, RequestMoves DEF ClearFilter
  <2>4. CASE ClearClass(r)
    BY <2>4, RequestMoves DEF ClearClass, ScanPolicies
  <2>5. QED
    BY <1>2, <2>1, <2>2, <2>3, <2>4 DEF ClearStep
<1>3. CASE ClearBaseStep(r)
  <2>1. CASE ClearRoot(r) \/ RemoveIngress(r) \/ RemoveLink(r)
    BY <2>1, RequestMoves DEF ClearRoot, RemoveIngress, RemoveLink
  <2>2. CASE ReadAllRedirects(r)
    BY <2>2, RequestMoves DEF ReadAllRedirects
  <2>3. CASE DropAllRedirects(r)
    BY <2>3, RequestMoves DEF DropAllRedirects, DropEach, AfterBaseRedirects
  <2>4. QED
    BY <1>3, <2>1, <2>2, <2>3 DEF ClearBaseStep
<1>4. CASE Persist(r) \/ ScanPolicy(r)
  BY <1>4, RequestMoves DEF Persist, ScanPolicy
<1>5. QED
  BY <1>1, <1>2, <1>3, <1>4 DEF CallStep, EnforcerStep, TcAssumption

-----------------------------------------------------------------------------
\* The invariant, and the property.

LEMMA InitKeepInv == ASSUME TcInit PROVE KeepInv
<1>1. job[Reconciler] = Idle /\ DOMAIN job = Procs
  BY DEF TcInit, Procs
<1>2. CycleInv
  BY <1>1, StartedCalls DEF CycleInv, JobShape, CycleCall
<1>3. TcShape
  BY DEF TcInit, TcShape, NoTc, Parts
<1>4. QED
  BY <1>2, <1>3 DEF KeepInv

\* A step of the cycle keeps the classes; the others leave its call alone, or tc.
LEMMA StepKeepInv ==
    ASSUME TcAssumption, KeepInv, [TcNext]_tcVars
    PROVE  KeepInv' /\ (Kept \/ job'[Reconciler] = job[Reconciler])
<1> USE DEF KeepInv
<1>1. ASSUME NEW r \in Requests, CallStep(r)
      PROVE  KeepInv' /\ job'[Reconciler] = job[Reconciler]
  <2>1. TcShape'
    <3>1. CASE Persist(r) \/ ScanPolicy(r)
      BY <3>1, UnchangedKeeps DEF Persist, ScanPolicy, kernel
    <3>2. QED
      BY <1>1, <3>1, LimitTc, ClearTc, BaseTc DEF CallStep, EnforcerStep, TcAssumption
  <2>2. QED
    BY <1>1, <2>1, RequestStep
<1>2. CASE CallStep(Reconciler)
  <2>1. CASE ReconcileStep
    BY <2>1, StaleCycle, StaleTc
  <2>2. CASE LimitStep(Reconciler)
    BY <2>2, LimitCycle, LimitTc
  <2>3. CASE ClearBaseStep(Reconciler)
    BY <2>3, BaseCycle, BaseTc
  <2>4. QED
    BY <1>2, <2>1, <2>2, <2>3, NoClear DEF CallStep, EnforcerStep, TcAssumption
<1>3. CASE Ask
  <2>1. PICK r \in Requests : (\E j : Keep(r, j)) /\ UNCHANGED kernel
    BY <1>3 DEF Ask, Limit, Clear
  <2>2. QED
    BY <2>1, RequestMoves, UnchangedKeeps DEF kernel
<1>4. CASE Move \/ UNCHANGED tcVars
  <2>1. UNCHANGED <<tc, job, cycle>>
    BY <1>4 DEF Move, kernel, tcVars
  <2>2. QED
    BY <2>1, UnchangedKeeps DEF CycleInv, JobShape, CycleCall, Expected
<1>5. CASE CommandFails
  <2>1. PICK p \in Procs : Abort(p) /\ UNCHANGED tc
    BY <1>5 DEF CommandFails, kernel
  <2>2. QED
    BY <2>1, RequestMoves, AbortKeeps, UnchangedKeeps DEF Procs, CycleInv
<1>6. CASE Restart
  <2>1. UNCHANGED tc /\ job' = [p \in Procs |-> Idle]
    BY <1>6 DEF Restart, kernel
  <2>2. CycleInv'
    BY <2>1, StartedCalls DEF CycleInv, JobShape, CycleCall, Procs
  <2>3. QED
    BY <2>1, <2>2, UnchangedKeeps
<1>7. QED
  BY <1>1, <1>2, <1>3, <1>4, <1>5, <1>6 DEF TcNext, Procs

\* TrafficReconciliationService.ts:72-74: a cycle removes no class that its
\* snapshot of the policies asks for, whatever has failed or come in between.
THEOREM ExpectedIsKept == TcSpec => ExpectedKept
<1>1. TcInit => KeepInv
  BY InitKeepInv
<1>2. KeepInv /\ [TcNext]_tcVars => KeepInv'
  BY StepKeepInv, TcAssumption
<1>3. KeepInv /\ [TcNext]_tcVars =>
        [\A d \in Devices, dir \in Directions :
            /\ job'[Reconciler] # job[Reconciler]
            /\ cycle.want[d][dir] # None
            /\ tc[dir].class[ClassOf[d]] # None
            => tc'[dir].class[ClassOf[d]] # None]_tcVars
  BY StepKeepInv, TcAssumption DEF Kept
<1>4. QED
  BY <1>1, <1>2, <1>3, PTL DEF TcSpec, ExpectedKept
-----------------------------------------------------------------------------
(***************************************************************************)
(* Types.  What a call has been asked and what it has read has the type    *)
(* that the command using it needs.                                        *)
(***************************************************************************)

\* The steps that need the priority that has been chosen.
PrioSteps == {"filterDrop", "filterAdd", "filterAgain", "probeAgain", "ingress",
              "ingressAdd", "redirectAdd"}

\* The steps of calls that are about no direction.
NoDirection == {"idle", "scan"} \cup BaseSteps

\* A limit knows its device, address and rate all along, and only a limit runs
\* the commands of a limit; an interface and a priority are there when they are
\* needed, and what the cycle is about to purge are classes.
CallOK(j) ==
    /\ j \in Job
    /\ j.op = "limit" =>
          j.dev \in Devices /\ j.dir \in Directions /\ j.ip \in Ips /\ j.rate \in Rates
    /\ j.pc \notin NoDirection => j.dir \in Directions
    /\ j.pc \in LimitSteps => j.op = "limit"
    /\ j.pc \in RootSteps => j.op \in {"init", "limit"}
    /\ j.pc \in PrioSteps => j.prio \in Prios
    /\ j.pc \in {"staleFilters", "sweep"} => j.seen \subseteq Classes

Calls ==
    /\ job \in [Procs -> Job] /\ \A p \in Procs : CallOK(job[p])
    /\ cycle \in Cycle

Kernel ==
    /\ tc \in [Directions -> Tc]
    /\ ifb \in BOOLEAN /\ ingress \in BOOLEAN
    /\ redirects \subseteq Redirect

Rows == want \in [Devices -> [Directions -> Rates \cup {None}]] /\ ip \in [Devices -> Ips]

TcInv == Rows /\ Kernel /\ Calls

-----------------------------------------------------------------------------
\* The least element of a set, and the first free priority.

\* Sets of integers between 0 and a bound are ordered by their initial segments,
\* of which one is contained in the others.
LEMMA LeastExists ==
    ASSUME NEW S, S \subseteq Nat, S # {}
    PROVE  \E m \in S : \A n \in S : m <= n
<1> DEFINE Below(n) == 0..n
           T == {Below(n) : n \in S}
<1>1. T # {}
  OBVIOUS
<1>2. T \subseteq FiniteSubsetsOf(Nat)
  <2>1. ASSUME NEW n \in S
        PROVE  Below(n) \in SUBSET Nat /\ IsFiniteSet(Below(n))
    <3>1. n \in Int /\ 0 \in Int
      OBVIOUS
    <3>2. IsFiniteSet(0..n)
      BY <3>1, FS_Interval
    <3>3. QED
      BY <3>2
  <2>2. QED
    BY <2>1 DEF FiniteSubsetsOf
<1>3. PICK t \in T : \A u \in T : ~ (<<u, t>> \in StrictSubsetOrdering(Nat))
  <2> HIDE DEF T
  <2>1. QED
    BY <1>1, <1>2, FS_StrictSubsetOrderingWellFounded, WFMin
<1>4. PICK m \in S : t = Below(m)
  OBVIOUS
<1>5. ASSUME NEW n \in S, n < m
      PROVE  FALSE
  <2>1. Below(n) \subseteq Below(m) /\ Below(n) # Below(m)
    BY <1>5
  <2>2. Below(n) \in SUBSET Nat /\ Below(m) \in SUBSET Nat
    OBVIOUS
  <2>3. <<Below(n), Below(m)>> \in StrictSubsetOrdering(Nat)
    <3> HIDE DEF Below
    <3>1. QED
      BY <2>1, <2>2 DEF StrictSubsetOrdering
  <2>4. QED
    BY <1>3, <1>4, <2>3
<1>6. QED
  BY <1>5

LEMMA MinOf == ASSUME NEW S, S \subseteq Nat, S # {} PROVE Min(S) \in S
  BY LeastExists DEF Min

\* findAvailableFilterPriority and findAvailablePriority return a priority that
\* is free.
LEMMA FirstFreeIsFree ==
    ASSUME TcAssumption, NEW base \in Prios, NEW taken, ~(Prios \subseteq taken)
    PROVE  FirstFree(base, taken) \in Prios \ taken
<1> DEFINE distance(p) == (p + Priorities - base) % Priorities
           D == {distance(p) : p \in Prios \ taken}
<1>1. Priorities \in Nat \ {0} /\ base \in 0..Priorities-1 /\ Prios = 0..Priorities-1
  BY DEF TcAssumption, Prios
<1>2. ASSUME NEW p \in Prios
      PROVE  distance(p) \in Nat
  BY <1>1
<1>3. D \subseteq Nat /\ D # {}
  BY <1>2
<1>4. PICK m \in D : \A n \in D : m <= n
  <2> HIDE DEF D
  <2>1. QED
    BY <1>3, LeastExists
<1>5. PICK p \in Prios \ taken : m = distance(p)
  BY <1>4
<1>6. \A q \in Prios \ taken : distance(p) <= distance(q)
  BY <1>4, <1>5
<1>7. QED
  BY <1>5, <1>6 DEF FirstFree

-----------------------------------------------------------------------------
\* What is read of the filters has a type.

LEMMA FilterOfType ==
    ASSUME TcAssumption, Kernel, NEW dir \in Directions, NEW c, FilterOf(dir, c) # None
    PROVE  FilterOf(dir, c).prio \in Prios
<1> DEFINE own(p) == {n \in DOMAIN tc[dir].filters[p] : tc[dir].filters[p][n].class = c}
           prios  == {p \in Prios : own(p) # {}}
<1>1. prios \subseteq Nat
  BY DEF Prios, TcAssumption
<1>2. FilterOf(dir, c) =
        IF prios = {} THEN None
        ELSE [prio |-> Min(prios), ip |-> tc[dir].filters[Min(prios)][Min(own(Min(prios)))].ip]
  BY DEF FilterOf
<1>3. prios # {}
  BY <1>2
<1>4. Min(prios) \in prios
  <2> HIDE DEF prios
  <2>1. QED
    BY <1>1, <1>3, MinOf
<1>5. FilterOf(dir, c).prio = Min(prios)
  <2> HIDE DEF prios, own
  <2>1. QED
    BY <1>2, <1>3
<1>6. QED
  BY <1>4, <1>5

LEMMA FiltersOnType ==
    ASSUME Kernel, NEW dir \in Directions
    PROVE  FiltersOn(dir) \subseteq [prio : Prios, class : Classes, ip : Ips]
<1> SUFFICES ASSUME NEW p \in Prios, NEW f \in Range(tc[dir].filters[p])
             PROVE  [prio |-> p, class |-> f.class, ip |-> f.ip]
                      \in [prio : Prios, class : Classes, ip : Ips]
  BY DEF FiltersOn
<1>1. PICK s \in Seq([class : Classes, ip : Ips]) : s = tc[dir].filters[p]
  BY DEF Kernel, Tc
<1>2. PICK n \in 1..Len(s) : f = s[n]
  BY <1>1 DEF Range
<1>3. f \in [class : Classes, ip : Ips]
  BY <1>2, ElementOfSeq
<1>4. QED
  BY <1>3

-----------------------------------------------------------------------------
\* How calls follow each other.

LEMMA TypedCall ==
    ASSUME Calls, NEW p \in Procs, NEW j, CallOK(j), Goto(p, j), (cycle \in Cycle)'
    PROVE  Calls'
<1>1. \A q \in Procs : job'[q] = IF q = p THEN j ELSE job[q]
  BY DEF Calls, Goto
<1>2. \A q \in Procs : CallOK(job'[q])
  BY <1>1 DEF Calls
<1>3. job' \in [Procs -> Job]
  <2>1. j \in Job
    BY DEF CallOK
  <2>2. QED
    BY <2>1 DEF Calls, Goto
<1>4. QED
  BY <1>2, <1>3 DEF Calls

LEMMA TypedKeep ==
    ASSUME Calls, NEW p \in Procs, NEW j, CallOK(j), Keep(p, j)
    PROVE  Calls'
  BY TypedCall DEF Keep, Calls

LEMMA IdleOK == CallOK(Idle)
<1>1. Idle \in Job
  BY DEF Idle, Job, Steps
<1>2. Idle.op = "none" /\ Idle.pc = "idle" /\ Idle.seen = {}
  BY DEF Idle
<1>4. QED
  BY <1>1, <1>2 DEF CallOK, LimitSteps, RootSteps, PrioSteps, NoDirection, BaseSteps

LEMMA LimitCallOK ==
    ASSUME NEW d \in Devices, NEW dir \in Directions, NEW a \in Ips, NEW rate \in Rates
    PROVE  /\ CallOK(LimitCall(d, dir, a, rate))
           /\ CallOK([LimitCall(d, dir, a, rate) EXCEPT !.pc = "persist"])
<1> DEFINE j == LimitCall(d, dir, a, rate)
           k == [j EXCEPT !.pc = "persist"]
<1>1. j \in Job
  BY DEF LimitCall, Idle, Job, Steps
<1>2. /\ j.op = "limit" /\ j.dev = d /\ j.dir = dir /\ j.ip = a /\ j.rate = rate
      /\ j.pc \in {"qdisc", "link"}
  BY DEF LimitCall, Idle
<1>3. k \in Job
  BY <1>1 DEF Job, Steps
<1>4. /\ k.op = "limit" /\ k.dev = d /\ k.dir = dir /\ k.ip = a /\ k.rate = rate
      /\ k.pc = "persist"
  BY <1>1, <1>2 DEF Job
<1> HIDE DEF j, k
<1>5. CallOK(j)
  <2>1. j.pc \notin PrioSteps /\ j.pc \notin {"staleFilters", "sweep"}
    BY <1>2 DEF PrioSteps
  <2>2. QED
    BY <1>1, <1>2, <2>1 DEF CallOK
<1>6. CallOK(k)
  <2>1. k.pc \notin PrioSteps /\ k.pc \notin {"staleFilters", "sweep"}
    BY <1>4 DEF PrioSteps
  <2>2. QED
    BY <1>3, <1>4, <2>1 DEF CallOK
<1>7. QED
  BY <1>5, <1>6 DEF j, k

LEMMA StaleCallOK == ASSUME NEW dir \in Directions PROVE CallOK(StaleCall(dir))
<1> DEFINE j == StaleCall(dir)
<1>1. j \in Job
  BY DEF StaleCall, Idle, Job, Steps
<1>2. j.op = "stale" /\ j.pc \in {"staleClasses", "staleLink"}
  BY DEF StaleCall, Idle
<1> HIDE DEF j
<1>3. j.pc \notin LimitSteps /\ j.pc \notin RootSteps /\ j.pc \notin PrioSteps
  BY <1>2 DEF RootSteps, LimitSteps, PrioSteps
<1>4. j.dir = dir
  BY DEF j, StaleCall, Idle
<1>5. j.seen = {}
  BY DEF j, StaleCall, Idle
<1>6. CallOK(j)
  BY <1>1, <1>2, <1>3, <1>4, <1>5 DEF CallOK
<1>7. QED
  BY <1>6 DEF j

LEMMA NoCycleTyped == ASSUME ip \in [Devices -> Ips] PROVE NoCycle \in Cycle
<1>1. ASSUME NEW d \in Devices
      PROVE  (CHOOSE i \in Ips : TRUE) \in Ips
  OBVIOUS
<1>2. [d \in Devices |-> CHOOSE i \in Ips : TRUE] \in [Devices -> Ips]
  BY <1>1
<1>3. [d \in Devices |-> [dir \in Directions |-> None]]
        \in [Devices -> [Directions -> Rates \cup {None}]]
  OBVIOUS
<1>4. QED
  BY <1>2, <1>3 DEF NoCycle, Cycle

LEMMA ReconcilerIsProc == Reconciler \in Procs
  BY DEF Procs

LEMMA TypedEnd == ASSUME Rows, Calls, EndCycle PROVE Calls'
  BY TypedCall, IdleOK, NoCycleTyped, ReconcilerIsProc DEF EndCycle, Rows

\* A limit that the snapshot has is a call with a rate.
LEMMA TypedPlannedLimit ==
    ASSUME Calls, NEW d \in Devices, NEW dir \in Directions,
           cycle.want[d][dir] # None, Goto(Reconciler, PlannedLimit(d, dir)),
           (cycle \in Cycle)'
    PROVE  Calls'
<1>1. cycle.ip[d] \in Ips /\ cycle.want[d][dir] \in Rates
  BY DEF Calls, Cycle
<1>2. CallOK(PlannedLimit(d, dir))
  BY <1>1, LimitCallOK DEF PlannedLimit
<1>3. QED
  BY <1>2, TypedCall, ReconcilerIsProc

LEMMA TypedNextDevice == ASSUME Calls, NextDevice PROVE Calls'
<1>1. CASE Goto(Reconciler, StaleCall("download")) /\ UNCHANGED cycle
  <2>1. CallOK(StaleCall("download"))
    BY StaleCallOK DEF Directions
  <2>2. QED
    BY <1>1, <2>1, TypedCall, ReconcilerIsProc DEF Calls
<1>2. ASSUME NEW d \in cycle.left, NEW dir \in Directions, cycle.want[d][dir] # None,
             Goto(Reconciler, PlannedLimit(d, dir)),
             cycle' = [cycle EXCEPT !.left = @ \ {d}]
      PROVE  Calls'
  <2>1. d \in Devices /\ (cycle \in Cycle)'
    BY <1>2 DEF Calls, Cycle
  <2>2. QED
    BY <1>2, <2>1, TypedPlannedLimit
<1>3. QED
  BY <1>1, <1>2 DEF NextDevice

LEMMA TypedNextStale == ASSUME Rows, Calls, NEW dir, NextStale(dir) PROVE Calls'
<1>1. CASE Goto(Reconciler, StaleCall("upload")) /\ UNCHANGED cycle
  <2>1. CallOK(StaleCall("upload"))
    BY StaleCallOK DEF Directions
  <2>2. QED
    BY <1>1, <2>1, TypedCall, ReconcilerIsProc DEF Calls
<1>2. QED
  BY <1>1, TypedEnd DEF NextStale

LEMMA TypedReturn ==
    ASSUME TcAssumption, Rows, Calls, NEW p \in Procs, Return(p)
    PROVE  Calls'
<1>1. CASE p \in Requests /\ Goto(p, Idle) /\ UNCHANGED cycle
  BY <1>1, TypedCall, IdleOK DEF Calls
<1>2. CASE /\ job[p].op = "limit" /\ cycle.want[job[p].dev]["upload"] # None
           /\ Goto(Reconciler, PlannedLimit(job[p].dev, "upload"))
           /\ UNCHANGED cycle
  <2>1. job[p].dev \in Devices
    BY <1>2 DEF Calls, CallOK
  <2>2. QED
    BY <1>2, <2>1, TypedPlannedLimit DEF Directions, Calls
<1>3. QED
  BY <1>1, <1>2, TypedNextDevice, TypedNextStale, TypedEnd DEF Return

LEMMA TypedAbort ==
    ASSUME TcAssumption, Rows, Calls, NEW p \in Procs, Abort(p)
    PROVE  Calls'
<1>1. CASE p \in Requests /\ Goto(p, Idle) /\ UNCHANGED cycle
  BY <1>1, TypedCall, IdleOK DEF Calls
<1>2. QED
  BY <1>1, TypedNextDevice, TypedNextStale, TypedEnd DEF Abort

\* The next command of the same call.
LEMMA TypedGo ==
    ASSUME Calls, NEW p \in Procs, NEW pc \in Steps, Go(p, pc),
           pc \in LimitSteps => job[p].op = "limit",
           job[p].pc \notin NoDirection \/ pc \in NoDirection,
           pc \in RootSteps => job[p].op \in {"init", "limit"},
           pc \in PrioSteps => job[p].prio \in Prios,
           pc \in {"staleFilters", "sweep"} => job[p].seen \subseteq Classes
    PROVE  Calls'
<1>1. PICK j : j = [job[p] EXCEPT !.pc = pc]
  OBVIOUS
<1>2. job[p] \in Job /\ CallOK(job[p])
  BY DEF Calls
<1>3. /\ j \in Job /\ j.pc = pc
      /\ j.op = job[p].op /\ j.dev = job[p].dev /\ j.dir = job[p].dir
      /\ j.ip = job[p].ip /\ j.rate = job[p].rate
      /\ j.prio = job[p].prio /\ j.seen = job[p].seen
  BY <1>1, <1>2 DEF Job
<1>4. CallOK(j)
  BY <1>2, <1>3 DEF CallOK
<1>5. Goto(p, j)
  BY <1>1 DEF Go, Step, Goto
<1>6. QED
  BY <1>4, <1>5, TypedCall DEF Go, Calls

-----------------------------------------------------------------------------
\* What the commands leave of the types of the kernel's objects.

\* An update of one direction: of another name it changes nothing.
LEMMA TypedDirection ==
    ASSUME tc \in [Directions -> Tc], NEW dir, NEW k,
           dir \in Directions => k \in Tc, tc' = [tc EXCEPT ![dir] = k]
    PROVE  tc' \in [Directions -> Tc]
  OBVIOUS

LEMMA TypedRoot ==
    ASSUME tc \in [Directions -> Tc], NEW dir,
           \/ tc' = [tc EXCEPT ![dir].qdisc = TRUE]
           \/ tc' = [tc EXCEPT ![dir].root = TRUE]
    PROVE  tc' \in [Directions -> Tc]
<1>1. ASSUME dir \in Directions
      PROVE  [tc[dir] EXCEPT !.qdisc = TRUE] \in Tc /\ [tc[dir] EXCEPT !.root = TRUE] \in Tc
  BY <1>1 DEF Tc
<1>2. QED
  BY <1>1, TypedDirection

LEMMA TypedClass ==
    ASSUME tc \in [Directions -> Tc], NEW dir, NEW c, NEW rate \in Rates \cup {None},
           SetClass(dir, c, rate)
    PROVE  tc' \in [Directions -> Tc]
<1>1. ASSUME dir \in Directions
      PROVE  [tc[dir] EXCEPT !.class[c] = rate] \in Tc
  BY <1>1 DEF Tc
<1>2. QED
  BY <1>1, TypedDirection DEF SetClass

\* An update of the filters with one priority.
LEMMA TypedFilters ==
    ASSUME tc \in [Directions -> Tc], NEW dir, NEW prio, NEW s,
           dir \in Directions /\ prio \in Prios => s \in Seq([class : Classes, ip : Ips]),
           tc' = [tc EXCEPT ![dir].filters[prio] = s]
    PROVE  tc' \in [Directions -> Tc]
<1>1. ASSUME dir \in Directions
      PROVE  [tc[dir] EXCEPT !.filters[prio] = s] \in Tc
  <2>1. tc[dir].filters \in [Prios -> Seq([class : Classes, ip : Ips])]
    BY <1>1 DEF Tc
  <2>2. PICK f : f = [tc[dir].filters EXCEPT ![prio] = s]
    OBVIOUS
  <2>3. f \in [Prios -> Seq([class : Classes, ip : Ips])]
    BY <1>1, <2>1, <2>2
  <2>4. [tc[dir] EXCEPT !.filters = f] \in Tc
    BY <1>1, <2>3 DEF Tc
  <2>5. QED
    BY <2>2, <2>4
<1>2. QED
  BY <1>1, TypedDirection

LEMMA TypedDrop ==
    ASSUME tc \in [Directions -> Tc], NEW dir, NEW prio, DropFilters(dir, prio)
    PROVE  tc' \in [Directions -> Tc]
  BY TypedFilters, EmptySeq DEF DropFilters

LEMMA TypedAppend ==
    ASSUME tc \in [Directions -> Tc], NEW dir, NEW prio,
           NEW f \in [class : Classes, ip : Ips], AppendFilter(dir, prio, f)
    PROVE  tc' \in [Directions -> Tc]
<1>1. PICK s : s = Append(tc[dir].filters[prio], f)
  OBVIOUS
<1>2. ASSUME dir \in Directions, prio \in Prios
      PROVE  s \in Seq([class : Classes, ip : Ips])
  <2>1. tc[dir].filters[prio] \in Seq([class : Classes, ip : Ips])
    BY <1>2 DEF Tc
  <2>2. QED
    BY <1>1, <2>1, AppendProperties
<1>3. tc' = [tc EXCEPT ![dir].filters[prio] = s]
  BY <1>1 DEF AppendFilter
<1>4. QED
  BY <1>2, <1>3, TypedFilters

LEMMA NoTcTyped == NoTc \in Tc
<1>1. [p \in Prios |-> <<>>] \in [Prios -> Seq([class : Classes, ip : Ips])]
  BY EmptySeq
<1>2. QED
  BY <1>1 DEF NoTc, Tc

LEMMA TypedNoTc ==
    ASSUME tc \in [Directions -> Tc], NEW dir, tc' = [tc EXCEPT ![dir] = NoTc]
    PROVE  tc' \in [Directions -> Tc]
  BY NoTcTyped, TypedDirection

LEMMA TypedUnchanged == ASSUME Kernel, UNCHANGED kernel PROVE Kernel'
  BY DEF Kernel, kernel

\* DropRedirects takes some away.
LEMMA TypedDropRedirects ==
    ASSUME Kernel, NEW prio, DropRedirects(prio), UNCHANGED <<tc, ifb, ingress>>
    PROVE  Kernel'
  BY DEF Kernel, DropRedirects

-----------------------------------------------------------------------------
\* The steps of a limit.

LEMMA TypedAfterFilter ==
    ASSUME TcAssumption, Rows, Calls, NEW p \in Procs, job[p].op = "limit", AfterFilter(p)
    PROVE  Calls'
<1>1. PICK j : j = [job[p] EXCEPT !.pc = "relink", !.found = None, !.prio = None]
  OBVIOUS
<1>2. job[p] \in Job /\ CallOK(job[p])
  BY DEF Calls
<1>3. /\ j \in Job /\ j.pc = "relink"
      /\ j.op = job[p].op /\ j.dev = job[p].dev /\ j.dir = job[p].dir
      /\ j.ip = job[p].ip /\ j.rate = job[p].rate
  <2>1. "relink" \in Steps
    BY DEF Steps
  <2>2. QED
    BY <1>1, <1>2, <2>1 DEF Job
<1>4. CallOK(j)
  BY <1>2, <1>3 DEF CallOK, RootSteps, PrioSteps
<1>5. QED
  BY <1>1, <1>4, TypedReturn, TypedKeep DEF AfterFilter

LEMMA TypedEnsureLink ==
    ASSUME TcAssumption, Rows, Kernel, Calls, NEW p \in Procs,
           UploadLink(p) \/ RedirectLink(p)
    PROVE  Kernel' /\ Calls'
<1>1. CallOK(job[p])
  BY DEF Calls
<1>2. Kernel'
  BY TypedUnchanged DEF UploadLink, RedirectLink, EnsureLink, Kernel
<1>3. CASE UploadLink(p)
  BY <1>1, <1>2, <1>3, TypedGo, TypedAbort
  DEF UploadLink, EnsureLink, At, CallOK, LimitSteps, RootSteps, PrioSteps,
      NoDirection, BaseSteps, Steps
<1>4. CASE RedirectLink(p)
  BY <1>1, <1>2, <1>4, TypedGo, TypedAbort
  DEF RedirectLink, EnsureLink, At, CallOK, LimitSteps, RootSteps, PrioSteps,
      NoDirection, BaseSteps, Steps
<1>5. QED
  BY <1>3, <1>4

LEMMA TypedEnsureRoot ==
    ASSUME TcAssumption, Rows, Kernel, Calls, NEW p \in Procs, ReadRoot(p) \/ AddRoot(p)
    PROVE  Kernel' /\ Calls'
<1>1. CallOK(job[p])
  BY DEF Calls
<1>2. CASE ReadRoot(p)
  <2>1. job[p].op \in {"init", "limit"} /\ job[p].pc \notin NoDirection
    BY <1>1, <1>2 DEF ReadRoot, On, At, CallOK, RootSteps, NoDirection, BaseSteps
  <2>2. PICK pc \in {"root", "qdiscAdd", "rootAdd", "class"} :
           /\ Return(p) \/ Go(p, pc)
           /\ pc = "class" => job[p].op = "limit"
    BY <1>2, <2>1 DEF ReadRoot
  <2>3. /\ pc \in Steps /\ pc \notin PrioSteps /\ pc \notin {"staleFilters", "sweep"}
        /\ pc \in LimitSteps => pc = "class"
    BY DEF Steps, PrioSteps, LimitSteps
  <2>4. Calls'
    BY <2>1, <2>2, <2>3, TypedGo, TypedReturn
  <2>5. QED
    BY <1>2, <2>4, TypedUnchanged DEF ReadRoot
<1>3. CASE AddRoot(p)
  <2> job[p].op \in {"init", "limit"} /\ job[p].pc \notin NoDirection
    BY <1>1, <1>3 DEF AddRoot, On, At, CallOK, RootSteps, NoDirection, BaseSteps
  <2>1. Calls'
    BY <1>3, TypedGo, TypedReturn, TypedAbort DEF AddRoot, LimitSteps, PrioSteps, Steps
  <2>2. tc' \in [Directions -> Tc]
    BY <1>3, TypedRoot DEF AddRoot, Kernel
  <2>3. QED
    BY <1>3, <2>1, <2>2 DEF AddRoot, Kernel, link
<1>4. QED
  BY <1>2, <1>3

LEMMA TypedEnsureClass ==
    ASSUME TcAssumption, Rows, Kernel, Calls, NEW p \in Procs, ReadClass(p) \/ WriteClass(p)
    PROVE  Kernel' /\ Calls'
<1>1. CallOK(job[p])
  BY DEF Calls
<1>2. CASE ReadClass(p)
  <2> job[p].op = "limit" /\ job[p].pc \notin NoDirection
    BY <1>1, <1>2 DEF ReadClass, On, At, CallOK, LimitSteps, NoDirection, BaseSteps
  <2>1. PICK pc \in {"classAdd", "classSet", "filter"} : Abort(p) \/ Go(p, pc)
    BY <1>2 DEF ReadClass
  <2>2. pc \in Steps /\ pc \notin PrioSteps /\ pc \notin {"staleFilters", "sweep"}
    BY DEF Steps, PrioSteps
  <2>3. Calls'
    BY <2>1, <2>2, TypedGo, TypedAbort
  <2>4. QED
    BY <1>2, <2>3, TypedUnchanged DEF ReadClass
<1>3. CASE WriteClass(p)
  <2> job[p].op = "limit" /\ job[p].pc \notin NoDirection
    BY <1>1, <1>3 DEF WriteClass, On, At, CallOK, LimitSteps, NoDirection, BaseSteps
  <2>1. Calls'
    BY <1>3, TypedGo, TypedAbort DEF WriteClass, LimitSteps, PrioSteps, Steps
  <2>2. job[p].rate \in Rates \cup {None}
    BY <1>1 DEF CallOK, Job
  <2>3. tc' \in [Directions -> Tc]
    BY <1>3, <2>2, TypedClass DEF WriteClass, Kernel
  <2>4. QED
    BY <1>3, <2>1, <2>3 DEF WriteClass, Kernel, link
<1>4. QED
  BY <1>2, <1>3

LEMMA TypedReadFilter ==
    ASSUME TcAssumption, Rows, Kernel, Calls, NEW p \in Procs, ReadFilter(p)
    PROVE  Kernel' /\ Calls'
<1> DEFINE f == FilterOf(job[p].dir, ClassOf[job[p].dev])
<1>1. /\ job[p] \in Job /\ CallOK(job[p]) /\ job[p].op = "limit"
      /\ job[p].pc \in {"filter", "filterAgain"}
      /\ job[p].pc = "filterAgain" => job[p].prio \in Prios
  BY DEF Calls, CallOK, ReadFilter, On, At, LimitSteps, PrioSteps
<1>2. PICK found : found = IF f = None THEN None ELSE f.prio
  OBVIOUS
<1>3. found \in Prios \cup {None}
  BY <1>1, <1>2, FilterOfType DEF CallOK
<1>4. PICK pc \in {"probe", "probeAgain"} :
         pc = IF job[p].pc = "filter" THEN "probe" ELSE "probeAgain"
  OBVIOUS
<1>5. PICK j : j = [job[p] EXCEPT !.found = found, !.pc = pc]
  OBVIOUS
<1>6. AfterFilter(p) \/ Keep(p, j)
  BY <1>2, <1>4, <1>5 DEF ReadFilter
<1> HIDE DEF f
<1>7. /\ j \in Job /\ j.pc = pc
      /\ j.op = job[p].op /\ j.dev = job[p].dev /\ j.dir = job[p].dir
      /\ j.ip = job[p].ip /\ j.rate = job[p].rate /\ j.prio = job[p].prio
  <2>1. pc \in Steps
    BY DEF Steps
  <2>2. QED
    BY <1>1, <1>3, <1>5, <2>1 DEF Job
<1>8. CallOK(j)
  BY <1>1, <1>4, <1>7 DEF CallOK, RootSteps, PrioSteps
<1>9. Calls'
  BY <1>1, <1>6, <1>8, TypedAfterFilter, TypedKeep
<1>10. QED
  BY <1>9, TypedUnchanged DEF ReadFilter

LEMMA TypedProbe ==
    ASSUME TcAssumption, Rows, Kernel, Calls, NEW p \in Procs, ProbePriority(p)
    PROVE  Kernel' /\ Calls'
<1> DEFINE taken == {f.prio : f \in FiltersOn(job[p].dir)} \ {job[p].found}
           base == IF job[p].pc = "probe" THEN FilterBase[ClassOf[job[p].dev]]
                   ELSE (job[p].prio + 1) % Priorities
           next == CASE job[p].pc = "probeAgain" -> "filterRetry"
                     [] job[p].pc = "probe" /\ job[p].found = None -> "filterAdd"
                     [] OTHER -> "filterDrop"
<1>1. /\ job[p] \in Job /\ CallOK(job[p]) /\ job[p].op = "limit"
      /\ job[p].pc \in {"probe", "probeAgain"}
      /\ job[p].pc = "probeAgain" => job[p].prio \in Prios
  BY DEF Calls, CallOK, ProbePriority, On, At, LimitSteps, PrioSteps
<1>2. base \in Prios
  <2>1. job[p].dev \in Devices /\ FilterBase[ClassOf[job[p].dev]] \in Prios
    BY <1>1 DEF CallOK, TcAssumption, Prios
  <2>2. ASSUME job[p].prio \in Prios
        PROVE  (job[p].prio + 1) % Priorities \in Prios
    <3>1. job[p].prio \in 0..Priorities-1 /\ Priorities \in Nat \ {0}
      BY <2>2 DEF Prios, TcAssumption
    <3>2. QED
      BY <3>1 DEF Prios
  <2>3. QED
    BY <1>1, <2>1, <2>2
<1>3. CASE Prios \subseteq taken
  <2>1. Abort(p) /\ UNCHANGED kernel
    BY <1>3 DEF ProbePriority
  <2>2. QED
    BY <2>1, TypedAbort, TypedUnchanged
<1>4. CASE ~(Prios \subseteq taken)
  <2>1. PICK prio \in Prios : prio = FirstFree(base, taken)
    <3> HIDE DEF base, taken
    <3>1. QED
      BY <1>2, <1>4, FirstFreeIsFree
  <2>2. PICK pc \in {"filterRetry", "filterAdd", "filterDrop"} : pc = next
    OBVIOUS
  <2>3. Keep(p, [job[p] EXCEPT !.prio = prio, !.pc = pc]) /\ UNCHANGED kernel
    BY <1>4, <2>1, <2>2 DEF ProbePriority
  <2>4. PICK j : j = [job[p] EXCEPT !.prio = prio, !.pc = pc]
    OBVIOUS
  <2> HIDE DEF base, taken, next
  <2>5. /\ j \in Job /\ j.pc = pc /\ j.prio = prio
        /\ j.op = job[p].op /\ j.dev = job[p].dev /\ j.dir = job[p].dir
        /\ j.ip = job[p].ip /\ j.rate = job[p].rate
    <3>1. pc \in Steps
      BY DEF Steps
    <3>2. QED
      BY <1>1, <2>4, <3>1 DEF Job
  <2>6. CallOK(j)
    BY <1>1, <2>5 DEF CallOK, RootSteps
  <2>7. QED
    BY <2>3, <2>4, <2>6, TypedKeep, TypedUnchanged
<1>5. QED
  BY <1>3, <1>4

LEMMA TypedDropFilter ==
    ASSUME TcAssumption, Rows, Kernel, Calls, NEW p \in Procs, DropFilter(p)
    PROVE  Kernel' /\ Calls'
<1>1. CallOK(job[p])
  BY DEF Calls
<1>2. Calls'
  BY <1>1, TypedGo, TypedAbort
  DEF DropFilter, On, At, CallOK, LimitSteps, RootSteps, PrioSteps, NoDirection,
      BaseSteps, Steps
<1>3. tc' \in [Directions -> Tc]
  BY TypedDrop DEF DropFilter, Kernel
<1>4. QED
  BY <1>2, <1>3 DEF DropFilter, Kernel, link

\* A filter is added for the class of a device and its address.
LEMMA TypedAddFilter ==
    ASSUME TcAssumption, Rows, Kernel, Calls, NEW p \in Procs, AddFilter(p)
    PROVE  Kernel' /\ Calls'
<1>1. CallOK(job[p])
  BY DEF Calls
<1>2. job[p].op = "limit"
  BY <1>1 DEF AddFilter, On, At, CallOK, LimitSteps
<1>3. Calls'
  BY <1>1, <1>2, TypedAfterFilter, TypedGo, TypedAbort
  DEF AddFilter, On, At, CallOK, LimitSteps, RootSteps, PrioSteps, NoDirection,
      BaseSteps, Steps
<1>4. [class |-> ClassOf[job[p].dev], ip |-> job[p].ip] \in [class : Classes, ip : Ips]
  BY <1>1, <1>2 DEF CallOK, TcAssumption
<1>5. tc' \in [Directions -> Tc]
  <2>1. PICK f \in [class : Classes, ip : Ips] :
           f = [class |-> ClassOf[job[p].dev], ip |-> job[p].ip]
    BY <1>4
  <2>2. UNCHANGED tc \/ AppendFilter(job[p].dir, job[p].prio, f)
    BY <2>1 DEF AddFilter
  <2>3. QED
    BY <2>2, TypedAppend DEF Kernel
<1>6. QED
  BY <1>3, <1>5 DEF AddFilter, Kernel, link

LEMMA TypedReadRedirects ==
    ASSUME TcAssumption, Rows, Kernel, Calls, NEW p \in Procs, ReadRedirects(p)
    PROVE  Kernel' /\ Calls'
<1> DEFINE matching == {r \in redirects : r.ip = job[p].ip}
           live == {r \in matching : r.live}
           prios == {r.prio : r \in matching}
           taken == {r.prio : r \in redirects} \ prios
<1>1. job[p] \in Job /\ CallOK(job[p]) /\ job[p].op = "limit"
  BY DEF Calls, CallOK, ReadRedirects, At, LimitSteps
<1>2. prios \subseteq Prios
  BY DEF Kernel, Redirect
<1>3. ASSUME NEW todo \in SUBSET Prios, NEW prio \in Prios \cup {None},
             NEW pc \in {"ingress", "redirectDrop"}, pc = "ingress" => prio \in Prios,
             Keep(p, [job[p] EXCEPT !.pc = pc, !.prio = prio, !.todo = todo])
      PROVE  Calls'
  <2>1. PICK j : j = [job[p] EXCEPT !.pc = pc, !.prio = prio, !.todo = todo]
    OBVIOUS
  <2>2. /\ j \in Job /\ j.pc = pc /\ j.prio = prio
        /\ j.op = job[p].op /\ j.dev = job[p].dev /\ j.dir = job[p].dir
        /\ j.ip = job[p].ip /\ j.rate = job[p].rate
    <3>1. pc \in Steps
      BY DEF Steps
    <3>2. QED
      BY <1>1, <2>1, <3>1 DEF Job
  <2>3. CallOK(j)
    BY <1>1, <1>3, <2>2 DEF CallOK, RootSteps, PrioSteps
  <2>4. QED
    BY <1>3, <2>1, <2>3, TypedKeep
<1>4. ASSUME live # {} PROVE Calls'
  <2>1. PICK r \in live :
           \/ Return(p)
           \/ Keep(p, [job[p] EXCEPT !.pc = "redirectDrop", !.prio = None,
                                     !.todo = prios \ {r.prio}])
    BY <1>4 DEF ReadRedirects
  <2>2. PICK todo \in SUBSET Prios : todo = prios \ {r.prio}
    BY <1>2
  <2>3. \/ Return(p)
        \/ Keep(p, [job[p] EXCEPT !.pc = "redirectDrop", !.prio = None, !.todo = todo])
    BY <2>1, <2>2
  <2>4. QED
    BY <1>3, <2>3, TypedReturn
<1>5. ASSUME live = {}, Prios \subseteq taken PROVE Calls'
  <2>1. Abort(p)
    BY <1>5 DEF ReadRedirects
  <2>2. QED
    BY <2>1, TypedAbort
<1>6. ASSUME live = {}, ~(Prios \subseteq taken) PROVE Calls'
  <2>1. Keep(p, [job[p] EXCEPT
                 !.pc = IF prios = {} THEN "ingress" ELSE "redirectDrop",
                 !.prio = FirstFree(RedirectBase[job[p].ip], taken),
                 !.todo = prios])
    BY <1>6 DEF ReadRedirects
  <2> HIDE DEF matching, live, prios, taken
  <2>2. RedirectBase[job[p].ip] \in Prios
    BY <1>1 DEF CallOK, TcAssumption, Prios
  <2>3. PICK prio \in Prios : prio = FirstFree(RedirectBase[job[p].ip], taken)
    BY <1>6, <2>2, FirstFreeIsFree
  <2>4. PICK pc \in {"ingress", "redirectDrop"} :
           pc = IF prios = {} THEN "ingress" ELSE "redirectDrop"
    OBVIOUS
  <2>5. Keep(p, [job[p] EXCEPT !.pc = pc, !.prio = prio, !.todo = prios])
    BY <2>1, <2>3, <2>4
  <2>6. QED
    BY <1>2, <1>3, <2>5
<1>7. Calls'
  BY <1>4, <1>5, <1>6
<1>8. QED
  BY <1>7, TypedUnchanged DEF ReadRedirects

\* A call goes on with what is left to do.
LEMMA TypedTodo ==
    ASSUME Calls, NEW p \in Procs, NEW prio,
           Keep(p, [job[p] EXCEPT !.todo = @ \ {prio}])
    PROVE  Calls'
<1>1. PICK j : j = [job[p] EXCEPT !.todo = @ \ {prio}]
  OBVIOUS
<1>2. job[p] \in Job /\ CallOK(job[p])
  BY DEF Calls
<1>3. /\ j \in Job /\ j.pc = job[p].pc
      /\ j.op = job[p].op /\ j.dev = job[p].dev /\ j.dir = job[p].dir
      /\ j.ip = job[p].ip /\ j.rate = job[p].rate
      /\ j.prio = job[p].prio /\ j.seen = job[p].seen
  BY <1>1, <1>2 DEF Job
<1>4. CallOK(j)
  BY <1>2, <1>3 DEF CallOK
<1>5. QED
  BY <1>1, <1>4, TypedKeep

\* A call goes on with another command and other things to do.
LEMMA TypedNextTodo ==
    ASSUME Calls, NEW p \in Procs, NEW pc \in Steps,
           NEW todo \in SUBSET (Prios \cup Classes \cup Devices),
           Keep(p, [job[p] EXCEPT !.pc = pc, !.todo = todo]),
           pc \in LimitSteps => job[p].op = "limit",
           job[p].pc \notin NoDirection \/ pc \in NoDirection,
           pc \notin RootSteps, pc \notin {"staleFilters", "sweep"},
           pc \in PrioSteps => job[p].prio \in Prios
    PROVE  Calls'
<1>1. PICK j : j = [job[p] EXCEPT !.pc = pc, !.todo = todo]
  OBVIOUS
<1>2. job[p] \in Job /\ CallOK(job[p])
  BY DEF Calls
<1>3. /\ j \in Job /\ j.pc = pc
      /\ j.op = job[p].op /\ j.dev = job[p].dev /\ j.dir = job[p].dir
      /\ j.ip = job[p].ip /\ j.rate = job[p].rate
      /\ j.prio = job[p].prio /\ j.seen = job[p].seen
  BY <1>1, <1>2 DEF Job
<1>4. CallOK(j)
  BY <1>2, <1>3 DEF CallOK
<1>5. QED
  BY <1>1, <1>4, TypedKeep

LEMMA TypedDone ==
    ASSUME Calls, NEW p \in Procs, NEW pc \in Steps,
           Keep(p, [job[p] EXCEPT !.pc = pc, !.todo = {}]),
           pc \in LimitSteps => job[p].op = "limit",
           job[p].pc \notin NoDirection \/ pc \in NoDirection,
           pc \notin RootSteps, pc \notin {"staleFilters", "sweep"},
           pc \in PrioSteps => job[p].prio \in Prios
    PROVE  Calls'
<1>1. PICK todo \in SUBSET (Prios \cup Classes \cup Devices) : todo = {}
  OBVIOUS
<1>2. Keep(p, [job[p] EXCEPT !.pc = pc, !.todo = todo])
  BY <1>1
<1>3. QED
  BY <1>2, TypedNextTodo

LEMMA TypedDropOld ==
    ASSUME TcAssumption, Rows, Kernel, Calls, NEW p \in Procs, DropOldRedirects(p)
    PROVE  Kernel' /\ Calls'
<1>1. job[p] \in Job /\ CallOK(job[p]) /\ job[p].op = "limit"
  BY DEF Calls, CallOK, DropOldRedirects, DropEach, At, LimitSteps
<1> job[p].pc \notin NoDirection
  BY DEF DropOldRedirects, DropEach, At, NoDirection, BaseSteps
<1>2. ASSUME AfterRedirectDrop(p) PROVE Calls'
  <2>1. CASE Return(p)
    BY <2>1, TypedReturn
  <2>2. CASE /\ job[p].prio # None
             /\ Keep(p, [job[p] EXCEPT !.pc = "ingress", !.todo = {}])
    <3>1. job[p].prio \in Prios
      BY <1>1, <2>2 DEF Job
    <3>2. PICK pc \in Steps : /\ pc = "ingress" /\ pc \notin RootSteps
                              /\ pc \notin {"staleFilters", "sweep"}
      BY DEF Steps, RootSteps
    <3>3. Keep(p, [job[p] EXCEPT !.pc = pc, !.todo = {}])
      BY <2>2, <3>2
    <3>4. QED
      BY <1>1, <3>1, <3>2, <3>3, TypedDone
  <2>3. QED
    BY <1>2, <2>1, <2>2 DEF AfterRedirectDrop
<1>3. Calls'
  BY <1>2, TypedTodo DEF DropOldRedirects, DropEach
<1>4. QED
  BY <1>3, TypedDropRedirects DEF DropOldRedirects, DropEach

LEMMA TypedIngress ==
    ASSUME TcAssumption, Rows, Kernel, Calls, NEW p \in Procs, EnsureIngress(p)
    PROVE  Kernel' /\ Calls'
<1>1. CallOK(job[p])
  BY DEF Calls
<1>2. Calls'
  BY <1>1, TypedGo, TypedAbort
  DEF EnsureIngress, At, CallOK, LimitSteps, RootSteps, PrioSteps, NoDirection,
      BaseSteps, Steps
<1>3. QED
  BY <1>2 DEF EnsureIngress, Kernel

LEMMA TypedAddRedirect ==
    ASSUME TcAssumption, Rows, Kernel, Calls, NEW p \in Procs, AddRedirect(p)
    PROVE  Kernel' /\ Calls'
<1>1. CallOK(job[p]) /\ job[p].op = "limit" /\ job[p].prio \in Prios
  BY DEF Calls, CallOK, AddRedirect, At, LimitSteps, PrioSteps
<1>2. [prio |-> job[p].prio, ip |-> job[p].ip, live |-> TRUE] \in Redirect
  BY <1>1 DEF CallOK, Redirect
<1>3. Calls'
  BY TypedReturn, TypedAbort DEF AddRedirect
<1>4. redirects' \subseteq Redirect
  BY <1>2 DEF AddRedirect, Kernel
<1>5. QED
  BY <1>3, <1>4 DEF AddRedirect, Kernel

LEMMA TypedLimitStep ==
    ASSUME TcAssumption, Rows, Kernel, Calls, NEW p \in Procs, LimitStep(p)
    PROVE  Kernel' /\ Calls'
<1>1. CASE LinkMissing(p)
  BY <1>1, TypedAbort, TypedUnchanged DEF LinkMissing
<1>2. QED
  BY <1>1, TypedEnsureLink, TypedEnsureRoot, TypedEnsureClass, TypedReadFilter,
     TypedProbe, TypedDropFilter, TypedAddFilter, TypedReadRedirects, TypedDropOld,
     TypedIngress, TypedAddRedirect
  DEF LimitStep

-----------------------------------------------------------------------------
\* The steps of the clear calls.

LEMMA TypedScan ==
    ASSUME Calls, NEW p \in Procs, ScanPolicies(p)
    PROVE  Calls'
<1>1. PICK pc \in NoDirection \cap Steps :
         /\ pc = "scan" /\ pc \notin LimitSteps /\ pc \notin RootSteps
         /\ pc \notin PrioSteps /\ pc \notin {"staleFilters", "sweep"}
  BY DEF Steps, LimitSteps, RootSteps, PrioSteps, NoDirection, BaseSteps
<1>2. Keep(p, [job[p] EXCEPT !.pc = pc, !.todo = Devices])
  BY <1>1 DEF ScanPolicies
<1>3. QED
  BY <1>1, <1>2, TypedNextTodo

\* Calls that drop redirects, one after the other.
LEMMA TypedReadOwn ==
    ASSUME TcAssumption, Rows, Kernel, Calls, NEW p \in Procs, ReadOwnRedirects(p)
    PROVE  Kernel' /\ Calls'
<1> DEFINE prios == {r.prio : r \in {s \in redirects : s.live /\ s.ip = job[p].ip}}
<1>1. prios \in SUBSET (Prios \cup Classes \cup Devices)
  BY DEF Kernel, Redirect
<1> job[p].pc \notin NoDirection
  BY DEF ReadOwnRedirects, At, NoDirection, BaseSteps
<1>2. ASSUME Keep(p, [job[p] EXCEPT !.pc = "unredirectDrop", !.todo = prios])
      PROVE  Calls'
  <2> HIDE DEF prios
  <2>1. PICK pc \in Steps :
           /\ pc = "unredirectDrop" /\ pc \notin LimitSteps /\ pc \notin RootSteps
           /\ pc \notin PrioSteps /\ pc \notin {"staleFilters", "sweep"}
    BY DEF Steps, LimitSteps, RootSteps, PrioSteps
  <2>2. Keep(p, [job[p] EXCEPT !.pc = pc, !.todo = prios])
    BY <1>2, <2>1
  <2>3. QED
    BY <1>1, <2>1, <2>2, TypedNextTodo
<1>3. Calls'
  BY <1>2, TypedScan, TypedGo
  DEF ReadOwnRedirects, LimitSteps, RootSteps, PrioSteps, Steps
<1>4. QED
  BY <1>3, TypedUnchanged DEF ReadOwnRedirects

LEMMA TypedDropOwn ==
    ASSUME TcAssumption, Rows, Kernel, Calls, NEW p \in Procs, DropOwnRedirects(p)
    PROVE  Kernel' /\ Calls'
<1> job[p].pc \notin NoDirection
  BY DEF DropOwnRedirects, DropEach, At, NoDirection, BaseSteps
<1>1. ASSUME AfterUnredirect(p)
      PROVE  Calls'
  <2>1. PICK pc \in Steps : /\ pc = "unlink" /\ pc \notin LimitSteps /\ pc \notin RootSteps
                            /\ pc \notin PrioSteps /\ pc \notin {"staleFilters", "sweep"}
    BY DEF Steps, LimitSteps, RootSteps, PrioSteps
  <2>2. Keep(p, [job[p] EXCEPT !.pc = pc, !.todo = {}])
    BY <1>1, <2>1 DEF AfterUnredirect
  <2>3. QED
    BY <2>1, <2>2, TypedDone
<1>2. Calls'
  BY <1>1, TypedTodo DEF DropOwnRedirects, DropEach
<1>3. QED
  BY <1>2, TypedDropRedirects DEF DropOwnRedirects, DropEach

LEMMA TypedClearFilter ==
    ASSUME TcAssumption, Rows, Kernel, Calls, NEW p \in Procs, ClearFilter(p)
    PROVE  Kernel' /\ Calls'
<1> DEFINE f == FilterOf(job[p].dir, ClassOf[job[p].dev])
<1>1. job[p] \in Job /\ CallOK(job[p])
  BY DEF Calls
<1> job[p].dir \in Directions
  BY <1>1 DEF CallOK, ClearFilter, On, At, NoDirection, BaseSteps
<1>2. ASSUME f # None, Keep(p, [job[p] EXCEPT !.pc = "unfilterDrop", !.found = f.prio])
      PROVE  Calls'
  <2>1. f.prio \in Prios
    BY <1>2, FilterOfType
  <2>2. PICK j : j = [job[p] EXCEPT !.pc = "unfilterDrop", !.found = f.prio]
    OBVIOUS
  <2> HIDE DEF f
  <2>3. /\ j \in Job /\ j.pc = "unfilterDrop"
        /\ j.op = job[p].op /\ j.dev = job[p].dev /\ j.dir = job[p].dir
        /\ j.ip = job[p].ip /\ j.rate = job[p].rate
    <3>1. "unfilterDrop" \in Steps
      BY DEF Steps
    <3>2. QED
      BY <1>1, <2>1, <2>2, <3>1 DEF Job
  <2>4. CallOK(j)
    BY <1>1, <2>3 DEF CallOK, LimitSteps, RootSteps, PrioSteps
  <2>5. QED
    BY <1>2, <2>2, <2>4, TypedKeep
<1>3. Calls'
  BY <1>2, TypedGo
  DEF ClearFilter, On, At, LimitSteps, RootSteps, PrioSteps, NoDirection,
      BaseSteps, Steps
<1>4. tc' \in [Directions -> Tc]
  BY TypedDrop DEF ClearFilter, Kernel
<1>5. QED
  BY <1>3, <1>4 DEF ClearFilter, Kernel, link

LEMMA TypedClearClass ==
    ASSUME TcAssumption, Rows, Kernel, Calls, NEW p \in Procs, ClearClass(p)
    PROVE  Kernel' /\ Calls'
<1>1. Calls'
  BY TypedScan, TypedGo, TypedAbort
  DEF ClearClass, On, At, LimitSteps, RootSteps, PrioSteps, NoDirection,
      BaseSteps, Steps
<1>2. tc' \in [Directions -> Tc]
  BY TypedClass DEF ClearClass, Kernel
<1>3. QED
  BY <1>1, <1>2 DEF ClearClass, Kernel, link

LEMMA TypedClearStep ==
    ASSUME TcAssumption, Rows, Kernel, Calls, NEW p \in Procs, ClearStep(p)
    PROVE  Kernel' /\ Calls'
  BY TypedReadOwn, TypedDropOwn, TypedClearFilter, TypedClearClass DEF ClearStep

-----------------------------------------------------------------------------
\* The steps of clearBaseState.

LEMMA TypedClearRoot ==
    ASSUME TcAssumption, Rows, Kernel, Calls, NEW p \in Procs, ClearRoot(p)
    PROVE  Kernel' /\ Calls'
<1>1. Calls'
  BY TypedGo DEF ClearRoot, LimitSteps, RootSteps, PrioSteps, NoDirection,
     BaseSteps, Steps
<1>2. tc' \in [Directions -> Tc]
  BY TypedNoTc DEF ClearRoot, Kernel
<1>3. QED
  BY <1>1, <1>2 DEF ClearRoot, Kernel, link

LEMMA TypedReadAll ==
    ASSUME TcAssumption, Rows, Kernel, Calls, NEW p \in Procs, ReadAllRedirects(p)
    PROVE  Kernel' /\ Calls'
<1> DEFINE prios == {r.prio : r \in {s \in redirects : s.live}}
<1>1. prios \in SUBSET (Prios \cup Classes \cup Devices)
  BY DEF Kernel, Redirect
<1>2. ASSUME Keep(p, [job[p] EXCEPT
                !.pc = IF prios = {} THEN "baseIngress" ELSE "baseRedirectDrop",
                !.todo = prios])
      PROVE  Calls'
  <2> HIDE DEF prios
  <2>1. PICK pc \in NoDirection \cap Steps :
           /\ pc = IF prios = {} THEN "baseIngress" ELSE "baseRedirectDrop"
           /\ pc \notin LimitSteps /\ pc \notin RootSteps
           /\ pc \notin PrioSteps /\ pc \notin {"staleFilters", "sweep"}
    BY DEF Steps, LimitSteps, RootSteps, PrioSteps, NoDirection, BaseSteps
  <2>2. Keep(p, [job[p] EXCEPT !.pc = pc, !.todo = prios])
    BY <1>2, <2>1
  <2>3. QED
    BY <1>1, <2>1, <2>2, TypedNextTodo
<1>3. Calls'
  BY <1>2, TypedReturn, TypedGo
  DEF ReadAllRedirects, LimitSteps, RootSteps, PrioSteps, NoDirection, BaseSteps,
      Steps
<1>4. QED
  BY <1>3, TypedUnchanged DEF ReadAllRedirects

LEMMA TypedDropAll ==
    ASSUME TcAssumption, Rows, Kernel, Calls, NEW p \in Procs, DropAllRedirects(p)
    PROVE  Kernel' /\ Calls'
<1>1. ASSUME AfterBaseRedirects(p)
      PROVE  Calls'
  <2>1. PICK pc \in NoDirection \cap Steps :
           /\ pc = "baseIngress" /\ pc \notin LimitSteps /\ pc \notin RootSteps
           /\ pc \notin PrioSteps /\ pc \notin {"staleFilters", "sweep"}
    BY DEF Steps, LimitSteps, RootSteps, PrioSteps, NoDirection, BaseSteps
  <2>2. Keep(p, [job[p] EXCEPT !.pc = pc, !.todo = {}])
    BY <1>1, <2>1 DEF AfterBaseRedirects
  <2>3. QED
    BY <2>1, <2>2, TypedDone
<1>2. Calls'
  BY <1>1, TypedTodo DEF DropAllRedirects, DropEach
<1>3. QED
  BY <1>2, TypedDropRedirects DEF DropAllRedirects, DropEach

LEMMA TypedRemove ==
    ASSUME TcAssumption, Rows, Kernel, Calls, NEW p \in Procs,
           RemoveIngress(p) \/ RemoveLink(p)
    PROVE  Kernel' /\ Calls'
<1>1. CASE RemoveIngress(p)
  <2>1. Calls'
    BY <1>1, TypedGo
    DEF RemoveIngress, LimitSteps, RootSteps, PrioSteps, NoDirection, BaseSteps,
        Steps
  <2>2. QED
    BY <1>1, <2>1 DEF RemoveIngress, Kernel
<1>2. CASE RemoveLink(p)
  <2>1. Calls'
    BY <1>2, TypedReturn DEF RemoveLink
  <2>2. tc' \in [Directions -> Tc]
    BY <1>2, TypedNoTc DEF RemoveLink, Kernel
  <2>3. redirects' \subseteq Redirect
    <3>1. ASSUME NEW r \in Redirect
          PROVE  [r EXCEPT !.live = FALSE] \in Redirect
      BY DEF Redirect
    <3>2. QED
      BY <1>2, <3>1 DEF RemoveLink, Kernel
  <2>4. QED
    BY <1>2, <2>1, <2>2, <2>3 DEF RemoveLink, Kernel
<1>3. QED
  BY <1>1, <1>2

LEMMA TypedClearBase ==
    ASSUME TcAssumption, Rows, Kernel, Calls, NEW p \in Procs, ClearBaseStep(p)
    PROVE  Kernel' /\ Calls'
  BY TypedClearRoot, TypedReadAll, TypedDropAll, TypedRemove DEF ClearBaseStep

-----------------------------------------------------------------------------
\* The steps of the handlers.

\* A clear call knows its device, direction and address.
LEMMA ClearCallOK ==
    ASSUME NEW d \in Devices, NEW dir \in Directions, NEW a \in Ips
    PROVE  CallOK([Idle EXCEPT !.pc = "persist", !.op = "clear", !.dev = d,
                               !.dir = dir, !.ip = a])
<1> DEFINE j == [Idle EXCEPT !.pc = "persist", !.op = "clear", !.dev = d,
                             !.dir = dir, !.ip = a]
<1>1. j \in Job
  BY DEF Idle, Job, Steps
<1>2. j.op = "clear" /\ j.pc = "persist" /\ j.dir = dir
  BY DEF Idle
<1> HIDE DEF j
<1>3. j.pc \notin LimitSteps /\ j.pc \notin RootSteps /\ j.pc \notin PrioSteps
  BY <1>2 DEF RootSteps, LimitSteps, PrioSteps
<1>4. CallOK(j)
  BY <1>1, <1>2, <1>3 DEF CallOK
<1>5. QED
  BY <1>4 DEF j

LEMMA TypedAsk == ASSUME Rows, Calls, Ask PROVE Calls'
<1>1. PICK r \in Requests, d \in Devices, dir \in Directions :
         \/ Clear(r, d, dir)
         \/ \E rate \in Rates : Limit(r, d, dir, rate)
  BY DEF Ask
<1>2. r \in Procs /\ ip[d] \in Ips
  BY DEF Procs, Rows
<1>3. CASE Clear(r, d, dir)
  BY <1>2, <1>3, ClearCallOK, TypedKeep DEF Clear
<1>4. CASE \E rate \in Rates : Limit(r, d, dir, rate)
  BY <1>2, <1>4, LimitCallOK, TypedKeep DEF Limit
<1>5. QED
  BY <1>1, <1>3, <1>4

\* What a handler writes to the row is what it was asked: a rate, or none.
LEMMA TypedPersist ==
    ASSUME TcAssumption, Rows, Calls, NEW r \in Procs, Persist(r)
    PROVE  Rows' /\ Calls'
<1>1. job[r] \in Job /\ CallOK(job[r]) /\ job[r].pc = "persist"
  BY DEF Calls, Persist, At
<1>2. job[r].rate \in Rates \cup {None}
  BY <1>1 DEF Job
<1>3. PICK dev, dir, rate : dev = job[r].dev /\ dir = job[r].dir /\ rate = job[r].rate
  OBVIOUS
<1>4. want' = [want EXCEPT ![dev][dir] = rate]
  BY <1>3 DEF Persist
<1>5. want' \in [Devices -> [Directions -> Rates \cup {None}]]
  BY <1>2, <1>3, <1>4 DEF Rows
<1>6. CASE /\ job[r].op = "limit"
           /\ Keep(r, LimitCall(job[r].dev, job[r].dir, job[r].ip, job[r].rate))
  <2>1. CallOK(LimitCall(job[r].dev, job[r].dir, job[r].ip, job[r].rate))
    <3>1. /\ job[r].dev \in Devices /\ job[r].dir \in Directions
          /\ job[r].ip \in Ips /\ job[r].rate \in Rates
      BY <1>1, <1>6 DEF CallOK
    <3>2. QED
      BY <3>1, LimitCallOK
  <2>2. QED
    BY <1>5, <1>6, <2>1, TypedKeep DEF Rows, Persist
<1>7. CASE Go(r, IF job[r].dir = "upload" THEN "unredirect" ELSE "unfilter")
  <2>1. PICK pc \in Steps :
           /\ pc = IF job[r].dir = "upload" THEN "unredirect" ELSE "unfilter"
           /\ pc \notin LimitSteps /\ pc \notin RootSteps
           /\ pc \notin PrioSteps /\ pc \notin {"staleFilters", "sweep"}
    BY DEF Steps, LimitSteps, RootSteps, PrioSteps
  <2>2. job[r].pc \notin NoDirection
    BY <1>1 DEF NoDirection, BaseSteps
  <2>3. Calls'
    BY <1>7, <2>1, <2>2, TypedGo
  <2>4. QED
    BY <1>5, <2>3 DEF Rows, Persist
<1>8. QED
  BY <1>6, <1>7 DEF Persist

LEMMA TypedScanPolicy ==
    ASSUME TcAssumption, Rows, Calls, NEW r \in Procs, ScanPolicy(r)
    PROVE  Calls'
<1>1. CASE Return(r)
  BY <1>1, TypedReturn
<1>2. ASSUME NEW d, Keep(r, [job[r] EXCEPT !.todo = @ \ {d},
                                  !.pc = IF job[r].todo = {d} THEN "base" ELSE "scan"])
      PROVE  Calls'
  <2>1. PICK todo : todo = job[r].todo \ {d}
    OBVIOUS
  <2>2. todo \in SUBSET (Prios \cup Classes \cup Devices)
    BY <2>1 DEF Calls, CallOK, Job
  <2>3. PICK pc \in NoDirection \cap Steps :
           /\ pc = IF job[r].todo = {d} THEN "base" ELSE "scan"
           /\ pc \notin LimitSteps /\ pc \notin RootSteps
           /\ pc \notin PrioSteps /\ pc \notin {"staleFilters", "sweep"}
    BY DEF Steps, LimitSteps, RootSteps, PrioSteps, NoDirection, BaseSteps
  <2>4. Keep(r, [job[r] EXCEPT !.pc = pc, !.todo = todo])
    BY <1>2, <2>1, <2>3
  <2>5. QED
    BY <2>2, <2>3, <2>4, TypedNextTodo
<1>3. QED
  BY <1>1, <1>2 DEF ScanPolicy

-----------------------------------------------------------------------------
\* The steps of the cycle.

\* It starts with a snapshot of the rows.
LEMMA TypedSnapshot == ASSUME Rows, Calls, Snapshot PROVE Calls'
<1>1. PICK left \in SUBSET Devices : cycle' = [want |-> want, ip |-> ip, left |-> left]
  BY DEF Snapshot
<1>2. cycle' \in Cycle
  BY <1>1 DEF Rows, Cycle
<1>3. ASSUME NEW j, \/ j = [Idle EXCEPT !.pc = "base", !.op = "base"]
                    \/ j = [Idle EXCEPT !.pc = "qdisc", !.op = "init", !.dir = "download"]
      PROVE  CallOK(j)
  <2>1. /\ j \in Job
        /\ \/ j.op = "base" /\ j.pc = "base"
           \/ j.op = "init" /\ j.pc = "qdisc" /\ j.dir = "download"
    <3>1. Idle \in Job /\ "base" \in Steps /\ "qdisc" \in Steps
      BY IdleOK DEF CallOK, Steps
    <3>2. CASE j = [Idle EXCEPT !.pc = "base", !.op = "base"]
      BY <3>1, <3>2 DEF Job
    <3>3. CASE j = [Idle EXCEPT !.pc = "qdisc", !.op = "init", !.dir = "download"]
      BY <3>1, <3>3 DEF Job, Directions
    <3>4. QED
      BY <1>3, <3>2, <3>3
  <2>2. /\ j.pc \in RootSteps => j.op = "init"
        /\ j.pc \notin LimitSteps /\ j.pc \notin PrioSteps
        /\ j.pc \notin {"staleFilters", "sweep"}
        /\ j.pc \notin NoDirection => j.dir = "download"
    BY <2>1 DEF RootSteps, LimitSteps, PrioSteps, NoDirection, BaseSteps
  <2>3. QED
    BY <2>1, <2>2 DEF CallOK, Directions
<1>4. PICK j : CallOK(j) /\ Goto(Reconciler, j)
  BY <1>3 DEF Snapshot
<1>5. QED
  BY <1>2, <1>4, TypedCall, ReconcilerIsProc

LEMMA TypedFindLink == ASSUME Rows, Calls, FindStaleLink PROVE Calls'
<1>1. CASE Go(Reconciler, "staleClasses")
  <2>1. PICK pc \in Steps :
           /\ pc = "staleClasses" /\ pc \notin LimitSteps /\ pc \notin RootSteps
           /\ pc \notin PrioSteps /\ pc \notin {"staleFilters", "sweep"}
    BY DEF Steps, LimitSteps, RootSteps, PrioSteps
  <2>2. job[Reconciler].pc \notin NoDirection
    BY DEF FindStaleLink, At, NoDirection, BaseSteps
  <2>3. Go(Reconciler, pc)
    BY <1>1, <2>1
  <2>4. QED
    BY <2>1, <2>2, <2>3, TypedGo, ReconcilerIsProc
<1>2. QED
  BY <1>1, TypedNextStale DEF FindStaleLink

\* The cycle goes on with something else to do and other things seen.
LEMMA TypedStale ==
    ASSUME Calls, NEW pc \in StaleSteps,
           NEW todo \in SUBSET (Prios \cup Classes \cup Devices),
           NEW seen \in SUBSET (Classes \cup Ips),
           Keep(Reconciler, [job[Reconciler] EXCEPT !.pc = pc, !.todo = todo, !.seen = seen]),
           job[Reconciler].pc \in StaleSteps,
           pc \in {"staleFilters", "sweep"} => seen \subseteq Classes
    PROVE  Calls'
<1>1. PICK j : j = [job[Reconciler] EXCEPT !.pc = pc, !.todo = todo, !.seen = seen]
  OBVIOUS
<1>2. job[Reconciler] \in Job /\ CallOK(job[Reconciler])
  BY ReconcilerIsProc DEF Calls
<1>3. /\ pc \in Steps /\ pc \notin LimitSteps /\ pc \notin RootSteps /\ pc \notin PrioSteps
      /\ job[Reconciler].pc \notin NoDirection
  BY DEF StaleSteps, Steps, LimitSteps, RootSteps, PrioSteps, NoDirection, BaseSteps
<1>4. /\ j \in Job /\ j.pc = pc /\ j.seen = seen
      /\ j.op = job[Reconciler].op /\ j.dev = job[Reconciler].dev
      /\ j.dir = job[Reconciler].dir /\ j.ip = job[Reconciler].ip
      /\ j.rate = job[Reconciler].rate
  BY <1>1, <1>2, <1>3 DEF Job
<1>5. CallOK(j)
  BY <1>2, <1>3, <1>4 DEF CallOK
<1>6. QED
  BY <1>1, <1>5, TypedKeep, ReconcilerIsProc

\* The classes seen are classes, and the filters that are stale have priorities.
LEMMA TypedReadStale ==
    ASSUME TcAssumption, Kernel, Calls, ReadStale
    PROVE  Calls'
<1> DEFINE j == job[Reconciler]
           stale == {f \in FiltersOn(j.dir) : f.class \notin j.seen \cap Expected(j.dir)}
<1>1. j \in Job /\ CallOK(j) /\ j.pc \in {"staleClasses", "staleFilters"}
  BY ReconcilerIsProc DEF Calls, ReadStale, On, At
<1>2. /\ j.todo \in SUBSET (Prios \cup Classes \cup Devices)
      /\ j.seen \in SUBSET (Classes \cup Ips)
      /\ j.pc \in StaleSteps /\ j.dir \in Directions
      /\ "sweep" \in StaleSteps /\ "staleFilters" \in StaleSteps
  BY <1>1 DEF CallOK, Job, StaleSteps, NoDirection, BaseSteps
<1>3. CASE Keep(Reconciler, [j EXCEPT !.pc = "staleFilters",
                 !.seen = {c \in Classes : tc[j.dir].class[c] # None}])
  <2>1. PICK seen \in SUBSET Classes : seen = {c \in Classes : tc[j.dir].class[c] # None}
    OBVIOUS
  <2>2. Keep(Reconciler, [j EXCEPT !.pc = "staleFilters", !.seen = seen])
    BY <1>3, <2>1
  <2> HIDE DEF j
  <2>3. [j EXCEPT !.pc = "staleFilters", !.seen = seen]
          = [j EXCEPT !.pc = "staleFilters", !.todo = j.todo, !.seen = seen]
    BY <1>1 DEF Job
  <2>4. QED
    BY <1>2, <2>2, <2>3, TypedStale DEF j
<1>4. CASE /\ j.pc = "staleFilters"
           /\ Keep(Reconciler, [j EXCEPT !.pc = "sweep", !.todo = {f.prio : f \in stale}])
  <2>1. j.seen \subseteq Classes
    BY <1>1, <1>4 DEF CallOK
  <2>2. PICK todo \in SUBSET (Prios \cup Classes \cup Devices) :
           todo = {f.prio : f \in stale}
    <3>1. \A f \in FiltersOn(j.dir) : f.prio \in Prios
      BY <1>2, FiltersOnType
    <3>2. {f.prio : f \in stale} \subseteq Prios
      BY <3>1
    <3>3. QED
      BY <3>2
  <2>3. Keep(Reconciler, [j EXCEPT !.pc = "sweep", !.todo = todo])
    BY <1>4, <2>2
  <2> HIDE DEF j, stale
  <2>4. [j EXCEPT !.pc = "sweep", !.todo = todo]
          = [j EXCEPT !.pc = "sweep", !.todo = todo, !.seen = j.seen]
    BY <1>1 DEF Job
  <2>5. QED
    BY <1>2, <2>1, <2>3, <2>4, TypedStale DEF j
<1>5. QED
  BY <1>3, <1>4 DEF ReadStale, On, At

LEMMA TypedSweepFilter ==
    ASSUME TcAssumption, Kernel, Calls, SweepFilter
    PROVE  Kernel' /\ Calls'
<1> DEFINE j == job[Reconciler]
<1>1. j \in Job /\ CallOK(j) /\ j.pc = "sweep"
  BY ReconcilerIsProc DEF Calls, SweepFilter, At
<1>2. ASSUME Keep(Reconciler, [j EXCEPT !.pc = "purge",
                   !.todo = j.seen \ Expected(j.dir), !.seen = {}])
      PROVE  Calls'
  <2>1. PICK todo \in SUBSET (Prios \cup Classes \cup Devices) :
           todo = j.seen \ Expected(j.dir)
    BY <1>1 DEF CallOK
  <2>2. PICK seen \in SUBSET (Classes \cup Ips) : seen = {}
    OBVIOUS
  <2>3. PICK pc \in StaleSteps : pc = "purge" /\ pc \notin {"staleFilters", "sweep"}
    BY DEF StaleSteps
  <2>4. Keep(Reconciler, [j EXCEPT !.pc = pc, !.todo = todo, !.seen = seen])
    BY <1>2, <2>1, <2>2, <2>3
  <2>5. j.pc \in StaleSteps
    BY <1>1 DEF StaleSteps
  <2>6. QED
    BY <2>3, <2>4, <2>5, TypedStale
<1>3. Calls'
  BY <1>2, TypedTodo, ReconcilerIsProc DEF SweepFilter
<1>4. tc' \in [Directions -> Tc]
  BY TypedDrop DEF SweepFilter, Kernel
<1>5. QED
  BY <1>3, <1>4 DEF SweepFilter, Kernel, link

LEMMA TypedPurge ==
    ASSUME TcAssumption, Rows, Kernel, Calls, PurgeClass
    PROVE  Kernel' /\ Calls'
<1>1. ASSUME Go(Reconciler, "targets")
      PROVE  Calls'
  <2>1. PICK pc \in Steps :
           /\ pc = "targets" /\ pc \notin LimitSteps /\ pc \notin RootSteps
           /\ pc \notin PrioSteps /\ pc \notin {"staleFilters", "sweep"}
    BY DEF Steps, LimitSteps, RootSteps, PrioSteps
  <2>2. job[Reconciler].pc \notin NoDirection
    BY DEF PurgeClass, At, NoDirection, BaseSteps
  <2>3. Go(Reconciler, pc)
    BY <1>1, <2>1
  <2>4. QED
    BY <2>1, <2>2, <2>3, TypedGo, ReconcilerIsProc
<1>2. Calls'
  BY <1>1, TypedTodo, TypedAbort, TypedReturn, ReconcilerIsProc DEF PurgeClass
<1>3. tc' \in [Directions -> Tc]
  BY TypedClass DEF PurgeClass, Kernel
<1>4. QED
  BY <1>2, <1>3 DEF PurgeClass, Kernel, link

LEMMA TypedReadStaleRedirects ==
    ASSUME TcAssumption, Rows, Kernel, Calls, ReadStaleRedirects
    PROVE  Calls'
<1> DEFINE j == job[Reconciler]
           mine == {f.ip : f \in {g \in FiltersOn("upload") : g.class \in Expected("upload")}}
           stale == {r \in redirects : r.live /\ r.ip \notin j.seen}
<1>1. j \in Job /\ CallOK(j) /\ j.pc \in {"targets", "staleRedirects"}
  BY ReconcilerIsProc DEF Calls, ReadStaleRedirects, On, At
<1>2. /\ j.todo \in SUBSET (Prios \cup Classes \cup Devices)
      /\ j.seen \in SUBSET (Classes \cup Ips)
      /\ j.pc \in StaleSteps
  BY <1>1 DEF Job, StaleSteps
<1>3. CASE Keep(Reconciler, [j EXCEPT !.pc = "staleRedirects", !.seen = mine])
  <2>1. PICK seen \in SUBSET (Classes \cup Ips) : seen = mine
    <3>1. \A f \in FiltersOn("upload") : f.ip \in Ips
      BY FiltersOnType DEF Directions
    <3>2. mine \subseteq Ips
      BY <3>1
    <3>3. QED
      BY <3>2
  <2>2. PICK pc \in StaleSteps : pc = "staleRedirects" /\ pc \notin {"staleFilters", "sweep"}
    BY DEF StaleSteps
  <2>3. Keep(Reconciler, [j EXCEPT !.pc = pc, !.seen = seen])
    BY <1>3, <2>1, <2>2
  <2> HIDE DEF j, mine
  <2>4. [j EXCEPT !.pc = pc, !.seen = seen]
          = [j EXCEPT !.pc = pc, !.todo = j.todo, !.seen = seen]
    BY <1>1 DEF Job
  <2>5. QED
    BY <1>2, <2>2, <2>3, <2>4, TypedStale DEF j
<1>4. CASE Keep(Reconciler, [j EXCEPT !.pc = "redirectSweep",
                                      !.todo = {r.prio : r \in stale}])
  <2>1. PICK todo \in SUBSET (Prios \cup Classes \cup Devices) :
           todo = {r.prio : r \in stale}
    <3>1. \A r \in redirects : r.prio \in Prios
      BY DEF Kernel, Redirect
    <3>2. {r.prio : r \in stale} \subseteq Prios
      BY <3>1
    <3>3. QED
      BY <3>2
  <2>2. PICK pc \in StaleSteps : pc = "redirectSweep" /\ pc \notin {"staleFilters", "sweep"}
    BY DEF StaleSteps
  <2>3. Keep(Reconciler, [j EXCEPT !.pc = pc, !.todo = todo])
    BY <1>4, <2>1, <2>2
  <2> HIDE DEF j, stale
  <2>4. [j EXCEPT !.pc = pc, !.todo = todo]
          = [j EXCEPT !.pc = pc, !.todo = todo, !.seen = j.seen]
    BY <1>1 DEF Job
  <2>5. QED
    BY <1>2, <2>2, <2>3, <2>4, TypedStale DEF j
<1>5. CASE Return(Reconciler)
  BY <1>5, TypedReturn, ReconcilerIsProc
<1>6. QED
  BY <1>3, <1>4, <1>5 DEF ReadStaleRedirects

LEMMA TypedSweepRedirect ==
    ASSUME TcAssumption, Rows, Kernel, Calls, SweepRedirect
    PROVE  Kernel' /\ Calls'
<1>1. Calls'
  BY TypedTodo, TypedReturn, ReconcilerIsProc DEF SweepRedirect, DropEach
<1>2. QED
  BY <1>1, TypedDropRedirects DEF SweepRedirect, DropEach

LEMMA TypedCycle ==
    ASSUME TcAssumption, TcInv, ReconcileStep
    PROVE  TcInv'
<1>1. Rows /\ Kernel /\ Calls
  BY DEF TcInv
<1>2. Rows'
  BY <1>1 DEF ReconcileStep, Snapshot, FindStaleLink, ReadStale, SweepFilter,
     PurgeClass,
              ReadStaleRedirects, SweepRedirect, Rows, rows
<1>3. ASSUME Snapshot \/ FindStaleLink \/ ReadStale \/ ReadStaleRedirects
      PROVE  Kernel' /\ Calls'
  <2>1. UNCHANGED kernel
    BY <1>3 DEF Snapshot, FindStaleLink, ReadStale, ReadStaleRedirects
  <2>2. QED
    BY <1>1, <1>3, <2>1, TypedUnchanged, TypedSnapshot, TypedFindLink,
       TypedReadStale,
       TypedReadStaleRedirects
<1>4. Kernel' /\ Calls'
  BY <1>1, <1>3, TypedSweepFilter, TypedPurge, TypedSweepRedirect DEF ReconcileStep
<1>5. QED
  BY <1>2, <1>4 DEF TcInv

-----------------------------------------------------------------------------
\* All steps together.

LEMMA TypedCallStep ==
    ASSUME TcAssumption, TcInv, NEW p \in Procs, CallStep(p)
    PROVE  TcInv'
<1>1. Rows /\ Kernel /\ Calls
  BY DEF TcInv
<1>2. CASE EnforcerStep(p)
  <2>1. Rows'
    BY <1>1, <1>2 DEF EnforcerStep, Rows, rows
  <2>2. Kernel' /\ Calls'
    BY <1>1, <1>2, TypedLimitStep, TypedClearStep, TypedClearBase DEF EnforcerStep
  <2>3. QED
    BY <2>1, <2>2 DEF TcInv
<1>3. CASE Persist(p)
  <2>1. Kernel'
    BY <1>1, <1>3, TypedUnchanged DEF Persist
  <2>2. QED
    BY <1>1, <1>3, <2>1, TypedPersist DEF TcInv
<1>4. CASE ScanPolicy(p)
  <2>1. Rows' /\ Kernel'
    BY <1>1, <1>4, TypedUnchanged DEF ScanPolicy, Rows, rows
  <2>2. QED
    BY <1>1, <1>4, <2>1, TypedScanPolicy DEF TcInv
<1>5. QED
  BY <1>2, <1>3, <1>4, TypedCycle DEF CallStep

LEMMA TypedRestart == ASSUME Rows, Calls, Restart PROVE Calls'
<1>1. \A p \in Procs : CallOK(job'[p])
  BY IdleOK DEF Restart
<1>2. job' \in [Procs -> Job]
  BY IdleOK DEF Restart, CallOK
<1>3. QED
  BY <1>1, <1>2, NoCycleTyped DEF Restart, Calls, Rows

LEMMA TcStart == ASSUME TcAssumption, TcInit PROVE TcInv
<1>1. Rows
  BY DEF TcInit, Rows
<1>2. Kernel
  BY NoTcTyped DEF TcInit, Kernel
<1>3. Calls
  <2>1. \A p \in Procs : CallOK(job[p])
    BY IdleOK DEF TcInit
  <2>2. job \in [Procs -> Job]
    BY IdleOK DEF TcInit, CallOK
  <2>3. QED
    BY <1>1, <2>1, <2>2, NoCycleTyped DEF TcInit, Calls, Rows
<1>4. QED
  BY <1>1, <1>2, <1>3 DEF TcInv

LEMMA TcStep == ASSUME TcAssumption, TcInv, [TcNext]_tcVars PROVE TcInv'
<1>1. Rows /\ Kernel /\ Calls
  BY DEF TcInv
<1>2. CASE Ask
  <2>1. UNCHANGED rows /\ UNCHANGED kernel
    BY <1>2 DEF Ask, Clear, Limit
  <2>2. QED
    BY <1>1, <1>2, <2>1, TypedUnchanged, TypedAsk DEF TcInv, Rows, rows
<1>3. CASE Move
  <2>1. Rows'
    BY <1>1, <1>3 DEF Move, Rows
  <2>2. Kernel'
    BY <1>1, <1>3, TypedUnchanged DEF Move
  <2>3. Calls'
    BY <1>1, <1>3 DEF Move, Calls
  <2>4. QED
    BY <2>1, <2>2, <2>3 DEF TcInv
<1>4. CASE CommandFails
  BY <1>1, <1>4, TypedAbort, TypedUnchanged DEF CommandFails, TcInv, Rows, rows
<1>5. CASE Restart
  BY <1>1, <1>5, TypedRestart, TypedUnchanged DEF Restart, TcInv, Rows, rows
<1>6. CASE UNCHANGED tcVars
  BY <1>1, <1>6 DEF TcInv, Rows, Kernel, Calls, tcVars
<1>7. QED
  BY <1>2, <1>3, <1>4, <1>5, <1>6, TypedCallStep DEF TcNext

\* TcTypeOK: whatever calls, cycles, faults and restarts interleave, what a call
\* holds and what the kernel has are of their types: no command is run with an
\* object that was not read (a priority that was not found, an address that the
\* row does not have).
THEOREM TcTypes == TcSpec => []TcTypeOK
<1>1. TcInit => TcInv
  BY TcAssumption, TcStart
<1>2. TcInv /\ [TcNext]_tcVars => TcInv'
  BY TcAssumption, TcStep
<1>3. TcInv => TcTypeOK
  BY DEF TcInv, Rows, Kernel, Calls, TcTypeOK
<1>4. QED
  BY <1>1, <1>2, <1>3, PTL DEF TcSpec
=============================================================================
