----------------------------- MODULE TcEnforcer -----------------------------
(***************************************************************************)
(* SingleInterfaceIfbTrafficEnforcer.ts and LinuxIfbManager.ts: limit,     *)
(* clear and clearBaseState, one action per command they run. A command    *)
(* whose object is missing, or already there, fails unless the code names  *)
(* that error; a failure ends the call.                                    *)
(***************************************************************************)
EXTENDS TcState

link == <<ifb, ingress, redirects>>

-----------------------------------------------------------------------------
\* Which call follows which.

\* As LimitCall, were a device without an address not refused.
FaultyLimitCall(d, dir, addr, rate) ==
    [Idle EXCEPT !.op = "limit", !.dev = d, !.dir = dir, !.rate = rate,
                 !.pc = IF dir = "download" THEN "qdisc" ELSE "link"]

LimitCall(d, dir, addr, rate) ==
    [Idle EXCEPT !.op = "limit", !.dev = d, !.dir = dir, !.ip = addr, !.rate = rate,
                 !.pc = IF dir = "download" THEN "qdisc" ELSE "link"]

StaleCall(dir) ==
    [Idle EXCEPT !.op = "stale", !.dir = dir,
                 !.pc = IF dir = "download" THEN "staleClasses" ELSE "staleLink"]

EndCycle == Goto(Reconciler, Idle) /\ cycle' = NoCycle

PlannedLimit(d, dir) == LimitCall(d, dir, cycle.ip[d], cycle.want[d][dir])

\* The cycle goes on with one of the devices left: download, then upload. When
\* none is left it removes what is stale.
NextDevice ==
    \/ /\ cycle.left = {}
       /\ Goto(Reconciler, StaleCall("download"))
       /\ UNCHANGED cycle
    \/ \E d \in cycle.left, dir \in Directions :
          /\ cycle.want[d][dir] # None
          /\ dir = "upload" => cycle.want[d]["download"] = None
          /\ Goto(Reconciler, PlannedLimit(d, dir))
          /\ cycle' = [cycle EXCEPT !.left = @ \ {d}]

NextStale(dir) ==
    IF dir = "download" THEN Goto(Reconciler, StaleCall("upload")) /\ UNCHANGED cycle
                        ELSE EndCycle

\* The call of p has done what it was asked.
Return(p) ==
    LET j == job[p] IN
    \/ p \in Requests /\ Goto(p, Idle) /\ UNCHANGED cycle
    \/ /\ p = Reconciler /\ j.op = "limit"
       /\ j.dir = "download" /\ cycle.want[j.dev]["upload"] # None
       /\ Goto(p, PlannedLimit(j.dev, "upload"))
       /\ UNCHANGED cycle
    \/ /\ p = Reconciler /\ j.op = "limit"
       /\ j.dir = "upload" \/ cycle.want[j.dev]["upload"] = None
       /\ NextDevice
    \/ p = Reconciler /\ j.op = "init" /\ NextDevice
    \/ p = Reconciler /\ j.op = "stale" /\ NextStale(j.dir)
    \/ p = Reconciler /\ j.op = "base" /\ EndCycle

\* It has failed: a request ends; the cycle goes on with the next device, or
\* the next kind of stale state, or ends.
Abort(p) ==
    LET j == job[p] IN
    \/ p \in Requests /\ Goto(p, Idle) /\ UNCHANGED cycle
    \/ p = Reconciler /\ j.op = "limit" /\ NextDevice
    \/ p = Reconciler /\ j.op = "stale" /\ NextStale(j.dir)
    \/ p = Reconciler /\ j.op \in {"init", "base"} /\ EndCycle

Go(p, pc) == Step(p, pc) /\ UNCHANGED cycle
Keep(p, j) == Goto(p, j) /\ UNCHANGED cycle

-----------------------------------------------------------------------------
\* ensure(): ifb0 is created unless it was seen; bringing it up changes nothing
\* here and fails with the command after it if ifb0 has gone.

EnsureLink(p, look, add, next) ==
    \/ /\ At(p, look)
       /\ Go(p, IF ifb THEN next ELSE add)
       /\ UNCHANGED kernel
    \/ /\ At(p, add) /\ ~ifb
       /\ ifb' = TRUE
       /\ Go(p, next)
       /\ UNCHANGED <<tc, ingress, redirects>>
    \/ /\ At(p, add) /\ ifb
       /\ Abort(p)
       /\ UNCHANGED kernel

UploadLink(p)   == EnsureLink(p, "link", "linkAdd", "qdisc")
RedirectLink(p) == EnsureLink(p, "relink", "relinkAdd", "redirects")

\* Every command on ifb0 fails while it is missing.
LinkMissing(p) ==
    /\ job[p].pc \in {"qdisc", "qdiscAdd", "root", "rootAdd", "class", "classAdd",
                      "classAgain", "classSet", "filter", "probe", "filterDrop",
                      "filterAdd", "filterAgain", "probeAgain", "filterRetry",
                      "unfilter", "unclass", "staleClasses", "staleFilters",
                      "targets"}
    /\ ~Exists(job[p].dir)
    /\ Abort(p)
    /\ UNCHANGED kernel

\* p's call is about to run the command pc on an interface that is there.
On(p, pc) == At(p, pc) /\ Exists(job[p].dir)

-----------------------------------------------------------------------------
\* ensureRootState: the qdisc, then its root class.

ReadRoot(p) ==
    LET k == tc[job[p].dir] IN
    /\ \/ On(p, "qdisc") /\ Go(p, IF k.qdisc THEN "root" ELSE "qdiscAdd")
       \/ On(p, "root") /\ ~k.root /\ Go(p, "rootAdd")
       \/ /\ On(p, "root") /\ k.root
          /\ IF job[p].op = "init" THEN Return(p) ELSE Go(p, "class")
    /\ UNCHANGED kernel

AddRoot(p) ==
    LET dir == job[p].dir IN
    /\ UNCHANGED link
    /\ \/ /\ On(p, "qdiscAdd") /\ ~tc[dir].qdisc
          /\ tc' = [tc EXCEPT ![dir].qdisc = TRUE]
          /\ Go(p, "root")
       \/ /\ On(p, "rootAdd") /\ tc[dir].qdisc /\ ~tc[dir].root
          /\ tc' = [tc EXCEPT ![dir].root = TRUE]
          /\ IF job[p].op = "init" THEN Return(p) ELSE Go(p, "class")
       \/ /\ \/ On(p, "qdiscAdd") /\ tc[dir].qdisc
             \/ On(p, "rootAdd") /\ (~tc[dir].qdisc \/ tc[dir].root)
          /\ Abort(p)
          /\ UNCHANGED tc

-----------------------------------------------------------------------------
\* ensureDeviceClass.

ReadClass(p) ==
    LET j == job[p]
        rate == tc[j.dir].class[ClassOf[j.dev]]
    IN
    /\ \/ On(p, "class") /\ Go(p, IF rate = None THEN "classAdd"
                                  ELSE IF rate # j.rate THEN "classSet" ELSE "filter")
       \/ /\ On(p, "classAgain") /\ rate # None
          /\ Go(p, IF rate # j.rate THEN "classSet" ELSE "filter")
       \/ On(p, "classAgain") /\ rate = None /\ Abort(p)
    /\ UNCHANGED kernel

\* A class that has been added is changed once more: what was read of it is
\* older. One that has appeared since is read again.
WriteClass(p) ==
    LET j == job[p]
        c == ClassOf[j.dev]
        k == tc[j.dir]
    IN
    /\ UNCHANGED link
    /\ \/ /\ On(p, "classAdd") /\ k.root /\ k.class[c] = None
          /\ SetClass(j.dir, c, j.rate) /\ Go(p, "classSet")
       \/ /\ On(p, "classSet") /\ k.class[c] # None
          /\ SetClass(j.dir, c, j.rate) /\ Go(p, "filter")
       \/ /\ On(p, "classAdd") /\ k.class[c] # None
          /\ Go(p, "classAgain") /\ UNCHANGED tc
       \/ /\ \/ On(p, "classAdd") /\ ~k.root
             \/ On(p, "classSet") /\ k.class[c] = None
          /\ Abort(p) /\ UNCHANGED tc

-----------------------------------------------------------------------------
\* ensureFilter.

AfterFilter(p) ==
    \/ job[p].dir = "download" /\ Return(p)
    \/ /\ job[p].dir = "upload"
       /\ Keep(p, [job[p] EXCEPT !.pc = "relink", !.found = None, !.prio = None])

ReadFilter(p) ==
    LET j == job[p]
        f == FilterOf(j.dir, ClassOf[j.dev])
        found == IF f = None THEN None ELSE f.prio
        fits == f # None /\ f.ip = j.ip
    IN
    /\ On(p, "filter") \/ On(p, "filterAgain")
    /\ \/ fits /\ AfterFilter(p)
       \/ /\ ~fits
          /\ Keep(p, [j EXCEPT !.found = found,
                 !.pc = IF j.pc = "filter" THEN "probe" ELSE "probeAgain"])
    /\ UNCHANGED kernel

\* As ProbePriority, were every class sure of the priority its hash names.
FaultyProbePriority(p) ==
    LET j == job[p] IN
    /\ On(p, "probe") \/ On(p, "probeAgain")
    /\ Keep(p, [j EXCEPT !.prio = FilterBase[ClassOf[j.dev]],
          !.pc = CASE j.pc = "probeAgain" -> "filterRetry"
                   [] j.pc = "probe" /\ j.found = None -> "filterAdd"
                   [] OTHER -> "filterDrop"])
    /\ UNCHANGED kernel

\* The priority of the filter that will be replaced counts as free.
ProbePriority(p) ==
    LET j == job[p]
        taken == {f.prio : f \in FiltersOn(j.dir)} \ {j.found}
    IN
    /\ On(p, "probe") \/ On(p, "probeAgain")
    /\ IF Prios \subseteq taken THEN Abort(p)
       ELSE Keep(p, [j EXCEPT
          !.prio = FirstFree(IF j.pc = "probe" THEN FilterBase[ClassOf[j.dev]]
                             ELSE (j.prio + 1) % Priorities, taken),
          !.pc = CASE j.pc = "probeAgain" -> "filterRetry"
                   [] j.pc = "probe" /\ j.found = None -> "filterAdd"
                   [] OTHER -> "filterDrop"])
    /\ UNCHANGED kernel

DropFilter(p) ==
    LET j == job[p] IN
    /\ On(p, "filterDrop")
    /\ \/ /\ \E f \in FiltersOn(j.dir) : f.prio = j.found
          /\ DropFilters(j.dir, j.found) /\ Go(p, "filterAdd")
       \/ /\ \A f \in FiltersOn(j.dir) : f.prio # j.found
          /\ Abort(p) /\ UNCHANGED tc
    /\ UNCHANGED link

\* Whether a priority that has a filter takes another is the kernel's to say.
AddFilter(p) ==
    LET j == job[p]
        taken == \E f \in FiltersOn(j.dir) : f.prio = j.prio
    IN
    /\ UNCHANGED link
    /\ \/ /\ On(p, "filterAdd") \/ On(p, "filterRetry")
          /\ tc[j.dir].qdisc
          /\ AppendFilter(j.dir, j.prio, [class |-> ClassOf[j.dev], ip |-> j.ip])
          /\ AfterFilter(p)
       \/ On(p, "filterAdd") /\ taken /\ Go(p, "filterAgain") /\ UNCHANGED tc
       \/ /\ \/ On(p, "filterRetry") /\ taken
             \/ (On(p, "filterAdd") \/ On(p, "filterRetry")) /\ ~tc[j.dir].qdisc
          /\ Abort(p) /\ UNCHANGED tc

-----------------------------------------------------------------------------
\* ensureRedirect, which ends limitUpload.

\* Of the redirects of the address one that names ifb0 is kept; without one
\* the dead ones go, and a new one takes a priority free of the others.
ReadRedirects(p) ==
    LET j == job[p]
        matching == {r \in redirects : r.ip = j.ip}
        live == {r \in matching : r.live}
        prios == {r.prio : r \in matching}
        taken == {r.prio : r \in redirects} \ prios
    IN
    /\ At(p, "redirects")
    /\ \/ /\ live # {}
          /\ \E r \in live :
                /\ \A s \in live : r.prio <= s.prio
                /\ IF prios = {r.prio} THEN Return(p)
                   ELSE Keep(p, [j EXCEPT !.pc = "redirectDrop", !.prio = None,
                                          !.todo = prios \ {r.prio}])
       \/ /\ live = {}
          /\ IF Prios \subseteq taken THEN Abort(p)
             ELSE Keep(p, [j EXCEPT
                !.pc = IF prios = {} THEN "ingress" ELSE "redirectDrop",
                !.prio = FirstFree(RedirectBase[j.ip], taken),
                !.todo = prios])
    /\ UNCHANGED kernel

\* Removes the redirects in todo one by one; what comes last is given.
DropEach(p, pc, last) ==
    /\ At(p, pc)
    /\ \E prio \in job[p].todo :
          /\ DropRedirects(prio)
          /\ IF job[p].todo = {prio} THEN last
             ELSE Keep(p, [job[p] EXCEPT !.todo = @ \ {prio}])
    /\ UNCHANGED <<tc, ifb, ingress>>

AfterRedirectDrop(p) ==
    IF job[p].prio = None THEN Return(p)
    ELSE Keep(p, [job[p] EXCEPT !.pc = "ingress", !.todo = {}])

DropOldRedirects(p) == DropEach(p, "redirectDrop", AfterRedirectDrop(p))

EnsureIngress(p) ==
    /\ \/ At(p, "ingress") /\ Go(p, IF ingress THEN "redirectAdd" ELSE "ingressAdd")
          /\ UNCHANGED ingress
       \/ At(p, "ingressAdd") /\ ~ingress /\ ingress' = TRUE /\ Go(p, "redirectAdd")
       \/ At(p, "ingressAdd") /\ ingress /\ Abort(p) /\ UNCHANGED ingress
    /\ UNCHANGED <<tc, ifb, redirects>>

AddRedirect(p) ==
    LET j == job[p]
        taken == \E r \in redirects : r.prio = j.prio /\ r.ip = j.ip
    IN
    /\ At(p, "redirectAdd")
    /\ \/ /\ ingress /\ ifb /\ ~taken
          /\ redirects' = redirects
                \cup {[prio |-> j.prio, ip |-> j.ip, live |-> TRUE]}
          /\ Return(p)
       \/ (~ingress \/ ~ifb \/ taken) /\ Abort(p) /\ UNCHANGED redirects
    /\ UNCHANGED <<tc, ifb, ingress>>

LimitStep(p) ==
    \/ UploadLink(p) \/ ReadRoot(p) \/ AddRoot(p) \/ ReadClass(p) \/ WriteClass(p)
    \/ ReadFilter(p) \/ ProbePriority(p) \/ DropFilter(p) \/ AddFilter(p)
    \/ RedirectLink(p) \/ ReadRedirects(p) \/ DropOldRedirects(p)
    \/ EnsureIngress(p) \/ AddRedirect(p) \/ LinkMissing(p)

-----------------------------------------------------------------------------
\* clearDownload and clearUpload, which end in the scan of the policies.

ScanPolicies(p) == Keep(p, [job[p] EXCEPT !.pc = "scan", !.todo = Devices])

ReadOwnRedirects(p) ==
    LET prios == {r.prio : r \in {s \in redirects : s.live /\ s.ip = job[p].ip}} IN
    /\ \/ At(p, "unredirect") /\ prios = {} /\ Go(p, "unlink")
       \/ /\ At(p, "unredirect") /\ prios # {}
          /\ Keep(p, [job[p] EXCEPT !.pc = "unredirectDrop", !.todo = prios])
       \/ At(p, "unlink") /\ ifb /\ Go(p, "unfilter")
       \/ At(p, "unlink") /\ ~ifb /\ ScanPolicies(p)
    /\ UNCHANGED kernel

AfterUnredirect(p) == Keep(p, [job[p] EXCEPT !.pc = "unlink", !.todo = {}])

DropOwnRedirects(p) == DropEach(p, "unredirectDrop", AfterUnredirect(p))

\* clearClass: an object that has gone already is no error.
ClearFilter(p) ==
    LET j == job[p]
        f == FilterOf(j.dir, ClassOf[j.dev])
    IN
    /\ UNCHANGED link
    /\ \/ On(p, "unfilter") /\ f = None /\ Go(p, "unclass") /\ UNCHANGED tc
       \/ /\ On(p, "unfilter") /\ f # None /\ UNCHANGED tc
          /\ Keep(p, [j EXCEPT !.pc = "unfilterDrop", !.found = f.prio])
       \/ At(p, "unfilterDrop") /\ DropFilters(j.dir, j.found) /\ Go(p, "unclass")

ClearClass(p) ==
    LET j == job[p]
        c == ClassOf[j.dev]
    IN
    /\ UNCHANGED link
    /\ \/ /\ On(p, "unclass") /\ UNCHANGED tc
          /\ IF tc[j.dir].class[c] = None THEN ScanPolicies(p)
                                          ELSE Go(p, "unclassDrop")
       \/ At(p, "unclassDrop") /\ Busy(j.dir, c) /\ Abort(p) /\ UNCHANGED tc
       \/ /\ At(p, "unclassDrop") /\ ~Busy(j.dir, c)
          /\ SetClass(j.dir, c, None) /\ ScanPolicies(p)

ClearStep(p) ==
    \/ ReadOwnRedirects(p) \/ DropOwnRedirects(p) \/ ClearFilter(p) \/ ClearClass(p)

-----------------------------------------------------------------------------
\* clearBaseState: the root qdisc with all below it, then ifb0.

ClearRoot(p) ==
    /\ \/ /\ At(p, "base") /\ UNCHANGED tc
          /\ Go(p, IF tc["download"].qdisc THEN "baseDrop" ELSE "baseLink")
       \/ /\ At(p, "baseDrop")
          /\ tc' = [tc EXCEPT !["download"] = NoTc]
          /\ Go(p, "baseLink")
    /\ UNCHANGED link

ReadAllRedirects(p) ==
    LET prios == {r.prio : r \in {s \in redirects : s.live}} IN
    /\ \/ At(p, "baseLink") /\ ~ifb /\ Return(p)
       \/ At(p, "baseLink") /\ ifb /\ Go(p, "baseRedirects")
       \/ /\ At(p, "baseRedirects")
          /\ Keep(p, [job[p] EXCEPT
                !.pc = IF prios = {} THEN "baseIngress" ELSE "baseRedirectDrop",
                !.todo = prios])
    /\ UNCHANGED kernel

AfterBaseRedirects(p) == Keep(p, [job[p] EXCEPT !.pc = "baseIngress", !.todo = {}])

DropAllRedirects(p) == DropEach(p, "baseRedirectDrop", AfterBaseRedirects(p))

\* remove() goes on with the ingress qdisc and its filters, then the link; a
\* redirect to the link stays, without a target.
RemoveIngress(p) ==
    /\ At(p, "baseIngress")
    /\ ingress' = FALSE /\ redirects' = {}
    /\ Go(p, "baseLinkDrop")
    /\ UNCHANGED <<tc, ifb>>

RemoveLink(p) ==
    /\ At(p, "baseLinkDrop")
    /\ ifb' = FALSE
    /\ tc' = [tc EXCEPT !["upload"] = NoTc]
    /\ redirects' = {[r EXCEPT !.live = FALSE] : r \in redirects}
    /\ Return(p)
    /\ UNCHANGED ingress

ClearBaseStep(p) ==
    \/ ClearRoot(p) \/ ReadAllRedirects(p) \/ DropAllRedirects(p)
    \/ RemoveIngress(p) \/ RemoveLink(p)
=============================================================================
