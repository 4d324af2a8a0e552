---------------------------- MODULE TcEnforcement ---------------------------
(***************************************************************************)
(* Who calls the enforcer: the limit and clear handlers of                 *)
(* TrafficEnforcementService.ts and the cycle of                           *)
(* TrafficReconciliationService.ts, with the removal of stale tc state;    *)
(* beside them discovery, which changes addresses, and faults.             *)
(***************************************************************************)
EXTENDS TcEnforcer

\* The rows ask for some limits; tc has nothing after a boot of the host.
TcInit ==
    /\ want \in [Devices -> [Directions -> Rates \cup {None}]]
    /\ ip \in [Devices -> Ips]
    /\ \A d, e \in Devices : d # e => ip[d] # ip[e]
    /\ tc = [dir \in Directions |-> NoTc]
    /\ ifb = FALSE /\ ingress = FALSE /\ redirects = {}
    /\ job = [p \in Procs |-> Idle]
    /\ cycle = NoCycle

-----------------------------------------------------------------------------
\* The handlers.

\* The device row is read, then the limit is written, then tc is told.
Limit(r, d, dir, rate) ==
    /\ At(r, "idle")
    /\ Keep(r, [LimitCall(d, dir, ip[d], rate) EXCEPT !.pc = "persist"])
    /\ UNCHANGED <<rows, kernel>>

Clear(r, d, dir) ==
    /\ At(r, "idle")
    /\ Keep(r, [Idle EXCEPT !.pc = "persist", !.op = "clear", !.dev = d,
                            !.dir = dir, !.ip = ip[d]])
    /\ UNCHANGED <<rows, kernel>>

Persist(r) ==
    LET j == job[r] IN
    /\ At(r, "persist")
    /\ want' = [want EXCEPT ![j.dev][j.dir] = j.rate]
    /\ \/ j.op = "limit" /\ Keep(r, LimitCall(j.dev, j.dir, j.ip, j.rate))
       \/ /\ j.op = "clear"
          /\ Go(r, IF j.dir = "upload" THEN "unredirect" ELSE "unfilter")
    /\ UNCHANGED <<ip, kernel>>

Limited(d) == \E dir \in Directions : want[d][dir] # None

\* clearBaseStateWhenUnused, one policy after the other.
ScanPolicy(r) ==
    LET j == job[r] IN
    /\ At(r, "scan")
    /\ \E d \in j.todo :
          \/ Limited(d) /\ Return(r)
          \/ /\ ~Limited(d)
             /\ Keep(r, [j EXCEPT !.todo = @ \ {d},
                                  !.pc = IF j.todo = {d} THEN "base" ELSE "scan"])
    /\ UNCHANGED <<rows, kernel>>

-----------------------------------------------------------------------------
\* TrafficReconciliationService.reconcile.

\* As Snapshot, with the base state made in every cycle.
FaultySnapshot ==
    LET limited == {d \in Devices : Limited(d)} IN
    /\ At(Reconciler, "idle")
    /\ cycle' = [want |-> want, ip |-> ip, left |-> limited]
    /\ Goto(Reconciler, [Idle EXCEPT !.pc = "qdisc", !.op = "init",
                                     !.dir = "download"])
    /\ UNCHANGED <<rows, kernel>>

\* Every device and its policy are read; without limits the base state goes.
Snapshot ==
    LET limited == {d \in Devices : Limited(d)} IN
    /\ At(Reconciler, "idle")
    /\ cycle' = [want |-> want, ip |-> ip, left |-> limited]
    /\ Goto(Reconciler, IF limited = {} THEN [Idle EXCEPT !.pc = "base", !.op = "base"]
                        ELSE [Idle EXCEPT !.pc = "qdisc", !.op = "init",
                                          !.dir = "download"])
    /\ UNCHANGED <<rows, kernel>>

\* As Expected, counting the devices whose repair has left a filter.
FaultyExpected(dir) ==
    {ClassOf[d] : d \in {e \in Devices : /\ cycle.want[e][dir] # None
                                         /\ Busy(dir, ClassOf[e])}}

\* The classes that the snapshot asks for, whether or not they could be made.
Expected(dir) == {ClassOf[d] : d \in {e \in Devices : cycle.want[e][dir] # None}}

\* As FindStaleLink, with nothing to do where no upload is expected.
FaultyFindStaleLink ==
    /\ At(Reconciler, "staleLink")
    /\ IF ifb /\ Expected("upload") # {} THEN Go(Reconciler, "staleClasses")
                                       ELSE NextStale("upload")
    /\ UNCHANGED <<rows, kernel>>

\* Without ifb0 the upload direction has nothing stale, or the cycle has failed.
FindStaleLink ==
    /\ At(Reconciler, "staleLink")
    /\ IF ifb THEN Go(Reconciler, "staleClasses") ELSE NextStale("upload")
    /\ UNCHANGED <<rows, kernel>>

\* reconcileInterfaceState reads the classes, then the filters. A filter is
\* kept if its class exists and is expected.
ReadStale ==
    LET j == job[Reconciler]
        stale == {f \in FiltersOn(j.dir) : f.class \notin j.seen \cap Expected(j.dir)}
    IN
    /\ \/ /\ On(Reconciler, "staleClasses")
          /\ Keep(Reconciler, [j EXCEPT !.pc = "staleFilters",
                !.seen = {c \in Classes : tc[j.dir].class[c] # None}])
       \/ /\ On(Reconciler, "staleFilters")
          /\ Keep(Reconciler, [j EXCEPT !.pc = "sweep",
                !.todo = {f.prio : f \in stale}])
    /\ UNCHANGED <<rows, kernel>>

\* The stale filters go first, one by one, then the classes nobody expects.
SweepFilter ==
    LET j == job[Reconciler] IN
    /\ At(Reconciler, "sweep")
    /\ \/ \E prio \in j.todo :
             /\ DropFilters(j.dir, prio)
             /\ Keep(Reconciler, [j EXCEPT !.todo = @ \ {prio}])
       \/ /\ j.todo = {} /\ UNCHANGED tc
          /\ Keep(Reconciler, [j EXCEPT !.pc = "purge",
                !.todo = j.seen \ Expected(j.dir), !.seen = {}])
    /\ UNCHANGED <<rows, link>>

PurgeClass ==
    LET j == job[Reconciler] IN
    /\ At(Reconciler, "purge")
    /\ \/ \E c \in j.todo :
             \/ /\ ~Busy(j.dir, c)
                /\ SetClass(j.dir, c, None)
                /\ Keep(Reconciler, [j EXCEPT !.todo = @ \ {c}])
             \/ Busy(j.dir, c) /\ Abort(Reconciler) /\ UNCHANGED tc
       \/ /\ j.todo = {} /\ UNCHANGED tc
          /\ IF j.dir = "download" THEN Return(Reconciler) ELSE Go(Reconciler, "targets")
    /\ UNCHANGED <<rows, link>>

\* reconcileUploadRedirects keeps the redirects of the addresses that filters of
\* expected classes name; a dead redirect is not seen as one of its own.
ReadStaleRedirects ==
    LET j == job[Reconciler]
        mine == {f.ip : f \in {g \in FiltersOn("upload") : g.class \in Expected("upload")}}
        stale == {r \in redirects : r.live /\ r.ip \notin j.seen}
    IN
    /\ \/ /\ On(Reconciler, "targets")
          /\ Keep(Reconciler, [j EXCEPT !.pc = "staleRedirects", !.seen = mine])
       \/ /\ At(Reconciler, "staleRedirects") /\ stale = {} /\ Return(Reconciler)
       \/ /\ At(Reconciler, "staleRedirects") /\ stale # {}
          /\ Keep(Reconciler, [j EXCEPT !.pc = "redirectSweep",
                                        !.todo = {r.prio : r \in stale}])
    /\ UNCHANGED <<rows, kernel>>

SweepRedirect == DropEach(Reconciler, "redirectSweep", Return(Reconciler)) /\ UNCHANGED rows

ReconcileStep ==
    \/ Snapshot \/ FindStaleLink \/ ReadStale \/ SweepFilter \/ PurgeClass
    \/ ReadStaleRedirects \/ SweepRedirect

-----------------------------------------------------------------------------
EnforcerStep(p) == (LimitStep(p) \/ ClearStep(p) \/ ClearBaseStep(p)) /\ UNCHANGED rows

CallStep(p) ==
    \/ EnforcerStep(p)
    \/ p \in Requests /\ (Persist(p) \/ ScanPolicy(p))
    \/ p = Reconciler /\ ReconcileStep

Ask ==
    \E r \in Requests, d \in Devices, dir \in Directions :
        Clear(r, d, dir) \/ \E rate \in Rates : Limit(r, d, dir, rate)

\* Discovery writes a new address to the row.
Move ==
    \E d \in Devices, i \in Ips :
        /\ i # ip[d]
        /\ ip' = [ip EXCEPT ![d] = i]
        /\ UNCHANGED <<want, kernel, job, cycle>>

\* A command fails without effect (the agent cannot be reached).
CommandFails ==
    \E p \in Procs : ~At(p, "idle") /\ Abort(p) /\ UNCHANGED <<rows, kernel>>

\* The backend restarts: rows and kernel stay.
Restart ==
    /\ job' = [p \in Procs |-> Idle] /\ cycle' = NoCycle
    /\ UNCHANGED <<rows, kernel>>

TcNext == (\E p \in Procs : CallStep(p)) \/ Ask \/ Move \/ CommandFails \/ Restart

\* Calls go on, and the timer starts one cycle after the other.
TcSpec == TcInit /\ [][TcNext]_tcVars /\ \A p \in Procs : WF_tcVars(CallStep(p))

-----------------------------------------------------------------------------
\* Properties.

\* The hashes of two MAC addresses may collide: then they share a class.
OwnClass(d)   == \A e \in Devices \ {d} : ClassOf[e] # ClassOf[d]
OwnAddress(d) == \A e \in Devices \ {d} : ip[e] # ip[d]

\* The class of d has the rate of the policy, a filter leads the traffic of its
\* address there, and its upload is redirected to ifb0.
Enforced(d, dir) ==
    /\ tc[dir].class[ClassOf[d]] = want[d][dir]
    /\ \E f \in FiltersOn(dir) : f.class = ClassOf[d] /\ f.ip = ip[d]
    /\ dir = "upload" => \E r \in redirects : r.live /\ r.ip = ip[d]

Untouched(d, dir) ==
    /\ tc[dir].class[ClassOf[d]] = None
    /\ ~Busy(dir, ClassOf[d])

\* SingleInterfaceIfbTrafficEnforcer.limitDownload and limitUpload against the
\* cycle and each other: whatever they read before the other's commands, and
\* whatever failed, a limit is in the end enforced on the device's own address,
\* and stays so.
LimitsReached ==
    \A d \in Devices, dir \in Directions :
        OwnClass(d) /\ <>[](want[d][dir] # None /\ OwnAddress(d)) => <>[]Enforced(d, dir)

\* clearClass, clearBaseState and reconcileInterfaceState: of a limit that has
\* been taken back neither class nor filter is left in the end.
LimitsRemoved ==
    \A d \in Devices, dir \in Directions :
        OwnClass(d) /\ <>[](want[d][dir] = None) => <>[]Untouched(d, dir)

\* TrafficReconciliationService.ts:72-74: the cycle removes no class that its
\* snapshot of the policies asks for, also when it has failed to repair it.
ExpectedKept ==
    [][\A d \in Devices, dir \in Directions :
          /\ job'[Reconciler] # job[Reconciler]
          /\ cycle.want[d][dir] # None
          /\ tc[dir].class[ClassOf[d]] # None
          => tc'[dir].class[ClassOf[d]] # None]_tcVars

Unlimited == \A d \in Devices : ~Limited(d)

\* clearBaseState: without limits neither ifb0 nor qdiscs are left in the end.
\* ClearedBase asks the same of the redirects (SINGLE_INTERFACE_CHECKPOINT.md:
\* "removing limits removed IFB, HTB state, and ingress qdisc"), refuted: a call
\* that adds a redirect between the last two commands of remove() leaves one
\* without a target, which nothing removes: clearBaseState looks for ifb0 first.
BaseRemoved ==
    <>[]Unlimited => <>[](~ifb /\ \A dir \in Directions : tc[dir] = NoTc)

ClearedBase == <>[]Unlimited => <>[](redirects = {} /\ ~ingress)

\* No filter leads the traffic of an address into the class of a device that
\* does not have it. Refuted: two calls that have read different addresses may
\* both find no filter and add one each; as long as the first fits, the second
\* is never looked at.
OwnTrafficOnly ==
    <>[](\A dir \in Directions, d \in Devices : \A f \in FiltersOn(dir) :
            f.class = ClassOf[d] => f.ip = ip[d])
=============================================================================
