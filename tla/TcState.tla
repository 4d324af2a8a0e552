------------------------------- MODULE TcState ------------------------------
(***************************************************************************)
(* The kernel objects behind a limit, what a tc or ip command does to      *)
(* them, what LinuxTcStateReader reads from them, and the calls in flight. *)
(*                                                                         *)
(* Download is shaped on the LAN interface, upload on the device ifb0, to  *)
(* which redirects on the LAN's ingress qdisc send the traffic.            *)
(***************************************************************************)
EXTENDS Naturals, Sequences, FiniteSetsExt

CONSTANTS Devices, Requests,
          Reconciler,    \* the cycle of TrafficReconciliationService
          Ips, Rates,
          Classes,
          ClassOf,       \* the class of a device: a hash of its MAC address
          Priorities,    \* filter priorities are 0..Priorities-1
          FilterBase,    \* the preferred priority of a class's filter
          RedirectBase,  \* and of an address's redirect
          None           \* the SQL NULL, an absent object

ASSUME TcAssumption ==
    /\ Reconciler \notin Requests
    /\ None \notin Devices \cup Ips \cup Rates \cup Classes
    /\ ClassOf \in [Devices -> Classes]
    /\ Priorities \in Nat \ {0}
    /\ FilterBase \in [Classes -> 0..Priorities-1]
    /\ RedirectBase \in [Ips -> 0..Priorities-1]

Directions == {"download", "upload"}
Prios      == 0..Priorities-1
Procs      == Requests \cup {Reconciler}

VARIABLES
    want,       \* want[d][dir]: the limits of the DevicePolicy row
    ip,         \* ip[d]: the address of the Device row
    tc,         \* tc[dir]: the HTB qdisc of the LAN interface and of ifb0
    ifb,        \* the link ifb0 exists
    ingress,    \* the LAN interface has its ingress qdisc
    redirects,  \* the filters of that qdisc
    job,        \* job[p]: where the call p stands
    cycle       \* what the reconciliation cycle has read

rows    == <<want, ip>>
kernel  == <<tc, ifb, ingress, redirects>>
tcVars  == <<want, ip, tc, ifb, ingress, redirects, job, cycle>>

\* filters[p] are the filters with priority p, from the oldest to the newest.
Tc == [qdisc : BOOLEAN, root : BOOLEAN, class : [Classes -> Rates \cup {None}],
       filters : [Prios -> Seq([class : Classes, ip : Ips])]]

NoTc == [qdisc |-> FALSE, root |-> FALSE,
         class |-> [c \in Classes |-> None], filters |-> [p \in Prios |-> <<>>]]

\* A redirect is dead (not live) when the link it named has been deleted: it
\* then names no device, also once there is a new ifb0.
Redirect == [prio : Prios, ip : Ips, live : BOOLEAN]

Steps == {"idle", "persist",
          "link", "linkAdd", "qdisc", "qdiscAdd", "root", "rootAdd",
          "class", "classAdd", "classAgain", "classSet",
          "filter", "probe", "filterDrop", "filterAdd",
          "filterAgain", "probeAgain", "filterRetry",
          "relink", "relinkAdd", "redirects", "redirectDrop", "ingress",
          "ingressAdd", "redirectAdd",
          "unredirect", "unredirectDrop", "unlink", "unfilter", "unfilterDrop",
          "unclass", "unclassDrop", "scan",
          "base", "baseDrop", "baseLink", "baseRedirects", "baseRedirectDrop",
          "baseIngress", "baseLinkDrop",
          "staleLink", "staleClasses", "staleFilters", "sweep", "purge",
          "targets", "staleRedirects", "redirectSweep"}

\* A call in flight: pc is the command it is about to run, the other fields are
\* what it was asked and what it has read.
Job == [pc   : Steps,
        op   : {"limit", "clear", "base", "init", "stale", "none"},
        dev  : Devices \cup {None}, dir : Directions \cup {None},
        ip   : Ips \cup {None},     rate : Rates \cup {None},
        found : Prios \cup {None},  \* the filter that filterState saw
        prio  : Prios \cup {None},  \* the priority that the probe chose
        todo  : SUBSET (Prios \cup Classes \cup Devices),
        seen  : SUBSET (Classes \cup Ips)]

Idle == [pc |-> "idle", op |-> "none", dev |-> None, dir |-> None, ip |-> None,
         rate |-> None, found |-> None, prio |-> None, todo |-> {}, seen |-> {}]

\* The snapshot of rows that a cycle works from, and the devices it has left.
Cycle == [want : [Devices -> [Directions -> Rates \cup {None}]],
          ip : [Devices -> Ips], left : SUBSET Devices]

NoCycle == [want |-> [d \in Devices |-> [dir \in Directions |-> None]],
            ip |-> [d \in Devices |-> CHOOSE i \in Ips : TRUE], left |-> {}]

TcTypeOK ==
    /\ want \in [Devices -> [Directions -> Rates \cup {None}]]
    /\ ip \in [Devices -> Ips]
    /\ tc \in [Directions -> Tc]
    /\ ifb \in BOOLEAN /\ ingress \in BOOLEAN
    /\ redirects \subseteq Redirect
    /\ job \in [Procs -> Job] /\ cycle \in Cycle

-----------------------------------------------------------------------------
\* LinuxTcStateReader, and how a free priority is found.

\* Commands that name ifb0 fail while it is missing.
Exists(dir) == dir = "download" \/ ifb

\* getFilterState: the first filter of the class, or None. tc lists filters by
\* priority, then by age.
FilterOf(dir, c) ==
    LET own(p) == {n \in DOMAIN tc[dir].filters[p] : tc[dir].filters[p][n].class = c}
        prios  == {p \in Prios : own(p) # {}}
        first  == Min(prios)
    IN IF prios = {} THEN None
       ELSE [prio |-> first, ip |-> tc[dir].filters[first][Min(own(first))].ip]

\* getDeviceFilters.
FiltersOn(dir) ==
    UNION {{[prio |-> p, class |-> f.class, ip |-> f.ip] :
              f \in Range(tc[dir].filters[p])} : p \in Prios}

\* findAvailableFilterPriority and findAvailablePriority: the first free one
\* from base on, around the range; the callers fail if there is none.
FirstFree(base, taken) ==
    CHOOSE p \in Prios \ taken :
        \A q \in Prios \ taken : (p + Priorities - base) % Priorities
                                   <= (q + Priorities - base) % Priorities

-----------------------------------------------------------------------------
\* What the commands do to the kernel.

AppendFilter(dir, p, f) == tc' = [tc EXCEPT ![dir].filters[p] = Append(@, f)]

\* A deletion names a priority: it takes every filter that has it.
DropFilters(dir, p) == tc' = [tc EXCEPT ![dir].filters[p] = <<>>]

DropRedirects(p) == redirects' = {r \in redirects : r.prio # p}

SetClass(dir, c, rate) == tc' = [tc EXCEPT ![dir].class[c] = rate]

\* The kernel keeps a class that a filter still points to.
Busy(dir, c) == \E f \in FiltersOn(dir) : f.class = c

-----------------------------------------------------------------------------
\* Calls in flight.

At(p, pc)    == job[p].pc = pc
Goto(p, j)   == job' = [job EXCEPT ![p] = j]
Step(p, pc)  == job' = [job EXCEPT ![p].pc = pc]
=============================================================================
