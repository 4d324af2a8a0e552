------------------------------ MODULE Identity ------------------------------
(***************************************************************************)
(* Which MAC address stands for a device, and how far it is trusted:       *)
(* DeviceDiscoveryService with DhcpNeighborIdentityValidator, the sync     *)
(* service and GET /api/devices, which both merge observations into the    *)
(* device rows, and the administrator's acceptance of an identity.         *)
(*                                                                         *)
(* An address is named by its owner: a client with its lease, or an access *)
(* point, which has none.  An access point may answer for the addresses of *)
(* clients with its own MAC.  The neighbour states that the code trusts    *)
(* are one.                                                                *)
(***************************************************************************)
EXTENDS Naturals, FiniteSets

CONSTANTS
    Clients,       \* MACs of clients
    AccessPoints,  \* MACs of access points
    None,          \* no MAC
    Sync,          \* the caller that is DeviceDiscoverySyncService
    Lists,         \* callers that are GET /api/devices
    Threshold      \* sightings that are needed; 3 in the code

ASSUME IdentityAssumption ==
    /\ Clients \cap AccessPoints = {}
    /\ None \notin Clients \cup AccessPoints
    /\ Sync \notin Lists
    /\ Threshold \in Nat \ {0}

Macs == Clients \cup AccessPoints
Callers == {Sync} \cup Lists
Keys == Macs \X Macs        \* rows of neighbor_observations: MAC, address
NoKey == <<None, None>>

VARIABLES
    lease,       \* clients with an unexpired lease
    neigh,       \* neigh[o]: the MAC that answers for o's address, or None
    capture,     \* clients of which a recent capture confirms the lease
    renewal,     \* clients with a recent DHCP request or recheck
    rows,        \* device rows
    count,       \* consecutiveCount, up to Threshold
    caller,      \* runs of sync() and getDevices()
    admin,       \* acceptUnconfirmedIdentity
    sightings    \* history: discoveries that saw a key, up to Threshold

network == <<lease, neigh, capture, renewal>>
vars == <<network, rows, count, caller, admin, sightings>>

\* Device rows and ValidatedDeviceIdentity have the same shape.
Sources == {"DHCP", "DHCP_CONFIRMED_PROXY", "STATIC_ARP",
            "PROXY_UNCONFIRMED", "PROXY_ACCEPTED_BY_ADMIN"}
Row == [source : Sources \cup {"none"}, visible : BOOLEAN, validated : BOOLEAN,
        proxy : AccessPoints \cup {None}]
NoRow == [source |-> "none", visible |-> FALSE, validated |-> FALSE, proxy |-> None]

Direct(source) ==
    [source |-> source, visible |-> TRUE, validated |-> TRUE, proxy |-> None]
Hidden(source, ok, ap) ==
    [source |-> source, visible |-> FALSE, validated |-> ok, proxy |-> ap]

\* "count": the tables are read; "next": the loop over what was discovered;
\* "reread": reconciled once; "check": upsert has read the row; "write": the
\* second assertNotProxyMac has passed; "demote": the access point's row.
CallerPCs == {"idle", "count", "next", "reread", "check", "write", "demote"}
Caller == [pc : CallerPCs, seen : [Macs -> Row], keys : SUBSET Keys,
           keyOf : [Macs -> Keys \cup {NoKey}],
           overlapped : BOOLEAN, known : SUBSET Macs, todo : SUBSET Macs,
           dev : Macs \cup {None}, first : Row, existing : Row, next : Row]
Idle == [pc |-> "idle", seen |-> [m \in Macs |-> NoRow], keys |-> {},
         keyOf |-> [m \in Macs |-> NoKey],
         overlapped |-> FALSE, known |-> {}, todo |-> {}, dev |-> None,
         first |-> NoRow, existing |-> NoRow, next |-> NoRow]

AdminIdle == [pc |-> "idle", dev |-> None]

\* An access point answers for its own address and for those of clients.
NetworkOK ==
    \A o \in Macs : neigh[o] \in {o, None} \/ (o \in Clients /\ neigh[o] \in AccessPoints)

Init ==
    /\ lease \in SUBSET Clients
    /\ neigh \in [Macs -> Macs \cup {None}] /\ NetworkOK
    /\ capture \in SUBSET Clients /\ renewal \in SUBSET Clients
    /\ rows = [m \in Macs |-> NoRow]
    /\ count = [k \in Keys |-> 0]
    /\ caller = [w \in Callers |-> Idle]
    /\ admin = AdminIdle
    /\ sightings = [k \in Keys |-> 0]

-----------------------------------------------------------------------------
\* DhcpNeighborIdentityValidator.validate, with internalDebounce = false.

\* MACs that answer for the leased address of another device.
ProxyMacs == {neigh[c] : c \in {x \in lease : neigh[x] \notin {x, None}}}

LeaseIdentity(c) ==
    IF neigh[c] = c THEN Direct("DHCP")
    ELSE IF neigh[c] = None THEN Hidden("DHCP", FALSE, None)
    ELSE IF c \in capture THEN Hidden("DHCP_CONFIRMED_PROXY", TRUE, neigh[c])
    ELSE IF c \in renewal THEN Hidden("PROXY_UNCONFIRMED", FALSE, neigh[c])
    ELSE Hidden("DHCP", FALSE, neigh[c])

\* Addresses without a lease that m answers for.
StaticAt(m) == {o \in Macs \ lease : neigh[o] = m}

\* A neighbour without a lease is a static device, unless it is a proxy.
Validate(m) ==
    IF m \in lease THEN LeaseIdentity(m)
    ELSE IF m \notin ProxyMacs /\ StaticAt(m) # {} THEN Direct("STATIC_ARP")
    ELSE NoRow

\* The key whose count decides whether m's observation is passed on.
KeyOf(m) ==
    IF m \in lease /\ neigh[m] # None THEN <<neigh[m], m>>
    ELSE IF StaticAt(m) # {} THEN <<m, CHOOSE o \in StaticAt(m) : TRUE>>
    ELSE NoKey

ObservedKeys == {<<neigh[o], o>> : o \in {x \in Macs : neigh[x] # None}}

-----------------------------------------------------------------------------
\* PrismaNeighborObservationRepository: observe() of each neighbour, and
\* resetMissing().  restarted are the keys whose row carries a time that is not
\* before this discovery's: their count starts again.

Least(i, j) == IF i < j THEN i ELSE j

Counted(keys, restarted) ==
    [k \in Keys |-> IF k \notin keys THEN 0
                    ELSE IF k \in restarted THEN 1
                    ELSE Least(Threshold, count[k] + 1)]

\* Only static devices have to be seen more than once.
FaultyDebounced(seen, keyOf, counted) ==
    [m \in Macs |->
        IF seen[m].source = "STATIC_ARP" /\ counted[keyOf[m]] < Threshold
        THEN NoRow ELSE seen[m]]

\* DeviceDiscoveryService's filter: weak observations need Threshold sightings.
Debounced(seen, keyOf, counted) ==
    [m \in Macs |->
        IF /\ seen[m].source \in {"STATIC_ARP", "PROXY_UNCONFIRMED"}
           /\ counted[keyOf[m]] < Threshold
        THEN NoRow ELSE seen[m]]

\* History, of the keys of clients behind an access point.
Sighted(keys) ==
    [k \in Keys |-> IF k \in keys \cap (AccessPoints \X Clients)
                    THEN Least(Threshold, sightings[k] + 1) ELSE sightings[k]]

\* Other callers that count after this discovery make their times overlap.
Overlap(except) ==
    [w \in Callers |-> IF w # except /\ caller[w].pc = "count"
                       THEN [caller[w] EXCEPT !.overlapped = TRUE] ELSE caller[w]]

-----------------------------------------------------------------------------
\* reconcileIdentityObservation

Trusted(row) == row.source \in {"DHCP_CONFIRMED_PROXY", "PROXY_ACCEPTED_BY_ADMIN"}

Positive(row) ==
    \/ row.source = "DHCP" /\ row.visible
    \/ row.source \in {"DHCP_CONFIRMED_PROXY", "STATIC_ARP"}

\* An acceptance is not taken for persistent trust.
FaultyReconcileIdentity(existing, observed) ==
    IF existing.source = "DHCP_CONFIRMED_PROXY" /\ ~Positive(observed)
    THEN [observed EXCEPT !.source = existing.source, !.validated = existing.validated,
                          !.proxy = IF @ # None THEN @ ELSE existing.proxy]
    ELSE observed

\* Any validated row is kept, not only a trusted one.
StubbornReconcileIdentity(existing, observed) ==
    IF existing.validated /\ ~observed.validated
    THEN [observed EXCEPT !.source = existing.source, !.validated = TRUE,
                          !.proxy = IF @ # None THEN @ ELSE existing.proxy]
    ELSE observed

ReconcileIdentity(existing, observed) ==
    IF Trusted(existing) /\ ~Positive(observed)
    THEN [observed EXCEPT !.source = existing.source, !.validated = existing.validated,
                          !.proxy = IF @ # None THEN @ ELSE existing.proxy]
    ELSE IF /\ existing.validated /\ ~Positive(observed)
            /\ existing.proxy # None /\ existing.proxy = observed.proxy
    THEN [observed EXCEPT !.source = existing.source, !.validated = TRUE]
    ELSE observed

StoredProxies == {rows[m].proxy : m \in Macs} \ {None}

-----------------------------------------------------------------------------
\* The network, and the evidence that the backend holds in memory.

NetworkFrame == UNCHANGED <<rows, count, caller, admin, sightings>>

LeaseChange(c) ==
    /\ lease' \in {lease \cup {c}, lease \ {c}} /\ lease' # lease
    /\ UNCHANGED <<neigh, capture, renewal>> /\ NetworkFrame

NeighborChange(o, m) ==
    /\ neigh[o] # m
    /\ m \in {o, None} \/ (o \in Clients /\ m \in AccessPoints)
    /\ neigh' = [neigh EXCEPT ![o] = m]
    /\ UNCHANGED <<lease, capture, renewal>> /\ NetworkFrame

CaptureChange(c) ==
    /\ capture' \in {capture \cup {c}, capture \ {c}} /\ capture' # capture
    /\ UNCHANGED <<lease, neigh, renewal>> /\ NetworkFrame

RenewalChange(c) ==
    /\ renewal' \in {renewal \cup {c}, renewal \ {c}} /\ renewal' # renewal
    /\ UNCHANGED <<lease, neigh, capture>> /\ NetworkFrame

-----------------------------------------------------------------------------
\* discover()

Frame(w) == UNCHANGED <<network, count, admin, sightings>>

\* The lease file, the neighbour table and the captures are read.  GET
\* /api/devices reads the known proxies along with them.
Discover(w) ==
    /\ caller[w].pc = "idle"
    /\ caller' = [caller EXCEPT ![w] =
          [Idle EXCEPT !.pc = "count", !.seen = [m \in Macs |-> Validate(m)],
                       !.keys = ObservedKeys, !.keyOf = [m \in Macs |-> KeyOf(m)],
                       !.known = IF w = Sync THEN {} ELSE StoredProxies]]
    /\ sightings' = Sighted(ObservedKeys)
    /\ UNCHANGED <<network, rows, count, admin>>

\* The neighbours are counted and the weak observations filtered; then sync()
\* reads the known proxies.
Count(w) ==
    /\ caller[w].pc = "count"
    /\ \E restarted \in SUBSET caller[w].keys :
          /\ restarted # {} => caller[w].overlapped
          /\ count' = Counted(caller[w].keys, restarted)
    /\ LET found == Debounced(caller[w].seen, caller[w].keyOf, count')
           known == IF w = Sync THEN StoredProxies ELSE caller[w].known
       IN  caller' = [Overlap(w) EXCEPT ![w] =
              [Idle EXCEPT !.pc = "next", !.seen = found,
                           !.todo = {m \in Macs : found[m] # NoRow} \ known]]
    /\ UNCHANGED <<network, rows, admin, sightings>>

\* Accounting, the live monitor and GET of one device discover as well, and use
\* what they find without storing it.
OtherDiscovery ==
    /\ count' = Counted(ObservedKeys, {})
    /\ caller' = Overlap(None)
    /\ sightings' = Sighted(ObservedKeys)
    /\ UNCHANGED <<network, rows, admin>>

-----------------------------------------------------------------------------
\* The loop over the discovered devices, and PrismaDeviceRepository.upsert.

\* findByMac, and the first reconciliation.
Read(w, m) ==
    /\ caller[w].pc = "next" /\ m \in caller[w].todo
    /\ caller' = [caller EXCEPT ![w] =
          [Idle EXCEPT !.pc = "reread", !.seen = caller[w].seen,
                       !.todo = caller[w].todo \ {m}, !.dev = m, !.first = rows[m],
                       !.next = ReconcileIdentity(rows[m], caller[w].seen[m])]]
    /\ UNCHANGED rows /\ Frame(w)

\* The first assertNotProxyMac; then upsert reads the row and reconciles once
\* more, what it is given with what it reads.
Reread(w) ==
    /\ caller[w].pc = "reread"
    /\ caller[w].dev \notin StoredProxies
    /\ LET row == rows[caller[w].dev]
       IN  caller' = [caller EXCEPT ![w] =
              [@ EXCEPT !.pc = "check", !.existing = row,
                        !.next = ReconcileIdentity(row, caller[w].next)]]
    /\ UNCHANGED rows /\ Frame(w)

Check(w) ==
    /\ caller[w].pc = "check"
    /\ caller[w].dev \notin StoredProxies
    /\ caller' = [caller EXCEPT ![w].pc = "write"]
    /\ UNCHANGED rows /\ Frame(w)

\* The row is not written: the MAC is an access point's (or a query fails).
\* sync() goes on with the next device, getDevices() throws.
GiveUp(w) ==
    caller' = [caller EXCEPT ![w] = IF w = Sync
        THEN [Idle EXCEPT !.pc = "next", !.seen = caller[w].seen, !.todo = caller[w].todo]
        ELSE Idle]

Refused(w) ==
    /\ caller[w].pc \in {"reread", "check"}
    /\ caller[w].dev \in StoredProxies
    /\ GiveUp(w)
    /\ UNCHANGED rows /\ Frame(w)

\* The loop goes on after a device.
Advance(w) ==
    caller' = [caller EXCEPT ![w] =
        [Idle EXCEPT !.pc = "next", !.seen = caller[w].seen, !.todo = caller[w].todo]]

\* The access point is only looked at when a proxy has been confirmed.
FaultyWrite(w) ==
    /\ caller[w].pc = "write"
    /\ rows' = [rows EXCEPT ![caller[w].dev] = caller[w].next]
    /\ IF /\ w = Sync /\ caller[w].seen[caller[w].dev].proxy # None
          /\ caller[w].next.source = "DHCP_CONFIRMED_PROXY"
       THEN caller' = [caller EXCEPT ![w].pc = "demote"]
       ELSE Advance(w)
    /\ Frame(w)

Write(w) ==
    /\ caller[w].pc = "write"
    /\ rows' = [rows EXCEPT ![caller[w].dev] = caller[w].next]
    /\ IF w = Sync /\ caller[w].seen[caller[w].dev].proxy # None
       THEN caller' = [caller EXCEPT ![w].pc = "demote"]
       ELSE Advance(w)
    /\ Frame(w)

\* Only sync() sees to it that an access point that has a row is not trusted.
Demote(w) ==
    /\ caller[w].pc = "demote"
    /\ LET ap == caller[w].seen[caller[w].dev].proxy
       IN  rows' = IF rows[ap] = NoRow THEN rows
                   ELSE [rows EXCEPT ![ap].validated = FALSE, ![ap].visible = FALSE]
    /\ Advance(w)
    /\ Frame(w)

Finish(w) ==
    /\ caller[w].pc = "next" /\ caller[w].todo = {}
    /\ caller' = [caller EXCEPT ![w] = Idle]
    /\ UNCHANGED rows /\ Frame(w)

\* A query fails.  (A first findByMac that fails loses what a second one does.)
CallerFails(w) ==
    /\ caller[w].pc \notin {"idle", "next"}
    /\ IF caller[w].pc = "count" THEN caller' = [caller EXCEPT ![w] = Idle] ELSE GiveUp(w)
    /\ UNCHANGED rows /\ Frame(w)

-----------------------------------------------------------------------------
\* acceptUnconfirmedIdentity, with the acknowledgement: a read and an update.

AcceptRead(m) ==
    /\ admin.pc = "idle"
    /\ rows[m].source = "PROXY_UNCONFIRMED"
    /\ admin' = [pc |-> "write", dev |-> m]
    /\ UNCHANGED <<network, rows, count, caller, sightings>>

AcceptWrite ==
    /\ admin.pc = "write"
    /\ rows' = [rows EXCEPT ![admin.dev].source = "PROXY_ACCEPTED_BY_ADMIN",
                            ![admin.dev].validated = TRUE,
                            ![admin.dev].visible = FALSE]
    /\ admin' = AdminIdle
    /\ UNCHANGED <<network, count, caller, sightings>>

\* The backend restarts: captures, requests and rechecks are gone.
Restart ==
    /\ capture' = {} /\ renewal' = {}
    /\ caller' = [w \in Callers |-> Idle]
    /\ admin' = AdminIdle
    /\ UNCHANGED <<lease, neigh, rows, count, sightings>>

-----------------------------------------------------------------------------
NetworkStep ==
    \/ \E c \in Clients : LeaseChange(c) \/ CaptureChange(c) \/ RenewalChange(c)
    \/ \E o \in Macs, m \in Macs \cup {None} : NeighborChange(o, m)

\* What a run does once it has read the tables.
Continues(w) ==
    \/ Count(w) \/ Reread(w) \/ Check(w) \/ Refused(w) \/ Write(w) \/ Demote(w) \/ Finish(w)
    \/ \E m \in Macs : Read(w, m)

CallerStep(w) == Discover(w) \/ Continues(w)

AdminStep == AcceptWrite \/ \E m \in Macs : AcceptRead(m)

Next ==
    \/ NetworkStep \/ OtherDiscovery \/ AdminStep \/ Restart
    \/ \E w \in Callers : CallerStep(w) \/ CallerFails(w)

\* The timer of sync() fires for ever, and every run that is started ends.
Fairness == WF_vars(CallerStep(Sync)) /\ \A w \in Lists : WF_vars(Continues(w))

Spec == Init /\ [][Next]_vars /\ Fairness

-----------------------------------------------------------------------------
\* A row is as enforcement takes it to be: what it will block by address only
\* (validated and hidden) is vouched for by a capture or the administrator,
\* and by MAC only what is seen with that MAC.
RowIsKind(row) ==
    /\ row.validated /\ row.visible => row.source \in {"DHCP", "STATIC_ARP"}
    /\ Trusted(row) <=> row.validated /\ ~row.visible
    /\ row.visible => row.validated /\ row.proxy = None

\* The types; and the rows are the five kinds of BlockingState, whoever writes
\* them in whatever order.
IdentityTypeOK ==
    /\ lease \subseteq Clients /\ capture \subseteq Clients /\ renewal \subseteq Clients
    /\ neigh \in [Macs -> Macs \cup {None}] /\ NetworkOK
    /\ rows \in [Macs -> Row]
    /\ \A m \in Macs : RowIsKind(rows[m])
    /\ count \in [Keys -> 0 .. Threshold]
    /\ caller \in [Callers -> Caller]
    /\ admin \in [pc : {"idle", "write"}, dev : Macs \cup {None}]
    /\ sightings \in [Keys -> 0 .. Threshold]

\* w writes the row of m in this step.
Writes(w, m) == caller[w].pc = "write" /\ caller[w].dev = m /\ caller'[w] # caller[w]

\* Trust in a proxy identity ends only by a positive observation, not by the
\* absence of evidence, however often it is reconciled and across restarts;
\* except by a write whose row was read before it was trusted.
TrustKept ==
    [][ \A m \in Macs :
          Trusted(rows[m]) /\ ~Trusted(rows'[m]) =>
              \E w \in Callers :
                  /\ Writes(w, m)
                  /\ Positive(caller[w].seen[m]) \/ ~Trusted(caller[w].existing) ]_vars

\* Nobody is confirmed without a capture, accepted without the administrator,
\* or put up for acceptance before Threshold sightings of the proxy; except
\* that a write may bring back what its run has read.
EvidencePrecedesTrust ==
    [][ \A m \in Macs :
          rows'[m].source # rows[m].source =>
              \/ /\ rows'[m].source = "DHCP_CONFIRMED_PROXY"
                 /\ \E w \in Callers :
                       Writes(w, m) /\ rows'[m].source \in
                           {caller[w].seen[m].source, caller[w].first.source,
                            caller[w].existing.source}
              \/ /\ rows'[m].source = "PROXY_ACCEPTED_BY_ADMIN"
                 /\ \/ admin.pc = "write" /\ admin.dev = m
                    \/ \E w \in Callers :
                          Writes(w, m) /\ rows'[m].source \in
                              {caller[w].first.source, caller[w].existing.source}
              \/ /\ rows'[m].source = "PROXY_UNCONFIRMED"
                 /\ sightings[<<rows'[m].proxy, m>>] = Threshold
              \/ rows'[m].source \in {"DHCP", "STATIC_ARP"} ]_vars

\* An access point that has a row, because it was seen before the client behind
\* it or in a race with it, is not enforceable any more as long as the client
\* stays behind it.
AccessPointsDemoted ==
    \A c \in Clients, a \in AccessPoints :
        <>[](c \in lease /\ neigh[c] = a /\ c \notin renewal) => <>[](~rows[a].validated)

\* Refuted: IdentityStateReconciler.ts:24-26, "Absence of fresh passive evidence
\* must never silently downgrade it.  Only a new positive identity observation
\* may replace the trusted state."
AcceptanceSurvives ==
    [][ \A m \in Macs :
          Trusted(rows[m]) /\ ~Trusted(rows'[m]) =>
              \E w \in Callers : Writes(w, m) /\ Positive(caller[w].seen[m]) ]_vars

\* Refuted: PrismaDeviceRepository.ts:16, "Refusing to create or persist proxy
\* MAC as a device identity".
ProxyIsNoDevice ==
    [][ \A a \in AccessPoints :
          rows[a] = NoRow /\ rows'[a] # NoRow => a \notin StoredProxies ]_vars
=============================================================================
