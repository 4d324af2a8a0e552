--------------------------- MODULE IdentityProofs ---------------------------
(***************************************************************************)
(* For any clients, access points and callers: the types of Identity, that *)
(* every row is one of the kinds enforcement knows, that trust is kept but *)
(* for the write of a row that was read before it was trusted, and that no *)
(* trust, nor an offer for acceptance, comes without its evidence.         *)
(***************************************************************************)
EXTENDS Identity, FiniteSetTheorems, TLAPS

\* A row as it may be stored for m, or observed of m: access points are never
\* more than static devices, so demoting them takes no trust away.
GoodRow(m, row) ==
    /\ row \in Row
    /\ RowIsKind(row)
    /\ m \in AccessPoints => row.source \in {"none", "STATIC_ARP"}

\* What a run holds.  Reconciling keeps two facts: a result that is positive
\* without being trusted was observed so, and trust that a row had when it was
\* read is given up for a positive observation only.
Working == {"reread", "check", "write", "demote"}

CallerInv(cl) ==
    /\ \A m \in Macs : GoodRow(m, cl.seen[m])
    /\ cl.pc \in Working =>
          /\ cl.dev \in Macs
          /\ GoodRow(cl.dev, cl.first) /\ GoodRow(cl.dev, cl.existing)
          /\ GoodRow(cl.dev, cl.next)
    /\ cl.pc = "reread" =>
          (Positive(cl.next) /\ ~Trusted(cl.next) => Positive(cl.seen[cl.dev]))
    /\ cl.pc \in {"check", "write"} =>
          (Trusted(cl.existing) /\ ~Trusted(cl.next) => Positive(cl.seen[cl.dev]))
    /\ cl.pc = "demote" => cl.seen[cl.dev].proxy \in AccessPoints

\* The invariant, a part for each group of variables.
NetworkTypes ==
    /\ lease \subseteq Clients /\ capture \subseteq Clients /\ renewal \subseteq Clients
    /\ neigh \in [Macs -> Macs \cup {None}] /\ NetworkOK

RowsInv == rows \in [Macs -> Row] /\ \A m \in Macs : GoodRow(m, rows[m])

CountTypes ==
    count \in [Keys -> 0 .. Threshold] /\ sightings \in [Keys -> 0 .. Threshold]

CallersInv ==
    caller \in [Callers -> Caller] /\ \A w \in Callers : CallerInv(caller[w])

AdminInv ==
    /\ admin \in [pc : {"idle", "write"}, dev : Macs \cup {None}]
    /\ admin.pc = "write" => admin.dev \in Macs \ AccessPoints

IInv == NetworkTypes /\ RowsInv /\ CountTypes /\ CallersInv /\ AdminInv

-----------------------------------------------------------------------------
LEMMA NoRowGood == ASSUME NEW m PROVE GoodRow(m, NoRow)
  BY DEF GoodRow, NoRow, Row, RowIsKind, Trusted

LEMMA IdleGood == Idle \in Caller /\ CallerInv(Idle)
  <1>1. Idle \in Caller
    BY NoRowGood DEF Idle, Caller, CallerPCs, GoodRow
  <1>2. CallerInv(Idle)
    BY NoRowGood DEF Idle, CallerInv, Working
  <1> QED BY <1>1, <1>2

\* Reconciling two rows of m gives a row of m.
LEMMA ReconcileGood ==
    ASSUME NEW m, NEW existing, NEW observed,
           GoodRow(m, existing), GoodRow(m, observed)
    PROVE  GoodRow(m, ReconcileIdentity(existing, observed))
  <1> DEFINE kept == [observed EXCEPT !.source = existing.source,
                                      !.validated = existing.validated,
                                      !.proxy = IF @ # None THEN @ ELSE existing.proxy]
  <1>1. CASE Trusted(existing) /\ ~Positive(observed)
    <2>1. ReconcileIdentity(existing, observed) = kept
      BY <1>1 DEF ReconcileIdentity
    <2>2. ~observed.visible /\ existing.validated
      BY <1>1 DEF GoodRow, RowIsKind, Trusted, Positive, Row
    <2>3. kept \in Row
      BY DEF GoodRow, Row
    <2>4. /\ kept.source = existing.source /\ kept.validated = existing.validated
          /\ kept.visible = observed.visible
      BY DEF GoodRow, Row
    <2> HIDE DEF kept
    <2> QED BY <1>1, <2>1, <2>2, <2>3, <2>4 DEF GoodRow, RowIsKind, Trusted
  <1>2. CASE ~(Trusted(existing) /\ ~Positive(observed))
    <2>1. ~(/\ existing.validated /\ ~Positive(observed)
            /\ existing.proxy # None /\ existing.proxy = observed.proxy)
      BY <1>2 DEF GoodRow, RowIsKind
    <2> QED BY <1>2, <2>1 DEF ReconcileIdentity
  <1> QED BY <1>1, <1>2

\* What it does to trust.
LEMMA ReconcileTrust ==
    ASSUME NEW m, NEW existing, NEW observed,
           GoodRow(m, existing), GoodRow(m, observed)
    PROVE  LET next == ReconcileIdentity(existing, observed)
           IN  /\ Positive(next) /\ ~Trusted(next) => Positive(observed)
               /\ Trusted(existing) /\ ~Trusted(next) => Positive(observed) /\ next = observed
  <1>1. CASE Trusted(existing) /\ ~Positive(observed)
    <2>1. ReconcileIdentity(existing, observed).source = existing.source
      BY <1>1 DEF ReconcileIdentity, GoodRow, Row
    <2> QED BY <1>1, <2>1 DEF Trusted
  <1>2. CASE ~(Trusted(existing) /\ ~Positive(observed))
    <2>1. ~(/\ existing.validated /\ ~Positive(observed)
            /\ existing.proxy # None /\ existing.proxy = observed.proxy)
      BY <1>2 DEF GoodRow, RowIsKind
    <2>2. ReconcileIdentity(existing, observed) = observed
      BY <1>2, <2>1 DEF ReconcileIdentity
    <2> QED BY <1>2, <2>2
  <1> QED BY <1>1, <1>2

\* The validator's observations are rows of the devices they are about.
LEMMA ValidateGood ==
    ASSUME NetworkTypes, NEW m \in Macs
    PROVE  GoodRow(m, Validate(m)) /\ KeyOf(m) \in Keys \cup {NoKey}
  <1>1. CASE m \in lease
    <2>1. m \in Clients /\ m \notin AccessPoints
      BY <1>1, IdentityAssumption DEF NetworkTypes
    <2>2. neigh[m] \in AccessPoints \cup {m, None} /\ neigh[m] \in Macs \cup {None}
      BY DEF NetworkTypes, NetworkOK
    <2>3. GoodRow(m, LeaseIdentity(m))
      BY <2>1, <2>2 DEF LeaseIdentity, Direct, Hidden, GoodRow, Row, Sources, RowIsKind, Trusted
    <2> QED BY <1>1, <2>1, <2>2, <2>3 DEF Validate, KeyOf, Keys, StaticAt
  <1>2. CASE m \notin lease
    <2>1. GoodRow(m, Direct("STATIC_ARP"))
      BY DEF Direct, GoodRow, Row, Sources, RowIsKind, Trusted
    <2>2. KeyOf(m) \in Keys \cup {NoKey}
      BY <1>2 DEF KeyOf, StaticAt, Keys
    <2> QED BY <1>2, <2>1, <2>2, NoRowGood DEF Validate
  <1> QED BY <1>1, <1>2

LEMMA CountedType ==
    ASSUME count \in [Keys -> 0 .. Threshold], NEW keys, NEW restarted
    PROVE  Counted(keys, restarted) \in [Keys -> 0 .. Threshold]
  BY IdentityAssumption DEF Counted, Least

LEMMA SightedType ==
    ASSUME sightings \in [Keys -> 0 .. Threshold], NEW keys
    PROVE  Sighted(keys) \in [Keys -> 0 .. Threshold]
  BY IdentityAssumption DEF Sighted, Least

LEMMA ObservedKeysType == ASSUME NetworkTypes PROVE ObservedKeys \subseteq Keys
  BY DEF ObservedKeys, Keys, NetworkTypes

-----------------------------------------------------------------------------
LEMMA TypesOfInv == IInv => IdentityTypeOK
  BY DEF IInv, NetworkTypes, RowsInv, CountTypes, CallersInv, AdminInv, IdentityTypeOK, GoodRow

\* A run that goes on with a record that is sound leaves the runs sound.
LEMMA CallerUpdate ==
    ASSUME CallersInv, NEW w \in Callers, NEW cl \in Caller, CallerInv(cl),
           caller' = [caller EXCEPT ![w] = cl]
    PROVE  CallersInv'
  BY DEF CallersInv

LEMMA InitInv == Init => IInv
  <1> SUFFICES ASSUME Init PROVE IInv
    OBVIOUS
  <1>1. NetworkTypes
    BY DEF Init, NetworkTypes
  <1>2. RowsInv
    BY NoRowGood DEF Init, RowsInv, GoodRow
  <1>3. CountTypes
    BY IdentityAssumption DEF Init, CountTypes
  <1>4. CallersInv
    BY IdleGood DEF Init, CallersInv
  <1>5. AdminInv
    BY DEF Init, AdminInv, AdminIdle
  <1> QED BY <1>1, <1>2, <1>3, <1>4, <1>5 DEF IInv

-----------------------------------------------------------------------------
\* One lemma per group of steps.

LEMMA NetworkStepInv == ASSUME IInv, NetworkStep PROVE IInv'
  <1>1. UNCHANGED <<rows, count, caller, admin, sightings>>
    BY DEF NetworkStep, LeaseChange, CaptureChange, RenewalChange, NeighborChange, NetworkFrame
  <1>2. RowsInv' /\ CountTypes' /\ CallersInv' /\ AdminInv'
    BY <1>1 DEF IInv, RowsInv, CountTypes, CallersInv, AdminInv
  <1>3. NetworkTypes'
    <2>1. CASE \E c \in Clients : LeaseChange(c) \/ CaptureChange(c) \/ RenewalChange(c)
      BY <2>1 DEF IInv, NetworkTypes, NetworkOK, LeaseChange, CaptureChange, RenewalChange
    <2>2. CASE \E o \in Macs, m \in Macs \cup {None} : NeighborChange(o, m)
      BY <2>2 DEF IInv, NetworkTypes, NetworkOK, NeighborChange
    <2> QED BY <2>1, <2>2 DEF NetworkStep
  <1> QED BY <1>2, <1>3 DEF IInv

LEMMA RestartInv == ASSUME IInv, Restart PROVE IInv'
  <1>1. NetworkTypes'
    BY DEF IInv, NetworkTypes, NetworkOK, Restart
  <1>2. RowsInv' /\ CountTypes'
    BY DEF IInv, RowsInv, CountTypes, Restart
  <1>3. CallersInv'
    BY IdleGood DEF CallersInv, Restart
  <1>4. AdminInv'
    BY DEF AdminInv, AdminIdle, Restart
  <1> QED BY <1>1, <1>2, <1>3, <1>4 DEF IInv

LEMMA AdminStepInv == ASSUME IInv, AdminStep PROVE IInv'
  <1>1. NetworkTypes' /\ CountTypes' /\ CallersInv'
    BY DEF IInv, NetworkTypes, NetworkOK, CountTypes, CallersInv, AdminStep, AcceptRead,
           AcceptWrite, network
  <1>2. CASE \E m \in Macs : AcceptRead(m)
    <2>1. RowsInv'
      BY <1>2 DEF IInv, RowsInv, AcceptRead
    <2>2. AdminInv'
      BY <1>2 DEF IInv, RowsInv, GoodRow, AdminInv, AcceptRead
    <2> QED BY <1>1, <2>1, <2>2 DEF IInv
  <1>3. CASE AcceptWrite
    <2> DEFINE m == admin.dev
               row == [rows[m] EXCEPT !.source = "PROXY_ACCEPTED_BY_ADMIN",
                                      !.validated = TRUE, !.visible = FALSE]
    <2>1. m \in Macs /\ m \notin AccessPoints
      BY <1>3 DEF IInv, AdminInv, AcceptWrite
    <2>2. rows' = [rows EXCEPT ![m] = row]
      BY <1>3, <2>1 DEF IInv, RowsInv, AcceptWrite
    <2>3. GoodRow(m, row)
      <3>1. rows[m] \in Row
        BY <2>1 DEF IInv, RowsInv
      <3>2. row \in Row
        BY <3>1 DEF Row, Sources
      <3>3. /\ row.source = "PROXY_ACCEPTED_BY_ADMIN" /\ row.validated = TRUE
            /\ row.visible = FALSE
        BY <3>1 DEF Row
      <3> QED BY <2>1, <3>2, <3>3 DEF GoodRow, RowIsKind, Trusted
    <2>4. RowsInv'
      BY <2>1, <2>2, <2>3 DEF IInv, RowsInv, GoodRow
    <2>5. AdminInv'
      BY <1>3 DEF AdminInv, AcceptWrite, AdminIdle
    <2> QED BY <1>1, <2>4, <2>5 DEF IInv
  <1> QED BY <1>2, <1>3 DEF AdminStep

\* A caller that is told of an overlap holds what it held.
LEMMA OverlapInv ==
    ASSUME CallersInv, NEW except
    PROVE  /\ Overlap(except) \in [Callers -> Caller]
           /\ \A w \in Callers : CallerInv(Overlap(except)[w])
  <1> SUFFICES ASSUME NEW w \in Callers
               PROVE  Overlap(except)[w] \in Caller /\ CallerInv(Overlap(except)[w])
    BY DEF Overlap
  <1> DEFINE cl == caller[w]
             told == [cl EXCEPT !.overlapped = TRUE]
  <1>1. cl \in Caller /\ CallerInv(cl)
    BY DEF CallersInv
  <1>2. told \in Caller
    BY <1>1 DEF Caller
  <1>3. /\ told.pc = cl.pc /\ told.seen = cl.seen /\ told.dev = cl.dev
        /\ told.first = cl.first /\ told.existing = cl.existing /\ told.next = cl.next
    BY <1>1 DEF Caller
  <1>4. CallerInv(told)
    BY <1>1, <1>3 DEF CallerInv
  <1> QED BY <1>1, <1>2, <1>4 DEF Overlap

LEMMA OtherDiscoveryInv == ASSUME IInv, OtherDiscovery PROVE IInv'
  <1>1. NetworkTypes' /\ RowsInv' /\ AdminInv'
    BY DEF IInv, NetworkTypes, NetworkOK, RowsInv, AdminInv, OtherDiscovery, network
  <1>2. CountTypes'
    BY CountedType, SightedType DEF IInv, CountTypes, OtherDiscovery
  <1>3. CallersInv'
    BY OverlapInv DEF IInv, CallersInv, OtherDiscovery
  <1> QED BY <1>1, <1>2, <1>3 DEF IInv

LEMMA DiscoverInv == ASSUME IInv, NEW w \in Callers, Discover(w) PROVE IInv'
  <1> DEFINE cl == [Idle EXCEPT !.pc = "count", !.seen = [m \in Macs |-> Validate(m)],
                       !.keys = ObservedKeys, !.keyOf = [m \in Macs |-> KeyOf(m)],
                       !.known = IF w = Sync THEN {} ELSE StoredProxies]
  <1>1. NetworkTypes' /\ RowsInv' /\ AdminInv'
    BY DEF IInv, NetworkTypes, NetworkOK, RowsInv, AdminInv, Discover, network
  <1>2. CountTypes'
    BY SightedType DEF IInv, CountTypes, Discover
  <1>3. \A m \in Macs : GoodRow(m, Validate(m)) /\ KeyOf(m) \in Keys \cup {NoKey}
    BY ValidateGood DEF IInv
  <1>4. StoredProxies \subseteq Macs
    BY DEF StoredProxies, IInv, RowsInv, Row, Macs
  <1>5. ObservedKeys \subseteq Keys
    BY ObservedKeysType DEF IInv
  <1>6. cl \in Caller
    BY <1>3, <1>4, <1>5, IdleGood DEF Caller, CallerPCs, GoodRow
  <1>7. CallerInv(cl)
    <2>1. cl.pc = "count" /\ cl.seen = [m \in Macs |-> Validate(m)]
      BY DEF Idle
    <2> QED BY <1>3, <2>1 DEF CallerInv, Working
  <1>8. caller' = [caller EXCEPT ![w] = cl]
    BY DEF Discover
  <1>9. CallersInv'
    BY <1>6, <1>7, <1>8, CallerUpdate DEF IInv
  <1> QED BY <1>1, <1>2, <1>9 DEF IInv

\* A run that is in its loop.
LEMMA LoopGood ==
    ASSUME NEW seen \in [Macs -> Row], \A m \in Macs : GoodRow(m, seen[m]),
           NEW todo \in SUBSET Macs
    PROVE  LET cl == [Idle EXCEPT !.pc = "next", !.seen = seen, !.todo = todo]
           IN  cl \in Caller /\ CallerInv(cl)
  BY IdleGood DEF Caller, CallerPCs, Idle, CallerInv, Working

LEMMA CountInv == ASSUME IInv, NEW w \in Callers, Count(w) PROVE IInv'
  <1> DEFINE old == caller[w]
             found == Debounced(old.seen, old.keyOf, count')
             known == IF w = Sync THEN StoredProxies ELSE old.known
             todo == {m \in Macs : found[m] # NoRow} \ known
             cl == [Idle EXCEPT !.pc = "next", !.seen = found, !.todo = todo]
  <1>1. NetworkTypes' /\ RowsInv' /\ AdminInv'
    BY DEF IInv, NetworkTypes, NetworkOK, RowsInv, AdminInv, Count, network
  <1>2. CountTypes'
    BY CountedType DEF IInv, CountTypes, Count
  <1>3. \A m \in Macs : GoodRow(m, old.seen[m])
    BY DEF IInv, CallersInv, CallerInv
  <1>4. \A m \in Macs : found[m] \in {NoRow, old.seen[m]}
    BY DEF Debounced
  <1>5. found \in [Macs -> Row] /\ \A m \in Macs : GoodRow(m, found[m])
    BY <1>3, <1>4, NoRowGood DEF GoodRow, Debounced
  <1>6. todo \in SUBSET Macs
    OBVIOUS
  <1>7. cl \in Caller /\ CallerInv(cl)
    <2> HIDE DEF found, todo
    <2> QED BY <1>5, <1>6, LoopGood
  <1>8. caller' = [Overlap(w) EXCEPT ![w] = cl]
    BY DEF Count
  <1>9. CallersInv'
    <2> HIDE DEF cl
    <2> QED BY <1>7, <1>8, OverlapInv DEF IInv, CallersInv
  <1> QED BY <1>1, <1>2, <1>9 DEF IInv

-----------------------------------------------------------------------------
\* The steps of the loop change the rows and their own record only.
LoopStep(w) ==
    \/ (\E m \in Macs : Read(w, m)) \/ Reread(w) \/ Check(w) \/ Refused(w)
    \/ Write(w) \/ Demote(w) \/ Finish(w) \/ CallerFails(w)

LEMMA LoopFrame ==
    ASSUME IInv, NEW w \in Callers, LoopStep(w)
    PROVE  NetworkTypes' /\ CountTypes' /\ AdminInv'
  <1>1. Frame(w)
    BY DEF LoopStep, Read, Reread, Check, Refused, Write, Demote, Finish, CallerFails
  <1> QED BY <1>1 DEF Frame, network, IInv, NetworkTypes, NetworkOK, CountTypes, AdminInv

\* Going on after a device, giving it up or the run, and failing.
LEMMA AdvanceInv ==
    ASSUME CallersInv, NEW w \in Callers,
           Advance(w) \/ GiveUp(w) \/ caller' = [caller EXCEPT ![w] = Idle]
    PROVE  CallersInv'
  <1> DEFINE cl == [Idle EXCEPT !.pc = "next", !.seen = caller[w].seen, !.todo = caller[w].todo]
  <1>1. cl \in Caller /\ CallerInv(cl)
    BY LoopGood DEF CallersInv, Caller, CallerInv
  <1>2. caller' = [caller EXCEPT ![w] = cl] \/ caller' = [caller EXCEPT ![w] = Idle]
    BY DEF Advance, GiveUp
  <1> HIDE DEF cl
  <1> QED BY <1>1, <1>2, IdleGood, CallerUpdate

LEMMA ReadInv ==
    ASSUME RowsInv, CallersInv, NEW w \in Callers, NEW m \in Macs, Read(w, m)
    PROVE  RowsInv' /\ CallersInv'
  <1> DEFINE old == caller[w]
             next == ReconcileIdentity(rows[m], old.seen[m])
             cl == [Idle EXCEPT !.pc = "reread", !.seen = old.seen,
                                !.todo = old.todo \ {m}, !.dev = m,
                                !.first = rows[m], !.next = next]
  <1>1. old \in Caller /\ CallerInv(old) /\ old.pc = "next"
    BY DEF CallersInv, Read
  <1>2. GoodRow(m, rows[m]) /\ GoodRow(m, old.seen[m])
    BY <1>1 DEF RowsInv, CallerInv
  <1>3. GoodRow(m, next)
    BY <1>2, ReconcileGood
  <1>4. Positive(next) /\ ~Trusted(next) => Positive(old.seen[m])
    BY <1>2, ReconcileTrust
  <1>5. cl \in Caller
    <2> HIDE DEF next
    <2> QED BY <1>1, <1>2, <1>3, IdleGood DEF Caller, CallerPCs, GoodRow
  <1>6. /\ cl.pc = "reread" /\ cl.dev = m /\ cl.seen = old.seen
        /\ cl.first = rows[m] /\ cl.existing = NoRow /\ cl.next = next
    BY DEF Idle
  <1>7. caller' = [caller EXCEPT ![w] = cl]
    BY DEF Read
  <1> HIDE DEF next, cl
  <1>8. CallerInv(cl)
    BY <1>1, <1>2, <1>3, <1>4, <1>6, NoRowGood DEF CallerInv
  <1>9. CallersInv'
    BY <1>5, <1>7, <1>8, CallerUpdate
  <1> QED BY <1>9 DEF Read, RowsInv

LEMMA RereadInv ==
    ASSUME RowsInv, CallersInv, NEW w \in Callers, Reread(w)
    PROVE  RowsInv' /\ CallersInv'
  <1> DEFINE old == caller[w]
             m == old.dev
             row == rows[m]
             next == ReconcileIdentity(row, old.next)
             cl == [old EXCEPT !.pc = "check", !.existing = row, !.next = next]
  <1>1. old \in Caller /\ CallerInv(old) /\ old.pc = "reread"
    BY DEF CallersInv, Reread
  <1>2. m \in Macs /\ GoodRow(m, row) /\ GoodRow(m, old.first) /\ GoodRow(m, old.next)
    BY <1>1 DEF RowsInv, CallerInv, Working
  <1>3. GoodRow(m, next)
    BY <1>2, ReconcileGood
  <1>4. Trusted(row) /\ ~Trusted(next) => Positive(old.next) /\ next = old.next
    BY <1>2, ReconcileTrust
  <1>5. Trusted(row) /\ ~Trusted(next) => Positive(old.seen[m])
    BY <1>1, <1>4 DEF CallerInv
  <1>6. cl \in Caller
    <2> HIDE DEF next, row
    <2> QED BY <1>1, <1>2, <1>3 DEF Caller, CallerPCs, GoodRow
  <1>7. /\ cl.pc = "check" /\ cl.dev = m /\ cl.seen = old.seen
        /\ cl.first = old.first /\ cl.existing = row /\ cl.next = next
    BY <1>1 DEF Caller
  <1>8. caller' = [caller EXCEPT ![w] = cl]
    BY DEF Reread
  <1> HIDE DEF next, row, cl
  <1>9. CallerInv(cl)
    BY <1>1, <1>2, <1>3, <1>5, <1>7 DEF CallerInv
  <1>10. CallersInv'
    BY <1>6, <1>8, <1>9, CallerUpdate
  <1> QED BY <1>10 DEF Reread, RowsInv

LEMMA CheckInv ==
    ASSUME RowsInv, CallersInv, NEW w \in Callers, Check(w)
    PROVE  RowsInv' /\ CallersInv'
  <1> DEFINE old == caller[w]
             cl == [old EXCEPT !.pc = "write"]
  <1>1. old \in Caller /\ CallerInv(old) /\ old.pc = "check"
    BY DEF CallersInv, Check
  <1>2. cl \in Caller
    BY <1>1 DEF Caller, CallerPCs
  <1>3. /\ cl.pc = "write" /\ cl.dev = old.dev /\ cl.seen = old.seen
        /\ cl.first = old.first /\ cl.existing = old.existing /\ cl.next = old.next
    BY <1>1 DEF Caller
  <1>4. CallerInv(cl)
    BY <1>1, <1>3 DEF CallerInv, Working
  <1>5. caller' = [caller EXCEPT ![w] = cl]
    BY DEF Check, CallersInv
  <1>6. CallersInv'
    BY <1>2, <1>4, <1>5, CallerUpdate
  <1> QED BY <1>6 DEF Check, RowsInv

LEMMA WriteInv ==
    ASSUME RowsInv, CallersInv, NEW w \in Callers, Write(w)
    PROVE  RowsInv' /\ CallersInv'
  <1> DEFINE old == caller[w]
             m == old.dev
             cl == [old EXCEPT !.pc = "demote"]
  <1>1. old \in Caller /\ CallerInv(old) /\ old.pc = "write"
    BY DEF CallersInv, Write
  <1>2. m \in Macs /\ GoodRow(m, old.next)
    BY <1>1 DEF CallerInv, Working
  <1>3. RowsInv'
    BY <1>2 DEF RowsInv, Write, GoodRow
  <1>4. CASE old.seen[m].proxy # None /\ caller' = [caller EXCEPT ![w].pc = "demote"]
    <2>1. cl \in Caller
      BY <1>1 DEF Caller, CallerPCs
    <2>2. /\ cl.pc = "demote" /\ cl.dev = m /\ cl.seen = old.seen
          /\ cl.first = old.first /\ cl.existing = old.existing /\ cl.next = old.next
      BY <1>1 DEF Caller
    <2>3. old.seen[m].proxy \in AccessPoints
      BY <1>1, <1>2, <1>4 DEF CallerInv, GoodRow, Row
    <2>4. CallerInv(cl)
      BY <1>1, <2>2, <2>3 DEF CallerInv, Working
    <2>5. caller' = [caller EXCEPT ![w] = cl]
      BY <1>4 DEF CallersInv
    <2> QED BY <1>3, <2>1, <2>4, <2>5, CallerUpdate
  <1>5. CASE Advance(w)
    BY <1>3, <1>5, AdvanceInv
  <1> QED BY <1>4, <1>5 DEF Write

LEMMA DemoteInv ==
    ASSUME RowsInv, CallersInv, NEW w \in Callers, Demote(w)
    PROVE  RowsInv' /\ CallersInv' /\ \A m \in Macs : Trusted(rows[m]) => rows'[m] = rows[m]
  <1> DEFINE ap == caller[w].seen[caller[w].dev].proxy
             row == [rows[ap] EXCEPT !.validated = FALSE, !.visible = FALSE]
  <1>1. ap \in AccessPoints /\ ap \in Macs
    BY DEF CallersInv, CallerInv, Demote, Macs
  <1>2. GoodRow(ap, rows[ap])
    BY <1>1 DEF RowsInv
  <1>3. GoodRow(ap, row)
    BY <1>1, <1>2 DEF GoodRow, Row, RowIsKind, Trusted
  <1>4. rows' = rows \/ rows' = [rows EXCEPT ![ap] = row]
    BY <1>1 DEF Demote, RowsInv
  <1>5. ~Trusted(rows[ap])
    BY <1>1, <1>2 DEF GoodRow, Trusted
  <1> HIDE DEF row, ap
  <1>6. RowsInv'
    BY <1>1, <1>3, <1>4 DEF RowsInv, GoodRow
  <1>7. CallersInv'
    BY AdvanceInv DEF Demote
  <1> QED BY <1>1, <1>4, <1>5, <1>6, <1>7 DEF RowsInv

LEMMA LoopStepInv ==
    ASSUME IInv, NEW w \in Callers, LoopStep(w)
    PROVE  IInv'
  <1>1. NetworkTypes' /\ CountTypes' /\ AdminInv'
    BY LoopFrame
  <1>2. RowsInv' /\ CallersInv'
    <2> USE DEF IInv
    <2>1. CASE \E m \in Macs : Read(w, m)
      BY <2>1, ReadInv
    <2>2. CASE Reread(w)
      BY <2>2, RereadInv
    <2>3. CASE Check(w)
      BY <2>3, CheckInv
    <2>4. CASE Refused(w)
      BY <2>4, AdvanceInv DEF Refused, RowsInv
    <2>5. CASE Write(w)
      BY <2>5, WriteInv
    <2>6. CASE Demote(w)
      BY <2>6, DemoteInv
    <2>7. CASE Finish(w)
      BY <2>7, AdvanceInv DEF Finish, RowsInv
    <2>8. CASE CallerFails(w)
      BY <2>8, AdvanceInv DEF CallerFails, RowsInv
    <2> QED BY <2>1, <2>2, <2>3, <2>4, <2>5, <2>6, <2>7, <2>8 DEF LoopStep
  <1> QED BY <1>1, <1>2 DEF IInv

\* Every step is one of these.
LEMMA NextCases ==
    ASSUME Next
    PROVE  \/ NetworkStep \/ OtherDiscovery \/ AdminStep \/ Restart
           \/ \E w \in Callers : Discover(w) \/ Count(w) \/ LoopStep(w)
  BY DEF Next, CallerStep, Continues, LoopStep

LEMMA StepInv == IInv /\ [Next]_vars => IInv'
  <1> SUFFICES ASSUME IInv, [Next]_vars PROVE IInv'
    OBVIOUS
  <1>1. CASE Next
    BY <1>1, NextCases, NetworkStepInv, OtherDiscoveryInv, AdminStepInv, RestartInv,
       DiscoverInv, CountInv, LoopStepInv
  <1>2. CASE UNCHANGED vars
    BY <1>2 DEF vars, network, IInv, NetworkTypes, NetworkOK, RowsInv, CountTypes,
                CallersInv, AdminInv
  <1> QED BY <1>1, <1>2

\* The invariant holds in every behaviour.
THEOREM Invariance == Spec => []IInv
  BY InitInv, StepInv, PTL DEF Spec

\* IdentityTypeOK: the types, and every row that discovery, the inventory and
\* the administrator leave behind is of a kind that enforcement knows.
THEOREM IdentityTypes == Spec => []IdentityTypeOK
  BY Invariance, TypesOfInv, PTL

-----------------------------------------------------------------------------
\* TrustKept, of one step.
TrustKeptStep ==
    \A m \in Macs :
        Trusted(rows[m]) /\ ~Trusted(rows'[m]) =>
            \E w \in Callers :
                /\ Writes(w, m)
                /\ Positive(caller[w].seen[m]) \/ ~Trusted(caller[w].existing)

LEMMA WriteKeepsTrust ==
    ASSUME RowsInv, CallersInv, NEW w \in Callers, Write(w)
    PROVE  TrustKeptStep
  <1> DEFINE old == caller[w]
  <1>1. old \in Caller /\ CallerInv(old) /\ old.pc = "write" /\ old.dev \in Macs
    BY DEF CallersInv, CallerInv, Working, Write
  <1>2. caller'[w].pc \in {"demote", "next"}
    <2>1. CASE caller' = [caller EXCEPT ![w].pc = "demote"]
      BY <2>1, <1>1 DEF CallersInv, Caller
    <2>2. CASE Advance(w)
      BY <2>2 DEF Advance, CallersInv, Idle
    <2> QED BY <2>1, <2>2 DEF Write
  <1>3. caller'[w] # old
    BY <1>1, <1>2
  <1> SUFFICES ASSUME NEW m \in Macs, Trusted(rows[m]), ~Trusted(rows'[m])
               PROVE  \E v \in Callers :
                        /\ Writes(v, m)
                        /\ Positive(caller[v].seen[m]) \/ ~Trusted(caller[v].existing)
    BY DEF TrustKeptStep
  <1>4. old.dev = m /\ rows'[m] = old.next
    BY <1>1 DEF Write, RowsInv
  <1>5. Positive(old.seen[m]) \/ ~Trusted(old.existing)
    BY <1>1, <1>4 DEF CallerInv
  <1>6. Writes(w, m)
    BY <1>1, <1>3, <1>4 DEF Writes
  <1> QED BY <1>5, <1>6

LEMMA NextKeepsTrust == IInv /\ [Next]_vars => TrustKeptStep
  <1> SUFFICES ASSUME IInv, [Next]_vars PROVE TrustKeptStep
    OBVIOUS
  <1>1. CASE UNCHANGED rows
    BY <1>1 DEF TrustKeptStep
  <1>2. CASE AdminStep
    <2>1. CASE AcceptWrite
      <3>1. \A m \in Macs : Trusted(rows'[m]) \/ rows'[m] = rows[m]
        BY <2>1 DEF AcceptWrite, IInv, RowsInv, Row, Trusted, AdminInv
      <3> QED BY <3>1 DEF TrustKeptStep
    <2>2. CASE \E m \in Macs : AcceptRead(m)
      BY <2>2, <1>1 DEF AcceptRead
    <2> QED BY <1>2, <2>1, <2>2 DEF AdminStep
  <1>3. ASSUME NEW w \in Callers, Write(w) PROVE TrustKeptStep
    BY <1>3, WriteKeepsTrust DEF IInv
  <1>4. ASSUME NEW w \in Callers, Demote(w) PROVE TrustKeptStep
    BY <1>4, DemoteInv DEF IInv, TrustKeptStep
  <1>5. CASE Next
    <2>1. CASE NetworkStep \/ OtherDiscovery \/ Restart
      BY <2>1, <1>1 DEF NetworkStep, LeaseChange, CaptureChange, RenewalChange,
                        NeighborChange, NetworkFrame, OtherDiscovery, Restart
    <2>2. ASSUME NEW w \in Callers, Discover(w) \/ Count(w) PROVE TrustKeptStep
      BY <2>2, <1>1 DEF Discover, Count
    <2>3. ASSUME NEW w \in Callers, LoopStep(w) PROVE TrustKeptStep
      BY <2>3, <1>1, <1>3, <1>4 DEF LoopStep, Read, Reread, Check, Refused, Finish, CallerFails
    <2> QED BY <1>2, <1>5, <2>1, <2>2, <2>3, NextCases
  <1>6. CASE UNCHANGED vars
    BY <1>1, <1>6 DEF vars
  <1> QED BY <1>5, <1>6

\* TrustKept: whatever is observed, reconciled and written in which order, a
\* trusted proxy identity is given up for a positive observation only, or by a
\* write whose row was read before it was trusted.
THEOREM TrustIsKept == Spec => TrustKept
  <1>1. IInv /\ [Next]_vars => [TrustKeptStep]_vars
    BY NextKeepsTrust
  <1> QED BY <1>1, Invariance, PTL DEF Spec, TrustKept, TrustKeptStep

-----------------------------------------------------------------------------
(* EvidencePrecedesTrust.  Two more facts: no key is counted more often    *)
(* than it was sighted, also when the runs that are about to count it do;  *)
(* and a run's source of what it writes is what it observed or read.       *)

\* The runs that have seen k and not counted it yet.
Counting(k) == {w \in Callers : caller[w].pc = "count" /\ k \in caller[w].keys}

SightedInv ==
    \A k \in AccessPoints \X Clients :
        /\ IsFiniteSet(Counting(k))
        /\ sightings[k] = Threshold \/ count[k] + Cardinality(Counting(k)) =< sightings[k]

\* What a run has seen of m, with s the sightings: once it has counted, what it
\* would put up for acceptance has been sighted often enough.
SeenInv(cl, m, s) ==
    /\ cl.seen[m].source # "PROXY_ACCEPTED_BY_ADMIN"
    /\ cl.seen[m].source = "none" => cl.seen[m] = NoRow
    /\ cl.seen[m].source = "PROXY_UNCONFIRMED" =>
          /\ m \in Clients /\ cl.seen[m].proxy \in AccessPoints
          /\ IF cl.pc = "count" THEN cl.keyOf[m] = <<cl.seen[m].proxy, m>>
                                ELSE s[<<cl.seen[m].proxy, m>>] = Threshold

\* What it is about to write has one of the given sources; what it puts up for
\* acceptance is what it has seen.
NextFrom(cl, sources) ==
    /\ cl.next.source \in sources \ {"none"}
    /\ cl.next.source = "PROXY_UNCONFIRMED" => cl.next = cl.seen[cl.dev]

EvidenceInv(cl, s) ==
    /\ \A m \in Macs : SeenInv(cl, m, s)
    /\ \A m \in cl.todo : cl.seen[m].source # "none"
    /\ cl.pc = "reread" =>
          NextFrom(cl, {cl.seen[cl.dev].source, cl.first.source})
    /\ cl.pc \in {"check", "write"} =>
          NextFrom(cl, {cl.seen[cl.dev].source, cl.first.source, cl.existing.source})

EvidencesInv == \A w \in Callers : EvidenceInv(caller[w], sightings)

LEMMA SightedInit == Init => SightedInv
  <1> SUFFICES ASSUME Init, NEW k \in AccessPoints \X Clients
               PROVE  /\ IsFiniteSet(Counting(k))
                      /\ count[k] + Cardinality(Counting(k)) =< sightings[k]
    BY DEF SightedInv
  <1>1. Counting(k) = {}
    BY DEF Init, Counting, Idle
  <1>2. count[k] = 0 /\ sightings[k] = 0
    BY DEF Init, Keys, Macs
  <1> QED BY <1>1, <1>2, FS_EmptySet

\* Steps that neither count nor sight and start no discovery.
LEMMA SightedFrame ==
    ASSUME IInv, SightedInv, UNCHANGED <<count, sightings>>,
           \A k \in AccessPoints \X Clients : Counting(k)' \subseteq Counting(k)
    PROVE  SightedInv'
  <1> SUFFICES ASSUME NEW k \in AccessPoints \X Clients
               PROVE  /\ IsFiniteSet(Counting(k)')
                      /\ \/ sightings[k] = Threshold
                         \/ count[k] + Cardinality(Counting(k)') =< sightings[k]
    BY DEF SightedInv
  <1>1. count[k] \in Nat /\ sightings[k] \in Nat
    BY IdentityAssumption DEF IInv, CountTypes, Keys, Macs
  <1>2. IsFiniteSet(Counting(k)) /\ Counting(k)' \in SUBSET Counting(k)
    BY DEF SightedInv
  <1>3. /\ IsFiniteSet(Counting(k)')
        /\ Cardinality(Counting(k)') =< Cardinality(Counting(k))
    BY <1>2, FS_Subset
  <1>4. Cardinality(Counting(k)) \in Nat /\ Cardinality(Counting(k)') \in Nat
    BY <1>2, <1>3, FS_CardinalityType
  <1>5. sightings[k] = Threshold \/ count[k] + Cardinality(Counting(k)) =< sightings[k]
    BY DEF SightedInv
  <1> QED BY <1>1, <1>3, <1>4, <1>5

\* One more sighting, and at most one more count or one more run about to.
LEMMA OneMore ==
    ASSUME NEW c \in Nat, NEW n \in Nat, NEW s \in 0 .. Threshold, NEW d \in Nat,
           s = Threshold \/ c + n =< s, d =< c + n + 1
    PROVE  Least(Threshold, s + 1) = Threshold \/ d =< Least(Threshold, s + 1)
  BY IdentityAssumption DEF Least

\* A step of the loop changes one run, which has counted.
LEMMA LoopMoves ==
    ASSUME caller \in [Callers -> Caller], NEW w \in Callers, LoopStep(w)
    PROVE  \E cl : caller' = [caller EXCEPT ![w] = cl] /\ cl.pc # "count"
  <1>a. caller[w] \in Caller
    OBVIOUS
  <1> DEFINE next == [Idle EXCEPT !.pc = "next", !.seen = caller[w].seen, !.todo = caller[w].todo]
  <1>b. Idle.pc # "count" /\ next.pc # "count"
    BY DEF Idle
  <1>1. CASE \E m \in Macs : Read(w, m)
    <2>1. PICK m \in Macs : Read(w, m)
      BY <1>1
    <2> DEFINE cl == [Idle EXCEPT !.pc = "reread", !.seen = caller[w].seen,
                         !.todo = caller[w].todo \ {m}, !.dev = m, !.first = rows[m],
                         !.next = ReconcileIdentity(rows[m], caller[w].seen[m])]
    <2>2. caller' = [caller EXCEPT ![w] = cl]
      BY <2>1 DEF Read
    <2>3. cl.pc # "count"
      BY DEF Idle
    <2> HIDE DEF cl
    <2> QED BY <2>2, <2>3
  <1>2. CASE Reread(w)
    <2> DEFINE cl == [caller[w] EXCEPT !.pc = "check", !.existing = rows[caller[w].dev],
                         !.next = ReconcileIdentity(rows[caller[w].dev], caller[w].next)]
    <2>1. caller' = [caller EXCEPT ![w] = cl]
      BY <1>2 DEF Reread
    <2>2. cl.pc # "count"
      BY <1>a DEF Caller
    <2> HIDE DEF cl
    <2> QED BY <2>1, <2>2
  <1>3. ASSUME NEW pc \in CallerPCs \ {"count"}, caller' = [caller EXCEPT ![w].pc = pc]
        PROVE  \E cl : caller' = [caller EXCEPT ![w] = cl] /\ cl.pc # "count"
    <2> DEFINE cl == [caller[w] EXCEPT !.pc = pc]
    <2>1. caller' = [caller EXCEPT ![w] = cl] /\ cl.pc # "count"
      BY <1>3, <1>a DEF Caller
    <2> QED BY <2>1
  <1>4. CASE Check(w)
    BY <1>3, <1>4 DEF Check, CallerPCs
  <1>5. CASE Advance(w) \/ GiveUp(w) \/ caller' = [caller EXCEPT ![w] = Idle]
    <2>1. caller' = [caller EXCEPT ![w] = next] \/ caller' = [caller EXCEPT ![w] = Idle]
      BY <1>5 DEF Advance, GiveUp
    <2> HIDE DEF next
    <2> QED BY <1>b, <2>1
  <1>6. CASE Write(w)
    BY <1>3, <1>5, <1>6 DEF Write, CallerPCs
  <1>7. CASE Refused(w) \/ Demote(w) \/ Finish(w) \/ CallerFails(w)
    BY <1>5, <1>7 DEF Refused, Demote, Finish, CallerFails
  <1> QED BY <1>1, <1>2, <1>4, <1>6, <1>7 DEF LoopStep

\* Every step keeps SightedInv.
LEMMA SightedStep ==
    ASSUME IInv, SightedInv, [Next]_vars
    PROVE  SightedInv'
  <1>k. AccessPoints \X Clients \subseteq Keys
    BY DEF Keys, Macs
  <1>c. caller \in [Callers -> Caller]
    BY DEF IInv, CallersInv
  <1>n. \A k \in AccessPoints \X Clients :
          /\ count[k] \in Nat /\ sightings[k] \in 0 .. Threshold
          /\ IsFiniteSet(Counting(k)) /\ Cardinality(Counting(k)) \in Nat
          /\ sightings[k] = Threshold \/ count[k] + Cardinality(Counting(k)) =< sightings[k]
    BY <1>k, IdentityAssumption, FS_CardinalityType DEF IInv, CountTypes, SightedInv
  <1>1. CASE NetworkStep \/ AdminStep \/ UNCHANGED vars
    <2>1. UNCHANGED <<count, caller, sightings>>
      BY <1>1 DEF NetworkStep, LeaseChange, CaptureChange, RenewalChange, NeighborChange,
                  NetworkFrame, AdminStep, AcceptRead, AcceptWrite, vars
    <2> QED BY <2>1, SightedFrame DEF Counting
  <1>2. CASE Restart
    <2>1. \A k : Counting(k)' = {}
      BY <1>2 DEF Restart, Counting, Idle
    <2> QED BY <1>2, <2>1, SightedFrame DEF Restart
  <1>3. CASE OtherDiscovery
    <2> SUFFICES ASSUME NEW k \in AccessPoints \X Clients
                 PROVE  /\ IsFiniteSet(Counting(k)')
                        /\ \/ sightings'[k] = Threshold
                           \/ count'[k] + Cardinality(Counting(k)') =< sightings'[k]
      BY DEF SightedInv
    <2>1. \A w \in Callers : /\ caller'[w].pc = caller[w].pc
                             /\ caller'[w].keys = caller[w].keys
      BY <1>3, <1>c DEF OtherDiscovery, Overlap, Caller
    <2>2. Counting(k)' = Counting(k)
      BY <2>1 DEF Counting
    <2>3. CASE k \in ObservedKeys
      <3>1. sightings'[k] = Least(Threshold, sightings[k] + 1)
        BY <1>3, <1>k, <2>3 DEF OtherDiscovery, Sighted
      <3>2. count'[k] = Least(Threshold, count[k] + 1)
        BY <1>3, <1>k, <2>3 DEF OtherDiscovery, Counted
      <3>3. count'[k] \in Nat /\ count'[k] =< count[k] + 1
        BY <1>n, <3>2, IdentityAssumption DEF Least
      <3>4. /\ count'[k] + Cardinality(Counting(k)') \in Nat
            /\ count'[k] + Cardinality(Counting(k)') =< count[k] + Cardinality(Counting(k)) + 1
        BY <1>n, <2>2, <3>3
      <3>5. \/ sightings'[k] = Threshold
            \/ count'[k] + Cardinality(Counting(k)') =< sightings'[k]
        BY <1>n, <3>1, <3>4, OneMore
      <3> QED BY <1>n, <2>2, <3>5
    <2>4. CASE k \notin ObservedKeys
      <3>1. sightings'[k] = sightings[k] /\ count'[k] = 0
        BY <1>3, <1>k, <2>4 DEF OtherDiscovery, Sighted, Counted
      <3> QED BY <1>n, <2>2, <3>1
    <2> QED BY <2>3, <2>4
  <1>4. ASSUME NEW w \in Callers, Discover(w)  PROVE SightedInv'
    <2> SUFFICES ASSUME NEW k \in AccessPoints \X Clients
                 PROVE  /\ IsFiniteSet(Counting(k)')
                        /\ \/ sightings'[k] = Threshold
                           \/ count'[k] + Cardinality(Counting(k)') =< sightings'[k]
      BY DEF SightedInv
    <2>1. caller'[w].pc = "count" /\ caller'[w].keys = ObservedKeys /\ caller[w].pc = "idle"
      BY <1>4, <1>c DEF Discover, Idle
    <2>2. \A v \in Callers \ {w} : caller'[v] = caller[v]
      BY <1>4, <1>c DEF Discover
    <2>3. w \notin Counting(k) /\ count' = count
      BY <1>4, <2>1 DEF Counting, Discover
    <2>4. CASE k \in ObservedKeys
      <3>1. Counting(k)' = Counting(k) \cup {w}
        BY <2>1, <2>2, <2>4 DEF Counting
      <3>2. IsFiniteSet(Counting(k)') /\ Cardinality(Counting(k)') = Cardinality(Counting(k)) + 1
        BY <1>n, <2>3, <3>1, FS_AddElement
      <3>3. sightings'[k] = Least(Threshold, sightings[k] + 1)
        BY <1>4, <1>k, <2>4 DEF Discover, Sighted
      <3>4. /\ count'[k] + Cardinality(Counting(k)') \in Nat
            /\ count'[k] + Cardinality(Counting(k)') =< count[k] + Cardinality(Counting(k)) + 1
        BY <1>n, <2>3, <3>2
      <3>5. \/ sightings'[k] = Threshold
            \/ count'[k] + Cardinality(Counting(k)') =< sightings'[k]
        BY <1>n, <3>3, <3>4, OneMore
      <3> QED BY <3>2, <3>5
    <2>5. CASE k \notin ObservedKeys
      <3>1. Counting(k)' = Counting(k)
        BY <2>1, <2>2, <2>5 DEF Counting
      <3>2. sightings'[k] = sightings[k]
        BY <1>4, <1>k, <2>5 DEF Discover, Sighted
      <3> QED BY <1>n, <2>3, <3>1, <3>2
    <2> QED BY <2>4, <2>5
  <1>5. ASSUME NEW w \in Callers, Count(w)  PROVE SightedInv'
    <2> SUFFICES ASSUME NEW k \in AccessPoints \X Clients
                 PROVE  /\ IsFiniteSet(Counting(k)')
                        /\ \/ sightings'[k] = Threshold
                           \/ count'[k] + Cardinality(Counting(k)') =< sightings'[k]
      BY DEF SightedInv
    <2>1. caller'[w].pc = "next" /\ caller[w].pc = "count" /\ sightings' = sightings
      BY <1>5, <1>c DEF Count, Overlap, Idle
    <2>2. \A v \in Callers \ {w} : /\ caller'[v].pc = caller[v].pc
                                   /\ caller'[v].keys = caller[v].keys
      BY <1>5, <1>c DEF Count, Overlap, Caller
    <2>3. Counting(k)' = Counting(k) \ {w}
      BY <2>1, <2>2 DEF Counting
    <2>4. /\ IsFiniteSet(Counting(k)')
          /\ Cardinality(Counting(k)') = IF w \in Counting(k) THEN Cardinality(Counting(k)) - 1
                                         ELSE Cardinality(Counting(k))
      BY <1>n, <2>3, FS_RemoveElement
    <2>5. Cardinality(Counting(k)') \in Nat
      BY <2>4, FS_CardinalityType
    <2>6. PICK restarted : count' = Counted(caller[w].keys, restarted)
      BY <1>5 DEF Count
    <2>7. CASE w \in Counting(k)
      <3>1. count'[k] \in {1, Least(Threshold, count[k] + 1)}
        BY <1>k, <2>6, <2>7 DEF Counted, Counting
      <3>2. count'[k] \in Nat /\ count'[k] =< count[k] + 1
        BY <1>n, <3>1, IdentityAssumption DEF Least
      <3> QED BY <1>n, <2>1, <2>4, <2>5, <2>7, <3>2
    <2>8. CASE w \notin Counting(k)
      <3>1. count'[k] = 0
        BY <1>k, <2>1, <2>6, <2>8 DEF Counted, Counting
      <3> QED BY <1>n, <2>1, <2>4, <2>5, <2>8, <3>1
    <2> QED BY <2>7, <2>8
  <1>6. ASSUME NEW w \in Callers, LoopStep(w)  PROVE SightedInv'
    <2>1. UNCHANGED <<count, sightings>>
      BY <1>6 DEF LoopStep, Read, Reread, Check, Refused, Write, Demote, Finish, CallerFails, Frame
    <2>2. PICK cl : caller' = [caller EXCEPT ![w] = cl] /\ cl.pc # "count"
      BY <1>6, <1>c, LoopMoves
    <2>3. \A v \in Callers : caller'[v] = caller[v] \/ caller'[v].pc # "count"
      BY <1>c, <2>2
    <2>4. \A k : Counting(k)' \subseteq Counting(k)
      BY <2>3 DEF Counting
    <2> QED BY <2>1, <2>4, SightedFrame
  <1> QED BY <1>1, <1>2, <1>3, <1>4, <1>5, <1>6, NextCases

-----------------------------------------------------------------------------
\* A run that does nothing holds no evidence.
LEMMA EvidenceOfIdle == ASSUME NEW s PROVE EvidenceInv(Idle, s)
  BY DEF EvidenceInv, SeenInv, Idle, NoRow

\* A run that has counted and goes on with the next device, or with none.
LEMMA EvidenceOfLoop ==
    ASSUME NEW s, NEW seen, NEW todo \in SUBSET Macs, NEW old, NEW cl, old.pc # "count",
           old.seen = seen, \A m \in Macs : SeenInv(old, m, s),
           \A m \in todo : seen[m].source # "none",
           cl = [Idle EXCEPT !.pc = "next", !.seen = seen, !.todo = todo]
    PROVE  EvidenceInv(cl, s)
  <1>1. cl.pc = "next" /\ cl.seen = seen /\ cl.todo = todo
    BY DEF Idle
  <1>2. \A m \in Macs : SeenInv(cl, m, s)
    BY <1>1 DEF SeenInv
  <1> QED BY <1>1, <1>2 DEF EvidenceInv

\* Sightings are never taken back.
LEMMA EvidenceLasts ==
    ASSUME NEW s, NEW t, NEW cl, EvidenceInv(cl, s),
           \A k \in Keys : s[k] = Threshold => t[k] = Threshold
    PROVE  EvidenceInv(cl, t)
  <1>1. ASSUME NEW m \in Macs  PROVE SeenInv(cl, m, t)
    <2>1. SeenInv(cl, m, s)
      BY DEF EvidenceInv
    <2>2. cl.seen[m].proxy \in AccessPoints => <<cl.seen[m].proxy, m>> \in Keys
      BY DEF Keys, Macs
    <2> QED BY <2>1, <2>2 DEF SeenInv
  <1> QED BY <1>1 DEF EvidenceInv

\* A run that is told of an overlap.
LEMMA EvidenceOfTold ==
    ASSUME NEW s, NEW cl \in Caller, EvidenceInv(cl, s)
    PROVE  EvidenceInv([cl EXCEPT !.overlapped = TRUE], s)
  <1> DEFINE told == [cl EXCEPT !.overlapped = TRUE]
  <1>1. /\ told.pc = cl.pc /\ told.seen = cl.seen /\ told.keyOf = cl.keyOf /\ told.todo = cl.todo
        /\ told.dev = cl.dev /\ told.first = cl.first /\ told.existing = cl.existing
        /\ told.next = cl.next
    BY DEF Caller
  <1> HIDE DEF told
  <1>2. ASSUME NEW m \in Macs  PROVE SeenInv(told, m, s)
    <2>1. SeenInv(cl, m, s)
      BY DEF EvidenceInv
    <2> QED BY <1>1, <2>1 DEF SeenInv
  <1>3. ASSUME NEW sources, NextFrom(cl, sources)  PROVE NextFrom(told, sources)
    BY <1>1, <1>3 DEF NextFrom
  <1>4. \A m \in told.todo : told.seen[m].source # "none"
    BY <1>1 DEF EvidenceInv
  <1>5. told.pc = "reread" =>
          NextFrom(told, {told.seen[told.dev].source, told.first.source})
    BY <1>1, <1>3 DEF EvidenceInv
  <1>6. told.pc \in {"check", "write"} =>
          NextFrom(told, {told.seen[told.dev].source, told.first.source, told.existing.source})
    BY <1>1, <1>3 DEF EvidenceInv
  <1>7. EvidenceInv(told, s)
    BY <1>2, <1>4, <1>5, <1>6 DEF EvidenceInv
  <1> QED BY <1>7 DEF told

\* One run goes on.
LEMMA EvidenceUpdate ==
    ASSUME CallersInv, EvidencesInv, NEW w \in Callers, NEW cl, EvidenceInv(cl, sightings),
           caller' = [caller EXCEPT ![w] = cl], UNCHANGED sightings
    PROVE  EvidencesInv'
  BY DEF EvidencesInv, CallersInv

LEMMA EvidencesInit == Init => EvidencesInv
  BY EvidenceOfIdle DEF Init, EvidencesInv

\* Least(Threshold, Threshold + 1) is Threshold.
LEMMA SightingsStay ==
    ASSUME NEW keys, \A k \in Keys : sightings[k] \in 0 .. Threshold
    PROVE  \A k \in Keys : sightings[k] = Threshold => Sighted(keys)[k] = Threshold
  BY IdentityAssumption DEF Sighted, Least

\* Reconciling gives what was observed, or the source of a trusted row.
LEMMA ReconcileSource ==
    ASSUME NEW m, NEW existing, NEW observed,
           GoodRow(m, existing), GoodRow(m, observed)
    PROVE  LET next == ReconcileIdentity(existing, observed)
           IN  \/ next = observed
               \/ Trusted(existing) /\ next.source = existing.source
  <1>1. CASE Trusted(existing) /\ ~Positive(observed)
    BY <1>1 DEF ReconcileIdentity, GoodRow, Row
  <1>2. CASE ~(Trusted(existing) /\ ~Positive(observed))
    <2>1. ~(/\ existing.validated /\ ~Positive(observed)
            /\ existing.proxy # None /\ existing.proxy = observed.proxy)
      BY <1>2 DEF GoodRow, RowIsKind
    <2> QED BY <1>2, <2>1 DEF ReconcileIdentity
  <1> QED BY <1>1, <1>2

\* The validator never says "accepted", and offers for acceptance only clients
\* that an access point answers for, under the key that the filter looks up.
LEMMA ValidateEvidence ==
    ASSUME NetworkTypes, NEW m \in Macs
    PROVE  /\ Validate(m).source # "PROXY_ACCEPTED_BY_ADMIN"
           /\ Validate(m).source = "none" => Validate(m) = NoRow
           /\ Validate(m).source = "PROXY_UNCONFIRMED" =>
                 /\ m \in Clients /\ Validate(m).proxy \in AccessPoints
                 /\ KeyOf(m) = <<Validate(m).proxy, m>>
  <1>1. CASE m \in lease
    <2>1. m \in Clients
      BY <1>1 DEF NetworkTypes
    <2>2. neigh[m] \in AccessPoints \cup {m, None}
      BY DEF NetworkTypes, NetworkOK
    <2>3. Validate(m) = LeaseIdentity(m)
      BY <1>1 DEF Validate
    <2>4. neigh[m] # None => KeyOf(m) = <<neigh[m], m>>
      BY <1>1 DEF KeyOf
    <2> QED BY <2>1, <2>2, <2>3, <2>4 DEF LeaseIdentity, Direct, Hidden
  <1>2. CASE m \notin lease
    BY <1>2 DEF Validate, Direct, NoRow
  <1> QED BY <1>1, <1>2

LEMMA EvidenceDiscover ==
    ASSUME IInv, EvidencesInv, NEW w \in Callers, Discover(w)
    PROVE  EvidencesInv'
  <1> DEFINE cl == [Idle EXCEPT !.pc = "count", !.seen = [m \in Macs |-> Validate(m)],
                       !.keys = ObservedKeys, !.keyOf = [m \in Macs |-> KeyOf(m)],
                       !.known = IF w = Sync THEN {} ELSE StoredProxies]
  <1>1. /\ cl.pc = "count" /\ cl.todo = {} /\ cl.seen = [m \in Macs |-> Validate(m)]
        /\ cl.keyOf = [m \in Macs |-> KeyOf(m)]
    BY DEF Idle
  <1>2. caller' = [caller EXCEPT ![w] = cl]
    BY DEF Discover
  <1> HIDE DEF cl
  <1>3. \A m \in Macs : SeenInv(cl, m, sightings')
    BY <1>1, ValidateEvidence DEF SeenInv, IInv
  <1>4. EvidenceInv(cl, sightings')
    BY <1>1, <1>3 DEF EvidenceInv
  <1>5. \A k \in Keys : sightings[k] = Threshold => sightings'[k] = Threshold
    BY SightingsStay DEF Discover, IInv, CountTypes
  <1>6. \A v \in Callers : EvidenceInv(caller[v], sightings')
    BY <1>5, EvidenceLasts DEF EvidencesInv
  <1>7. \A v \in Callers : caller'[v] = caller[v] \/ caller'[v] = cl
    BY <1>2 DEF IInv, CallersInv
  <1> QED BY <1>4, <1>6, <1>7 DEF EvidencesInv

\* Being told of an overlap changes no evidence.
LEMMA EvidenceOverlap ==
    ASSUME CallersInv, NEW s, \A v \in Callers : EvidenceInv(caller[v], s), NEW except
    PROVE  \A v \in Callers : EvidenceInv(Overlap(except)[v], s)
  BY EvidenceOfTold DEF Overlap, CallersInv

LEMMA EvidenceOther ==
    ASSUME IInv, EvidencesInv, OtherDiscovery
    PROVE  EvidencesInv'
  <1>1. \A k \in Keys : sightings[k] = Threshold => sightings'[k] = Threshold
    BY SightingsStay DEF OtherDiscovery, IInv, CountTypes
  <1>2. \A v \in Callers : EvidenceInv(caller[v], sightings')
    BY <1>1, EvidenceLasts DEF EvidencesInv
  <1>3. \A v \in Callers : EvidenceInv(Overlap(None)[v], sightings')
    BY <1>2, EvidenceOverlap DEF IInv
  <1> QED BY <1>3 DEF EvidencesInv, OtherDiscovery

\* What the filter lets through has been counted, and so sighted, often enough.
LEMMA EvidenceCount ==
    ASSUME IInv, EvidencesInv, SightedInv', CountTypes', NEW w \in Callers, Count(w)
    PROVE  EvidencesInv'
  <1> DEFINE old == caller[w]
             found == Debounced(old.seen, old.keyOf, count')
             known == IF w = Sync THEN StoredProxies ELSE old.known
             todo == {m \in Macs : found[m] # NoRow} \ known
             cl == [Idle EXCEPT !.pc = "next", !.seen = found, !.todo = todo]
  <1>1. caller' = [Overlap(w) EXCEPT ![w] = cl] /\ sightings' = sightings /\ old.pc = "count"
    BY DEF Count
  <1>2. cl.pc = "next" /\ cl.seen = found /\ cl.todo = todo
    BY DEF Idle
  <1>3. ASSUME NEW m \in Macs  PROVE SeenInv(cl, m, sightings)
    <2>1. SeenInv(old, m, sightings)
      BY DEF EvidencesInv, EvidenceInv
    <2>2. CASE found[m] = NoRow
      BY <1>2, <2>2 DEF SeenInv, NoRow
    <2>3. CASE found[m] # NoRow
      <3>1. /\ found[m] = old.seen[m]
            /\ old.seen[m].source = "PROXY_UNCONFIRMED" => ~(count'[old.keyOf[m]] < Threshold)
        BY <2>3 DEF Debounced
      <3>2. ASSUME old.seen[m].source = "PROXY_UNCONFIRMED"
            PROVE  sightings[<<old.seen[m].proxy, m>>] = Threshold
        <4>1. PICK k \in AccessPoints \X Clients :
                 k = <<old.seen[m].proxy, m>> /\ k \in Keys /\ old.keyOf[m] = k
          BY <1>1, <2>1, <3>2 DEF SeenInv, Keys, Macs
        <4>2. count'[k] \in 0 .. Threshold /\ ~(count'[k] < Threshold)
          BY <3>1, <3>2, <4>1 DEF CountTypes
        <4>3. Cardinality(Counting(k)') \in Nat
          BY <4>1, FS_CardinalityType DEF SightedInv
        <4>4. sightings[k] = Threshold \/ count'[k] + Cardinality(Counting(k)') =< sightings[k]
          BY <1>1, <4>1 DEF SightedInv
        <4>5. sightings[k] \in 0 .. Threshold
          BY <4>1 DEF IInv, CountTypes
        <4> QED BY <4>1, <4>2, <4>3, <4>4, <4>5, IdentityAssumption
      <3> QED BY <1>2, <2>1, <3>1, <3>2 DEF SeenInv
    <2> QED BY <2>2, <2>3
  <1>4. \A m \in cl.todo : cl.seen[m].source # "none"
    BY <1>2, <1>3 DEF SeenInv
  <1>5. EvidenceInv(cl, sightings)
    BY <1>2, <1>3, <1>4 DEF EvidenceInv
  <1>6. \A v \in Callers : EvidenceInv(Overlap(w)[v], sightings)
    BY EvidenceOverlap DEF IInv, EvidencesInv
  <1> HIDE DEF cl
  <1> QED BY <1>1, <1>5, <1>6 DEF EvidencesInv, Overlap

-----------------------------------------------------------------------------
LEMMA EvidenceAdvance ==
    ASSUME CallersInv, EvidencesInv, NEW w \in Callers, UNCHANGED sightings,
           \/ caller[w].pc # "count" /\ (Advance(w) \/ GiveUp(w))
           \/ caller' = [caller EXCEPT ![w] = Idle]
    PROVE  EvidencesInv'
  <1> DEFINE old == caller[w]
             cl == [Idle EXCEPT !.pc = "next", !.seen = old.seen, !.todo = old.todo]
  <1>1. CASE caller' = [caller EXCEPT ![w] = Idle]
    BY <1>1, EvidenceOfIdle, EvidenceUpdate
  <1>2. CASE old.pc # "count" /\ caller' = [caller EXCEPT ![w] = cl]
    <2>1. old \in Caller /\ EvidenceInv(old, sightings)
      BY DEF CallersInv, EvidencesInv
    <2>2. old.todo \in SUBSET Macs
      BY <2>1 DEF Caller
    <2>3. /\ \A m \in Macs : SeenInv(old, m, sightings)
          /\ \A m \in old.todo : old.seen[m].source # "none"
      BY <2>1 DEF EvidenceInv
    <2>4. EvidenceInv(cl, sightings)
      BY <1>2, <2>2, <2>3, EvidenceOfLoop
    <2> HIDE DEF cl
    <2> QED BY <1>2, <2>4, EvidenceUpdate
  <1> QED BY <1>1, <1>2 DEF Advance, GiveUp

LEMMA EvidenceRead ==
    ASSUME IInv, EvidencesInv, NEW w \in Callers, NEW m \in Macs, Read(w, m)
    PROVE  EvidencesInv'
  <1> DEFINE old == caller[w]
             next == ReconcileIdentity(rows[m], old.seen[m])
             cl == [Idle EXCEPT !.pc = "reread", !.seen = old.seen,
                                !.todo = old.todo \ {m}, !.dev = m,
                                !.first = rows[m], !.next = next]
  <1>1. /\ old \in Caller /\ CallerInv(old) /\ EvidenceInv(old, sightings)
        /\ old.pc = "next" /\ m \in old.todo
    BY DEF IInv, CallersInv, EvidencesInv, Read
  <1>2. GoodRow(m, rows[m]) /\ GoodRow(m, old.seen[m])
    BY <1>1 DEF IInv, RowsInv, CallerInv
  <1>3. next = old.seen[m] \/ (Trusted(rows[m]) /\ next.source = rows[m].source)
    BY <1>2, ReconcileSource
  <1>4. /\ cl.pc = "reread" /\ cl.seen = old.seen /\ cl.todo = old.todo \ {m} /\ cl.dev = m
        /\ cl.first = rows[m] /\ cl.next = next
    BY DEF Idle
  <1>5. caller' = [caller EXCEPT ![w] = cl] /\ UNCHANGED sightings
    BY DEF Read, Frame
  <1> HIDE DEF next, cl
  <1>6. \A x \in Macs : SeenInv(cl, x, sightings)
    BY <1>1, <1>4 DEF EvidenceInv, SeenInv
  <1>7. NextFrom(cl, {cl.seen[cl.dev].source, cl.first.source})
    BY <1>1, <1>3, <1>4 DEF NextFrom, EvidenceInv, Trusted
  <1>8. EvidenceInv(cl, sightings)
    BY <1>1, <1>4, <1>6, <1>7 DEF EvidenceInv
  <1> QED BY <1>5, <1>8, EvidenceUpdate DEF IInv

LEMMA EvidenceReread ==
    ASSUME IInv, EvidencesInv, NEW w \in Callers, Reread(w)
    PROVE  EvidencesInv'
  <1> DEFINE old == caller[w]
             m == old.dev
             row == rows[m]
             next == ReconcileIdentity(row, old.next)
             cl == [old EXCEPT !.pc = "check", !.existing = row, !.next = next]
  <1>1. /\ old \in Caller /\ CallerInv(old) /\ EvidenceInv(old, sightings)
        /\ old.pc = "reread"
    BY DEF IInv, CallersInv, EvidencesInv, Reread
  <1>2. m \in Macs /\ GoodRow(m, row) /\ GoodRow(m, old.next)
    BY <1>1 DEF IInv, RowsInv, CallerInv, Working
  <1>3. next = old.next \/ (Trusted(row) /\ next.source = row.source)
    BY <1>2, ReconcileSource
  <1>4. /\ cl.pc = "check" /\ cl.seen = old.seen /\ cl.todo = old.todo /\ cl.dev = m
        /\ cl.first = old.first /\ cl.existing = row /\ cl.next = next
    BY <1>1 DEF Caller
  <1>5. caller' = [caller EXCEPT ![w] = cl] /\ UNCHANGED sightings
    BY DEF Reread, Frame
  <1>6. NextFrom(old, {old.seen[m].source, old.first.source})
    BY <1>1 DEF EvidenceInv
  <1> HIDE DEF next, row, cl
  <1>7. \A x \in Macs : SeenInv(cl, x, sightings)
    BY <1>1, <1>4 DEF EvidenceInv, SeenInv
  <1>8. NextFrom(cl, {cl.seen[cl.dev].source, cl.first.source, cl.existing.source})
    BY <1>3, <1>4, <1>6 DEF NextFrom, Trusted
  <1>9. EvidenceInv(cl, sightings)
    BY <1>1, <1>4, <1>7, <1>8 DEF EvidenceInv
  <1> QED BY <1>5, <1>9, EvidenceUpdate DEF IInv

\* The second check of the access points, and the way to demoting one.
LEMMA EvidenceGoesOn ==
    ASSUME IInv, EvidencesInv, NEW w \in Callers, UNCHANGED sightings,
           \/ caller[w].pc = "check" /\ caller' = [caller EXCEPT ![w].pc = "write"]
           \/ caller[w].pc = "write" /\ caller' = [caller EXCEPT ![w].pc = "demote"]
    PROVE  EvidencesInv'
  <1> DEFINE old == caller[w]
  <1>1. old \in Caller /\ EvidenceInv(old, sightings)
    BY DEF IInv, CallersInv, EvidencesInv
  <1>2. PICK pc : /\ pc \in {"write", "demote"} /\ old.pc \in {"check", "write"}
                  /\ caller' = [caller EXCEPT ![w].pc = pc]
    OBVIOUS
  <1> DEFINE cl == [old EXCEPT !.pc = pc]
  <1>3. /\ cl.pc = pc /\ cl.seen = old.seen /\ cl.todo = old.todo /\ cl.dev = old.dev
        /\ cl.first = old.first /\ cl.existing = old.existing /\ cl.next = old.next
    BY <1>1 DEF Caller
  <1>4. caller' = [caller EXCEPT ![w] = cl]
    BY <1>2 DEF IInv, CallersInv
  <1> HIDE DEF cl
  <1>5. \A x \in Macs : SeenInv(cl, x, sightings)
    BY <1>1, <1>2, <1>3 DEF EvidenceInv, SeenInv
  <1>6. EvidenceInv(cl, sightings)
    BY <1>1, <1>2, <1>3, <1>5 DEF EvidenceInv, NextFrom
  <1> QED BY <1>4, <1>6, EvidenceUpdate DEF IInv

LEMMA EvidenceStep ==
    ASSUME IInv, IInv', SightedInv', EvidencesInv, [Next]_vars
    PROVE  EvidencesInv'
  <1> USE DEF IInv
  <1>1. CASE NetworkStep \/ AdminStep \/ UNCHANGED vars
    <2>1. UNCHANGED <<caller, sightings>>
      BY <1>1 DEF NetworkStep, LeaseChange, CaptureChange, RenewalChange, NeighborChange,
                  NetworkFrame, AdminStep, AcceptRead, AcceptWrite, vars
    <2> QED BY <2>1 DEF EvidencesInv
  <1>2. CASE Restart
    BY <1>2, EvidenceOfIdle DEF Restart, EvidencesInv
  <1>3. CASE OtherDiscovery
    BY <1>3, EvidenceOther
  <1>4. ASSUME NEW w \in Callers, Discover(w)  PROVE EvidencesInv'
    BY <1>4, EvidenceDiscover
  <1>5. ASSUME NEW w \in Callers, Count(w)  PROVE EvidencesInv'
    BY <1>5, EvidenceCount
  <1>6. ASSUME NEW w \in Callers, LoopStep(w)  PROVE EvidencesInv'
    <2>1. CASE \E m \in Macs : Read(w, m)
      BY <2>1, EvidenceRead
    <2>2. CASE Reread(w)
      BY <2>2, EvidenceReread
    <2>3. CASE Check(w)
      BY <2>3, EvidenceGoesOn DEF Check, Frame
    <2>4. CASE Refused(w)
      BY <2>4, EvidenceAdvance DEF Refused, Frame
    <2>5. CASE Write(w)
      <3>1. caller[w].pc = "write" /\ UNCHANGED sightings
        BY <2>5 DEF Write, Frame
      <3>2. CASE caller' = [caller EXCEPT ![w].pc = "demote"]
        BY <3>1, <3>2, EvidenceGoesOn
      <3>3. CASE Advance(w)
        BY <3>1, <3>3, EvidenceAdvance
      <3> QED BY <2>5, <3>2, <3>3 DEF Write
    <2>6. CASE Demote(w)
      BY <2>6, EvidenceAdvance DEF Demote, Frame
    <2>7. CASE Finish(w)
      BY <2>7, EvidenceAdvance DEF Finish, Frame
    <2>8. CASE CallerFails(w)
      BY <2>8, EvidenceAdvance DEF CallerFails, Frame
    <2> QED BY <1>6, <2>1, <2>2, <2>3, <2>4, <2>5, <2>6, <2>7, <2>8 DEF LoopStep
  <1> QED BY <1>1, <1>2, <1>3, <1>4, <1>5, <1>6, NextCases

-----------------------------------------------------------------------------
\* EvidencePrecedesTrust, of one device in one step.
Vouched(m) ==
    \/ /\ rows'[m].source = "DHCP_CONFIRMED_PROXY"
       /\ \E w \in Callers :
             Writes(w, m) /\ rows'[m].source \in
                 {caller[w].seen[m].source, caller[w].first.source, caller[w].existing.source}
    \/ /\ rows'[m].source = "PROXY_ACCEPTED_BY_ADMIN"
       /\ \/ admin.pc = "write" /\ admin.dev = m
          \/ \E w \in Callers :
                Writes(w, m) /\ rows'[m].source \in
                    {caller[w].first.source, caller[w].existing.source}
    \/ /\ rows'[m].source = "PROXY_UNCONFIRMED"
       /\ sightings[<<rows'[m].proxy, m>>] = Threshold
    \/ rows'[m].source \in {"DHCP", "STATIC_ARP"}

EvidencePrecedesTrustStep ==
    \A m \in Macs : rows'[m].source # rows[m].source => Vouched(m)

\* A write that moves on writes.
LEMMA WriteMoves ==
    ASSUME CallersInv, NEW w \in Callers, Write(w)
    PROVE  Writes(w, caller[w].dev)
  <1>1. caller[w] \in Caller /\ caller[w].pc = "write"
    BY DEF CallersInv, Write
  <1>2. caller'[w].pc \in {"demote", "next"}
    <2>1. CASE caller' = [caller EXCEPT ![w].pc = "demote"]
      BY <2>1, <1>1 DEF CallersInv, Caller
    <2>2. CASE Advance(w)
      BY <2>2 DEF Advance, CallersInv, Idle
    <2> QED BY <2>1, <2>2 DEF Write
  <1> QED BY <1>1, <1>2 DEF Writes

LEMMA WriteIsVouched ==
    ASSUME IInv, EvidencesInv, NEW w \in Callers, Write(w)
    PROVE  EvidencePrecedesTrustStep
  <1> DEFINE old == caller[w]
             m == old.dev
  <1>1. /\ old \in Caller /\ CallerInv(old) /\ EvidenceInv(old, sightings)
        /\ old.pc = "write" /\ m \in Macs
    BY DEF IInv, CallersInv, CallerInv, EvidencesInv, Working, Write
  <1>2. NextFrom(old, {old.seen[m].source, old.first.source, old.existing.source})
    BY <1>1 DEF EvidenceInv
  <1>3. SeenInv(old, m, sightings)
    BY <1>1 DEF EvidenceInv
  <1>4. rows'[m] = old.next /\ \A x \in Macs \ {m} : rows'[x] = rows[x]
    BY <1>1 DEF Write, IInv, RowsInv
  <1>5. old.next.source \in Sources
    BY <1>1, <1>2 DEF Caller, Row, NextFrom
  <1>6. Writes(w, m)
    BY WriteMoves DEF IInv
  <1> HIDE DEF m, old
  <1>7. Vouched(m)
    <2>1. CASE old.next.source \in {"DHCP_CONFIRMED_PROXY", "DHCP", "STATIC_ARP"}
      BY <1>2, <1>4, <1>6, <2>1 DEF NextFrom, Vouched, old
    <2>2. CASE old.next.source = "PROXY_ACCEPTED_BY_ADMIN"
      BY <1>2, <1>3, <1>4, <1>6, <2>2 DEF NextFrom, SeenInv, Vouched, old
    <2>3. CASE old.next.source = "PROXY_UNCONFIRMED"
      <3>1. old.next = old.seen[m]
        BY <1>2, <2>3 DEF NextFrom, m
      <3>2. sightings[<<old.next.proxy, m>>] = Threshold
        BY <1>1, <1>3, <2>3, <3>1 DEF SeenInv
      <3> QED BY <1>4, <2>3, <3>2 DEF Vouched
    <2> QED BY <1>5, <2>1, <2>2, <2>3 DEF Sources
  <1> QED BY <1>4, <1>7 DEF EvidencePrecedesTrustStep

LEMMA NextIsVouched ==
    ASSUME IInv, EvidencesInv, [Next]_vars
    PROVE  EvidencePrecedesTrustStep
  <1>1. CASE UNCHANGED rows
    BY <1>1 DEF EvidencePrecedesTrustStep
  <1>2. CASE NetworkStep \/ OtherDiscovery \/ Restart \/ UNCHANGED vars
    BY <1>1, <1>2 DEF NetworkStep, LeaseChange, CaptureChange, RenewalChange,
                      NeighborChange, NetworkFrame, OtherDiscovery, Restart, vars
  <1>3. CASE AdminStep
    <2>1. CASE AcceptWrite
      <3>1. admin.pc = "write" /\ admin.dev \in Macs
        BY <2>1 DEF AcceptWrite, IInv, AdminInv
      <3>2. /\ rows'[admin.dev].source = "PROXY_ACCEPTED_BY_ADMIN"
            /\ \A m \in Macs \ {admin.dev} : rows'[m] = rows[m]
        BY <2>1, <3>1 DEF AcceptWrite, IInv, RowsInv, Row
      <3> QED BY <3>1, <3>2 DEF EvidencePrecedesTrustStep, Vouched
    <2>2. CASE \E m \in Macs : AcceptRead(m)
      BY <1>1, <2>2 DEF AcceptRead
    <2> QED BY <1>3, <2>1, <2>2 DEF AdminStep
  <1>4. ASSUME NEW w \in Callers, Discover(w) \/ Count(w)  PROVE EvidencePrecedesTrustStep
    BY <1>1, <1>4 DEF Discover, Count
  <1>5. ASSUME NEW w \in Callers, Demote(w)  PROVE EvidencePrecedesTrustStep
    <2> DEFINE ap == caller[w].seen[caller[w].dev].proxy
    <2> DEFINE row == [rows[ap] EXCEPT !.validated = FALSE, !.visible = FALSE]
    <2>1. ap \in Macs
      BY <1>5 DEF IInv, CallersInv, CallerInv, Demote, Macs
    <2>2. row.source = rows[ap].source
      BY <2>1 DEF IInv, RowsInv, Row
    <2>3. rows' = rows \/ rows' = [rows EXCEPT ![ap] = row]
      BY <1>5, <2>1 DEF Demote, IInv, RowsInv
    <2> HIDE DEF row, ap
    <2>4. \A m \in Macs : rows'[m].source = rows[m].source
      BY <2>1, <2>2, <2>3 DEF IInv, RowsInv
    <2> QED BY <2>4 DEF EvidencePrecedesTrustStep
  <1>6. ASSUME NEW w \in Callers, LoopStep(w)  PROVE EvidencePrecedesTrustStep
    BY <1>1, <1>5, <1>6, WriteIsVouched
       DEF LoopStep, Read, Reread, Check, Refused, Finish, CallerFails
  <1> QED BY <1>2, <1>3, <1>4, <1>6, NextCases

\* EvidencePrecedesTrust: nobody is confirmed without a capture, accepted without
\* the administrator, or put up for acceptance before Threshold sightings of the
\* access point, however many discoveries count at the same time.
THEOREM TrustNeedsEvidence == Spec => EvidencePrecedesTrust
  <1> DEFINE Inv == IInv /\ SightedInv /\ EvidencesInv
  <1>1. Init => Inv
    BY InitInv, SightedInit, EvidencesInit
  <1>2. Inv /\ [Next]_vars => Inv'
    <2>1. IInv /\ SightedInv /\ [Next]_vars => IInv' /\ SightedInv'
      BY StepInv, SightedStep
    <2> QED BY <2>1, EvidenceStep
  <1>3. Inv /\ [Next]_vars => [EvidencePrecedesTrustStep]_vars
    BY NextIsVouched
  <1> QED BY <1>1, <1>2, <1>3, PTL DEF Spec, EvidencePrecedesTrust,
             EvidencePrecedesTrustStep, Vouched
=============================================================================
